-------------------------------- MODULE MCTasking -------------------------------
(* Values on both sides of every threshold *)
EXTENDS Tasking

MCRequests ==
  [type : {"spray"}, priority : {5, 8, 10}, seenAs : {"weed"},
   confidence : {40, 65, 90}, committed : {0, 8}, total : {10}, near : BOOLEAN]
  \cup
  [type : {"investigate"}, priority : {5, 8, 10}, seenAs : {"weed"},
   confidence : {90}, committed : {0}, total : {10}, near : {FALSE}]

Located ==
  [type : {"investigate", "mark"}, priority : {1, 9}, near : {<<8, 8>>}, deadline : {"none"},
   detected : {TRUE}]

Photos ==
  [type : {"photograph"}, priority : {5}, near : {<<0, 0>>, <<8, 8>>}, deadline : {"near"},
   detected : {FALSE}]
  \cup
  [type : {"photograph"}, priority : {9}, near : {<<0, 0>>}, deadline : {"past"},
   detected : {FALSE}]

Question(tasks, payload, available, instance) ==
  [tasks |-> tasks,
   drones |-> [d \in 1..2 |-> [battery |-> 6, payload |-> payload, at |-> 1,
                              capable |-> {"investigate", "mark", "photograph"}]],
   me |-> 2, available |-> available, mode |-> "degraded", load |-> 9, instance |-> instance]

\* Missions with three tasks where the rules of engagement are in force; four tasks
\* of a kind, with and without payload, where they are not, or for an unknown instance.
MCQuestions ==
  {Question(<<t, u, v>>, 5, n, "athena") :
     t \in Located, u \in Located, v \in Photos, n \in {1, 2}}
  \cup
  {Question(<<t, t, t, t>>, p, n, i) :
     t \in Located, p \in {0, 5}, n \in {1}, i \in {"unlisted", "vulcan"}}
===============================================================================
