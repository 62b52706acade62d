SPECIFICATION FairSpec
CONSTANTS
  Waypoints = 3
  p1 = p1
  base = base
  Registry <- MCRegistry
  Peers = {p1}
  InfoGain <- MCInfoGain
  PeerPlaces = {0, 1}
  Commands = {"RECALL_FOR_UPDATE"}
PROPERTY SurvivorSeesAll
