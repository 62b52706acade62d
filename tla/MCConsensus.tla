------------------------------- MODULE MCConsensus ------------------------------
EXTENDS Consensus, TLC

CONSTANTS d1, d2, d3

Alike == Permutations(Drones)
================================================================================
