-------------------------------- MODULE MCRooms --------------------------------
EXTENDS Rooms, TLC

Symmetry == Permutations(Clients)
================================================================================
