----------------------------- MODULE MCGameServer -----------------------------
EXTENDS GameServer, TLC

CONSTANTS c1, c2, c3, cruiser

OneShip == [s \in Ship |-> 1]
Twins   == Permutations(Client)
===============================================================================
