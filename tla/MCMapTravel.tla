----------------------------- MODULE MCMapTravel -----------------------------
EXTENDS MapTravel

\* A cruiser of two squares and two destroyers of one.
SmallShips == [s \in Ship |-> IF s = 3 THEN 2 ELSE 1]
==============================================================================
