-------------------------------- MODULE Board --------------------------------
(***************************************************************************)
(* A player's board (Player.h, Player.cpp): the map, the squares attacked, *)
(* the answer to an attack and the end of a game.  info_ and didAttacked_  *)
(* are arrays [Width][Height], held here flat: square <<x, y>> is cell     *)
(* x * Height + y, as the compiler lays it out.  A map travels row by row,  *)
(* and HandleSubmitMapRequest turns mMap[y * MAP_WIDTH + x] into [x][y]: a  *)
(* cell is the same square for both sides.  Attacks are on the board, where *)
(* AttackAndGetResult's test of the coordinates always holds: those of the  *)
(* example client are.                                                      *)
(***************************************************************************)
EXTENDS Integers, FiniteSets

CONSTANTS Width, Height,    \* MAP_WIDTH, MAP_HEIGHT
          Ship,             \* the ship values of MapInfo
          ShipLength,       \* AIRCRAFT_LENGTH and its like, by ship
          Empty             \* MI_EMPTY

ASSUME BoardAssumption ==
    /\ Width \in Nat \ {0} /\ Height \in Nat \ {0}
    /\ Empty \notin Ship
    /\ ShipLength \in [Ship -> Nat \ {0}]

Cell == 0 .. Width * Height - 1
Maps == [Cell -> Ship \cup {Empty}]

CellsOf(info, s) == {c \in Cell : info[c] = s}

\* The counts HandleSubmitMapRequest insists on.  Nothing asks that a ship's
\* squares be in a line.
ValidMap(info) ==
    \A s \in Ship : Cardinality(CellsOf(info, s)) = ShipLength[s]

\* A board: the map last submitted and the cells attacked since.
NoMap == [info |-> [c \in Cell |-> Empty], hit |-> {}]
SetMap(info) == [info |-> info, hit |-> {}]

IsShipDestroyed(b, s) == CellsOf(b.info, s) \subseteq b.hit
IsGameEnd(b) == \A s \in Ship : IsShipDestroyed(b, s)

\* What AttackAndGetResult answers.  AR_DESTROY_<ship> does not tell
\* the two destroyers apart: ships of a length share their name.
AR_NONE == <<"AR_NONE">>
AR_MISS == <<"AR_MISS">>
AR_HIT  == <<"AR_HIT">>
Destroyed(s) == <<"AR_DESTROY", ShipLength[s]>>

Attack(b, c) == IF c \in b.hit THEN b ELSE [b EXCEPT !.hit = b.hit \cup {c}]

AttackResult(b, c) ==
    IF c \in b.hit THEN AR_NONE
    ELSE IF b.info[c] = Empty THEN AR_MISS
    ELSE IF IsShipDestroyed(Attack(b, c), b.info[c]) THEN Destroyed(b.info[c])
    ELSE AR_HIT
==============================================================================
