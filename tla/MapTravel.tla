------------------------------ MODULE MapTravel ------------------------------
(***************************************************************************)
(* The way of a map from the squares a client chooses to the answers the    *)
(* opponent gets: the two ways of Example.cpp to make a map, by hand and    *)
(* with ShipData; the array SUBMIT_MAP carries, row by row; the array       *)
(* HandleSubmitMapRequest fills, column by column; Player's copy of it; and *)
(* the squares MakeAttackPos picks on gEnemyMap.                            *)
(* GameServer abstracts all this by module Board, which this one justifies. *)
(***************************************************************************)
EXTENDS Integers, Sequences, FiniteSetsExt, Functions

CONSTANTS Side,         \* MAP_WIDTH and MAP_HEIGHT, which are the same
          Ship,         \* the ship values of MapDataTypes and of MapInfo
          ShipLength    \* SHIP_LEN

ASSUME MapAssumption ==
    /\ Side \in Nat \ {0}
    /\ IsFiniteSet(Ship) /\ Ship \subseteq 1 .. 5
    /\ ShipLength \in [Ship -> 1 .. Side - 1]

VARIABLES step,         \* "placing", "sending", "playing", "over" or "refused"
          way,          \* how the client makes its map
          map,          \* its map of what it has placed: mapData, or map
          ship,         \* its ShipData: the coordinates of each ship
          packet,       \* mMap of the SubmitMapRequest
          info,         \* the player's info_
          didAttacked,  \* its didAttacked_
          gEnemyMap,    \* the opponent's, the squares it has attacked
          answer,       \* what the opponent was told of its last attack
          placed        \* what the client meant: the squares of each ship

server == <<info, didAttacked>>
vars == <<step, way, map, ship, packet, server, gEnemyMap, answer, placed>>

MI_EMPTY == 0
Index    == 0 .. Side * Side - 1
Line     == 0 .. Side - 1
Square   == Line \X Line

\* Arrays [x][y] are functions on squares.
NoInfo   == [c \in Square |-> MI_EMPTY]
NoMap    == [i \in Index |-> MI_EMPTY]
NoShips  == [s \in Ship |-> << >>]
NoAnswer == <<>>

\* MakeMapData writes the array; MakeMapData2 fills a ShipData, square by square
\* (SetShipCoord, SetShip of an array, GetShipCoordArray) or from a start and a
\* direction, in any of the notations Coord knows: numbers, or a letter and a
\* digit.
Notation == {[x |-> 0, y |-> 0], [x |-> 97, y |-> 49], [x |-> 65, y |-> 49]}
Way == {[by |-> "MakeMapData"]}
       \cup [by : {"SetShipCoord", "SetShip"}, notation : Notation]

Init ==
    /\ step = "placing" /\ way \in Way
    /\ map = NoMap /\ ship = NoShips /\ packet = NoMap
    /\ info = NoInfo /\ didAttacked = {}
    /\ gEnemyMap = {} /\ answer = NoAnswer
    /\ placed = [s \in Ship |-> {}]

------------------------------------------------------------------------------
(* The client's map. *)

Unplaced == {s \in Ship : placed[s] = {}}

\* The squares of a ship that starts at <<sx, sy>>.
Course(s, dir, sx, sy) ==
    [i \in 1 .. ShipLength[s] |->
       IF dir = "horizontal" THEN <<sx + i - 1, sy>> ELSE <<sx, sy + i - 1>>]

StartsOf(s, dir) ==
    IF dir = "horizontal" THEN (0 .. Side - ShipLength[s] - 1) \X Line
                          ELSE Line \X (0 .. Side - ShipLength[s] - 1)

At(c) == c[1] + c[2] * Side

\* ShipData's array of a ship.  SetShip(type, startCoord, dir) counts the start
\* up in the notation it is written in; the others store each square.
Written(s, dir, sx, sy) ==
    LET n == way.notation
    IN  IF way.by = "SetShip" THEN Course(s, dir, sx + n.x, sy + n.y)
        ELSE [i \in 1 .. ShipLength[s] |->
                LET c == Course(s, dir, sx, sy)[i] IN <<c[1] + n.x, c[2] + n.y>>]

\* The ships are placed in order, each at a place that is drawn until its
\* squares are free.
PlaceShip ==
    /\ step = "placing" /\ Unplaced # {}
    /\ LET s == Min(Unplaced)
       IN  \E dir \in {"horizontal", "vertical"} : \E start \in StartsOf(s, dir) :
              LET squares == Course(s, dir, start[1], start[2])
                  cells == {At(squares[i]) : i \in 1 .. ShipLength[s]}
              IN  /\ \A c \in cells : map[c] = MI_EMPTY
                  /\ map' = [c \in Index |-> IF c \in cells THEN s ELSE map[c]]
                  /\ ship' = IF way.by = "MakeMapData" THEN ship
                             ELSE [ship EXCEPT ![s] = Written(s, dir, start[1], start[2])]
                  /\ placed' = [placed EXCEPT ![s] = {squares[i] : i \in 1 .. ShipLength[s]}]
    /\ UNCHANGED <<step, way, packet, server, gEnemyMap, answer>>

\* Coord::Intigerize, of one coordinate: letters, capitals and digits.
Intigerized(v) ==
    IF v \in 65 .. 90 THEN v - 65
    ELSE IF v \in 97 .. 122 THEN v - 97
    ELSE IF v \in 49 .. 57 THEN v - 49 ELSE v

\* ShipData::ToMapData: the ships are written in order, the last one stays.
ToMapData(ships) ==
    [c \in Index |->
       Max({MI_EMPTY} \cup {s \in Ship : \E i \in 1 .. Len(ships[s]) :
              c = Intigerized(ships[s][i][1]) + Intigerized(ships[s][i][2]) * Side})]

\* SubmitMap copies the array; what made it is local to MakeMapData.
Submit ==
    /\ step = "placing" /\ Unplaced = {} /\ step' = "sending"
    /\ packet' = IF way.by = "MakeMapData" THEN map ELSE ToMapData(ship)
    /\ map' = NoMap /\ ship' = NoShips /\ way' = [by |-> "MakeMapData"]
    /\ UNCHANGED <<server, gEnemyMap, answer, placed>>

------------------------------------------------------------------------------
(* The server. *)

\* Mutant: the array is taken as it comes.
Received_AsSent(p) == [c \in Square |-> p[c[1] * Side + c[2]]]

\* mMap[l][i] = inPacket.mMap[i * MAP_WIDTH + l].
Received(p) == [c \in Square |-> p[c[2] * Side + c[1]]]

\* CheckCount.
Count(m, s) == Cardinality({c \in Square : m[c] = s})
CountsRight(m) ==
    /\ \A s \in Ship : Count(m, s) = ShipLength[s]
    /\ Count(m, MI_EMPTY) = Side * Side - SumFunction(ShipLength)

HandleSubmitMapRequest ==
    /\ step = "sending"
    /\ LET m == Received(packet)
       IN  IF CountsRight(m)
             THEN step' = "playing" /\ info' = m /\ didAttacked' = {}
             ELSE step' = "refused" /\ UNCHANGED server
    /\ packet' = NoMap
    /\ UNCHANGED <<way, map, ship, gEnemyMap, answer, placed>>

\* AR_NONE, AR_MISS, AR_HIT and AR_DESTROY_..., which does not tell the two
\* destroyers, 4 and 5, apart.
AR_NONE == 0
AR_MISS == 1
AR_HIT  == 2
AR_DESTROY(s) == IF s = 5 THEN 6 ELSE s + 2

\* Mutant: the squares attacked are looked up the other way round.
IsShipDestroyed_Turned(s, attacked) ==
    \A c \in Square : info[c] = s => <<c[2], c[1]>> \in attacked

\* IsShipDestoryed, when the squares of attacked have been.
IsShipDestroyed(s, attacked) ==
    \A c \in Square : info[c] = s => c \in attacked

IsGameEnd(attacked) == \A s \in Ship : IsShipDestroyed(s, attacked)

\* Mutant: the ship is looked at before the square is marked.
AttackResult_Early(c) ==
    IF info[c] = MI_EMPTY THEN AR_MISS
    ELSE IF IsShipDestroyed(info[c], didAttacked) THEN AR_DESTROY(info[c])
    ELSE AR_HIT

\* What AttackAndGetResult answers; the range test admits Side itself, where
\* the arrays have ended, which MakeAttackPos never picks.
AttackResult(c) ==
    IF c[1] < 0 \/ c[1] > Side \/ c[2] < 0 \/ c[2] > Side \/ c \in didAttacked
      THEN AR_NONE
    ELSE IF info[c] = MI_EMPTY THEN AR_MISS
    ELSE IF IsShipDestroyed(info[c], didAttacked \cup {c}) THEN AR_DESTROY(info[c])
    ELSE AR_HIT

------------------------------------------------------------------------------
(* The opponent. *)

\* Mutant: the array is indexed the other way round.
Marked_Turned(c) == gEnemyMap \cup {<<c[2], c[1]>>}

\* HandleMyAttackResult.
Marked(c) == gEnemyMap \cup {c}

\* MakeAttackPos draws until it has a square that is not marked; the attack is
\* answered, and the answer handled, before the next turn.
Attack ==
    /\ step = "playing"
    /\ \E c \in Square \ gEnemyMap :
          /\ didAttacked' = didAttacked \cup {c}
          /\ answer' = [at |-> c, result |-> AttackResult(c)]
          /\ gEnemyMap' = Marked(c)
          /\ step' = IF IsGameEnd(didAttacked \cup {c}) THEN "over" ELSE "playing"
    /\ UNCHANGED <<way, map, ship, packet, info, placed>>

Next == PlaceShip \/ Submit \/ HandleSubmitMapRequest \/ Attack

Spec == Init /\ [][Next]_vars

\* The client and the server go on.
FairSpec == Spec /\ WF_vars(Next)

------------------------------------------------------------------------------
(* Properties. *)

Coordinate == 0 .. 127

\* Types.
TypeOK ==
    /\ step \in {"placing", "sending", "playing", "over", "refused"}
    /\ way \in Way
    /\ map \in [Index -> Ship \cup {MI_EMPTY}]
    /\ packet \in [Index -> Ship \cup {MI_EMPTY}]
    /\ info \in [Square -> Ship \cup {MI_EMPTY}]
    /\ \A s \in Ship : ship[s] \in Seq(Coordinate \X Coordinate)
    /\ didAttacked \subseteq Square /\ gEnemyMap \subseteq Square
    /\ placed \in [Ship -> SUBSET Square]

\* The state has its types, and the server's square <<x, y>> has the ship that
\* the client put at <<x, y>>, whatever way and notation the map was made in,
\* through two changes between rows and columns.
MapArrives ==
    /\ TypeOK
    /\ step \in {"playing", "over"} =>
        \A s \in Ship : {c \in Square : info[c] = s} = placed[s]

\* The opponent is told the truth about the ships as they were placed: a miss,
\* a hit, or which ship the last hit sank; and never AR_NONE, since it marks
\* the square that the server marks.
AnswersTrue ==
    answer # NoAnswer =>
        LET hits == {s \in Ship : answer.at \in placed[s]}
        IN  \/ hits = {} /\ answer.result = AR_MISS
            \/ \E s \in hits : answer.result = IF placed[s] \subseteq didAttacked
                                                 THEN AR_DESTROY(s) ELSE AR_HIT

\* The map is accepted and the game comes to its end: there is room for every
\* ship however the others lie, the server counts what it expects (ET_INVALID_MAP
\* is never answered), and no square is attacked for ever.
GameEnds == <>(step = "over")

\* The board that GameServer works with, square by square, flat.
Flat == [i \in Index |-> info[<<i \div Side, i % Side>>]]

B == INSTANCE Board WITH Width <- Side, Height <- Side, Empty <- MI_EMPTY

Cells(S) == {c[1] * Side + c[2] : c \in S}

\* Attack for attack the player's board is Board's: the marks, the end of the
\* game, and the answer, by which AR_DESTROY is of a ship of that length.
ImplementsBoard ==
    [][ LET b == [info |-> Flat, hit |-> Cells(didAttacked)]
        IN  didAttacked' # didAttacked =>
             \E c \in Index :
                /\ Cells(didAttacked') = B!Attack(b, c).hit
                /\ step' = "over" <=> B!IsGameEnd(B!Attack(b, c))
                /\ B!AttackResult(b, c) =
                     CASE answer'.result = AR_NONE -> B!AR_NONE
                       [] answer'.result = AR_MISS -> B!AR_MISS
                       [] answer'.result = AR_HIT  -> B!AR_HIT
                       [] answer'.result > AR_HIT  ->
                            B!Destroyed(CHOOSE s \in Ship : AR_DESTROY(s) = answer'.result)
      ]_vars
==============================================================================
