--------------------------- MODULE MapDisplayProofs ---------------------------
(***************************************************************************)
(* The two parts beside the network: a map on its way, and the window.     *)
(*                                                                         *)
(* A map arrives as it was meant, every attack is answered truly, and the  *)
(* arrays of the server are the flat board GameServer works with: for      *)
(* every set of ships, every length of theirs and every side a digit can   *)
(* name.                                                                   *)
(*                                                                         *)
(* What the window holds is of one device, and no object but two brushes   *)
(* loses its last pointer: for any number of devices, faults and messages. *)
(***************************************************************************)
EXTENDS MapTravel, Display, FiniteSetTheorems, TLAPS

USE MapAssumption, DisplayAssumption DEF MapAssumption, DisplayAssumption

------------------------------------------------------------------------------
(* The map. *)

\* A place in an array of rows names one square.
LEMMA RowsInRange ==
    ASSUME NEW x \in Line, NEW y \in Line
    PROVE  x + y * Side \in Index /\ x + y * Side = y * Side + x
<1>1. /\ x \in Nat /\ y \in Nat /\ Side \in Nat /\ x <= Side - 1 /\ y <= Side - 1
      /\ y * Side \in Nat
  BY DEF Line
<1>2. y * Side <= (Side - 1) * Side
  BY <1>1
<1>3. (Side - 1) * Side = Side * Side - Side
  BY <1>1
<1>4. Side * Side \in Nat
  BY <1>1
<1> QED BY <1>1, <1>2, <1>3, <1>4 DEF Index

LEMMA SameRow ==
    ASSUME NEW x \in Line, NEW y \in Line, NEW u \in Line, NEW v \in Line,
           x + y * Side = u + v * Side
    PROVE  x = u /\ y = v
<1>1. ASSUME NEW a \in Line, NEW b \in Line, NEW c \in Line, NEW d \in Line, b < d
      PROVE  a + b * Side < c + d * Side
  <2>1. /\ a \in Nat /\ b \in Nat /\ c \in Nat /\ d \in Nat /\ Side \in Nat
        /\ a <= Side - 1 /\ b + 1 <= d /\ b * Side \in Nat /\ d * Side \in Nat
    BY <1>1 DEF Line
  <2>2. (b + 1) * Side <= d * Side
    BY <2>1
  <2>3. (b + 1) * Side = b * Side + Side
    BY <2>1
  <2> QED BY <2>1, <2>2, <2>3
<1>2. /\ x \in Nat /\ y \in Nat /\ u \in Nat /\ v \in Nat
      /\ x + y * Side \in Nat /\ u + v * Side \in Nat
  BY DEF Line
<1>3. ~(y < v) /\ ~(v < y)
  BY <1>1, <1>2
<1>4. y = v
  BY <1>2, <1>3
<1> QED BY <1>2, <1>4

\* And every place names a square.
LEMMA PlaceDecodes ==
    ASSUME NEW i \in Index
    PROVE  i \div Side \in Line /\ i % Side \in Line /\ i = (i \div Side) * Side + (i % Side)
<1>1. i \in Nat /\ Side \in Nat /\ Side > 0 /\ i < Side * Side
  BY DEF Index
<1>2. /\ i % Side \in 0 .. Side - 1 /\ i \div Side \in Nat
      /\ i = Side * (i \div Side) + (i % Side)
  BY <1>1
<1>3. i \div Side <= Side - 1
  <2> DEFINE d == i \div Side
  <2>1. d \in Nat /\ Side * d <= i
    BY <1>1, <1>2
  <2> HIDE DEF d
  <2>2. SUFFICES ASSUME d >= Side PROVE FALSE
    BY <1>1, <2>1 DEF d
  <2>3. Side * d >= Side * Side
    BY <1>1, <2>1, <2>2
  <2> QED BY <1>1, <2>1, <2>3
<1> QED BY <1>1, <1>2, <1>3 DEF Line

\* The squares, by place.
LEMMA AtSquare ==
    /\ \A c \in Square : /\ At(c) \in Index /\ c[1] \in Line /\ c[2] \in Line
                         /\ c = <<c[1], c[2]>> /\ At(c) = c[2] * Side + c[1]
    /\ \A c, d \in Square : At(c) = At(d) => c = d
<1>1. \A c \in Square : c[1] \in Line /\ c[2] \in Line /\ c = <<c[1], c[2]>>
  BY DEF Square
<1>2. \A c \in Square : At(c) \in Index /\ At(c) = c[2] * Side + c[1]
  BY <1>1, RowsInRange DEF At
<1>3. ASSUME NEW c \in Square, NEW d \in Square, At(c) = At(d) PROVE c = d
  <2>1. c[1] = d[1] /\ c[2] = d[2]
    BY <1>1, <1>3, SameRow DEF At
  <2> QED BY <1>1, <2>1
<1> QED BY <1>1, <1>2, <1>3

\* Least and greatest of a few ship values.
LEMMA LeastShip ==
    ASSUME NEW S \in SUBSET (1 .. 5), S # {} PROVE Min(S) \in S
<1>1. \E x \in S : \A y \in S : x <= y
  <2>1. \A y \in S : y \in 1 .. 5
    OBVIOUS
  <2>2. CASE 1 \in S  BY <2>1, <2>2
  <2>3. CASE 1 \notin S /\ 2 \in S  BY <2>1, <2>3
  <2>4. CASE 1 \notin S /\ 2 \notin S /\ 3 \in S  BY <2>1, <2>4
  <2>5. CASE 1 \notin S /\ 2 \notin S /\ 3 \notin S /\ 4 \in S  BY <2>1, <2>5
  <2>6. CASE 1 \notin S /\ 2 \notin S /\ 3 \notin S /\ 4 \notin S
    <3>1. ASSUME NEW y \in S PROVE y = 5
      <4>1. y # 1 /\ y # 2 /\ y # 3 /\ y # 4
        BY <2>6
      <4> QED BY <2>1, <4>1
    <3>2. PICK x \in S : TRUE
      OBVIOUS
    <3>3. x = 5 /\ \A y \in S : x <= y
      BY <3>1, <3>2
    <3> QED BY <3>3
  <2> QED BY <2>2, <2>3, <2>4, <2>5, <2>6
<1> QED BY <1>1 DEF Min

LEMMA OnlyShip ==
    ASSUME NEW s \in 1 .. 5
    PROVE  Max({0} \cup {s}) = s
<1>1. s \in {0} \cup {s} /\ \A y \in {0} \cup {s} : s >= y
  OBVIOUS
<1>2. \A x \in {0} \cup {s} : (\A y \in {0} \cup {s} : x >= y) => x = s
  OBVIOUS
<1> QED BY <1>1, <1>2 DEF Max

LEMMA NoShip == Max({0}) = 0
  BY DEF Max

------------------------------------------------------------------------------
(* The invariant. *)

\* An array of rows has the ships where they were meant.
Drawn(m) == \A c \in Square, s \in Ship : m[At(c)] = s <=> c \in placed[s]

\* A ShipData's array of coordinates is, when it is read, of the squares S.
SquareOf(p) == <<Intigerized(p[1]), Intigerized(p[2])>>
Shown(q, S) ==
    /\ \A i \in 1 .. Len(q) : SquareOf(q[i]) \in S
    /\ \A c \in S : \E i \in 1 .. Len(q) : c = SquareOf(q[i])

TravelInv ==
    /\ TypeOK /\ ship \in [Ship -> Seq(Coordinate \X Coordinate)]
    /\ step = "placing" =>
          /\ Drawn(map)
          /\ way.by # "MakeMapData" => \A s \in Ship : Shown(ship[s], placed[s])
    /\ step = "sending" => Drawn(packet)
    /\ step \in {"playing", "over"} =>
          \A c \in Square, s \in Ship : info[c] = s <=> c \in placed[s]
    /\ gEnemyMap = didAttacked
    /\ step \in {"placing", "sending", "refused"} => gEnemyMap = {} /\ answer = NoAnswer
    /\ AnswersTrue

\* The notations are undone, of a coordinate that one digit can name.
LEMMA Undone ==
    ASSUME Side <= 9, NEW n \in Notation, NEW x \in Line, NEW y \in Line
    PROVE  /\ x + n.x \in Coordinate /\ y + n.y \in Coordinate
           /\ Intigerized(x + n.x) = x /\ Intigerized(y + n.y) = y
<1>1. x \in 0 .. 8 /\ y \in 0 .. 8
  BY DEF Line
<1>2. \/ n.x = 0 /\ n.y = 0
      \/ n.x = 97 /\ n.y = 49
      \/ n.x = 65 /\ n.y = 49
  BY DEF Notation
<1> QED BY <1>1, <1>2 DEF Intigerized, Coordinate

LEMMA WayFacts ==
    ASSUME way \in Way
    PROVE  way.by # "MakeMapData" => way.notation \in Notation
  BY DEF Way

\* A ship's squares lie on the board.
LEMMA CourseOnBoard ==
    ASSUME NEW s \in Ship, NEW dir \in {"horizontal", "vertical"},
           NEW start \in StartsOf(s, dir), NEW i \in 1 .. ShipLength[s]
    PROVE  /\ Course(s, dir, start[1], start[2])[i] \in Square
           /\ start[1] \in Int /\ start[2] \in Int
<1>1. ShipLength[s] \in 1 .. Side - 1
  OBVIOUS
<1>2. CASE dir = "horizontal"
  <2>1. start[1] \in 0 .. Side - ShipLength[s] - 1 /\ start[2] \in Line
    BY <1>2 DEF StartsOf
  <2>2. start[1] + i - 1 \in Line
    BY <1>1, <2>1 DEF Line
  <2> QED BY <1>2, <2>1, <2>2 DEF Course, Square, Line
<1>3. CASE dir = "vertical"
  <2>1. start[2] \in 0 .. Side - ShipLength[s] - 1 /\ start[1] \in Line
    BY <1>3 DEF StartsOf
  <2>2. start[2] + i - 1 \in Line
    BY <1>1, <2>1 DEF Line
  <2> QED BY <1>3, <2>1, <2>2 DEF Course, Square, Line
<1> QED BY <1>2, <1>3

\* What is written of a ship shows its squares.
LEMMA WrittenShows ==
    ASSUME Side <= 9, way \in Way, way.by # "MakeMapData", NEW s \in Ship,
           NEW dir \in {"horizontal", "vertical"}, NEW start \in StartsOf(s, dir)
    PROVE  /\ Written(s, dir, start[1], start[2]) \in Seq(Coordinate \X Coordinate)
           /\ Shown(Written(s, dir, start[1], start[2]),
                    {Course(s, dir, start[1], start[2])[i] : i \in 1 .. ShipLength[s]})
<1> DEFINE k == ShipLength[s]
           n == way.notation
           r == Course(s, dir, start[1], start[2])
           w == Written(s, dir, start[1], start[2])
           S == {r[i] : i \in 1 .. k}
<1>1. n \in Notation /\ k \in Nat
  BY WayFacts
<1>2. n.x \in Int /\ n.y \in Int
  BY <1>1 DEF Notation
<1>3. ASSUME NEW i \in 1 .. k
      PROVE  w[i] = <<r[i][1] + n.x, r[i][2] + n.y>>
  <2>1. start[1] \in Int /\ start[2] \in Int /\ i \in Int
    BY CourseOnBoard
  <2>2. CASE way.by = "SetShip"
    <3>1. w = Course(s, dir, start[1] + n.x, start[2] + n.y)
      BY <2>2 DEF Written
    <3>2. /\ start[1] + n.x + i - 1 = (start[1] + i - 1) + n.x
          /\ start[2] + n.y + i - 1 = (start[2] + i - 1) + n.y
      BY <1>2, <2>1
    <3> HIDE DEF w, n
    <3> QED BY <3>1, <3>2, <1>3 DEF Course
  <2>3. CASE way.by # "SetShip"
    BY <2>3, <1>3 DEF Written
  <2> QED BY <2>2, <2>3
<1>4. w = [i \in 1 .. k |-> w[i]]
  BY DEF Written, Course
<1>5. ASSUME NEW i \in 1 .. k
      PROVE  /\ r[i] \in Square /\ w[i] \in Coordinate \X Coordinate
             /\ SquareOf(w[i]) = r[i]
  <2>1. r[i] \in Square
    BY CourseOnBoard
  <2>2. r[i][1] \in Line /\ r[i][2] \in Line /\ r[i] = <<r[i][1], r[i][2]>>
    BY <2>1, AtSquare
  <2>3. w[i] = <<r[i][1] + n.x, r[i][2] + n.y>>
    BY <1>3
  <2> HIDE DEF r, w, n
  <2>4. /\ r[i][1] + n.x \in Coordinate /\ r[i][2] + n.y \in Coordinate
        /\ Intigerized(r[i][1] + n.x) = r[i][1] /\ Intigerized(r[i][2] + n.y) = r[i][2]
    BY <1>1, <2>2, Undone
  <2>5. SquareOf(w[i]) = <<Intigerized(r[i][1] + n.x), Intigerized(r[i][2] + n.y)>>
    BY <2>3 DEF SquareOf
  <2> QED BY <2>1, <2>2, <2>3, <2>4, <2>5
<1> HIDE DEF w, r, k, n
<1>6. w \in Seq(Coordinate \X Coordinate) /\ Len(w) = k
  BY <1>1, <1>4, <1>5
<1>7. Shown(w, S)
  BY <1>5, <1>6 DEF Shown, S
<1> QED BY <1>6, <1>7 DEF w, r, S, k

\* The ships written square by square give the array they were written for.
LEMMA ToMapDataDraws ==
    ASSUME placed \in [Ship -> SUBSET Square], Drawn(map),
           \A s \in Ship : Shown(ship[s], placed[s])
    PROVE  /\ ToMapData(ship) \in [Index -> Ship \cup {MI_EMPTY}]
           /\ Drawn(ToMapData(ship))
<1> DEFINE On(i) == {s \in Ship : \E j \in 1 .. Len(ship[s]) :
                        i = Intigerized(ship[s][j][1]) + Intigerized(ship[s][j][2]) * Side}
           m == ToMapData(ship)
<1>1. ASSUME NEW c \in Square PROVE On(At(c)) = {s \in Ship : c \in placed[s]}
  <2>1. ASSUME NEW s \in Ship, NEW j \in 1 .. Len(ship[s])
        PROVE  (At(c) = Intigerized(ship[s][j][1]) + Intigerized(ship[s][j][2]) * Side)
                  <=> c = SquareOf(ship[s][j])
    <3>1. SquareOf(ship[s][j]) \in Square
      BY DEF Shown
    <3>2. At(SquareOf(ship[s][j]))
             = Intigerized(ship[s][j][1]) + Intigerized(ship[s][j][2]) * Side
      BY DEF At, SquareOf
    <3> QED BY <3>1, <3>2, AtSquare
  <2>2. ASSUME NEW s \in Ship
        PROVE  c \in placed[s] <=> \E j \in 1 .. Len(ship[s]) : c = SquareOf(ship[s][j])
    BY DEF Shown
  <2> QED BY <2>1, <2>2
<1>2. m = [i \in Index |-> Max({MI_EMPTY} \cup On(i))]
  BY DEF ToMapData
<1> HIDE DEF m, On
<1>3. ASSUME NEW c \in Square
      PROVE  /\ m[At(c)] \in Ship \cup {MI_EMPTY}
             /\ \A s \in Ship : m[At(c)] = s <=> c \in placed[s]
  <2>1. m[At(c)] = Max({MI_EMPTY} \cup {s \in Ship : c \in placed[s]})
    BY <1>1, <1>2, AtSquare
  <2>2. CASE \E s \in Ship : c \in placed[s]
    <3>1. PICK s \in Ship : c \in placed[s]
      BY <2>2
    <3>2. \A t \in Ship : c \in placed[t] <=> t = s
      BY <3>1 DEF Drawn
    <3>3. {MI_EMPTY} \cup {t \in Ship : c \in placed[t]} = {0} \cup {s}
      BY <3>2 DEF MI_EMPTY
    <3>4. m[At(c)] = s
      BY <2>1, <3>3, OnlyShip
    <3> QED BY <3>2, <3>4
  <2>3. CASE ~\E s \in Ship : c \in placed[s]
    <3>1. {MI_EMPTY} \cup {t \in Ship : c \in placed[t]} = {0}
      BY <2>3 DEF MI_EMPTY
    <3>2. m[At(c)] = 0
      BY <2>1, <3>1, NoShip
    <3>3. 0 \notin Ship
      OBVIOUS
    <3> QED BY <2>3, <3>2, <3>3 DEF MI_EMPTY
  <2> QED BY <2>2, <2>3
<1>4. ASSUME NEW i \in Index PROVE m[i] \in Ship \cup {MI_EMPTY}
  <2> DEFINE c == <<i % Side, i \div Side>>
  <2>1. c \in Square /\ c[1] = i % Side /\ c[2] = i \div Side
    BY PlaceDecodes DEF Square
  <2>2. At(c) = i
    BY <2>1, PlaceDecodes, AtSquare
  <2> HIDE DEF c
  <2> QED BY <1>3, <2>1, <2>2
<1>5. m \in [Index -> Ship \cup {MI_EMPTY}]
  BY <1>2, <1>4
<1>6. Drawn(m)
  BY <1>3 DEF Drawn
<1> QED BY <1>5, <1>6 DEF m

------------------------------------------------------------------------------
(* Every step keeps it. *)

LEMMA InitTravel == Init => TravelInv
<1> SUFFICES ASSUME Init PROVE TravelInv
  OBVIOUS
<1>1. 0 \notin Ship
  OBVIOUS
<1>2. /\ ship \in [Ship -> Seq(Coordinate \X Coordinate)] /\ \A s \in Ship : ship[s] = << >>
      /\ placed \in [Ship -> SUBSET Square] /\ \A s \in Ship : placed[s] = {}
  BY DEF Init, NoShips
<1>3. /\ map \in [Index -> Ship \cup {MI_EMPTY}] /\ packet \in [Index -> Ship \cup {MI_EMPTY}]
      /\ info \in [Square -> Ship \cup {MI_EMPTY}]
      /\ \A i \in Index : map[i] = MI_EMPTY
  BY DEF Init, NoMap, NoInfo
<1>4. TypeOK
  BY <1>2, <1>3 DEF Init, TypeOK
<1>5. Drawn(map)
  BY <1>1, <1>2, <1>3, AtSquare DEF Drawn, MI_EMPTY
<1>6. \A s \in Ship : Shown(ship[s], placed[s])
  BY <1>2 DEF Shown
<1> QED BY <1>2, <1>4, <1>5, <1>6 DEF Init, TravelInv, AnswersTrue

LEMMA PlaceShipKeeps ==
    ASSUME Side <= 9, TravelInv, PlaceShip PROVE TravelInv'
<1> DEFINE s == Min(Unplaced)
<1>1. s \in Ship /\ placed[s] = {}
  <2>1. Unplaced \in SUBSET (1 .. 5) /\ Unplaced # {}
    BY DEF PlaceShip, Unplaced
  <2>2. s \in Unplaced
    BY <2>1, LeastShip
  <2> QED BY <2>2 DEF Unplaced
<1> HIDE DEF s
<1>0. PICK dir \in {"horizontal", "vertical"} : \E start \in StartsOf(s, dir) :
         LET squares == Course(s, dir, start[1], start[2])
             cells == {At(squares[i]) : i \in 1 .. ShipLength[s]}
         IN  /\ \A c \in cells : map[c] = MI_EMPTY
             /\ map' = [c \in Index |-> IF c \in cells THEN s ELSE map[c]]
             /\ ship' = IF way.by = "MakeMapData" THEN ship
                        ELSE [ship EXCEPT ![s] = Written(s, dir, start[1], start[2])]
             /\ placed' = [placed EXCEPT ![s] = {squares[i] : i \in 1 .. ShipLength[s]}]
  BY DEF PlaceShip, s
<1>2. PICK start \in StartsOf(s, dir) :
         LET squares == Course(s, dir, start[1], start[2])
             cells == {At(squares[i]) : i \in 1 .. ShipLength[s]}
         IN  /\ \A c \in cells : map[c] = MI_EMPTY
             /\ map' = [c \in Index |-> IF c \in cells THEN s ELSE map[c]]
             /\ ship' = IF way.by = "MakeMapData" THEN ship
                        ELSE [ship EXCEPT ![s] = Written(s, dir, start[1], start[2])]
             /\ placed' = [placed EXCEPT ![s] = {squares[i] : i \in 1 .. ShipLength[s]}]
  BY <1>0
<1> DEFINE squares == Course(s, dir, start[1], start[2])
           cells == {At(squares[i]) : i \in 1 .. ShipLength[s]}
           Q == {squares[i] : i \in 1 .. ShipLength[s]}
           w == Written(s, dir, start[1], start[2])
<1>3. step = "placing" /\ UNCHANGED <<step, way, packet, info, didAttacked, gEnemyMap, answer>>
  BY DEF PlaceShip, server
<1>4. /\ \A c \in cells : map[c] = MI_EMPTY
      /\ map' = [c \in Index |-> IF c \in cells THEN s ELSE map[c]]
      /\ ship' = IF way.by = "MakeMapData" THEN ship ELSE [ship EXCEPT ![s] = w]
      /\ placed' = [placed EXCEPT ![s] = Q]
  BY <1>2
<1>5. Q \subseteq Square
  BY <1>1, CourseOnBoard
<1>6. \A c \in Square : At(c) \in cells <=> c \in Q
  BY <1>5, AtSquare
<1>7. way.by # "MakeMapData" => w \in Seq(Coordinate \X Coordinate) /\ Shown(w, Q)
  <2>1. way \in Way
    BY DEF TravelInv, TypeOK
  <2> QED BY <1>1, <2>1, WrittenShows
<1> HIDE DEF cells, Q, w
<1>8. /\ way \in Way /\ map \in [Index -> Ship \cup {MI_EMPTY}]
      /\ packet \in [Index -> Ship \cup {MI_EMPTY}] /\ info \in [Square -> Ship \cup {MI_EMPTY}]
      /\ ship \in [Ship -> Seq(Coordinate \X Coordinate)] /\ placed \in [Ship -> SUBSET Square]
      /\ didAttacked \subseteq Square /\ gEnemyMap \subseteq Square /\ gEnemyMap = {}
      /\ gEnemyMap = didAttacked /\ answer = NoAnswer /\ Drawn(map)
      /\ way.by # "MakeMapData" => \A t \in Ship : Shown(ship[t], placed[t])
  BY <1>3 DEF TravelInv, TypeOK
<1>9. /\ placed' \in [Ship -> SUBSET Square]
      /\ \A t \in Ship : placed'[t] = IF t = s THEN Q ELSE placed[t]
  BY <1>1, <1>4, <1>5, <1>8
<1>10. map' \in [Index -> Ship \cup {MI_EMPTY}]
  BY <1>1, <1>4, <1>8
<1>11. ship' \in [Ship -> Seq(Coordinate \X Coordinate)]
  BY <1>1, <1>4, <1>7, <1>8
<1>12. Drawn(map)'
  <2> SUFFICES ASSUME NEW c \in Square, NEW t \in Ship
               PROVE  map'[At(c)] = t <=> c \in placed'[t]
    BY DEF Drawn, At
  <2>1. map'[At(c)] = IF c \in Q THEN s ELSE map[At(c)]
    BY <1>4, <1>6, AtSquare
  <2>2. map[At(c)] = t <=> c \in placed[t]
    BY <1>8 DEF Drawn
  <2>3. c \in Q => map[At(c)] # t
    <3>1. c \in Q => map[At(c)] = 0
      BY <1>4, <1>6 DEF MI_EMPTY
    <3>2. t # 0
      OBVIOUS
    <3> QED BY <3>1, <3>2
  <2> QED BY <1>1, <1>9, <2>1, <2>2, <2>3
<1>13. way'.by # "MakeMapData" => \A t \in Ship : Shown(ship'[t], placed'[t])
  <2> SUFFICES ASSUME way.by # "MakeMapData", NEW t \in Ship
               PROVE  Shown(ship'[t], placed'[t])
    BY <1>3
  <2>1. ship'[t] = (IF t = s THEN w ELSE ship[t]) /\ placed'[t] = IF t = s THEN Q ELSE placed[t]
    BY <1>1, <1>4, <1>8, <1>9
  <2>2. Shown(ship[t], placed[t])
    BY <1>8
  <2>3. CASE t = s
    BY <1>7, <2>1, <2>3
  <2>4. CASE t # s
    BY <2>1, <2>2, <2>4
  <2> QED BY <2>3, <2>4
<1>14. TypeOK'
  BY <1>3, <1>8, <1>9, <1>10, <1>11 DEF TypeOK
<1>15. AnswersTrue'
  BY <1>3, <1>8 DEF AnswersTrue, NoAnswer
<1>16. Drawn(map)' /\ (way'.by # "MakeMapData" => \A t \in Ship : Shown(ship[t], placed[t])')
  BY <1>12, <1>13 DEF Shown, SquareOf, Intigerized
<1> QED BY <1>3, <1>8, <1>11, <1>14, <1>15, <1>16 DEF TravelInv, NoAnswer

LEMMA SubmitKeeps ==
    ASSUME TravelInv, Submit PROVE TravelInv'
<1>1. /\ map \in [Index -> Ship \cup {MI_EMPTY}] /\ placed \in [Ship -> SUBSET Square]
      /\ info \in [Square -> Ship \cup {MI_EMPTY}]
      /\ didAttacked \subseteq Square /\ gEnemyMap \subseteq Square
  BY DEF TravelInv, TypeOK
<1>2. step = "placing" /\ step' = "sending"
  BY DEF Submit
<1>3. /\ Drawn(map) /\ gEnemyMap = {} /\ answer = NoAnswer /\ gEnemyMap = didAttacked
      /\ way.by # "MakeMapData" => \A s \in Ship : Shown(ship[s], placed[s])
  BY <1>2 DEF TravelInv
<1>4. /\ packet' = IF way.by = "MakeMapData" THEN map ELSE ToMapData(ship)
      /\ map' = NoMap /\ ship' = NoShips /\ way' = [by |-> "MakeMapData"]
      /\ UNCHANGED <<info, didAttacked, gEnemyMap, answer, placed>>
  BY DEF Submit, server
<1>5. packet' \in [Index -> Ship \cup {MI_EMPTY}] /\ Drawn(packet')
  BY <1>1, <1>3, <1>4, ToMapDataDraws
<1>6. Drawn(packet)'
  BY <1>4, <1>5 DEF Drawn, At
<1>7. ship' \in [Ship -> Seq(Coordinate \X Coordinate)]
  BY <1>4 DEF NoShips
<1>8. map' \in [Index -> Ship \cup {MI_EMPTY}] /\ way' \in Way
  BY <1>4 DEF NoMap, Way
<1>9. TypeOK'
  BY <1>1, <1>2, <1>4, <1>5, <1>7, <1>8 DEF TypeOK
<1>10. AnswersTrue'
  BY <1>3, <1>4 DEF AnswersTrue, NoAnswer
<1> QED BY <1>2, <1>3, <1>4, <1>6, <1>7, <1>9, <1>10 DEF TravelInv, NoAnswer

\* Rows are turned into columns: the server's square is the client's.
LEMMA ReceivedTurned ==
    ASSUME NEW p \in [Index -> Ship \cup {MI_EMPTY}]
    PROVE  /\ Received(p) \in [Square -> Ship \cup {MI_EMPTY}]
           /\ \A c \in Square : Received(p)[c] = p[At(c)]
  BY AtSquare DEF Received

LEMMA HandleSubmitKeeps ==
    ASSUME TravelInv, HandleSubmitMapRequest PROVE TravelInv'
<1>1. /\ packet \in [Index -> Ship \cup {MI_EMPTY}] /\ placed \in [Ship -> SUBSET Square]
      /\ info \in [Square -> Ship \cup {MI_EMPTY}] /\ way \in Way
      /\ map \in [Index -> Ship \cup {MI_EMPTY}]
      /\ ship \in [Ship -> Seq(Coordinate \X Coordinate)]
  BY DEF TravelInv, TypeOK
<1>2. step = "sending"
  BY DEF HandleSubmitMapRequest
<1>3. Drawn(packet) /\ gEnemyMap = {} /\ answer = NoAnswer /\ gEnemyMap = didAttacked
  BY <1>2 DEF TravelInv
<1>4. /\ packet' = NoMap /\ UNCHANGED <<way, map, ship, gEnemyMap, answer, placed>>
      /\ \/ step' = "playing" /\ info' = Received(packet) /\ didAttacked' = {}
         \/ step' = "refused" /\ UNCHANGED <<info, didAttacked>>
  BY DEF HandleSubmitMapRequest, server
<1>5. didAttacked' = {} /\ info' \in [Square -> Ship \cup {MI_EMPTY}]
  BY <1>1, <1>3, <1>4, ReceivedTurned
<1>6. step' = "playing" => \A c \in Square, s \in Ship : info'[c] = s <=> c \in placed'[s]
  BY <1>1, <1>3, <1>4, ReceivedTurned DEF Drawn
<1>7. packet' \in [Index -> Ship \cup {MI_EMPTY}]
  BY <1>4 DEF NoMap
<1>8. TypeOK'
  BY <1>1, <1>3, <1>4, <1>5, <1>7 DEF TypeOK
<1>9. AnswersTrue'
  BY <1>3, <1>4 DEF AnswersTrue, NoAnswer
<1> QED BY <1>1, <1>3, <1>4, <1>5, <1>6, <1>8, <1>9 DEF TravelInv, NoAnswer

\* An attack on a square that was not attacked before is answered by what the
\* client meant to have there.
LEMMA AnsweredTruly ==
    ASSUME TypeOK, \A c \in Square, s \in Ship : info[c] = s <=> c \in placed[s],
           NEW c \in Square, c \notin didAttacked
    PROVE  LET hits == {s \in Ship : c \in placed[s]}
               result == AttackResult(c)
           IN  \/ hits = {} /\ result = AR_MISS
               \/ \E s \in hits : result = IF placed[s] \subseteq didAttacked \cup {c}
                                             THEN AR_DESTROY(s) ELSE AR_HIT
<1>1. ~(c[1] < 0 \/ c[1] > Side \/ c[2] < 0 \/ c[2] > Side \/ c \in didAttacked)
  BY AtSquare DEF Line
<1>2. /\ AttackResult(c) = IF info[c] = MI_EMPTY THEN AR_MISS
                           ELSE IF IsShipDestroyed(info[c], didAttacked \cup {c})
                             THEN AR_DESTROY(info[c]) ELSE AR_HIT
  BY <1>1 DEF AttackResult
<1>3. info[c] \in Ship \cup {MI_EMPTY} /\ MI_EMPTY \notin Ship
  BY DEF TypeOK, MI_EMPTY
<1>4. CASE info[c] = MI_EMPTY
  <2>1. AttackResult(c) = AR_MISS
    BY <1>2, <1>4
  <2>2. ASSUME NEW s \in Ship, c \in placed[s] PROVE FALSE
    <3>1. info[c] = s
      BY <2>2
    <3> QED BY <1>3, <1>4, <3>1
  <2> QED BY <2>1, <2>2
<1>5. CASE info[c] # MI_EMPTY
  <2> DEFINE s == info[c]
  <2>1. s \in Ship /\ c \in placed[s]
    BY <1>3, <1>5
  <2>2. IsShipDestroyed(s, didAttacked \cup {c}) <=> placed[s] \subseteq didAttacked \cup {c}
    <3>1. placed[s] \subseteq Square
      BY <2>1 DEF TypeOK
    <3> HIDE DEF s
    <3> QED BY <2>1, <3>1 DEF IsShipDestroyed
  <2> QED BY <1>2, <1>5, <2>1, <2>2
<1> QED BY <1>4, <1>5

LEMMA AttackKeeps ==
    ASSUME TravelInv, Attack PROVE TravelInv'
<1>1. PICK c \in Square \ gEnemyMap :
          /\ didAttacked' = didAttacked \cup {c}
          /\ answer' = [at |-> c, result |-> AttackResult(c)]
          /\ gEnemyMap' = Marked(c)
          /\ step' = IF IsGameEnd(didAttacked \cup {c}) THEN "over" ELSE "playing"
  BY DEF Attack
<1>2. step = "playing" /\ UNCHANGED <<way, map, ship, packet, info, placed>>
  BY DEF Attack
<1>3. /\ TypeOK /\ ship \in [Ship -> Seq(Coordinate \X Coordinate)]
      /\ \A d \in Square, s \in Ship : info[d] = s <=> d \in placed[s]
      /\ gEnemyMap = didAttacked
  BY <1>2 DEF TravelInv
<1>4. gEnemyMap' = didAttacked' /\ gEnemyMap' \subseteq Square
  BY <1>1, <1>3 DEF Marked, TypeOK
<1>5. TypeOK' /\ step' \in {"playing", "over"}
  BY <1>1, <1>2, <1>3, <1>4 DEF TypeOK
<1>6. AnswersTrue'
  <2>1. answer'.at = c /\ answer'.result = AttackResult(c)
    BY <1>1
  <2>2. LET hits == {s \in Ship : c \in placed[s]}
            result == AttackResult(c)
        IN  \/ hits = {} /\ result = AR_MISS
            \/ \E s \in hits : result = IF placed[s] \subseteq didAttacked \cup {c}
                                          THEN AR_DESTROY(s) ELSE AR_HIT
    BY <1>1, <1>3, AnsweredTruly
  <2> QED BY <1>1, <1>2, <2>1, <2>2 DEF AnswersTrue, AR_MISS, AR_HIT, AR_DESTROY
<1>7. \A d \in Square, s \in Ship : info'[d] = s <=> d \in placed'[s]
  BY <1>2, <1>3
<1> QED BY <1>2, <1>3, <1>4, <1>5, <1>6, <1>7 DEF TravelInv

LEMMA NextTravel ==
    ASSUME Side <= 9 PROVE TravelInv /\ [Next]_vars => TravelInv'
<1>1. ASSUME TravelInv, UNCHANGED vars PROVE TravelInv'
  BY <1>1 DEF TravelInv, TypeOK, AnswersTrue, Drawn, Shown, SquareOf, Intigerized, At,
              vars, server, NoAnswer, AR_MISS, AR_HIT, AR_DESTROY
<1> QED BY <1>1, PlaceShipKeeps, SubmitKeeps, HandleSubmitKeeps, AttackKeeps DEF Next

LEMMA TravelHolds == ASSUME Side <= 9 PROVE Spec => []TravelInv
<1> QED BY InitTravel, NextTravel, PTL DEF Spec

\* Whatever way and notation the map was made in, the server has every ship on the
\* squares the client put it on.
THEOREM MapArrivesWhole == ASSUME Side <= 9 PROVE Spec => []MapArrives
<1>1. TravelInv => MapArrives
  BY DEF TravelInv, MapArrives, TypeOK
<1> QED BY <1>1, TravelHolds, PTL

\* And every attack is answered by what the client put there.
THEOREM AnswersAreTrue == ASSUME Side <= 9 PROVE Spec => []AnswersTrue
<1>1. TravelInv => AnswersTrue
  BY DEF TravelInv
<1> QED BY <1>1, TravelHolds, PTL

------------------------------------------------------------------------------
(* The arrays are Board's. *)

IndexOf(c) == c[1] * Side + c[2]
AsBoard == [info |-> Flat, hit |-> Cells(didAttacked)]

\* A square and its place in the flat array, either way.
LEMMA PlaceSquare ==
    /\ \A c \in Square : /\ IndexOf(c) \in Index
                         /\ <<IndexOf(c) \div Side, IndexOf(c) % Side>> = c
    /\ \A i \in Index : /\ <<i \div Side, i % Side>> \in Square
                        /\ IndexOf(<<i \div Side, i % Side>>) = i
    /\ \A c, d \in Square : IndexOf(c) = IndexOf(d) => c = d
<1>1. ASSUME NEW c \in Square
      PROVE  IndexOf(c) \in Index /\ <<IndexOf(c) \div Side, IndexOf(c) % Side>> = c
  <2>1. c[1] \in Line /\ c[2] \in Line /\ c = <<c[1], c[2]>>
    BY AtSquare
  <2>2. IndexOf(c) \in Index /\ IndexOf(c) = c[2] + c[1] * Side
    BY <2>1, RowsInRange DEF IndexOf
  <2> DEFINE q == IndexOf(c) \div Side
             r == IndexOf(c) % Side
  <2>3. q \in Line /\ r \in Line /\ IndexOf(c) = q * Side + r
    BY <2>2, PlaceDecodes
  <2> HIDE DEF q, r
  <2>4. q * Side + r = r + q * Side
    BY <2>3, RowsInRange
  <2>5. r = c[2] /\ q = c[1]
    BY <2>1, <2>2, <2>3, <2>4, SameRow
  <2> QED BY <2>1, <2>2, <2>5 DEF q, r
<1>2. ASSUME NEW i \in Index
      PROVE  <<i \div Side, i % Side>> \in Square /\ IndexOf(<<i \div Side, i % Side>>) = i
  BY PlaceDecodes DEF IndexOf, Square
<1>3. \A c, d \in Square : IndexOf(c) = IndexOf(d) => c = d
  BY <1>1
<1> QED BY <1>1, <1>2, <1>3

LEMMA CellsMember ==
    ASSUME NEW S \in SUBSET Square, NEW c \in Square
    PROVE  /\ IndexOf(c) \in Cells(S) <=> c \in S
           /\ Cells(S \cup {c}) = Cells(S) \cup {IndexOf(c)}
<1>1. Cells(S) = {IndexOf(d) : d \in S} /\ Cells(S \cup {c}) = {IndexOf(d) : d \in S \cup {c}}
  BY DEF Cells, IndexOf
<1>2. ASSUME NEW d \in S, IndexOf(d) = IndexOf(c) PROVE d = c
  BY <1>2, PlaceSquare
<1>3. IndexOf(c) \in Cells(S) <=> c \in S
  BY <1>1, <1>2
<1>4. Cells(S \cup {c}) = Cells(S) \cup {IndexOf(c)}
  BY <1>1
<1> QED BY <1>3, <1>4

LEMMA FlatHas == \A c \in Square : Flat[IndexOf(c)] = info[c]
  BY PlaceSquare DEF Flat

\* A ship is destroyed on the one board when it is on the other.
LEMMA DestroyedAlike ==
    ASSUME NEW s, NEW S \in SUBSET Square, NEW b, b.info = Flat, b.hit = Cells(S)
    PROVE  IsShipDestroyed(s, S) <=> B!IsShipDestroyed(b, s)
<1>1. B!IsShipDestroyed(b, s) <=> \A i \in Index : Flat[i] = s => i \in Cells(S)
  BY DEF B!IsShipDestroyed, B!CellsOf, B!Cell, Index
<1>2. IsShipDestroyed(s, S) <=> \A c \in Square : info[c] = s => c \in S
  BY DEF IsShipDestroyed
<1>3. ASSUME \A i \in Index : Flat[i] = s => i \in Cells(S), NEW c \in Square, info[c] = s
      PROVE  c \in S
  BY <1>3, PlaceSquare, FlatHas, CellsMember
<1>4. ASSUME \A c \in Square : info[c] = s => c \in S, NEW i \in Index, Flat[i] = s
      PROVE  i \in Cells(S)
  <2> DEFINE c == <<i \div Side, i % Side>>
  <2>1. c \in Square /\ IndexOf(c) = i
    BY PlaceSquare
  <2> HIDE DEF c
  <2>2. c \in S
    BY <1>4, <2>1, FlatHas
  <2> QED BY <2>1, <2>2, CellsMember
<1> QED BY <1>1, <1>2, <1>3, <1>4

\* How the board's answers are read.
BoardAnswer(r) ==
    CASE r = AR_NONE -> B!AR_NONE
      [] r = AR_MISS -> B!AR_MISS
      [] r = AR_HIT  -> B!AR_HIT
      [] r > AR_HIT  -> B!Destroyed(CHOOSE s \in Ship : AR_DESTROY(s) = r)

LEMMA AnswersAlike ==
    ASSUME {4, 5} \subseteq Ship => ShipLength[4] = ShipLength[5]
    PROVE  /\ BoardAnswer(AR_MISS) = B!AR_MISS /\ BoardAnswer(AR_HIT) = B!AR_HIT
           /\ \A s \in Ship : BoardAnswer(AR_DESTROY(s)) = B!Destroyed(s)
<1>1. BoardAnswer(AR_MISS) = B!AR_MISS /\ BoardAnswer(AR_HIT) = B!AR_HIT
  BY DEF BoardAnswer, AR_NONE, AR_MISS, AR_HIT
<1>2. ASSUME NEW s \in Ship PROVE BoardAnswer(AR_DESTROY(s)) = B!Destroyed(s)
  <2> DEFINE t == CHOOSE u \in Ship : AR_DESTROY(u) = AR_DESTROY(s)
  <2>1. t \in Ship /\ AR_DESTROY(t) = AR_DESTROY(s)
    OBVIOUS
  <2>2. AR_DESTROY(s) \in 3 .. 6
    BY DEF AR_DESTROY
  <2>3. BoardAnswer(AR_DESTROY(s)) = B!Destroyed(t)
    BY <2>2 DEF BoardAnswer, AR_NONE, AR_MISS, AR_HIT
  <2> HIDE DEF t
  <2>4. t = s \/ (t = 4 /\ s = 5) \/ (t = 5 /\ s = 4)
    BY <2>1 DEF AR_DESTROY
  <2>5. ShipLength[t] = ShipLength[s]
    BY <2>1, <2>4
  <2> QED BY <2>3, <2>5 DEF B!Destroyed
<1> QED BY <1>1, <1>2

LEMMA AttackAlike ==
    ASSUME {4, 5} \subseteq Ship => ShipLength[4] = ShipLength[5],
           TypeOK, NEW c \in Square, c \notin didAttacked
    PROVE  LET i == IndexOf(c)
               D == didAttacked \cup {c}
           IN  /\ i \in Index
               /\ Cells(D) = B!Attack(AsBoard, i).hit
               /\ IsGameEnd(D) <=> B!IsGameEnd(B!Attack(AsBoard, i))
               /\ B!AttackResult(AsBoard, i) = BoardAnswer(AttackResult(c))
<1> DEFINE i == IndexOf(c)
           D == didAttacked \cup {c}
           b == B!Attack(AsBoard, i)
<1>1. /\ i \in Index /\ i \notin Cells(didAttacked) /\ Cells(D) = Cells(didAttacked) \cup {i}
      /\ didAttacked \in SUBSET Square /\ D \in SUBSET Square
  <2>1. didAttacked \in SUBSET Square
    BY DEF TypeOK
  <2> QED BY <2>1, PlaceSquare, CellsMember
<1>2. AsBoard.info = Flat /\ AsBoard.hit = Cells(didAttacked)
  BY DEF AsBoard
<1>3. b = [AsBoard EXCEPT !.hit = AsBoard.hit \cup {i}]
  BY <1>1, <1>2 DEF B!Attack
<1>4. b.info = Flat /\ b.hit = Cells(D)
  BY <1>1, <1>2, <1>3 DEF AsBoard
<1> HIDE DEF i, D, b
<1>5. \A s : IsShipDestroyed(s, D) <=> B!IsShipDestroyed(b, s)
  BY <1>1, <1>4, DestroyedAlike
<1>6. IsGameEnd(D) <=> B!IsGameEnd(b)
  BY <1>5 DEF IsGameEnd, B!IsGameEnd
<1>7. Flat[i] = info[c] /\ info[c] \in Ship \cup {MI_EMPTY} /\ MI_EMPTY \notin Ship
  BY FlatHas DEF i, TypeOK, MI_EMPTY
<1>8. B!AttackResult(AsBoard, i) =
         IF info[c] = MI_EMPTY THEN B!AR_MISS
         ELSE IF B!IsShipDestroyed(b, info[c]) THEN B!Destroyed(info[c]) ELSE B!AR_HIT
  BY <1>1, <1>2, <1>7 DEF B!AttackResult, b
<1>9. AttackResult(c) = IF info[c] = MI_EMPTY THEN AR_MISS
                        ELSE IF IsShipDestroyed(info[c], D) THEN AR_DESTROY(info[c])
                        ELSE AR_HIT
  <2>1. ~(c[1] < 0 \/ c[1] > Side \/ c[2] < 0 \/ c[2] > Side \/ c \in didAttacked)
    BY AtSquare DEF Line
  <2> QED BY <2>1 DEF AttackResult, D
<1>10. B!AttackResult(AsBoard, i) = BoardAnswer(AttackResult(c))
  BY <1>5, <1>7, <1>8, <1>9, AnswersAlike
<1> QED BY <1>1, <1>4, <1>6, <1>10 DEF i, D, b

\* Only an attack marks a square, and Board takes it as the server does.
LEMMA StepAlike ==
    ASSUME {4, 5} \subseteq Ship => ShipLength[4] = ShipLength[5], TravelInv, [Next]_vars,
           didAttacked' # didAttacked
    PROVE  LET b == [info |-> Flat, hit |-> Cells(didAttacked)]
           IN  \E c \in Index :
                /\ Cells(didAttacked') = B!Attack(b, c).hit
                /\ step' = "over" <=> B!IsGameEnd(B!Attack(b, c))
                /\ B!AttackResult(b, c) =
                     CASE answer'.result = AR_NONE -> B!AR_NONE
                       [] answer'.result = AR_MISS -> B!AR_MISS
                       [] answer'.result = AR_HIT  -> B!AR_HIT
                       [] answer'.result > AR_HIT  ->
                            B!Destroyed(CHOOSE s \in Ship : AR_DESTROY(s) = answer'.result)
<1>1. Attack
  <2>1. ~PlaceShip /\ ~Submit /\ ~UNCHANGED vars
    BY DEF PlaceShip, Submit, server, vars
  <2>2. ~HandleSubmitMapRequest
    BY DEF HandleSubmitMapRequest, TravelInv, server
  <2> QED BY <2>1, <2>2 DEF Next
<1>2. PICK c \in Square \ gEnemyMap :
          /\ didAttacked' = didAttacked \cup {c}
          /\ answer' = [at |-> c, result |-> AttackResult(c)]
          /\ step' = IF IsGameEnd(didAttacked \cup {c}) THEN "over" ELSE "playing"
  BY <1>1 DEF Attack
<1>3. TypeOK /\ c \in Square /\ c \notin didAttacked
  BY <1>2 DEF TravelInv
<1>4. /\ IndexOf(c) \in Index
      /\ Cells(didAttacked \cup {c}) = B!Attack(AsBoard, IndexOf(c)).hit
      /\ IsGameEnd(didAttacked \cup {c}) <=> B!IsGameEnd(B!Attack(AsBoard, IndexOf(c)))
      /\ B!AttackResult(AsBoard, IndexOf(c)) = BoardAnswer(AttackResult(c))
  BY <1>3, AttackAlike
<1>5. answer'.result = AttackResult(c)
  BY <1>2
<1>6. /\ Cells(didAttacked') = B!Attack(AsBoard, IndexOf(c)).hit
      /\ step' = "over" <=> B!IsGameEnd(B!Attack(AsBoard, IndexOf(c)))
      /\ B!AttackResult(AsBoard, IndexOf(c)) = BoardAnswer(answer'.result)
  BY <1>2, <1>4, <1>5
<1> QED BY <1>4, <1>6 DEF AsBoard, BoardAnswer

\* Attack for attack the arrays of the server are the flat board of module Board, by
\* which GameServer is checked; ships that share their name are of one length.
THEOREM ArraysImplementBoard ==
    ASSUME Side <= 9, {4, 5} \subseteq Ship => ShipLength[4] = ShipLength[5]
    PROVE  Spec => ImplementsBoard
<1> DEFINE Like ==
      LET b == [info |-> Flat, hit |-> Cells(didAttacked)]
      IN  didAttacked' # didAttacked =>
           \E c \in Index :
              /\ Cells(didAttacked') = B!Attack(b, c).hit
              /\ step' = "over" <=> B!IsGameEnd(B!Attack(b, c))
              /\ B!AttackResult(b, c) =
                   CASE answer'.result = AR_NONE -> B!AR_NONE
                     [] answer'.result = AR_MISS -> B!AR_MISS
                     [] answer'.result = AR_HIT  -> B!AR_HIT
                     [] answer'.result > AR_HIT  ->
                          B!Destroyed(CHOOSE s \in Ship : AR_DESTROY(s) = answer'.result)
<1>1. TravelInv /\ [Next]_vars => Like
  BY StepAlike
<1> HIDE DEF Like
<1>2. Spec => [][Like]_vars
  BY <1>1, TravelHolds, PTL DEF Spec
<1>3. [][Like]_vars <=> ImplementsBoard
  BY DEF Like, ImplementsBoard
<1> QED BY <1>2, <1>3, PTL

------------------------------------------------------------------------------
(* The window. *)

\* The eight resources and their places.
LEMMA Places ==
    /\ Resource = {"swapChain", "state", "renderTargetView", "loupeTexture",
                   "backBufferRT", "textBrush", "loupeBrush", "loupeBitmap"}
    /\ Place["swapChain"] = 1 /\ Place["state"] = 2 /\ Place["renderTargetView"] = 3
    /\ Place["loupeTexture"] = 4 /\ Place["backBufferRT"] = 5 /\ Place["textBrush"] = 6
    /\ Place["loupeBrush"] = 7 /\ Place["loupeBitmap"] = 8
  BY DEF Resource, Place

LEMMA PlaceRange ==
    /\ \A r \in Resource : Place[r] \in 1 .. 8 /\ (r # "swapChain" => Place[r] > 1)
    /\ Resource \cap Factories = {} /\ "TextFormat" \in Factories
    /\ {"swapChain", "textBrush", "loupeBrush", "backBufferRT", "loupeBitmap"} \subseteq Resource
  BY Places DEF Factories

LEMMA AddOne ==
    ASSUME NEW S, NEW n \in Nat, NEW e, IsFiniteSet(S), Cardinality(S) = n, e \notin S
    PROVE  IsFiniteSet(S \cup {e}) /\ Cardinality(S \cup {e}) = n + 1
  BY FS_AddElement

LEMMA EightPlaces == Cardinality(Resource) = 8
<1> DEFINE P1 == {"swapChain"}
           P2 == P1 \cup {"state"}
           P3 == P2 \cup {"renderTargetView"}
           P4 == P3 \cup {"loupeTexture"}
           P5 == P4 \cup {"backBufferRT"}
           P6 == P5 \cup {"textBrush"}
           P7 == P6 \cup {"loupeBrush"}
           P8 == P7 \cup {"loupeBitmap"}
<1>1. IsFiniteSet(P1) /\ Cardinality(P1) = 1
  BY FS_Singleton
<1>2. IsFiniteSet(P2) /\ Cardinality(P2) = 2
  <2>1. "state" \notin P1 OBVIOUS
  <2> HIDE DEF P1
  <2> QED BY <1>1, <2>1, AddOne
<1>3. IsFiniteSet(P3) /\ Cardinality(P3) = 3
  <2>1. "renderTargetView" \notin P2 OBVIOUS
  <2> HIDE DEF P2
  <2> QED BY <1>2, <2>1, AddOne
<1>4. IsFiniteSet(P4) /\ Cardinality(P4) = 4
  <2>1. "loupeTexture" \notin P3 OBVIOUS
  <2> HIDE DEF P3
  <2> QED BY <1>3, <2>1, AddOne
<1>5. IsFiniteSet(P5) /\ Cardinality(P5) = 5
  <2>1. "backBufferRT" \notin P4 OBVIOUS
  <2> HIDE DEF P4
  <2> QED BY <1>4, <2>1, AddOne
<1>6. IsFiniteSet(P6) /\ Cardinality(P6) = 6
  <2>1. "textBrush" \notin P5 OBVIOUS
  <2> HIDE DEF P5
  <2> QED BY <1>5, <2>1, AddOne
<1>7. IsFiniteSet(P7) /\ Cardinality(P7) = 7
  <2>1. "loupeBrush" \notin P6 OBVIOUS
  <2> HIDE DEF P6
  <2> QED BY <1>6, <2>1, AddOne
<1>8. IsFiniteSet(P8) /\ Cardinality(P8) = 8
  <2>1. "loupeBitmap" \notin P7 OBVIOUS
  <2> HIDE DEF P7
  <2> QED BY <1>7, <2>1, AddOne
<1>9. Resource = P8
  BY Places
<1> HIDE DEF P8
<1> QED BY <1>8, <1>9

\* There is a device, or one may be made.
LEMMA DeviceType == \A d \in Device : d \in Nat /\ d # 0
  BY DEF Device

------------------------------------------------------------------------------
(* The invariant. *)

Counts == messages \in Nat /\ posted \in Nat /\ faults \in Nat

\* One device, its lines apart from the types.
Chain(h, d) ==
    \A r \in Resource \ {"loupeBrush"} :
        h[r] # 0 => /\ h[r] = d
                    /\ \A s \in Resource : Place[s] < Place[r] => h[s] = d

DisplayInv == Counts /\ OneDevice /\ OnlyBrushesForgotten

LEMMA OneDeviceParts == OneDevice <=> DisplayTypeOK /\ Chain(held, device)
  BY DEF OneDevice, Chain

\* While there is no swap chain only the loupe's brush is held.
LEMMA NoSwapChain ==
    ASSUME Chain(held, device), held["swapChain"] = 0, held \in [Resource -> {0} \cup Device],
           device \in {0} \cup Device
    PROVE  \A r \in Resource \ {"loupeBrush"} : held[r] = 0
<1> SUFFICES ASSUME NEW r \in Resource \ {"loupeBrush"}, held[r] # 0 PROVE FALSE
  OBVIOUS
<1>1. "swapChain" \in Resource /\ Place["swapChain"] = 1 /\ Place[r] > 1
  BY Places, PlaceRange
<1> QED BY <1>1 DEF Chain

\* What is to be made: all, and then only the brush is in its way, or nothing.
LEMMA ToMakeIs ==
    ASSUME DisplayTypeOK, Chain(held, device)
    PROVE  \/ ToMake = {}
           \/ /\ ToMake = 1 .. 8 /\ held["swapChain"] = 0
              /\ \A r \in Resource \ {"loupeBrush"} : held[r] = 0
  BY EightPlaces, NoSwapChain DEF ToMake, DisplayTypeOK

\* The pointers when the places below n have been made.
LEMMA MadeBelow ==
    ASSUME DisplayTypeOK, NEW n \in 1 .. 9, Current \in Device,
           \A r \in Resource \ {"loupeBrush"} : held[r] = 0
    PROVE  /\ MadeAt(1 .. n - 1) \in [Resource -> {0} \cup Device]
           /\ Chain(MadeAt(1 .. n - 1), Current)
           /\ \A f \in Overwrites(1 .. n - 1) : f[1] = "loupeBrush"
           /\ Overwrites(1 .. n - 1) \subseteq Resource \X Device
<1> DEFINE h == MadeAt(1 .. n - 1)
<1>0. held \in [Resource -> {0} \cup Device]
  BY DEF DisplayTypeOK
<1>1. /\ h \in [Resource -> {0} \cup Device]
      /\ \A r \in Resource : h[r] = IF Place[r] \in 1 .. n - 1 THEN Current ELSE held[r]
  BY <1>0 DEF MadeAt
<1> HIDE DEF h
<1>2. Chain(h, Current)
  <2> SUFFICES ASSUME NEW r \in Resource \ {"loupeBrush"}, h[r] # 0
               PROVE  /\ h[r] = Current
                      /\ \A s \in Resource : Place[s] < Place[r] => h[s] = Current
    BY DEF Chain
  <2>1. Place[r] \in 1 .. n - 1
    BY <1>1
  <2>2. \A s \in Resource : Place[s] < Place[r] => Place[s] \in 1 .. n - 1
    BY <2>1, PlaceRange
  <2> QED BY <1>1, <2>1, <2>2
<1>3. \A r \in Resource : held[r] # 0 => r = "loupeBrush" /\ held[r] \in Device
  BY <1>0
<1>4. /\ \A f \in Overwrites(1 .. n - 1) : f[1] = "loupeBrush"
      /\ Overwrites(1 .. n - 1) \subseteq Resource \X Device
  BY <1>3 DEF Overwrites, Overwritten
<1> QED BY <1>1, <1>2, <1>4 DEF h

\* The pointers once CreateDeviceResources has succeeded.
LEMMA AllMade ==
    ASSUME DisplayTypeOK, Chain(held, device), CreateDevice
    PROVE  /\ MadeAt(ToMake) \in [Resource -> {0} \cup Device]
           /\ ToMake = {} => MadeAt(ToMake) = held
           /\ MadeAt(ToMake)["backBufferRT"] # 0 => Chain(MadeAt(ToMake), Current)
           /\ \A f \in Overwrites(ToMake) : f[1] = "loupeBrush"
           /\ Overwrites(ToMake) \subseteq Resource \X Device
<1>1. CASE ToMake = {}
  <2>0. held \in [Resource -> {0} \cup Device] /\ device \in {0} \cup Device
    BY DEF DisplayTypeOK
  <2>1. MadeAt(ToMake) = held
    BY <1>1, <2>0 DEF MadeAt
  <2>2. Overwrites(ToMake) = {}
    BY <1>1 DEF Overwrites, Overwritten
  <2>3. held["backBufferRT"] # 0 => device = Current
    BY <2>0, PlaceRange DEF Chain, Current
  <2> QED BY <1>1, <2>0, <2>1, <2>2, <2>3
<1>2. CASE /\ ToMake = 1 .. 9 - 1 /\ ToMake # {}
           /\ \A r \in Resource \ {"loupeBrush"} : held[r] = 0
  <2>1. Current \in Device
    BY DEF CreateDevice
  <2>2. 9 \in 1 .. 9 OBVIOUS
  <2> QED BY <1>2, <2>1, <2>2, MadeBelow
<1>3. ToMake = 1 .. 8 => ToMake = 1 .. 9 - 1 /\ ToMake # {}
  OBVIOUS
<1> QED BY <1>1, <1>2, <1>3, ToMakeIs

\* Without a device everything is released, but for the loupe's brush.
LEMMA Discarded ==
    ASSUME NEW h \in [Resource -> {0} \cup Device]
    PROVE  /\ DiscardDeviceResources(h) \in [Resource -> {0} \cup Device]
           /\ Chain(DiscardDeviceResources(h), 0)
  BY PlaceRange DEF DiscardDeviceResources, Chain

------------------------------------------------------------------------------
(* Every step keeps it. *)

\* The types of what a picture leaves alone, and what it forgets.
LEMMA TypeParts ==
    ASSUME DisplayTypeOK
    PROVE  /\ held \in [Resource -> {0} \cup Device] /\ device \in {0} \cup Device
           /\ made \in {0} \cup Device /\ lost \in BOOLEAN /\ (lost => device # 0)
           /\ forgotten \subseteq (Resource \cup Factories) \X ({0} \cup Device)
           /\ faults <= MaxFaults
  BY DEF DisplayTypeOK

\* How the invariant follows after a step that leaves the loop alone.
LEMMA Painted ==
    ASSUME DisplayInv, UNCHANGED <<messages, posted, parent, ShowText>>,
           stage' \in {stage, "over"}, picture' \in {picture, "shown", "dark"},
           UNCHANGED faults \/ Fault(1),
           made' \in {0} \cup Device, device' \in {0} \cup Device,
           lost' \in BOOLEAN, lost' => device' # 0,
           held' \in [Resource -> {0} \cup Device], Chain(held', device'),
           forgotten' \subseteq (Resource \cup Factories) \X ({0} \cup Device),
           \A f \in forgotten' : f[1] \in Resource => f[1] \in {"textBrush", "loupeBrush"}
    PROVE  DisplayInv'
<1>1. faults' \in Nat /\ faults' <= MaxFaults
  BY DEF DisplayInv, Counts, OneDevice, DisplayTypeOK, Fault
<1>2. Counts'
  BY <1>1 DEF DisplayInv, Counts
<1>3. DisplayTypeOK'
  BY <1>1 DEF DisplayInv, OneDevice, DisplayTypeOK
<1>4. OneDevice'
  BY <1>3 DEF OneDevice, Chain
<1>5. OnlyBrushesForgotten'
  BY DEF OnlyBrushesForgotten
<1> QED BY <1>2, <1>4, <1>5 DEF DisplayInv

\* More objects forgotten.
LEMMA Forgets ==
    ASSUME DisplayInv, NEW F, F \subseteq (Resource \cup Factories) \X ({0} \cup Device),
           \A f \in F : f[1] \in Resource => f[1] \in {"textBrush", "loupeBrush"}
    PROVE  /\ forgotten \cup F \subseteq (Resource \cup Factories) \X ({0} \cup Device)
           /\ \A f \in forgotten \cup F :
                 f[1] \in Resource => f[1] \in {"textBrush", "loupeBrush"}
  BY DEF DisplayInv, OneDevice, DisplayTypeOK, OnlyBrushesForgotten

LEMMA InitKeeps == DisplayInit => DisplayInv
<1> SUFFICES ASSUME DisplayInit PROVE DisplayInv
  OBVIOUS
<1>1. held \in [Resource -> {0} \cup Device] /\ \A r \in Resource : held[r] = 0
  BY DEF DisplayInit
<1>2. DisplayTypeOK
  <2>1. messages <= posted /\ posted <= MaxMessages /\ faults <= MaxFaults
    <3>1. 0 <= 0 /\ 0 <= MaxMessages /\ 0 <= MaxFaults
      OBVIOUS
    <3> QED BY <3>1 DEF DisplayInit
  <2>3. lost \in BOOLEAN /\ (lost => device # 0)
    BY DEF DisplayInit
  <2>2. forgotten \subseteq (Resource \cup Factories) \X ({0} \cup Device)
    BY DEF DisplayInit
  <2> QED BY <1>1, <2>1, <2>2, <2>3 DEF DisplayInit, DisplayTypeOK
<1>3. OneDevice
  BY <1>1, <1>2 DEF OneDevice
<1> QED BY <1>3 DEF DisplayInit, DisplayInv, Counts, OnlyBrushesForgotten

LEMMA InitializeKeeps ==
    ASSUME DisplayInv, Initialize PROVE DisplayInv'
<1>1. /\ faults' \in Nat /\ faults' <= MaxFaults
      /\ stage' \in {"running", "over"}
      /\ UNCHANGED <<messages, posted, parent, ShowText, device, held, lost, made, picture>>
  BY DEF DisplayInv, Counts, OneDevice, DisplayTypeOK, Fault, Initialize
<1>2. /\ forgotten' \subseteq (Resource \cup Factories) \X ({0} \cup Device)
      /\ OnlyBrushesForgotten'
  BY PlaceRange DEF Initialize, DisplayInv, OneDevice, DisplayTypeOK, OnlyBrushesForgotten
<1>3. DisplayTypeOK'
  BY <1>1, <1>2 DEF DisplayInv, OneDevice, DisplayTypeOK
<1>4. OneDevice'
  BY <1>1, <1>3 DEF DisplayInv, OneDevice
<1> QED BY <1>1, <1>2, <1>4 DEF DisplayInv, Counts

LEMMA WithoutDeviceKeeps ==
    ASSUME DisplayInv, RenderWithoutDevice PROVE DisplayInv'
<1>1. DisplayTypeOK /\ Chain(held, device) /\ OnlyBrushesForgotten
  BY OneDeviceParts DEF DisplayInv
<1>2. /\ UNCHANGED <<stage, messages, posted, parent, ShowText, device, held, lost, made,
                     forgotten>>
      /\ picture' = "dark" /\ Fault(1)
  BY DEF RenderWithoutDevice, loop
<1> QED BY <1>1, <1>2, TypeParts, Painted DEF OnlyBrushesForgotten

LEMMA CreationFailsKeeps ==
    ASSUME DisplayInv, RenderCreationFails PROVE DisplayInv'
<1>1. DisplayTypeOK /\ Chain(held, device)
  BY OneDeviceParts DEF DisplayInv
<1>2. PICK n \in ToMake, says \in {"lost", "other"} :
         /\ IF lost THEN n = 1 /\ says = "lost" /\ UNCHANGED faults ELSE Fault(1)
         /\ forgotten' = forgotten \cup Overwrites(1 .. n - 1)
         /\ IF says = "lost" THEN LoseDevice(MadeAt(1 .. n - 1))
            ELSE device' = Current /\ held' = MadeAt(1 .. n - 1) /\ UNCHANGED lost
  BY DEF RenderCreationFails
<1>3. /\ Current \in Device /\ made' \in {0} \cup Device
      /\ UNCHANGED <<stage, messages, posted, parent, ShowText>> /\ picture' = "dark"
  BY <1>1, TypeParts DEF RenderCreationFails, CreateDevice, loop
<1>4. n \in 1 .. 9 /\ \A r \in Resource \ {"loupeBrush"} : held[r] = 0
  BY <1>1, <1>2, ToMakeIs
<1> DEFINE h == MadeAt(1 .. n - 1)
           F == Overwrites(1 .. n - 1)
<1>5. /\ h \in [Resource -> {0} \cup Device] /\ Chain(h, Current)
      /\ \A f \in F : f[1] = "loupeBrush"
      /\ F \subseteq Resource \X Device
  BY <1>1, <1>3, <1>4, MadeBelow
<1> HIDE DEF h, F
<1>6. /\ forgotten' \subseteq (Resource \cup Factories) \X ({0} \cup Device)
      /\ \A f \in forgotten' : f[1] \in Resource => f[1] \in {"textBrush", "loupeBrush"}
  <2>1. F \subseteq (Resource \cup Factories) \X ({0} \cup Device)
    BY <1>5
  <2>2. \A f \in F : f[1] \in Resource => f[1] \in {"textBrush", "loupeBrush"}
    BY <1>5
  <2>3. forgotten' = forgotten \cup F
    BY <1>2 DEF F
  <2> HIDE DEF F
  <2>4. /\ forgotten \cup F \subseteq (Resource \cup Factories) \X ({0} \cup Device)
        /\ \A f \in forgotten \cup F :
              f[1] \in Resource => f[1] \in {"textBrush", "loupeBrush"}
    BY <2>1, <2>2, Forgets
  <2> QED BY <2>3, <2>4
<1>7. /\ held' \in [Resource -> {0} \cup Device] /\ Chain(held', device')
      /\ device' \in {0} \cup Device /\ lost' \in BOOLEAN /\ (lost' => device' # 0)
  <2>1. CASE says = "lost"
    BY <1>2, <1>5, <2>1, Discarded DEF LoseDevice, h
  <2>2. CASE says # "lost"
    BY <1>1, <1>2, <1>3, <1>5, <2>2, TypeParts, DeviceType DEF h
  <2> QED BY <2>1, <2>2
<1>8. UNCHANGED faults \/ Fault(1)
  BY <1>2
<1> QED BY <1>3, <1>6, <1>7, <1>8, Painted

LEMMA NothingKeeps ==
    ASSUME DisplayInv, RenderNothing PROVE DisplayInv'
<1>1. DisplayTypeOK /\ Chain(held, device) /\ OnlyBrushesForgotten
  BY OneDeviceParts DEF DisplayInv
<1>2. /\ UNCHANGED <<stage, messages, posted, parent, ShowText, device, held, lost, made,
                     forgotten, faults>>
      /\ picture' = "dark"
  BY DEF RenderNothing, loop
<1> QED BY <1>1, <1>2, TypeParts, Painted DEF OnlyBrushesForgotten

LEMMA PictureKeeps ==
    ASSUME DisplayInv, RenderPicture PROVE DisplayInv'
<1> DEFINE h == MadeAt(ToMake)
           F == Overwrites(ToMake)
           T == IF lost THEN {} ELSE TextObjects(h)
<1>1. DisplayTypeOK /\ Chain(held, device)
  BY OneDeviceParts DEF DisplayInv
<1>2. CreateDevice
  BY DEF RenderPicture
<1>3. /\ Current \in Device /\ made' \in {0} \cup Device
      /\ UNCHANGED <<messages, posted, parent, ShowText>> /\ stage' \in {stage, "over"}
      /\ picture' \in {picture, "shown", "dark"} /\ (UNCHANGED faults \/ Fault(1))
  BY <1>1, <1>2, TypeParts DEF RenderPicture, CreateDevice
<1>4. /\ h \in [Resource -> {0} \cup Device] /\ Chain(h, Current)
      /\ \A f \in F : f[1] = "loupeBrush"
      /\ F \subseteq Resource \X Device
  BY <1>1, <1>2, AllMade DEF RenderPicture
<1>5. /\ forgotten' = (forgotten \cup F) \cup T
      /\ \/ lost /\ LoseDevice(h)
         \/ ~lost /\ UNCHANGED lost /\ device' = Current /\ held' = h
  BY DEF RenderPicture
<1> HIDE DEF h, F
<1>6. /\ T \subseteq (Resource \cup Factories) \X ({0} \cup Device)
      /\ \A f \in T : f[1] \in Resource => f[1] \in {"textBrush", "loupeBrush"}
  BY <1>4, PlaceRange DEF TextObjects, Overwritten
<1>7. /\ F \subseteq (Resource \cup Factories) \X ({0} \cup Device)
      /\ \A f \in F : f[1] \in Resource => f[1] \in {"textBrush", "loupeBrush"}
  BY <1>4
<1> HIDE DEF T
<1>8. /\ forgotten \cup F \subseteq (Resource \cup Factories) \X ({0} \cup Device)
      /\ \A f \in forgotten \cup F : f[1] \in Resource => f[1] \in {"textBrush", "loupeBrush"}
  BY <1>7, Forgets
<1>9. /\ forgotten' \subseteq (Resource \cup Factories) \X ({0} \cup Device)
      /\ \A f \in forgotten' : f[1] \in Resource => f[1] \in {"textBrush", "loupeBrush"}
  BY <1>5, <1>6, <1>8
<1>10. /\ held' \in [Resource -> {0} \cup Device] /\ Chain(held', device')
       /\ device' \in {0} \cup Device /\ lost' \in BOOLEAN /\ (lost' => device' # 0)
  <2>1. CASE lost /\ LoseDevice(h)
    BY <1>4, <2>1, Discarded DEF LoseDevice
  <2>2. CASE ~lost /\ UNCHANGED lost /\ device' = Current /\ held' = h
    BY <1>1, <1>3, <1>4, <2>2, TypeParts, DeviceType
  <2> QED BY <1>5, <2>1, <2>2
<1> QED BY <1>3, <1>9, <1>10, Painted

\* A message, a loss of the device, and the end.
LEMMA OthersKeep ==
    ASSUME DisplayInv, Dispatch \/ Quit \/ DeviceLost \/ MessageComes \/ UNCHANGED displayVars
    PROVE  DisplayInv'
<1>1. DisplayTypeOK /\ Chain(held, device) /\ OnlyBrushesForgotten /\ Counts
  BY OneDeviceParts DEF DisplayInv
<1>2. CASE Dispatch
  <2>1. DisplayTypeOK' /\ Counts'
    BY <1>1, <1>2 DEF DisplayTypeOK, Counts, Dispatch
  <2>2. Chain(held, device)' /\ OnlyBrushesForgotten'
    BY <1>1, <1>2 DEF Dispatch, Chain, OnlyBrushesForgotten
  <2> QED BY <2>1, <2>2 DEF DisplayInv, OneDevice, Chain
<1>3. CASE Quit
  <2>1. DisplayTypeOK' /\ Counts'
    BY <1>1, <1>3 DEF DisplayTypeOK, Counts, Quit
  <2>2. Chain(held, device)' /\ OnlyBrushesForgotten'
    BY <1>1, <1>3 DEF Quit, Chain, OnlyBrushesForgotten
  <2> QED BY <2>1, <2>2 DEF DisplayInv, OneDevice, Chain
<1>4. CASE DeviceLost
  <2>1. DisplayTypeOK' /\ Counts'
    BY <1>1, <1>4 DEF DisplayTypeOK, Counts, DeviceLost, Fault, loop
  <2>2. Chain(held, device)' /\ OnlyBrushesForgotten'
    BY <1>1, <1>4 DEF DeviceLost, Chain, OnlyBrushesForgotten
  <2> QED BY <2>1, <2>2 DEF DisplayInv, OneDevice, Chain
<1>5. CASE MessageComes
  <2>1. DisplayTypeOK' /\ Counts'
    BY <1>1, <1>5 DEF DisplayTypeOK, Counts, MessageComes
  <2>2. Chain(held, device)' /\ OnlyBrushesForgotten'
    BY <1>1, <1>5 DEF MessageComes, Chain, OnlyBrushesForgotten
  <2> QED BY <2>1, <2>2 DEF DisplayInv, OneDevice, Chain
<1>6. CASE UNCHANGED displayVars
  BY <1>6 DEF displayVars, DisplayInv, Counts, OneDevice, DisplayTypeOK, OnlyBrushesForgotten
<1> QED BY <1>2, <1>3, <1>4, <1>5, <1>6

LEMMA NextKeeps == DisplayInv /\ [DisplayNext]_displayVars => DisplayInv'
  BY InitializeKeeps, WithoutDeviceKeeps, CreationFailsKeeps, NothingKeeps, PictureKeeps,
     OthersKeep DEF DisplayNext, OnRender

LEMMA Inductive == DisplaySpec => []DisplayInv
<1> QED BY InitKeeps, NextKeeps, PTL DEF DisplaySpec

\* All the window holds, but for the loupe's brush, is of the current device and
\* has all that is made before it; and the state keeps its types.
THEOREM HoldsOneDevice == DisplaySpec => []OneDevice
<1>1. DisplayInv => OneDevice
  BY DEF DisplayInv
<1> QED BY <1>1, Inductive, PTL

\* No pointer is written over while it holds an object, but for two brushes.
THEOREM ForgetsBrushesOnly == DisplaySpec => []OnlyBrushesForgotten
<1>1. DisplayInv => OnlyBrushesForgotten
  BY DEF DisplayInv
<1> QED BY <1>1, Inductive, PTL
===============================================================================
