------------------------------ MODULE MCExchange ------------------------------
EXTENDS Exchange

\* A quarter of the sizes in PacketType.h, but a header of 2 that can be cut: a
\* name 10 of 40, a map 17 of 68, for a buffer of 32 of 128.
Sizes == [NAME |-> 10, MAP |-> 17, ATTACK |-> 3, OK |-> 2, ERROR |-> 3, GAME_START |-> 10,
          MY_TURN |-> 2, ATTACK_RESULT |-> 3, GAME_OVER |-> 3, NEXT_GAME |-> 2,
          ALL_OVER |-> 3]

Bytes == {Blank} \cup UNION {[type : {t}, nth : 1 .. Size[t]] : t \in DOMAIN Size}
==============================================================================
