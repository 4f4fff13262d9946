-------------------------- MODULE CircularBufferOps --------------------------
(***************************************************************************)
(* The operations of class CircularBuffer (CircularBuffer.h, .cpp) as pure *)
(* operators on a record: a "bip buffer" of two regions A and B of one     *)
(* array.  Pointers are offsets from mBuffer.  Readers drain A first;      *)
(* writers append to A until there is more room before A than after it,    *)
(* then open B at offset 0 and write there until A is drained.             *)
(* Bytes are an abstract set: the buffer never looks at them.              *)
(***************************************************************************)
EXTENDS Integers, Sequences

CONSTANTS Capacity,     \* the constructor's argument; BUFSIZE in ClientSession
          Byte          \* what one array cell holds

ASSUME CapacityAssumption == Capacity \in Nat \ {0}

NULL == -1              \* nullptr, as an offset

Offset == 0 .. Capacity - 1

Buffers == [data  : [Offset -> Byte],
            aPtr  : 0 .. Capacity, aSize : 0 .. Capacity,
            bPtr  : {NULL} \cup (0 .. Capacity), bSize : 0 .. Capacity]

\* The constructor; new char[] leaves the cells d uninitialised.
NewBuffer(d) == [data |-> d, aPtr |-> 0, aSize |-> 0, bPtr |-> NULL, bSize |-> 0]

\* The shape the operations rely on and keep: the regions lie in the array and
\* apart, B starts at the front and was opened when A had passed the middle,
\* and an empty A means that both were reset.
WellFormed(b) ==
    /\ b.aPtr + b.aSize <= Capacity
    /\ b.bPtr = NULL => b.bSize = 0
    /\ b.bPtr # NULL => /\ b.bPtr = 0
                        /\ b.bSize <= b.aPtr
                        /\ b.aSize > 0
                        /\ 2 * (b.aPtr + b.aSize) > Capacity
    /\ b.aSize = 0 => b.aPtr = 0

------------------------------------------------------------------------------
\* Sizes.

AFreeSpace(b)   == Capacity - b.aPtr - b.aSize
SpaceBeforeA(b) == b.aPtr
BFreeSpace(b)   == IF b.bPtr = NULL THEN 0 ELSE b.aPtr - b.bPtr - b.bSize
StoredSize(b)   == b.aSize + b.bSize
ContiguousBytes(b) == IF b.aSize > 0 THEN b.aSize ELSE b.bSize

\* Mutant: B is opened only when A has no room left at all.
SwitchRegion_Late(b) ==
    IF b.bPtr = NULL /\ AFreeSpace(b) = 0 /\ SpaceBeforeA(b) > 0
      THEN [b EXCEPT !.bPtr = 0]
      ELSE b

\* The switch to B both GetFreeSpaceSize and Write make before they look at the
\* space.  It stays made when the write is then refused.
SwitchRegion(b) ==
    IF b.bPtr = NULL /\ AFreeSpace(b) < SpaceBeforeA(b)
      THEN [b EXCEPT !.bPtr = 0]
      ELSE b

\* The room of the region now written to, and what GetFreeSpaceSize answers.
WriteSpace(b) == IF b.bPtr # NULL THEN BFreeSpace(b) ELSE AFreeSpace(b)
FreeSpace(b)  == WriteSpace(SwitchRegion(b))

\* GetBuffer and GetBufferStart.
WritePosition(b) == IF b.bPtr # NULL THEN b.bPtr + b.bSize ELSE b.aPtr + b.aSize
ReadPosition(b)  == IF b.aSize > 0 THEN b.aPtr ELSE b.bPtr

------------------------------------------------------------------------------
\* Writing.

\* memcpy(mBuffer + at, s, Len(s)).
Store(b, at, s) ==
    [b EXCEPT !.data = [i \in Offset |-> IF i >= at /\ i < at + Len(s)
                                           THEN s[i - at + 1] ELSE b.data[i]]]

\* Mutant: the commit always goes to A.
CommitBytes_ToA(b, len) == [b EXCEPT !.aSize = b.aSize + len]

CommitBytes(b, len) ==
    IF b.bPtr # NULL THEN [b EXCEPT !.bSize = b.bSize + len]
                     ELSE [b EXCEPT !.aSize = b.aSize + len]

WriteFits(b, len) == FreeSpace(b) >= len

\* Write: what is left of b, whether or not the bytes fit.
WriteBytes(b, s) ==
    LET c == SwitchRegion(b)
    IN  IF WriteFits(b, Len(s))
          THEN CommitBytes(Store(c, WritePosition(c), s), Len(s))
          ELSE c

------------------------------------------------------------------------------
\* Reading.

\* The i-th byte a reader gets: A's bytes first, then B's.
ByteAt(b, i) == IF i <= b.aSize THEN b.data[b.aPtr + i - 1]
                                ELSE b.data[b.bPtr + i - b.aSize - 1]

Contents(b) == [i \in 1 .. StoredSize(b) |-> ByteAt(b, i)]

\* What Peek and Read copy out.
Peeked(b, len) == [i \in 1 .. len |-> ByteAt(b, i)]

Lesser(m, n) == IF m <= n THEN m ELSE n

\* Take len bytes off the front, from A and then from B.
Advance(b, len) ==
    LET fromA == Lesser(len, b.aSize)
        fromB == Lesser(len - fromA, b.bSize)
    IN  [data |-> b.data,
         aPtr |-> b.aPtr + fromA, aSize |-> b.aSize - fromA,
         bPtr |-> IF fromB > 0 THEN b.bPtr + fromB ELSE b.bPtr,
         bSize |-> b.bSize - fromB]

\* Mutants: the bytes of B are not moved to the front; B is not closed.
PromoteB_NoMove(b) ==
    IF b.aSize > 0 THEN b
    ELSE [data |-> b.data, aPtr |-> 0, aSize |-> b.bSize, bPtr |-> NULL, bSize |-> 0]

PromoteB_StaysOpen(b) ==
    IF b.aSize > 0 THEN b
    ELSE [data |-> [i \in Offset |-> IF i < b.bSize THEN b.data[b.bPtr + i]
                                                     ELSE b.data[i]],
          aPtr |-> 0, aSize |-> b.bSize, bPtr |-> b.bPtr, bSize |-> 0]

\* Mutant: an empty A stays where it ended.
PromoteB_NoReset(b) ==
    IF b.aSize > 0 \/ b.bSize = 0 THEN b
    ELSE [data |-> [i \in Offset |-> IF i < b.bSize THEN b.data[b.bPtr + i]
                                                     ELSE b.data[i]],
          aPtr |-> 0, aSize |-> b.bSize, bPtr |-> NULL, bSize |-> 0]

\* A drained A hands over to B, whose bytes are moved to the front; with
\* nothing in B either, both regions start again.
PromoteB(b) ==
    IF b.aSize > 0 THEN b
    ELSE [data |-> [i \in Offset |-> IF i < b.bSize THEN b.data[b.bPtr + i]
                                                     ELSE b.data[i]],
          aPtr |-> 0, aSize |-> b.bSize, bPtr |-> NULL, bSize |-> 0]

\* Remove, which takes what there is; and Read, which the caller may only
\* ask for what is stored.
RemoveBytes(b, len) == PromoteB(Advance(b, len))

ReadFits(b, len) == StoredSize(b) >= len
ReadBytes(b, len) == IF ReadFits(b, len) THEN PromoteB(Advance(b, len)) ELSE b
==============================================================================
