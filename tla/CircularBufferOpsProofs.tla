----------------------- MODULE CircularBufferOpsProofs -----------------------
(***************************************************************************)
(* Lemmas about the operations of a CircularBuffer, for every capacity and *)
(* every set of bytes: the operations keep its shape, and its contents     *)
(* change as those of a queue.                                              *)
(***************************************************************************)
EXTENDS CircularBufferOps, SequenceTheorems, TLAPS

USE CapacityAssumption DEF CapacityAssumption

\* A new object is empty and has the shape.
LEMMA NewKeepsShape ==
    ASSUME NEW d \in [Offset -> Byte]
    PROVE  /\ NewBuffer(d) \in Buffers /\ WellFormed(NewBuffer(d))
           /\ StoredSize(NewBuffer(d)) = 0
<1>1. NewBuffer(d) \in Buffers
  BY DEF NewBuffer, Buffers, NULL
<1>2. WellFormed(NewBuffer(d)) /\ StoredSize(NewBuffer(d)) = 0
  BY DEF NewBuffer, WellFormed, StoredSize, NULL
<1> QED BY <1>1, <1>2

\* Opening B (GetFreeSpaceSize, Write) keeps the shape and every stored byte,
\* and the room it leaves to the writer completes what is stored to half of
\* the capacity.
LEMMA SwitchKeepsShape ==
    ASSUME NEW b \in Buffers, WellFormed(b)
    PROVE  LET c == SwitchRegion(b) IN
             /\ c \in Buffers /\ WellFormed(c)
             /\ c.data = b.data /\ c.aPtr = b.aPtr /\ c.aSize = b.aSize
             /\ c.bSize = b.bSize
             /\ WriteSpace(c) \in 0 .. Capacity
             /\ WritePosition(c) \in 0 .. Capacity
             /\ WritePosition(c) + WriteSpace(c) <= Capacity
             /\ 2 * (StoredSize(b) + WriteSpace(c)) >= Capacity
<1> DEFINE c == SwitchRegion(b)
<1>1. /\ c \in Buffers
      /\ c.data = b.data /\ c.aPtr = b.aPtr /\ c.aSize = b.aSize
      /\ c.bSize = b.bSize
      /\ \/ c = b /\ (b.bPtr = NULL => AFreeSpace(b) >= SpaceBeforeA(b))
         \/ /\ b.bPtr = NULL /\ AFreeSpace(b) < SpaceBeforeA(b)
            /\ c.bPtr = 0
  BY DEF Buffers, SwitchRegion, AFreeSpace, SpaceBeforeA, NULL
<1> HIDE DEF c
<1>2. WellFormed(c)
  BY <1>1 DEF Buffers, WellFormed, AFreeSpace, SpaceBeforeA, NULL
<1>3. /\ WriteSpace(c) \in 0 .. Capacity
      /\ WritePosition(c) \in 0 .. Capacity
      /\ WritePosition(c) + WriteSpace(c) <= Capacity
      /\ 2 * (StoredSize(b) + WriteSpace(c)) >= Capacity
  BY <1>1, <1>2 DEF Buffers, WellFormed, WriteSpace, WritePosition, StoredSize,
                    AFreeSpace, BFreeSpace, SpaceBeforeA, NULL
<1> QED
  BY <1>1, <1>2, <1>3 DEF c

\* Writing into the space that is free keeps the shape.
LEMMA StoreKeepsShape ==
    ASSUME NEW b \in Buffers, WellFormed(b), NEW s \in Seq(Byte),
           Len(s) <= WriteSpace(b)
    PROVE  LET c == CommitBytes(Store(b, WritePosition(b), s), Len(s))
           IN  c \in Buffers /\ WellFormed(c)
<1> DEFINE at == WritePosition(b)
           d  == [i \in Offset |-> IF i >= at /\ i < at + Len(s)
                                     THEN s[i - at + 1] ELSE b.data[i]]
<1>0. Len(s) \in Nat
  OBVIOUS
<1>1. at \in Int
  BY DEF Buffers, WritePosition, NULL
<1>2. d \in [Offset -> Byte]
  <2> SUFFICES ASSUME NEW i \in Offset
               PROVE  (IF i >= at /\ i < at + Len(s) THEN s[i - at + 1] ELSE b.data[i])
                        \in Byte
    OBVIOUS
  <2>1. b.data[i] \in Byte
    BY DEF Buffers
  <2>2. CASE i >= at /\ i < at + Len(s)
    <3>1. i - at + 1 \in 1 .. Len(s)
      BY <1>0, <1>1, <2>2 DEF Offset
    <3> QED BY <3>1, <2>2
  <2> QED BY <2>1, <2>2
<1> DEFINE e == Store(b, at, s)
           c == CommitBytes(e, Len(s))
<1> HIDE DEF d, at
<1>3. /\ e \in Buffers
      /\ e.aPtr = b.aPtr /\ e.aSize = b.aSize /\ e.bPtr = b.bPtr /\ e.bSize = b.bSize
  <2>1. e = [b EXCEPT !.data = d]
    BY DEF Store, d
  <2> QED BY <1>2, <2>1 DEF Buffers
<1> HIDE DEF e
<1>4. Len(s) <= Capacity /\ Len(s) <= WriteSpace(b)
  BY <1>0 DEF Buffers, WellFormed, WriteSpace, AFreeSpace, BFreeSpace, NULL
<1>5. /\ c \in [data : [Offset -> Byte], aPtr : Int, aSize : Int, bPtr : Int, bSize : Int]
      /\ c.aPtr = b.aPtr /\ c.bPtr = b.bPtr
      /\ b.bPtr = NULL => c.aSize = b.aSize + Len(s) /\ c.bSize = b.bSize
      /\ b.bPtr # NULL => c.aSize = b.aSize /\ c.bSize = b.bSize + Len(s)
  <2>1. e \in [data : [Offset -> Byte], aPtr : Int, aSize : Int, bPtr : Int, bSize : Int]
    BY <1>3 DEF Buffers, NULL
  <2>2. CASE b.bPtr = NULL
    <3>1. c = [e EXCEPT !.aSize = e.aSize + Len(s)]
      BY <1>3, <2>2 DEF CommitBytes
    <3> HIDE DEF c
    <3> QED BY <1>0, <1>3, <2>1, <2>2, <3>1
  <2>3. CASE b.bPtr # NULL
    <3>1. c = [e EXCEPT !.bSize = e.bSize + Len(s)]
      BY <1>3, <2>3 DEF CommitBytes
    <3> HIDE DEF c
    <3> QED BY <1>0, <1>3, <2>1, <2>3, <3>1
  <2> QED BY <2>2, <2>3
<1>6. c = CommitBytes(Store(b, WritePosition(b), s), Len(s))
  BY DEF at, e
<1> HIDE DEF c
<1>7. c \in Buffers
  BY <1>0, <1>4, <1>5 DEF Buffers, WellFormed, WriteSpace, AFreeSpace, BFreeSpace, NULL
<1>8. WellFormed(c)
  BY <1>0, <1>4, <1>5 DEF Buffers, WellFormed, WriteSpace, AFreeSpace, BFreeSpace, NULL
<1> QED
  BY <1>6, <1>7, <1>8

\* So does taking bytes off the front (Read, Remove).
LEMMA RemoveKeepsShape ==
    ASSUME NEW b \in Buffers, WellFormed(b), NEW len \in Nat
    PROVE  RemoveBytes(b, len) \in Buffers /\ WellFormed(RemoveBytes(b, len))
<1> DEFINE c == Advance(b, len)
<1>1. /\ c.data \in [Offset -> Byte] /\ c.data = b.data
      /\ c.aPtr \in 0 .. Capacity /\ c.aSize \in 0 .. Capacity
      /\ c.bPtr \in {NULL} \cup (0 .. Capacity) /\ c.bSize \in 0 .. Capacity
      /\ c.bSize > 0 => c.bPtr # NULL /\ c.bPtr + c.bSize <= Capacity
      /\ c.aSize > 0 => c.bPtr = b.bPtr /\ c.bSize = b.bSize
      /\ c.aPtr + c.aSize = b.aPtr + b.aSize
      /\ c.aPtr >= b.aPtr
  BY DEF Buffers, WellFormed, Advance, Lesser, NULL
<1>2. c = [data |-> c.data, aPtr |-> c.aPtr, aSize |-> c.aSize,
           bPtr |-> c.bPtr, bSize |-> c.bSize]
  BY DEF Advance
<1> HIDE DEF c
<1>3. CASE c.aSize > 0
  <2>1. PromoteB(c) = c
    BY <1>3 DEF PromoteB
  <2> QED
    BY <1>1, <1>2, <1>3, <2>1 DEF RemoveBytes, Buffers, WellFormed, NULL, c
<1>4. CASE c.aSize = 0
  <2> DEFINE d == [i \in Offset |-> IF i < c.bSize THEN c.data[c.bPtr + i]
                                                   ELSE c.data[i]]
  <2>1. d \in [Offset -> Byte]
    <3> SUFFICES ASSUME NEW i \in Offset
                 PROVE  (IF i < c.bSize THEN c.data[c.bPtr + i] ELSE c.data[i]) \in Byte
      OBVIOUS
    <3>1. c.data[i] \in Byte
      BY <1>1
    <3>2. CASE i < c.bSize
      <4>1. c.bPtr + i \in Offset
        BY <1>1, <3>2 DEF Offset, NULL
      <4> QED BY <4>1, <3>2, <1>1
    <3> QED BY <3>1, <3>2, <1>1 DEF Offset
  <2>2. PromoteB(c) = [data |-> d, aPtr |-> 0, aSize |-> c.bSize,
                       bPtr |-> NULL, bSize |-> 0]
    BY <1>1, <1>4 DEF PromoteB
  <2> HIDE DEF d
  <2> QED
    BY <1>1, <2>1, <2>2 DEF RemoveBytes, Buffers, WellFormed, NULL, c
<1> QED
  BY <1>1, <1>3, <1>4

\* Every byte a reader can reach is in the array.
LEMMA ByteAtType ==
    ASSUME NEW b \in Buffers, WellFormed(b), NEW i \in 1 .. StoredSize(b)
    PROVE  ByteAt(b, i) \in Byte
<1>1. CASE i <= b.aSize
  <2>1. b.aPtr + i - 1 \in Offset
    BY <1>1 DEF Buffers, WellFormed, Offset
  <2> QED BY <1>1, <2>1 DEF Buffers, ByteAt
<1>2. CASE i > b.aSize
  <2>1. b.bPtr + i - b.aSize - 1 \in Offset
    BY <1>2 DEF Buffers, WellFormed, Offset, StoredSize, NULL
  <2> QED BY <1>2, <2>1 DEF Buffers, ByteAt
<1> QED BY <1>1, <1>2 DEF Buffers

\* What Peek and Read hand out are bytes.
LEMMA PeekedType ==
    ASSUME NEW b \in Buffers, WellFormed(b), NEW len \in Nat, ReadFits(b, len)
    PROVE  Peeked(b, len) \in Seq(Byte)
<1>1. \A i \in 1 .. len : i \in 1 .. StoredSize(b)
  BY DEF ReadFits, Buffers, StoredSize
<1> QED BY <1>1, ByteAtType DEF Peeked

\* What is stored is a sequence of bytes, as long as the two regions.
LEMMA ContentsType ==
    ASSUME NEW b \in Buffers, WellFormed(b)
    PROVE  /\ Contents(b) \in Seq(Byte)
           /\ Len(Contents(b)) = StoredSize(b)
           /\ StoredSize(b) \in 0 .. Capacity
           /\ \A i \in 1 .. StoredSize(b) : Contents(b)[i] = ByteAt(b, i)
<1>1. StoredSize(b) \in 0 .. Capacity
  BY DEF Buffers, WellFormed, StoredSize, NULL
<1>2. \A i \in 1 .. StoredSize(b) : ByteAt(b, i) \in Byte
  BY ByteAtType
<1> QED BY <1>1, <1>2 DEF Contents

\* Opening B moves no byte.
LEMMA SwitchKeepsContents ==
    ASSUME NEW b \in Buffers, WellFormed(b)
    PROVE  Contents(SwitchRegion(b)) = Contents(b)
<1> DEFINE c == SwitchRegion(b)
<1>1. /\ c \in Buffers /\ WellFormed(c)
      /\ c.data = b.data /\ c.aPtr = b.aPtr /\ c.aSize = b.aSize /\ c.bSize = b.bSize
      /\ StoredSize(c) = StoredSize(b)
  BY SwitchKeepsShape DEF StoredSize
<1>2. c.bPtr = b.bPtr \/ b.bSize = 0
  BY DEF SwitchRegion, WellFormed
<1> HIDE DEF c
<1>3. \A i \in 1 .. StoredSize(b) : ByteAt(c, i) = ByteAt(b, i)
  BY <1>1, <1>2 DEF ByteAt, StoredSize, Buffers
<1>4. Contents(c) = Contents(b)
  BY <1>1, <1>3 DEF Contents
<1> QED BY <1>4 DEF c

\* Writing into the free space appends.
LEMMA StoreAppends ==
    ASSUME NEW b \in Buffers, WellFormed(b), NEW s \in Seq(Byte),
           Len(s) <= WriteSpace(b)
    PROVE  Contents(CommitBytes(Store(b, WritePosition(b), s), Len(s)))
             = Contents(b) \o s
<1> DEFINE e == Store(b, WritePosition(b), s)
           c == CommitBytes(e, Len(s))
           t == Contents(b) \o s
<1>0. Len(s) \in Nat /\ s \in [1 .. Len(s) -> Byte]
  OBVIOUS
<1>1. c \in Buffers /\ WellFormed(c)
  BY StoreKeepsShape
<1>2. /\ t \in Seq(Byte) /\ Len(t) = StoredSize(b) + Len(s)
      /\ \A i \in 1 .. StoredSize(b) + Len(s) :
            t[i] = IF i <= StoredSize(b) THEN ByteAt(b, i) ELSE s[i - StoredSize(b)]
  <2>1. /\ Contents(b) \in Seq(Byte) /\ Len(Contents(b)) = StoredSize(b)
        /\ StoredSize(b) \in 0 .. Capacity
        /\ \A i \in 1 .. StoredSize(b) : Contents(b)[i] = ByteAt(b, i)
    BY ContentsType
  <2>2. /\ t \in Seq(Byte) /\ Len(t) = Len(Contents(b)) + Len(s)
        /\ \A i \in 1 .. Len(Contents(b)) + Len(s) :
              t[i] = IF i <= Len(Contents(b)) THEN Contents(b)[i]
                                              ELSE s[i - Len(Contents(b))]
    BY <2>1, ConcatProperties
  <2> HIDE DEF t
  <2> QED BY <1>0, <2>1, <2>2
<1>3. /\ e.aPtr = b.aPtr /\ e.aSize = b.aSize /\ e.bPtr = b.bPtr /\ e.bSize = b.bSize
      /\ e.data = [i \in Offset |-> IF /\ i >= WritePosition(b)
                                       /\ i < WritePosition(b) + Len(s)
                                    THEN s[i - WritePosition(b) + 1] ELSE b.data[i]]
  BY DEF Store, Buffers
<1> HIDE DEF e, t
<1>4. /\ c.data = e.data /\ c.aPtr = b.aPtr /\ c.bPtr = b.bPtr
      /\ b.bPtr = NULL => c.aSize = b.aSize + Len(s) /\ c.bSize = b.bSize
      /\ b.bPtr # NULL => c.aSize = b.aSize /\ c.bSize = b.bSize + Len(s)
  <2>1. e \in [data : {e.data}, aPtr : Int, aSize : Int, bPtr : Int, bSize : Int]
    <3>1. e = [b EXCEPT !.data = e.data]
      BY DEF e, Store, Buffers
    <3> QED BY <3>1 DEF Buffers, NULL
  <2> QED BY <1>0, <1>3, <2>1 DEF CommitBytes
<1>5. c = CommitBytes(Store(b, WritePosition(b), s), Len(s))
  BY DEF e
<1> HIDE DEF c
<1>6. StoredSize(c) = StoredSize(b) + Len(s)
  BY <1>0, <1>4 DEF StoredSize, Buffers
<1>7. ASSUME NEW i \in 1 .. StoredSize(b) + Len(s)
      PROVE  ByteAt(c, i) = IF i <= StoredSize(b) THEN ByteAt(b, i)
                                                  ELSE s[i - StoredSize(b)]
  <2>1. i \in Nat /\ 1 <= i /\ i <= StoredSize(b) + Len(s)
    BY <1>0 DEF Buffers, StoredSize
  <2>2. CASE b.bPtr = NULL
    <3>1. /\ ByteAt(c, i) = c.data[b.aPtr + i - 1] /\ StoredSize(b) = b.aSize
          /\ b.aPtr + i - 1 \in Offset
      BY <1>0, <1>4, <2>1, <2>2
      DEF ByteAt, StoredSize, Buffers, WellFormed, Offset, WriteSpace, AFreeSpace
    <3>2. WritePosition(b) = b.aPtr + b.aSize
      BY <2>2 DEF WritePosition
    <3> QED
      BY <1>0, <1>3, <1>4, <2>1, <3>1, <3>2 DEF ByteAt, Buffers
  <2>3. CASE b.bPtr # NULL
    <3>1. /\ b.bPtr = 0 /\ WritePosition(b) = b.bSize
          /\ StoredSize(b) = b.aSize + b.bSize
          /\ b.bSize + Len(s) <= b.aPtr
          /\ b.aPtr + b.aSize <= Capacity
      BY <1>0, <2>3 DEF WellFormed, WritePosition, StoredSize, WriteSpace, BFreeSpace,
                        Buffers
    <3>2. CASE i <= b.aSize
      <4>1. b.aPtr + i - 1 \in Offset
        BY <2>1, <3>1, <3>2 DEF Offset, Buffers
      <4> QED
        BY <1>0, <1>3, <1>4, <2>1, <2>3, <3>1, <3>2, <4>1 DEF ByteAt, Buffers
    <3>3. CASE i > b.aSize
      <4>1. b.bPtr + i - b.aSize - 1 \in Offset
        BY <1>0, <2>1, <3>1, <3>3 DEF Offset, Buffers
      <4> QED
        BY <1>0, <1>3, <1>4, <2>1, <2>3, <3>1, <3>3, <4>1 DEF ByteAt, Buffers
    <3> QED BY <2>1, <3>2, <3>3 DEF Buffers
  <2> QED BY <2>2, <2>3
<1>8. Contents(c) = t
  <2>1. /\ Contents(c) \in Seq(Byte) /\ Len(Contents(c)) = StoredSize(c)
        /\ \A i \in 1 .. StoredSize(c) : Contents(c)[i] = ByteAt(c, i)
    BY <1>1, <1>5, ContentsType
  <2>2. /\ Len(Contents(c)) = Len(t)
        /\ \A i \in 1 .. Len(Contents(c)) : Contents(c)[i] = t[i]
    BY <1>2, <1>6, <1>7, <2>1
  <2> QED BY <1>2, <2>1, <2>2, SeqEqual
<1> QED BY <1>5, <1>8 DEF t

\* Peek copies out the oldest bytes.
LEMMA PeekedIsPrefix ==
    ASSUME NEW b \in Buffers, WellFormed(b), NEW len \in Nat, ReadFits(b, len)
    PROVE  Peeked(b, len) = SubSeq(Contents(b), 1, len)
<1> DEFINE p == Peeked(b, len)
           q == SubSeq(Contents(b), 1, len)
<1>1. /\ Contents(b) \in Seq(Byte) /\ Len(Contents(b)) = StoredSize(b)
      /\ StoredSize(b) \in 0 .. Capacity /\ len <= StoredSize(b)
      /\ \A i \in 1 .. StoredSize(b) : Contents(b)[i] = ByteAt(b, i)
  BY ContentsType DEF ReadFits
<1>2. p \in Seq(Byte) /\ Len(p) = len /\ \A i \in 1 .. len : p[i] = ByteAt(b, i)
  BY PeekedType DEF Peeked
<1>3. \A i \in 1 .. len : Contents(b)[i] \in Byte /\ Contents(b)[i] = ByteAt(b, i)
  BY <1>1, ElementOfSeq
<1>4. q \in Seq(Byte) /\ Len(q) = len /\ \A i \in 1 .. len : q[i] = Contents(b)[i]
  <2>1. /\ q \in Seq(Byte) /\ Len(q) = IF 1 <= len THEN len - 1 + 1 ELSE 0
        /\ \A i \in 1 .. len - 1 + 1 : q[i] = Contents(b)[1 + i - 1]
    <3> HIDE DEF q
    <3> QED BY <1>3, SubSeqProperties DEF q
  <2> HIDE DEF q
  <2> QED BY <2>1
<1> HIDE DEF p, q
<1>5. p = q
  BY <1>2, <1>3, <1>4, SeqEqual
<1> QED BY <1>5 DEF p, q

\* Removing takes the oldest bytes and leaves the rest in order, also when B is
\* moved to the front.
LEMMA RemoveDropsPrefix ==
    ASSUME NEW b \in Buffers, WellFormed(b), NEW len \in Nat
    PROVE  Contents(RemoveBytes(b, len))
             = SubSeq(Contents(b), len + 1, Len(Contents(b)))
<1> DEFINE c == Advance(b, len)
           r == RemoveBytes(b, len)
           q == SubSeq(Contents(b), len + 1, Len(Contents(b)))
           k == Lesser(len, StoredSize(b))
<1>1. r \in Buffers /\ WellFormed(r)
  BY RemoveKeepsShape
<1>2. /\ Contents(b) \in Seq(Byte) /\ Len(Contents(b)) = StoredSize(b)
      /\ StoredSize(b) \in 0 .. Capacity
      /\ \A i \in 1 .. StoredSize(b) : Contents(b)[i] = ByteAt(b, i)
  BY ContentsType
<1>3. k \in 0 .. StoredSize(b) /\ k <= len /\ (k < StoredSize(b) => k = len)
  BY <1>2 DEF Lesser
<1> HIDE DEF k
<1>4. /\ q \in Seq(Byte) /\ Len(q) = StoredSize(b) - k
      /\ \A i \in 1 .. StoredSize(b) - k : q[i] = ByteAt(b, k + i)
  <2>1. \A i \in len + 1 .. Len(Contents(b)) : Contents(b)[i] \in Byte
    BY <1>2, ElementOfSeq
  <2>2. /\ q \in Seq(Byte)
        /\ Len(q) = IF len + 1 <= Len(Contents(b)) THEN Len(Contents(b)) - (len + 1) + 1
                                                    ELSE 0
        /\ \A i \in 1 .. Len(Contents(b)) - (len + 1) + 1 :
              q[i] = Contents(b)[(len + 1) + i - 1]
    <3>1. len + 1 \in Int /\ Len(Contents(b)) \in Int
      BY <1>2
    <3> HIDE DEF q
    <3> QED BY <2>1, <3>1, SubSeqProperties DEF q
  <2> HIDE DEF q
  <2>3. Len(q) = StoredSize(b) - k
    BY <1>2, <1>3, <2>2 DEF k, Lesser
  <2>4. ASSUME NEW i \in 1 .. StoredSize(b) - k PROVE q[i] = ByteAt(b, k + i)
    <3>1. k = len /\ i \in 1 .. Len(Contents(b)) - (len + 1) + 1
      BY <1>2, <1>3
    <3>2. (len + 1) + i - 1 = k + i /\ k + i \in 1 .. StoredSize(b)
      BY <1>2, <1>3, <3>1
    <3> QED BY <1>2, <2>2, <3>1, <3>2
  <2> QED BY <2>2, <2>3, <2>4
<1>5. /\ c.data = b.data
      /\ c.aPtr = b.aPtr + Lesser(k, b.aSize) /\ c.aSize = b.aSize - Lesser(k, b.aSize)
      /\ c.bSize = b.bSize - (k - Lesser(k, b.aSize))
      /\ k > b.aSize => c.bPtr = b.bPtr + (k - b.aSize)
      /\ k <= b.aSize => c.bPtr = b.bPtr
  BY <1>3 DEF Advance, Lesser, k, StoredSize, Buffers
<1>6. r = PromoteB(c)
  BY DEF RemoveBytes
<1> HIDE DEF c, q, r
<1>7. /\ StoredSize(r) = StoredSize(b) - k
      /\ \A i \in 1 .. StoredSize(b) - k : ByteAt(r, i) = ByteAt(b, k + i)
  <2>1. CASE c.aSize > 0
    <3>1. r = c /\ k < b.aSize
      BY <1>3, <1>5, <1>6, <2>1 DEF PromoteB, Lesser, Buffers
    <3>2. /\ c.aPtr = b.aPtr + k /\ c.aSize = b.aSize - k
          /\ c.bSize = b.bSize /\ c.bPtr = b.bPtr
      BY <1>3, <1>5, <3>1 DEF Lesser, Buffers
    <3> QED
      BY <1>3, <1>5, <3>1, <3>2 DEF ByteAt, StoredSize, Buffers, NULL
  <2>2. CASE c.aSize = 0
    <3>1. /\ r.aPtr = 0 /\ r.aSize = c.bSize /\ r.bSize = 0
          /\ r.data = [i \in Offset |-> IF i < c.bSize THEN c.data[c.bPtr + i]
                                                        ELSE c.data[i]]
      BY <1>6, <2>2 DEF PromoteB
    <3>2. /\ k >= b.aSize
          /\ c.bSize = b.bSize - (k - b.aSize)
          /\ c.bPtr = b.bPtr + (k - b.aSize)
          /\ c.bSize \in 0 .. Capacity
      <4>1. b.aSize \in Nat /\ b.bSize \in Nat /\ b.bPtr \in Int /\ k \in Nat
        BY <1>2, <1>3 DEF Buffers, NULL
      <4>2. k >= b.aSize /\ Lesser(k, b.aSize) = b.aSize
        <5>1. Lesser(k, b.aSize) = b.aSize
          BY <1>5, <2>2, <4>1, c.aSize = b.aSize - Lesser(k, b.aSize) DEF Lesser
        <5> QED BY <4>1, <5>1 DEF Lesser
      <4>3. c.bSize = b.bSize - (k - b.aSize) /\ c.bPtr = b.bPtr + (k - b.aSize)
        BY <1>5, <4>1, <4>2
      <4>4. c.bSize \in 0 .. Capacity
        BY <1>2, <1>3, <4>1, <4>2, <4>3 DEF StoredSize
      <4> QED BY <4>2, <4>3, <4>4
    <3>3. StoredSize(r) = StoredSize(b) - k
      BY <1>3, <3>1, <3>2 DEF StoredSize, Buffers
    <3>4. ASSUME NEW i \in 1 .. StoredSize(b) - k
          PROVE  ByteAt(r, i) = ByteAt(b, k + i)
      <4>1. i - 1 \in Offset /\ i - 1 < c.bSize /\ i <= r.aSize
        BY <1>2, <1>3, <3>1, <3>2 DEF Offset, StoredSize, Buffers
      <4>2. ByteAt(r, i) = c.data[c.bPtr + (i - 1)]
        BY <1>2, <1>3, <3>1, <4>1 DEF ByteAt
      <4>3. ByteAt(b, k + i) = b.data[b.bPtr + (k + i) - b.aSize - 1]
        BY <1>2, <1>3, <3>2 DEF ByteAt, Buffers
      <4>4. c.bPtr + (i - 1) = b.bPtr + (k + i) - b.aSize - 1
        BY <1>2, <1>3, <3>2 DEF Buffers, NULL
      <4> QED BY <1>5, <4>2, <4>3, <4>4
    <3> QED BY <3>3, <3>4
  <2> QED BY <1>3, <1>5, <2>1, <2>2 DEF Lesser, Buffers
<1>8. Contents(r) = q
  <2>1. /\ Contents(r) \in Seq(Byte) /\ Len(Contents(r)) = StoredSize(r)
        /\ \A i \in 1 .. StoredSize(r) : Contents(r)[i] = ByteAt(r, i)
    BY <1>1, ContentsType
  <2> QED BY <1>4, <1>7, <2>1, SeqEqual
<1> QED BY <1>8 DEF r, q
==============================================================================
