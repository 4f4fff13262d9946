---------------------------- MODULE SendPathProofs ----------------------------
(***************************************************************************)
(* A CircularBuffer under every sequence of calls, and the send buffer of  *)
(* a session, which is one under the calls of ClientSession: for every     *)
(* capacity, every set of bytes and of packet sizes and every bound.       *)
(*                                                                          *)
(* Of the object: its regions stay apart, a posted receive fills free space *)
(* only, and it is a queue of bytes.  Of the send path: when every send     *)
(* completes before the next flush, the network is given the bytes of a     *)
(* session once and in order.                                               *)
(***************************************************************************)
EXTENDS CircularBuffer, SendPath, CircularBufferOpsProofs

USE CapacityAssumption, ChunkAssumption DEF CapacityAssumption, ChunkAssumption

------------------------------------------------------------------------------
\* The inductive invariant: the shape of the object, and that a posted receive
\* still points at the free space it was measured for.
PendingInv ==
    pending # NoReceive => /\ pending.space = WriteSpace(buf)
                           /\ pending.at = WritePosition(buf)

IInv == TypeOK /\ WellFormed(buf) /\ PendingInv

\* Every chunk is a sequence of bytes no longer than the bound.
LEMMA ChunkType == ASSUME NEW s \in Chunk PROVE s \in Seq(Byte)
  BY DEF Chunk

\* The invariant holds at first, every call keeps it, and so it always holds.
LEMMA InitEstablishes == Init => IInv
  BY DEF Init, IInv, TypeOK, NewBuffer, Buffers, WellFormed, PendingInv, Answer,
         NoReceive, NULL

\* One step per call of the class, under it one per part it can disturb.
LEMMA StepPreserves == IInv /\ [Next]_vars => IInv'
<1> SUFFICES ASSUME IInv, [Next]_vars PROVE IInv'
  OBVIOUS
<1>0. buf \in Buffers /\ WellFormed(buf)
  BY DEF IInv, TypeOK
<1> DEFINE c == SwitchRegion(buf)
<1>1. ASSUME NEW s \in Chunk, Write(s) PROVE IInv'
  <2>1. s \in Seq(Byte)
    BY ChunkType
  <2>2. c \in Buffers /\ WellFormed(c)
    BY <1>0, SwitchKeepsShape
  <2>3. buf' \in Buffers /\ WellFormed(buf')
    <3>1. CASE WriteFits(buf, Len(s))
      <4>1. Len(s) <= WriteSpace(c)
        BY <3>1, <1>0, <2>1, <2>2, SwitchKeepsShape DEF WriteFits, FreeSpace
      <4>2. buf' = CommitBytes(Store(c, WritePosition(c), s), Len(s))
        BY <1>1, <3>1 DEF Write, WriteBytes
      <4> HIDE DEF c
      <4> QED BY <2>1, <2>2, <4>1, <4>2, StoreKeepsShape
    <3>2. CASE ~WriteFits(buf, Len(s))
      BY <1>1, <2>2, <3>2 DEF Write, WriteBytes
    <3> QED BY <3>1, <3>2
  <2>4. ret'.ok \in BOOLEAN /\ ret'.out \in Seq(Byte)
    BY <1>1 DEF Write, Answer, WriteFits
  <2> QED
    BY <1>1, <2>3, <2>4 DEF Write, Idle, IInv, TypeOK, PendingInv
<1>2. ASSUME NEW s \in Chunk, Receive(s) PROVE IInv'
  <2>1. s \in Seq(Byte)
    BY ChunkType
  <2>2. /\ Len(s) <= WriteSpace(buf)
        /\ buf' = CommitBytes(Store(buf, WritePosition(buf), s), Len(s))
    BY <1>2 DEF Receive, Idle, IInv, PendingInv
  <2>3. buf' \in Buffers /\ WellFormed(buf')
    BY <1>0, <2>1, <2>2, StoreKeepsShape
  <2>4. ret'.ok \in BOOLEAN /\ ret'.out \in Seq(Byte)
    BY <1>2 DEF Receive, Answer
  <2>5. pending' = NoReceive /\ pending' \in [at : 0 .. Capacity, space : {NULL} \cup 0 .. Capacity]
    BY <1>2 DEF Receive, NoReceive
  <2> QED
    BY <2>3, <2>4, <2>5 DEF IInv, TypeOK, PendingInv
<1>3. ASSUME NEW len \in 0 .. MaxChunk, Remove(len) PROVE IInv'
  <2>1. buf' \in Buffers /\ WellFormed(buf')
    BY <1>0, <1>3, RemoveKeepsShape DEF Remove
  <2> QED
    BY <1>3, <2>1 DEF Remove, Idle, Answer, IInv, TypeOK, PendingInv
<1>4. ASSUME NEW len \in 0 .. MaxChunk, Peek(len) PROVE IInv'
  <2>1. ret'.ok \in BOOLEAN /\ ret'.out \in Seq(Byte)
    BY <1>0, <1>4, PeekedType DEF Peek, Answer
  <2> QED
    BY <1>4, <2>1 DEF Peek, Idle, IInv, TypeOK, PendingInv
<1>5. ASSUME NEW len \in 0 .. MaxChunk, Read(len) PROVE IInv'
  <2>1. ret'.ok \in BOOLEAN /\ ret'.out \in Seq(Byte)
    BY <1>0, <1>5, PeekedType DEF Read, Answer
  <2>2. buf' \in Buffers /\ WellFormed(buf')
    <3>1. CASE ReadFits(buf, len)
      <4>1. buf' = RemoveBytes(buf, len)
        BY <1>5, <3>1 DEF Read, ReadBytes, RemoveBytes
      <4> QED BY <1>0, <4>1, RemoveKeepsShape
    <3>2. CASE ~ReadFits(buf, len)
      BY <1>0, <1>5, <3>2 DEF Read, ReadBytes
    <3> QED BY <3>1, <3>2
  <2> QED
    BY <1>5, <2>1, <2>2 DEF Read, Idle, IInv, TypeOK, PendingInv
<1>6. ASSUME PostReceive PROVE IInv'
  <2>1. /\ c \in Buffers /\ WellFormed(c)
        /\ WriteSpace(c) \in 0 .. Capacity /\ WritePosition(c) \in 0 .. Capacity
    BY <1>0, SwitchKeepsShape
  <2>2. /\ buf' = c /\ ret' = ret
        /\ pending' = [at |-> WritePosition(c), space |-> WriteSpace(c)]
    BY <1>6 DEF PostReceive, FreeSpace
  <2> HIDE DEF c
  <2>3. pending' \in [at : 0 .. Capacity, space : {NULL} \cup 0 .. Capacity]
    BY <2>1, <2>2
  <2>4. PendingInv'
    BY <2>2 DEF PendingInv
  <2> QED
    BY <2>1, <2>2, <2>3, <2>4 DEF IInv, TypeOK
<1>7. CASE UNCHANGED vars
  BY <1>7 DEF vars, IInv, TypeOK, PendingInv
<1> QED
  BY <1>1, <1>2, <1>3, <1>4, <1>5, <1>6, <1>7 DEF Next

\* The two together.
LEMMA Inductive == Spec => []IInv
  BY InitEstablishes, StepPreserves, PTL DEF Spec

\* Every variable keeps its type.
THEOREM TypeCorrect == Spec => []TypeOK
<1>1. IInv => TypeOK
  BY DEF IInv
<1> QED BY Inductive, <1>1, PTL

\* Whatever is called in whatever order, the regions stay apart and inside
\* the array.
THEOREM RegionsCorrect == Spec => []RegionsApart
<1>1. IInv => RegionsApart
  BY DEF IInv, RegionsApart
<1> QED BY Inductive, <1>1, PTL

\* Half of the capacity is always usable, however the object is used: what is
\* stored plus what GetFreeSpaceSize offers is at least that.
THEOREM HalfCapacityHolds == Spec => []HalfCapacity
<1>1. IInv => HalfCapacity
  BY SwitchKeepsShape DEF IInv, TypeOK, HalfCapacity, FreeSpace
<1> QED BY Inductive, <1>1, PTL

\* A posted receive is given only cells that hold no stored byte.
THEOREM ReceiveSafe == Spec => []ReceiveIntoFreeSpace
<1>1. ASSUME IInv PROVE ReceiveIntoFreeSpace
  <2> SUFFICES ASSUME pending # NoReceive
               PROVE  /\ pending.at + pending.space <= Capacity
                      /\ \A i \in pending.at .. pending.at + pending.space - 1 :
                            /\ i < buf.aPtr \/ i >= buf.aPtr + buf.aSize
                            /\ buf.bPtr # NULL => i >= buf.bPtr + buf.bSize
    BY <1>1 DEF IInv, PendingInv, ReceiveIntoFreeSpace, Idle
  <2>1. /\ pending.space = WriteSpace(buf) /\ pending.at = WritePosition(buf)
        /\ buf \in Buffers /\ WellFormed(buf)
    BY <1>1 DEF IInv, PendingInv, TypeOK
  <2> QED
    BY <2>1 DEF Buffers, WellFormed, WriteSpace, WritePosition, AFreeSpace,
                BFreeSpace, NULL
<1> QED BY Inductive, <1>1, PTL

------------------------------------------------------------------------------
(* The object implements a queue of bytes. *)

\* Every initial object is an empty queue.
LEMMA InitRefines == Init => Stream!SInit
<1> SUFFICES ASSUME Init PROVE Stream!SInit
  OBVIOUS
<1>1. PICK d \in [Offset -> Byte] : buf = NewBuffer(d)
  BY DEF Init
<1>2. StoredSize(buf) = 0
  BY <1>1 DEF NewBuffer, StoredSize
<1>3. Contents(buf) = << >>
  <2>1. Contents(buf) = [i \in 1 .. 0 |-> ByteAt(buf, i)]
    BY <1>2 DEF Contents
  <2> QED BY <2>1
<1> QED
  BY <1>3 DEF Init, Stream!SInit, Stream!Result, Stream!Closed, Answer, NoReceive, NULL

\* Every call is a step of the queue; opening B alone, in a refused write or a
\* posted receive, changes no byte of it.
LEMMA StepRefines == IInv /\ [Next]_vars => [Stream!SNext]_Stream!svars
<1> SUFFICES ASSUME IInv, [Next]_vars
             PROVE  Stream!SNext \/ UNCHANGED Stream!svars
  OBVIOUS
<1> USE DEF Stream!Result, Stream!Closed, Answer
<1>0. buf \in Buffers /\ WellFormed(buf)
  BY DEF IInv, TypeOK
<1>a. /\ Contents(buf) \in Seq(Byte) /\ Len(Contents(buf)) = StoredSize(buf)
      /\ StoredSize(buf) \in 0 .. Capacity
  BY <1>0, ContentsType
<1>b. Stream!Chunks = Chunk
  BY DEF Stream!Chunks, Chunk
<1> DEFINE c == SwitchRegion(buf)
<1>c. /\ c \in Buffers /\ WellFormed(c) /\ Contents(c) = Contents(buf)
      /\ StoredSize(c) = StoredSize(buf) /\ FreeSpace(buf) = WriteSpace(c)
      /\ WriteSpace(c) \in 0 .. Capacity
      /\ StoredSize(c) + WriteSpace(c) <= Capacity
      /\ 2 * (StoredSize(buf) + WriteSpace(c)) >= Capacity
  <2>1. /\ c \in Buffers /\ WellFormed(c) /\ Contents(c) = Contents(buf)
        /\ StoredSize(c) = StoredSize(buf) /\ FreeSpace(buf) = WriteSpace(c)
        /\ WriteSpace(c) \in 0 .. Capacity
        /\ 2 * (StoredSize(buf) + WriteSpace(c)) >= Capacity
    BY <1>0, SwitchKeepsShape, SwitchKeepsContents DEF FreeSpace, StoredSize
  <2> HIDE DEF c
  <2>2. StoredSize(c) + WriteSpace(c) <= Capacity
    BY <2>1 DEF Buffers, WellFormed, StoredSize, WriteSpace, AFreeSpace, BFreeSpace, NULL
  <2> QED BY <2>1, <2>2
<1> HIDE DEF c
<1>1. ASSUME NEW s \in Chunk, Write(s) PROVE Stream!Put(s)
  <2>1. s \in Seq(Byte) /\ Len(s) \in Nat
    BY ChunkType
  <2>2. CASE WriteFits(buf, Len(s))
    <3>1. Len(s) <= WriteSpace(c)
      BY <1>c, <2>2 DEF WriteFits
    <3>2. buf' = CommitBytes(Store(c, WritePosition(c), s), Len(s))
      BY <1>1, <2>2 DEF Write, WriteBytes, c
    <3>3. Contents(buf') = Contents(buf) \o s
      BY <1>c, <2>1, <3>1, <3>2, StoreAppends
    <3>4. Len(Contents(buf)) + Len(s) <= Capacity
      BY <1>a, <1>c, <2>1, <3>1
    <3>5. ret' = [ok |-> TRUE, out |-> << >>]
      BY <1>1, <2>2 DEF Write
    <3>6. pending.space = NULL /\ UNCHANGED pending
      BY <1>1 DEF Write, Idle, NoReceive
    <3> QED
      BY <3>3, <3>4, <3>5, <3>6 DEF NULL, Stream!Put
  <2>3. CASE ~WriteFits(buf, Len(s))
    <3>1. Contents(buf') = Contents(buf)
      BY <1>1, <1>c, <2>3 DEF Write, WriteBytes, c
    <3>2. 2 * (Len(Contents(buf)) + Len(s)) > Capacity
      BY <1>a, <1>c, <2>1, <2>3 DEF WriteFits
    <3>3. ret' = [ok |-> FALSE, out |-> << >>]
      <4>1. WriteFits(buf, Len(s)) = FALSE
        BY <2>3 DEF WriteFits
      <4> QED BY <1>1, <4>1 DEF Write
    <3>4. pending.space = NULL /\ UNCHANGED pending
      BY <1>1 DEF Write, Idle, NoReceive
    <3> QED
      BY <3>1, <3>2, <3>3, <3>4 DEF NULL, Stream!Put
  <2> QED BY <2>2, <2>3
<1>2. ASSUME NEW s \in Chunk, Receive(s) PROVE Stream!Arrive(s)
  <2>1. s \in Seq(Byte)
    BY ChunkType
  <2>2. /\ pending # NoReceive /\ pending.space = WriteSpace(buf)
        /\ pending.at = WritePosition(buf)
    BY <1>2 DEF Receive, Idle, IInv, PendingInv
  <2>3. WriteSpace(buf) # NULL
    BY <1>0 DEF Buffers, WellFormed, WriteSpace, AFreeSpace, BFreeSpace, NULL
  <2>4. Contents(buf') = Contents(buf) \o s
    BY <1>0, <1>2, <2>1, <2>2, StoreAppends DEF Receive
  <2> QED
    BY <1>2, <2>2, <2>3, <2>4 DEF Receive, NoReceive, NULL, Stream!Arrive
<1>3. ASSUME NEW len \in 0 .. MaxChunk, Remove(len) PROVE Stream!Discard(len)
  <2>1. Contents(buf') = SubSeq(Contents(buf), len + 1, Len(Contents(buf)))
    <3>1. buf' = RemoveBytes(buf, len) /\ len \in Nat
      BY <1>3 DEF Remove
    <3>2. Contents(RemoveBytes(buf, len))
            = SubSeq(Contents(buf), len + 1, Len(Contents(buf)))
      BY <1>0, <3>1, RemoveDropsPrefix
    <3> QED BY <3>1, <3>2
  <2> QED
    BY <1>3, <2>1 DEF Remove, Idle, NoReceive, NULL, Stream!Discard
<1>4. ASSUME NEW len \in 0 .. MaxChunk, Peek(len) PROVE Stream!Look(len)
  <2>1. ReadFits(buf, len) <=> len <= Len(Contents(buf))
    BY <1>a DEF ReadFits
  <2>2. ReadFits(buf, len) => Peeked(buf, len) = SubSeq(Contents(buf), 1, len)
    BY <1>0, PeekedIsPrefix
  <2> QED
    BY <1>4, <2>1, <2>2 DEF Peek, Idle, NoReceive, NULL, Stream!Look
<1>5. ASSUME NEW len \in 0 .. MaxChunk, Read(len) PROVE Stream!Take(len)
  <2>1. ReadFits(buf, len) <=> len <= Len(Contents(buf))
    BY <1>a DEF ReadFits
  <2>2. ReadFits(buf, len) => Peeked(buf, len) = SubSeq(Contents(buf), 1, len)
    BY <1>0, PeekedIsPrefix
  <2>3. ReadFits(buf, len) =>
          Contents(buf') = SubSeq(Contents(buf), len + 1, Len(Contents(buf)))
    <3>1. ReadFits(buf, len) => buf' = RemoveBytes(buf, len)
      BY <1>5 DEF Read, ReadBytes, RemoveBytes
    <3>2. len \in Nat
      OBVIOUS
    <3>3. Contents(RemoveBytes(buf, len))
            = SubSeq(Contents(buf), len + 1, Len(Contents(buf)))
      BY <1>0, <3>2, RemoveDropsPrefix
    <3> QED BY <3>1, <3>3
  <2>4. ~ReadFits(buf, len) => Contents(buf') = Contents(buf)
    BY <1>5 DEF Read, ReadBytes
  <2> QED
    BY <1>5, <2>1, <2>2, <2>3, <2>4 DEF Read, Idle, NoReceive, NULL, Stream!Take
<1>6. ASSUME PostReceive PROVE Stream!Offer
  <2>1. /\ pending.space = NULL /\ Contents(buf') = Contents(buf) /\ ret' = ret
        /\ pending'.space = WriteSpace(c)
    BY <1>6, <1>c DEF PostReceive, Idle, NoReceive, c
  <2> QED
    BY <1>a, <1>c, <2>1 DEF NULL, Stream!Offer
<1>7. CASE UNCHANGED vars
  BY <1>7 DEF vars, Stream!svars, Contents, StoredSize, ByteAt
<1> QED
  BY <1>b, <1>1, <1>2, <1>3, <1>4, <1>5, <1>6, <1>7 DEF Next, Stream!SNext

\* For every capacity, every set of bytes and every sequence of calls, the
\* object is a queue of bytes: nothing is lost, duplicated or reordered by the
\* two regions, and a write is refused only when it would fill more than half.
THEOREM ImplementsStream == Spec => RefinesStream
  BY Inductive, InitRefines, StepRefines, PTL DEF Spec, RefinesStream, Stream!Spec

------------------------------------------------------------------------------
(* The send buffer of a session. *)

USE SendAssumption DEF SendAssumption

\* The bytes stored are the last of the n that were accepted.
Holds(b, n) ==
    /\ StoredSize(b) <= n
    /\ \A i \in 1 .. StoredSize(b) : Contents(b)[i] = n - StoredSize(b) + i

\* The send outstanding, if there is one, is of the oldest bytes stored, and
\* the wire has got as far as it says.
PostedInv ==
    /\ posted = << >> => Len(wire) = accepted - StoredSize(sendBuf)
    /\ posted # << >> =>
          /\ Len(posted) = 1
          /\ posted[1].at = ReadPosition(sendBuf)
          /\ posted[1].len <= ContiguousBytes(sendBuf)
          /\ Len(wire) = accepted - StoredSize(sendBuf)
                         + (IF posted[1].taken THEN posted[1].len ELSE 0)

SInv ==
    /\ SendTypeOK
    /\ WellFormed(sendBuf)
    /\ \A i \in 1 .. Len(wire) : wire[i] = i
    /\ up => Holds(sendBuf, accepted) /\ PostedInv

------------------------------------------------------------------------------
\* A sequence of one element.
LEMMA Singleton ==
    ASSUME NEW S, NEW q \in Seq(S), Len(q) = 1
    PROVE  q[1] \in S /\ q = <<q[1]>> /\ Head(q) = q[1] /\ Tail(q) = << >>
<1>1. q[1] \in S
  BY ElementOfSeq
<1>2. <<q[1]>> \in Seq(S) /\ Len(<<q[1]>>) = 1
  BY <1>1
<1>3. q = <<q[1]>>
  BY <1>2, SeqEqual
<1>4. Head(q) = q[1]
  OBVIOUS
<1>5. Tail(q) = << >>
  <2>1. q # << >>
    OBVIOUS
  <2>2. Tail(q) \in Seq(S) /\ Len(Tail(q)) = 0
    BY <2>1, HeadTailProperties
  <2> QED BY <2>2, EmptySeq
<1> QED BY <1>1, <1>3, <1>4, <1>5

\* The bytes of a packet have the numbers after those accepted before it.
LEMMA NumberedType ==
    ASSUME NEW n \in Nat, NEW len \in Nat, n + len <= MaxBytes
    PROVE  /\ Numbered(n, len) \in Seq(Byte) /\ Len(Numbered(n, len)) = len
           /\ \A i \in 1 .. len : Numbered(n, len)[i] = n + i
<1>1. \A i \in 1 .. len : n + i \in Byte
  OBVIOUS
<1> QED BY <1>1 DEF Numbered

\* A non-empty buffer reads from A; what an empty one stores is nothing.
LEMMA ReadsFromA ==
    ASSUME NEW b \in Buffers, WellFormed(b), StoredSize(b) > 0
    PROVE  /\ b.aSize > 0
           /\ ReadPosition(b) = b.aPtr /\ ContiguousBytes(b) = b.aSize
  BY DEF Buffers, WellFormed, StoredSize, ReadPosition, ContiguousBytes, NULL

\* A packet that is written goes behind what is stored, and leaves the send
\* that is outstanding where it is.
LEMMA WriteInOrder ==
    ASSUME NEW b \in Buffers, WellFormed(b), NEW n \in Nat, Holds(b, n),
           NEW size \in Nat, n + size <= MaxBytes, WriteFits(b, size)
    PROVE  LET c == WriteBytes(b, Numbered(n, size)) IN
             /\ c \in Buffers /\ WellFormed(c) /\ Holds(c, n + size)
             /\ StoredSize(c) = StoredSize(b) + size
             /\ StoredSize(b) > 0 => /\ ReadPosition(c) = ReadPosition(b)
                                     /\ ContiguousBytes(c) >= ContiguousBytes(b)
<1> DEFINE s == Numbered(n, size)
           d == SwitchRegion(b)
           c == CommitBytes(Store(d, WritePosition(d), s), Len(s))
<1>1. /\ s \in Seq(Byte) /\ Len(s) = size /\ \A i \in 1 .. size : s[i] = n + i
  BY NumberedType
<1>2. /\ d \in Buffers /\ WellFormed(d) /\ Contents(d) = Contents(b)
      /\ d.aPtr = b.aPtr /\ d.aSize = b.aSize /\ d.bSize = b.bSize
      /\ StoredSize(d) = StoredSize(b)
      /\ size <= WriteSpace(d)
  BY SwitchKeepsShape, SwitchKeepsContents DEF WriteFits, FreeSpace, StoredSize
<1>3. WriteBytes(b, s) = c
  BY <1>1 DEF WriteBytes
<1> HIDE DEF s, d
<1>4. c \in Buffers /\ WellFormed(c) /\ Contents(c) = Contents(d) \o s
  BY <1>1, <1>2, StoreKeepsShape, StoreAppends
<1>5. /\ c.aPtr = b.aPtr /\ c.aSize >= b.aSize
      /\ c.aSize + c.bSize = b.aSize + b.bSize + size
  <2> DEFINE e == Store(d, WritePosition(d), s)
  <2>1. /\ e.aPtr = d.aPtr /\ e.aSize = d.aSize /\ e.bSize = d.bSize
        /\ e.bPtr = d.bPtr
        /\ DOMAIN e = {"data", "aPtr", "aSize", "bPtr", "bSize"}
    BY <1>2 DEF Store, Buffers
  <2> HIDE DEF e
  <2>2. \/ c.aPtr = e.aPtr /\ c.aSize = e.aSize + size /\ c.bSize = e.bSize
        \/ c.aPtr = e.aPtr /\ c.aSize = e.aSize /\ c.bSize = e.bSize + size
    BY <1>1, <2>1 DEF CommitBytes, e
  <2> QED BY <1>2, <2>1, <2>2 DEF Buffers
<1> HIDE DEF c
<1>6. StoredSize(c) = StoredSize(b) + size
  BY <1>5 DEF StoredSize
<1>7. Holds(c, n + size)
  <2>1. /\ Contents(b) \in Seq(Byte) /\ Len(Contents(b)) = StoredSize(b)
        /\ StoredSize(b) \in Nat
    BY ContentsType
  <2>2. \A i \in 1 .. StoredSize(b) + size :
          Contents(c)[i] = IF i <= StoredSize(b) THEN Contents(b)[i]
                                                 ELSE s[i - StoredSize(b)]
    BY <1>1, <1>2, <1>4, <2>1, ConcatProperties
  <2>3. ASSUME NEW i \in 1 .. StoredSize(b) + size
        PROVE  Contents(c)[i] = n - StoredSize(b) + i
    <3>1. CASE i <= StoredSize(b)
      BY <2>1, <2>2, <3>1 DEF Holds
    <3>2. CASE i > StoredSize(b)
      <4>1. i - StoredSize(b) \in 1 .. size
        BY <2>1, <3>2
      <4> QED BY <1>1, <2>1, <2>2, <3>2, <4>1
    <3> QED BY <2>1, <3>1, <3>2
  <2> QED BY <1>6, <2>1, <2>3 DEF Holds
<1>8. StoredSize(b) > 0 => /\ ReadPosition(c) = ReadPosition(b)
                           /\ ContiguousBytes(c) >= ContiguousBytes(b)
  <2> SUFFICES ASSUME StoredSize(b) > 0
               PROVE  /\ ReadPosition(c) = ReadPosition(b)
                      /\ ContiguousBytes(c) >= ContiguousBytes(b)
    OBVIOUS
  <2>1. StoredSize(c) > 0
    BY <1>6, ContentsType
  <2> QED BY <1>4, <1>5, <2>1, ReadsFromA
<1> QED BY <1>3, <1>4, <1>6, <1>7, <1>8 DEF s

\* Removing what was sent leaves the bytes that come after it.
LEMMA RemoveInOrder ==
    ASSUME NEW b \in Buffers, WellFormed(b), NEW n \in Nat, Holds(b, n),
           NEW len \in Nat, len <= StoredSize(b)
    PROVE  LET c == RemoveBytes(b, len) IN
             /\ c \in Buffers /\ WellFormed(c) /\ Holds(c, n)
             /\ StoredSize(c) = StoredSize(b) - len
<1> DEFINE c == RemoveBytes(b, len)
           k == StoredSize(b)
<1>1. c \in Buffers /\ WellFormed(c)
      /\ Contents(c) = SubSeq(Contents(b), len + 1, Len(Contents(b)))
  BY RemoveKeepsShape, RemoveDropsPrefix
<1>2. /\ Contents(b) \in Seq(Byte) /\ Len(Contents(b)) = k /\ k \in Nat
  BY ContentsType
<1> HIDE DEF c
<1>3. Len(Contents(c)) = StoredSize(c)
  BY <1>1, ContentsType
<1> HIDE DEF k
<1>4. /\ Len(Contents(c)) = k - len
      /\ \A i \in 1 .. k - len : Contents(c)[i] = Contents(b)[len + i]
  <2>1. \A i \in len + 1 .. k : Contents(b)[i] \in Byte
    BY <1>2, ElementOfSeq
  <2>2. /\ Len(Contents(c)) = IF len + 1 <= k THEN k - (len + 1) + 1 ELSE 0
        /\ \A i \in 1 .. k - (len + 1) + 1 : Contents(c)[i] = Contents(b)[(len + 1) + i - 1]
    <3>1. len + 1 \in Int /\ k \in Int
      BY <1>2
    <3> QED BY <1>1, <1>2, <2>1, <3>1, SubSeqProperties
  <2>3. k - (len + 1) + 1 = k - len /\ \A i \in 1 .. k - len : (len + 1) + i - 1 = len + i
    BY <1>2
  <2>4. len <= k
    BY DEF k
  <2> QED BY <1>2, <2>2, <2>3, <2>4
<1>5. \A i \in 1 .. k - len : Contents(c)[i] = n - (k - len) + i
  <2>1. ASSUME NEW i \in 1 .. k - len PROVE Contents(c)[i] = n - (k - len) + i
    <3>1. len + i \in 1 .. k /\ n - k + (len + i) = n - (k - len) + i
      BY <1>2
    <3> QED BY <1>4, <3>1 DEF Holds, k
  <2> QED BY <2>1
<1> QED BY <1>1, <1>2, <1>3, <1>4, <1>5 DEF Holds, k, c

------------------------------------------------------------------------------
\* The invariant holds of a new session.
LEMMA SendInitEstablishes == SendInit => SInv
<1> SUFFICES ASSUME SendInit PROVE SInv
  OBVIOUS
<1>1. sendBuf \in Buffers /\ WellFormed(sendBuf) /\ StoredSize(sendBuf) = 0
  <2> DEFINE d == [i \in Offset |-> 0]
  <2>1. d \in [Offset -> Byte]
    OBVIOUS
  <2>2. sendBuf = NewBuffer(d)
    BY DEF SendInit
  <2> HIDE DEF d
  <2> QED BY <2>1, <2>2, NewKeepsShape
<1>2. SendTypeOK /\ accepted = 0 /\ wire = << >> /\ posted = << >>
  BY <1>1 DEF SendInit, SendTypeOK
<1> QED BY <1>1, <1>2 DEF SInv, Holds, PostedInv

\* While a send is outstanding it is the only one, and there are bytes stored.
LEMMA PostedFacts ==
    ASSUME SInv, up, posted # << >>
    PROVE  /\ Len(posted) = 1 /\ posted = <<posted[1]>> /\ Head(posted) = posted[1]
           /\ Tail(posted) = << >>
           /\ posted[1] \in Sends
           /\ StoredSize(sendBuf) > 0
           /\ posted[1].at = sendBuf.aPtr /\ posted[1].len <= sendBuf.aSize
           /\ sendBuf.aSize <= StoredSize(sendBuf)
<1>1. /\ posted \in Seq(Sends)
      /\ Len(posted) = 1 /\ posted[1].at = ReadPosition(sendBuf)
      /\ posted[1].len <= ContiguousBytes(sendBuf)
      /\ sendBuf \in Buffers /\ WellFormed(sendBuf)
  BY DEF SInv, PostedInv, SendTypeOK
<1>2. posted = <<posted[1]>> /\ Head(posted) = posted[1] /\ Tail(posted) = << >>
  BY <1>1, Singleton
<1>3. posted[1] \in Sends
  BY <1>1, Singleton
<1>4. ContiguousBytes(sendBuf) > 0
  BY <1>1, <1>3 DEF Buffers, ContiguousBytes, Sends
<1>5. StoredSize(sendBuf) > 0
  BY <1>1, <1>4 DEF Buffers, ContiguousBytes, StoredSize
<1>6. /\ ReadPosition(sendBuf) = sendBuf.aPtr /\ ContiguousBytes(sendBuf) = sendBuf.aSize
      /\ sendBuf.aSize <= StoredSize(sendBuf)
  BY <1>1, <1>5, ReadsFromA DEF Buffers, StoredSize
<1> QED BY <1>1, <1>2, <1>3, <1>5, <1>6

\* Every step keeps it, if no two sends are outstanding at once.
LEMMA SendStepPreserves ==
    ASSUME MaxPosted = 1, SInv, [SendNext]_sendVars
    PROVE  SInv'
<1>0. /\ up \in BOOLEAN /\ sendBuf \in Buffers /\ WellFormed(sendBuf)
      /\ accepted \in 0 .. MaxBytes /\ wire \in Seq(Byte)
      /\ posted \in Seq(Sends)
      /\ Len(wire) \in Nat /\ \A i \in 1 .. Len(wire) : wire[i] = i
      /\ StoredSize(sendBuf) \in 0 .. Capacity
  BY ContentsType DEF SInv, SendTypeOK
<1>1. ASSUME NEW size \in PacketSize, SendRequest(size) PROVE SInv'
  <2>1. CASE WriteFits(sendBuf, size)
    <3>1. /\ up /\ up' = up /\ accepted' = accepted + size /\ posted' = posted
          /\ wire' = wire /\ size \in Nat /\ accepted + size <= MaxBytes
          /\ sendBuf' = WriteBytes(sendBuf, Numbered(accepted, size))
      BY <1>1, <2>1 DEF SendRequest
    <3>2. Holds(sendBuf, accepted) /\ PostedInv
      BY <3>1 DEF SInv
    <3>3. /\ sendBuf' \in Buffers /\ WellFormed(sendBuf') /\ Holds(sendBuf', accepted')
          /\ StoredSize(sendBuf') = StoredSize(sendBuf) + size
          /\ StoredSize(sendBuf) > 0 => /\ ReadPosition(sendBuf') = ReadPosition(sendBuf)
                                    /\ ContiguousBytes(sendBuf') >= ContiguousBytes(sendBuf)
      BY <1>0, <2>1, <3>1, <3>2, WriteInOrder
    <3>4. PostedInv'
      <4>1. CASE posted = << >>
        BY <1>0, <3>1, <3>2, <3>3, <4>1 DEF PostedInv
      <4>2. CASE posted # << >>
        <5>1. /\ StoredSize(sendBuf) > 0
              /\ posted[1] \in Sends
          BY <3>1, <4>2, PostedFacts
        <5>2. posted'[1] = posted[1]
          BY <3>1
        <5>3. ContiguousBytes(sendBuf) \in Int /\ ContiguousBytes(sendBuf') \in Int
          BY <1>0, <3>3 DEF Buffers, ContiguousBytes
        <5>4. /\ Len(posted) = 1 /\ posted[1].at = ReadPosition(sendBuf)
              /\ posted[1].len <= ContiguousBytes(sendBuf)
              /\ Len(wire) = accepted - StoredSize(sendBuf)
                             + (IF posted[1].taken THEN posted[1].len ELSE 0)
          BY <3>2, <4>2 DEF PostedInv
        <5>5. posted[1].len \in Int /\ size \in Int
          BY <5>1, <3>1 DEF Sends
        <5>6. accepted' - StoredSize(sendBuf') = accepted - StoredSize(sendBuf)
          BY <1>0, <3>1, <3>3
        <5>7. posted[1].len <= ContiguousBytes(sendBuf')
          BY <3>3, <5>1, <5>3, <5>4, <5>5
        <5> QED BY <3>1, <3>3, <4>2, <5>1, <5>2, <5>4, <5>6, <5>7 DEF PostedInv
      <4> QED BY <4>1, <4>2
    <3>5. SendTypeOK'
      BY <1>0, <3>1, <3>3 DEF SendTypeOK
    <3> QED BY <1>0, <3>1, <3>3, <3>4, <3>5 DEF SInv
  <2>2. CASE ~WriteFits(sendBuf, size)
    <3>1. /\ up' = FALSE /\ accepted' = accepted /\ posted' = posted /\ wire' = wire
          /\ sendBuf' = SwitchRegion(sendBuf)
      <4>1. Len(Numbered(accepted, size)) = size
        BY <1>0, <1>1, NumberedType DEF SendRequest
      <4> QED BY <1>1, <2>2, <4>1 DEF SendRequest, WriteBytes
    <3>2. sendBuf' \in Buffers /\ WellFormed(sendBuf')
      BY <1>0, <3>1, SwitchKeepsShape
    <3> QED BY <1>0, <3>1, <3>2 DEF SInv, SendTypeOK
  <2> QED BY <2>1, <2>2
<1>2. ASSUME SendFlush PROVE SInv'
  <2> DEFINE send == [at |-> ReadPosition(sendBuf), taken |-> FALSE,
                      len |-> ContiguousBytes(sendBuf)]
  <2>1. /\ up /\ Len(posted) < 1 /\ ContiguousBytes(sendBuf) > 0
        /\ posted' = Append(posted, send)
        /\ up' = up /\ sendBuf' = sendBuf /\ accepted' = accepted /\ wire' = wire
    BY <1>2 DEF SendFlush, CanFlush, Post
  <2>2. posted = << >>
    BY <1>0, <2>1
  <2>3. StoredSize(sendBuf) > 0
    BY <1>0, <2>1 DEF Buffers, ContiguousBytes, StoredSize
  <2>4. send \in Sends
    <3>1. ReadPosition(sendBuf) = sendBuf.aPtr /\ ContiguousBytes(sendBuf) = sendBuf.aSize
      BY <1>0, <2>3, ReadsFromA
    <3> QED BY <1>0, <2>1, <3>1 DEF Buffers, Sends
  <2> HIDE DEF send
  <2>5. /\ posted' = <<send>> /\ posted' # << >> /\ Len(posted') = 1
        /\ posted'[1] = send
    BY <2>1, <2>2
  <2>6. PostedInv'
    <3>1. Len(wire) = accepted - StoredSize(sendBuf)
      BY <2>1, <2>2 DEF SInv, PostedInv
    <3>2. /\ send.at = ReadPosition(sendBuf) /\ send.len = ContiguousBytes(sendBuf)
          /\ send.taken = FALSE
      BY DEF send
    <3>3. ContiguousBytes(sendBuf) \in Int
      BY <1>0 DEF Buffers, ContiguousBytes
    <3> QED BY <1>0, <2>1, <2>5, <3>1, <3>2, <3>3 DEF PostedInv
  <2>7. Holds(sendBuf, accepted)
    BY <2>1 DEF SInv
  <2>8. SendTypeOK'
    BY <1>0, <2>1, <2>4, <2>5 DEF SendTypeOK
  <2> QED BY <1>0, <2>1, <2>6, <2>7, <2>8 DEF SInv
<1>3. ASSUME Transfer PROVE SInv'
  <2>1. PICK j \in 1 .. Len(posted) :
          /\ up /\ ~posted[j].taken
          /\ wire' = wire \o BytesAt(posted[j])
          /\ posted' = [posted EXCEPT ![j].taken = TRUE]
          /\ up' = up /\ sendBuf' = sendBuf /\ accepted' = accepted
    BY <1>3 DEF Transfer
  <2>2. posted # << >>
    BY <2>1
  <2> DEFINE send == posted[1]
  <2>3. /\ Len(posted) = 1 /\ posted = <<send>>
        /\ send \in Sends
        /\ StoredSize(sendBuf) > 0
        /\ send.at = sendBuf.aPtr /\ send.len <= sendBuf.aSize
        /\ sendBuf.aSize <= StoredSize(sendBuf)
    BY <2>1, <2>2, PostedFacts
  <2>4. j = 1
    BY <2>1, <2>3
  <2>5. /\ Holds(sendBuf, accepted) /\ Len(wire) = accepted - StoredSize(sendBuf)
        /\ send.at = ReadPosition(sendBuf) /\ send.len <= ContiguousBytes(sendBuf)
    <3>1. posted[1].taken = FALSE
      BY <2>1, <2>3, <2>4 DEF Sends
    <3> HIDE DEF send
    <3>2. accepted - StoredSize(sendBuf) + 0 = accepted - StoredSize(sendBuf)
      BY <1>0
    <3> QED BY <2>1, <2>2, <3>1, <3>2 DEF SInv, PostedInv, send
  <2>6. wire' = wire \o BytesAt(send)
    BY <2>1, <2>4
  <2>7. posted' = <<[send EXCEPT !.taken = TRUE]>>
    <3> DEFINE e == [send EXCEPT !.taken = TRUE]
    <3>1. e \in Sends
      BY <2>3 DEF Sends
    <3>2. posted' = [posted EXCEPT ![1] = e]
      BY <2>1, <2>4
    <3> HIDE DEF e
    <3>3. posted' \in Seq(Sends) /\ Len(posted') = 1 /\ posted'[1] = e
      <4>1. 1 \in 1 .. Len(posted)
        BY <2>3
      <4> HIDE DEF send
      <4> QED BY <1>0, <2>3, <3>1, <3>2, <4>1, ExceptSeq
    <3> QED BY <3>3, Singleton DEF e
  <2> HIDE DEF send
  <2>8. \A i \in 1 .. send.len : /\ BytesAt(send)[i] = Len(wire) + i
                                 /\ Len(wire) + i \in Byte
    <3>1. ASSUME NEW i \in 1 .. send.len
          PROVE  BytesAt(send)[i] = Len(wire) + i /\ Len(wire) + i \in Byte
      <4>1. i \in 1 .. StoredSize(sendBuf) /\ i <= sendBuf.aSize
        BY <1>0, <2>3 DEF Buffers, Sends
      <4>2. BytesAt(send)[i] = ByteAt(sendBuf, i)
        BY <2>3, <4>1 DEF BytesAt, ByteAt
      <4>3. Contents(sendBuf)[i] = ByteAt(sendBuf, i)
        BY <1>0, <4>1, ContentsType
      <4>4. Contents(sendBuf)[i] = accepted - StoredSize(sendBuf) + i
        BY <2>5, <4>1 DEF Holds
      <4>5. accepted - StoredSize(sendBuf) + i \in Byte
        BY <1>0, <2>5, <4>1 DEF Holds
      <4> QED BY <2>5, <4>2, <4>3, <4>4, <4>5
    <3> QED BY <3>1
  <2>9. BytesAt(send) \in Seq(Byte) /\ Len(BytesAt(send)) = send.len
    <3>1. send.len \in Nat
      BY <2>3 DEF Sends
    <3>2. BytesAt(send) = [i \in 1 .. send.len |-> BytesAt(send)[i]]
      BY DEF BytesAt
    <3>3. BytesAt(send) \in [1 .. send.len -> Byte]
      BY <2>8, <3>2
    <3> QED BY <3>1, <3>3
  <2>10. /\ wire' \in Seq(Byte) /\ Len(wire') = Len(wire) + send.len
         /\ \A i \in 1 .. Len(wire) + send.len : wire'[i] =
               IF i <= Len(wire) THEN wire[i] ELSE BytesAt(send)[i - Len(wire)]
    BY <1>0, <2>6, <2>9, ConcatProperties
  <2>11. \A i \in 1 .. Len(wire') : wire'[i] = i
    <3>1. ASSUME NEW i \in 1 .. Len(wire) + send.len PROVE wire'[i] = i
      <4>1. CASE i <= Len(wire)
        <5>1. i \in 1 .. Len(wire)
          BY <1>0, <2>3, <4>1 DEF Sends
        <5> QED BY <1>0, <2>10, <4>1, <5>1
      <4>2. CASE i > Len(wire)
        <5>1. i - Len(wire) \in 1 .. send.len
          BY <1>0, <2>3, <4>2 DEF Sends
        <5>2. wire'[i] = BytesAt(send)[i - Len(wire)]
          BY <1>0, <2>10, <4>2
        <5>3. BytesAt(send)[i - Len(wire)] = Len(wire) + (i - Len(wire))
          BY <2>8, <5>1
        <5> QED BY <1>0, <5>2, <5>3
      <4> QED BY <1>0, <2>3, <4>1, <4>2
    <3> QED BY <2>10, <3>1
  <2> DEFINE sent == [send EXCEPT !.taken = TRUE]
  <2>12. /\ sent \in Sends
         /\ sent.at = send.at /\ sent.len = send.len /\ sent.taken = TRUE
    BY <2>3 DEF Sends
  <2> HIDE DEF sent
  <2>13. posted' = <<sent>>
    BY <2>7 DEF sent
  <2>14. posted' # << >> /\ Len(posted') = 1 /\ posted'[1] = sent
    BY <2>13
  <2>15. PostedInv'
    BY <1>0, <2>1, <2>3, <2>5, <2>10, <2>12, <2>14 DEF PostedInv
  <2>16. SendTypeOK'
    <3>1. posted' \in Seq(Sends)
      BY <2>12, <2>13
    <3> QED BY <1>0, <2>1, <2>10, <3>1 DEF SendTypeOK
  <2> QED BY <1>0, <2>1, <2>5, <2>11, <2>15, <2>16 DEF SInv
<1>4. ASSUME SendCompletion PROVE SInv'
  <2>0. /\ posted # << >> /\ posted' = Tail(posted)
        /\ up' = up /\ accepted' = accepted /\ wire' = wire
        /\ sendBuf' = IF up THEN RemoveBytes(sendBuf, Head(posted).len) ELSE sendBuf
        /\ up => Head(posted).taken
    BY <1>4 DEF SendCompletion
  <2>1. CASE up
    <3>1. /\ Head(posted) = posted[1] /\ posted' = << >>
          /\ posted[1] \in Sends
          /\ posted[1].len <= sendBuf.aSize /\ sendBuf.aSize <= StoredSize(sendBuf)
      BY <2>0, <2>1, PostedFacts
    <3>2. posted[1].len \in Nat /\ posted[1].len <= StoredSize(sendBuf)
      BY <1>0, <3>1 DEF Buffers, Sends
    <3>3. /\ Holds(sendBuf, accepted)
          /\ Len(wire) = accepted - StoredSize(sendBuf) + posted[1].len
      BY <2>0, <2>1, <3>1 DEF SInv, PostedInv
    <3>4. /\ sendBuf' \in Buffers /\ WellFormed(sendBuf') /\ Holds(sendBuf', accepted)
          /\ StoredSize(sendBuf') = StoredSize(sendBuf) - posted[1].len
      BY <1>0, <2>0, <2>1, <3>1, <3>2, <3>3, RemoveInOrder
    <3>5. PostedInv'
      BY <1>0, <2>0, <3>1, <3>2, <3>3, <3>4 DEF PostedInv
    <3>6. SendTypeOK'
      BY <1>0, <2>0, <3>1, <3>4 DEF SendTypeOK
    <3> QED BY <1>0, <2>0, <3>4, <3>5, <3>6 DEF SInv
  <2>2. CASE ~up
    <3>1. posted' \in Seq(Sends)
      BY <1>0, <2>0
    <3> QED BY <1>0, <2>0, <2>2, <3>1 DEF SInv, SendTypeOK
  <2> QED BY <2>1, <2>2
<1>5. ASSUME Disconnect PROVE SInv'
  BY <1>0, <1>5 DEF Disconnect, SInv, SendTypeOK
<1>6. ASSUME UNCHANGED sendVars PROVE SInv'
  BY <1>6 DEF sendVars, SInv, SendTypeOK, Holds, PostedInv
<1> QED BY <1>1, <1>2, <1>3, <1>4, <1>5, <1>6 DEF SendNext

\* What is in order gives InOrder and NothingLost.
LEMMA SendInvImplies == ASSUME SInv PROVE InOrder /\ NothingLost
<1>1. /\ wire \in Seq(Byte) /\ Len(wire) \in Nat
      /\ \A i \in 1 .. Len(wire) : wire[i] = i
  BY DEF SInv, SendTypeOK
<1>2. InOrder
  <2>1. wire = [i \in 1 .. Len(wire) |-> wire[i]]
    BY <1>1
  <2>2. Numbered(0, Len(wire)) = [i \in 1 .. Len(wire) |-> wire[i]]
    BY <1>1 DEF Numbered
  <2> QED BY <2>1, <2>2 DEF InOrder
<1>3. NothingLost
  <2> SUFFICES ASSUME up, NEW n \in 1 .. accepted - StoredSize(sendBuf)
               PROVE  \E i \in 1 .. Len(wire) : wire[i] = n
    BY DEF NothingLost
  <2>1. Len(wire) >= accepted - StoredSize(sendBuf)
    <3>1. CASE posted = << >>
      BY <3>1 DEF SInv, PostedInv
    <3>2. CASE posted # << >>
      <4>1. posted[1].len \in Nat /\ accepted \in Nat /\ StoredSize(sendBuf) \in Nat
        BY <3>2, PostedFacts, ContentsType DEF SInv, SendTypeOK, Sends
      <4> QED BY <3>2, <4>1 DEF SInv, PostedInv
    <3> QED BY <1>1, <3>1, <3>2
  <2>2. n \in 1 .. Len(wire)
    <3>1. accepted \in Nat /\ StoredSize(sendBuf) \in Nat
      BY ContentsType DEF SInv, SendTypeOK
    <3> QED BY <1>1, <2>1, <3>1
  <2> QED BY <1>1, <2>2
<1> QED BY <1>2, <1>3

LEMMA SendInvHolds ==
    ASSUME MaxPosted = 1 PROVE SendSpec => []SInv
<1>1. SendInit => SInv
  BY SendInitEstablishes
<1>2. SInv /\ [SendNext]_sendVars => SInv'
  BY SendStepPreserves
<1> QED BY <1>1, <1>2, PTL DEF SendSpec

\* A session's bytes reach the network once and in order, if every send completes
\* before the next flush.
THEOREM SentInOrder ==
    ASSUME MaxPosted = 1
    PROVE  SendSpec => []InOrder
<1>1. SInv => InOrder
  BY SendInvImplies
<1> QED BY <1>1, SendInvHolds, PTL

\* And only what the network was given is removed from the buffer.
THEOREM SentBeforeRemoved ==
    ASSUME MaxPosted = 1
    PROVE  SendSpec => []NothingLost
<1>1. SInv => NothingLost
  BY SendInvImplies
<1> QED BY <1>1, SendInvHolds, PTL

\* Under the same assumption the send buffer keeps its shape, and a send that
\* is posted lies within its array.
THEOREM SendTypeCorrect ==
    ASSUME MaxPosted = 1
    PROVE  SendSpec => []SendTypeOK
<1>1. SInv => SendTypeOK
  BY DEF SInv
<1> QED BY <1>1, SendInvHolds, PTL
===============================================================================
