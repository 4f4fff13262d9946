---------------------------- MODULE CircularBuffer ----------------------------
(***************************************************************************)
(* One CircularBuffer object under every sequence of calls its users make. *)
(* ClientSession's send buffer sees Write and Remove; its receive buffer   *)
(* sees GetFreeSpaceSize and GetBuffer (PostRecv), the kernel's bytes and  *)
(* Commit (RecvCompletion, OnRead), then Peek and Read.  While a receive is *)
(* pending nothing else touches that buffer: OnRead runs only in the       *)
(* completion, and PostRecv only after it.                                  *)
(***************************************************************************)
EXTENDS CircularBufferOps

CONSTANT MaxChunk       \* bound: the longest write, read or receive tried

ASSUME ChunkAssumption == MaxChunk \in Nat

VARIABLES buf,          \* the object
          ret,          \* what the last call returned to its caller
          pending       \* the space a posted receive may fill, or NoReceive

vars == <<buf, ret, pending>>

NoReceive == [at |-> 0, space |-> NULL]
Answer(ok, out) == [ok |-> ok, out |-> out]

Chunk == UNION {[1 .. n -> Byte] : n \in 0 .. MaxChunk}

TypeOK ==
    /\ buf \in Buffers
    /\ ret.ok \in BOOLEAN /\ ret.out \in Seq(Byte)
    /\ pending \in [at : 0 .. Capacity, space : {NULL} \cup 0 .. Capacity]

Init ==
    /\ \E d \in [Offset -> Byte] : buf = NewBuffer(d)
    /\ ret = Answer(TRUE, << >>)
    /\ pending = NoReceive

------------------------------------------------------------------------------
Idle == pending = NoReceive

Write(s) ==
    /\ Idle
    /\ buf' = WriteBytes(buf, s)
    /\ ret' = Answer(WriteFits(buf, Len(s)), << >>)
    /\ UNCHANGED pending

Remove(len) ==
    /\ Idle
    /\ buf' = RemoveBytes(buf, len)
    /\ ret' = Answer(TRUE, << >>)
    /\ UNCHANGED pending

Peek(len) ==
    /\ Idle
    /\ ret' = IF ReadFits(buf, len) THEN Answer(TRUE, Peeked(buf, len))
                                    ELSE Answer(FALSE, << >>)
    /\ UNCHANGED <<buf, pending>>

Read(len) ==
    /\ Idle
    /\ ret' = IF ReadFits(buf, len) THEN Answer(TRUE, Peeked(buf, len))
                                    ELSE Answer(FALSE, << >>)
    /\ buf' = ReadBytes(buf, len)
    /\ UNCHANGED pending

\* Mutant: the place is taken before the space is asked for.
PostReceive_PlaceFirst ==
    /\ Idle
    /\ buf' = SwitchRegion(buf)
    /\ pending' = [at |-> WritePosition(buf), space |-> FreeSpace(buf)]
    /\ UNCHANGED ret

\* PostRecv: WSARecv is given the free space and the place it starts.
PostReceive ==
    /\ Idle
    /\ buf' = SwitchRegion(buf)
    /\ pending' = [at |-> WritePosition(buf'), space |-> FreeSpace(buf)]
    /\ UNCHANGED ret

\* The kernel has filled part of that space; OnRead commits it.
Receive(s) ==
    /\ ~Idle
    /\ Len(s) <= pending.space
    /\ buf' = CommitBytes(Store(buf, pending.at, s), Len(s))
    /\ ret' = Answer(TRUE, << >>)
    /\ pending' = NoReceive

Next ==
    \/ \E s \in Chunk : Write(s) \/ Receive(s)
    \/ \E len \in 0 .. MaxChunk : Remove(len) \/ Peek(len) \/ Read(len)
    \/ PostReceive

Spec == Init /\ [][Next]_vars

------------------------------------------------------------------------------
(* Properties. *)

\* The regions stay apart and inside the array after any calls, so the size_t
\* differences of GetAFreeSpace and GetBFreeSpace never wrap, and B, once
\* opened, has more than half of the array before the end of A.
RegionsApart == WellFormed(buf)

\* Although the two regions waste part of the array, what is stored and
\* what GetFreeSpaceSize offers make up at least half of it, in every state:
\* Write (SendRequest) refuses nothing that keeps the buffer half empty.
HalfCapacity == 2 * (StoredSize(buf) + FreeSpace(buf)) >= Capacity

\* A posted receive points at the free space it was measured for, so that
\* the kernel overwrites no byte that is stored.
ReceiveIntoFreeSpace ==
    ~Idle => /\ pending.at = WritePosition(buf)
             /\ pending.space = WriteSpace(buf)
             /\ pending.at + pending.space <= Capacity
             /\ \A i \in pending.at .. pending.at + pending.space - 1 :
                   /\ i < buf.aPtr \/ i >= buf.aPtr + buf.aSize
                   /\ buf.bPtr # NULL => i >= buf.bPtr + buf.bSize

\* What the object promises: a queue of bytes.
Stream == INSTANCE ByteStream
            WITH stream <- Contents(buf), window <- pending.space

RefinesStream == Stream!Spec
===============================================================================
