------------------------------ MODULE ByteStream ------------------------------
(***************************************************************************)
(* What a CircularBuffer promises its users: a queue of bytes of limited   *)
(* capacity, that may refuse a write only when the write would fill more   *)
(* than half of it.                                                        *)
(***************************************************************************)
EXTENDS Integers, Sequences

CONSTANTS Capacity, Byte, MaxChunk

VARIABLES stream,       \* the bytes written and not yet read, oldest first
          ret,          \* what the last call returned
          window        \* how many bytes a posted receive may deliver, or -1

svars == <<stream, ret, window>>

Closed == -1
Result(ok, out) == [ok |-> ok, out |-> out]
Chunks == UNION {[1 .. n -> Byte] : n \in 0 .. MaxChunk}

SInit == stream = << >> /\ ret = Result(TRUE, << >>) /\ window = Closed

Put(s) ==
    /\ window = Closed /\ UNCHANGED window
    /\ \/ /\ Len(stream) + Len(s) <= Capacity
          /\ stream' = stream \o s
          /\ ret' = Result(TRUE, << >>)
       \/ /\ 2 * (Len(stream) + Len(s)) > Capacity
          /\ ret' = Result(FALSE, << >>)
          /\ UNCHANGED stream

Discard(len) ==
    /\ window = Closed /\ UNCHANGED window
    /\ stream' = SubSeq(stream, len + 1, Len(stream))
    /\ ret' = Result(TRUE, << >>)

Look(len) ==
    /\ window = Closed /\ UNCHANGED <<stream, window>>
    /\ ret' = IF len <= Len(stream) THEN Result(TRUE, SubSeq(stream, 1, len))
                                    ELSE Result(FALSE, << >>)

Take(len) ==
    /\ window = Closed /\ UNCHANGED window
    /\ IF len <= Len(stream)
         THEN /\ ret' = Result(TRUE, SubSeq(stream, 1, len))
              /\ stream' = SubSeq(stream, len + 1, Len(stream))
         ELSE ret' = Result(FALSE, << >>) /\ UNCHANGED stream

\* A receive is offered what keeps the stream within capacity, and at least
\* what would make it half full.
Offer ==
    /\ window = Closed
    /\ window' \in {w \in 0 .. Capacity - Len(stream) :
                        2 * (Len(stream) + w) >= Capacity}
    /\ UNCHANGED <<stream, ret>>

Arrive(s) ==
    /\ window # Closed /\ Len(s) <= window
    /\ stream' = stream \o s
    /\ ret' = Result(TRUE, << >>)
    /\ window' = Closed

SNext ==
    \/ \E s \in Chunks : Put(s) \/ Arrive(s)
    \/ \E len \in 0 .. MaxChunk : Discard(len) \/ Look(len) \/ Take(len)
    \/ Offer

Spec == SInit /\ [][SNext]_svars
===============================================================================
