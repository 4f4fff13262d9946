------------------------------- MODULE SendPath -------------------------------
(***************************************************************************)
(* The way of a session's bytes to the network (ClientSession's            *)
(* SendRequest, SendFlush, SendCompletion, OnWriteComplete; ClientManager's *)
(* FlushClientSend).  Packets are written to the send buffer; at the end of *)
(* every pass of the loop WSASend is given what lies in one piece at its   *)
(* front, and the completion removes it.  SendFlush does not ask whether    *)
(* the send before it has completed.                                        *)
(*                                                                          *)
(* The bytes written are numbered: the i-th byte a session accepts is i, so *)
(* that the network must be given 1, 2, 3, ...                              *)
(***************************************************************************)
EXTENDS CircularBufferOps

CONSTANTS MaxBytes,     \* bound: the bytes a session accepts in a behaviour
          PacketSize,   \* the sizes of packets
          MaxPosted     \* the most sends outstanding at once: 1 when every
                        \* send completes before the next flush

ASSUME SendAssumption ==
    /\ MaxBytes \in Nat /\ MaxPosted \in Nat \ {0}
    /\ Byte = 0 .. MaxBytes     \* 0: never written
    /\ PacketSize \subseteq Nat \ {0}

VARIABLES up,           \* mConnected
          sendBuf,      \* mSendBuffer
          accepted,     \* how many bytes SendRequest has written
          posted,       \* WSASends not completed: where, how many bytes, and
                        \* whether the kernel has taken them
          wire          \* the bytes the kernel has taken, in order

sendVars == <<up, sendBuf, accepted, posted, wire>>

Numbered(n, len) == [i \in 1 .. len |-> n + i]

SendInit ==
    /\ up = TRUE
    /\ sendBuf = NewBuffer([i \in Offset |-> 0])
    /\ accepted = 0
    /\ posted = << >>
    /\ wire = << >>

\* A packet that does not fit costs the session its connection.
SendRequest(size) ==
    /\ up /\ accepted + size <= MaxBytes
    /\ sendBuf' = WriteBytes(sendBuf, Numbered(accepted, size))
    /\ IF WriteFits(sendBuf, size)
         THEN accepted' = accepted + size /\ UNCHANGED up
         ELSE up' = FALSE /\ UNCHANGED accepted
    /\ UNCHANGED <<posted, wire>>

\* The bytes now at the place a send was given.
BytesAt(send) == [i \in 1 .. send.len |-> sendBuf.data[send.at + i - 1]]

\* SleepEx has run every completion that was queued when the flush begins.
CanFlush == /\ up /\ Len(posted) < MaxPosted
            /\ \A i \in 1 .. Len(posted) : ~posted[i].taken

Post(send) ==
    /\ posted' = Append(posted, send)
    /\ UNCHANGED <<up, sendBuf, accepted, wire>>

\* Mutants: the flush asks for everything stored; for nothing, too; or waits
\* for a second byte.
SendFlush_Whole ==
    /\ CanFlush /\ ContiguousBytes(sendBuf) > 0
    /\ Post([at |-> ReadPosition(sendBuf), taken |-> FALSE,
             len |-> Lesser(StoredSize(sendBuf), Capacity - ReadPosition(sendBuf))])
SendFlush_Empty ==
    /\ CanFlush
    /\ Post([at |-> IF ContiguousBytes(sendBuf) > 0 THEN ReadPosition(sendBuf) ELSE 0,
             taken |-> FALSE, len |-> ContiguousBytes(sendBuf)])
SendFlush_OffByOne ==
    /\ CanFlush /\ ContiguousBytes(sendBuf) > 1
    /\ Post([at |-> ReadPosition(sendBuf), taken |-> FALSE,
             len |-> ContiguousBytes(sendBuf)])

\* Nothing to send is no send.
SendFlush ==
    /\ CanFlush /\ ContiguousBytes(sendBuf) > 0
    /\ Post([at |-> ReadPosition(sendBuf), taken |-> FALSE,
             len |-> ContiguousBytes(sendBuf)])

\* The kernel takes the bytes of the oldest send it has not taken, as they
\* lie in the array by then.
Transfer ==
    \E i \in 1 .. Len(posted) :
        /\ up
        /\ ~posted[i].taken /\ \A j \in 1 .. i - 1 : posted[j].taken
        /\ wire' = wire \o BytesAt(posted[i])
        /\ posted' = [posted EXCEPT ![i].taken = TRUE]
        /\ UNCHANGED <<up, sendBuf, accepted>>

\* Mutant: the buffer is emptied.
SendCompletion_All ==
    /\ posted # << >> /\ (up => Head(posted).taken)
    /\ posted' = Tail(posted)
    /\ sendBuf' = IF up THEN RemoveBytes(sendBuf, StoredSize(sendBuf)) ELSE sendBuf
    /\ UNCHANGED <<up, accepted, wire>>

\* The completion of the oldest send removes as many bytes as it reports; once
\* the connection is closed all sends complete, and change nothing.
SendCompletion ==
    /\ posted # << >> /\ (up => Head(posted).taken)
    /\ posted' = Tail(posted)
    /\ sendBuf' = IF up THEN RemoveBytes(sendBuf, Head(posted).len) ELSE sendBuf
    /\ UNCHANGED <<up, accepted, wire>>

\* A send fails at once or in its completion, or a receive does.  A session that
\* stays connected, because setsockopt fails in Disconnect, is one that goes on.
Disconnect == up /\ up' = FALSE /\ UNCHANGED <<sendBuf, accepted, posted, wire>>

SendNext ==
    \/ \E size \in PacketSize : SendRequest(size)
    \/ SendFlush \/ Transfer \/ SendCompletion \/ Disconnect

SendSpec == SendInit /\ [][SendNext]_sendVars

\* The loop flushes in every pass, the connection takes the bytes of a send
\* while it lasts, and a completion that is queued is run.
Fairness == WF_sendVars(SendFlush) /\ WF_sendVars(SendCompletion) /\ WF_sendVars(Transfer)

FairSendSpec == SendSpec /\ Fairness

------------------------------------------------------------------------------
(* Properties. *)

Sends == [at : 0 .. Capacity, len : 1 .. Capacity, taken : BOOLEAN]

\* Types; a send that is posted lies within the array.
SendTypeOK ==
    /\ up \in BOOLEAN
    /\ sendBuf \in Buffers
    /\ accepted \in 0 .. MaxBytes
    /\ posted \in Seq(Sends)
    /\ wire \in Seq(Byte)

\* The network is given every byte once and in order, whatever packets come
\* between a send and its completion and wherever the regions of the buffer lie
\* then.
InOrder == wire = Numbered(0, Len(wire))

\* ClientSession.cpp:223: "data whose sending is complete is removed from the
\* buffer" - a byte that is gone from the buffer has been given to the network.
NothingLost ==
    up => \A n \in 1 .. accepted - StoredSize(sendBuf) :
              \E i \in 1 .. Len(wire) : wire[i] = n

\* Every byte accepted reaches the network, if the connection lasts.
AllSent == \A n \in 1 .. MaxBytes : accepted >= n ~> (Len(wire) >= n \/ ~up)
===============================================================================
