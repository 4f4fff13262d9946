------------------------------- MODULE Sessions -------------------------------
(***************************************************************************)
(* The life of a session: from the socket the accept thread queues, through *)
(* ClientManager's list, the operations the kernel holds on the session's   *)
(* OVERLAPPED records, and Disconnect, to the garbage collection that gives *)
(* the object back to its ObjectPool.                                       *)
(*                                                                          *)
(* An object is known by its address, and a socket by its handle, which the *)
(* system may give out again as soon as it is closed.  The list is keyed by *)
(* handles and still has the closed sessions that were not collected.       *)
(* Clients log in with their name and read the OK; GameServer has the rest. *)
(***************************************************************************)
EXTENDS Integers, Sequences, SequencesExt, FiniteSetsExt

CONSTANTS Handle,       \* the values of SOCKET, in the order of std::map
          Chunk,        \* ALLOC_COUNT
          MaxArrivals,  \* bound: the sockets accepted in a behaviour
          MaxPosted,    \* bound: the sends of a session outstanding at once
          SerialLogin,  \* a client connects only when every connected session
                        \* has its player
          Reuse,        \* a closed handle may be given out before the session
                        \* it belonged to is collected
          LingerFails   \* setsockopt may fail on a socket whose peer has gone

ASSUME SessionsAssumption ==
    /\ Handle \subseteq Nat /\ IsFiniteSet(Handle)
    /\ Chunk \in Nat \ {0} /\ MaxArrivals \in Nat /\ MaxPosted \in Nat \ {0}
    /\ SerialLogin \in BOOLEAN /\ Reuse \in BOOLEAN /\ LingerFails \in BOOLEAN

VARIABLES phase,        \* where the pass is: "accept", "apc" or "period"
          pending,      \* pendingAcceptList
          arrived,      \* how many sockets have been accepted
          peer,         \* the other end of every handle that is open
          session,      \* the live ClientSessions by address
          list,         \* mClientList: handle to address
          freeList,     \* mFreeList: addresses, in order
          made,         \* mTotalAllocCount
          listeners,    \* the sessions EventManager knows
          players,      \* the numbers in PlayerManager's list
          posted        \* what the kernel holds, by address: receives, and
                        \* the sends with how many packets each was given

pool == <<freeList, made, listeners>>
vars == <<phase, pending, arrived, peer, session, list, pool, players, posted>>

Address == 1 .. MaxArrivals + Chunk
PlayerNumber == 0 .. MaxArrivals

Live   == DOMAIN session
Listed == {list[h] : h \in DOMAIN list}
Up     == {o \in Live : session[o].up}
Open   == DOMAIN peer
Gone(h) == h \in Open /\ peer[h].gone

Without(f, S) == [x \in DOMAIN f \ S |-> f[x]]
With(f, x, v) == [y \in DOMAIN f \cup {x} |-> IF y = x THEN v ELSE f[y]]

Init ==
    /\ phase = "accept" /\ pending = << >> /\ arrived = 0
    /\ peer = << >> /\ session = << >> /\ list = << >>
    /\ freeList = << >> /\ made = 0 /\ listeners = {} /\ players = {}
    /\ posted = [o \in Address |-> [recv |-> 0, sends |-> << >>]]

------------------------------------------------------------------------------
(* The accept thread and the other ends. *)

\* accept returns a handle that is not open, with a client behind it that has
\* sent its name.
Arrive(h) ==
    /\ arrived < MaxArrivals /\ arrived' = arrived + 1
    /\ h \notin Open /\ (h \in DOMAIN list => Reuse)
    /\ SerialLogin => pending = << >> /\ \A o \in Up : session[o].id \in players
    /\ peer' = With(peer, h, [gone |-> FALSE, named |-> TRUE])
    /\ pending' = Append(pending, h)
    /\ UNCHANGED <<phase, session, list, pool, players, posted>>

\* A client closes its connection; a reset takes back what was not received.
PeerLeaves(h) ==
    /\ h \in Open /\ ~peer[h].gone
    /\ \E named \in {FALSE, peer[h].named} :
          peer' = [peer EXCEPT ![h] = [gone |-> TRUE, named |-> named]]
    /\ UNCHANGED <<phase, pending, arrived, session, list, pool, players, posted>>

------------------------------------------------------------------------------
(* Disconnect. *)

\* Mutant: the socket is closed and the session still connected.
Disconnect_StaysUp(S, after, named, peers) ==
    /\ session' = after
    /\ peer' = Without(peers, {after[o].sock : o \in S})
    /\ players' = named \ {after[o].id : o \in S}

\* The end of a handler that leaves the sessions, the players and the other
\* ends as given, and in which the sessions of S are disconnected: the socket is
\* closed and EVT_DISCONNECT raised, unless setsockopt fails.
Disconnect(S, after, named, peers) ==
    \E kept \in SUBSET S :
        /\ kept # {} => LingerFails /\ \A o \in kept : Gone(after[o].sock)
        /\ session' = [o \in DOMAIN after |->
                         IF o \in S \ kept THEN [after[o] EXCEPT !.up = FALSE]
                                           ELSE after[o]]
        /\ peer' = Without(peers, {after[o].sock : o \in S \ kept})
        /\ players' = named \ {after[o].id : o \in S \ kept}

\* Mutant: a receive is counted before WSARecv has accepted it.
PostRecv_CountsFirst(s, accepted) == [s EXCEPT !.ops = @ + 1]

\* PostRecv on session s.  WSARecv may fail at once when the other end has gone.
PostRecv(s, accepted) == IF accepted THEN [s EXCEPT !.ops = @ + 1] ELSE s
Accepts(s, accepted)  == accepted \/ Gone(s.sock)

------------------------------------------------------------------------------
(* CreateClient and OnConnect. *)

\* The list operator new takes from: a new chunk when there is none.
Available == IF freeList = << >> THEN [i \in 1 .. Chunk |-> made + i] ELSE freeList

\* Mutant: the number is how many players there are.
UnusedNumber_Count == Cardinality(players)

\* GetNonUsedPlayerNumber.
UnusedNumber == CHOOSE n \in PlayerNumber :
                    n \notin players /\ \A m \in 0 .. n - 1 : m \in players

NewSession(h) == [sock |-> h, id |-> UnusedNumber, up |-> TRUE, ops |-> 0, out |-> 0]

\* std::map's insert changes nothing when the handle is a key already.
Insert(h, o) == IF h \in DOMAIN list THEN list ELSE With(list, h, o)

Accept ==
    /\ phase = "accept" /\ pending # << >>
    /\ phase' = "apc" /\ pending' = Tail(pending)
    /\ LET h == Head(pending)
           o == Head(Available)
           s == NewSession(h)
       IN  /\ freeList' = Tail(Available)
           /\ made' = IF freeList = << >> THEN made + Chunk ELSE made
           /\ listeners' = listeners \cup {o}
           /\ list' = Insert(h, o)
           /\ \E accepted \in BOOLEAN :
                 /\ Accepts(s, accepted)
                 /\ posted' = [posted EXCEPT ![o].recv = IF accepted THEN 1 ELSE 0]
                 /\ Disconnect(IF accepted THEN {} ELSE {o},
                               With(session, o, PostRecv(s, accepted)), players, peer)
    /\ UNCHANGED arrived

NothingToAccept ==
    /\ phase = "accept" /\ pending = << >> /\ phase' = "apc"
    /\ UNCHANGED <<pending, arrived, peer, session, list, pool, players, posted>>

------------------------------------------------------------------------------
(* SleepEx: the completions of object o. *)

Completed(o) == [session[o] EXCEPT !.ops = @ - 1]

\* Every connected session with number n is sent the OK.
NotifyOk(sessions, n) ==
    [o \in DOMAIN sessions |->
       IF sessions[o].up /\ sessions[o].id = n
         THEN [sessions[o] EXCEPT !.out = @ + 1] ELSE sessions[o]]

\* Mutant: nothing is received after the name.
RecvCompletion_Once(o) ==
    /\ phase = "apc" /\ posted[o].recv > 0
    /\ LET s == Completed(o)
       IN  \/ /\ ~s.up
              /\ session' = [session EXCEPT ![o] = s]
              /\ UNCHANGED <<peer, players>>
           \/ /\ s.up /\ Gone(s.sock) /\ ~peer[s.sock].named
              /\ Disconnect({o}, [session EXCEPT ![o] = s], players, peer)
           \/ /\ s.up /\ peer[s.sock].named
              /\ Disconnect({}, NotifyOk([session EXCEPT ![o] = s], s.id),
                            players \cup {s.id}, [peer EXCEPT ![s.sock].named = FALSE])
    /\ posted' = [posted EXCEPT ![o].recv = 0]
    /\ UNCHANGED <<phase, pending, arrived, list, pool>>

\* A closed session is left alone; the end of the stream, or an error, ends the
\* session; SUBMIT_NAME makes the player, is answered, and the next receive is
\* posted.
RecvCompletion(o) ==
    /\ phase = "apc" /\ posted[o].recv > 0
    /\ LET s == Completed(o)
       IN  \/ /\ ~s.up
              /\ session' = [session EXCEPT ![o] = s]
              /\ posted' = [posted EXCEPT ![o].recv = 0]
              /\ UNCHANGED <<peer, players>>
           \/ /\ s.up /\ Gone(s.sock) /\ ~peer[s.sock].named
              /\ posted' = [posted EXCEPT ![o].recv = 0]
              /\ Disconnect({o}, [session EXCEPT ![o] = s], players, peer)
           \/ /\ s.up /\ peer[s.sock].named
              /\ \E accepted \in BOOLEAN :
                    /\ Accepts(s, accepted)
                    /\ posted' = [posted EXCEPT ![o].recv = IF accepted THEN 1 ELSE 0]
                    /\ Disconnect(
                          IF accepted THEN {} ELSE {o},
                          NotifyOk([session EXCEPT ![o] = PostRecv(s, accepted)], s.id),
                          players \cup {s.id}, [peer EXCEPT ![s.sock].named = FALSE])
    /\ UNCHANGED <<phase, pending, arrived, list, pool>>

\* OnWriteComplete takes what was sent out of the buffer; a send fails only
\* when the other end has gone.
SendCompletion(o) ==
    /\ phase = "apc" /\ posted[o].sends # << >>
    /\ posted' = [posted EXCEPT ![o].sends = Tail(@)]
    /\ LET s == Completed(o)
           len == Head(posted[o].sends)
           sent == [s EXCEPT !.out = IF @ > len THEN @ - len ELSE 0]
       IN  \/ /\ session' = [session EXCEPT ![o] = IF s.up THEN sent ELSE s]
              /\ UNCHANGED <<peer, players>>
           \/ /\ s.up /\ Gone(s.sock)
              /\ Disconnect({o}, [session EXCEPT ![o] = s], players, peer)
    /\ UNCHANGED <<phase, pending, arrived, list, pool>>

------------------------------------------------------------------------------
(* FlushClientSend and OnPeriodWork. *)

\* The sessions SendFlush gives WSASend something of.
Due == {o \in Listed : session[o].up /\ session[o].out > 0}

FlushClientSend ==
    /\ phase = "apc" /\ phase' = "period"
    /\ \A o \in Due : Len(posted[o].sends) < MaxPosted
    /\ \E failed \in SUBSET {o \in Due : Gone(session[o].sock)} :
          LET sent == Due \ failed
          IN  /\ posted' = [o \in Address |->
                    IF o \in sent THEN [posted[o] EXCEPT !.sends = Append(@, session[o].out)]
                                  ELSE posted[o]]
              /\ Disconnect(failed,
                    [o \in Live |-> IF o \in sent THEN [session[o] EXCEPT !.ops = @ + 1]
                                                  ELSE session[o]], players, peer)
    /\ UNCHANGED <<pending, arrived, list, pool>>

\* Mutant: pending operations are not looked at.
Garbage_Pending == {o \in Listed : ~session[o].up}

Garbage == {o \in Listed : ~session[o].up /\ ~(session[o].ops > 0)}

\* The sessions of S as an iterator over the list meets them: by handle.
InListOrder(S) == {q \in [1 .. Cardinality(S) -> S] :
    \A i, j \in DOMAIN q : i < j => session[q[i]].sock < session[q[j]].sock}

\* Mutants: the session stays a listener, or in the list.
Delete_Listening(S) ==
    /\ session' = Without(session, S)
    /\ \E order \in InListOrder(S) : freeList' = Reverse(order) \o freeList
    /\ UNCHANGED <<made, listeners>>
Erase_Nothing(S) == list

\* delete of the sessions of S in the order of the list: the destructor, and
\* operator delete, which puts each in front of the free list.
Delete(S) ==
    /\ session' = Without(session, S)
    /\ listeners' = listeners \ S
    /\ \E order \in InListOrder(S) : freeList' = Reverse(order) \o freeList
    /\ UNCHANGED made

\* mClientList.erase(client->mSocket).
Erase(S) == Without(list, {session[o].sock : o \in S})

CollectGarbageSessions ==
    /\ phase = "period" /\ phase' = "accept"
    /\ list' = Erase(Garbage)
    /\ Delete(Garbage)
    /\ UNCHANGED <<pending, arrived, peer, players, posted>>

\* Less than a second after the last collection.
NoPeriod ==
    /\ phase = "period" /\ phase' = "accept"
    /\ UNCHANGED <<pending, arrived, peer, session, list, pool, players, posted>>

------------------------------------------------------------------------------
Completion(o) == RecvCompletion(o) \/ SendCompletion(o)

Next ==
    \/ \E h \in Handle : Arrive(h) \/ PeerLeaves(h)
    \/ Accept \/ NothingToAccept
    \/ \E o \in Address : Completion(o)
    \/ FlushClientSend \/ CollectGarbageSessions \/ NoPeriod

Spec == Init /\ [][Next]_vars

\* The loop runs on; SleepEx runs the completions that are queued, of every
\* session; an operation on a closed socket, or with something to take,
\* completes; and a second passes.
Fairness ==
    /\ WF_vars(Accept \/ NothingToAccept) /\ WF_vars(FlushClientSend)
    /\ WF_vars(CollectGarbageSessions \/ NoPeriod)
    /\ \A o \in Address : SF_vars(Completion(o))
    /\ SF_vars(CollectGarbageSessions)

FairSpec == Spec /\ Fairness

------------------------------------------------------------------------------
(* Properties. *)

Sessions == [sock : Handle, id : PlayerNumber, up : BOOLEAN, ops : Nat, out : Nat]

\* Types; what is kept by address is kept of addresses of the pool.
TypeOK ==
    /\ phase \in {"accept", "apc", "period"}
    /\ pending \in Seq(Handle) /\ arrived \in 0 .. MaxArrivals
    /\ Open \subseteq Handle /\ DOMAIN list \subseteq Handle
    /\ \A h \in Open : peer[h] \in [gone : BOOLEAN, named : BOOLEAN]
    /\ Live \subseteq Address /\ \A o \in Live : session[o] \in Sessions
    /\ players \subseteq PlayerNumber
    /\ posted \in [Address -> [recv : {0, 1}, sends : Seq(Nat)]]

\* The state has its types.  mOverlappedRequested, which Disconnect leaves alone
\* and every completion of a closed session must still decrement, is what the
\* kernel holds; and nothing is held on an object that was given back: its
\* OVERLAPPED could be the next session's (ClientSession.h:51).
OperationsCounted ==
    /\ TypeOK
    /\ \A o \in Live : session[o].ops = posted[o].recv + Len(posted[o].sends)
    /\ \A o \in Address \ Live : posted[o].recv = 0 /\ posted[o].sends = << >>

\* The free list and the live sessions share out what the pool has allocated, no
\* object is in the free list twice, and EventManager calls the live sessions
\* and no others.
PoolIntact ==
    /\ IsInjective(freeList)
    /\ ToSet(freeList) \cap Live = {}
    /\ ToSet(freeList) \cup Live = 1 .. made
    /\ listeners = Live

\* The list leads to live sessions, each under its own handle, even when that
\* handle belongs to another connection by now: FlushClientSend and the
\* collection never follow a pointer to a deleted session, and erase(mSocket)
\* erases the entry of the session that is deleted.
ListSound == \A h \in DOMAIN list : list[h] \in Live /\ session[list[h]].sock = h

\* An open handle has one connected session, or waits in the queue: Disconnect
\* never closes the socket of another.
OneOwner ==
    /\ \A o, p \in Up : o # p => session[o].sock # session[p].sock
    /\ Open = {session[o].sock : o \in Up} \cup ToSet(pending)
    /\ \A o \in Up : session[o].sock \notin ToSet(pending)

\* A connected session is listening, unless the other end has gone: no branch of
\* the completions forgets to post the next receive.
Listening == \A o \in Up : posted[o].recv = 1 \/ Gone(session[o].sock)

\* When clients log in one after the other, events addressed to a player's
\* number reach one session.
UniquePlayerNumbers == \A o, p \in Up : o # p => session[o].id # session[p].id

\* ClientManager.cpp:36: "sessions that were disconnected are cleaned up
\* periodically" - those that are in the list.  One whose handle was still a key
\* when it came is in no list: it is never flushed, and never deleted.
ListedCollected == \A o \in Address :
    (o \in Listed /\ ~session[o].up) ~> o \notin Live
==============================================================================
