------------------------ MODULE ProducerConsumerQueue ------------------------
(***************************************************************************)
(* The queue the accept thread hands sockets through to the main loop      *)
(* (ProducerConsumerQueue.h; pendingAcceptList): a ring of QSize slots, an *)
(* SRW lock and two condition variables.  A thread's call is a sequence of *)
(* steps, one while it holds the lock: acquire; look, and sleep, give up,  *)
(* or move one item and release; then wake a sleeper of the other side.    *)
(***************************************************************************)
EXTENDS Integers, Sequences

CONSTANTS Producer, Consumer,   \* threads, by what they call
          Waiting,              \* those who call with the waiting flag set
          QSize, Item,
          Nobody                \* holds no lock

Thread == Producer \cup Consumer

ASSUME QueueAssumption ==
    /\ QSize \in Nat \ {0} /\ Item # {}
    /\ Producer \cap Consumer = {} /\ Waiting \subseteq Thread
    /\ Nobody \notin Thread

VARIABLES mQueueArray, mQueueOffset, mOccupiedSize,
          holder,       \* who holds mSRWLock
          pc,           \* where each thread's call is
          item,         \* the item each producer brings or consumer gets
          ok            \* what each thread's last call returned

ring == <<mQueueArray, mQueueOffset, mOccupiedSize>>
vars == <<mQueueArray, mQueueOffset, mOccupiedSize, holder, pc, item, ok>>

Slot == 0 .. QSize - 1

Init ==
    /\ \E i \in Item : mQueueArray = [s \in Slot |-> i]     \* all zero
    /\ mQueueOffset = 0 /\ mOccupiedSize = 0
    /\ holder = Nobody
    /\ pc = [t \in Thread |-> "idle"]
    /\ item \in [Thread -> Item]
    /\ ok = [t \in Thread |-> TRUE]

Goes(t, to) == pc' = [pc EXCEPT ![t] = to]

Call(t) ==
    /\ pc[t] = "idle" /\ Goes(t, "entering")
    /\ IF t \in Producer THEN \E i \in Item : item' = [item EXCEPT ![t] = i]
                         ELSE UNCHANGED item
    /\ UNCHANGED <<ring, holder, ok>>

Acquire(t) ==
    /\ pc[t] = "entering" /\ Goes(t, "inside")
    /\ holder = Nobody /\ holder' = t
    /\ UNCHANGED <<ring, item, ok>>

\* The loop condition of Produce and of Consume.
Blocked(t) == IF t \in Producer THEN mOccupiedSize = QSize ELSE mOccupiedSize = 0

\* SleepConditionVariableSRW releases the lock and sleeps in one step.
Sleep(t) ==
    /\ holder = t /\ Blocked(t) /\ t \in Waiting
    /\ Goes(t, "asleep") /\ holder' = Nobody
    /\ UNCHANGED <<ring, item, ok>>

GiveUp(t) ==
    /\ holder = t /\ Blocked(t) /\ t \notin Waiting
    /\ Goes(t, "idle") /\ holder' = Nobody
    /\ ok' = [ok EXCEPT ![t] = FALSE]
    /\ UNCHANGED <<ring, item>>

Last == (mQueueOffset + mOccupiedSize) % QSize

Fill(p) ==
    /\ p \in Producer /\ holder = p /\ ~Blocked(p)
    /\ mQueueArray' = [mQueueArray EXCEPT ![Last] = item[p]]
    /\ mOccupiedSize' = mOccupiedSize + 1
    /\ Goes(p, "waking") /\ holder' = Nobody
    /\ ok' = [ok EXCEPT ![p] = TRUE]
    /\ UNCHANGED <<mQueueOffset, item>>

\* Mutants: the offset is not wrapped in time; no sleeper is woken unless the
\* queue had been full.
Drain_LateWrap(c) ==
    /\ c \in Consumer /\ holder = c /\ ~Blocked(c)
    /\ item' = [item EXCEPT ![c] = mQueueArray[mQueueOffset % QSize]]
    /\ mOccupiedSize' = mOccupiedSize - 1
    /\ mQueueOffset' = IF mQueueOffset = QSize THEN 0 ELSE mQueueOffset + 1
    /\ Goes(c, "waking") /\ holder' = Nobody
    /\ ok' = [ok EXCEPT ![c] = TRUE]
    /\ UNCHANGED mQueueArray
Drain_WakesIfFull(c) ==
    /\ c \in Consumer /\ holder = c /\ ~Blocked(c)
    /\ item' = [item EXCEPT ![c] = mQueueArray[mQueueOffset]]
    /\ mOccupiedSize' = mOccupiedSize - 1
    /\ mQueueOffset' = IF mQueueOffset + 1 = QSize THEN 0 ELSE mQueueOffset + 1
    /\ Goes(c, IF mOccupiedSize = QSize THEN "waking" ELSE "idle") /\ holder' = Nobody
    /\ ok' = [ok EXCEPT ![c] = TRUE]
    /\ UNCHANGED mQueueArray

Drain(c) ==
    /\ c \in Consumer /\ holder = c /\ ~Blocked(c)
    /\ item' = [item EXCEPT ![c] = mQueueArray[mQueueOffset]]
    /\ mOccupiedSize' = mOccupiedSize - 1
    /\ mQueueOffset' = IF mQueueOffset + 1 = QSize THEN 0 ELSE mQueueOffset + 1
    /\ Goes(c, "waking") /\ holder' = Nobody
    /\ ok' = [ok EXCEPT ![c] = TRUE]
    /\ UNCHANGED mQueueArray

\* The sleepers on the condition variable a thread wakes: mNotEmpty after a
\* Produce, mNotFull after a Consume.
Sleepers(t) ==
    {u \in (IF t \in Producer THEN Consumer ELSE Producer) : pc[u] = "asleep"}

\* Mutant: the thread wakes the condition variable of its own side.
Wake_OwnSide(t) ==
    /\ pc[t] = "waking"
    /\ LET own == {u \in (IF t \in Producer THEN Producer ELSE Consumer) : pc[u] = "asleep"}
       IN  IF own = {} THEN Goes(t, "idle")
           ELSE \E u \in own : pc' = [pc EXCEPT ![t] = "idle", ![u] = "entering"]
    /\ UNCHANGED <<ring, holder, item, ok>>

\* WakeConditionVariable, after the lock is released: one sleeper, any one.
Wake(t) ==
    /\ pc[t] = "waking"
    /\ IF Sleepers(t) = {} THEN Goes(t, "idle")
       ELSE \E u \in Sleepers(t) : pc' = [pc EXCEPT ![t] = "idle", ![u] = "entering"]
    /\ UNCHANGED <<ring, holder, item, ok>>

\* A condition variable may wake a thread for no reason.
WakeSpuriously(t) ==
    /\ pc[t] = "asleep" /\ Goes(t, "entering")
    /\ UNCHANGED <<ring, holder, item, ok>>

Inside(t) == Sleep(t) \/ GiveUp(t) \/ Fill(t) \/ Drain(t)

Next == \E t \in Thread : Call(t) \/ Acquire(t) \/ Inside(t) \/ Wake(t)
                          \/ WakeSpuriously(t)

Spec == Init /\ [][Next]_vars

\* A thread in the middle of a call runs on.  An SRW lock is not fair, but a
\* thread that tries gets it when the others keep leaving it free, as the main
\* loop does, which sleeps between its calls.  The main loop calls for ever.
Fairness == \A t \in Thread : /\ SF_vars(Acquire(t))
                              /\ WF_vars(Inside(t)) /\ WF_vars(Wake(t))
                              /\ t \in Consumer => WF_vars(Call(t))

FairSpec == Spec /\ Fairness

------------------------------------------------------------------------------
(* Properties. *)

Places == {"idle", "entering", "inside", "asleep", "waking"}

\* Types; the thread that holds the lock is the one inside.
TypeOK ==
    /\ mQueueArray \in [Slot -> Item]
    /\ mQueueOffset \in Slot /\ mOccupiedSize \in 0 .. QSize
    /\ pc \in [Thread -> Places]
    /\ item \in [Thread -> Item] /\ ok \in [Thread -> BOOLEAN]
    /\ holder \in Thread \cup {Nobody}
    /\ \A t \in Thread : pc[t] = "inside" <=> holder = t

\* The threads that wait never all sleep: no wake-up goes to a thread that sleeps
\* for the opposite reason.  Others may poll the queue, but not so many that they
\* can take all it holds and be still on their way to waking somebody.
SomeoneAwake == \E t \in Waiting : pc[t] # "asleep"

\* The accept thread gets every socket into the list, however full it was: a
\* producer is kept waiting only by others that get in before it, and no sleeper
\* is forgotten while there is room.
EveryItemQueued ==
    \A p \in Producer :
        pc[p] # "idle" ~> \/ pc[p] = "idle"
                          \/ \E q \in Producer \ {p} : pc[q] = "waking"

\* The items in the ring, oldest first, and what the queue promises.
Contents == [i \in 1 .. mOccupiedSize |->
                mQueueArray[(mQueueOffset + i - 1) % QSize]]

Queue == INSTANCE BoundedQueue WITH queue <- Contents

RefinesQueue == Queue!Spec
===============================================================================
