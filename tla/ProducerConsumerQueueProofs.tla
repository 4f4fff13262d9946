--------------------- MODULE ProducerConsumerQueueProofs ---------------------
(***************************************************************************)
(* The ring with its lock implements the bounded queue: for every number   *)
(* of threads, every size and whichever threads wait.  And every sleeper   *)
(* there is something to do for has somebody on the way to do it.          *)
(***************************************************************************)
EXTENDS ProducerConsumerQueue, FiniteSetTheorems, SequenceTheorems, TLAPS

USE QueueAssumption DEF QueueAssumption

\* One turn of the ring at most.
LEMMA ModOnce ==
    ASSUME NEW q \in Nat \ {0}, NEW a \in q .. 2 * q - 1
    PROVE  a % q = a - q
  OBVIOUS

\* A position behind the offset, wrapped once.
LEMMA WrapPlace ==
    ASSUME NEW o \in Slot, NEW i \in 0 .. QSize
    PROVE  /\ (o + i) % QSize \in Slot
           /\ (o + i) % QSize = IF o + i < QSize THEN o + i ELSE o + i - QSize
<1>1. CASE o + i < QSize
  BY <1>1 DEF Slot
<1>2. CASE o + i >= QSize
  <2> DEFINE a == o + i
  <2>1. a \in QSize .. 2 * QSize - 1
    BY <1>2 DEF Slot
  <2> HIDE DEF a
  <2>2. a % QSize = a - QSize
    BY <2>1, ModOnce
  <2>3. a = o + i
    BY DEF a
  <2> QED BY <1>2, <2>1, <2>2, <2>3 DEF Slot
<1>3. o + i < QSize \/ o + i >= QSize
  BY DEF Slot
<1> QED BY <1>1, <1>2, <1>3

\* The invariant holds at first and every step of a call keeps it.
LEMMA InitTyped == Init => TypeOK
  BY DEF Init, TypeOK, Slot, Places, Thread

LEMMA StepTyped == TypeOK /\ [Next]_vars => TypeOK'
<1> SUFFICES ASSUME TypeOK, [Next]_vars PROVE TypeOK'
  OBVIOUS
<1> USE DEF TypeOK, Places
<1>1. ASSUME NEW t \in Thread, Call(t) PROVE TypeOK'
  BY <1>1 DEF Call, Goes, ring
<1>2. ASSUME NEW t \in Thread, Acquire(t) PROVE TypeOK'
  BY <1>2 DEF Acquire, Goes, ring
<1>3. ASSUME NEW t \in Thread, Sleep(t) PROVE TypeOK'
  BY <1>3 DEF Sleep, Goes, ring
<1>4. ASSUME NEW t \in Thread, GiveUp(t) PROVE TypeOK'
  BY <1>4 DEF GiveUp, Goes, ring
<1>5. ASSUME NEW t \in Thread, Fill(t) PROVE TypeOK'
  <2>1. mQueueArray' \in [Slot -> Item]
    BY <1>5 DEF Fill
  <2>2. mQueueOffset' \in Slot /\ mOccupiedSize' \in 0 .. QSize
    BY <1>5 DEF Fill, Blocked
  <2>3. /\ pc' \in [Thread -> Places] /\ holder' = Nobody
        /\ \A u \in Thread : pc'[u] # "inside"
    BY <1>5 DEF Fill, Goes
  <2>4. item' \in [Thread -> Item] /\ ok' \in [Thread -> BOOLEAN]
    BY <1>5 DEF Fill
  <2> QED BY <2>1, <2>2, <2>3, <2>4
<1>6. ASSUME NEW t \in Thread, Drain(t) PROVE TypeOK'
  <2>1. mQueueArray' \in [Slot -> Item]
    BY <1>6 DEF Drain
  <2>2. mQueueOffset' \in Slot /\ mOccupiedSize' \in 0 .. QSize
    BY <1>6 DEF Drain, Blocked, Slot
  <2>3. /\ pc' \in [Thread -> Places] /\ holder' = Nobody
        /\ \A u \in Thread : pc'[u] # "inside"
    BY <1>6 DEF Drain, Goes
  <2>4. item' \in [Thread -> Item] /\ ok' \in [Thread -> BOOLEAN]
    BY <1>6 DEF Drain
  <2> QED BY <2>1, <2>2, <2>3, <2>4
<1>7. ASSUME NEW t \in Thread, Wake(t) PROVE TypeOK'
  <2>1. CASE Sleepers(t) = {}
    BY <1>7, <2>1 DEF Wake, Goes, ring
  <2>2. ASSUME NEW u \in Sleepers(t), pc' = [pc EXCEPT ![t] = "idle", ![u] = "entering"]
        PROVE  TypeOK'
    <3>1. u \in Thread /\ pc[u] = "asleep" /\ pc[t] = "waking"
      BY <1>7, <2>2 DEF Sleepers, Wake, Thread
    <3> QED BY <1>7, <2>2, <3>1 DEF Wake, ring
  <2> QED BY <1>7, <2>1, <2>2 DEF Wake
<1>8. ASSUME NEW t \in Thread, WakeSpuriously(t) PROVE TypeOK'
  BY <1>8 DEF WakeSpuriously, Goes, ring
<1>9. CASE UNCHANGED vars
  BY <1>9 DEF vars
<1> QED BY <1>1, <1>2, <1>3, <1>4, <1>5, <1>6, <1>7, <1>8, <1>9 DEF Next, Inside

------------------------------------------------------------------------------
\* The n slots from o on of a ring a: a sequence of items.
RingOf(a, o, n) == [i \in 1 .. n |-> a[(o + i - 1) % QSize]]

LEMMA RingType ==
    ASSUME NEW a \in [Slot -> Item], NEW o \in Slot, NEW n \in 0 .. QSize
    PROVE  /\ RingOf(a, o, n) \in Seq(Item) /\ Len(RingOf(a, o, n)) = n
           /\ \A i \in 1 .. n : RingOf(a, o, n)[i] = a[(o + i - 1) % QSize]
<1>1. ASSUME NEW i \in 1 .. n PROVE a[(o + i - 1) % QSize] \in Item
  <2>1. i - 1 \in 0 .. QSize /\ o + (i - 1) = o + i - 1
    BY DEF Slot
  <2>2. (o + i - 1) % QSize \in Slot
    BY <2>1, WrapPlace
  <2> QED BY <2>2
<1> QED BY <1>1 DEF RingOf

\* So it is now, and after a step.
LEMMA ContentsType ==
    ASSUME TypeOK
    PROVE  /\ Contents \in Seq(Item) /\ Len(Contents) = mOccupiedSize
           /\ \A i \in 1 .. mOccupiedSize :
                 Contents[i] = mQueueArray[(mQueueOffset + i - 1) % QSize]
<1>1. /\ mQueueArray \in [Slot -> Item] /\ mQueueOffset \in Slot
      /\ mOccupiedSize \in 0 .. QSize
  BY DEF TypeOK
<1>2. Contents = RingOf(mQueueArray, mQueueOffset, mOccupiedSize)
  BY DEF Contents, RingOf
<1> QED BY <1>1, <1>2, RingType

LEMMA NextContentsType ==
    ASSUME TypeOK'
    PROVE  /\ Contents' \in Seq(Item) /\ Len(Contents') = mOccupiedSize'
           /\ \A i \in 1 .. mOccupiedSize' :
                 Contents'[i] = mQueueArray'[(mQueueOffset' + i - 1) % QSize]
<1>1. /\ mQueueArray' \in [Slot -> Item] /\ mQueueOffset' \in Slot
      /\ mOccupiedSize' \in 0 .. QSize
  BY DEF TypeOK
<1>2. Contents' = RingOf(mQueueArray', mQueueOffset', mOccupiedSize')
  BY DEF Contents, RingOf
<1> QED BY <1>1, <1>2, RingType

\* Fill appends.
LEMMA FillAppends ==
    ASSUME TypeOK, TypeOK', NEW p \in Thread, Fill(p)
    PROVE  Contents' = Append(Contents, item[p])
<1> DEFINE n == mOccupiedSize
           o == mQueueOffset
<1>1. /\ n \in 0 .. QSize - 1 /\ o \in Slot /\ mOccupiedSize' = n + 1
      /\ mQueueOffset' = o /\ item[p] \in Item
      /\ mQueueArray' = [mQueueArray EXCEPT ![(o + n) % QSize] = item[p]]
      /\ mQueueArray \in [Slot -> Item]
  BY DEF Fill, Blocked, TypeOK, Last
<1>2. /\ Contents \in Seq(Item) /\ Len(Contents) = n
      /\ \A i \in 1 .. n : Contents[i] = mQueueArray[(o + i - 1) % QSize]
  BY ContentsType
<1>3. /\ Contents' \in Seq(Item) /\ Len(Contents') = n + 1
      /\ \A i \in 1 .. n + 1 : Contents'[i] = mQueueArray'[(o + i - 1) % QSize]
  <2>1. /\ Contents' \in Seq(Item) /\ Len(Contents') = mOccupiedSize'
        /\ \A i \in 1 .. mOccupiedSize' :
              Contents'[i] = mQueueArray'[(mQueueOffset' + i - 1) % QSize]
    BY NextContentsType
  <2> QED BY <1>1, <2>1
<1> HIDE DEF n, o
<1>4. ASSUME NEW i \in 1 .. n PROVE Contents'[i] = Contents[i]
  <2>1. /\ i - 1 \in 0 .. QSize /\ n \in 0 .. QSize
        /\ o + (i - 1) = o + i - 1 /\ i - 1 < n /\ n < QSize /\ i \in 1 .. n + 1
    BY <1>1 DEF Slot
  <2>2. /\ (o + i - 1) % QSize \in Slot
        /\ (o + i - 1) % QSize = IF o + i - 1 < QSize THEN o + i - 1 ELSE o + i - 1 - QSize
    BY <1>1, <2>1, WrapPlace
  <2>3. (o + n) % QSize = IF o + n < QSize THEN o + n ELSE o + n - QSize
    BY <1>1, <2>1, WrapPlace
  <2>4. (o + i - 1) % QSize # (o + n) % QSize
    BY <1>1, <2>1, <2>2, <2>3 DEF Slot
  <2> QED BY <1>1, <1>2, <1>3, <2>1, <2>2, <2>4
<1>5. Contents'[n + 1] = item[p]
  <2>1. n \in 0 .. QSize /\ o + (n + 1) - 1 = o + n /\ n + 1 \in 1 .. n + 1
    BY <1>1 DEF Slot
  <2>2. (o + n) % QSize \in Slot
    BY <1>1, <2>1, WrapPlace
  <2> QED BY <1>1, <1>3, <2>1, <2>2
<1>6. /\ Append(Contents, item[p]) \in Seq(Item)
      /\ Len(Append(Contents, item[p])) = n + 1
      /\ \A i \in 1 .. n + 1 : Append(Contents, item[p])[i] =
            IF i <= n THEN Contents[i] ELSE item[p]
  BY <1>1, <1>2, AppendProperties
<1>7. ASSUME NEW i \in 1 .. n + 1
      PROVE  Contents'[i] = Append(Contents, item[p])[i]
  <2>1. CASE i <= n
    BY <1>1, <1>4, <1>6, <2>1
  <2>2. CASE i > n
    <3>1. i = n + 1
      BY <1>1, <2>2
    <3> QED BY <1>5, <1>6, <2>2, <3>1
  <2>3. i <= n \/ i > n
    BY <1>1
  <2> QED BY <2>1, <2>2, <2>3
<1> QED BY <1>3, <1>6, <1>7, SeqEqual

\* Drain takes the oldest item, also when the offset wraps.
LEMMA DrainTakes ==
    ASSUME TypeOK, TypeOK', NEW c \in Thread, Drain(c)
    PROVE  /\ Contents # << >> /\ Contents' = Tail(Contents)
           /\ item' = [item EXCEPT ![c] = Head(Contents)]
<1> DEFINE n == mOccupiedSize
           o == mQueueOffset
<1>1. /\ n \in 1 .. QSize /\ o \in Slot /\ mOccupiedSize' = n - 1
      /\ mQueueOffset' = IF o + 1 = QSize THEN 0 ELSE o + 1
      /\ mQueueArray' = mQueueArray /\ mQueueArray \in [Slot -> Item]
      /\ item' = [item EXCEPT ![c] = mQueueArray[o]]
  BY DEF Drain, Blocked, TypeOK
<1>2. /\ Contents \in Seq(Item) /\ Len(Contents) = n
      /\ \A i \in 1 .. n : Contents[i] = mQueueArray[(o + i - 1) % QSize]
  BY ContentsType
<1>3. /\ Contents' \in Seq(Item) /\ Len(Contents') = n - 1
      /\ \A i \in 1 .. n - 1 : Contents'[i] = mQueueArray[(mQueueOffset' + i - 1) % QSize]
  <2>1. /\ Contents' \in Seq(Item) /\ Len(Contents') = mOccupiedSize'
        /\ \A i \in 1 .. mOccupiedSize' :
              Contents'[i] = mQueueArray'[(mQueueOffset' + i - 1) % QSize]
    BY NextContentsType
  <2> QED BY <1>1, <2>1
<1> HIDE DEF n, o
<1>4. ASSUME NEW i \in 1 .. n - 1 PROVE Contents'[i] = Contents[i + 1]
  <2>1. /\ i - 1 \in 0 .. QSize /\ i \in 0 .. QSize /\ i + 1 \in 1 .. n
        /\ o + (i + 1) - 1 = o + i /\ mQueueOffset' \in Slot
        /\ mQueueOffset' + (i - 1) = mQueueOffset' + i - 1
    BY <1>1 DEF Slot
  <2>2. (o + i) % QSize = IF o + i < QSize THEN o + i ELSE o + i - QSize
    BY <1>1, <2>1, WrapPlace
  <2>3. (mQueueOffset' + i - 1) % QSize =
            IF mQueueOffset' + i - 1 < QSize THEN mQueueOffset' + i - 1
                                             ELSE mQueueOffset' + i - 1 - QSize
    BY <2>1, WrapPlace
  <2>4. (mQueueOffset' + i - 1) % QSize = (o + i) % QSize
    <3>1. CASE o + 1 = QSize
      <4>1. mQueueOffset' = 0
        BY <1>1, <3>1
      <4> QED BY <1>1, <2>2, <2>3, <3>1, <4>1 DEF Slot
    <3>2. CASE o + 1 # QSize
      <4>1. mQueueOffset' = o + 1
        BY <1>1, <3>2
      <4> QED BY <1>1, <2>2, <2>3, <4>1 DEF Slot
    <3> QED BY <3>1, <3>2
  <2> QED BY <1>2, <1>3, <2>1, <2>4
<1>5. Contents # << >> /\ Head(Contents) = mQueueArray[o]
  <2>1. 1 \in 1 .. n /\ o + 1 - 1 = o /\ o + 0 = o /\ 0 \in 0 .. QSize /\ o < QSize
    BY <1>1 DEF Slot
  <2>2. o % QSize = o
    BY <1>1, <2>1, WrapPlace
  <2>3. Contents[1] = mQueueArray[o]
    BY <1>2, <2>1, <2>2
  <2>4. Contents # << >>
    BY <1>1, <1>2
  <2> QED BY <1>2, <2>3, <2>4
<1>6. /\ Tail(Contents) \in Seq(Item) /\ Len(Tail(Contents)) = n - 1
      /\ \A i \in 1 .. n - 1 : Tail(Contents)[i] = Contents[i + 1]
  BY <1>2, <1>5, HeadTailProperties
<1>7. Contents' = Tail(Contents)
  BY <1>3, <1>4, <1>6, SeqEqual
<1> QED BY <1>1, <1>5, <1>7

------------------------------------------------------------------------------
\* The first state of the ring is an empty queue.
LEMMA InitRefines == Init => Queue!QInit
<1> SUFFICES ASSUME Init PROVE Queue!QInit
  OBVIOUS
<1>1. Contents = << >>
  BY InitTyped, ContentsType, EmptySeq DEF Init
<1> QED BY <1>1 DEF Init, Queue!QInit, Thread

\* Every step of a call is a step of the queue, or none of its business.
LEMMA StepRefines ==
    TypeOK /\ TypeOK' /\ [Next]_vars => [Queue!QNext]_Queue!qvars
<1> SUFFICES ASSUME TypeOK, TypeOK', [Next]_vars
             PROVE  Queue!QNext \/ UNCHANGED Queue!qvars
  OBVIOUS
<1>1. ASSUME UNCHANGED ring PROVE Contents' = Contents
  BY <1>1 DEF ring, Contents
<1>2. /\ Contents \in Seq(Item) /\ Len(Contents) = mOccupiedSize
      /\ mOccupiedSize \in 0 .. QSize
  BY ContentsType DEF TypeOK
<1>3. ASSUME NEW t \in Thread, Call(t)
      PROVE  Queue!QNext \/ UNCHANGED Queue!qvars
  <2>1. Contents' = Contents /\ ok' = ok
    BY <1>1, <1>3 DEF Call
  <2>2. CASE t \in Producer
    BY <1>3, <2>1, <2>2 DEF Call, Queue!QNext, Queue!Offer
  <2>3. CASE t \notin Producer
    BY <1>3, <2>1, <2>3 DEF Call, Queue!qvars
  <2> QED BY <2>2, <2>3
<1>4. ASSUME NEW t \in Thread, Acquire(t) \/ Sleep(t) \/ Wake(t) \/ WakeSpuriously(t)
      PROVE  UNCHANGED Queue!qvars
  <2>1. UNCHANGED <<ring, item, ok>>
    BY <1>4 DEF Acquire, Sleep, Wake, WakeSpuriously
  <2> QED BY <1>1, <2>1 DEF Queue!qvars
<1>5. ASSUME NEW t \in Thread, GiveUp(t) PROVE Queue!QNext
  <2>1. /\ Contents' = Contents /\ item' = item /\ ok' = [ok EXCEPT ![t] = FALSE]
        /\ t \notin Waiting /\ Blocked(t)
    BY <1>1, <1>5 DEF GiveUp
  <2>2. CASE t \in Producer
    BY <1>2, <2>1, <2>2 DEF Blocked, Queue!QNext, Queue!Refuse
  <2>3. CASE t \in Consumer
    <3>1. mOccupiedSize = 0
      BY <2>1, <2>3 DEF Blocked
    <3>2. Contents = << >>
      BY <1>2, <3>1, EmptySeq
    <3> QED BY <2>1, <2>3, <3>2 DEF Queue!QNext, Queue!Refuse
  <2> QED BY <2>2, <2>3 DEF Thread
<1>6. ASSUME NEW t \in Thread, Fill(t) PROVE Queue!QNext
  <2>1. Contents' = Append(Contents, item[t])
    BY <1>6, FillAppends
  <2>2. /\ t \in Producer /\ Len(Contents) < QSize
        /\ item' = item /\ ok' = [ok EXCEPT ![t] = TRUE]
    BY <1>2, <1>6 DEF Fill, Blocked
  <2> QED BY <2>1, <2>2 DEF Queue!QNext, Queue!Put
<1>7. ASSUME NEW t \in Thread, Drain(t) PROVE Queue!QNext
  <2>1. /\ Contents # << >> /\ Contents' = Tail(Contents)
        /\ item' = [item EXCEPT ![t] = Head(Contents)]
    BY <1>7, DrainTakes
  <2>2. t \in Consumer /\ ok' = [ok EXCEPT ![t] = TRUE]
    BY <1>7 DEF Drain
  <2> QED BY <2>1, <2>2 DEF Queue!QNext, Queue!Take
<1>8. CASE UNCHANGED vars
  BY <1>1, <1>8 DEF vars, ring, Queue!qvars
<1> QED BY <1>3, <1>4, <1>5, <1>6, <1>7, <1>8 DEF Next, Inside

\* The offset stays within the ring, and at most one thread is inside a call's
\* locked part: the one that holds the lock.
THEOREM TypeCorrect == Spec => []TypeOK
<1> QED BY InitTyped, StepTyped, PTL DEF Spec

\* However many threads share it, whichever wait and wherever they stop, the
\* ring is a queue of at most QSize items: nothing is lost, doubled or
\* reordered, and a call is refused only when the queue is full or empty.
THEOREM ImplementsQueue == Spec => RefinesQueue
<1>1. Init => TypeOK
  BY InitTyped
<1>2. TypeOK /\ [Next]_vars => TypeOK'
  BY StepTyped
<1>3. Init => Queue!QInit
  BY InitRefines
<1>4. TypeOK /\ TypeOK' /\ [Next]_vars => [Queue!QNext]_Queue!qvars
  BY StepRefines
<1> QED BY <1>1, <1>2, <1>3, <1>4, PTL DEF Spec, RefinesQueue, Queue!Spec

------------------------------------------------------------------------------
(* No sleeper is forgotten. *)

Asleep(A) == {t \in A : pc[t] = "asleep"}

\* Those of A who are about to wake a sleeper of B, and those of B who are on
\* their way through the lock.
Helpers(A, B) == {t \in A : pc[t] = "waking"}
                 \cup {t \in B : pc[t] \in {"entering", "inside"}}

\* While a consumer sleeps there is a helper for every item; while a producer
\* sleeps, for every free slot.
Helped ==
    /\ Asleep(Consumer) # {} => mOccupiedSize <= Cardinality(Helpers(Producer, Consumer))
    /\ Asleep(Producer) # {} =>
          QSize - mOccupiedSize <= Cardinality(Helpers(Consumer, Producer))

\* Helpers are counted.
LEMMA HelpersCount ==
    ASSUME IsFiniteSet(Thread)
    PROVE  /\ IsFiniteSet(Helpers(Producer, Consumer)) /\ IsFiniteSet(Helpers(Consumer, Producer))
           /\ Cardinality(Helpers(Producer, Consumer)) \in Nat
           /\ Cardinality(Helpers(Consumer, Producer)) \in Nat
<1>1. /\ Helpers(Producer, Consumer) \in SUBSET Thread
      /\ Helpers(Consumer, Producer) \in SUBSET Thread
  BY DEF Helpers, Thread
<1> QED BY <1>1, FS_Subset, FS_CardinalityType

\* One more, one less, one for another.
LEMMA CountChange ==
    ASSUME NEW S, IsFiniteSet(S), NEW a, NEW b
    PROVE  /\ Cardinality(S) \in Nat
           /\ a \notin S => Cardinality(S \cup {a}) = Cardinality(S) + 1
           /\ a \in S => Cardinality(S \ {a}) = Cardinality(S) - 1
           /\ a \in S /\ b \notin S => Cardinality((S \ {a}) \cup {b}) = Cardinality(S)
<1>1. Cardinality(S) \in Nat /\ IsFiniteSet(S \ {a})
  BY FS_CardinalityType, FS_RemoveElement
<1>2. a \notin S => Cardinality(S \cup {a}) = Cardinality(S) + 1
  BY FS_AddElement
<1>3. a \in S => Cardinality(S \ {a}) = Cardinality(S) - 1
  BY FS_RemoveElement
<1>4. b \notin S => Cardinality((S \ {a}) \cup {b}) = Cardinality(S \ {a}) + 1
  BY <1>1, FS_AddElement
<1> QED BY <1>1, <1>2, <1>3, <1>4

\* How the helpers of a side change when threads go on.
LEMMA HelpersMove ==
    ASSUME NEW A, NEW B, A \cap B = {}, A \cup B = Thread, TypeOK,
           NEW t \in Thread, NEW to \in Places
    PROVE  /\ Goes(t, to) /\ t \in A =>
                Helpers(A, B)' = IF to = "waking" THEN Helpers(A, B) \cup {t}
                                                  ELSE Helpers(A, B) \ {t}
           /\ Goes(t, to) /\ t \in B =>
                Helpers(A, B)' = IF to \in {"entering", "inside"} THEN Helpers(A, B) \cup {t}
                                                                  ELSE Helpers(A, B) \ {t}
  BY DEF Helpers, Goes, TypeOK

\* What a step of a thread does to the work a side waits for: k before it, l
\* after it.  The side of B sleeps when there is none; A makes one more of it,
\* and B takes one.
SideStep(A, B, k, l) ==
    \/ \E t \in Thread : l = k /\ pc[t] \in {"idle", "asleep"} /\ Goes(t, "entering")
    \/ \E t \in Thread : l = k /\ pc[t] = "entering" /\ Goes(t, "inside")
    \/ \E t \in Thread : /\ l = k /\ pc[t] = "inside" /\ (t \in B => k = 0)
                         /\ \E to \in {"asleep", "idle"} : Goes(t, to)
    \/ \E t \in A : l = k + 1 /\ pc[t] = "inside" /\ Goes(t, "waking")
    \/ \E t \in B : l = k - 1 /\ pc[t] = "inside" /\ Goes(t, "waking")
    \/ \E t \in A : l = k /\ pc[t] = "waking" /\ Asleep(B) = {} /\ Goes(t, "idle")
    \/ \E t \in B : l = k /\ pc[t] = "waking" /\ Goes(t, "idle")
    \/ \E t \in A, u \in B : /\ l = k /\ pc[t] = "waking" /\ pc[u] = "asleep"
                             /\ pc' = [pc EXCEPT ![t] = "idle", ![u] = "entering"]
    \/ \E t \in B, u \in A : /\ l = k /\ pc[t] = "waking" /\ pc[u] = "asleep"
                             /\ pc' = [pc EXCEPT ![t] = "idle", ![u] = "entering"]

LEMMA SideKeeps ==
    ASSUME NEW A, NEW B, A \cap B = {}, A \cup B = Thread, TypeOK,
           IsFiniteSet(Helpers(A, B)), NEW k \in Nat, NEW l \in Nat,
           Asleep(B) # {} => k <= Cardinality(Helpers(A, B)),
           SideStep(A, B, k, l)
    PROVE  Asleep(B)' # {} => l <= Cardinality(Helpers(A, B)')
<1> DEFINE H == Helpers(A, B)
           n == Cardinality(H)
<1>1. /\ n \in Nat /\ pc \in [Thread -> Places] /\ IsFiniteSet(H)
      /\ \A t \in A : t \in Thread /\ (t \in H <=> pc[t] = "waking")
      /\ \A t \in B : t \in Thread /\ (t \in H <=> pc[t] \in {"entering", "inside"})
  BY FS_CardinalityType DEF TypeOK, Helpers
<1>2. \A t \in Thread : t \in A \/ t \in B
  OBVIOUS
<1>3. ASSUME NEW t
      PROVE  /\ t \notin H => Cardinality(H \cup {t}) = n + 1
             /\ t \in H => Cardinality(H \ {t}) = n - 1 /\ n - 1 \in Nat
             /\ t \notin H => H \ {t} = H
             /\ t \in H => H \cup {t} = H
  <2>1. IsFiniteSet(H \ {t}) /\ Cardinality(H \ {t}) \in Nat
    BY <1>1, FS_RemoveElement, FS_CardinalityType
  <2> QED BY <1>1, <2>1, CountChange
<1>4. ASSUME NEW t, NEW u, t \in H, u \notin H
      PROVE  Cardinality((H \ {t}) \cup {u}) = n
  BY <1>1, <1>4, CountChange
<1>5. ASSUME NEW t \in Thread, NEW to \in Places, Goes(t, to)
      PROVE  /\ t \in A =>
                H' = IF to = "waking" THEN H \cup {t} ELSE H \ {t}
             /\ t \in B =>
                H' = IF to \in {"entering", "inside"} THEN H \cup {t} ELSE H \ {t}
  BY <1>5, HelpersMove
<1>6. ASSUME NEW t \in Thread, NEW to \in Places, Goes(t, to), t \in A \/ to # "asleep"
      PROVE  Asleep(B)' \subseteq Asleep(B)
  BY <1>1, <1>6 DEF Goes, Asleep
<1>7. /\ Asleep(B) # {} => k <= n
      /\ (Asleep(B)' # {} => l <= Cardinality(H')) =>
            (Asleep(B)' # {} => l <= Cardinality(Helpers(A, B)'))
  OBVIOUS
<1> HIDE DEF H
<1> USE DEF Places
<1>8. ASSUME NEW t \in Thread, l = k, pc[t] \in {"idle", "asleep"}, Goes(t, "entering")
      PROVE  Asleep(B)' # {} => l <= Cardinality(H')
  <2>1. H' = H \/ (t \notin H /\ H' = H \cup {t})
    BY <1>1, <1>2, <1>5, <1>3, <1>8
  <2>2. Cardinality(H') \in Nat /\ Cardinality(H') >= n
    BY <1>1, <1>3, <2>1 DEF n
  <2>3. Asleep(B)' \subseteq Asleep(B)
    BY <1>6, <1>8
  <2> QED BY <1>1, <1>7, <1>8, <2>2, <2>3
<1>9. ASSUME NEW t \in Thread, l = k, pc[t] = "entering", Goes(t, "inside")
      PROVE  Asleep(B)' # {} => l <= Cardinality(H')
  <2>1. H' = H
    BY <1>1, <1>2, <1>5, <1>3, <1>9
  <2>3. Asleep(B)' \subseteq Asleep(B)
    BY <1>6, <1>9
  <2> QED BY <1>7, <1>9, <2>1, <2>3
<1>10. ASSUME NEW t \in Thread, l = k, pc[t] = "inside", t \in B => k = 0,
              NEW to \in {"asleep", "idle"}, Goes(t, to)
       PROVE  Asleep(B)' # {} => l <= Cardinality(H')
  <2>1. CASE t \in A
    <3>1. H' = H \ {t} /\ t \notin H
      BY <1>1, <1>5, <1>10, <2>1
    <3>3. H' = H
      BY <1>3, <3>1
    <3>2. Asleep(B)' \subseteq Asleep(B)
      BY <1>6, <1>10, <2>1
    <3> QED BY <1>7, <1>10, <3>3, <3>2
  <2>2. CASE t \in B
    <3>1. H' = H \ {t} /\ t \in H
      BY <1>1, <1>5, <1>10, <2>2
    <3>2. Cardinality(H') \in Nat
      BY <1>3, <3>1
    <3> QED BY <1>10, <2>2, <3>2
  <2> QED BY <1>2, <2>1, <2>2
<1>11. ASSUME NEW t \in A, l = k + 1, pc[t] = "inside", Goes(t, "waking")
       PROVE  Asleep(B)' # {} => l <= Cardinality(H')
  <2>1. H' = H \cup {t} /\ t \notin H
    BY <1>1, <1>5, <1>11
  <2>2. Cardinality(H') = n + 1
    BY <1>3, <2>1
  <2>3. Asleep(B)' \subseteq Asleep(B)
    BY <1>1, <1>6, <1>11
  <2> QED BY <1>1, <1>7, <1>11, <2>2, <2>3
<1>12. ASSUME NEW t \in B, l = k - 1, pc[t] = "inside", Goes(t, "waking")
       PROVE  Asleep(B)' # {} => l <= Cardinality(H')
  <2>1. H' = H \ {t} /\ t \in H
    BY <1>1, <1>5, <1>12
  <2>2. Cardinality(H') = n - 1
    BY <1>3, <2>1
  <2>3. Asleep(B)' \subseteq Asleep(B)
    BY <1>1, <1>6, <1>12
  <2> QED BY <1>1, <1>7, <1>12, <2>2, <2>3
<1>13. ASSUME NEW t \in A, l = k, pc[t] = "waking", Asleep(B) = {}, Goes(t, "idle")
       PROVE  Asleep(B)' # {} => l <= Cardinality(H')
  BY <1>1, <1>6, <1>13
<1>14. ASSUME NEW t \in B, l = k, pc[t] = "waking", Goes(t, "idle")
       PROVE  Asleep(B)' # {} => l <= Cardinality(H')
  <2>1. H' = H
    BY <1>1, <1>5, <1>3, <1>14
  <2>3. Asleep(B)' \subseteq Asleep(B)
    BY <1>1, <1>6, <1>14
  <2> QED BY <1>7, <1>14, <2>1, <2>3
<1>15. ASSUME NEW t \in Thread, NEW u \in Thread, pc[t] = "waking", pc[u] = "asleep",
              pc' = [pc EXCEPT ![t] = "idle", ![u] = "entering"]
       PROVE  /\ Asleep(B)' \subseteq Asleep(B)
              /\ t \in A /\ u \in B => H' = (H \ {t}) \cup {u} /\ t \in H /\ u \notin H
              /\ t \in B /\ u \in A => H' = H
  <2>1. \A v \in Thread : pc'[v] = IF v = u THEN "entering"
                                   ELSE IF v = t THEN "idle" ELSE pc[v]
    BY <1>1, <1>15
  <2> QED BY <1>1, <1>15, <2>1 DEF H, Helpers, Asleep
<1>16. ASSUME NEW t \in A, NEW u \in B, l = k, pc[t] = "waking", pc[u] = "asleep",
              pc' = [pc EXCEPT ![t] = "idle", ![u] = "entering"]
       PROVE  Asleep(B)' # {} => l <= Cardinality(H')
  <2>1. H' = (H \ {t}) \cup {u} /\ t \in H /\ u \notin H /\ Asleep(B)' \subseteq Asleep(B)
    BY <1>1, <1>15, <1>16
  <2>2. Cardinality(H') = n
    BY <1>4, <2>1
  <2> QED BY <1>7, <1>16, <2>1, <2>2
<1>17. ASSUME NEW t \in B, NEW u \in A, l = k, pc[t] = "waking", pc[u] = "asleep",
              pc' = [pc EXCEPT ![t] = "idle", ![u] = "entering"]
       PROVE  Asleep(B)' # {} => l <= Cardinality(H')
  <2>1. H' = H /\ Asleep(B)' \subseteq Asleep(B)
    BY <1>1, <1>15, <1>17
  <2> QED BY <1>7, <1>17, <2>1
<1>18. Asleep(B)' # {} => l <= Cardinality(H')
  BY <1>8, <1>9, <1>10, <1>11, <1>12, <1>13, <1>14, <1>16, <1>17 DEF SideStep
<1> QED BY <1>7, <1>18

\* Each call is a step of both sides: the items the consumers wait for, and the
\* free slots the producers wait for.
LEMMA StepSides ==
    ASSUME TypeOK, Next
    PROVE  /\ SideStep(Producer, Consumer, mOccupiedSize, mOccupiedSize')
           /\ SideStep(Consumer, Producer, QSize - mOccupiedSize, QSize - mOccupiedSize')
<1>1. /\ mOccupiedSize \in 0 .. QSize /\ QSize \in Nat
      /\ \A t \in Thread : holder = t => pc[t] = "inside"
      /\ \A t \in Thread : t \in Producer \/ t \in Consumer
      /\ \A t \in Producer : t \in Thread /\ t \notin Consumer
      /\ \A t \in Consumer : t \in Thread /\ t \notin Producer
  BY DEF TypeOK, Thread
<1> DEFINE Sides == /\ SideStep(Producer, Consumer, mOccupiedSize, mOccupiedSize')
                    /\ SideStep(Consumer, Producer, QSize - mOccupiedSize,
                                QSize - mOccupiedSize')
<1>2. ASSUME NEW t \in Thread, Call(t) PROVE Sides
  BY <1>1, <1>2 DEF Call, ring, SideStep
<1>3. ASSUME NEW t \in Thread, Acquire(t) PROVE Sides
  BY <1>1, <1>3 DEF Acquire, ring, SideStep
<1>4. ASSUME NEW t \in Thread, Sleep(t) PROVE Sides
  <2>1. /\ mOccupiedSize' = mOccupiedSize /\ pc[t] = "inside" /\ Goes(t, "asleep")
        /\ t \in Consumer => mOccupiedSize = 0
        /\ t \in Producer => QSize - mOccupiedSize = 0
    BY <1>1, <1>4 DEF Sleep, ring, Blocked
  <2> QED BY <2>1 DEF SideStep
<1>5. ASSUME NEW t \in Thread, GiveUp(t) PROVE Sides
  <2>1. /\ mOccupiedSize' = mOccupiedSize /\ pc[t] = "inside" /\ Goes(t, "idle")
        /\ t \in Consumer => mOccupiedSize = 0
        /\ t \in Producer => QSize - mOccupiedSize = 0
    BY <1>1, <1>5 DEF GiveUp, ring, Blocked
  <2> QED BY <2>1 DEF SideStep
<1>6. ASSUME NEW t \in Thread, Fill(t) PROVE Sides
  <2>1. /\ t \in Producer /\ pc[t] = "inside" /\ Goes(t, "waking")
        /\ mOccupiedSize' = mOccupiedSize + 1
        /\ QSize - mOccupiedSize' = (QSize - mOccupiedSize) - 1
    BY <1>1, <1>6 DEF Fill
  <2> QED BY <2>1 DEF SideStep
<1>7. ASSUME NEW t \in Thread, Drain(t) PROVE Sides
  <2>1. /\ t \in Consumer /\ pc[t] = "inside" /\ Goes(t, "waking")
        /\ mOccupiedSize' = mOccupiedSize - 1
        /\ QSize - mOccupiedSize' = (QSize - mOccupiedSize) + 1
    BY <1>1, <1>7 DEF Drain
  <2> QED BY <2>1 DEF SideStep
<1>8. ASSUME NEW t \in Thread, Wake(t) PROVE Sides
  <2>1. pc[t] = "waking" /\ mOccupiedSize' = mOccupiedSize
    BY <1>8 DEF Wake, ring
  <2>2. Sleepers(t) = IF t \in Producer THEN Asleep(Consumer) ELSE Asleep(Producer)
    BY DEF Sleepers, Asleep
  <2>3. CASE Sleepers(t) = {}
    <3>1. Goes(t, "idle")
      BY <1>8, <2>3 DEF Wake
    <3> QED BY <1>1, <2>1, <2>2, <2>3, <3>1 DEF SideStep
  <2>4. ASSUME NEW u \in Sleepers(t), pc' = [pc EXCEPT ![t] = "idle", ![u] = "entering"]
        PROVE  Sides
    <3>1. pc[u] = "asleep" /\ (IF t \in Producer THEN u \in Consumer ELSE u \in Producer)
      BY <2>2, <2>4 DEF Asleep
    <3> QED BY <1>1, <2>1, <2>4, <3>1 DEF SideStep
  <2> QED BY <1>8, <2>3, <2>4 DEF Wake
<1>9. ASSUME NEW t \in Thread, WakeSpuriously(t) PROVE Sides
  BY <1>1, <1>9 DEF WakeSpuriously, ring, SideStep
<1> QED BY <1>2, <1>3, <1>4, <1>5, <1>6, <1>7, <1>8, <1>9 DEF Next, Inside

LEMMA HelpedInit == Init => Helped
  BY DEF Init, Helped, Asleep, Thread

LEMMA HelpedNext ==
    ASSUME IsFiniteSet(Thread), TypeOK, Helped, [Next]_vars
    PROVE  Helped'
<1>1. CASE Next
  <2>1. /\ mOccupiedSize \in 0 .. QSize /\ mOccupiedSize' \in 0 .. QSize /\ QSize \in Nat
    BY StepTyped DEF TypeOK
  <2>2. /\ Producer \cap Consumer = {} /\ Producer \cup Consumer = Thread
        /\ Consumer \cap Producer = {} /\ Consumer \cup Producer = Thread
    BY DEF Thread
  <2>3. Asleep(Consumer)' # {} => mOccupiedSize' <= Cardinality(Helpers(Producer, Consumer)')
    BY <1>1, <2>1, <2>2, StepSides, SideKeeps, HelpersCount DEF Helped
  <2>4. Asleep(Producer)' # {} =>
           QSize - mOccupiedSize' <= Cardinality(Helpers(Consumer, Producer)')
    <3>1. \A k \in 0 .. QSize : QSize - k \in Nat
      BY <2>1
    <3>2. QSize - mOccupiedSize \in Nat /\ QSize - mOccupiedSize' \in Nat
      BY <2>1, <3>1
    <3> QED BY <1>1, <3>2, <2>2, StepSides, SideKeeps, HelpersCount DEF Helped
  <2> QED BY <2>3, <2>4 DEF Helped
<1>2. CASE UNCHANGED vars
  BY <1>2 DEF vars, Helped, Helpers, Asleep
<1> QED BY <1>1, <1>2

\* Every sleeper is remembered: while a consumer sleeps and the queue holds an
\* item, there is for every item a producer that has not woken a sleeper yet or a
\* consumer on its way through the lock, and so for producers and free slots.
THEOREM SleepersHelped ==
    ASSUME IsFiniteSet(Thread) PROVE Spec => []Helped
<1>1. Init => TypeOK /\ Helped
  BY InitTyped, HelpedInit
<1>2. (TypeOK /\ Helped) /\ [Next]_vars => (TypeOK /\ Helped)'
  BY StepTyped, HelpedNext
<1> QED BY <1>1, <1>2, PTL DEF Spec

\* The threads that wait never all sleep, with a waiting thread on either side and
\* fewer polling threads than the queue has room for.
LEMMA HelpedMeansAwake ==
    ASSUME IsFiniteSet(Thread), Cardinality(Thread \ Waiting) < QSize,
           Waiting \cap Producer # {}, Waiting \cap Consumer # {},
           TypeOK, Helped
    PROVE  SomeoneAwake
<1> SUFFICES ASSUME \A t \in Waiting : pc[t] = "asleep" PROVE FALSE
  BY DEF SomeoneAwake
<1> DEFINE P == Helpers(Producer, Consumer)
           C == Helpers(Consumer, Producer)
<1>1. /\ IsFiniteSet(P) /\ IsFiniteSet(C)
      /\ Cardinality(P) \in Nat /\ Cardinality(C) \in Nat
  BY HelpersCount
<1>2. Asleep(Consumer) # {} /\ Asleep(Producer) # {}
  BY DEF Asleep
<1>3. mOccupiedSize <= Cardinality(P) /\ QSize - mOccupiedSize <= Cardinality(C)
  BY <1>2 DEF Helped
<1>4. P \cap C = {} /\ P \cup C \in SUBSET (Thread \ Waiting)
  BY DEF Helpers, Thread
<1> HIDE DEF P, C
<1>5. Cardinality(P \cup C) = Cardinality(P) + Cardinality(C)
  <2>1. Cardinality(P \cap C) = 0
    BY <1>4, FS_EmptySet
  <2>2. Cardinality(P \cup C) = Cardinality(P) + Cardinality(C) - Cardinality(P \cap C)
    BY <1>1, FS_Union
  <2> QED BY <1>1, <2>1, <2>2
<1>6. /\ IsFiniteSet(Thread \ Waiting) /\ Cardinality(Thread \ Waiting) \in Nat
      /\ Cardinality(P \cup C) <= Cardinality(Thread \ Waiting)
  <2>1. IsFiniteSet(Thread \ Waiting)
    BY FS_Difference
  <2> QED BY <1>4, <2>1, FS_Subset, FS_CardinalityType
<1>7. mOccupiedSize \in Nat /\ QSize \in Nat
  BY DEF TypeOK
<1> QED BY <1>1, <1>3, <1>5, <1>6, <1>7

THEOREM SomeoneStaysAwake ==
    ASSUME IsFiniteSet(Thread), Cardinality(Thread \ Waiting) < QSize,
           Waiting \cap Producer # {}, Waiting \cap Consumer # {}
    PROVE  Spec => []SomeoneAwake
<1>1. Init => TypeOK /\ Helped
  BY InitTyped, HelpedInit
<1>2. (TypeOK /\ Helped) /\ [Next]_vars => (TypeOK /\ Helped)'
  BY StepTyped, HelpedNext
<1>3. TypeOK /\ Helped => SomeoneAwake
  BY HelpedMeansAwake
<1> QED BY <1>1, <1>2, <1>3, PTL DEF Spec
===============================================================================
