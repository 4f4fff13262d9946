----------------------------- MODULE BoundedQueue -----------------------------
(***************************************************************************)
(* What a ProducerConsumerQueue promises the threads that share it: a queue *)
(* of at most QSize items; each call puts or takes one item at one instant, *)
(* and is refused only by a full or an empty queue, and only if its thread *)
(* does not wait.                                                          *)
(***************************************************************************)
EXTENDS Integers, Sequences

CONSTANTS Producer, Consumer, Waiting, QSize, Item

VARIABLES queue,    \* the items, oldest first
          item,     \* the item each thread last gave, or was given
          ok        \* what each thread's last call returned

qvars == <<queue, item, ok>>

QInit == /\ queue = << >>
         /\ item \in [Producer \cup Consumer -> Item]
         /\ ok = [t \in Producer \cup Consumer |-> TRUE]

Offer(p) == /\ \E i \in Item : item' = [item EXCEPT ![p] = i]
            /\ UNCHANGED <<queue, ok>>

Put(p) == /\ Len(queue) < QSize
          /\ queue' = Append(queue, item[p])
          /\ ok' = [ok EXCEPT ![p] = TRUE]
          /\ UNCHANGED item

Take(c) == /\ queue # << >>
           /\ item' = [item EXCEPT ![c] = Head(queue)]
           /\ queue' = Tail(queue)
           /\ ok' = [ok EXCEPT ![c] = TRUE]

Refuse(t) == /\ t \notin Waiting
             /\ t \in Producer => Len(queue) = QSize
             /\ t \in Consumer => queue = << >>
             /\ ok' = [ok EXCEPT ![t] = FALSE]
             /\ UNCHANGED <<queue, item>>

QNext == \/ \E p \in Producer : Offer(p) \/ Put(p) \/ Refuse(p)
         \/ \E c \in Consumer : Take(c) \/ Refuse(c)

Spec == QInit /\ [][QNext]_qvars
===============================================================================
