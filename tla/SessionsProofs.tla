---------------------------- MODULE SessionsProofs ----------------------------
(***************************************************************************)
(* The sessions, their pool and the list of them: what the run "sessions"  *)
(* checks of two handles and three arrivals, for any number of handles and *)
(* arrivals, any ALLOC_COUNT, and whether or not handles are reused and    *)
(* setsockopt fails.                                                       *)
(***************************************************************************)
EXTENDS Sessions, FiniteSetTheorems, FunctionTheorems, SequenceTheorems,
        NaturalsInduction, TLAPS

USE SessionsAssumption DEF SessionsAssumption

------------------------------------------------------------------------------
(* Sequences without duplicates. *)

\* The empty sequence is the function of the empty domain.
LEMMA EmptyFunction == DOMAIN << >> = {} /\ ToSet(<< >>) = {} /\ IsInjective(<< >>)
  BY DEF ToSet, IsInjective

\* What is taken from the front is nowhere else.
LEMMA TakeHead ==
    ASSUME NEW S, NEW q \in Seq(S), q # << >>, IsInjective(q)
    PROVE  /\ Head(q) \in S /\ Tail(q) \in Seq(S) /\ Len(Tail(q)) = Len(q) - 1
           /\ IsInjective(Tail(q)) /\ Head(q) \notin ToSet(Tail(q))
           /\ ToSet(q) = {Head(q)} \cup ToSet(Tail(q))
<1>1. /\ Head(q) = q[1] /\ Len(q) \in Nat \ {0} /\ DOMAIN q = 1 .. Len(q)
      /\ q[1] \in S
  BY EmptySeq, LenProperties
<1>2. /\ Tail(q) \in Seq(S) /\ Len(Tail(q)) = Len(q) - 1
      /\ DOMAIN Tail(q) = 1 .. Len(q) - 1
      /\ \A i \in 1 .. Len(q) - 1 : Tail(q)[i] = q[i + 1]
  BY HeadTailProperties, LenProperties
<1>3. IsInjective(Tail(q)) /\ Head(q) \notin ToSet(Tail(q))
  BY <1>1, <1>2 DEF IsInjective, ToSet
<1>4. ToSet(q) = {Head(q)} \cup ToSet(Tail(q))
  <2>1. \A i \in DOMAIN q : q[i] = Head(q) \/ \E j \in DOMAIN Tail(q) : q[i] = Tail(q)[j]
    <3> TAKE i \in DOMAIN q
    <3>1. i # 1 => i - 1 \in DOMAIN Tail(q) /\ Tail(q)[i - 1] = q[i]
      BY <1>1, <1>2
    <3> QED BY <1>1, <3>1
  <2>2. \A j \in DOMAIN Tail(q) : j + 1 \in DOMAIN q /\ q[j + 1] = Tail(q)[j]
    BY <1>1, <1>2
  <2> QED BY <1>1, <2>1, <2>2 DEF ToSet
<1> QED BY <1>1, <1>2, <1>3, <1>4

\* What is put at the end is there besides the rest.
LEMMA PutLast ==
    ASSUME NEW S, NEW q \in Seq(S), NEW e \in S, e \notin ToSet(q), IsInjective(q)
    PROVE  /\ Append(q, e) \in Seq(S) /\ Len(Append(q, e)) = Len(q) + 1
           /\ IsInjective(Append(q, e)) /\ ToSet(Append(q, e)) = ToSet(q) \cup {e}
<1>1. /\ Append(q, e) \in Seq(S) /\ Len(Append(q, e)) = Len(q) + 1
      /\ DOMAIN q = 1 .. Len(q) /\ DOMAIN Append(q, e) = 1 .. Len(q) + 1
      /\ \A i \in 1 .. Len(q) : Append(q, e)[i] = q[i]
      /\ Append(q, e)[Len(q) + 1] = e /\ Len(q) \in Nat
  BY AppendProperties, LenProperties
<1>2. IsInjective(Append(q, e))
  BY <1>1 DEF IsInjective, ToSet
<1>3. ToSet(Append(q, e)) = ToSet(q) \cup {e}
  <2>1. \A i \in DOMAIN Append(q, e) : Append(q, e)[i] \in ToSet(q) \cup {e}
    BY <1>1 DEF ToSet
  <2>2. \A i \in DOMAIN q : i \in DOMAIN Append(q, e) /\ Append(q, e)[i] = q[i]
    BY <1>1
  <2>3. Len(q) + 1 \in DOMAIN Append(q, e)
    BY <1>1
  <2> QED BY <1>1, <2>1, <2>2, <2>3 DEF ToSet
<1> QED BY <1>1, <1>2, <1>3

\* The elements of a set, each once, in front of others.
LEMMA PutInFront ==
    ASSUME NEW S, NEW T \in SUBSET S, IsFiniteSet(T), NEW f \in Seq(S), IsInjective(f),
           ToSet(f) \cap T = {},
           NEW q \in [1 .. Cardinality(T) -> T], IsInjective(q)
    PROVE  /\ Reverse(q) \o f \in Seq(S) /\ IsInjective(Reverse(q) \o f)
           /\ ToSet(Reverse(q) \o f) = T \cup ToSet(f)
<1> DEFINE n == Cardinality(T)  r == Reverse(q)  g == r \o f
<1>1. n \in Nat
  BY FS_CardinalityType
<1>2. /\ r \in Seq(S) /\ Len(r) = n /\ Len(q) = n
      /\ \A i \in 1 .. n : r[i] = q[n - i + 1] /\ r[i] \in T
  <2>1. q \in Seq(T) /\ Len(q) = n
    BY <1>1
  <2>2. \A i \in 1 .. n : n - i + 1 \in 1 .. n /\ q[n - i + 1] \in T
    BY <1>1
  <2>3. r = [i \in 1 .. n |-> q[n - i + 1]]
    BY <2>1 DEF Reverse
  <2> HIDE DEF n, r
  <2>4. r \in [1 .. n -> S]
    BY <2>2, <2>3
  <2> QED BY <1>1, <2>1, <2>2, <2>3, <2>4
<1>3. \A t \in T : \E i \in 1 .. n : r[i] = t
  <2>1. q \in Injection(1 .. n, T)
    BY Fun_IsInj DEF IsInjective
  <2>2. Cardinality(1 .. n) = n /\ IsFiniteSet(1 .. n)
    BY <1>1, FS_Interval
  <2>3. q \in Surjection(1 .. n, T)
    BY <2>1, <2>2, FS_Injection
  <2> TAKE t \in T
  <2>4. PICK j \in 1 .. n : q[j] = t
    BY <2>3 DEF Surjection
  <2>5. n - j + 1 \in 1 .. n /\ r[n - j + 1] = t
    BY <1>1, <1>2, <2>4
  <2> QED BY <2>5
<1>4. /\ g \in Seq(S) /\ Len(g) = n + Len(f) /\ DOMAIN g = 1 .. n + Len(f)
      /\ \A i \in 1 .. n : g[i] = r[i]
      /\ \A i \in n + 1 .. n + Len(f) : g[i] = f[i - n] /\ i - n \in DOMAIN f
      /\ \A i \in DOMAIN f : i + n \in DOMAIN g /\ g[i + n] = f[i]
      /\ Len(f) \in Nat /\ DOMAIN f = 1 .. Len(f)
  <2>1. /\ g \in Seq(S) /\ Len(g) = n + Len(f)
        /\ \A i \in 1 .. n + Len(f) : g[i] = IF i <= n THEN r[i] ELSE f[i - n]
    BY <1>1, <1>2, ConcatProperties
  <2>2. Len(f) \in Nat /\ DOMAIN f = 1 .. Len(f) /\ DOMAIN g = 1 .. n + Len(f)
    BY <2>1, LenProperties
  <2> HIDE DEF g, n
  <2> QED BY <1>1, <2>1, <2>2
<1>5. \A i \in DOMAIN g : (i <= n => g[i] \in T) /\ (i > n => g[i] \in ToSet(f))
  BY <1>1, <1>2, <1>4 DEF ToSet
<1>6. IsInjective(g)
  <2> SUFFICES ASSUME NEW i \in DOMAIN g, NEW j \in DOMAIN g, g[i] = g[j]
               PROVE  i = j
    BY DEF IsInjective
  <2>1. CASE i <= n /\ j <= n
    <3> HIDE DEF g, n, r
    <3>1. q[n - i + 1] = q[n - j + 1]
      BY <1>1, <1>2, <1>4, <2>1
    <3>2. n - i + 1 \in 1 .. n /\ n - j + 1 \in 1 .. n
      BY <1>1, <1>4, <2>1
    <3>3. n - i + 1 = n - j + 1
      BY <3>1, <3>2 DEF IsInjective, n
    <3> QED BY <1>1, <1>4, <3>3
  <2>2. CASE i > n /\ j > n
    <3>1. i - n \in DOMAIN f /\ j - n \in DOMAIN f /\ f[i - n] = f[j - n]
      BY <1>1, <1>4, <2>2
    <3> QED BY <1>1, <1>4, <3>1 DEF IsInjective
  <2> QED BY <1>1, <1>4, <1>5, <2>1, <2>2
<1>7. ToSet(g) = T \cup ToSet(f)
  <2>1. \A t \in T : \E i \in DOMAIN g : g[i] = t
    BY <1>1, <1>3, <1>4
  <2>2. \A t \in ToSet(f) : \E i \in DOMAIN g : g[i] = t
    <3> TAKE t \in ToSet(f)
    <3>1. PICK j \in DOMAIN f : f[j] = t
      BY DEF ToSet
    <3> QED BY <1>4, <3>1
  <2>3. \A i \in DOMAIN g : g[i] \in T \cup ToSet(f)
    BY <1>1, <1>4, <1>5
  <2> QED BY <2>1, <2>2, <2>3 DEF ToSet
<1> QED BY <1>4, <1>6, <1>7

------------------------------------------------------------------------------
(* The inductive invariant. *)

Connected(ss) == {o \in DOMAIN ss : ss[o].up}

\* OneOwner of the sessions ss, the open handles and the queue q.
Owned(ss, open, q) ==
    /\ \A o, p \in Connected(ss) : o # p => ss[o].sock # ss[p].sock
    /\ open = {ss[o].sock : o \in Connected(ss)} \cup ToSet(q)
    /\ \A o \in Connected(ss) : ss[o].sock \notin ToSet(q)

\* A player in PlayerManager's list has a connected session; and when clients
\* log in one after the other, the sessions have numbers of their own, and all
\* have their players while a socket waits.
Named(ss, pl, q) ==
    /\ pl \subseteq {ss[o].id : o \in Connected(ss)}
    /\ SerialLogin =>
          /\ \A o, p \in Connected(ss) : o # p => ss[o].id # ss[p].id
          /\ Len(q) <= 1
          /\ q # << >> => \A o \in Connected(ss) : ss[o].id \in pl

\* The pool has allocated no more than the arrivals can need, because a session
\* or a handle in the queue stands for one of them; no handle waits twice.
Bounded ==
    /\ freeList \in Seq(Address) /\ made \in Nat
    /\ Cardinality(Live) + Len(pending) <= arrived
    /\ IsInjective(pending)

LifeInv ==
    /\ OperationsCounted /\ Bounded /\ PoolIntact /\ ListSound /\ Listening
    /\ Owned(session, Open, pending) /\ Named(session, players, pending)

\* What LifeInv says of the state, in the words of the properties.
LEMMA LifeInvImplies ==
    LifeInv => /\ OperationsCounted /\ PoolIntact /\ ListSound /\ OneOwner /\ Listening
               /\ SerialLogin => UniquePlayerNumbers
  BY DEF LifeInv, Owned, Named, Connected, OneOwner, UniquePlayerNumbers, Up, Live, Open

\* There are finitely many sessions.
LEMMA LiveFinite ==
    ASSUME Live \subseteq Address
    PROVE  /\ IsFiniteSet(Live) /\ Cardinality(Live) \in Nat
           /\ IsFiniteSet(Up) /\ Cardinality(Up) \in Nat
           /\ Cardinality(Up) <= Cardinality(Live)
<1>1. IsFiniteSet(Address)
  BY FS_Interval DEF Address
<1>2. IsFiniteSet(Live) /\ Up \in SUBSET Live
  BY <1>1, FS_Subset DEF Up
<1> QED BY <1>2, FS_Subset, FS_CardinalityType

\* GetNonUsedPlayerNumber finds a number as long as a socket waits: each number
\* in use is a live session's, and an arrival is left.
LEMMA NumberLeft ==
    ASSUME Live \subseteq Address, Cardinality(Live) < MaxArrivals,
           players \subseteq PlayerNumber,
           players \subseteq {session[o].id : o \in Up}
    PROVE  UnusedNumber \in PlayerNumber /\ UnusedNumber \notin players
<1> DEFINE ids == {session[o].id : o \in Up}
           f == [o \in Up |-> session[o].id]
           T == PlayerNumber \ players
<1>1. /\ IsFiniteSet(Live) /\ Cardinality(Live) \in Nat
      /\ IsFiniteSet(Up) /\ Cardinality(Up) \in Nat /\ Cardinality(Up) <= Cardinality(Live)
  BY LiveFinite
<1>2. IsFiniteSet(ids) /\ Cardinality(ids) \in Nat /\ Cardinality(ids) <= Cardinality(Up)
  <2>1. f \in Surjection(Up, ids)
    BY Fun_IsSurj
  <2> QED BY <1>1, <2>1, FS_Surjection, FS_CardinalityType
<1>3. Cardinality(players) \in Nat /\ Cardinality(players) <= Cardinality(ids)
  BY <1>2, FS_Subset, FS_CardinalityType
<1>4. Cardinality(PlayerNumber) = MaxArrivals + 1
  BY FS_Interval DEF PlayerNumber
<1>5. T # {}
  <2>1. ASSUME T = {} PROVE FALSE
    <3>1. PlayerNumber = players
      BY <2>1
    <3>2. Cardinality(players) = MaxArrivals + 1
      BY <1>4, <3>1
    <3> HIDE DEF ids
    <3> QED BY <1>1, <1>2, <1>3, <3>2
  <2> QED BY <2>1
<1>6. PICK n \in T : \A m \in T : ~(m < n)
  <2>1. T \in SUBSET Nat
    BY DEF PlayerNumber
  <2>2. PICK n \in T : \A m \in T : <<m, n>> \notin OpToRel(<, Nat)
    BY <1>5, <2>1, NatLessThanWellFounded, WFMin, Zenon
  <2> QED BY <2>1, <2>2, Zenon DEF OpToRel
<1>7. n \in PlayerNumber /\ n \notin players /\ \A m \in 0 .. n - 1 : m \in players
  BY <1>6 DEF PlayerNumber
<1> QED BY <1>7 DEF UnusedNumber

\* Owned and Named look at the handle, the number and the state of a session.
LEMMA Alike ==
    ASSUME NEW ss, NEW tt, DOMAIN tt = DOMAIN ss,
           \A o \in DOMAIN ss : /\ tt[o].sock = ss[o].sock /\ tt[o].id = ss[o].id
                                /\ tt[o].up = ss[o].up,
           NEW open, NEW pl, NEW q
    PROVE  /\ Connected(tt) = Connected(ss)
           /\ Owned(ss, open, q) => Owned(tt, open, q)
           /\ Named(ss, pl, q) => Named(tt, pl, q)
<1>1. Connected(tt) = Connected(ss) /\ Connected(ss) \subseteq DOMAIN ss
  BY DEF Connected
<1>2. Owned(ss, open, q) => Owned(tt, open, q)
  BY <1>1 DEF Owned
<1>3. Named(ss, pl, q) => Named(tt, pl, q)
  BY <1>1 DEF Named
<1> QED BY <1>1, <1>2, <1>3

\* Disconnect closes handles of sessions it disconnects and of no others; a
\* session it cannot disconnect is one whose other end has gone.
LEMMA Disconnected ==
    ASSUME NEW S, NEW after, NEW named, NEW peers, NEW q,
           \A o \in DOMAIN after : after[o] \in Sessions,
           S \subseteq Connected(after),
           Owned(after, DOMAIN peers, q), Named(after, named, q),
           Disconnect(S, after, named, peers)
    PROVE  /\ Live' = DOMAIN after
           /\ \A o \in Live' : /\ session'[o] \in Sessions
                               /\ session'[o].sock = after[o].sock
                               /\ session'[o].ops = after[o].ops
           /\ \A o \in Up' : /\ after[o].up /\ after[o].sock \in Open'
                             /\ o \in S => Gone(after[o].sock)
           /\ Open' \subseteq DOMAIN peers
           /\ \A h \in Open' : peer'[h] = peers[h]
           /\ players' \subseteq named
           /\ Owned(session', Open', q) /\ Named(session', players', q)
<1>1. PICK kept \in SUBSET S :
        /\ kept # {} => \A o \in kept : Gone(after[o].sock)
        /\ session' = [o \in DOMAIN after |->
                         IF o \in S \ kept THEN [after[o] EXCEPT !.up = FALSE]
                                           ELSE after[o]]
        /\ peer' = Without(peers, {after[o].sock : o \in S \ kept})
        /\ players' = named \ {after[o].id : o \in S \ kept}
  BY DEF Disconnect
<1> DEFINE closed == S \ kept
<1>2. /\ DOMAIN session' = DOMAIN after
      /\ \A o \in DOMAIN after : /\ session'[o] \in Sessions
                                 /\ session'[o].sock = after[o].sock
                                 /\ session'[o].id = after[o].id
                                 /\ session'[o].ops = after[o].ops
                                 /\ session'[o].up = (after[o].up /\ o \notin closed)
  BY <1>1 DEF Sessions
<1>3. Connected(session') = Connected(after) \ closed /\ Up' = Connected(session')
  BY <1>2 DEF Connected, Up, Live
<1>4. /\ Open' = DOMAIN peers \ {after[o].sock : o \in closed}
      /\ \A h \in Open' : peer'[h] = peers[h]
  BY <1>1 DEF Without, Open
<1>5. closed \subseteq Connected(after) /\ Connected(after) \subseteq DOMAIN after
  BY DEF Connected
<1>6. Owned(session', Open', q)
  <2> HIDE DEF closed
  <2>1. \A o, p \in Connected(session') : o # p => session'[o].sock # session'[p].sock
    BY <1>2, <1>3, <1>5 DEF Owned
  <2>2. \A o \in Connected(session') : /\ session'[o].sock \in Open'
                                       /\ session'[o].sock \notin ToSet(q)
    BY <1>2, <1>3, <1>4, <1>5 DEF Owned
  <2>3. ToSet(q) \subseteq Open'
    BY <1>4, <1>5 DEF Owned
  <2>4. \A h \in Open' : h \in ToSet(q) \/ \E o \in Connected(session') : session'[o].sock = h
    BY <1>2, <1>3, <1>4, <1>5 DEF Owned
  <2> QED BY <2>1, <2>2, <2>3, <2>4 DEF Owned
<1>7. Named(session', players', q)
  <2> HIDE DEF closed
  <2>0. players' = named \ {after[o].id : o \in closed}
    BY <1>1 DEF closed
  <2>1. players' \subseteq {session'[o].id : o \in Connected(session')}
    BY <1>2, <1>3, <1>5, <2>0 DEF Named
  <2>2. ASSUME SerialLogin
        PROVE  \A o, p \in Connected(session') : o # p => session'[o].id # session'[p].id
    BY <1>2, <1>3, <1>5, <2>2 DEF Named
  <2>3. ASSUME SerialLogin
        PROVE  q # << >> => \A o \in Connected(session') : session'[o].id \in players'
    BY <1>2, <1>3, <1>5, <2>0, <2>3 DEF Named
  <2> QED BY <2>1, <2>2, <2>3 DEF Named
<1>8. \A o \in Up' : /\ after[o].up /\ after[o].sock \in Open'
                     /\ o \in S => Gone(after[o].sock)
  BY <1>1, <1>2, <1>3, <1>5, <1>6 DEF Owned, Connected
<1> QED BY <1>1, <1>2, <1>3, <1>4, <1>6, <1>7, <1>8 DEF Live

------------------------------------------------------------------------------
(* Each step preserves the invariant. *)

LEMMA LifeInit == Init => LifeInv
<1> SUFFICES ASSUME Init PROVE LifeInv
  OBVIOUS
<1> USE DEF Init
<1>1. Live = {} /\ Up = {} /\ Open = {} /\ Connected(session) = {} /\ DOMAIN list = {}
  BY EmptyFunction DEF Live, Up, Open, Connected
<1>2. TypeOK
  BY <1>1, EmptySeq DEF TypeOK
<1>3. OperationsCounted
  BY <1>1, <1>2, EmptySeq DEF OperationsCounted
<1>4. Bounded
  BY <1>1, EmptyFunction, EmptySeq, FS_EmptySet DEF Bounded
<1>5. PoolIntact
  BY <1>1, EmptyFunction DEF PoolIntact
<1>6. ListSound /\ Listening
  BY <1>1 DEF ListSound, Listening
<1>7. Owned(session, Open, pending) /\ Named(session, players, pending)
  BY <1>1, EmptyFunction, EmptySeq DEF Owned, Named
<1> QED BY <1>3, <1>4, <1>5, <1>6, <1>7 DEF LifeInv

LEMMA ArriveKeeps ==
    ASSUME LifeInv, NEW h \in Handle, Arrive(h)
    PROVE  LifeInv'
<1> USE DEF pool
<1>1. /\ arrived' = arrived + 1 /\ arrived < MaxArrivals /\ h \notin Open
      /\ peer' = With(peer, h, [gone |-> FALSE, named |-> TRUE])
      /\ pending' = Append(pending, h)
      /\ SerialLogin => pending = << >> /\ \A o \in Up : session[o].id \in players
      /\ UNCHANGED <<phase, session, list, pool, players, posted>>
  BY DEF Arrive
<1>2. TypeOK /\ pending \in Seq(Handle) /\ IsInjective(pending)
  BY DEF LifeInv, OperationsCounted, TypeOK, Bounded
<1>3. h \notin ToSet(pending)
  BY <1>1 DEF LifeInv, Owned
<1>4. /\ pending' \in Seq(Handle) /\ Len(pending') = Len(pending) + 1 /\ IsInjective(pending')
      /\ ToSet(pending') = ToSet(pending) \cup {h}
  BY <1>1, <1>2, <1>3, PutLast
<1>5. /\ Open' = Open \cup {h} /\ \A g \in Open : peer'[g] = peer[g]
      /\ peer'[h] = [gone |-> FALSE, named |-> TRUE]
  BY <1>1 DEF With, Open
<1>6. Live' = Live /\ Up' = Up
  BY <1>1 DEF Live, Up
<1>7. TypeOK'
  <2>1. arrived' \in 0 .. MaxArrivals
    BY <1>1, <1>2 DEF TypeOK
  <2>2. Open' \subseteq Handle
    BY <1>2, <1>5 DEF TypeOK
  <2>3. \A g \in Open' : peer'[g] \in [gone : BOOLEAN, named : BOOLEAN]
    <3>1. [gone |-> FALSE, named |-> TRUE] \in [gone : BOOLEAN, named : BOOLEAN]
      OBVIOUS
    <3> QED BY <1>2, <1>5, <3>1, Zenon DEF TypeOK
  <2> QED BY <1>1, <1>2, <1>4, <1>6, <2>1, <2>2, <2>3 DEF TypeOK
<1>8. OperationsCounted'
  BY <1>1, <1>6, <1>7 DEF LifeInv, OperationsCounted
<1>9. Bounded'
  <2>1. Cardinality(Live) \in Nat /\ Len(pending) \in Nat /\ arrived \in Nat
    BY <1>2, LiveFinite, LenProperties DEF TypeOK
  <2> QED BY <1>1, <1>4, <1>6, <2>1 DEF LifeInv, Bounded
<1>10. PoolIntact' /\ ListSound'
  BY <1>1, <1>6 DEF LifeInv, PoolIntact, ListSound
<1>11. \A o \in Up : session[o].sock \in Open /\ session[o].sock # h
  BY <1>1 DEF LifeInv, Owned, Up, Connected, Live
<1>12. Listening'
  BY <1>1, <1>5, <1>6, <1>11 DEF LifeInv, Listening, Gone
<1>13. Owned(session', Open', pending')
  <2>1. Connected(session) = Up
    BY DEF Connected, Up, Live
  <2> QED BY <1>1, <1>4, <1>5, <1>11, <2>1 DEF LifeInv, Owned
<1>14. Named(session', players', pending')
  <2>1. Connected(session) = Up
    BY DEF Connected, Up, Live
  <2>2. pending = << >> => Len(pending') = 1
    BY <1>4, EmptySeq
  <2> QED BY <1>1, <2>1, <2>2 DEF LifeInv, Named
<1> QED BY <1>8, <1>9, <1>10, <1>12, <1>13, <1>14 DEF LifeInv

LEMMA PeerLeavesKeeps ==
    ASSUME LifeInv, NEW h \in Handle, PeerLeaves(h)
    PROVE  LifeInv'
<1> USE DEF pool
<1>1. PICK named \in {FALSE, peer[h].named} :
        /\ h \in Open /\ peer' = [peer EXCEPT ![h] = [gone |-> TRUE, named |-> named]]
        /\ UNCHANGED <<phase, pending, arrived, session, list, pool, players, posted>>
  BY DEF PeerLeaves
<1>2. /\ Open' = Open /\ Live' = Live /\ Up' = Up
      /\ \A g \in Open : peer'[g] = IF g = h THEN [gone |-> TRUE, named |-> named] ELSE peer[g]
  BY <1>1 DEF Open, Live, Up
<1>3. TypeOK'
  <2>1. TypeOK /\ named \in BOOLEAN
    BY <1>1 DEF LifeInv, OperationsCounted, TypeOK
  <2> QED BY <1>1, <1>2, <2>1 DEF TypeOK
<1>4. OperationsCounted'
  BY <1>1, <1>2, <1>3 DEF LifeInv, OperationsCounted
<1>5. Bounded' /\ PoolIntact' /\ ListSound'
  BY <1>1, <1>2 DEF LifeInv, Bounded, PoolIntact, ListSound
<1>6. Listening'
  BY <1>1, <1>2 DEF LifeInv, Listening, Gone
<1>7. Owned(session', Open', pending') /\ Named(session', players', pending')
  BY <1>1, <1>2 DEF LifeInv
<1> QED BY <1>4, <1>5, <1>6, <1>7 DEF LifeInv

LEMMA AcceptKeeps ==
    ASSUME LifeInv, Accept
    PROVE  LifeInv'
<1> DEFINE h == Head(pending)  o == Head(Available)  s == NewSession(h)
<1> USE DEF pool
<1>1. /\ TypeOK /\ Bounded /\ PoolIntact /\ OperationsCounted
      /\ pending \in Seq(Handle) /\ pending # << >> /\ IsInjective(pending)
      /\ freeList \in Seq(Address) /\ made \in Nat /\ arrived \in 0 .. MaxArrivals
      /\ Live \subseteq Address
  BY DEF Accept, LifeInv, OperationsCounted, TypeOK, Bounded
<1>2. /\ h \in Handle /\ Tail(pending) \in Seq(Handle) /\ Len(Tail(pending)) = Len(pending) - 1
      /\ IsInjective(Tail(pending)) /\ h \notin ToSet(Tail(pending))
      /\ ToSet(pending) = {h} \cup ToSet(Tail(pending)) /\ Len(pending) \in Nat \ {0}
  BY <1>1, TakeHead, EmptySeq
<1>3. Cardinality(Live) \in Nat /\ IsFiniteSet(Live) /\ Cardinality(Live) < MaxArrivals
  BY <1>1, <1>2, LiveFinite DEF Bounded
<1>4. /\ s \in Sessions /\ s.sock = h /\ s.id = UnusedNumber /\ s.up /\ s.ops = 0
      /\ UnusedNumber \notin players
  <2>1. Up = Connected(session)
    BY DEF Up, Live, Connected
  <2>2. UnusedNumber \in PlayerNumber /\ UnusedNumber \notin players
    BY <1>1, <1>3, <2>1, NumberLeft DEF LifeInv, Named, TypeOK
  <2> QED BY <1>2, <2>2 DEF NewSession, Sessions
<1>5. /\ Available \in Seq(Address) /\ Available # << >> /\ IsInjective(Available)
      /\ made' \in Nat
      /\ ToSet(Available) \cap Live = {} /\ ToSet(Available) \cup Live = 1 .. made'
  <2>1. CASE freeList # << >>
    BY <1>1, <2>1 DEF Available, Accept, PoolIntact
  <2>2. CASE freeList = << >>
    <3>1. Live = 1 .. made
      BY <1>1, <2>2, EmptyFunction DEF PoolIntact
    <3>2. made < MaxArrivals
      BY <1>1, <1>3, <3>1, FS_Interval
    <3>3. Available = [i \in 1 .. Chunk |-> made + i] /\ made' = made + Chunk
      BY <2>2 DEF Available, Accept
    <3>4. \A i \in 1 .. Chunk : made + i \in Address
      BY <1>1, <3>2 DEF Address
    <3>5. Available \in Seq(Address) /\ Len(Available) = Chunk /\ DOMAIN Available = 1 .. Chunk
      BY <3>3, <3>4
    <3>6. Available # << >>
      BY <3>5, EmptySeq
    <3>7. IsInjective(Available)
      BY <1>1, <3>3 DEF IsInjective
    <3>8. ToSet(Available) = made + 1 .. made + Chunk
      <4>1. \A a \in made + 1 .. made + Chunk : a - made \in 1 .. Chunk /\ made + (a - made) = a
        BY <1>1
      <4>2. \A i \in 1 .. Chunk : made + i \in made + 1 .. made + Chunk
        BY <1>1
      <4> QED BY <3>3, <3>5, <4>1, <4>2 DEF ToSet
    <3>9. /\ made' \in Nat /\ ToSet(Available) \cap Live = {}
          /\ ToSet(Available) \cup Live = 1 .. made'
      <4>1. made \in Nat /\ made' = made + Chunk /\ Chunk \in Nat
        BY <1>1, <3>3
      <4>2. (made + 1 .. made + Chunk) \cap (1 .. made) = {}
        BY <4>1
      <4>3. (made + 1 .. made + Chunk) \cup (1 .. made) = 1 .. made + Chunk
        BY <4>1
      <4> QED BY <3>1, <3>8, <4>1, <4>2, <4>3
    <3> QED BY <3>5, <3>6, <3>7, <3>9
  <2> QED BY <2>1, <2>2
<1>6. /\ o \in Address /\ o \notin Live /\ Tail(Available) \in Seq(Address)
      /\ IsInjective(Tail(Available)) /\ o \notin ToSet(Tail(Available))
      /\ ToSet(Available) = {o} \cup ToSet(Tail(Available))
  BY <1>5, TakeHead
<1>7. PICK accepted \in BOOLEAN :
        /\ Accepts(s, accepted)
        /\ posted' = [posted EXCEPT ![o].recv = IF accepted THEN 1 ELSE 0]
        /\ Disconnect(IF accepted THEN {} ELSE {o},
                      With(session, o, PostRecv(s, accepted)), players, peer)
  BY DEF Accept
<1>8. /\ phase' = "apc" /\ pending' = Tail(pending) /\ arrived' = arrived
      /\ freeList' = Tail(Available) /\ listeners' = listeners \cup {o}
      /\ list' = Insert(h, o)
  BY DEF Accept
<1> DEFINE new == PostRecv(s, accepted)
           after == With(session, o, new)
           S == IF accepted THEN {} ELSE {o}
<1>9. /\ new \in Sessions /\ new.sock = h /\ new.id = UnusedNumber /\ new.up
      /\ new.ops = IF accepted THEN 1 ELSE 0
  BY <1>4 DEF PostRecv, Sessions
<1> HIDE DEF h, o, s, new
<1>10. /\ DOMAIN after = Live \cup {o} /\ after[o] = new
       /\ \A p \in Live : after[p] = session[p]
  BY <1>6 DEF With, Live
<1> HIDE DEF after
<1>11. Connected(after) = Connected(session) \cup {o} /\ Connected(session) \subseteq Live
  BY <1>6, <1>9, <1>10 DEF Connected, Live
<1>12. \A p \in DOMAIN after : after[p] \in Sessions
  BY <1>1, <1>9, <1>10 DEF TypeOK
<1>13. Owned(after, DOMAIN peer, Tail(pending))
  <2>1. Owned(session, Open, pending)
    BY DEF LifeInv
  <2>2. \A p \in Connected(session) : p \in Live /\ after[p] = session[p]
                                      /\ session[p].sock # h
    BY <1>2, <1>10, <1>11, <2>1 DEF Owned
  <2>3. after[o].sock = h
    BY <1>9, <1>10
  <2>4. \A p, q \in Connected(after) : p # q => after[p].sock # after[q].sock
    BY <1>6, <1>11, <2>1, <2>2, <2>3 DEF Owned
  <2>5. \A p \in Connected(after) : after[p].sock \notin ToSet(Tail(pending))
    BY <1>2, <1>11, <2>1, <2>2, <2>3 DEF Owned
  <2>6. {after[p].sock : p \in Connected(after)}
          = {session[p].sock : p \in Connected(session)} \cup {h}
    BY <1>11, <2>2, <2>3
  <2>7. DOMAIN peer = {after[p].sock : p \in Connected(after)} \cup ToSet(Tail(pending))
    BY <1>2, <2>1, <2>6 DEF Owned, Open
  <2> QED BY <2>4, <2>5, <2>7 DEF Owned
<1>14. Named(after, players, Tail(pending))
  <2>1. Named(session, players, pending)
    BY DEF LifeInv
  <2>2. \A p \in Connected(session) : after[p] = session[p] /\ p \in Connected(after)
    BY <1>10, <1>11
  <2>3. after[o].id = UnusedNumber
    BY <1>9, <1>10
  <2>4. players \subseteq {after[p].id : p \in Connected(after)}
    BY <2>1, <2>2 DEF Named
  <2>5. ASSUME SerialLogin
        PROVE  /\ Tail(pending) = << >>
               /\ \A p \in Connected(session) : session[p].id \in players
    BY <1>1, <1>2, <2>1, <2>5, EmptySeq DEF Named
  <2>6. ASSUME SerialLogin
        PROVE  \A p, q \in Connected(after) : p # q => after[p].id # after[q].id
    BY <1>4, <1>11, <2>1, <2>2, <2>3, <2>5, <2>6 DEF Named
  <2>7. ASSUME SerialLogin PROVE Len(Tail(pending)) <= 1
    BY <1>1, <1>2, <2>1, <2>7 DEF Named
  <2> QED BY <2>4, <2>5, <2>6, <2>7 DEF Named
<1>15. S \subseteq Connected(after) /\ Disconnect(S, after, players, peer)
  BY <1>7, <1>11 DEF after, new
<1>16. /\ Live' = DOMAIN after
       /\ \A p \in Live' : /\ session'[p] \in Sessions
                           /\ session'[p].sock = after[p].sock
                           /\ session'[p].ops = after[p].ops
       /\ \A p \in Up' : /\ after[p].up /\ after[p].sock \in Open'
                         /\ p \in S => Gone(after[p].sock)
       /\ Open' \subseteq DOMAIN peer
       /\ \A g \in Open' : peer'[g] = peer[g]
       /\ players' \subseteq players
       /\ Owned(session', Open', Tail(pending)) /\ Named(session', players', Tail(pending))
  <2> HIDE DEF S
  <2> QED BY <1>12, <1>13, <1>14, <1>15, Disconnected
<1>17. Live' = Live \cup {o} /\ Open' \subseteq Open
  BY <1>10, <1>16 DEF Open
<1>18. \A p \in Address : posted'[p] = IF p = o
            THEN [posted[o] EXCEPT !.recv = IF accepted THEN 1 ELSE 0] ELSE posted[p]
  BY <1>1, <1>7 DEF TypeOK
<1>19. posted[o].recv = 0 /\ posted[o].sends = << >>
  BY <1>1, <1>6 DEF OperationsCounted
<1>20. TypeOK'
  <2>1. pending' \in Seq(Handle) /\ arrived' \in 0 .. MaxArrivals
    BY <1>1, <1>2, <1>8
  <2>2. /\ Open' \subseteq Handle
        /\ \A g \in Open' : peer'[g] \in [gone : BOOLEAN, named : BOOLEAN]
    BY <1>1, <1>16, <1>17 DEF TypeOK
  <2>3. DOMAIN list' \subseteq Handle
    BY <1>1, <1>2, <1>8 DEF Insert, With, TypeOK
  <2>4. Live' \subseteq Address /\ \A p \in Live' : session'[p] \in Sessions
    BY <1>1, <1>6, <1>16, <1>17
  <2>5. players' \subseteq PlayerNumber
    BY <1>1, <1>16 DEF TypeOK
  <2>6. posted' \in [Address -> [recv : {0, 1}, sends : Seq(Nat)]]
    BY <1>1, <1>6, <1>7 DEF TypeOK
  <2> QED BY <1>8, <2>1, <2>2, <2>3, <2>4, <2>5, <2>6 DEF TypeOK
<1>21. OperationsCounted'
  <2>1. session'[o].ops = posted'[o].recv + Len(posted'[o].sends)
    <3>1. session'[o].ops = IF accepted THEN 1 ELSE 0
      BY <1>9, <1>10, <1>16
    <3>2. posted'[o].recv = (IF accepted THEN 1 ELSE 0) /\ posted'[o].sends = << >>
      BY <1>1, <1>6, <1>18, <1>19 DEF TypeOK
    <3> QED BY <3>1, <3>2, EmptySeq
  <2>2. \A p \in Live : session'[p].ops = posted'[p].recv + Len(posted'[p].sends)
    BY <1>1, <1>6, <1>10, <1>16, <1>18 DEF OperationsCounted
  <2>3. \A p \in Address \ Live' : posted'[p].recv = 0 /\ posted'[p].sends = << >>
    BY <1>1, <1>17, <1>18 DEF OperationsCounted
  <2> QED BY <1>17, <1>20, <2>1, <2>2, <2>3 DEF OperationsCounted
<1>22. Bounded'
  <2>1. Cardinality(Live') = Cardinality(Live) + 1
    BY <1>3, <1>6, <1>17, FS_AddElement
  <2>2. Cardinality(Live') + Len(pending') <= arrived'
    BY <1>1, <1>2, <1>3, <1>8, <2>1 DEF Bounded
  <2> QED BY <1>2, <1>5, <1>6, <1>8, <2>2 DEF Bounded
<1>23. PoolIntact'
  BY <1>1, <1>5, <1>6, <1>8, <1>17 DEF PoolIntact
<1>24. ListSound'
  <2>1. \A g \in DOMAIN list' : \/ g \in DOMAIN list /\ list'[g] = list[g]
                                \/ g = h /\ list'[g] = o
    BY <1>8 DEF Insert, With
  <2>2. \A p \in Live : p \in Live' /\ session'[p].sock = session[p].sock
    BY <1>10, <1>16, <1>17
  <2>3. o \in Live' /\ session'[o].sock = h
    BY <1>9, <1>10, <1>16, <1>17
  <2> QED BY <2>1, <2>2, <2>3 DEF LifeInv, ListSound
<1>25. Listening'
  <2> SUFFICES ASSUME NEW p \in Up'
               PROVE  posted'[p].recv = 1 \/ Gone(session[p].sock)'
    BY DEF Listening
  <2>1. /\ p \in Live' /\ after[p].up /\ after[p].sock \in Open'
        /\ session'[p].sock = after[p].sock
        /\ p \in S => Gone(after[p].sock)
    BY <1>16 DEF Up
  <2>2. Gone(after[p].sock) => Gone(session[p].sock)'
    BY <1>16, <2>1 DEF Gone
  <2>3. CASE p = o
    <3>1. CASE accepted
      BY <1>1, <1>6, <1>18, <2>3, <3>1 DEF TypeOK
    <3>2. CASE ~accepted
      BY <2>1, <2>2, <2>3, <3>2
    <3> QED BY <3>1, <3>2
  <2>4. CASE p # o
    <3>1. p \in Up /\ after[p] = session[p] /\ posted'[p] = posted[p]
      BY <1>1, <1>10, <1>17, <1>18, <2>1, <2>4 DEF Up
    <3> QED BY <2>2, <3>1 DEF LifeInv, Listening
  <2> QED BY <2>3, <2>4
<1> QED BY <1>8, <1>16, <1>21, <1>22, <1>23, <1>24, <1>25 DEF LifeInv

\* What a handler between the acceptance and the collection must see to.
LEMMA Settles ==
    ASSUME LifeInv, phase' \in {"apc", "period"},
           UNCHANGED <<pending, arrived, list, pool>>,
           posted' \in [Address -> [recv : {0, 1}, sends : Seq(Nat)]],
           \A o \in Address \ Live : posted'[o] = posted[o],
           Live' = Live,
           \A o \in Live : /\ session'[o] \in Sessions
                           /\ session'[o].sock = session[o].sock
                           /\ session'[o].ops = posted'[o].recv + Len(posted'[o].sends),
           Open' \subseteq Open,
           \A h \in Open' : /\ peer'[h] \in [gone : BOOLEAN, named : BOOLEAN]
                            /\ peer'[h].gone = peer[h].gone,
           players' \subseteq PlayerNumber,
           \A o \in Up' : posted'[o].recv = 1 \/ Gone(session[o].sock),
           Owned(session', Open', pending), Named(session', players', pending)
    PROVE  LifeInv'
<1> USE DEF pool
<1>1. TypeOK'
  BY DEF LifeInv, OperationsCounted, TypeOK
<1>2. OperationsCounted'
  BY <1>1 DEF LifeInv, OperationsCounted
<1>3. Bounded' /\ PoolIntact' /\ ListSound'
  BY DEF LifeInv, Bounded, PoolIntact, ListSound
<1>4. Listening'
  <2> SUFFICES ASSUME NEW o \in Up'
               PROVE  posted'[o].recv = 1 \/ Gone(session[o].sock)'
    BY DEF Listening
  <2>1. o \in Connected(session') /\ o \in Live /\ session'[o].sock = session[o].sock
    BY DEF Connected, Up, Live
  <2>2. session'[o].sock \in Open'
    BY <2>1 DEF Owned
  <2>3. Gone(session[o].sock) => Gone(session[o].sock)'
    BY <2>1, <2>2 DEF Gone
  <2> QED BY <2>3
<1> QED BY <1>2, <1>3, <1>4 DEF LifeInv

\* The same of a handler that disconnects the sessions of S at its end.
LEMMA SettlesDisconnecting ==
    ASSUME LifeInv, phase' \in {"apc", "period"},
           UNCHANGED <<pending, arrived, list, pool>>,
           posted' \in [Address -> [recv : {0, 1}, sends : Seq(Nat)]],
           \A o \in Address \ Live : posted'[o] = posted[o],
           NEW S, NEW after, NEW named, NEW peers, S \subseteq Connected(after),
           Disconnect(S, after, named, peers),
           DOMAIN after = Live,
           \A o \in Live : /\ after[o] \in Sessions
                           /\ after[o].sock = session[o].sock
                           /\ after[o].id = session[o].id /\ after[o].up = session[o].up
                           /\ after[o].ops = posted'[o].recv + Len(posted'[o].sends),
           DOMAIN peers = Open,
           \A h \in Open : /\ peers[h] \in [gone : BOOLEAN, named : BOOLEAN]
                           /\ peers[h].gone = peer[h].gone,
           named \subseteq PlayerNumber, Named(session, named, pending),
           \A o \in Up \ S : posted'[o].recv = 1 \/ Gone(session[o].sock)
    PROVE  LifeInv'
<1>1. Owned(session, Open, pending)
  BY DEF LifeInv
<1>2. Owned(after, DOMAIN peers, pending) /\ Named(after, named, pending)
  BY <1>1, Alike DEF Live
<1>3. /\ Live' = DOMAIN after
      /\ \A o \in Live' : /\ session'[o] \in Sessions
                          /\ session'[o].sock = after[o].sock
                          /\ session'[o].ops = after[o].ops
      /\ \A o \in Up' : /\ after[o].up /\ after[o].sock \in Open'
                        /\ o \in S => Gone(after[o].sock)
      /\ Open' \subseteq DOMAIN peers
      /\ \A h \in Open' : peer'[h] = peers[h]
      /\ players' \subseteq named
      /\ Owned(session', Open', pending) /\ Named(session', players', pending)
  BY <1>2, Disconnected
<1>4. \A o \in Up' : posted'[o].recv = 1 \/ Gone(session[o].sock)
  BY <1>3 DEF Up
<1> QED BY <1>3, <1>4, Settles

\* PostRecv counts the receive it has posted.
LEMMA PostRecvCounts ==
    ASSUME NEW t \in Sessions, NEW accepted \in BOOLEAN
    PROVE  LET new == PostRecv(t, accepted) IN
             /\ new \in Sessions /\ new.sock = t.sock /\ new.id = t.id /\ new.up = t.up
             /\ new.ops = t.ops + (IF accepted THEN 1 ELSE 0)
<1>1. CASE accepted
  BY <1>1 DEF PostRecv, Sessions
<1>2. CASE ~accepted
  BY <1>2 DEF PostRecv, Sessions
<1> QED BY <1>1, <1>2

LEMMA RecvCompletionKeeps ==
    ASSUME LifeInv, NEW o \in Address, RecvCompletion(o)
    PROVE  LifeInv'
<1> DEFINE s == Completed(o)
<1>1. /\ phase = "apc" /\ phase' = "apc" /\ posted[o].recv > 0
      /\ UNCHANGED <<pending, arrived, list, pool>>
  BY DEF RecvCompletion
<1>2. /\ TypeOK /\ OperationsCounted /\ Owned(session, Open, pending)
      /\ Named(session, players, pending)
  BY DEF LifeInv, OperationsCounted
<1>3. /\ o \in Live /\ posted[o].recv = 1 /\ session[o] \in Sessions
      /\ posted[o] \in [recv : {0, 1}, sends : Seq(Nat)]
      /\ session[o].ops = 1 + Len(posted[o].sends) /\ Len(posted[o].sends) \in Nat
  BY <1>1, <1>2, LenProperties DEF OperationsCounted, TypeOK
<1>4. /\ s \in Sessions /\ s.sock = session[o].sock /\ s.id = session[o].id
      /\ s.up = session[o].up /\ s.ops = Len(posted[o].sends) /\ s.out = session[o].out
  BY <1>3 DEF Completed, Sessions
<1>5. s.id \in PlayerNumber /\ (s.up => o \in Connected(session) /\ s.sock \in Open)
  BY <1>2, <1>3, <1>4 DEF Sessions, Connected, Owned, Live
<1> HIDE DEF s
<1> DEFINE Taken(n) == [posted EXCEPT ![o].recv = n]
<1>6. ASSUME NEW n \in {0, 1}
      PROVE  /\ Taken(n) \in [Address -> [recv : {0, 1}, sends : Seq(Nat)]]
             /\ Taken(n)[o].recv = n /\ Taken(n)[o].sends = posted[o].sends
             /\ \A p \in Address \ {o} : Taken(n)[p] = posted[p]
  BY <1>2, <1>3 DEF TypeOK
<1>7. CASE /\ ~s.up /\ session' = [session EXCEPT ![o] = s]
           /\ posted' = Taken(0) /\ UNCHANGED <<peer, players>>
  <2>1. /\ Live' = Live /\ Open' = Open
        /\ \A p \in Live : session'[p] = IF p = o THEN s ELSE session[p]
    BY <1>7 DEF Live, Open
  <2>2. Owned(session', Open', pending) /\ Named(session', players', pending)
    BY <1>2, <1>4, <1>7, <2>1, Alike DEF Live
  <2>3. \A p \in Live : /\ session'[p] \in Sessions /\ session'[p].sock = session[p].sock
                        /\ session'[p].ops = posted'[p].recv + Len(posted'[p].sends)
    BY <1>2, <1>3, <1>4, <1>6, <1>7, <2>1 DEF OperationsCounted, TypeOK
  <2>4. \A p \in Up' : posted'[p].recv = 1 \/ Gone(session[p].sock)
    <3>1. \A p \in Up' : p \in Up /\ p # o /\ p \in Address
      BY <1>2, <1>7, <2>1 DEF Up, TypeOK
    <3> QED BY <1>6, <1>7, <3>1 DEF LifeInv, Listening
  <2>5. /\ posted' \in [Address -> [recv : {0, 1}, sends : Seq(Nat)]]
        /\ \A p \in Address \ Live : posted'[p] = posted[p]
    BY <1>3, <1>6, <1>7
  <2>6. /\ players' \subseteq PlayerNumber
        /\ \A h \in Open' : /\ peer'[h] \in [gone : BOOLEAN, named : BOOLEAN]
                            /\ peer'[h].gone = peer[h].gone
    BY <1>2, <1>7, <2>1 DEF TypeOK
  <2> QED BY <1>1, <2>1, <2>2, <2>3, <2>4, <2>5, <2>6, Settles
<1>8. CASE /\ s.up /\ Gone(s.sock) /\ posted' = Taken(0)
           /\ Disconnect({o}, [session EXCEPT ![o] = s], players, peer)
  <2> DEFINE after == [session EXCEPT ![o] = s]
  <2>1. DOMAIN after = Live /\ \A p \in Live : after[p] = IF p = o THEN s ELSE session[p]
    BY DEF Live
  <2>2. \A p \in Live : /\ after[p] \in Sessions /\ after[p].sock = session[p].sock
                        /\ after[p].id = session[p].id /\ after[p].up = session[p].up
                        /\ after[p].ops = posted'[p].recv + Len(posted'[p].sends)
    <3> HIDE DEF after
    <3> TAKE p \in Live
    <3>1. p \in Address /\ session[p] \in Sessions
          /\ session[p].ops = posted[p].recv + Len(posted[p].sends)
      BY <1>2 DEF OperationsCounted, TypeOK
    <3>2. CASE p = o
      <4>1. posted'[p].recv = 0 /\ posted'[p].sends = posted[p].sends /\ after[p] = s
        BY <1>6, <1>8, <2>1, <3>2
      <4> QED BY <1>3, <1>4, <3>2, <4>1
    <3>3. CASE p # o
      <4>1. posted'[p] = posted[p] /\ after[p] = session[p]
        BY <1>6, <1>8, <2>1, <3>1, <3>3
      <4> QED BY <3>1, <4>1
    <3> QED BY <3>2, <3>3
  <2>3. /\ posted' \in [Address -> [recv : {0, 1}, sends : Seq(Nat)]]
        /\ \A p \in Address \ Live : posted'[p] = posted[p]
    BY <1>3, <1>6, <1>8
  <2>4. {o} \subseteq Connected(after)
    BY <1>3, <1>8, <2>1 DEF Connected
  <2>5. \A p \in Up \ {o} : posted'[p].recv = 1 \/ Gone(session[p].sock)
    <3>1. \A p \in Up \ {o} : posted'[p] = posted[p]
      BY <1>2, <1>6, <1>8 DEF Up, TypeOK
    <3> QED BY <3>1 DEF LifeInv, Listening
  <2>6. /\ players \subseteq PlayerNumber /\ DOMAIN peer = Open
        /\ \A h \in Open : peer[h] \in [gone : BOOLEAN, named : BOOLEAN]
    BY <1>2 DEF TypeOK, Open
  <2> HIDE DEF after
  <2>7. Disconnect({o}, after, players, peer)
    BY <1>8 DEF after
  <2> QED BY <1>1, <1>2, <2>1, <2>2, <2>3, <2>4, <2>5, <2>6, <2>7, SettlesDisconnecting
<1>9. CASE /\ s.up /\ peer[s.sock].named
           /\ \E accepted \in BOOLEAN :
                 /\ Accepts(s, accepted)
                 /\ posted' = Taken(IF accepted THEN 1 ELSE 0)
                 /\ Disconnect(
                       IF accepted THEN {} ELSE {o},
                       NotifyOk([session EXCEPT ![o] = PostRecv(s, accepted)], s.id),
                       players \cup {s.id}, [peer EXCEPT ![s.sock].named = FALSE])
  <2>1. PICK accepted \in BOOLEAN :
          /\ posted' = Taken(IF accepted THEN 1 ELSE 0)
          /\ Disconnect(
                IF accepted THEN {} ELSE {o},
                NotifyOk([session EXCEPT ![o] = PostRecv(s, accepted)], s.id),
                players \cup {s.id}, [peer EXCEPT ![s.sock].named = FALSE])
    BY <1>9
  <2> DEFINE n == IF accepted THEN 1 ELSE 0
             S == IF accepted THEN {} ELSE {o}
             new == PostRecv(s, accepted)
             mid == [session EXCEPT ![o] = new]
             after == NotifyOk(mid, s.id)
             named == players \cup {s.id}
             peers == [peer EXCEPT ![s.sock].named = FALSE]
  <2>2. /\ new \in Sessions /\ new.sock = s.sock /\ new.id = s.id /\ new.up = s.up
        /\ new.ops = s.ops + n
    BY <1>4, PostRecvCounts
  <2> HIDE DEF new
  <2>3. /\ DOMAIN mid = Live
        /\ \A p \in Live : /\ mid[p] = IF p = o THEN new ELSE session[p]
                           /\ mid[p] \in Sessions
    BY <1>2, <2>2 DEF Live, TypeOK
  <2> HIDE DEF mid
  <2>4. /\ DOMAIN after = Live
        /\ \A p \in Live : /\ after[p] \in Sessions /\ after[p].sock = mid[p].sock
                           /\ after[p].id = mid[p].id /\ after[p].up = mid[p].up
                           /\ after[p].ops = mid[p].ops
    BY <2>3 DEF NotifyOk, Sessions
  <2> HIDE DEF after
  <2>5. /\ posted' \in [Address -> [recv : {0, 1}, sends : Seq(Nat)]]
        /\ posted'[o].recv = n /\ posted'[o].sends = posted[o].sends
        /\ \A p \in Address \ {o} : posted'[p] = posted[p]
    <3>1. n \in {0, 1}
      OBVIOUS
    <3> HIDE DEF n, Taken
    <3> QED BY <1>6, <2>1, <3>1 DEF n
  <2>6. \A p \in Live : /\ after[p] \in Sessions /\ after[p].sock = session[p].sock
                        /\ after[p].id = session[p].id /\ after[p].up = session[p].up
                        /\ after[p].ops = posted'[p].recv + Len(posted'[p].sends)
    <3> TAKE p \in Live
    <3> HIDE DEF n, S, named, peers, Taken
    <3>1. p \in Address /\ session[p] \in Sessions
          /\ session[p].ops = posted[p].recv + Len(posted[p].sends)
      BY <1>2 DEF OperationsCounted, TypeOK
    <3>2. CASE p = o
      <4>1. n \in Nat
        BY DEF n
      <4>2. after[o].ops = n + Len(posted[o].sends)
        BY <1>3, <1>4, <2>2, <2>3, <2>4, <4>1
      <4>3. after[o].ops = posted'[o].recv + Len(posted'[o].sends)
        BY <2>5, <4>2
      <4> QED BY <1>3, <1>4, <2>2, <2>3, <2>4, <3>2, <4>3
    <3>3. CASE p # o
      <4>1. posted'[p] = posted[p] /\ mid[p] = session[p]
        BY <2>3, <2>5, <3>1, <3>3
      <4> QED BY <2>4, <3>1, <4>1
    <3> QED BY <3>2, <3>3
  <2>7. /\ S \subseteq Connected(after) /\ S \subseteq {o}
        /\ accepted => n = 1
        /\ ~accepted => o \in S
    BY <1>3, <1>4, <1>9, <2>4, <2>6 DEF Connected
  <2>8. \A p \in Up \ S : posted'[p].recv = 1 \/ Gone(session[p].sock)
    <3> SUFFICES ASSUME NEW p \in Up, p \notin S
                 PROVE  posted'[p].recv = 1 \/ Gone(session[p].sock)
      OBVIOUS
    <3>1. CASE p = o
      BY <2>5, <2>7, <3>1
    <3>2. CASE p # o
      <4>1. posted'[p] = posted[p]
        BY <1>2, <2>5, <3>2 DEF Up, TypeOK
      <4> QED BY <4>1 DEF LifeInv, Listening
    <3> QED BY <3>1, <3>2
  <2>9. named \subseteq PlayerNumber /\ Named(session, named, pending)
    <3>1. o \in Connected(session) /\ s.id = session[o].id
      BY <1>3, <1>4, <1>9 DEF Connected, Live
    <3> QED BY <1>2, <1>5, <3>1 DEF Named, TypeOK
  <2>10. /\ DOMAIN peers = Open
         /\ \A h \in Open : /\ peers[h] \in [gone : BOOLEAN, named : BOOLEAN]
                            /\ peers[h].gone = peer[h].gone
    BY <1>2, <1>5, <1>9 DEF TypeOK, Open
  <2>11. \A p \in Address \ Live : posted'[p] = posted[p]
    BY <1>3, <2>5
  <2>12. Disconnect(S, after, named, peers)
    BY <2>1 DEF after, mid, new
  <2> HIDE DEF S, named, peers
  <2> QED BY <1>1, <2>4, <2>5, <2>6, <2>7, <2>8, <2>9, <2>10, <2>11, <2>12,
             SettlesDisconnecting
<1> QED BY <1>7, <1>8, <1>9 DEF RecvCompletion, s

\* A completion is counted; and what was sent is taken out, if it is there.
LEMMA CompletedCounts ==
    ASSUME NEW o, session[o] \in Sessions, session[o].ops \in Nat \ {0}
    PROVE  /\ Completed(o) \in Sessions
           /\ Completed(o).sock = session[o].sock /\ Completed(o).id = session[o].id
           /\ Completed(o).up = session[o].up /\ Completed(o).ops = session[o].ops - 1
<1>1. session[o].ops - 1 \in Nat
  OBVIOUS
<1> QED BY <1>1 DEF Completed, Sessions

LEMMA TakenOut ==
    ASSUME NEW t \in Sessions, NEW n \in Nat
    PROVE  LET sent == [t EXCEPT !.out = IF @ > n THEN @ - n ELSE 0] IN
             /\ sent \in Sessions /\ sent.sock = t.sock /\ sent.id = t.id
             /\ sent.up = t.up /\ sent.ops = t.ops
<1>1. t.out \in Nat
  BY DEF Sessions
<1>2. (IF t.out > n THEN t.out - n ELSE 0) \in Nat
  BY <1>1
<1> QED BY <1>2 DEF Sessions

LEMMA SendCompletionKeeps ==
    ASSUME LifeInv, NEW o \in Address, SendCompletion(o)
    PROVE  LifeInv'
<1> DEFINE s == Completed(o)
           len == Head(posted[o].sends)
           sent == [s EXCEPT !.out = IF @ > len THEN @ - len ELSE 0]
<1>1. /\ phase = "apc" /\ phase' = "apc" /\ posted[o].sends # << >>
      /\ posted' = [posted EXCEPT ![o].sends = Tail(@)]
      /\ UNCHANGED <<pending, arrived, list, pool>>
  BY DEF SendCompletion
<1>2. /\ TypeOK /\ OperationsCounted /\ Owned(session, Open, pending)
      /\ Named(session, players, pending)
  BY DEF LifeInv, OperationsCounted
<1>3. /\ o \in Live /\ session[o] \in Sessions
      /\ posted[o].sends \in Seq(Nat) /\ posted[o].recv \in {0, 1}
      /\ session[o].ops = posted[o].recv + Len(posted[o].sends)
  BY <1>1, <1>2 DEF OperationsCounted, TypeOK
<1>4. /\ len \in Nat /\ Tail(posted[o].sends) \in Seq(Nat)
      /\ Len(Tail(posted[o].sends)) = Len(posted[o].sends) - 1
      /\ Len(posted[o].sends) \in Nat \ {0}
      /\ posted[o].recv \in Nat /\ session[o].ops \in Nat \ {0}
  <2>1. Len(posted[o].sends) \in Nat \ {0}
    BY <1>1, <1>3, EmptySeq
  <2>2. posted[o].recv \in Nat
    BY <1>3
  <2>3. session[o].ops \in Nat \ {0}
    BY <1>3, <2>1, <2>2
  <2> QED BY <1>1, <1>3, <2>1, <2>2, <2>3, HeadTailProperties
<1>5. /\ s \in Sessions /\ s.sock = session[o].sock /\ s.id = session[o].id
      /\ s.up = session[o].up /\ s.ops = session[o].ops - 1
  BY <1>3, <1>4, CompletedCounts
<1>6. /\ posted' \in [Address -> [recv : {0, 1}, sends : Seq(Nat)]]
      /\ posted'[o].recv = posted[o].recv /\ posted'[o].sends = Tail(posted[o].sends)
      /\ \A p \in Address \ {o} : posted'[p] = posted[p]
  BY <1>1, <1>2, <1>4 DEF TypeOK
<1>7. /\ sent \in Sessions /\ sent.sock = s.sock /\ sent.id = s.id
      /\ sent.up = s.up /\ sent.ops = s.ops
  BY <1>4, <1>5, TakenOut
<1> HIDE DEF s, sent, len
<1>8. ASSUME NEW t \in {s, sent}
      PROVE  LET after == [session EXCEPT ![o] = t] IN
             /\ DOMAIN after = Live
             /\ \A p \in Live :
                  /\ after[p] \in Sessions /\ after[p].sock = session[p].sock
                  /\ after[p].id = session[p].id /\ after[p].up = session[p].up
                  /\ after[p].ops = posted'[p].recv + Len(posted'[p].sends)
  <2> DEFINE after == [session EXCEPT ![o] = t]
  <2>1. DOMAIN after = Live /\ \A p \in Live : after[p] = IF p = o THEN t ELSE session[p]
    BY DEF Live
  <2> HIDE DEF after
  <2>2. ASSUME NEW p \in Live
        PROVE  /\ after[p] \in Sessions /\ after[p].sock = session[p].sock
               /\ after[p].id = session[p].id /\ after[p].up = session[p].up
               /\ after[p].ops = posted'[p].recv + Len(posted'[p].sends)
    <3>1. /\ p \in Address /\ session[p] \in Sessions
          /\ session[p].ops = posted[p].recv + Len(posted[p].sends)
      BY <1>2 DEF OperationsCounted, TypeOK
    <3>2. CASE p = o
      <4>1. /\ t \in Sessions /\ t.sock = session[o].sock /\ t.id = session[o].id
            /\ t.up = session[o].up /\ t.ops = session[o].ops - 1
        BY <1>5, <1>7
      <4>2. t.ops = posted'[o].recv + Len(posted'[o].sends)
        BY <1>3, <1>4, <1>6, <4>1
      <4> QED BY <2>1, <3>2, <4>1, <4>2
    <3>3. CASE p # o
      <4>1. posted'[p] = posted[p] /\ after[p] = session[p]
        BY <1>6, <2>1, <3>1, <3>3
      <4> QED BY <3>1, <4>1
    <3> QED BY <3>2, <3>3
  <2> QED BY <2>1, <2>2 DEF after
<1>9. /\ \A p \in Address \ Live : posted'[p] = posted[p]
      /\ \A p \in Up : posted'[p].recv = 1 \/ Gone(session[p].sock)
  <2>1. \A p \in Address : posted'[p].recv = posted[p].recv
    BY <1>6
  <2>2. Up \subseteq Address
    BY <1>2 DEF Up, TypeOK
  <2> QED BY <1>3, <1>6, <2>1, <2>2 DEF LifeInv, Listening
<1>10. /\ players \subseteq PlayerNumber /\ DOMAIN peer = Open
       /\ \A h \in Open : peer[h] \in [gone : BOOLEAN, named : BOOLEAN]
  BY <1>2 DEF TypeOK, Open
<1>11. CASE /\ session' = [session EXCEPT ![o] = IF s.up THEN sent ELSE s]
            /\ UNCHANGED <<peer, players>>
  <2>1. PICK t \in {s, sent} : session' = [session EXCEPT ![o] = t]
    BY <1>11
  <2>2. /\ DOMAIN session' = Live
        /\ \A p \in Live :
             /\ session'[p] \in Sessions /\ session'[p].sock = session[p].sock
             /\ session'[p].id = session[p].id /\ session'[p].up = session[p].up
             /\ session'[p].ops = posted'[p].recv + Len(posted'[p].sends)
    BY <1>8, <2>1
  <2>3. Live' = Live /\ Open' = Open /\ Up' = Up
    BY <1>11, <2>2 DEF Live, Open, Up
  <2>4. Owned(session', Open', pending) /\ Named(session', players', pending)
    BY <1>2, <1>11, <2>2, <2>3, Alike DEF Live
  <2> QED BY <1>1, <1>6, <1>9, <1>10, <1>11, <2>2, <2>3, <2>4, Settles
<1>12. CASE /\ s.up /\ Gone(s.sock)
            /\ Disconnect({o}, [session EXCEPT ![o] = s], players, peer)
  <2> DEFINE after == [session EXCEPT ![o] = s]
  <2>1. /\ DOMAIN after = Live
        /\ \A p \in Live :
             /\ after[p] \in Sessions /\ after[p].sock = session[p].sock
             /\ after[p].id = session[p].id /\ after[p].up = session[p].up
             /\ after[p].ops = posted'[p].recv + Len(posted'[p].sends)
    BY <1>8
  <2>2. Disconnect({o}, after, players, peer)
    BY <1>12
  <2> HIDE DEF after
  <2>3. {o} \subseteq Connected(after)
    BY <1>3, <1>5, <1>12, <2>1 DEF Connected
  <2> QED BY <1>1, <1>2, <1>6, <1>9, <1>10, <2>1, <2>2, <2>3, SettlesDisconnecting
<1> QED BY <1>11, <1>12 DEF SendCompletion, s, sent, len

LEMMA FlushClientSendKeeps ==
    ASSUME LifeInv, FlushClientSend
    PROVE  LifeInv'
<1>1. PICK failed \in SUBSET {o \in Due : Gone(session[o].sock)} :
        LET sent == Due \ failed IN
        /\ posted' = [o \in Address |->
              IF o \in sent THEN [posted[o] EXCEPT !.sends = Append(@, session[o].out)]
                            ELSE posted[o]]
        /\ Disconnect(failed,
              [o \in Live |-> IF o \in sent THEN [session[o] EXCEPT !.ops = @ + 1]
                                            ELSE session[o]], players, peer)
  BY DEF FlushClientSend
<1> DEFINE sent == Due \ failed
           after == [o \in Live |-> IF o \in sent THEN [session[o] EXCEPT !.ops = @ + 1]
                                                  ELSE session[o]]
<1>2. /\ TypeOK /\ OperationsCounted /\ Owned(session, Open, pending)
      /\ Named(session, players, pending) /\ ListSound /\ Listening
  BY DEF LifeInv, OperationsCounted
<1>3. Due \subseteq Up /\ Up \subseteq Live /\ Live \subseteq Address
  BY <1>2 DEF Due, Up, Listed, ListSound, TypeOK
<1>4. sent \subseteq Up /\ failed \subseteq Up
  BY <1>3
<1>5. /\ posted' = [o \in Address |->
              IF o \in sent THEN [posted[o] EXCEPT !.sends = Append(@, session[o].out)]
                            ELSE posted[o]]
      /\ Disconnect(failed, after, players, peer)
  BY <1>1
<1> HIDE DEF sent, after
<1>6. ASSUME NEW o \in Address
      PROVE  /\ posted'[o] \in [recv : {0, 1}, sends : Seq(Nat)]
             /\ posted'[o].recv = posted[o].recv
             /\ o \notin sent => posted'[o] = posted[o]
             /\ o \in sent => Len(posted'[o].sends) = Len(posted[o].sends) + 1
  <2>1. CASE o \in sent
    <3>1. session[o].out \in Nat /\ posted[o] \in [recv : {0, 1}, sends : Seq(Nat)]
      BY <1>2, <1>3, <1>4, <2>1 DEF TypeOK, Sessions
    <3>2. /\ Append(posted[o].sends, session[o].out) \in Seq(Nat)
          /\ Len(Append(posted[o].sends, session[o].out)) = Len(posted[o].sends) + 1
      BY <3>1, AppendProperties
    <3>3. posted'[o] = [posted[o] EXCEPT !.sends = Append(posted[o].sends, session[o].out)]
      BY <1>5, <2>1
    <3> QED BY <2>1, <3>1, <3>2, <3>3
  <2>2. CASE o \notin sent
    BY <1>2, <1>5, <2>2 DEF TypeOK
  <2> QED BY <2>1, <2>2
<1>7. DOMAIN posted' = Address /\ posted' = [o \in Address |-> posted'[o]]
  BY <1>5
<1>8. posted' \in [Address -> [recv : {0, 1}, sends : Seq(Nat)]]
  BY <1>6, <1>7
<1>9. DOMAIN after = Live
  BY DEF after
<1>10. ASSUME NEW o \in Live
       PROVE  /\ after[o] \in Sessions /\ after[o].sock = session[o].sock
              /\ after[o].id = session[o].id /\ after[o].up = session[o].up
              /\ after[o].ops = posted'[o].recv + Len(posted'[o].sends)
  <2>1. /\ o \in Address /\ session[o] \in Sessions /\ session[o].ops \in Nat
        /\ session[o].ops = posted[o].recv + Len(posted[o].sends)
    BY <1>2 DEF OperationsCounted, TypeOK, Sessions
  <2>2. CASE o \in sent
    <3>1. after[o] = [session[o] EXCEPT !.ops = session[o].ops + 1]
      BY <2>2 DEF after
    <3>2. after[o].ops = session[o].ops + 1
      BY <2>1, <3>1 DEF Sessions
    <3>3. posted[o].recv \in Nat /\ Len(posted[o].sends) \in Nat
      BY <1>2, <2>1, LenProperties DEF TypeOK
    <3>4. after[o].ops = posted'[o].recv + Len(posted'[o].sends)
      BY <1>6, <2>1, <2>2, <3>2, <3>3
    <3> QED BY <2>1, <3>1, <3>4 DEF Sessions
  <2>3. CASE o \notin sent
    BY <1>6, <2>1, <2>3 DEF after
  <2> QED BY <2>2, <2>3
<1>11. failed \subseteq Connected(after)
  BY <1>4, <1>9, <1>10 DEF Connected, Up
<1>12. /\ \A o \in Address \ Live : posted'[o] = posted[o]
       /\ \A o \in Up \ failed : posted'[o].recv = 1 \/ Gone(session[o].sock)
  BY <1>2, <1>3, <1>4, <1>6 DEF Listening
<1>13. /\ players \subseteq PlayerNumber /\ DOMAIN peer = Open
       /\ \A h \in Open : peer[h] \in [gone : BOOLEAN, named : BOOLEAN]
  BY <1>2 DEF TypeOK, Open
<1>14. phase' \in {"apc", "period"} /\ UNCHANGED <<pending, arrived, list, pool>>
  BY DEF FlushClientSend
<1>15. \A o \in Live : /\ after[o] \in Sessions /\ after[o].sock = session[o].sock
                       /\ after[o].id = session[o].id /\ after[o].up = session[o].up
                       /\ after[o].ops = posted'[o].recv + Len(posted'[o].sends)
  BY <1>10
<1>16. Disconnect(failed, after, players, peer)
  BY <1>5
<1> QED BY <1>2, <1>8, <1>9, <1>11, <1>12, <1>13, <1>14, <1>15, <1>16, SettlesDisconnecting

\* Sessions with handles of their own have one order in the list: the place of
\* each is the number of smaller handles.
LEMMA OrderExists ==
    ASSUME NEW T, IsFiniteSet(T), \A o \in T : session[o].sock \in Nat,
           \A o, p \in T : o # p => session[o].sock # session[p].sock
    PROVE  InListOrder(T) # {}
<1> DEFINE n == Cardinality(T)
           Below(o) == {p \in T : session[p].sock < session[o].sock}
           rank == [o \in T |-> Cardinality(Below(o)) + 1]
<1>1. n \in Nat
  BY FS_CardinalityType
<1>2. ASSUME NEW o \in T
      PROVE  /\ IsFiniteSet(Below(o)) /\ Cardinality(Below(o)) \in Nat
             /\ Cardinality(Below(o)) < n
  <2>1. Below(o) \in SUBSET T /\ Below(o) # T
    OBVIOUS
  <2> HIDE DEF Below
  <2>2. /\ IsFiniteSet(Below(o)) /\ Cardinality(Below(o)) \in Nat
        /\ Cardinality(Below(o)) <= n /\ Cardinality(Below(o)) # n
    BY <2>1, FS_Subset, FS_CardinalityType
  <2> QED BY <1>1, <2>2
<1>3. ASSUME NEW o \in T, NEW p \in T, session[o].sock < session[p].sock
      PROVE  rank[o] < rank[p]
  <2>1. Below(o) \in SUBSET Below(p) /\ o \in Below(p) /\ o \notin Below(o)
    BY <1>3
  <2>2. /\ Cardinality(Below(o)) <= Cardinality(Below(p))
        /\ Cardinality(Below(o)) # Cardinality(Below(p))
    <3> HIDE DEF Below
    <3> QED BY <1>2, <2>1, FS_Subset
  <2>3. rank[o] = Cardinality(Below(o)) + 1 /\ rank[p] = Cardinality(Below(p)) + 1
    OBVIOUS
  <2> HIDE DEF Below, rank
  <2> QED BY <1>2, <2>2, <2>3
<1>4. rank \in [T -> 1 .. n]
  <2> HIDE DEF Below, n
  <2> QED BY <1>1, <1>2
<1> HIDE DEF rank
<1>5. rank \in Bijection(T, 1 .. n)
  <2>1. rank \in Injection(T, 1 .. n)
    <3>1. ASSUME NEW o \in T, NEW p \in T, rank[o] = rank[p]
          PROVE  o = p
      <4>1. rank[o] \in Nat /\ rank[p] \in Nat
        BY <1>1, <1>4
      <4>2. ~(session[o].sock < session[p].sock) /\ ~(session[p].sock < session[o].sock)
        BY <1>3, <3>1, <4>1
      <4> QED BY <4>2
    <3> QED BY <1>4, <3>1, Fun_IsInj
  <2>2. IsFiniteSet(1 .. n) /\ Cardinality(1 .. n) = n
    BY <1>1, FS_Interval
  <2>3. rank \in Surjection(T, 1 .. n)
    BY <2>1, <2>2, FS_Injection
  <2> QED BY <2>1, <2>3, Fun_IsBij
<1> DEFINE q == Inverse(rank, T, 1 .. n)
<1>6. q \in [1 .. n -> T] /\ \A i \in 1 .. n : rank[q[i]] = i
  <2>1. q \in Bijection(1 .. n, T) /\ \A o \in T : q[rank[o]] = o
    BY <1>5, Fun_BijInverse
  <2> HIDE DEF q
  <2>2. q \in [1 .. n -> T]
    BY <2>1 DEF Bijection, Injection
  <2>3. \A i \in 1 .. n : \E o \in T : rank[o] = i
    BY <1>5 DEF Bijection, Surjection
  <2> QED BY <2>1, <2>2, <2>3
<1> HIDE DEF q
<1>7. ASSUME NEW i \in 1 .. n, NEW j \in 1 .. n, i < j
      PROVE  session[q[i]].sock < session[q[j]].sock
  <2>1. q[i] \in T /\ q[j] \in T /\ rank[q[i]] = i /\ rank[q[j]] = j /\ q[i] # q[j]
    BY <1>1, <1>6, <1>7
  <2>2. ~(session[q[j]].sock < session[q[i]].sock)
    <3> SUFFICES ASSUME session[q[j]].sock < session[q[i]].sock PROVE FALSE
      OBVIOUS
    <3>1. rank[q[j]] < rank[q[i]]
      BY <1>3, <2>1
    <3> QED BY <1>1, <1>7, <2>1, <3>1
  <2> QED BY <2>1, <2>2
<1>8. q \in InListOrder(T)
  BY <1>6, <1>7 DEF InListOrder
<1> QED BY <1>8

LEMMA CollectGarbageSessionsKeeps ==
    ASSUME LifeInv, CollectGarbageSessions
    PROVE  LifeInv'
<1>1. /\ phase' = "accept" /\ UNCHANGED <<pending, arrived, peer, players, posted>>
      /\ list' = Erase(Garbage) /\ session' = Without(session, Garbage)
      /\ listeners' = listeners \ Garbage /\ UNCHANGED made
  BY DEF CollectGarbageSessions, Delete
<1>2. PICK order \in InListOrder(Garbage) : freeList' = Reverse(order) \o freeList
  BY DEF CollectGarbageSessions, Delete
<1>3. /\ TypeOK /\ OperationsCounted /\ ListSound /\ PoolIntact /\ Bounded /\ Listening
      /\ Owned(session, Open, pending) /\ Named(session, players, pending)
  BY DEF LifeInv, OperationsCounted
<1>4. /\ Garbage \subseteq Live /\ Live \subseteq Address /\ Garbage \in SUBSET Address
      /\ IsFiniteSet(Garbage) /\ IsFiniteSet(Live)
      /\ \A o \in Garbage : ~session[o].up /\ session[o].ops = 0
  <2>1. Garbage \subseteq Live /\ Live \subseteq Address
    BY <1>3 DEF Garbage, Listed, ListSound, TypeOK
  <2>2. \A o \in Garbage : ~session[o].up /\ ~(session[o].ops > 0) /\ session[o].ops \in Nat
    BY <1>3, <2>1 DEF Garbage, TypeOK, Sessions
  <2> QED BY <2>1, <2>2, LiveFinite, FS_Subset
<1>5. /\ Live' = Live \ Garbage /\ \A o \in Live' : session'[o] = session[o]
      /\ Up' = Up /\ Connected(session) = Up /\ Connected(session') = Up
      /\ Up \subseteq Live' /\ Open' = Open
  BY <1>1, <1>4 DEF Without, Live, Up, Connected, Open
<1>6. /\ order \in [1 .. Cardinality(Garbage) -> Garbage] /\ IsInjective(order)
      /\ Cardinality(Garbage) \in Nat
  <2>1. Cardinality(Garbage) \in Nat
    BY <1>4, FS_CardinalityType
  <2>2. order \in [1 .. Cardinality(Garbage) -> Garbage]
    BY <1>2 DEF InListOrder
  <2>3. \A i, j \in DOMAIN order : i < j => session[order[i]].sock < session[order[j]].sock
    BY <1>2 DEF InListOrder
  <2>4. \A o \in Garbage : session[o].sock \in Nat
    BY <1>3, <1>4 DEF TypeOK, Sessions
  <2> SUFFICES ASSUME NEW i \in DOMAIN order, NEW j \in DOMAIN order, order[i] = order[j]
               PROVE  i = j
    BY <2>1, <2>2 DEF IsInjective
  <2>5. i \in Nat /\ j \in Nat /\ session[order[i]].sock \in Nat
    BY <2>1, <2>2, <2>4
  <2> QED BY <2>3, <2>5
<1>7. /\ freeList' \in Seq(Address) /\ IsInjective(freeList')
      /\ ToSet(freeList') = Garbage \cup ToSet(freeList)
  <2>1. ToSet(freeList) \cap Garbage = {} /\ freeList \in Seq(Address) /\ IsInjective(freeList)
    BY <1>3, <1>4 DEF PoolIntact, Bounded
  <2>2. /\ Reverse(order) \o freeList \in Seq(Address)
        /\ IsInjective(Reverse(order) \o freeList)
        /\ ToSet(Reverse(order) \o freeList) = Garbage \cup ToSet(freeList)
    BY <1>4, <1>6, <2>1, PutInFront
  <2> QED BY <1>2, <2>2
<1>8. \A g \in DOMAIN list' : /\ g \in DOMAIN list /\ list'[g] = list[g]
                              /\ list[g] \in Live' /\ session[list[g]].sock = g
  <2>1. \A g \in DOMAIN list' : /\ g \in DOMAIN list /\ list'[g] = list[g]
                                /\ g \notin {session[o].sock : o \in Garbage}
    BY <1>1 DEF Erase, Without
  <2> QED BY <1>3, <1>5, <2>1 DEF ListSound
<1>9. TypeOK'
  BY <1>1, <1>3, <1>4, <1>5, <1>8 DEF TypeOK
<1>10. OperationsCounted'
  <2>1. \A o \in Garbage : posted[o].recv = 0 /\ posted[o].sends = << >>
    <3> TAKE o \in Garbage
    <3>1. /\ 0 = posted[o].recv + Len(posted[o].sends)
          /\ posted[o].recv \in {0, 1} /\ posted[o].sends \in Seq(Nat)
      BY <1>3, <1>4 DEF OperationsCounted, TypeOK
    <3>2. posted[o].recv = 0 /\ Len(posted[o].sends) = 0
      BY <3>1, LenProperties
    <3> QED BY <3>1, <3>2, EmptySeq
  <2> QED BY <1>1, <1>3, <1>4, <1>5, <1>9, <2>1 DEF OperationsCounted
<1>11. Bounded'
  <2>1. Cardinality(Live') \in Nat /\ Cardinality(Live') <= Cardinality(Live)
    BY <1>4, <1>5, FS_Subset, FS_CardinalityType
  <2>2. Cardinality(Live) \in Nat /\ Len(pending) \in Nat /\ arrived \in Nat
    BY <1>3, <1>4, FS_CardinalityType, LenProperties DEF TypeOK
  <2> QED BY <1>1, <1>3, <1>7, <2>1, <2>2 DEF Bounded
<1>12. PoolIntact' /\ ListSound' /\ Listening'
  <2>1. PoolIntact'
    BY <1>1, <1>3, <1>4, <1>5, <1>7 DEF PoolIntact
  <2>2. ListSound'
    BY <1>5, <1>8 DEF ListSound
  <2>3. Listening'
    BY <1>1, <1>3, <1>5 DEF Listening, Gone
  <2> QED BY <2>1, <2>2, <2>3
<1>13. Owned(session', Open', pending') /\ Named(session', players', pending')
  <2>1. \A o \in Up : session'[o] = session[o]
    BY <1>5
  <2>2. Owned(session', Open', pending')
    BY <1>1, <1>3, <1>5, <2>1 DEF Owned
  <2>3. Named(session', players', pending')
    BY <1>1, <1>3, <1>5, <2>1 DEF Named
  <2> QED BY <2>2, <2>3
<1> QED BY <1>10, <1>11, <1>12, <1>13 DEF LifeInv

\* Nothing to accept, less than a second gone, and steps of others.
LEMMA IdleKeeps ==
    ASSUME LifeInv, phase' \in {"accept", "apc", "period"},
           UNCHANGED <<pending, arrived, peer, session, list, pool, players, posted>>
    PROVE  LifeInv'
<1> USE DEF pool
<1>1. TypeOK'
  BY DEF LifeInv, OperationsCounted, TypeOK, Live, Open
<1>2. OperationsCounted'
  BY <1>1 DEF LifeInv, OperationsCounted, Live
<1>3. Bounded' /\ PoolIntact' /\ ListSound'
  BY DEF LifeInv, Bounded, PoolIntact, ListSound, Live
<1>4. Listening' /\ Owned(session', Open', pending') /\ Named(session', players', pending')
  BY DEF LifeInv, Listening, Gone, Open, Up, Live
<1> QED BY <1>2, <1>3, <1>4 DEF LifeInv

LEMMA LifeNext == LifeInv /\ [Next]_vars => LifeInv'
<1> SUFFICES ASSUME LifeInv, [Next]_vars PROVE LifeInv'
  OBVIOUS
<1>1. ASSUME NEW h \in Handle, Arrive(h) \/ PeerLeaves(h) PROVE LifeInv'
  BY <1>1, ArriveKeeps, PeerLeavesKeeps
<1>2. ASSUME NEW o \in Address, Completion(o) PROVE LifeInv'
  BY <1>2, RecvCompletionKeeps, SendCompletionKeeps DEF Completion
<1>3. CASE NothingToAccept \/ NoPeriod
  BY <1>3, IdleKeeps DEF NothingToAccept, NoPeriod
<1>4. CASE UNCHANGED vars
  <2>1. phase \in {"accept", "apc", "period"}
    BY DEF LifeInv, OperationsCounted, TypeOK
  <2> QED BY <1>4, <2>1, IdleKeeps DEF vars
<1> QED BY <1>1, <1>2, <1>3, <1>4, AcceptKeeps, FlushClientSendKeeps,
           CollectGarbageSessionsKeeps DEF Next

------------------------------------------------------------------------------
(* The theorems. *)

LEMMA LifeAlways == Spec => []LifeInv
  BY LifeInit, LifeNext, PTL DEF Spec

\* Whatever the order of arrivals, completions, flushes and collections, the
\* count of operations is what the kernel holds, and the kernel holds nothing on
\* an object that was given back.
THEOREM SessionsCounted == Spec => []OperationsCounted
  BY LifeAlways, LifeInvImplies, PTL

\* The pool never gives one object to two sessions and never loses one.
THEOREM SessionsPool == Spec => []PoolIntact
  BY LifeAlways, LifeInvImplies, PTL

\* The list never leads to a session that was deleted.
THEOREM SessionsListed == Spec => []ListSound
  BY LifeAlways, LifeInvImplies, PTL

\* No session closes the socket of another.
THEOREM SessionsOwn == Spec => []OneOwner
  BY LifeAlways, LifeInvImplies, PTL

\* A connected session goes on receiving until the other end has gone.
THEOREM SessionsListen == Spec => []Listening
  BY LifeAlways, LifeInvImplies, PTL

\* Clients that log in one after the other have player numbers of their own.
THEOREM SessionsNumbered ==
    ASSUME SerialLogin PROVE Spec => []UniquePlayerNumbers
<1>1. LifeInv => UniquePlayerNumbers
  BY LifeInvImplies
<1> QED BY <1>1, LifeAlways, PTL

\* Whatever is to be collected can be: the sessions without operations are in
\* the list under handles of their own, so that one order of deletion exists.
THEOREM SessionsCollectable == Spec => [](InListOrder(Garbage) # {})
<1>1. ASSUME LifeInv PROVE InListOrder(Garbage) # {}
  <2>1. TypeOK /\ ListSound /\ OperationsCounted
    BY <1>1 DEF LifeInv, OperationsCounted
  <2>2. Garbage \subseteq Listed /\ Listed \subseteq Live /\ Live \subseteq Address
    BY <2>1 DEF Garbage, Listed, ListSound, TypeOK
  <2>3. IsFiniteSet(Garbage)
    BY <2>2, LiveFinite, FS_Subset
  <2>4. \A o \in Garbage : session[o].sock \in Nat
    BY <2>1, <2>2 DEF TypeOK, Sessions
  <2>5. ASSUME NEW o \in Garbage, NEW p \in Garbage, session[o].sock = session[p].sock
        PROVE  o = p
    <3>1. PICK g \in DOMAIN list, h \in DOMAIN list : o = list[g] /\ p = list[h]
      BY <2>2 DEF Listed
    <3> QED BY <2>1, <2>5, <3>1 DEF ListSound
  <2> QED BY <2>3, <2>4, <2>5, OrderExists
<1> QED BY <1>1, LifeAlways, PTL
===============================================================================
