---------------------------- MODULE ExchangeProofs ----------------------------
(***************************************************************************)
(* What is proved of a client and the server byte by byte, for every       *)
(* capacity, every size of header and packets and any number of attacks    *)
(* and games, however the connection cuts what is sent.                    *)
(***************************************************************************)
EXTENDS Exchange, CircularBufferOpsProofs, WellFoundedInduction

USE ExchangeAssumption, CapacityAssumption DEF CapacityAssumption

------------------------------------------------------------------------------
(* Packets. *)

Types == Requests \cup Results

LEMMA SizeType ==
    /\ Header \in Nat \ {0} /\ MaxAttacks \in Nat \ {0} /\ MaxGames \in Nat \ {0}
    /\ \A t \in Types : Size[t] \in Nat /\ Size[t] >= Header /\ Size[t] > 0
    /\ \A t \in Requests : Size[t] <= Capacity
  BY DEF ExchangeAssumption, Types

LEMMA PacketIs ==
    ASSUME NEW t \in Types
    PROVE  /\ Packet(t) \in Seq(Byte) /\ Len(Packet(t)) = Size[t] /\ Packet(t) # << >>
           /\ \A i \in 1 .. Size[t] : Packet(t)[i] = [type |-> t, nth |-> i]
<1>1. Size[t] \in Nat /\ Size[t] > 0
  BY SizeType
<1>2. \A i \in 1 .. Size[t] : [type |-> t, nth |-> i] \in Byte
  BY DEF ExchangeAssumption, Types
<1> QED BY <1>1, <1>2 DEF Packet

\* A set of numbers has a least one.
LEMMA LeastNumber ==
    ASSUME NEW T \in SUBSET Nat, T # {}
    PROVE  \E n \in T : \A m \in 0 .. n - 1 : m \notin T
<1>1. PICK n \in T : \A m \in T : <<m, n>> \notin OpToRel(<, Nat)
  BY NatLessThanWellFounded, WFMin, Zenon
<1>2. \A m \in T : ~(m < n)
  BY <1>1, Zenon DEF OpToRel
<1> QED BY <1>2

\* The bytes a client may be sent, and a stream of whole packets.
Answer == UNION {[type : {t}, nth : 1 .. Size[t]] : t \in Results}
Ends(x) == x.nth = Size[x.type]
Follows(x, y) == IF Ends(x) THEN y.nth = 1 ELSE y.type = x.type /\ y.nth = x.nth + 1
Whole(s) ==
    /\ s \in Seq(Answer)
    /\ s # << >> => s[1].nth = 1 /\ Ends(s[Len(s)])
    /\ \A i \in 1 .. Len(s) : i + 1 <= Len(s) => Follows(s[i], s[i + 1])

LEMMA AnswerIs ==
    /\ \A t \in Results : \A i \in 1 .. Size[t] : [type |-> t, nth |-> i] \in Answer
    /\ \A x \in Answer : /\ x.type \in Results /\ x.nth \in 1 .. Size[x.type]
                         /\ x = [type |-> x.type, nth |-> x.nth]
    /\ Answer \subseteq Byte
  BY DEF Answer, ExchangeAssumption

LEMMA Joined ==
    ASSUME NEW S, NEW s \in Seq(S), NEW p \in Seq(S)
    PROVE  /\ s \o p \in Seq(S) /\ Len(s \o p) = Len(s) + Len(p)
           /\ \A i \in 1 .. Len(s) : (s \o p)[i] = s[i]
           /\ \A i \in 1 .. Len(p) : (s \o p)[Len(s) + i] = p[i]
           /\ \A i \in 1 .. Len(s) + Len(p) : i > Len(s) => (s \o p)[i] = p[i - Len(s)]
  OBVIOUS

LEMMA AnswersType == ASSUME NEW t \in Results PROVE Packet(t) \in Seq(Answer)
<1>1. t \in Types /\ Size[t] \in Nat
  BY SizeType DEF Types
<1>2. \A i \in 1 .. Size[t] : [type |-> t, nth |-> i] \in Answer
  BY AnswerIs
<1> QED BY <1>1, <1>2 DEF Packet

\* A packet is sent.
LEMMA WholeAppend ==
    ASSUME NEW s, Whole(s), NEW t \in Results
    PROVE  Whole(s \o Packet(t))
<1> DEFINE p == Packet(t)
           r == s \o p
           n == Len(s)
           k == Size[t]
<1>1. /\ s \in Seq(Answer) /\ p \in Seq(Answer) /\ n \in Nat /\ k \in Nat /\ k > 0 /\ Len(p) = k
      /\ \A i \in 1 .. k : p[i] = [type |-> t, nth |-> i]
  BY AnswersType, PacketIs, SizeType DEF Whole, Types
<1> HIDE DEF p
<1>2. /\ r \in Seq(Answer) /\ Len(r) = n + k /\ \A i \in 1 .. n : r[i] = s[i]
      /\ \A i \in 1 .. n + k : i > n => r[i] = [type |-> t, nth |-> i - n]
  <2>1. \A i \in 1 .. n + k : i > n => i - n \in 1 .. k
    BY <1>1
  <2>2. /\ r \in Seq(Answer) /\ Len(r) = n + Len(p) /\ \A i \in 1 .. n : r[i] = s[i]
        /\ \A i \in 1 .. n + Len(p) : i > n => r[i] = p[i - n]
    <3>1. s \in Seq(Answer) /\ p \in Seq(Answer)
      BY <1>1
    <3> QED BY ONLY <3>1, Joined
  <2> HIDE DEF r, n, k
  <2> QED BY <1>1, <2>1, <2>2
<1> HIDE DEF r, n, k
<1>3. r[1].nth = 1 /\ Ends(r[n + k])
  <2>1. CASE n = 0
    BY <1>1, <1>2, <2>1 DEF Ends, k
  <2>2. CASE n > 0
    <3>1. r[1] = s[1] /\ s # << >> /\ r[n + k] = [type |-> t, nth |-> k]
      BY <1>1, <1>2, <2>2 DEF n
    <3> QED BY <3>1 DEF Whole, Ends, k
  <2> QED BY <1>1, <2>1, <2>2
<1>4. ASSUME NEW i \in 1 .. n + k, i + 1 <= n + k
      PROVE  Follows(r[i], r[i + 1])
  <2>1. CASE i + 1 <= n
    BY <1>1, <1>2, <2>1 DEF Whole, n
  <2>2. CASE i = n
    <3>1. r[i] = s[n] /\ r[i + 1] = [type |-> t, nth |-> 1] /\ s # << >>
      BY <1>1, <1>2, <1>4, <2>2 DEF n
    <3> QED BY <3>1 DEF Whole, Follows, n
  <2>3. CASE i > n
    <3>1. r[i] = [type |-> t, nth |-> i - n] /\ r[i + 1] = [type |-> t, nth |-> i - n + 1]
      BY <1>1, <1>2, <1>4, <2>3
    <3>2. i - n # k
      BY <1>1, <1>4
    <3> QED BY <3>1, <3>2 DEF Follows, Ends, k
  <2> QED BY <1>1, <1>4, <2>1, <2>2, <2>3
<1> QED BY <1>2, <1>3, <1>4, <1>1 DEF Whole, r, p

\* The first packet of a stream, and what is behind it.
LEMMA WholeFirst ==
    ASSUME NEW s, Whole(s), s # << >>
    PROVE  LET t == s[1].type
               r == SubSeq(s, Size[t] + 1, Len(s))
           IN  /\ t \in Results /\ Size[t] <= Len(s) /\ Whole(r) /\ Len(r) = Len(s) - Size[t]
               /\ \A i \in 1 .. Size[t] : s[i] = [type |-> t, nth |-> i]
               /\ \A i \in 1 .. Len(r) : r[i] = s[i + Size[t]]
<1> DEFINE t == s[1].type
           k == Size[t]
           n == Len(s)
           r == SubSeq(s, k + 1, n)
<1>1. /\ s \in Seq(Answer) /\ n \in Nat /\ n > 0 /\ t \in Results /\ k \in Nat /\ k > 0
      /\ s[1] = [type |-> t, nth |-> 1] /\ s[n].nth = Size[s[n].type]
      /\ \A i \in 1 .. n : i + 1 <= n => Follows(s[i], s[i + 1])
  <2>1. s \in Seq(Answer) /\ n \in Nat /\ n > 0 /\ s[1] \in Answer /\ s[1].nth = 1
    BY DEF Whole
  <2> QED BY <2>1, AnswerIs, SizeType DEF Whole, Ends, Types
<1> HIDE DEF t, k, n
<1>2. \A i \in 1 .. k : i <= n /\ s[i] = [type |-> t, nth |-> i]
  <2> DEFINE F == {i \in Nat : i \in 1 .. k /\ ~(i <= n /\ s[i] = [type |-> t, nth |-> i])}
  <2>1. SUFFICES ASSUME F # {} PROVE FALSE
    BY <1>1
  <2>2. PICK i \in F : \A j \in 0 .. i - 1 : j \notin F
    BY <2>1, LeastNumber
  <2>3. i \in 1 .. k /\ i # 1
    BY <1>1
  <2>4. i - 1 \in 1 .. k /\ i - 1 <= n /\ s[i - 1] = [type |-> t, nth |-> i - 1]
    BY <1>1, <2>2, <2>3
  <2>5. i - 1 # n
    <3>1. Ends(s[i - 1]) => i - 1 = k
      BY <2>4 DEF Ends, k
    <3> QED BY <1>1, <2>3, <2>4, <3>1 DEF Ends
  <2>6. i <= n
    BY <1>1, <2>3, <2>4, <2>5
  <2>7. Follows(s[i - 1], s[i]) /\ ~Ends(s[i - 1]) /\ s[i] \in Answer
    <3>1. i - 1 \in 1 .. n /\ (i - 1) + 1 = i
      BY <2>3, <2>4
    <3>2. Follows(s[i - 1], s[i])
      BY <1>1, <2>6, <3>1
    <3>3. s[i - 1].nth # k /\ s[i - 1].type = t
      BY <2>3, <2>4
    <3>4. s[i] \in Answer
      BY <1>1, <2>3, <2>6 DEF n
    <3> QED BY <3>2, <3>3, <3>4 DEF Ends, k
  <2>8. s[i].type = t /\ s[i].nth = i
    BY <2>3, <2>4, <2>7 DEF Follows
  <2> QED BY <2>2, <2>6, <2>7, <2>8, AnswerIs
<1>3. k <= n /\ Ends(s[k])
  <2>1. k <= n /\ s[k] = [type |-> t, nth |-> k]
    BY <1>1, <1>2
  <2> QED BY <2>1 DEF Ends, k
<1>4. /\ r \in Seq(Answer) /\ Len(r) = n - k
      /\ \A i \in 1 .. n - k : r[i] = s[i + k]
  BY <1>1, <1>3 DEF n
<1> HIDE DEF r
<1>5. Whole(r)
  <2>1. ASSUME r # << >>
        PROVE  r[1].nth = 1 /\ Ends(r[n - k])
    <3>1. n - k > 0 /\ n - k \in Nat
      BY <1>1, <1>3, <1>4, <2>1
    <3>2. r[1] = s[k + 1] /\ r[n - k] = s[n]
      BY <1>1, <1>4, <3>1
    <3>3. Follows(s[k], s[k + 1])
      BY <1>1, <1>3, <3>1
    <3> QED BY <1>1, <1>3, <3>2, <3>3 DEF Follows, Ends
  <2>2. ASSUME NEW i \in 1 .. n - k, i + 1 <= n - k
        PROVE  Follows(r[i], r[i + 1])
    <3>1. r[i] = s[i + k] /\ r[i + 1] = s[i + k + 1]
      BY <1>1, <1>4, <2>2
    <3>2. i + k \in 1 .. n /\ i + k + 1 <= n
      BY <1>1, <1>3, <2>2
    <3> QED BY <1>1, <3>1, <3>2
  <2> QED BY <1>4, <2>1, <2>2 DEF Whole
<1> QED BY <1>1, <1>2, <1>3, <1>4, <1>5 DEF r, n, k, t

------------------------------------------------------------------------------
(* What the client is sent leads it from where it is to where the game        *)
(* expects it.                                                                *)

\* Where main is: a request is under way, or a call of the library waits.
Place == IF pc \in {"sending", "reply"} THEN request ELSE pc

Expected(p) == IF p \in Requests THEN {"OK"}
               ELSE IF p \in {"start", "loop", "after"} THEN Awaited[p] ELSE {}
After(p, t) == CASE t = "OK" /\ p = "NAME"              -> "start"
                 [] t = "OK" /\ p # "NAME"              -> "loop"
                 [] t \in {"GAME_START", "NEXT_GAME"}   -> "MAP"
                 [] t = "MY_TURN"                       -> "ATTACK"
                 [] t = "ATTACK_RESULT"                 -> "loop"
                 [] t = "GAME_OVER"                     -> "after"
                 [] t = "ALL_OVER"                      -> "done"

\* Byte by byte, at[i] is where main is when it reads s[i]: only the last packet
\* makes it ask.
Leads(s, at) ==
    \A i \in 1 .. Len(s) :
        /\ s[i].type \in Expected(at[i])
        /\ at[i + 1] = IF Ends(s[i]) THEN After(at[i], s[i].type) ELSE at[i]
        /\ Ends(s[i]) /\ at[i + 1] \in Requests => i = Len(s)
Path(s, p, q) ==
    Whole(s) /\ \E at : Leads(s, at) /\ at[1] = p /\ at[Len(s) + 1] = q

LEMMA ExpectedIs ==
    /\ \A p : Expected(p) \subseteq Results \ {"ERROR"}
    /\ \A p \in Requests : Expected(p) = {"OK"}
    /\ Expected("start") = {"GAME_START"} /\ Expected("after") = {"NEXT_GAME", "ALL_OVER"}
    /\ Expected("loop") = {"MY_TURN", "ATTACK_RESULT", "GAME_OVER"}
    /\ Expected("off") = {} /\ Expected("done") = {} /\ Expected("ended") = {}
<1>1. /\ Awaited["start"] = {"GAME_START"} /\ Awaited["after"] = {"NEXT_GAME", "ALL_OVER"}
      /\ Awaited["loop"] = {"MY_TURN", "ATTACK_RESULT", "GAME_OVER"}
  BY DEF Awaited
<1>2. /\ "start" \notin Requests /\ "loop" \notin Requests /\ "after" \notin Requests
      /\ "off" \notin Requests /\ "done" \notin Requests /\ "ended" \notin Requests
  BY DEF Requests
<1>3. \A p : Expected(p) \in {{"OK"}, Awaited["start"], Awaited["loop"], Awaited["after"], {}}
  BY DEF Expected
<1> QED BY <1>1, <1>2, <1>3 DEF Expected, Results

LEMMA PathEmpty ==
    ASSUME NEW p
    PROVE  Path(<< >>, p, p) /\ \A q : Path(<< >>, p, q) => p = q
<1>1. Leads(<< >>, [i \in {1} |-> p]) /\ Whole(<< >>)
  BY DEF Leads, Whole
<1>2. Len(<< >>) + 1 = 1
  OBVIOUS
<1> QED BY <1>1, <1>2 DEF Path

\* Nothing comes where nothing is expected.
LEMMA PathEnds ==
    ASSUME NEW s, NEW p, NEW q, Path(s, p, q), Expected(p) = {}
    PROVE  s = << >> /\ p = q
<1>1. s \in Seq(Answer)
  BY DEF Path, Whole
<1>2. s = << >>
  <2> SUFFICES ASSUME s # << >> PROVE FALSE
    OBVIOUS
  <2>1. 1 \in 1 .. Len(s)
    BY <1>1
  <2> QED BY <2>1 DEF Path, Leads
<1> QED BY <1>2, PathEmpty

LEMMA PathAppend ==
    ASSUME NEW s, NEW p, NEW q, Path(s, p, q), s = << >> \/ q \notin Requests,
           NEW t \in Expected(q)
    PROVE  Path(s \o Packet(t), p, After(q, t))
<1>1. PICK at : Leads(s, at) /\ at[1] = p /\ at[Len(s) + 1] = q
  BY DEF Path
<1> DEFINE r == s \o Packet(t)
           n == Len(s)
           k == Size[t]
           to == [i \in 1 .. n + k + 1 |-> IF i <= n THEN at[i]
                                          ELSE IF i <= n + k THEN q ELSE After(q, t)]
<1>2. /\ s \in Seq(Answer) /\ n \in Nat /\ t \in Results /\ k \in Nat /\ k > 0
      /\ Packet(t) \in Seq(Answer) /\ Len(Packet(t)) = k
      /\ \A i \in 1 .. k : Packet(t)[i] = [type |-> t, nth |-> i]
  <2>1. t \in Results /\ t \in Types
    BY ExpectedIs DEF Types
  <2>2. s \in Seq(Answer) /\ n \in Nat
    BY DEF Path, Whole
  <2>3. Packet(t) \in Seq(Answer)
    BY <2>1, AnswersType
  <2>4. /\ Len(Packet(t)) = Size[t]
        /\ \A i \in 1 .. Size[t] : Packet(t)[i] = [type |-> t, nth |-> i]
    BY <2>1, PacketIs
  <2> QED BY <2>1, <2>2, <2>3, <2>4, SizeType
<1>3. Whole(r)
  BY <1>2, WholeAppend DEF Path
<1>4. /\ Len(r) = n + k /\ \A i \in 1 .. n : r[i] = s[i]
      /\ \A i \in 1 .. n + k : i > n => r[i] = [type |-> t, nth |-> i - n]
  <2>1. \A i \in 1 .. n + k : i > n => i - n \in 1 .. k
    BY <1>2
  <2>2. /\ Len(r) = n + Len(Packet(t)) /\ \A i \in 1 .. n : r[i] = s[i]
        /\ \A i \in 1 .. n + Len(Packet(t)) : i > n => r[i] = Packet(t)[i - n]
    <3>1. s \in Seq(Answer) /\ Packet(t) \in Seq(Answer)
      BY <1>2
    <3> QED BY ONLY <3>1, Joined
  <2> HIDE DEF r, n, k
  <2> QED BY <1>2, <2>1, <2>2
<1> HIDE DEF r, k, n
<1>5. to[1] = p /\ to[n + k + 1] = After(q, t)
  <2>1. n = 0 => q = p
    BY <1>1, <1>2 DEF n
  <2> QED BY <1>1, <1>2, <2>1
<1>6. ASSUME NEW i \in 1 .. n + k
      PROVE  /\ r[i].type \in Expected(to[i])
             /\ to[i + 1] = IF Ends(r[i]) THEN After(to[i], r[i].type) ELSE to[i]
             /\ Ends(r[i]) /\ to[i + 1] \in Requests => i = n + k
  <2>1. CASE i <= n
    <3>1. r[i] = s[i] /\ to[i] = at[i] /\ to[i + 1] = at[i + 1] /\ i \in 1 .. n
      BY <1>1, <1>2, <1>4, <2>1 DEF n
    <3>2. i = n => to[i + 1] = q /\ q \notin Requests
      BY <1>1, <1>2, <2>1, <3>1 DEF n
    <3> HIDE DEF to
    <3> QED BY <1>1, <3>1, <3>2 DEF Leads, n
  <2>2. CASE i > n
    <3>1. r[i] = [type |-> t, nth |-> i - n] /\ to[i] = q
      BY <1>2, <1>4, <2>2
    <3>2. Ends(r[i]) <=> i = n + k
      BY <1>2, <3>1 DEF Ends, k
    <3>3. to[i + 1] = IF i = n + k THEN After(q, t) ELSE q
      <4>1. /\ i + 1 \in 1 .. n + k + 1 /\ ~(i + 1 <= n)
            /\ i + 1 <= n + k <=> i # n + k
        BY <1>2, <2>2
      <4> QED BY <4>1
    <3> HIDE DEF to
    <3> QED BY <3>1, <3>2, <3>3
  <2> QED BY <1>2, <2>1, <2>2
<1> HIDE DEF to
<1>7. Leads(r, to)
  BY <1>4, <1>6 DEF Leads
<1> QED BY <1>3, <1>4, <1>5, <1>7 DEF Path, r

LEMMA PathFirst ==
    ASSUME NEW s, NEW p, NEW q, Path(s, p, q), s # << >>
    PROVE  LET t == s[1].type
               r == SubSeq(s, Size[t] + 1, Len(s))
           IN  /\ t \in Expected(p) /\ Path(r, After(p, t), q)
               /\ After(p, t) \in Requests => r = << >>
<1> DEFINE t == s[1].type
           k == Size[t]
           n == Len(s)
           r == SubSeq(s, k + 1, n)
<1>1. PICK at : Leads(s, at) /\ at[1] = p /\ at[Len(s) + 1] = q
  BY DEF Path
<1>2. /\ t \in Results /\ k <= n /\ Whole(r) /\ Len(r) = n - k
      /\ \A i \in 1 .. k : s[i] = [type |-> t, nth |-> i]
      /\ \A i \in 1 .. n - k : r[i] = s[i + k]
  BY WholeFirst DEF Path
<1>3. n \in Nat /\ k \in Nat /\ k > 0 /\ r \in Seq(Answer)
  BY <1>2, SizeType DEF Path, Whole, Types
<1> HIDE DEF t, k, n, r
<1>4. \A i \in 1 .. k : at[i] = p
  <2> DEFINE F == {i \in Nat : i \in 1 .. k /\ at[i] # p}
  <2>1. SUFFICES ASSUME F # {} PROVE FALSE
    BY <1>3
  <2>2. PICK i \in F : \A j \in 0 .. i - 1 : j \notin F
    BY <2>1, LeastNumber
  <2>3. i \in 1 .. k /\ i # 1 /\ i - 1 \in 1 .. k /\ i - 1 \in 1 .. n /\ at[i - 1] = p
    BY <1>1, <1>2, <1>3, <2>2
  <2>4. ~Ends(s[i - 1])
    <3>1. i - 1 # k
      BY ONLY <1>3, <2>3
    <3>2. s[i - 1] = [type |-> t, nth |-> i - 1]
      BY ONLY <1>2, <2>3
    <3> QED BY <3>1, <3>2 DEF Ends, k
  <2>5. at[(i - 1) + 1] = at[i - 1]
    BY <1>1, <2>3, <2>4 DEF Leads, n
  <2>6. (i - 1) + 1 = i
    BY <2>3
  <2> QED BY <2>2, <2>3, <2>5, <2>6
<1>5. /\ t \in Expected(p) /\ at[k + 1] = After(p, t)
      /\ After(p, t) \in Requests => k = n
  <2>1. k \in 1 .. n /\ k \in 1 .. k /\ at[k] = p /\ s[k] = [type |-> t, nth |-> k] /\ Ends(s[k])
    BY <1>2, <1>3, <1>4 DEF Ends, k
  <2> QED BY <1>1, <2>1 DEF Leads, n
<1> DEFINE to == [i \in 1 .. n - k + 1 |-> at[i + k]]
<1>6. to[1] = After(p, t) /\ to[n - k + 1] = q
  <2>1. /\ 1 \in 1 .. n - k + 1 /\ n - k + 1 \in 1 .. n - k + 1
        /\ 1 + k = k + 1 /\ (n - k + 1) + k = n + 1
    BY <1>2, <1>3
  <2>2. at[n + 1] = q
    BY <1>1 DEF n
  <2> QED BY <1>5, <2>1, <2>2
<1>7. ASSUME NEW i \in 1 .. n - k
      PROVE  /\ r[i].type \in Expected(to[i])
             /\ to[i + 1] = IF Ends(r[i]) THEN After(to[i], r[i].type) ELSE to[i]
             /\ Ends(r[i]) /\ to[i + 1] \in Requests => i = n - k
  <2>1. /\ i + k \in 1 .. n /\ r[i] = s[i + k] /\ to[i] = at[i + k]
        /\ to[i + 1] = at[(i + k) + 1]
    BY <1>2, <1>3
  <2>2. i + k = n => i = n - k
    BY <1>3
  <2> HIDE DEF to
  <2> QED BY <1>1, <2>1, <2>2 DEF Leads, n
<1> HIDE DEF to
<1>8. Leads(r, to)
  BY <1>2, <1>7 DEF Leads
<1>9. k = n => r = << >>
  BY <1>2, <1>3
<1> QED BY <1>2, <1>5, <1>6, <1>8, <1>9 DEF Path, t, k, n, r

------------------------------------------------------------------------------
(* Streams that are cut. *)

\* Some bytes of a stream are moved to the one before it.
LEMMA Cut ==
    ASSUME NEW S, NEW y \in Seq(S), NEW n \in 1 .. Len(y)
    PROVE  /\ SubSeq(y, 1, n) \in Seq(S) /\ Len(SubSeq(y, 1, n)) = n
           /\ SubSeq(y, n + 1, Len(y)) \in Seq(S)
           /\ Len(SubSeq(y, n + 1, Len(y))) = Len(y) - n
  BY SubSeqProperties

LEMMA MovedOn ==
    ASSUME NEW S, NEW x \in Seq(S), NEW y \in Seq(S), NEW n \in 1 .. Len(y)
    PROVE  /\ SubSeq(y, 1, n) \in Seq(S)
           /\ SubSeq(y, n + 1, Len(y)) \in Seq(S)
           /\ (x \o SubSeq(y, 1, n)) \o SubSeq(y, n + 1, Len(y)) = x \o y
<1> DEFINE u == SubSeq(y, 1, n)
           v == SubSeq(y, n + 1, Len(y))
<1>1. u \in Seq(S) /\ v \in Seq(S)
  BY Cut
<1>2. u \o v = y
  <2>1. SubSeq(y, 1, n) \o SubSeq(y, n + 1, Len(y)) = SubSeq(y, 1, Len(y))
    BY ConcatAdjacentSubSeq
  <2> QED BY <2>1, SubSeqFull
<1> HIDE DEF u, v
<1>3. (x \o u) \o v = x \o (u \o v)
  BY <1>1, ConcatAssociative
<1> QED BY <1>1, <1>2, <1>3 DEF u, v

\* What a concatenation begins with, and what is behind it.
LEMMA Begins ==
    ASSUME NEW S, NEW x \in Seq(S), NEW y \in Seq(S)
    PROVE  /\ x = SubSeq(x \o y, 1, Len(x))
           /\ y = SubSeq(x \o y, Len(x) + 1, Len(x \o y))
<1> DEFINE z == x \o y
           u == SubSeq(z, 1, Len(x))
           v == SubSeq(z, Len(x) + 1, Len(z))
<1>1. /\ z \in Seq(S) /\ Len(z) = Len(x) + Len(y) /\ Len(x) \in Nat /\ Len(y) \in Nat
      /\ \A i \in 1 .. Len(x) + Len(y) : z[i] = IF i <= Len(x) THEN x[i] ELSE y[i - Len(x)]
  BY ConcatProperties
<1> HIDE DEF z
<1>2. \A i \in 1 .. Len(z) : z[i] \in S
  BY <1>1
<1>3. /\ u \in Seq(S) /\ Len(u) = Len(x) /\ \A i \in 1 .. Len(x) : u[i] = z[i]
      /\ v \in Seq(S) /\ Len(v) = Len(y) /\ \A i \in 1 .. Len(y) : v[i] = z[Len(x) + i]
  BY <1>1, <1>2, SubSeqProperties
<1> HIDE DEF u, v
<1>4. \A i \in 1 .. Len(x) : u[i] = x[i]
  <2> TAKE i \in 1 .. Len(x)
  <2>1. u[i] = z[i] /\ i \in 1 .. Len(x) + Len(y) /\ i <= Len(x)
    BY <1>1, <1>3
  <2> QED BY <1>1, <2>1
<1>5. \A i \in 1 .. Len(y) : v[i] = y[i]
  <2> TAKE i \in 1 .. Len(y)
  <2>1. v[i] = z[Len(x) + i]
    BY <1>3
  <2>2. /\ Len(x) + i \in 1 .. Len(x) + Len(y) /\ ~(Len(x) + i <= Len(x))
        /\ (Len(x) + i) - Len(x) = i
    BY <1>1
  <2>3. z[Len(x) + i] = y[(Len(x) + i) - Len(x)]
    BY <1>1, <2>2
  <2> QED BY <2>1, <2>2, <2>3
<1>6. u = x
  BY <1>3, <1>4, SeqEqual
<1>7. v = y
  BY <1>3, <1>5, SeqEqual
<1> QED BY <1>6, <1>7 DEF u, v, z

\* A stream that comes in three pieces.
LEMMA Pieces ==
    ASSUME NEW S, NEW x \in Seq(S), NEW y \in Seq(S), NEW z \in Seq(S)
    PROVE  /\ x \o y \o z \in Seq(S)
           /\ Len(x \o y \o z) = Len(x) + Len(y) + Len(z)
           /\ x \o y \o z = x \o (y \o z)
           /\ x \o y \o z = << >> <=> x = << >> /\ y = << >> /\ z = << >>
<1>1. /\ x \o y \in Seq(S) /\ Len(x \o y) = Len(x) + Len(y)
      /\ x \o y = << >> <=> x = << >> /\ y = << >>
  BY ConcatProperties, ConcatEqualIffEmpty
<1> DEFINE w == x \o y
<1> HIDE DEF w
<1>2. /\ w \o z \in Seq(S) /\ Len(w \o z) = Len(w) + Len(z)
      /\ w \o z = << >> <=> w = << >> /\ z = << >>
  BY <1>1, ConcatProperties, ConcatEqualIffEmpty DEF w
<1>3. (x \o y) \o z = x \o (y \o z)
  BY ConcatAssociative
<1> QED BY <1>1, <1>2, <1>3 DEF w

------------------------------------------------------------------------------
(* The buffer of the session holds less than a request when a receive is      *)
(* posted: it is region A alone, from the front.                               *)

Front(b) == b \in Buffers /\ WellFormed(b) /\ b.aPtr = 0 /\ b.bPtr = NULL /\ b.bSize = 0

LEMMA FrontIs ==
    ASSUME NEW b, Front(b)
    PROVE  /\ SwitchRegion(b) = b /\ StoredSize(b) = b.aSize /\ b.aSize \in 0 .. Capacity
           /\ WritePosition(b) = b.aSize /\ WriteSpace(b) = Capacity - b.aSize
           /\ Window(b) = [at |-> b.aSize, space |-> Capacity - b.aSize]
<1>1. b.aSize \in 0 .. Capacity /\ b.aPtr = 0 /\ b.bPtr = NULL /\ b.bSize = 0
  BY DEF Front, Buffers
<1>2. AFreeSpace(b) = Capacity - b.aSize /\ SpaceBeforeA(b) = 0
  BY <1>1 DEF AFreeSpace, SpaceBeforeA
<1>3. SwitchRegion(b) = b
  BY <1>1, <1>2 DEF SwitchRegion
<1>4. /\ StoredSize(b) = b.aSize /\ WritePosition(b) = b.aSize
      /\ WriteSpace(b) = Capacity - b.aSize
  BY <1>1, <1>2 DEF StoredSize, WritePosition, WriteSpace
<1> QED BY <1>1, <1>3, <1>4 DEF Window, FreeSpace

LEMMA FrontContents ==
    ASSUME NEW b, Front(b)
    PROVE  /\ Contents(b) \in Seq(Byte) /\ Len(Contents(b)) = b.aSize
           /\ b.aSize = 0 => Contents(b) = << >>
<1>1. b \in Buffers /\ WellFormed(b)
  BY DEF Front
<1>2. Contents(b) \in Seq(Byte) /\ Len(Contents(b)) = StoredSize(b)
  BY <1>1, ContentsType
<1>3. StoredSize(b) = b.aSize
  BY FrontIs
<1> QED BY <1>2, <1>3

\* Bytes come, as many as there is space for at the most.
LEMMA Filled ==
    ASSUME NEW b, Front(b), NEW s \in Seq(Byte), Len(s) <= Capacity - b.aSize
    PROVE  LET c == CommitBytes(Store(SwitchRegion(b), Window(b).at, s), Len(s))
           IN  Front(c) /\ Contents(c) = Contents(b) \o s /\ c.aSize = b.aSize + Len(s)
<1> DEFINE c == CommitBytes(Store(b, WritePosition(b), s), Len(s))
<1>1. /\ SwitchRegion(b) = b /\ Window(b).at = WritePosition(b) /\ Len(s) <= WriteSpace(b)
  <2>1. /\ SwitchRegion(b) = b /\ WritePosition(b) = b.aSize
        /\ WriteSpace(b) = Capacity - b.aSize
    BY FrontIs
  <2>2. Window(b) = [at |-> b.aSize, space |-> Capacity - b.aSize]
    BY FrontIs
  <2> QED BY <2>1, <2>2
<1>2. b \in Buffers /\ WellFormed(b) /\ b.aPtr = 0 /\ b.bPtr = NULL /\ b.bSize = 0
  BY DEF Front
<1>3. c \in Buffers /\ WellFormed(c) /\ Contents(c) = Contents(b) \o s
  BY <1>1, <1>2, StoreKeepsShape, StoreAppends
<1>4. c.aPtr = 0 /\ c.bPtr = NULL /\ c.bSize = 0 /\ c.aSize = b.aSize + Len(s)
  <2> DEFINE e == Store(b, WritePosition(b), s)
  <2>1. e = [b EXCEPT !.data = e.data]
    BY <1>2 DEF Store, Buffers
  <2> HIDE DEF e
  <2>2. e \in [data : {e.data}, aPtr : {0}, aSize : {b.aSize}, bPtr : {NULL}, bSize : {0}]
    BY <1>2, <2>1 DEF Buffers
  <2>3. c = CommitBytes(e, Len(s))
    BY DEF e
  <2> HIDE DEF c
  <2> QED BY <2>2, <2>3 DEF CommitBytes
<1> HIDE DEF c
<1>5. Front(c)
  BY <1>3, <1>4 DEF Front
<1> QED BY <1>1, <1>3, <1>4, <1>5 DEF c

\* All that is stored is read.
LEMMA Drained ==
    ASSUME NEW b, Front(b)
    PROVE  LET c == ReadBytes(b, b.aSize)
           IN  Front(c) /\ Contents(c) = << >> /\ c.aSize = 0
<1> DEFINE c == ReadBytes(b, b.aSize)
<1>1. /\ b \in Buffers /\ WellFormed(b) /\ b.aPtr = 0 /\ b.bPtr = NULL /\ b.bSize = 0
      /\ b.aSize \in Nat
  BY DEF Front, Buffers
<1>2. ReadFits(b, b.aSize)
  <2>1. StoredSize(b) = b.aSize
    BY FrontIs
  <2> QED BY <1>1, <2>1 DEF ReadFits
<1>3. c = RemoveBytes(b, b.aSize)
  BY <1>2 DEF ReadBytes, RemoveBytes
<1>4. c \in Buffers /\ WellFormed(c)
  BY <1>1, <1>3, RemoveKeepsShape
<1>5. c.aPtr = 0 /\ c.aSize = 0 /\ c.bPtr = NULL /\ c.bSize = 0
  BY <1>1, <1>3 DEF RemoveBytes, PromoteB, Advance, Lesser
<1> HIDE DEF c
<1>6. Front(c)
  BY <1>4, <1>5 DEF Front
<1>7. Contents(c) = << >>
  BY <1>5, <1>6, FrontContents
<1> QED BY <1>5, <1>6, <1>7 DEF c

\* The buffer holds the first m bytes of a request: OnRead's tests tell whether it
\* is all there.
LEMMA CompleteIs ==
    ASSUME NEW b, Front(b), NEW t \in Requests, b.aSize <= Size[t],
           Contents(b) = SubSeq(Packet(t), 1, b.aSize)
    PROVE  /\ Complete(b) <=> b.aSize = Size[t]
           /\ Complete(b) => /\ Peeked(b, Header)[1].type = t
                             /\ Peeked(b, Size[t]) = Packet(t)
<1> DEFINE p == Packet(t)
           m == b.aSize
<1>1. /\ b \in Buffers /\ WellFormed(b) /\ StoredSize(b) = m /\ m \in Nat
  <2>1. StoredSize(b) = m
    BY FrontIs
  <2> QED BY <2>1 DEF Front, Buffers
<1>2. /\ p \in Seq(Byte) /\ Len(p) = Size[t] /\ p[1].type = t
      /\ Header \in Nat \ {0} /\ Size[t] >= Header /\ Size[t] \in Nat
  <2>1. t \in Types
    BY DEF Types
  <2> HIDE DEF p
  <2>2. /\ p \in Seq(Byte) /\ Len(p) = Size[t]
        /\ \A i \in 1 .. Size[t] : p[i] = [type |-> t, nth |-> i]
    BY <2>1, PacketIs DEF p
  <2> QED BY <2>1, <2>2, SizeType
<1> HIDE DEF p, m
<1>3. ReadFits(b, Header) <=> m >= Header
  BY <1>1 DEF ReadFits
<1>4. ASSUME m >= Header
      PROVE  Peeked(b, Header)[1].type = t
  <2>1. /\ Contents(b) \in Seq(Byte) /\ Len(Contents(b)) = m
        /\ \A i \in 1 .. m : Contents(b)[i] = ByteAt(b, i)
    BY <1>1, ContentsType
  <2>2. Peeked(b, Header)[1] = ByteAt(b, 1) /\ ByteAt(b, 1) = Contents(b)[1]
    BY <1>1, <1>2, <1>4, <2>1 DEF Peeked
  <2>3. Contents(b)[1] = p[1]
    <3>1. \A i \in 1 .. m : p[i] \in Byte
      BY <1>1, <1>2 DEF m, p
    <3>2. SubSeq(p, 1, m)[1] = p[1]
      BY <1>1, <1>2, <1>4, <3>1, SubSeqProperties
    <3> QED BY <3>2 DEF p, m
  <2> QED BY <1>2, <2>2, <2>3
<1>5. ASSUME m = Size[t]
      PROVE  Peeked(b, Size[t]) = p
  <2>1. ReadFits(b, Size[t])
    BY <1>1, <1>5 DEF ReadFits
  <2>2. Peeked(b, Size[t]) = SubSeq(Contents(b), 1, Size[t])
    BY <1>1, <1>2, <2>1, PeekedIsPrefix
  <2>3. Contents(b) = p
    BY <1>2, <1>5, SubSeqFull DEF p, m
  <2> QED BY <1>2, <2>2, <2>3, SubSeqFull
<1> QED BY <1>1, <1>2, <1>3, <1>4, <1>5 DEF Complete, p, m

LEMMA NothingComplete ==
    ASSUME NEW b, Front(b), b.aSize = 0
    PROVE  ~Complete(b)
<1>1. StoredSize(b) = 0
  BY FrontIs
<1>2. Header \in Nat /\ Header > 0
  BY SizeType
<1> QED BY <1>1, <1>2 DEF Complete, ReadFits

------------------------------------------------------------------------------
(* What the game waits for leads to what it sends next.                       *)

\* Where the client must be after it has read all that it was sent.
Goals == [login |-> {"off", "NAME"}, named |-> {"start"}, map |-> {"MAP"},
          ready |-> {"loop"}, theirs |-> {"loop"}, mine |-> {"ATTACK"},
          over |-> {"done"}, left |-> {"MAP", "loop", "ATTACK"}, gone |-> {"done"}]

\* The other player has left before all was over, or then.
Left == {"left", "gone"}
USE DEF Left

LEMMA GoalsAre ==
    /\ Goals["login"] = {"off", "NAME"} /\ Goals["named"] = {"start"}
    /\ Goals["map"] = {"MAP"} /\ Goals["ready"] = {"loop"} /\ Goals["theirs"] = {"loop"}
    /\ Goals["mine"] = {"ATTACK"} /\ Goals["over"] = {"done"}
    /\ Goals["left"] = {"MAP", "loop", "ATTACK"} /\ Goals["gone"] = {"done"}
  BY DEF Goals

LEMMA ResultsAre ==
    /\ "OK" \in Results /\ "ERROR" \in Results /\ "GAME_START" \in Results
    /\ "MY_TURN" \in Results /\ "ATTACK_RESULT" \in Results /\ "GAME_OVER" \in Results
    /\ "NEXT_GAME" \in Results /\ "ALL_OVER" \in Results
  BY DEF Results

LEMMA AfterIs ==
    /\ After("NAME", "OK") = "start" /\ \A p \in {"MAP", "ATTACK"} : After(p, "OK") = "loop"
    /\ After("start", "GAME_START") = "MAP" /\ After("after", "NEXT_GAME") = "MAP"
    /\ After("loop", "MY_TURN") = "ATTACK" /\ After("loop", "ATTACK_RESULT") = "loop"
    /\ After("loop", "GAME_OVER") = "after" /\ After("after", "ALL_OVER") = "done"
  BY DEF After

\* The end of a turn.
Then(g, stage, out, last) == IF Sinks(g, last) THEN Ended(g) ELSE GoneOn(g, stage, out)

LEMMA ThenLeads ==
    ASSUME NEW g \in Games, NEW last \in BOOLEAN, NEW stage, NEW out,
           \/ stage = "theirs" /\ out = << >>
           \/ stage = "mine" /\ out = Packet("MY_TURN"),
           NEW s, NEW p, Path(s, p, "loop")
    PROVE  LET then == Then(g, stage, out, last)
           IN  /\ then = [game |-> then.game, out |-> then.out]
               /\ then.game \in Games /\ then.game.stage \notin Left /\ then.out \in Seq(Answer)
               /\ \E r \in Goals[then.game.stage] : Path(s \o then.out, p, r)
<1> DEFINE then == Then(g, stage, out, last)
<1>1. /\ g.tries \in 0 .. MaxGames - 1 /\ g.attacks \in 0 .. MaxAttacks
      /\ g = [stage |-> g.stage, tries |-> g.tries, attacks |-> g.attacks]
      /\ MaxGames \in Nat \ {0} /\ MaxAttacks \in Nat \ {0}
  BY SizeType DEF Games
<1>2. /\ Packet("GAME_OVER") \in Seq(Answer) /\ Packet("ALL_OVER") \in Seq(Answer)
      /\ Packet("NEXT_GAME") \in Seq(Answer) /\ Packet("MY_TURN") \in Seq(Answer)
      /\ s \in Seq(Answer) /\ << >> \in Seq(Answer)
  BY ResultsAre, AnswersType DEF Path, Whole
<1>3. "loop" \notin Requests /\ "after" \notin Requests
  BY DEF Requests
<1>4. Path(s \o Packet("GAME_OVER"), p, "after")
  BY <1>3, PathAppend, ExpectedIs, AfterIs
<1>5. CASE Sinks(g, last) /\ g.tries + 1 >= MaxGames
  <2>1. then = [game |-> [stage |-> "over", tries |-> g.tries, attacks |-> g.attacks],
                out |-> Packet("GAME_OVER") \o Packet("ALL_OVER")]
    BY <1>1, <1>5 DEF Then, Ended
  <2>2. Path(s \o Packet("GAME_OVER") \o Packet("ALL_OVER"), p, "done")
    BY <1>3, <1>4, PathAppend, ExpectedIs, AfterIs
  <2>3. s \o Packet("GAME_OVER") \o Packet("ALL_OVER")
          = s \o (Packet("GAME_OVER") \o Packet("ALL_OVER"))
    BY <1>2, ConcatAssociative
  <2>4. Packet("GAME_OVER") \o Packet("ALL_OVER") \in Seq(Answer)
    BY <1>2, ConcatProperties
  <2>5. then.game \in Games
    BY <1>1, <2>1 DEF Games, Stages
  <2>6. /\ then = [game |-> then.game, out |-> then.out]
        /\ then.game.stage = "over" /\ then.out = Packet("GAME_OVER") \o Packet("ALL_OVER")
    BY <2>1
  <2>7. "done" \in Goals[then.game.stage]
    BY <2>6, GoalsAre
  <2>8. Path(s \o then.out, p, "done")
    BY <2>2, <2>3, <2>6
  <2> HIDE DEF then
  <2>9. then.game.stage \notin Left /\ then.out \in Seq(Answer)
    BY <2>4, <2>6
  <2> QED BY <2>5, <2>6, <2>7, <2>8, <2>9 DEF then
<1>6. CASE Sinks(g, last) /\ ~(g.tries + 1 >= MaxGames)
  <2>1. then = [game |-> [stage |-> "map", tries |-> g.tries + 1, attacks |-> 0],
                out |-> Packet("GAME_OVER") \o Packet("NEXT_GAME")]
    BY <1>6 DEF Then, Ended
  <2>2. Path(s \o Packet("GAME_OVER") \o Packet("NEXT_GAME"), p, "MAP")
    BY <1>3, <1>4, PathAppend, ExpectedIs, AfterIs
  <2>3. s \o Packet("GAME_OVER") \o Packet("NEXT_GAME")
          = s \o (Packet("GAME_OVER") \o Packet("NEXT_GAME"))
    BY <1>2, ConcatAssociative
  <2>4. Packet("GAME_OVER") \o Packet("NEXT_GAME") \in Seq(Answer)
    BY <1>2, ConcatProperties
  <2>5. then.game \in Games
    BY <1>1, <1>6, <2>1 DEF Games, Stages
  <2>6. /\ then = [game |-> then.game, out |-> then.out]
        /\ then.game.stage = "map" /\ then.out = Packet("GAME_OVER") \o Packet("NEXT_GAME")
    BY <2>1
  <2>7. "MAP" \in Goals[then.game.stage]
    BY <2>6, GoalsAre
  <2>8. Path(s \o then.out, p, "MAP")
    BY <2>2, <2>3, <2>6
  <2> HIDE DEF then
  <2>9. then.game.stage \notin Left /\ then.out \in Seq(Answer)
    BY <2>4, <2>6
  <2> QED BY <2>5, <2>6, <2>7, <2>8, <2>9 DEF then
<1>7. CASE ~Sinks(g, last)
  <2>1. then = [game |-> [stage |-> stage, tries |-> g.tries, attacks |-> g.attacks + 1],
                out |-> out]
    BY <1>1, <1>7 DEF Then, GoneOn
  <2>2. then.game \in Games
    BY <1>1, <1>7, <2>1 DEF Games, Stages, Sinks
  <2>3. /\ then = [game |-> then.game, out |-> then.out]
        /\ then.game.stage = stage /\ then.out = out
    BY <2>1
  <2> HIDE DEF then
  <2>4. \E r \in Goals[stage] : Path(s \o out, p, r)
    <3>1. CASE stage = "theirs" /\ out = << >>
      <4>1. s \o << >> = s
        BY <1>2, ConcatEmptySeq
      <4> QED BY <3>1, <4>1, GoalsAre
    <3>2. CASE stage = "mine" /\ out = Packet("MY_TURN")
      <4>1. Path(s \o Packet("MY_TURN"), p, "ATTACK")
        BY <1>3, PathAppend, ExpectedIs, AfterIs
      <4> QED BY <3>2, <4>1, GoalsAre
    <3> QED BY <3>1, <3>2
  <2>5. then.game.stage \notin Left /\ then.out \in Seq(Answer)
    BY <1>2, <2>3
  <2>6. \E r \in Goals[then.game.stage] : Path(s \o then.out, p, r)
    BY <2>3, <2>4
  <2> QED BY <2>2, <2>3, <2>5, <2>6 DEF then
<1> QED BY <1>5, <1>6, <1>7

\* The request the game waits for is handled.
LEMMA HandlerLeads ==
    ASSUME NEW g \in Games, NEW t \in Requests, NEW last \in BOOLEAN,
           g.stage \notin Left, t \in Goals[g.stage]
    PROVE  LET a == Handler(g, t, last)
           IN  /\ a.game \in Games /\ a.game.stage \notin Left /\ a.out \in Seq(Answer)
               /\ \E q \in Goals[a.game.stage] : Path(a.out, t, q)
<1> DEFINE a == Handler(g, t, last)
           ok == Packet("OK")
<1>1. /\ g.stage \in Stages /\ g.tries \in 0 .. MaxGames - 1 /\ g.attacks \in 0 .. MaxAttacks
      /\ g = [stage |-> g.stage, tries |-> g.tries, attacks |-> g.attacks]
  BY DEF Games
<1>2. ok \in Seq(Answer) /\ Packet("ATTACK_RESULT") \in Seq(Answer)
  BY ResultsAre, AnswersType
<1>3. Path(ok, t, After(t, "OK"))
  <2>1. Path(<< >>, t, t) /\ "OK" \in Expected(t)
    BY PathEmpty, ExpectedIs
  <2>2. Path(<< >> \o ok, t, After(t, "OK"))
    BY <2>1, PathAppend
  <2>3. << >> \o ok = ok
    BY <1>2, ConcatEmptySeq
  <2> QED BY <2>2, <2>3
<1> HIDE DEF ok
<1>4. \/ g.stage = "login" /\ t = "NAME"
      \/ g.stage = "map" /\ t = "MAP"
      \/ g.stage = "mine" /\ t = "ATTACK"
  BY <1>1, GoalsAre DEF Stages, Requests
<1>5. CASE g.stage = "login" /\ t = "NAME"
  <2>1. a = [game |-> [stage |-> "named", tries |-> g.tries, attacks |-> g.attacks],
             out |-> ok]
    BY <1>1, <1>5 DEF Handler, ok
  <2>2. a.game \in Games
    BY <1>1, <2>1 DEF Games, Stages
  <2> QED BY <1>2, <1>3, <1>5, <2>1, <2>2, GoalsAre, AfterIs
<1>6. CASE g.stage = "map" /\ t = "MAP"
  <2>1. a = [game |-> [stage |-> "ready", tries |-> g.tries, attacks |-> g.attacks],
             out |-> ok]
    BY <1>1, <1>6 DEF Handler, ok
  <2>2. a.game \in Games
    BY <1>1, <2>1 DEF Games, Stages
  <2> QED BY <1>2, <1>3, <1>6, <2>1, <2>2, GoalsAre, AfterIs
<1>7. CASE g.stage = "mine" /\ t = "ATTACK"
  <2> DEFINE then == Then(g, "theirs", << >>, last)
             s == ok \o Packet("ATTACK_RESULT")
  <2>1. a = [then EXCEPT !.out = ok \o Packet("ATTACK_RESULT") \o @]
    BY <1>7 DEF Handler, Then, ok
  <2>2. Path(ok, t, "loop")
    BY <1>3, <1>7, AfterIs
  <2>3. Path(s, t, "loop") /\ s \in Seq(Answer)
    <3>1. "loop" \notin Requests
      BY DEF Requests
    <3>2. Path(s, t, "loop")
      BY <2>2, <3>1, PathAppend, ExpectedIs, AfterIs
    <3> QED BY <3>2 DEF Path, Whole
  <2> HIDE DEF s, then
  <2>4. /\ then = [game |-> then.game, out |-> then.out]
        /\ then.game \in Games /\ then.game.stage \notin Left /\ then.out \in Seq(Answer)
        /\ \E r \in Goals[then.game.stage] : Path(s \o then.out, t, r)
    BY <2>3, ThenLeads DEF then
  <2>5. a = [game |-> then.game, out |-> s \o then.out]
    BY <2>1, <2>4 DEF s
  <2>6. s \o then.out \in Seq(Answer)
    BY <2>3, <2>4, ConcatProperties
  <2> QED BY <2>4, <2>5, <2>6
<1> QED BY <1>4, <1>5, <1>6, <1>7

\* To a player whose opponent has gone nothing is sent.
LEMMA HandlerLeft ==
    ASSUME NEW g \in Games, NEW t \in Requests, NEW last \in BOOLEAN,
           g.stage \in Left, t # "NAME"
    PROVE  Handler(g, t, last) = [game |-> g, out |-> << >>]
  BY DEF Handler

\* The matcher and the other player act where main waits for them.
LEMMA OthersLead ==
    ASSUME NEW g \in Games, NEW last \in BOOLEAN, NEW o \in Others(g, last),
           NEW s, NEW p, NEW q \in Goals[g.stage], Path(s, p, q)
    PROVE  /\ g.stage \notin Left /\ q \notin Requests
           /\ o.game \in Games /\ o.game.stage \notin Left /\ o.out \in Seq(Answer)
           /\ \E r \in Goals[o.game.stage] : Path(s \o o.out, p, r)
<1>1. /\ g.stage \in Stages /\ g.tries \in 0 .. MaxGames - 1 /\ g.attacks \in 0 .. MaxAttacks
      /\ g = [stage |-> g.stage, tries |-> g.tries, attacks |-> g.attacks]
  BY DEF Games
<1>2. /\ Packet("GAME_START") \in Seq(Answer) /\ Packet("MY_TURN") \in Seq(Answer)
      /\ Packet("ATTACK_RESULT") \in Seq(Answer) /\ s \in Seq(Answer) /\ << >> \in Seq(Answer)
  BY ResultsAre, AnswersType DEF Path, Whole
<1>3. "start" \notin Requests /\ "loop" \notin Requests
  BY DEF Requests
<1>4. g.stage \in {"named", "ready", "theirs"}
  BY DEF Others
<1>5. CASE g.stage = "named"
  <2>1. q = "start" /\ o = [game |-> [stage |-> "map", tries |-> g.tries,
                                      attacks |-> g.attacks],
                            out |-> Packet("GAME_START")]
    BY <1>1, <1>5, GoalsAre DEF Others
  <2>2. Path(s \o Packet("GAME_START"), p, "MAP")
    BY <1>3, <2>1, PathAppend, ExpectedIs, AfterIs
  <2>3. o.game \in Games
    BY <1>1, <2>1 DEF Games, Stages
  <2> QED BY <1>2, <1>3, <1>5, <2>1, <2>2, <2>3, GoalsAre
<1>6. CASE g.stage = "ready"
  <2>1. q = "loop"
    BY <1>6, GoalsAre
  <2>2. CASE o = [game |-> [stage |-> "mine", tries |-> g.tries, attacks |-> g.attacks],
                  out |-> Packet("MY_TURN")]
    <3>1. Path(s \o Packet("MY_TURN"), p, "ATTACK")
      BY <1>3, <2>1, PathAppend, ExpectedIs, AfterIs
    <3>2. o.game \in Games
      BY <1>1, <2>2 DEF Games, Stages
    <3> QED BY <1>2, <1>3, <1>6, <2>1, <2>2, <3>1, <3>2, GoalsAre
  <2>3. CASE o = [game |-> [stage |-> "theirs", tries |-> g.tries, attacks |-> g.attacks],
                  out |-> << >>]
    <3>1. s \o << >> = s
      BY <1>2, ConcatEmptySeq
    <3>2. o.game \in Games
      BY <1>1, <2>3 DEF Games, Stages
    <3> QED BY <1>2, <1>3, <1>6, <2>1, <2>3, <3>1, <3>2, GoalsAre
  <2> QED BY <1>1, <1>6, <2>2, <2>3 DEF Others
<1>7. CASE g.stage = "theirs"
  <2> DEFINE then == Then(g, "mine", Packet("MY_TURN"), last)
             a == Packet("ATTACK_RESULT")
             s1 == s \o a
  <2>1. q = "loop" /\ o = [then EXCEPT !.out = a \o @]
    BY <1>7, GoalsAre DEF Others, Then
  <2>2. Path(s1, p, "loop")
    BY <1>3, <2>1, PathAppend, ExpectedIs, AfterIs
  <2> HIDE DEF then, a, s1
  <2>3. /\ then = [game |-> then.game, out |-> then.out]
        /\ then.game \in Games /\ then.game.stage \notin Left /\ then.out \in Seq(Answer)
        /\ \E r \in Goals[then.game.stage] : Path(s1 \o then.out, p, r)
    BY <2>2, ThenLeads DEF then
  <2>4. o = [game |-> then.game, out |-> a \o then.out]
    BY <2>1, <2>3
  <2>5. a \o then.out \in Seq(Answer) /\ s1 \o then.out = s \o (a \o then.out)
    <3>1. a \in Seq(Answer) /\ s \in Seq(Answer) /\ then.out \in Seq(Answer) /\ s1 = s \o a
      BY <1>2, <2>3 DEF a, s1
    <3> DEFINE x == then.out
    <3> HIDE DEF x
    <3>2. x \in Seq(Answer)
      BY <3>1 DEF x
    <3>3. a \o x \in Seq(Answer)
      BY <3>1, <3>2, ConcatProperties
    <3>4. (s \o a) \o x = s \o (a \o x)
      BY <3>1, <3>2, ConcatAssociative
    <3> QED BY <3>1, <3>3, <3>4 DEF x
  <2> QED BY <1>3, <1>7, <2>1, <2>3, <2>4, <2>5
<1> QED BY <1>4, <1>5, <1>6, <1>7

------------------------------------------------------------------------------
(* OnRead's loop goes round once when the request is all there, and not at all *)
(* before.                                                                     *)

LEMMA OnReadIs ==
    ASSUME NEW b, Front(b), b.aSize > 0, NEW t \in Requests, b.aSize <= Size[t],
           Contents(b) = SubSeq(Packet(t), 1, b.aSize), NEW last \in BOOLEAN,
           game \in Games, handled \in Seq(Seq(Byte)),
           Handler(game, t, last).game \in Games, Handler(game, t, last).out \in Seq(Byte)
    PROVE  OnRead(b, last) =
             IF b.aSize = Size[t]
               THEN [buf |-> ReadBytes(b, b.aSize), game |-> Handler(game, t, last).game,
                     out |-> Handler(game, t, last).out,
                     handled |-> Append(handled, Packet(t))]
               ELSE [buf |-> b, game |-> game, out |-> << >>, handled |-> handled]
<1> DEFINE a == Handler(game, t, last)
           r0 == [buf |-> b, game |-> game, out |-> << >>, handled |-> handled]
           r1 == IF b.aSize = Size[t]
                   THEN [buf |-> ReadBytes(b, b.aSize), game |-> a.game, out |-> a.out,
                         handled |-> Append(handled, Packet(t))]
                   ELSE r0
           round == [r \in Rounds |-> IF Complete(r.buf) THEN HandlePacket(r, last) ELSE r]
           f == CHOOSE h : h = [n \in Nat |-> IF n = 0 THEN r0 ELSE round[h[n - 1]]]
<1>1. OnRead(b, last) = f[StoredSize(b)]
  BY DEF OnRead
<1>2. StoredSize(b) = b.aSize /\ b.aSize \in Nat
  BY FrontIs
<1>3. /\ Complete(b) <=> b.aSize = Size[t]
      /\ Complete(b) => Peeked(b, Header)[1].type = t /\ Peeked(b, Size[t]) = Packet(t)
  BY CompleteIs
<1>4. Packet(t) \in Seq(Byte)
  BY PacketIs DEF Types
<1> HIDE DEF a
<1>5. r0 \in Rounds
  BY DEF Rounds, Front
<1>6. b.aSize = Size[t] => HandlePacket(r0, last) = r1
  <2> SUFFICES ASSUME b.aSize = Size[t] PROVE HandlePacket(r0, last) = r1
    OBVIOUS
  <2>1. << >> \o a.out = a.out
    BY ConcatEmptySeq DEF a
  <2>2. r0.buf = b /\ r0.game = game /\ r0.out = << >> /\ r0.handled = handled
    OBVIOUS
  <2>3. HandlePacket(r0, last) = [buf |-> ReadBytes(b, Size[t]), game |-> a.game,
                                  out |-> << >> \o a.out,
                                  handled |-> Append(handled, Packet(t))]
    <3> HIDE DEF r0
    <3> QED BY <1>3, <2>2 DEF HandlePacket, a
  <2> QED BY <2>1, <2>3
<1>7. r1 \in Rounds /\ ~Complete(r1.buf)
  <2>1. CASE b.aSize = Size[t]
    <3> DEFINE c == ReadBytes(b, b.aSize)
    <3>1. Front(c) /\ c.aSize = 0
      BY Drained
    <3> HIDE DEF c
    <3>2. ~Complete(c)
      BY <3>1, NothingComplete
    <3>3. Append(handled, Packet(t)) \in Seq(Seq(Byte))
      BY <1>4, AppendProperties
    <3>4. r1 = [buf |-> c, game |-> a.game, out |-> a.out,
                handled |-> Append(handled, Packet(t))]
      BY <2>1 DEF c
    <3> HIDE DEF r1
    <3>5. a.game \in Games /\ a.out \in Seq(Byte) /\ c \in Buffers
      BY <3>1 DEF a, Front
    <3> QED BY <3>2, <3>3, <3>4, <3>5 DEF Rounds
  <2>2. CASE b.aSize # Size[t]
    BY <1>3, <1>5, <2>2
  <2> QED BY <2>1, <2>2
<1>8. round[r0] = r1
  <2>1. round[r0] = IF Complete(r0.buf) THEN HandlePacket(r0, last) ELSE r0
    BY <1>5
  <2> QED BY <1>3, <1>6, <2>1
<1>9. round[r1] = r1
  <2> HIDE DEF r1
  <2> QED BY <1>7
<1> HIDE DEF round, r0, r1
<1>10. \A n \in Nat : f[n] = IF n = 0 THEN r0 ELSE round[f[n - 1]]
  <2> DEFINE F(h) == [n \in Nat |-> IF n = 0 THEN r0 ELSE round[h[n - 1]]]
             g == [n \in Nat |-> IF n = 0 THEN r0 ELSE r1]
  <2>1. ASSUME NEW n \in Nat PROVE g[n] = IF n = 0 THEN r0 ELSE round[g[n - 1]]
    <3>1. CASE n = 0
      BY <3>1
    <3>2. CASE n # 0
      <4>1. n - 1 \in Nat
        BY <3>2
      <4>2. g[n - 1] = r0 \/ g[n - 1] = r1
        BY <4>1
      <4> QED BY <1>8, <1>9, <3>2, <4>2
    <3> QED BY <3>1, <3>2
  <2>2. g = [n \in Nat |-> g[n]]
    OBVIOUS
  <2> HIDE DEF g
  <2>3. g = F(g)
    BY <2>1, <2>2
  <2>4. f = F(f)
    BY <2>3
  <2> HIDE DEF f
  <2> TAKE n \in Nat
  <2>5. F(f)[n] = IF n = 0 THEN r0 ELSE round[f[n - 1]]
    OBVIOUS
  <2> HIDE DEF F
  <2> QED BY <2>4, <2>5
<1> HIDE DEF f
<1>11. \A n \in Nat : f[n] = IF n = 0 THEN r0 ELSE r1
  <2> DEFINE B == {n \in Nat : f[n] # IF n = 0 THEN r0 ELSE r1}
  <2>1. SUFFICES ASSUME B # {} PROVE FALSE
    OBVIOUS
  <2>2. PICK n \in B : \A m \in 0 .. n - 1 : m \notin B
    BY <2>1, LeastNumber
  <2>3. n \in Nat /\ n # 0 /\ n - 1 \in 0 .. n - 1 /\ n - 1 \in Nat
    BY <1>10, <2>2
  <2>4. f[n - 1] = r0 \/ f[n - 1] = r1
    BY <2>2, <2>3
  <2>5. f[n] = r1
    BY <1>8, <1>9, <1>10, <2>3, <2>4
  <2> QED BY <2>2, <2>3, <2>5
<1>12. OnRead(b, last) = r1
  BY <1>1, <1>2, <1>11
<1> QED BY <1>12 DEF r1, r0, a

------------------------------------------------------------------------------
(* The inductive invariant.                                                   *)

\* What the client has still to read, and what the session has still to handle.
Answers == got \o toClient
Asking  == Contents(mRecvBuffer) \o toServer \o unsent

\* The answers under way are whole packets, which lead main to where the game
\* waits for it, and an error behind them if the other player has gone.  While a
\* request is under way there are none, and the game waits for that request.
Leading(s, q) ==
    /\ q \in Goals[game.stage] /\ Path(s, Place, q)
    /\ Answers = IF game.stage \in Left THEN s \o Packet("ERROR") ELSE s
    /\ Asking # << >> => s = << >> /\ Place = request
Answered == \E s, q : Leading(s, q)

\* The client has read the error.
Parted ==
    /\ game.stage = "left" /\ Answers = << >> /\ pc \in {"loop", "ended"}
    /\ Asking # << >> => request # "NAME"

\* A client whose connection was not reset: one request at the most is under way,
\* and it is the last one asked.
Meeting ==
    /\ pc # "failed" /\ (pc \notin Reading => got = << >>)
    /\ Asking # << >> => Asking = Packet(request)
    /\ Len(asked) = Len(handled) + (IF Asking = << >> THEN 0 ELSE 1)
    /\ Asking # << >> => asked[Len(asked)] = request
    /\ Answered \/ Parted

\* A receive is posted on a buffer that holds less than a request.
Posted ==
    /\ Front(mRecvBuffer) /\ mRecvBuffer.aSize < Capacity
    /\ window = Window(mRecvBuffer) /\ ~Complete(mRecvBuffer)

Connected ==
    /\ ~up => state # "open"
    /\ state \in {"closed", "reset"} => ~up
    /\ state = "reset" => toClient = << >>

EInv ==
    /\ TypeOK /\ asked \in Seq(Requests) /\ handled \in Seq(Seq(Byte))
    /\ Posted /\ Connected /\ HandledWhole
    /\ state # "reset" => Meeting

------------------------------------------------------------------------------
(* It holds at first, and what follows from it.                               *)

LEMMA ReadingIs == Reading = {"reply", "start", "loop", "after"}
  BY DEF Reading, Awaited

LEMMA StreamsType ==
    ASSUME EInv
    PROVE  /\ unsent \in Seq(Byte) /\ got \in Seq(Byte)
           /\ toServer \in Seq(Byte) /\ toClient \in Seq(Byte)
           /\ Contents(mRecvBuffer) \in Seq(Byte)
           /\ Answers \in Seq(Byte) /\ Asking \in Seq(Byte)
<1>1. /\ unsent \in Seq(Byte) /\ got \in Seq(Byte)
      /\ toServer \in Seq(Byte) /\ toClient \in Seq(Byte)
  BY DEF EInv, TypeOK
<1>2. Contents(mRecvBuffer) \in Seq(Byte)
  BY FrontContents DEF EInv, Posted
<1>3. Answers \in Seq(Byte)
  BY <1>1, ConcatProperties DEF Answers
<1>4. Asking \in Seq(Byte)
  BY <1>1, <1>2, Pieces DEF Asking
<1> QED BY <1>1, <1>2, <1>3, <1>4

LEMMA EInit == Init => EInv
<1> SUFFICES ASSUME Init PROVE EInv
  OBVIOUS
<1> DEFINE d == [i \in Offset |-> Blank]
<1>1. d \in [Offset -> Byte]
  BY DEF ExchangeAssumption
<1>2. mRecvBuffer = NewBuffer(d)
  BY DEF Init
<1> HIDE DEF d
<1>3. Front(mRecvBuffer) /\ mRecvBuffer.aSize = 0
  <2>1. NewBuffer(d) \in Buffers /\ WellFormed(NewBuffer(d))
    BY <1>1, NewKeepsShape
  <2> QED BY <1>2, <2>1 DEF NewBuffer, Front
<1>4. /\ window = Window(mRecvBuffer)
      /\ Window(mRecvBuffer) = [at |-> mRecvBuffer.aSize,
                                space |-> Capacity - mRecvBuffer.aSize]
  BY <1>3, FrontIs DEF Init
<1>5. Posted
  BY <1>3, <1>4, NothingComplete DEF Posted
<1>6. Contents(mRecvBuffer) = << >>
  BY <1>3, FrontContents
<1>7. /\ pc = "off" /\ request = "NAME" /\ unsent = << >> /\ got = << >>
      /\ toServer = << >> /\ toClient = << >> /\ state = "open" /\ up = TRUE
      /\ game = [stage |-> "login", tries |-> 0, attacks |-> 0]
      /\ asked = << >> /\ handled = << >>
  BY DEF Init
<1>8. Asking = << >> /\ Answers = << >>
  BY <1>6, <1>7 DEF Asking, Answers
<1>9. Answered
  <2>1. Path(<< >>, Place, "off")
    BY <1>7, PathEmpty DEF Place
  <2>2. Leading(<< >>, "off")
    BY <1>7, <1>8, <2>1, GoalsAre DEF Leading
  <2> QED BY <2>2 DEF Answered
<1>10. Meeting
  BY <1>7, <1>8, <1>9 DEF Meeting
<1>11. TypeOK
  <2>1. game \in Games
    BY <1>7, SizeType DEF Games, Stages
  <2>2. window.space >= 0 /\ window.at + window.space <= Capacity
    BY <1>3, <1>4
  <2>3. << >> \in Seq(Byte) /\ "NAME" \in Requests
    BY DEF Requests
  <2> QED BY <1>3, <1>7, <2>1, <2>2, <2>3 DEF TypeOK, Front
<1>12. HandledWhole /\ Connected
  BY <1>7 DEF HandledWhole, Connected
<1> QED BY <1>5, <1>7, <1>10, <1>11, <1>12 DEF EInv


\* While a request is under way the game waits for it, or the other player has gone.
LEMMA InStepHolds ==
    ASSUME EInv
    PROVE  InStep
<1>1. pc = "failed" => state = "reset"
  BY DEF EInv, Meeting
<1>2. ASSUME state # "reset"
      PROVE  \A i \in 1 .. Len(Answers) :
                IF i = 1 \/ Answers[i - 1].nth = Size[Answers[i - 1].type]
                THEN Answers[i].nth = 1
                ELSE Answers[i].type = Answers[i - 1].type
                     /\ Answers[i].nth = Answers[i - 1].nth + 1
  <2>1. Whole(Answers)
    <3>1. CASE Answered
      <4>1. PICK s, q : Leading(s, q)
        BY <3>1 DEF Answered
      <4>2. Whole(s)
        BY <4>1 DEF Leading, Path
      <4>3. Whole(s \o Packet("ERROR"))
        BY <4>2, WholeAppend, ResultsAre
      <4> QED BY <4>1, <4>2, <4>3 DEF Leading
    <3>2. CASE Parted
      BY <3>2 DEF Parted, Whole
    <3> QED BY <1>2, <3>1, <3>2 DEF EInv, Meeting
  <2> TAKE i \in 1 .. Len(Answers)
  <2>2. CASE i = 1
    <3>1. Answers # << >>
      BY <2>1, <2>2 DEF Whole
    <3> QED BY <2>1, <2>2, <3>1 DEF Whole
  <2>3. CASE i # 1
    <3>1. i - 1 \in 1 .. Len(Answers) /\ (i - 1) + 1 = i /\ i <= Len(Answers)
      BY <2>1, <2>3 DEF Whole
    <3>2. Follows(Answers[i - 1], Answers[i])
      BY <2>1, <3>1 DEF Whole
    <3> QED BY <2>3, <3>2 DEF Follows, Ends
  <2> QED BY <2>2, <2>3
<1> QED BY <1>1, <1>2 DEF InStep, Answers

LEMMA SessionLastsHolds ==
    ASSUME EInv
    PROVE  SessionLasts
<1>1. mRecvBuffer.aSize \in 0 .. Capacity /\ mRecvBuffer.aSize < Capacity
  BY FrontIs DEF EInv, Posted
<1>2. window = [at |-> mRecvBuffer.aSize, space |-> Capacity - mRecvBuffer.aSize]
  BY FrontIs DEF EInv, Posted
<1>3. window.space > 0
  BY <1>1, <1>2
<1> QED BY <1>3 DEF SessionLasts, EInv, Connected

------------------------------------------------------------------------------
(* The client's steps keep it.                                                *)

\* What a step that leaves the session alone keeps.
LEMMA SessionSame ==
    ASSUME EInv, UNCHANGED <<mRecvBuffer, window>>
    PROVE  /\ Posted'
           /\ mRecvBuffer' \in Buffers /\ WellFormed(mRecvBuffer)'
           /\ window'.space >= 0 /\ window'.at + window'.space <= Capacity
  BY DEF EInv, Posted, TypeOK

\* A request more has been asked.
LEMMA AskedMore ==
    ASSUME EInv, NEW t \in Requests, asked' = Append(asked, t), handled' = handled
    PROVE  /\ asked' \in Seq(Requests) /\ handled' \in Seq(Seq(Byte)) /\ HandledWhole'
           /\ Len(asked') = Len(asked) + 1 /\ asked'[Len(asked')] = t
<1>1. /\ asked \in Seq(Requests) /\ handled \in Seq(Seq(Byte)) /\ Len(handled) <= Len(asked)
      /\ \A i \in 1 .. Len(handled) : handled[i] = Packet(asked[i])
  BY DEF EInv, HandledWhole
<1>2. /\ asked' \in Seq(Requests) /\ Len(asked') = Len(asked) + 1
      /\ \A i \in 1 .. Len(asked) : asked'[i] = asked[i]
      /\ asked'[Len(asked) + 1] = t
  BY <1>1, AppendProperties
<1>3. HandledWhole'
  <2>1. Len(handled) \in Nat /\ Len(asked) \in Nat
    BY <1>1
  <2>2. ASSUME NEW i \in 1 .. Len(handled) PROVE handled[i] = Packet(asked'[i])
    <3>1. i \in 1 .. Len(asked)
      BY <1>1, <2>1
    <3> QED BY <1>1, <1>2, <3>1
  <2> QED BY <1>1, <1>2, <2>1, <2>2 DEF HandledWhole
<1> QED BY <1>1, <1>2, <1>3

\* The client asks for what the game waits for.
LEMMA Asks ==
    ASSUME EInv, state # "reset", Meeting, Asking = << >>,
           NEW t \in Requests, Request(t), t \in Goals[game.stage],
           got' = << >>,
           toClient' = IF game.stage \in Left THEN Packet("ERROR") ELSE << >>,
           UNCHANGED <<toServer, state, session, game, handled>>
    PROVE  Meeting'
<1>1. /\ pc' = "sending" /\ request' = t /\ unsent' = Packet(t) /\ asked' = Append(asked, t)
      /\ mRecvBuffer' = mRecvBuffer /\ toServer' = toServer /\ game' = game
      /\ handled' = handled
  BY DEF Request, session
<1>2. Packet(t) \in Seq(Byte) /\ Packet(t) # << >>
  BY PacketIs DEF Types
<1>3. Contents(mRecvBuffer) = << >> /\ toServer = << >>
  BY StreamsType, Pieces DEF Asking
<1>4. Asking' = Packet(t)
  <2>1. Asking' = << >> \o << >> \o Packet(t)
    BY <1>1, <1>3 DEF Asking
  <2>2. << >> \o Packet(t) = Packet(t) /\ << >> \o << >> = << >>
    BY <1>2, ConcatEmptySeq
  <2> QED BY <2>1, <2>2
<1>5. Answers' = IF game.stage \in Left THEN << >> \o Packet("ERROR") ELSE << >>
  BY ConcatEmptySeq DEF Answers
<1>6. Place' = t
  BY <1>1 DEF Place
<1>7. Answered'
  <2>1. Path(<< >>, t, t)
    BY PathEmpty
  <2>2. Leading(<< >>, t)'
    BY <1>1, <1>5, <1>6, <2>1 DEF Leading
  <2> QED BY <2>2 DEF Answered
<1>8. Len(asked') = Len(asked) + 1 /\ asked'[Len(asked')] = t
  BY <1>1, AskedMore
<1>9. Len(asked) = Len(handled)
  <2>1. Len(handled) \in Nat
    BY DEF EInv
  <2> QED BY <2>1 DEF Meeting
<1>10. "sending" \notin Reading /\ "sending" # "failed"
  BY ReadingIs
<1> QED BY <1>1, <1>2, <1>4, <1>7, <1>8, <1>9, <1>10 DEF Meeting

LEMMA ConnectKeeps ==
    ASSUME EInv, Connect
    PROVE  EInv'
<1>1. /\ pc = "off" /\ Request("NAME") /\ "NAME" \in Requests
      /\ UNCHANGED <<got, toServer, toClient, state, session, game, handled>>
  BY DEF Connect, Requests
<1>2. Posted' /\ TypeOK' /\ Connected'
  <2>1. UNCHANGED <<mRecvBuffer, window>>
    BY <1>1 DEF session
  <2>2. Posted' /\ mRecvBuffer' \in Buffers /\ WellFormed(mRecvBuffer)'
        /\ window'.space >= 0 /\ window'.at + window'.space <= Capacity
    BY <2>1, SessionSame
  <2>3. Packet("NAME") \in Seq(Byte)
    BY <1>1, PacketIs DEF Types
  <2>4. up' = up
    BY <1>1 DEF session
  <2> QED BY <1>1, <2>2, <2>3, <2>4 DEF TypeOK, EInv, Connected, Request
<1>3. asked' \in Seq(Requests) /\ handled' \in Seq(Seq(Byte)) /\ HandledWhole'
  BY <1>1, AskedMore DEF Request
<1>4. ASSUME state # "reset" PROVE Meeting'
  <2>1. Meeting /\ Answered /\ got = << >>
    BY <1>1, <1>4, ReadingIs DEF EInv, Meeting, Parted
  <2>2. PICK s, q : Leading(s, q)
    BY <2>1 DEF Answered
  <2>3. Place = "off" /\ "off" \notin Requests
    BY <1>1 DEF Place, Requests
  <2>4. s = << >> /\ q = "off"
    BY <2>2, <2>3, PathEnds, ExpectedIs DEF Leading
  <2>5. game.stage = "login"
    <3>1. game.stage \in Stages
      BY DEF EInv, TypeOK, Games
    <3>2. "off" \in Goals[game.stage]
      BY <2>2, <2>4 DEF Leading
    <3> QED BY <3>1, <3>2, GoalsAre DEF Stages
  <2>6. Asking = << >>
    <3>1. request \in Requests
      BY DEF EInv, TypeOK
    <3> QED BY <2>2, <2>3, <3>1 DEF Leading
  <2>7. Answers = << >> /\ toClient = << >>
    <3>1. Answers = << >>
      BY <2>2, <2>4, <2>5 DEF Leading
    <3>2. toClient = << >>
      BY <3>1, StreamsType, ConcatEqualIffEmpty DEF Answers
    <3> QED BY <3>1, <3>2
  <2>8. "NAME" \in Goals[game.stage] /\ game.stage \notin Left
    BY <2>5, GoalsAre
  <2>9. got' = << >> /\ toClient' = IF game.stage \in Left THEN Packet("ERROR") ELSE << >>
    BY <1>1, <2>1, <2>7, <2>8
  <2> QED BY <1>1, <1>4, <2>1, <2>6, <2>8, <2>9, Asks
<1> QED BY <1>1, <1>2, <1>3, <1>4 DEF EInv

\* A step that only moves bytes along the two streams.
LEMMA MeetingSame ==
    ASSUME EInv, Meeting, Answers' = Answers, Asking' = Asking, Place' = Place,
           UNCHANGED <<request, game, asked, handled>>,
           pc' # "failed", pc' \notin Reading => got' = << >>, Parted => pc' = pc
    PROVE  Meeting'
<1>1. ASSUME Answered PROVE Answered'
  <2>1. PICK s, q : Leading(s, q)
    BY <1>1 DEF Answered
  <2>2. Leading(s, q)'
    BY <2>1 DEF Leading
  <2> QED BY <2>2 DEF Answered
<1>2. ASSUME Parted PROVE Parted'
  BY <1>2 DEF Parted
<1> QED BY <1>1, <1>2 DEF Meeting

LEMMA SendKeeps ==
    ASSUME EInv, Send
    PROVE  EInv'
<1>1. /\ pc = "sending"
      /\ UNCHANGED <<request, got, toClient, state, session, game, history>>
  BY DEF Send
<1>2. /\ UNCHANGED <<request, got, toClient, state, up, mRecvBuffer, window, game,
                    asked, handled>>
      /\ handled' \in Seq(Seq(Byte)) /\ asked' \in Seq(Requests)
  BY <1>1 DEF session, history, EInv
<1>3. Posted' /\ Connected' /\ HandledWhole'
  BY <1>2, SessionSame DEF EInv, Connected, HandledWhole
<1>4. CASE state = "reset" /\ pc' = "failed" /\ UNCHANGED <<unsent, toServer>>
  <2>1. TypeOK'
    BY <1>2, <1>4 DEF EInv, TypeOK
  <2> QED BY <1>2, <1>3, <1>4, <2>1 DEF EInv
<1>5. ASSUME state # "reset", NEW n \in 1 .. Len(unsent),
             toServer' = toServer \o SubSeq(unsent, 1, n),
             unsent' = SubSeq(unsent, n + 1, Len(unsent)),
             pc' = IF n = Len(unsent) THEN "reply" ELSE "sending"
      PROVE  EInv'
  <2>1. /\ toServer \in Seq(Byte) /\ unsent \in Seq(Byte)
        /\ Contents(mRecvBuffer) \in Seq(Byte)
    BY StreamsType
  <2>2. /\ SubSeq(unsent, 1, n) \in Seq(Byte) /\ unsent' \in Seq(Byte)
        /\ toServer' \o unsent' = toServer \o unsent
    <3>1. /\ SubSeq(unsent, 1, n) \in Seq(Byte)
          /\ SubSeq(unsent, n + 1, Len(unsent)) \in Seq(Byte)
          /\ (toServer \o SubSeq(unsent, 1, n)) \o SubSeq(unsent, n + 1, Len(unsent))
               = toServer \o unsent
      <4>1. n \in 1 .. Len(unsent)
        BY <1>5
      <4> QED BY ONLY <2>1, <4>1, MovedOn
    <3> QED BY <1>5, <3>1
  <2>3. toServer' \in Seq(Byte)
    BY <1>5, <2>1, <2>2, ConcatProperties
  <2>4. Asking' = Asking
    <3>1. Asking = Contents(mRecvBuffer) \o (toServer \o unsent)
      BY <2>1, Pieces DEF Asking
    <3>2. Contents(mRecvBuffer) \o toServer' \o unsent'
            = Contents(mRecvBuffer) \o (toServer' \o unsent')
      <4>1. /\ Contents(mRecvBuffer) \in Seq(Byte) /\ toServer' \in Seq(Byte)
            /\ unsent' \in Seq(Byte)
        BY <2>1, <2>2, <2>3
      <4> QED BY ONLY <4>1, ConcatAssociative
    <3> QED BY <1>2, <2>2, <3>1, <3>2 DEF Asking
  <2>5. Answers' = Answers
    BY <1>2 DEF Answers
  <2>6. Place' = Place
    BY <1>1, <1>2, <1>5 DEF Place
  <2>7. Meeting /\ got = << >>
    BY <1>1, <1>5, ReadingIs DEF EInv, Meeting
  <2>8. pc' # "failed" /\ ~Parted
    BY <1>1, <1>5 DEF Parted
  <2>9. Meeting'
    BY <1>2, <2>4, <2>5, <2>6, <2>7, <2>8, MeetingSame
  <2>10. TypeOK'
    BY <1>2, <1>5, <2>2, <2>3, ReadingIs DEF EInv, TypeOK
  <2> QED BY <1>2, <1>3, <2>9, <2>10 DEF EInv
<1> QED BY <1>4, <1>5 DEF Send

LEMMA ReciveKeeps ==
    ASSUME EInv, Recive
    PROVE  EInv'
<1>1. /\ pc \in Reading /\ toClient # << >>
      /\ UNCHANGED <<pc, request, unsent, toServer, state, up, mRecvBuffer, window, game,
                    asked, handled>>
  BY DEF Recive, session, history
<1>2. /\ got \in Seq(Byte) /\ toClient \in Seq(Byte)
  BY StreamsType
<1>3. PICK n \in 1 .. Lesser(Wanted - Len(got), Len(toClient)) :
          /\ got' = got \o SubSeq(toClient, 1, n)
          /\ toClient' = SubSeq(toClient, n + 1, Len(toClient))
  BY DEF Recive
<1>4. state # "reset"
  BY <1>1 DEF EInv, Connected
<1>5. n \in 1 .. Len(toClient)
  <2>1. Wanted \in Int
    <3>1. Header \in Nat /\ \A t \in Types : Size[t] \in Nat
      BY SizeType
    <3>2. \A t \in Awaited[pc] : t \in Types
      BY <1>1, ReadingIs DEF Awaited, Types, Results
    <3>3. \A t : Body(t) \in Int
      BY <3>1, <3>2, ResultsAre DEF Body, Types
    <3> QED BY <3>1, <3>3 DEF Wanted
  <2> QED BY <1>2, <2>1 DEF Lesser
<1>6. got' \in Seq(Byte) /\ toClient' \in Seq(Byte) /\ Answers' = Answers
  <2>1. /\ SubSeq(toClient, 1, n) \in Seq(Byte) /\ toClient' \in Seq(Byte)
        /\ got' \o toClient' = got \o toClient
    <3>1. /\ SubSeq(toClient, 1, n) \in Seq(Byte)
          /\ SubSeq(toClient, n + 1, Len(toClient)) \in Seq(Byte)
          /\ (got \o SubSeq(toClient, 1, n)) \o SubSeq(toClient, n + 1, Len(toClient))
               = got \o toClient
      BY ONLY <1>2, <1>5, MovedOn
    <3> QED BY <1>3, <3>1
  <2> QED BY <1>2, <1>3, <2>1, ConcatProperties DEF Answers
<1>7. Asking' = Asking /\ Place' = Place
  BY <1>1 DEF Asking, Place
<1>8. Meeting'
  <2>1. Meeting /\ pc # "failed"
    BY <1>4 DEF EInv, Meeting
  <2> QED BY <1>1, <1>6, <1>7, <2>1, MeetingSame
<1>9. Posted' /\ Connected' /\ HandledWhole' /\ TypeOK'
  BY <1>1, <1>4, <1>6, SessionSame DEF EInv, Connected, HandledWhole, TypeOK
<1> QED BY <1>1, <1>8, <1>9 DEF EInv

LEMMA ReciveFailsKeeps ==
    ASSUME EInv, ReciveFails
    PROVE  EInv'
<1>1. /\ state = "reset" /\ pc' = "failed"
      /\ UNCHANGED <<request, unsent, got, toServer, toClient, state, up, mRecvBuffer,
                    window, game, asked, handled>>
  BY DEF ReciveFails, Goes, session
<1>2. Posted' /\ Connected' /\ HandledWhole' /\ TypeOK'
  BY <1>1, SessionSame DEF EInv, Connected, HandledWhole, TypeOK
<1> QED BY <1>1, <1>2 DEF EInv

LEMMA DisconnectKeeps ==
    ASSUME EInv, Disconnect
    PROVE  EInv'
<1>1. /\ state = "open" /\ state' = "hung up"
      /\ UNCHANGED <<pc, request, unsent, got, toServer, toClient, up, mRecvBuffer,
                    window, game, asked, handled>>
  BY DEF Disconnect, client, session, history
<1>2. Posted' /\ Connected' /\ HandledWhole' /\ TypeOK'
  BY <1>1, SessionSame DEF EInv, Connected, HandledWhole, TypeOK
<1>3. Answers' = Answers /\ Asking' = Asking /\ Place' = Place
  BY <1>1 DEF Answers, Asking, Place
<1>4. Meeting'
  <2>1. Meeting /\ pc # "failed" /\ (pc \notin Reading => got = << >>)
    BY <1>1 DEF EInv, Meeting
  <2> QED BY <1>1, <1>3, <2>1, MeetingSame
<1> QED BY <1>1, <1>2, <1>4 DEF EInv

\* Nothing changes, or the server stops.
LEMMA StopsKeeps ==
    ASSUME EInv, ServerStops
    PROVE  EInv'
<1>1. /\ state' \in {"closed", "reset"} /\ up' = FALSE /\ state = "open"
      /\ \/ state' = "closed" /\ toClient' = toClient
         \/ state' = "reset" /\ toClient' = << >>
      /\ UNCHANGED <<pc, request, unsent, got, toServer, mRecvBuffer,
                    window, game, asked, handled>>
  BY DEF ServerStops, client, history
<1>2. Posted' /\ Connected' /\ HandledWhole' /\ TypeOK'
  <2>1. toClient' \in Seq(Byte)
    <3>1. toClient \in Seq(Byte)
      BY StreamsType
    <3>2. << >> \in Seq(Byte)
      BY EmptySeq
    <3> QED BY <1>1, <3>1, <3>2
  <2>2. Posted' /\ Connected' /\ HandledWhole'
    BY <1>1, SessionSame DEF EInv, Connected, HandledWhole
  <2>3. TypeOK'
    BY <1>1, <2>1, SessionSame DEF EInv, TypeOK
  <2> QED BY <2>2, <2>3
<1>3. ASSUME state' # "reset" PROVE Meeting'
  <2>1. Meeting /\ pc # "failed" /\ (pc \notin Reading => got = << >>)
    BY <1>1 DEF EInv, Meeting
  <2>2. Answers' = Answers /\ Asking' = Asking /\ Place' = Place
    BY <1>1, <1>3 DEF Answers, Asking, Place
  <2> QED BY <1>1, <2>1, <2>2, MeetingSame
<1> QED BY <1>1, <1>2, <1>3 DEF EInv

LEMMA StutterKeeps ==
    ASSUME EInv, UNCHANGED vars
    PROVE  EInv'
<1>1. UNCHANGED <<pc, request, unsent, got, toServer, toClient, state, up, mRecvBuffer,
                 window, game, asked, handled>>
  BY DEF vars, client, session, history
<1>2. Posted' /\ Connected' /\ HandledWhole' /\ TypeOK'
  BY <1>1, SessionSame DEF EInv, Connected, HandledWhole, TypeOK
<1>3. Answers' = Answers /\ Asking' = Asking /\ Place' = Place
  BY <1>1 DEF Answers, Asking, Place
<1>4. ASSUME state' # "reset" PROVE Meeting'
  <2>1. Meeting /\ pc # "failed" /\ (pc \notin Reading => got = << >>)
    BY <1>1, <1>4 DEF EInv, Meeting
  <2> QED BY <1>1, <1>3, <2>1, MeetingSame
<1> QED BY <1>1, <1>2, <1>4 DEF EInv

LEMMA NothingKeeps ==
    ASSUME EInv, RecvNothing
    PROVE  EInv'
<1>1. /\ up /\ up' = FALSE
      /\ UNCHANGED <<pc, request, unsent, got, toServer, toClient, state, mRecvBuffer,
                    window, game, asked, handled>>
  BY DEF RecvNothing, client, history
<1>2. state = "hung up"
  <2>1. /\ mRecvBuffer.aSize \in 0 .. Capacity /\ mRecvBuffer.aSize < Capacity
        /\ window = [at |-> mRecvBuffer.aSize, space |-> Capacity - mRecvBuffer.aSize]
    BY FrontIs DEF EInv, Posted
  <2>2. window.space # 0
    BY <2>1
  <2> QED BY <2>2 DEF RecvNothing
<1>3. Posted' /\ Connected' /\ HandledWhole' /\ TypeOK'
  BY <1>1, <1>2, SessionSame DEF EInv, Connected, HandledWhole, TypeOK
<1>4. Answers' = Answers /\ Asking' = Asking /\ Place' = Place
  BY <1>1 DEF Answers, Asking, Place
<1>5. Meeting'
  <2>1. Meeting /\ pc # "failed" /\ (pc \notin Reading => got = << >>)
    BY <1>2 DEF EInv, Meeting
  <2> QED BY <1>1, <1>4, <2>1, MeetingSame
<1> QED BY <1>1, <1>3, <1>5 DEF EInv

\* A call of the library returns: types, and what concerns the session.
LEMMA ReturnsTypes ==
    ASSUME EInv, Returns
    PROVE  /\ TypeOK' /\ Posted' /\ Connected' /\ HandledWhole'
           /\ asked' \in Seq(Requests) /\ handled' \in Seq(Seq(Byte))
<1>1. /\ got' = << >>
      /\ UNCHANGED <<toServer, toClient, state, up, mRecvBuffer, window, game, handled>>
  BY DEF Returns, session
<1>2. \/ \E t \in Requests : Request(t)
      \/ \E to \in {"start", "loop", "after", "done", "ended", "failed"} : Goes(to)
  BY DEF Returns, Requests, AfterReply
<1>3. Posted' /\ Connected'
  BY <1>1, SessionSame DEF EInv, Connected
<1>4. got' \in Seq(Byte) /\ toServer' \in Seq(Byte) /\ toClient' \in Seq(Byte)
  <2>1. toServer \in Seq(Byte) /\ toClient \in Seq(Byte)
    BY StreamsType
  <2>2. << >> \in Seq(Byte)
    BY EmptySeq
  <2> QED BY <1>1, <2>1, <2>2
<1>5. ASSUME NEW t \in Requests, Request(t)
      PROVE  /\ TypeOK' /\ HandledWhole'
             /\ asked' \in Seq(Requests) /\ handled' \in Seq(Seq(Byte))
  <2>1. /\ pc' = "sending" /\ request' = t /\ unsent' = Packet(t)
        /\ asked' = Append(asked, t)
    BY <1>5 DEF Request
  <2>2. unsent' \in Seq(Byte)
    BY <2>1, PacketIs DEF Types
  <2>3. TypeOK'
    BY <1>1, <1>4, <2>1, <2>2, SessionSame DEF EInv, TypeOK
  <2> QED BY <1>1, <2>1, <2>3, AskedMore
<1>6. ASSUME NEW to \in {"start", "loop", "after", "done", "ended", "failed"}, Goes(to)
      PROVE  /\ TypeOK' /\ HandledWhole'
             /\ asked' \in Seq(Requests) /\ handled' \in Seq(Seq(Byte))
  <2>1. pc' = to /\ request' = request /\ unsent' = unsent /\ asked' = asked
    BY <1>6 DEF Goes
  <2>2. TypeOK'
    BY <1>1, <1>4, <2>1, ReadingIs, SessionSame DEF EInv, TypeOK
  <2>3. HandledWhole'
    BY <1>1, <2>1 DEF EInv, HandledWhole
  <2> QED BY <1>1, <2>1, <2>2, <2>3 DEF EInv
<1> QED BY <1>2, <1>3, <1>5, <1>6

\* What is left of two streams when some of the first has been read.
LEMMA Rest ==
    ASSUME NEW S, NEW s \in Seq(S), NEW e \in Seq(S), NEW n \in 1 .. Len(s)
    PROVE  SubSeq(s \o e, n + 1, Len(s \o e)) = SubSeq(s, n + 1, Len(s)) \o e
<1> DEFINE u == SubSeq(s, 1, n)
           r == SubSeq(s, n + 1, Len(s))
<1>1. /\ u \in Seq(S) /\ Len(u) = n /\ r \in Seq(S)
  BY Cut
<1>2. u \o r = s
  <2>1. SubSeq(s, 1, n) \o SubSeq(s, n + 1, Len(s)) = SubSeq(s, 1, Len(s))
    BY ConcatAdjacentSubSeq
  <2> QED BY <2>1, SubSeqFull
<1> HIDE DEF u, r
<1>3. (u \o r) \o e = u \o (r \o e)
  BY <1>1, ConcatAssociative
<1>4. r \o e \in Seq(S)
  BY <1>1, ConcatProperties
<1> DEFINE v == r \o e
<1>5. v \in Seq(S) /\ s \o e = u \o v
  BY <1>2, <1>3, <1>4
<1> HIDE DEF v
<1>6. v = SubSeq(u \o v, Len(u) + 1, Len(u \o v))
  BY <1>1, <1>5, Begins
<1> QED BY <1>1, <1>5, <1>6 DEF v, r

\* The packet a call returns with is the first of the answers, or it is the error.
LEMMA ReturnsMeeting ==
    ASSUME EInv, Returns, state # "reset"
    PROVE  Meeting'
<1> DEFINE t == Head(got).type
<1>1. /\ pc \in Reading /\ Len(got) = Wanted /\ got' = << >>
      /\ UNCHANGED <<toServer, toClient, state, up, mRecvBuffer, window, game, handled>>
      /\ UNCHANGED session
  BY DEF Returns, session
<1>2. /\ got \in Seq(Byte) /\ toClient \in Seq(Byte) /\ Meeting
      /\ request \in Requests /\ game.stage \in Stages
  BY StreamsType DEF EInv, TypeOK, Games
<1>3. /\ got # << >> /\ t = got[1].type /\ Len(got) = Header + Body(t) /\ Len(got) \in Nat \ {0}
  <2>1. Header \in Nat /\ Header > 0 /\ Len(got) \in Nat
    BY <1>2, SizeType
  <2>2. ~(Len(got) < Header)
    BY <1>1, <2>1 DEF Wanted
  <2> QED BY <1>1, <1>2, <2>1, <2>2 DEF Wanted
<1>4. Answers # << >> /\ Answers[1] = got[1]
  BY <1>2, <1>3, Joined DEF Answers
<1> HIDE DEF t
<1>5. PICK s, q : Leading(s, q)
  BY <1>2, <1>4 DEF Meeting, Answered, Parted
<1>6. s \in Seq(Answer) /\ s \in Seq(Byte) /\ Packet("ERROR") \in Seq(Byte)
  <2>1. s \in Seq(Answer)
    BY <1>5 DEF Leading, Path, Whole
  <2>2. s \in Seq(Byte)
    BY <2>1, AnswerIs, SeqMonotonic
  <2>3. "ERROR" \in Types
    BY ResultsAre DEF Types
  <2> QED BY <2>1, <2>2, <2>3, PacketIs
<1>7. pc = "reply" => Place = request
  BY DEF Place
<1>8. pc # "reply" => Place = pc
  BY <1>1, ReadingIs DEF Place
<1>9. Expected(Place) = Awaited[pc]
  <2>1. pc = "reply" => Expected(Place) = {"OK"}
    BY <1>2, <1>7, ExpectedIs
  <2>2. Awaited["reply"] = {"OK"}
    BY DEF Awaited
  <2>3. pc \in {"start", "loop", "after"} => Expected(Place) = Awaited[pc]
    BY <1>8 DEF Expected, Requests
  <2> QED BY <1>1, <2>1, <2>2, <2>3, ReadingIs
<1>10. CASE s # << >>
  <2> DEFINE u == After(Place, t)
             r == SubSeq(s, Size[t] + 1, Len(s))
             e == IF game.stage \in Left THEN Packet("ERROR") ELSE << >>
  <2>1. s[1].type = t
    <3>1. s[1] = Answers[1]
      BY <1>5, <1>6, <1>10, Joined DEF Leading
    <3> QED BY <1>3, <1>4, <3>1
  <2>2. t \in Awaited[pc] /\ t # "ERROR" /\ Path(r, u, q) /\ (u \in Requests => r = << >>)
    <3>1. t \in Expected(Place) /\ Path(r, u, q) /\ (u \in Requests => r = << >>)
      BY <1>5, <1>10, <2>1, PathFirst DEF Leading
    <3> QED BY <1>9, <3>1, ExpectedIs
  <2>3. Size[t] <= Len(s) /\ t \in Results
    BY <1>5, <1>10, <2>1, WholeFirst DEF Leading, Path
  <2>4. Len(got) = Size[t] /\ Len(got) \in 1 .. Len(s)
    <3>1. Body(t) = Size[t] - Header
      BY <2>2 DEF Body
    <3>2. Header \in Nat /\ Size[t] \in Nat
      BY <2>3, SizeType DEF Types
    <3> QED BY <1>3, <1>6, <2>3, <3>1, <3>2
  <2>5. e \in Seq(Byte) /\ Answers = s \o e
    <3>1. s \o << >> = s /\ << >> \in Seq(Byte)
      BY <1>6, ConcatEmptySeq
    <3> QED BY <1>5, <1>6, <3>1 DEF Leading
  <2> HIDE DEF e
  <2>6. toClient = SubSeq(s, Len(got) + 1, Len(s)) \o e
    <3>1. toClient = SubSeq(Answers, Len(got) + 1, Len(Answers))
      BY <1>2, Begins DEF Answers
    <3>2. SubSeq(s \o e, Len(got) + 1, Len(s \o e)) = SubSeq(s, Len(got) + 1, Len(s)) \o e
      BY <1>6, <2>4, <2>5, Rest
    <3>3. Answers = s \o e
      BY <2>5
    <3> QED BY ONLY <3>1, <3>2, <3>3
  <2>7. toClient = r \o e /\ r \in Seq(Byte)
    <3>1. r \in Seq(Byte)
      BY <1>6, <2>4, Cut
    <3> QED BY <2>4, <2>6, <3>1
  <2> HIDE DEF r
  <2>8. Asking = << >>
    BY <1>5, <1>10 DEF Leading
  <2> HIDE DEF u
  <2>9. \/ u \in Requests /\ Request(u)
        \/ u \in {"start", "loop", "after", "done"} /\ Goes(u)
    <3>1. CASE pc = "reply"
      <4>1. t = "OK" /\ Place = request
        BY <1>7, <2>2, <3>1 DEF Awaited
      <4>2. u = AfterReply
        BY <4>1 DEF After, AfterReply, u
      <4>3. Goes(AfterReply)
        BY <2>2, <3>1, <4>1 DEF Returns, t
      <4> QED BY <4>2, <4>3 DEF AfterReply
    <3>2. CASE pc = "start"
      <4>1. t = "GAME_START" /\ Place = "start"
        BY <1>8, <2>2, <3>2 DEF Awaited
      <4>2. u = "MAP"
        BY <4>1, AfterIs DEF u
      <4>3. Request("MAP")
        BY <2>2, <3>2, <4>1 DEF Returns, t
      <4> QED BY <4>2, <4>3 DEF Requests
    <3>3. CASE pc = "loop"
      <4>1. t \in {"MY_TURN", "ATTACK_RESULT", "GAME_OVER"} /\ Place = "loop"
        BY <1>8, <2>2, <3>3 DEF Awaited
      <4>2. \/ t = "MY_TURN" /\ Request("ATTACK")
            \/ t = "ATTACK_RESULT" /\ Goes("loop")
            \/ t = "GAME_OVER" /\ Goes("after")
        BY <2>2, <3>3, <4>1 DEF Returns, t
      <4> QED BY <4>1, <4>2, AfterIs DEF Requests, u
    <3>4. CASE pc = "after"
      <4>1. t \in {"NEXT_GAME", "ALL_OVER"} /\ Place = "after"
        BY <1>8, <2>2, <3>4 DEF Awaited
      <4>2. \/ t = "NEXT_GAME" /\ Request("MAP")
            \/ t = "ALL_OVER" /\ Goes("done")
        BY <2>2, <3>4, <4>1 DEF Returns, t
      <4> QED BY <4>1, <4>2, AfterIs DEF Requests, u
    <3> QED BY <1>1, <3>1, <3>2, <3>3, <3>4, ReadingIs
  <2>10. CASE u \in Requests /\ Request(u)
    <3>1. r = << >> /\ q = u
      BY <2>2, <2>10, PathEmpty
    <3>2. u \in Goals[game.stage]
      BY <1>5, <3>1 DEF Leading
    <3>3. toClient' = IF game.stage \in Left THEN Packet("ERROR") ELSE << >>
      <4>1. << >> \o e = e
        BY <2>5, ConcatEmptySeq
      <4> QED BY <1>1, <2>7, <3>1, <4>1 DEF e
    <3> QED BY <1>1, <1>2, <2>8, <2>10, <3>2, <3>3, Asks
  <2>11. CASE u \in {"start", "loop", "after", "done"} /\ Goes(u)
    <3>1. pc' = u /\ request' = request /\ unsent' = unsent /\ asked' = asked
      BY <2>11 DEF Goes
    <3>2. Place' = u
      BY <2>11, <3>1 DEF Place
    <3>3. Asking' = << >>
      BY <1>1, <2>8, <3>1 DEF Asking
    <3>4. Answers' = IF game.stage \in Left THEN r \o Packet("ERROR") ELSE r
      <4>1. Answers' = toClient
        BY <1>1, <1>2, ConcatEmptySeq DEF Answers
      <4>2. r \o << >> = r
        BY <2>7, ConcatEmptySeq
      <4> QED BY <2>7, <4>1, <4>2 DEF e
    <3>5. PICK x : x = r
      OBVIOUS
    <3>10. Leading(x, q)'
      BY <1>1, <1>5, <2>2, <3>2, <3>3, <3>4, <3>5 DEF Leading
    <3>6. Answered'
      BY <3>10 DEF Answered
    <3>7. Len(asked') = Len(handled')
      <4>1. Len(handled) \in Nat
        BY DEF EInv
      <4> QED BY <1>1, <1>2, <2>8, <3>1, <4>1 DEF Meeting
    <3>8. Len(handled) \in Nat
      BY DEF EInv
    <3>9. pc' # "failed"
      BY <2>11, <3>1
    <3> QED BY <1>1, <3>3, <3>6, <3>7, <3>8, <3>9 DEF Meeting
  <2> QED BY <2>9, <2>10, <2>11
<1>11. CASE s = << >>
  <2>1. game.stage = "left" /\ Answers = Packet("ERROR") /\ Place \in {"MAP", "loop", "ATTACK"}
    <3>1. game.stage \in Left
      BY <1>4, <1>5, <1>11 DEF Leading
    <3>2. Answers = << >> \o Packet("ERROR")
      BY <1>5, <1>11, <3>1 DEF Leading
    <3>3. << >> \o Packet("ERROR") = Packet("ERROR")
      BY <1>6, ConcatEmptySeq
    <3>4. q = Place /\ q \in Goals[game.stage]
      BY <1>5, <1>11, <3>1, PathEmpty DEF Leading
    <3>5. Place # "done"
      BY <1>1, <1>2, <1>7, <1>8, ReadingIs DEF Requests
    <3> QED BY <3>1, <3>2, <3>3, <3>4, <3>5, GoalsAre
  <2>2. t = "ERROR" /\ Len(Answers) = Size["ERROR"] /\ Size["ERROR"] \in Nat /\ Header \in Nat
    <3>1. "ERROR" \in Types
      BY ResultsAre DEF Types
    <3>2. /\ Size["ERROR"] \in Nat /\ Size["ERROR"] > 0 /\ Header \in Nat
          /\ Len(Packet("ERROR")) = Size["ERROR"]
      BY <3>1, SizeType, PacketIs
    <3>3. Packet("ERROR")[1] = [type |-> "ERROR", nth |-> 1]
      <4>1. \A i \in 1 .. Size["ERROR"] : Packet("ERROR")[i] = [type |-> "ERROR", nth |-> i]
        BY <3>1, PacketIs
      <4>2. 1 \in 1 .. Size["ERROR"]
        BY <3>2
      <4> QED BY <4>1, <4>2
    <3> QED BY <1>3, <1>4, <2>1, <3>2, <3>3
  <2>3. pc \in {"reply", "loop"}
    BY <1>1, <1>8, <2>1, ReadingIs
  <2>4. toClient = << >>
    <3>1. Body(t) = Size["ERROR"] - Header
      BY <2>2, <2>3 DEF Body
    <3>2. Len(got) = Len(Answers)
      BY <1>3, <2>2, <3>1
    <3>3. Len(Answers) = Len(got) + Len(toClient) /\ Len(got) \in Nat /\ Len(toClient) \in Nat
      BY <1>2, ConcatProperties DEF Answers
    <3>4. Len(toClient) = 0
      BY <3>2, <3>3
    <3> QED BY <1>2, <3>4
  <2>5. \/ pc = "reply" /\ Goes(AfterReply)
        \/ pc = "loop" /\ Goes("ended")
    BY <2>2, <2>3 DEF Returns, t, Awaited
  <2>6. /\ pc' \in {"loop", "ended"} /\ request' = request /\ unsent' = unsent /\ asked' = asked
        /\ Asking # << >> => request # "NAME"
    <3>1. CASE pc = "reply" /\ Goes(AfterReply)
      BY <1>7, <2>1, <3>1 DEF Goes, AfterReply
    <3>2. CASE pc = "loop" /\ Goes("ended")
      BY <1>2, <1>5, <1>8, <3>2 DEF Goes, Leading, Requests
    <3> QED BY <2>5, <3>1, <3>2
  <2>7. Asking' = Asking
    BY <1>1, <2>6 DEF Asking
  <2>8. Answers' = << >>
    BY <1>1, <2>4 DEF Answers
  <2>9. Parted'
    BY <1>1, <2>1, <2>6, <2>7, <2>8 DEF Parted
  <2> QED BY <1>1, <1>2, <2>6, <2>7, <2>9 DEF Meeting
<1> QED BY <1>10, <1>11

LEMMA ReturnsKeeps ==
    ASSUME EInv, Returns
    PROVE  EInv'
<1>1. state' = state
  BY DEF Returns
<1> QED BY <1>1, ReturnsTypes, ReturnsMeeting DEF EInv

------------------------------------------------------------------------------
(* What the other player and the matcher do keeps it.                         *)

LEMMA AnswersAreBytes ==
    ASSUME NEW x \in Seq(Answer)
    PROVE  x \in Seq(Byte)
  BY AnswerIs, SeqMonotonic

\* Something is sent behind what the client has still to read.
LEMMA SentBehind ==
    ASSUME EInv, NEW x \in Seq(Answer), Sent(x), got' = got
    PROVE  toClient' \in Seq(Byte) /\ Answers' = Answers \o x
<1>1. got \in Seq(Byte) /\ toClient \in Seq(Byte)
  BY StreamsType
<1>2. x \in Seq(Byte)
  BY AnswersAreBytes
<1>3. toClient' = toClient \o x
  BY DEF Sent
<1>4. toClient \o x \in Seq(Byte)
  BY <1>1, <1>2, ConcatProperties
<1>5. (got \o toClient) \o x = got \o (toClient \o x)
  BY <1>1, <1>2, ConcatAssociative
<1> QED BY <1>3, <1>4, <1>5 DEF Answers

LEMMA OthersKeeps ==
    ASSUME EInv, OthersAct
    PROVE  EInv'
<1>1. /\ up /\ state = "open"
      /\ UNCHANGED <<pc, request, unsent, got, toServer, state, up, mRecvBuffer, window,
                    asked, handled>>
  BY DEF OthersAct, client, session, history
<1>2. PICK last \in BOOLEAN : \E o \in Others(game, last) : game' = o.game /\ Sent(o.out)
  BY DEF OthersAct
<1>3. PICK o \in Others(game, last) : game' = o.game /\ Sent(o.out)
  BY <1>2
<1>4. game \in Games /\ request \in Requests /\ Meeting
  BY <1>1 DEF EInv, TypeOK
<1>5. Answered
  BY <1>3, <1>4 DEF Meeting, Parted, Others
<1>6. PICK s, q : Leading(s, q)
  BY <1>5 DEF Answered
<1>7. /\ game.stage \notin Left /\ q \notin Requests
      /\ o.game \in Games /\ o.game.stage \notin Left /\ o.out \in Seq(Answer)
      /\ \E r \in Goals[o.game.stage] : Path(s \o o.out, Place, r)
  <2>1. q \in Goals[game.stage] /\ Path(s, Place, q)
    BY <1>6 DEF Leading
  <2> QED BY <1>4, <2>1, OthersLead
<1>8. PICK r \in Goals[o.game.stage] : Path(s \o o.out, Place, r)
  BY <1>7
<1>9. Asking = << >>
  <2> SUFFICES ASSUME Asking # << >> PROVE FALSE
    OBVIOUS
  <2>1. s = << >> /\ Place = request /\ Path(s, Place, q)
    BY <1>6 DEF Leading
  <2>2. q = request
    BY <2>1, PathEmpty
  <2> QED BY <1>4, <1>7, <2>2
<1>10. toClient' \in Seq(Byte) /\ Answers' = Answers \o o.out
  BY <1>1, <1>3, <1>7, SentBehind
<1>11. Answers' = s \o o.out
  BY <1>6, <1>7, <1>10 DEF Leading
<1>12. Asking' = Asking /\ Place' = Place
  BY <1>1 DEF Asking, Place
<1>13. Answered'
  <2>1. PICK x : x = s \o o.out
    OBVIOUS
  <2>2. Leading(x, r)'
    BY <1>3, <1>7, <1>8, <1>9, <1>11, <1>12, <2>1 DEF Leading
  <2> QED BY <2>2 DEF Answered
<1>14. Meeting'
  BY <1>1, <1>4, <1>9, <1>12, <1>13 DEF Meeting
<1>15. Posted' /\ Connected' /\ HandledWhole' /\ TypeOK'
  BY <1>1, <1>3, <1>7, <1>10, SessionSame DEF EInv, Connected, HandledWhole, TypeOK
<1> QED BY <1>1, <1>14, <1>15 DEF EInv

LEMMA LeavesKeeps ==
    ASSUME EInv, OtherLeaves
    PROVE  EInv'
<1>1. /\ up /\ state = "open" /\ game.stage \in {"map", "ready", "mine", "theirs", "over"}
      /\ game' = [game EXCEPT !.stage = IF game.stage = "over" THEN "gone" ELSE "left"]
      /\ Sent(Packet("ERROR"))
      /\ UNCHANGED <<pc, request, unsent, got, toServer, state, up, mRecvBuffer, window,
                    asked, handled>>
  BY DEF OtherLeaves, client, session, history
<1>2. game \in Games /\ Meeting
  BY <1>1 DEF EInv, TypeOK
<1>3. /\ game' \in Games
      /\ game'.stage = IF game.stage = "over" THEN "gone" ELSE "left"
  BY <1>1, <1>2 DEF Games, Stages
<1>4. toClient' \in Seq(Byte) /\ Answers' = Answers \o Packet("ERROR")
  <2>1. Packet("ERROR") \in Seq(Answer)
    BY ResultsAre, AnswersType
  <2> QED BY <1>1, <2>1, SentBehind
<1>5. Asking' = Asking /\ Place' = Place
  BY <1>1 DEF Asking, Place
<1>6. Answered'
  <2>1. PICK s, q : Leading(s, q)
    BY <1>1, <1>2 DEF Meeting, Parted, Answered
  <2>2. q \in Goals[game'.stage]
    BY <1>1, <1>3, <2>1, GoalsAre DEF Leading
  <2>3. Answers' = s \o Packet("ERROR")
    BY <1>1, <1>4, <2>1 DEF Leading
  <2>4. Leading(s, q)'
    BY <1>1, <1>3, <1>5, <2>1, <2>2, <2>3 DEF Leading
  <2> QED BY <2>4 DEF Answered
<1>7. Meeting'
  BY <1>1, <1>2, <1>5, <1>6 DEF Meeting
<1>8. Posted' /\ Connected' /\ HandledWhole' /\ TypeOK'
  BY <1>1, <1>3, <1>4, SessionSame DEF EInv, Connected, HandledWhole, TypeOK
<1> QED BY <1>1, <1>7, <1>8 DEF EInv

------------------------------------------------------------------------------
(* The session's steps keep it.                                               *)

\* What becomes of the game when the last request is handled.
LEMMA HandledIs ==
    ASSUME EInv, Meeting, Asking # << >>, NEW last \in BOOLEAN
    PROVE  LET a == Handler(game, request, last)
           IN  /\ a.game \in Games /\ a.out \in Seq(Answer)
               /\ \/ /\ Parted /\ a = [game |-> game, out |-> << >>]
                  \/ /\ Answered /\ Place = request
                     /\ \E s, q : /\ q \in Goals[a.game.stage] /\ Path(s, request, q)
                                  /\ Answers \o a.out =
                                       IF a.game.stage \in Left THEN s \o Packet("ERROR")
                                                                ELSE s
<1> DEFINE a == Handler(game, request, last)
<1>1. game \in Games /\ request \in Requests /\ Answers \in Seq(Byte) /\ << >> \in Seq(Answer)
  BY StreamsType, EmptySeq DEF EInv, TypeOK
<1>2. CASE Parted
  <2>1. a = [game |-> game, out |-> << >>]
    BY <1>1, <1>2, HandlerLeft DEF Parted
  <2> QED BY <1>1, <1>2, <2>1
<1>3. CASE Answered
  <2>1. PICK s, q : Leading(s, q)
    BY <1>3 DEF Answered
  <2>2. s = << >> /\ Place = request /\ q = request /\ request \in Goals[game.stage]
    BY <2>1, PathEmpty DEF Leading
  <2>3. CASE game.stage \in Left
    <3>1. request # "NAME"
      BY <2>2, <2>3, GoalsAre
    <3>2. a = [game |-> game, out |-> << >>]
      BY <1>1, <2>3, <3>1, HandlerLeft
    <3>3. Answers \o << >> = Answers
      BY <1>1, ConcatEmptySeq
    <3>4. Answers = s \o Packet("ERROR") /\ Path(s, request, q) /\ q \in Goals[game.stage]
      BY <2>1, <2>2, <2>3 DEF Leading
    <3>5. a.game = game /\ a.out = << >>
      BY <3>2
    <3> HIDE DEF a
    <3>6. Answers \o a.out = s \o Packet("ERROR")
      BY <3>3, <3>4, <3>5
    <3> QED BY <1>1, <1>3, <2>2, <2>3, <3>4, <3>5, <3>6 DEF a
  <2>4. CASE game.stage \notin Left
    <3>1. /\ a.game \in Games /\ a.game.stage \notin Left /\ a.out \in Seq(Answer)
          /\ \E r \in Goals[a.game.stage] : Path(a.out, request, r)
      BY <1>1, <2>2, <2>4, HandlerLeads
    <3> HIDE DEF a
    <3>2. Answers = << >>
      BY <2>1, <2>2, <2>4 DEF Leading
    <3>3. << >> \o a.out = a.out
      BY <3>1, ConcatEmptySeq
    <3>4. PICK r \in Goals[a.game.stage] : Path(a.out, request, r)
      BY <3>1
    <3>5. Answers \o a.out = a.out
      BY <3>2, <3>3
    <3> QED BY <1>3, <2>2, <3>1, <3>4, <3>5 DEF a
  <2> QED BY <2>3, <2>4
<1> QED BY <1>2, <1>3 DEF Meeting

\* The last request has been handled.
LEMMA HandledMore ==
    ASSUME EInv, asked' = asked, Len(asked) = Len(handled) + 1,
           handled' = Append(handled, Packet(asked[Len(asked)]))
    PROVE  HandledWhole' /\ handled' \in Seq(Seq(Byte)) /\ Len(handled') = Len(asked)
<1>1. /\ asked \in Seq(Requests) /\ handled \in Seq(Seq(Byte))
      /\ \A i \in 1 .. Len(handled) : handled[i] = Packet(asked[i])
  BY DEF EInv, HandledWhole
<1>2. Len(handled) \in Nat /\ asked[Len(asked)] \in Requests
  <2>1. Len(asked) \in 1 .. Len(asked)
    BY <1>1
  <2> QED BY <1>1, <2>1
<1>3. Packet(asked[Len(asked)]) \in Seq(Byte)
  BY <1>2, PacketIs DEF Types
<1>4. /\ handled' \in Seq(Seq(Byte)) /\ Len(handled') = Len(handled) + 1
      /\ \A i \in 1 .. Len(handled) : handled'[i] = handled[i]
      /\ handled'[Len(handled) + 1] = Packet(asked[Len(asked)])
  BY <1>1, <1>3, AppendProperties
<1>5. ASSUME NEW i \in 1 .. Len(handled) + 1 PROVE handled'[i] = Packet(asked[i])
  <2>1. CASE i = Len(handled) + 1
    BY <1>4, <2>1
  <2>2. CASE i # Len(handled) + 1
    <3>1. i \in 1 .. Len(handled)
      BY <1>2, <2>2
    <3> QED BY <1>1, <1>4, <3>1
  <2> QED BY <2>1, <2>2
<1>6. HandledWhole'
  BY <1>2, <1>4, <1>5 DEF HandledWhole
<1> QED BY <1>4, <1>6

LEMMA CompletionKeeps ==
    ASSUME EInv, RecvCompletion
    PROVE  EInv'
<1>1. /\ up /\ state \notin {"closed", "reset"} /\ Meeting
      /\ UNCHANGED <<pc, request, unsent, got, state, up, asked>>
  BY DEF RecvCompletion, client, EInv, Connected
<1>2. PICK n \in 1 .. Lesser(window.space, Len(toServer)), last \in BOOLEAN :
          LET filled == Store(SwitchRegion(mRecvBuffer), window.at, SubSeq(toServer, 1, n))
          IN  \E s \in {OnRead(CommitBytes(filled, n), last)} :
                 /\ toServer' = SubSeq(toServer, n + 1, Len(toServer))
                 /\ mRecvBuffer' = SwitchRegion(s.buf) /\ window' = Window(s.buf)
                 /\ game' = s.game /\ Sent(s.out) /\ handled' = s.handled
  BY DEF RecvCompletion
<1> DEFINE chunk == SubSeq(toServer, 1, n)
           rest  == SubSeq(toServer, n + 1, Len(toServer))
           b == CommitBytes(Store(SwitchRegion(mRecvBuffer), window.at, chunk), n)
           s == OnRead(b, last)
           a == Handler(game, request, last)
           held == Contents(mRecvBuffer)
<1>3. /\ toServer' = rest /\ mRecvBuffer' = SwitchRegion(s.buf) /\ window' = Window(s.buf)
      /\ game' = s.game /\ Sent(s.out) /\ handled' = s.handled
  BY <1>2
<1>4. /\ toServer \in Seq(Byte) /\ unsent \in Seq(Byte) /\ held \in Seq(Byte)
      /\ Answers \in Seq(Byte) /\ request \in Requests /\ game \in Games
      /\ asked \in Seq(Requests) /\ handled \in Seq(Seq(Byte))
  BY StreamsType DEF EInv, TypeOK
<1>5. /\ Front(mRecvBuffer) /\ window = Window(mRecvBuffer) /\ mRecvBuffer.aSize \in Nat
      /\ window.space = Capacity - mRecvBuffer.aSize
  <2>1. Front(mRecvBuffer) /\ window = Window(mRecvBuffer)
    BY DEF EInv, Posted
  <2>2. /\ mRecvBuffer.aSize \in Nat
        /\ Window(mRecvBuffer) = [at |-> mRecvBuffer.aSize,
                                  space |-> Capacity - mRecvBuffer.aSize]
    BY <2>1, FrontIs
  <2> QED BY <2>1, <2>2
<1>6. n \in 1 .. Len(toServer) /\ n <= Capacity - mRecvBuffer.aSize
  BY <1>4, <1>5 DEF Lesser
<1>7. /\ chunk \in Seq(Byte) /\ Len(chunk) = n /\ rest \in Seq(Byte)
      /\ Len(rest) = Len(toServer) - n /\ (held \o chunk) \o rest = held \o toServer
  <2>1. /\ chunk \in Seq(Byte) /\ Len(chunk) = n /\ rest \in Seq(Byte)
        /\ Len(rest) = Len(toServer) - n
    BY <1>4, <1>6, Cut
  <2>2. toServer \in Seq(Byte) /\ held \in Seq(Byte) /\ n \in 1 .. Len(toServer)
    BY <1>4, <1>6
  <2>3. (held \o SubSeq(toServer, 1, n)) \o SubSeq(toServer, n + 1, Len(toServer))
          = held \o toServer
    BY ONLY <2>2, MovedOn
  <2> QED BY <2>1, <2>3
<1> HIDE DEF chunk, rest, held
<1>8. Front(b) /\ Contents(b) = held \o chunk /\ b.aSize = mRecvBuffer.aSize + n
  <2>1. b = CommitBytes(Store(SwitchRegion(mRecvBuffer), Window(mRecvBuffer).at, chunk),
                        Len(chunk))
    BY <1>5, <1>7
  <2>2. Len(chunk) <= Capacity - mRecvBuffer.aSize
    BY <1>6, <1>7
  <2> HIDE DEF b
  <2> QED BY <1>5, <1>7, <2>1, <2>2, Filled DEF held
<1> HIDE DEF b
<1>9. Contents(b) \in Seq(Byte) /\ Len(Contents(b)) = b.aSize /\ b.aSize \in Nat /\ b.aSize > 0
  <2>1. Contents(b) \in Seq(Byte) /\ Len(Contents(b)) = b.aSize
    BY <1>8, FrontContents
  <2> QED BY <1>5, <1>6, <1>8, <2>1
<1>10. /\ Asking # << >> /\ Asking = Packet(request)
  <2>1. toServer # << >>
    BY <1>4, <1>6
  <2>2. Asking # << >>
    BY <1>4, <2>1, Pieces DEF Asking, held
  <2> QED BY <1>1, <2>2 DEF Meeting
<1>11. /\ Contents(b) \o rest \o unsent = Asking
       /\ b.aSize + Len(rest) + Len(unsent) = Size[request]
       /\ Contents(b) = SubSeq(Packet(request), 1, b.aSize)
       /\ Size[request] \in Nat /\ Size[request] <= Capacity /\ Size[request] > 0
  <2>1. Contents(b) \o rest = held \o toServer
    BY <1>7, <1>8
  <2>2. Contents(b) \o rest \o unsent = Asking
    BY <2>1 DEF Asking, held
  <2>3. Len(Packet(request)) = Size[request] /\ Size[request] \in Nat
        /\ Size[request] <= Capacity /\ Size[request] > 0
    BY <1>4, PacketIs, SizeType DEF Types
  <2>4. /\ Len(Contents(b) \o rest \o unsent)
             = Len(Contents(b)) + Len(rest) + Len(unsent)
        /\ Contents(b) \o rest \o unsent = Contents(b) \o (rest \o unsent)
    <3>1. Contents(b) \in Seq(Byte) /\ rest \in Seq(Byte) /\ unsent \in Seq(Byte)
      BY <1>4, <1>7, <1>9
    <3>2. Contents(b) \o rest \o unsent = Contents(b) \o (rest \o unsent)
      BY ONLY <3>1, ConcatAssociative
    <3>3. /\ Contents(b) \o rest \in Seq(Byte)
          /\ Len(Contents(b) \o rest) = Len(Contents(b)) + Len(rest)
      BY ONLY <3>1, ConcatProperties
    <3>4. Len(Contents(b) \o rest \o unsent) = Len(Contents(b) \o rest) + Len(unsent)
      BY ONLY <3>1, <3>3, ConcatProperties
    <3> QED BY <3>2, <3>3, <3>4
  <2>5. rest \o unsent \in Seq(Byte)
    BY <1>4, <1>7, ConcatProperties
  <2>6. Contents(b) = SubSeq(Contents(b) \o (rest \o unsent), 1, Len(Contents(b)))
    BY <1>9, <2>5, Begins
  <2>7. Contents(b) \o (rest \o unsent) = Packet(request)
    BY <1>10, <2>2, <2>4
  <2> QED BY <1>9, <1>10, <2>2, <2>3, <2>4, <2>6, <2>7
<1>12. b.aSize <= Size[request]
  BY <1>4, <1>7, <1>9, <1>11
<1>13. /\ a.game \in Games /\ a.out \in Seq(Answer) /\ a.out \in Seq(Byte)
       /\ \/ /\ Parted /\ a = [game |-> game, out |-> << >>]
          \/ /\ Answered /\ Place = request
             /\ \E x, q : /\ q \in Goals[a.game.stage] /\ Path(x, request, q)
                          /\ Answers \o a.out =
                               IF a.game.stage \in Left THEN x \o Packet("ERROR") ELSE x
  <2>1. /\ a.game \in Games /\ a.out \in Seq(Answer)
        /\ \/ /\ Parted /\ a = [game |-> game, out |-> << >>]
           \/ /\ Answered /\ Place = request
              /\ \E x, q : /\ q \in Goals[a.game.stage] /\ Path(x, request, q)
                           /\ Answers \o a.out =
                                IF a.game.stage \in Left THEN x \o Packet("ERROR") ELSE x
    BY <1>1, <1>10, HandledIs
  <2> QED BY <2>1, AnswersAreBytes
<1>14. s = IF b.aSize = Size[request]
            THEN [buf |-> ReadBytes(b, b.aSize), game |-> a.game, out |-> a.out,
                  handled |-> Append(handled, Packet(request))]
            ELSE [buf |-> b, game |-> game, out |-> << >>, handled |-> handled]
  BY <1>4, <1>8, <1>9, <1>11, <1>12, <1>13, OnReadIs
<1> HIDE DEF s, a
<1>15. SwitchRegion(b) = b
  BY <1>8, FrontIs
<1>16. /\ s.out \in Seq(Answer)
       /\ toClient' \in Seq(Byte) /\ Answers' = Answers \o s.out /\ Place' = Place
  <2>1. s.out \in Seq(Answer)
    <3>1. << >> \in Seq(Answer)
      BY EmptySeq
    <3>2. s.out = a.out \/ s.out = << >>
      BY <1>14
    <3> QED BY <1>13, <3>1, <3>2
  <2>2. Place' = Place
    BY <1>1 DEF Place
  <2> QED BY <1>1, <1>3, <2>1, <2>2, SentBehind
\* It is not all there.
<1>17. CASE b.aSize # Size[request]
  <2>1. /\ mRecvBuffer' = b /\ window' = Window(b) /\ game' = game /\ handled' = handled
        /\ s.out = << >>
    BY <1>3, <1>14, <1>15, <1>17
  <2>2. Posted'
    <3>1. ~Complete(b)
      BY <1>4, <1>8, <1>11, <1>12, <1>17, CompleteIs
    <3>2. b.aSize < Capacity
      BY <1>9, <1>11, <1>12, <1>17
    <3> QED BY <1>8, <2>1, <3>1, <3>2 DEF Posted
  <2>3. Asking' = Asking
    BY <1>1, <1>3, <1>11, <2>1 DEF Asking
  <2>4. Answers' = Answers
    BY <1>4, <1>16, <2>1, ConcatEmptySeq
  <2>5. Meeting'
    <3>1. pc # "failed" /\ (pc \notin Reading => got = << >>)
      BY <1>1 DEF Meeting
    <3> QED BY <1>1, <1>16, <2>1, <2>3, <2>4, <3>1, MeetingSame
  <2>6. window' = [at |-> b.aSize, space |-> Capacity - b.aSize] /\ b.aSize \in 0 .. Capacity
    BY <1>8, <2>1, FrontIs
  <2>7. TypeOK'
    <3>1. window'.space >= 0 /\ window'.at + window'.space <= Capacity
      BY <2>6
    <3> QED BY <1>1, <1>3, <1>7, <1>8, <1>16, <2>1, <3>1 DEF EInv, TypeOK, Front
  <2>8. HandledWhole' /\ Connected'
    BY <1>1, <2>1 DEF EInv, HandledWhole, Connected
  <2> QED BY <1>1, <1>4, <2>1, <2>2, <2>5, <2>7, <2>8 DEF EInv
\* It is, and it is handled.
<1>18. CASE b.aSize = Size[request]
  <2> DEFINE c == ReadBytes(b, b.aSize)
  <2>1. Front(c) /\ Contents(c) = << >> /\ c.aSize = 0
    BY <1>8, Drained
  <2>2. /\ s.buf = c /\ s.game = a.game /\ s.out = a.out
        /\ s.handled = Append(handled, Packet(request))
    BY <1>14, <1>18
  <2> HIDE DEF c
  <2>3. /\ mRecvBuffer' = c /\ window' = Window(c) /\ game' = a.game
        /\ handled' = Append(handled, Packet(request))
    <3>1. SwitchRegion(c) = c
      BY <2>1, FrontIs
    <3> QED BY <1>3, <2>2, <3>1
  <2>4. Posted'
    <3>1. ~Complete(c)
      BY <2>1, NothingComplete
    <3> QED BY <2>1, <2>3, <3>1 DEF Posted
  <2>5. Asking' = << >>
    <3>1. Len(rest) = 0 /\ Len(unsent) = 0
      <4>1. Len(rest) \in Nat /\ Len(unsent) \in Nat
        BY <1>4, <1>7
      <4> QED BY <1>9, <1>11, <1>18, <4>1
    <3>2. rest = << >> /\ unsent = << >>
      BY <1>4, <1>7, <3>1
    <3> QED BY <1>1, <1>3, <2>1, <2>3, <3>2 DEF Asking
  <2>6. /\ HandledWhole' /\ handled' \in Seq(Seq(Byte)) /\ Len(handled') = Len(asked)
    <3>1. Len(asked) = Len(handled) + 1 /\ asked[Len(asked)] = request
      BY <1>1, <1>10 DEF Meeting
    <3> QED BY <1>1, <2>3, <3>1, HandledMore
  <2>7. Answered' \/ Parted'
    <3>1. CASE Parted /\ a = [game |-> game, out |-> << >>]
      <4>1. game' = game /\ Answers' = << >>
        <5>1. a.game = game /\ a.out = << >>
          BY <3>1
        <5>2. << >> \o << >> = << >>
          OBVIOUS
        <5> QED BY <1>16, <2>2, <2>3, <3>1, <5>1, <5>2 DEF Parted
      <4> QED BY <1>1, <2>5, <3>1, <4>1 DEF Parted
    <3>2. ASSUME Answered, Place = request, NEW x, NEW q, q \in Goals[a.game.stage],
                 Path(x, request, q),
                 Answers \o a.out =
                   IF a.game.stage \in Left THEN x \o Packet("ERROR") ELSE x
          PROVE  Answered'
      <4>1. Answers' = IF game'.stage \in Left THEN x \o Packet("ERROR") ELSE x
        BY <1>16, <2>2, <2>3, <3>2
      <4>2. Leading(x, q)'
        BY <1>16, <2>3, <2>5, <3>2, <4>1 DEF Leading
      <4> QED BY <4>2 DEF Answered
    <3> QED BY <1>13, <3>1, <3>2
  <2>8. Meeting'
    <3>1. Len(handled') \in Nat /\ Len(asked') = Len(handled') + 0
      BY <1>1, <2>6
    <3> QED BY <1>1, <2>5, <2>7, <3>1 DEF Meeting
  <2>9. TypeOK'
    <3>1. window' = [at |-> 0, space |-> Capacity]
      <4>1. Window(c) = [at |-> c.aSize, space |-> Capacity - c.aSize]
        BY <2>1, FrontIs
      <4> QED BY <2>1, <2>3, <4>1
    <3>2. window'.space >= 0 /\ window'.at + window'.space <= Capacity
      BY <3>1
    <3> QED BY <1>1, <1>3, <1>7, <1>13, <1>16, <2>1, <2>3, <3>2 DEF EInv, TypeOK, Front
  <2>10. Connected'
    BY <1>1 DEF EInv, Connected
  <2> QED BY <1>1, <1>4, <2>4, <2>6, <2>8, <2>9, <2>10 DEF EInv
<1> QED BY <1>17, <1>18

------------------------------------------------------------------------------
(* The theorems.                                                              *)

LEMMA EStep == EInv /\ [Next]_vars => EInv'
<1> SUFFICES ASSUME EInv, [Next]_vars PROVE EInv'
  OBVIOUS
<1>1. CASE Connect
  BY <1>1, ConnectKeeps
<1>2. CASE Send
  BY <1>2, SendKeeps
<1>3. CASE Recive
  BY <1>3, ReciveKeeps
<1>4. CASE ReciveFails
  BY <1>4, ReciveFailsKeeps
<1>5. CASE Returns
  BY <1>5, ReturnsKeeps
<1>6. CASE Disconnect
  BY <1>6, DisconnectKeeps
<1>7. CASE OthersAct
  BY <1>7, OthersKeeps
<1>8. CASE OtherLeaves
  BY <1>8, LeavesKeeps
<1>9. CASE RecvCompletion
  BY <1>9, CompletionKeeps
<1>10. CASE RecvNothing
  BY <1>10, NothingKeeps
<1>11. CASE ServerStops
  BY <1>11, StopsKeeps
<1>12. CASE UNCHANGED vars
  BY <1>12, StutterKeeps
<1> QED
  BY <1>1, <1>2, <1>3, <1>4, <1>5, <1>6, <1>7, <1>8, <1>9, <1>10, <1>11, <1>12
     DEF Next, ClientStep

LEMMA EAlways == Spec => []EInv
  BY EInit, EStep, PTL DEF Spec

\* The handlers are given the requests as the client asked them (HandledWhole),
\* for every size of the packets and wherever the connection cuts them: OnRead's
\* loop (ClientSession.cpp, OnRead) waits for a whole packet and reads no more.
THEOREM ReachHandlersWhole == Spec => []HandledWhole
<1>1. EInv => HandledWhole
  BY DEF EInv
<1> QED BY <1>1, EAlways, PTL

\* A receive is never posted without space (SessionLasts), so that the session of
\* PostRecv and RecvCompletion lasts as long as its connection.
THEOREM SessionsLast == Spec => []SessionLasts
<1>1. EInv => SessionLasts
  BY SessionLastsHolds
<1> QED BY <1>1, EAlways, PTL

\* The client library and the server stay in step (InStep): every call of Recive
\* takes just the packet the server sent for it, and main fails only with the
\* network, also when the other player leaves.
THEOREM StaysInStep == Spec => []InStep
<1>1. EInv => InStep
  BY InStepHolds
<1> QED BY <1>1, EAlways, PTL
==============================================================================
