----------------------------- MODULE MatchProofs -----------------------------
(***************************************************************************)
(* What is kept over a whole match, for any number of clients, any board   *)
(* and any ships, on top of LInv and PInv of GameServerProofs.             *)
(*                                                                         *)
(*   The score a client keeps is the server's: invariant SInv.             *)
(*                                                                         *)
(*   What is outstanding to a client stays within half of its send buffer: *)
(*   invariant BInv.  A client is in a stage of its match, and each stage  *)
(*   bounds three numbers: what it has not read, what its send buffer      *)
(*   holds, and what was put there since the last flush.  A request is     *)
(*   sent when everything is read, so that an answer never comes on top of *)
(*   another one; and what the opponent of who attacks is sent finds its   *)
(*   buffer flushed (Behind).                                              *)
(***************************************************************************)
EXTENDS GameServerProofs

------------------------------------------------------------------------------
(* The score of the clients. *)

\* What client c, at a place and not accepted if it is in O, has counted.
Counted(s, O, c, w, at, tl) ==
    /\ s.link[c].up => Counts(s, c, w, tl)
    /\ c \in O => tl.wins = 0 /\ tl.games = 0
    /\ tl.final # {} => tl.final = {tl.wins} /\ tl.games = MaxGames /\ at = "done"

SInv == /\ told \in [Client -> Tally] /\ Credits(server)
        /\ \A c \in Client : Counted(server, Outside, c, wire[c], pc[c], told[c])

\* The server takes a step.
LEMMA ScoreServed ==
    ASSUME SInv, UNCHANGED <<pc, told>>, Outside' \in SUBSET Outside, Credits(server'),
           \A c \in Client : server'.link[c].up => Counts(server', c, wire'[c], told[c])
    PROVE  SInv'
<1>1. \A c \in Client : Counted(server, Outside, c, wire[c], pc[c], told[c])
  BY DEF SInv
<1>2. \A c \in Client : Counted(server', Outside', c, wire'[c], pc'[c], told'[c])
  BY <1>1 DEF Counted
<1>3. told' \in [Client -> Tally]
  BY DEF SInv
<1> QED BY <1>2, <1>3 DEF SInv

LEMMA ScoreRates ==
    ASSUME LInv, SInv, UNCHANGED <<accepts, wire, pc, told>>, Rates(server, server'),
           \A c \in Client : server'.link[c].up => server.link[c].up
    PROVE  SInv'
<1>1. Credits(server) /\ \A c \in Client : wire[c] \in Seq(Packet) /\ told[c] \in Tally
  BY DEF SInv, LInv, Clients
<1>2. \A c \in Client : server.link[c].up => Counts(server, c, wire[c], told[c])
  BY DEF SInv, Counted
<1>3. Outside' = Outside
  BY DEF Outside
<1>4. Credits(server') /\ \A c \in Client : server'.link[c].up => Counts(server', c, wire[c], told[c])
  BY <1>1, <1>2 DEF Rates
<1>5. \A c \in Client : server'.link[c].up => Counts(server', c, wire'[c], told[c])
  BY <1>4
<1> QED BY <1>3, <1>4, <1>5, ScoreServed

\* A session is made.
LEMMA AcceptScores ==
    ASSUME SerialLogin, LInv, PInv, SInv, Accept
    PROVE  SInv'
<1>1. /\ Lists(server, Outside) /\ phase = "accept"
      /\ UNCHANGED <<wire, pc, told>> /\ Credits(server)
      /\ \A c \in Client : Counted(server, Outside, c, wire[c], pc[c], told[c])
  BY DEF LInv, PInv, SInv, Accept, clientVars
<1>2. CASE UNCHANGED <<server, accepts>>
  <2>1. Outside' = Outside
    BY <1>1, <1>2 DEF Outside
  <2> QED BY <1>1, <1>2, <2>1, ScoreServed DEF Counted
<1>3. ASSUME accepts # << >>, accepts' = Tail(accepts),
             Made
      PROVE  SInv'
  <2> DEFINE s == server
             t == server'
             h == Head(accepts)
             u == UnusedNumber(server)
  <2>1. Accepts(s, t, h, u)
    BY <1>1, <1>3, AcceptDone
  <2> HIDE DEF s, t, u, h
  <2>7. (\A m : Stands(s, t, m)) /\ Credits(t)
    BY <1>1, <2>1, ListsStand DEF Accepts, s
  <2>9. ASSUME NEW d \in Client, t.link[d].up
        PROVE  Counts(t, d, wire[d], told[d])
    <3>1. CASE d # h
      <4>1. t.link[d] = s.link[d] /\ Counts(s, d, wire[d], told[d])
        BY <1>1, <2>1, <2>9, <3>1 DEF Accepts, Counted, s
      <4>2. Pending(t, d, wire[d]) = Pending(s, d, wire[d])
        BY <4>1 DEF Pending
      <4> QED BY <2>7, <4>1, <4>2, CountsSame
    <3>2. CASE d = h
      <4>1. wire[h] = << >>
        BY <2>1 DEF Accepts, PInv, Served, Serves
      <4>2. told[h].wins = 0 /\ told[h].games = 0
        BY <1>1, <2>1 DEF Accepts, Counted
      <4>5. ~Gone(t, u) /\ Wins(t, u) = 0 /\ Played(t, u) = 0
        <5>1. ~Gone(s, u) /\ Wins(s, u) = 0 /\ Played(s, u) = 0
          BY <2>1 DEF Accepts, Gone, Wins, Played, InGame
        <5> QED BY <2>7, <5>1 DEF Stands
      <4>6. Tallied(Gone(t, u), 0, 0, << >>, told[h])
        <5>1. Overs(<< >>) = {} /\ Wons(<< >>) = {} /\ Positions(<< >>, "ALL_OVER") = {}
          BY DEF Overs, Wons, Positions
        <5>2. Cardinality(Overs(<< >>)) = 0 /\ Cardinality(Wons(<< >>)) = 0
          BY <5>1, FS_EmptySet
        <5>3. /\ told[h].wins + Cardinality(Wons(<< >>)) = 0
              /\ told[h].games + Cardinality(Overs(<< >>)) = 0
          BY <4>2, <5>2
        <5> QED BY <5>1, <5>3 DEF Tallied
      <4> QED BY <2>1, <3>2, <4>1, <4>5, <4>6 DEF Accepts, Counts
    <3> QED BY <3>1, <3>2
  <2>10. \A d \in Client : server'.link[d].up => Counts(server', d, wire'[d], told[d])
    BY <1>1, <2>9 DEF t
  <2> QED BY <1>1, <2>1, <2>7, <2>10, ScoreServed DEF Accepts, t
<1> QED BY <1>2, <1>3 DEF Accept, Made

\* A receive completes.
LEMMA RecvScores ==
    ASSUME LInv, PInv, SInv, NEW c \in Client, RecvCompletion(c)
    PROVE  SInv'
<1> DEFINE s == server
           t == server'
           r == requests[c]
           p == r[1]
<1>1. /\ Lists(s, Outside) /\ Even(s) /\ s.link[c].up /\ r # << >> /\ r \in Seq(RequestPacket)
      /\ t = Handle(s, c, p) /\ p # Closed /\ UNCHANGED <<accepts, wire, pc, told>> /\ Served(c)
  BY DEF LInv, PInv, Clients, RecvCompletion, clientVars
<1>2. Lists(s, {}) /\ p \in RequestPacket
  BY <1>1, FewerDown
<1>3. Shape(r, pc[c]) /\ Hears(s, c, wire[c], r, pc[c], marked[c])
  BY <1>1 DEF Served, Serves
<1>4. SUFFICES Rates(s, t) /\ \A d \in Client : t.link[d].up => s.link[d].up
  BY <1>1, ScoreRates
<1> HIDE DEF s, t, p, r
<1>5. Right(Role(s, s.link[c].id), Hit(s, s.link[c].id), Alone(s, s.link[c].id), p)
  <2>1. Asking(r)
    BY <1>1 DEF Asking, p
  <2> QED BY <1>3, <2>1 DEF Hears, Conv, p
<1>6. p \in RequestPacket \ {Closed}
  BY <1>1, <1>2
<1>7. LET v == Handle(s, c, p)
      IN  Steady(s, v) /\ Rates(s, v)
  BY <1>1, <1>2, <1>5, <1>6, HandleCarries
<1> QED BY <1>1, <1>7 DEF Steady

\* A receive ends, or a send fails.
LEMMA ClosesScores ==
    ASSUME LInv, PInv, SInv, NEW c \in Client, Closes(c)
    PROVE  SInv'
<1> DEFINE s == server
           t == server'
<1>1. /\ Lists(s, {}) /\ Even(s) /\ s.link[c].up /\ UNCHANGED <<accepts, wire, pc, told>>
      /\ t = CloseSession(s, c) \/ t = s
  BY ClosesParts, FewerDown DEF LInv, PInv
<1> HIDE DEF s, t
<1>2. CASE t = CloseSession(s, c)
  <2>1. Parts(s, t, c) /\ Rates(s, t)
    BY <1>1, <1>2, DisconnectParts
  <2>2. \A d \in Client : t.link[d].up => s.link[d].up
    BY <1>1, <2>1 DEF Parts
  <2> QED BY <1>1, <2>1, <2>2, ScoreRates DEF s, t
<1>3. CASE t = s
  <2>1. Rates(s, t) /\ \A d \in Client : t.link[d].up => s.link[d].up
    BY <1>3 DEF Rates
  <2> QED BY <1>1, <2>1, ScoreRates DEF s, t
<1> QED BY <1>1, <1>2, <1>3

\* A send completes.
LEMMA SendScores ==
    ASSUME LInv, SInv, NEW c \in Client, SendCompletion(c)
    PROVE  SInv'
<1> DEFINE s == server
           t == server'
<1>1. /\ UNCHANGED <<accepts, wire, pc, told>>
      /\ t.players = s.players /\ t.games = s.games /\ Steady(s, t)
      /\ \A d \in Client : \A w \in Seq(Packet) : Pending(t, d, w) = Pending(s, d, w)
  BY SendDone
<1>2. Lists(s, Outside) /\ Links(s)
  BY DEF LInv, Lists
<1> HIDE DEF s, t
<1>3. (\A m : Stands(s, t, m)) /\ (Credits(s) => Credits(t))
  BY <1>1, <1>2, ListsStand
<1>4. Rates(s, t) /\ \A d \in Client : t.link[d].up => s.link[d].up
  BY <1>1, <1>2, <1>3, PlainRates DEF Plainly, Steady
<1> QED BY <1>1, <1>4, ScoreRates DEF s, t

\* The end of a pass.
LEMMA FinishScores ==
    ASSUME LInv, PInv, SInv, FinishPass
    PROVE  SInv'
<1>1. Credits(server) /\ \A d \in Client : told[d] \in Tally
  BY DEF SInv
<1>2. \A d \in Client : server.link[d].up => Counts(server, d, wire[d], told[d])
  BY DEF SInv, Counted
<1>3. /\ Steady(server, server') /\ Outside' = Outside /\ UNCHANGED <<pc, told>>
      /\ Credits(server')
      /\ \A d \in Client : \A tl \in Tally : server.link[d].up /\ Counts(server, d, wire[d], tl)
            => Counts(server', d, wire'[d], tl)
  BY <1>1, FinishDone
<1>4. \A d \in Client : server'.link[d].up => Counts(server', d, wire'[d], told[d])
  BY <1>1, <1>2, <1>3 DEF Steady
<1> QED BY <1>3, <1>4, ScoreServed

\* Client c, which is not done, goes to b and has counted tl.
LEMMA ScoreMoves ==
    ASSUME SInv, NEW c \in Client, NEW b, NEW tl \in Tally, UNCHANGED server,
           Outside' \in SUBSET Outside, \A d \in Client : d # c => wire'[d] = wire[d],
           pc' = [pc EXCEPT ![c] = b], told' = [told EXCEPT ![c] = tl],
           Counted(server, Outside, c, wire'[c], b, tl), Clients
    PROVE  SInv'
<1>1. /\ pc'[c] = b /\ told'[c] = tl /\ told' \in [Client -> Tally]
      /\ \A d \in Client : d # c => pc'[d] = pc[d] /\ told'[d] = told[d]
  BY DEF SInv, Clients
<1>2. \A d \in Client : Counted(server, Outside, d, wire'[d], pc'[d], told'[d])
  BY <1>1 DEF SInv
<1>3. \A d \in Client : Counted(server', Outside', d, wire'[d], pc'[d], told'[d])
  BY <1>2 DEF Counted
<1> QED BY <1>1, <1>3 DEF SInv

\* A client that is not done reads nothing.
LEMMA ScoreStays ==
    ASSUME LInv, SInv, NEW c \in Client, NEW b, UNCHANGED <<server, wire, told>>,
           Outside' \in SUBSET Outside, pc' = [pc EXCEPT ![c] = b], pc[c] # "done"
    PROVE  SInv'
<1>1. Counted(server, Outside, c, wire[c], pc[c], told[c]) /\ told[c] \in Tally
  BY DEF SInv
<1>2. told' = [told EXCEPT ![c] = told[c]]
  BY DEF SInv
<1>3. Counted(server, Outside, c, wire'[c], b, told[c])
  BY <1>1 DEF Counted
<1> QED BY <1>1, <1>2, <1>3, ScoreMoves DEF LInv

\* A client that reads counts the ends of games.
LEMMA ScoreReads ==
    ASSUME LInv, PInv, SInv, NEW c \in Client, pc[c] \in DOMAIN Awaited, wire[c] # << >>,
           UNCHANGED <<server, accepts>>, wire' = [wire EXCEPT ![c] = Tail(wire[c])],
           NEW b, b # "off", pc' = [pc EXCEPT ![c] = b],
           NEW tl \in Tally, told' = [told EXCEPT ![c] = tl],
           tl.games = told[c].games + IF IsOver(Head(wire[c])) THEN 1 ELSE 0,
           tl.wins = told[c].wins + IF IsWon(Head(wire[c])) THEN 1 ELSE 0,
           \/ tl.final = told[c].final
           \/ Head(wire[c]).type = "ALL_OVER" /\ b = "done" /\ tl.final = {Head(wire[c]).wins}
    PROVE  SInv'
<1> DEFINE q == Pending(server, c, wire[c])
           n == Number(c)
<1>1. /\ server.link[c].up /\ c \notin Outside /\ pc[c] # "off" /\ pc[c] # "done"
      /\ q \in Seq(Packet) /\ q # << >> /\ Head(q) = Head(wire[c])
      /\ Pending(server, c, Tail(wire[c])) = Tail(q)
  BY Reads, AwaitedPlaces
<1>2. Clients /\ told[c] \in Tally /\ Counted(server, Outside, c, wire[c], pc[c], told[c])
  BY DEF LInv, SInv
<1>3. /\ wire'[c] = Tail(wire[c]) /\ \A d \in Client : d # c => wire'[d] = wire[d]
      /\ \A d \in Client : pc'[d] = "off" <=> pc[d] = "off"
  BY <1>1, <1>2 DEF Clients
<1>4. Outside' = Outside
  BY <1>3 DEF Outside
<1>5. Tallied(Gone(server, n), Wins(server, n), Played(server, n), q, told[c])
  BY <1>1, <1>2 DEF Counted, Counts, Number
<1> HIDE DEF q
<1>6. Tallied(Gone(server, n), Wins(server, n), Played(server, n), Tail(q), tl)
  BY <1>1, <1>2, <1>5, TalliedRead
<1>7. Counts(server, c, Tail(wire[c]), tl)
  BY <1>1, <1>6 DEF Counts, Number
<1>8. ASSUME tl.final # {}
      PROVE  tl.final = {tl.wins} /\ tl.games = MaxGames /\ b = "done"
  <2>1. told[c].final = {}
    BY <1>1, <1>2 DEF Counted
  <2>2. Head(q).type = "ALL_OVER" /\ b = "done" /\ tl.final = {Head(q).wins}
    BY <1>1, <1>8, <2>1
  <2>3. Head(q).wins = told[c].wins /\ told[c].games = MaxGames
    BY <1>1, <1>2, <1>5, <2>2, TalliedTotal
  <2>4. ~IsOver(Head(wire[c])) /\ ~IsWon(Head(wire[c]))
    BY <1>1, <2>2 DEF IsOver, IsWon
  <2>5. tl.wins = told[c].wins /\ tl.games = told[c].games
    BY <1>2, <2>4 DEF Tally
  <2> QED BY <2>2, <2>3, <2>5
<1>9. Counted(server, Outside, c, wire'[c], b, tl)
  BY <1>1, <1>3, <1>7, <1>8 DEF Counted
<1> QED BY <1>2, <1>3, <1>4, <1>9, ScoreMoves

LEMMA ClientScores ==
    ASSUME LInv, PInv, SInv, NEW c \in Client, ClientStep(c) \/ Leave(c)
    PROVE  SInv'
<1> DEFINE p == Head(wire[c])
           w == [wire EXCEPT ![c] = Tail(wire[c])]
           k == told[c]
           Reading(b) == /\ pc[c] \in DOMAIN Awaited /\ wire[c] # << >> /\ wire' = w
                         /\ UNCHANGED <<server, accepts>> /\ b # "off"
                         /\ pc' = [pc EXCEPT ![c] = b]
<1>1. /\ k \in Tally /\ told \in [Client -> Tally] /\ pc = [pc EXCEPT ![c] = pc[c]]
      /\ k.wins \in Int /\ k.games \in Int
  BY DEF SInv, LInv, Clients, Tally
<1>2. wire[c] # << >> => p \in Packet
  BY HeadTailProperties DEF LInv, Clients
<1>3. ~Fails(c)
  BY NeverSurprised DEF Fails
<1> HIDE DEF p, k
<1>4. ASSUME NEW b, Reading(b), told' = told, p.type # "GAME_OVER"
      PROVE  SInv'
  <2>1. /\ told' = [told EXCEPT ![c] = k] /\ k.final = told[c].final
        /\ k.games = told[c].games + IF IsOver(p) THEN 1 ELSE 0
        /\ k.wins = told[c].wins + IF IsWon(p) THEN 1 ELSE 0
    BY <1>1, <1>4 DEF IsOver, IsWon, k
  <2> QED BY <1>1, <1>4, <2>1, ScoreReads DEF p
<1>5. ASSUME NEW b, Reading(b), p.type = "ERROR",
             told' = [told EXCEPT ![c].errors = told[c].errors \cup {p.code}]
      PROVE  SInv'
  <2> DEFINE e == k.errors \cup {p.code}
             tl == [k EXCEPT !.errors = e]
  <2>1. p.code \in {"ET_UNKNOWN", "ET_INVALID_MAP"}
    BY <1>2, <1>5 DEF Packet
  <2>2. e \in SUBSET {"ET_UNKNOWN", "ET_INVALID_MAP"}
    BY <1>1, <2>1 DEF Tally
  <2>3. told' = [told EXCEPT ![c] = tl]
    BY <1>1, <1>5 DEF k
  <2> HIDE DEF e
  <2>4. tl \in Tally /\ tl.wins = k.wins /\ tl.games = k.games /\ tl.final = k.final
    BY <1>1, <2>2 DEF Tally
  <2> HIDE DEF tl
  <2>5. /\ tl.games = told[c].games + IF IsOver(p) THEN 1 ELSE 0
        /\ tl.wins = told[c].wins + IF IsWon(p) THEN 1 ELSE 0
    BY <1>1, <1>5, <2>4 DEF IsOver, IsWon, k
  <2> QED BY <1>5, <2>3, <2>4, <2>5, ScoreReads DEF p, k
<1>6. CASE Connect(c)
  <2>1. /\ pc' = [pc EXCEPT ![c] = "naming"] /\ accepts' = Append(accepts, c)
        /\ UNCHANGED <<server, wire, told>> /\ pc[c] = "off"
    BY <1>6 DEF Connect, serverVars, Goes
  <2>2. accepts \in Seq(Client) /\ \A d \in Client : pc'[d] = IF d = c THEN "naming" ELSE pc[d]
    BY <2>1 DEF LInv, Arrivals, Clients
  <2> QED BY <2>1, <2>2, OneArrives, ScoreStays
<1>7. CASE Leave(c)
  <2>1. /\ pc[c] \in DOMAIN Awaited /\ UNCHANGED <<server, accepts, wire, told>>
        /\ pc' = [pc EXCEPT ![c] = "left"]
    BY <1>7 DEF Leave, serverVars, Goes
  <2>2. pc[c] # "done" /\ \A d \in Client : pc'[d] = "off" <=> pc[d] = "off"
    BY <2>1, AwaitedPlaces DEF LInv, Clients
  <2>3. Outside' = Outside
    BY <2>1, <2>2 DEF Outside
  <2> QED BY <2>1, <2>2, <2>3, ScoreStays
<1>8. CASE Replied(c)
  <2>1. PICK at \in {"naming", "mapping", "attacking"} :
           /\ Reading(AfterReply(at))
           /\ \/ p.type = "OK" /\ told' = told
              \/ /\ p.type = "ERROR"
                 /\ told' = [told EXCEPT ![c].errors = told[c].errors \cup {p.code}]
    BY <1>8, AwaitedPlaces DEF Replied, Receives, serverVars, Goes, AfterReply, p
  <2> HIDE DEF w
  <2> QED BY <1>4, <1>5, <2>1
<1>9. CASE Started(c) \/ NextStarted(c)
  <2>1. Reading("mapping") /\ told' = told /\ p.type # "GAME_OVER"
    BY <1>9, AwaitedPlaces DEF Started, NextStarted, StartGame, Receives, serverVars, Goes, p
  <2> QED BY <1>4, <2>1
<1>10. CASE TakesTurn(c)
  <2>1. Reading("attacking") /\ told' = told /\ p.type # "GAME_OVER"
    BY <1>10, AwaitedPlaces DEF TakesTurn, Receives, serverVars, Goes, p
  <2> QED BY <1>4, <2>1
<1>11. CASE SeesResult(c)
  <2>1. Reading("playing") /\ told' = told /\ p.type # "GAME_OVER"
    BY <1>1, <1>11, AwaitedPlaces DEF SeesResult, Receives, serverVars, p
  <2> QED BY <1>4, <2>1
<1>12. CASE SeesError(c)
  <2>1. /\ Reading("ended") /\ p.type = "ERROR"
        /\ told' = [told EXCEPT ![c].errors = told[c].errors \cup {p.code}]
    BY <1>12, AwaitedPlaces DEF SeesError, Receives, serverVars, Goes, p
  <2> QED BY <1>5, <2>1
<1>13. CASE SeesGameOver(c)
  <2> DEFINE won == IF p.won THEN k.wins + 1 ELSE k.wins
             a == [k EXCEPT !.games = k.games + 1]
             tl == [a EXCEPT !.wins = won]
  <2>1. /\ Reading("between") /\ p.type = "GAME_OVER"
        /\ told' = [told EXCEPT ![c].games = told[c].games + 1,
                                ![c].wins = IF p.won THEN told[c].wins + 1 ELSE told[c].wins]
    BY <1>1, <1>13, AwaitedPlaces DEF SeesGameOver, Receives, serverVars, Goes, p
  <2>2. told' = [told EXCEPT ![c] = tl]
    BY <1>1, <2>1 DEF k
  <2>3. won \in Int
    BY <1>1
  <2>6. a \in Tally /\ a.games = k.games + 1 /\ a.final = k.final
    BY <1>1 DEF Tally
  <2> HIDE DEF won, a
  <2>4. tl \in Tally /\ tl.wins = won /\ tl.games = k.games + 1 /\ tl.final = k.final
    BY <2>3, <2>6 DEF Tally
  <2> HIDE DEF tl
  <2>5. /\ tl.games = told[c].games + IF IsOver(p) THEN 1 ELSE 0
        /\ tl.wins = told[c].wins + IF IsWon(p) THEN 1 ELSE 0
    BY <1>1, <2>1, <2>4 DEF IsOver, IsWon, k, won
  <2> QED BY <2>1, <2>2, <2>4, <2>5, ScoreReads DEF p, k
<1>14. CASE SeesAllOver(c)
  <2> DEFINE f == {p.wins}
             tl == [k EXCEPT !.final = f]
  <2>1. /\ Reading("done") /\ p.type = "ALL_OVER" /\ told' = [told EXCEPT ![c].final = f]
    BY <1>14, AwaitedPlaces DEF SeesAllOver, Receives, serverVars, Goes, p
  <2>2. f \in SUBSET Int
    BY <1>2, <2>1 DEF Packet
  <2>3. told' = [told EXCEPT ![c] = tl]
    BY <1>1, <2>1 DEF k
  <2> HIDE DEF f
  <2>4. tl \in Tally /\ tl.wins = k.wins /\ tl.games = k.games /\ tl.final = f
    BY <1>1, <2>2 DEF Tally
  <2> HIDE DEF tl
  <2>5. /\ tl.games = told[c].games + IF IsOver(p) THEN 1 ELSE 0
        /\ tl.wins = told[c].wins + IF IsWon(p) THEN 1 ELSE 0
    BY <1>1, <2>1, <2>4 DEF IsOver, IsWon, k
  <2> QED BY <2>1, <2>3, <2>4, <2>5, ScoreReads DEF p, k, f
<1> QED BY <1>3, <1>6, <1>7, <1>8, <1>9, <1>10, <1>11, <1>12, <1>13, <1>14 DEF ClientStep

LEMMA ScoreInit == Init => SInv
<1> SUFFICES ASSUME Init PROVE SInv
  OBVIOUS
<1>1. /\ told = [c \in Client |-> [wins |-> 0, games |-> 0, errors |-> {}, final |-> {}]]
      /\ DOMAIN server.players = {} /\ DOMAIN server.games = {}
      /\ \A c \in Client : ~server.link[c].up
  BY DEF Init, NoLink
<1> QED BY <1>1 DEF SInv, Tally, Credits, Counted

LEMMA ScoreNext == ASSUME SerialLogin, LInv, PInv, SInv, [Next]_vars PROVE SInv'
<1>1. CASE UNCHANGED vars
  <2>1. UNCHANGED <<server, accepts, wire, pc, told>>
    BY <1>1 DEF vars
  <2>2. Rates(server, server)
    BY DEF Rates
  <2>3. Rates(server, server') /\ \A c \in Client : server'.link[c].up => server.link[c].up
    BY <2>1, <2>2
  <2> QED BY <2>1, <2>3, ScoreRates
<1> QED BY <1>1, AcceptScores, FinishScores, RecvScores, ClosesScores, SendScores, ClientScores
    DEF Next, Closes

LEMMA Score == ASSUME SerialLogin PROVE Spec => [](LInv /\ PInv /\ SInv)
<1>1. Init => LInv /\ PInv /\ SInv
  BY ListsInit, ServesInit, ScoreInit
<1>2. LInv /\ PInv /\ SInv /\ [Next]_vars => (LInv /\ PInv /\ SInv)'
  BY ListsNext, ServesNext, ScoreNext
<1> QED BY <1>1, <1>2, PTL DEF Spec

LEMMA ScoreAgreesFollows ==
    ASSUME LInv, PInv, SInv PROVE ScoreAgrees
<1>1. ASSUME NEW c \in Client, NEW d \in Client, NEW g \in LiveGames, Facing(c, d, g)
      PROVE  LET q == Unread(c)
             IN  /\ server.players[Number(c)].wins = told[c].wins + Cardinality(Wons(q))
                 /\ told[c].games + Cardinality(Overs(q)) = server.games[g].tries - 1
                 /\ server.players[Number(c)].wins + server.players[Number(d)].wins
                      = server.games[g].tries - 1
  <2> DEFINE s == server
             n == Number(c)
             o == Number(d)
             q == Pending(s, c, wire[c])
  <2>1. /\ Lists(s, Outside) /\ Credits(s) /\ g \in DOMAIN s.games /\ ~s.games[g].over /\ s.link[c].up
        /\ PlayersOf(s.games[g]) = {n, o} /\ s.link[c].id = n /\ s.link[d].up
    BY <1>1 DEF LInv, SInv, Facing, Alive, LiveGames, Number
  <2>2. Counts(s, c, wire[c], told[c]) /\ Unread(c) = q
    BY <2>1 DEF SInv, Counted, Unread, Unsent, Pending, Rest
  <2>3. n # o
    BY <1>1, <2>1 DEF PInv, Even, Unique, Facing, Number
  <2> HIDE DEF s, n, o, q
  <2>4. Pair(s, g, n, o)
    BY <2>1, <2>3, PairStays
  <2>5. ~Gone(s, n) /\ Wins(s, n) = s.players[n].wins /\ Played(s, n) = Past(s.games[g])
    BY <2>4, PairStands
  <2>6. Shared(s.games[g], s.players[n], s.players[o])
    <3>1. s.players[n].wins \in Int /\ s.players[o].wins \in Int
      BY <2>1, <2>4 DEF Pair, Lists, Players, APlayer, HasPlayer
    <3>2. Lists(s, {})
      BY <2>1, FewerDown
    <3> QED BY <2>1, <2>4, <3>1, <3>2, SharedPair DEF Credits
  <2>7. /\ told[c].wins + Cardinality(Wons(q)) = s.players[n].wins
        /\ told[c].games + Cardinality(Overs(q)) = Past(s.games[g])
    BY <2>1, <2>2, <2>5 DEF Counts, Tallied, q
  <2> QED BY <2>2, <2>6, <2>7 DEF Shared, Past, s, n, o
<1>2. ASSUME NEW c \in Client, told[c].final # {}
      PROVE  told[c].final = {told[c].wins} /\ told[c].games = MaxGames
  BY <1>2 DEF SInv, Counted
<1> QED BY <1>1, <1>2 DEF ScoreAgrees, Wons, Overs

------------------------------------------------------------------------------
(* The stages of a client, and what may be outstanding in each.             *)

\* A match that is not over and was not left, over, or left by the opponent.
Stage(s, n) == IF Role(s, n) # "gone" THEN Role(s, n) ELSE IF Alone(s, n) THEN "alone" ELSE "over"

\* At most so much is not read, kept in the send buffer, and new in it.
Most == [name   |-> [unread |-> 0,  kept |-> 0,  new |-> 0],
         wait   |-> [unread |-> 4,  kept |-> 4,  new |-> 4],
         map    |-> [unread |-> 44, kept |-> 44, new |-> 44],
         ready  |-> [unread |-> 4,  kept |-> 48, new |-> 4],
         mine   |-> [unread |-> 26, kept |-> 52, new |-> 13],
         theirs |-> [unread |-> 13, kept |-> 48, new |-> 13],
         over   |-> [unread |-> 43, kept |-> 47, new |-> 34],
         alone  |-> [unread |-> 50, kept |-> 58, new |-> 50]]

\* q is not read, g was given to WSASend and u was not; a request on its way
\* was made when all was read, and is dropped when the match is no more.
Fit(k, asks, q, g, u) ==
    /\ q <= Most[k].unread /\ g + u <= Most[k].kept /\ u <= Most[k].new
    /\ u = 0 => g <= Most[k].new
    /\ asks => k \in {"over", "alone"} \/ (k \in {"name", "map", "mine"} /\ q = 0)

\* The packets that WSASend was given, and their bytes and those of the rest.
Kept(s, c) == SubSeq(s.link[c].out, 1, s.link[c].sent)
Lent(s, c) == Bytes(Kept(s, c))
Left(s, c) == Bytes(Pending(s, c, << >>))

Fits(s, c, w, asks) ==
    Fit(Stage(s, s.link[c].id), asks, Bytes(w) + Left(s, c), Lent(s, c), Left(s, c))

\* When one whose turn it is has been sent all, its opponent has too.
Behind(s) ==
    \A g \in DOMAIN s.games : \A c, d \in Client :
        /\ ~s.games[g].over /\ s.link[c].up /\ s.link[d].up
        /\ PlayersOf(s.games[g]) = {s.link[c].id, s.link[d].id}
        /\ Role(s, s.link[c].id) = "theirs" /\ Left(s, d) = 0
        => Left(s, c) = 0

\* The clients have w on the wire, and those that ask have a request on its way.
Fine(s, w, asks) ==
    /\ Behind(s)
    /\ \A c \in Client : s.link[c].up => Fits(s, c, w[c], asks[c])

BInv == Fine(server, wire, [c \in Client |-> Asking(requests[c])])

------------------------------------------------------------------------------
(* How many bytes some packets are.                                         *)

LEMMA Sizes ==
    /\ Size(Ok) = 4 /\ Size(MyTurn) = 4 /\ Size(NextGame) = 4 /\ Size(GameStart) = 40
    /\ \A e : Size(ErrorPacket(e)) = 6
    /\ \A c, mine, result : Size(Attacked(c, mine, result)) = 9
    /\ \A won, turns : Size(GameOver(won, turns)) = 9
    /\ \A wins, turns : Size(AllOver(wins, turns)) = 12
BY DEF Size, Ok, MyTurn, NextGame, GameStart, ErrorPacket, Attacked, GameOver, AllOver

LEMMA SizeNat == ASSUME NEW p \in Packet PROVE Size(p) \in Nat /\ Size(p) > 0
<1>1. p.type \in {"OK", "GAME_START", "MY_TURN", "NEXT_GAME", "ERROR", "ATTACK_RESULT",
                  "GAME_OVER", "ALL_OVER"}
  BY DEF Packet
<1> QED BY <1>1 DEF Size

\* f has the bytes of the first i packets of q, for i up to k.
Sums(f, q, k) == f = [i \in 0 .. k |-> IF i = 0 THEN 0 ELSE f[i - 1] + Size(q[i])]

LEMMA SumsExist == ASSUME NEW q, NEW k \in Nat PROVE \E f : Sums(f, q, k)
<1> DEFINE T == {i \in Nat : ~\E f : Sums(f, q, i)}
<1>1. SUFFICES ASSUME T # {} PROVE FALSE
  OBVIOUS
<1>2. PICK i \in T : \A j \in 0 .. i - 1 : j \notin T
  <2>1. T \in SUBSET Nat
    OBVIOUS
  <2> HIDE DEF T
  <2> QED BY <1>1, <2>1, LeastNumber
<1>3. i \in Nat /\ ~\E f : Sums(f, q, i)
  OBVIOUS
<1>4. CASE i = 0
  <2> DEFINE f == [j \in 0 .. 0 |-> 0]
  <2>1. f = [j \in 0 .. 0 |-> IF j = 0 THEN 0 ELSE f[j - 1] + Size(q[j])]
    OBVIOUS
  <2> HIDE DEF f
  <2> QED BY <1>3, <1>4, <2>1 DEF Sums
<1>5. CASE i # 0
  <2>1. i - 1 \in Nat /\ i - 1 \in 0 .. i - 1
    BY <1>3, <1>5
  <2>2. PICK f : Sums(f, q, i - 1)
    BY <1>2, <2>1
  <2> DEFINE last == f[i - 1] + Size(q[i])
             e == [j \in 0 .. i |-> IF j = i THEN last ELSE f[j]]
  <2>3. ASSUME NEW j \in 0 .. i
        PROVE  e[j] = IF j = 0 THEN 0 ELSE e[j - 1] + Size(q[j])
    <3>1. CASE j < i
      <4>1. e[j] = f[j] /\ j \in 0 .. i - 1 /\ (j # 0 => e[j - 1] = f[j - 1])
        BY <1>3, <3>1
      <4>2. f[j] = IF j = 0 THEN 0 ELSE f[j - 1] + Size(q[j])
        BY <2>2, <4>1 DEF Sums
      <4> QED BY <4>1, <4>2
    <3>2. CASE j = i
      <4>1. e[j] = last /\ e[j - 1] = f[i - 1]
        BY <1>3, <1>5, <3>2
      <4> QED BY <1>5, <3>2, <4>1
    <3> QED BY <1>3, <3>1, <3>2
  <2>4. Sums(e, q, i)
    <3>1. e = [j \in 0 .. i |-> e[j]]
      OBVIOUS
    <3> HIDE DEF e
    <3> QED BY <2>3, <3>1 DEF Sums
  <2> QED BY <1>3, <2>4
<1> QED BY <1>4, <1>5

LEMMA SumsOn ==
    ASSUME NEW f, NEW q, NEW k \in Nat, Sums(f, q, k)
    PROVE  f[0] = 0 /\ \A i \in 1 .. k : f[i] = f[i - 1] + Size(q[i])
<1>1. f[0] = 0
  BY DEF Sums
<1>2. ASSUME NEW i \in 1 .. k PROVE f[i] = f[i - 1] + Size(q[i])
  BY DEF Sums
<1> QED BY <1>1, <1>2

\* Every packet has bytes.
LEMMA SumsGrow ==
    ASSUME NEW q \in Seq(Packet), NEW f, Sums(f, q, Len(q))
    PROVE  \A i \in 0 .. Len(q) : f[i] \in Nat /\ f[i] >= i
<1> DEFINE k == Len(q)
           P(i) == f[i] \in Nat /\ f[i] >= i
           T == {i \in 0 .. k : ~P(i)}
<1>1. SUFFICES ASSUME T # {} PROVE FALSE
  OBVIOUS
<1>2. PICK i \in T : \A j \in 0 .. i - 1 : j \notin T
  <2>1. T \in SUBSET Nat
    OBVIOUS
  <2> HIDE DEF T
  <2> QED BY <1>1, <2>1, LeastNumber
<1>3. i \in 0 .. k /\ ~P(i) /\ \A j \in 0 .. k : j < i => P(j)
  BY <1>2
<1>4. k \in Nat /\ f[0] = 0 /\ \A j \in 1 .. k : f[j] = f[j - 1] + Size(q[j])
  BY SumsOn
<1>5. CASE i = 0
  BY <1>3, <1>4, <1>5
<1>6. CASE i # 0
  <2>1. i \in 1 .. k /\ i - 1 \in 0 .. k /\ i - 1 < i
    BY <1>3, <1>4, <1>6
  <2>2. P(i - 1)
    BY <1>3, <2>1
  <2>3. Size(q[i]) \in Nat /\ Size(q[i]) > 0
    <3>1. q[i] \in Packet
      BY <2>1
    <3> QED BY <3>1, SizeNat
  <2> QED BY <1>3, <1>4, <2>1, <2>2, <2>3
<1> QED BY <1>5, <1>6

LEMMA BytesAre ==
    ASSUME NEW q \in Seq(Packet)
    PROVE  \E f : Sums(f, q, Len(q)) /\ Bytes(q) = f[Len(q)]
<1> DEFINE bytes == CHOOSE f : Sums(f, q, Len(q))
<1>1. Sums(bytes, q, Len(q))
  BY SumsExist
<1>2. Bytes(q) = bytes[Len(q)]
  BY DEF Bytes, Sums
<1> HIDE DEF bytes
<1> QED BY <1>1, <1>2

\* The bytes of packets behind others.
LEMMA BytesConcat ==
    ASSUME NEW a \in Seq(Packet), NEW b \in Seq(Packet)
    PROVE  Bytes(a \o b) = Bytes(a) + Bytes(b)
<1> DEFINE q == a \o b
           k == Len(a)
           l == Len(b)
<1>1. /\ q \in Seq(Packet) /\ k \in Nat /\ l \in Nat /\ Len(q) = k + l
      /\ \A i \in 1 .. k : q[i] = a[i]
      /\ \A i \in 1 .. l : q[k + i] = b[i]
  OBVIOUS
<1>2. PICK f : Sums(f, a, k) /\ Bytes(a) = f[k]
  BY BytesAre
<1>3. PICK g : Sums(g, b, l) /\ Bytes(b) = g[l]
  BY BytesAre
<1> HIDE DEF q
<1>4. PICK h : Sums(h, q, Len(q)) /\ Bytes(q) = h[Len(q)]
  BY <1>1, BytesAre
<1>5. f[0] = 0 /\ \A i \in 1 .. k : f[i] = f[i - 1] + Size(a[i])
  BY <1>2, SumsOn
<1>6. g[0] = 0 /\ \A i \in 1 .. l : g[i] = g[i - 1] + Size(b[i])
  BY <1>3, SumsOn
<1>7. h[0] = 0 /\ \A i \in 1 .. k + l : h[i] = h[i - 1] + Size(q[i])
  BY <1>1, <1>4, SumsOn
<1>8. f[k] \in Nat
  BY <1>1, <1>2, SumsGrow
<1> HIDE DEF k, l
<1> DEFINE P(i) == /\ i <= k => h[i] = f[i]
                   /\ i >= k => h[i] = f[k] + g[i - k]
           T == {i \in 0 .. k + l : ~P(i)}
<1>9. T = {}
  <2> SUFFICES ASSUME T # {} PROVE FALSE
    OBVIOUS
  <2>1. PICK i \in T : \A j \in 0 .. i - 1 : j \notin T
    <3>1. T \in SUBSET Nat
      BY <1>1
    <3> HIDE DEF T
    <3> QED BY <3>1, LeastNumber
  <2>2. i \in 0 .. k + l /\ ~P(i) /\ \A j \in 0 .. k + l : j < i => P(j)
    BY <1>1, <2>1
  <2>3. CASE i = 0
    BY <1>1, <1>5, <1>6, <1>7, <1>8, <2>2, <2>3
  <2>4. CASE i # 0
    <3>1. i \in 1 .. k + l /\ i - 1 \in 0 .. k + l /\ i - 1 < i
      <4>1. k \in Nat /\ l \in Nat /\ i \in 0 .. k + l
        BY <1>1, <2>2
      <4> QED BY <2>4, <4>1
    <3>2. P(i - 1) /\ h[i] = h[i - 1] + Size(q[i])
      BY <1>7, <2>2, <3>1
    <3>3. i <= k => h[i] = f[i]
      BY <1>1, <1>5, <3>1, <3>2
    <3>4. i = k => h[i] = f[k] + g[i - k]
      BY <1>1, <1>6, <1>8, <3>3
    <3>5. ASSUME i > k PROVE h[i] = f[k] + g[i - k]
      <4> DEFINE j == i - k
      <4>1. j \in 1 .. l /\ k + j = i /\ j - 1 = (i - 1) - k
        BY <1>1, <3>1, <3>5
      <4>2. g[j] = g[j - 1] + Size(b[j]) /\ q[i] = b[j]
        BY <1>1, <1>6, <4>1 DEF l
      <4>3. h[i - 1] = f[k] + g[j - 1]
        BY <1>1, <3>1, <3>2, <3>5, <4>1
      <4>4. g[j - 1] \in Nat /\ Size(b[j]) \in Nat
        <5>1. j - 1 \in 0 .. l
          BY <1>1, <4>1
        <5>2. b[j] \in Packet
          BY <4>1 DEF l
        <5>3. Size(b[j]) \in Nat
          BY <5>2, SizeNat
        <5> QED BY <1>3, <5>1, <5>3, SumsGrow DEF l
      <4> QED BY <1>8, <3>2, <4>2, <4>3, <4>4
    <3> QED BY <1>1, <2>2, <3>1, <3>3, <3>4, <3>5
  <2> QED BY <2>3, <2>4
<1>10. h[k + l] = f[k] + g[l]
  <2>1. P(k + l) /\ (k + l) - k = l
    BY <1>1, <1>9
  <2> QED BY <1>1, <2>1
<1> QED BY <1>1, <1>2, <1>3, <1>4, <1>10 DEF q

LEMMA BytesNat ==
    ASSUME NEW q \in Seq(Packet)
    PROVE  Bytes(q) \in Nat /\ (Bytes(q) = 0 <=> q = << >>)
<1>1. PICK f : Sums(f, q, Len(q)) /\ Bytes(q) = f[Len(q)]
  BY BytesAre
<1>2. f[Len(q)] \in Nat /\ f[Len(q)] >= Len(q) /\ f[0] = 0
  <2>1. Len(q) \in 0 .. Len(q) /\ Len(q) \in Nat
    OBVIOUS
  <2> QED BY <1>1, <2>1, SumsGrow, SumsOn
<1>3. q = << >> <=> Len(q) = 0
  OBVIOUS
<1> QED BY <1>1, <1>2, <1>3

LEMMA BytesMore ==
    ASSUME NEW q \in Seq(Packet), NEW p \in Packet
    PROVE  Bytes(Append(q, p)) = Bytes(q) + Size(p)
<1>1. <<p>> \in Seq(Packet) /\ Append(q, p) = q \o <<p>> /\ Len(<<p>>) = 1
  OBVIOUS
<1>2. PICK f : Sums(f, <<p>>, 1) /\ Bytes(<<p>>) = f[1]
  BY <1>1, BytesAre
<1>3. f[0] = 0 /\ f[1] = f[0] + Size(p)
  BY <1>2, SumsOn
<1>4. Bytes(<<p>>) = Size(p)
  <2>1. Size(p) \in Nat
    BY SizeNat
  <2> QED BY <1>2, <1>3, <2>1
<1> QED BY <1>1, <1>4, BytesConcat

LEMMA BytesOn ==
    ASSUME NEW q \in Seq(Packet), q # << >>
    PROVE  Tail(q) \in Seq(Packet) /\ Bytes(Tail(q)) < Bytes(q)
<1>1. /\ Tail(q) \in Seq(Packet) /\ Head(q) \in Packet /\ q = <<Head(q)>> \o Tail(q)
      /\ <<Head(q)>> \in Seq(Packet) /\ <<Head(q)>> # << >>
  OBVIOUS
<1>2. Bytes(q) = Bytes(<<Head(q)>>) + Bytes(Tail(q))
  BY <1>1, BytesConcat
<1>3. Bytes(<<Head(q)>>) \in Nat /\ Bytes(<<Head(q)>>) # 0 /\ Bytes(Tail(q)) \in Nat
  BY <1>1, BytesNat
<1> QED BY <1>1, <1>2, <1>3

------------------------------------------------------------------------------
(* What was given to WSASend stays as it is while more is sent.             *)

\* The sessions are what EXCEPT can change.
Row(k) == /\ k = [up |-> k.up, id |-> k.id, out |-> k.out, sent |-> k.sent]
          /\ k.sent \in Nat /\ k.sent <= Len(k.out) /\ \E S : k.out \in Seq(S)
Rows(s) == Server(s) /\ \A c \in Client : Row(s.link[c])

Holds(s, t) == Rows(s) => Rows(t) /\ \A c \in Client : Kept(t, c) = Kept(s, c)

LEMMA LinksRows == ASSUME NEW s, Server(s), Links(s) PROVE Rows(s)
<1> SUFFICES ASSUME NEW c \in Client PROVE Row(s.link[c])
  BY DEF Rows
<1>1. s.link[c] \in Session /\ s.link[c].sent <= Len(s.link[c].out)
  BY DEF Links
<1> QED BY <1>1 DEF Session, Row

LEMMA HoldsOn == ASSUME NEW s, NEW t, NEW u, Holds(s, t), Holds(t, u) PROVE Holds(s, u)
BY DEF Holds

LEMMA LinkHolds == ASSUME NEW s, NEW t, Rows(s) => Server(t) /\ t.link = s.link PROVE Holds(s, t)
BY DEF Holds, Rows, Kept

LEMMA RowMore ==
    ASSUME NEW k, Row(k), NEW p
    PROVE  LET l == [k EXCEPT !.out = Append(k.out, p)]
           IN  Row(l) /\ l.sent = k.sent /\ l.out = Append(k.out, p)
               /\ SubSeq(l.out, 1, l.sent) = SubSeq(k.out, 1, k.sent)
<1> DEFINE l == [k EXCEPT !.out = Append(k.out, p)]
<1>1. PICK S : k.out \in Seq(S)
  BY DEF Row
<1>2. l = [up |-> k.up, id |-> k.id, out |-> Append(k.out, p), sent |-> k.sent]
  BY DEF Row
<1> HIDE DEF l
<1>3. l.up = k.up /\ l.id = k.id /\ l.out = Append(k.out, p) /\ l.sent = k.sent
  BY <1>2
<1> DEFINE q == k.out
           n == k.sent
<1>4. q \in Seq(S \cup {p}) /\ n \in Nat /\ n <= Len(q)
  BY <1>1 DEF Row
<1> HIDE DEF q, n
<1>5. Append(q, p) \in Seq(S \cup {p}) /\ n <= Len(Append(q, p))
  BY <1>4
<1>6. SubSeq(Append(q, p), 1, n) = SubSeq(q, 1, n)
  BY <1>4
<1>7. Row(l)
  BY <1>2, <1>3, <1>4, <1>5 DEF Row, q, n
<1> QED BY <1>3, <1>6, <1>7 DEF q, n, l

LEMMA SendHolds == ASSUME NEW s, NEW packets PROVE Holds(s, Send(s, packets))
<1> DEFINE t == Send(s, packets)
<1> SUFFICES ASSUME Rows(s) PROVE Rows(t) /\ \A c \in Client : Kept(t, c) = Kept(s, c)
  BY DEF Holds
<1>1. /\ Server(t)
      /\ t.link = [c \in Client |->
            IF s.link[c].up /\ s.link[c].id \in DOMAIN packets
              THEN [s.link[c] EXCEPT !.out = Append(s.link[c].out, packets[s.link[c].id])]
              ELSE s.link[c]]
  BY SendFields DEF Rows
<1> HIDE DEF t
<1>2. ASSUME NEW c \in Client PROVE Row(t.link[c]) /\ Kept(t, c) = Kept(s, c)
  <2>1. Row(s.link[c])
    BY DEF Rows
  <2> DEFINE k == s.link[c]
             p == packets[k.id]
             l == [k EXCEPT !.out = Append(k.out, p)]
  <2>2. t.link[c] = k \/ t.link[c] = l
    BY <1>1
  <2>3. Row(l) /\ SubSeq(l.out, 1, l.sent) = SubSeq(k.out, 1, k.sent)
    <3> HIDE DEF p, k
    <3> QED BY <2>1, RowMore DEF k
  <2> QED BY <2>1, <2>2, <2>3 DEF Kept
<1> QED BY <1>1, <1>2 DEF Rows

LEMMA SetPlayerHolds == ASSUME NEW s, NEW n, NEW p PROVE Holds(s, SetPlayer(s, n, p))
<1>1. ASSUME Rows(s) PROVE Server(SetPlayer(s, n, p)) /\ SetPlayer(s, n, p).link = s.link
  <2>1. Server(s)
    BY <1>1 DEF Rows
  <2> QED BY <2>1 DEF SetPlayer, Server
<1> QED BY <1>1, LinkHolds

LEMMA SetGameHolds == ASSUME NEW s, NEW g, NEW x PROVE Holds(s, SetGame(s, g, x))
<1>1. ASSUME Rows(s) PROVE Server(SetGame(s, g, x)) /\ SetGame(s, g, x).link = s.link
  <2>1. Server(s)
    BY <1>1 DEF Rows
  <2> QED BY <2>1 DEF SetGame, Server
<1> QED BY <1>1, LinkHolds

LEMMA BeginGameHolds == ASSUME NEW s, NEW g PROVE Holds(s, BeginGame(s, g))
<1> DEFINE x == s.games[g]
           t == SetGame(s, g, [x EXCEPT !.tries = x.tries + 1, !.started = TRUE])
           f == [n \in DOMAIN s.players |->
                  IF n \in PlayersOf(x)
                    THEN [s.players[n] EXCEPT !.turns = 0, !.state = "WAIT_MAP"]
                    ELSE s.players[n]]
           u == [t EXCEPT !.players = f]
<1>1. BeginGame(s, g) = u \/ BeginGame(s, g) = t
  BY DEF BeginGame
<1>2. Holds(s, t)
  BY SetGameHolds
<1> HIDE DEF t, f
<1>3. Holds(t, u)
  <2>1. Rows(t) => Server(u) /\ u.link = t.link
    BY PlayersField DEF Rows
  <2> HIDE DEF u
  <2> QED BY <2>1, LinkHolds
<1> HIDE DEF u
<1> QED BY <1>1, <1>2, <1>3, HoldsOn

LEMMA OnGameStartHolds == ASSUME NEW s, NEW g PROVE Holds(s, OnGameStart(s, g))
BY SendHolds, BeginGameHolds, HoldsOn DEF OnGameStart

LEMMA OnNextGameHolds == ASSUME NEW s, NEW g PROVE Holds(s, OnNextGame(s, g))
BY SendHolds, BeginGameHolds, HoldsOn DEF OnNextGame

LEMMA OnGameOverHolds == ASSUME NEW s, NEW g, NEW n PROVE Holds(s, OnGameOver(s, g, n))
<1> DEFINE t == Send(s, [m \in PlayersOf(s.games[g]) |-> GameOver(m = n, s.players[n].turns)])
           u == OnAllOver(t, g)
           v == SetGame(u, g, [s.games[g] EXCEPT !.over = TRUE])
<1>1. OnGameOver(s, g, n) = v \/ OnGameOver(s, g, n) = OnNextGame(t, g)
  BY DEF OnGameOver
<1>2. Holds(s, t)
  BY SendHolds
<1> HIDE DEF t
<1>3. Holds(t, u)
  BY SendHolds DEF OnAllOver
<1> HIDE DEF u
<1>4. Holds(u, v)
  BY SetGameHolds
<1> HIDE DEF v
<1> QED BY <1>1, <1>2, <1>3, <1>4, HoldsOn, OnNextGameHolds

LEMMA GiveTurnHolds == ASSUME NEW s, NEW g, NEW n PROVE Holds(s, GiveTurn(s, g, n))
BY SetGameHolds, SendHolds, HoldsOn DEF GiveTurn, NotifyMyTurn

LEMMA StruckHolds ==
    ASSUME NEW s, NEW n, NEW o, NEW c
    PROVE  Holds(s, Struck(s, n, o, c))
<1> DEFINE result == AttackResult(s.players[o].board, c)
           s1 == SetPlayer(s, n, Credited(s.players[n]))
           s2 == SetPlayer(s1, o, Hurt(s.players[o], c))
           s3 == Send(s2, Note(n, Ok))
           s4 == Send(s3, Note(n, Attacked(c, TRUE, result)))
           s5 == Send(s4, Note(o, Attacked(c, FALSE, result)))
<1>1. Struck(s, n, o, c) = s5
  BY DEF Struck
<1>2. Holds(s, s1)
  BY SetPlayerHolds
<1> HIDE DEF s1
<1>3. Holds(s1, s2)
  BY SetPlayerHolds
<1> HIDE DEF s2
<1>4. Holds(s2, s3)
  BY SendHolds
<1> HIDE DEF s3
<1>5. Holds(s3, s4)
  BY SendHolds
<1> HIDE DEF s4
<1>6. Holds(s4, s5)
  BY SendHolds
<1> HIDE DEF s5
<1> QED BY <1>1, <1>2, <1>3, <1>4, <1>5, <1>6, HoldsOn

LEMMA AttackHolds ==
    ASSUME NEW s, Lists(s, {}), NEW g, NEW n, NEW o, Pair(s, g, n, o), NEW c \in Cell
    PROVE  Holds(s, OnSubmitAttack(s, g, n, c))
<1> DEFINE t == Struck(s, n, o, c)
           u == SetPlayer(t, n, Winner(Credited(s.players[n])))
<1>1. \/ OnSubmitAttack(s, g, n, c) = OnGameOver(u, g, n)
      \/ OnSubmitAttack(s, g, n, c) = GiveTurn(t, g, Opponent(s.games[g], s.games[g].turn))
  BY AttackIs
<1>2. Holds(s, t)
  BY StruckHolds
<1> HIDE DEF t
<1>3. Holds(t, u)
  BY SetPlayerHolds
<1> HIDE DEF u
<1> QED BY <1>1, <1>2, <1>3, HoldsOn, OnGameOverHolds, GiveTurnHolds

LEMMA MapHolds ==
    ASSUME NEW s, NEW g, NEW n, NEW info
    PROVE  Holds(s, OnSubmitMap(s, g, n, info))
<1> DEFINE t == SetPlayer(s, n, [s.players[n] EXCEPT !.board = SetMap(info), !.state = "ON_GAME"])
           u == NotifyOk(t, n)
<1>1. \/ OnSubmitMap(s, g, n, info) \in {s, u}
      \/ OnSubmitMap(s, g, n, info) = GiveTurn(u, g, s.games[g].player2)
  BY DEF OnSubmitMap
<1>2. Holds(s, s) /\ Holds(s, t)
  BY SetPlayerHolds DEF Holds
<1> HIDE DEF t
<1>3. Holds(t, u)
  BY SendHolds DEF NotifyOk
<1> HIDE DEF u
<1> QED BY <1>1, <1>2, <1>3, HoldsOn, GiveTurnHolds

LEMMA NameHolds == ASSUME NEW s, NEW c PROVE Holds(s, HandleSubmitName(s, c))
<1> DEFINE n == s.link[c].id
           t == IF HasPlayer(s, n) THEN s ELSE SetPlayer(s, n, NewPlayer)
<1>1. Holds(s, t)
  BY SetPlayerHolds DEF Holds
<1> HIDE DEF t
<1>2. Holds(t, NotifyOk(t, n))
  BY SendHolds DEF NotifyOk
<1> QED BY <1>1, <1>2, HoldsOn DEF HandleSubmitName, t

LEMMA MatchHolds == ASSUME NEW s, NEW n1, NEW n2 PROVE Holds(s, Match(s, n1, n2))
<1> DEFINE r == NewGame(s)
           t == DropDisconnectedPlayers(r)
           g == Head(WaitingGames(t))
           u == AddPlayers(t, g, n1, n2)
<1>1. Match(s, n1, n2) = OnGameStart(u, g)
  BY DEF Match
<1>2. Holds(s, t)
  <2>1. Holds(s, r)
    BY SetGameHolds DEF NewGame
  <2> HIDE DEF r
  <2>2. Holds(r, t)
    <3>1. ASSUME Server(r) PROVE Server(t) /\ t.link = r.link
      <4>1. PICK x, y : t = [r EXCEPT !.games = x, !.players = y]
        BY DEF DropDisconnectedPlayers
      <4> HIDE DEF t
      <4> QED BY <3>1, <4>1 DEF Server
    <3> HIDE DEF t
    <3> QED BY <3>1, LinkHolds DEF Rows
  <2> QED BY <2>1, <2>2, HoldsOn
<1> HIDE DEF t, g
<1>3. Holds(t, u)
  BY SetGameHolds DEF AddPlayers, Holds
<1> HIDE DEF u
<1> QED BY <1>1, <1>2, <1>3, HoldsOn, OnGameStartHolds

------------------------------------------------------------------------------
(* What the stages allow.                                                   *)

\* The numbers of a stage, at most q, k and u.
Within3(q, g, u, unread, kept, new) ==
    q <= unread /\ g + u <= kept /\ u <= new /\ (u = 0 => g <= new)

LEMMA Limits ==
    ASSUME NEW asks \in BOOLEAN, NEW q \in Nat, NEW g \in Nat, NEW u \in Nat
    PROVE  /\ Fit("name", asks, q, g, u)   <=> q = 0 /\ g = 0 /\ u = 0
           /\ Fit("wait", asks, q, g, u)   <=> Within3(q, g, u, 4, 4, 4) /\ ~asks
           /\ Fit("map", asks, q, g, u)    <=> Within3(q, g, u, 44, 44, 44) /\ (asks => q = 0)
           /\ Fit("ready", asks, q, g, u)  <=> Within3(q, g, u, 4, 48, 4) /\ ~asks
           /\ Fit("mine", asks, q, g, u)   <=> Within3(q, g, u, 26, 52, 13) /\ (asks => q = 0)
           /\ Fit("theirs", asks, q, g, u) <=> Within3(q, g, u, 13, 48, 13) /\ ~asks
           /\ Fit("over", asks, q, g, u)   <=> Within3(q, g, u, 43, 47, 34)
           /\ Fit("alone", asks, q, g, u)  <=> Within3(q, g, u, 50, 58, 50)
BY DEF Fit, Most, Within3

\* How the stage of a player changes, and how much it is sent then: by an
\* answer, by its opponent's request, and by others.
LEMMA StagesMove ==
    ASSUME NEW q \in Nat, NEW g \in Nat, NEW u \in Nat, u <= q
    PROVE  /\ Fit("name", TRUE, q, g, u) => Fit("wait", FALSE, q + 4, g, u + 4)
           /\ Fit("map", TRUE, q, g, u) => /\ Fit("ready", FALSE, q + 4, g, u + 4)
                                           /\ Fit("theirs", FALSE, q + 4, g, u + 4)
                                           /\ Fit("mine", FALSE, q + 8, g, u + 8)
           /\ Fit("mine", TRUE, q, g, u) => /\ Fit("theirs", FALSE, q + 13, g, u + 13)
                                            /\ Fit("map", FALSE, q + 26, g, u + 26)
                                            /\ Fit("over", FALSE, q + 34, g, u + 34)
           /\ \A b \in BOOLEAN :
                 /\ Fit("map", b, q, g, u) => Fit("map", b, q + 0, g, u + 0)
                 /\ Fit("ready", b, q, g, u) => /\ Fit("mine", b, q + 4, g, u + 4)
                                                /\ Fit("theirs", b, q + 0, g, u + 0)
                 /\ Fit("theirs", b, q, g, u) /\ u = 0 =>
                       /\ Fit("mine", b, q + 13, g, u + 13)
                       /\ Fit("map", b, q + 22, g, u + 22)
                       /\ Fit("over", b, q + 30, g, u + 30)
                 /\ Fit("wait", b, q, g, u) => Fit("map", b, q + 40, g, u + 40)
                 /\ \A k \in {"map", "ready", "mine", "theirs", "over"} :
                       Fit(k, b, q, g, u) => Fit("alone", b, q + 6, g, u + 6)
                 /\ Fit("over", b, q, g, u) => Fit("alone", b, q, g, u)
<1>1. TRUE \in BOOLEAN /\ FALSE \in BOOLEAN
  OBVIOUS
<1>2. \A i \in {0, 4, 6, 8, 13, 22, 26, 30, 34, 40} : q + i \in Nat /\ u + i \in Nat
  OBVIOUS
<1>3. Fit("name", TRUE, q, g, u) => Fit("wait", FALSE, q + 4, g, u + 4)
  BY DEF Fit, Most
<1>4. ASSUME Fit("map", TRUE, q, g, u)
      PROVE  /\ Fit("ready", FALSE, q + 4, g, u + 4)
             /\ Fit("theirs", FALSE, q + 4, g, u + 4)
             /\ Fit("mine", FALSE, q + 8, g, u + 8)
  <2>1. q = 0 /\ u = 0 /\ g <= 44
    BY <1>4 DEF Fit, Most
  <2> QED BY <2>1 DEF Fit, Most
<1>9. ASSUME Fit("mine", TRUE, q, g, u)
      PROVE  /\ Fit("theirs", FALSE, q + 13, g, u + 13)
             /\ Fit("map", FALSE, q + 26, g, u + 26)
             /\ Fit("over", FALSE, q + 34, g, u + 34)
  <2>1. q = 0 /\ u = 0 /\ g <= 13
    BY <1>9 DEF Fit, Most
  <2> QED BY <2>1 DEF Fit, Most
<1>5. ASSUME NEW b \in BOOLEAN
      PROVE  /\ Fit("map", b, q, g, u) => Fit("map", b, q + 0, g, u + 0)
             /\ Fit("ready", b, q, g, u) => /\ Fit("mine", b, q + 4, g, u + 4)
                                            /\ Fit("theirs", b, q + 0, g, u + 0)
  BY <1>2, Limits DEF Within3
<1>6. ASSUME NEW b \in BOOLEAN, Fit("theirs", b, q, g, u), u = 0
      PROVE  /\ Fit("mine", b, q + 13, g, u + 13)
             /\ Fit("map", b, q + 22, g, u + 22)
             /\ Fit("over", b, q + 30, g, u + 30)
  BY <1>2, <1>6, Limits DEF Within3
<1>7. ASSUME NEW b \in BOOLEAN
      PROVE  /\ Fit("wait", b, q, g, u) => Fit("map", b, q + 40, g, u + 40)
             /\ Fit("over", b, q, g, u) => Fit("alone", b, q, g, u)
  BY <1>2, Limits DEF Within3
<1>8. ASSUME NEW b \in BOOLEAN, NEW k \in {"map", "ready", "mine", "theirs", "over"},
             Fit(k, b, q, g, u)
      PROVE  Fit("alone", b, q + 6, g, u + 6)
  BY <1>2, <1>8, Limits DEF Within3
<1> QED BY <1>3, <1>4, <1>5, <1>6, <1>7, <1>8, <1>9

\* Nothing is asked, or no more is.
LEMMA FitLess ==
    ASSUME NEW k, NEW a, NEW q, NEW g, NEW u, Fit(k, a, q, g, u)
    PROVE  Fit(k, FALSE, q, g, u)
BY DEF Fit

\* A player in a match asks when it has been sent nothing.
LEMMA FitAsks ==
    ASSUME NEW k, k \notin {"over", "alone"}, NEW q, NEW g, NEW u, Fit(k, TRUE, q, g, u)
    PROVE  q = 0
BY DEF Fit

LEMMA LeftNat ==
    ASSUME NEW s, Links(s), NEW c \in Client
    PROVE  Left(s, c) \in Nat /\ Lent(s, c) \in Nat /\ Kept(s, c) \in Seq(Packet)
<1>1. s.link[c] \in Session /\ s.link[c].sent <= Len(s.link[c].out)
  BY DEF Links
<1>2. Kept(s, c) \in Seq(Packet)
  <2> DEFINE q == s.link[c].out
             n == s.link[c].sent
  <2>1. q \in Seq(Packet) /\ n \in Nat /\ n <= Len(q)
    BY <1>1 DEF Session
  <2> HIDE DEF q, n
  <2>2. SubSeq(q, 1, n) \in Seq(Packet)
    BY <2>1
  <2> QED BY <2>2 DEF Kept, q, n
<1>3. << >> \in Seq(Packet)
  OBVIOUS
<1> QED BY <1>2, <1>3, PendingType, BytesNat DEF Left, Lent

\* The client is sent x bytes.
More(s, t, d, x) == Left(t, d) = Left(s, d) + x /\ Lent(t, d) = Lent(s, d)

\* The games of t are games of s whose players are in the same role and are
\* sent nothing, or nobody in them is ahead.
LEMMA BehindKept ==
    ASSUME NEW s, Behind(s), NEW t,
           \A c \in Client : t.link[c].up => s.link[c].up /\ t.link[c].id = s.link[c].id,
           \A h \in DOMAIN t.games : ~t.games[h].over =>
              \/ /\ h \in DOMAIN s.games /\ ~s.games[h].over
                 /\ PlayersOf(t.games[h]) = PlayersOf(s.games[h])
                 /\ \A m \in PlayersOf(s.games[h]) : Role(t, m) = Role(s, m)
                 /\ \A d \in Client : t.link[d].up /\ t.link[d].id \in PlayersOf(s.games[h])
                                         => Left(t, d) = Left(s, d)
              \/ \A c, d \in Client :
                    /\ t.link[c].up /\ t.link[d].up
                    /\ PlayersOf(t.games[h]) = {t.link[c].id, t.link[d].id}
                    /\ Role(t, t.link[c].id) = "theirs"
                    => Left(t, d) # 0
    PROVE  Behind(t)
<1> SUFFICES ASSUME NEW h \in DOMAIN t.games, NEW c \in Client, NEW d \in Client,
                    ~t.games[h].over, t.link[c].up, t.link[d].up,
                    PlayersOf(t.games[h]) = {t.link[c].id, t.link[d].id},
                    Role(t, t.link[c].id) = "theirs", Left(t, d) = 0
             PROVE  Left(t, c) = 0
  BY DEF Behind
<1>1. /\ h \in DOMAIN s.games /\ ~s.games[h].over
      /\ PlayersOf(t.games[h]) = PlayersOf(s.games[h])
      /\ \A m \in PlayersOf(s.games[h]) : Role(t, m) = Role(s, m)
      /\ Left(t, c) = Left(s, c) /\ Left(t, d) = Left(s, d)
  OBVIOUS
<1>2. /\ s.link[c].up /\ s.link[d].up
      /\ t.link[c].id = s.link[c].id /\ t.link[d].id = s.link[d].id
  OBVIOUS
<1>3. PlayersOf(s.games[h]) = {s.link[c].id, s.link[d].id} /\ Role(s, s.link[c].id) = "theirs"
  BY <1>1, <1>2
<1> QED BY <1>1, <1>2, <1>3 DEF Behind

LEMMA StageSame == ASSUME NEW s, NEW t, NEW m, Same(s, t, m) PROVE Stage(t, m) = Stage(s, m)
BY DEF Same, Stage

\* A session to whose player nothing happens and that is sent nothing.
LEMMA FitsSame ==
    ASSUME NEW s, Links(s), NEW t, NEW d \in Client, t.link[d].id = s.link[d].id,
           Same(s, t, s.link[d].id), More(s, t, d, 0), NEW w, NEW a, Fits(s, d, w, a)
    PROVE  Fits(t, d, w, a)
<1>1. Stage(t, t.link[d].id) = Stage(s, s.link[d].id)
  BY StageSame
<1>2. Left(t, d) = Left(s, d) /\ Lent(t, d) = Lent(s, d)
  BY LeftNat DEF More
<1> QED BY <1>1, <1>2 DEF Fits

\* A session whose player's stage becomes l, and that is sent x bytes.
LEMMA FitsMore ==
    ASSUME NEW s, Links(s), NEW t, NEW d \in Client, t.link[d].id = s.link[d].id,
           NEW x \in Nat, More(s, t, d, x), NEW w \in Seq(Packet), NEW a, NEW b, Fits(s, d, w, a),
           LET u == Left(s, d)
               q == Bytes(w) + u
           IN  \A g \in Nat : Fit(Stage(s, s.link[d].id), a, q, g, u)
                                => Fit(Stage(t, s.link[d].id), b, q + x, g, u + x)
    PROVE  Fits(t, d, w, b)
<1> DEFINE u == Left(s, d)
           q == Bytes(w)
<1>1. u \in Nat /\ Lent(s, d) \in Nat /\ q \in Nat
  BY LeftNat, BytesNat
<1>2. Left(t, d) = u + x /\ Lent(t, d) = Lent(s, d)
  BY DEF More
<1>3. Fit(Stage(t, s.link[d].id), b, (q + u) + x, Lent(s, d), u + x)
  BY <1>1 DEF Fits
<1> HIDE DEF u, q
<1>4. (q + u) + x = q + (u + x)
  BY <1>1
<1> QED BY <1>2, <1>3, <1>4 DEF Fits, q

\* Who asked is answered x bytes; its opponent is sent y, its buffer flushed if
\* it is not its turn.
Answered(a, k, x) ==
    \A q, g, u \in Nat : u <= q /\ Fit(a, TRUE, q, g, u) => Fit(k, FALSE, q + x, g, u + x)
Reached(b, l, y) ==
    \A i \in BOOLEAN : \A q, g, u \in Nat :
       u <= q /\ Fit(b, i, q, g, u) /\ (b = "theirs" => u = 0) => Fit(l, i, q + y, g, u + y)

LEMMA AnsweredTable ==
    /\ Answered("map", "ready", 4) /\ Answered("map", "mine", 8) /\ Answered("map", "theirs", 4)
    /\ Answered("mine", "theirs", 13) /\ Answered("mine", "map", 26) /\ Answered("mine", "over", 34)
    /\ Answered("name", "wait", 4)
BY StagesMove DEF Answered

LEMMA ReachedTable ==
    /\ Reached("map", "map", 0) /\ Reached("ready", "theirs", 0) /\ Reached("ready", "mine", 4)
    /\ Reached("wait", "map", 40)
    /\ Reached("theirs", "mine", 13) /\ Reached("theirs", "map", 22) /\ Reached("theirs", "over", 30)
<1> USE DEF Reached
<1>1. Reached("map", "map", 0)
  BY StagesMove
<1>2. Reached("ready", "theirs", 0)
  BY StagesMove
<1>3. Reached("ready", "mine", 4)
  BY StagesMove
<1>0. Reached("wait", "map", 40)
  BY StagesMove
<1>4. Reached("theirs", "mine", 13)
  BY StagesMove
<1>5. Reached("theirs", "map", 22)
  BY StagesMove
<1>6. Reached("theirs", "over", 30)
  BY StagesMove
<1> QED BY <1>0, <1>1, <1>2, <1>3, <1>4, <1>5, <1>6

\* A request of c is handled within the game of its player n and of o.
LEMMA FineWithin ==
    ASSUME NEW s, Lists(s, {}), Even(s), NEW g, NEW n, NEW o, Pair(s, g, n, o),
           NEW t, Within(s, t, g, n, o), NEW c \in Client, s.link[c].up, s.link[c].id = n,
           NEW x \in Nat, NEW y \in Nat,
           \A d \in Client : s.link[d].up =>
              More(s, t, d, IF s.link[d].id = n THEN x ELSE IF s.link[d].id = o THEN y ELSE 0),
           NEW w \in [Client -> Seq(Packet)], NEW asks \in [Client -> BOOLEAN],
           Fine(s, w, asks), asks[c],
           Answered(Stage(s, n), Stage(t, n), x), Reached(Stage(s, o), Stage(t, o), y),
           Role(t, n) = "theirs" => y > 0, Role(t, o) = "theirs" => x > 0
    PROVE  Fine(t, w, [asks EXCEPT ![c] = FALSE])
<1>1. /\ g \in DOMAIN s.games /\ ~s.games[g].over /\ PlayersOf(s.games[g]) = {n, o} /\ n # o
      /\ HasPlayer(s, n) /\ HasPlayer(s, o)
  BY DEF Pair
<1>2. /\ Lists(t, {}) /\ Steady(s, t) /\ DOMAIN t.games = DOMAIN s.games
      /\ \A h \in DOMAIN s.games : PlayersOf(t.games[h]) = PlayersOf(s.games[h])
      /\ \A h \in DOMAIN s.games : h # g => t.games[h] = s.games[h]
  BY DEF Within, PlayersOf
<1>3. ASSUME NEW m, m \notin {n, o} PROVE Same(s, t, m)
  <2>1. (HasPlayer(t, m) <=> HasPlayer(s, m)) /\ (HasPlayer(s, m) => t.players[m] = s.players[m])
    BY <1>3 DEF HasPlayer, Within
  <2>2. \A k : k \notin PlayersOf(s.games[g]) =>
           (HasPlayer(t, k) <=> HasPlayer(s, k)) /\ (HasPlayer(s, k) => t.players[k] = s.players[k])
    BY <1>1 DEF HasPlayer, Within
  <2> QED BY <1>1, <1>2, <1>3, <2>2, OthersSame
<1>4. Stage(s, n) \notin {"over", "alone"} /\ Stage(s, o) = Role(s, o) /\ Stage(s, n) = Role(s, n)
  <2>1. Pair(s, g, o, n)
    BY PairTurned
  <2>2. Role(s, n) \in {"map", "ready", "mine", "theirs"} /\ Role(s, o) \in {"map", "ready", "mine", "theirs"}
    <3>1. Role(s, n) \in {"map", "ready", "mine", "theirs"}
      BY PairRole
    <3>2. Role(s, o) \in {"map", "ready", "mine", "theirs"}
      BY <2>1, PairRole
    <3> QED BY <3>1, <3>2
  <2> QED BY <2>2 DEF Stage
<1>5. \A d \in Client : /\ Left(s, d) \in Nat /\ Lent(s, d) \in Nat /\ Bytes(w[d]) \in Nat
                        /\ w[d] \in Seq(Packet) /\ asks[d] \in BOOLEAN
  BY LeftNat, BytesNat DEF Lists
<1>6. Left(s, c) = 0
  <2>1. Fit(Stage(s, n), TRUE, Bytes(w[c]) + Left(s, c), Lent(s, c), Left(s, c))
    <3>1. asks[c] = TRUE
      BY <1>5
    <3>2. Fits(s, c, w[c], TRUE)
      BY <3>1 DEF Fine
    <3> QED BY <3>2 DEF Fits
  <2>2. Bytes(w[c]) + Left(s, c) = 0
    BY <1>4, <2>1, FitAsks
  <2> QED BY <1>5, <2>2
<1>7. ASSUME NEW d \in Client, s.link[d].up, s.link[d].id = o, Role(s, o) = "theirs"
      PROVE  Left(s, d) = 0
  BY <1>1, <1>6, <1>7 DEF Fine, Behind
<1>8. ASSUME NEW d \in Client, t.link[d].up
      PROVE  /\ s.link[d].up /\ t.link[d].id = s.link[d].id
             /\ s.link[d].id = n => d = c /\ More(s, t, d, x)
             /\ s.link[d].id = o => d # c /\ More(s, t, d, y)
             /\ s.link[d].id \notin {n, o} => More(s, t, d, 0)
  <2>1. s.link[d].up /\ t.link[d].id = s.link[d].id
    BY <1>2, <1>8 DEF Steady
  <2>2. s.link[d].id = n => d = c
    BY <2>1 DEF Even, Unique
  <2> QED BY <1>1, <2>1, <2>2
<1>9. Behind(t)
  <2>1. ASSUME NEW h \in DOMAIN t.games, ~t.games[h].over
        PROVE  \/ /\ h \in DOMAIN s.games /\ ~s.games[h].over
                  /\ PlayersOf(t.games[h]) = PlayersOf(s.games[h])
                  /\ \A m \in PlayersOf(s.games[h]) : Role(t, m) = Role(s, m)
                  /\ \A d \in Client : t.link[d].up /\ t.link[d].id \in PlayersOf(s.games[h])
                                          => Left(t, d) = Left(s, d)
               \/ \A i, d \in Client :
                     /\ t.link[i].up /\ t.link[d].up
                     /\ PlayersOf(t.games[h]) = {t.link[i].id, t.link[d].id}
                     /\ Role(t, t.link[i].id) = "theirs"
                     => Left(t, d) # 0
    <3>1. CASE h = g
      <4> SUFFICES ASSUME NEW i \in Client, NEW d \in Client, t.link[i].up, t.link[d].up,
                          {n, o} = {t.link[i].id, t.link[d].id}, Role(t, t.link[i].id) = "theirs"
                   PROVE  Left(t, d) # 0
        BY <1>1, <1>2, <3>1
      <4>1. CASE t.link[i].id = n /\ t.link[d].id = o
        <5>1. Left(t, d) = Left(s, d) + y /\ y > 0
          BY <1>8, <4>1 DEF More
        <5> QED BY <1>5, <5>1
      <4>2. CASE t.link[i].id = o /\ t.link[d].id = n
        <5>1. Left(t, d) = Left(s, d) + x /\ x > 0
          BY <1>8, <4>2 DEF More
        <5> QED BY <1>5, <5>1
      <4> QED BY <1>1, <4>1, <4>2
    <3>2. CASE h # g
      <4>1. \A m \in PlayersOf(s.games[h]) : m \notin {n, o}
        BY <1>1, <1>2, <3>2 DEF Lists, Apart
      <4>2. \A m \in PlayersOf(s.games[h]) : Role(t, m) = Role(s, m)
        BY <1>3, <4>1 DEF Same
      <4>3. ASSUME NEW d \in Client, t.link[d].up, t.link[d].id \in PlayersOf(s.games[h])
            PROVE  Left(t, d) = Left(s, d)
        <5>1. Left(t, d) = Left(s, d) + 0
          BY <1>8, <4>1, <4>3 DEF More
        <5> QED BY <1>5, <5>1
      <4> QED BY <1>2, <2>1, <3>2, <4>2, <4>3
    <3> QED BY <3>1, <3>2
  <2>2. Behind(s)
    BY DEF Fine
  <2>3. \A d \in Client : t.link[d].up => s.link[d].up /\ t.link[d].id = s.link[d].id
    BY <1>8
  <2> QED BY <2>1, <2>2, <2>3, BehindKept
<1>10. ASSUME NEW d \in Client, t.link[d].up
       PROVE  Fits(t, d, w[d], [asks EXCEPT ![c] = FALSE][d])
  <2>1. /\ s.link[d].up /\ t.link[d].id = s.link[d].id /\ Fits(s, d, w[d], asks[d])
        /\ Links(s) /\ w[d] \in Seq(Packet)
    BY <1>5, <1>8, <1>10 DEF Fine, Lists
  <2> DEFINE u == Left(s, d)
             q == Bytes(w[d]) + u
  <2>2. u \in Nat /\ q \in Nat /\ u <= q
    BY <1>5
  <2>3. CASE s.link[d].id = n
    <3>1. d = c /\ asks[d] = TRUE /\ More(s, t, d, x)
      BY <1>5, <1>8, <1>10, <2>3
    <3>2. \A h \in Nat : Fit(Stage(s, n), TRUE, q, h, u) => Fit(Stage(t, n), FALSE, q + x, h, u + x)
      <4> HIDE DEF q, u
      <4> QED BY <2>2 DEF Answered
    <3>3. Fits(t, d, w[d], FALSE)
      BY <2>1, <2>3, <3>1, <3>2, FitsMore
    <3> QED BY <3>1, <3>3
  <2>4. CASE s.link[d].id = o
    <3>1. d # c /\ More(s, t, d, y) /\ (Stage(s, o) = "theirs" => u = 0)
      BY <1>4, <1>7, <1>8, <1>10, <2>1, <2>4
    <3>2. \A h \in Nat : Fit(Stage(s, o), asks[d], q, h, u)
                           => Fit(Stage(t, o), asks[d], q + y, h, u + y)
      <4> HIDE DEF q, u
      <4> QED BY <1>5, <2>2, <3>1 DEF Reached
    <3>3. Fits(t, d, w[d], asks[d])
      BY <2>1, <2>4, <3>1, <3>2, FitsMore
    <3> QED BY <3>1, <3>3
  <2>5. CASE s.link[d].id \notin {n, o}
    <3>1. d # c /\ More(s, t, d, 0) /\ Same(s, t, s.link[d].id)
      BY <1>3, <1>8, <1>10, <2>5
    <3>2. Fits(t, d, w[d], asks[d])
      BY <2>1, <3>1, FitsSame
    <3> QED BY <3>1, <3>2
  <2> QED BY <2>3, <2>4, <2>5
<1> QED BY <1>9, <1>10 DEF Fine

------------------------------------------------------------------------------
(* The requests that the server expects.                                    *)

\* What is sent, in bytes.
LEMMA MoreBy ==
    ASSUME NEW s, Lists(s, {}), NEW t, Holds(s, t), NEW d \in Client
    PROVE  LET p == Pending(s, d, << >>)
               q == Pending(t, d, << >>)
           IN  /\ q = p => More(s, t, d, 0)
               /\ \A a \in Packet : q = Append(p, a) => More(s, t, d, Size(a))
               /\ \A a, b \in Packet :
                     q = Append(Append(p, a), b) => More(s, t, d, Size(a) + Size(b))
               /\ \A a, b, e \in Packet :
                     q = Append(Append(Append(p, a), b), e)
                       => More(s, t, d, Size(a) + Size(b) + Size(e))
               /\ \A a, b, e, f \in Packet :
                     q = Append(Append(Append(Append(p, a), b), e), f)
                       => More(s, t, d, Size(a) + Size(b) + Size(e) + Size(f))
<1> DEFINE p == Pending(s, d, << >>)
           q == Pending(t, d, << >>)
<1>1. p \in Seq(Packet) /\ Lent(t, d) = Lent(s, d)
  <2>1. Rows(s)
    BY LinksRows DEF Lists
  <2>2. Kept(t, d) = Kept(s, d)
    BY <2>1 DEF Holds
  <2>3. << >> \in Seq(Packet)
    OBVIOUS
  <2>4. Links(s)
    BY DEF Lists
  <2>5. p \in Seq(Packet)
    BY <2>3, <2>4, PendingType
  <2> QED BY <2>2, <2>5 DEF Lent
<1>2. Left(s, d) = Bytes(p) /\ Left(t, d) = Bytes(q) /\ Bytes(p) \in Nat
  BY <1>1, BytesNat DEF Left
<1> HIDE DEF p, q
<1>3. \A a \in Packet : Size(a) \in Nat
  BY SizeNat
<1>4. ASSUME NEW r \in Seq(Packet), NEW a \in Packet
      PROVE  /\ Append(r, a) \in Seq(Packet) /\ Bytes(Append(r, a)) = Bytes(r) + Size(a)
             /\ Bytes(r) \in Nat
  BY BytesMore, BytesNat
<1>5. q = p => More(s, t, d, 0)
  BY <1>1, <1>2 DEF More
<1>6. ASSUME NEW a \in Packet, q = Append(p, a) PROVE More(s, t, d, Size(a))
  BY <1>1, <1>2, <1>4, <1>6 DEF More
<1>7. ASSUME NEW a \in Packet, NEW b \in Packet, q = Append(Append(p, a), b)
      PROVE  More(s, t, d, Size(a) + Size(b))
  <2>1. Append(p, a) \in Seq(Packet) /\ Bytes(Append(p, a)) = Bytes(p) + Size(a)
    BY <1>1, <1>4
  <2>2. Bytes(q) = Bytes(Append(p, a)) + Size(b)
    BY <1>4, <1>7, <2>1
  <2>3. Size(a) \in Nat /\ Size(b) \in Nat
    BY <1>3
  <2> QED BY <1>1, <1>2, <2>1, <2>2, <2>3 DEF More
<1>8. ASSUME NEW a \in Packet, NEW b \in Packet, NEW e \in Packet,
             q = Append(Append(Append(p, a), b), e)
      PROVE  More(s, t, d, Size(a) + Size(b) + Size(e))
  <2>1. Append(p, a) \in Seq(Packet) /\ Bytes(Append(p, a)) = Bytes(p) + Size(a)
    BY <1>1, <1>4
  <2> DEFINE r == Append(Append(p, a), b)
  <2>2. r \in Seq(Packet) /\ Bytes(r) = Bytes(Append(p, a)) + Size(b)
    BY <1>4, <2>1
  <2> HIDE DEF r
  <2>3. Bytes(q) = Bytes(r) + Size(e)
    BY <1>4, <1>8, <2>2 DEF r
  <2>4. Size(a) \in Nat /\ Size(b) \in Nat /\ Size(e) \in Nat
    BY <1>3
  <2> QED BY <1>1, <1>2, <2>1, <2>2, <2>3, <2>4 DEF More
<1>9. ASSUME NEW a \in Packet, NEW b \in Packet, NEW e \in Packet, NEW f \in Packet,
             q = Append(Append(Append(Append(p, a), b), e), f)
      PROVE  More(s, t, d, Size(a) + Size(b) + Size(e) + Size(f))
  <2>1. Append(p, a) \in Seq(Packet) /\ Bytes(Append(p, a)) = Bytes(p) + Size(a)
    BY <1>1, <1>4
  <2> DEFINE r == Append(Append(p, a), b)
             l == Append(r, e)
  <2>2. r \in Seq(Packet) /\ Bytes(r) = Bytes(Append(p, a)) + Size(b)
    BY <1>4, <2>1
  <2> HIDE DEF r
  <2>3. l \in Seq(Packet) /\ Bytes(l) = Bytes(r) + Size(e)
    BY <1>4, <2>2
  <2> HIDE DEF l
  <2>4. Bytes(q) = Bytes(l) + Size(f)
    BY <1>4, <1>9, <2>3 DEF r, l
  <2>5. Size(a) \in Nat /\ Size(b) \in Nat /\ Size(e) \in Nat /\ Size(f) \in Nat
    BY <1>3
  <2> QED BY <1>1, <1>2, <2>1, <2>2, <2>3, <2>4, <2>5 DEF More
<1> QED BY <1>5, <1>6, <1>7, <1>8, <1>9 DEF p, q

LEMMA NameEffect ==
    ASSUME NEW s, Lists(s, {}), Even(s), NEW c \in Client, s.link[c].up,
           Role(s, s.link[c].id) = "name"
    PROVE  LET n == s.link[c].id
               t == HandleSubmitName(s, c)
           IN  /\ t.games = s.games /\ Role(t, n) = "wait" /\ \A m : m # n => Same(s, t, m)
               /\ \A g \in DOMAIN s.games : n \notin PlayersOf(s.games[g])
               /\ \A d \in Client : t.link[d].up =>
                     /\ s.link[d].up /\ t.link[d].id = s.link[d].id
                     /\ d = c => s.link[d].id = n /\ More(s, t, d, 4)
                     /\ d # c => s.link[d].id # n /\ More(s, t, d, 0)
<1> DEFINE n == s.link[c].id
           r == SetPlayer(s, n, NewPlayer)
           t == HandleSubmitName(s, c)
<1>1. ~HasPlayer(s, n) /\ GameOf(s, n) = None
  <2>1. ~HasPlayer(s, n)
    BY RoleSays
  <2> QED BY <2>1 DEF Even, NamesFree
<1>2. \A g \in DOMAIN s.games : n \notin PlayersOf(s.games[g])
  BY <1>1, GameOfFound DEF Lists
<1>3. t = Send(r, Note(n, Ok)) /\ Holds(s, t)
  BY <1>1, NameHolds DEF HandleSubmitName, NotifyOk, Note
<1>4. /\ Server(r) /\ r.link = s.link /\ r.games = s.games
      /\ r.players = [m \in DOMAIN s.players \cup {n} |-> IF m = n THEN NewPlayer ELSE s.players[m]]
  <2>1. Server(s)
    BY DEF Lists
  <2> QED BY <2>1, SetPlayerFields
<1>5. s.link[c].id = n
  OBVIOUS
<1> HIDE DEF n, r, t
<1>6. Links(r) /\ Ok \in Packet
  BY <1>4, PacketKinds DEF Lists, Links
<1>7. t.players = r.players /\ t.games = s.games
  BY <1>3, <1>4, SendFields
<1>8. Notes(r, t, n, Ok)
  BY <1>3, <1>4, <1>6, NoteGives
<1>9. \A m : m # n => Same(s, t, m)
  <2>1. \A m : m # n => /\ HasPlayer(t, m) <=> HasPlayer(s, m)
                        /\ HasPlayer(s, m) => t.players[m] = s.players[m]
    BY <1>4, <1>7 DEF HasPlayer
  <2>2. t.games = s.games
    BY <1>7
  <2> QED BY <1>2, <2>1, <2>2, OtherPlayersSame
<1>10. Role(t, n) = "wait"
  BY <1>4, <1>7 DEF Role, NewPlayer, HasPlayer
<1>11. ASSUME NEW d \in Client, t.link[d].up
       PROVE  /\ s.link[d].up /\ t.link[d].id = s.link[d].id
              /\ d = c => s.link[d].id = n /\ More(s, t, d, 4)
              /\ d # c => s.link[d].id # n /\ More(s, t, d, 0)
  <2>1. s.link[d].up /\ t.link[d].id = s.link[d].id
    BY <1>4, <1>8, <1>11 DEF Notes, Steady
  <2>2. d # c => s.link[d].id # n
    BY <1>5, <2>1 DEF Even, Unique
  <2>3. << >> \in Seq(Packet)
    OBVIOUS
  <2>4. /\ d = c => Pending(t, d, << >>) = Append(Pending(s, d, << >>), Ok)
        /\ d # c => Pending(t, d, << >>) = Pending(s, d, << >>)
    <3>1. \A w0 \in Seq(Packet) : Pending(r, d, w0) = Pending(s, d, w0)
      BY <1>4 DEF Pending
    <3>2. r.link[d].up /\ r.link[d].id = s.link[d].id
      BY <1>4, <2>1
    <3>3. /\ r.link[d].id = n => Pending(t, d, << >>) = Append(Pending(r, d, << >>), Ok)
          /\ r.link[d].id # n => Pending(t, d, << >>) = Pending(r, d, << >>)
      BY <1>8, <2>3, <3>2 DEF Notes
    <3>4. Pending(r, d, << >>) = Pending(s, d, << >>)
      BY <2>3, <3>1
    <3> QED BY <1>5, <2>2, <3>2, <3>3, <3>4
  <2>5. Size(Ok) = 4
    BY Sizes
  <2> QED BY <1>3, <1>5, <1>6, <2>1, <2>2, <2>4, <2>5, MoreBy
<1> QED BY <1>2, <1>7, <1>9, <1>10, <1>11 DEF n, t, r

LEMMA NameFine ==
    ASSUME NEW s, Lists(s, {}), Even(s), NEW c \in Client, s.link[c].up,
           Role(s, s.link[c].id) = "name",
           NEW w \in [Client -> Seq(Packet)], NEW asks \in [Client -> BOOLEAN],
           Fine(s, w, asks), asks[c]
    PROVE  Fine(HandleSubmitName(s, c), w, [asks EXCEPT ![c] = FALSE])
<1> DEFINE n == s.link[c].id
           t == HandleSubmitName(s, c)
<1>1. /\ t.games = s.games /\ Role(t, n) = "wait" /\ \A m : m # n => Same(s, t, m)
      /\ \A g \in DOMAIN s.games : n \notin PlayersOf(s.games[g])
      /\ \A d \in Client : t.link[d].up =>
            /\ s.link[d].up /\ t.link[d].id = s.link[d].id
            /\ d = c => s.link[d].id = n /\ More(s, t, d, 4)
            /\ d # c => s.link[d].id # n /\ More(s, t, d, 0)
  BY NameEffect
<1>5. s.link[c].id = n
  OBVIOUS
<1> HIDE DEF n, t
<1>12. \A d \in Client : Left(s, d) \in Nat /\ Bytes(w[d]) \in Nat /\ w[d] \in Seq(Packet)
  BY LeftNat, BytesNat DEF Lists
<1>13. Behind(t)
  <2>1. \A d \in Client : t.link[d].up => s.link[d].up /\ t.link[d].id = s.link[d].id
    BY <1>1
  <2>2. ASSUME NEW h \in DOMAIN s.games
        PROVE  /\ \A m \in PlayersOf(s.games[h]) : Role(t, m) = Role(s, m)
               /\ \A d \in Client : t.link[d].up /\ t.link[d].id \in PlayersOf(s.games[h])
                                       => Left(t, d) = Left(s, d)
    <3>1. n \notin PlayersOf(s.games[h])
      BY <1>1
    <3>2. ASSUME NEW d \in Client, t.link[d].up, t.link[d].id \in PlayersOf(s.games[h])
          PROVE  Left(t, d) = Left(s, d)
      BY <1>1, <1>12, <3>1, <3>2 DEF More
    <3> QED BY <1>1, <3>1, <3>2 DEF Same
  <2>3. Behind(s)
    BY DEF Fine
  <2> QED BY <1>1, <2>1, <2>2, <2>3, BehindKept
<1>14. ASSUME NEW d \in Client, t.link[d].up
       PROVE  Fits(t, d, w[d], [asks EXCEPT ![c] = FALSE][d])
  <2>1. s.link[d].up /\ t.link[d].id = s.link[d].id /\ Fits(s, d, w[d], asks[d]) /\ Links(s)
    BY <1>1, <1>14 DEF Fine, Lists
  <2>2. CASE d = c
    <3> DEFINE u == Left(s, c)
               q == Bytes(w[c]) + u
    <3>1. Stage(s, n) = "name" /\ Stage(t, n) = "wait"
      BY <1>5, <1>1 DEF Stage
    <3>2. \A g \in Nat : Fit("name", TRUE, q, g, u) => Fit("wait", FALSE, q + 4, g, u + 4)
      <4>1. u \in Nat /\ q \in Nat /\ u <= q
        BY <1>12
      <4> HIDE DEF u, q
      <4> QED BY <4>1, StagesMove
    <3>3. Fits(s, c, w[c], TRUE) /\ More(s, t, c, 4) /\ t.link[c].id = s.link[c].id
      <4>1. asks[c] = TRUE
        OBVIOUS
      <4> QED BY <1>1, <1>14, <2>1, <2>2, <4>1
    <3>4. \A g \in Nat : Fit(Stage(s, s.link[c].id), TRUE, q, g, u)
                            => Fit(Stage(t, s.link[c].id), FALSE, q + 4, g, u + 4)
      BY <1>5, <3>1, <3>2
    <3>5. Fits(t, c, w[c], FALSE)
      BY <1>12, <2>1, <3>3, <3>4, FitsMore
    <3> QED BY <2>2, <3>5
  <2>3. CASE d # c
    <3>1. Same(s, t, s.link[d].id) /\ More(s, t, d, 0)
      BY <1>1, <1>14, <2>3
    <3>2. Fits(t, d, w[d], asks[d])
      BY <2>1, <3>1, FitsSame
    <3> QED BY <2>3, <3>2
  <2> QED BY <2>2, <2>3
<1>15. Fine(t, w, [asks EXCEPT ![c] = FALSE])
  BY <1>13, <1>14 DEF Fine
<1> QED BY <1>15 DEF t

\* How the stages of two players change, and how many bytes they are sent.
Turns(s, t, n, o, x, y, a, b, k, l) ==
    /\ x \in Nat /\ y \in Nat
    /\ Stage(s, n) = a /\ Stage(s, o) = b /\ Stage(t, n) = k /\ Stage(t, o) = l
    /\ \A d \in Client : s.link[d].up =>
          More(s, t, d, IF s.link[d].id = n THEN x ELSE IF s.link[d].id = o THEN y ELSE 0)

LEMMA MapMoves ==
    ASSUME NEW s, Lists(s, {}), Even(s), NEW g, NEW n, NEW o, Pair(s, g, n, o),
           Role(s, n) = "map", NEW info \in Maps
    PROVE  LET t == OnSubmitMap(s, g, n, info)
           IN  /\ Within(s, t, g, n, o)
               /\ \/ Turns(s, t, n, o, 4, 0, "map", "map", "ready", "map")
                  \/ Turns(s, t, n, o, 8, 0, "map", "ready", "mine", "theirs")
                  \/ Turns(s, t, n, o, 4, 4, "map", "ready", "theirs", "mine")
<1> DEFINE t == OnSubmitMap(s, g, n, info)
           both == s.players[o].state = "ON_GAME"
           first == s.games[g].player2
           player == Mapped(s.players[n], info)
<1>1. /\ Lists(t, {}) /\ Steady(s, t)
      /\ DOMAIN t.players = DOMAIN s.players /\ t.players[n] = player
      /\ \A m \in DOMAIN s.players : m # n => t.players[m] = s.players[m]
      /\ DOMAIN t.games = DOMAIN s.games
      /\ t.games[g].over = s.games[g].over
      /\ both => t.games[g].turn = first
      /\ \A h \in DOMAIN s.games : /\ t.games[h].player1 = s.games[h].player1
                                   /\ t.games[h].player2 = s.games[h].player2
                                   /\ h # g => t.games[h] = s.games[h]
      /\ \A d \in Client : \A w \in Seq(Packet) : s.link[d].up =>
            LET p == Pending(s, d, w)
                q == IF s.link[d].id = n THEN Append(p, Ok) ELSE p
            IN  Pending(t, d, w) = IF both /\ s.link[d].id = first THEN Append(q, MyTurn) ELSE q
  <2>1. MapDone(s, t, g, n, o, info)
    BY MapEffect
  <2> HIDE DEF t
  <2> QED BY <2>1 DEF MapDone
<1>2. Holds(s, t)
  BY MapHolds
<1> HIDE DEF t
<1>3. Pair(s, g, o, n) /\ n # o /\ g \in DOMAIN s.games /\ HasPlayer(s, n) /\ HasPlayer(s, o)
  BY PairTurned DEF Pair
<1>4. player \in APlayer /\ player.state = "ON_GAME"
  <2>1. s.players[n] \in APlayer
    BY <1>3 DEF Lists, Players, HasPlayer
  <2> QED BY <2>1, MappedIs
<1> HIDE DEF player
<1>5. s.players[n].state = "WAIT_MAP"
  BY PairRole
<1>6. t.players[o] = s.players[o] /\ t.players[n] = player
  BY <1>1, <1>3 DEF HasPlayer
<1>7. first \in {n, o} /\ PlayersOf(s.games[g]) = {n, o} /\ PlayersOf(t.games[g]) = {n, o}
  BY <1>1, <1>3 DEF Pair, PlayersOf
<1>8. Pair(t, g, n, o) /\ Pair(t, g, o, n)
  <2>1. ~t.games[g].over /\ g \in DOMAIN t.games /\ Opponent(t.games[g], n) = o
    BY <1>1, <1>3 DEF Pair, Opponent
  <2>2. Pair(t, g, n, Opponent(t.games[g], n))
    BY <1>1, <1>7, <2>1, PairOf
  <2> QED BY <2>1, <2>2, PairTurned
<1>9. Within(s, t, g, n, o)
  BY <1>1 DEF Within
<1>10. /\ Ok \in Packet /\ MyTurn \in Packet /\ Size(Ok) = 4 /\ Size(MyTurn) = 4
       /\ << >> \in Seq(Packet)
  BY PacketKinds, Sizes
<1>11. CASE ~both
  <2>1. Role(t, n) = "ready"
    BY <1>4, <1>6, <1>8, <1>11, PairRole
  <2>2. s.players[o].state = "WAIT_MAP"
    <3>1. s.players[o] \in APlayer /\ s.players[o].state # "WAIT"
      BY <1>3 DEF Lists, Players, HasPlayer, Pair
    <3> QED BY <1>11, <3>1 DEF APlayer
  <2>3. Role(s, o) = "map" /\ Role(t, o) = "map"
    BY <1>3, <1>6, <1>8, <2>2, PairRole
  <2>4. ASSUME NEW d \in Client, s.link[d].up
        PROVE  More(s, t, d, IF s.link[d].id = n THEN 4 ELSE IF s.link[d].id = o THEN 0 ELSE 0)
    <3>1. Pending(t, d, << >>) = IF s.link[d].id = n THEN Append(Pending(s, d, << >>), Ok)
                                 ELSE Pending(s, d, << >>)
      BY <1>1, <1>10, <1>11, <2>4
    <3> QED BY <1>2, <1>10, <3>1, MoreBy
  <2>5. Turns(s, t, n, o, 4, 0, "map", "map", "ready", "map")
    BY <2>1, <2>3, <2>4 DEF Turns, Stage
  <2> QED BY <1>9, <2>5 DEF t
<1>12. CASE both
  <2>1. Role(s, o) = "ready"
    BY <1>3, <1>5, <1>12, PairRole
  <2>2. /\ Role(t, n) = IF first = n THEN "mine" ELSE "theirs"
        /\ Role(t, o) = IF first = o THEN "mine" ELSE "theirs"
    BY <1>1, <1>4, <1>6, <1>8, <1>12, PairRole
  <2>3. CASE first = n
    <3>1. ASSUME NEW d \in Client, s.link[d].up
          PROVE  More(s, t, d, IF s.link[d].id = n THEN 8 ELSE IF s.link[d].id = o THEN 0 ELSE 0)
      <4>1. Pending(t, d, << >>) =
              IF s.link[d].id = n THEN Append(Append(Pending(s, d, << >>), Ok), MyTurn)
              ELSE Pending(s, d, << >>)
        BY <1>1, <1>10, <1>12, <2>3, <3>1
      <4>2. /\ s.link[d].id = n => More(s, t, d, Size(Ok) + Size(MyTurn))
            /\ s.link[d].id # n => More(s, t, d, 0)
        BY <1>2, <1>10, <4>1, MoreBy
      <4> QED BY <1>10, <4>2
    <3>2. Turns(s, t, n, o, 8, 0, "map", "ready", "mine", "theirs")
      BY <1>3, <2>1, <2>2, <2>3, <3>1 DEF Turns, Stage
    <3> QED BY <1>9, <3>2 DEF t
  <2>4. CASE first = o
    <3>1. ASSUME NEW d \in Client, s.link[d].up
          PROVE  More(s, t, d, IF s.link[d].id = n THEN 4 ELSE IF s.link[d].id = o THEN 4 ELSE 0)
      <4>1. Pending(t, d, << >>) =
              IF s.link[d].id = n THEN Append(Pending(s, d, << >>), Ok)
              ELSE IF s.link[d].id = o THEN Append(Pending(s, d, << >>), MyTurn)
              ELSE Pending(s, d, << >>)
        BY <1>1, <1>3, <1>10, <1>12, <2>4, <3>1
      <4> QED BY <1>2, <1>10, <4>1, MoreBy
    <3>2. Turns(s, t, n, o, 4, 4, "map", "ready", "theirs", "mine")
      BY <1>3, <2>1, <2>2, <2>4, <3>1 DEF Turns, Stage
    <3> QED BY <1>9, <3>2 DEF t
  <2> QED BY <1>7, <2>3, <2>4
<1> QED BY <1>11, <1>12

LEMMA FineTurns ==
    ASSUME NEW s, Lists(s, {}), Even(s), NEW g, NEW n, NEW o, Pair(s, g, n, o),
           NEW t, Within(s, t, g, n, o), NEW c \in Client, s.link[c].up, s.link[c].id = n,
           NEW x, NEW y, NEW a, NEW b, NEW k, NEW l, Turns(s, t, n, o, x, y, a, b, k, l),
           k = "theirs" => y > 0, l = "theirs" => x > 0,
           NEW w \in [Client -> Seq(Packet)], NEW asks \in [Client -> BOOLEAN],
           Fine(s, w, asks), asks[c],
           Answered(a, k, x), Reached(b, l, y)
    PROVE  Fine(t, w, [asks EXCEPT ![c] = FALSE])
<1>1. /\ Stage(s, n) = a /\ Stage(s, o) = b /\ Stage(t, n) = k /\ Stage(t, o) = l
      /\ x \in Nat /\ y \in Nat
      /\ \A d \in Client : s.link[d].up =>
            More(s, t, d, IF s.link[d].id = n THEN x ELSE IF s.link[d].id = o THEN y ELSE 0)
  BY DEF Turns
<1>3. Answered(Stage(s, n), Stage(t, n), x) /\ Reached(Stage(s, o), Stage(t, o), y)
  BY <1>1
<1>4. (Role(t, n) = "theirs" => y > 0) /\ (Role(t, o) = "theirs" => x > 0)
  BY <1>1 DEF Stage
<1>5. x \in Nat /\ y \in Nat
  BY <1>1
<1>6. \A d \in Client : s.link[d].up =>
         More(s, t, d, IF s.link[d].id = n THEN x ELSE IF s.link[d].id = o THEN y ELSE 0)
  BY <1>1
<1> QED BY <1>3, <1>4, <1>5, <1>6, FineWithin

LEMMA MapFine ==
    ASSUME NEW s, Lists(s, {}), Even(s), NEW g, NEW n, NEW o, Pair(s, g, n, o),
           Role(s, n) = "map", NEW info \in Maps,
           NEW c \in Client, s.link[c].up, s.link[c].id = n,
           NEW w \in [Client -> Seq(Packet)], NEW asks \in [Client -> BOOLEAN],
           Fine(s, w, asks), asks[c]
    PROVE  Fine(OnSubmitMap(s, g, n, info), w, [asks EXCEPT ![c] = FALSE])
<1> DEFINE t == OnSubmitMap(s, g, n, info)
<1>1. /\ Within(s, t, g, n, o)
      /\ \/ Turns(s, t, n, o, 4, 0, "map", "map", "ready", "map")
         \/ Turns(s, t, n, o, 8, 0, "map", "ready", "mine", "theirs")
         \/ Turns(s, t, n, o, 4, 4, "map", "ready", "theirs", "mine")
  BY MapMoves
<1> HIDE DEF t
<1>2. ASSUME Turns(s, t, n, o, 4, 0, "map", "map", "ready", "map")
      PROVE  Fine(t, w, [asks EXCEPT ![c] = FALSE])
  BY <1>1, <1>2, FineTurns, AnsweredTable, ReachedTable
<1>3. ASSUME Turns(s, t, n, o, 8, 0, "map", "ready", "mine", "theirs")
      PROVE  Fine(t, w, [asks EXCEPT ![c] = FALSE])
  <2>1. ("mine" = "theirs" => 0 > 0) /\ ("theirs" = "theirs" => 8 > 0)
    OBVIOUS
  <2>2. Answered("map", "mine", 8) /\ Reached("ready", "theirs", 0)
    BY AnsweredTable, ReachedTable
  <2> QED BY <1>1, <1>3, <2>1, <2>2, FineTurns
<1>4. ASSUME Turns(s, t, n, o, 4, 4, "map", "ready", "theirs", "mine")
      PROVE  Fine(t, w, [asks EXCEPT ![c] = FALSE])
  <2>1. ("theirs" = "theirs" => 4 > 0) /\ ("mine" = "theirs" => 4 > 0)
    OBVIOUS
  <2>2. Answered("map", "theirs", 4) /\ Reached("ready", "mine", 4)
    BY AnsweredTable, ReachedTable
  <2> QED BY <1>1, <1>4, <2>1, <2>2, FineTurns
<1> QED BY <1>1, <1>2, <1>3, <1>4 DEF t

\* An attack that does not decide the game.
LEMMA AttackMoves ==
    ASSUME NEW s, Lists(s, {}), Even(s), NEW g, NEW n, NEW o, Pair(s, g, n, o),
           Role(s, n) = "mine", NEW x \in Cell, x \notin Hit(s, n),
           ~IsGameEnd(Attack(s.players[o].board, x))
    PROVE  LET t == OnSubmitAttack(s, g, n, x)
           IN  /\ Within(s, t, g, n, o)
               /\ Turns(s, t, n, o, 13, 13, "mine", "theirs", "theirs", "mine")
<1> DEFINE t == OnSubmitAttack(s, g, n, x)
           u == Struck(s, n, o, x)
           result == AttackResult(s.players[o].board, x)
           p1 == Attacked(x, TRUE, result)
           p2 == Attacked(x, FALSE, result)
<1>1. /\ n # o /\ HasPlayer(s, n) /\ HasPlayer(s, o) /\ g \in DOMAIN s.games
      /\ Opponent(s.games[g], n) = o /\ PlayersOf(s.games[g]) = {n, o} /\ ~s.games[g].over
  BY DEF Pair
<1>2. /\ Role(s, o) = "theirs" /\ s.games[g].turn = n
      /\ s.players[n].state = "ON_GAME" /\ s.players[o].state = "ON_GAME"
      /\ s.players[n] \in APlayer /\ s.players[o] \in APlayer /\ s.players[o].board \in ABoard
  BY TurnRoles
<1>3. t = GiveTurn(u, g, o)
  BY <1>1, <1>2, AttackIs
<1>4. StruckDone(s, u, n, o, x) /\ Holds(s, t)
  BY <1>1, StruckEffect, AttackHolds
<1>5. /\ p1 \in Packet /\ p2 \in Packet /\ Size(p1) = 9 /\ Size(p2) = 9
      /\ Ok \in Packet /\ MyTurn \in Packet /\ Size(Ok) = 4 /\ Size(MyTurn) = 4
      /\ << >> \in Seq(Packet)
  <2>1. result \in Result
    BY <1>2, AttackTypes
  <2> HIDE DEF result
  <2>2. p1 \in Packet /\ p2 \in Packet
    BY <2>1, PacketKinds
  <2>3. Size(p1) = 9 /\ Size(p2) = 9
    BY Sizes
  <2> HIDE DEF p1, p2
  <2>4. Ok \in Packet /\ MyTurn \in Packet
    BY PacketKinds
  <2>5. Size(Ok) = 4 /\ Size(MyTurn) = 4
    BY Sizes
  <2>6. << >> \in Seq(Packet)
    OBVIOUS
  <2> QED BY <2>2, <2>3, <2>4, <2>5, <2>6
<1> HIDE DEF t, u
<1>6. /\ Lists(u, {}) /\ Steady(s, u) /\ u.games = s.games
      /\ DOMAIN u.players = DOMAIN s.players
      /\ u.players[n] = Credited(s.players[n]) /\ u.players[o] = Hurt(s.players[o], x)
      /\ \A m \in DOMAIN s.players : m \notin {n, o} => u.players[m] = s.players[m]
      /\ \A d \in Client : \A w \in Seq(Packet) : s.link[d].up =>
            LET p == Pending(s, d, w)
            IN  Pending(u, d, w) = IF s.link[d].id = n THEN Append(Append(p, Ok), p1)
                                   ELSE IF s.link[d].id = o THEN Append(p, p2) ELSE p
  BY <1>4 DEF StruckDone
<1> HIDE DEF p1, p2
<1>7. o \in Number0
  BY <1>1 DEF Lists, Players, HasPlayer, Number0
<1>8. /\ Lists(t, {}) /\ t.players = u.players /\ DOMAIN t.games = DOMAIN s.games
      /\ t.games[g].turn = o /\ t.games[g].over = s.games[g].over
      /\ \A h \in DOMAIN s.games : /\ t.games[h].player1 = s.games[h].player1
                                   /\ t.games[h].player2 = s.games[h].player2
                                   /\ h # g => t.games[h] = s.games[h]
      /\ Notes(u, t, o, MyTurn)
  <2>1. g \in DOMAIN u.games
    BY <1>1, <1>6
  <2>2. /\ Lists(t, {}) /\ t.players = u.players /\ DOMAIN t.games = DOMAIN u.games
        /\ t.games[g].turn = o /\ t.games[g].over = u.games[g].over
        /\ \A h \in DOMAIN u.games : /\ t.games[h].player1 = u.games[h].player1
                                     /\ t.games[h].player2 = u.games[h].player2
                                     /\ h # g => t.games[h] = u.games[h]
        /\ Notes(u, t, o, MyTurn)
    BY <1>3, <1>6, <1>7, <2>1, TurnEffect
  <2> QED BY <1>6, <2>2
<1>9. t.players[n].state = "ON_GAME" /\ t.players[o].state = "ON_GAME"
  BY <1>2, <1>6, <1>8, StruckPlayers
<1>10. Within(s, t, g, n, o)
  <2>1. Steady(s, t)
    BY <1>6, <1>8, SteadyOn DEF Notes
  <2> QED BY <1>6, <1>8, <2>1 DEF Within
<1>11. Pair(t, g, n, o) /\ Pair(t, g, o, n)
  <2>1. ~t.games[g].over /\ g \in DOMAIN t.games
    BY <1>1, <1>8
  <2>2. PlayersOf(t.games[g]) = {n, o} /\ Opponent(t.games[g], n) = o
    BY <1>1, <1>8 DEF PlayersOf, Opponent
  <2>3. Pair(t, g, n, Opponent(t.games[g], n))
    BY <1>8, <2>1, <2>2, PairOf
  <2> QED BY <2>2, <2>3, PairTurned
<1>12. Role(t, n) = "theirs" /\ Role(t, o) = "mine"
  BY <1>1, <1>8, <1>9, <1>11, PairRole
<1>13. ASSUME NEW d \in Client, s.link[d].up
       PROVE  More(s, t, d, IF s.link[d].id = n THEN 13 ELSE IF s.link[d].id = o THEN 13 ELSE 0)
  <2> DEFINE p == Pending(s, d, << >>)
             q == Pending(t, d, << >>)
  <2>1. q = IF s.link[d].id = o THEN Append(Pending(u, d, << >>), MyTurn)
                                ELSE Pending(u, d, << >>)
    <3>1. u.link[d].up /\ u.link[d].id = s.link[d].id
      BY <1>6, <1>13 DEF Steady
    <3> QED BY <1>5, <1>8, <3>1 DEF Notes
  <2>2. q = IF s.link[d].id = n THEN Append(Append(p, Ok), p1)
            ELSE IF s.link[d].id = o THEN Append(Append(p, p2), MyTurn) ELSE p
    BY <1>1, <1>5, <1>6, <1>13, <2>1
  <2>3. /\ s.link[d].id = n => More(s, t, d, Size(Ok) + Size(p1))
        /\ s.link[d].id # n /\ s.link[d].id = o => More(s, t, d, Size(p2) + Size(MyTurn))
        /\ s.link[d].id \notin {n, o} => More(s, t, d, 0)
    BY <1>4, <1>5, <2>2, MoreBy
  <2> QED BY <1>5, <2>3
<1>14. Turns(s, t, n, o, 13, 13, "mine", "theirs", "theirs", "mine")
  BY <1>2, <1>12, <1>13 DEF Turns, Stage
<1> QED BY <1>10, <1>14 DEF t

\* The attack decides a game that is not the last.
LEMMA NextMoves ==
    ASSUME NEW s, Lists(s, {}), Even(s), NEW g, NEW n, NEW o, Pair(s, g, n, o),
           Role(s, n) = "mine", NEW x \in Cell, NEW t, NextDone(s, t, g, n, o, x), Holds(s, t)
    PROVE  /\ Within(s, t, g, n, o)
           /\ Turns(s, t, n, o, 26, 22, "mine", "theirs", "map", "map")
<1> DEFINE result == AttackResult(s.players[o].board, x)
           turns == Credited(s.players[n]).turns
           p1 == Attacked(x, TRUE, result)
           p2 == Attacked(x, FALSE, result)
           w1 == GameOver(TRUE, turns)
           w2 == GameOver(FALSE, turns)
<1>1. /\ n # o /\ HasPlayer(s, n) /\ HasPlayer(s, o) /\ g \in DOMAIN s.games
      /\ Opponent(s.games[g], n) = o /\ PlayersOf(s.games[g]) = {n, o} /\ ~s.games[g].over
  BY DEF Pair
<1>2. /\ Role(s, o) = "theirs" /\ s.players[n] \in APlayer /\ s.players[o] \in APlayer
      /\ s.players[o].board \in ABoard
  BY TurnRoles
<1>3. /\ Lists(t, {}) /\ Steady(s, t)
      /\ DOMAIN t.players = DOMAIN s.players
      /\ t.players[n] = Begun(Winner(Credited(s.players[n])))
      /\ t.players[o] = Begun(Hurt(s.players[o], x))
      /\ \A m \in DOMAIN s.players : m \notin {n, o} => t.players[m] = s.players[m]
      /\ DOMAIN t.games = DOMAIN s.games
      /\ t.games[g].over = s.games[g].over
      /\ \A h \in DOMAIN s.games : /\ t.games[h].player1 = s.games[h].player1
                                   /\ t.games[h].player2 = s.games[h].player2
                                   /\ h # g => t.games[h] = s.games[h]
      /\ \A d \in Client : \A w \in Seq(Packet) : s.link[d].up =>
            LET p == Pending(s, d, w)
            IN  Pending(t, d, w) =
                  IF s.link[d].id = n THEN Append(Append(Append(Append(p, Ok), p1), w1), NextGame)
                  ELSE IF s.link[d].id = o THEN Append(Append(Append(p, p2), w2), NextGame)
                  ELSE p
  BY DEF NextDone
<1>4. Credited(s.players[n]) \in APlayer /\ Hurt(s.players[o], x) \in APlayer
  BY <1>2, StruckPlayers
<1>5. /\ p1 \in Packet /\ p2 \in Packet /\ Size(p1) = 9 /\ Size(p2) = 9
      /\ w1 \in Packet /\ w2 \in Packet /\ Size(w1) = 9 /\ Size(w2) = 9
      /\ Ok \in Packet /\ NextGame \in Packet /\ Size(Ok) = 4 /\ Size(NextGame) = 4
      /\ << >> \in Seq(Packet)
  <2>1. result \in Result
    BY <1>2, AttackTypes
  <2>2. turns \in Int
    BY <1>4 DEF APlayer
  <2> HIDE DEF result, turns
  <2>3. p1 \in Packet /\ p2 \in Packet /\ w1 \in Packet /\ w2 \in Packet
    BY <2>1, <2>2, PacketKinds
  <2>4. Size(p1) = 9 /\ Size(p2) = 9 /\ Size(w1) = 9 /\ Size(w2) = 9
    BY Sizes
  <2> HIDE DEF p1, p2, w1, w2
  <2>5. Ok \in Packet /\ NextGame \in Packet
    BY PacketKinds
  <2>6. Size(Ok) = 4 /\ Size(NextGame) = 4
    BY Sizes
  <2>7. << >> \in Seq(Packet)
    OBVIOUS
  <2> QED BY <2>3, <2>4, <2>5, <2>6, <2>7
<1> HIDE DEF p1, p2, w1, w2
<1>6. t.players[n].state = "WAIT_MAP" /\ t.players[o].state = "WAIT_MAP"
  BY <1>3, <1>4, WinnerIs, BegunIs
<1>7. Pair(t, g, n, o) /\ Pair(t, g, o, n)
  <2>1. ~t.games[g].over /\ g \in DOMAIN t.games
    BY <1>1, <1>3
  <2>2. PlayersOf(t.games[g]) = {n, o} /\ Opponent(t.games[g], n) = o
    BY <1>1, <1>3 DEF PlayersOf, Opponent
  <2>3. Pair(t, g, n, Opponent(t.games[g], n))
    BY <1>3, <2>1, <2>2, PairOf
  <2> QED BY <2>2, <2>3, PairTurned
<1>8. Role(t, n) = "map" /\ Role(t, o) = "map"
  BY <1>6, <1>7, PairRole
<1>9. Within(s, t, g, n, o)
  BY <1>3 DEF Within
<1>10. ASSUME NEW d \in Client, s.link[d].up
       PROVE  More(s, t, d, IF s.link[d].id = n THEN 26 ELSE IF s.link[d].id = o THEN 22 ELSE 0)
  <2> DEFINE p == Pending(s, d, << >>)
             q == Pending(t, d, << >>)
  <2>1. q = IF s.link[d].id = n THEN Append(Append(Append(Append(p, Ok), p1), w1), NextGame)
            ELSE IF s.link[d].id = o THEN Append(Append(Append(p, p2), w2), NextGame) ELSE p
    BY <1>3, <1>5, <1>10
  <2>2. /\ s.link[d].id = n => More(s, t, d, Size(Ok) + Size(p1) + Size(w1) + Size(NextGame))
        /\ s.link[d].id # n /\ s.link[d].id = o
              => More(s, t, d, Size(p2) + Size(w2) + Size(NextGame))
        /\ s.link[d].id \notin {n, o} => More(s, t, d, 0)
    BY <1>5, <2>1, MoreBy
  <2> QED BY <1>5, <2>2
<1>11. Turns(s, t, n, o, 26, 22, "mine", "theirs", "map", "map")
  BY <1>2, <1>8, <1>10 DEF Turns, Stage
<1> QED BY <1>9, <1>11

\* It decides the last game.
LEMMA OverMoves ==
    ASSUME NEW s, Lists(s, {}), Even(s), NEW g, NEW n, NEW o, Pair(s, g, n, o),
           Role(s, n) = "mine", NEW x \in Cell, NEW t, OverDone(s, t, g, n, o, x), Holds(s, t)
    PROVE  /\ Within(s, t, g, n, o)
           /\ Turns(s, t, n, o, 34, 30, "mine", "theirs", "over", "over")
<1> DEFINE result == AttackResult(s.players[o].board, x)
           turns == Credited(s.players[n]).turns
           A == Winner(Credited(s.players[n]))
           B == Hurt(s.players[o], x)
           p1 == Attacked(x, TRUE, result)
           p2 == Attacked(x, FALSE, result)
           w1 == GameOver(TRUE, turns)
           w2 == GameOver(FALSE, turns)
           z1 == AllOver(A.wins, A.winTurns)
           z2 == AllOver(B.wins, B.winTurns)
<1>1. /\ n # o /\ HasPlayer(s, n) /\ HasPlayer(s, o) /\ g \in DOMAIN s.games /\ g # None
      /\ PlayersOf(s.games[g]) = {n, o} /\ Opponent(s.games[g], n) = o
      /\ Opponent(s.games[g], o) = n
      /\ s.players[n].state # "WAIT" /\ s.players[o].state # "WAIT"
  BY DEF Pair
<1>2. /\ Role(s, o) = "theirs" /\ s.players[n] \in APlayer /\ s.players[o] \in APlayer
      /\ s.players[o].board \in ABoard
  BY TurnRoles
<1>3. /\ Lists(t, {}) /\ Steady(s, t)
      /\ DOMAIN t.players = DOMAIN s.players
      /\ t.players[n] = A /\ t.players[o] = B
      /\ \A m \in DOMAIN s.players : m \notin {n, o} => t.players[m] = s.players[m]
      /\ DOMAIN t.games = DOMAIN s.games /\ t.games[g].over
      /\ \A h \in DOMAIN s.games : /\ t.games[h].player1 = s.games[h].player1
                                   /\ t.games[h].player2 = s.games[h].player2
                                   /\ h # g => t.games[h] = s.games[h]
      /\ \A d \in Client : \A w \in Seq(Packet) : s.link[d].up =>
            LET p == Pending(s, d, w)
            IN  Pending(t, d, w) =
                  IF s.link[d].id = n THEN Append(Append(Append(Append(p, Ok), p1), w1), z1)
                  ELSE IF s.link[d].id = o THEN Append(Append(Append(p, p2), w2), z2)
                  ELSE p
  BY DEF OverDone
<1>4. /\ Credited(s.players[n]) \in APlayer /\ A \in APlayer /\ B \in APlayer
      /\ A.state = s.players[n].state /\ B.state = s.players[o].state
  <2>1. /\ Credited(s.players[n]) \in APlayer /\ B \in APlayer
        /\ Credited(s.players[n]).state = s.players[n].state /\ B.state = s.players[o].state
    BY <1>2, StruckPlayers
  <2> QED BY <2>1, WinnerIs
<1> HIDE DEF A, B
<1>5. /\ p1 \in Packet /\ p2 \in Packet /\ Size(p1) = 9 /\ Size(p2) = 9
      /\ w1 \in Packet /\ w2 \in Packet /\ Size(w1) = 9 /\ Size(w2) = 9
      /\ z1 \in Packet /\ z2 \in Packet /\ Size(z1) = 12 /\ Size(z2) = 12
      /\ Ok \in Packet /\ Size(Ok) = 4 /\ << >> \in Seq(Packet)
  <2>1. result \in Result
    BY <1>2, AttackTypes
  <2>2. /\ turns \in Int
        /\ A.wins \in Int /\ A.winTurns \in Int /\ B.wins \in Int /\ B.winTurns \in Int
    BY <1>4 DEF APlayer
  <2> HIDE DEF result, turns
  <2>3. /\ p1 \in Packet /\ p2 \in Packet /\ w1 \in Packet /\ w2 \in Packet
        /\ z1 \in Packet /\ z2 \in Packet
    BY <2>1, <2>2, PacketKinds
  <2>4. /\ Size(p1) = 9 /\ Size(p2) = 9 /\ Size(w1) = 9 /\ Size(w2) = 9
        /\ Size(z1) = 12 /\ Size(z2) = 12
    BY Sizes
  <2> HIDE DEF p1, p2, w1, w2, z1, z2
  <2>5. Ok \in Packet
    BY PacketKinds
  <2>6. Size(Ok) = 4
    BY Sizes
  <2>7. << >> \in Seq(Packet)
    OBVIOUS
  <2> QED BY <2>3, <2>4, <2>5, <2>6, <2>7
<1> HIDE DEF p1, p2, w1, w2, z1, z2
<1>6. PlayersOf(t.games[g]) = {n, o} /\ Opponent(t.games[g], n) = o /\ Opponent(t.games[g], o) = n
  BY <1>1, <1>3 DEF PlayersOf, Opponent
<1>7. Stage(t, n) = "over" /\ Stage(t, o) = "over"
  <2>1. \A m \in {n, o} : GameOf(t, m) = g
    BY <1>1, <1>3, <1>6, GameIs DEF Lists
  <2>2. \A m \in {n, o} : HasPlayer(t, m)
    BY <1>1, <1>3 DEF HasPlayer
  <2>3. t.players[n].state # "WAIT" /\ t.players[o].state # "WAIT"
    BY <1>1, <1>3, <1>4
  <2>4. Role(t, n) = "gone" /\ Role(t, o) = "gone"
    BY <1>3, <2>1, <2>2, <2>3 DEF Role, InGame
  <2>5. ~Alone(t, n) /\ ~Alone(t, o)
    BY <1>1, <1>6, <2>1, <2>2 DEF Alone, Rival
  <2> QED BY <2>4, <2>5 DEF Stage
<1>8. Within(s, t, g, n, o)
  BY <1>3 DEF Within
<1>9. ASSUME NEW d \in Client, s.link[d].up
      PROVE  More(s, t, d, IF s.link[d].id = n THEN 34 ELSE IF s.link[d].id = o THEN 30 ELSE 0)
  <2> DEFINE p == Pending(s, d, << >>)
             q == Pending(t, d, << >>)
  <2>1. q = IF s.link[d].id = n THEN Append(Append(Append(Append(p, Ok), p1), w1), z1)
            ELSE IF s.link[d].id = o THEN Append(Append(Append(p, p2), w2), z2) ELSE p
    BY <1>3, <1>5, <1>9
  <2>2. /\ s.link[d].id = n => More(s, t, d, Size(Ok) + Size(p1) + Size(w1) + Size(z1))
        /\ s.link[d].id # n /\ s.link[d].id = o => More(s, t, d, Size(p2) + Size(w2) + Size(z2))
        /\ s.link[d].id \notin {n, o} => More(s, t, d, 0)
    BY <1>5, <2>1, MoreBy
  <2> QED BY <1>5, <2>2
<1>10. Turns(s, t, n, o, 34, 30, "mine", "theirs", "over", "over")
  BY <1>2, <1>7, <1>9 DEF Turns, Stage
<1> QED BY <1>8, <1>10

LEMMA AttackGoes ==
    ASSUME NEW s, Lists(s, {}), Even(s), NEW g, NEW n, NEW o, Pair(s, g, n, o),
           Role(s, n) = "mine", NEW x \in Cell, x \notin Hit(s, n)
    PROVE  LET t == OnSubmitAttack(s, g, n, x)
           IN  /\ Within(s, t, g, n, o)
               /\ \/ Turns(s, t, n, o, 13, 13, "mine", "theirs", "theirs", "mine")
                  \/ Turns(s, t, n, o, 26, 22, "mine", "theirs", "map", "map")
                  \/ Turns(s, t, n, o, 34, 30, "mine", "theirs", "over", "over")
<1> DEFINE t == OnSubmitAttack(s, g, n, x)
           u == Decided(s, g, n, o, x)
           end == IsGameEnd(Attack(s.players[o].board, x))
           last == s.games[g].tries >= MaxGames
<1>1. Holds(s, t)
  BY AttackHolds
<1>2. CASE ~end
  BY <1>2, AttackMoves
<1>3. CASE end /\ ~last
  <2>1. t = OnNextGame(u, g)
    BY <1>3, GameOverIs
  <2>2. NextDone(s, t, g, n, o, x)
    BY <2>1, NextEffect
  <2> HIDE DEF t
  <2>3. Within(s, t, g, n, o) /\ Turns(s, t, n, o, 26, 22, "mine", "theirs", "map", "map")
    BY <1>1, <2>2, NextMoves
  <2> QED BY <2>3 DEF t
<1>4. CASE end /\ last
  <2>1. t = SetGame(OnAllOver(u, g), g, [s.games[g] EXCEPT !.over = TRUE])
    BY <1>4, GameOverIs
  <2>2. OverDone(s, t, g, n, o, x)
    BY <2>1, OverEffect
  <2> HIDE DEF t
  <2>3. Within(s, t, g, n, o) /\ Turns(s, t, n, o, 34, 30, "mine", "theirs", "over", "over")
    BY <1>1, <2>2, OverMoves
  <2> QED BY <2>3 DEF t
<1> QED BY <1>2, <1>3, <1>4

LEMMA AttackFine ==
    ASSUME NEW s, Lists(s, {}), Even(s), NEW g, NEW n, NEW o, Pair(s, g, n, o),
           Role(s, n) = "mine", NEW x \in Cell, x \notin Hit(s, n),
           NEW c \in Client, s.link[c].up, s.link[c].id = n,
           NEW w \in [Client -> Seq(Packet)], NEW asks \in [Client -> BOOLEAN],
           Fine(s, w, asks), asks[c]
    PROVE  Fine(OnSubmitAttack(s, g, n, x), w, [asks EXCEPT ![c] = FALSE])
<1> DEFINE t == OnSubmitAttack(s, g, n, x)
<1>1. /\ Within(s, t, g, n, o)
      /\ \/ Turns(s, t, n, o, 13, 13, "mine", "theirs", "theirs", "mine")
         \/ Turns(s, t, n, o, 26, 22, "mine", "theirs", "map", "map")
         \/ Turns(s, t, n, o, 34, 30, "mine", "theirs", "over", "over")
  BY AttackGoes
<1> HIDE DEF t
<1>2. ASSUME Turns(s, t, n, o, 13, 13, "mine", "theirs", "theirs", "mine")
      PROVE  Fine(t, w, [asks EXCEPT ![c] = FALSE])
  <2>1. ("theirs" = "theirs" => 13 > 0) /\ ("mine" = "theirs" => 13 > 0)
    OBVIOUS
  <2>2. Answered("mine", "theirs", 13) /\ Reached("theirs", "mine", 13)
    BY AnsweredTable, ReachedTable
  <2> QED BY <1>1, <1>2, <2>1, <2>2, FineTurns
<1>3. ASSUME Turns(s, t, n, o, 26, 22, "mine", "theirs", "map", "map")
      PROVE  Fine(t, w, [asks EXCEPT ![c] = FALSE])
  <2>1. ("map" = "theirs" => 22 > 0) /\ ("map" = "theirs" => 26 > 0)
    OBVIOUS
  <2>2. Answered("mine", "map", 26) /\ Reached("theirs", "map", 22)
    BY AnsweredTable, ReachedTable
  <2> QED BY <1>1, <1>3, <2>1, <2>2, FineTurns
<1>4. ASSUME Turns(s, t, n, o, 34, 30, "mine", "theirs", "over", "over")
      PROVE  Fine(t, w, [asks EXCEPT ![c] = FALSE])
  <2>1. ("over" = "theirs" => 30 > 0) /\ ("over" = "theirs" => 34 > 0)
    OBVIOUS
  <2>2. Answered("mine", "over", 34) /\ Reached("theirs", "over", 30)
    BY AnsweredTable, ReachedTable
  <2> QED BY <1>1, <1>4, <2>1, <2>2, FineTurns
<1> QED BY <1>1, <1>2, <1>3, <1>4 DEF t

\* A request of a player whose opponent has gone is dropped.
LEMMA FineLess ==
    ASSUME NEW s, NEW w, NEW asks \in [Client -> BOOLEAN], Fine(s, w, asks), NEW c \in Client
    PROVE  Fine(s, w, [asks EXCEPT ![c] = FALSE])
<1>1. ASSUME NEW d \in Client, s.link[d].up
      PROVE  Fits(s, d, w[d], [asks EXCEPT ![c] = FALSE][d])
  <2>1. Fits(s, d, w[d], asks[d]) /\ Fits(s, d, w[d], FALSE)
    BY <1>1, FitLess DEF Fine, Fits
  <2>2. [asks EXCEPT ![c] = FALSE][d] = IF d = c THEN FALSE ELSE asks[d]
    OBVIOUS
  <2> QED BY <2>1, <2>2
<1> QED BY <1>1 DEF Fine

\* A packet that the server expects, or drops.
LEMMA HandleFine ==
    ASSUME NEW s, Lists(s, {}), Even(s), NEW c \in Client, s.link[c].up,
           NEW p \in RequestPacket \ {Closed},
           Right(Role(s, s.link[c].id), Hit(s, s.link[c].id), Alone(s, s.link[c].id), p),
           NEW w \in [Client -> Seq(Packet)], NEW asks \in [Client -> BOOLEAN],
           Fine(s, w, asks), asks[c]
    PROVE  Fine(Handle(s, c, p), w, [asks EXCEPT ![c] = FALSE])
<1> DEFINE n == s.link[c].id
           g == GameOf(s, n)
           o == Rival(s, n)
           t == Handle(s, c, p)
           fine == Fine(t, w, [asks EXCEPT ![c] = FALSE])
<1>1. ASSUME p = SubmitName PROVE fine
  <2>1. t = HandleSubmitName(s, c)
    BY <1>1 DEF Handle, SubmitName
  <2>2. Role(s, n) = "name"
    BY <1>1, RequestKinds DEF Right
  <2>3. Role(s, s.link[c].id) = "name"
    BY <2>2
  <2> HIDE DEF n, g, o, t
  <2>4. Fine(HandleSubmitName(s, c), w, [asks EXCEPT ![c] = FALSE])
    BY <2>3, NameFine
  <2> QED BY <2>1, <2>4
<1>2. ASSUME NEW info \in Maps, p = SubmitMap(info) PROVE fine
  <2>1. t = HandleSubmitMap(s, c, info)
    BY <1>2 DEF Handle, SubmitMap
  <2>2. ValidMap(info) /\ (Role(s, n) = "map" \/ (Role(s, n) = "gone" /\ Alone(s, n)))
    BY <1>2, RequestKinds DEF Right
  <2>3. CASE Role(s, n) = "map"
    <3>1. Pair(s, g, n, o)
      BY <2>3, RoleSays
    <3>2. t = OnSubmitMap(s, g, n, info)
      BY <2>1, <2>2, <3>1 DEF HandleSubmitMap, Pair
    <3>3. s.link[c].id = n
      OBVIOUS
    <3> HIDE DEF g, o, t, n
    <3>4. Fine(OnSubmitMap(s, g, n, info), w, [asks EXCEPT ![c] = FALSE])
      BY <2>3, <3>1, <3>3, MapFine
    <3> QED BY <3>2, <3>4
  <2>4. CASE Role(s, n) = "gone" /\ Alone(s, n)
    <3>1. t = s
      BY <2>1, <2>2, <2>4, DroppedCarries
    <3> HIDE DEF t
    <3> QED BY <3>1, FineLess
  <2> QED BY <2>2, <2>3, <2>4
<1>3. ASSUME NEW x \in Cell, p = SubmitAttack(x) PROVE fine
  <2>1. t = HandleSubmitAttack(s, c, x)
    BY <1>3 DEF Handle, SubmitAttack
  <2>2. (Role(s, n) = "mine" /\ x \notin Hit(s, n)) \/ (Role(s, n) = "gone" /\ Alone(s, n))
    BY <1>3, RequestKinds DEF Right
  <2>3. CASE Role(s, n) = "mine" /\ x \notin Hit(s, n)
    <3>1. Pair(s, g, n, o)
      BY <2>3, RoleSays
    <3>2. t = OnSubmitAttack(s, g, n, x)
      BY <2>1, <3>1 DEF HandleSubmitAttack, Pair
    <3>3. s.link[c].id = n
      OBVIOUS
    <3> HIDE DEF g, o, t, n
    <3>4. Fine(OnSubmitAttack(s, g, n, x), w, [asks EXCEPT ![c] = FALSE])
      BY <2>3, <3>1, <3>3, AttackFine
    <3> QED BY <3>2, <3>4
  <2>4. CASE Role(s, n) = "gone" /\ Alone(s, n)
    <3>1. t = s
      BY <2>1, <2>4, DroppedCarries
    <3> HIDE DEF t
    <3> QED BY <3>1, FineLess
  <2> QED BY <2>2, <2>3, <2>4
<1>4. p = SubmitName \/ (\E info \in Maps : p = SubmitMap(info)) \/ (\E x \in Cell : p = SubmitAttack(x))
  BY DEF RequestPacket
<1> HIDE DEF fine
<1>5. fine
  BY <1>1, <1>2, <1>3, <1>4
<1> QED BY <1>5 DEF fine, t

------------------------------------------------------------------------------
(* The end of a pass.                                                       *)

\* The sessions are what they were, and a game that is over is forgotten.
LEMMA RemoveRoles ==
    ASSUME NEW s, Lists(s, {})
    PROVE  LET t == RemoveOverGames(s)
           IN  /\ t.link = s.link
               /\ \A g \in DOMAIN t.games : g \in DOMAIN s.games /\ t.games[g] = s.games[g]
               /\ \A m : Role(t, m) = Role(s, m) /\ (Alone(s, m) => Alone(t, m))
<1> DEFINE t == RemoveOverGames(s)
<1>1. /\ t.link = s.link /\ t.players = s.players /\ Games(t)
      /\ t.games = [g \in {h \in DOMAIN s.games : ~s.games[h].over} |-> s.games[g]]
  BY RemoveKeeps DEF Lists, Server, RemoveOverGames
<1> HIDE DEF t
<1>2. /\ DOMAIN t.games \subseteq DOMAIN s.games
      /\ \A g \in DOMAIN t.games : t.games[g] = s.games[g] /\ ~t.games[g].over
      /\ \A g \in DOMAIN s.games : ~s.games[g].over => g \in DOMAIN t.games
  BY <1>1
<1>3. ASSUME NEW m
      PROVE  Role(t, m) = Role(s, m) /\ (Alone(s, m) => Alone(t, m))
  <2>1. CASE GameOf(t, m) = None
    <3>1. \A g \in DOMAIN t.games : m \notin PlayersOf(t.games[g])
      BY <1>1, <2>1, GameOfFound
    <3>2. ~InGame(s, m) /\ ~InGame(t, m) /\ Alone(t, m)
      BY <1>2, <2>1, <3>1, GameOfFound DEF Lists, InGame, Alone
    <3>3. Role(t, m) = Role(s, m)
      BY <1>1, <3>2 DEF Role, HasPlayer
    <3> QED BY <3>2, <3>3
  <2>2. CASE GameOf(t, m) # None
    <3> DEFINE g == GameOf(t, m)
    <3>1. g \in DOMAIN s.games /\ m \in PlayersOf(s.games[g]) /\ t.games[g] = s.games[g]
      BY <1>1, <1>2, <2>2, GameOfFound
    <3> HIDE DEF g
    <3>2. GameOf(t, m) = GameOf(s, m) /\ t.games[GameOf(s, m)] = s.games[GameOf(s, m)]
      BY <3>1, GameIs DEF Lists, g
    <3>3. Rival(t, m) = Rival(s, m) /\ (InGame(t, m) <=> InGame(s, m))
      BY <3>2 DEF Rival, InGame
    <3>4. Role(t, m) = Role(s, m)
      BY <1>1, <3>2, <3>3 DEF Role, HasPlayer
    <3>5. Alone(s, m) => Alone(t, m)
      BY <1>1, <3>2, <3>3 DEF Alone, HasPlayer
    <3> QED BY <3>4, <3>5
  <2> QED BY <2>1, <2>2
<1> QED BY <1>1, <1>2, <1>3 DEF t

LEMMA RemoveFine ==
    ASSUME NEW s, Lists(s, {}),
           NEW w \in [Client -> Seq(Packet)], NEW asks \in [Client -> BOOLEAN], Fine(s, w, asks)
    PROVE  Fine(RemoveOverGames(s), w, asks)
<1> DEFINE t == RemoveOverGames(s)
<1>1. /\ t.link = s.link
      /\ \A g \in DOMAIN t.games : g \in DOMAIN s.games /\ t.games[g] = s.games[g]
      /\ \A m : Role(t, m) = Role(s, m) /\ (Alone(s, m) => Alone(t, m))
  BY RemoveRoles
<1> HIDE DEF t
<1>2. \A d \in Client : Left(t, d) = Left(s, d) /\ Lent(t, d) = Lent(s, d)
  BY <1>1 DEF Left, Lent, Kept, Pending
<1>3. Behind(t)
  <2>1. Behind(s)
    BY DEF Fine
  <2> QED BY <1>1, <1>2, <2>1, BehindKept
<1>4. ASSUME NEW d \in Client, t.link[d].up
      PROVE  Fits(t, d, w[d], asks[d])
  <2> DEFINE n == s.link[d].id
             u == Left(s, d)
             q == Bytes(w[d]) + u
             g == Lent(s, d)
             a == asks[d]
  <2>1. u \in Nat /\ q \in Nat /\ g \in Nat /\ u <= q /\ a \in BOOLEAN
    BY LeftNat, BytesNat DEF Lists
  <2>2. Fit(Stage(s, n), a, q, g, u)
    BY <1>1, <1>4 DEF Fine, Fits
  <2>3. Stage(t, n) = Stage(s, n) \/ (Stage(s, n) = "over" /\ Stage(t, n) = "alone")
    BY <1>1 DEF Stage
  <2>4. t.link[d].id = n /\ Left(t, d) = u /\ Lent(t, d) = g
    BY <1>1, <1>2
  <2> HIDE DEF n, u, q, g, a
  <2>5. Fit(Stage(t, n), a, q, g, u)
    BY <2>1, <2>2, <2>3, StagesMove
  <2> QED BY <2>4, <2>5 DEF Fits, q, u, a
<1>5. Fine(t, w, asks)
  BY <1>3, <1>4 DEF Fine
<1> QED BY <1>5 DEF t

\* What the two who are matched become, and that nobody else does.
LEMMA MatchMoves ==
    ASSUME NEW s, Lists(s, {}), AllLive(s), Even(s),
           NEW n1 \in DOMAIN s.players, NEW n2 \in DOMAIN s.players, n1 # n2,
           s.players[n1].state = "WAIT", s.players[n2].state = "WAIT"
    PROVE  LET t == Match(s, n1, n2)
           IN  \E g : /\ g \notin DOMAIN s.games /\ DOMAIN t.games = DOMAIN s.games \cup {g}
                      /\ PlayersOf(t.games[g]) = {n1, n2}
                      /\ \A h \in DOMAIN s.games : /\ t.games[h] = s.games[h]
                                                   /\ n1 \notin PlayersOf(s.games[h])
                                                   /\ n2 \notin PlayersOf(s.games[h])
                      /\ \A m \in {n1, n2} : Role(s, m) = "wait" /\ Role(t, m) = "map"
                      /\ \A m : m \notin {n1, n2} => Same(s, t, m)
                      /\ \A d \in Client : t.link[d].up =>
                            /\ s.link[d].up /\ t.link[d].id = s.link[d].id
                            /\ More(s, t, d, IF s.link[d].id \in {n1, n2} THEN 40 ELSE 0)
<1> DEFINE t == Match(s, n1, n2)
<1>1. PICK g \in GameNumber : MatchDone(s, t, g, n1, n2)
  BY MatchEffect
<1>2. Lists(t, {}) /\ Holds(s, t)
  BY MatchKeeps, MatchHolds
<1> HIDE DEF t
<1>3. /\ g \notin DOMAIN s.games /\ DOMAIN t.games = DOMAIN s.games \cup {g}
      /\ PlayersOf(t.games[g]) = {n1, n2}
      /\ t.games[g].player1 = n1 /\ t.games[g].player2 = n2 /\ ~t.games[g].over
      /\ \A h \in DOMAIN s.games : t.games[h] = s.games[h]
      /\ DOMAIN t.players = DOMAIN s.players
      /\ t.players[n1] = Begun(s.players[n1]) /\ t.players[n2] = Begun(s.players[n2])
      /\ \A m \in DOMAIN s.players : m \notin {n1, n2} => t.players[m] = s.players[m]
      /\ Steady(s, t)
  BY <1>1 DEF MatchDone, PlayersOf
<1>4. \A h \in DOMAIN s.games : \A m \in PlayersOf(s.games[h]) : m \notin {n1, n2}
  BY DEF Even, Settled, HasPlayer
<1>5. \A m \in {n1, n2} : Role(s, m) = "wait" /\ Role(t, m) = "map"
  <2>1. Role(s, n1) = "wait" /\ Role(s, n2) = "wait"
    BY DEF Role, HasPlayer
  <2>2. t.players[n1].state = "WAIT_MAP" /\ t.players[n2].state = "WAIT_MAP"
    BY <1>3, BegunIs DEF Lists, Players
  <2>3. Pair(t, g, n1, n2) /\ Pair(t, g, n2, n1)
    <3>1. Opponent(t.games[g], n1) = n2 /\ g \in DOMAIN t.games /\ n1 \in PlayersOf(t.games[g])
      BY <1>3 DEF Opponent
    <3> QED BY <1>2, <1>3, <3>1, PairOf, PairTurned
  <2>4. Role(t, n1) = "map" /\ Role(t, n2) = "map"
    BY <2>2, <2>3, PairRole
  <2> QED BY <2>1, <2>4
<1>6. ASSUME NEW m, m \notin {n1, n2} PROVE Same(s, t, m)
  <2>1. GamesOf(t, m) = GamesOf(s, m)
    BY <1>3, <1>6 DEF GamesOf
  <2>2. ASSUME NEW h \in GamesOf(s, m)
        PROVE  h \in DOMAIN s.games /\ Opponent(s.games[h], m) \notin {n1, n2}
    <3>1. h \in DOMAIN s.games /\ m \in PlayersOf(s.games[h])
      BY DEF GamesOf
    <3>2. Opponent(s.games[h], m) \in PlayersOf(s.games[h])
      BY <3>1 DEF Opponent, PlayersOf
    <3> QED BY <1>4, <3>1, <3>2
  <2>3. \A h \in GamesOf(s, m) :
           LET o == Opponent(s.games[h], m)
           IN  /\ t.games[h] = s.games[h]
               /\ HasPlayer(t, o) <=> HasPlayer(s, o)
               /\ HasPlayer(s, o) => t.players[o] = s.players[o]
    BY <1>3, <2>2 DEF HasPlayer
  <2>4. (HasPlayer(t, m) <=> HasPlayer(s, m)) /\ (HasPlayer(s, m) => t.players[m] = s.players[m])
    BY <1>3, <1>6 DEF HasPlayer
  <2> QED BY <2>1, <2>3, <2>4, RoleKept
<1>7. ASSUME NEW d \in Client, t.link[d].up
      PROVE  /\ s.link[d].up /\ t.link[d].id = s.link[d].id
             /\ More(s, t, d, IF s.link[d].id \in {n1, n2} THEN 40 ELSE 0)
  <2>1. s.link[d].up /\ t.link[d].id = s.link[d].id
    BY <1>3, <1>7 DEF Steady
  <2>2. << >> \in Seq(Packet)
    OBVIOUS
  <2>3. LET p == Pending(s, d, << >>)
        IN  Pending(t, d, << >>) = IF s.link[d].id \in {n1, n2} THEN Append(p, GameStart) ELSE p
    BY <1>1, <2>1, <2>2 DEF MatchDone
  <2>4. GameStart \in Packet /\ Size(GameStart) = 40
    BY PacketKinds, Sizes
  <2>5. CASE s.link[d].id \in {n1, n2}
    BY <1>2, <2>1, <2>3, <2>4, <2>5, MoreBy
  <2>6. CASE s.link[d].id \notin {n1, n2}
    BY <1>2, <2>1, <2>3, <2>6, MoreBy
  <2> QED BY <2>1, <2>5, <2>6
<1> QED BY <1>3, <1>4, <1>5, <1>6, <1>7 DEF t

LEMMA MatchFine ==
    ASSUME NEW s, Lists(s, {}), AllLive(s), Even(s),
           NEW n1 \in DOMAIN s.players, NEW n2 \in DOMAIN s.players, n1 # n2,
           s.players[n1].state = "WAIT", s.players[n2].state = "WAIT",
           NEW w \in [Client -> Seq(Packet)], NEW asks \in [Client -> BOOLEAN], Fine(s, w, asks)
    PROVE  Fine(Match(s, n1, n2), w, asks)
<1> DEFINE t == Match(s, n1, n2)
<1>1. PICK g : /\ g \notin DOMAIN s.games /\ DOMAIN t.games = DOMAIN s.games \cup {g}
               /\ PlayersOf(t.games[g]) = {n1, n2}
               /\ \A h \in DOMAIN s.games : /\ t.games[h] = s.games[h]
                                            /\ n1 \notin PlayersOf(s.games[h])
                                            /\ n2 \notin PlayersOf(s.games[h])
               /\ \A m \in {n1, n2} : Role(s, m) = "wait" /\ Role(t, m) = "map"
               /\ \A m : m \notin {n1, n2} => Same(s, t, m)
               /\ \A d \in Client : t.link[d].up =>
                     /\ s.link[d].up /\ t.link[d].id = s.link[d].id
                     /\ More(s, t, d, IF s.link[d].id \in {n1, n2} THEN 40 ELSE 0)
  BY MatchMoves
<1> HIDE DEF t
<1>2. \A d \in Client : /\ Left(s, d) \in Nat /\ Bytes(w[d]) \in Nat /\ w[d] \in Seq(Packet)
                        /\ asks[d] \in BOOLEAN /\ Links(s)
  BY LeftNat, BytesNat DEF Lists
<1>3. Behind(t)
  <2>1. ASSUME NEW h \in DOMAIN s.games
        PROVE  /\ \A m \in PlayersOf(s.games[h]) : Role(t, m) = Role(s, m)
               /\ \A d \in Client : t.link[d].up /\ t.link[d].id \in PlayersOf(s.games[h])
                                       => Left(t, d) = Left(s, d)
    <3>1. \A m \in PlayersOf(s.games[h]) : m \notin {n1, n2}
      BY <1>1
    <3>2. ASSUME NEW d \in Client, t.link[d].up, t.link[d].id \in PlayersOf(s.games[h])
          PROVE  Left(t, d) = Left(s, d)
      BY <1>1, <1>2, <3>1, <3>2 DEF More
    <3> QED BY <1>1, <3>1, <3>2 DEF Same
  <2>2. ASSUME NEW c \in Client, NEW d \in Client, t.link[c].up,
               PlayersOf(t.games[g]) = {t.link[c].id, t.link[d].id}
        PROVE  Role(t, t.link[c].id) # "theirs"
    <3>1. t.link[c].id \in {n1, n2}
      BY <1>1, <2>2
    <3> QED BY <1>1, <3>1
  <2>3. Behind(s)
    BY DEF Fine
  <2>4. \A c \in Client : t.link[c].up => s.link[c].up /\ t.link[c].id = s.link[c].id
    BY <1>1
  <2>5. ASSUME NEW h \in DOMAIN t.games, ~t.games[h].over
        PROVE  \/ /\ h \in DOMAIN s.games /\ ~s.games[h].over
                  /\ PlayersOf(t.games[h]) = PlayersOf(s.games[h])
                  /\ \A m \in PlayersOf(s.games[h]) : Role(t, m) = Role(s, m)
                  /\ \A d \in Client : t.link[d].up /\ t.link[d].id \in PlayersOf(s.games[h])
                                          => Left(t, d) = Left(s, d)
               \/ \A c, d \in Client :
                     /\ t.link[c].up /\ t.link[d].up
                     /\ PlayersOf(t.games[h]) = {t.link[c].id, t.link[d].id}
                     /\ Role(t, t.link[c].id) = "theirs"
                     => Left(t, d) # 0
    <3>1. CASE h = g
      BY <2>2, <3>1
    <3>2. CASE h # g
      <4>1. h \in DOMAIN s.games /\ t.games[h] = s.games[h]
        BY <1>1, <3>2
      <4> QED BY <2>1, <2>5, <4>1
    <3> QED BY <3>1, <3>2
  <2> QED BY <2>3, <2>4, <2>5, BehindKept
<1>4. ASSUME NEW d \in Client, t.link[d].up
      PROVE  Fits(t, d, w[d], asks[d])
  <2>1. s.link[d].up /\ t.link[d].id = s.link[d].id /\ Fits(s, d, w[d], asks[d])
    BY <1>1, <1>4 DEF Fine
  <2>2. CASE s.link[d].id \in {n1, n2}
    <3> DEFINE n == s.link[d].id
               u == Left(s, d)
               q == Bytes(w[d]) + u
    <3>1. Stage(s, n) = "wait" /\ Stage(t, n) = "map" /\ More(s, t, d, 40)
      BY <1>1, <1>4, <2>2 DEF Stage
    <3>2. u \in Nat /\ q \in Nat /\ u <= q
      BY <1>2
    <3>3. \A h \in Nat : Fit("wait", asks[d], q, h, u) => Fit("map", asks[d], q + 40, h, u + 40)
      <4>1. Reached("wait", "map", 40) /\ "wait" # "theirs"
        BY ReachedTable
      <4> HIDE DEF u, q
      <4> QED BY <1>2, <3>2, <4>1 DEF Reached
    <3>4. \A h \in Nat : Fit(Stage(s, s.link[d].id), asks[d], q, h, u)
                            => Fit(Stage(t, s.link[d].id), asks[d], q + 40, h, u + 40)
      BY <3>1, <3>3
    <3> QED BY <1>2, <2>1, <3>1, <3>4, FitsMore
  <2>3. CASE s.link[d].id \notin {n1, n2}
    <3>1. Same(s, t, s.link[d].id) /\ More(s, t, d, 0)
      BY <1>1, <1>4, <2>3
    <3> QED BY <1>2, <2>1, <3>1, FitsSame
  <2> QED BY <2>2, <2>3
<1>5. Fine(t, w, asks)
  BY <1>3, <1>4 DEF Fine
<1> QED BY <1>5 DEF t

\* AutoMatcher::Update matches two by two.
Paired(f, i) ==
    \E a, b \in DOMAIN f[i - 1].players :
       /\ Lists(f[i - 1], {}) /\ AllLive(f[i - 1]) /\ Even(f[i - 1]) /\ a # b
       /\ f[i - 1].players[a].state = "WAIT" /\ f[i - 1].players[b].state = "WAIT"
       /\ f[i] = Match(f[i - 1], a, b)

LEMMA WalkPairs ==
    ASSUME NEW s, Lists(s, {}), AllLive(s), Even(s),
           NEW n \in Nat, NEW w \in [1 .. n -> DOMAIN s.players],
           \A i, j \in 1 .. n : i # j => w[i] # w[j],
           \A i \in 1 .. n : s.players[w[i]].state = "WAIT",
           NEW k \in Nat, 2 * k <= n, NEW f, Walk(f, s, w, k)
    PROVE  f[0] = s /\ \A i \in 1 .. k : Paired(f, i)
<1>1. /\ \A i \in 0 .. k :
            /\ Lists(f[i], {}) /\ AllLive(f[i]) /\ DOMAIN f[i].players = DOMAIN s.players
            /\ \A j \in 2 * i + 1 .. n : f[i].players[w[j]] = s.players[w[j]]
  BY WalkKeeps
<1>2. \A i \in 0 .. k : Even(f[i])
  BY WalkTells
<1>3. f[0] = s
  BY DEF Walk
<1>4. ASSUME NEW i \in 1 .. k PROVE Paired(f, i)
  <2> DEFINE r == f[i - 1]
             a == w[2 * i - 1]
             b == w[2 * i]
  <2>1. f[i] = Match(r, a, b)
    BY DEF Walk
  <2>2. /\ Lists(r, {}) /\ AllLive(r) /\ Even(r) /\ DOMAIN r.players = DOMAIN s.players
        /\ \A j \in 2 * (i - 1) + 1 .. n : r.players[w[j]] = s.players[w[j]]
    BY <1>1, <1>2
  <2>3. /\ 2 * i - 1 \in 1 .. n /\ 2 * i \in 1 .. n /\ 2 * i - 1 # 2 * i
        /\ 2 * i - 1 \in 2 * (i - 1) + 1 .. n /\ 2 * i \in 2 * (i - 1) + 1 .. n
    OBVIOUS
  <2>4. /\ a \in DOMAIN r.players /\ b \in DOMAIN r.players /\ a # b
        /\ r.players[a].state = "WAIT" /\ r.players[b].state = "WAIT"
    BY <2>2, <2>3
  <2> HIDE DEF a, b
  <2> QED BY <2>1, <2>2, <2>4 DEF Paired
<1> QED BY <1>3, <1>4

LEMMA AutoMatchPairs ==
    ASSUME NEW s, Lists(s, {}), AllLive(s), Even(s)
    PROVE  \E k \in Nat : \E f : f[0] = s /\ f[k] = AutoMatch(s) /\ \A i \in 1 .. k : Paired(f, i)
<1>1. PICK n \in Nat : \E w \in [1 .. n -> DOMAIN s.players] : \E k \in Nat : \E f :
         /\ \A i \in 1 .. n : s.players[w[i]].state = "WAIT"
         /\ \A i, j \in 1 .. n : i # j => w[i] # w[j]
         /\ 2 * k <= n /\ Walk(f, s, w, k) /\ AutoMatch(s) = f[k]
  BY AutoMatchWalks
<1> QED BY <1>1, WalkPairs

LEMMA AutoMatchFine ==
    ASSUME NEW s, Lists(s, {}), AllLive(s), Even(s),
           NEW w \in [Client -> Seq(Packet)], NEW asks \in [Client -> BOOLEAN], Fine(s, w, asks)
    PROVE  Fine(AutoMatch(s), w, asks)
<1>0. PICK k \in Nat : \E f : /\ f[0] = s /\ f[k] = AutoMatch(s)
                              /\ \A i \in 1 .. k : Paired(f, i)
  BY AutoMatchPairs
<1>1. PICK f : /\ f[0] = s /\ f[k] = AutoMatch(s)
               /\ \A i \in 1 .. k : Paired(f, i)
  BY <1>0
<1> DEFINE T == {i \in 0 .. k : ~Fine(f[i], w, asks)}
<1>2. ASSUME T # {} PROVE FALSE
  <2>1. PICK i \in T : \A j \in 0 .. i - 1 : j \notin T
    <3>1. T \in SUBSET Nat
      OBVIOUS
    <3> HIDE DEF T
    <3> QED BY <1>2, <3>1, LeastNumber
  <2>2. i \in 0 .. k /\ ~Fine(f[i], w, asks)
    OBVIOUS
  <2>3. i \in 1 .. k
    BY <1>1, <2>2
  <2>4. Fine(f[i - 1], w, asks)
    <3>1. i - 1 \in 0 .. i - 1 /\ i - 1 \in 0 .. k
      BY <2>3
    <3> QED BY <2>1, <3>1
  <2> DEFINE r == f[i - 1]
  <2>5. PICK a \in DOMAIN r.players, b \in DOMAIN r.players :
           /\ Lists(r, {}) /\ AllLive(r) /\ Even(r) /\ a # b
           /\ r.players[a].state = "WAIT" /\ r.players[b].state = "WAIT"
           /\ f[i] = Match(r, a, b)
    BY <1>1, <2>3 DEF Paired
  <2> HIDE DEF r, T
  <2>6. Fine(Match(r, a, b), w, asks)
    BY <2>4, <2>5, MatchFine DEF r
  <2> QED BY <2>2, <2>5, <2>6
<1>3. k \in 0 .. k
  OBVIOUS
<1> QED BY <1>1, <1>2, <1>3

\* FlushClientSend, when the last sends have completed: what is left moves to
\* the wire.
LEMMA FlushMoves ==
    ASSUME NEW s, Lists(s, {})
    PROVE  LET t == Flushed(s)
           IN  /\ t.players = s.players /\ t.games = s.games
               /\ \A c \in Client : t.link[c].up = s.link[c].up /\ t.link[c].id = s.link[c].id
               /\ \A c \in Client : s.link[c].up /\ s.link[c].sent = 0 =>
                     /\ Left(t, c) = 0 /\ Lent(s, c) = 0
                     /\ Lent(t, c) = Left(s, c) /\ Left(s, c) = Bytes(s.link[c].out)
<1> DEFINE f == [c \in Client |->
                   IF s.link[c].up THEN [s.link[c] EXCEPT !.sent = Len(s.link[c].out)]
                                   ELSE s.link[c]]
           t == Flushed(s)
<1>1. t.link = f /\ t.players = s.players /\ t.games = s.games
  <2>1. t = [s EXCEPT !.link = f]
    BY DEF Flushed
  <2> HIDE DEF f, t
  <2> QED BY <2>1, LinkField DEF Lists
<1> HIDE DEF t
<1>2. ASSUME NEW c \in Client
      PROVE  /\ t.link[c].up = s.link[c].up /\ t.link[c].id = s.link[c].id
             /\ t.link[c].out = s.link[c].out /\ s.link[c].out \in Seq(Packet)
             /\ s.link[c].up => t.link[c].sent = Len(s.link[c].out)
  <2>1. s.link[c] \in Session
    BY DEF Lists, Links
  <2>2. ASSUME NEW k \in Session
        PROVE  LET l == [k EXCEPT !.sent = Len(k.out)]
               IN  l.sent = Len(k.out) /\ l.up = k.up /\ l.id = k.id /\ l.out = k.out
    BY DEF Session
  <2>3. t.link[c] = IF s.link[c].up THEN [s.link[c] EXCEPT !.sent = Len(s.link[c].out)]
                                    ELSE s.link[c]
    BY <1>1
  <2>4. s.link[c].out \in Seq(Packet)
    BY <2>1 DEF Session
  <2> QED BY <2>1, <2>2, <2>3, <2>4
<1>3. ASSUME NEW c \in Client, s.link[c].up, s.link[c].sent = 0
      PROVE  /\ Left(t, c) = 0 /\ Lent(s, c) = 0
             /\ Lent(t, c) = Left(s, c) /\ Left(s, c) = Bytes(s.link[c].out)
  <2> DEFINE out == s.link[c].out
             n == Len(out)
  <2>1. out \in Seq(Packet) /\ t.link[c].out = out /\ t.link[c].sent = n
    BY <1>2, <1>3
  <2> HIDE DEF out
  <2>2. /\ << >> \o SubSeq(out, n + 1, n) = << >> /\ << >> \o SubSeq(out, 0 + 1, n) = out
        /\ SubSeq(out, 1, 0) = << >> /\ SubSeq(out, 1, n) = out
    <3> HIDE DEF n
    <3>1. n \in Nat /\ n = Len(out)
      BY <2>1 DEF n
    <3>2. SubSeq(out, 1, n) = out
      <4>1. SubSeq(out, 1, n) \in Seq(Packet) /\ Len(SubSeq(out, 1, n)) = n
        BY <2>1, <3>1
      <4>2. \A i \in 1 .. n : SubSeq(out, 1, n)[i] = out[i]
        BY <2>1, <3>1
      <4> QED BY <2>1, <3>1, <4>1, <4>2, SeqEqual
    <3>3. SubSeq(out, n + 1, n) = << >> /\ SubSeq(out, 1, 0) = << >>
      BY <2>1, <3>1
    <3>4. << >> \o out = out /\ << >> \o << >> = << >>
      BY <2>1
    <3> QED BY <3>2, <3>3, <3>4
  <2>3. Bytes(<< >>) = 0
    <3>1. << >> \in Seq(Packet)
      OBVIOUS
    <3> QED BY <3>1, BytesNat
  <2>4. Left(t, c) = 0 /\ Lent(t, c) = Bytes(out)
    BY <2>1, <2>2, <2>3 DEF Left, Lent, Kept, Pending, Rest
  <2>5. Left(s, c) = Bytes(out) /\ Lent(s, c) = 0
    BY <1>3, <2>2, <2>3 DEF Left, Lent, Kept, Pending, Rest, out
  <2> QED BY <2>4, <2>5 DEF out
<1> QED BY <1>1, <1>2, <1>3 DEF t

LEMMA FitFlushed ==
    ASSUME NEW k \in DOMAIN Most, NEW a, NEW q \in Nat, NEW u \in Nat, Fit(k, a, q, 0, u)
    PROVE  Fit(k, a, q, u, 0)
<1>1. Most[k].new \in Nat /\ Most[k].kept \in Nat
  BY DEF Most
<1>2. 0 + u = u /\ u + 0 = u
  OBVIOUS
<1> QED BY <1>1, <1>2 DEF Fit

LEMMA StageKnown == ASSUME NEW s, NEW n PROVE Stage(s, n) \in DOMAIN Most
BY DEF Stage, Role, Most

LEMMA FlushFine ==
    ASSUME NEW s, Lists(s, {}), \A c \in Client : s.link[c].up => s.link[c].sent = 0,
           NEW w \in [Client -> Seq(Packet)], NEW asks \in [Client -> BOOLEAN], Fine(s, w, asks)
    PROVE  LET v == [c \in Client |-> IF s.link[c].up THEN w[c] \o s.link[c].out ELSE w[c]]
           IN  v \in [Client -> Seq(Packet)] /\ Fine(Flushed(s), v, asks)
<1> DEFINE v == [c \in Client |-> IF s.link[c].up THEN w[c] \o s.link[c].out ELSE w[c]]
           t == Flushed(s)
<1>1. /\ t.players = s.players /\ t.games = s.games
      /\ \A c \in Client : t.link[c].up = s.link[c].up /\ t.link[c].id = s.link[c].id
      /\ \A c \in Client : s.link[c].up =>
            /\ Left(t, c) = 0 /\ Lent(s, c) = 0
            /\ Lent(t, c) = Left(s, c) /\ Left(s, c) = Bytes(s.link[c].out)
  BY FlushMoves
<1> HIDE DEF t
<1>2. \A m : Same(s, t, m)
  BY <1>1, RolesSame
<1>3. \A c \in Client : w[c] \in Seq(Packet) /\ s.link[c].out \in Seq(Packet)
  BY DEF Lists, Links, Session
<1>4. v \in [Client -> Seq(Packet)] /\ \A c \in Client : s.link[c].up => v[c] = w[c] \o s.link[c].out
  <2>1. \A c \in Client : w[c] \o s.link[c].out \in Seq(Packet)
    BY <1>3
  <2> QED BY <1>3, <2>1
<1> HIDE DEF v
<1>5. Behind(t)
  BY <1>1 DEF Behind
<1>6. ASSUME NEW d \in Client, t.link[d].up PROVE Fits(t, d, v[d], asks[d])
  <2> DEFINE u == Left(s, d)
             q == Bytes(w[d])
             n == s.link[d].id
  <2>1. u \in Nat /\ q \in Nat
    BY LeftNat, BytesNat, <1>3 DEF Lists
  <2>2. Bytes(v[d]) = q + u
    BY <1>1, <1>3, <1>4, <1>6, BytesConcat
  <2>3. Stage(t, n) = Stage(s, n) /\ Stage(s, n) \in DOMAIN Most /\ t.link[d].id = n
    <3>1. t.link[d].id = n
      BY <1>1
    <3> HIDE DEF n
    <3>2. Stage(t, n) = Stage(s, n)
      BY <1>2, StageSame
    <3> QED BY <3>1, <3>2, StageKnown
  <2>4. Left(t, d) = 0 /\ Lent(t, d) = u /\ Lent(s, d) = 0
    BY <1>1, <1>6
  <2>5. Fit(Stage(s, n), asks[d], q + u, 0, u)
    BY <1>1, <1>6, <2>4 DEF Fine, Fits
  <2> HIDE DEF u, q, n
  <2>6. Fit(Stage(s, n), asks[d], q + u, u, 0)
    <3>1. q + u \in Nat
      BY <2>1
    <3> QED BY <2>1, <2>3, <2>5, <3>1, FitFlushed
  <2>7. (q + u) + 0 = q + u
    BY <2>1
  <2> QED BY <2>2, <2>3, <2>4, <2>6, <2>7 DEF Fits
<1>7. Fine(t, v, asks)
  BY <1>5, <1>6 DEF Fine
<1> QED BY <1>4, <1>7 DEF t, v

LEMMA FinishFine ==
    ASSUME LInv, PInv, FinishPass, NEW asks \in [Client -> BOOLEAN], Fine(server, wire, asks)
    PROVE  Fine(server', wire', asks)
<1> DEFINE s == server
           v == [c \in Client |-> IF s.link[c].up THEN wire[c] \o s.link[c].out ELSE wire[c]]
           r == Flushed(s)
           u == RemoveOverGames(r)
           t == AutoMatch(u)
<1>1. /\ Lists(s, {}) /\ Even(s) /\ wire \in [Client -> Seq(Packet)]
      /\ \A c \in Client : s.link[c].up => s.link[c].sent = 0
      /\ wire' = v /\ server' = t /\ Fine(s, wire, asks)
  BY FewerDown DEF LInv, PInv, Clients, FinishPass
<1>2. v \in [Client -> Seq(Packet)] /\ Fine(r, v, asks)
  <2> HIDE DEF s, r, v
  <2> QED BY <1>1, FlushFine DEF r, v
<1> HIDE DEF s, v
<1>3. Lists(r, {}) /\ Even(r)
  BY <1>1, FlushedKeeps, FlushTells
<1> HIDE DEF r
<1>4. Lists(u, {}) /\ AllLive(u) /\ Even(u)
  BY <1>3, RemoveKeeps, RemoveTells
<1>5. Fine(u, v, asks)
  BY <1>2, <1>3, RemoveFine
<1> HIDE DEF u
<1>6. Fine(t, v, asks)
  BY <1>2, <1>4, <1>5, AutoMatchFine
<1> QED BY <1>1, <1>6

------------------------------------------------------------------------------
(* The other steps of the server.                                           *)

LEMMA FitDone ==
    ASSUME NEW k \in DOMAIN Most, NEW a, NEW q, NEW g \in Nat, NEW u \in Nat, Fit(k, a, q, g, u)
    PROVE  Fit(k, a, q, 0, u)
<1>1. Most[k].new \in Nat /\ Most[k].kept \in Nat
  BY DEF Most
<1> QED BY <1>1 DEF Fit

\* A send completes: nothing is lent any more.
LEMMA SendMoves ==
    ASSUME LInv, NEW c \in Client, SendCompletion(c)
    PROVE  LET s == server
               t == server'
           IN  /\ t.players = s.players /\ t.games = s.games /\ wire' = wire
               /\ \A d \in Client : /\ t.link[d].up = s.link[d].up /\ t.link[d].id = s.link[d].id
                                    /\ Left(t, d) = Left(s, d)
                                    /\ Lent(t, d) \in {0, Lent(s, d)}
<1> DEFINE s == server
           t == server'
           k == s.link[c]
           a == [k EXCEPT !.out = SubSeq(k.out, k.sent + 1, Len(k.out))]
           l == [a EXCEPT !.sent = 0]
           f == [server.link EXCEPT ![c] = l]
<1>1. /\ t.players = s.players /\ t.games = s.games /\ wire' = wire /\ Steady(s, t)
      /\ \A d \in Client : \A w \in Seq(Packet) : Pending(t, d, w) = Pending(s, d, w)
  BY SendDone
<1>2. server.link \in [Client -> Session] /\ Server(server)
  BY DEF LInv, Lists, Links
<1>3. server' = [server EXCEPT !.link = f]
  BY <1>2 DEF SendCompletion
<1>4. l.sent = 0
  <2>1. k \in Session
    BY <1>2
  <2> HIDE DEF k
  <2> QED BY <2>1 DEF Session
<1> HIDE DEF l
<1>5. \A d \in Client : f[d] = IF d = c THEN l ELSE s.link[d]
  BY <1>2
<1> HIDE DEF f
<1>6. t.link = f
  BY <1>2, <1>3, LinkField
<1> HIDE DEF s, t
<1>7. ASSUME NEW d \in Client PROVE Left(t, d) = Left(s, d) /\ Lent(t, d) \in {0, Lent(s, d)}
  <2>1. << >> \in Seq(Packet)
    OBVIOUS
  <2>2. Left(t, d) = Left(s, d)
    BY <1>1, <2>1 DEF Left
  <2>3. CASE d # c
    BY <1>5, <1>6, <2>2, <2>3 DEF Lent, Kept
  <2>4. CASE d = c
    <3>1. Kept(t, d) = SubSeq(t.link[d].out, 1, 0)
      BY <1>4, <1>5, <1>6, <2>4 DEF Kept
    <3>2. SubSeq(t.link[d].out, 1, 0) = << >>
      BY DEF SubSeq
    <3>3. Lent(t, d) = 0
      BY <2>1, <3>1, <3>2, BytesNat DEF Lent
    <3> QED BY <2>2, <3>3
  <2> QED BY <2>3, <2>4
<1> QED BY <1>1, <1>7 DEF Steady, s, t

LEMMA SendFine ==
    ASSUME LInv, NEW c \in Client, SendCompletion(c),
           NEW asks \in [Client -> BOOLEAN], Fine(server, wire, asks)
    PROVE  Fine(server', wire', asks)
<1> DEFINE s == server
           t == server'
<1>1. /\ t.players = s.players /\ t.games = s.games /\ wire' = wire
      /\ \A d \in Client : /\ t.link[d].up = s.link[d].up /\ t.link[d].id = s.link[d].id
                           /\ Left(t, d) = Left(s, d)
                           /\ Lent(t, d) \in {0, Lent(s, d)}
  BY SendMoves
<1>2. Links(s) /\ wire \in [Client -> Seq(Packet)] /\ Fine(s, wire, asks)
  BY DEF LInv, Lists, Clients
<1> DEFINE w == wire
<1>3. wire' = w /\ w \in [Client -> Seq(Packet)] /\ Fine(s, w, asks)
  BY <1>1, <1>2
<1> HIDE DEF s, t, w
<1>4. \A m : Same(s, t, m)
  BY <1>1, RolesSame
<1>5. Behind(t)
  <2>1. Behind(s)
    BY <1>3 DEF Fine
  <2> QED BY <1>1, <1>4, <2>1, BehindKept DEF Same
<1>6. ASSUME NEW d \in Client, t.link[d].up PROVE Fits(t, d, w[d], asks[d])
  <2> DEFINE u == Left(s, d)
             q == Bytes(w[d]) + u
             n == s.link[d].id
             g == Lent(s, d)
  <2>1. u \in Nat /\ g \in Nat
    BY <1>2, LeftNat
  <2>2. t.link[d].id = n /\ Left(t, d) = u /\ Lent(t, d) \in {0, g}
    BY <1>1
  <2>3. Fit(Stage(s, n), asks[d], q, g, u)
    BY <1>1, <1>3, <1>6 DEF Fine, Fits
  <2> HIDE DEF n
  <2>4. Stage(t, n) = Stage(s, n) /\ Stage(s, n) \in DOMAIN Most
    BY <1>4, StageSame, StageKnown
  <2> HIDE DEF u, q, g
  <2>5. Fit(Stage(s, n), asks[d], q, 0, u)
    BY <2>1, <2>3, <2>4, FitDone
  <2> QED BY <2>2, <2>3, <2>4, <2>5 DEF Fits, q, u
<1>7. Fine(t, w, asks)
  BY <1>5, <1>6 DEF Fine
<1> QED BY <1>3, <1>7 DEF t

\* A session is made: nothing has been sent to it.
LEMMA AcceptFine ==
    ASSUME LInv, PInv, Accept, NEW asks \in [Client -> BOOLEAN], Fine(server, wire, asks)
    PROVE  Fine(server', wire', asks)
<1>1. /\ Lists(server, Outside) /\ phase = "accept" /\ wire' = wire /\ pc' = pc
      /\ wire \in [Client -> Seq(Packet)]
  BY DEF LInv, Clients, Accept, clientVars
<1>2. CASE server' = server
  BY <1>1, <1>2
<1>3. ASSUME accepts # << >>, accepts' = Tail(accepts), Made
      PROVE  Fine(server', wire', asks)
  <2> DEFINE s == server
             t == server'
             h == Head(accepts)
             n == UnusedNumber(server)
             l == [NoLink EXCEPT !.up = TRUE, !.id = n]
             f == [server.link EXCEPT ![h] = l]
             w == wire
  <2>1. Accepts(s, t, h, n)
    BY <1>1, <1>3, AcceptDone
  <2>2. t.link[h].out = << >> /\ t.link[h].sent = 0
    <3>1. l.out = << >> /\ l.sent = 0
      BY DEF NoLink
    <3>2. server' = [server EXCEPT !.link = f]
      BY <1>3 DEF Made
    <3> HIDE DEF l
    <3>3. f[h] = l
      BY <1>1, <2>1 DEF Lists, Links, Accepts
    <3> HIDE DEF f
    <3>4. t.link = f
      BY <1>1, <3>2, LinkField DEF Lists
    <3> QED BY <3>1, <3>3, <3>4
  <2>3. w[h] = << >>
    <3>1. h \in Client /\ h \in Outside
      BY <2>1 DEF Accepts
    <3> HIDE DEF h
    <3>2. Served(h)
      BY <3>1 DEF PInv
    <3> QED BY <3>1, <3>2 DEF Served, Serves
  <2>4. Lists(s, Outside) /\ w \in [Client -> Seq(Packet)] /\ wire' = w /\ Fine(s, w, asks)
    BY <1>1
  <2> HIDE DEF h, n, s, t, w
  <2>5. /\ t.players = s.players /\ t.games = s.games /\ h \in Client
        /\ \A d \in Client : d # h => t.link[d] = s.link[d]
        /\ t.link[h].up /\ t.link[h].id = n /\ GameOf(s, n) = None /\ ~HasPlayer(s, n)
    BY <2>1 DEF Accepts
  <2>6. \A g \in DOMAIN s.games : n \notin PlayersOf(s.games[g])
    BY <2>4, <2>5, GameOfFound DEF Lists
  <2>7. \A m : Same(s, t, m)
    BY <2>5, RolesSame
  <2>8. \A d \in Client : d # h => Left(t, d) = Left(s, d) /\ Lent(t, d) = Lent(s, d)
    BY <2>5 DEF Left, Lent, Kept, Pending
  <2>9. Behind(t)
    <3> SUFFICES ASSUME NEW g \in DOMAIN t.games, NEW c \in Client, NEW d \in Client,
                        ~t.games[g].over, t.link[c].up, t.link[d].up,
                        PlayersOf(t.games[g]) = {t.link[c].id, t.link[d].id},
                        Role(t, t.link[c].id) = "theirs", Left(t, d) = 0
                 PROVE  Left(t, c) = 0
      BY DEF Behind
    <3>1. g \in DOMAIN s.games /\ t.games[g] = s.games[g] /\ n \notin PlayersOf(t.games[g])
      BY <2>5, <2>6
    <3>2. c # h /\ d # h
      BY <2>5, <3>1
    <3>3. /\ t.link[c] = s.link[c] /\ t.link[d] = s.link[d]
          /\ Left(t, c) = Left(s, c) /\ Left(s, d) = 0
      BY <2>5, <2>8, <3>2
    <3>4. Role(s, s.link[c].id) = "theirs"
      BY <2>7, <3>3 DEF Same
    <3> QED BY <2>4, <3>1, <3>3, <3>4 DEF Fine, Behind
  <2>10. ASSUME NEW d \in Client, t.link[d].up PROVE Fits(t, d, w[d], asks[d])
    <3>1. CASE d = h
      <4>1. Role(t, n) = "name"
        BY <2>5 DEF Role, HasPlayer
      <4>2. Stage(t, t.link[d].id) = "name"
        BY <2>5, <3>1, <4>1 DEF Stage
      <4>3. Left(t, d) = 0 /\ Lent(t, d) = 0 /\ Bytes(w[d]) = 0
        <5>1. << >> \in Seq(Packet) /\ SubSeq(<< >>, 1, 0) = << >>
              /\ << >> \o SubSeq(<< >>, 0 + 1, Len(<< >>)) = << >>
          OBVIOUS
        <5>2. Bytes(<< >>) = 0
          BY <5>1, BytesNat
        <5> QED BY <2>2, <2>3, <3>1, <5>1, <5>2 DEF Left, Lent, Kept, Pending, Rest
      <4>4. Fit("name", asks[d], 0, 0, 0)
        BY Limits
      <4> QED BY <4>2, <4>3, <4>4 DEF Fits
    <3>2. CASE d # h
      <4>1. t.link[d] = s.link[d] /\ Left(t, d) = Left(s, d) /\ Lent(t, d) = Lent(s, d)
        BY <2>5, <2>8, <3>2
      <4>2. Stage(t, s.link[d].id) = Stage(s, s.link[d].id)
        BY <2>7, StageSame
      <4>3. Fits(s, d, w[d], asks[d])
        BY <2>4, <2>10, <4>1 DEF Fine
      <4> QED BY <4>1, <4>2, <4>3 DEF Fits
    <3> QED BY <3>1, <3>2
  <2>11. Fine(t, w, asks)
    BY <2>9, <2>10 DEF Fine
  <2> QED BY <2>4, <2>11 DEF t
<1> QED BY <1>2, <1>3 DEF Accept, Made

LEMMA AbandonedFit ==
    ASSUME NEW k \in {"map", "ready", "mine", "theirs", "over"}, NEW b \in BOOLEAN,
           NEW q \in Nat, NEW u \in Nat, u <= q, NEW g \in Nat, Fit(k, b, q, g, u)
    PROVE  Fit("alone", b, q + 6, g, u + 6)
<1>1. q + 6 \in Nat /\ u + 6 \in Nat
  OBVIOUS
<1> QED BY <1>1, Limits DEF Within3

\* A session ends: its game is over, and its opponent is told.
Parted(s, t, c) ==
    /\ ~t.link[c].up
    /\ \A h \in DOMAIN t.games : ~t.games[h].over =>
          /\ h \in DOMAIN s.games /\ t.games[h] = s.games[h]
          /\ \A m \in PlayersOf(s.games[h]) : Same(s, t, m)
    /\ \A d \in Client : d # c =>
          /\ t.link[d].up = s.link[d].up /\ t.link[d].id = s.link[d].id
          /\ s.link[d].up =>
                \/ Same(s, t, s.link[d].id) /\ More(s, t, d, 0)
                \/ /\ Stage(s, s.link[d].id) \in {"map", "ready", "mine", "theirs", "over"}
                   /\ Stage(t, s.link[d].id) = "alone" /\ More(s, t, d, 6)

LEMMA DisconnectMoves ==
    ASSUME NEW s, Lists(s, {}), Even(s), NEW c \in Client, s.link[c].up
    PROVE  Parted(s, CloseSession(s, c), c)
<1> DEFINE n == s.link[c].id
           u == ErasePlayer([s EXCEPT !.link[c].up = FALSE], n)
           g == GameOf(s, n)
           t == CloseSession(s, c)
<1>1. /\ Server(u) /\ Links(u) /\ u.games = s.games
      /\ u.players = [m \in DOMAIN s.players \ {n} |-> s.players[m]]
      /\ ~u.link[c].up /\ \A d \in Client : d # c => u.link[d] = s.link[d]
  BY ErasedFields
<1>2. t = IF GameOf(u, n) = None THEN u ELSE OnOppositionLeft(u, GameOf(u, n), n)
  BY DEF CloseSession
<1>3. s.link[c].id = n
  OBVIOUS
<1> HIDE DEF u, n, t, g
<1>4. \A m : GameOf(u, m) = GameOf(s, m)
  <2> TAKE m
  <2>1. GamesOf(u, m) = GamesOf(s, m)
    BY <1>1 DEF GamesOf
  <2> QED BY <2>1 DEF GameOf
<1>5. \A m : m # n => /\ HasPlayer(u, m) <=> HasPlayer(s, m)
                      /\ HasPlayer(s, m) => u.players[m] = s.players[m]
  BY <1>1 DEF HasPlayer
<1>6. \A d \in Client : d # c /\ s.link[d].up => s.link[d].id # n
  BY <1>3 DEF Even, Unique
<1>7. ~HasPlayer(u, n)
  BY <1>1 DEF HasPlayer
<1>8. CASE g = None
  <2>1. t = u
    BY <1>2, <1>4, <1>8 DEF g
  <2>2. \A h \in DOMAIN s.games : n \notin PlayersOf(s.games[h])
    BY <1>8, GameOfFound DEF Lists, g
  <2>3. ASSUME NEW m, m # n PROVE Same(s, u, m)
    <3>1. u.games = s.games
      BY <1>1
    <3> QED BY <1>5, <2>2, <2>3, <3>1, OtherPlayersSame
  <2>4. ASSUME NEW d \in Client, d # c PROVE More(s, u, d, 0)
    <3>1. Left(u, d) = Left(s, d) /\ Lent(u, d) = Lent(s, d)
      BY <1>1, <2>4 DEF Left, Lent, Kept, Pending
    <3>2. Left(s, d) \in Nat
      BY LeftNat DEF Lists
    <3> QED BY <3>1, <3>2 DEF More
  <2> QED BY <1>1, <1>6, <2>1, <2>2, <2>3, <2>4 DEF Parted, t
<1>9. CASE g # None
  <2> DEFINE x == s.games[g]
             o == Opponent(x, n)
             y == [x EXCEPT !.over = TRUE]
             v == SetGame(u, g, y)
             e == ErrorPacket("ET_UNKNOWN")
  <2>1. g \in DOMAIN s.games /\ n \in PlayersOf(s.games[g])
    BY <1>9, GameOfFound DEF Lists, g
  <2>2. x \in AGame /\ x.player1 # x.player2
    BY <2>1 DEF Lists, Games, Apart
  <2>3. n # o /\ PlayersOf(x) = {n, o}
    BY <2>1, <2>2 DEF PlayersOf, Opponent
  <2>4. y \in AGame /\ y.player1 = x.player1 /\ y.player2 = x.player2 /\ y.over = TRUE
    <3> HIDE DEF x
    <3> QED BY <2>2 DEF AGame
  <2>5. t = Send(v, Note(o, e)) /\ e \in Packet /\ Size(e) = 6
    BY <1>1, <1>2, <1>4, <1>9, PacketKinds, Sizes DEF OnOppositionLeft, NotifyError, Note, g
  <2> HIDE DEF y, e, o
  <2>6. /\ Server(v) /\ v.link = u.link /\ v.players = u.players
        /\ v.games = [h \in DOMAIN u.games \cup {g} |-> IF h = g THEN y ELSE u.games[h]]
    <3>1. Server(u)
      BY <1>1
    <3> HIDE DEF x
    <3> QED BY <3>1, SetGameFields
  <2> HIDE DEF v
  <2>7. Links(v)
    BY <1>1, <2>6 DEF Links
  <2>8. Notes(v, t, o, e) /\ Holds(v, t) /\ Rows(v)
    BY <2>5, <2>6, <2>7, NoteGives, SendHolds, LinksRows
  <2>9. t.players = u.players /\ t.games = v.games
    BY <2>5, <2>6, SendFields
  <2>10. /\ DOMAIN t.games = DOMAIN s.games /\ t.games[g].over
         /\ PlayersOf(t.games[g]) = {n, o}
         /\ \A h \in DOMAIN s.games : /\ t.games[h].player1 = s.games[h].player1
                                      /\ t.games[h].player2 = s.games[h].player2
                                      /\ h # g => t.games[h] = s.games[h]
    <3>1. /\ DOMAIN t.games = DOMAIN s.games /\ t.games[g] = y
          /\ \A h \in DOMAIN s.games : h # g => t.games[h] = s.games[h]
      BY <1>1, <2>1, <2>6, <2>9
    <3> QED BY <2>3, <2>4, <3>1 DEF PlayersOf
  <2>11. ~t.link[c].up
    BY <1>1, <2>6, <2>8 DEF Notes, Steady
  <2>12. \A m : GameOf(t, m) = GameOf(s, m)
    <3> TAKE m
    <3>1. \A h \in DOMAIN s.games : PlayersOf(t.games[h]) = PlayersOf(s.games[h])
      BY <2>10 DEF PlayersOf
    <3>2. GamesOf(t, m) = GamesOf(s, m)
      BY <2>10, <3>1 DEF GamesOf
    <3> QED BY <3>2 DEF GameOf
  <2>13. /\ ~HasPlayer(t, n)
         /\ \A m : m # n => /\ HasPlayer(t, m) <=> HasPlayer(s, m)
                            /\ HasPlayer(s, m) => t.players[m] = s.players[m]
    BY <1>5, <1>7, <2>9 DEF HasPlayer
  <2>14. ASSUME NEW m, m \notin {n, o} PROVE Same(s, t, m)
    BY <2>1, <2>3, <2>10, <2>13, <2>14, OthersSame
  <2>15. ASSUME NEW h \in DOMAIN t.games, ~t.games[h].over
         PROVE  /\ h \in DOMAIN s.games /\ t.games[h] = s.games[h]
                /\ \A m \in PlayersOf(s.games[h]) : Same(s, t, m)
    <3>1. h # g /\ h \in DOMAIN s.games /\ t.games[h] = s.games[h]
      BY <2>10, <2>15
    <3>2. \A m \in PlayersOf(s.games[h]) : m \notin {n, o}
      BY <2>1, <2>3, <3>1 DEF Lists, Apart
    <3> QED BY <2>14, <3>1, <3>2
  <2>16. ASSUME NEW d \in Client, d # c
         PROVE  /\ t.link[d].up = s.link[d].up /\ t.link[d].id = s.link[d].id
                /\ s.link[d].up => /\ s.link[d].id # n
                                   /\ s.link[d].id = o => More(s, t, d, 6)
                                   /\ s.link[d].id # o => More(s, t, d, 0)
    <3>1. v.link[d] = s.link[d]
      BY <1>1, <2>6, <2>16
    <3>2. t.link[d].up = s.link[d].up /\ t.link[d].id = s.link[d].id
      BY <2>8, <3>1 DEF Notes, Steady
    <3>3. Lent(t, d) = Lent(s, d)
      <4>1. Kept(t, d) = Kept(v, d)
        BY <2>8 DEF Holds
      <4> QED BY <3>1, <4>1 DEF Lent, Kept
    <3>4. << >> \in Seq(Packet)
      OBVIOUS
    <3> DEFINE p == Pending(s, d, << >>)
    <3>5. p \in Seq(Packet) /\ Left(s, d) = Bytes(p) /\ Bytes(p) \in Nat
      <4>1. Links(s)
        BY DEF Lists
      <4>2. p \in Seq(Packet)
        BY <3>4, <4>1, PendingType
      <4> QED BY <4>2, BytesNat DEF Left
    <3>6. s.link[d].up => Pending(t, d, << >>) = IF s.link[d].id = o THEN Append(p, e) ELSE p
      <4>1. Pending(v, d, << >>) = p
        BY <3>1 DEF Pending
      <4> QED BY <2>8, <3>1, <3>4, <4>1 DEF Notes
    <3> HIDE DEF p
    <3>7. Bytes(Append(p, e)) = Bytes(p) + 6
      BY <2>5, <3>5, BytesMore
    <3>8. ASSUME s.link[d].up, s.link[d].id = o PROVE More(s, t, d, 6)
      BY <3>3, <3>5, <3>6, <3>7, <3>8 DEF More, Left
    <3>9. ASSUME s.link[d].up, s.link[d].id # o PROVE More(s, t, d, 0)
      BY <3>3, <3>5, <3>6, <3>9 DEF More, Left
    <3> QED BY <1>6, <2>16, <3>2, <3>8, <3>9
  <2>17. ASSUME NEW d \in Client, d # c, s.link[d].up, s.link[d].id = o
         PROVE  /\ Stage(s, o) \in {"map", "ready", "mine", "theirs", "over"}
                /\ Stage(t, o) = "alone"
    <3>1. GameOf(s, o) = g /\ o \in PlayersOf(s.games[g])
      BY <2>1, <2>3, GameIs DEF Lists
    <3>2. HasPlayer(s, o)
      BY <1>9, <2>17, <3>1 DEF Even, NamesFree
    <3>3. s.players[o].state # "WAIT"
      BY <2>1, <3>1, <3>2 DEF Even, Settled
    <3>4. Role(s, o) \in {"map", "ready", "mine", "theirs", "gone"}
      BY <3>2, <3>3, RoleSays DEF Role
    <3>5. Role(t, o) = "gone"
      <4>1. ~InGame(t, o)
        BY <2>10, <2>12, <3>1 DEF InGame
      <4>2. HasPlayer(t, o) /\ t.players[o] = s.players[o]
        BY <2>3, <2>13, <3>2
      <4> QED BY <3>3, <4>1, <4>2 DEF Role
    <3>6. Alone(t, o)
      <4>1. Opponent(t.games[g], o) = n
        <5>1. t.games[g].player1 = x.player1 /\ t.games[g].player2 = x.player2
          BY <2>1, <2>10
        <5> QED BY <2>2, <2>3, <5>1 DEF Opponent, PlayersOf
      <4>2. Rival(t, o) = n
        BY <2>12, <3>1, <4>1 DEF Rival
      <4> QED BY <2>13, <4>2 DEF Alone
    <3>7. ~Alone(s, o)
      <4>1. Opponent(s.games[g], o) = n
        BY <2>2, <2>3 DEF Opponent, PlayersOf
      <4>2. Rival(s, o) = n
        BY <3>1, <4>1 DEF Rival
      <4>3. HasPlayer(s, n)
        BY <1>3, <1>9 DEF Even, NamesFree, g
      <4> QED BY <1>9, <3>1, <4>2, <4>3 DEF Alone
    <3> QED BY <3>4, <3>5, <3>6, <3>7 DEF Stage
  <2>18. ASSUME NEW d \in Client, d # c
         PROVE  /\ t.link[d].up = s.link[d].up /\ t.link[d].id = s.link[d].id
                /\ s.link[d].up =>
                      \/ Same(s, t, s.link[d].id) /\ More(s, t, d, 0)
                      \/ /\ Stage(s, s.link[d].id) \in {"map", "ready", "mine", "theirs", "over"}
                         /\ Stage(t, s.link[d].id) = "alone" /\ More(s, t, d, 6)
    BY <2>14, <2>16, <2>17, <2>18
  <2> QED BY <2>11, <2>15, <2>18 DEF Parted, t
<1> QED BY <1>8, <1>9

LEMMA DisconnectFine ==
    ASSUME NEW s, Lists(s, {}), Even(s), NEW c \in Client, s.link[c].up,
           NEW w \in [Client -> Seq(Packet)], NEW asks \in [Client -> BOOLEAN], Fine(s, w, asks)
    PROVE  Fine(CloseSession(s, c), w, asks)
<1> DEFINE t == CloseSession(s, c)
<1>1. Parted(s, t, c)
  BY DisconnectMoves
<1> HIDE DEF t
<1>2. \A d \in Client : /\ Left(s, d) \in Nat /\ Bytes(w[d]) \in Nat /\ w[d] \in Seq(Packet)
                        /\ asks[d] \in BOOLEAN /\ Links(s)
  BY LeftNat, BytesNat DEF Lists
<1>3. ASSUME NEW d \in Client, t.link[d].up
      PROVE  d # c /\ s.link[d].up /\ t.link[d].id = s.link[d].id
  BY <1>1, <1>3 DEF Parted
<1>4. Behind(t)
  <2>1. ASSUME NEW h \in DOMAIN t.games, ~t.games[h].over
        PROVE  /\ h \in DOMAIN s.games /\ ~s.games[h].over
               /\ PlayersOf(t.games[h]) = PlayersOf(s.games[h])
               /\ \A m \in PlayersOf(s.games[h]) : Role(t, m) = Role(s, m)
               /\ \A d \in Client : t.link[d].up /\ t.link[d].id \in PlayersOf(s.games[h])
                                       => Left(t, d) = Left(s, d)
    <3>1. /\ h \in DOMAIN s.games /\ t.games[h] = s.games[h]
          /\ \A m \in PlayersOf(s.games[h]) : Same(s, t, m)
      BY <1>1, <2>1 DEF Parted
    <3>2. ASSUME NEW d \in Client, t.link[d].up, t.link[d].id \in PlayersOf(s.games[h])
          PROVE  Left(t, d) = Left(s, d)
      <4>1. d # c /\ s.link[d].up /\ Same(s, t, s.link[d].id)
        BY <1>3, <3>1, <3>2
      <4>2. Stage(t, s.link[d].id) = Stage(s, s.link[d].id)
        BY <4>1, StageSame
      <4>3. More(s, t, d, 0)
        BY <1>1, <4>1, <4>2 DEF Parted
      <4> QED BY <1>2, <4>3 DEF More
    <3> QED BY <2>1, <3>1, <3>2 DEF Same
  <2>2. Behind(s)
    BY DEF Fine
  <2> QED BY <1>3, <2>1, <2>2, BehindKept
<1>5. ASSUME NEW d \in Client, t.link[d].up PROVE Fits(t, d, w[d], asks[d])
  <2>1. d # c /\ s.link[d].up /\ t.link[d].id = s.link[d].id /\ Fits(s, d, w[d], asks[d])
    BY <1>3, <1>5 DEF Fine
  <2>2. CASE Same(s, t, s.link[d].id) /\ More(s, t, d, 0)
    BY <1>2, <2>1, <2>2, FitsSame
  <2>3. CASE /\ Stage(s, s.link[d].id) \in {"map", "ready", "mine", "theirs", "over"}
             /\ Stage(t, s.link[d].id) = "alone" /\ More(s, t, d, 6)
    <3> DEFINE u == Left(s, d)
               q == Bytes(w[d]) + u
               k == Stage(s, s.link[d].id)
    <3>1. u \in Nat /\ q \in Nat /\ u <= q
      BY <1>2
    <3>2. k \in {"map", "ready", "mine", "theirs", "over"}
      BY <2>3
    <3> HIDE DEF u, q, k
    <3>3. \A h \in Nat : Fit(k, asks[d], q, h, u) => Fit("alone", asks[d], q + 6, h, u + 6)
      BY <1>2, <3>1, <3>2, AbandonedFit
    <3>4. \A h \in Nat : Fit(Stage(s, s.link[d].id), asks[d], q, h, u)
                            => Fit(Stage(t, s.link[d].id), asks[d], q + 6, h, u + 6)
      BY <2>3, <3>3 DEF k
    <3> QED BY <1>2, <2>1, <2>3, <3>4, FitsMore DEF q, u
  <2> QED BY <1>1, <2>1, <2>2, <2>3 DEF Parted
<1>6. Fine(t, w, asks)
  BY <1>4, <1>5 DEF Fine
<1> QED BY <1>6 DEF t

\* A receive completes.
LEMMA RecvFine ==
    ASSUME LInv, PInv, BInv, NEW c \in Client, RecvCompletion(c)
    PROVE  BInv'
<1> DEFINE s == server
           t == server'
           r == requests[c]
           p == r[1]
           w == wire
           asks == [d \in Client |-> Asking(requests[d])]
           next == [d \in Client |-> Asking(requests'[d])]
<1>1. /\ Lists(s, Outside) /\ Even(s) /\ s.link[c].up /\ r # << >> /\ r \in Seq(RequestPacket)
      /\ t = Handle(s, c, p) /\ p # Closed /\ wire' = w /\ Served(c)
      /\ requests' = [requests EXCEPT ![c] = Tail(r)]
  BY DEF LInv, PInv, Clients, RecvCompletion
<1>2. Lists(s, {}) /\ p \in RequestPacket /\ w \in [Client -> Seq(Packet)]
  BY <1>1, FewerDown DEF LInv, Clients
<1>3. Shape(r, pc[c]) /\ Hears(s, c, wire[c], r, pc[c], marked[c])
  BY <1>1 DEF Served, Serves
<1>4. asks \in [Client -> BOOLEAN] /\ Fine(s, w, asks)
  BY DEF BInv, Asking
<1>5. \A d \in Client : requests'[d] = IF d = c THEN Tail(r) ELSE requests[d]
  BY <1>1 DEF LInv, Clients
<1>6. SUFFICES Fine(t, w, next)
  BY <1>1 DEF BInv
<1>7. Asking(r)
  BY <1>1 DEF Asking
<1>8. Right(Role(s, s.link[c].id), Hit(s, s.link[c].id), Alone(s, s.link[c].id), p)
  <2> HIDE DEF r
  <2> QED BY <1>3, <1>7 DEF Hears, Conv, p
<1>9. p \in RequestPacket \ {Closed}
  BY <1>1, <1>2
<1>10. ~Asking(Tail(r))
  <2> HIDE DEF r
  <2> QED BY <1>3, <1>7, TailAsks
<1> HIDE DEF r
<1>11. next = [asks EXCEPT ![c] = FALSE]
  <2>1. Asking(Tail(r)) = FALSE
    BY <1>10 DEF Asking
  <2>2. \A d \in Client : Asking(requests'[d]) = IF d = c THEN FALSE ELSE Asking(requests[d])
    BY <1>5, <2>1
  <2> QED BY <2>2
<1>12. asks[c]
  BY <1>7 DEF r
<1> HIDE DEF s, t, w, p, next, asks
<1> QED BY <1>1, <1>2, <1>4, <1>8, <1>9, <1>11, <1>12, HandleFine

\* A receive ends, or a send fails.
LEMMA ClosesFine ==
    ASSUME LInv, PInv, BInv, NEW c \in Client, Closes(c)
    PROVE  BInv'
<1> DEFINE s == server
           t == server'
           w == wire
           asks == [d \in Client |-> Asking(requests[d])]
           next == [d \in Client |-> Asking(requests'[d])]
<1>1. /\ Lists(s, {}) /\ Even(s) /\ s.link[c].up /\ wire' = w /\ w \in [Client -> Seq(Packet)]
      /\ \A d \in Client : d # c => requests'[d] = requests[d]
  BY ClosesParts, FewerDown DEF LInv, PInv, Clients
<1>2. \/ t = CloseSession(s, c)
      \/ t = s /\ requests'[c] = requests[c]
      \/ t = s /\ requests'[c] = << >> /\ ~Asking(requests[c])
  BY ClosesWhen
<1>3. asks \in [Client -> BOOLEAN] /\ Fine(s, w, asks)
  BY DEF BInv, Asking
<1>4. \A d \in Client : d # c => next[d] = asks[d]
  BY <1>1
<1>5. SUFFICES Fine(t, w, next)
  BY <1>1 DEF BInv
<1>6. CASE t = CloseSession(s, c)
  <2> HIDE DEF s, t, w, asks, next
  <2>1. Fine(t, w, asks)
    BY <1>1, <1>3, <1>6, DisconnectFine
  <2>2. ~t.link[c].up
    BY <1>1, <1>6, DisconnectMoves DEF Parted
  <2>3. Behind(t) /\ \A d \in Client : t.link[d].up => Fits(t, d, w[d], next[d])
    BY <1>4, <2>1, <2>2 DEF Fine
  <2> QED BY <2>3 DEF Fine
<1>7. CASE t = s /\ next[c] = asks[c]
  <2>1. next = asks
    BY <1>4, <1>7
  <2> QED BY <1>3, <1>7, <2>1
<1>8. requests'[c] = << >> /\ ~Asking(requests[c]) => next[c] = asks[c]
  <2>1. \A x : Asking(x) \in BOOLEAN
    BY DEF Asking
  <2>2. ~Asking(<< >>)
    BY DEF Asking
  <2> QED BY <2>1, <2>2
<1> QED BY <1>2, <1>6, <1>7, <1>8

------------------------------------------------------------------------------
(* The clients' steps.                                                      *)

\* What a client has read is no longer outstanding.
LEMMA FitRead ==
    ASSUME NEW k \in DOMAIN Most, NEW a, NEW q \in Nat, NEW g, NEW u, Fit(k, a, q, g, u),
           NEW v \in Nat, v <= q, NEW b,
           b => a \/ k \in {"over", "alone"} \/ (k \in {"name", "map", "mine"} /\ v = 0)
    PROVE  Fit(k, b, v, g, u)
<1>1. Most[k].unread \in Nat
  BY DEF Most
<1>2. q <= Most[k].unread
  BY DEF Fit
<1>3. v <= Most[k].unread
  BY <1>1, <1>2
<1>4. /\ g + u <= Most[k].kept /\ u <= Most[k].new
      /\ u = 0 => g <= Most[k].new
      /\ a => k \in {"over", "alone"} \/ (k \in {"name", "map", "mine"} /\ q = 0)
  BY DEF Fit
<1>5. q = 0 => v = 0
  OBVIOUS
<1> QED BY <1>3, <1>4, <1>5 DEF Fit

\* Nothing is outstanding when all was read.
LEMMA NothingLeft ==
    ASSUME NEW s, Links(s), NEW c \in Client, NEW w \in Seq(Packet), Pending(s, c, w) = << >>
    PROVE  Bytes(w) = 0 /\ Left(s, c) = 0
<1> DEFINE q == Pending(s, c, w)
           out == s.link[c].out
           n == s.link[c].sent
<1>1. out \in Seq(Packet) /\ n \in Nat /\ n <= Len(out)
  BY DEF Links, Session
<1>2. Joins(q, w, out, n)
  BY <1>1, RestIs DEF Pending
<1>3. Len(q) = 0 /\ Len(w) \in Nat /\ Len(out) \in Nat
  BY <1>1
<1> HIDE DEF q, out, n
<1>4. Len(w) = 0
  BY <1>1, <1>2, <1>3 DEF Joins
<1>5. w = << >> /\ << >> \in Seq(Packet)
  BY <1>4, EmptySeq
<1> QED BY <1>5, BytesNat DEF Left

\* A client asks when it has read all, or when its match is no more.
LEMMA AsksWhen ==
    ASSUME NEW s, Links(s), NEW c \in Client, NEW w \in Seq(Packet), NEW r, NEW at, at \notin Dead,
           NEW mk, Hears(s, c, w, r, at, mk), Asking(r)
    PROVE  LET k == Stage(s, s.link[c].id)
           IN  k = "alone" \/ (k \in {"name", "map", "mine"} /\ Bytes(w) + Left(s, c) = 0)
<1> DEFINE n == s.link[c].id
           role == Role(s, n)
           q == Pending(s, c, w)
<1>1. Conv(role, Hit(s, n), Alone(s, n), q, r, at, mk) /\ r # << >>
  BY DEF Hears, Asking
<1> HIDE DEF n, q
<1>2. CASE role = "gone"
  <2>1. Alone(s, n)
    BY <1>1, <1>2 DEF Conv, Parting
  <2> QED BY <1>2, <2>1 DEF Stage, n
<1>3. CASE role # "gone"
  <2>1. q = << >> /\ role \in {"name", "map", "mine"}
    BY <1>1, <1>3 DEF Conv, Talking, Right
  <2>2. Bytes(w) = 0 /\ Left(s, c) = 0
    BY <2>1, NothingLeft DEF q
  <2> QED BY <1>3, <2>1, <2>2 DEF Stage, n
<1> QED BY <1>2, <1>3

\* Client c has v left on the wire, and z asked.
LEMMA TalkFine ==
    ASSUME LInv, PInv', BInv, NEW c \in Client, UNCHANGED server,
           NEW v, v = wire[c] \/ (wire[c] # << >> /\ v = Tail(wire[c])), wire' = [wire EXCEPT ![c] = v],
           NEW z, requests' = [requests EXCEPT ![c] = z],
           pc'[c] \in Dead /\ Asking(z) => Asking(requests[c])
    PROVE  BInv'
<1> DEFINE s == server
           asks == [d \in Client |-> Asking(requests[d])]
           next == [d \in Client |-> Asking(requests'[d])]
<1>1. Links(s) /\ wire \in [Client -> Seq(Packet)] /\ requests \in [Client -> Seq(RequestPacket)]
  BY DEF LInv, Lists, Clients
<1>2. /\ wire'[c] = v /\ requests'[c] = z
      /\ \A d \in Client : d # c => wire'[d] = wire[d] /\ requests'[d] = requests[d]
  BY <1>1
<1>3. wire[c] \in Seq(Packet) /\ v \in Seq(Packet) /\ Bytes(v) <= Bytes(wire[c])
  <2>1. wire[c] \in Seq(Packet)
    BY <1>1
  <2>2. Bytes(wire[c]) \in Nat
    BY <2>1, BytesNat
  <2>3. wire[c] # << >> => /\ Tail(wire[c]) \in Seq(Packet)
                           /\ Bytes(Tail(wire[c])) < Bytes(wire[c])
                           /\ Bytes(Tail(wire[c])) \in Nat
    BY <2>1, BytesOn, BytesNat
  <2>4. CASE v = wire[c]
    BY <2>1, <2>2, <2>4
  <2>5. CASE wire[c] # << >> /\ v = Tail(wire[c])
    BY <2>1, <2>2, <2>3, <2>5
  <2> QED BY <2>4, <2>5
<1>4. Behind(s) /\ \A d \in Client : s.link[d].up => Fits(s, d, wire[d], asks[d])
  BY DEF BInv, Fine
<1>5. ASSUME s.link[c].up PROVE Fits(s, c, v, Asking(z))
  <2> DEFINE k == Stage(s, s.link[c].id)
             q == Bytes(wire[c]) + Left(s, c)
             y == Bytes(v) + Left(s, c)
  <2>1. Bytes(wire[c]) \in Nat /\ Bytes(v) \in Nat /\ Left(s, c) \in Nat
    BY <1>1, <1>3, BytesNat, LeftNat
  <2>2. q \in Nat /\ y \in Nat /\ y <= q
    BY <1>3, <2>1
  <2>3. Fit(k, Asking(requests[c]), q, Lent(s, c), Left(s, c))
    BY <1>4, <1>5 DEF Fits
  <2>4. ASSUME Asking(z), pc'[c] \notin Dead
        PROVE  k = "alone" \/ (k \in {"name", "map", "mine"} /\ y = 0)
    <3>1. Serves(s, Outside', c, v, z, pc'[c], marked'[c])
      BY <1>2 DEF PInv, Served
    <3>2. Hears(s, c, v, z, pc'[c], marked'[c])
      BY <1>5, <3>1 DEF Serves
    <3> HIDE DEF s
    <3> QED BY <1>1, <1>3, <2>4, <3>2, AsksWhen
  <2>5. k \in DOMAIN Most
    BY StageKnown
  <2> HIDE DEF k, q, y
  <2>6. Fit(k, Asking(z), y, Lent(s, c), Left(s, c))
    <3>1. Asking(z) => \/ Asking(requests[c]) \/ k \in {"over", "alone"}
                       \/ k \in {"name", "map", "mine"} /\ y = 0
      BY <2>4
    <3> QED BY <2>2, <2>3, <2>5, <3>1, FitRead
  <2> QED BY <2>6 DEF Fits, k, y
<1>6. ASSUME NEW d \in Client, s.link[d].up PROVE Fits(s, d, wire'[d], next[d])
  BY <1>2, <1>4, <1>5, <1>6
<1>7. Fine(s, wire', next)
  BY <1>4, <1>6 DEF Fine
<1> QED BY <1>7 DEF BInv

LEMMA ClientFine ==
    ASSUME LInv, PInv, PInv', BInv, NEW c \in Client, ClientStep(c) \/ Leave(c)
    PROVE  BInv'
<1> DEFINE r == requests[c]
           w == wire[c]
<1>1. /\ wire = [wire EXCEPT ![c] = w] /\ requests = [requests EXCEPT ![c] = r]
      /\ pc \in [Client -> DOMAIN Awaited \cup {"off", "done", "ended", "failed", "left"}]
  BY Unmoved DEF LInv, Clients, Dead
<1>2. Served(c) /\ Shape(r, pc[c])
  BY DEF PInv, Served, Serves
<1>3. ~Fails(c)
  BY NeverSurprised DEF Fails
<1>4. ASSUME Hang(c)
      PROVE  \E z : requests' = [requests EXCEPT ![c] = z] /\ (Asking(z) => Asking(r))
  <2>1. PICK z \in Closing(r) : requests' = [requests EXCEPT ![c] = z]
    BY <1>4, Hangs
  <2>2. r \in Seq(RequestPacket)
    BY DEF LInv, Clients
  <2>3. z = Append(r, Closed) \/ z = <<Closed>>
    BY <2>1 DEF Closing
  <2> HIDE DEF r
  <2>4. ASSUME z[1] # Closed PROVE r # << >> /\ z[1] = r[1]
    BY <2>2, <2>3, <2>4, AppendProperties
  <2> QED BY <2>1, <2>4 DEF Asking
<1>5. ASSUME Connect(c) PROVE BInv'
  <2>1. /\ UNCHANGED <<server, wire>> /\ pc'[c] = "naming"
        /\ requests' = [requests EXCEPT ![c] = Append(r, SubmitName)]
    BY <1>1, <1>5 DEF Connect, serverVars, Goes, Request
  <2>2. pc'[c] \notin Dead
    BY <2>1 DEF Dead
  <2> HIDE DEF r, w
  <2> QED BY <1>1, <2>1, <2>2, TalkFine DEF w
<1>6. ASSUME Leave(c) PROVE BInv'
  <2>1. UNCHANGED <<server, wire>> /\ Hang(c)
    BY <1>6 DEF Leave, serverVars
  <2> HIDE DEF w
  <2> QED BY <1>1, <1>4, <2>1, TalkFine DEF w
<1>7. ASSUME NEW at, NEW type, Receives(c, at, type) PROVE w # << >> /\ wire' = [wire EXCEPT ![c] = Tail(w)]
  BY <1>7 DEF Receives
<1>8. ASSUME SeesAllOver(c) \/ SeesError(c) PROVE BInv'
  <2>1. /\ UNCHANGED server /\ Hang(c) /\ w # << >> /\ wire' = [wire EXCEPT ![c] = Tail(w)]
    BY <1>8 DEF SeesAllOver, SeesError, Receives, serverVars
  <2>2. PICK z : requests' = [requests EXCEPT ![c] = z] /\ (Asking(z) => Asking(r))
    BY <1>4, <2>1
  <2> QED BY <2>1, <2>2, TalkFine
<1>9. ASSUME SeesResult(c) \/ SeesGameOver(c) \/ Replied(c) PROVE BInv'
  <2>1. /\ UNCHANGED <<server, requests>> /\ w # << >> /\ wire' = [wire EXCEPT ![c] = Tail(w)]
    BY <1>9 DEF SeesResult, SeesGameOver, Replied, Receives, serverVars
  <2>2. requests' = [requests EXCEPT ![c] = r]
    BY <1>1, <2>1
  <2> QED BY <2>1, <2>2, TalkFine
<1>10. ASSUME Started(c) \/ NextStarted(c) \/ TakesTurn(c) PROVE BInv'
  <2>1. /\ UNCHANGED server /\ w # << >> /\ wire' = [wire EXCEPT ![c] = Tail(w)]
    BY <1>10 DEF Started, NextStarted, TakesTurn, Receives, serverVars
  <2>2. \E b \in {"mapping", "attacking"} : pc' = [pc EXCEPT ![c] = b]
    BY <1>10 DEF Started, NextStarted, TakesTurn, StartGame, Goes
  <2>3. \E p : Request(c, p)
    BY <1>10 DEF Started, NextStarted, TakesTurn, StartGame
  <2>4. \E z : requests' = [requests EXCEPT ![c] = z]
    BY <2>3 DEF Request
  <2>5. pc'[c] \notin Dead
    BY <1>1, <2>2 DEF Dead
  <2> HIDE DEF w, r
  <2> QED BY <2>1, <2>4, <2>5, TalkFine DEF w
<1> QED BY <1>3, <1>5, <1>6, <1>8, <1>9, <1>10 DEF ClientStep

------------------------------------------------------------------------------
(* The invariant of the bytes holds. *)

LEMMA FineInit == Init => BInv
<1> SUFFICES ASSUME Init PROVE BInv
  OBVIOUS
<1>1. /\ DOMAIN server.games = {}
      /\ \A c \in Client : ~server.link[c].up
  BY DEF Init, NoLink
<1> QED BY <1>1 DEF BInv, Fine, Behind

LEMMA FineNext == ASSUME SerialLogin, LInv, PInv, BInv, [Next]_vars PROVE BInv'
<1> DEFINE asks == [d \in Client |-> Asking(requests[d])]
<1>1. asks \in [Client -> BOOLEAN] /\ Fine(server, wire, asks)
  BY DEF BInv, Asking
<1>2. ASSUME requests' = requests, Fine(server', wire', asks) PROVE BInv'
  BY <1>2 DEF BInv
<1>3. CASE Accept
  <2>1. requests' = requests
    BY <1>3 DEF Accept
  <2> HIDE DEF asks
  <2> QED BY <1>1, <1>2, <1>3, <2>1, AcceptFine
<1>4. CASE FinishPass
  <2>1. requests' = requests
    BY <1>4 DEF FinishPass
  <2> HIDE DEF asks
  <2> QED BY <1>1, <1>2, <1>4, <2>1, FinishFine
<1>5. ASSUME NEW c \in Client, SendCompletion(c) PROVE BInv'
  <2>1. requests' = requests
    BY <1>5 DEF SendCompletion
  <2> HIDE DEF asks
  <2> QED BY <1>1, <1>2, <1>5, <2>1, SendFine
<1>6. ASSUME NEW c \in Client, RecvCompletion(c) PROVE BInv'
  BY <1>6, RecvFine
<1>7. ASSUME NEW c \in Client, ClientStep(c) \/ Leave(c) PROVE BInv'
  BY <1>7, ServesNext, ClientFine
<1>8. ASSUME NEW c \in Client, RecvEnd(c) \/ SendFails(c) PROVE BInv'
  BY <1>8, ClosesFine DEF Closes
<1>9. CASE UNCHANGED vars
  <2>1. UNCHANGED <<server, wire, requests>>
    BY <1>9 DEF vars
  <2> QED BY <1>1, <1>2, <2>1
<1> QED BY <1>3, <1>4, <1>5, <1>6, <1>7, <1>8, <1>9 DEF Next

LEMMA Backlog == ASSUME SerialLogin PROVE Spec => [](LInv /\ PInv /\ BInv)
<1>1. Init => LInv /\ PInv /\ BInv
  BY ListsInit, ServesInit, FineInit
<1>2. LInv /\ PInv /\ BInv /\ [Next]_vars => (LInv /\ PInv /\ BInv)'
  BY ListsNext, ServesNext, FineNext
<1> QED BY <1>1, <1>2, PTL DEF Spec

\* The numbers of every stage are within half of a send buffer.
LEMMA FitHalf ==
    ASSUME NEW k \in DOMAIN Most, NEW a, NEW q \in Nat, NEW g \in Nat, NEW u \in Nat,
           Fit(k, a, q + u, g, u)
    PROVE  (IF g > q THEN g ELSE q) + u <= HalfBufSize
<1>1. Most[k].unread <= 50 /\ Most[k].kept <= 58 /\ Most[k].unread \in Nat /\ Most[k].kept \in Nat
  BY DEF Most
<1>2. q + u <= Most[k].unread /\ g + u <= Most[k].kept
  BY DEF Fit
<1> QED BY <1>1, <1>2 DEF HalfBufSize

LEMMA BacklogFitsFollows == ASSUME LInv, BInv PROVE BacklogFits
<1> SUFFICES ASSUME NEW c \in Client, server.link[c].up
             PROVE  LET k == server.link[c]
                        given == Bytes(SubSeq(k.out, 1, k.sent))
                        onWire == Bytes(wire[c])
                    IN  (IF given > onWire THEN given ELSE onWire) + Bytes(Unsent(c)) <= HalfBufSize
  BY DEF BacklogFits
<1> DEFINE s == server
           n == s.link[c].id
<1>1. Links(s) /\ wire[c] \in Seq(Packet) /\ s.link[c] \in Session /\ s.link[c].sent <= Len(s.link[c].out)
  BY DEF LInv, Lists, Links, Clients
<1>2. Fits(s, c, wire[c], Asking(requests[c]))
  BY DEF BInv, Fine
<1>3. Bytes(SubSeq(s.link[c].out, 1, s.link[c].sent)) = Lent(s, c)
  BY DEF Lent, Kept
<1>4. Bytes(Unsent(c)) = Left(s, c)
  <2>1. Unsent(c) \in Seq(Packet)
    <3>1. s.link[c].out \in Seq(Packet) /\ s.link[c].sent \in Nat
      BY <1>1 DEF Session
    <3> QED BY <1>1, <3>1, UnsentPart DEF Unsent
  <2>2. Pending(s, c, << >>) = << >> \o Unsent(c)
    BY DEF Pending, Rest, Unsent
  <2>3. << >> \o Unsent(c) = Unsent(c)
    BY <2>1
  <2> QED BY <2>2, <2>3 DEF Left
<1>5. Left(s, c) \in Nat /\ Lent(s, c) \in Nat /\ Bytes(wire[c]) \in Nat
  BY <1>1, LeftNat, BytesNat
<1>6. Stage(s, n) \in DOMAIN Most
  BY StageKnown
<1>7. Fit(Stage(s, n), Asking(requests[c]), Bytes(wire[c]) + Left(s, c), Lent(s, c), Left(s, c))
  BY <1>2 DEF Fits
<1> HIDE DEF s, n
<1>8. (IF Lent(s, c) > Bytes(wire[c]) THEN Lent(s, c) ELSE Bytes(wire[c])) + Left(s, c) <= HalfBufSize
  BY <1>5, <1>6, <1>7, FitHalf
<1> QED BY <1>3, <1>4, <1>8 DEF s

------------------------------------------------------------------------------
(* The theorems. *)

\* When students log in one after the other, the score a client keeps, with the
\* results on their way, is the server's; every game that was decided has one
\* winner; and the total sent at the end is what the client has counted over
\* MAX_GAME_COUNT games (Game::OnGameOver, OnAllOver, Player::Win, the loop of
\* Example.cpp).
THEOREM ScoreAlwaysAgrees == ASSUME SerialLogin PROVE Spec => []ScoreAgrees
<1>1. LInv /\ PInv /\ SInv => ScoreAgrees
  BY ScoreAgreesFollows
<1>2. Spec => [](LInv /\ PInv /\ SInv)
  BY Score
<1> QED BY <1>1, <1>2, PTL

\* When students log in one after the other, what is outstanding to a client
\* stays within half of its send buffer, in every match between any clients, on
\* any board and with any ships: no SendRequest of a handler fails, so that
\* SUBMIT_ATTACK never goes on with a Player that a failed send has deleted.
THEOREM BacklogAlwaysFits == ASSUME SerialLogin PROVE Spec => []BacklogFits
<1>1. LInv /\ PInv /\ BInv => BacklogFits
  BY BacklogFitsFollows
<1> QED BY <1>1, Backlog, PTL
===============================================================================
