--------------------------- MODULE GameServerProofs ---------------------------
(***************************************************************************)
(* What is proved of the server and its clients, for any number of         *)
(* clients, any board and any ships.                                       *)
(*                                                                         *)
(*   The lists of sessions, players and games agree, whoever logs in,      *)
(*   plays and leaves when: invariant LInv.                                *)
(*                                                                         *)
(*   When students log in one after the other, a match keeps its protocol: *)
(*   one turn, no surprise, the same view on both sides: invariant PInv,   *)
(*   on top of LInv.                                                       *)
(***************************************************************************)
EXTENDS GameServer, FiniteSetTheorems, FunctionTheorems, SequenceTheorems,
        WellFoundedInduction, TLAPS

USE GameAssumption, BoardAssumption DEF GameAssumption, BoardAssumption

------------------------------------------------------------------------------
(* Types. *)

Result == {AR_NONE, AR_MISS, AR_HIT} \cup {Destroyed(x) : x \in Ship}

Packet == [type : {"OK", "GAME_START", "MY_TURN", "NEXT_GAME"}]
          \cup [type : {"ERROR"}, code : {"ET_UNKNOWN", "ET_INVALID_MAP"}]
          \cup [type : {"ATTACK_RESULT"}, cell : Cell, mine : BOOLEAN, result : Result]
          \cup [type : {"GAME_OVER"}, won : BOOLEAN, turns : Int]
          \cup [type : {"ALL_OVER"}, wins : Int, turns : Int]

RequestPacket == {SubmitName, Closed} \cup {SubmitMap(info) : info \in Maps}
                 \cup {SubmitAttack(c) : c \in Cell}

ABoard  == [info : Maps, hit : SUBSET Cell]
APlayer == [state : {"WAIT", "WAIT_MAP", "ON_GAME"}, turns : Int, wins : Int,
            winTurns : Int, board : ABoard]
Number0 == {None} \cup PlayerNumber
Session == [up : BOOLEAN, id : Number0, out : Seq(Packet), sent : Nat]
\* A game that has been given its players.
AGame   == [player1 : PlayerNumber, player2 : PlayerNumber, tries : Int,
            turn : Number0, started : {TRUE}, over : BOOLEAN]

\* A record of the server's three lists, and what each holds.
Server(s) == s = [link |-> s.link, players |-> s.players, games |-> s.games]
Links(s)  == /\ s.link \in [Client -> Session]
             /\ \A c \in Client : /\ s.link[c].sent <= Len(s.link[c].out)
                                  /\ s.link[c].up => s.link[c].id \in PlayerNumber
Players(s) == /\ s.players \in [DOMAIN s.players -> APlayer]
              /\ DOMAIN s.players \subseteq PlayerNumber
Games(s) == /\ s.games \in [DOMAIN s.games -> AGame]
            /\ DOMAIN s.games \subseteq GameNumber

------------------------------------------------------------------------------
(* The invariant: the lists of a state s. *)

\* A player has a connected session.
Present(s) == \A n \in DOMAIN s.players : \E c \in Client : s.link[c].up /\ s.link[c].id = n

\* A game has two players, and no player is in two, be they over or not.
Apart(s) == /\ \A g \in DOMAIN s.games : s.games[g].player1 # s.games[g].player2
            /\ \A g, h \in DOMAIN s.games :
                  g # h => PlayersOf(s.games[g]) \cap PlayersOf(s.games[h]) = {}

\* The players of a game that is not over are in the list, and wait for no game.
Engaged(s) == \A g \in DOMAIN s.games : ~s.games[g].over =>
                 \A n \in PlayersOf(s.games[g]) :
                    HasPlayer(s, n) /\ s.players[n].state # "WAIT"

\* The clients of D have no session.
Down(s, D) == D \subseteq Client /\ \A c \in D : ~s.link[c].up

Lists(s, D) == /\ Server(s) /\ Links(s) /\ Players(s) /\ Games(s)
               /\ Present(s) /\ Apart(s) /\ Engaged(s) /\ Down(s, D)

\* Sockets wait to be accepted, each once, those of clients that have connected.
Arrivals ==
    /\ accepts \in Seq(Client)
    /\ \A i, j \in 1 .. Len(accepts) : accepts[i] = accepts[j] => i = j
    /\ \A i \in 1 .. Len(accepts) : pc[accepts[i]] # "off"

\* The clients that the server has not accepted.
Outside == {c \in Client : pc[c] = "off"} \cup {accepts[i] : i \in 1 .. Len(accepts)}

Clients ==
    /\ phase \in {"accept", "apc"}
    /\ pc \in [Client -> DOMAIN Awaited \cup {"off"} \cup Dead]
    /\ marked \in [Client -> SUBSET Cell]
    /\ wire \in [Client -> Seq(Packet)]
    /\ requests \in [Client -> Seq(RequestPacket)]

LInv == Lists(server, Outside) /\ Arrivals /\ Clients

------------------------------------------------------------------------------
(* What the operators on the lists do to them. *)

LEMMA SetPlayerFields ==
    ASSUME NEW s, Server(s), NEW n, NEW p
    PROVE  LET t == SetPlayer(s, n, p)
           IN  /\ Server(t) /\ t.link = s.link /\ t.games = s.games
               /\ t.players = [m \in DOMAIN s.players \cup {n} |->
                                 IF m = n THEN p ELSE s.players[m]]
  BY DEF Server, SetPlayer

LEMMA ErasePlayerFields ==
    ASSUME NEW s, Server(s), NEW n
    PROVE  LET t == ErasePlayer(s, n)
           IN  /\ Server(t) /\ t.link = s.link /\ t.games = s.games
               /\ t.players = [m \in DOMAIN s.players \ {n} |-> s.players[m]]
  BY DEF Server, ErasePlayer

LEMMA SetGameFields ==
    ASSUME NEW s, Server(s), NEW g, NEW x
    PROVE  LET t == SetGame(s, g, x)
           IN  /\ Server(t) /\ t.link = s.link /\ t.players = s.players
               /\ t.games = [h \in DOMAIN s.games \cup {g} |->
                               IF h = g THEN x ELSE s.games[h]]
  BY DEF Server, SetGame

LEMMA SendFields ==
    ASSUME NEW s, Server(s), NEW packets
    PROVE  LET t == Send(s, packets)
           IN  /\ Server(t) /\ t.players = s.players /\ t.games = s.games
               /\ t.link = [c \in Client |->
                     IF s.link[c].up /\ s.link[c].id \in DOMAIN packets
                       THEN [s.link[c] EXCEPT !.out = Append(s.link[c].out,
                                                             packets[s.link[c].id])]
                       ELSE s.link[c]]
  BY DEF Server, Send

LEMMA PlayersField ==
    ASSUME NEW s, Server(s), NEW f
    PROVE  LET t == [s EXCEPT !.players = f]
           IN  Server(t) /\ t.link = s.link /\ t.players = f /\ t.games = s.games
  BY DEF Server

LEMMA LinkField ==
    ASSUME NEW s, Server(s), NEW f
    PROVE  LET t == [s EXCEPT !.link = f]
           IN  Server(t) /\ t.link = f /\ t.players = s.players /\ t.games = s.games
  BY DEF Server

\* What the handlers write into a player.
LEMMA PlayerWith ==
    ASSUME NEW p \in APlayer
    PROVE  /\ \A i \in Int : /\ [p EXCEPT !.turns = i] \in APlayer
                             /\ [p EXCEPT !.turns = i].state = p.state
                             /\ [p EXCEPT !.wins = i] \in APlayer
                             /\ [p EXCEPT !.wins = i].state = p.state
                             /\ [p EXCEPT !.winTurns = i] \in APlayer
                             /\ [p EXCEPT !.winTurns = i].state = p.state
           /\ \A board \in ABoard : /\ [p EXCEPT !.board = board] \in APlayer
                                    /\ [p EXCEPT !.board = board].state = p.state
           /\ \A state \in {"WAIT_MAP", "ON_GAME"} :
                 /\ [p EXCEPT !.state = state] \in APlayer
                 /\ [p EXCEPT !.state = state].state = state
<1>1. ASSUME NEW i \in Int
      PROVE  /\ [p EXCEPT !.turns = i] \in APlayer
             /\ [p EXCEPT !.turns = i].state = p.state
  BY DEF APlayer
<1>2. ASSUME NEW i \in Int
      PROVE  /\ [p EXCEPT !.wins = i] \in APlayer
             /\ [p EXCEPT !.wins = i].state = p.state
  BY DEF APlayer
<1>3. ASSUME NEW i \in Int
      PROVE  /\ [p EXCEPT !.winTurns = i] \in APlayer
             /\ [p EXCEPT !.winTurns = i].state = p.state
  BY DEF APlayer
<1>4. ASSUME NEW board \in ABoard
      PROVE  /\ [p EXCEPT !.board = board] \in APlayer
             /\ [p EXCEPT !.board = board].state = p.state
  BY DEF APlayer
<1>5. ASSUME NEW state \in {"WAIT_MAP", "ON_GAME"}
      PROVE  /\ [p EXCEPT !.state = state] \in APlayer
             /\ [p EXCEPT !.state = state].state = state
  BY DEF APlayer
<1> QED BY <1>1, <1>2, <1>3, <1>4, <1>5

\* A player at the beginning of a game.
LEMMA PlayerBegins ==
    ASSUME NEW p \in APlayer
    PROVE  LET q == [p EXCEPT !.turns = 0, !.state = "WAIT_MAP"]
           IN  q \in APlayer /\ q.state = "WAIT_MAP"
<1> DEFINE r == [p EXCEPT !.turns = 0]
<1>1. r \in APlayer /\ 0 \in Int
  BY DEF APlayer
<1>2. [p EXCEPT !.turns = 0, !.state = "WAIT_MAP"] = [r EXCEPT !.state = "WAIT_MAP"]
  OBVIOUS
<1> HIDE DEF r
<1>3. [r EXCEPT !.state = "WAIT_MAP"] \in APlayer /\ [r EXCEPT !.state = "WAIT_MAP"].state = "WAIT_MAP"
  BY <1>1 DEF APlayer
<1> QED BY <1>2, <1>3

\* What the handlers write into a game.
LEMMA GameWith ==
    ASSUME NEW x \in AGame, NEW tries \in Int, NEW turn \in Number0
    PROVE  \A y \in {[x EXCEPT !.tries = tries, !.started = TRUE], [x EXCEPT !.turn = turn],
                     [x EXCEPT !.over = TRUE]} :
              /\ y \in AGame /\ y.player1 = x.player1 /\ y.player2 = x.player2
              /\ x.over => y.over
<1>1. ASSUME NEW y, y = [x EXCEPT !.turn = turn] \/ y = [x EXCEPT !.over = TRUE]
      PROVE  /\ y \in AGame /\ y.player1 = x.player1 /\ y.player2 = x.player2
             /\ x.over => y.over
  BY <1>1 DEF AGame
<1> DEFINE z == [x EXCEPT !.tries = tries]
<1>2. /\ z \in AGame /\ z.player1 = x.player1 /\ z.player2 = x.player2
      /\ z.over = x.over
  BY DEF AGame
<1>3. [x EXCEPT !.tries = tries, !.started = TRUE] = [z EXCEPT !.started = TRUE]
  OBVIOUS
<1> HIDE DEF z
<1>4. LET y == [z EXCEPT !.started = TRUE]
      IN  /\ y \in AGame /\ y.player1 = z.player1 /\ y.player2 = z.player2
          /\ z.over => y.over
  BY <1>2 DEF AGame
<1> QED BY <1>1, <1>2, <1>3, <1>4

\* A session that is given a packet.
LEMMA GivenPacket ==
    ASSUME NEW k \in Session, k.sent <= Len(k.out), NEW p \in Packet
    PROVE  LET l == [k EXCEPT !.out = Append(k.out, p)]
           IN  /\ l \in Session /\ l.up = k.up /\ l.id = k.id
               /\ l.sent <= Len(l.out)
  BY DEF Session

\* The kinds of packets.
LEMMA PacketKinds ==
    /\ Ok \in Packet /\ GameStart \in Packet /\ MyTurn \in Packet /\ NextGame \in Packet
    /\ \A e \in {"ET_UNKNOWN", "ET_INVALID_MAP"} : ErrorPacket(e) \in Packet
    /\ \A c \in Cell, mine \in BOOLEAN, result \in Result : Attacked(c, mine, result) \in Packet
    /\ \A won \in BOOLEAN, turns \in Int : GameOver(won, turns) \in Packet
    /\ \A wins, turns \in Int : AllOver(wins, turns) \in Packet
  BY DEF Packet, Ok, GameStart, MyTurn, NextGame, ErrorPacket, Attacked, GameOver, AllOver

\* Two states of the server with the same lists, but for what is sent: the
\* properties of the lists pass from one to the other.
Sent(s, t) ==
    /\ Server(t) /\ t.players = s.players /\ t.games = s.games /\ Links(t)
    /\ \A c \in Client : t.link[c].up = s.link[c].up /\ t.link[c].id = s.link[c].id

LEMMA SentKeeps ==
    ASSUME NEW s, NEW D, NEW t, Lists(s, D), Sent(s, t)
    PROVE  Lists(t, D)
<1>1. Players(t) /\ Games(t)
  BY DEF Lists, Sent, Players, Games
<1>2. Present(t)
  BY DEF Lists, Sent, Present
<1>3. Apart(t) /\ Engaged(t)
  BY DEF Lists, Sent, Apart, Engaged, PlayersOf, HasPlayer
<1>4. Down(t, D)
  BY DEF Lists, Sent, Down
<1> QED BY <1>1, <1>2, <1>3, <1>4 DEF Lists, Sent

\* Sending changes what is sent and nothing else.
LEMMA SendOnly ==
    ASSUME NEW s, Server(s), Links(s), NEW N, NEW packets \in [N -> Packet]
    PROVE  Sent(s, Send(s, packets))
<1> DEFINE t == Send(s, packets)
<1>1. /\ Server(t) /\ t.players = s.players /\ t.games = s.games
      /\ t.link = [c \in Client |->
            IF s.link[c].up /\ s.link[c].id \in DOMAIN packets
              THEN [s.link[c] EXCEPT !.out = Append(s.link[c].out, packets[s.link[c].id])]
              ELSE s.link[c]]
  BY SendFields
<1> HIDE DEF t
<1>2. ASSUME NEW c \in Client
      PROVE  /\ t.link[c] \in Session /\ t.link[c].sent <= Len(t.link[c].out)
             /\ t.link[c].up = s.link[c].up /\ t.link[c].id = s.link[c].id
  <2>1. s.link[c] \in Session /\ s.link[c].sent <= Len(s.link[c].out)
    BY DEF Links
  <2>2. CASE s.link[c].up /\ s.link[c].id \in DOMAIN packets
    <3>1. packets[s.link[c].id] \in Packet
      BY <2>2
    <3>2. t.link[c] = [s.link[c] EXCEPT !.out = Append(s.link[c].out, packets[s.link[c].id])]
      BY <1>1, <2>2
    <3> QED BY <2>1, <3>1, <3>2, GivenPacket
  <2>3. CASE ~(s.link[c].up /\ s.link[c].id \in DOMAIN packets)
    <3>1. t.link[c] = s.link[c]
      BY <1>1, <2>3
    <3> QED BY <2>1, <3>1
  <2> QED BY <2>2, <2>3
<1>3. t.link \in [Client -> Session]
  BY <1>1, <1>2
<1>4. Links(t)
  BY <1>2, <1>3 DEF Links
<1>5. Sent(s, t)
  BY <1>1, <1>2, <1>4 DEF Sent
<1> QED BY <1>5 DEF t

LEMMA SendKeeps ==
    ASSUME NEW s, NEW D, Lists(s, D), NEW N, NEW packets \in [N -> Packet]
    PROVE  LET t == Send(s, packets)
           IN  Lists(t, D) /\ t.players = s.players /\ t.games = s.games
<1>1. Sent(s, Send(s, packets))
  BY SendOnly DEF Lists
<1>2. Lists(Send(s, packets), D)
  BY <1>1, SentKeeps
<1> QED BY <1>1, <1>2 DEF Sent

\* One packet for one player.
Note(n, p) == [m \in {n} |-> p]

LEMMA NotifyKeeps ==
    ASSUME NEW s, NEW D, Lists(s, D), NEW n, NEW p \in Packet
    PROVE  LET t == Send(s, Note(n, p))
           IN  Lists(t, D) /\ t.players = s.players /\ t.games = s.games
<1>1. Note(n, p) \in [{n} -> Packet]
  BY DEF Note
<1> QED BY <1>1, SendKeeps

\* A player of the list changes, and does not go back to waiting.
LEMMA SetPlayerKeeps ==
    ASSUME NEW s, NEW D, Lists(s, D), NEW n, HasPlayer(s, n), NEW p \in APlayer,
           p.state = "WAIT" => s.players[n].state = "WAIT"
    PROVE  LET t == SetPlayer(s, n, p)
           IN  /\ Lists(t, D) /\ t.games = s.games /\ DOMAIN t.players = DOMAIN s.players
               /\ t.players[n] = p
               /\ \A m \in DOMAIN s.players : m # n => t.players[m] = s.players[m]
<1> DEFINE t == SetPlayer(s, n, p)
<1>1. /\ Server(t) /\ t.link = s.link /\ t.games = s.games
      /\ t.players = [m \in DOMAIN s.players \cup {n} |-> IF m = n THEN p ELSE s.players[m]]
  BY SetPlayerFields DEF Lists
<1> HIDE DEF t
<1>2. /\ DOMAIN t.players = DOMAIN s.players /\ t.players[n] = p
      /\ \A m \in DOMAIN s.players : m # n => t.players[m] = s.players[m]
  BY <1>1 DEF HasPlayer
<1>3. Players(t)
  BY <1>1, <1>2 DEF Lists, Players
<1>4. Links(t) /\ Games(t) /\ Present(t)
  <2>1. Links(t) /\ Games(t)
    BY <1>1 DEF Lists, Links, Games
  <2>2. Present(t)
    BY <1>1, <1>2 DEF Lists, Present
  <2> QED BY <2>1, <2>2
<1>5. Apart(t) /\ Engaged(t)
  <2>1. Apart(t)
    BY <1>1 DEF Lists, Apart
  <2>2. \A m \in DOMAIN t.players : t.players[m].state = "WAIT" => s.players[m].state = "WAIT"
    BY <1>2
  <2>3. Engaged(t)
    BY <1>1, <1>2, <2>2 DEF Lists, Engaged, HasPlayer
  <2> QED BY <2>1, <2>3
<1>6. Lists(t, D)
  <2>1. Down(t, D)
    BY <1>1 DEF Lists, Down
  <2> QED BY <1>1, <1>3, <1>4, <1>5, <2>1 DEF Lists
<1> QED BY <1>1, <1>2, <1>6 DEF t

\* A game of the list changes, keeps its players and, once over, stays over.
LEMMA SetGameKeeps ==
    ASSUME NEW s, NEW D, Lists(s, D), NEW g \in DOMAIN s.games, NEW x \in AGame,
           x.player1 = s.games[g].player1, x.player2 = s.games[g].player2,
           s.games[g].over => x.over
    PROVE  LET t == SetGame(s, g, x)
           IN  /\ Lists(t, D) /\ t.players = s.players /\ DOMAIN t.games = DOMAIN s.games
               /\ t.games[g] = x
<1> DEFINE t == SetGame(s, g, x)
<1>1. /\ Server(t) /\ t.link = s.link /\ t.players = s.players
      /\ t.games = [h \in DOMAIN s.games \cup {g} |-> IF h = g THEN x ELSE s.games[h]]
  <2>1. Server(s)
    BY DEF Lists
  <2> QED BY <2>1, SetGameFields
<1> HIDE DEF t
<1>2. /\ DOMAIN t.games = DOMAIN s.games /\ t.games[g] = x
      /\ \A h \in DOMAIN s.games : h # g => t.games[h] = s.games[h]
  BY <1>1
<1>3. Games(t)
  BY <1>1, <1>2 DEF Lists, Games
<1>4. Links(t) /\ Players(t) /\ Present(t)
  BY <1>1 DEF Lists, Links, Players, Present
<1>5. \A h \in DOMAIN s.games : /\ t.games[h].player1 = s.games[h].player1
                                /\ t.games[h].player2 = s.games[h].player2
                                /\ s.games[h].over => t.games[h].over
  BY <1>2
<1>6. Apart(t) /\ Engaged(t)
  BY <1>1, <1>2, <1>5 DEF Lists, Apart, Engaged, PlayersOf, HasPlayer
<1>7. Lists(t, D)
  <2>1. Down(t, D)
    BY <1>1 DEF Lists, Down
  <2> QED BY <1>1, <1>3, <1>4, <1>6, <2>1 DEF Lists
<1> QED BY <1>1, <1>2, <1>7 DEF t

------------------------------------------------------------------------------
(* Game's handlers. *)

LEMMA BeginGameKeeps ==
    ASSUME NEW s, NEW D, Lists(s, D), NEW g \in DOMAIN s.games
    PROVE  Lists(BeginGame(s, g), D)
<1> DEFINE game == s.games[g]
           x == [game EXCEPT !.tries = game.tries + 1, !.started = TRUE]
           t == SetGame(s, g, x)
           f == [n \in DOMAIN s.players |->
                   IF n \in PlayersOf(game)
                     THEN [s.players[n] EXCEPT !.turns = 0, !.state = "WAIT_MAP"]
                     ELSE s.players[n]]
           u == [t EXCEPT !.players = f]
<1>0. game \in AGame
  BY DEF Lists, Games
<1>1. /\ x \in AGame /\ x.player1 = game.player1 /\ x.player2 = game.player2
      /\ game.over => x.over
  <2> HIDE DEF game
  <2>1. game.tries + 1 \in Int
    BY <1>0 DEF AGame
  <2>2. None \in Number0
    BY DEF Number0
  <2> QED BY <1>0, <2>1, <2>2, GameWith
<1>2. Lists(t, D) /\ t.players = s.players
  <2> HIDE DEF x
  <2> QED BY <1>1, SetGameKeeps
<1> HIDE DEF x, t
<1>3. Server(u) /\ u.link = t.link /\ u.games = t.games /\ u.players = f
  <2> HIDE DEF f
  <2> QED BY <1>2, PlayersField DEF Lists
<1> HIDE DEF u
<1>4. \A n \in DOMAIN s.players : s.players[n] \in APlayer
  BY DEF Lists, Players
<1>5. \A n \in DOMAIN s.players :
         u.players[n] \in APlayer /\ (u.players[n].state = "WAIT" => s.players[n].state = "WAIT")
  <2> TAKE n \in DOMAIN s.players
  <2>1. s.players[n] \in APlayer
    BY <1>4
  <2>2. CASE n \in PlayersOf(game)
    <3>1. u.players[n] = [s.players[n] EXCEPT !.turns = 0, !.state = "WAIT_MAP"]
      BY <1>3, <2>2
    <3> QED BY <2>1, <3>1, PlayerBegins
  <2>3. CASE n \notin PlayersOf(game)
    <3>1. u.players[n] = s.players[n]
      BY <1>3, <2>3
    <3> QED BY <2>1, <3>1
  <2> QED BY <2>2, <2>3
<1>6. Players(u) /\ DOMAIN u.players = DOMAIN s.players
  BY <1>2, <1>3, <1>5 DEF Lists, Players
<1>7. Links(u) /\ Games(u) /\ Present(u) /\ Apart(u)
  <2>1. Links(u) /\ Games(u)
    BY <1>2, <1>3 DEF Lists, Links, Games
  <2>2. Present(u)
    BY <1>2, <1>3, <1>6 DEF Lists, Present
  <2>3. Apart(u)
    BY <1>2, <1>3 DEF Lists, Apart
  <2> QED BY <2>1, <2>2, <2>3
<1>8. Engaged(u)
  BY <1>2, <1>3, <1>5, <1>6 DEF Lists, Engaged, HasPlayer
<1>9. Lists(u, D)
  <2>1. Down(u, D)
    BY <1>2, <1>3 DEF Lists, Down
  <2> QED BY <1>3, <1>6, <1>7, <1>8, <2>1 DEF Lists
<1>10. BeginGame(s, g) \in {t, u}
  BY DEF BeginGame, t, u, x
<1> QED BY <1>2, <1>9, <1>10

LEMMA OnNextGameKeeps ==
    ASSUME NEW s, NEW D, Lists(s, D), NEW g \in DOMAIN s.games
    PROVE  Lists(OnNextGame(s, g), D)
<1> DEFINE packets == [n \in PlayersOf(s.games[g]) |-> NextGame]
<1>1. packets \in [PlayersOf(s.games[g]) -> Packet]
  BY PacketKinds
<1> HIDE DEF packets
<1>2. Lists(Send(s, packets), D) /\ Send(s, packets).games = s.games
  BY <1>1, SendKeeps
<1>3. Lists(BeginGame(Send(s, packets), g), D)
  BY <1>2, BeginGameKeeps
<1> QED BY <1>3 DEF OnNextGame, packets

LEMMA OnAllOverKeeps ==
    ASSUME NEW s, NEW D, Lists(s, D), NEW g \in DOMAIN s.games
    PROVE  LET t == OnAllOver(s, g)
           IN  Lists(t, D) /\ t.players = s.players /\ t.games = s.games
<1> DEFINE N == {m \in PlayersOf(s.games[g]) : HasPlayer(s, m)}
           packets == [n \in N |-> AllOver(s.players[n].wins, s.players[n].winTurns)]
<1>1. \A n \in N : s.players[n].wins \in Int /\ s.players[n].winTurns \in Int
  BY DEF Lists, Players, APlayer, HasPlayer
<1>2. packets \in [N -> Packet]
  <2> HIDE DEF N
  <2> QED BY <1>1, PacketKinds
<1> HIDE DEF packets
<1>3. LET t == Send(s, packets)
      IN  Lists(t, D) /\ t.players = s.players /\ t.games = s.games
  BY <1>2, SendKeeps
<1> QED BY <1>3 DEF OnAllOver, packets

LEMMA OnGameOverKeeps ==
    ASSUME NEW s, NEW D, Lists(s, D), NEW g \in DOMAIN s.games, NEW winner \in DOMAIN s.players
    PROVE  Lists(OnGameOver(s, g, winner), D)
<1> DEFINE game == s.games[g]
           packets == [n \in PlayersOf(game) |-> GameOver(n = winner, s.players[winner].turns)]
           t == Send(s, packets)
           x == [game EXCEPT !.over = TRUE]
<1>1. s.players[winner].turns \in Int
  BY DEF Lists, Players, APlayer
<1>2. packets \in [PlayersOf(game) -> Packet]
  <2>1. \A n \in PlayersOf(game) : (n = winner) \in BOOLEAN
    OBVIOUS
  <2> QED BY <1>1, <2>1, PacketKinds
<1> HIDE DEF packets
<1>3. Lists(t, D) /\ t.games = s.games
  BY <1>2, SendKeeps
<1> HIDE DEF t
<1>4. Lists(OnNextGame(t, g), D)
  BY <1>3, OnNextGameKeeps
<1>5. Lists(SetGame(OnAllOver(t, g), g, x), D)
  <2>1. Lists(OnAllOver(t, g), D) /\ OnAllOver(t, g).games = s.games
    BY <1>3, OnAllOverKeeps
  <2>2. game \in AGame
    BY DEF Lists, Games
  <2>3. /\ x \in AGame /\ x.player1 = game.player1 /\ x.player2 = game.player2
        /\ game.over => x.over
    <3> HIDE DEF game
    <3>1. 0 \in Int /\ None \in Number0
      BY DEF Number0
    <3> QED BY <2>2, <3>1, GameWith
  <2> HIDE DEF x
  <2> QED BY <2>1, <2>3, SetGameKeeps
<1>6. OnGameOver(s, g, winner) \in {OnNextGame(t, g), SetGame(OnAllOver(t, g), g, x)}
  BY DEF OnGameOver, t, packets
<1> QED BY <1>4, <1>5, <1>6

LEMMA GiveTurnKeeps ==
    ASSUME NEW s, NEW D, Lists(s, D), NEW g \in DOMAIN s.games, NEW n \in Number0
    PROVE  Lists(GiveTurn(s, g, n), D)
<1> DEFINE game == s.games[g]
           x == [game EXCEPT !.turn = n]
<1>1. game \in AGame
  BY DEF Lists, Games
<1>2. /\ x \in AGame /\ x.player1 = game.player1 /\ x.player2 = game.player2
      /\ game.over => x.over
  <2> HIDE DEF game
  <2>1. 0 \in Int
    OBVIOUS
  <2> QED BY <1>1, <2>1, GameWith
<1> HIDE DEF x
<1> DEFINE r == SetGame(s, g, x)
<1>3. Lists(r, D)
  BY <1>2, SetGameKeeps
<1> HIDE DEF r
<1>4. Lists(NotifyMyTurn(r, n), D)
  <2>1. MyTurn \in Packet /\ NotifyMyTurn(r, n) = Send(r, Note(n, MyTurn))
    BY PacketKinds DEF NotifyMyTurn, Note
  <2> QED BY <1>3, <2>1, NotifyKeeps
<1> QED BY <1>4 DEF GiveTurn, r, x

\* The other player of a game is one of its players.
LEMMA OpponentIsPlayer ==
    ASSUME NEW s, NEW D, Lists(s, D), NEW g \in DOMAIN s.games, NEW n
    PROVE  Opponent(s.games[g], n) \in Number0
  BY DEF Lists, Games, AGame, Opponent, Number0

\* What an attack answers, and the board it leaves.
LEMMA AttackTypes ==
    ASSUME NEW b \in ABoard, NEW c \in Cell
    PROVE  Attack(b, c) \in ABoard /\ AttackResult(b, c) \in Result
<1>1. Attack(b, c) \in ABoard
  BY DEF Attack, ABoard
<1>2. b.info[c] \in Ship \cup {Empty}
  BY DEF ABoard, Maps
<1>3. AttackResult(b, c) \in Result
  BY <1>2 DEF AttackResult, Result
<1> QED BY <1>1, <1>3

LEMMA OnSubmitAttackKeeps ==
    ASSUME NEW s, NEW D, Lists(s, D), NEW g \in DOMAIN s.games, NEW n, NEW c \in Cell
    PROVE  Lists(OnSubmitAttack(s, g, n, c), D)
<1> DEFINE game == s.games[g]
           o == Opponent(game, n)
           result == AttackResult(s.players[o].board, c)
           player == [s.players[n] EXCEPT !.turns = s.players[n].turns + 1]
           target == [s.players[o] EXCEPT !.board = Attack(s.players[o].board, c)]
           r1 == SetPlayer(s, n, player)
           r2 == SetPlayer(r1, o, target)
           s1 == NotifyOk(r2, n)
           s2 == Send(s1, [m \in {n} |-> Attacked(c, TRUE, result)])
           s3 == Send(s2, [m \in {o} |-> Attacked(c, FALSE, result)])
           winner == [player EXCEPT !.wins = player.wins + 1,
                                    !.winTurns = player.winTurns + player.turns]
<1>1. SUFFICES ASSUME HasPlayer(s, n), HasPlayer(s, o)
               PROVE  Lists(OnSubmitAttack(s, g, n, c), D)
  BY DEF OnSubmitAttack
<1>2. s.players[n] \in APlayer /\ s.players[o] \in APlayer
  BY <1>1 DEF Lists, Players, HasPlayer
<1>3. s.players[o].board \in ABoard /\ s.players[n].turns \in Int
  BY <1>2 DEF APlayer
<1>4. result \in Result /\ Attack(s.players[o].board, c) \in ABoard
  BY <1>3, AttackTypes
<1>5. player \in APlayer /\ player.state = s.players[n].state
  <2>1. s.players[n].turns + 1 \in Int
    BY <1>3
  <2> QED BY <1>2, <2>1, PlayerWith
<1>6. target \in APlayer /\ target.state = s.players[o].state
  BY <1>2, <1>4, PlayerWith
<1> HIDE DEF target, player, result, o
<1>7. /\ Lists(r1, D) /\ r1.games = s.games /\ DOMAIN r1.players = DOMAIN s.players
      /\ r1.players[n] = player
      /\ \A m \in DOMAIN s.players : m # n => r1.players[m] = s.players[m]
  BY <1>1, <1>5, SetPlayerKeeps
<1> HIDE DEF r1
<1>8. /\ Lists(r2, D) /\ r2.games = s.games /\ DOMAIN r2.players = DOMAIN s.players
      /\ r2.players[n].state = s.players[n].state
  <2>1. HasPlayer(r1, o) /\ r1.players[o].state = s.players[o].state
    <3>1. CASE o = n
      BY <1>1, <1>5, <1>7, <3>1 DEF HasPlayer
    <3>2. CASE o # n
      BY <1>1, <1>7, <3>2 DEF HasPlayer
    <3> QED BY <3>1, <3>2
  <2>2. /\ Lists(r2, D) /\ r2.games = r1.games /\ DOMAIN r2.players = DOMAIN r1.players
        /\ r2.players[o] = target
        /\ \A m \in DOMAIN r1.players : m # o => r2.players[m] = r1.players[m]
    BY <1>6, <1>7, <2>1, SetPlayerKeeps
  <2>3. r2.players[n].state = s.players[n].state
    BY <1>1, <1>5, <1>6, <1>7, <2>2 DEF HasPlayer
  <2> QED BY <1>7, <2>2, <2>3
<1> HIDE DEF r2
<1>9. Lists(s1, D) /\ s1.games = s.games /\ s1.players = r2.players
  <2>1. Ok \in Packet /\ s1 = Send(r2, Note(n, Ok))
    BY PacketKinds DEF NotifyOk, Note
  <2> HIDE DEF s1
  <2> QED BY <1>8, <2>1, NotifyKeeps
<1> HIDE DEF s1
<1>10. Lists(s2, D) /\ s2.games = s.games /\ s2.players = r2.players
  <2>1. /\ Attacked(c, TRUE, result) \in Packet
        /\ s2 = Send(s1, Note(n, Attacked(c, TRUE, result)))
    BY <1>4, PacketKinds DEF Note
  <2> HIDE DEF s2
  <2> QED BY <1>9, <2>1, NotifyKeeps
<1> HIDE DEF s2
<1>11. Lists(s3, D) /\ s3.games = s.games /\ s3.players = r2.players
  <2>1. /\ Attacked(c, FALSE, result) \in Packet
        /\ s3 = Send(s2, Note(o, Attacked(c, FALSE, result)))
    BY <1>4, PacketKinds DEF Note
  <2> HIDE DEF s3
  <2> QED BY <1>10, <2>1, NotifyKeeps
<1> HIDE DEF s3
<1>12. Lists(OnGameOver(SetPlayer(s3, n, winner), g, n), D)
  <2> DEFINE w == [player EXCEPT !.wins = player.wins + 1]
  <2>1. player.wins + 1 \in Int /\ player.winTurns + player.turns \in Int
    BY <1>5 DEF APlayer
  <2>2. w \in APlayer /\ w.state = player.state
    BY <1>5, <2>1, PlayerWith
  <2>3. winner = [w EXCEPT !.winTurns = player.winTurns + player.turns]
    OBVIOUS
  <2> HIDE DEF w, winner
  <2>4. winner \in APlayer /\ winner.state = player.state
    BY <2>1, <2>2, <2>3, PlayerWith
  <2>5. HasPlayer(s3, n) /\ s3.players[n].state = s.players[n].state
    BY <1>1, <1>8, <1>11 DEF HasPlayer
  <2>6. LET t == SetPlayer(s3, n, winner)
        IN  Lists(t, D) /\ t.games = s.games /\ n \in DOMAIN t.players
    BY <1>5, <1>11, <2>4, <2>5, SetPlayerKeeps DEF HasPlayer
  <2> QED BY <2>6, OnGameOverKeeps
<1>13. Lists(GiveTurn(s3, g, Opponent(game, game.turn)), D)
  <2>1. Opponent(game, game.turn) \in Number0
    BY OpponentIsPlayer
  <2> QED BY <1>11, <2>1, GiveTurnKeeps
<1>14. OnSubmitAttack(s, g, n, c) \in {OnGameOver(SetPlayer(s3, n, winner), g, n),
                                      GiveTurn(s3, g, Opponent(game, game.turn))}
  BY <1>1 DEF OnSubmitAttack, s3, s2, s1, r2, r1, target, player, result, o, winner
<1> QED BY <1>12, <1>13, <1>14

LEMMA OnSubmitMapKeeps ==
    ASSUME NEW s, NEW D, Lists(s, D), NEW g \in DOMAIN s.games, NEW n, NEW info \in Maps
    PROVE  Lists(OnSubmitMap(s, g, n, info), D)
<1> DEFINE game == s.games[g]
           o == Opponent(game, n)
           player == [s.players[n] EXCEPT !.board = SetMap(info), !.state = "ON_GAME"]
           r == SetPlayer(s, n, player)
           t == NotifyOk(r, n)
<1>1. SUFFICES ASSUME HasPlayer(s, n), HasPlayer(s, o)
               PROVE  Lists(OnSubmitMap(s, g, n, info), D)
  BY DEF OnSubmitMap
<1>2. s.players[n] \in APlayer
  BY <1>1 DEF Lists, Players, HasPlayer
<1>3. player \in APlayer /\ player.state = "ON_GAME"
  <2> DEFINE q == [s.players[n] EXCEPT !.board = SetMap(info)]
  <2>1. SetMap(info) \in ABoard
    BY DEF SetMap, ABoard
  <2>2. q \in APlayer
    BY <1>2, <2>1, PlayerWith
  <2>3. player = [q EXCEPT !.state = "ON_GAME"]
    OBVIOUS
  <2> HIDE DEF q, player
  <2> QED BY <2>1, <2>2, <2>3, PlayerWith
<1> HIDE DEF player
<1>4. Lists(r, D) /\ r.games = s.games
  BY <1>1, <1>3, SetPlayerKeeps
<1> HIDE DEF r
<1>5. Lists(t, D) /\ t.games = s.games
  <2>1. Ok \in Packet /\ t = Send(r, Note(n, Ok))
    BY PacketKinds DEF NotifyOk, Note
  <2> HIDE DEF t
  <2> QED BY <1>4, <2>1, NotifyKeeps
<1> HIDE DEF t
<1>6. Lists(GiveTurn(t, g, game.player2), D)
  <2>1. game.player2 \in Number0
    BY DEF Lists, Games, AGame, Number0
  <2> QED BY <1>5, <2>1, GiveTurnKeeps
<1>7. OnSubmitMap(s, g, n, info) \in {t, GiveTurn(t, g, game.player2)}
  BY <1>1 DEF OnSubmitMap, t, r, player
<1> QED BY <1>5, <1>6, <1>7

------------------------------------------------------------------------------
(* The handlers of a session's packets. *)

\* A game is found for a player exactly if one has it.
LEMMA GameOfFound ==
    ASSUME NEW s, Games(s), NEW n
    PROVE  /\ GameOf(s, n) # None =>
                 GameOf(s, n) \in DOMAIN s.games /\ n \in PlayersOf(s.games[GameOf(s, n)])
           /\ GameOf(s, n) = None => \A g \in DOMAIN s.games : n \notin PlayersOf(s.games[g])
<1>1. None \notin DOMAIN s.games
  BY DEF Games, GameNumber, None
<1>2. \A g \in GamesOf(s, n) : g \in DOMAIN s.games /\ n \in PlayersOf(s.games[g])
  BY DEF GamesOf
<1>3. CASE GamesOf(s, n) = {}
  BY <1>3 DEF GameOf, GamesOf
<1>4. CASE GamesOf(s, n) # {}
  <2>1. GameOf(s, n) \in GamesOf(s, n)
    BY <1>4 DEF GameOf
  <2> QED BY <1>1, <1>2, <2>1
<1> QED BY <1>3, <1>4

\* A player that comes into the list has a session, and was in no live game.
LEMMA HandleSubmitNameKeeps ==
    ASSUME NEW s, NEW D, Lists(s, D), NEW c \in Client, s.link[c].up
    PROVE  Lists(HandleSubmitName(s, c), D)
<1> DEFINE n == s.link[c].id
           r == IF HasPlayer(s, n) THEN s ELSE SetPlayer(s, n, NewPlayer)
<1>1. n \in PlayerNumber
  BY DEF Lists, Links
<1>2. Lists(r, D)
  <2>1. CASE HasPlayer(s, n)
    BY <2>1
  <2>2. CASE ~HasPlayer(s, n)
    <3> DEFINE t == SetPlayer(s, n, NewPlayer)
    <3>1. /\ Server(t) /\ t.link = s.link /\ t.games = s.games
          /\ t.players = [m \in DOMAIN s.players \cup {n} |->
                            IF m = n THEN NewPlayer ELSE s.players[m]]
      BY SetPlayerFields DEF Lists
    <3>2. r = t
      BY <2>2
    <3> HIDE DEF t, n
    <3>3. NewPlayer \in APlayer
      <4>1. NoMap \in ABoard
        BY DEF NoMap, ABoard, Maps
      <4> HIDE DEF n
      <4> QED BY <4>1 DEF NewPlayer, APlayer
    <3>4. /\ DOMAIN t.players = DOMAIN s.players \cup {n} /\ t.players[n] = NewPlayer
          /\ \A m \in DOMAIN s.players : m # n => t.players[m] = s.players[m]
      BY <3>1
    <3>5. Players(t)
      BY <1>1, <3>1, <3>3, <3>4 DEF Lists, Players
    <3>6. Links(t) /\ Games(t) /\ Apart(t)
      <4>1. Links(t) /\ Games(t)
        BY <3>1 DEF Lists, Links, Games
      <4>2. Apart(t)
        BY <3>1 DEF Lists, Apart
      <4> QED BY <4>1, <4>2
    <3>7. Present(t)
      <4>1. s.link[c].up /\ s.link[c].id = n
        BY DEF n
      <4> QED BY <3>1, <3>4, <4>1 DEF Lists, Present
    <3>8. Engaged(t)
      BY <2>2, <3>1, <3>4 DEF Lists, Engaged, HasPlayer
    <3>9. Down(t, D)
      BY <3>1 DEF Lists, Down
    <3> QED BY <3>1, <3>2, <3>5, <3>6, <3>7, <3>8, <3>9 DEF Lists
  <2> QED BY <2>1, <2>2
<1> HIDE DEF r
<1>3. Ok \in Packet /\ HandleSubmitName(s, c) = Send(r, Note(n, Ok))
  BY PacketKinds DEF HandleSubmitName, NotifyOk, Note, r
<1> QED BY <1>2, <1>3, NotifyKeeps

LEMMA HandleSubmitMapKeeps ==
    ASSUME NEW s, NEW D, Lists(s, D), NEW c \in Client, NEW info \in Maps
    PROVE  Lists(HandleSubmitMap(s, c, info), D)
<1> DEFINE n == s.link[c].id
           e == ErrorPacket("ET_INVALID_MAP")
           t == [s EXCEPT !.link[c].out = Append(@, e)]
<1>1. GameOf(s, n) # None => Lists(OnSubmitMap(s, GameOf(s, n), n, info), D)
  BY GameOfFound, OnSubmitMapKeeps DEF Lists
<1>2. Lists(t, D)
  <2>1. e \in Packet
    BY PacketKinds
  <2> DEFINE k == s.link[c]
             l == [k EXCEPT !.out = Append(k.out, e)]
  <2>2. k \in Session /\ k.sent <= Len(k.out) /\ (k.up => k.id \in PlayerNumber)
    BY DEF Lists, Links
  <2>3. l \in Session /\ l.up = k.up /\ l.id = k.id /\ l.sent <= Len(l.out)
    <3> HIDE DEF k, e
    <3> QED BY <2>1, <2>2, GivenPacket
  <2>4. /\ Server(t) /\ t.players = s.players /\ t.games = s.games
        /\ t.link = [s.link EXCEPT ![c] = l]
    <3> DEFINE f == [s.link EXCEPT ![c] = l]
    <3>1. t = [s EXCEPT !.link = f]
      OBVIOUS
    <3> HIDE DEF f, t
    <3>2. /\ Server(t) /\ t.players = s.players /\ t.games = s.games /\ t.link = f
      BY <3>1, LinkField DEF Lists
    <3> QED BY <3>2 DEF f
  <2> HIDE DEF t, l
  <2>5. Links(t)
    BY <2>2, <2>3, <2>4 DEF Lists, Links
  <2>6. Sent(s, t)
    BY <2>3, <2>4, <2>5 DEF Sent, Lists, Links
  <2> QED BY <2>6, SentKeeps
<1>3. \/ HandleSubmitMap(s, c, info) = s
      \/ HandleSubmitMap(s, c, info) = t
      \/ /\ GameOf(s, n) # None
         /\ HandleSubmitMap(s, c, info) = OnSubmitMap(s, GameOf(s, n), n, info)
  BY DEF HandleSubmitMap
<1> QED BY <1>1, <1>2, <1>3

LEMMA HandleSubmitAttackKeeps ==
    ASSUME NEW s, NEW D, Lists(s, D), NEW c \in Client, NEW cell \in Cell
    PROVE  Lists(HandleSubmitAttack(s, c, cell), D)
<1> DEFINE n == s.link[c].id
<1>1. GameOf(s, n) # None => Lists(OnSubmitAttack(s, GameOf(s, n), n, cell), D)
  BY GameOfFound, OnSubmitAttackKeeps DEF Lists
<1>2. \/ HandleSubmitAttack(s, c, cell) = s
      \/ /\ GameOf(s, n) # None
         /\ HandleSubmitAttack(s, c, cell) = OnSubmitAttack(s, GameOf(s, n), n, cell)
  BY DEF HandleSubmitAttack
<1> QED BY <1>1, <1>2

\* The player who goes leaves the list, and its one game is over.
LEMMA DisconnectKeeps ==
    ASSUME NEW s, NEW D, Lists(s, D), NEW c \in Client, s.link[c].up
    PROVE  Lists(CloseSession(s, c), D)
<1> DEFINE n == s.link[c].id
           l == [s.link[c] EXCEPT !.up = FALSE]
           r == [s EXCEPT !.link[c].up = FALSE]
           t == ErasePlayer(r, n)
<1>1. /\ Server(r) /\ r.players = s.players /\ r.games = s.games
      /\ r.link = [s.link EXCEPT ![c] = l]
  <2> DEFINE f == [s.link EXCEPT ![c] = l]
  <2>1. r = [s EXCEPT !.link = f]
    OBVIOUS
  <2> HIDE DEF f, r
  <2>2. /\ Server(r) /\ r.players = s.players /\ r.games = s.games /\ r.link = f
    BY <2>1, LinkField DEF Lists
  <2> QED BY <2>2 DEF f
<1>2. s.link[c] \in Session /\ s.link[c].sent <= Len(s.link[c].out)
  BY DEF Lists, Links
<1>3. l \in Session /\ ~l.up /\ l.sent <= Len(l.out)
  <2> DEFINE k == s.link[c]
  <2>1. k \in Session /\ k.sent <= Len(k.out)
    BY <1>2
  <2> HIDE DEF k
  <2>2. LET m == [k EXCEPT !.up = FALSE]
        IN  m \in Session /\ ~m.up /\ m.sent <= Len(m.out)
    BY <2>1 DEF Session
  <2> QED BY <2>2 DEF k
<1> HIDE DEF r, l
<1>4. /\ Server(t) /\ t.link = [s.link EXCEPT ![c] = l] /\ t.games = s.games
      /\ t.players = [m \in DOMAIN s.players \ {n} |-> s.players[m]]
  BY <1>1, ErasePlayerFields
<1> HIDE DEF t, n
<1>5. Links(t)
  <2>1. s.link \in [Client -> Session]
    BY DEF Lists, Links
  <2>2. t.link \in [Client -> Session]
    BY <1>3, <1>4, <2>1
  <2>3. \A d \in Client : t.link[d] = IF d = c THEN l ELSE s.link[d]
    BY <1>4, <2>1
  <2> QED BY <1>3, <2>2, <2>3 DEF Lists, Links
<1>6. \A d \in Client : /\ d # c => t.link[d] = s.link[d]
                        /\ d = c => ~t.link[d].up
  BY <1>3, <1>4 DEF Lists, Links
<1>7. Players(t) /\ Games(t) /\ Apart(t)
  <2>1. Players(t)
    BY <1>4 DEF Lists, Players
  <2>2. Games(t)
    BY <1>4 DEF Lists, Games
  <2>3. Apart(t)
    BY <1>4 DEF Lists, Apart
  <2> QED BY <2>1, <2>2, <2>3
<1>8. Present(t)
  <2> SUFFICES ASSUME NEW m \in DOMAIN t.players
               PROVE  \E d \in Client : t.link[d].up /\ t.link[d].id = m
    BY DEF Present
  <2>1. m \in DOMAIN s.players /\ m # n
    BY <1>4
  <2>2. PICK d \in Client : s.link[d].up /\ s.link[d].id = m
    BY <2>1 DEF Lists, Present
  <2>3. d # c
    BY <2>1, <2>2 DEF n
  <2> QED BY <1>6, <2>2, <2>3
<1>9. ASSUME NEW g \in DOMAIN s.games, ~s.games[g].over, n \notin PlayersOf(s.games[g])
      PROVE  \A m \in PlayersOf(t.games[g]) : HasPlayer(t, m) /\ t.players[m].state # "WAIT"
  BY <1>4, <1>9 DEF Lists, Engaged, HasPlayer
<1>13. Down(t, D)
  BY <1>6 DEF Lists, Down
<1>10. ASSUME GameOf(t, n) = None
       PROVE  Lists(t, D)
  <2>1. \A g \in DOMAIN s.games : n \notin PlayersOf(s.games[g])
    BY <1>4, <1>7, <1>10, GameOfFound
  <2>2. Engaged(t)
    BY <1>4, <1>9, <2>1 DEF Engaged
  <2> QED BY <1>4, <1>5, <1>7, <1>8, <1>13, <2>2 DEF Lists
<1>11. ASSUME GameOf(t, n) # None
       PROVE  Lists(OnOppositionLeft(t, GameOf(t, n), n), D)
  <2> DEFINE g == GameOf(t, n)
             game == t.games[g]
             x == [game EXCEPT !.over = TRUE]
             v == SetGame(t, g, x)
             o == Opponent(game, n)
  <2>1. g \in DOMAIN t.games /\ n \in PlayersOf(t.games[g])
    BY <1>7, <1>11, GameOfFound
  <2> HIDE DEF g
  <2>2. game \in AGame
    BY <1>7, <2>1 DEF Games
  <2>3. x \in AGame /\ x.player1 = game.player1 /\ x.player2 = game.player2 /\ x.over = TRUE
    <3> HIDE DEF game
    <3> QED BY <2>2 DEF AGame
  <2> HIDE DEF x
  <2>4. /\ Server(v) /\ v.link = t.link /\ v.players = t.players
        /\ v.games = [h \in DOMAIN t.games \cup {g} |-> IF h = g THEN x ELSE t.games[h]]
    BY <1>4, SetGameFields
  <2> HIDE DEF v
  <2>5. /\ DOMAIN v.games = DOMAIN t.games /\ v.games[g] = x
        /\ \A h \in DOMAIN t.games : h # g => v.games[h] = t.games[h]
    BY <2>1, <2>4
  <2>6. Links(v) /\ Players(v) /\ Present(v)
    <3>1. Links(v) /\ Players(v)
      BY <1>5, <1>7, <2>4 DEF Links, Players
    <3>2. Present(v)
      BY <1>8, <2>4 DEF Present
    <3> QED BY <3>1, <3>2
  <2>7. Games(v)
    BY <1>7, <2>3, <2>4, <2>5 DEF Games
  <2>8. Apart(v)
    <3>1. \A h \in DOMAIN t.games : /\ v.games[h].player1 = t.games[h].player1
                                    /\ v.games[h].player2 = t.games[h].player2
      BY <2>3, <2>5
    <3> QED BY <1>7, <2>5, <3>1 DEF Apart, PlayersOf
  <2>9. Engaged(v)
    <3> SUFFICES ASSUME NEW h \in DOMAIN v.games, ~v.games[h].over
                 PROVE  \A m \in PlayersOf(v.games[h]) :
                           HasPlayer(v, m) /\ v.players[m].state # "WAIT"
      BY DEF Engaged
    <3>1. h # g /\ v.games[h] = t.games[h]
      BY <2>3, <2>5
    <3>2. n \notin PlayersOf(t.games[h])
      BY <1>7, <2>1, <2>5, <3>1 DEF Apart
    <3>3. \A m \in PlayersOf(t.games[h]) : HasPlayer(t, m) /\ t.players[m].state # "WAIT"
      BY <1>4, <1>9, <2>5, <3>1, <3>2
    <3> QED BY <2>4, <3>1, <3>3 DEF HasPlayer
  <2>10. Lists(v, D)
    BY <1>13, <2>4, <2>6, <2>7, <2>8, <2>9 DEF Lists, Down
  <2>11. /\ ErrorPacket("ET_UNKNOWN") \in Packet
         /\ OnOppositionLeft(t, g, n) = Send(v, Note(o, ErrorPacket("ET_UNKNOWN")))
    BY PacketKinds DEF OnOppositionLeft, NotifyError, Note, v, x
  <2> HIDE DEF o
  <2>12. Lists(OnOppositionLeft(t, g, n), D)
    BY <2>10, <2>11, NotifyKeeps
  <2> QED BY <2>12 DEF g
<1>12. CloseSession(s, c) = IF GameOf(t, n) = None THEN t ELSE OnOppositionLeft(t, GameOf(t, n), n)
  BY DEF CloseSession, t, r, n
<1> QED BY <1>10, <1>11, <1>12

LEMMA HandleKeeps ==
    ASSUME NEW s, NEW D, Lists(s, D), NEW c \in Client, s.link[c].up,
           NEW p \in RequestPacket \ {Closed}
    PROVE  Lists(Handle(s, c, p), D)
<1>1. CASE p = SubmitName
  <2>1. Handle(s, c, p) = HandleSubmitName(s, c)
    BY <1>1 DEF Handle, SubmitName
  <2> QED BY <2>1, HandleSubmitNameKeeps
<1>2. ASSUME NEW info \in Maps, p = SubmitMap(info)
      PROVE  Lists(Handle(s, c, p), D)
  <2>1. Handle(s, c, p) = HandleSubmitMap(s, c, info)
    BY <1>2 DEF Handle, SubmitMap
  <2> QED BY <2>1, HandleSubmitMapKeeps
<1>3. ASSUME NEW cell \in Cell, p = SubmitAttack(cell)
      PROVE  Lists(Handle(s, c, p), D)
  <2>1. Handle(s, c, p) = HandleSubmitAttack(s, c, cell)
    BY <1>3 DEF Handle, SubmitAttack
  <2> QED BY <2>1, HandleSubmitAttackKeeps
<1> QED BY <1>1, <1>2, <1>3 DEF RequestPacket

------------------------------------------------------------------------------
(* The end of a pass. *)

LEMMA FlushedKeeps ==
    ASSUME NEW s, NEW D, Lists(s, D)
    PROVE  Lists(Flushed(s), D)
<1> DEFINE f == [c \in Client |->
                   IF s.link[c].up THEN [s.link[c] EXCEPT !.sent = Len(s.link[c].out)]
                                   ELSE s.link[c]]
           t == Flushed(s)
<1>1. Server(t) /\ t.link = f /\ t.players = s.players /\ t.games = s.games
  <2>1. t = [s EXCEPT !.link = f]
    BY DEF Flushed
  <2> HIDE DEF f, t
  <2> QED BY <2>1, LinkField DEF Lists
<1> HIDE DEF t
<1>2. ASSUME NEW c \in Client
      PROVE  /\ t.link[c] \in Session /\ t.link[c].sent <= Len(t.link[c].out)
             /\ t.link[c].up = s.link[c].up /\ t.link[c].id = s.link[c].id
  <2>1. s.link[c] \in Session /\ s.link[c].sent <= Len(s.link[c].out)
    BY DEF Lists, Links
  <2>2. ASSUME NEW k \in Session
        PROVE  LET l == [k EXCEPT !.sent = Len(k.out)]
               IN  l \in Session /\ l.sent <= Len(l.out) /\ l.up = k.up /\ l.id = k.id
    BY DEF Session
  <2>3. t.link[c] = s.link[c] \/ t.link[c] = [s.link[c] EXCEPT !.sent = Len(s.link[c].out)]
    BY <1>1
  <2> QED BY <2>1, <2>2, <2>3
<1>3. t.link \in [Client -> Session]
  BY <1>1, <1>2
<1>4. Links(t)
  BY <1>2, <1>3 DEF Lists, Links
<1>5. Sent(s, t)
  BY <1>1, <1>2, <1>4 DEF Sent
<1> QED BY <1>5, SentKeeps DEF t

\* No game is over.
AllLive(s) == \A g \in DOMAIN s.games : ~s.games[g].over

LEMMA RemoveKeeps ==
    ASSUME NEW s, NEW D, Lists(s, D)
    PROVE  Lists(RemoveOverGames(s), D) /\ AllLive(RemoveOverGames(s))
<1> DEFINE t == RemoveOverGames(s)
<1>1. /\ Server(t) /\ t.link = s.link /\ t.players = s.players
      /\ t.games = [g \in {h \in DOMAIN s.games : ~s.games[h].over} |-> s.games[g]]
  BY DEF Lists, Server, RemoveOverGames
<1> HIDE DEF t
<1>2. /\ DOMAIN t.games \subseteq DOMAIN s.games
      /\ \A g \in DOMAIN t.games : t.games[g] = s.games[g] /\ ~t.games[g].over
  BY <1>1
<1>3. Links(t) /\ Players(t) /\ Down(t, D)
  BY <1>1 DEF Lists, Links, Players, Down
<1>4. Games(t)
  BY <1>1, <1>2 DEF Lists, Games
<1>5. Present(t)
  BY <1>1 DEF Lists, Present
<1>6. Apart(t)
  BY <1>2 DEF Lists, Apart
<1>7. Engaged(t)
  BY <1>1, <1>2 DEF Lists, Engaged, HasPlayer
<1> QED BY <1>1, <1>2, <1>3, <1>4, <1>5, <1>6, <1>7 DEF Lists, AllLive, t

\* Every finite set of numbers has one increasing enumeration: the place of
\* each is the number of smaller ones.
LEMMA InKeyOrderExists ==
    ASSUME NEW S \in SUBSET Nat, IsFiniteSet(S)
    PROVE  LET n == Cardinality(S)
               q == InKeyOrder(S)
           IN  /\ n \in Nat /\ q \in [1 .. n -> S]
               /\ \A i, j \in 1 .. n : i < j => q[i] < q[j]
<1> DEFINE n == Cardinality(S)
           Below(o) == {p \in S : p < o}
           rank == [o \in S |-> Cardinality(Below(o)) + 1]
<1>0. \A o \in S : o \in Nat
  OBVIOUS
<1>1. n \in Nat
  BY FS_CardinalityType
<1>2. ASSUME NEW o \in S
      PROVE  /\ IsFiniteSet(Below(o)) /\ Cardinality(Below(o)) \in Nat
             /\ Cardinality(Below(o)) < n
  <2>1. Below(o) \in SUBSET S /\ Below(o) # S
    OBVIOUS
  <2> HIDE DEF Below
  <2>2. /\ IsFiniteSet(Below(o)) /\ Cardinality(Below(o)) \in Nat
        /\ Cardinality(Below(o)) <= n /\ Cardinality(Below(o)) # n
    BY <2>1, FS_Subset, FS_CardinalityType
  <2> QED BY <1>1, <2>2
<1>3. ASSUME NEW o \in S, NEW p \in S, o < p
      PROVE  rank[o] < rank[p]
  <2>1. Below(o) \in SUBSET Below(p) /\ o \in Below(p) /\ o \notin Below(o)
    <3>1. o \in Nat /\ p \in Nat
      BY <1>0
    <3>2. \A m \in S : m < o => m < p
      BY <1>0, <1>3, <3>1
    <3>3. ~(o < o)
      BY <3>1
    <3> QED BY <1>3, <3>2, <3>3
  <2>2. /\ Cardinality(Below(o)) <= Cardinality(Below(p))
        /\ Cardinality(Below(o)) # Cardinality(Below(p))
    <3> HIDE DEF Below
    <3> QED BY <1>2, <2>1, FS_Subset
  <2>3. rank[o] = Cardinality(Below(o)) + 1 /\ rank[p] = Cardinality(Below(p)) + 1
    OBVIOUS
  <2> HIDE DEF Below, rank
  <2> QED BY <1>2, <2>2, <2>3
<1>4. rank \in [S -> 1 .. n]
  <2> HIDE DEF Below, n
  <2> QED BY <1>1, <1>2
<1> HIDE DEF rank
<1>5. rank \in Bijection(S, 1 .. n)
  <2>1. rank \in Injection(S, 1 .. n)
    <3>1. ASSUME NEW o \in S, NEW p \in S, rank[o] = rank[p]
          PROVE  o = p
      <4>1. rank[o] \in Nat /\ rank[p] \in Nat
        BY <1>1, <1>4
      <4>2. ~(o < p) /\ ~(p < o)
        BY <1>3, <3>1, <4>1
      <4> QED BY <4>2
    <3> QED BY <1>4, <3>1, Fun_IsInj
  <2>2. IsFiniteSet(1 .. n) /\ Cardinality(1 .. n) = n
    BY <1>1, FS_Interval
  <2>3. rank \in Surjection(S, 1 .. n)
    BY <2>1, <2>2, FS_Injection
  <2> QED BY <2>1, <2>3, Fun_IsBij
<1>6. PICK q \in [1 .. n -> S] : \A i \in 1 .. n : rank[q[i]] = i
  <2>1. \A i \in 1 .. n : \E o \in S : rank[o] = i
    BY <1>5 DEF Bijection, Surjection
  <2> DEFINE r == [i \in 1 .. n |-> CHOOSE o \in S : rank[o] = i]
  <2>2. r \in [1 .. n -> S] /\ \A i \in 1 .. n : rank[r[i]] = i
    BY <2>1
  <2> QED BY <2>2
<1>7. ASSUME NEW i \in 1 .. n, NEW j \in 1 .. n, i < j
      PROVE  q[i] < q[j]
  <2>0. q[i] \in S /\ q[j] \in S /\ rank[q[i]] = i /\ rank[q[j]] = j
    BY <1>6
  <2>1. /\ q[i] \in S /\ q[j] \in S /\ q[i] \in Nat /\ q[j] \in Nat
        /\ rank[q[i]] = i /\ rank[q[j]] = j /\ q[i] # q[j]
    <3>1. i # j
      BY <1>1, <1>7
    <3> QED BY <1>0, <2>0, <3>1
  <2>2. ~(q[j] < q[i])
    <3> SUFFICES ASSUME q[j] < q[i] PROVE FALSE
      OBVIOUS
    <3>1. rank[q[j]] < rank[q[i]]
      BY <1>3, <2>1
    <3> QED BY <1>1, <1>7, <2>1, <3>1
  <2> QED BY <2>1, <2>2
<1>8. \E r \in [1 .. n -> S] : \A i, j \in 1 .. n : i < j => r[i] < r[j]
  BY <1>7
<1>9. InKeyOrder(S) = CHOOSE r \in [1 .. n -> S] : \A i, j \in 1 .. n : i < j => r[i] < r[j]
  BY DEF InKeyOrder
<1> HIDE DEF n
<1> QED BY <1>1, <1>8, <1>9 DEF n

------------------------------------------------------------------------------
(* AutoMatcher. *)

\* A set of numbers has a least one.
LEMMA LeastNumber ==
    ASSUME NEW T \in SUBSET Nat, T # {}
    PROVE  \E n \in T : \A m \in 0 .. n - 1 : m \notin T
<1>1. PICK n \in T : \A m \in T : <<m, n>> \notin OpToRel(<, Nat)
  BY NatLessThanWellFounded, WFMin, Zenon
<1>2. \A m \in T : ~(m < n)
  BY <1>1, Zenon DEF OpToRel
<1>3. n \in Nat
  OBVIOUS
<1> QED BY <1>2, <1>3

\* A game that waits for players, and the same with its players.
Waiting == [player1 |-> None, player2 |-> None, tries |-> 0, turn |-> None,
            started |-> FALSE, over |-> FALSE]
Given(n1, n2) == [Waiting EXCEPT !.player1 = n1, !.player2 = n2]
AnyGame == [player1 : Int, player2 : Int, tries : Int, turn : Number0,
            started : BOOLEAN, over : BOOLEAN]

\* There is a number for a new game while a player waits: each game has a first
\* player of its own, who does not wait.
LEMMA NewGameNumber ==
    ASSUME NEW s, NEW D, Lists(s, D), AllLive(s),
           NEW n \in DOMAIN s.players, s.players[n].state = "WAIT"
    PROVE  \E g \in GameNumber : g \notin DOMAIN s.games /\ NewGame(s) = SetGame(s, g, Waiting)
<1> DEFINE T == GameNumber \ DOMAIN s.games
           f == [g \in GameNumber |-> s.games[g].player1]
<1>1. \A g \in DOMAIN s.games : s.games[g].player1 \in PlayerNumber /\ s.games[g].player1 # n
  BY DEF Lists, Games, AGame, AllLive, Engaged, PlayersOf
<1>2. \A g, h \in DOMAIN s.games : s.games[g].player1 = s.games[h].player1 => g = h
  BY DEF Lists, Apart, PlayersOf
<1>3. T # {}
  <2> SUFFICES ASSUME T = {} PROVE FALSE
    OBVIOUS
  <2>1. DOMAIN s.games = GameNumber
    BY DEF Lists, Games
  <2>2. GameNumber = PlayerNumber /\ n \in PlayerNumber
    BY DEF GameNumber, PlayerNumber, Lists, Players
  <2>3. f \in [PlayerNumber -> PlayerNumber]
    BY <1>1, <2>1, <2>2
  <2>4. \A g, h \in PlayerNumber : f[g] = f[h] => g = h
    BY <1>2, <2>1, <2>2
  <2>5. \A g \in PlayerNumber : f[g] # n
    BY <1>1, <2>1, <2>2
  <2> HIDE DEF f
  <2>6. f \in Injection(PlayerNumber, PlayerNumber)
    BY <2>3, <2>4, Fun_IsInj
  <2>7. IsFiniteSet(PlayerNumber)
    <3>1. Cardinality(Client) \in Nat
      BY FS_CardinalityType
    <3> QED BY <3>1, FS_Interval DEF PlayerNumber
  <2>8. f \in Surjection(PlayerNumber, PlayerNumber)
    BY <2>6, <2>7, FS_Injection
  <2> QED BY <2>2, <2>5, <2>8 DEF Surjection
<1>4. PICK g \in T : \A h \in 0 .. g - 1 : h \notin T
  <2>1. T \in SUBSET Nat
    BY DEF GameNumber
  <2> HIDE DEF T
  <2> QED BY <1>3, <2>1, LeastNumber
<1>5. \E h \in GameNumber : h \notin DOMAIN s.games /\ \A i \in 0 .. h - 1 : i \in DOMAIN s.games
  <2>1. Cardinality(Client) \in Nat /\ g \in 0 .. Cardinality(Client) - 1
    BY FS_CardinalityType DEF GameNumber
  <2>2. \A h \in 0 .. g - 1 : h \in GameNumber
    BY <2>1 DEF GameNumber
  <2> QED BY <1>4, <2>2
<1> DEFINE new == CHOOSE h \in GameNumber :
                     h \notin DOMAIN s.games /\ \A i \in 0 .. h - 1 : i \in DOMAIN s.games
<1>6. new \in GameNumber /\ new \notin DOMAIN s.games
  BY <1>5
<1>7. NewGame(s) = SetGame(s, new, Waiting)
  BY DEF NewGame, Waiting
<1> HIDE DEF new
<1> QED BY <1>6, <1>7

\* The new game is the one that waits: every other has been started.  It has no
\* players to drop.
LEMMA OneWaits ==
    ASSUME NEW s, NEW D, Lists(s, D), NEW g \in GameNumber, g \notin DOMAIN s.games
    PROVE  LET t == SetGame(s, g, Waiting)
           IN  DropDisconnectedPlayers(t) = t /\ Head(WaitingGames(t)) = g
<1> DEFINE t == SetGame(s, g, Waiting)
           S == {h \in NotStarted(t) : ~IsFull(t, h)}
           q == InKeyOrder(S)
<1>1. /\ t.games = [h \in DOMAIN s.games \cup {g} |-> IF h = g THEN Waiting ELSE s.games[h]]
      /\ Server(t) /\ t.players = s.players
  BY SetGameFields DEF Lists
<1> HIDE DEF t
<1>2. \A h \in DOMAIN s.games : s.games[h].started
  BY DEF Lists, Games, AGame
<1>3. NotStarted(t) = {g} /\ t.games[g] = Waiting
  <2>1. ~Waiting.started
    BY DEF Waiting
  <2> QED BY <1>1, <1>2, <2>1 DEF NotStarted
<1>4. /\ t.players = [n \in DOMAIN t.players |-> t.players[n]]
      /\ None \notin DOMAIN t.players
  BY <1>1 DEF Lists, Players, PlayerNumber, None
<1>5. DropDisconnectedPlayers(t) = t
  <2> DEFINE games == [h \in DOMAIN t.games |->
                         IF t.games[h].started THEN t.games[h]
                         ELSE [t.games[h] EXCEPT !.player1 = None, !.player2 = None]]
             players == [n \in DOMAIN t.players |->
                           IF \E h \in NotStarted(t) : n = t.games[h].player2
                             THEN [t.players[n] EXCEPT !.state = "WAIT"] ELSE t.players[n]]
  <2>1. DropDisconnectedPlayers(t) = [t EXCEPT !.games = games, !.players = players]
    BY DEF DropDisconnectedPlayers
  <2>2. players = t.players
    <3>1. Waiting.player2 = None
      BY DEF Waiting
    <3>2. \A n \in DOMAIN t.players : ~\E h \in NotStarted(t) : n = t.games[h].player2
      BY <1>3, <1>4, <3>1
    <3> QED BY <1>4, <3>2
  <2>3. games = t.games
    <3>1. [Waiting EXCEPT !.player1 = None, !.player2 = None] = Waiting
      <4>1. Waiting = [i \in DOMAIN Waiting |-> Waiting[i]]
        BY DEF Waiting
      <4>2. Waiting.player1 = None /\ Waiting.player2 = None
        BY DEF Waiting
      <4> QED BY <4>1, <4>2
    <3>2. \A h \in DOMAIN t.games : h # g => t.games[h].started
      BY <1>3 DEF NotStarted
    <3>3. \A h \in DOMAIN t.games : games[h] = t.games[h]
      BY <1>3, <3>1, <3>2
    <3> QED BY <1>1, <3>3
  <2> HIDE DEF games, players
  <2>4. t = [link |-> t.link, players |-> t.players, games |-> t.games]
    BY <1>1 DEF Server
  <2> QED BY <2>1, <2>2, <2>3, <2>4
<1>6. S = {g}
  <2>1. Waiting.player1 = None
    BY DEF Waiting
  <2> QED BY <1>3, <1>4, <2>1 DEF IsFull, HasPlayer
<1>7. /\ IsFiniteSet(S) /\ Cardinality(S) = 1 /\ S \in SUBSET Nat
  <2> HIDE DEF S
  <2>1. IsFiniteSet(S) /\ Cardinality(S) = 1
    BY <1>6, FS_Singleton
  <2>2. g \in Nat
    BY FS_CardinalityType DEF GameNumber
  <2> QED BY <1>6, <2>1, <2>2
<1> HIDE DEF S
<1>8. q \in [1 .. 1 -> S]
  BY <1>7, InKeyOrderExists
<1> HIDE DEF q
<1>9. Head(q) = g
  BY <1>6, <1>8
<1> QED BY <1>5, <1>9 DEF WaitingGames, q, S, t

LEMMA MatchKeeps ==
    ASSUME NEW s, NEW D, Lists(s, D), AllLive(s),
           NEW n1 \in DOMAIN s.players, NEW n2 \in DOMAIN s.players, n1 # n2,
           s.players[n1].state = "WAIT", s.players[n2].state = "WAIT"
    PROVE  LET t == Match(s, n1, n2)
           IN  /\ Lists(t, D) /\ AllLive(t) /\ DOMAIN t.players = DOMAIN s.players
               /\ \A m \in DOMAIN s.players \ {n1, n2} : t.players[m] = s.players[m]
<1>1. PICK g \in GameNumber : g \notin DOMAIN s.games /\ NewGame(s) = SetGame(s, g, Waiting)
  BY NewGameNumber
<1> DEFINE r == SetGame(s, g, Waiting)
           u == SetGame(r, g, Given(n1, n2))
           packets == [n \in PlayersOf(u.games[g]) |-> GameStart]
           v == Send(u, packets)
           x == [Given(n1, n2) EXCEPT !.tries = 1, !.started = TRUE]
           y == SetGame(v, g, x)
           f == [n \in DOMAIN s.players |->
                   IF n \in {n1, n2} THEN [s.players[n] EXCEPT !.turns = 0, !.state = "WAIT_MAP"]
                                     ELSE s.players[n]]
           t == [y EXCEPT !.players = f]
<1>2. /\ Server(r) /\ r.link = s.link /\ r.players = s.players
      /\ r.games = [h \in DOMAIN s.games \cup {g} |-> IF h = g THEN Waiting ELSE s.games[h]]
  <2>1. Server(s)
    BY DEF Lists
  <2> QED BY <2>1, SetGameFields
<1>3. DropDisconnectedPlayers(r) = r /\ Head(WaitingGames(r)) = g
  BY <1>1, OneWaits
<1> HIDE DEF r
<1>4. /\ Server(u) /\ u.link = s.link /\ u.players = s.players
      /\ u.games = [h \in DOMAIN r.games \cup {g} |-> IF h = g THEN Given(n1, n2) ELSE r.games[h]]
  <2>1. /\ Server(u) /\ u.link = r.link /\ u.players = r.players
        /\ u.games = [h \in DOMAIN r.games \cup {g} |->
                        IF h = g THEN Given(n1, n2) ELSE r.games[h]]
    <3>1. Server(r)
      BY <1>2
    <3> DEFINE z == Given(n1, n2)
    <3> HIDE DEF z
    <3>2. LET w == SetGame(r, g, z)
          IN  /\ Server(w) /\ w.link = r.link /\ w.players = r.players
              /\ w.games = [h \in DOMAIN r.games \cup {g} |-> IF h = g THEN z ELSE r.games[h]]
      BY <3>1, SetGameFields
    <3> QED BY <3>2 DEF z
  <2> HIDE DEF u
  <2> QED BY <1>2, <2>1
<1>5. Match(s, n1, n2) = OnGameStart(u, g)
  <2>1. r.games[g] = Waiting
    BY <1>2
  <2>2. AddPlayers(r, g, n1, n2) = u
    BY <2>1 DEF AddPlayers, Given, Waiting
  <2> HIDE DEF u
  <2> QED BY <1>1, <1>3, <2>2 DEF Match, r
<1> HIDE DEF u
<1>6. /\ DOMAIN u.games = DOMAIN s.games \cup {g} /\ u.games[g] = Given(n1, n2)
      /\ \A h \in DOMAIN s.games : u.games[h] = s.games[h]
  BY <1>1, <1>2, <1>4
<1>7. PlayersOf(Given(n1, n2)) = {n1, n2}
  BY DEF PlayersOf, Given, Waiting
<1>8. Sent(u, v)
  <2>1. GameStart \in Packet
    BY PacketKinds
  <2>2. packets \in [PlayersOf(u.games[g]) -> Packet]
    BY <2>1
  <2> HIDE DEF packets
  <2>3. Links(u)
    BY <1>4 DEF Lists, Links
  <2> QED BY <1>4, <2>2, <2>3, SendOnly
<1> HIDE DEF v
<1>9. /\ Server(v) /\ v.players = s.players /\ v.games = u.games /\ Links(v)
      /\ \A c \in Client : v.link[c].up = s.link[c].up /\ v.link[c].id = s.link[c].id
  BY <1>4, <1>8 DEF Sent
<1>10. BeginGame(v, g) = t
  <2>1. v.games[g] = Given(n1, n2)
    BY <1>6, <1>9
  <2>2. Given(n1, n2).tries + 1 = 1
    BY DEF Given, Waiting
  <2>3. \A n \in PlayersOf(Given(n1, n2)) : HasPlayer(v, n)
    BY <1>7, <1>9 DEF HasPlayer
  <2> QED BY <1>7, <1>9, <2>1, <2>2, <2>3 DEF BeginGame
<1>11. OnGameStart(u, g) = t
  BY <1>10 DEF OnGameStart, v, packets
<1>12. /\ Server(y) /\ y.link = v.link /\ y.players = s.players
       /\ y.games = [h \in DOMAIN v.games \cup {g} |-> IF h = g THEN x ELSE v.games[h]]
  BY <1>9, SetGameFields
<1> HIDE DEF y
<1>13. Server(t) /\ t.link = v.link /\ t.games = y.games /\ t.players = f
  <2> HIDE DEF f
  <2> QED BY <1>12, PlayersField
<1> HIDE DEF t, x
<1>14. /\ DOMAIN t.games = DOMAIN s.games \cup {g} /\ t.games[g] = x
       /\ \A h \in DOMAIN s.games : t.games[h] = s.games[h]
  <2>1. /\ t.games = [h \in DOMAIN u.games \cup {g} |-> IF h = g THEN x ELSE u.games[h]]
    BY <1>9, <1>12, <1>13
  <2>2. DOMAIN t.games = DOMAIN s.games \cup {g} /\ t.games[g] = x
    BY <1>6, <2>1
  <2>3. \A h \in DOMAIN s.games : t.games[h] = s.games[h]
    BY <1>1, <1>6, <2>1
  <2> QED BY <2>2, <2>3
<1>15. n1 \in PlayerNumber /\ n2 \in PlayerNumber
  BY DEF Lists, Players
<1>16. /\ x \in AGame /\ x.player1 = n1 /\ x.player2 = n2 /\ ~x.over
  <2> DEFINE a == [Waiting EXCEPT !.player1 = n1]
             b == [a EXCEPT !.player2 = n2]
             d == [b EXCEPT !.tries = 1]
             e == [d EXCEPT !.started = TRUE]
  <2>0. None \in Number0 /\ n1 \in Int /\ n2 \in Int /\ None \in Int
    BY <1>15 DEF Number0, PlayerNumber, None
  <2>1. Waiting \in AnyGame /\ ~Waiting.over
    BY <2>0 DEF Waiting, AnyGame
  <2>2. a \in AnyGame /\ a.player1 = n1 /\ ~a.over
    BY <2>0, <2>1 DEF AnyGame
  <2>3. Given(n1, n2) = b
    BY DEF Given
  <2> HIDE DEF a
  <2>4. b \in AnyGame /\ b.player1 = n1 /\ b.player2 = n2 /\ ~b.over
    BY <2>0, <2>2 DEF AnyGame
  <2> HIDE DEF b
  <2>5. d \in AnyGame /\ d.player1 = n1 /\ d.player2 = n2 /\ ~d.over
    BY <2>4 DEF AnyGame
  <2>6. x = e
    BY <2>3 DEF x
  <2> HIDE DEF d
  <2>7. e \in AnyGame /\ e.player1 = n1 /\ e.player2 = n2 /\ ~e.over /\ e.started
    BY <2>5 DEF AnyGame
  <2> HIDE DEF e
  <2>8. e \in AGame
    BY <1>15, <2>7 DEF AnyGame, AGame
  <2> QED BY <2>6, <2>7, <2>8
<1>17. ASSUME NEW m \in DOMAIN s.players
       PROVE  /\ t.players[m] \in APlayer
              /\ m \in {n1, n2} => t.players[m].state = "WAIT_MAP"
              /\ m \notin {n1, n2} => t.players[m] = s.players[m]
  <2>1. s.players[m] \in APlayer
    BY DEF Lists, Players
  <2>2. CASE m \in {n1, n2}
    <3>1. t.players[m] = [s.players[m] EXCEPT !.turns = 0, !.state = "WAIT_MAP"]
      BY <1>13, <2>2
    <3> QED BY <2>1, <2>2, <3>1, PlayerBegins
  <2>3. CASE m \notin {n1, n2}
    <3>1. t.players[m] = s.players[m]
      BY <1>13, <2>3
    <3> QED BY <2>1, <2>3, <3>1
  <2> QED BY <2>2, <2>3
<1>18. DOMAIN t.players = DOMAIN s.players /\ Players(t)
  <2>1. DOMAIN t.players = DOMAIN s.players /\ t.players \in [DOMAIN s.players -> APlayer]
    BY <1>13, <1>17
  <2> QED BY <2>1 DEF Lists, Players
<1>19. Links(t) /\ Down(t, D)
  BY <1>9, <1>13 DEF Links, Lists, Down
<1>20. Games(t)
  <2>1. \A h \in DOMAIN t.games : t.games[h] \in AGame
    BY <1>14, <1>16 DEF Lists, Games
  <2>2. t.games \in [DOMAIN t.games -> AGame]
    BY <1>12, <1>13, <2>1
  <2> QED BY <1>14, <2>2 DEF Lists, Games
<1>21. Present(t)
  <2> SUFFICES ASSUME NEW m \in DOMAIN t.players
               PROVE  \E c \in Client : t.link[c].up /\ t.link[c].id = m
    BY DEF Present
  <2>1. PICK c \in Client : s.link[c].up /\ s.link[c].id = m
    BY <1>18 DEF Lists, Present
  <2> QED BY <1>9, <1>13, <2>1
<1>22. \A h \in DOMAIN s.games : /\ n1 \notin PlayersOf(s.games[h])
                                 /\ n2 \notin PlayersOf(s.games[h])
  BY DEF Lists, Engaged, AllLive
<1>23. Apart(t)
  <2>1. \A h \in DOMAIN t.games : t.games[h].player1 # t.games[h].player2
    BY <1>14, <1>16 DEF Lists, Apart
  <2>2. PlayersOf(x) = {n1, n2}
    BY <1>16 DEF PlayersOf
  <2>3. ASSUME NEW h \in DOMAIN t.games, NEW i \in DOMAIN t.games, h # i
        PROVE  PlayersOf(t.games[h]) \cap PlayersOf(t.games[i]) = {}
    <3>1. CASE h = g
      BY <1>14, <1>22, <2>2, <2>3, <3>1
    <3>2. CASE i = g
      BY <1>14, <1>22, <2>2, <2>3, <3>2
    <3>3. CASE h # g /\ i # g
      BY <1>14, <2>3, <3>3 DEF Lists, Apart
    <3> QED BY <3>1, <3>2, <3>3
  <2> QED BY <2>1, <2>3 DEF Apart
<1>24. Engaged(t)
  <2> SUFFICES ASSUME NEW h \in DOMAIN t.games, NEW m \in PlayersOf(t.games[h])
               PROVE  m \in DOMAIN t.players /\ t.players[m].state # "WAIT"
    BY DEF Engaged, HasPlayer
  <2>1. CASE h = g
    <3>1. m \in {n1, n2}
      BY <1>14, <1>16, <2>1 DEF PlayersOf
    <3> QED BY <1>17, <1>18, <3>1
  <2>2. CASE h # g
    <3>1. h \in DOMAIN s.games /\ m \in PlayersOf(s.games[h])
      BY <1>14, <2>2
    <3>2. m \in DOMAIN s.players /\ s.players[m].state # "WAIT"
      BY <3>1 DEF Lists, Engaged, AllLive, HasPlayer
    <3>3. m \notin {n1, n2}
      BY <1>22, <3>1
    <3> QED BY <1>17, <1>18, <3>2, <3>3
  <2> QED BY <2>1, <2>2
<1>25. AllLive(t)
  BY <1>14, <1>16 DEF AllLive
<1>26. Lists(t, D)
  BY <1>13, <1>18, <1>19, <1>20, <1>21, <1>23, <1>24 DEF Lists
<1>27. Match(s, n1, n2) = t
  BY <1>5, <1>11
<1> QED BY <1>17, <1>18, <1>25, <1>26, <1>27

\* f is the walk over the pairs of waiting players w that begins with s.
Walk(f, s, w, k) == f = [i \in 0 .. k |-> IF i = 0 THEN s
                                          ELSE Match(f[i - 1], w[2 * i - 1], w[2 * i])]

\* There is one: the shortest walk that there is not could be made of the one before.
LEMMA WalkExists ==
    ASSUME NEW s, NEW w, NEW k \in Nat
    PROVE  \E f : Walk(f, s, w, k)
<1> DEFINE T == {i \in Nat : ~\E f : Walk(f, s, w, i)}
<1>1. SUFFICES ASSUME T # {} PROVE FALSE
  OBVIOUS
<1>2. PICK i \in T : \A j \in 0 .. i - 1 : j \notin T
  <2>1. T \in SUBSET Nat
    OBVIOUS
  <2> HIDE DEF T
  <2> QED BY <1>1, <2>1, LeastNumber
<1>3. i \in Nat /\ ~\E f : Walk(f, s, w, i)
  OBVIOUS
<1>4. CASE i = 0
  <2> DEFINE f == [j \in 0 .. 0 |-> s]
  <2>1. f = [j \in 0 .. 0 |-> IF j = 0 THEN s ELSE Match(f[j - 1], w[2 * j - 1], w[2 * j])]
    OBVIOUS
  <2> HIDE DEF f
  <2> QED BY <1>3, <1>4, <2>1 DEF Walk
<1>5. CASE i # 0
  <2>1. i - 1 \in Nat /\ i - 1 \in 0 .. i - 1
    BY <1>3, <1>5
  <2>2. PICK f : Walk(f, s, w, i - 1)
    BY <1>2, <2>1
  <2> DEFINE last == Match(f[i - 1], w[2 * i - 1], w[2 * i])
             e == [j \in 0 .. i |-> IF j = i THEN last ELSE f[j]]
  <2>3. ASSUME NEW j \in 0 .. i
        PROVE  e[j] = IF j = 0 THEN s ELSE Match(e[j - 1], w[2 * j - 1], w[2 * j])
    <3>1. CASE j = 0
      <4>1. e[j] = f[j] /\ j \in 0 .. i - 1
        BY <1>3, <1>5, <3>1
      <4> QED BY <2>2, <3>1, <4>1 DEF Walk
    <3>2. CASE j # 0 /\ j < i
      <4>1. e[j] = f[j] /\ e[j - 1] = f[j - 1] /\ j \in 0 .. i - 1
        BY <1>3, <3>2
      <4>2. f[j] = Match(f[j - 1], w[2 * j - 1], w[2 * j])
        BY <2>2, <3>2, <4>1 DEF Walk
      <4> QED BY <3>2, <4>1, <4>2
    <3>3. CASE j = i
      <4>1. e[j] = last /\ e[j - 1] = f[i - 1]
        BY <1>3, <1>5, <3>3
      <4> QED BY <1>5, <3>3, <4>1
    <3>4. j = 0 \/ (j # 0 /\ j < i) \/ j = i
      BY <1>3
    <3> QED BY <3>1, <3>2, <3>3, <3>4
  <2>4. Walk(e, s, w, i)
    <3>1. e = [j \in 0 .. i |-> e[j]]
      OBVIOUS
    <3> HIDE DEF e
    <3> QED BY <2>3, <3>1 DEF Walk
  <2> QED BY <1>3, <2>4
<1> QED BY <1>4, <1>5

\* The state after i pairs: those that follow still wait.
LEMMA WalkKeeps ==
    ASSUME NEW s, NEW D, Lists(s, D), AllLive(s),
           NEW n \in Nat, NEW w \in [1 .. n -> DOMAIN s.players],
           \A i, j \in 1 .. n : i # j => w[i] # w[j],
           \A i \in 1 .. n : s.players[w[i]].state = "WAIT",
           NEW k \in Nat, 2 * k <= n, NEW f, Walk(f, s, w, k)
    PROVE  \A i \in 0 .. k :
              /\ Lists(f[i], D) /\ AllLive(f[i]) /\ DOMAIN f[i].players = DOMAIN s.players
              /\ \A j \in 2 * i + 1 .. n : f[i].players[w[j]] = s.players[w[j]]
<1> DEFINE P(i) == /\ Lists(f[i], D) /\ AllLive(f[i]) /\ DOMAIN f[i].players = DOMAIN s.players
                   /\ \A j \in 2 * i + 1 .. n : f[i].players[w[j]] = s.players[w[j]]
           T == {i \in 0 .. k : ~P(i)}
<1>1. SUFFICES ASSUME T # {} PROVE FALSE
  OBVIOUS
<1>2. PICK i \in T : \A j \in 0 .. i - 1 : j \notin T
  <2>1. T \in SUBSET Nat
    OBVIOUS
  <2> HIDE DEF T
  <2> QED BY <1>1, <2>1, LeastNumber
<1>3. i \in 0 .. k /\ ~P(i) /\ \A j \in 0 .. k : j < i => P(j)
  BY <1>2
<1>4. CASE i = 0
  <2>1. f[0] = s
    BY DEF Walk
  <2> QED BY <1>3, <1>4, <2>1
<1>5. CASE i # 0
  <2> DEFINE r == f[i - 1]
             a == w[2 * i - 1]
             b == w[2 * i]
             t == Match(r, a, b)
  <2>1. f[i] = t
    BY <1>3, <1>5 DEF Walk
  <2>2. P(i - 1)
    BY <1>3, <1>5
  <2>3. /\ 2 * i - 1 \in 1 .. n /\ 2 * i \in 1 .. n
        /\ 2 * i - 1 \in 2 * (i - 1) + 1 .. n /\ 2 * i \in 2 * (i - 1) + 1 .. n
    BY <1>3, <1>5
  <2>4. /\ a \in DOMAIN s.players /\ b \in DOMAIN s.players /\ a # b
        /\ s.players[a].state = "WAIT" /\ s.players[b].state = "WAIT"
    <3>1. 2 * i - 1 # 2 * i
      BY <1>3
    <3> QED BY <2>3, <3>1
  <2>5. r.players[a] = s.players[a] /\ r.players[b] = s.players[b]
    BY <2>2, <2>3
  <2>6. Lists(r, D) /\ AllLive(r) /\ DOMAIN r.players = DOMAIN s.players
    BY <2>2
  <2> HIDE DEF r, a, b
  <2>7. /\ Lists(t, D) /\ AllLive(t) /\ DOMAIN t.players = DOMAIN r.players
        /\ \A m \in DOMAIN r.players \ {a, b} : t.players[m] = r.players[m]
    BY <2>4, <2>5, <2>6, MatchKeeps
  <2> HIDE DEF t
  <2>8. ASSUME NEW j \in 2 * i + 1 .. n
        PROVE  t.players[w[j]] = s.players[w[j]]
    <3>1. j \in 1 .. n /\ j \in 2 * (i - 1) + 1 .. n /\ j # 2 * i - 1 /\ j # 2 * i
      BY <1>3
    <3>2. w[j] \in DOMAIN s.players /\ w[j] # a /\ w[j] # b
      BY <2>3, <3>1 DEF a, b
    <3>3. r.players[w[j]] = s.players[w[j]]
      BY <2>2, <3>1 DEF r
    <3> QED BY <2>6, <2>7, <3>2, <3>3
  <2>9. P(i)
    BY <2>1, <2>6, <2>7, <2>8
  <2> QED BY <1>3, <2>9
<1> QED BY <1>4, <1>5

\* AutoMatcher::Update matches players that wait, each once, two by two.
LEMMA AutoMatchWalks ==
    ASSUME NEW s, NEW D, Lists(s, D)
    PROVE  \E n \in Nat : \E w \in [1 .. n -> DOMAIN s.players] : \E k \in Nat : \E f :
              /\ \A i \in 1 .. n : s.players[w[i]].state = "WAIT"
              /\ \A i, j \in 1 .. n : i # j => w[i] # w[j]
              /\ 2 * k <= n /\ Walk(f, s, w, k) /\ AutoMatch(s) = f[k]
<1> DEFINE S == {m \in DOMAIN s.players : s.players[m].state = "WAIT"}
           n == Cardinality(S)
           w == WaitingPlayers(s)
           pairs == Len(w) \div 2
           matched == CHOOSE f : Walk(f, s, w, pairs)
<1>1. S \in SUBSET Nat /\ IsFiniteSet(S)
  <2>1. Cardinality(Client) \in Nat
    BY FS_CardinalityType
  <2>2. IsFiniteSet(PlayerNumber) /\ \A m \in PlayerNumber : m \in Nat
    BY <2>1, FS_Interval DEF PlayerNumber
  <2>3. S \in SUBSET PlayerNumber
    BY DEF Lists, Players
  <2> HIDE DEF S
  <2> QED BY <2>2, <2>3, FS_Subset
<1>2. /\ n \in Nat /\ w \in [1 .. n -> S] /\ \A i, j \in 1 .. n : i < j => w[i] < w[j]
  <2>1. w = InKeyOrder(S)
    BY DEF WaitingPlayers
  <2> HIDE DEF w, S
  <2> QED BY <1>1, <2>1, InKeyOrderExists
<1>3. \A m \in S : m \in DOMAIN s.players /\ s.players[m].state = "WAIT"
  OBVIOUS
<1> HIDE DEF w, n, S
<1>4. \A i, j \in 1 .. n : i # j => w[i] # w[j]
  <2> TAKE i, j \in 1 .. n
  <2>1. w[i] \in Nat /\ w[j] \in Nat
    BY <1>1, <1>2
  <2>2. i # j => i < j \/ j < i
    BY <1>2
  <2> QED BY <1>2, <2>1, <2>2
<1>5. w \in [1 .. n -> DOMAIN s.players] /\ \A i \in 1 .. n : s.players[w[i]].state = "WAIT"
  BY <1>2, <1>3
<1>6. pairs \in Nat /\ 2 * pairs <= n
  <2>1. Len(w) = n
    BY <1>2
  <2> QED BY <1>2, <2>1
<1> HIDE DEF pairs
<1>7. Walk(matched, s, w, pairs)
  BY <1>6, WalkExists
<1>8. AutoMatch(s) = matched[pairs]
  BY DEF AutoMatch, Walk, w, pairs
<1> HIDE DEF matched
<1> QED BY <1>2, <1>4, <1>5, <1>6, <1>7, <1>8

LEMMA AutoMatchKeeps ==
    ASSUME NEW s, NEW D, Lists(s, D), AllLive(s)
    PROVE  Lists(AutoMatch(s), D)
<1>1. PICK n \in Nat : \E w \in [1 .. n -> DOMAIN s.players] : \E k \in Nat : \E f :
         /\ \A i \in 1 .. n : s.players[w[i]].state = "WAIT"
         /\ \A i, j \in 1 .. n : i # j => w[i] # w[j]
         /\ 2 * k <= n /\ Walk(f, s, w, k) /\ AutoMatch(s) = f[k]
  BY AutoMatchWalks
<1>2. \A k \in Nat : k \in 0 .. k
  OBVIOUS
<1> QED BY <1>1, <1>2, WalkKeeps

------------------------------------------------------------------------------
(* The server's steps preserve the invariant. *)

\* Fewer clients are without a session.
LEMMA FewerDown ==
    ASSUME NEW s, NEW D, Lists(s, D), NEW C \in SUBSET D
    PROVE  Lists(s, C)
  BY DEF Lists, Down

\* GetNonUsedPlayerNumber finds a number while a client has no session: each
\* player has a session of its own.
LEMMA NumberLeft ==
    ASSUME NEW s, NEW D, Lists(s, D), D # {}
    PROVE  UnusedNumber(s) \in PlayerNumber /\ ~HasPlayer(s, UnusedNumber(s))
<1> DEFINE T == PlayerNumber \ DOMAIN s.players
           f == [n \in PlayerNumber |-> CHOOSE c \in Client : s.link[c].up /\ s.link[c].id = n]
<1>1. Cardinality(Client) \in Nat
  BY FS_CardinalityType
<1>2. T # {}
  <2> SUFFICES ASSUME T = {} PROVE FALSE
    OBVIOUS
  <2>1. \A n \in PlayerNumber : \E c \in Client : s.link[c].up /\ s.link[c].id = n
    BY DEF Lists, Present
  <2>2. \A n \in PlayerNumber : f[n] \in Client /\ s.link[f[n]].up /\ s.link[f[n]].id = n
    BY <2>1
  <2>3. f \in [PlayerNumber -> Client]
    BY <2>2
  <2> HIDE DEF f
  <2>4. f \in Injection(PlayerNumber, Client)
    <3>1. \A m, n \in PlayerNumber : f[m] = f[n] => m = n
      BY <2>2
    <3> QED BY <2>3, <3>1, Fun_IsInj
  <2>5. IsFiniteSet(PlayerNumber) /\ Cardinality(PlayerNumber) = Cardinality(Client)
    <3> DEFINE n == Cardinality(Client)
    <3> HIDE DEF n
    <3>1. n \in Nat
      BY <1>1 DEF n
    <3>2. IsFiniteSet(0 .. n - 1) /\ Cardinality(0 .. n - 1) = n
      BY <3>1, FS_Interval
    <3> QED BY <3>2 DEF PlayerNumber, n
  <2>6. f \in Surjection(PlayerNumber, Client)
    BY <2>4, <2>5, FS_Injection
  <2>7. PICK c \in D : c \in Client /\ ~s.link[c].up
    BY DEF Lists, Down
  <2> QED BY <2>2, <2>6, <2>7 DEF Surjection
<1>3. PICK n \in T : \A m \in 0 .. n - 1 : m \notin T
  <2>1. T \in SUBSET Nat
    BY DEF PlayerNumber
  <2> HIDE DEF T
  <2> QED BY <1>2, <2>1, LeastNumber
<1>4. /\ n \in PlayerNumber /\ n \notin DOMAIN s.players
      /\ \A m \in 0 .. n - 1 : m \in DOMAIN s.players
  BY <1>1, <1>3 DEF PlayerNumber
<1> DEFINE u == UnusedNumber(s)
<1>5. /\ u \in PlayerNumber \cup {Cardinality(Client)} /\ ~HasPlayer(s, u)
      /\ \A m \in 0 .. u - 1 : m \in DOMAIN s.players
  <2>1. \E m \in PlayerNumber \cup {Cardinality(Client)} :
           ~HasPlayer(s, m) /\ \A i \in 0 .. m - 1 : HasPlayer(s, i)
    BY <1>4 DEF HasPlayer
  <2> QED BY <2>1 DEF UnusedNumber, HasPlayer
<1> HIDE DEF u
<1>6. u # Cardinality(Client)
  BY <1>1, <1>4, <1>5 DEF PlayerNumber
<1> QED BY <1>5, <1>6 DEF u

\* The session of c changes and keeps its place.
LEMMA LinkKeeps ==
    ASSUME NEW s, NEW D, Lists(s, D), NEW c \in Client, NEW l \in Session,
           l.sent <= Len(l.out), l.up => l.id \in PlayerNumber,
           s.link[c].up => l.up /\ l.id = s.link[c].id,
           NEW C \in SUBSET D, l.up => c \notin C
    PROVE  Lists([s EXCEPT !.link = [s.link EXCEPT ![c] = l]], C)
<1> DEFINE f == [s.link EXCEPT ![c] = l]
           t == [s EXCEPT !.link = f]
<1>1. Server(t) /\ t.link = f /\ t.players = s.players /\ t.games = s.games
  <2> HIDE DEF f
  <2> QED BY LinkField DEF Lists
<1> HIDE DEF t
<1>2. s.link \in [Client -> Session]
  BY DEF Lists, Links
<1>3. /\ t.link \in [Client -> Session]
      /\ \A d \in Client : t.link[d] = IF d = c THEN l ELSE s.link[d]
  BY <1>1, <1>2
<1>4. Links(t)
  BY <1>3 DEF Lists, Links
<1>5. Players(t) /\ Games(t) /\ Apart(t)
  BY <1>1 DEF Lists, Players, Games, Apart
<1>6. Engaged(t)
  BY <1>1 DEF Lists, Engaged, HasPlayer
<1>7. Present(t)
  <2> SUFFICES ASSUME NEW m \in DOMAIN t.players
               PROVE  \E d \in Client : t.link[d].up /\ t.link[d].id = m
    BY DEF Present
  <2>1. PICK d \in Client : s.link[d].up /\ s.link[d].id = m
    BY <1>1 DEF Lists, Present
  <2> QED BY <1>3, <2>1
<1>8. Down(t, C)
  BY <1>3 DEF Lists, Down
<1> QED BY <1>1, <1>4, <1>5, <1>6, <1>7, <1>8 DEF Lists, t

\* The sockets that wait, when one is accepted.
LEMMA OneAccepted ==
    ASSUME Arrivals, accepts # << >>, accepts' = Tail(accepts), pc' = pc
    PROVE  /\ Head(accepts) \in Outside /\ pc[Head(accepts)] # "off" /\ Head(accepts) \in Client
           /\ Outside' = Outside \ {Head(accepts)}
<1> DEFINE h == Head(accepts)
           n == Len(accepts)
<1>1. /\ accepts \in Seq(Client) /\ n \in Nat /\ n >= 1 /\ h = accepts[1] /\ h \in Client
      /\ Len(accepts') = n - 1 /\ \A i \in 1 .. n - 1 : accepts'[i] = accepts[i + 1]
  BY HeadTailProperties DEF Arrivals
<1>2. 1 \in 1 .. n
  BY <1>1
<1>3. h \in Outside /\ pc[h] # "off"
  BY <1>1, <1>2 DEF Outside, Arrivals
<1>4. \A i \in 1 .. n - 1 : i + 1 \in 1 .. n /\ accepts[i + 1] # h
  <2> TAKE i \in 1 .. n - 1
  <2>1. i + 1 \in 1 .. n /\ i + 1 # 1
    BY <1>1
  <2> QED BY <1>1, <1>2, <2>1 DEF Arrivals
<1>5. \A i \in 1 .. n : i = 1 \/ (i - 1 \in 1 .. n - 1 /\ accepts'[i - 1] = accepts[i])
  <2> TAKE i \in 1 .. n
  <2>1. i # 1 => i - 1 \in 1 .. n - 1 /\ (i - 1) + 1 = i
    BY <1>1
  <2> QED BY <1>1, <2>1
<1>6. {accepts'[i] : i \in 1 .. Len(accepts')} = {accepts[i] : i \in 1 .. n} \ {h}
  <2>1. ASSUME NEW i \in 1 .. n - 1
        PROVE  accepts'[i] \in {accepts[j] : j \in 1 .. n} \ {h}
    BY <1>1, <1>4
  <2>2. ASSUME NEW i \in 1 .. n, accepts[i] # h
        PROVE  accepts[i] \in {accepts'[j] : j \in 1 .. n - 1}
    BY <1>1, <1>5, <2>2
  <2> HIDE DEF h, n
  <2> QED BY <1>1, <2>1, <2>2
<1>7. Outside' = {c \in Client : pc[c] = "off"} \cup {accepts'[i] : i \in 1 .. Len(accepts')}
  BY DEF Outside
<1>8. Outside = {c \in Client : pc[c] = "off"} \cup {accepts[i] : i \in 1 .. n}
  BY DEF Outside
<1> HIDE DEF h
<1>9. Outside' = Outside \ {h}
  BY <1>3, <1>6, <1>7, <1>8
<1> QED BY <1>1, <1>3, <1>9 DEF h

LEMMA AcceptKeeps ==
    ASSUME LInv, Accept
    PROVE  LInv'
<1>1. /\ Lists(server, Outside) /\ Arrivals /\ Clients
      /\ UNCHANGED <<requests, wire, pc, marked, told>> /\ phase' = "apc"
  BY DEF LInv, Accept, clientVars
<1>2. Clients'
  BY <1>1 DEF Clients
<1>3. ASSUME UNCHANGED <<server, accepts>>
      PROVE  LInv'
  <2>1. Outside' = Outside /\ Arrivals'
    BY <1>1, <1>3 DEF Outside, Arrivals
  <2> QED BY <1>1, <1>2, <1>3, <2>1 DEF LInv
<1>4. ASSUME accepts # << >>, accepts' = Tail(accepts),
             server' = [server EXCEPT !.link[Head(accepts)] =
                          [NoLink EXCEPT !.up = TRUE, !.id = UnusedNumber(server)]]
      PROVE  LInv'
  <2> DEFINE h == Head(accepts)
             l == [NoLink EXCEPT !.up = TRUE, !.id = UnusedNumber(server)]
  <2>1. accepts \in Seq(Client) /\ Len(accepts) \in Nat /\ Len(accepts) >= 1
    BY <1>1, <1>4 DEF Arrivals
  <2>2. h \in Client /\ h = accepts[1]
    BY <2>1
  <2>3. h \in Outside /\ Outside' = Outside \ {h}
    BY <1>1, <1>4, OneAccepted
  <2>4. UnusedNumber(server) \in PlayerNumber
    BY <1>1, <2>3, NumberLeft
  <2>5. /\ l \in Session /\ l.up /\ l.id \in PlayerNumber /\ l.sent <= Len(l.out)
    <3> DEFINE u == UnusedNumber(server)
               k == [NoLink EXCEPT !.up = TRUE]
    <3> HIDE DEF u
    <3>1. None \in Number0 /\ u \in Number0
      BY <2>4 DEF Number0, u
    <3>2. NoLink \in Session /\ NoLink.sent = 0 /\ NoLink.out = << >>
      BY <3>1 DEF NoLink, Session
    <3>3. k \in Session /\ k.up /\ k.sent = 0 /\ k.out = << >>
      BY <3>2 DEF Session
    <3>4. l = [k EXCEPT !.id = u]
      BY DEF u
    <3> HIDE DEF k, l
    <3>5. l \in Session /\ l.up /\ l.id = u /\ l.sent = 0 /\ l.out = << >>
      BY <3>1, <3>3, <3>4 DEF Session
    <3> QED BY <2>4, <3>5 DEF u
  <2>6. server' = [server EXCEPT !.link = [server.link EXCEPT ![h] = l]]
    BY <1>4
  <2> HIDE DEF l
  <2>7. ~server.link[h].up
    BY <1>1, <2>3 DEF Lists, Down
  <2>8. /\ Tail(accepts) \in Seq(Client) /\ Len(accepts') = Len(accepts) - 1
        /\ \A i \in 1 .. Len(accepts') : accepts'[i] = accepts[i + 1]
    BY <1>4, <2>1
  <2>9. Outside' \in SUBSET Outside /\ h \notin Outside'
    BY <2>3
  <2> HIDE DEF h
  <2>10. Lists(server', Outside')
    BY <1>1, <2>2, <2>5, <2>6, <2>7, <2>9, LinkKeeps
  <2>11. Arrivals'
    <3>1. accepts' \in Seq(Client)
      BY <1>4, <2>8
    <3>2. \A i \in 1 .. Len(accepts') : i + 1 \in 1 .. Len(accepts)
      BY <2>1, <2>8
    <3>3. \A i, j \in 1 .. Len(accepts') : accepts'[i] = accepts'[j] => i = j
      <4> SUFFICES ASSUME NEW i \in 1 .. Len(accepts'), NEW j \in 1 .. Len(accepts'),
                          accepts'[i] = accepts'[j]
                   PROVE  i = j
        OBVIOUS
      <4>1. accepts[i + 1] = accepts[j + 1]
        BY <2>8
      <4>2. i + 1 = j + 1
        BY <1>1, <3>2, <4>1 DEF Arrivals
      <4> QED BY <4>2
    <3>4. \A i \in 1 .. Len(accepts') : pc[accepts'[i]] # "off"
      BY <1>1, <2>8, <3>2 DEF Arrivals
    <3> QED BY <1>1, <3>1, <3>3, <3>4 DEF Arrivals
  <2> QED BY <1>2, <2>10, <2>11 DEF LInv
<1> QED BY <1>3, <1>4 DEF Accept

LEMMA RecvCompletionKeeps ==
    ASSUME LInv, NEW c \in Client, RecvCompletion(c)
    PROVE  LInv'
<1>1. /\ Lists(server, Outside) /\ Arrivals /\ Clients
      /\ UNCHANGED <<phase, accepts, wire, pc, marked, told>>
      /\ server.link[c].up /\ requests[c] # << >> /\ Head(requests[c]) # Closed
      /\ server' = Handle(server, c, Head(requests[c]))
      /\ requests' = [requests EXCEPT ![c] = Tail(requests[c])]
  BY DEF LInv, RecvCompletion, clientVars
<1>2. Head(requests[c]) \in RequestPacket \ {Closed} /\ Tail(requests[c]) \in Seq(RequestPacket)
  BY <1>1 DEF Clients
<1>3. Outside' = Outside /\ Arrivals'
  BY <1>1 DEF Outside, Arrivals
<1>4. Lists(server', Outside')
  BY <1>1, <1>2, <1>3, HandleKeeps
<1>5. Clients'
  BY <1>1, <1>2 DEF Clients
<1> QED BY <1>3, <1>4, <1>5 DEF LInv

\* A session whose client has gone is closed, or stays as it was; what it has
\* not received shrinks.
Closes(c) == RecvEnd(c) \/ SendFails(c)

LEMMA ClosesParts ==
    ASSUME Clients, NEW c \in Client, Closes(c)
    PROVE  /\ UNCHANGED <<phase, accepts, wire, pc, marked, told>> /\ server.link[c].up
           /\ server' = CloseSession(server, c) \/ server' = server
           /\ requests' \in [Client -> Seq(RequestPacket)]
           /\ \A d \in Client : d # c => requests'[d] = requests[d]
<1>1. CASE RecvEnd(c)
  <2>1. Tail(requests[c]) \in Seq(RequestPacket)
    BY <1>1 DEF RecvEnd, Clients
  <2> QED BY <1>1, <2>1 DEF RecvEnd, Disconnect, clientVars, Clients
<1>2. CASE SendFails(c)
  <2>1. << >> \in Seq(RequestPacket)
    OBVIOUS
  <2> QED BY <1>2, <2>1 DEF SendFails, Disconnect, clientVars, Clients
<1> QED BY <1>1, <1>2 DEF Closes

LEMMA ClosesKeeps ==
    ASSUME LInv, NEW c \in Client, Closes(c)
    PROVE  LInv'
<1>1. Lists(server, Outside) /\ Arrivals /\ Clients
  BY DEF LInv
<1>2. /\ UNCHANGED <<phase, accepts, wire, pc, marked>> /\ server.link[c].up
      /\ server' = CloseSession(server, c) \/ server' = server
      /\ requests' \in [Client -> Seq(RequestPacket)]
  BY <1>1, ClosesParts
<1>3. Outside' = Outside /\ Arrivals'
  BY <1>1, <1>2 DEF Outside, Arrivals
<1>4. Lists(server', Outside')
  BY <1>1, <1>2, <1>3, DisconnectKeeps
<1>5. Clients'
  BY <1>1, <1>2 DEF Clients
<1> QED BY <1>3, <1>4, <1>5 DEF LInv

LEMMA SendCompletionKeeps ==
    ASSUME LInv, NEW c \in Client, SendCompletion(c)
    PROVE  LInv'
<1> DEFINE k == server.link[c]
           a == [k EXCEPT !.out = SubSeq(k.out, k.sent + 1, Len(k.out))]
           l == [a EXCEPT !.sent = 0]
<1>1. /\ Lists(server, Outside) /\ Arrivals /\ Clients
      /\ UNCHANGED <<phase, accepts, requests, wire, pc, marked, told>> /\ k.up
  BY DEF LInv, SendCompletion, clientVars
<1>2. server' = [server EXCEPT !.link = [server.link EXCEPT ![c] = l]]
  <2>1. server.link \in [Client -> Session] /\ Server(server)
    BY <1>1 DEF Lists, Links
  <2> QED BY <2>1 DEF SendCompletion
<1>3. k \in Session /\ k.id \in PlayerNumber /\ k.sent <= Len(k.out)
  BY <1>1 DEF Lists, Links
<1> HIDE DEF k
<1>4. a \in Session /\ a.up = k.up /\ a.id = k.id
  <2>1. SubSeq(k.out, k.sent + 1, Len(k.out)) \in Seq(Packet)
    BY <1>3 DEF Session
  <2> QED BY <1>3, <2>1 DEF Session
<1> HIDE DEF a
<1>5. l \in Session /\ l.up = k.up /\ l.id = k.id /\ l.sent <= Len(l.out)
  <2>1. l \in Session /\ l.up = k.up /\ l.id = k.id /\ l.sent = 0
    BY <1>4 DEF Session
  <2>2. Len(l.out) \in Nat
    BY <2>1 DEF Session
  <2> QED BY <2>1, <2>2
<1> HIDE DEF l
<1>6. Outside' = Outside /\ Arrivals' /\ Clients'
  <2>1. Outside' = Outside
    BY <1>1 DEF Outside
  <2>2. Arrivals'
    BY <1>1 DEF Arrivals
  <2>3. Clients'
    BY <1>1 DEF Clients
  <2> QED BY <2>1, <2>2, <2>3
<1>7. c \notin Outside
  BY <1>1 DEF Lists, Down, k
<1>8. Lists(server', Outside)
  BY <1>1, <1>2, <1>3, <1>5, <1>7, LinkKeeps DEF k
<1> QED BY <1>6, <1>8 DEF LInv

LEMMA FinishPassKeeps ==
    ASSUME LInv, FinishPass
    PROVE  LInv'
<1>1. /\ Lists(server, Outside) /\ Arrivals /\ Clients
      /\ UNCHANGED <<accepts, requests, pc, marked, told>> /\ phase' = "accept"
      /\ wire' = [c \in Client |->
                    IF server.link[c].up THEN wire[c] \o server.link[c].out ELSE wire[c]]
      /\ server' = AutoMatch(RemoveOverGames(Flushed(server)))
  BY DEF LInv, FinishPass, clientVars
<1>2. Outside' = Outside /\ Arrivals'
  BY <1>1 DEF Outside, Arrivals
<1> DEFINE r == Flushed(server)
           t == RemoveOverGames(r)
<1>3. Lists(r, Outside)
  BY <1>1, FlushedKeeps
<1> HIDE DEF r
<1>4. Lists(t, Outside) /\ AllLive(t)
  BY <1>3, RemoveKeeps
<1> HIDE DEF t
<1>5. Lists(AutoMatch(t), Outside)
  BY <1>4, AutoMatchKeeps
<1>6. Clients'
  <2>1. \A c \in Client : wire[c] \in Seq(Packet) /\ server.link[c].out \in Seq(Packet)
    BY <1>1 DEF Clients, Lists, Links, Session
  <2>2. \A c \in Client : wire[c] \o server.link[c].out \in Seq(Packet)
    BY <2>1
  <2>3. wire' \in [Client -> Seq(Packet)]
    BY <1>1, <2>1, <2>2
  <2> QED BY <1>1, <2>3 DEF Clients
<1> QED BY <1>1, <1>2, <1>5, <1>6 DEF LInv, r, t

------------------------------------------------------------------------------
(* The clients' steps preserve the invariant. *)

Places == DOMAIN Awaited \cup {"done", "ended", "failed", "left"}

\* What any step of a client that has connected does to the invariant's state.
Talks(c) ==
    /\ UNCHANGED <<server, phase, accepts>> /\ pc[c] # "off"
    /\ pc' = pc \/ \E to \in Places : pc' = [pc EXCEPT ![c] = to]
    /\ wire' \in [Client -> Seq(Packet)]
    /\ requests' \in [Client -> Seq(RequestPacket)]
    /\ marked' \in [Client -> SUBSET Cell]

LEMMA AwaitedPlaces ==
    DOMAIN Awaited = {"naming", "lobby", "mapping", "attacking", "playing", "between"}
  BY DEF Awaited

LEMMA TalksKeeps ==
    ASSUME LInv, NEW c \in Client, Talks(c)
    PROVE  LInv'
<1>1. Lists(server, Outside) /\ Arrivals /\ Clients /\ UNCHANGED <<server, phase, accepts>>
  BY DEF LInv, Talks
<1>2. /\ pc' \in [Client -> Places \cup {"off"}]
      /\ \A d \in Client : pc[d] = "off" <=> pc'[d] = "off"
  <2>1. pc \in [Client -> Places \cup {"off"}]
    BY <1>1 DEF Clients, Places, Dead
  <2>2. "off" \notin Places
    BY AwaitedPlaces DEF Places
  <2>3. CASE pc' = pc
    BY <2>1, <2>3
  <2>4. ASSUME NEW to \in Places, pc' = [pc EXCEPT ![c] = to]
        PROVE  /\ pc' \in [Client -> Places \cup {"off"}]
               /\ \A d \in Client : pc[d] = "off" <=> pc'[d] = "off"
    <3>1. to # "off" /\ pc[c] # "off"
      BY <2>2 DEF Talks
    <3> QED BY <2>1, <2>4, <3>1
  <2> QED BY <2>3, <2>4 DEF Talks
<1>3. Outside' = Outside
  BY <1>1, <1>2 DEF Outside
<1>4. Arrivals'
  <2>1. \A i \in 1 .. Len(accepts) : accepts[i] \in Client
    BY <1>1 DEF Arrivals
  <2>2. \A i \in 1 .. Len(accepts) : pc'[accepts[i]] # "off"
    BY <1>1, <1>2, <2>1 DEF Arrivals
  <2> QED BY <1>1, <2>2 DEF Arrivals
<1>5. Clients'
  <2>1. phase' \in {"accept", "apc"}
    BY <1>1 DEF Clients
  <2>2. pc' \in [Client -> DOMAIN Awaited \cup {"off"} \cup Dead]
    BY <1>2 DEF Places, Dead
  <2> QED BY <2>1, <2>2 DEF Talks, Clients
<1> QED BY <1>1, <1>3, <1>4, <1>5 DEF LInv

\* Who connects is still to be accepted.
LEMMA OneArrives ==
    ASSUME accepts \in Seq(Client), NEW c \in Client, accepts' = Append(accepts, c),
           pc[c] = "off", \A d \in Client : pc'[d] = IF d = c THEN "naming" ELSE pc[d]
    PROVE  Outside' = Outside
<1>1. /\ Len(accepts) \in Nat /\ Len(accepts') = Len(accepts) + 1
      /\ \A i \in 1 .. Len(accepts) : accepts'[i] = accepts[i]
      /\ accepts'[Len(accepts) + 1] = c
  BY AppendProperties
<1>2. {accepts'[i] : i \in 1 .. Len(accepts')} = {accepts[i] : i \in 1 .. Len(accepts)} \cup {c}
  BY <1>1
<1>3. {d \in Client : pc'[d] = "off"} = {d \in Client : pc[d] = "off"} \ {c}
  OBVIOUS
<1> QED BY <1>2, <1>3 DEF Outside

LEMMA ConnectKeeps ==
    ASSUME LInv, NEW c \in Client, Connect(c)
    PROVE  LInv'
<1>1. /\ Lists(server, Outside) /\ Arrivals /\ Clients
      /\ UNCHANGED <<server, phase, wire, marked>>
      /\ pc[c] = "off" /\ pc' = [pc EXCEPT ![c] = "naming"]
      /\ accepts' = Append(accepts, c)
      /\ requests' = [requests EXCEPT ![c] = Append(requests[c], SubmitName)]
  BY DEF LInv, Connect, serverVars, Goes, Request
<1>2. /\ accepts' \in Seq(Client) /\ Len(accepts) \in Nat /\ Len(accepts') = Len(accepts) + 1
      /\ \A i \in 1 .. Len(accepts) : accepts'[i] = accepts[i] /\ accepts[i] \in Client
      /\ accepts'[Len(accepts) + 1] = c
  BY <1>1 DEF Arrivals
<1>3. /\ pc' \in [Client -> DOMAIN Awaited \cup {"off"} \cup Dead]
      /\ \A d \in Client : pc'[d] = "off" <=> d # c /\ pc[d] = "off"
  <2>1. "naming" \in DOMAIN Awaited
    BY AwaitedPlaces
  <2>2. pc \in [Client -> DOMAIN Awaited \cup {"off"} \cup Dead]
    BY <1>1 DEF Clients
  <2>3. pc' \in [Client -> DOMAIN Awaited \cup {"off"} \cup Dead]
    BY <1>1, <2>1, <2>2
  <2>4. \A d \in Client : pc'[d] = IF d = c THEN "naming" ELSE pc[d]
    BY <1>1, <2>2
  <2> QED BY <2>3, <2>4
<1>4. \A i \in 1 .. Len(accepts) : accepts[i] # c
  BY <1>1 DEF Arrivals
<1>5. Arrivals'
  <2>1. \A i \in 1 .. Len(accepts') : i \in 1 .. Len(accepts) \/ i = Len(accepts) + 1
    BY <1>2
  <2>2. \A i, j \in 1 .. Len(accepts') : accepts'[i] = accepts'[j] => i = j
    <3> TAKE i, j \in 1 .. Len(accepts')
    <3>1. CASE i \in 1 .. Len(accepts) /\ j \in 1 .. Len(accepts)
      BY <1>1, <1>2, <3>1 DEF Arrivals
    <3>2. CASE i = Len(accepts) + 1 /\ j = Len(accepts) + 1
      BY <3>2
    <3>3. CASE i \in 1 .. Len(accepts) /\ j = Len(accepts) + 1
      BY <1>2, <1>4, <3>3
    <3>4. CASE i = Len(accepts) + 1 /\ j \in 1 .. Len(accepts)
      BY <1>2, <1>4, <3>4
    <3> QED BY <2>1, <3>1, <3>2, <3>3, <3>4
  <2>3. \A i \in 1 .. Len(accepts') : pc'[accepts'[i]] # "off"
    BY <1>1, <1>2, <1>3, <2>1 DEF Arrivals
  <2> QED BY <1>2, <2>2, <2>3 DEF Arrivals
<1>6. Outside' = Outside
  <2>1. \A d \in Client : pc'[d] = IF d = c THEN "naming" ELSE pc[d]
    BY <1>1 DEF Clients
  <2> QED BY <1>1, <2>1, OneArrives DEF Arrivals
<1>7. Clients'
  <2>1. SubmitName \in RequestPacket
    BY DEF RequestPacket
  <2>2. requests' \in [Client -> Seq(RequestPacket)]
    BY <1>1, <2>1 DEF Clients
  <2> QED BY <1>1, <1>3, <2>2 DEF Clients
<1> QED BY <1>1, <1>5, <1>6, <1>7 DEF LInv

\* What a client takes from its wire, and what it writes.
LEMMA ReceivesTypes ==
    ASSUME Clients, NEW c \in Client, NEW at, NEW type, Receives(c, at, type)
    PROVE  /\ wire' \in [Client -> Seq(Packet)]
           /\ Head(wire[c]) \in Packet /\ Head(wire[c]).type = type
<1>1. wire \in [Client -> Seq(Packet)] /\ wire[c] # << >>
  BY DEF Clients, Receives
<1>2. Head(wire[c]) \in Packet /\ Tail(wire[c]) \in Seq(Packet)
  BY <1>1
<1> QED BY <1>1, <1>2 DEF Receives

LEMMA RequestTypes ==
    ASSUME Clients, NEW c \in Client, NEW p \in RequestPacket, Request(c, p)
    PROVE  requests' \in [Client -> Seq(RequestPacket)]
  BY DEF Clients, Request

LEMMA HangTypes ==
    ASSUME Clients, NEW c \in Client, Hang(c)
    PROVE  requests' \in [Client -> Seq(RequestPacket)]
<1>1. Closed \in RequestPacket
  BY DEF RequestPacket
<1>2. CASE requests' = [requests EXCEPT ![c] = Append(requests[c], Closed)]
  BY <1>1, <1>2 DEF Clients
<1>3. CASE requests' = [requests EXCEPT ![c] = <<Closed>>]
  <2>1. <<Closed>> \in Seq(RequestPacket)
    BY <1>1
  <2> QED BY <1>3, <2>1 DEF Clients
<1> QED BY <1>2, <1>3 DEF Hang

LEMMA StartGameTypes ==
    ASSUME Clients, NEW c \in Client, StartGame(c)
    PROVE  /\ requests' \in [Client -> Seq(RequestPacket)]
           /\ marked' \in [Client -> SUBSET Cell]
           /\ pc' = [pc EXCEPT ![c] = "mapping"]
<1>1. PICK info \in Maps : Request(c, SubmitMap(info))
  BY DEF StartGame
<1>2. SubmitMap(info) \in RequestPacket
  BY DEF RequestPacket
<1>3. requests' \in [Client -> Seq(RequestPacket)]
  BY <1>1, <1>2, RequestTypes
<1>4. marked' \in [Client -> SUBSET Cell]
  BY DEF StartGame, Clients
<1> QED BY <1>3, <1>4 DEF StartGame, Goes

LEMMA ClientKeeps ==
    ASSUME LInv, NEW c \in Client, ClientStep(c) \/ Leave(c)
    PROVE  LInv'
<1>1. Clients
  BY DEF LInv
<1>2. /\ wire \in [Client -> Seq(Packet)] /\ requests \in [Client -> Seq(RequestPacket)]
      /\ marked \in [Client -> SUBSET Cell]
  BY <1>1 DEF Clients
<1>3. CASE Connect(c)
  BY <1>3, ConnectKeeps
<1>4. ASSUME Replied(c) PROVE Talks(c)
  <2>1. PICK at \in {"naming", "mapping", "attacking"} :
           /\ Receives(c, at, "OK") \/ Receives(c, at, "ERROR")
           /\ Goes(c, AfterReply(at))
           /\ UNCHANGED <<server, phase, accepts, requests, marked>>
    BY <1>4 DEF Replied, serverVars
  <2>2. wire' \in [Client -> Seq(Packet)] /\ pc[c] = at
    BY <1>1, <2>1, ReceivesTypes DEF Receives
  <2>3. AfterReply(at) \in Places
    BY AwaitedPlaces DEF AfterReply, Places
  <2> QED BY <1>2, <2>1, <2>2, <2>3 DEF Talks, Goes
<1>5. ASSUME Started(c) \/ NextStarted(c) PROVE Talks(c)
  <2>1. PICK at \in {"lobby", "between"} :
           /\ \E type : Receives(c, at, type)
           /\ StartGame(c) /\ UNCHANGED <<server, phase, accepts>>
    BY <1>5 DEF Started, NextStarted, serverVars
  <2>2. wire' \in [Client -> Seq(Packet)] /\ pc[c] = at
    BY <1>1, <2>1, ReceivesTypes DEF Receives
  <2>3. "mapping" \in Places
    BY AwaitedPlaces DEF Places
  <2> QED BY <1>1, <2>1, <2>2, <2>3, StartGameTypes DEF Talks
<1>6. ASSUME TakesTurn(c) PROVE Talks(c)
  <2>1. /\ Receives(c, "playing", "MY_TURN") /\ Goes(c, "attacking")
        /\ UNCHANGED <<server, phase, accepts, marked>>
    BY <1>6 DEF TakesTurn, serverVars
  <2>2. PICK cell \in Cell : Request(c, SubmitAttack(cell))
    BY <1>6 DEF TakesTurn
  <2>3. SubmitAttack(cell) \in RequestPacket
    BY DEF RequestPacket
  <2>4. requests' \in [Client -> Seq(RequestPacket)]
    BY <1>1, <2>2, <2>3, RequestTypes
  <2>5. wire' \in [Client -> Seq(Packet)] /\ pc[c] = "playing"
    BY <1>1, <2>1, ReceivesTypes DEF Receives
  <2>6. "attacking" \in Places
    BY AwaitedPlaces DEF Places
  <2> QED BY <1>2, <2>1, <2>4, <2>5, <2>6 DEF Talks, Goes
<1>7. ASSUME SeesResult(c) PROVE Talks(c)
  <2>1. /\ Receives(c, "playing", "ATTACK_RESULT")
        /\ UNCHANGED <<server, phase, accepts, requests, pc>>
    BY <1>7 DEF SeesResult, serverVars
  <2>2. /\ wire' \in [Client -> Seq(Packet)] /\ pc[c] = "playing"
        /\ Head(wire[c]) \in Packet /\ Head(wire[c]).type = "ATTACK_RESULT"
    BY <1>1, <2>1, ReceivesTypes DEF Receives
  <2>3. Head(wire[c]).cell \in Cell
    <3> DEFINE p == Head(wire[c])
    <3>1. p \in Packet /\ p.type = "ATTACK_RESULT"
      BY <2>2
    <3> HIDE DEF p
    <3>2. p.cell \in Cell
      BY <3>1 DEF Packet
    <3> QED BY <3>2 DEF p
  <2>4. \/ marked' = marked
        \/ marked' = [marked EXCEPT ![c] = marked[c] \cup {Head(wire[c]).cell}]
    BY <1>7 DEF SeesResult
  <2>5. marked' \in [Client -> SUBSET Cell]
    <3> DEFINE cells == marked[c] \cup {Head(wire[c]).cell}
    <3>1. cells \in SUBSET Cell
      BY <1>2, <2>3
    <3>2. marked' = marked \/ marked' = [marked EXCEPT ![c] = cells]
      BY <2>4
    <3> HIDE DEF cells
    <3> QED BY <1>2, <3>1, <3>2
  <2> QED BY <1>2, <2>1, <2>2, <2>5 DEF Talks
<1>8. ASSUME SeesGameOver(c) PROVE Talks(c)
  <2>1. /\ Receives(c, "playing", "GAME_OVER") /\ Goes(c, "between")
        /\ UNCHANGED <<server, phase, accepts, requests, marked>>
    BY <1>8 DEF SeesGameOver, serverVars
  <2>2. wire' \in [Client -> Seq(Packet)] /\ pc[c] = "playing"
    BY <1>1, <2>1, ReceivesTypes DEF Receives
  <2>3. "between" \in Places
    BY AwaitedPlaces DEF Places
  <2> QED BY <1>2, <2>1, <2>2, <2>3 DEF Talks, Goes
<1>9. ASSUME SeesAllOver(c) \/ SeesError(c) PROVE Talks(c)
  <2>1. PICK at \in {"between", "playing"}, to \in {"done", "ended"} :
           /\ \E type : Receives(c, at, type)
           /\ Goes(c, to) /\ Hang(c) /\ UNCHANGED <<server, phase, accepts, marked>>
    BY <1>9 DEF SeesAllOver, SeesError, serverVars
  <2>2. wire' \in [Client -> Seq(Packet)] /\ pc[c] = at
    BY <1>1, <2>1, ReceivesTypes DEF Receives
  <2>3. requests' \in [Client -> Seq(RequestPacket)]
    BY <1>1, <2>1, HangTypes
  <2>4. to \in Places
    BY DEF Places
  <2> QED BY <1>2, <2>1, <2>2, <2>3, <2>4 DEF Talks, Goes
<1>10. ASSUME Fails(c) \/ Leave(c) PROVE Talks(c)
  <2>1. PICK to \in {"failed", "left"} :
           /\ Goes(c, to) /\ Hang(c) /\ UNCHANGED <<server, phase, accepts, wire, marked>>
    BY <1>10 DEF Fails, Leave, serverVars
  <2>2. pc[c] # "off"
    BY <1>10, AwaitedPlaces DEF Fails, Surprised, Leave
  <2>3. requests' \in [Client -> Seq(RequestPacket)]
    BY <1>1, <2>1, HangTypes
  <2>4. to \in Places
    BY DEF Places
  <2> QED BY <1>2, <2>1, <2>2, <2>3, <2>4 DEF Talks, Goes
<1>11. Connect(c) \/ Talks(c)
  BY <1>4, <1>5, <1>6, <1>7, <1>8, <1>9, <1>10 DEF ClientStep
<1> QED BY <1>3, <1>11, TalksKeeps

------------------------------------------------------------------------------
(* The theorem. *)

LEMMA ListsInit == Init => LInv
<1> SUFFICES ASSUME Init PROVE LInv
  OBVIOUS
<1>1. /\ server = [link |-> [c \in Client |-> NoLink],
                   players |-> [n \in {} |-> NewPlayer], games |-> [g \in {} |-> None]]
      /\ phase = "accept" /\ accepts = << >>
      /\ requests = [c \in Client |-> << >>] /\ wire = [c \in Client |-> << >>]
      /\ pc = [c \in Client |-> "off"] /\ marked = [c \in Client |-> {}]
  BY DEF Init
<1>2. /\ server.link = [c \in Client |-> NoLink] /\ server.players = [n \in {} |-> NewPlayer]
      /\ server.games = [g \in {} |-> None] /\ Server(server)
  BY <1>1 DEF Server
<1>3. /\ DOMAIN server.players = {} /\ DOMAIN server.games = {}
      /\ \A c \in Client : server.link[c] = NoLink
  BY <1>2
<1>4. NoLink \in Session /\ NoLink.sent <= Len(NoLink.out) /\ ~NoLink.up
  <2>1. None \in Number0
    BY DEF Number0
  <2> QED BY <2>1 DEF NoLink, Session
<1>5. Links(server)
  BY <1>2, <1>3, <1>4 DEF Links
<1>6. Players(server) /\ Games(server)
  <2>1. server.players \in [DOMAIN server.players -> APlayer]
    BY <1>2, <1>3
  <2>2. server.games \in [DOMAIN server.games -> AGame]
    BY <1>2, <1>3
  <2> QED BY <1>3, <2>1, <2>2 DEF Players, Games
<1>7. Present(server) /\ Apart(server) /\ Engaged(server)
  BY <1>3 DEF Present, Apart, Engaged
<1>8. Arrivals /\ Outside \in SUBSET Client
  BY <1>1 DEF Arrivals, Outside
<1>9. Down(server, Outside)
  BY <1>3, <1>4, <1>8 DEF Down
<1>10. Clients
  BY <1>1 DEF Clients
<1> QED BY <1>2, <1>5, <1>6, <1>7, <1>8, <1>9, <1>10 DEF LInv, Lists

LEMMA ListsNext == LInv /\ [Next]_vars => LInv'
<1> SUFFICES ASSUME LInv, [Next]_vars PROVE LInv'
  OBVIOUS
<1>1. CASE Accept
  BY <1>1, AcceptKeeps
<1>2. CASE FinishPass
  BY <1>2, FinishPassKeeps
<1>3. ASSUME NEW c \in Client, RecvCompletion(c)
      PROVE  LInv'
  BY <1>3, RecvCompletionKeeps
<1>4. ASSUME NEW c \in Client, SendCompletion(c)
      PROVE  LInv'
  BY <1>4, SendCompletionKeeps
<1>5. ASSUME NEW c \in Client, ClientStep(c) \/ Leave(c)
      PROVE  LInv'
  BY <1>5, ClientKeeps
<1>6. ASSUME NEW c \in Client, RecvEnd(c) \/ SendFails(c)
      PROVE  LInv'
  BY <1>6, ClosesKeeps DEF Closes
<1>7. CASE UNCHANGED vars
  <2>1. UNCHANGED <<server, phase, accepts, requests, wire, pc, marked>>
    BY <1>7 DEF vars
  <2>2. Outside' = Outside /\ Arrivals'
    BY <2>1 DEF Outside, Arrivals, LInv
  <2>3. Clients'
    BY <2>1 DEF Clients, LInv
  <2> QED BY <2>1, <2>2, <2>3 DEF LInv
<1> QED BY <1>1, <1>2, <1>3, <1>4, <1>5, <1>6, <1>7 DEF Next

\* The invariant in the words of the property.
LEMMA ListsAgreeFollows == LInv => ListsAgree
<1> SUFFICES ASSUME LInv PROVE ListsAgree
  OBVIOUS
<1>1. Lists(server, Outside) /\ Clients
  BY DEF LInv
<1>2. TypeOK
  <2>1. phase \in {"accept", "apc"}
    BY <1>1 DEF Clients
  <2>2. ASSUME NEW c \in Client
        PROVE  /\ server.link[c].up \in BOOLEAN
               /\ server.link[c].id \in {None} \cup PlayerNumber
               /\ server.link[c].sent \in 0 .. Len(server.link[c].out)
               /\ pc[c] \in DOMAIN Awaited \cup {"off"} \cup Dead
               /\ marked[c] \subseteq Cell
    <3> DEFINE k == server.link[c]
    <3>1. k \in Session /\ k.sent <= Len(k.out)
      BY <1>1 DEF Lists, Links
    <3> HIDE DEF k
    <3>2. k.up \in BOOLEAN /\ k.id \in {None} \cup PlayerNumber
      BY <3>1 DEF Session, Number0
    <3>3. k.sent \in 0 .. Len(k.out)
      BY <3>1 DEF Session
    <3>4. /\ pc[c] \in DOMAIN Awaited \cup {"off"} \cup Dead
          /\ marked[c] \subseteq Cell
      BY <1>1 DEF Clients
    <3> QED BY <3>2, <3>3, <3>4 DEF k
  <2>3. DOMAIN server.players \subseteq PlayerNumber /\ DOMAIN server.games \subseteq GameNumber
    BY <1>1 DEF Lists, Players, Games
  <2>4. ASSUME NEW n \in DOMAIN server.players
        PROVE  /\ server.players[n].state \in {"WAIT", "WAIT_MAP", "ON_GAME"}
               /\ server.players[n].board \in [info : Maps, hit : SUBSET Cell]
    BY <1>1 DEF Lists, Players, APlayer, ABoard
  <2> QED BY <2>1, <2>2, <2>3, <2>4 DEF TypeOK
<1>3. \A n \in DOMAIN server.players : \E c \in Client : server.link[c].up /\ Number(c) = n
  BY <1>1 DEF Lists, Present, Number
<1>4. ASSUME NEW g \in LiveGames
      PROVE  /\ server.games[g].player1 # server.games[g].player2
             /\ \A n \in PlayersOf(server.games[g]) :
                   /\ HasPlayer(server, n) /\ server.players[n].state # "WAIT"
                   /\ GamesOf(server, n) = {g}
  <2>1. g \in DOMAIN server.games /\ ~server.games[g].over
    BY DEF LiveGames
  <2>2. server.games[g].player1 # server.games[g].player2
    BY <1>1, <2>1 DEF Lists, Apart
  <2>3. ASSUME NEW n \in PlayersOf(server.games[g])
        PROVE  HasPlayer(server, n) /\ server.players[n].state # "WAIT"
    BY <1>1, <2>1 DEF Lists, Engaged
  <2>4. ASSUME NEW n \in PlayersOf(server.games[g])
        PROVE  GamesOf(server, n) = {g}
    BY <1>1, <2>1 DEF Lists, Apart, GamesOf
  <2> QED BY <2>2, <2>3, <2>4
<1> QED BY <1>2, <1>3, <1>4 DEF ListsAgree

\* Whatever is sent, played or lost, by however many clients: the state has its
\* types, a player has a connected session, a game that is not over has two
\* players of the list who do not wait, and no player is in two games
\* (ClientSession, PlayerManager, GameManager, AutoMatcher, Game).
THEOREM ListsAlwaysAgree == Spec => []ListsAgree
<1>1. Init => LInv
  BY ListsInit
<1>2. LInv /\ [Next]_vars => LInv'
  BY ListsNext
<1>3. LInv => ListsAgree
  BY ListsAgreeFollows
<1> QED BY <1>1, <1>2, <1>3, PTL DEF Spec

------------------------------------------------------------------------------
(* The protocol of a match: where the packets a client has still to read will *)
(* take it.                                                                   *)

\* Where main goes when it receives a packet of a type; "failed" is where it
\* never may.
After(at, type) ==
    CASE at = "naming"  /\ type = "OK"         -> "lobby"
      [] at = "lobby"   /\ type = "GAME_START" -> "mapping"
      [] at \in {"mapping", "attacking"} /\ type \in {"OK", "ERROR"} -> "playing"
      [] at = "playing" /\ type = "MY_TURN"       -> "attacking"
      [] at = "playing" /\ type = "ATTACK_RESULT" -> "playing"
      [] at = "playing" /\ type = "GAME_OVER"     -> "between"
      [] at = "playing" /\ type = "ERROR"         -> "ended"
      [] at = "between" /\ type = "NEXT_GAME"     -> "mapping"
      [] at = "between" /\ type = "ALL_OVER"      -> "done"
      [] at \in {"done", "ended"} /\ type = "ERROR" -> at
      [] OTHER -> "failed"

Expected == {"naming", "lobby", "mapping", "attacking", "playing", "between", "done", "ended"}
Reply == {"naming", "mapping", "attacking"}
Asks  == {"GAME_START", "NEXT_GAME", "MY_TURN"}

\* A client that is at a place, and reads q, ends up at e, and is never surprised.
Leads(at, q, e) ==
    \E f \in [0 .. Len(q) -> Expected] :
        /\ f[0] = at /\ f[Len(q)] = e
        /\ \A i \in 1 .. Len(q) : f[i] = After(f[i - 1], q[i].type)

LEMMA LeadsNowhere ==
    ASSUME NEW at \in Expected
    PROVE  /\ Leads(at, << >>, at)
           /\ \A e : Leads(at, << >>, e) => e = at
<1>1. Leads(at, << >>, at)
  <2> DEFINE f == [i \in 0 .. 0 |-> at]
  <2>1. f \in [0 .. Len(<< >>) -> Expected] /\ f[0] = at /\ f[Len(<< >>)] = at
    OBVIOUS
  <2> HIDE DEF f
  <2> QED BY <2>1 DEF Leads
<1>2. \A e : Leads(at, << >>, e) => e = at
  BY DEF Leads
<1> QED BY <1>1, <1>2

LEMMA LeadsFromExpected ==
    ASSUME NEW at, NEW q \in Seq(Packet), NEW e, Leads(at, q, e)
    PROVE  at \in Expected /\ e \in Expected
<1>1. Len(q) \in Nat
  OBVIOUS
<1> QED BY <1>1 DEF Leads

\* One more packet is sent.
LEMMA LeadsMore ==
    ASSUME NEW at, NEW q \in Seq(Packet), NEW e, Leads(at, q, e),
           NEW p \in Packet, After(e, p.type) \in Expected
    PROVE  Leads(at, Append(q, p), After(e, p.type))
<1> DEFINE n == Len(q)
           r == Append(q, p)
<1>1. n \in Nat /\ Len(r) = n + 1 /\ r[n + 1] = p /\ \A i \in 1 .. n : r[i] = q[i]
  BY AppendProperties
<1>2. PICK f \in [0 .. n -> Expected] :
         /\ f[0] = at /\ f[n] = e
         /\ \A i \in 1 .. n : f[i] = After(f[i - 1], q[i].type)
  BY DEF Leads
<1> HIDE DEF n, r
<1> DEFINE h == [i \in 0 .. n + 1 |-> IF i = n + 1 THEN After(e, p.type) ELSE f[i]]
<1>3. h \in [0 .. n + 1 -> Expected]
  BY <1>1, <1>2
<1>4. h[0] = at /\ h[n + 1] = After(e, p.type) /\ h[n] = e
  BY <1>1, <1>2
<1>5. ASSUME NEW i \in 1 .. n + 1
      PROVE  h[i] = After(h[i - 1], r[i].type)
  <2>1. CASE i = n + 1
    <3>1. h[i] = After(e, p.type) /\ h[i - 1] = e /\ r[i] = p
      BY <1>1, <1>4, <2>1
    <3> QED BY <3>1
  <2>2. CASE i # n + 1
    <3>1. i \in 1 .. n /\ i - 1 \in 0 .. n /\ i - 1 # n + 1
      BY <1>1, <2>2
    <3>2. h[i] = f[i] /\ h[i - 1] = f[i - 1] /\ r[i] = q[i]
      BY <1>1, <2>2, <3>1
    <3> QED BY <1>2, <3>1, <3>2
  <2> QED BY <2>1, <2>2
<1> HIDE DEF h
<1> QED BY <1>1, <1>3, <1>4, <1>5 DEF Leads, r

\* The first packet is read.
LEMMA LeadsOn ==
    ASSUME NEW at, NEW q \in Seq(Packet), q # << >>, NEW e, Leads(at, q, e)
    PROVE  /\ After(at, Head(q).type) \in Expected
           /\ Leads(After(at, Head(q).type), Tail(q), e)
<1> DEFINE n == Len(q)
           r == Tail(q)
<1>1. /\ n \in Nat /\ n >= 1 /\ Len(r) = n - 1 /\ Head(q) = q[1]
      /\ \A i \in 1 .. n - 1 : r[i] = q[i + 1]
  BY HeadTailProperties
<1>2. PICK f \in [0 .. n -> Expected] :
         /\ f[0] = at /\ f[n] = e
         /\ \A i \in 1 .. n : f[i] = After(f[i - 1], q[i].type)
  BY DEF Leads
<1> HIDE DEF n, r
<1>3. 1 \in 1 .. n /\ f[1] = After(at, Head(q).type) /\ f[1] \in Expected
  <2>1. 1 \in 1 .. n /\ 1 \in 0 .. n /\ 1 - 1 = 0
    BY <1>1
  <2> QED BY <1>1, <1>2, <2>1
<1> DEFINE h == [i \in 0 .. n - 1 |-> f[i + 1]]
<1>4. h \in [0 .. n - 1 -> Expected] /\ h[0] = f[1] /\ h[n - 1] = e
  BY <1>1, <1>2
<1>5. ASSUME NEW i \in 1 .. n - 1
      PROVE  h[i] = After(h[i - 1], r[i].type)
  <2>1. i + 1 \in 1 .. n /\ i \in 0 .. n - 1 /\ i - 1 \in 0 .. n - 1
    BY <1>1
  <2>2. h[i] = f[i + 1] /\ h[i - 1] = f[i] /\ r[i] = q[i + 1]
    BY <1>1, <2>1
  <2>3. f[i + 1] = After(f[(i + 1) - 1], q[i + 1].type) /\ (i + 1) - 1 = i
    BY <1>2, <2>1
  <2> QED BY <2>2, <2>3
<1> HIDE DEF h
<1> QED BY <1>1, <1>3, <1>4, <1>5 DEF Leads, r

\* What is received is what is awaited.
LEMMA AfterAwaited ==
    ASSUME NEW at \in DOMAIN Awaited, NEW type, After(at, type) \in Expected
    PROVE  type \in Awaited[at]
  BY AwaitedPlaces DEF After, Expected, Awaited

\* Nothing but an answer is read where an answer is awaited.
LEMMA AfterAsking ==
    ASSUME NEW at, NEW type \in Asks, After(at, type) \in Expected
    PROVE  /\ After(at, type) \in {"mapping", "attacking"}
           /\ \A t : After(After(at, type), t) \in Expected => t \in {"OK", "ERROR"}
  BY DEF After, Expected, Asks

\* No error, and an answer comes first.
Clean(q) ==
    /\ \A i \in 1 .. Len(q) : q[i].type \notin {"ERROR", "ALL_OVER"}
    /\ \A i \in 2 .. Len(q) : q[i].type # "OK"

LEMMA CleanMore ==
    ASSUME NEW q \in Seq(Packet), Clean(q), NEW p \in Packet,
           p.type \notin {"ERROR", "ALL_OVER"}, p.type = "OK" => q = << >>
    PROVE  Clean(Append(q, p))
<1> DEFINE n == Len(q)
           r == Append(q, p)
<1>1. n \in Nat /\ Len(r) = n + 1 /\ r[n + 1] = p /\ \A i \in 1 .. n : r[i] = q[i]
  BY AppendProperties
<1>2. q = << >> => n = 0
  OBVIOUS
<1>3. /\ \A i \in 1 .. n : q[i].type \notin {"ERROR", "ALL_OVER"}
      /\ \A i \in 2 .. n : q[i].type # "OK"
  BY DEF Clean
<1> HIDE DEF n, r
<1>4. ASSUME NEW i \in 1 .. n + 1 PROVE r[i].type \notin {"ERROR", "ALL_OVER"}
  <2>1. CASE i = n + 1
    BY <1>1, <2>1
  <2>2. CASE i # n + 1
    <3>1. i \in 1 .. n
      BY <1>1, <2>2
    <3> QED BY <1>1, <1>3, <3>1
  <2> QED BY <2>1, <2>2
<1>5. ASSUME NEW i \in 2 .. n + 1 PROVE r[i].type # "OK"
  <2>1. CASE i = n + 1
    <3>1. n # 0
      BY <2>1
    <3> QED BY <1>1, <1>2, <2>1, <3>1
  <2>2. CASE i # n + 1
    <3>1. i \in 2 .. n /\ i \in 1 .. n
      BY <1>1, <2>2
    <3> QED BY <1>1, <1>3, <3>1
  <2> QED BY <2>1, <2>2
<1> QED BY <1>1, <1>4, <1>5 DEF Clean, r

LEMMA CleanOn ==
    ASSUME NEW q \in Seq(Packet), q # << >>, Clean(q)
    PROVE  Clean(Tail(q)) /\ \A i \in 1 .. Len(Tail(q)) : Tail(q)[i].type # "OK"
<1> DEFINE n == Len(q)
           r == Tail(q)
<1>1. /\ n \in Nat /\ n >= 1 /\ Len(r) = n - 1
      /\ \A i \in 1 .. n - 1 : r[i] = q[i + 1]
  BY HeadTailProperties
<1>2. /\ \A i \in 1 .. n : q[i].type \notin {"ERROR", "ALL_OVER"}
      /\ \A i \in 2 .. n : q[i].type # "OK"
  BY DEF Clean
<1> HIDE DEF n, r
<1>3. ASSUME NEW i \in 1 .. n - 1
      PROVE  r[i].type \notin {"ERROR", "ALL_OVER"} /\ r[i].type # "OK"
  <2>1. i + 1 \in 1 .. n /\ i + 1 \in 2 .. n
    BY <1>1
  <2> QED BY <1>1, <1>2, <2>1
<1>4. \A i \in 2 .. n - 1 : i \in 1 .. n - 1
  BY <1>1
<1> QED BY <1>1, <1>3, <1>4 DEF Clean, r

\* A packet that asks for something is the last that was sent.
LEMMA AsksLast ==
    ASSUME NEW at, NEW q \in Seq(Packet), NEW e, Leads(at, q, e), Clean(q),
           NEW i \in 1 .. Len(q), q[i].type \in Asks
    PROVE  i = Len(q) /\ e \in {"mapping", "attacking"}
<1> DEFINE n == Len(q)
<1>1. n \in Nat /\ i \in 1 .. n /\ i \in 0 .. n /\ i - 1 \in 0 .. n
  OBVIOUS
<1>2. PICK f \in [0 .. n -> Expected] :
         /\ f[0] = at /\ f[n] = e
         /\ \A j \in 1 .. n : f[j] = After(f[j - 1], q[j].type)
  BY DEF Leads
<1>3. /\ \A j \in 1 .. n : q[j].type \notin {"ERROR", "ALL_OVER"}
      /\ \A j \in 2 .. n : q[j].type # "OK"
  BY DEF Clean
<1> HIDE DEF n
<1>4. f[i] = After(f[i - 1], q[i].type) /\ f[i] \in Expected
  BY <1>1, <1>2
<1>5. /\ f[i] \in {"mapping", "attacking"}
      /\ \A t : After(f[i], t) \in Expected => t \in {"OK", "ERROR"}
  BY <1>4, AfterAsking
<1>6. i = n
  <2> SUFFICES ASSUME i # n PROVE FALSE
    OBVIOUS
  <2>1. i + 1 \in 1 .. n /\ i + 1 \in 2 .. n /\ i + 1 \in 0 .. n /\ (i + 1) - 1 = i
    BY <1>1
  <2>2. f[i + 1] = After(f[i], q[i + 1].type) /\ f[i + 1] \in Expected
    BY <1>2, <2>1
  <2>3. q[i + 1].type \in {"OK", "ERROR"}
    BY <1>5, <2>2
  <2> QED BY <1>3, <2>1, <2>3
<1> QED BY <1>2, <1>5, <1>6 DEF n

------------------------------------------------------------------------------
(* A conversation: what the server thinks of a player, what was sent to its   *)
(* client, what the client has asked, and where it is.                        *)

\* The cells of a client's own attacks whose results are in q.
Found(q) == {q[i].cell : i \in {j \in Positions(q, "ATTACK_RESULT") : q[j].mine}}

LEMMA FoundNothing == Found(<< >>) = {}
  BY DEF Found, Positions

IsFind(p) == p.type = "ATTACK_RESULT" /\ p.mine

LEMMA FoundMore ==
    ASSUME NEW q \in Seq(Packet), NEW p \in Packet
    PROVE  /\ IsFind(p) => Found(Append(q, p)) = Found(q) \cup {p.cell}
           /\ ~IsFind(p) => Found(Append(q, p)) = Found(q)
<1> DEFINE n == Len(q)
           r == Append(q, p)
<1>1. n \in Nat /\ Len(r) = n + 1 /\ r[n + 1] = p /\ \A i \in 1 .. n : r[i] = q[i]
  BY AppendProperties
<1>2. \A i \in 1 .. n : i \in 1 .. n + 1
  BY <1>1
<1>3. \A i \in 1 .. n + 1 : i \in 1 .. n \/ i = n + 1
  BY <1>1
<1>4. n + 1 \in 1 .. n + 1
  BY <1>1
<1>5. Found(q) = {q[i].cell : i \in {j \in 1 .. n : IsFind(q[j])}}
  BY DEF Found, Positions, IsFind
<1>6. Found(r) = {r[i].cell : i \in {j \in 1 .. n + 1 : IsFind(r[j])}}
  BY <1>1 DEF Found, Positions, IsFind
<1> HIDE DEF n, r
<1>7. IsFind(p) => Found(r) = Found(q) \cup {p.cell}
  BY <1>1, <1>2, <1>3, <1>4, <1>5, <1>6
<1>8. ~IsFind(p) => Found(r) = Found(q)
  BY <1>1, <1>2, <1>3, <1>4, <1>5, <1>6
<1> QED BY <1>7, <1>8 DEF r

LEMMA FoundOn ==
    ASSUME NEW q \in Seq(Packet), q # << >>
    PROVE  /\ IsFind(Head(q)) => Found(q) = Found(Tail(q)) \cup {Head(q).cell}
           /\ ~IsFind(Head(q)) => Found(q) = Found(Tail(q))
<1> DEFINE n == Len(q)
           r == Tail(q)
           p == Head(q)
<1>1. /\ n \in Nat /\ n >= 1 /\ Len(r) = n - 1 /\ p = q[1]
      /\ \A i \in 1 .. n - 1 : r[i] = q[i + 1]
  BY HeadTailProperties
<1>2. \A i \in 1 .. n - 1 : i + 1 \in 1 .. n
  BY <1>1
<1>3. \A i \in 1 .. n : i = 1 \/ (i - 1 \in 1 .. n - 1 /\ q[i] = r[i - 1])
  <2> TAKE i \in 1 .. n
  <2>1. i # 1 => i - 1 \in 1 .. n - 1 /\ (i - 1) + 1 = i
    BY <1>1
  <2> QED BY <1>1, <2>1
<1>4. 1 \in 1 .. n
  BY <1>1
<1>5. Found(q) = {q[i].cell : i \in {j \in 1 .. n : IsFind(q[j])}}
  BY DEF Found, Positions, IsFind
<1>6. Found(r) = {r[i].cell : i \in {j \in 1 .. n - 1 : IsFind(r[j])}}
  BY <1>1 DEF Found, Positions, IsFind
<1> HIDE DEF n, r, p
<1>7. ASSUME NEW x \in Found(q) PROVE (IsFind(p) /\ x = p.cell) \/ x \in Found(r)
  <2>1. PICK i \in 1 .. n : IsFind(q[i]) /\ x = q[i].cell
    BY <1>5
  <2> QED BY <1>1, <1>3, <1>6, <2>1
<1>8. ASSUME NEW x \in Found(r) PROVE x \in Found(q)
  <2>1. PICK i \in 1 .. n - 1 : IsFind(r[i]) /\ x = r[i].cell
    BY <1>6
  <2>2. i + 1 \in 1 .. n /\ IsFind(q[i + 1]) /\ x = q[i + 1].cell
    BY <1>1, <1>2, <2>1
  <2> QED BY <1>5, <2>2
<1>9. IsFind(p) => p.cell \in Found(q)
  BY <1>1, <1>4, <1>5
<1> QED BY <1>7, <1>8, <1>9 DEF r, p

\* Where a client will be when it has read everything, by its player's role.
Bound == [name |-> "naming", wait |-> "lobby", map |-> "mapping", ready |-> "playing",
          mine |-> "attacking", theirs |-> "playing"]
Roles == {"name", "wait", "map", "ready", "mine", "theirs", "gone"}

\* One request is on its way; the end of the stream may be behind it.
Shape(r, at) ==
    \/ r = << >>
    \/ \E p \in RequestPacket \ {Closed} : r = <<p>>
    \/ \E p \in RequestPacket \ {Closed} : r = <<p, Closed>> /\ at \in Dead
    \/ r = <<Closed>> /\ at \in Dead
Asking(r) == r # << >> /\ r[1] # Closed

\* The request is one that the server expects from the player, or one it drops
\* because the opponent has gone.
Right(role, hit, alone, p) ==
    \/ p.type = "SUBMIT_NAME" /\ role = "name"
    \/ /\ p.type = "SUBMIT_MAP" /\ ValidMap(p.info)
       /\ role = "map" \/ (role = "gone" /\ alone)
    \/ /\ p.type = "SUBMIT_ATTACK"
       /\ (role = "mine" /\ p.cell \notin hit) \/ (role = "gone" /\ alone)

\* During a match: a client that waits for an answer is the one whose request
\* has not been handled.
Talking(e, q, r, at) ==
    /\ Leads(at, q, e) /\ Clean(q)
    /\ (r # << >>) <=> (at \in Reply /\ q = << >>)

\* After a match; alone: because the opponent has gone.
NoAsks(q) == \A i \in 1 .. Len(q) : q[i].type \notin Asks
AsksThen(q) == \A i, j \in 1 .. Len(q) : i < j /\ q[i].type \in Asks => q[j].type = "ERROR"
Parting(alone, q, r, at) ==
    /\ \E e \in {"done", "ended", "playing"} : Leads(at, q, e)
    /\ r # << >> => alone
    /\ r # << >> \/ ~alone => NoAsks(q)
    /\ AsksThen(q)

\* What a client knows of the other's board.
Looks(role, hit, q, r, mk) ==
    /\ role \in {"ready", "mine", "theirs"} => mk \cup Found(q) = hit
    /\ role = "map" /\ r # << >> => mk = {}

Conv(role, hit, alone, q, r, at, mk) ==
    /\ Asking(r) => Right(role, hit, alone, r[1])
    /\ at \notin Dead /\ role # "gone" => Talking(Bound[role], q, r, at)
    /\ at \notin Dead /\ role # "gone" => Looks(role, hit, q, r, mk)
    /\ at \notin Dead /\ role = "gone" => Parting(alone, q, r, at)

LEMMA RequestKinds ==
    /\ Closed.type = "CLOSED" /\ SubmitName.type = "SUBMIT_NAME"
    /\ \A info : SubmitMap(info).type = "SUBMIT_MAP" /\ SubmitMap(info).info = info
    /\ \A c : SubmitAttack(c).type = "SUBMIT_ATTACK" /\ SubmitAttack(c).cell = c
    /\ Closed # SubmitName /\ \A x : Closed # SubmitMap(x) /\ Closed # SubmitAttack(x)
  BY DEF Closed, SubmitName, SubmitMap, SubmitAttack

\* What is behind a request.
LEMMA TailAsks ==
    ASSUME NEW r, NEW at, Shape(r, at), Asking(r)
    PROVE  ~Asking(Tail(r)) /\ Shape(Tail(r), at) /\ (at \notin Dead => Tail(r) = << >>)
<1>1. CASE \E p \in RequestPacket \ {Closed} : r = <<p>>
  <2>1. Tail(r) = << >>
    BY <1>1
  <2> QED BY <2>1 DEF Asking, Shape
<1>2. CASE \E p \in RequestPacket \ {Closed} : r = <<p, Closed>> /\ at \in Dead
  <2>1. Tail(r) = <<Closed>> /\ at \in Dead
    BY <1>2
  <2> QED BY <2>1 DEF Asking, Shape
<1>3. r # <<Closed>>
  BY DEF Asking
<1> QED BY <1>1, <1>2, <1>3 DEF Shape, Asking

LEMMA AliveAsks ==
    ASSUME NEW r, NEW at, Shape(r, at), at \notin Dead
    PROVE  /\ r # << >> <=> Asking(r)
           /\ r # << >> => \E p \in RequestPacket \ {Closed} : r = <<p>>
  BY DEF Shape, Asking

\* Players of whom the server expects nothing.
LEMMA NotAsking ==
    ASSUME NEW role \in {"wait", "ready", "theirs"}, NEW hit, NEW alone, NEW p
    PROVE  ~Right(role, hit, alone, p)
  BY DEF Right

\* The answer to a request.
LEMMA TalkingAnswered ==
    ASSUME NEW e, NEW q \in Seq(Packet), NEW r, NEW at, Talking(e, q, r, at), r # << >>,
           NEW p \in Packet, p.type = "OK", After(e, "OK") \in Expected
    PROVE  q = << >> /\ Talking(After(e, "OK"), Append(q, p), << >>, at)
<1>1. q = << >> /\ Leads(at, q, e) /\ Clean(q)
  BY DEF Talking
<1>2. Leads(at, Append(q, p), After(e, "OK"))
  BY <1>1, LeadsMore
<1>3. Clean(Append(q, p))
  BY <1>1, CleanMore
<1>4. Append(q, p) # << >>
  BY AppendProperties
<1> QED BY <1>1, <1>2, <1>3, <1>4 DEF Talking

\* Another packet.
LEMMA TalkingMore ==
    ASSUME NEW e, NEW q \in Seq(Packet), NEW at, Talking(e, q, << >>, at),
           NEW p \in Packet, p.type \notin {"OK", "ERROR", "ALL_OVER"},
           After(e, p.type) \in Expected
    PROVE  Talking(After(e, p.type), Append(q, p), << >>, at)
<1>1. Leads(at, q, e) /\ Clean(q)
  BY DEF Talking
<1>2. Leads(at, Append(q, p), After(e, p.type))
  BY <1>1, LeadsMore
<1>3. Clean(Append(q, p))
  BY <1>1, CleanMore
<1>4. Append(q, p) # << >>
  BY AppendProperties
<1> QED BY <1>2, <1>3, <1>4 DEF Talking

------------------------------------------------------------------------------
(* How a conversation goes on when the server acts. *)

LEMMA AfterTable ==
    /\ After("naming", "OK") = "lobby" /\ After("lobby", "GAME_START") = "mapping"
    /\ After("mapping", "OK") = "playing" /\ After("attacking", "OK") = "playing"
    /\ After("mapping", "ERROR") = "playing" /\ After("attacking", "ERROR") = "playing"
    /\ After("playing", "MY_TURN") = "attacking" /\ After("playing", "ATTACK_RESULT") = "playing"
    /\ After("playing", "GAME_OVER") = "between" /\ After("playing", "ERROR") = "ended"
    /\ After("between", "NEXT_GAME") = "mapping" /\ After("between", "ALL_OVER") = "done"
    /\ After("done", "ERROR") = "done" /\ After("ended", "ERROR") = "ended"
    /\ Expected = {"naming", "lobby", "mapping", "attacking", "playing", "between", "done",
                   "ended"}
  BY DEF After, Expected

LEMMA BoundTable ==
    /\ Bound["name"] = "naming" /\ Bound["wait"] = "lobby" /\ Bound["map"] = "mapping"
    /\ Bound["ready"] = "playing" /\ Bound["mine"] = "attacking" /\ Bound["theirs"] = "playing"
  BY DEF Bound

LEMMA PacketTypes ==
    /\ Ok.type = "OK" /\ GameStart.type = "GAME_START" /\ MyTurn.type = "MY_TURN"
    /\ NextGame.type = "NEXT_GAME" /\ \A e : ErrorPacket(e).type = "ERROR"
    /\ \A c, mine, result : /\ Attacked(c, mine, result).type = "ATTACK_RESULT"
                            /\ Attacked(c, mine, result).mine = mine
                            /\ Attacked(c, mine, result).cell = c
    /\ \A won, turns : GameOver(won, turns).type = "GAME_OVER" /\ GameOver(won, turns).won = won
    /\ \A wins, turns : AllOver(wins, turns).type = "ALL_OVER" /\ AllOver(wins, turns).wins = wins
  BY DEF Ok, GameStart, MyTurn, NextGame, ErrorPacket, Attacked, GameOver, AllOver

\* A client of whose player the server expects nothing has no request on its way.
LEMMA ConvIdle ==
    ASSUME NEW role \in {"wait", "ready", "theirs"}, NEW hit, NEW alone, NEW q, NEW r, NEW at,
           NEW mk, Shape(r, at), Conv(role, hit, alone, q, r, at, mk)
    PROVE  ~Asking(r) /\ (at \notin Dead => r = << >>)
<1>1. ~Asking(r)
  BY NotAsking DEF Conv
<1> QED BY <1>1, AliveAsks

\* SUBMIT_NAME is handled.
LEMMA ConvNamed ==
    ASSUME NEW hit, NEW alone, NEW q \in Seq(Packet), NEW r, NEW at, NEW mk, Shape(r, at),
           Asking(r), Conv("name", hit, alone, q, r, at, mk), NEW h, NEW a
    PROVE  Conv("wait", h, a, Append(q, Ok), Tail(r), at, mk)
<1>1. /\ ~Asking(Tail(r)) /\ (at \notin Dead => Tail(r) = << >>) /\ r # << >>
  BY TailAsks DEF Asking
<1>2. ASSUME at \notin Dead
      PROVE  Talking("lobby", Append(q, Ok), << >>, at)
  <2>1. Talking("naming", q, r, at)
    BY <1>2, BoundTable DEF Conv
  <2> QED BY <1>1, <2>1, TalkingAnswered, AfterTable, PacketTypes, PacketKinds
<1>3. Looks("wait", h, Append(q, Ok), Tail(r), mk)
  BY DEF Looks
<1> QED BY <1>1, <1>2, <1>3, BoundTable DEF Conv

\* A waiting player is matched.
LEMMA ConvMatched ==
    ASSUME NEW hit, NEW alone, NEW q \in Seq(Packet), NEW r, NEW at, NEW mk, Shape(r, at),
           Conv("wait", hit, alone, q, r, at, mk), NEW h, NEW a
    PROVE  Conv("map", h, a, Append(q, GameStart), r, at, mk)
<1>1. ~Asking(r) /\ (at \notin Dead => r = << >>)
  BY ConvIdle
<1>2. ASSUME at \notin Dead
      PROVE  Talking("mapping", Append(q, GameStart), r, at)
  <2>1. Talking("lobby", q, r, at)
    BY <1>2, BoundTable DEF Conv
  <2> QED BY <1>1, <1>2, <2>1, TalkingMore, AfterTable, PacketTypes, PacketKinds
<1>3. at \notin Dead => Looks("map", h, Append(q, GameStart), r, mk)
  BY <1>1 DEF Looks
<1> QED BY <1>1, <1>2, <1>3, BoundTable DEF Conv

\* SUBMIT_MAP is handled.
LEMMA ConvMapped ==
    ASSUME NEW hit, NEW alone, NEW q \in Seq(Packet), NEW r, NEW at, NEW mk, Shape(r, at),
           Asking(r), Conv("map", hit, alone, q, r, at, mk), NEW a
    PROVE  Conv("ready", {}, a, Append(q, Ok), Tail(r), at, mk)
<1>1. /\ ~Asking(Tail(r)) /\ (at \notin Dead => Tail(r) = << >>) /\ r # << >>
  BY TailAsks DEF Asking
<1>2. ASSUME at \notin Dead
      PROVE  Talking("playing", Append(q, Ok), << >>, at) /\ q = << >>
  <2>1. Talking("mapping", q, r, at)
    BY <1>2, BoundTable DEF Conv
  <2> QED BY <1>1, <2>1, TalkingAnswered, AfterTable, PacketTypes, PacketKinds
<1>3. ASSUME at \notin Dead
      PROVE  Looks("ready", {}, Append(q, Ok), Tail(r), mk)
  <2>1. mk = {}
    BY <1>1, <1>3 DEF Conv, Looks
  <2>2. Found(Append(q, Ok)) = {}
    <3>1. Ok \in Packet /\ ~IsFind(Ok)
      BY PacketTypes, PacketKinds DEF IsFind
    <3>2. Found(Append(q, Ok)) = Found(q) /\ q = << >>
      BY <1>2, <1>3, <3>1, FoundMore
    <3> QED BY <3>2, FoundNothing
  <2> QED BY <2>1, <2>2 DEF Looks
<1> QED BY <1>1, <1>2, <1>3, BoundTable DEF Conv

\* Both maps are there: the first turn is the other's.
LEMMA ConvFirstTheirs ==
    ASSUME NEW alone, NEW q, NEW r, NEW at, NEW mk, Shape(r, at),
           Conv("ready", {}, alone, q, r, at, mk), NEW a
    PROVE  Conv("theirs", {}, a, q, r, at, mk)
<1>1. ~Asking(r)
  BY ConvIdle
<1>2. at \notin Dead => Looks("theirs", {}, q, r, mk)
  BY DEF Conv, Looks
<1> QED BY <1>1, <1>2, BoundTable DEF Conv

\* A turn is given.
LEMMA ConvTurn ==
    ASSUME NEW hit, NEW alone, NEW q \in Seq(Packet), NEW r, NEW at, NEW mk, Shape(r, at),
           Conv("theirs", hit, alone, q, r, at, mk), NEW a
    PROVE  Conv("mine", hit, a, Append(q, MyTurn), r, at, mk)
<1>1. ~Asking(r) /\ (at \notin Dead => r = << >>)
  BY ConvIdle
<1>2. ASSUME at \notin Dead
      PROVE  Talking("attacking", Append(q, MyTurn), r, at)
  <2>1. Talking("playing", q, r, at)
    BY <1>2, BoundTable DEF Conv
  <2> QED BY <1>1, <1>2, <2>1, TalkingMore, AfterTable, PacketTypes, PacketKinds
<1>3. ASSUME at \notin Dead
      PROVE  Looks("mine", hit, Append(q, MyTurn), r, mk)
  <2>1. mk \cup Found(q) = hit
    BY <1>3 DEF Conv, Looks
  <2>2. Found(Append(q, MyTurn)) = Found(q)
    BY FoundMore, PacketTypes, PacketKinds DEF IsFind
  <2> QED BY <2>1, <2>2 DEF Looks
<1> QED BY <1>1, <1>2, <1>3, BoundTable DEF Conv

\* SUBMIT_ATTACK is handled.
LEMMA ConvAttacked ==
    ASSUME NEW hit, NEW alone, NEW q \in Seq(Packet), NEW r, NEW at, NEW mk, Shape(r, at),
           Asking(r), Conv("mine", hit, alone, q, r, at, mk),
           NEW c \in Cell, NEW result \in Result, NEW a
    PROVE  Conv("theirs", hit \cup {c}, a, Append(Append(q, Ok), Attacked(c, TRUE, result)),
                Tail(r), at, mk)
<1> DEFINE p == Attacked(c, TRUE, result)
           q1 == Append(q, Ok)
           q2 == Append(q1, p)
<1>1. /\ ~Asking(Tail(r)) /\ (at \notin Dead => Tail(r) = << >>) /\ r # << >>
  BY TailAsks DEF Asking
<1>2. /\ p \in Packet /\ p.type = "ATTACK_RESULT" /\ p.mine = TRUE /\ p.cell = c
      /\ Ok \in Packet /\ Ok.type = "OK" /\ q1 \in Seq(Packet)
  <2>1. p \in Packet /\ p.type = "ATTACK_RESULT" /\ p.mine = TRUE /\ p.cell = c
    BY DEF Attacked, Packet
  <2> QED BY <2>1, PacketTypes, PacketKinds, AppendProperties
<1> HIDE DEF p, q1, q2
<1>3. ASSUME at \notin Dead
      PROVE  Talking("playing", q2, << >>, at)
  <2>1. Talking("attacking", q, r, at)
    BY <1>3, BoundTable DEF Conv
  <2>2. Talking("playing", q1, << >>, at)
    BY <1>1, <1>2, <2>1, TalkingAnswered, AfterTable DEF q1
  <2> QED BY <1>2, <2>2, TalkingMore, AfterTable DEF q2
<1>4. ASSUME at \notin Dead
      PROVE  Looks("theirs", hit \cup {c}, q2, Tail(r), mk)
  <2>1. mk \cup Found(q) = hit
    BY <1>4 DEF Conv, Looks
  <2>2. Found(q1) = Found(q)
    BY <1>2, FoundMore DEF IsFind, q1
  <2>3. Found(q2) = Found(q1) \cup {c}
    BY <1>2, FoundMore DEF IsFind, q2
  <2>4. mk \cup Found(q2) = hit \cup {c}
    BY <2>1, <2>2, <2>3
  <2> QED BY <2>4 DEF Looks
<1>5. Conv("theirs", hit \cup {c}, a, q2, Tail(r), at, mk)
  BY <1>1, <1>3, <1>4, BoundTable DEF Conv
<1> QED BY <1>5 DEF p, q1, q2

\* The opponent's attack is seen.
LEMMA ConvSuffers ==
    ASSUME NEW hit, NEW alone, NEW q \in Seq(Packet), NEW r, NEW at, NEW mk, Shape(r, at),
           Conv("theirs", hit, alone, q, r, at, mk),
           NEW c \in Cell, NEW result \in Result, NEW a
    PROVE  Conv("theirs", hit, a, Append(q, Attacked(c, FALSE, result)), r, at, mk)
<1> DEFINE p == Attacked(c, FALSE, result)
<1>1. ~Asking(r) /\ (at \notin Dead => r = << >>)
  BY ConvIdle
<1>2. p \in Packet /\ p.type = "ATTACK_RESULT" /\ p.mine = FALSE
  BY DEF Attacked, Packet
<1> HIDE DEF p
<1>3. ASSUME at \notin Dead
      PROVE  Talking("playing", Append(q, p), r, at)
  <2>1. Talking("playing", q, r, at)
    BY <1>3, BoundTable DEF Conv
  <2> QED BY <1>1, <1>2, <1>3, <2>1, TalkingMore, AfterTable
<1>4. ASSUME at \notin Dead
      PROVE  Looks("theirs", hit, Append(q, p), r, mk)
  <2>1. mk \cup Found(q) = hit
    BY <1>4 DEF Conv, Looks
  <2>2. Found(Append(q, p)) = Found(q)
    BY <1>2, FoundMore DEF IsFind
  <2> QED BY <2>1, <2>2 DEF Looks
<1>5. Conv("theirs", hit, a, Append(q, p), r, at, mk)
  BY <1>1, <1>3, <1>4, BoundTable DEF Conv
<1> QED BY <1>5 DEF p

\* A game is decided, and the next begins.
LEMMA ConvNextGame ==
    ASSUME NEW hit, NEW alone, NEW q \in Seq(Packet), NEW r, NEW at, NEW mk, Shape(r, at),
           Conv("theirs", hit, alone, q, r, at, mk), NEW won \in BOOLEAN, NEW turns \in Int,
           NEW h, NEW a
    PROVE  Conv("map", h, a, Append(Append(q, GameOver(won, turns)), NextGame), r, at, mk)
<1> DEFINE p == GameOver(won, turns)
           q1 == Append(q, p)
           q2 == Append(q1, NextGame)
<1>1. ~Asking(r) /\ (at \notin Dead => r = << >>)
  BY ConvIdle
<1>2. /\ p \in Packet /\ p.type = "GAME_OVER" /\ q1 \in Seq(Packet)
      /\ NextGame \in Packet /\ NextGame.type = "NEXT_GAME"
  BY PacketTypes, PacketKinds, AppendProperties
<1> HIDE DEF p, q1, q2
<1>3. ASSUME at \notin Dead
      PROVE  Talking("mapping", q2, r, at)
  <2>1. Talking("playing", q, r, at)
    BY <1>3, BoundTable DEF Conv
  <2>2. Talking("between", q1, r, at)
    BY <1>1, <1>2, <1>3, <2>1, TalkingMore, AfterTable DEF q1
  <2> QED BY <1>1, <1>2, <1>3, <2>2, TalkingMore, AfterTable DEF q2
<1>4. at \notin Dead => Looks("map", h, q2, r, mk)
  BY <1>1 DEF Looks
<1>5. Conv("map", h, a, q2, r, at, mk)
  BY <1>1, <1>3, <1>4, BoundTable DEF Conv
<1> QED BY <1>5 DEF p, q1, q2

\* The last game is decided.
LEMMA ConvAllOver ==
    ASSUME NEW hit, NEW alone, NEW q \in Seq(Packet), NEW r, NEW at, NEW mk, Shape(r, at),
           Conv("theirs", hit, alone, q, r, at, mk), NEW won \in BOOLEAN, NEW turns \in Int,
           NEW wins \in Int, NEW total \in Int, NEW h, NEW a
    PROVE  Conv("gone", h, a, Append(Append(q, GameOver(won, turns)), AllOver(wins, total)),
                r, at, mk)
<1> DEFINE p1 == GameOver(won, turns)
           p2 == AllOver(wins, total)
           q1 == Append(q, p1)
           q2 == Append(q1, p2)
<1>1. ~Asking(r) /\ (at \notin Dead => r = << >>)
  BY ConvIdle
<1>2. /\ p1 \in Packet /\ p1.type = "GAME_OVER" /\ q1 \in Seq(Packet)
      /\ p2 \in Packet /\ p2.type = "ALL_OVER"
  BY PacketTypes, PacketKinds, AppendProperties
<1> HIDE DEF p1, p2, q1, q2
<1>3. ASSUME at \notin Dead
      PROVE  Leads(at, q2, "done")
  <2>1. Leads(at, q, "playing")
    BY <1>3, BoundTable DEF Conv, Talking
  <2>2. Leads(at, q1, "between")
    BY <1>2, <2>1, LeadsMore, AfterTable DEF q1
  <2> QED BY <1>2, <2>2, LeadsMore, AfterTable DEF q2
<1>4. ASSUME at \notin Dead
      PROVE  NoAsks(q2)
  <2>1. Leads(at, q, "playing") /\ Clean(q)
    BY <1>4, BoundTable DEF Conv, Talking
  <2>2. NoAsks(q)
    BY <2>1, AsksLast DEF NoAsks
  <2>3. \A i \in 1 .. Len(q1) : q1[i].type \notin Asks
    <3>1. Len(q) \in Nat /\ Len(q1) = Len(q) + 1 /\ q1[Len(q) + 1] = p1 /\ \A i \in 1 .. Len(q) : q1[i] = q[i]
      BY <1>2, AppendProperties DEF q1
    <3>2. \A i \in 1 .. Len(q) + 1 : i \in 1 .. Len(q) \/ i = Len(q) + 1
      BY <3>1
    <3>3. p1.type \notin Asks
      BY <1>2 DEF Asks
    <3> QED BY <2>2, <3>1, <3>2, <3>3 DEF NoAsks
  <2>4. Len(q1) \in Nat /\ Len(q2) = Len(q1) + 1 /\ q2[Len(q1) + 1] = p2 /\ \A i \in 1 .. Len(q1) : q2[i] = q1[i]
    BY <1>2, AppendProperties DEF q2
  <2>5. \A i \in 1 .. Len(q1) + 1 : i \in 1 .. Len(q1) \/ i = Len(q1) + 1
    BY <2>4
  <2>6. p2.type \notin Asks
    BY <1>2 DEF Asks
  <2> QED BY <2>3, <2>4, <2>5, <2>6 DEF NoAsks
<1>5. ASSUME at \notin Dead
      PROVE  Parting(a, q2, r, at)
  <2>1. NoAsks(q2) /\ Leads(at, q2, "done") /\ r = << >>
    BY <1>1, <1>3, <1>4, <1>5
  <2>2. AsksThen(q2)
    BY <2>1 DEF AsksThen, NoAsks
  <2> QED BY <2>1, <2>2 DEF Parting
<1>6. Conv("gone", h, a, q2, r, at, mk)
  BY <1>1, <1>5 DEF Conv
<1> QED BY <1>6 DEF p1, p2, q1, q2

\* An error is no request.
LEMMA ErrorMore ==
    ASSUME NEW q \in Seq(Packet), NEW p \in Packet, p.type = "ERROR"
    PROVE  /\ NoAsks(q) => NoAsks(Append(q, p))
           /\ AsksThen(q) => AsksThen(Append(q, p))
<1> DEFINE n == Len(q)
           r == Append(q, p)
<1>1. n \in Nat /\ Len(r) = n + 1 /\ r[n + 1] = p /\ \A i \in 1 .. n : r[i] = q[i]
  BY AppendProperties
<1>2. \A i \in 1 .. n + 1 : i \in 1 .. n \/ i = n + 1
  BY <1>1
<1>3. p.type \notin Asks
  BY DEF Asks
<1>4. NoAsks(q) => \A i \in 1 .. n : q[i].type \notin Asks
  BY DEF NoAsks
<1>5. AsksThen(q) => \A i, j \in 1 .. n : i < j /\ q[i].type \in Asks => q[j].type = "ERROR"
  BY DEF AsksThen
<1> HIDE DEF n, r
<1>6. NoAsks(q) => NoAsks(r)
  BY <1>1, <1>2, <1>3, <1>4 DEF NoAsks
<1>7. ASSUME AsksThen(q), NEW i \in 1 .. n + 1, NEW j \in 1 .. n + 1, i < j, r[i].type \in Asks
      PROVE  r[j].type = "ERROR"
  <2>1. CASE j = n + 1
    BY <1>1, <2>1
  <2>2. CASE j # n + 1
    <3>1. j \in 1 .. n /\ i \in 1 .. n
      BY <1>1, <1>7, <2>2
    <3> QED BY <1>1, <1>5, <1>7, <3>1
  <2> QED BY <2>1, <2>2
<1>8. AsksThen(q) => AsksThen(r)
  BY <1>1, <1>7 DEF AsksThen
<1> QED BY <1>6, <1>8 DEF r

\* The opponent has gone.
LEMMA ConvAbandoned ==
    ASSUME NEW role \in {"map", "ready", "mine", "theirs", "gone"}, NEW hit, NEW alone,
           NEW q \in Seq(Packet), NEW r, NEW at, NEW mk, Shape(r, at),
           Conv(role, hit, alone, q, r, at, mk), NEW h
    PROVE  Conv("gone", h, TRUE, Append(q, ErrorPacket("ET_UNKNOWN")), r, at, mk)
<1> DEFINE p == ErrorPacket("ET_UNKNOWN")
           q2 == Append(q, p)
<1>1. p \in Packet /\ p.type = "ERROR"
  BY PacketTypes, PacketKinds
<1> HIDE DEF p
<1>2. Asking(r) => Right("gone", h, TRUE, r[1])
  BY DEF Conv, Right
<1>3. ASSUME at \notin Dead, role # "gone"
      PROVE  Parting(TRUE, q2, r, at)
  <2>1. Talking(Bound[role], q, r, at) /\ Bound[role] \in {"mapping", "attacking", "playing"}
    BY <1>3, BoundTable DEF Conv
  <2>2. Leads(at, q, Bound[role]) /\ Clean(q) /\ (r # << >> => q = << >>)
    BY <2>1 DEF Talking
  <2>3. After(Bound[role], p.type) \in {"playing", "ended"}
    BY <1>1, <2>1, AfterTable
  <2>4. Leads(at, q2, After(Bound[role], p.type))
    BY <1>1, <2>2, <2>3, LeadsMore, AfterTable
  <2>5. r # << >> => NoAsks(q2)
    <3>1. q = << >> => NoAsks(q)
      BY DEF NoAsks
    <3> QED BY <1>1, <2>2, <3>1, ErrorMore
  <2>6. AsksThen(q2)
    <3>1. \A i \in 1 .. Len(q) : q[i].type \in Asks => i = Len(q)
      BY <2>2, AsksLast
    <3>2. Len(q) \in Nat
      OBVIOUS
    <3>3. AsksThen(q)
      BY <3>1, <3>2 DEF AsksThen
    <3> QED BY <1>1, <3>3, ErrorMore
  <2> HIDE DEF q2
  <2> QED BY <2>3, <2>4, <2>5, <2>6 DEF Parting
<1>4. ASSUME at \notin Dead, role = "gone"
      PROVE  Parting(TRUE, q2, r, at)
  <2>1. Parting(alone, q, r, at)
    BY <1>4 DEF Conv
  <2>2. PICK b \in {"done", "ended", "playing"} : Leads(at, q, b)
    BY <2>1 DEF Parting
  <2>3. After(b, p.type) \in {"done", "ended"}
    BY <1>1, AfterTable
  <2>4. Leads(at, q2, After(b, p.type))
    BY <1>1, <2>2, <2>3, LeadsMore, AfterTable
  <2>5. (r # << >> => NoAsks(q)) /\ AsksThen(q)
    BY <2>1 DEF Parting
  <2>6. (r # << >> => NoAsks(q2)) /\ AsksThen(q2)
    BY <1>1, <2>5, ErrorMore
  <2> HIDE DEF q2
  <2> QED BY <2>3, <2>4, <2>6 DEF Parting
<1>5. Conv("gone", h, TRUE, q2, r, at, mk)
  <2> HIDE DEF q2
  <2> QED BY <1>2, <1>3, <1>4 DEF Conv
<1> QED BY <1>5 DEF p

\* After a match nothing is heard, but the opponent may go.
LEMMA ConvGone ==
    ASSUME NEW hit, NEW alone \in BOOLEAN, NEW q, NEW r, NEW at, NEW mk,
           Conv("gone", hit, alone, q, r, at, mk), NEW h, NEW a \in BOOLEAN, alone => a
    PROVE  Conv("gone", h, a, q, r, at, mk)
<1>1. Asking(r) => Right("gone", h, a, r[1])
  BY DEF Conv, Right
<1>2. at \notin Dead => Parting(a, q, r, at)
  BY DEF Conv, Parting
<1> QED BY <1>1, <1>2 DEF Conv

\* A request is dropped.
LEMMA ConvDropped ==
    ASSUME NEW hit, NEW alone, NEW q, NEW r, NEW at, NEW mk, Shape(r, at), Asking(r),
           Conv("gone", hit, alone, q, r, at, mk)
    PROVE  Conv("gone", hit, alone, q, Tail(r), at, mk)
<1>1. ~Asking(Tail(r)) /\ (at \notin Dead => Tail(r) = << >>) /\ r # << >>
  BY TailAsks DEF Asking
<1>2. at \notin Dead => Parting(alone, q, Tail(r), at)
  BY <1>1 DEF Conv, Parting
<1> QED BY <1>1, <1>2 DEF Conv

------------------------------------------------------------------------------
(* The packets a client has still to read: those on the wire, and those that *)
(* its session has not handed to WSASend.                                    *)

Rest(w, out, n) == w \o SubSeq(out, n + 1, Len(out))
\* The unsent part of a buffer.
LEMMA UnsentPart ==
    ASSUME NEW out \in Seq(Packet), NEW n \in Nat, n <= Len(out)
    PROVE  LET u == SubSeq(out, n + 1, Len(out))
           IN  /\ u \in Seq(Packet) /\ Len(u) = Len(out) - n
               /\ \A i \in 1 .. Len(out) - n : u[i] = out[n + i]
<1> DEFINE u == SubSeq(out, n + 1, Len(out))
           m == Len(out)
<1>1. m \in Nat /\ \A i \in n + 1 .. m : i \in 1 .. m
  OBVIOUS
<1>2. \A i \in n + 1 .. m : out[i] \in Packet
  BY <1>1, ElementOfSeq
<1>3. /\ u \in Seq(Packet) /\ Len(u) = IF n + 1 <= m THEN m - (n + 1) + 1 ELSE 0
      /\ \A i \in 1 .. m - (n + 1) + 1 : u[i] = out[(n + 1) + i - 1]
  BY <1>1, <1>2, SubSeqProperties
<1> HIDE DEF u, m
<1>4. Len(u) = m - n
  BY <1>1, <1>3 DEF m
<1>5. ASSUME NEW i \in 1 .. m - n PROVE u[i] = out[n + i]
  <2>1. i \in 1 .. m - (n + 1) + 1 /\ (n + 1) + i - 1 = n + i
    BY <1>1
  <2> QED BY <1>3, <2>1
<1> QED BY <1>3, <1>4, <1>5 DEF u, m

\* q is w, and out from n on.
Joins(q, w, out, n) ==
    /\ q \in Seq(Packet) /\ Len(q) = Len(w) + (Len(out) - n)
    /\ \A i \in 1 .. Len(w) : q[i] = w[i]
    /\ \A i \in 1 .. Len(out) - n : q[Len(w) + i] = out[n + i]

LEMMA RestIs ==
    ASSUME NEW w \in Seq(Packet), NEW out \in Seq(Packet), NEW n \in Nat, n <= Len(out)
    PROVE  Joins(Rest(w, out, n), w, out, n)
<1> DEFINE u == SubSeq(out, n + 1, Len(out))
           q == w \o u
           k == Len(w)
           m == Len(out) - n
<1>1. u \in Seq(Packet) /\ Len(u) = m /\ \A i \in 1 .. m : u[i] = out[n + i]
  BY UnsentPart
<1>2. k \in Nat /\ m \in Nat
  OBVIOUS
<1> HIDE DEF u, m
<1>3. /\ q \in Seq(Packet) /\ Len(q) = k + m
      /\ \A i \in 1 .. k + m : q[i] = IF i <= k THEN w[i] ELSE u[i - k]
  BY <1>1, ConcatProperties
<1> HIDE DEF q, k
<1>4. \A i \in 1 .. k : i \in 1 .. k + m /\ i <= k
  BY <1>2
<1>5. ASSUME NEW i \in 1 .. m PROVE q[k + i] = out[n + i]
  <2>1. k + i \in 1 .. k + m /\ ~(k + i <= k) /\ (k + i) - k = i
    BY <1>2
  <2> QED BY <1>1, <1>3, <2>1
<1> QED BY <1>3, <1>4, <1>5 DEF Rest, Joins, q, u, k, m

\* SendRequest.
LEMMA RestMore ==
    ASSUME NEW w \in Seq(Packet), NEW out \in Seq(Packet), NEW n \in Nat, n <= Len(out),
           NEW p \in Packet
    PROVE  Rest(w, Append(out, p), n) = Append(Rest(w, out, n), p)
<1> DEFINE k == Len(w)
           m == Len(out)
           more == Append(out, p)
           a == Rest(w, more, n)
           q == Rest(w, out, n)
           b == Append(q, p)
<1>1. k \in Nat /\ m \in Nat
  OBVIOUS
<1>2. /\ more \in Seq(Packet) /\ Len(more) = m + 1 /\ more[m + 1] = p
      /\ \A i \in 1 .. m : more[i] = out[i]
  BY AppendProperties
<1>3. /\ q \in Seq(Packet) /\ Len(q) = k + (m - n) /\ \A i \in 1 .. k : q[i] = w[i]
      /\ \A i \in 1 .. m - n : q[k + i] = out[n + i]
  <2>1. Joins(q, w, out, n)
    BY RestIs
  <2> HIDE DEF q
  <2> QED BY <2>1 DEF Joins
<1> HIDE DEF more, q
<1>4. /\ a \in Seq(Packet) /\ Len(a) = k + (m + 1 - n) /\ \A i \in 1 .. k : a[i] = w[i]
      /\ \A i \in 1 .. m + 1 - n : a[k + i] = more[n + i]
  <2>1. n <= Len(more)
    BY <1>1, <1>2
  <2>2. Joins(a, w, more, n)
    <3> HIDE DEF more
    <3> QED BY <1>2, <2>1, RestIs
  <2>3. Len(more) - n = m + 1 - n
    BY <1>1, <1>2
  <2> HIDE DEF a, m
  <2> QED BY <2>2, <2>3 DEF Joins
<1>5. /\ b \in Seq(Packet) /\ Len(b) = Len(q) + 1 /\ b[Len(q) + 1] = p
      /\ \A i \in 1 .. Len(q) : b[i] = q[i]
  BY <1>3, AppendProperties
<1> HIDE DEF k, m, a, b
<1>6. Len(a) = Len(b)
  BY <1>1, <1>3, <1>4, <1>5
<1>7. ASSUME NEW i \in 1 .. Len(a) PROVE a[i] = b[i]
  <2>1. CASE i <= k
    <3>1. i \in 1 .. k /\ i \in 1 .. Len(q)
      BY <1>1, <1>3, <2>1, m >= n DEF m
    <3> QED BY <1>3, <1>4, <1>5, <3>1
  <2>2. CASE i > k /\ i < k + (m + 1 - n)
    <3>1. i - k \in 1 .. m - n /\ i - k \in 1 .. m + 1 - n /\ k + (i - k) = i /\ i \in 1 .. Len(q)
      BY <1>1, <1>3, <1>4, <2>2
    <3>2. n + (i - k) \in 1 .. m
      BY <1>1, <3>1
    <3>3. a[i] = more[n + (i - k)] /\ more[n + (i - k)] = out[n + (i - k)]
      BY <1>2, <1>4, <3>1, <3>2
    <3>4. b[i] = q[i] /\ q[i] = out[n + (i - k)]
      BY <1>3, <1>5, <3>1
    <3> QED BY <3>3, <3>4
  <2>3. CASE i = k + (m + 1 - n)
    <3>1. i - k = m + 1 - n /\ i - k \in 1 .. m + 1 - n /\ k + (i - k) = i /\ i = Len(q) + 1
      BY <1>1, <1>3, <1>4, <2>3, m >= n DEF m
    <3>2. n + (i - k) = m + 1
      BY <1>1, <3>1
    <3> QED BY <1>2, <1>4, <1>5, <3>1, <3>2
  <2>4. i <= k \/ (i > k /\ i < k + (m + 1 - n)) \/ i = k + (m + 1 - n)
    BY <1>1, <1>4
  <2> QED BY <2>1, <2>2, <2>3, <2>4
<1>8. a = b
  BY <1>4, <1>5, <1>6, <1>7, SeqEqual
<1> QED BY <1>8 DEF a, b, q, more

\* OnWriteComplete.
LEMMA RestDone ==
    ASSUME NEW w \in Seq(Packet), NEW out \in Seq(Packet), NEW n \in Nat, n <= Len(out)
    PROVE  Rest(w, SubSeq(out, n + 1, Len(out)), 0) = Rest(w, out, n)
<1> DEFINE u == SubSeq(out, n + 1, Len(out))
<1>1. u \in Seq(Packet)
  BY UnsentPart
<1> HIDE DEF u
<1>2. SubSeq(u, 1, Len(u)) = u
  BY <1>1, SubSeqFull
<1>3. Rest(w, u, 0) = w \o u
  BY <1>2 DEF Rest
<1> QED BY <1>3 DEF Rest, u

\* FlushClientSend, when the sends before have completed.
LEMMA RestFlushed ==
    ASSUME NEW w \in Seq(Packet), NEW out \in Seq(Packet)
    PROVE  Rest(w \o out, out, Len(out)) = Rest(w, out, 0)
<1>1. SubSeq(out, 1, Len(out)) = out
  BY SubSeqFull
<1>2. Len(out) \in Nat
  OBVIOUS
<1>3. SubSeq(out, Len(out) + 1, Len(out)) = << >>
  BY <1>2, SubSeqEmpty
<1>4. w \o out \in Seq(Packet)
  OBVIOUS
<1>5. (w \o out) \o << >> = w \o out
  BY <1>4, ConcatEmptySeq
<1> QED BY <1>1, <1>3, <1>5 DEF Rest

\* The client receives a packet.
LEMMA RestOn ==
    ASSUME NEW w \in Seq(Packet), w # << >>, NEW out \in Seq(Packet), NEW n \in Nat, n <= Len(out)
    PROVE  LET q == Rest(w, out, n)
           IN  q # << >> /\ Head(q) = Head(w) /\ Tail(q) = Rest(Tail(w), out, n)
<1> DEFINE k == Len(w)
           m == Len(out)
           q == Rest(w, out, n)
           v == Tail(w)
           a == Tail(q)
           b == Rest(v, out, n)
<1>1. k \in Nat /\ m \in Nat
  OBVIOUS
<1>2. /\ q \in Seq(Packet) /\ Len(q) = k + (m - n) /\ \A i \in 1 .. k : q[i] = w[i]
      /\ \A i \in 1 .. m - n : q[k + i] = out[n + i]
  <2>1. Joins(q, w, out, n)
    BY RestIs
  <2> HIDE DEF q
  <2> QED BY <2>1 DEF Joins
<1>3. /\ v \in Seq(Packet) /\ Len(v) = k - 1 /\ k >= 1
      /\ \A i \in 1 .. k - 1 : v[i] = w[i + 1]
  BY HeadTailProperties, EmptySeq
<1> HIDE DEF q, v
<1>4. /\ b \in Seq(Packet) /\ Len(b) = (k - 1) + (m - n) /\ \A i \in 1 .. k - 1 : b[i] = v[i]
      /\ \A i \in 1 .. m - n : b[(k - 1) + i] = out[n + i]
  <2>1. Joins(b, v, out, n)
    BY <1>3, RestIs
  <2> HIDE DEF b
  <2> QED BY <1>3, <2>1 DEF Joins
<1>5. q # << >> /\ Head(q) = q[1] /\ Head(w) = w[1] /\ q[1] = w[1]
  <2>1. Len(q) >= 1 /\ 1 \in 1 .. k
    BY <1>1, <1>2, <1>3, m >= n
  <2>2. q # << >>
    BY <2>1, EmptySeq
  <2> QED BY <1>2, <2>1, <2>2
<1>6. a \in Seq(Packet) /\ Len(a) = Len(q) - 1 /\ \A i \in 1 .. Len(a) : a[i] = q[i + 1]
  BY <1>2, <1>5, HeadTailProperties
<1> HIDE DEF k, m, a, b
<1>7. Len(a) = Len(b)
  BY <1>1, <1>2, <1>4, <1>6
<1>8. ASSUME NEW i \in 1 .. Len(a) PROVE a[i] = b[i]
  <2>1. CASE i <= k - 1
    <3>1. i \in 1 .. k - 1 /\ i + 1 \in 1 .. k
      BY <1>1, <1>3, <2>1
    <3> QED BY <1>2, <1>3, <1>4, <1>6, <3>1
  <2>2. CASE i > k - 1
    <3>1. (i - k) + 1 \in 1 .. m - n /\ (k - 1) + ((i - k) + 1) = i /\ k + ((i - k) + 1) = i + 1
      BY <1>1, <1>2, <1>3, <1>6, <2>2
    <3> QED BY <1>2, <1>4, <1>6, <3>1
  <2>3. i <= k - 1 \/ i > k - 1
    BY <1>1
  <2> QED BY <2>1, <2>2, <2>3
<1>9. a = b
  BY <1>4, <1>6, <1>7, <1>8, SeqEqual
<1> QED BY <1>5, <1>9 DEF a, b, v, q

------------------------------------------------------------------------------
(* What the server thinks of a player. *)

InGame(s, n) == GameOf(s, n) # None /\ ~s.games[GameOf(s, n)].over
Rival(s, n) == Opponent(s.games[GameOf(s, n)], n)
Role(s, n) ==
    IF ~HasPlayer(s, n) THEN "name"
    ELSE IF s.players[n].state = "WAIT" THEN "wait"
    ELSE IF ~InGame(s, n) THEN "gone"
    ELSE IF s.players[n].state = "WAIT_MAP" THEN "map"
    ELSE IF s.players[Rival(s, n)].state # "ON_GAME" THEN "ready"
    ELSE IF s.games[GameOf(s, n)].turn = n THEN "mine" ELSE "theirs"

\* What it has attacked in a game that is being played.
Hit(s, n) == IF Role(s, n) \in {"mine", "theirs"} THEN s.players[Rival(s, n)].board.hit ELSE {}
Alone(s, n) == GameOf(s, n) # None => ~HasPlayer(s, Rival(s, n))

\* Both players have their number, and the turns are those that were taken.
Level(x, a, b) ==
    IF a.state = "ON_GAME" /\ b.state = "ON_GAME"
      THEN /\ x.turn \in PlayersOf(x)
           /\ a.turns = Cardinality(b.board.hit) /\ b.turns = Cardinality(a.board.hit)
      ELSE /\ a.turns = 0 /\ b.turns = 0
           /\ a.state = "ON_GAME" => a.board.hit = {}
           /\ b.state = "ON_GAME" => b.board.hit = {}
Matches(s) ==
    \A g \in DOMAIN s.games : ~s.games[g].over =>
        Level(s.games[g], s.players[s.games[g].player1], s.players[s.games[g].player2])

\* A number is one client's, and means no player that has gone.
Unique(s) == \A c, d \in Client : c # d /\ s.link[c].up /\ s.link[d].up => s.link[c].id # s.link[d].id
NamesFree(s) == \A c \in Client : s.link[c].up /\ ~HasPlayer(s, s.link[c].id)
                                    => GameOf(s, s.link[c].id) = None
\* Who has a game, be it over, does not wait for one.
Settled(s) == \A g \in DOMAIN s.games : \A n \in PlayersOf(s.games[g]) :
                 HasPlayer(s, n) => s.players[n].state # "WAIT"

Even(s) == Unique(s) /\ NamesFree(s) /\ Settled(s) /\ Matches(s)

LEMMA GameIs ==
    ASSUME NEW s, Games(s), Apart(s), NEW g \in DOMAIN s.games, NEW n \in PlayersOf(s.games[g])
    PROVE  GameOf(s, n) = g /\ g # None
<1>1. GamesOf(s, n) = {g}
  BY DEF Apart, GamesOf
<1>2. None \notin DOMAIN s.games
  BY DEF Games, GameNumber, None
<1> QED BY <1>1, <1>2 DEF GameOf

\* The two players of a game that is not over.
Pair(s, g, n, o) ==
    /\ g \in DOMAIN s.games /\ g # None /\ ~s.games[g].over
    /\ n # o /\ HasPlayer(s, n) /\ HasPlayer(s, o)
    /\ s.players[n].state # "WAIT" /\ s.players[o].state # "WAIT"
    /\ PlayersOf(s.games[g]) = {n, o}
    /\ Opponent(s.games[g], n) = o /\ Opponent(s.games[g], o) = n
    /\ GameOf(s, n) = g /\ GameOf(s, o) = g

LEMMA PairOf ==
    ASSUME NEW s, NEW D, Lists(s, D), NEW g \in DOMAIN s.games, ~s.games[g].over,
           NEW n \in PlayersOf(s.games[g])
    PROVE  Pair(s, g, n, Opponent(s.games[g], n))
<1> DEFINE x == s.games[g]
           o == Opponent(x, n)
<1>1. x.player1 # x.player2
  BY DEF Lists, Apart
<1>2. n # o /\ PlayersOf(x) = {n, o} /\ Opponent(x, o) = n
  BY <1>1 DEF PlayersOf, Opponent
<1>3. \A m \in PlayersOf(x) : HasPlayer(s, m) /\ s.players[m].state # "WAIT"
  BY DEF Lists, Engaged
<1>4. \A m \in PlayersOf(x) : GameOf(s, m) = g /\ g # None
  BY GameIs DEF Lists
<1> HIDE DEF x, o
<1>5. n \in PlayersOf(x) /\ o \in PlayersOf(x)
  BY <1>2
<1> QED BY <1>2, <1>3, <1>4, <1>5 DEF Pair, x, o

LEMMA PairTurned ==
    ASSUME NEW s, NEW g, NEW n, NEW o, Pair(s, g, n, o)
    PROVE  Pair(s, g, o, n)
  BY DEF Pair

LEMMA PairRole ==
    ASSUME NEW s, NEW g, NEW n, NEW o, Pair(s, g, n, o)
    PROVE  /\ Role(s, n) = IF s.players[n].state = "WAIT_MAP" THEN "map"
                           ELSE IF s.players[o].state # "ON_GAME" THEN "ready"
                           ELSE IF s.games[g].turn = n THEN "mine" ELSE "theirs"
           /\ Hit(s, n) = IF Role(s, n) \in {"mine", "theirs"} THEN s.players[o].board.hit ELSE {}
           /\ ~Alone(s, n)
<1>1. Rival(s, n) = o /\ InGame(s, n)
  BY DEF Pair, Rival, InGame
<1>2. Role(s, n) = IF s.players[n].state = "WAIT_MAP" THEN "map"
                   ELSE IF s.players[o].state # "ON_GAME" THEN "ready"
                   ELSE IF s.games[g].turn = n THEN "mine" ELSE "theirs"
  BY <1>1 DEF Pair, Role
<1>3. Hit(s, n) = IF Role(s, n) \in {"mine", "theirs"} THEN s.players[o].board.hit ELSE {}
  BY <1>1 DEF Hit
<1>4. ~Alone(s, n)
  BY <1>1 DEF Alone, Pair
<1> QED BY <1>2, <1>3, <1>4

\* A player is in a match or it is not.
LEMMA RoleSays ==
    ASSUME NEW s, NEW D, Lists(s, D), NEW n
    PROVE  /\ Role(s, n) \in Roles
           /\ Role(s, n) \in {"map", "ready", "mine", "theirs"} =>
                 Pair(s, GameOf(s, n), n, Rival(s, n))
           /\ Role(s, n) = "name" <=> ~HasPlayer(s, n)
           /\ Role(s, n) = "wait" => s.players[n].state = "WAIT"
           /\ Role(s, n) \notin {"mine", "theirs"} => Hit(s, n) = {}
<1>1. Role(s, n) \in Roles
  BY DEF Role, Roles
<1>2. ASSUME Role(s, n) \in {"map", "ready", "mine", "theirs"}
      PROVE  Pair(s, GameOf(s, n), n, Rival(s, n))
  <2>1. InGame(s, n)
    BY <1>2 DEF Role
  <2>2. GameOf(s, n) \in DOMAIN s.games /\ n \in PlayersOf(s.games[GameOf(s, n)])
    BY <2>1, GameOfFound DEF Lists, InGame
  <2> QED BY <2>1, <2>2, PairOf DEF InGame, Rival
<1>3. Role(s, n) = "name" <=> ~HasPlayer(s, n)
  BY DEF Role
<1>4. Role(s, n) = "wait" => s.players[n].state = "WAIT"
  BY DEF Role
<1> QED BY <1>1, <1>2, <1>3, <1>4 DEF Hit

\* A player that has the same game, and itself and its opponent are as they were.
Same(s, t, m) == Role(t, m) = Role(s, m) /\ Hit(t, m) = Hit(s, m) /\ (Alone(t, m) <=> Alone(s, m))

LEMMA RoleKept ==
    ASSUME NEW s, NEW D, Lists(s, D), NEW t, NEW m, GamesOf(t, m) = GamesOf(s, m),
           HasPlayer(t, m) <=> HasPlayer(s, m), HasPlayer(s, m) => t.players[m] = s.players[m],
           \A g \in GamesOf(s, m) :
              LET o == Opponent(s.games[g], m)
              IN  /\ t.games[g] = s.games[g]
                  /\ HasPlayer(t, o) <=> HasPlayer(s, o)
                  /\ HasPlayer(s, o) => t.players[o] = s.players[o]
    PROVE  Same(s, t, m)
<1>1. GameOf(t, m) = GameOf(s, m)
  BY DEF GameOf
<1>2. CASE GameOf(s, m) = None
  <2>1. ~InGame(s, m) /\ ~InGame(t, m)
    BY <1>1, <1>2 DEF InGame
  <2>2. Role(t, m) = Role(s, m) /\ Role(s, m) \notin {"mine", "theirs"}
    BY <2>1 DEF Role
  <2>3. Hit(t, m) = {} /\ Hit(s, m) = {}
    BY <2>2 DEF Hit
  <2>4. Alone(s, m) /\ Alone(t, m)
    BY <1>1, <1>2 DEF Alone
  <2> QED BY <2>2, <2>3, <2>4 DEF Same
<1>3. CASE GameOf(s, m) # None
  <2> DEFINE g == GameOf(s, m)
             o == Opponent(s.games[g], m)
  <2>1. g \in GamesOf(s, m)
    BY <1>3, GameOfFound DEF Lists, GamesOf
  <2>2. /\ t.games[g] = s.games[g] /\ (HasPlayer(t, o) <=> HasPlayer(s, o))
        /\ HasPlayer(s, o) => t.players[o] = s.players[o]
    BY <2>1
  <2>3. Rival(s, m) = o /\ Rival(t, m) = o
    BY <1>1, <2>2 DEF Rival
  <2>4. InGame(t, m) <=> InGame(s, m)
    BY <1>1, <2>2 DEF InGame
  <2>5. InGame(s, m) => t.players[o] = s.players[o]
    <3>1. InGame(s, m) => Pair(s, g, m, o)
      BY <1>3, PairOf, GameOfFound DEF Lists, InGame
    <3> QED BY <2>2, <3>1 DEF Pair
  <2> HIDE DEF g, o
  <2>6. GameOf(s, m) = g
    BY DEF g
  <2>7. Role(t, m) = Role(s, m)
    BY <1>1, <2>2, <2>3, <2>4, <2>5, <2>6 DEF Role
  <2>8. Hit(t, m) = Hit(s, m)
    <3>1. Role(s, m) \in {"mine", "theirs"} => InGame(s, m)
      BY DEF Role
    <3> QED BY <2>3, <2>5, <2>7, <3>1 DEF Hit
  <2>9. Alone(t, m) <=> Alone(s, m)
    BY <1>1, <2>2, <2>3 DEF Alone
  <2> QED BY <2>7, <2>8, <2>9 DEF Same
<1> QED BY <1>2, <1>3

\* Only one game, and its players, change.
LEMMA OthersSame ==
    ASSUME NEW s, NEW D, Lists(s, D), NEW t, DOMAIN t.games = DOMAIN s.games,
           NEW g \in DOMAIN s.games, PlayersOf(t.games[g]) = PlayersOf(s.games[g]),
           \A h \in DOMAIN s.games : h # g => t.games[h] = s.games[h],
           \A m : m \notin PlayersOf(s.games[g]) =>
                     /\ HasPlayer(t, m) <=> HasPlayer(s, m)
                     /\ HasPlayer(s, m) => t.players[m] = s.players[m],
           NEW m, m \notin PlayersOf(s.games[g])
    PROVE  Same(s, t, m)
<1>1. \A h \in DOMAIN s.games : PlayersOf(t.games[h]) = PlayersOf(s.games[h])
  OBVIOUS
<1>2. GamesOf(t, m) = GamesOf(s, m)
  BY <1>1 DEF GamesOf
<1>3. ASSUME NEW h \in GamesOf(s, m)
      PROVE  h # g /\ Opponent(s.games[h], m) \notin PlayersOf(s.games[g])
  <2>1. h \in DOMAIN s.games /\ m \in PlayersOf(s.games[h]) /\ h # g
    BY DEF GamesOf
  <2>2. Opponent(s.games[h], m) \in PlayersOf(s.games[h])
    BY <2>1 DEF Opponent, PlayersOf
  <2> QED BY <2>1, <2>2 DEF Lists, Apart
<1>4. \A h \in GamesOf(s, m) :
         LET o == Opponent(s.games[h], m)
         IN  /\ t.games[h] = s.games[h]
             /\ HasPlayer(t, o) <=> HasPlayer(s, o)
             /\ HasPlayer(s, o) => t.players[o] = s.players[o]
  BY <1>3 DEF GamesOf
<1> QED BY <1>2, <1>4, RoleKept

\* A player that is in no game changes.
LEMMA OtherPlayersSame ==
    ASSUME NEW s, NEW D, Lists(s, D), NEW t, t.games = s.games,
           NEW n, \A g \in DOMAIN s.games : n \notin PlayersOf(s.games[g]),
           \A m : m # n => /\ HasPlayer(t, m) <=> HasPlayer(s, m)
                           /\ HasPlayer(s, m) => t.players[m] = s.players[m],
           NEW m, m # n
    PROVE  Same(s, t, m)
<1>1. GamesOf(t, m) = GamesOf(s, m)
  BY DEF GamesOf
<1>2. ASSUME NEW h \in GamesOf(s, m)
      PROVE  Opponent(s.games[h], m) # n
  <2>1. h \in DOMAIN s.games /\ m \in PlayersOf(s.games[h])
    BY DEF GamesOf
  <2>2. Opponent(s.games[h], m) \in PlayersOf(s.games[h])
    BY <2>1 DEF Opponent, PlayersOf
  <2> QED BY <2>1, <2>2
<1>3. \A h \in GamesOf(s, m) :
         LET o == Opponent(s.games[h], m)
         IN  /\ t.games[h] = s.games[h]
             /\ HasPlayer(t, o) <=> HasPlayer(s, o)
             /\ HasPlayer(s, o) => t.players[o] = s.players[o]
  BY <1>2
<1> QED BY <1>1, <1>3, RoleKept

------------------------------------------------------------------------------
(* What the handlers send. *)

Pending(s, c, w) == Rest(w, s.link[c].out, s.link[c].sent)

\* What client c, with w on the wire, r asked, at a place and with mk marked,
\* is in the middle of.
Hears(s, c, w, r, at, mk) ==
    LET n == s.link[c].id
    IN  Conv(Role(s, n), Hit(s, n), Alone(s, n), Pending(s, c, w), r, at, mk)

\* The sessions stay, and those that are closed are left alone.
Steady(s, t) ==
    \A c \in Client : /\ t.link[c].up = s.link[c].up /\ t.link[c].id = s.link[c].id
                      /\ ~s.link[c].up => t.link[c] = s.link[c]

\* Of the players in N, each is sent its packet.
Gives(s, t, N, packets) ==
    /\ Steady(s, t)
    /\ \A c \in Client : \A w \in Seq(Packet) : s.link[c].up =>
          /\ s.link[c].id \in N =>
                Pending(t, c, w) = Append(Pending(s, c, w), packets[s.link[c].id])
          /\ s.link[c].id \notin N => Pending(t, c, w) = Pending(s, c, w)

LEMMA PendingType ==
    ASSUME NEW s, Links(s), NEW c \in Client, NEW w \in Seq(Packet)
    PROVE  Pending(s, c, w) \in Seq(Packet)
<1>1. /\ s.link[c].out \in Seq(Packet) /\ s.link[c].sent \in Nat
      /\ s.link[c].sent <= Len(s.link[c].out)
  BY DEF Links, Session
<1>2. Joins(Pending(s, c, w), w, s.link[c].out, s.link[c].sent)
  BY <1>1, RestIs DEF Pending
<1> QED BY <1>2 DEF Joins

LEMMA SendGives ==
    ASSUME NEW s, Server(s), Links(s), NEW N, NEW packets \in [N -> Packet]
    PROVE  Gives(s, Send(s, packets), N, packets)
<1> DEFINE t == Send(s, packets)
<1>1. t.link = [c \in Client |->
            IF s.link[c].up /\ s.link[c].id \in DOMAIN packets
              THEN [s.link[c] EXCEPT !.out = Append(s.link[c].out, packets[s.link[c].id])]
              ELSE s.link[c]]
  BY SendFields
<1> HIDE DEF t
<1>2. ASSUME NEW k \in Session, NEW p \in Packet
      PROVE  LET l == [k EXCEPT !.out = Append(k.out, p)]
             IN  l.up = k.up /\ l.id = k.id /\ l.sent = k.sent /\ l.out = Append(k.out, p)
  BY DEF Session
<1>3. ASSUME NEW c \in Client
      PROVE  /\ s.link[c] \in Session /\ s.link[c].sent <= Len(s.link[c].out)
             /\ t.link[c].up = s.link[c].up /\ t.link[c].id = s.link[c].id
             /\ ~s.link[c].up => t.link[c] = s.link[c]
             /\ s.link[c].up /\ s.link[c].id \in N =>
                   /\ packets[s.link[c].id] \in Packet /\ t.link[c].sent = s.link[c].sent
                   /\ t.link[c].out = Append(s.link[c].out, packets[s.link[c].id])
             /\ s.link[c].id \notin N => t.link[c] = s.link[c]
  <2>1. s.link[c] \in Session /\ s.link[c].sent <= Len(s.link[c].out)
    BY DEF Links
  <2>2. CASE s.link[c].up /\ s.link[c].id \in N
    <3>1. packets[s.link[c].id] \in Packet
      BY <2>2
    <3>2. t.link[c] = [s.link[c] EXCEPT !.out = Append(s.link[c].out, packets[s.link[c].id])]
      BY <1>1, <2>2
    <3> DEFINE k == s.link[c]
               p == packets[k.id]
               l == [k EXCEPT !.out = Append(k.out, p)]
    <3>3. k \in Session /\ p \in Packet /\ t.link[c] = l
      BY <2>1, <3>1, <3>2
    <3>4. l.up = k.up /\ l.id = k.id /\ l.sent = k.sent /\ l.out = Append(k.out, p)
      <4> HIDE DEF k, p
      <4> QED BY <1>2, <3>3
    <3> HIDE DEF l
    <3> QED BY <2>1, <2>2, <3>3, <3>4
  <2>3. CASE ~(s.link[c].up /\ s.link[c].id \in N)
    <3>1. t.link[c] = s.link[c]
      BY <1>1, <2>3
    <3> QED BY <2>1, <2>3, <3>1
  <2> QED BY <2>2, <2>3
<1>4. Steady(s, t)
  BY <1>3 DEF Steady
<1>5. ASSUME NEW c \in Client, NEW w \in Seq(Packet), s.link[c].up, s.link[c].id \in N
      PROVE  Pending(t, c, w) = Append(Pending(s, c, w), packets[s.link[c].id])
  <2> DEFINE k == s.link[c]
             l == t.link[c]
             p == packets[k.id]
  <2>1. /\ k.out \in Seq(Packet) /\ k.sent \in Nat /\ k.sent <= Len(k.out) /\ p \in Packet
        /\ l.sent = k.sent /\ l.out = Append(k.out, p)
    BY <1>3, <1>5 DEF Session
  <2>2. Pending(t, c, w) = Rest(w, l.out, l.sent) /\ Pending(s, c, w) = Rest(w, k.out, k.sent)
    BY DEF Pending
  <2> HIDE DEF k, l, p
  <2>3. Pending(t, c, w) = Append(Pending(s, c, w), p)
    BY <2>1, <2>2, RestMore
  <2> QED BY <2>3 DEF p, k
<1>6. ASSUME NEW c \in Client, NEW w \in Seq(Packet), s.link[c].id \notin N
      PROVE  Pending(t, c, w) = Pending(s, c, w)
  BY <1>3, <1>6 DEF Pending
<1>7. Gives(s, t, N, packets)
  BY <1>4, <1>5, <1>6 DEF Gives
<1> QED BY <1>7 DEF t

\* A packet for one player.
Notes(s, t, n, p) ==
    /\ Steady(s, t)
    /\ \A c \in Client : \A w \in Seq(Packet) : s.link[c].up =>
          /\ s.link[c].id = n => Pending(t, c, w) = Append(Pending(s, c, w), p)
          /\ s.link[c].id # n => Pending(t, c, w) = Pending(s, c, w)

LEMMA NoteGives ==
    ASSUME NEW s, Server(s), Links(s), NEW n, NEW p \in Packet
    PROVE  Notes(s, Send(s, Note(n, p)), n, p)
<1>1. Note(n, p) \in [{n} -> Packet] /\ Note(n, p)[n] = p
  BY DEF Note
<1>2. Gives(s, Send(s, Note(n, p)), {n}, Note(n, p))
  BY <1>1, SendGives
<1> QED BY <1>1, <1>2 DEF Gives, Notes

LEMMA SteadyOn ==
    ASSUME NEW s, NEW t, NEW u, Steady(s, t), Steady(t, u)
    PROVE  Steady(s, u)
  BY DEF Steady

\* A client to whose player nothing happens.
LEMMA HearsSame ==
    ASSUME NEW s, NEW t, NEW c \in Client, t.link[c].id = s.link[c].id,
           Same(s, t, s.link[c].id), NEW w, Pending(t, c, w) = Pending(s, c, w),
           NEW r, NEW at, NEW mk, Hears(s, c, w, r, at, mk)
    PROVE  Hears(t, c, w, r, at, mk)
<1> DEFINE n == s.link[c].id
<1>1. /\ Role(t, n) = Role(s, n) /\ Hit(t, n) = Hit(s, n) /\ Alone(t, n) = Alone(s, n)
  <2>1. Alone(t, n) \in BOOLEAN /\ Alone(s, n) \in BOOLEAN
    BY DEF Alone
  <2> QED BY <2>1 DEF Same
<1> QED BY <1>1 DEF Hears

\* What holds of every client after c has been answered.
Carries(s, t, c) ==
    \A d \in Client : \A w \in Seq(Packet) : \A r, at, mk :
        /\ t.link[d].up /\ Shape(r, at) /\ Hears(s, d, w, r, at, mk)
        /\ d = c => Asking(r)
        => Hears(t, d, w, IF d = c THEN Tail(r) ELSE r, at, mk)

------------------------------------------------------------------------------
(* The server's side of the invariant after a step within one game. *)

LEMMA EvenKept ==
    ASSUME NEW s, NEW D, Lists(s, D), Even(s), NEW t, Steady(s, t),
           DOMAIN t.players = DOMAIN s.players, DOMAIN t.games = DOMAIN s.games,
           NEW g \in DOMAIN s.games,
           \A h \in DOMAIN s.games : /\ t.games[h].player1 = s.games[h].player1
                                     /\ t.games[h].player2 = s.games[h].player2
                                     /\ h # g => t.games[h] = s.games[h],
           \A m \in DOMAIN s.players :
              /\ m \notin PlayersOf(s.games[g]) => t.players[m] = s.players[m]
              /\ t.players[m].state = "WAIT" => s.players[m].state = "WAIT",
           ~t.games[g].over => Level(t.games[g], t.players[t.games[g].player1],
                                     t.players[t.games[g].player2])
    PROVE  Even(t)
<1>1. Unique(t)
  BY DEF Even, Unique, Steady
<1>2. \A h \in DOMAIN s.games : PlayersOf(t.games[h]) = PlayersOf(s.games[h])
  BY DEF PlayersOf
<1>3. \A m : GameOf(t, m) = GameOf(s, m)
  <2> TAKE m
  <2>1. GamesOf(t, m) = GamesOf(s, m)
    BY <1>2 DEF GamesOf
  <2> QED BY <2>1 DEF GameOf
<1>4. NamesFree(t)
  BY <1>3 DEF Even, NamesFree, Steady, HasPlayer
<1>5. Settled(t)
  BY <1>2 DEF Even, Settled, HasPlayer
<1>6. Matches(t)
  <2> SUFFICES ASSUME NEW h \in DOMAIN t.games, ~t.games[h].over
               PROVE  Level(t.games[h], t.players[t.games[h].player1], t.players[t.games[h].player2])
    BY DEF Matches
  <2>1. CASE h = g
    BY <2>1
  <2>2. CASE h # g
    <3>1. t.games[h] = s.games[h]
      BY <2>2
    <3>2. /\ s.games[h].player1 \in PlayersOf(s.games[h]) /\ s.games[h].player2 \in PlayersOf(s.games[h])
      BY DEF PlayersOf
    <3>3. \A m \in PlayersOf(s.games[h]) : m \notin PlayersOf(s.games[g])
      BY <2>2 DEF Lists, Apart
    <3>4. \A m \in PlayersOf(s.games[h]) : m \in DOMAIN s.players
      BY <3>1 DEF Lists, Engaged, HasPlayer
    <3>5. \A m \in PlayersOf(s.games[h]) : t.players[m] = s.players[m]
      BY <3>3, <3>4
    <3> QED BY <3>1, <3>2, <3>5 DEF Even, Matches
  <2> QED BY <2>1, <2>2
<1> QED BY <1>1, <1>4, <1>5, <1>6 DEF Even

\* Level in terms of a player and its opponent.
LEMMA LevelPair ==
    ASSUME NEW s, NEW g, NEW n, NEW o, Pair(s, g, n, o)
    PROVE  Level(s.games[g], s.players[s.games[g].player1], s.players[s.games[g].player2])
             <=> Level(s.games[g], s.players[n], s.players[o])
<1>1. \/ s.games[g].player1 = n /\ s.games[g].player2 = o
      \/ s.games[g].player1 = o /\ s.games[g].player2 = n
  BY DEF Pair, PlayersOf
<1>2. Level(s.games[g], s.players[o], s.players[n]) <=> Level(s.games[g], s.players[n], s.players[o])
  BY DEF Level
<1> QED BY <1>1, <1>2

------------------------------------------------------------------------------
(* The score: the games that a client has still to read the end of, and those *)
(* of them that it has won.                                                   *)

Overs(q) == Positions(q, "GAME_OVER")
Wons(q)  == {i \in Overs(q) : q[i].won}
IsOver(p) == p.type = "GAME_OVER"
IsWon(p)  == p.type = "GAME_OVER" /\ p.won

\* Counting does not depend on where one begins.
LEMMA Shifted ==
    ASSUME NEW n \in Nat, NEW T \in SUBSET (1 .. n)
    PROVE  LET U == {i + 1 : i \in T}
           IN  /\ IsFiniteSet(T) /\ Cardinality(T) \in Nat /\ Cardinality(U) = Cardinality(T)
               /\ Cardinality(U \cup {1}) = Cardinality(T) + 1
<1> DEFINE U == {i + 1 : i \in T}
           f == [i \in T |-> i + 1]
<1>1. IsFiniteSet(T) /\ Cardinality(T) \in Nat
  <2>1. IsFiniteSet(1 .. n)
    BY FS_Interval
  <2> QED BY <2>1, FS_Subset, FS_CardinalityType
<1>2. ExistsBijection(T, U)
  <2>1. f \in [T -> U] /\ \A i, j \in T : f[i] = f[j] => i = j
    OBVIOUS
  <2>2. \A u \in U : \E i \in T : f[i] = u
    OBVIOUS
  <2> HIDE DEF f, U
  <2> QED BY <2>1, <2>2 DEF ExistsBijection, Bijection, Injection, Surjection, IsInjective
<1>3. IsFiniteSet(U) /\ Cardinality(U) = Cardinality(T)
  BY <1>1, <1>2, FS_Bijection
<1>4. 1 \notin U
  OBVIOUS
<1> HIDE DEF U
<1>5. Cardinality(U \cup {1}) = Cardinality(T) + 1
  BY <1>3, <1>4, FS_AddElement
<1> QED BY <1>1, <1>3, <1>5 DEF U

LEMMA OversType ==
    ASSUME NEW q \in Seq(Packet)
    PROVE  /\ IsFiniteSet(Overs(q)) /\ IsFiniteSet(Wons(q))
           /\ Cardinality(Overs(q)) \in Nat /\ Cardinality(Wons(q)) \in Nat
           /\ Overs(q) \in SUBSET (1 .. Len(q)) /\ Wons(q) \in SUBSET (1 .. Len(q))
<1>1. Overs(q) \in SUBSET (1 .. Len(q)) /\ Wons(q) \in SUBSET (1 .. Len(q)) /\ Len(q) \in Nat
  BY DEF Overs, Wons, Positions
<1> QED BY <1>1, Shifted

LEMMA OversMore ==
    ASSUME NEW q \in Seq(Packet), NEW p \in Packet
    PROVE  LET r == Append(q, p)
           IN  /\ Overs(r) = IF IsOver(p) THEN Overs(q) \cup {Len(q) + 1} ELSE Overs(q)
               /\ Cardinality(Overs(r)) = Cardinality(Overs(q)) + IF IsOver(p) THEN 1 ELSE 0
               /\ Cardinality(Wons(r)) = Cardinality(Wons(q)) + IF IsWon(p) THEN 1 ELSE 0
<1> DEFINE n == Len(q)
           r == Append(q, p)
<1>1. n \in Nat /\ Len(r) = n + 1 /\ r[n + 1] = p /\ \A i \in 1 .. n : r[i] = q[i]
  BY AppendProperties
<1>2. \A i : i \in 1 .. n + 1 <=> (i \in 1 .. n \/ i = n + 1)
  BY <1>1
<1>3. n + 1 \notin 1 .. n
  BY <1>1
<1>4. /\ Overs(q) = {i \in 1 .. n : IsOver(q[i])} /\ Wons(q) = {i \in 1 .. n : IsWon(q[i])}
      /\ Overs(r) = {i \in 1 .. Len(r) : IsOver(r[i])} /\ Wons(r) = {i \in 1 .. Len(r) : IsWon(r[i])}
  BY DEF Overs, Wons, Positions, IsOver, IsWon
<1>5. /\ IsFiniteSet(Overs(q)) /\ IsFiniteSet(Wons(q))
      /\ Cardinality(Overs(q)) \in Nat /\ Cardinality(Wons(q)) \in Nat
  BY OversType
<1> HIDE DEF n, r
<1>6. /\ Overs(r) = IF IsOver(p) THEN Overs(q) \cup {n + 1} ELSE Overs(q)
      /\ Wons(r) = IF IsWon(p) THEN Wons(q) \cup {n + 1} ELSE Wons(q)
      /\ n + 1 \notin Overs(q) /\ n + 1 \notin Wons(q)
  BY <1>1, <1>2, <1>3, <1>4
<1>7. /\ Cardinality(Overs(q) \cup {n + 1}) = Cardinality(Overs(q)) + 1
      /\ Cardinality(Wons(q) \cup {n + 1}) = Cardinality(Wons(q)) + 1
  BY <1>5, <1>6, FS_AddElement
<1> QED BY <1>5, <1>6, <1>7 DEF n, r

LEMMA OversOn ==
    ASSUME NEW q \in Seq(Packet), q # << >>
    PROVE  LET r == Tail(q)
           IN  /\ r \in Seq(Packet) /\ Len(r) \in Nat /\ Len(q) = Len(r) + 1
               /\ q[1] = Head(q) /\ \A i \in 1 .. Len(r) : i + 1 \in 1 .. Len(q) /\ q[i + 1] = r[i]
               /\ Cardinality(Overs(q)) = Cardinality(Overs(r)) + IF IsOver(Head(q)) THEN 1 ELSE 0
               /\ Cardinality(Wons(q)) = Cardinality(Wons(r)) + IF IsWon(Head(q)) THEN 1 ELSE 0
<1> DEFINE r == Tail(q)
           n == Len(r)
           p == Head(q)
<1>1. /\ r \in Seq(Packet) /\ n \in Nat /\ Len(q) = n + 1 /\ q[1] = p
      /\ \A i \in 1 .. n : q[i + 1] = r[i]
  <2>1. /\ Len(q) \in Nat /\ Len(q) >= 1 /\ Len(r) = Len(q) - 1 /\ p = q[1] /\ r \in Seq(Packet)
        /\ \A i \in 1 .. Len(q) - 1 : r[i] = q[i + 1]
    BY HeadTailProperties
  <2> HIDE DEF r, p
  <2> QED BY <2>1
<1> DEFINE S == Overs(r)
           W == Wons(r)
<1>2. /\ Overs(q) = {i \in 1 .. Len(q) : IsOver(q[i])} /\ Wons(q) = {i \in 1 .. Len(q) : IsWon(q[i])}
      /\ S = {i \in 1 .. n : IsOver(r[i])} /\ W = {i \in 1 .. n : IsWon(r[i])}
  BY DEF Overs, Wons, Positions, IsOver, IsWon
<1> HIDE DEF r, n, p, S, W
<1>3. \A i \in 1 .. n + 1 : i = 1 \/ (i - 1 \in 1 .. n /\ q[i] = r[i - 1] /\ i = (i - 1) + 1)
  <2> TAKE i \in 1 .. n + 1
  <2>1. i # 1 => i - 1 \in 1 .. n /\ i = (i - 1) + 1
    BY <1>1
  <2> QED BY <1>1, <2>1
<1>4. \A i \in 1 .. n : i + 1 \in 1 .. n + 1 /\ i + 1 # 1
  BY <1>1
<1>5. 1 \in 1 .. n + 1
  BY <1>1
<1>6. Overs(q) = IF IsOver(p) THEN {i + 1 : i \in S} \cup {1} ELSE {i + 1 : i \in S}
  BY <1>1, <1>2, <1>3, <1>4, <1>5
<1>7. Wons(q) = IF IsWon(p) THEN {i + 1 : i \in W} \cup {1} ELSE {i + 1 : i \in W}
  BY <1>1, <1>2, <1>3, <1>4, <1>5
<1>8. S \in SUBSET (1 .. n) /\ W \in SUBSET (1 .. n)
  BY <1>2
<1>9. /\ Cardinality({i + 1 : i \in S}) = Cardinality(S) /\ Cardinality(S) \in Nat
      /\ Cardinality({i + 1 : i \in S} \cup {1}) = Cardinality(S) + 1
      /\ Cardinality({i + 1 : i \in W}) = Cardinality(W) /\ Cardinality(W) \in Nat
      /\ Cardinality({i + 1 : i \in W} \cup {1}) = Cardinality(W) + 1
  BY <1>1, <1>8, Shifted
<1>10. /\ Cardinality(Overs(q)) = Cardinality(S) + IF IsOver(p) THEN 1 ELSE 0
       /\ Cardinality(Wons(q)) = Cardinality(W) + IF IsWon(p) THEN 1 ELSE 0
  BY <1>6, <1>7, <1>9
<1> QED BY <1>1, <1>4, <1>10 DEF r, n, p, S, W

\* A client that has counted tl and has q still to read will have counted what
\* the server credits its player with, or is told at the end, when it has gone.
Tally == [wins : Int, games : Int, errors : SUBSET {"ET_UNKNOWN", "ET_INVALID_MAP"},
          final : SUBSET Int]
Tallied(gone, wins, played, q, tl) ==
    LET w == tl.wins + Cardinality(Wons(q))
        p == tl.games + Cardinality(Overs(q))
    IN  /\ ~gone => w = wins /\ p = played /\ Positions(q, "ALL_OVER") = {}
        /\ \A i \in Positions(q, "ALL_OVER") :
              q[i].wins = w /\ p = MaxGames /\ \A j \in Overs(q) : j < i

\* The type of a packet that is no part of the score.
Plain(p) == p \in Packet /\ p.type \notin {"GAME_OVER", "ALL_OVER"}

LEMMA AllOversMore ==
    ASSUME NEW q \in Seq(Packet), NEW p \in Packet
    PROVE  LET r == Append(q, p)
           IN  /\ Positions(r, "ALL_OVER") = IF p.type = "ALL_OVER"
                                               THEN Positions(q, "ALL_OVER") \cup {Len(q) + 1}
                                               ELSE Positions(q, "ALL_OVER")
               /\ Len(q) \in Nat /\ r[Len(q) + 1] = p /\ \A i \in 1 .. Len(q) : r[i] = q[i]
               /\ Positions(q, "ALL_OVER") \in SUBSET (1 .. Len(q))
               /\ \A i \in 1 .. Len(q) : i < Len(q) + 1
<1> DEFINE n == Len(q)
           r == Append(q, p)
<1>1. n \in Nat /\ Len(r) = n + 1 /\ r[n + 1] = p /\ \A i \in 1 .. n : r[i] = q[i]
  BY AppendProperties
<1>2. \A i : i \in 1 .. n + 1 <=> (i \in 1 .. n \/ i = n + 1)
  BY <1>1
<1>3. n + 1 \notin 1 .. n /\ \A i \in 1 .. n : i < n + 1
  BY <1>1
<1>4. /\ Positions(q, "ALL_OVER") = {i \in 1 .. n : q[i].type = "ALL_OVER"}
      /\ Positions(r, "ALL_OVER") = {i \in 1 .. Len(r) : r[i].type = "ALL_OVER"}
  BY DEF Positions
<1> HIDE DEF n, r
<1>5. Positions(r, "ALL_OVER") = IF p.type = "ALL_OVER"
                                   THEN Positions(q, "ALL_OVER") \cup {n + 1}
                                   ELSE Positions(q, "ALL_OVER")
  BY <1>1, <1>2, <1>3, <1>4
<1>6. Positions(q, "ALL_OVER") \in SUBSET (1 .. n)
  BY <1>4
<1> QED BY <1>1, <1>3, <1>5, <1>6 DEF n, r

\* A packet that is no part of the score.
LEMMA TalliedPlain ==
    ASSUME NEW gone, NEW wins, NEW played, NEW q \in Seq(Packet), NEW tl \in Tally,
           Tallied(gone, wins, played, q, tl), NEW p, Plain(p)
    PROVE  Tallied(gone, wins, played, Append(q, p), tl)
<1> DEFINE r == Append(q, p)
<1>1. p \in Packet /\ ~IsOver(p) /\ ~IsWon(p) /\ p.type # "ALL_OVER"
  BY DEF Plain, IsOver, IsWon
<1>2. /\ Overs(r) = Overs(q) /\ Cardinality(Overs(q)) \in Nat /\ Cardinality(Wons(q)) \in Nat
      /\ Cardinality(Overs(r)) = Cardinality(Overs(q)) + 0
      /\ Cardinality(Wons(r)) = Cardinality(Wons(q)) + 0
  BY <1>1, OversMore, OversType
<1>3. /\ Positions(r, "ALL_OVER") = Positions(q, "ALL_OVER")
      /\ \A i \in Positions(q, "ALL_OVER") : r[i] = q[i]
  BY <1>1, AllOversMore
<1> HIDE DEF r
<1>4. Cardinality(Overs(r)) = Cardinality(Overs(q)) /\ Cardinality(Wons(r)) = Cardinality(Wons(q))
  BY <1>2
<1>5. Tallied(gone, wins, played, r, tl)
  BY <1>2, <1>3, <1>4 DEF Tallied
<1> QED BY <1>5 DEF r

\* The end of a game.
LEMMA TalliedOver ==
    ASSUME NEW gone, ~gone, NEW wins \in Int, NEW played \in Int, NEW q \in Seq(Packet),
           NEW tl \in Tally, Tallied(gone, wins, played, q, tl),
           NEW p \in Packet, p.type = "GAME_OVER"
    PROVE  Tallied(gone, wins + (IF p.won THEN 1 ELSE 0), played + 1, Append(q, p), tl)
<1> DEFINE r == Append(q, p)
<1>1. IsOver(p) /\ (IsWon(p) <=> p.won)
  BY DEF IsOver, IsWon
<1>2. /\ Cardinality(Overs(q)) \in Nat /\ Cardinality(Wons(q)) \in Nat
      /\ Cardinality(Overs(r)) = Cardinality(Overs(q)) + 1
      /\ Cardinality(Wons(r)) = Cardinality(Wons(q)) + IF p.won THEN 1 ELSE 0
  BY <1>1, OversMore, OversType
<1>3. Positions(q, "ALL_OVER") = {} /\ Positions(r, "ALL_OVER") = Positions(q, "ALL_OVER")
  BY AllOversMore DEF Tallied
<1>4. /\ tl.wins + Cardinality(Wons(q)) = wins /\ tl.games + Cardinality(Overs(q)) = played
      /\ tl.wins \in Int /\ tl.games \in Int
  BY DEF Tallied, Tally
<1> HIDE DEF r
<1>5. /\ tl.wins + Cardinality(Wons(r)) = wins + (IF p.won THEN 1 ELSE 0)
      /\ tl.games + Cardinality(Overs(r)) = played + 1
  BY <1>2, <1>4
<1>6. Tallied(gone, wins + (IF p.won THEN 1 ELSE 0), played + 1, r, tl)
  BY <1>3, <1>5 DEF Tallied
<1> QED BY <1>6 DEF r

\* The end of a match.
LEMMA TalliedAllOver ==
    ASSUME NEW gone, ~gone, NEW wins \in Int, NEW q \in Seq(Packet), NEW tl \in Tally,
           Tallied(gone, wins, MaxGames, q, tl), NEW p \in Packet, p.type = "ALL_OVER",
           p.wins = wins, NEW later, later, NEW a, NEW b
    PROVE  Tallied(later, a, b, Append(q, p), tl)
<1> DEFINE r == Append(q, p)
           n == Len(q)
<1>1. ~IsOver(p) /\ ~IsWon(p)
  BY DEF IsOver, IsWon
<1>2. /\ Overs(r) = Overs(q) /\ Cardinality(Overs(q)) \in Nat /\ Cardinality(Wons(q)) \in Nat
      /\ Cardinality(Overs(r)) = Cardinality(Overs(q)) + 0
      /\ Cardinality(Wons(r)) = Cardinality(Wons(q)) + 0
      /\ Overs(q) \in SUBSET (1 .. n)
  BY <1>1, OversMore, OversType
<1>3. /\ Positions(q, "ALL_OVER") = {} /\ Positions(r, "ALL_OVER") = {} \cup {n + 1}
      /\ r[n + 1] = p /\ \A i \in 1 .. n : i < n + 1
  BY AllOversMore DEF Tallied
<1>4. tl.wins + Cardinality(Wons(q)) = wins /\ tl.games + Cardinality(Overs(q)) = MaxGames
  BY DEF Tallied
<1> HIDE DEF r, n
<1>5. Cardinality(Overs(r)) = Cardinality(Overs(q)) /\ Cardinality(Wons(r)) = Cardinality(Wons(q))
  BY <1>2
<1>6. \A j \in Overs(r) : j < n + 1
  BY <1>2, <1>3
<1>7. Tallied(later, a, b, r, tl)
  BY <1>3, <1>4, <1>5, <1>6 DEF Tallied
<1> QED BY <1>7 DEF r

\* A packet is read, and the end of a game is counted.
LEMMA TalliedRead ==
    ASSUME NEW gone, NEW wins, NEW played, NEW q \in Seq(Packet), q # << >>, NEW tl \in Tally,
           Tallied(gone, wins, played, q, tl), NEW t \in Tally,
           t.games = tl.games + IF IsOver(Head(q)) THEN 1 ELSE 0,
           t.wins = tl.wins + IF IsWon(Head(q)) THEN 1 ELSE 0
    PROVE  Tallied(gone, wins, played, Tail(q), t)
<1> DEFINE r == Tail(q)
           n == Len(r)
           p == Head(q)
<1>1. /\ r \in Seq(Packet) /\ n \in Nat /\ Len(q) = n + 1
      /\ \A i \in 1 .. n : i + 1 \in 1 .. Len(q) /\ q[i + 1] = r[i]
      /\ Cardinality(Overs(q)) = Cardinality(Overs(r)) + IF IsOver(p) THEN 1 ELSE 0
      /\ Cardinality(Wons(q)) = Cardinality(Wons(r)) + IF IsWon(p) THEN 1 ELSE 0
  BY OversOn
<1>2. Cardinality(Overs(r)) \in Nat /\ Cardinality(Wons(r)) \in Nat
  BY <1>1, OversType
<1>3. /\ Positions(q, "ALL_OVER") = {i \in 1 .. Len(q) : q[i].type = "ALL_OVER"}
      /\ Positions(r, "ALL_OVER") = {i \in 1 .. n : r[i].type = "ALL_OVER"}
      /\ Overs(q) = {i \in 1 .. Len(q) : q[i].type = "GAME_OVER"}
      /\ Overs(r) = {i \in 1 .. n : r[i].type = "GAME_OVER"}
  BY DEF Positions, Overs
<1>4. /\ tl.wins \in Int /\ tl.games \in Int
      /\ t.games = tl.games + (IF IsOver(p) THEN 1 ELSE 0)
      /\ t.wins = tl.wins + (IF IsWon(p) THEN 1 ELSE 0)
  BY DEF Tally
<1> HIDE DEF r, n, p
<1>5. /\ t.wins + Cardinality(Wons(r)) = tl.wins + Cardinality(Wons(q))
      /\ t.games + Cardinality(Overs(r)) = tl.games + Cardinality(Overs(q))
  BY <1>1, <1>2, <1>4
<1>6. \A i \in Positions(r, "ALL_OVER") : i + 1 \in Positions(q, "ALL_OVER") /\ q[i + 1] = r[i]
  BY <1>1, <1>3
<1>7. \A j \in Overs(r) : j + 1 \in Overs(q)
  BY <1>1, <1>3
<1>8. \A i, j \in 1 .. n : j + 1 < i + 1 => j < i
  BY <1>1
<1>9. \A i \in Positions(r, "ALL_OVER") : \A j \in Overs(r) :
         (\A k \in Overs(q) : k < i + 1) => j < i
  BY <1>3, <1>7, <1>8
<1>10. Tallied(gone, wins, played, r, t)
  BY <1>5, <1>6, <1>9 DEF Tallied
<1> QED BY <1>10 DEF r

\* The total is read.
LEMMA TalliedTotal ==
    ASSUME NEW gone, NEW wins, NEW played, NEW q \in Seq(Packet), q # << >>, NEW tl \in Tally,
           Tallied(gone, wins, played, q, tl), Head(q).type = "ALL_OVER"
    PROVE  Head(q).wins = tl.wins /\ tl.games = MaxGames
<1>1. q[1] = Head(q) /\ 1 \in 1 .. Len(q)
  BY OversOn
<1>2. 1 \in Positions(q, "ALL_OVER")
  BY <1>1 DEF Positions
<1>3. \A j \in Overs(q) : FALSE
  <2>1. \A j \in Overs(q) : j < 1
    BY <1>2 DEF Tallied
  <2>2. \A j \in 1 .. Len(q) : ~(j < 1)
    OBVIOUS
  <2> QED BY <2>1, <2>2, OversType
<1>4. Overs(q) = {} /\ Wons(q) = {}
  BY <1>3 DEF Wons
<1>5. Cardinality(Overs(q)) = 0 /\ Cardinality(Wons(q)) = 0
  BY <1>4, FS_EmptySet
<1>6. tl.wins \in Int /\ tl.games \in Int
  BY DEF Tally
<1> QED BY <1>1, <1>2, <1>5, <1>6 DEF Tallied

------------------------------------------------------------------------------
(* What the server credits a player with, and what keeps the score.           *)

Gone(s, n)   == HasPlayer(s, n) /\ s.players[n].state # "WAIT" /\ ~InGame(s, n)
Wins(s, n)   == IF HasPlayer(s, n) THEN s.players[n].wins ELSE 0
Past(x)      == x.tries - 1
Played(s, n) == IF InGame(s, n) THEN Past(s.games[GameOf(s, n)]) ELSE 0
Counts(s, c, w, tl) ==
    LET n == s.link[c].id
    IN  Tallied(Gone(s, n), Wins(s, n), Played(s, n), Pending(s, c, w), tl)

\* Who waits has won nothing; of the games before this one each was won.
Shared(x, a, b) == x.tries \in 1 .. MaxGames /\ a.wins + b.wins = Past(x)
Credits(s) ==
    /\ \A n \in DOMAIN s.players : s.players[n].state = "WAIT" => s.players[n].wins = 0
    /\ \A g \in DOMAIN s.games : ~s.games[g].over =>
          Shared(s.games[g], s.players[s.games[g].player1], s.players[s.games[g].player2])

\* The score is kept.
Rates(s, t) ==
    Credits(s) => /\ Credits(t)
                  /\ \A d \in Client : \A w \in Seq(Packet) : \A tl \in Tally :
                        t.link[d].up /\ Counts(s, d, w, tl) => Counts(t, d, w, tl)

LEMMA RatesOn ==
    ASSUME NEW s, NEW t, NEW u, Rates(s, t), Rates(t, u),
           \A d \in Client : u.link[d].up => t.link[d].up
    PROVE  Rates(s, u)
  BY DEF Rates

\* A player stands as it did.
Stands(s, t, m) == /\ Gone(t, m) = Gone(s, m) /\ Wins(t, m) = Wins(s, m)
                   /\ Played(t, m) = Played(s, m)

LEMMA CountsSame ==
    ASSUME NEW s, NEW t, NEW c, t.link[c].id = s.link[c].id, Stands(s, t, s.link[c].id),
           NEW w, Pending(t, c, w) = Pending(s, c, w), NEW tl, Counts(s, c, w, tl)
    PROVE  Counts(t, c, w, tl)
  BY DEF Counts, Stands

LEMMA PlainKinds ==
    /\ Plain(Ok) /\ Plain(GameStart) /\ Plain(MyTurn) /\ Plain(NextGame)
    /\ Plain(ErrorPacket("ET_UNKNOWN"))
    /\ \A c \in Cell : \A mine \in BOOLEAN : \A r \in Result : Plain(Attacked(c, mine, r))
<1>1. /\ Ok.type = "OK" /\ GameStart.type = "GAME_START" /\ MyTurn.type = "MY_TURN"
      /\ NextGame.type = "NEXT_GAME" /\ ErrorPacket("ET_UNKNOWN").type = "ERROR"
      /\ \A c, mine, r : Attacked(c, mine, r).type = "ATTACK_RESULT"
  BY DEF Ok, GameStart, MyTurn, NextGame, ErrorPacket, Attacked
<1> QED BY <1>1, PacketKinds DEF Plain

\* The packets p and at most two more, which are no part of the score.
Plainly(p, q) ==
    q = p \/ \E a : Plain(a) /\ (q = Append(p, a) \/ \E b : Plain(b) /\ q = Append(Append(p, a), b))

LEMMA TalliedPlains ==
    ASSUME NEW gone, NEW wins, NEW played, NEW p \in Seq(Packet), NEW tl \in Tally,
           Tallied(gone, wins, played, p, tl), NEW q, Plainly(p, q)
    PROVE  q \in Seq(Packet) /\ Tallied(gone, wins, played, q, tl)
<1>1. \A v \in Seq(Packet) : \A a : Plain(a) /\ Tallied(gone, wins, played, v, tl)
         => Append(v, a) \in Seq(Packet) /\ Tallied(gone, wins, played, Append(v, a), tl)
  BY AppendProperties, TalliedPlain DEF Plain
<1> QED BY <1>1 DEF Plainly

LEMMA PlainRates ==
    ASSUME NEW s, Links(s), NEW t, Steady(s, t), Credits(s) => Credits(t), \A m : Stands(s, t, m),
           \A d \in Client : \A w \in Seq(Packet) :
              s.link[d].up => Plainly(Pending(s, d, w), Pending(t, d, w))
    PROVE  Rates(s, t)
<1> SUFFICES ASSUME NEW d \in Client, NEW w \in Seq(Packet), NEW tl \in Tally,
                    t.link[d].up, Counts(s, d, w, tl)
             PROVE  Counts(t, d, w, tl)
  BY DEF Rates
<1> DEFINE p == Pending(s, d, w)
           q == Pending(t, d, w)
           n == s.link[d].id
<1>1. s.link[d].up /\ t.link[d].id = n /\ Stands(s, t, n) /\ Plainly(p, q) /\ p \in Seq(Packet)
  BY PendingType DEF Steady
<1>2. Tallied(Gone(t, n), Wins(t, n), Played(t, n), p, tl)
  BY <1>1 DEF Counts, Stands
<1> HIDE DEF p, q, n
<1>3. Tallied(Gone(t, n), Wins(t, n), Played(t, n), q, tl)
  BY <1>1, <1>2, TalliedPlains
<1> QED BY <1>1, <1>3 DEF Counts, q, n

LEMMA PairStands ==
    ASSUME NEW s, NEW g, NEW n, NEW o, Pair(s, g, n, o)
    PROVE  /\ ~Gone(s, n) /\ Wins(s, n) = s.players[n].wins
           /\ Played(s, n) = Past(s.games[g])
<1>1. InGame(s, n) /\ HasPlayer(s, n) /\ GameOf(s, n) = g
  BY DEF Pair, InGame
<1> QED BY <1>1 DEF Gone, Wins, Played

LEMMA PairStays ==
    ASSUME NEW s, NEW D, Lists(s, D), NEW g \in DOMAIN s.games, ~s.games[g].over, NEW n, NEW o,
           PlayersOf(s.games[g]) = {n, o}, n # o
    PROVE  Pair(s, g, n, o)
<1>1. Pair(s, g, n, Opponent(s.games[g], n))
  BY PairOf
<1>2. Opponent(s.games[g], n) = o
  BY <1>1 DEF Pair
<1> QED BY <1>1, <1>2

LEMMA SharedPair ==
    ASSUME NEW s, Lists(s, {}), NEW g, NEW n, NEW o, Pair(s, g, n, o), NEW x,
           x.player1 = s.games[g].player1, x.player2 = s.games[g].player2,
           NEW p, p[n].wins \in Int, p[o].wins \in Int
    PROVE  Shared(x, p[x.player1], p[x.player2]) <=> Shared(x, p[n], p[o])
<1>1. \/ x.player1 = n /\ x.player2 = o
      \/ x.player1 = o /\ x.player2 = n
  BY DEF Pair, PlayersOf
<1>2. p[n].wins + p[o].wins = p[o].wins + p[n].wins
  OBVIOUS
<1> QED BY <1>1, <1>2 DEF Shared

\* Nothing that the score depends on changes.
LEMMA StandsKept ==
    ASSUME NEW s, NEW D, Lists(s, D), NEW t, DOMAIN t.players = DOMAIN s.players,
           DOMAIN t.games = DOMAIN s.games,
           \A h \in DOMAIN s.games : /\ t.games[h].player1 = s.games[h].player1
                                     /\ t.games[h].player2 = s.games[h].player2
                                     /\ t.games[h].over = s.games[h].over
                                     /\ t.games[h].tries = s.games[h].tries,
           \A m \in DOMAIN s.players : /\ t.players[m].wins = s.players[m].wins
                                       /\ t.players[m].state = "WAIT" <=> s.players[m].state = "WAIT"
    PROVE  /\ \A m : Stands(s, t, m)
           /\ Credits(s) => Credits(t)
<1>1. \A m : GameOf(t, m) = GameOf(s, m)
  <2> TAKE m
  <2>1. \A h \in DOMAIN s.games : PlayersOf(t.games[h]) = PlayersOf(s.games[h])
    BY DEF PlayersOf
  <2>2. GamesOf(t, m) = GamesOf(s, m)
    BY <2>1 DEF GamesOf
  <2> QED BY <2>2 DEF GameOf
<1>2. ASSUME NEW m PROVE Stands(s, t, m)
  <2>1. GameOf(s, m) # None => GameOf(s, m) \in DOMAIN s.games
    BY GameOfFound DEF Lists
  <2>2. InGame(t, m) <=> InGame(s, m)
    BY <1>1, <2>1 DEF InGame
  <2>3. Played(t, m) = Played(s, m)
    BY <1>1, <2>1, <2>2 DEF Played, Past, InGame
  <2>4. Wins(t, m) = Wins(s, m)
    BY DEF Wins, HasPlayer
  <2>5. Gone(t, m) = Gone(s, m)
    BY <2>2 DEF Gone, HasPlayer
  <2> QED BY <2>3, <2>4, <2>5 DEF Stands
<1>3. ASSUME Credits(s) PROVE Credits(t)
  <2>1. ASSUME NEW h \in DOMAIN s.games, ~s.games[h].over
        PROVE  Shared(t.games[h], t.players[s.games[h].player1], t.players[s.games[h].player2])
    <3>1. s.games[h].player1 \in DOMAIN s.players /\ s.games[h].player2 \in DOMAIN s.players
      BY <2>1 DEF Lists, Engaged, PlayersOf, HasPlayer
    <3>2. Shared(s.games[h], s.players[s.games[h].player1], s.players[s.games[h].player2])
      BY <1>3, <2>1 DEF Credits
    <3> QED BY <3>1, <3>2 DEF Shared, Past
  <2> QED BY <1>3, <2>1 DEF Credits
<1> QED BY <1>2, <1>3

LEMMA ListsStand ==
    ASSUME NEW s, NEW D, Lists(s, D), NEW t, t.players = s.players, t.games = s.games
    PROVE  (\A m : Stands(s, t, m)) /\ (Credits(s) => Credits(t))
  BY StandsKept

\* Only one game, and its players, change.
LEMMA OthersStand ==
    ASSUME NEW s, NEW D, Lists(s, D), NEW t, DOMAIN t.games = DOMAIN s.games,
           NEW g \in DOMAIN s.games, PlayersOf(t.games[g]) = PlayersOf(s.games[g]),
           \A h \in DOMAIN s.games : h # g => t.games[h] = s.games[h],
           NEW m, m \notin PlayersOf(s.games[g]), HasPlayer(t, m) <=> HasPlayer(s, m),
           HasPlayer(s, m) => t.players[m] = s.players[m]
    PROVE  Stands(s, t, m)
<1>1. \A h \in DOMAIN s.games : PlayersOf(t.games[h]) = PlayersOf(s.games[h])
  OBVIOUS
<1>2. GamesOf(t, m) = GamesOf(s, m)
  BY <1>1 DEF GamesOf
<1>3. GameOf(t, m) = GameOf(s, m)
  BY <1>2 DEF GameOf
<1>4. GameOf(s, m) # None => t.games[GameOf(s, m)] = s.games[GameOf(s, m)]
  BY GameOfFound DEF Lists
<1>5. (InGame(t, m) <=> InGame(s, m)) /\ Played(t, m) = Played(s, m)
  BY <1>3, <1>4 DEF InGame, Played
<1> QED BY <1>5 DEF Stands, Gone, Wins

\* What the two players of game g are credited with and told.
Scored(s, g, d, w, tl) ==
    Tallied(s.games[g].over, s.players[s.link[d].id].wins, Past(s.games[g]),
            Pending(s, d, w), tl)

\* A step within game g, whose players n and o stay.
Within(s, t, g, n, o) ==
    /\ Lists(t, {}) /\ Steady(s, t)
    /\ DOMAIN t.players = DOMAIN s.players /\ DOMAIN t.games = DOMAIN s.games
    /\ \A h \in DOMAIN s.games : /\ t.games[h].player1 = s.games[h].player1
                                 /\ t.games[h].player2 = s.games[h].player2
                                 /\ h # g => t.games[h] = s.games[h]
    /\ \A m \in DOMAIN s.players : m \notin {n, o} => t.players[m] = s.players[m]

LEMMA GameRates ==
    ASSUME NEW s, Lists(s, {}), NEW g, NEW n, NEW o, Pair(s, g, n, o),
           NEW t, Within(s, t, g, n, o), t.players[n].state # "WAIT", t.players[o].state # "WAIT",
           \A d \in Client : \A w \in Seq(Packet) :
              s.link[d].up /\ s.link[d].id \notin {n, o} => Pending(t, d, w) = Pending(s, d, w),
           Shared(s.games[g], s.players[n], s.players[o]) =>
              /\ ~t.games[g].over => Shared(t.games[g], t.players[n], t.players[o])
              /\ \A d \in Client : \A w \in Seq(Packet) : \A tl \in Tally :
                    s.link[d].up /\ s.link[d].id \in {n, o} /\ Scored(s, g, d, w, tl)
                       => Scored(t, g, d, w, tl)
    PROVE  Rates(s, t)
<1> USE DEF Within
<1> SUFFICES ASSUME Credits(s)
             PROVE  /\ Credits(t)
                    /\ \A d \in Client : \A w \in Seq(Packet) : \A tl \in Tally :
                          t.link[d].up /\ Counts(s, d, w, tl) => Counts(t, d, w, tl)
  BY DEF Rates
<1>1. /\ g \in DOMAIN s.games /\ ~s.games[g].over /\ PlayersOf(s.games[g]) = {n, o} /\ n # o
      /\ HasPlayer(s, n) /\ HasPlayer(s, o)
  BY DEF Pair
<1>2. PlayersOf(t.games[g]) = {n, o}
  BY <1>1 DEF PlayersOf
<1>3. /\ s.players[n].wins \in Int /\ s.players[o].wins \in Int
      /\ t.players[n].wins \in Int /\ t.players[o].wins \in Int
  BY <1>1 DEF Lists, Players, APlayer, HasPlayer
<1>4. Shared(s.games[g], s.players[n], s.players[o])
  <2>1. Shared(s.games[g], s.players[s.games[g].player1], s.players[s.games[g].player2])
    BY <1>1 DEF Credits
  <2> QED BY <1>3, <2>1, SharedPair
<1>7. Credits(t)
  <2>1. ASSUME NEW m \in DOMAIN t.players, t.players[m].state = "WAIT"
        PROVE  t.players[m].wins = 0
    BY <2>1 DEF Credits
  <2>2. ASSUME NEW h \in DOMAIN t.games, ~t.games[h].over
        PROVE  Shared(t.games[h], t.players[t.games[h].player1], t.players[t.games[h].player2])
    <3>1. CASE h = g
      <4>1. Shared(t.games[g], t.players[n], t.players[o])
        BY <1>4, <2>2, <3>1
      <4> QED BY <1>1, <1>3, <3>1, <4>1, SharedPair
    <3>2. CASE h # g
      <4>1. t.games[h] = s.games[h]
        BY <3>2
      <4>2. /\ s.games[h].player1 \in PlayersOf(s.games[h])
            /\ s.games[h].player2 \in PlayersOf(s.games[h])
        BY DEF PlayersOf
      <4>3. \A m \in PlayersOf(s.games[h]) : m \notin {n, o} /\ m \in DOMAIN s.players
        BY <1>1, <2>2, <3>2, <4>1 DEF Lists, Apart, Engaged, HasPlayer
      <4>4. \A m \in PlayersOf(s.games[h]) : t.players[m] = s.players[m]
        BY <4>3
      <4> QED BY <2>2, <4>1, <4>2, <4>4 DEF Credits
    <3> QED BY <3>1, <3>2
  <2> QED BY <2>1, <2>2 DEF Credits
<1>5. Pair(s, g, o, n)
  BY PairTurned
<1>8. ~Gone(s, n) /\ Wins(s, n) = s.players[n].wins /\ Played(s, n) = Past(s.games[g])
  BY PairStands
<1>9. ~Gone(s, o) /\ Wins(s, o) = s.players[o].wins /\ Played(s, o) = Past(s.games[g])
  BY <1>5, PairStands
<1>6. ASSUME NEW d \in Client, NEW w \in Seq(Packet), NEW tl \in Tally,
             t.link[d].up, Counts(s, d, w, tl)
      PROVE  Counts(t, d, w, tl)
  <2> DEFINE m == s.link[d].id
  <2>1. s.link[d].up /\ t.link[d].id = m
    BY <1>6 DEF Steady
  <2>2. CASE m \in {n, o}
    <3>1. ~Gone(s, m) /\ Wins(s, m) = s.players[m].wins /\ Played(s, m) = Past(s.games[g])
      <4>1. CASE m = n
        BY <1>8, <4>1
      <4>2. CASE m = o
        BY <1>9, <4>2
      <4> QED BY <2>2, <4>1, <4>2
    <3>2. Scored(t, g, d, w, tl)
      <4>1. Scored(s, g, d, w, tl)
        BY <1>1, <1>6, <3>1 DEF Counts, Scored, Tallied
      <4> QED BY <1>4, <2>1, <2>2, <4>1
    <3>3. CASE ~t.games[g].over
      <4>1. Pair(t, g, n, o)
        BY <1>1, <1>2, <3>3, PairStays
      <4>2. ~Gone(t, m) /\ Wins(t, m) = t.players[m].wins /\ Played(t, m) = Past(t.games[g])
        <5>1. Pair(t, g, o, n)
          BY <4>1, PairTurned
        <5>2. CASE m = n
          BY <4>1, <5>2, PairStands
        <5>3. CASE m = o
          BY <5>1, <5>3, PairStands
        <5> QED BY <2>2, <5>2, <5>3
      <4> QED BY <2>1, <3>2, <3>3, <4>2 DEF Counts, Scored, Tallied
    <3>4. CASE t.games[g].over
      <4>1. GameOf(t, m) = g
        BY <1>1, <1>2, <2>2, GameIs DEF Lists
      <4>2. Gone(t, m)
        BY <1>1, <2>2, <3>4, <4>1 DEF Gone, InGame, HasPlayer
      <4> QED BY <2>1, <3>2, <3>4, <4>2 DEF Counts, Scored, Tallied
    <3> QED BY <3>3, <3>4
  <2>3. CASE m \notin {n, o}
    <3>1. Stands(s, t, m)
      <4>1. (HasPlayer(t, m) <=> HasPlayer(s, m)) /\ (HasPlayer(s, m) => t.players[m] = s.players[m])
        BY <2>3 DEF HasPlayer
      <4> HIDE DEF m
      <4> QED BY <1>1, <1>2, <2>3, <4>1, OthersStand
    <3>2. Pending(t, d, w) = Pending(s, d, w)
      BY <2>1, <2>3
    <3> QED BY <1>6, <2>1, <3>1, <3>2, CountsSame
  <2> QED BY <2>2, <2>3
<1> QED BY <1>6, <1>7

------------------------------------------------------------------------------
(* SUBMIT_NAME. *)

LEMMA NameCarries ==
    ASSUME NEW s, NEW D, Lists(s, D), Even(s), NEW c \in Client, s.link[c].up,
           Role(s, s.link[c].id) = "name"
    PROVE  LET t == HandleSubmitName(s, c)
           IN  Even(t) /\ Steady(s, t) /\ Carries(s, t, c) /\ Rates(s, t)
<1> DEFINE n == s.link[c].id
           r == SetPlayer(s, n, NewPlayer)
           t == HandleSubmitName(s, c)
<1>1. ~HasPlayer(s, n) /\ GameOf(s, n) = None
  <2>1. ~HasPlayer(s, n)
    BY RoleSays
  <2> QED BY <2>1 DEF Even, NamesFree
<1>2. \A g \in DOMAIN s.games : n \notin PlayersOf(s.games[g])
  BY <1>1, GameOfFound DEF Lists
<1>3. t = Send(r, Note(n, Ok))
  BY <1>1 DEF HandleSubmitName, NotifyOk, Note
<1>4. /\ Server(r) /\ r.link = s.link /\ r.games = s.games
      /\ r.players = [m \in DOMAIN s.players \cup {n} |-> IF m = n THEN NewPlayer ELSE s.players[m]]
  BY SetPlayerFields DEF Lists
<1>5. s.link[c].id = n
  OBVIOUS
<1> HIDE DEF n, r, t
<1>6. Links(r) /\ Ok \in Packet
  BY <1>4, PacketKinds DEF Lists, Links
<1>7. t.players = r.players /\ t.games = s.games
  BY <1>3, <1>4, SendFields
<1>8. Notes(r, t, n, Ok)
  BY <1>3, <1>4, <1>6, NoteGives
<1>9. /\ Steady(s, t)
      /\ \A d \in Client : \A w \in Seq(Packet) : s.link[d].up =>
            /\ s.link[d].id = n => Pending(t, d, w) = Append(Pending(s, d, w), Ok)
            /\ s.link[d].id # n => Pending(t, d, w) = Pending(s, d, w)
  BY <1>4, <1>8 DEF Notes, Steady, Pending
<1>10. /\ HasPlayer(t, n) /\ t.players[n] = NewPlayer
       /\ \A m : m # n => /\ HasPlayer(t, m) <=> HasPlayer(s, m)
                          /\ HasPlayer(s, m) => t.players[m] = s.players[m]
  BY <1>4, <1>7 DEF HasPlayer
<1>11. \A m : m # n => Same(s, t, m)
  BY <1>2, <1>7, <1>10, OtherPlayersSame
<1>12. Role(t, n) = "wait"
  BY <1>10 DEF Role, NewPlayer
<1>13. Even(t)
  <2>1. Unique(t)
    BY <1>9 DEF Even, Unique, Steady
  <2>2. \A m : GameOf(t, m) = GameOf(s, m)
    <3> TAKE m
    <3>1. GamesOf(t, m) = GamesOf(s, m)
      BY <1>7 DEF GamesOf
    <3> QED BY <3>1 DEF GameOf
  <2>3. NamesFree(t)
    BY <1>9, <1>10, <2>2 DEF Even, NamesFree, Steady
  <2>4. Settled(t)
    BY <1>2, <1>7, <1>10 DEF Even, Settled
  <2>5. Matches(t)
    <3> SUFFICES ASSUME NEW g \in DOMAIN s.games, ~s.games[g].over
                 PROVE  Level(s.games[g], t.players[s.games[g].player1], t.players[s.games[g].player2])
      BY <1>7 DEF Matches
    <3>1. s.games[g].player1 \in PlayersOf(s.games[g]) /\ s.games[g].player2 \in PlayersOf(s.games[g])
      BY DEF PlayersOf
    <3>2. \A m \in PlayersOf(s.games[g]) : m # n /\ HasPlayer(s, m)
      BY <1>2 DEF Lists, Engaged
    <3>3. \A m \in PlayersOf(s.games[g]) : t.players[m] = s.players[m]
      BY <1>10, <3>2
    <3> QED BY <3>1, <3>3 DEF Even, Matches
  <2> QED BY <2>1, <2>3, <2>4, <2>5 DEF Even
<1>14. Carries(s, t, c)
  <2> SUFFICES ASSUME NEW d \in Client, NEW w \in Seq(Packet), NEW q, NEW at, NEW mk,
                      t.link[d].up, Shape(q, at), Hears(s, d, w, q, at, mk), d = c => Asking(q)
               PROVE  Hears(t, d, w, IF d = c THEN Tail(q) ELSE q, at, mk)
    BY DEF Carries
  <2>1. s.link[d].up /\ t.link[d].id = s.link[d].id
    BY <1>9 DEF Steady
  <2>2. CASE d = c
    <3>1. /\ Pending(t, d, w) = Append(Pending(s, d, w), Ok) /\ Pending(s, d, w) \in Seq(Packet)
      BY <1>5, <1>9, <2>1, <2>2, PendingType DEF Lists
    <3>2. Conv("name", Hit(s, n), Alone(s, n), Pending(s, d, w), q, at, mk)
      BY <1>5, <2>2 DEF Hears
    <3>3. Conv("wait", Hit(t, n), Alone(t, n), Append(Pending(s, d, w), Ok), Tail(q), at, mk)
      BY <2>2, <3>1, <3>2, ConvNamed
    <3> QED BY <1>5, <1>12, <2>1, <2>2, <3>1, <3>3 DEF Hears
  <2>3. CASE d # c
    <3>1. s.link[d].id # n
      BY <1>5, <2>1, <2>3 DEF Even, Unique
    <3>2. Pending(t, d, w) = Pending(s, d, w)
      BY <1>9, <2>1, <3>1
    <3> QED BY <1>11, <2>1, <2>3, <3>1, <3>2, HearsSame
  <2> QED BY <2>2, <2>3
<1>15. Rates(s, t)
  <2>1. \A m : GameOf(t, m) = GameOf(s, m) /\ (InGame(t, m) <=> InGame(s, m)) /\ ~InGame(s, n)
    BY <1>1, <1>7 DEF GameOf, GamesOf, InGame
  <2>2. NewPlayer.state = "WAIT" /\ NewPlayer.wins = 0
    BY DEF NewPlayer
  <2>3. ASSUME NEW m PROVE Stands(s, t, m)
    <3>1. CASE m = n
      BY <1>1, <1>10, <2>1, <2>2, <3>1 DEF Stands, Gone, Wins, Played
    <3>2. CASE m # n
      BY <1>7, <1>10, <2>1, <3>2 DEF Stands, Gone, Wins, Played
    <3> QED BY <3>1, <3>2
  <2>4. ASSUME Credits(s) PROVE Credits(t)
    <3>1. ASSUME NEW g \in DOMAIN s.games, ~s.games[g].over
          PROVE  Shared(s.games[g], t.players[s.games[g].player1], t.players[s.games[g].player2])
      <4>1. \A m \in {s.games[g].player1, s.games[g].player2} : t.players[m] = s.players[m]
        BY <1>2, <1>10, <3>1 DEF Lists, Engaged, PlayersOf
      <4> QED BY <2>4, <3>1, <4>1 DEF Credits
    <3> QED BY <1>7, <1>10, <2>2, <2>4, <3>1 DEF Credits, HasPlayer
  <2>5. ASSUME NEW d \in Client, NEW w \in Seq(Packet), s.link[d].up
        PROVE  Plainly(Pending(s, d, w), Pending(t, d, w))
    BY <1>9, <2>5, PlainKinds DEF Plainly
  <2> QED BY <1>9, <2>3, <2>4, <2>5, PlainRates DEF Lists
<1> QED BY <1>9, <1>13, <1>14, <1>15 DEF t

------------------------------------------------------------------------------
(* SUBMIT_MAP. *)

LEMMA TurnEffect ==
    ASSUME NEW s, NEW D, Lists(s, D), NEW g \in DOMAIN s.games, NEW m \in Number0
    PROVE  LET t == GiveTurn(s, g, m)
           IN  /\ Lists(t, D) /\ t.players = s.players /\ DOMAIN t.games = DOMAIN s.games
               /\ t.games[g].turn = m /\ t.games[g].over = s.games[g].over
               /\ t.games[g].tries = s.games[g].tries
               /\ \A h \in DOMAIN s.games : /\ t.games[h].player1 = s.games[h].player1
                                            /\ t.games[h].player2 = s.games[h].player2
                                            /\ h # g => t.games[h] = s.games[h]
               /\ Notes(s, t, m, MyTurn)
<1> DEFINE game == s.games[g]
           x == [game EXCEPT !.turn = m]
           y == SetGame(s, g, x)
           t == GiveTurn(s, g, m)
<1>1. game \in AGame
  BY DEF Lists, Games
<1>2. /\ x \in AGame /\ x.player1 = game.player1 /\ x.player2 = game.player2
      /\ x.over = game.over /\ x.turn = m /\ x.tries = game.tries
  <2> HIDE DEF game
  <2> QED BY <1>1 DEF AGame
<1>3. t = Send(y, Note(m, MyTurn)) /\ MyTurn \in Packet
  BY PacketKinds DEF GiveTurn, NotifyMyTurn, Note
<1> HIDE DEF x
<1>4. Lists(y, D)
  BY <1>2, SetGameKeeps
<1>5. /\ y.link = s.link /\ y.players = s.players
      /\ y.games = [h \in DOMAIN s.games \cup {g} |-> IF h = g THEN x ELSE s.games[h]]
  BY SetGameFields DEF Lists
<1> HIDE DEF y, t
<1>6. Lists(t, D) /\ t.players = y.players /\ t.games = y.games
  BY <1>3, <1>4, NotifyKeeps
<1>7. Notes(y, t, m, MyTurn)
  BY <1>3, <1>4, NoteGives DEF Lists
<1>8. Notes(s, t, m, MyTurn)
  BY <1>5, <1>7 DEF Notes, Steady, Pending
<1>9. /\ DOMAIN t.games = DOMAIN s.games /\ t.games[g] = x
      /\ \A h \in DOMAIN s.games : h # g => t.games[h] = s.games[h]
  BY <1>5, <1>6
<1> QED BY <1>2, <1>5, <1>6, <1>8, <1>9 DEF t

\* What a player is when it has submitted its map.
Mapped(p, info) == [p EXCEPT !.board = SetMap(info), !.state = "ON_GAME"]

LEMMA MappedIs ==
    ASSUME NEW p \in APlayer, NEW info \in Maps
    PROVE  /\ Mapped(p, info) \in APlayer /\ Mapped(p, info).state = "ON_GAME"
           /\ Mapped(p, info).board = SetMap(info) /\ Mapped(p, info).turns = p.turns
           /\ Mapped(p, info).wins = p.wins /\ SetMap(info).hit = {}
<1> DEFINE board == SetMap(info)
           q == [p EXCEPT !.board = board]
<1>1. board \in ABoard /\ board.hit = {}
  BY DEF SetMap, ABoard
<1> HIDE DEF board
<1>2. q \in APlayer /\ q.board = board /\ q.turns = p.turns /\ q.wins = p.wins
  BY <1>1 DEF APlayer
<1>3. Mapped(p, info) = [q EXCEPT !.state = "ON_GAME"]
  BY DEF Mapped, board
<1> HIDE DEF q
<1>4. LET u == [q EXCEPT !.state = "ON_GAME"]
      IN  /\ u \in APlayer /\ u.state = "ON_GAME" /\ u.board = q.board /\ u.turns = q.turns
          /\ u.wins = q.wins
  BY <1>2 DEF APlayer
<1> QED BY <1>1, <1>2, <1>3, <1>4 DEF board

\* Player n of game g has submitted its map: when the other one has too, it is
\* player 2's turn.
MapDone(s, t, g, n, o, info) ==
    LET both == s.players[o].state = "ON_GAME"
        first == s.games[g].player2
    IN  /\ Lists(t, {}) /\ Steady(s, t)
        /\ DOMAIN t.players = DOMAIN s.players /\ t.players[n] = Mapped(s.players[n], info)
        /\ \A m \in DOMAIN s.players : m # n => t.players[m] = s.players[m]
        /\ DOMAIN t.games = DOMAIN s.games
        /\ t.games[g].over = s.games[g].over /\ t.games[g].tries = s.games[g].tries
        /\ both => t.games[g].turn = first
        /\ \A h \in DOMAIN s.games : /\ t.games[h].player1 = s.games[h].player1
                                     /\ t.games[h].player2 = s.games[h].player2
                                     /\ h # g => t.games[h] = s.games[h]
        /\ \A d \in Client : \A w \in Seq(Packet) : s.link[d].up =>
              LET p == Pending(s, d, w)
                  q == IF s.link[d].id = n THEN Append(p, Ok) ELSE p
              IN  Pending(t, d, w) = IF both /\ s.link[d].id = first THEN Append(q, MyTurn) ELSE q

LEMMA MapEffect ==
    ASSUME NEW s, Lists(s, {}), NEW g, NEW n, NEW o, Pair(s, g, n, o), NEW info \in Maps
    PROVE  MapDone(s, OnSubmitMap(s, g, n, info), g, n, o, info)
<1> DEFINE t == OnSubmitMap(s, g, n, info)
           both == s.players[o].state = "ON_GAME"
           first == s.games[g].player2
           player == Mapped(s.players[n], info)
           r == SetPlayer(s, n, player)
           u == Send(r, Note(n, Ok))
<1>1. g \in DOMAIN s.games /\ HasPlayer(s, n) /\ HasPlayer(s, o) /\ n # o
  BY DEF Pair
<1>2. s.players[n] \in APlayer
  BY <1>1 DEF Lists, Players, HasPlayer
<1>3. player \in APlayer /\ player.state = "ON_GAME"
  BY <1>2, MappedIs
<1>4. t = IF u.players[o].state = "ON_GAME" THEN GiveTurn(u, g, first) ELSE u
  BY <1>1 DEF OnSubmitMap, Pair, Mapped, NotifyOk, Note
<1> HIDE DEF t, player
<1>5. /\ Lists(r, {}) /\ r.games = s.games /\ DOMAIN r.players = DOMAIN s.players
      /\ r.players[n] = player
      /\ \A m \in DOMAIN s.players : m # n => r.players[m] = s.players[m]
  BY <1>1, <1>3, SetPlayerKeeps
<1>6. r.link = s.link
  <2>1. Server(s)
    BY DEF Lists
  <2> QED BY <2>1 DEF Server, SetPlayer
<1> HIDE DEF r
<1>7. Ok \in Packet
  BY PacketKinds
<1>8. Lists(u, {}) /\ u.players = r.players /\ u.games = r.games
  BY <1>5, <1>7, NotifyKeeps
<1>9. Notes(r, u, n, Ok)
  BY <1>5, <1>7, NoteGives DEF Lists
<1> HIDE DEF u
<1>10. /\ Steady(s, u)
       /\ \A d \in Client : \A w \in Seq(Packet) : s.link[d].up =>
             Pending(u, d, w) = IF s.link[d].id = n THEN Append(Pending(s, d, w), Ok)
                                                    ELSE Pending(s, d, w)
  BY <1>6, <1>9 DEF Notes, Steady, Pending
<1>11. u.players[o] = s.players[o]
  BY <1>1, <1>5, <1>8 DEF HasPlayer
<1>12. CASE ~both
  <2>1. t = u
    BY <1>4, <1>11, <1>12
  <2> HIDE DEF both, first
  <2> QED BY <1>5, <1>8, <1>10, <1>12, <2>1 DEF t, player, both, first, MapDone
<1>13. CASE both
  <2>1. t = GiveTurn(u, g, first)
    BY <1>4, <1>11, <1>13
  <2>2. first \in Number0 /\ g \in DOMAIN u.games
    BY <1>1, <1>5, <1>8 DEF Lists, Games, AGame, Number0
  <2> HIDE DEF both, first
  <2>3. /\ Lists(t, {}) /\ t.players = u.players /\ DOMAIN t.games = DOMAIN u.games
        /\ t.games[g].turn = first /\ t.games[g].over = u.games[g].over
        /\ t.games[g].tries = u.games[g].tries
        /\ \A h \in DOMAIN u.games : /\ t.games[h].player1 = u.games[h].player1
                                     /\ t.games[h].player2 = u.games[h].player2
                                     /\ h # g => t.games[h] = u.games[h]
        /\ Notes(u, t, first, MyTurn)
    BY <1>8, <2>1, <2>2, TurnEffect
  <2>4. Steady(s, t)
    BY <1>10, <2>3, SteadyOn DEF Notes
  <2>5. ASSUME NEW d \in Client, NEW w \in Seq(Packet), s.link[d].up
        PROVE  LET p == Pending(s, d, w)
                   q == IF s.link[d].id = n THEN Append(p, Ok) ELSE p
               IN  Pending(t, d, w) = IF s.link[d].id = first THEN Append(q, MyTurn) ELSE q
    <3>1. u.link[d].up /\ u.link[d].id = s.link[d].id
      BY <1>10, <2>5 DEF Steady
    <3>2. Pending(t, d, w) = IF s.link[d].id = first THEN Append(Pending(u, d, w), MyTurn)
                                                     ELSE Pending(u, d, w)
      BY <2>3, <3>1 DEF Notes
    <3> QED BY <1>10, <2>5, <3>2
  <2>6. /\ DOMAIN t.players = DOMAIN s.players /\ t.players[n] = player
        /\ \A m \in DOMAIN s.players : m # n => t.players[m] = s.players[m]
    BY <1>5, <1>8, <2>3
  <2> QED BY <1>5, <1>8, <1>13, <2>3, <2>4, <2>5, <2>6 DEF t, player, both, first, MapDone
<1> QED BY <1>12, <1>13

LEMMA MapCarries ==
    ASSUME NEW s, Lists(s, {}), Even(s), NEW c \in Client, s.link[c].up,
           NEW g, NEW o, Pair(s, g, s.link[c].id, o), Role(s, s.link[c].id) = "map",
           NEW info \in Maps
    PROVE  LET t == OnSubmitMap(s, g, s.link[c].id, info)
           IN  Even(t) /\ Steady(s, t) /\ Carries(s, t, c) /\ Rates(s, t)
<1> DEFINE n == s.link[c].id
           t == OnSubmitMap(s, g, n, info)
           both == s.players[o].state = "ON_GAME"
           first == s.games[g].player2
           player == Mapped(s.players[n], info)
<1>1. /\ Lists(t, {}) /\ Steady(s, t)
      /\ DOMAIN t.players = DOMAIN s.players /\ t.players[n] = player
      /\ \A m \in DOMAIN s.players : m # n => t.players[m] = s.players[m]
      /\ DOMAIN t.games = DOMAIN s.games
      /\ t.games[g].over = s.games[g].over /\ t.games[g].tries = s.games[g].tries
      /\ both => t.games[g].turn = first
      /\ \A h \in DOMAIN s.games : /\ t.games[h].player1 = s.games[h].player1
                                   /\ t.games[h].player2 = s.games[h].player2
                                   /\ h # g => t.games[h] = s.games[h]
      /\ \A d \in Client : \A w \in Seq(Packet) : s.link[d].up =>
            LET p == Pending(s, d, w)
                q == IF s.link[d].id = n THEN Append(p, Ok) ELSE p
            IN  Pending(t, d, w) = IF both /\ s.link[d].id = first THEN Append(q, MyTurn) ELSE q
  <2>1. MapDone(s, t, g, n, o, info)
    BY MapEffect
  <2> HIDE DEF n, t
  <2> QED BY <2>1 DEF MapDone
<1>2. s.link[c].id = n
  OBVIOUS
<1>3. Pair(s, g, n, o) /\ Role(s, n) = "map"
  OBVIOUS
<1>4. Pair(s, g, o, n) /\ n # o /\ g \in DOMAIN s.games /\ HasPlayer(s, n) /\ HasPlayer(s, o)
  BY <1>3, PairTurned DEF Pair
<1> HIDE DEF n, t
<1>5. /\ player \in APlayer /\ player.state = "ON_GAME" /\ player.turns = s.players[n].turns
      /\ player.wins = s.players[n].wins /\ player.board.hit = {}
  <2>1. s.players[n] \in APlayer
    BY <1>4 DEF Lists, Players, HasPlayer
  <2> QED BY <2>1, MappedIs
<1> HIDE DEF player
<1>6. s.players[n].state = "WAIT_MAP"
  BY <1>3, PairRole
<1>7. /\ s.players[n].turns = 0 /\ s.players[o].turns = 0
      /\ both => s.players[o].board.hit = {}
  <2>1. Level(s.games[g], s.players[n], s.players[o])
    BY <1>3, <1>4, LevelPair DEF Even, Matches, Pair
  <2> QED BY <1>6, <2>1 DEF Level
<1>8. t.players[o] = s.players[o] /\ t.players[n] = player
  BY <1>1, <1>4 DEF HasPlayer
<1>9. first \in {n, o} /\ PlayersOf(s.games[g]) = {n, o} /\ PlayersOf(t.games[g]) = {n, o}
  BY <1>1, <1>3, <1>4 DEF Pair, PlayersOf
<1>10. Pair(t, g, n, o) /\ Pair(t, g, o, n)
  <2>1. ~t.games[g].over /\ g \in DOMAIN t.games /\ Opponent(t.games[g], n) = o
    BY <1>1, <1>3 DEF Pair, Opponent
  <2>2. Pair(t, g, n, Opponent(t.games[g], n))
    BY <1>1, <1>9, <2>1, PairOf
  <2> QED BY <2>1, <2>2, PairTurned
<1>11. ASSUME NEW m, m \notin {n, o} PROVE Same(s, t, m)
  <2>1. \A i : i \notin {n, o} => /\ HasPlayer(t, i) <=> HasPlayer(s, i)
                                  /\ HasPlayer(s, i) => t.players[i] = s.players[i]
    BY <1>1 DEF HasPlayer
  <2> QED BY <1>1, <1>4, <1>9, <1>11, <2>1, OthersSame
<1>12. Even(t)
  <2>1. Level(t.games[g], t.players[n], t.players[o])
    <3>1. CASE both
      <4>1. t.games[g].turn \in PlayersOf(t.games[g])
        BY <1>1, <1>9, <3>1
      <4>2. /\ t.players[n].turns = 0 /\ t.players[o].turns = 0
            /\ t.players[n].board.hit = {} /\ t.players[o].board.hit = {}
        BY <1>5, <1>7, <1>8, <3>1
      <4>3. Cardinality({}) = 0
        BY FS_EmptySet
      <4>4. t.players[n].state = "ON_GAME" /\ t.players[o].state = "ON_GAME"
        BY <1>5, <1>8, <3>1
      <4> QED BY <4>1, <4>2, <4>3, <4>4 DEF Level
    <3>2. CASE ~both
      BY <1>1, <1>5, <1>7, <1>8, <3>2 DEF Level
    <3> QED BY <3>1, <3>2
  <2>2. Level(t.games[g], t.players[t.games[g].player1], t.players[t.games[g].player2])
    BY <1>10, <2>1, LevelPair
  <2>3. \A m \in DOMAIN s.players :
           /\ m \notin PlayersOf(s.games[g]) => t.players[m] = s.players[m]
           /\ t.players[m].state = "WAIT" => s.players[m].state = "WAIT"
    BY <1>1, <1>5, <1>9
  <2> QED BY <1>1, <1>4, <2>2, <2>3, EvenKept
<1>13. Rates(s, t)
  <2>1. /\ \A h \in DOMAIN s.games : /\ t.games[h].over = s.games[h].over
                                     /\ t.games[h].tries = s.games[h].tries
        /\ \A i \in DOMAIN s.players : /\ t.players[i].wins = s.players[i].wins
                                       /\ t.players[i].state = "WAIT" <=> s.players[i].state = "WAIT"
    BY <1>1, <1>5, <1>6
  <2>2. (\A i : Stands(s, t, i)) /\ (Credits(s) => Credits(t))
    BY <1>1, <2>1, StandsKept
  <2>3. ASSUME NEW d \in Client, NEW w \in Seq(Packet), s.link[d].up
        PROVE  Plainly(Pending(s, d, w), Pending(t, d, w))
    BY <1>1, <2>3, PlainKinds DEF Plainly
  <2> QED BY <1>1, <2>2, <2>3, PlainRates DEF Lists
<1>14. CASE ~both
  <2>1. Role(t, n) = "ready"
    BY <1>5, <1>8, <1>10, <1>14, PairRole
  <2>2. s.players[o].state = "WAIT_MAP"
    <3>1. s.players[o] \in APlayer /\ s.players[o].state # "WAIT"
      BY <1>3, <1>4 DEF Lists, Players, HasPlayer, Pair
    <3> QED BY <1>14, <3>1 DEF APlayer
  <2>3. Same(s, t, o)
    <3>1. Role(s, o) = "map" /\ Role(t, o) = "map" /\ ~Alone(s, o) /\ ~Alone(t, o)
      BY <1>4, <1>8, <1>10, <2>2, PairRole
    <3> QED BY <3>1 DEF Same, Hit
  <2>4. Carries(s, t, c)
    <3> SUFFICES ASSUME NEW d \in Client, NEW w \in Seq(Packet), NEW q, NEW at, NEW mk,
                        t.link[d].up, Shape(q, at), Hears(s, d, w, q, at, mk), d = c => Asking(q)
                 PROVE  Hears(t, d, w, IF d = c THEN Tail(q) ELSE q, at, mk)
      BY DEF Carries
    <3>1. s.link[d].up /\ t.link[d].id = s.link[d].id
      BY <1>1 DEF Steady
    <3>2. CASE d = c
      <4>1. /\ Pending(t, d, w) = Append(Pending(s, d, w), Ok) /\ Pending(s, d, w) \in Seq(Packet)
        BY <1>1, <1>2, <1>14, <3>1, <3>2, PendingType DEF Lists
      <4>2. Conv("map", Hit(s, n), Alone(s, n), Pending(s, d, w), q, at, mk)
        BY <1>2, <1>3, <3>2 DEF Hears
      <4>3. Conv("ready", {}, Alone(t, n), Append(Pending(s, d, w), Ok), Tail(q), at, mk)
        BY <3>2, <4>1, <4>2, ConvMapped
      <4>4. Hit(t, n) = {}
        BY <2>1 DEF Hit
      <4> QED BY <1>2, <2>1, <3>1, <3>2, <4>1, <4>3, <4>4 DEF Hears
    <3>3. CASE d # c
      <4>1. s.link[d].id # n
        BY <1>2, <3>1, <3>3 DEF Even, Unique
      <4>2. Pending(t, d, w) = Pending(s, d, w)
        BY <1>1, <1>14, <3>1, <4>1
      <4>3. Same(s, t, s.link[d].id)
        BY <1>11, <2>3, <4>1
      <4> QED BY <3>1, <3>3, <4>2, <4>3, HearsSame
    <3> QED BY <3>2, <3>3
  <2> QED BY <1>1, <1>12, <1>13, <2>4 DEF t, n
<1>15. CASE both
  <2>1. /\ Role(s, o) = "ready" /\ Hit(s, o) = {}
    BY <1>4, <1>6, <1>15, PairRole
  <2>2. /\ Role(t, n) = IF first = n THEN "mine" ELSE "theirs"
        /\ Role(t, o) = IF first = o THEN "mine" ELSE "theirs"
        /\ Hit(t, n) = {} /\ Hit(t, o) = {}
    BY <1>1, <1>5, <1>7, <1>8, <1>10, <1>15, PairRole
  <2>3. Carries(s, t, c)
    <3> SUFFICES ASSUME NEW d \in Client, NEW w \in Seq(Packet), NEW q, NEW at, NEW mk,
                        t.link[d].up, Shape(q, at), Hears(s, d, w, q, at, mk), d = c => Asking(q)
                 PROVE  Hears(t, d, w, IF d = c THEN Tail(q) ELSE q, at, mk)
      BY DEF Carries
    <3> DEFINE p == Pending(s, d, w)
    <3>1. s.link[d].up /\ t.link[d].id = s.link[d].id /\ p \in Seq(Packet)
      BY <1>1, PendingType DEF Steady, Lists
    <3>2. CASE d = c
      <4> DEFINE p2 == Append(p, Ok)
                 a == Alone(t, n)
      <4>1. Pending(t, d, w) = (IF first = n THEN Append(p2, MyTurn) ELSE p2) /\ p2 \in Seq(Packet)
        <5>1. Ok \in Packet
          BY PacketKinds
        <5> QED BY <1>1, <1>2, <1>15, <3>1, <3>2, <5>1, AppendProperties
      <4>2. Conv("map", Hit(s, n), Alone(s, n), p, q, at, mk)
        BY <1>2, <1>3, <3>2 DEF Hears
      <4>3. Shape(Tail(q), at)
        BY <3>2, TailAsks
      <4> HIDE DEF p
      <4>4. Conv("ready", {}, a, p2, Tail(q), at, mk)
        BY <3>1, <3>2, <4>2, ConvMapped
      <4> HIDE DEF p2
      <4>5. Conv("theirs", {}, a, p2, Tail(q), at, mk)
        BY <4>3, <4>4, ConvFirstTheirs
      <4>6. Conv("mine", {}, a, Append(p2, MyTurn), Tail(q), at, mk)
        BY <4>1, <4>3, <4>5, ConvTurn
      <4> QED BY <1>2, <2>2, <3>1, <3>2, <4>1, <4>5, <4>6 DEF Hears
    <3>3. CASE d # c /\ s.link[d].id = o
      <4> DEFINE a == Alone(t, o)
      <4>1. Pending(t, d, w) = IF first = o THEN Append(p, MyTurn) ELSE p
        BY <1>1, <1>4, <1>15, <3>1, <3>3
      <4>2. Conv("ready", {}, Alone(s, o), p, q, at, mk)
        BY <2>1, <3>3 DEF Hears
      <4> HIDE DEF p
      <4>3. Conv("theirs", {}, a, p, q, at, mk)
        BY <4>2, ConvFirstTheirs
      <4>4. Conv("mine", {}, a, Append(p, MyTurn), q, at, mk)
        BY <3>1, <4>3, ConvTurn
      <4> QED BY <2>2, <3>1, <3>3, <4>1, <4>3, <4>4 DEF Hears
    <3>4. CASE d # c /\ s.link[d].id # o
      <4>1. s.link[d].id \notin {n, o}
        BY <1>2, <3>1, <3>4 DEF Even, Unique
      <4>2. Pending(t, d, w) = p
        BY <1>1, <1>9, <3>1, <4>1
      <4>3. Same(s, t, s.link[d].id)
        BY <1>11, <4>1
      <4> QED BY <3>1, <3>4, <4>2, <4>3, HearsSame
    <3> QED BY <3>2, <3>3, <3>4
  <2> QED BY <1>1, <1>12, <1>13, <2>3 DEF t, n
<1> QED BY <1>14, <1>15

------------------------------------------------------------------------------
(* SUBMIT_ATTACK. *)

\* The attack of n on o's square c, as far as its result is sent.
Credited(p) == [p EXCEPT !.turns = p.turns + 1]
Hurt(p, c)  == [p EXCEPT !.board = Attack(p.board, c)]
Struck(s, n, o, c) ==
    LET result == AttackResult(s.players[o].board, c)
        s0 == SetPlayer(SetPlayer(s, n, Credited(s.players[n])), o, Hurt(s.players[o], c))
        s1 == Send(s0, Note(n, Ok))
        s2 == Send(s1, Note(n, Attacked(c, TRUE, result)))
    IN  Send(s2, Note(o, Attacked(c, FALSE, result)))

StruckDone(s, t, n, o, c) ==
    LET result == AttackResult(s.players[o].board, c)
    IN  /\ Lists(t, {}) /\ Steady(s, t) /\ t.games = s.games
        /\ DOMAIN t.players = DOMAIN s.players
        /\ t.players[n] = Credited(s.players[n]) /\ t.players[o] = Hurt(s.players[o], c)
        /\ \A m \in DOMAIN s.players : m \notin {n, o} => t.players[m] = s.players[m]
        /\ \A d \in Client : \A w \in Seq(Packet) : s.link[d].up =>
              LET p == Pending(s, d, w)
              IN  Pending(t, d, w) =
                    IF s.link[d].id = n THEN Append(Append(p, Ok), Attacked(c, TRUE, result))
                    ELSE IF s.link[d].id = o THEN Append(p, Attacked(c, FALSE, result))
                    ELSE p

LEMMA StruckPlayers ==
    ASSUME NEW p \in APlayer, NEW q \in APlayer, NEW c \in Cell
    PROVE  /\ Credited(p) \in APlayer /\ Credited(p).turns = p.turns + 1
           /\ Credited(p).state = p.state /\ Credited(p).board = p.board
           /\ Credited(p).wins = p.wins
           /\ Hurt(q, c) \in APlayer /\ Hurt(q, c).board = Attack(q.board, c)
           /\ Hurt(q, c).state = q.state /\ Hurt(q, c).turns = q.turns
           /\ Hurt(q, c).wins = q.wins
<1>1. p.turns + 1 \in Int /\ q.board \in ABoard
  BY DEF APlayer
<1> DEFINE turns == p.turns + 1
           board == Attack(q.board, c)
<1>2. turns \in Int /\ board \in ABoard
  BY <1>1, AttackTypes
<1> HIDE DEF turns, board
<1>3. LET u == [p EXCEPT !.turns = turns]
      IN  /\ u \in APlayer /\ u.turns = turns /\ u.state = p.state /\ u.board = p.board
          /\ u.wins = p.wins
  BY <1>2 DEF APlayer
<1>4. LET u == [q EXCEPT !.board = board]
      IN  /\ u \in APlayer /\ u.board = board /\ u.state = q.state /\ u.turns = q.turns
          /\ u.wins = q.wins
  BY <1>2 DEF APlayer
<1> QED BY <1>3, <1>4 DEF Credited, Hurt, turns, board

LEMMA StruckEffect ==
    ASSUME NEW s, Lists(s, {}), NEW n, NEW o, n # o, HasPlayer(s, n), HasPlayer(s, o),
           NEW c \in Cell
    PROVE  StruckDone(s, Struck(s, n, o, c), n, o, c)
<1> DEFINE result == AttackResult(s.players[o].board, c)
           a == Credited(s.players[n])
           b == Hurt(s.players[o], c)
           r == SetPlayer(s, n, a)
           s0 == SetPlayer(r, o, b)
           p1 == Attacked(c, TRUE, result)
           p2 == Attacked(c, FALSE, result)
           s1 == Send(s0, Note(n, Ok))
           s2 == Send(s1, Note(n, p1))
           t == Send(s2, Note(o, p2))
<1>1. Struck(s, n, o, c) = t
  BY DEF Struck
<1>2. s.players[n] \in APlayer /\ s.players[o] \in APlayer
  BY DEF Lists, Players, HasPlayer
<1>3. /\ a \in APlayer /\ a.state = s.players[n].state
      /\ b \in APlayer /\ b.state = s.players[o].state
  BY <1>2, StruckPlayers
<1>4. Ok \in Packet /\ p1 \in Packet /\ p2 \in Packet
  <2>1. s.players[o].board \in ABoard
    BY <1>2 DEF APlayer
  <2>2. result \in Result
    BY <2>1, AttackTypes
  <2> HIDE DEF result
  <2> QED BY <2>2, PacketKinds
<1> HIDE DEF a, b, p1, p2, t
<1>5. /\ Lists(r, {}) /\ r.games = s.games /\ DOMAIN r.players = DOMAIN s.players
      /\ r.players[n] = a /\ r.link = s.link
      /\ \A m \in DOMAIN s.players : m # n => r.players[m] = s.players[m]
  <2>1. /\ Lists(r, {}) /\ r.games = s.games /\ DOMAIN r.players = DOMAIN s.players
        /\ r.players[n] = a
        /\ \A m \in DOMAIN s.players : m # n => r.players[m] = s.players[m]
    BY <1>3, SetPlayerKeeps
  <2>2. r.link = s.link
    BY DEF Lists, Server, SetPlayer
  <2> QED BY <2>1, <2>2
<1> HIDE DEF r
<1>6. /\ Lists(s0, {}) /\ s0.games = s.games /\ DOMAIN s0.players = DOMAIN s.players
      /\ s0.players[n] = a /\ s0.players[o] = b /\ s0.link = s.link
      /\ \A m \in DOMAIN s.players : m \notin {n, o} => s0.players[m] = s.players[m]
  <2>1. HasPlayer(r, o) /\ r.players[o].state = s.players[o].state
    BY <1>5 DEF HasPlayer
  <2>2. /\ Lists(s0, {}) /\ s0.games = r.games /\ DOMAIN s0.players = DOMAIN r.players
        /\ s0.players[o] = b
        /\ \A m \in DOMAIN r.players : m # o => s0.players[m] = r.players[m]
    BY <1>3, <1>5, <2>1, SetPlayerKeeps
  <2>3. s0.link = r.link
    BY <1>5 DEF Lists, Server, SetPlayer
  <2>4. s0.players[n] = a
    BY <1>5, <2>2 DEF HasPlayer
  <2> QED BY <1>5, <2>2, <2>3, <2>4
<1> HIDE DEF s0
<1>7. /\ Lists(s1, {}) /\ s1.players = s0.players /\ s1.games = s.games
      /\ Notes(s0, s1, n, Ok)
  BY <1>4, <1>6, NotifyKeeps, NoteGives DEF Lists
<1> HIDE DEF s1
<1>8. /\ Lists(s2, {}) /\ s2.players = s0.players /\ s2.games = s.games
      /\ Notes(s1, s2, n, p1)
  BY <1>4, <1>7, NotifyKeeps, NoteGives DEF Lists
<1> HIDE DEF s2
<1>9. /\ Lists(t, {}) /\ t.players = s0.players /\ t.games = s.games
      /\ Notes(s2, t, o, p2)
  BY <1>4, <1>8, NotifyKeeps, NoteGives DEF Lists, t
<1>10. Steady(s0, s1) /\ Steady(s1, s2) /\ Steady(s2, t)
  BY <1>7, <1>8, <1>9 DEF Notes
<1>11. Steady(s, s0)
  BY <1>6 DEF Steady
<1>12. Steady(s, s1) /\ Steady(s, s2) /\ Steady(s, t)
  BY <1>10, <1>11, SteadyOn
<1>13. ASSUME NEW d \in Client, NEW w \in Seq(Packet), s.link[d].up
       PROVE  Pending(t, d, w) =
                    IF s.link[d].id = n THEN Append(Append(Pending(s, d, w), Ok), p1)
                    ELSE IF s.link[d].id = o THEN Append(Pending(s, d, w), p2)
                    ELSE Pending(s, d, w)
  <2>0. Pending(s0, d, w) = Pending(s, d, w)
    BY <1>6 DEF Pending
  <2>1. /\ s0.link[d].up /\ s0.link[d].id = s.link[d].id
        /\ s1.link[d].up /\ s1.link[d].id = s.link[d].id
        /\ s2.link[d].up /\ s2.link[d].id = s.link[d].id
    BY <1>11, <1>12, <1>13 DEF Steady
  <2>2. Pending(s1, d, w) = IF s.link[d].id = n THEN Append(Pending(s, d, w), Ok) ELSE Pending(s, d, w)
    BY <1>7, <2>0, <2>1 DEF Notes
  <2>3. Pending(s2, d, w) = IF s.link[d].id = n THEN Append(Pending(s1, d, w), p1) ELSE Pending(s1, d, w)
    BY <1>8, <2>1 DEF Notes
  <2>4. Pending(t, d, w) = IF s.link[d].id = o THEN Append(Pending(s2, d, w), p2) ELSE Pending(s2, d, w)
    BY <1>9, <2>1 DEF Notes
  <2> QED BY <2>2, <2>3, <2>4
<1>14. StruckDone(s, t, n, o, c)
  BY <1>6, <1>9, <1>12, <1>13 DEF StruckDone, a, b, p1, p2
<1> QED BY <1>1, <1>14

\* The winner of a game, which counts it and its turns.
Winner(p) == [p EXCEPT !.wins = p.wins + 1, !.winTurns = p.winTurns + p.turns]

LEMMA AttackIs ==
    ASSUME NEW s, Lists(s, {}), NEW g, NEW n, NEW o, Pair(s, g, n, o), NEW c \in Cell
    PROVE  OnSubmitAttack(s, g, n, c) =
             IF IsGameEnd(Attack(s.players[o].board, c))
               THEN OnGameOver(SetPlayer(Struck(s, n, o, c), n, Winner(Credited(s.players[n]))), g, n)
               ELSE GiveTurn(Struck(s, n, o, c), g, Opponent(s.games[g], s.games[g].turn))
<1>1. HasPlayer(s, n) /\ HasPlayer(s, o) /\ Opponent(s.games[g], n) = o
  BY DEF Pair
<1>2. s.players[n] \in APlayer /\ s.players[o] \in APlayer
  BY <1>1 DEF Lists, Players, HasPlayer
<1>3. Hurt(s.players[o], c).board = Attack(s.players[o].board, c)
  BY <1>2, StruckPlayers
<1> QED BY <1>1, <1>3 DEF OnSubmitAttack, Struck, Credited, Hurt, Winner, Note, NotifyOk

LEMMA BoardFinite ==
    ASSUME NEW b \in ABoard, NEW c \in Cell, c \notin b.hit
    PROVE  /\ Attack(b, c).hit = b.hit \cup {c}
           /\ Cardinality(b.hit) \in Nat
           /\ Cardinality(Attack(b, c).hit) = Cardinality(b.hit) + 1
<1>1. Attack(b, c).hit = b.hit \cup {c}
  BY DEF Attack, ABoard
<1>2. IsFiniteSet(Cell)
  <2> DEFINE m == Width * Height - 1
  <2>1. m \in Int /\ Cell = 0 .. m
    BY DEF Cell
  <2> HIDE DEF m
  <2> QED BY <2>1, FS_Interval
<1>3. IsFiniteSet(b.hit)
  <2>1. b.hit \in SUBSET Cell
    BY DEF ABoard
  <2> QED BY <1>2, <2>1, FS_Subset
<1> QED BY <1>1, <1>3, FS_AddElement, FS_CardinalityType

\* A player whose turn it is, and its opponent.
LEMMA TurnRoles ==
    ASSUME NEW s, Lists(s, {}), Even(s), NEW g, NEW n, NEW o, Pair(s, g, n, o),
           Role(s, n) = "mine"
    PROVE  /\ Role(s, o) = "theirs" /\ s.games[g].turn = n
           /\ Hit(s, n) = s.players[o].board.hit /\ Hit(s, o) = s.players[n].board.hit
           /\ s.players[n].state = "ON_GAME" /\ s.players[o].state = "ON_GAME"
           /\ s.players[n].turns = Cardinality(s.players[o].board.hit)
           /\ s.players[o].turns = Cardinality(s.players[n].board.hit)
           /\ s.players[n] \in APlayer /\ s.players[o] \in APlayer
           /\ s.players[n].board \in ABoard /\ s.players[o].board \in ABoard
<1>1. Pair(s, g, o, n) /\ n # o /\ HasPlayer(s, n) /\ HasPlayer(s, o)
  BY PairTurned DEF Pair
<1>2. s.players[n] \in APlayer /\ s.players[o] \in APlayer
  BY <1>1 DEF Lists, Players, HasPlayer
<1>3. s.players[n].board \in ABoard /\ s.players[o].board \in ABoard
  BY <1>2 DEF APlayer
<1>4. /\ s.players[n].state # "WAIT_MAP" /\ s.players[o].state = "ON_GAME"
      /\ s.games[g].turn = n /\ Hit(s, n) = s.players[o].board.hit
  BY PairRole
<1>5. s.players[n].state = "ON_GAME"
  BY <1>2, <1>4 DEF Pair, APlayer
<1>6. Role(s, o) = "theirs" /\ Hit(s, o) = s.players[n].board.hit
  BY <1>1, <1>4, <1>5, PairRole
<1>7. Level(s.games[g], s.players[n], s.players[o])
  BY <1>1, LevelPair DEF Even, Matches, Pair
<1> QED BY <1>2, <1>3, <1>4, <1>5, <1>6, <1>7 DEF Level

\* An attack that does not decide the game.
LEMMA AttackCarries ==
    ASSUME NEW s, Lists(s, {}), Even(s), NEW c \in Client, s.link[c].up,
           NEW g, NEW o, Pair(s, g, s.link[c].id, o), Role(s, s.link[c].id) = "mine",
           NEW x \in Cell, x \notin Hit(s, s.link[c].id),
           ~IsGameEnd(Attack(s.players[o].board, x))
    PROVE  LET t == OnSubmitAttack(s, g, s.link[c].id, x)
           IN  Even(t) /\ Steady(s, t) /\ Carries(s, t, c) /\ Rates(s, t)
<1> DEFINE n == s.link[c].id
           t == OnSubmitAttack(s, g, n, x)
           u == Struck(s, n, o, x)
           result == AttackResult(s.players[o].board, x)
           p1 == Attacked(x, TRUE, result)
           p2 == Attacked(x, FALSE, result)
<1>1. s.link[c].id = n /\ Pair(s, g, n, o) /\ Role(s, n) = "mine" /\ x \notin Hit(s, n)
  OBVIOUS
<1> HIDE DEF n
<1>2. /\ n # o /\ HasPlayer(s, n) /\ HasPlayer(s, o) /\ g \in DOMAIN s.games
      /\ Opponent(s.games[g], n) = o /\ PlayersOf(s.games[g]) = {n, o}
  BY <1>1 DEF Pair
<1>3. /\ Role(s, o) = "theirs" /\ s.games[g].turn = n
      /\ Hit(s, n) = s.players[o].board.hit /\ Hit(s, o) = s.players[n].board.hit
      /\ s.players[n].state = "ON_GAME" /\ s.players[o].state = "ON_GAME"
      /\ s.players[n].turns = Cardinality(s.players[o].board.hit)
      /\ s.players[o].turns = Cardinality(s.players[n].board.hit)
      /\ s.players[n] \in APlayer /\ s.players[o] \in APlayer
      /\ s.players[n].board \in ABoard /\ s.players[o].board \in ABoard
  BY <1>1, TurnRoles
<1>4. t = GiveTurn(u, g, o)
  BY <1>1, <1>2, <1>3, AttackIs
<1>5. StruckDone(s, u, n, o, x)
  BY <1>2, StruckEffect
<1>6. result \in Result
  BY <1>3, AttackTypes
<1> HIDE DEF t, u, result
<1>7. /\ Lists(u, {}) /\ Steady(s, u) /\ u.games = s.games
      /\ DOMAIN u.players = DOMAIN s.players
      /\ u.players[n] = Credited(s.players[n]) /\ u.players[o] = Hurt(s.players[o], x)
      /\ \A m \in DOMAIN s.players : m \notin {n, o} => u.players[m] = s.players[m]
      /\ \A d \in Client : \A w \in Seq(Packet) : s.link[d].up =>
            LET p == Pending(s, d, w)
            IN  Pending(u, d, w) = IF s.link[d].id = n THEN Append(Append(p, Ok), p1)
                                   ELSE IF s.link[d].id = o THEN Append(p, p2) ELSE p
  BY <1>5 DEF StruckDone, result
<1> HIDE DEF p1, p2
<1>8. o \in Number0
  BY <1>2 DEF Lists, Players, HasPlayer, Number0
<1>9. /\ Lists(t, {}) /\ t.players = u.players /\ DOMAIN t.games = DOMAIN s.games
      /\ t.games[g].turn = o /\ t.games[g].over = s.games[g].over
      /\ t.games[g].tries = s.games[g].tries
      /\ \A h \in DOMAIN s.games : /\ t.games[h].player1 = s.games[h].player1
                                   /\ t.games[h].player2 = s.games[h].player2
                                   /\ h # g => t.games[h] = s.games[h]
      /\ Notes(u, t, o, MyTurn)
  <2>1. g \in DOMAIN u.games
    BY <1>2, <1>7
  <2>2. /\ Lists(t, {}) /\ t.players = u.players /\ DOMAIN t.games = DOMAIN u.games
        /\ t.games[g].turn = o /\ t.games[g].over = u.games[g].over
        /\ t.games[g].tries = u.games[g].tries
        /\ \A h \in DOMAIN u.games : /\ t.games[h].player1 = u.games[h].player1
                                     /\ t.games[h].player2 = u.games[h].player2
                                     /\ h # g => t.games[h] = u.games[h]
        /\ Notes(u, t, o, MyTurn)
    BY <1>4, <1>7, <1>8, <2>1, TurnEffect
  <2> QED BY <1>7, <2>2
<1>10. /\ t.players[n].state = "ON_GAME" /\ t.players[o].state = "ON_GAME"
       /\ t.players[n].turns = s.players[n].turns + 1 /\ t.players[o].turns = s.players[o].turns
       /\ t.players[n].board = s.players[n].board
       /\ t.players[o].board = Attack(s.players[o].board, x)
       /\ t.players[n].wins = s.players[n].wins /\ t.players[o].wins = s.players[o].wins
  BY <1>3, <1>7, <1>9, StruckPlayers
<1>11. /\ t.players[o].board.hit = Hit(s, n) \cup {x}
       /\ t.players[n].turns = Cardinality(t.players[o].board.hit)
  BY <1>1, <1>3, <1>10, BoardFinite
<1>12. Steady(s, t)
  BY <1>7, <1>9, SteadyOn DEF Notes
<1>13. PlayersOf(t.games[g]) = {n, o} /\ Opponent(t.games[g], n) = o
  BY <1>2, <1>9 DEF PlayersOf, Opponent
<1>14. Pair(t, g, n, o) /\ Pair(t, g, o, n)
  <2>1. ~t.games[g].over /\ g \in DOMAIN t.games
    BY <1>1, <1>9 DEF Pair
  <2>2. Pair(t, g, n, Opponent(t.games[g], n))
    BY <1>9, <1>13, <2>1, PairOf
  <2> QED BY <1>13, <2>2, PairTurned
<1>15. ASSUME NEW m, m \notin {n, o} PROVE Same(s, t, m)
  <2>1. \A i : i \notin {n, o} => /\ HasPlayer(t, i) <=> HasPlayer(s, i)
                                  /\ HasPlayer(s, i) => t.players[i] = s.players[i]
    BY <1>7, <1>9 DEF HasPlayer
  <2> QED BY <1>2, <1>9, <1>13, <1>15, <2>1, OthersSame
<1>16. Even(t)
  <2>1. Level(t.games[g], t.players[n], t.players[o])
    BY <1>3, <1>9, <1>10, <1>11, <1>13 DEF Level
  <2>2. Level(t.games[g], t.players[t.games[g].player1], t.players[t.games[g].player2])
    BY <1>14, <2>1, LevelPair
  <2>3. \A m \in DOMAIN s.players :
           /\ m \notin PlayersOf(s.games[g]) => t.players[m] = s.players[m]
           /\ t.players[m].state = "WAIT" => s.players[m].state = "WAIT"
    BY <1>2, <1>7, <1>9, <1>10
  <2> QED BY <1>2, <1>7, <1>9, <1>12, <2>2, <2>3, EvenKept
<1>17. /\ Role(t, n) = "theirs" /\ Hit(t, n) = Hit(s, n) \cup {x}
       /\ Role(t, o) = "mine" /\ Hit(t, o) = Hit(s, o)
  <2>1. /\ Role(t, n) = "theirs" /\ Role(t, o) = "mine"
    BY <1>2, <1>9, <1>10, <1>14, PairRole
  <2> QED BY <1>3, <1>10, <1>11, <1>14, <2>1, PairRole
<1>18. Carries(s, t, c)
  <2> SUFFICES ASSUME NEW d \in Client, NEW w \in Seq(Packet), NEW q, NEW at, NEW mk,
                      t.link[d].up, Shape(q, at), Hears(s, d, w, q, at, mk), d = c => Asking(q)
               PROVE  Hears(t, d, w, IF d = c THEN Tail(q) ELSE q, at, mk)
    BY DEF Carries
  <2> DEFINE p == Pending(s, d, w)
  <2>1. s.link[d].up /\ t.link[d].id = s.link[d].id /\ p \in Seq(Packet)
    BY <1>12, PendingType DEF Steady, Lists
  <2>2. Pending(t, d, w) = IF s.link[d].id = o THEN Append(Pending(u, d, w), MyTurn)
                                               ELSE Pending(u, d, w)
    <3>1. u.link[d].up /\ u.link[d].id = s.link[d].id
      BY <1>7, <2>1 DEF Steady
    <3> QED BY <1>9, <3>1 DEF Notes
  <2>3. CASE d = c
    <3> DEFINE a == Alone(t, n)
               q2 == Append(Append(p, Ok), p1)
    <3>1. Pending(t, d, w) = q2
      BY <1>1, <1>2, <1>7, <2>1, <2>2, <2>3
    <3>2. Conv("mine", Hit(s, n), Alone(s, n), p, q, at, mk)
      BY <1>1, <2>3 DEF Hears
    <3> HIDE DEF p
    <3>3. Conv("theirs", Hit(s, n) \cup {x}, a, q2, Tail(q), at, mk)
      BY <1>6, <2>1, <2>3, <3>2, ConvAttacked DEF p1
    <3> QED BY <1>1, <1>17, <2>1, <2>3, <3>1, <3>3 DEF Hears
  <2>4. CASE d # c /\ s.link[d].id = o
    <3> DEFINE a == Alone(t, o)
               q1 == Append(p, p2)
    <3>1. Pending(t, d, w) = Append(q1, MyTurn)
      BY <1>2, <1>7, <2>1, <2>2, <2>4
    <3>2. Conv("theirs", Hit(s, o), Alone(s, o), p, q, at, mk)
      BY <1>3, <2>4 DEF Hears
    <3> HIDE DEF p
    <3>3. Conv("theirs", Hit(s, o), a, q1, q, at, mk)
      BY <1>6, <2>1, <3>2, ConvSuffers DEF p2
    <3>4. q1 \in Seq(Packet)
      <4>1. p2 \in Packet
        BY <1>6, PacketKinds DEF p2
      <4> QED BY <2>1, <4>1, AppendProperties
    <3> HIDE DEF q1
    <3>5. Conv("mine", Hit(s, o), a, Append(q1, MyTurn), q, at, mk)
      BY <3>3, <3>4, ConvTurn
    <3> QED BY <1>17, <2>1, <2>4, <3>1, <3>5 DEF Hears
  <2>5. CASE d # c /\ s.link[d].id # o
    <3>1. s.link[d].id \notin {n, o}
      BY <1>1, <2>1, <2>5 DEF Even, Unique
    <3>2. Pending(t, d, w) = p
      BY <1>7, <2>1, <2>2, <3>1
    <3>3. Same(s, t, s.link[d].id)
      BY <1>15, <3>1
    <3> QED BY <2>1, <2>5, <3>2, <3>3, HearsSame
  <2> QED BY <2>3, <2>4, <2>5
<1>19. Rates(s, t)
  <2>1. /\ \A h \in DOMAIN s.games : /\ t.games[h].over = s.games[h].over
                                     /\ t.games[h].tries = s.games[h].tries
        /\ \A i \in DOMAIN s.players : /\ t.players[i].wins = s.players[i].wins
                                       /\ t.players[i].state = "WAIT" <=> s.players[i].state = "WAIT"
    BY <1>3, <1>7, <1>9, <1>10
  <2>2. (\A i : Stands(s, t, i)) /\ (Credits(s) => Credits(t))
    BY <1>7, <1>9, <2>1, StandsKept
  <2>3. Plain(Ok) /\ Plain(MyTurn) /\ Plain(p1) /\ Plain(p2)
    BY <1>6, PlainKinds DEF p1, p2
  <2>4. ASSUME NEW d \in Client, NEW w \in Seq(Packet), s.link[d].up
        PROVE  Plainly(Pending(s, d, w), Pending(t, d, w))
    <3>1. u.link[d].up /\ u.link[d].id = s.link[d].id
      BY <1>7, <2>4 DEF Steady
    <3>2. Pending(t, d, w) = IF s.link[d].id = o THEN Append(Pending(u, d, w), MyTurn)
                                                 ELSE Pending(u, d, w)
      BY <1>9, <3>1 DEF Notes
    <3> QED BY <1>2, <1>7, <2>3, <2>4, <3>2 DEF Plainly
  <2> QED BY <1>12, <2>2, <2>4, PlainRates DEF Lists
<1> QED BY <1>12, <1>16, <1>18, <1>19 DEF t, n

\* An attack that decides the game, as far as both players have been told so.
Decided(s, g, n, o, c) ==
    Send(SetPlayer(Struck(s, n, o, c), n, Winner(Credited(s.players[n]))),
         [m \in PlayersOf(s.games[g]) |-> GameOver(m = n, Credited(s.players[n]).turns)])

DecidedDone(s, t, n, o, c) ==
    LET result == AttackResult(s.players[o].board, c)
        turns == Credited(s.players[n]).turns
    IN  /\ Lists(t, {}) /\ Steady(s, t) /\ t.games = s.games
        /\ DOMAIN t.players = DOMAIN s.players
        /\ t.players[n] = Winner(Credited(s.players[n])) /\ t.players[o] = Hurt(s.players[o], c)
        /\ \A m \in DOMAIN s.players : m \notin {n, o} => t.players[m] = s.players[m]
        /\ \A d \in Client : \A w \in Seq(Packet) : s.link[d].up =>
              LET p == Pending(s, d, w)
              IN  Pending(t, d, w) =
                    IF s.link[d].id = n
                      THEN Append(Append(Append(p, Ok), Attacked(c, TRUE, result)),
                                  GameOver(TRUE, turns))
                    ELSE IF s.link[d].id = o
                      THEN Append(Append(p, Attacked(c, FALSE, result)), GameOver(FALSE, turns))
                    ELSE p

LEMMA WinnerIs ==
    ASSUME NEW p \in APlayer
    PROVE  /\ Winner(p) \in APlayer /\ Winner(p).state = p.state /\ Winner(p).turns = p.turns
           /\ Winner(p).wins = p.wins + 1 /\ Winner(p).board = p.board
<1> DEFINE wins == p.wins + 1
           total == p.winTurns + p.turns
           q == [p EXCEPT !.wins = wins]
<1>1. wins \in Int /\ total \in Int
  BY DEF APlayer
<1>2. Winner(p) = [q EXCEPT !.winTurns = total]
  BY DEF Winner
<1> HIDE DEF wins, total
<1>3. /\ q \in APlayer /\ q.state = p.state /\ q.turns = p.turns /\ q.wins = wins
      /\ q.board = p.board
  BY <1>1 DEF APlayer
<1> HIDE DEF q
<1>4. LET r == [q EXCEPT !.winTurns = total]
      IN  /\ r \in APlayer /\ r.state = q.state /\ r.turns = q.turns /\ r.wins = q.wins
          /\ r.board = q.board
  BY <1>1, <1>3 DEF APlayer
<1> QED BY <1>2, <1>3, <1>4 DEF wins

LEMMA DecidedEffect ==
    ASSUME NEW s, Lists(s, {}), NEW g, NEW n, NEW o, Pair(s, g, n, o), NEW c \in Cell
    PROVE  DecidedDone(s, Decided(s, g, n, o, c), n, o, c)
<1> DEFINE u == Struck(s, n, o, c)
           a == Winner(Credited(s.players[n]))
           turns == Credited(s.players[n]).turns
           N == PlayersOf(s.games[g])
           packets == [m \in N |-> GameOver(m = n, turns)]
           v == SetPlayer(u, n, a)
           t == Send(v, packets)
           result == AttackResult(s.players[o].board, c)
           p1 == Attacked(c, TRUE, result)
           p2 == Attacked(c, FALSE, result)
<1>1. n # o /\ HasPlayer(s, n) /\ HasPlayer(s, o) /\ N = {n, o}
  BY DEF Pair
<1>2. /\ Lists(u, {}) /\ Steady(s, u) /\ u.games = s.games
      /\ DOMAIN u.players = DOMAIN s.players
      /\ u.players[n] = Credited(s.players[n]) /\ u.players[o] = Hurt(s.players[o], c)
      /\ \A m \in DOMAIN s.players : m \notin {n, o} => u.players[m] = s.players[m]
      /\ \A d \in Client : \A w \in Seq(Packet) : s.link[d].up =>
            LET p == Pending(s, d, w)
            IN  Pending(u, d, w) = IF s.link[d].id = n THEN Append(Append(p, Ok), p1)
                                   ELSE IF s.link[d].id = o THEN Append(p, p2) ELSE p
  <2>1. StruckDone(s, u, n, o, c)
    BY <1>1, StruckEffect
  <2> HIDE DEF u
  <2> QED BY <2>1 DEF StruckDone
<1>3. s.players[n] \in APlayer /\ Credited(s.players[n]) \in APlayer
  <2>1. s.players[n] \in APlayer /\ s.players[o] \in APlayer
    BY <1>1 DEF Lists, Players, HasPlayer
  <2> QED BY <2>1, StruckPlayers
<1>4. a \in APlayer /\ a.state = Credited(s.players[n]).state /\ turns \in Int
  <2>1. turns \in Int
    BY <1>3 DEF APlayer
  <2> QED BY <1>3, <2>1, WinnerIs
<1>5. Decided(s, g, n, o, c) = t
  BY DEF Decided
<1> HIDE DEF u, a, p1, p2, N, turns
<1>6. packets \in [N -> Packet] /\ packets[n] = GameOver(TRUE, turns) /\ packets[o] = GameOver(FALSE, turns)
  <2>1. \A m \in N : GameOver(m = n, turns) \in Packet
    <3> TAKE m \in N
    <3>1. (m = n) \in BOOLEAN
      OBVIOUS
    <3> QED BY <1>4, <3>1, PacketKinds
  <2>2. (n = n) = TRUE /\ (o = n) = FALSE
    BY <1>1
  <2>3. packets[n] = GameOver(n = n, turns) /\ packets[o] = GameOver(o = n, turns)
    BY <1>1
  <2> HIDE DEF packets
  <2>4. GameOver(n = n, turns) = GameOver(TRUE, turns) /\ GameOver(o = n, turns) = GameOver(FALSE, turns)
    BY <2>2 DEF GameOver
  <2>5. packets \in [N -> Packet]
    BY <2>1 DEF packets
  <2> QED BY <2>3, <2>4, <2>5
<1> HIDE DEF packets
<1>7. /\ Lists(v, {}) /\ v.games = s.games /\ DOMAIN v.players = DOMAIN s.players
      /\ v.players[n] = a /\ v.link = u.link
      /\ \A m \in DOMAIN s.players : m # n => v.players[m] = u.players[m]
  <2>1. HasPlayer(u, n)
    BY <1>1, <1>2 DEF HasPlayer
  <2>2. a.state = u.players[n].state
    BY <1>2, <1>4
  <2>3. /\ Lists(v, {}) /\ v.games = u.games /\ DOMAIN v.players = DOMAIN u.players
        /\ v.players[n] = a
        /\ \A m \in DOMAIN u.players : m # n => v.players[m] = u.players[m]
    BY <1>2, <1>4, <2>1, <2>2, SetPlayerKeeps
  <2>4. v.link = u.link
    BY <1>2 DEF Lists, Server, SetPlayer
  <2> QED BY <1>2, <2>3, <2>4
<1> HIDE DEF v, t
<1>8. /\ Lists(t, {}) /\ t.players = v.players /\ t.games = v.games
      /\ Gives(v, t, N, packets)
  BY <1>6, <1>7, SendKeeps, SendGives DEF Lists, t
<1>9. Steady(s, v) /\ Steady(s, t)
  <2>1. Steady(s, v)
    BY <1>2, <1>7 DEF Steady
  <2> QED BY <1>8, <2>1, SteadyOn DEF Gives
<1>10. ASSUME NEW d \in Client, NEW w \in Seq(Packet), s.link[d].up
       PROVE  LET p == Pending(s, d, w)
              IN  Pending(t, d, w) =
                    IF s.link[d].id = n THEN Append(Append(Append(p, Ok), p1), GameOver(TRUE, turns))
                    ELSE IF s.link[d].id = o THEN Append(Append(p, p2), GameOver(FALSE, turns))
                    ELSE p
  <2>1. /\ v.link[d].up /\ v.link[d].id = s.link[d].id /\ Pending(v, d, w) = Pending(u, d, w)
    BY <1>7, <1>9, <1>10 DEF Steady, Pending
  <2>2. Pending(t, d, w) = IF s.link[d].id \in N THEN Append(Pending(v, d, w), packets[s.link[d].id])
                                                 ELSE Pending(v, d, w)
    BY <1>8, <2>1 DEF Gives
  <2> QED BY <1>1, <1>2, <1>6, <1>10, <2>1, <2>2
<1>11. t.players[o] = Hurt(s.players[o], c)
  BY <1>1, <1>2, <1>7, <1>8 DEF HasPlayer
<1>12. DecidedDone(s, t, n, o, c)
  BY <1>2, <1>7, <1>8, <1>9, <1>10, <1>11 DEF DecidedDone, a, p1, p2, turns
<1> QED BY <1>5, <1>12

LEMMA GameOverIs ==
    ASSUME NEW s, Lists(s, {}), NEW g, NEW n, NEW o, Pair(s, g, n, o), NEW c \in Cell,
           IsGameEnd(Attack(s.players[o].board, c))
    PROVE  LET t == Decided(s, g, n, o, c)
           IN  OnSubmitAttack(s, g, n, c) =
                 IF s.games[g].tries >= MaxGames
                   THEN SetGame(OnAllOver(t, g), g, [s.games[g] EXCEPT !.over = TRUE])
                   ELSE OnNextGame(t, g)
<1> DEFINE u == Struck(s, n, o, c)
           a == Winner(Credited(s.players[n]))
           v == SetPlayer(u, n, a)
           t == Decided(s, g, n, o, c)
<1>1. OnSubmitAttack(s, g, n, c) = OnGameOver(v, g, n)
  BY AttackIs
<1>2. n # o /\ HasPlayer(s, n) /\ HasPlayer(s, o)
  BY DEF Pair
<1>3. s.players[n] \in APlayer /\ s.players[o] \in APlayer
  BY <1>2 DEF Lists, Players, HasPlayer
<1>4. a.turns = Credited(s.players[n]).turns
  BY <1>3, StruckPlayers, WinnerIs
<1>5. Lists(u, {}) /\ u.games = s.games
  <2>1. StruckDone(s, u, n, o, c)
    BY <1>2, StruckEffect
  <2> HIDE DEF u
  <2> QED BY <2>1 DEF StruckDone
<1> HIDE DEF u, a
<1>6. v.games = s.games /\ v.players[n] = a
  BY <1>5 DEF Lists, Server, SetPlayer
<1>7. t = Send(v, [m \in PlayersOf(s.games[g]) |-> GameOver(m = n, v.players[n].turns)])
  BY <1>4, <1>6 DEF Decided, u, a
<1> HIDE DEF v, t
<1>8. OnGameOver(v, g, n) = IF s.games[g].tries >= MaxGames
                              THEN SetGame(OnAllOver(t, g), g, [s.games[g] EXCEPT !.over = TRUE])
                              ELSE OnNextGame(t, g)
  BY <1>6, <1>7 DEF OnGameOver
<1> QED BY <1>1, <1>8 DEF t

\* A player at the beginning of a game.
Begun(p) == [p EXCEPT !.turns = 0, !.state = "WAIT_MAP"]

LEMMA BegunIs ==
    ASSUME NEW p \in APlayer
    PROVE  /\ Begun(p) \in APlayer /\ Begun(p).state = "WAIT_MAP" /\ Begun(p).turns = 0
           /\ Begun(p).wins = p.wins
<1> DEFINE q == [p EXCEPT !.turns = 0]
<1>1. q \in APlayer /\ q.turns = 0 /\ q.wins = p.wins
  BY DEF APlayer
<1>2. Begun(p) = [q EXCEPT !.state = "WAIT_MAP"]
  BY DEF Begun
<1> HIDE DEF q
<1>3. LET r == [q EXCEPT !.state = "WAIT_MAP"]
      IN  r \in APlayer /\ r.state = "WAIT_MAP" /\ r.turns = q.turns /\ r.wins = q.wins
  BY <1>1 DEF APlayer
<1> QED BY <1>1, <1>2, <1>3

BeginDone(s, t, g) ==
    LET x == s.games[g]
    IN  /\ t.link = s.link /\ DOMAIN t.players = DOMAIN s.players
        /\ \A m \in DOMAIN s.players :
              t.players[m] = IF m \in PlayersOf(x) THEN Begun(s.players[m]) ELSE s.players[m]
        /\ DOMAIN t.games = DOMAIN s.games
        /\ \A h \in DOMAIN s.games : h # g => t.games[h] = s.games[h]
        /\ t.games[g].player1 = x.player1 /\ t.games[g].player2 = x.player2
        /\ t.games[g].over = x.over /\ t.games[g].tries = x.tries + 1

LEMMA BeginEffect ==
    ASSUME NEW s, Server(s), NEW g \in DOMAIN s.games, s.games[g] \in AnyGame,
           \A n \in PlayersOf(s.games[g]) : HasPlayer(s, n)
    PROVE  BeginDone(s, BeginGame(s, g), g)
<1> DEFINE x == s.games[g]
           tries == x.tries + 1
           y0 == [x EXCEPT !.tries = tries]
           y == [x EXCEPT !.tries = tries, !.started = TRUE]
           u == SetGame(s, g, y)
           f == [n \in DOMAIN s.players |->
                   IF n \in PlayersOf(x) THEN Begun(s.players[n]) ELSE s.players[n]]
           t == BeginGame(s, g)
<1>1. t = [u EXCEPT !.players = f]
  BY DEF BeginGame, Begun
<1>2. y.player1 = x.player1 /\ y.player2 = x.player2 /\ y.over = x.over /\ y.tries = tries
  <2> HIDE DEF x, tries
  <2>1. x \in AnyGame
    BY DEF x
  <2>2. y = [y0 EXCEPT !.started = TRUE]
    OBVIOUS
  <2>3. /\ y0 \in [player1 : Int, player2 : Int, tries : {tries}, turn : Number0,
                   started : BOOLEAN, over : BOOLEAN]
        /\ y0.player1 = x.player1 /\ y0.player2 = x.player2 /\ y0.over = x.over
        /\ y0.tries = tries
    BY <2>1 DEF AnyGame
  <2> HIDE DEF y0
  <2>4. LET z == [y0 EXCEPT !.started = TRUE]
        IN  /\ z.player1 = y0.player1 /\ z.player2 = y0.player2 /\ z.over = y0.over
            /\ z.tries = y0.tries
    BY <2>3
  <2> QED BY <2>2, <2>3, <2>4
<1> HIDE DEF y, f, t
<1>3. /\ Server(u) /\ u.link = s.link /\ u.players = s.players
      /\ u.games = [h \in DOMAIN s.games \cup {g} |-> IF h = g THEN y ELSE s.games[h]]
  BY SetGameFields
<1> HIDE DEF u
<1>4. t.link = s.link /\ t.players = f /\ t.games = u.games
  BY <1>1, <1>3, PlayersField
<1> QED BY <1>2, <1>3, <1>4 DEF BeginDone, f, t

\* The game was not the last: both are told of the next.
NextDone(s, t, g, n, o, c) ==
    LET result == AttackResult(s.players[o].board, c)
        turns == Credited(s.players[n]).turns
    IN  /\ Lists(t, {}) /\ Steady(s, t)
        /\ DOMAIN t.players = DOMAIN s.players
        /\ t.players[n] = Begun(Winner(Credited(s.players[n])))
        /\ t.players[o] = Begun(Hurt(s.players[o], c))
        /\ \A m \in DOMAIN s.players : m \notin {n, o} => t.players[m] = s.players[m]
        /\ DOMAIN t.games = DOMAIN s.games
        /\ t.games[g].over = s.games[g].over /\ t.games[g].tries = s.games[g].tries + 1
        /\ \A h \in DOMAIN s.games : /\ t.games[h].player1 = s.games[h].player1
                                     /\ t.games[h].player2 = s.games[h].player2
                                     /\ h # g => t.games[h] = s.games[h]
        /\ \A d \in Client : \A w \in Seq(Packet) : s.link[d].up =>
              LET p == Pending(s, d, w)
              IN  Pending(t, d, w) =
                    IF s.link[d].id = n
                      THEN Append(Append(Append(Append(p, Ok), Attacked(c, TRUE, result)),
                                         GameOver(TRUE, turns)), NextGame)
                    ELSE IF s.link[d].id = o
                      THEN Append(Append(Append(p, Attacked(c, FALSE, result)),
                                         GameOver(FALSE, turns)), NextGame)
                    ELSE p

LEMMA NextEffect ==
    ASSUME NEW s, Lists(s, {}), NEW g, NEW n, NEW o, Pair(s, g, n, o), NEW c \in Cell
    PROVE  NextDone(s, OnNextGame(Decided(s, g, n, o, c), g), g, n, o, c)
<1> DEFINE u == Decided(s, g, n, o, c)
           t == OnNextGame(u, g)
           N == PlayersOf(s.games[g])
           packets == [m \in N |-> NextGame]
           v == Send(u, packets)
           result == AttackResult(s.players[o].board, c)
           turns == Credited(s.players[n]).turns
           a(p) == Append(Append(Append(p, Ok), Attacked(c, TRUE, result)), GameOver(TRUE, turns))
           b(p) == Append(Append(p, Attacked(c, FALSE, result)), GameOver(FALSE, turns))
<1>1. /\ n # o /\ HasPlayer(s, n) /\ HasPlayer(s, o) /\ N = {n, o} /\ g \in DOMAIN s.games
  BY DEF Pair
<1>2. /\ Lists(u, {}) /\ Steady(s, u) /\ u.games = s.games
      /\ DOMAIN u.players = DOMAIN s.players
      /\ u.players[n] = Winner(Credited(s.players[n])) /\ u.players[o] = Hurt(s.players[o], c)
      /\ \A m \in DOMAIN s.players : m \notin {n, o} => u.players[m] = s.players[m]
      /\ \A d \in Client : \A w \in Seq(Packet) : s.link[d].up =>
            LET p == Pending(s, d, w)
            IN  Pending(u, d, w) = IF s.link[d].id = n THEN a(p)
                                   ELSE IF s.link[d].id = o THEN b(p) ELSE p
  <2>1. DecidedDone(s, u, n, o, c)
    BY DecidedEffect
  <2> HIDE DEF u
  <2> QED BY <2>1 DEF DecidedDone
<1> HIDE DEF u, a, b
<1>3. t = BeginGame(v, g)
  BY <1>2 DEF OnNextGame
<1>4. packets \in [N -> Packet] /\ packets[n] = NextGame /\ packets[o] = NextGame
  BY <1>1, PacketKinds
<1>5. Lists(t, {})
  BY <1>1, <1>2, OnNextGameKeeps
<1> HIDE DEF packets
<1>6. /\ Lists(v, {}) /\ v.players = u.players /\ v.games = u.games /\ Gives(u, v, N, packets)
  BY <1>2, <1>4, SendKeeps, SendGives DEF Lists
<1> HIDE DEF v, t
<1>7. BeginDone(v, t, g)
  <2>1. g \in DOMAIN v.games /\ v.games[g] \in AnyGame
    <3>1. g \in DOMAIN v.games /\ v.games[g] \in AGame
      BY <1>1, <1>2, <1>6 DEF Lists, Games
    <3>2. PlayerNumber \subseteq Int
      BY DEF PlayerNumber
    <3> QED BY <3>1, <3>2 DEF AGame, AnyGame
  <2>2. \A m \in PlayersOf(v.games[g]) : HasPlayer(v, m)
    BY <1>1, <1>2, <1>6 DEF HasPlayer
  <2> QED BY <1>3, <1>6, <2>1, <2>2, BeginEffect DEF Lists
<1>8. t.link = v.link
  BY <1>7 DEF BeginDone
<1>9. Steady(s, v) /\ Steady(s, t)
  <2>1. Steady(u, v)
    BY <1>6 DEF Gives
  <2>2. Steady(v, t)
    BY <1>8 DEF Steady
  <2> QED BY <1>2, <2>1, <2>2, SteadyOn
<1>10. ASSUME NEW d \in Client, NEW w \in Seq(Packet), s.link[d].up
       PROVE  LET p == Pending(s, d, w)
              IN  Pending(t, d, w) = IF s.link[d].id = n THEN Append(a(p), NextGame)
                                     ELSE IF s.link[d].id = o THEN Append(b(p), NextGame) ELSE p
  <2>1. u.link[d].up /\ u.link[d].id = s.link[d].id
    BY <1>2, <1>10 DEF Steady
  <2>2. Pending(t, d, w) = Pending(v, d, w)
    BY <1>8 DEF Pending
  <2>3. Pending(v, d, w) = IF s.link[d].id \in N
                             THEN Append(Pending(u, d, w), packets[s.link[d].id])
                             ELSE Pending(u, d, w)
    BY <1>6, <2>1 DEF Gives
  <2> QED BY <1>1, <1>2, <1>4, <1>10, <2>2, <2>3
<1>11. /\ DOMAIN t.players = DOMAIN s.players
       /\ t.players[n] = Begun(Winner(Credited(s.players[n])))
       /\ t.players[o] = Begun(Hurt(s.players[o], c))
       /\ \A m \in DOMAIN s.players : m \notin {n, o} => t.players[m] = s.players[m]
       /\ DOMAIN t.games = DOMAIN s.games
       /\ t.games[g].over = s.games[g].over /\ t.games[g].tries = s.games[g].tries + 1
       /\ \A h \in DOMAIN s.games : /\ t.games[h].player1 = s.games[h].player1
                                    /\ t.games[h].player2 = s.games[h].player2
                                    /\ h # g => t.games[h] = s.games[h]
  BY <1>1, <1>2, <1>6, <1>7 DEF BeginDone, HasPlayer
<1>12. NextDone(s, t, g, n, o, c)
  BY <1>5, <1>9, <1>10, <1>11 DEF NextDone, a, b
<1> QED BY <1>12 DEF t, u

\* The game was the last of the match.
OverDone(s, t, g, n, o, c) ==
    LET result == AttackResult(s.players[o].board, c)
        turns == Credited(s.players[n]).turns
        a == Winner(Credited(s.players[n]))
        b == Hurt(s.players[o], c)
    IN  /\ Lists(t, {}) /\ Steady(s, t)
        /\ DOMAIN t.players = DOMAIN s.players
        /\ t.players[n] = a /\ t.players[o] = b
        /\ \A m \in DOMAIN s.players : m \notin {n, o} => t.players[m] = s.players[m]
        /\ DOMAIN t.games = DOMAIN s.games /\ t.games[g].over
        /\ \A h \in DOMAIN s.games : /\ t.games[h].player1 = s.games[h].player1
                                     /\ t.games[h].player2 = s.games[h].player2
                                     /\ h # g => t.games[h] = s.games[h]
        /\ \A d \in Client : \A w \in Seq(Packet) : s.link[d].up =>
              LET p == Pending(s, d, w)
              IN  Pending(t, d, w) =
                    IF s.link[d].id = n
                      THEN Append(Append(Append(Append(p, Ok), Attacked(c, TRUE, result)),
                                         GameOver(TRUE, turns)), AllOver(a.wins, a.winTurns))
                    ELSE IF s.link[d].id = o
                      THEN Append(Append(Append(p, Attacked(c, FALSE, result)),
                                         GameOver(FALSE, turns)), AllOver(b.wins, b.winTurns))
                    ELSE p

LEMMA OverEffect ==
    ASSUME NEW s, Lists(s, {}), NEW g, NEW n, NEW o, Pair(s, g, n, o), NEW c \in Cell
    PROVE  OverDone(s, SetGame(OnAllOver(Decided(s, g, n, o, c), g), g,
                               [s.games[g] EXCEPT !.over = TRUE]), g, n, o, c)
<1> DEFINE u == Decided(s, g, n, o, c)
           x == s.games[g]
           y == [x EXCEPT !.over = TRUE]
           N == PlayersOf(x)
           M == {m \in N : HasPlayer(u, m)}
           packets == [m \in M |-> AllOver(u.players[m].wins, u.players[m].winTurns)]
           v == OnAllOver(u, g)
           t == SetGame(v, g, y)
           result == AttackResult(s.players[o].board, c)
           turns == Credited(s.players[n]).turns
           a == Winner(Credited(s.players[n]))
           b == Hurt(s.players[o], c)
           A(p) == Append(Append(Append(p, Ok), Attacked(c, TRUE, result)), GameOver(TRUE, turns))
           B(p) == Append(Append(p, Attacked(c, FALSE, result)), GameOver(FALSE, turns))
<1>1. /\ n # o /\ HasPlayer(s, n) /\ HasPlayer(s, o) /\ N = {n, o} /\ g \in DOMAIN s.games
  BY DEF Pair
<1>2. /\ Lists(u, {}) /\ Steady(s, u) /\ u.games = s.games
      /\ DOMAIN u.players = DOMAIN s.players
      /\ u.players[n] = a /\ u.players[o] = b
      /\ \A m \in DOMAIN s.players : m \notin {n, o} => u.players[m] = s.players[m]
      /\ \A d \in Client : \A w \in Seq(Packet) : s.link[d].up =>
            LET p == Pending(s, d, w)
            IN  Pending(u, d, w) = IF s.link[d].id = n THEN A(p)
                                   ELSE IF s.link[d].id = o THEN B(p) ELSE p
  <2>1. DecidedDone(s, u, n, o, c)
    BY DecidedEffect
  <2> HIDE DEF u
  <2> QED BY <2>1 DEF DecidedDone
<1> HIDE DEF u, A, B, a, b
<1>3. x \in AGame
  BY <1>1 DEF Lists, Games
<1>4. y \in AGame /\ y.player1 = x.player1 /\ y.player2 = x.player2 /\ y.over
  <2> HIDE DEF x
  <2> QED BY <1>3 DEF AGame
<1>5. v = Send(u, packets)
  BY <1>2 DEF OnAllOver
<1>6. M = {n, o}
  BY <1>1, <1>2 DEF HasPlayer
<1>7. /\ packets \in [M -> Packet]
      /\ packets[n] = AllOver(a.wins, a.winTurns) /\ packets[o] = AllOver(b.wins, b.winTurns)
  <2>1. u.players[n] \in APlayer /\ u.players[o] \in APlayer
    BY <1>1, <1>2 DEF Lists, Players, HasPlayer
  <2>2. \A m \in M : AllOver(u.players[m].wins, u.players[m].winTurns) \in Packet
    BY <1>6, <2>1, PacketKinds DEF APlayer
  <2> QED BY <1>2, <1>6, <2>2
<1> HIDE DEF packets, M, v, y
<1>8. Lists(v, {}) /\ v.players = u.players /\ v.games = u.games /\ Gives(u, v, M, packets)
  BY <1>2, <1>5, <1>7, SendKeeps, SendGives DEF Lists
<1>9. /\ Lists(t, {}) /\ t.players = v.players /\ t.link = v.link
      /\ DOMAIN t.games = DOMAIN s.games /\ t.games[g] = y
      /\ \A h \in DOMAIN s.games : h # g => t.games[h] = s.games[h]
  <2>1. /\ t.link = v.link /\ t.games = [h \in DOMAIN v.games \cup {g} |-> IF h = g THEN y ELSE v.games[h]]
    BY <1>8, SetGameFields DEF Lists
  <2>2. Lists(t, {}) /\ t.players = v.players
    BY <1>1, <1>2, <1>4, <1>8, SetGameKeeps
  <2> QED BY <1>1, <1>2, <1>8, <2>1, <2>2
<1> HIDE DEF t
<1>10. Steady(s, v) /\ Steady(s, t)
  <2>1. Steady(u, v)
    BY <1>8 DEF Gives
  <2>2. Steady(v, t)
    BY <1>9 DEF Steady
  <2> QED BY <1>2, <2>1, <2>2, SteadyOn
<1>11. ASSUME NEW d \in Client, NEW w \in Seq(Packet), s.link[d].up
       PROVE  LET p == Pending(s, d, w)
              IN  Pending(t, d, w) =
                    IF s.link[d].id = n THEN Append(A(p), AllOver(a.wins, a.winTurns))
                    ELSE IF s.link[d].id = o THEN Append(B(p), AllOver(b.wins, b.winTurns)) ELSE p
  <2>1. u.link[d].up /\ u.link[d].id = s.link[d].id
    BY <1>2, <1>11 DEF Steady
  <2>2. Pending(t, d, w) = Pending(v, d, w)
    BY <1>9 DEF Pending
  <2>3. Pending(v, d, w) = IF s.link[d].id \in M
                             THEN Append(Pending(u, d, w), packets[s.link[d].id])
                             ELSE Pending(u, d, w)
    BY <1>8, <2>1 DEF Gives
  <2> QED BY <1>1, <1>2, <1>6, <1>7, <1>11, <2>2, <2>3
<1>12. \A h \in DOMAIN s.games : /\ t.games[h].player1 = s.games[h].player1
                                 /\ t.games[h].player2 = s.games[h].player2
  BY <1>4, <1>9
<1>13. OverDone(s, t, g, n, o, c)
  BY <1>2, <1>4, <1>8, <1>9, <1>10, <1>11, <1>12 DEF OverDone, A, B, a, b
<1> QED BY <1>13 DEF t, v, y, u

\* What the client that asked, the client of its opponent, and every other hears.
LEMMA CarriesWhen ==
    ASSUME NEW s, Lists(s, {}), Unique(s), NEW t, Steady(s, t), NEW c \in Client, s.link[c].up,
           NEW n, s.link[c].id = n, NEW o,
           \A m : m \notin {n, o} => Same(s, t, m),
           \A d \in Client : \A w \in Seq(Packet) :
              s.link[d].up /\ s.link[d].id \notin {n, o} => Pending(t, d, w) = Pending(s, d, w),
           \A w \in Seq(Packet) : \A r, at, mk : Shape(r, at) /\ Asking(r) =>
              (Hears(s, c, w, r, at, mk) => Hears(t, c, w, Tail(r), at, mk)),
           \A d \in Client : \A w \in Seq(Packet) : \A r, at, mk :
              s.link[d].up /\ s.link[d].id = o /\ o # n /\ Shape(r, at) =>
                 (Hears(s, d, w, r, at, mk) => Hears(t, d, w, r, at, mk))
    PROVE  Carries(s, t, c)
<1> SUFFICES ASSUME NEW d \in Client, NEW w \in Seq(Packet), NEW r, NEW at, NEW mk,
                    t.link[d].up, Shape(r, at), Hears(s, d, w, r, at, mk), d = c => Asking(r)
             PROVE  Hears(t, d, w, IF d = c THEN Tail(r) ELSE r, at, mk)
  BY DEF Carries
<1>1. s.link[d].up /\ t.link[d].id = s.link[d].id
  BY DEF Steady
<1>2. CASE d = c
  BY <1>2
<1>3. CASE d # c
  <2>1. s.link[d].id # n
    BY <1>1, <1>3 DEF Unique
  <2>2. CASE s.link[d].id = o
    BY <1>1, <1>3, <2>1, <2>2
  <2>3. CASE s.link[d].id # o
    <3>1. Pending(t, d, w) = Pending(s, d, w) /\ Same(s, t, s.link[d].id)
      BY <1>1, <2>1, <2>3
    <3> QED BY <1>1, <1>3, <3>1, HearsSame
  <2> QED BY <2>2, <2>3
<1> QED BY <1>2, <1>3

LEMMA NextCarries ==
    ASSUME NEW s, Lists(s, {}), Even(s), NEW c \in Client, s.link[c].up,
           NEW g, NEW n, s.link[c].id = n, NEW o, Pair(s, g, n, o), Role(s, n) = "mine",
           NEW x \in Cell, x \notin Hit(s, n), NEW t, NextDone(s, t, g, n, o, x)
    PROVE  Even(t) /\ Steady(s, t) /\ Carries(s, t, c)
<1> DEFINE result == AttackResult(s.players[o].board, x)
           turns == Credited(s.players[n]).turns
           p1 == Attacked(x, TRUE, result)
           p2 == Attacked(x, FALSE, result)
           w1 == GameOver(TRUE, turns)
           w2 == GameOver(FALSE, turns)
<1>1. /\ n # o /\ HasPlayer(s, n) /\ HasPlayer(s, o) /\ g \in DOMAIN s.games
      /\ Opponent(s.games[g], n) = o /\ PlayersOf(s.games[g]) = {n, o} /\ ~s.games[g].over
  BY DEF Pair
<1>2. /\ Role(s, o) = "theirs" /\ s.players[n] \in APlayer /\ s.players[o] \in APlayer
      /\ s.players[o].board \in ABoard
  BY TurnRoles
<1>3. /\ Lists(t, {}) /\ Steady(s, t)
      /\ DOMAIN t.players = DOMAIN s.players
      /\ t.players[n] = Begun(Winner(Credited(s.players[n])))
      /\ t.players[o] = Begun(Hurt(s.players[o], x))
      /\ \A m \in DOMAIN s.players : m \notin {n, o} => t.players[m] = s.players[m]
      /\ DOMAIN t.games = DOMAIN s.games
      /\ t.games[g].over = s.games[g].over
      /\ \A h \in DOMAIN s.games : /\ t.games[h].player1 = s.games[h].player1
                                   /\ t.games[h].player2 = s.games[h].player2
                                   /\ h # g => t.games[h] = s.games[h]
      /\ \A d \in Client : \A w \in Seq(Packet) : s.link[d].up =>
            LET p == Pending(s, d, w)
            IN  Pending(t, d, w) =
                  IF s.link[d].id = n THEN Append(Append(Append(Append(p, Ok), p1), w1), NextGame)
                  ELSE IF s.link[d].id = o THEN Append(Append(Append(p, p2), w2), NextGame)
                  ELSE p
  BY DEF NextDone
<1>4. result \in Result /\ turns \in Int
  <2>1. result \in Result
    BY <1>2, AttackTypes
  <2>2. turns \in Int
    <3>1. Credited(s.players[n]) \in APlayer
      <4>1. \A p, q \in APlayer : Credited(p) \in APlayer
        BY StruckPlayers
      <4> QED BY <1>2, <4>1
    <3> QED BY <3>1 DEF APlayer
  <2> QED BY <2>1, <2>2
<1> HIDE DEF result, turns
<1>5. /\ t.players[n].state = "WAIT_MAP" /\ t.players[o].state = "WAIT_MAP"
      /\ t.players[n].turns = 0 /\ t.players[o].turns = 0
  <2>1. Winner(Credited(s.players[n])) \in APlayer /\ Hurt(s.players[o], x) \in APlayer
    <3>1. Credited(s.players[n]) \in APlayer /\ Hurt(s.players[o], x) \in APlayer
      BY <1>2, StruckPlayers
    <3> QED BY <3>1, WinnerIs
  <2> QED BY <1>3, <2>1, BegunIs
<1>6. PlayersOf(t.games[g]) = {n, o} /\ Opponent(t.games[g], n) = o
  BY <1>1, <1>3 DEF PlayersOf, Opponent
<1>7. Pair(t, g, n, o) /\ Pair(t, g, o, n)
  <2>1. ~t.games[g].over /\ g \in DOMAIN t.games
    BY <1>1, <1>3
  <2>2. Pair(t, g, n, Opponent(t.games[g], n))
    BY <1>3, <1>6, <2>1, PairOf
  <2> QED BY <1>6, <2>2, PairTurned
<1>8. ASSUME NEW m, m \notin {n, o} PROVE Same(s, t, m)
  <2>1. \A i : i \notin {n, o} => /\ HasPlayer(t, i) <=> HasPlayer(s, i)
                                  /\ HasPlayer(s, i) => t.players[i] = s.players[i]
    BY <1>3 DEF HasPlayer
  <2> QED BY <1>1, <1>3, <1>6, <1>8, <2>1, OthersSame
<1>9. Even(t)
  <2>1. Level(t.games[g], t.players[n], t.players[o])
    BY <1>5 DEF Level
  <2>2. Level(t.games[g], t.players[t.games[g].player1], t.players[t.games[g].player2])
    BY <1>7, <2>1, LevelPair
  <2>3. \A m \in DOMAIN s.players :
           /\ m \notin PlayersOf(s.games[g]) => t.players[m] = s.players[m]
           /\ t.players[m].state = "WAIT" => s.players[m].state = "WAIT"
    BY <1>1, <1>3, <1>5
  <2> QED BY <1>1, <1>3, <2>2, <2>3, EvenKept
<1>10. Role(t, n) = "map" /\ Role(t, o) = "map"
  BY <1>5, <1>7, PairRole
<1>11. Carries(s, t, c)
  <2>1. ASSUME NEW w \in Seq(Packet), NEW q, NEW at, NEW mk, Shape(q, at), Asking(q),
               Hears(s, c, w, q, at, mk)
        PROVE  Hears(t, c, w, Tail(q), at, mk)
    <3> DEFINE p == Pending(s, c, w)
               q2 == Append(Append(p, Ok), p1)
               h == Hit(t, n)
               a == Alone(t, n)
    <3>1. Conv("mine", Hit(s, n), Alone(s, n), p, q, at, mk)
      BY <2>1 DEF Hears
    <3>2. Pending(t, c, w) = Append(Append(q2, w1), NextGame) /\ t.link[c].id = n
      BY <1>3 DEF Steady
    <3>3. p \in Seq(Packet)
      BY PendingType DEF Lists
    <3> HIDE DEF p
    <3>4. Conv("theirs", Hit(s, n) \cup {x}, a, q2, Tail(q), at, mk)
      BY <1>4, <2>1, <3>1, <3>3, ConvAttacked
    <3>5. q2 \in Seq(Packet)
      <4>1. p1 \in Packet /\ Ok \in Packet
        BY <1>4, PacketKinds
      <4> HIDE DEF p1
      <4>2. Append(p, Ok) \in Seq(Packet)
        BY <3>3, <4>1, AppendProperties
      <4> QED BY <4>1, <4>2, AppendProperties
    <3>6. Shape(Tail(q), at)
      BY <2>1, TailAsks
    <3> HIDE DEF q2, h, a
    <3>7. Conv("map", h, a, Append(Append(q2, w1), NextGame), Tail(q), at, mk)
      BY <1>4, <3>4, <3>5, <3>6, ConvNextGame
    <3> QED BY <1>10, <3>2, <3>7 DEF Hears, h, a
  <2>2. ASSUME NEW d \in Client, NEW w \in Seq(Packet), NEW q, NEW at, NEW mk,
               s.link[d].up, s.link[d].id = o, o # n, Shape(q, at), Hears(s, d, w, q, at, mk)
        PROVE  Hears(t, d, w, q, at, mk)
    <3> DEFINE p == Pending(s, d, w)
               q2 == Append(p, p2)
               h == Hit(t, o)
               a == Alone(t, o)
    <3>1. Conv("theirs", Hit(s, o), Alone(s, o), p, q, at, mk)
      BY <1>2, <2>2 DEF Hears
    <3>2. Pending(t, d, w) = Append(Append(q2, w2), NextGame) /\ t.link[d].id = o
      BY <1>3, <2>2 DEF Steady
    <3>3. p \in Seq(Packet)
      BY PendingType DEF Lists
    <3> HIDE DEF p
    <3>4. Conv("theirs", Hit(s, o), a, q2, q, at, mk)
      BY <1>4, <2>2, <3>1, <3>3, ConvSuffers
    <3>5. q2 \in Seq(Packet)
      <4>1. p2 \in Packet
        BY <1>4, PacketKinds
      <4> HIDE DEF p2
      <4> QED BY <3>3, <4>1, AppendProperties
    <3> HIDE DEF q2, h, a
    <3>6. Conv("map", h, a, Append(Append(q2, w2), NextGame), q, at, mk)
      BY <1>4, <2>2, <3>4, <3>5, ConvNextGame
    <3> QED BY <1>10, <3>2, <3>6 DEF Hears, h, a
  <2>3. \A d \in Client : \A w \in Seq(Packet) :
           s.link[d].up /\ s.link[d].id \notin {n, o} => Pending(t, d, w) = Pending(s, d, w)
    BY <1>3
  <2>4. Unique(s)
    BY DEF Even
  <2>5. Steady(s, t) /\ \A m : m \notin {n, o} => Same(s, t, m)
    BY <1>3, <1>8
  <2>6. \A w \in Seq(Packet) : \A r, at, mk : Shape(r, at) /\ Asking(r) =>
           (Hears(s, c, w, r, at, mk) => Hears(t, c, w, Tail(r), at, mk))
    BY <2>1
  <2>7. \A d \in Client : \A w \in Seq(Packet) : \A r, at, mk :
           s.link[d].up /\ s.link[d].id = o /\ o # n /\ Shape(r, at) =>
              (Hears(s, d, w, r, at, mk) => Hears(t, d, w, r, at, mk))
    BY <2>2
  <2> QED BY <2>3, <2>4, <2>5, <2>6, <2>7, CarriesWhen
<1> QED BY <1>3, <1>9, <1>11

\* The last game is decided.
LEMMA LastCarries ==
    ASSUME NEW s, Lists(s, {}), Even(s), NEW c \in Client, s.link[c].up,
           NEW g, NEW n, s.link[c].id = n, NEW o, Pair(s, g, n, o), Role(s, n) = "mine",
           NEW x \in Cell, x \notin Hit(s, n), NEW t, OverDone(s, t, g, n, o, x)
    PROVE  Even(t) /\ Steady(s, t) /\ Carries(s, t, c)
<1> DEFINE result == AttackResult(s.players[o].board, x)
           turns == Credited(s.players[n]).turns
           A == Winner(Credited(s.players[n]))
           B == Hurt(s.players[o], x)
           p1 == Attacked(x, TRUE, result)
           p2 == Attacked(x, FALSE, result)
           w1 == GameOver(TRUE, turns)
           w2 == GameOver(FALSE, turns)
           z1 == AllOver(A.wins, A.winTurns)
           z2 == AllOver(B.wins, B.winTurns)
<1>1. /\ n # o /\ HasPlayer(s, n) /\ HasPlayer(s, o) /\ g \in DOMAIN s.games /\ g # None
      /\ PlayersOf(s.games[g]) = {n, o}
      /\ s.players[n].state # "WAIT" /\ s.players[o].state # "WAIT"
  BY DEF Pair
<1>2. /\ Role(s, o) = "theirs" /\ s.players[n] \in APlayer /\ s.players[o] \in APlayer
      /\ s.players[o].board \in ABoard
  BY TurnRoles
<1>3. /\ Lists(t, {}) /\ Steady(s, t)
      /\ DOMAIN t.players = DOMAIN s.players
      /\ t.players[n] = A /\ t.players[o] = B
      /\ \A m \in DOMAIN s.players : m \notin {n, o} => t.players[m] = s.players[m]
      /\ DOMAIN t.games = DOMAIN s.games /\ t.games[g].over
      /\ \A h \in DOMAIN s.games : /\ t.games[h].player1 = s.games[h].player1
                                   /\ t.games[h].player2 = s.games[h].player2
                                   /\ h # g => t.games[h] = s.games[h]
      /\ \A d \in Client : \A w \in Seq(Packet) : s.link[d].up =>
            LET p == Pending(s, d, w)
            IN  Pending(t, d, w) =
                  IF s.link[d].id = n THEN Append(Append(Append(Append(p, Ok), p1), w1), z1)
                  ELSE IF s.link[d].id = o THEN Append(Append(Append(p, p2), w2), z2)
                  ELSE p
  BY DEF OverDone
<1>4. /\ Credited(s.players[n]) \in APlayer /\ A \in APlayer /\ B \in APlayer
      /\ A.state = s.players[n].state /\ B.state = s.players[o].state
  <2>1. /\ Credited(s.players[n]) \in APlayer /\ B \in APlayer
        /\ Credited(s.players[n]).state = s.players[n].state /\ B.state = s.players[o].state
    BY <1>2, StruckPlayers
  <2> QED BY <2>1, WinnerIs
<1> HIDE DEF A, B
<1>5. /\ result \in Result /\ turns \in Int
      /\ A.wins \in Int /\ A.winTurns \in Int /\ B.wins \in Int /\ B.winTurns \in Int
  <2>1. result \in Result
    BY <1>2, AttackTypes
  <2> QED BY <1>4, <2>1 DEF APlayer
<1> HIDE DEF result, turns
<1>6. t.players[n].state # "WAIT" /\ t.players[o].state # "WAIT"
  BY <1>1, <1>3, <1>4
<1>7. PlayersOf(t.games[g]) = {n, o}
  BY <1>1, <1>3 DEF PlayersOf
<1>8. Role(t, n) = "gone" /\ Role(t, o) = "gone"
  <2>1. \A m \in {n, o} : GameOf(t, m) = g
    BY <1>1, <1>3, <1>7, GameIs DEF Lists
  <2>2. \A m \in {n, o} : HasPlayer(t, m)
    BY <1>1, <1>3 DEF HasPlayer
  <2> QED BY <1>3, <1>6, <2>1, <2>2 DEF Role, InGame
<1>9. ASSUME NEW m, m \notin {n, o} PROVE Same(s, t, m)
  <2>1. \A i : i \notin {n, o} => /\ HasPlayer(t, i) <=> HasPlayer(s, i)
                                  /\ HasPlayer(s, i) => t.players[i] = s.players[i]
    BY <1>3 DEF HasPlayer
  <2> QED BY <1>1, <1>3, <1>7, <1>9, <2>1, OthersSame
<1>10. Even(t)
  <2>1. \A m \in DOMAIN s.players :
           /\ m \notin PlayersOf(s.games[g]) => t.players[m] = s.players[m]
           /\ t.players[m].state = "WAIT" => s.players[m].state = "WAIT"
    BY <1>1, <1>3, <1>6
  <2> QED BY <1>1, <1>3, <2>1, EvenKept
<1>11. Carries(s, t, c)
  <2>1. ASSUME NEW w \in Seq(Packet), NEW q, NEW at, NEW mk, Shape(q, at), Asking(q),
               Hears(s, c, w, q, at, mk)
        PROVE  Hears(t, c, w, Tail(q), at, mk)
    <3> DEFINE p == Pending(s, c, w)
               q2 == Append(Append(p, Ok), p1)
               h == Hit(t, n)
               a == Alone(t, n)
    <3>1. Conv("mine", Hit(s, n), Alone(s, n), p, q, at, mk)
      BY <2>1 DEF Hears
    <3>2. Pending(t, c, w) = Append(Append(q2, w1), z1) /\ t.link[c].id = n
      BY <1>3 DEF Steady
    <3>3. p \in Seq(Packet)
      BY PendingType DEF Lists
    <3> HIDE DEF p
    <3>4. Conv("theirs", Hit(s, n) \cup {x}, a, q2, Tail(q), at, mk)
      BY <1>5, <2>1, <3>1, <3>3, ConvAttacked
    <3>5. q2 \in Seq(Packet)
      <4>1. p1 \in Packet /\ Ok \in Packet
        BY <1>5, PacketKinds
      <4> HIDE DEF p1
      <4>2. Append(p, Ok) \in Seq(Packet)
        BY <3>3, <4>1, AppendProperties
      <4> QED BY <4>1, <4>2, AppendProperties
    <3>6. Shape(Tail(q), at)
      BY <2>1, TailAsks
    <3> HIDE DEF q2, h, a
    <3>7. Conv("gone", h, a, Append(Append(q2, w1), z1), Tail(q), at, mk)
      BY <1>5, <3>4, <3>5, <3>6, ConvAllOver
    <3> QED BY <1>8, <3>2, <3>7 DEF Hears, h, a
  <2>2. ASSUME NEW d \in Client, NEW w \in Seq(Packet), NEW q, NEW at, NEW mk,
               s.link[d].up, s.link[d].id = o, o # n, Shape(q, at), Hears(s, d, w, q, at, mk)
        PROVE  Hears(t, d, w, q, at, mk)
    <3> DEFINE p == Pending(s, d, w)
               q2 == Append(p, p2)
               h == Hit(t, o)
               a == Alone(t, o)
    <3>1. Conv("theirs", Hit(s, o), Alone(s, o), p, q, at, mk)
      BY <1>2, <2>2 DEF Hears
    <3>2. Pending(t, d, w) = Append(Append(q2, w2), z2) /\ t.link[d].id = o
      BY <1>3, <2>2 DEF Steady
    <3>3. p \in Seq(Packet)
      BY PendingType DEF Lists
    <3> HIDE DEF p
    <3>4. Conv("theirs", Hit(s, o), a, q2, q, at, mk)
      BY <1>5, <2>2, <3>1, <3>3, ConvSuffers
    <3>5. q2 \in Seq(Packet)
      <4>1. p2 \in Packet
        BY <1>5, PacketKinds
      <4> HIDE DEF p2
      <4> QED BY <3>3, <4>1, AppendProperties
    <3> HIDE DEF q2, h, a
    <3>6. Conv("gone", h, a, Append(Append(q2, w2), z2), q, at, mk)
      BY <1>5, <2>2, <3>4, <3>5, ConvAllOver
    <3> QED BY <1>8, <3>2, <3>6 DEF Hears, h, a
  <2>3. \A d \in Client : \A w \in Seq(Packet) :
           s.link[d].up /\ s.link[d].id \notin {n, o} => Pending(t, d, w) = Pending(s, d, w)
    BY <1>3
  <2>4. Unique(s)
    BY DEF Even
  <2>5. Steady(s, t) /\ \A m : m \notin {n, o} => Same(s, t, m)
    BY <1>3, <1>9
  <2>6. \A w \in Seq(Packet) : \A r, at, mk : Shape(r, at) /\ Asking(r) =>
           (Hears(s, c, w, r, at, mk) => Hears(t, c, w, Tail(r), at, mk))
    BY <2>1
  <2>7. \A d \in Client : \A w \in Seq(Packet) : \A r, at, mk :
           s.link[d].up /\ s.link[d].id = o /\ o # n /\ Shape(r, at) =>
              (Hears(s, d, w, r, at, mk) => Hears(t, d, w, r, at, mk))
    BY <2>2
  <2> QED BY <2>3, <2>4, <2>5, <2>6, <2>7, CarriesWhen
<1> QED BY <1>3, <1>10, <1>11

------------------------------------------------------------------------------
(* The score after a game is decided. *)

\* A client is sent the result of the attack, the end of the game and, unless
\* it was the last, the beginning of the next; the total, if it was.
LEMMA TalliedDecided ==
    ASSUME NEW gone, ~gone, NEW wins \in Int, NEW played \in Int, NEW p \in Seq(Packet),
           NEW tl \in Tally, Tallied(gone, wins, played, p, tl), NEW q, Plainly(p, q),
           NEW won \in BOOLEAN, NEW turns \in Int, NEW z, NEW later, NEW now \in Int, NEW past,
           now = wins + IF won THEN 1 ELSE 0,
           ~later => Plain(z) /\ past = played + 1,
           later => z \in Packet /\ z.type = "ALL_OVER" /\ z.wins = now /\ played + 1 = MaxGames
    PROVE  Tallied(later, now, past, Append(Append(q, GameOver(won, turns)), z), tl)
<1> DEFINE o == GameOver(won, turns)
           v == Append(q, o)
<1>1. o \in Packet /\ o.type = "GAME_OVER" /\ o.won = won
  BY PacketKinds DEF GameOver
<1>2. q \in Seq(Packet) /\ Tallied(gone, wins, played, q, tl)
  BY TalliedPlains
<1> HIDE DEF o
<1>3. Tallied(gone, wins + (IF o.won THEN 1 ELSE 0), played + 1, v, tl)
  BY <1>1, <1>2, TalliedOver
<1>4. v \in Seq(Packet)
  BY <1>1, <1>2, AppendProperties
<1> HIDE DEF v
<1>5. Tallied(gone, now, played + 1, v, tl)
  BY <1>1, <1>3
<1>6. ASSUME later PROVE Tallied(later, now, past, Append(v, z), tl)
  <2>1. Tallied(gone, now, MaxGames, v, tl)
    BY <1>5, <1>6
  <2> QED BY <1>4, <1>6, <2>1, TalliedAllOver
<1>7. ASSUME ~later PROVE Tallied(later, now, past, Append(v, z), tl)
  <2>1. Tallied(later, now, past, v, tl)
    BY <1>5, <1>7 DEF Tallied
  <2> QED BY <1>4, <1>7, <2>1, TalliedPlain
<1> QED BY <1>6, <1>7 DEF v, o

\* The winner is n.
Ends(s, t, n, o, p1, p2, turns, z1, z2) ==
    \A d \in Client : \A w \in Seq(Packet) : s.link[d].up =>
        LET p == Pending(s, d, w)
        IN  Pending(t, d, w) =
              IF s.link[d].id = n
                THEN Append(Append(Append(Append(p, Ok), p1), GameOver(TRUE, turns)), z1)
              ELSE IF s.link[d].id = o
                THEN Append(Append(Append(p, p2), GameOver(FALSE, turns)), z2)
              ELSE p

LEMMA DecidedRates ==
    ASSUME NEW s, Lists(s, {}), NEW g, NEW n, NEW o, Pair(s, g, n, o),
           NEW t, Within(s, t, g, n, o), t.players[n].state # "WAIT", t.players[o].state # "WAIT",
           t.players[n].wins = s.players[n].wins + 1, t.players[o].wins = s.players[o].wins,
           NEW turns \in Int, NEW p1, NEW p2, Plain(p1), Plain(p2), NEW z1, NEW z2,
           Ends(s, t, n, o, p1, p2, turns, z1, z2),
           ~t.games[g].over => /\ Plain(z1) /\ Plain(z2) /\ ~(s.games[g].tries >= MaxGames)
                               /\ t.games[g].tries = s.games[g].tries + 1,
           t.games[g].over => /\ z1 \in Packet /\ z1.type = "ALL_OVER" /\ z1.wins = t.players[n].wins
                              /\ z2 \in Packet /\ z2.type = "ALL_OVER" /\ z2.wins = t.players[o].wins
                              /\ s.games[g].tries >= MaxGames
    PROVE  Rates(s, t)
<1> DEFINE x == s.games[g]
           y == t.games[g]
           a == s.players[n]
           b == s.players[o]
           past == Past(x)
<1>1. n # o /\ ~x.over /\ HasPlayer(s, n) /\ HasPlayer(s, o)
  BY DEF Pair
<1>2. a.wins \in Int /\ b.wins \in Int /\ t.players[n].wins \in Int /\ t.players[o].wins \in Int
  BY <1>1 DEF Lists, Players, APlayer, HasPlayer
<1>3. ASSUME Shared(x, a, b)
      PROVE  /\ past \in Int /\ (y.over => past + 1 = MaxGames)
             /\ ~y.over => Past(y) = past + 1 /\ Shared(y, t.players[n], t.players[o])
  <2>1. x.tries \in 1 .. MaxGames /\ a.wins + b.wins = x.tries - 1
    BY <1>3 DEF Shared, Past
  <2> QED BY <1>2, <2>1, GameAssumption DEF Shared, Past
<1>7. /\ ~y.over => Plain(z1) /\ Plain(z2)
      /\ y.over => /\ z1 \in Packet /\ z1.type = "ALL_OVER" /\ z1.wins = t.players[n].wins
                   /\ z2 \in Packet /\ z2.type = "ALL_OVER" /\ z2.wins = t.players[o].wins
  OBVIOUS
<1>4. ASSUME NEW d \in Client, NEW w \in Seq(Packet), NEW tl \in Tally, s.link[d].up,
             s.link[d].id \in {n, o}, Scored(s, g, d, w, tl), Shared(x, a, b)
      PROVE  Scored(t, g, d, w, tl)
  <2> DEFINE p == Pending(s, d, w)
  <2>1. p \in Seq(Packet) /\ t.link[d].id = s.link[d].id
    BY PendingType DEF Within, Lists, Steady
  <2>2. CASE s.link[d].id = n
    <3> DEFINE q == Append(Append(p, Ok), p1)
    <3>1. Pending(t, d, w) = Append(Append(q, GameOver(TRUE, turns)), z1)
      BY <1>4, <2>2 DEF Ends
    <3>2. Tallied(x.over, a.wins, past, p, tl)
      BY <1>4, <2>2 DEF Scored
    <3>3. Plainly(p, q)
      BY PlainKinds DEF Plainly
    <3>4. t.players[n].wins = a.wins + IF TRUE THEN 1 ELSE 0
      OBVIOUS
    <3> HIDE DEF p, q, x, y, a, b, past
    <3>5. Tallied(y.over, t.players[n].wins, Past(y), Append(Append(q, GameOver(TRUE, turns)), z1), tl)
      BY <1>1, <1>2, <1>3, <1>4, <1>7, <2>1, <3>2, <3>3, <3>4, TalliedDecided
    <3> QED BY <2>1, <2>2, <3>1, <3>5 DEF Scored, y
  <2>3. CASE s.link[d].id = o
    <3> DEFINE q == Append(p, p2)
    <3>1. Pending(t, d, w) = Append(Append(q, GameOver(FALSE, turns)), z2)
      BY <1>1, <1>4, <2>3 DEF Ends
    <3>2. Tallied(x.over, b.wins, past, p, tl)
      BY <1>4, <2>3 DEF Scored
    <3>3. Plainly(p, q)
      BY DEF Plainly
    <3>4. t.players[o].wins = b.wins + IF FALSE THEN 1 ELSE 0
      BY <1>2
    <3> HIDE DEF p, q, x, y, a, b, past
    <3>5. Tallied(y.over, t.players[o].wins, Past(y), Append(Append(q, GameOver(FALSE, turns)), z2), tl)
      BY <1>1, <1>2, <1>3, <1>4, <1>7, <2>1, <3>2, <3>3, <3>4, TalliedDecided
    <3> QED BY <2>1, <2>3, <3>1, <3>5 DEF Scored, y
  <2> QED BY <1>4, <2>2, <2>3
<1>5. \A d \in Client : \A w \in Seq(Packet) :
         s.link[d].up /\ s.link[d].id \notin {n, o} => Pending(t, d, w) = Pending(s, d, w)
  BY DEF Ends
<1>6. Shared(s.games[g], s.players[n], s.players[o]) =>
         /\ ~t.games[g].over => Shared(t.games[g], t.players[n], t.players[o])
         /\ \A d \in Client : \A w \in Seq(Packet) : \A tl \in Tally :
               s.link[d].up /\ s.link[d].id \in {n, o} /\ Scored(s, g, d, w, tl)
                  => Scored(t, g, d, w, tl)
  BY <1>3, <1>4
<1> QED BY <1>5, <1>6, GameRates

LEMMA NextRates ==
    ASSUME NEW s, Lists(s, {}), NEW g, NEW n, NEW o, Pair(s, g, n, o), NEW x \in Cell,
           NEW t, NextDone(s, t, g, n, o, x), ~(s.games[g].tries >= MaxGames)
    PROVE  Rates(s, t)
<1> DEFINE result == AttackResult(s.players[o].board, x)
           turns == Credited(s.players[n]).turns
           A == Winner(Credited(s.players[n]))
           B == Hurt(s.players[o], x)
           p1 == Attacked(x, TRUE, result)
           p2 == Attacked(x, FALSE, result)
<1>1. s.players[n] \in APlayer /\ s.players[o] \in APlayer /\ s.players[o].board \in ABoard
  BY DEF Pair, Lists, Players, HasPlayer, APlayer
<1>2. /\ A \in APlayer /\ B \in APlayer /\ turns \in Int
      /\ A.wins = s.players[n].wins + 1 /\ B.wins = s.players[o].wins
  <2>1. /\ Credited(s.players[n]) \in APlayer /\ Credited(s.players[n]).wins = s.players[n].wins
        /\ B \in APlayer /\ B.wins = s.players[o].wins
    BY <1>1, StruckPlayers
  <2> QED BY <2>1, WinnerIs DEF APlayer
<1>3. Plain(p1) /\ Plain(p2) /\ Plain(NextGame)
  BY <1>1, AttackTypes, PlainKinds
<1>4. ~s.games[g].over
  BY DEF Pair
<1> HIDE DEF result, turns, A, B
<1>5. /\ Within(s, t, g, n, o) /\ Ends(s, t, n, o, p1, p2, turns, NextGame, NextGame)
      /\ t.players[n] = Begun(A) /\ t.players[o] = Begun(B)
      /\ t.games[g].over = s.games[g].over /\ t.games[g].tries = s.games[g].tries + 1
  BY DEF NextDone, Within, Ends, A, B, turns, result
<1>6. /\ t.players[n].state # "WAIT" /\ t.players[o].state # "WAIT"
      /\ t.players[n].wins = s.players[n].wins + 1 /\ t.players[o].wins = s.players[o].wins
  BY <1>2, <1>5, BegunIs
<1> HIDE DEF p1, p2
<1> QED BY <1>2, <1>3, <1>4, <1>5, <1>6, DecidedRates

LEMMA LastRates ==
    ASSUME NEW s, Lists(s, {}), NEW g, NEW n, NEW o, Pair(s, g, n, o), NEW x \in Cell,
           NEW t, OverDone(s, t, g, n, o, x), s.games[g].tries >= MaxGames
    PROVE  Rates(s, t)
<1> DEFINE result == AttackResult(s.players[o].board, x)
           turns == Credited(s.players[n]).turns
           A == Winner(Credited(s.players[n]))
           B == Hurt(s.players[o], x)
           p1 == Attacked(x, TRUE, result)
           p2 == Attacked(x, FALSE, result)
           z1 == AllOver(A.wins, A.winTurns)
           z2 == AllOver(B.wins, B.winTurns)
<1>1. /\ s.players[n] \in APlayer /\ s.players[o] \in APlayer /\ s.players[o].board \in ABoard
      /\ s.players[n].state # "WAIT" /\ s.players[o].state # "WAIT"
  BY DEF Pair, Lists, Players, HasPlayer, APlayer
<1>2. /\ A \in APlayer /\ B \in APlayer /\ turns \in Int
      /\ A.wins = s.players[n].wins + 1 /\ B.wins = s.players[o].wins
      /\ A.state # "WAIT" /\ B.state # "WAIT"
  <2>1. /\ Credited(s.players[n]) \in APlayer /\ Credited(s.players[n]).wins = s.players[n].wins
        /\ Credited(s.players[n]).state = s.players[n].state
        /\ B \in APlayer /\ B.wins = s.players[o].wins /\ B.state = s.players[o].state
    BY <1>1, StruckPlayers
  <2> QED BY <1>1, <2>1, WinnerIs DEF APlayer
<1>3. Plain(p1) /\ Plain(p2)
  BY <1>1, AttackTypes, PlainKinds
<1> HIDE DEF result, turns, A, B
<1>4. /\ z1 \in Packet /\ z1.type = "ALL_OVER" /\ z1.wins = A.wins
      /\ z2 \in Packet /\ z2.type = "ALL_OVER" /\ z2.wins = B.wins
  <2>1. A.wins \in Int /\ A.winTurns \in Int /\ B.wins \in Int /\ B.winTurns \in Int
    BY <1>2 DEF APlayer
  <2> QED BY <2>1, PacketKinds DEF AllOver
<1>5. /\ Within(s, t, g, n, o) /\ Ends(s, t, n, o, p1, p2, turns, z1, z2)
      /\ t.players[n] = A /\ t.players[o] = B /\ t.games[g].over
  BY DEF OverDone, Within, Ends, A, B, turns, result
<1> HIDE DEF p1, p2, z1, z2
<1> QED BY <1>2, <1>3, <1>4, <1>5, DecidedRates

------------------------------------------------------------------------------
(* Any packet, and the end of the stream. *)

\* SUBMIT_ATTACK when it is the player's turn.
LEMMA TurnCarries ==
    ASSUME NEW s, Lists(s, {}), Even(s), NEW c \in Client, s.link[c].up,
           NEW g, NEW n, s.link[c].id = n, NEW o, Pair(s, g, n, o), Role(s, n) = "mine",
           NEW x \in Cell, x \notin Hit(s, n)
    PROVE  LET t == OnSubmitAttack(s, g, n, x)
           IN  Even(t) /\ Steady(s, t) /\ Carries(s, t, c) /\ Rates(s, t)
<1> DEFINE t == OnSubmitAttack(s, g, n, x)
           u == Decided(s, g, n, o, x)
           end == IsGameEnd(Attack(s.players[o].board, x))
           last == s.games[g].tries >= MaxGames
<1>1. CASE ~end
  BY <1>1, AttackCarries
<1>2. CASE end /\ last
  <2>1. t = SetGame(OnAllOver(u, g), g, [s.games[g] EXCEPT !.over = TRUE])
    BY <1>2, GameOverIs
  <2>2. OverDone(s, t, g, n, o, x)
    BY <2>1, OverEffect
  <2> HIDE DEF t
  <2>3. Even(t) /\ Steady(s, t) /\ Carries(s, t, c) /\ Rates(s, t)
    BY <1>2, <2>2, LastCarries, LastRates
  <2> QED BY <2>3 DEF t
<1>3. CASE end /\ ~last
  <2>1. t = OnNextGame(u, g)
    BY <1>3, GameOverIs
  <2>2. NextDone(s, t, g, n, o, x)
    BY <2>1, NextEffect
  <2> HIDE DEF t
  <2>3. Even(t) /\ Steady(s, t) /\ Carries(s, t, c) /\ Rates(s, t)
    BY <1>3, <2>2, NextCarries, NextRates
  <2> QED BY <2>3 DEF t
<1> QED BY <1>1, <1>2, <1>3

\* A request of a player whose opponent has gone.
LEMMA DroppedCarries ==
    ASSUME NEW s, NEW c \in Client, Role(s, s.link[c].id) = "gone", Alone(s, s.link[c].id)
    PROVE  /\ \A info : ValidMap(info) => HandleSubmitMap(s, c, info) = s
           /\ \A x : HandleSubmitAttack(s, c, x) = s
           /\ Steady(s, s) /\ Carries(s, s, c) /\ Rates(s, s)
<1> DEFINE n == s.link[c].id
           g == GameOf(s, n)
<1>1. g # None => ~HasPlayer(s, Opponent(s.games[g], n))
  BY DEF Alone, Rival
<1>2. \A info : g # None => OnSubmitMap(s, g, n, info) = s
  BY <1>1 DEF OnSubmitMap
<1>3. \A x : g # None => OnSubmitAttack(s, g, n, x) = s
  BY <1>1 DEF OnSubmitAttack
<1>4. \A info : ValidMap(info) => HandleSubmitMap(s, c, info) = s
  BY <1>2 DEF HandleSubmitMap
<1>5. \A x : HandleSubmitAttack(s, c, x) = s
  BY <1>3 DEF HandleSubmitAttack
<1>6. Carries(s, s, c)
  <2> SUFFICES ASSUME NEW d \in Client, NEW w \in Seq(Packet), NEW r, NEW at, NEW mk,
                      Shape(r, at), Hears(s, d, w, r, at, mk), d = c, Asking(r)
               PROVE  Hears(s, d, w, Tail(r), at, mk)
    BY DEF Carries
  <2> QED BY ConvDropped DEF Hears
<1> QED BY <1>4, <1>5, <1>6 DEF Steady, Rates

\* A packet that the server expects, or drops.
LEMMA HandleCarries ==
    ASSUME NEW s, Lists(s, {}), Even(s), NEW c \in Client, s.link[c].up,
           NEW p \in RequestPacket \ {Closed},
           Right(Role(s, s.link[c].id), Hit(s, s.link[c].id), Alone(s, s.link[c].id), p)
    PROVE  LET t == Handle(s, c, p)
           IN  Even(t) /\ Steady(s, t) /\ Carries(s, t, c) /\ Rates(s, t)
<1> DEFINE n == s.link[c].id
           g == GameOf(s, n)
           o == Rival(s, n)
           t == Handle(s, c, p)
<1>1. CASE p = SubmitName
  <2>1. t = HandleSubmitName(s, c)
    BY <1>1 DEF Handle, SubmitName
  <2>2. Role(s, n) = "name"
    BY <1>1, RequestKinds DEF Right
  <2> QED BY <2>1, <2>2, NameCarries
<1>2. ASSUME NEW info \in Maps, p = SubmitMap(info)
      PROVE  Even(t) /\ Steady(s, t) /\ Carries(s, t, c) /\ Rates(s, t)
  <2>1. t = HandleSubmitMap(s, c, info)
    BY <1>2 DEF Handle, SubmitMap
  <2>2. ValidMap(info) /\ (Role(s, n) = "map" \/ (Role(s, n) = "gone" /\ Alone(s, n)))
    BY <1>2, RequestKinds DEF Right
  <2>3. CASE Role(s, n) = "map"
    <3>1. Pair(s, g, n, o)
      BY <2>3, RoleSays
    <3>2. t = OnSubmitMap(s, g, n, info)
      BY <2>1, <2>2, <3>1 DEF HandleSubmitMap, Pair
    <3> HIDE DEF g, o, t
    <3>3. LET v == OnSubmitMap(s, g, n, info)
          IN  Even(v) /\ Steady(s, v) /\ Carries(s, v, c) /\ Rates(s, v)
      BY <2>3, <3>1, MapCarries
    <3> QED BY <3>2, <3>3
  <2>4. CASE Role(s, n) = "gone" /\ Alone(s, n)
    BY <2>1, <2>2, <2>4, DroppedCarries
  <2> QED BY <2>2, <2>3, <2>4
<1>3. ASSUME NEW x \in Cell, p = SubmitAttack(x)
      PROVE  Even(t) /\ Steady(s, t) /\ Carries(s, t, c) /\ Rates(s, t)
  <2>1. t = HandleSubmitAttack(s, c, x)
    BY <1>3 DEF Handle, SubmitAttack
  <2>2. (Role(s, n) = "mine" /\ x \notin Hit(s, n)) \/ (Role(s, n) = "gone" /\ Alone(s, n))
    BY <1>3, RequestKinds DEF Right
  <2>3. CASE Role(s, n) = "mine" /\ x \notin Hit(s, n)
    <3>1. Pair(s, g, n, o)
      BY <2>3, RoleSays
    <3>2. t = OnSubmitAttack(s, g, n, x)
      BY <2>1, <3>1 DEF HandleSubmitAttack, Pair
    <3>3. s.link[c].id = n
      OBVIOUS
    <3> HIDE DEF g, o, t, n
    <3>4. LET v == OnSubmitAttack(s, g, n, x)
          IN  Even(v) /\ Steady(s, v) /\ Carries(s, v, c) /\ Rates(s, v)
      BY <2>3, <3>1, <3>3, TurnCarries
    <3> QED BY <3>2, <3>4
  <2>4. CASE Role(s, n) = "gone" /\ Alone(s, n)
    BY <2>1, <2>4, DroppedCarries
  <2> QED BY <2>2, <2>3, <2>4
<1> QED BY <1>1, <1>2, <1>3 DEF RequestPacket

\* What holds of the others when c has gone.
Parts(s, t, c) ==
    /\ ~t.link[c].up
    /\ \A d \in Client : d # c =>
          /\ t.link[d].up = s.link[d].up /\ t.link[d].id = s.link[d].id
          /\ ~s.link[d].up => t.link[d] = s.link[d]
    /\ \A d \in Client : \A w \in Seq(Packet) : \A r, at, mk :
          d # c /\ s.link[d].up /\ Shape(r, at) /\ Hears(s, d, w, r, at, mk)
             => Hears(t, d, w, r, at, mk)

\* A session is closed and its player leaves the list.
LEMMA ErasedFields ==
    ASSUME NEW s, Lists(s, {}), NEW c \in Client
    PROVE  LET t == ErasePlayer([s EXCEPT !.link[c].up = FALSE], s.link[c].id)
           IN  /\ Server(t) /\ Links(t) /\ t.games = s.games
               /\ t.players = [m \in DOMAIN s.players \ {s.link[c].id} |-> s.players[m]]
               /\ ~t.link[c].up /\ \A d \in Client : d # c => t.link[d] = s.link[d]
<1> DEFINE n == s.link[c].id
           k == s.link[c]
           l == [k EXCEPT !.up = FALSE]
           f == [s.link EXCEPT ![c] = l]
           r == [s EXCEPT !.link = f]
           t == ErasePlayer(r, n)
<1>1. [s EXCEPT !.link[c].up = FALSE] = r
  OBVIOUS
<1>2. Server(r) /\ r.players = s.players /\ r.games = s.games /\ r.link = f
  <2> HIDE DEF f
  <2> QED BY LinkField DEF Lists
<1>3. k \in Session /\ k.sent <= Len(k.out)
  BY DEF Lists, Links
<1> HIDE DEF k
<1>4. l \in Session /\ ~l.up /\ l.sent <= Len(l.out)
  BY <1>3 DEF Session
<1> HIDE DEF l, r
<1>5. /\ Server(t) /\ t.link = f /\ t.games = s.games
      /\ t.players = [m \in DOMAIN s.players \ {n} |-> s.players[m]]
  BY <1>2, ErasePlayerFields
<1> HIDE DEF t
<1>6. s.link \in [Client -> Session]
  BY DEF Lists, Links
<1>7. f \in [Client -> Session] /\ \A d \in Client : f[d] = IF d = c THEN l ELSE s.link[d]
  BY <1>4, <1>6
<1> HIDE DEF f
<1>8. Links(t)
  BY <1>4, <1>5, <1>7 DEF Lists, Links
<1> QED BY <1>1, <1>4, <1>5, <1>7, <1>8 DEF t

\* The end of a client's stream.
LEMMA DisconnectParts ==
    ASSUME NEW s, Lists(s, {}), Even(s), NEW c \in Client, s.link[c].up
    PROVE  LET t == CloseSession(s, c)
           IN  Even(t) /\ Parts(s, t, c) /\ Rates(s, t)
<1> DEFINE n == s.link[c].id
           u == ErasePlayer([s EXCEPT !.link[c].up = FALSE], n)
           g == GameOf(s, n)
           t == CloseSession(s, c)
<1>1. /\ Server(u) /\ Links(u) /\ u.games = s.games
      /\ u.players = [m \in DOMAIN s.players \ {n} |-> s.players[m]]
      /\ ~u.link[c].up /\ \A d \in Client : d # c => u.link[d] = s.link[d]
  BY ErasedFields
<1>2. t = IF GameOf(u, n) = None THEN u ELSE OnOppositionLeft(u, GameOf(u, n), n)
  BY DEF CloseSession
<1>3. s.link[c].id = n
  OBVIOUS
<1> HIDE DEF u, n, t, g
<1>4. \A m : GameOf(u, m) = GameOf(s, m)
  <2> TAKE m
  <2>1. GamesOf(u, m) = GamesOf(s, m)
    BY <1>1 DEF GamesOf
  <2> QED BY <2>1 DEF GameOf
<1>5. \A m : m # n => /\ HasPlayer(u, m) <=> HasPlayer(s, m)
                      /\ HasPlayer(s, m) => u.players[m] = s.players[m]
  BY <1>1 DEF HasPlayer
<1>6. \A d \in Client : d # c /\ s.link[d].up => s.link[d].id # n
  BY <1>3 DEF Even, Unique
<1>7. ~HasPlayer(u, n)
  BY <1>1 DEF HasPlayer
<1>8. CASE g = None
  <2>1. t = u
    BY <1>2, <1>4, <1>8 DEF g
  <2>2. \A h \in DOMAIN s.games : n \notin PlayersOf(s.games[h])
    BY <1>8, GameOfFound DEF Lists, g
  <2>3. ASSUME NEW m, m # n PROVE Same(s, u, m)
    <3>1. u.games = s.games
      BY <1>1
    <3> QED BY <1>5, <2>2, <2>3, <3>1, OtherPlayersSame
  <2>4. Even(u)
    <3>1. Unique(u)
      BY <1>1 DEF Even, Unique
    <3>2. NamesFree(u)
      <4> SUFFICES ASSUME NEW d \in Client, u.link[d].up, ~HasPlayer(u, u.link[d].id)
                   PROVE  GameOf(u, u.link[d].id) = None
        BY DEF NamesFree
      <4>1. d # c /\ u.link[d] = s.link[d]
        BY <1>1
      <4>2. ~HasPlayer(s, s.link[d].id)
        BY <1>5, <1>6, <4>1
      <4> QED BY <1>4, <4>1, <4>2 DEF Even, NamesFree
    <3>3. Settled(u)
      BY <1>1, <1>5, <2>2 DEF Even, Settled
    <3>4. Matches(u)
      <4> SUFFICES ASSUME NEW h \in DOMAIN s.games, ~s.games[h].over
                   PROVE  Level(s.games[h], u.players[s.games[h].player1], u.players[s.games[h].player2])
        BY <1>1 DEF Matches
      <4>1. s.games[h].player1 \in PlayersOf(s.games[h]) /\ s.games[h].player2 \in PlayersOf(s.games[h])
        BY DEF PlayersOf
      <4>2. \A m \in PlayersOf(s.games[h]) : m # n /\ HasPlayer(s, m)
        BY <2>2 DEF Lists, Engaged
      <4>3. \A m \in PlayersOf(s.games[h]) : u.players[m] = s.players[m]
        BY <1>5, <4>2
      <4> QED BY <4>1, <4>3 DEF Even, Matches
    <3> QED BY <3>1, <3>2, <3>3, <3>4 DEF Even
  <2>5. Parts(s, u, c)
    <3>1. ASSUME NEW d \in Client, NEW w \in Seq(Packet), NEW r, NEW at, NEW mk,
                 d # c, s.link[d].up, Hears(s, d, w, r, at, mk)
          PROVE  Hears(u, d, w, r, at, mk)
      <4>1. u.link[d] = s.link[d] /\ s.link[d].id # n
        BY <1>1, <1>6, <3>1
      <4>2. Pending(u, d, w) = Pending(s, d, w)
        BY <4>1 DEF Pending
      <4> QED BY <2>3, <3>1, <4>1, <4>2, HearsSame
    <3> QED BY <1>1, <3>1 DEF Parts
  <2>6. ASSUME Credits(s)
        PROVE  /\ Credits(u)
               /\ \A d \in Client : \A w \in Seq(Packet) : \A tl \in Tally :
                     u.link[d].up /\ Counts(s, d, w, tl) => Counts(u, d, w, tl)
    <3>1. Credits(u)
      <4>1. ASSUME NEW h \in DOMAIN s.games, ~s.games[h].over
            PROVE  Shared(s.games[h], u.players[s.games[h].player1], u.players[s.games[h].player2])
        <5>1. \A m \in {s.games[h].player1, s.games[h].player2} : u.players[m] = s.players[m]
          BY <1>5, <2>2, <4>1 DEF Lists, Engaged, PlayersOf
        <5> QED BY <2>6, <4>1, <5>1 DEF Credits
      <4> QED BY <1>1, <2>6, <4>1 DEF Credits
    <3>2. ASSUME NEW d \in Client, NEW w \in Seq(Packet), NEW tl \in Tally,
                 u.link[d].up, Counts(s, d, w, tl)
          PROVE  Counts(u, d, w, tl)
      <4>1. u.link[d] = s.link[d] /\ s.link[d].id # n
        BY <1>1, <1>6, <3>2
      <4>2. Pending(u, d, w) = Pending(s, d, w)
        BY <4>1 DEF Pending
      <4>3. ASSUME NEW m, m # n PROVE Stands(s, u, m)
        <5>1. (HasPlayer(u, m) <=> HasPlayer(s, m)) /\ (HasPlayer(s, m) => u.players[m] = s.players[m])
          BY <1>5, <4>3
        <5>2. (InGame(u, m) <=> InGame(s, m)) /\ Played(u, m) = Played(s, m)
          BY <1>1, <1>4 DEF InGame, Played
        <5> QED BY <5>1, <5>2 DEF Stands, Gone, Wins
      <4> QED BY <3>2, <4>1, <4>2, <4>3, CountsSame
    <3> QED BY <3>1, <3>2
  <2>7. Rates(s, u)
    BY <2>6 DEF Rates
  <2> QED BY <2>1, <2>4, <2>5, <2>7 DEF t
<1>9. CASE g # None
  <2> DEFINE x == s.games[g]
             o == Opponent(x, n)
             y == [x EXCEPT !.over = TRUE]
             v == SetGame(u, g, y)
             e == ErrorPacket("ET_UNKNOWN")
  <2>1. g \in DOMAIN s.games /\ n \in PlayersOf(s.games[g])
    BY <1>9, GameOfFound DEF Lists, g
  <2>2. x \in AGame /\ x.player1 # x.player2
    BY <2>1 DEF Lists, Games, Apart
  <2>3. n # o /\ PlayersOf(x) = {n, o}
    BY <2>1, <2>2 DEF PlayersOf, Opponent
  <2>4. y \in AGame /\ y.player1 = x.player1 /\ y.player2 = x.player2 /\ y.over = TRUE
    <3> HIDE DEF x
    <3> QED BY <2>2 DEF AGame
  <2>5. t = Send(v, Note(o, e)) /\ e \in Packet
    BY <1>1, <1>2, <1>4, <1>9, PacketKinds DEF OnOppositionLeft, NotifyError, Note, g
  <2> HIDE DEF y, e, o
  <2>6. /\ Server(v) /\ v.link = u.link /\ v.players = u.players
        /\ v.games = [h \in DOMAIN u.games \cup {g} |-> IF h = g THEN y ELSE u.games[h]]
    <3>1. Server(u)
      BY <1>1
    <3> HIDE DEF x
    <3> QED BY <3>1, SetGameFields
  <2> HIDE DEF v
  <2>7. Links(v)
    BY <1>1, <2>6 DEF Links
  <2>8. Notes(v, t, o, e)
    BY <2>5, <2>6, <2>7, NoteGives
  <2>9. t.players = u.players /\ t.games = v.games
    BY <2>5, <2>6, SendFields
  <2>10. /\ DOMAIN t.games = DOMAIN s.games /\ t.games[g].over
         /\ PlayersOf(t.games[g]) = {n, o}
         /\ \A h \in DOMAIN s.games : /\ t.games[h].player1 = s.games[h].player1
                                      /\ t.games[h].player2 = s.games[h].player2
                                      /\ h # g => t.games[h] = s.games[h]
    <3>1. /\ DOMAIN t.games = DOMAIN s.games /\ t.games[g] = y
          /\ \A h \in DOMAIN s.games : h # g => t.games[h] = s.games[h]
      BY <1>1, <2>1, <2>6, <2>9
    <3> QED BY <2>3, <2>4, <3>1 DEF PlayersOf
  <2>11. /\ ~t.link[c].up
         /\ \A d \in Client : d # c =>
               /\ t.link[d].up = s.link[d].up /\ t.link[d].id = s.link[d].id
               /\ ~s.link[d].up => t.link[d] = s.link[d]
         /\ \A d \in Client : \A w \in Seq(Packet) : d # c /\ s.link[d].up =>
               Pending(t, d, w) = IF s.link[d].id = o THEN Append(Pending(s, d, w), e)
                                                      ELSE Pending(s, d, w)
    <3>1. Steady(v, t)
      BY <2>8 DEF Notes
    <3>2. \A d \in Client : d # c => v.link[d] = s.link[d]
      BY <1>1, <2>6
    <3>3. ~t.link[c].up
      BY <1>1, <2>6, <3>1 DEF Steady
    <3>4. \A d \in Client : \A w : d # c => Pending(v, d, w) = Pending(s, d, w)
      BY <3>2 DEF Pending
    <3> QED BY <2>8, <3>1, <3>2, <3>3, <3>4 DEF Notes, Steady
  <2>12. \A m : GameOf(t, m) = GameOf(s, m)
    <3> TAKE m
    <3>1. \A h \in DOMAIN s.games : PlayersOf(t.games[h]) = PlayersOf(s.games[h])
      BY <2>10 DEF PlayersOf
    <3>2. GamesOf(t, m) = GamesOf(s, m)
      BY <2>10, <3>1 DEF GamesOf
    <3> QED BY <3>2 DEF GameOf
  <2>13. /\ ~HasPlayer(t, n)
         /\ \A m : m # n => /\ HasPlayer(t, m) <=> HasPlayer(s, m)
                            /\ HasPlayer(s, m) => t.players[m] = s.players[m]
    BY <1>5, <1>7, <2>9 DEF HasPlayer
  <2>14. ASSUME NEW m, m \notin {n, o} PROVE Same(s, t, m)
    BY <2>1, <2>3, <2>10, <2>13, <2>14, OthersSame
  <2>15. Even(t)
    <3>1. Unique(t)
      BY <2>11 DEF Even, Unique
    <3>2. NamesFree(t)
      <4> SUFFICES ASSUME NEW d \in Client, t.link[d].up, ~HasPlayer(t, t.link[d].id)
                   PROVE  GameOf(t, t.link[d].id) = None
        BY DEF NamesFree
      <4>1. d # c /\ s.link[d].up /\ t.link[d].id = s.link[d].id
        BY <2>11
      <4>2. ~HasPlayer(s, s.link[d].id)
        BY <1>6, <2>13, <4>1
      <4> QED BY <2>12, <4>1, <4>2 DEF Even, NamesFree
    <3>3. Settled(t)
      <4>1. \A h \in DOMAIN s.games : PlayersOf(t.games[h]) = PlayersOf(s.games[h])
        BY <2>10 DEF PlayersOf
      <4> QED BY <2>10, <2>13, <4>1 DEF Even, Settled
    <3>4. Matches(t)
      <4> SUFFICES ASSUME NEW h \in DOMAIN s.games, ~t.games[h].over
                   PROVE  Level(t.games[h], t.players[t.games[h].player1], t.players[t.games[h].player2])
        BY <2>10 DEF Matches
      <4>1. h # g /\ t.games[h] = s.games[h]
        BY <2>10
      <4>2. s.games[h].player1 \in PlayersOf(s.games[h]) /\ s.games[h].player2 \in PlayersOf(s.games[h])
        BY DEF PlayersOf
      <4>3. n \notin PlayersOf(s.games[h])
        BY <2>1, <4>1 DEF Lists, Apart
      <4>4. \A m \in PlayersOf(s.games[h]) : HasPlayer(s, m) /\ m # n
        BY <4>1, <4>3 DEF Lists, Engaged
      <4>5. \A m \in PlayersOf(s.games[h]) : t.players[m] = s.players[m]
        BY <2>13, <4>4
      <4> QED BY <4>1, <4>2, <4>5 DEF Even, Matches
    <3> QED BY <3>1, <3>2, <3>3, <3>4 DEF Even
  <2>16. ASSUME NEW d \in Client, NEW w \in Seq(Packet), NEW r, NEW at, NEW mk,
                d # c, s.link[d].up, Shape(r, at), Hears(s, d, w, r, at, mk)
         PROVE  Hears(t, d, w, r, at, mk)
    <3>1. t.link[d].id = s.link[d].id /\ s.link[d].id # n
      BY <1>6, <2>11, <2>16
    <3>2. CASE s.link[d].id = o
      <4> DEFINE p == Pending(s, d, w)
                 h == Hit(t, o)
      <4>1. GameOf(s, o) = g /\ o \in PlayersOf(s.games[g])
        BY <2>1, <2>3, GameIs DEF Lists
      <4>2. HasPlayer(s, o)
        BY <1>9, <2>16, <3>2, <4>1 DEF Even, NamesFree
      <4>3. s.players[o].state # "WAIT"
        BY <2>1, <4>1, <4>2 DEF Even, Settled
      <4>4. Role(s, o) \in {"map", "ready", "mine", "theirs", "gone"}
        BY <4>2, <4>3, RoleSays DEF Role
      <4>5. Role(t, o) = "gone"
        <5>1. ~InGame(t, o)
          BY <2>10, <2>12, <4>1 DEF InGame
        <5>2. HasPlayer(t, o) /\ t.players[o] = s.players[o]
          BY <2>3, <2>13, <4>2
        <5> QED BY <4>3, <5>1, <5>2 DEF Role
      <4>6. Alone(t, o) = TRUE
        <5>1. Opponent(t.games[g], o) = n
          <6>1. t.games[g].player1 = x.player1 /\ t.games[g].player2 = x.player2
            BY <2>1, <2>10
          <6> QED BY <2>2, <2>3, <6>1 DEF Opponent, PlayersOf
        <5>2. Rival(t, o) = n
          BY <2>12, <4>1, <5>1 DEF Rival
        <5>3. Alone(t, o)
          BY <2>13, <5>2 DEF Alone
        <5> QED BY <5>3 DEF Alone
      <4>7. Pending(t, d, w) = Append(p, e) /\ p \in Seq(Packet)
        BY <2>11, <2>16, <3>2, PendingType DEF Lists
      <4>8. Conv(Role(s, o), Hit(s, o), Alone(s, o), p, r, at, mk)
        BY <2>16, <3>2 DEF Hears
      <4> HIDE DEF p, h
      <4>9. Conv("gone", h, TRUE, Append(p, e), r, at, mk)
        BY <2>16, <4>4, <4>7, <4>8, ConvAbandoned DEF e
      <4> QED BY <3>1, <3>2, <4>5, <4>6, <4>7, <4>9 DEF Hears, h
    <3>3. CASE s.link[d].id # o
      <4>1. Same(s, t, s.link[d].id)
        BY <2>14, <3>1, <3>3
      <4>2. Pending(t, d, w) = Pending(s, d, w)
        BY <2>11, <2>16, <3>3
      <4> QED BY <2>16, <3>1, <4>1, <4>2, HearsSame
    <3> QED BY <3>2, <3>3
  <2>17. Parts(s, t, c)
    BY <2>11, <2>16 DEF Parts
  <2>18. ASSUME Credits(s) PROVE Credits(t)
    <3>1. ASSUME NEW h \in DOMAIN s.games, ~t.games[h].over
          PROVE  Shared(t.games[h], t.players[t.games[h].player1], t.players[t.games[h].player2])
      <4>1. h # g /\ t.games[h] = s.games[h]
        BY <2>10, <3>1
      <4>2. n \notin PlayersOf(s.games[h])
        BY <2>1, <4>1 DEF Lists, Apart
      <4>3. \A m \in {s.games[h].player1, s.games[h].player2} : t.players[m] = s.players[m]
        BY <2>13, <3>1, <4>1, <4>2 DEF Lists, Engaged, PlayersOf
      <4> QED BY <2>18, <3>1, <4>1, <4>3 DEF Credits
    <3> QED BY <2>10, <2>13, <2>18, <3>1 DEF Credits, HasPlayer
  <2>19. ASSUME NEW d \in Client, NEW w \in Seq(Packet), NEW tl \in Tally,
                t.link[d].up, Counts(s, d, w, tl)
         PROVE  Counts(t, d, w, tl)
    <3>1. d # c /\ s.link[d].up /\ t.link[d].id = s.link[d].id /\ s.link[d].id # n
      BY <1>6, <2>11, <2>19
    <3>2. CASE s.link[d].id = o
      <4> DEFINE p == Pending(s, d, w)
      <4>1. GameOf(s, o) = g /\ o \in PlayersOf(s.games[g])
        BY <2>1, <2>3, GameIs DEF Lists
      <4>2. HasPlayer(s, o)
        BY <1>9, <3>1, <3>2, <4>1 DEF Even, NamesFree
      <4>3. s.players[o].state # "WAIT"
        BY <2>1, <4>1, <4>2 DEF Even, Settled
      <4>4. Gone(t, o)
        BY <2>3, <2>10, <2>12, <2>13, <4>1, <4>2, <4>3 DEF Gone, InGame
      <4>5. Pending(t, d, w) = Append(p, e) /\ p \in Seq(Packet) /\ Plain(e)
        BY <2>11, <3>1, <3>2, PendingType, PlainKinds DEF Lists, e
      <4> HIDE DEF p, o, e
      <4>6. Tallied(Gone(s, o), Wins(s, o), Played(s, o), Append(p, e), tl)
        BY <2>19, <3>2, <4>5, TalliedPlain DEF Counts, p
      <4>7. Tallied(Gone(t, o), Wins(t, o), Played(t, o), Append(p, e), tl)
        BY <4>4, <4>6 DEF Tallied
      <4> QED BY <3>1, <3>2, <4>5, <4>7 DEF Counts
    <3>3. CASE s.link[d].id # o
      <4>1. Stands(s, t, s.link[d].id)
        BY <2>1, <2>3, <2>10, <2>13, <3>1, <3>3, OthersStand
      <4>2. Pending(t, d, w) = Pending(s, d, w)
        BY <2>11, <3>1, <3>3
      <4> QED BY <2>19, <3>1, <4>1, <4>2, CountsSame
    <3> QED BY <3>2, <3>3
  <2>20. Rates(s, t)
    BY <2>18, <2>19 DEF Rates
  <2> QED BY <2>15, <2>17, <2>20 DEF t
<1> QED BY <1>8, <1>9

------------------------------------------------------------------------------
(* The end of a pass: what is sent, what is removed and who is matched.       *)

\* Nothing that a player is, or is told, depends on more than this.
LEMMA RolesSame ==
    ASSUME NEW s, NEW t, t.players = s.players, t.games = s.games
    PROVE  /\ \A m : Same(s, t, m)
           /\ NamesFree(s) /\ (\A c \in Client : /\ t.link[c].up = s.link[c].up
                                                 /\ t.link[c].id = s.link[c].id)
                 => NamesFree(t)
           /\ Settled(s) => Settled(t)
           /\ Matches(s) => Matches(t)
<1>1. \A m : GameOf(t, m) = GameOf(s, m)
  <2> TAKE m
  <2>1. GamesOf(t, m) = GamesOf(s, m)
    BY DEF GamesOf
  <2> QED BY <2>1 DEF GameOf
<1>2. ASSUME NEW m PROVE Same(s, t, m)
  <2>1. Rival(t, m) = Rival(s, m) /\ (InGame(t, m) <=> InGame(s, m))
    BY <1>1 DEF Rival, InGame
  <2>2. Role(t, m) = Role(s, m)
    BY <1>1, <2>1 DEF Role, HasPlayer
  <2>3. Hit(t, m) = Hit(s, m)
    BY <2>1, <2>2 DEF Hit
  <2>4. Alone(t, m) <=> Alone(s, m)
    BY <1>1, <2>1 DEF Alone, HasPlayer
  <2> QED BY <2>2, <2>3, <2>4 DEF Same
<1>3. NamesFree(s) /\ (\A c \in Client : /\ t.link[c].up = s.link[c].up
                                         /\ t.link[c].id = s.link[c].id) => NamesFree(t)
  BY <1>1 DEF NamesFree, HasPlayer
<1>4. (Settled(s) => Settled(t)) /\ (Matches(s) => Matches(t))
  BY DEF Settled, Matches, HasPlayer
<1> QED BY <1>2, <1>3, <1>4

LEMMA FlushTells ==
    ASSUME NEW s, Lists(s, {}), Even(s)
    PROVE  LET t == Flushed(s)
           IN  /\ Even(t)
               /\ \A c \in Client : t.link[c].up = s.link[c].up /\ t.link[c].id = s.link[c].id
               /\ \A c \in Client : ~s.link[c].up => t.link[c] = s.link[c]
               /\ \A c \in Client : \A w \in Seq(Packet) : \A r, at, mk :
                     s.link[c].up /\ s.link[c].sent = 0 /\ Hears(s, c, w, r, at, mk)
                        => Hears(t, c, w \o s.link[c].out, r, at, mk)
               /\ t.players = s.players /\ t.games = s.games
               /\ \A c \in Client : \A w \in Seq(Packet) : s.link[c].up /\ s.link[c].sent = 0
                     => Pending(t, c, w \o s.link[c].out) = Pending(s, c, w)
<1> DEFINE f == [c \in Client |->
                   IF s.link[c].up THEN [s.link[c] EXCEPT !.sent = Len(s.link[c].out)]
                                   ELSE s.link[c]]
           t == Flushed(s)
<1>1. t.link = f /\ t.players = s.players /\ t.games = s.games
  <2>1. t = [s EXCEPT !.link = f]
    BY DEF Flushed
  <2> HIDE DEF f, t
  <2> QED BY <2>1, LinkField DEF Lists
<1> HIDE DEF t
<1>2. ASSUME NEW c \in Client
      PROVE  /\ t.link[c].up = s.link[c].up /\ t.link[c].id = s.link[c].id
             /\ t.link[c].out = s.link[c].out /\ s.link[c].out \in Seq(Packet)
             /\ s.link[c].up => t.link[c].sent = Len(s.link[c].out)
             /\ ~s.link[c].up => t.link[c] = s.link[c]
  <2>1. s.link[c] \in Session
    BY DEF Lists, Links
  <2>2. ASSUME NEW k \in Session
        PROVE  LET l == [k EXCEPT !.sent = Len(k.out)]
               IN  l.sent = Len(k.out) /\ l.up = k.up /\ l.id = k.id /\ l.out = k.out
    BY DEF Session
  <2>3. t.link[c] = IF s.link[c].up THEN [s.link[c] EXCEPT !.sent = Len(s.link[c].out)]
                                    ELSE s.link[c]
    BY <1>1
  <2>4. s.link[c].out \in Seq(Packet)
    BY <2>1 DEF Session
  <2> QED BY <2>1, <2>2, <2>3, <2>4
<1>3. /\ \A m : Same(s, t, m)
      /\ NamesFree(s) /\ (\A c \in Client : /\ t.link[c].up = s.link[c].up
                                            /\ t.link[c].id = s.link[c].id) => NamesFree(t)
      /\ Settled(s) => Settled(t)
      /\ Matches(s) => Matches(t)
  BY <1>1, RolesSame
<1>4. Even(t)
  BY <1>2, <1>3 DEF Even, Unique
<1>6. ASSUME NEW c \in Client, NEW w \in Seq(Packet), s.link[c].up, s.link[c].sent = 0
      PROVE  Pending(t, c, w \o s.link[c].out) = Pending(s, c, w)
  <2> DEFINE out == s.link[c].out
  <2>1. out \in Seq(Packet) /\ t.link[c].out = out /\ t.link[c].sent = Len(out)
    BY <1>2, <1>6
  <2> HIDE DEF out
  <2>2. Rest(w \o out, out, Len(out)) = Rest(w, out, 0)
    BY <2>1, RestFlushed
  <2> QED BY <1>6, <2>1, <2>2 DEF Pending, out
<1>5. ASSUME NEW c \in Client, NEW w \in Seq(Packet), NEW r, NEW at, NEW mk,
             s.link[c].up, s.link[c].sent = 0, Hears(s, c, w, r, at, mk)
      PROVE  Hears(t, c, w \o s.link[c].out, r, at, mk)
  <2> DEFINE n == s.link[c].id
             out == s.link[c].out
  <2>1. Pending(t, c, w \o out) = Pending(s, c, w)
    BY <1>5, <1>6
  <2>2. Role(t, n) = Role(s, n) /\ Hit(t, n) = Hit(s, n) /\ (Alone(t, n) <=> Alone(s, n))
    BY <1>3 DEF Same
  <2>3. Alone(t, n) = Alone(s, n)
    <3>1. Alone(t, n) \in BOOLEAN /\ Alone(s, n) \in BOOLEAN
      BY DEF Alone
    <3> QED BY <2>2, <3>1
  <2>4. t.link[c].id = n
    BY <1>2
  <2> QED BY <1>5, <2>1, <2>2, <2>3, <2>4 DEF Hears
<1> QED BY <1>1, <1>2, <1>4, <1>5, <1>6 DEF t

\* What the clients with a session still hear, and the score.
Tells(s, t) ==
    /\ Steady(s, t) /\ Rates(s, t)
    /\ \A d \in Client : \A w \in Seq(Packet) : \A r, at, mk :
          s.link[d].up /\ Shape(r, at) /\ Hears(s, d, w, r, at, mk) => Hears(t, d, w, r, at, mk)

LEMMA TellsOn ==
    ASSUME NEW s, NEW t, NEW u, Tells(s, t), Tells(t, u)
    PROVE  Tells(s, u)
<1>1. Rates(s, u)
  BY RatesOn DEF Tells, Steady
<1> QED BY <1>1 DEF Tells, Steady

\* Of a conversation that is not over, or is over for good.
LEMMA ConvAlone ==
    ASSUME NEW role, NEW hit, NEW alone \in BOOLEAN, NEW q, NEW r, NEW at, NEW mk,
           Conv(role, hit, alone, q, r, at, mk), NEW a \in BOOLEAN, alone => a
    PROVE  Conv(role, hit, a, q, r, at, mk)
<1>1. CASE role = "gone"
  BY <1>1, ConvGone
<1>2. CASE role # "gone"
  BY <1>2 DEF Conv, Right
<1> QED BY <1>1, <1>2

\* A game that is over is forgotten.
LEMMA RemoveTells ==
    ASSUME NEW s, Lists(s, {}), Even(s)
    PROVE  LET t == RemoveOverGames(s)
           IN  Even(t) /\ Tells(s, t)
<1> DEFINE t == RemoveOverGames(s)
<1>1. /\ t.link = s.link /\ t.players = s.players
      /\ t.games = [g \in {h \in DOMAIN s.games : ~s.games[h].over} |-> s.games[g]]
  BY DEF Lists, Server, RemoveOverGames
<1>0. Games(t)
  BY RemoveKeeps DEF Lists
<1> HIDE DEF t
<1>2. /\ DOMAIN t.games \subseteq DOMAIN s.games
      /\ \A g \in DOMAIN t.games : t.games[g] = s.games[g] /\ ~t.games[g].over
      /\ \A g \in DOMAIN s.games : ~s.games[g].over => g \in DOMAIN t.games
  BY <1>1
<1>3. ASSUME NEW m
      PROVE  \/ GameOf(t, m) = None /\ ~InGame(s, m)
             \/ GameOf(t, m) = GameOf(s, m) /\ t.games[GameOf(s, m)] = s.games[GameOf(s, m)]
  <2>1. CASE GameOf(t, m) = None
    <3>1. \A g \in DOMAIN t.games : m \notin PlayersOf(t.games[g])
      BY <1>0, <2>1, GameOfFound
    <3>2. ~InGame(s, m)
      BY <1>2, <3>1, GameOfFound DEF Lists, InGame
    <3> QED BY <2>1, <3>2
  <2>2. CASE GameOf(t, m) # None
    <3>1. GameOf(t, m) \in DOMAIN t.games /\ m \in PlayersOf(t.games[GameOf(t, m)])
      BY <1>0, <2>2, GameOfFound
    <3> DEFINE g == GameOf(t, m)
    <3>2. g \in DOMAIN s.games /\ m \in PlayersOf(s.games[g]) /\ t.games[g] = s.games[g]
      BY <1>2, <3>1
    <3> HIDE DEF g
    <3>3. GameOf(s, m) = g
      BY <3>2, GameIs DEF Lists
    <3> QED BY <3>2, <3>3 DEF g
  <2> QED BY <2>1, <2>2
<1>4. ASSUME NEW m
      PROVE  /\ Role(t, m) = Role(s, m) /\ Hit(t, m) = Hit(s, m) /\ (Alone(s, m) => Alone(t, m))
  <2>1. CASE GameOf(t, m) = None /\ ~InGame(s, m)
    <3>1. ~InGame(t, m) /\ Alone(t, m)
      BY <2>1 DEF InGame, Alone
    <3>2. Role(t, m) = Role(s, m) /\ Role(s, m) \notin {"mine", "theirs"}
      BY <1>1, <2>1, <3>1 DEF Role, HasPlayer
    <3> QED BY <3>1, <3>2 DEF Hit
  <2>2. CASE GameOf(t, m) = GameOf(s, m) /\ t.games[GameOf(s, m)] = s.games[GameOf(s, m)]
    <3>1. Rival(t, m) = Rival(s, m) /\ (InGame(t, m) <=> InGame(s, m))
      BY <2>2 DEF Rival, InGame
    <3>2. Role(t, m) = Role(s, m)
      BY <1>1, <2>2, <3>1 DEF Role, HasPlayer
    <3>3. Hit(t, m) = Hit(s, m)
      BY <1>1, <3>1, <3>2 DEF Hit
    <3>4. Alone(s, m) => Alone(t, m)
      BY <1>1, <2>2, <3>1 DEF Alone, HasPlayer
    <3> QED BY <3>2, <3>3, <3>4
  <2> QED BY <1>3, <2>1, <2>2
<1>5. Even(t)
  <2>1. Unique(t)
    BY <1>1 DEF Even, Unique
  <2>2. NamesFree(t)
    <3> SUFFICES ASSUME NEW d \in Client, t.link[d].up, ~HasPlayer(t, t.link[d].id)
                 PROVE  GameOf(t, t.link[d].id) = None
      BY DEF NamesFree
    <3>1. GameOf(s, s.link[d].id) = None
      BY <1>1 DEF Even, NamesFree, HasPlayer
    <3> QED BY <1>1, <1>3, <3>1
  <2>3. Settled(t) /\ Matches(t)
    <3>1. Settled(s) /\ Matches(s)
      BY DEF Even
    <3>2. Settled(t)
      BY <1>1, <1>2, <3>1 DEF Settled, HasPlayer
    <3>3. Matches(t)
      BY <1>1, <1>2, <3>1 DEF Matches
    <3> QED BY <3>2, <3>3
  <2> QED BY <2>1, <2>2, <2>3 DEF Even
<1>6. Tells(s, t)
  <2>1. Steady(s, t)
    BY <1>1 DEF Steady
  <2>2. ASSUME NEW d \in Client, NEW w \in Seq(Packet), NEW r, NEW at, NEW mk,
               Hears(s, d, w, r, at, mk)
        PROVE  Hears(t, d, w, r, at, mk)
    <3> DEFINE n == s.link[d].id
    <3>1. Conv(Role(s, n), Hit(s, n), Alone(s, n), Pending(s, d, w), r, at, mk)
      BY <2>2 DEF Hears
    <3>2. Alone(s, n) \in BOOLEAN /\ Alone(t, n) \in BOOLEAN
      BY DEF Alone
    <3>3. Conv(Role(s, n), Hit(s, n), Alone(t, n), Pending(s, d, w), r, at, mk)
      BY <1>4, <3>1, <3>2, ConvAlone
    <3>4. Pending(t, d, w) = Pending(s, d, w) /\ t.link[d].id = n
      BY <1>1 DEF Pending
    <3> QED BY <1>4, <3>3, <3>4 DEF Hears
  <2>3. ASSUME NEW m PROVE Stands(s, t, m)
    <3>1. InGame(t, m) <=> InGame(s, m)
      BY <1>3 DEF InGame
    <3>2. Played(t, m) = Played(s, m)
      BY <1>3, <3>1 DEF Played, InGame
    <3> QED BY <1>1, <3>1, <3>2 DEF Stands, Gone, Wins, HasPlayer
  <2>4. Credits(s) => Credits(t)
    BY <1>1, <1>2 DEF Credits
  <2>5. ASSUME NEW d \in Client, NEW w \in Seq(Packet)
        PROVE  Plainly(Pending(s, d, w), Pending(t, d, w))
    BY <1>1 DEF Pending, Plainly
  <2>6. Rates(s, t)
    BY <2>1, <2>3, <2>4, <2>5, PlainRates DEF Lists
  <2> QED BY <2>1, <2>2, <2>6 DEF Tells
<1> QED BY <1>5, <1>6 DEF t

\* Two waiting players are given a new game, number g.
MatchDone(s, t, g, n1, n2) ==
    /\ g \notin DOMAIN s.games /\ DOMAIN t.games = DOMAIN s.games \cup {g}
    /\ t.games[g].player1 = n1 /\ t.games[g].player2 = n2
    /\ ~t.games[g].over /\ t.games[g].tries = 1
    /\ \A h \in DOMAIN s.games : t.games[h] = s.games[h]
    /\ DOMAIN t.players = DOMAIN s.players
    /\ t.players[n1] = Begun(s.players[n1]) /\ t.players[n2] = Begun(s.players[n2])
    /\ \A m \in DOMAIN s.players : m \notin {n1, n2} => t.players[m] = s.players[m]
    /\ Steady(s, t)
    /\ \A d \in Client : \A w \in Seq(Packet) : s.link[d].up =>
          LET p == Pending(s, d, w)
          IN  Pending(t, d, w) = IF s.link[d].id \in {n1, n2} THEN Append(p, GameStart) ELSE p

LEMMA MatchEffect ==
    ASSUME NEW s, NEW D, Lists(s, D), AllLive(s),
           NEW n1 \in DOMAIN s.players, NEW n2 \in DOMAIN s.players, n1 # n2,
           s.players[n1].state = "WAIT", s.players[n2].state = "WAIT"
    PROVE  \E g \in GameNumber : MatchDone(s, Match(s, n1, n2), g, n1, n2)
<1>1. PICK g \in GameNumber : g \notin DOMAIN s.games /\ NewGame(s) = SetGame(s, g, Waiting)
  BY NewGameNumber
<1> DEFINE x == Given(n1, n2)
           r == SetGame(s, g, Waiting)
           u == SetGame(r, g, x)
           packets == [n \in {n1, n2} |-> GameStart]
           v == Send(u, packets)
           t == BeginGame(v, g)
<1>2. /\ Server(r) /\ r.link = s.link /\ r.players = s.players
      /\ r.games = [h \in DOMAIN s.games \cup {g} |-> IF h = g THEN Waiting ELSE s.games[h]]
  BY SetGameFields DEF Lists
<1>3. DropDisconnectedPlayers(r) = r /\ Head(WaitingGames(r)) = g
  BY <1>1, OneWaits
<1> HIDE DEF r
<1>4. /\ x \in AnyGame /\ x.player1 = n1 /\ x.player2 = n2 /\ ~x.over /\ x.tries = 0
      /\ PlayersOf(x) = {n1, n2}
  <2> DEFINE a == [Waiting EXCEPT !.player1 = n1]
             b == [a EXCEPT !.player2 = n2]
  <2>1. None \in Number0 /\ n1 \in Int /\ n2 \in Int /\ None \in Int
    BY DEF Number0, PlayerNumber, None, Lists, Players
  <2>2. Waiting \in AnyGame /\ ~Waiting.over /\ Waiting.tries = 0
    BY <2>1 DEF Waiting, AnyGame
  <2>3. a \in AnyGame /\ a.player1 = n1 /\ ~a.over /\ a.tries = 0
    BY <2>1, <2>2 DEF AnyGame
  <2>4. x = b
    BY DEF Given
  <2> HIDE DEF a, x
  <2>5. b \in AnyGame /\ b.player1 = n1 /\ b.player2 = n2 /\ ~b.over /\ b.tries = 0
    BY <2>1, <2>3 DEF AnyGame
  <2> HIDE DEF b
  <2> QED BY <2>4, <2>5 DEF PlayersOf
<1> HIDE DEF x
<1>5. /\ Server(u) /\ u.link = r.link /\ u.players = r.players
      /\ u.games = [h \in DOMAIN r.games \cup {g} |-> IF h = g THEN x ELSE r.games[h]]
  <2>1. Server(r)
    BY <1>2
  <2> QED BY <2>1, SetGameFields
<1>6. Match(s, n1, n2) = OnGameStart(u, g)
  <2>1. r.games[g] = Waiting
    BY <1>2
  <2>2. AddPlayers(r, g, n1, n2) = u
    BY <2>1 DEF AddPlayers, Given, Waiting, x
  <2> HIDE DEF u
  <2> QED BY <1>1, <1>3, <2>2 DEF Match, r
<1> HIDE DEF u
<1>7. /\ DOMAIN u.games = DOMAIN s.games \cup {g} /\ u.games[g] = x
      /\ \A h \in DOMAIN s.games : u.games[h] = s.games[h]
      /\ u.players = s.players /\ u.link = s.link
  BY <1>1, <1>2, <1>5
<1>8. OnGameStart(u, g) = t
  BY <1>4, <1>7 DEF OnGameStart
<1>9. packets \in [{n1, n2} -> Packet] /\ packets[n1] = GameStart /\ packets[n2] = GameStart
  BY PacketKinds
<1> HIDE DEF packets
<1>10. Gives(u, v, {n1, n2}, packets)
  <2>1. Links(u)
    BY <1>7 DEF Lists, Links
  <2> QED BY <1>5, <1>9, <2>1, SendGives
<1>11. Server(v) /\ v.players = s.players /\ v.games = u.games
  BY <1>5, <1>7, SendFields
<1> HIDE DEF v, t
<1>12. BeginDone(v, t, g)
  <2>1. g \in DOMAIN v.games /\ v.games[g] = x
    BY <1>7, <1>11
  <2>2. \A n \in PlayersOf(v.games[g]) : HasPlayer(v, n)
    BY <1>4, <1>11, <2>1 DEF HasPlayer
  <2> QED BY <1>4, <1>11, <2>1, <2>2, BeginEffect DEF t
<1>13. /\ t.link = v.link /\ DOMAIN t.players = DOMAIN s.players
       /\ t.players[n1] = Begun(s.players[n1]) /\ t.players[n2] = Begun(s.players[n2])
       /\ \A m \in DOMAIN s.players : m \notin {n1, n2} => t.players[m] = s.players[m]
       /\ DOMAIN t.games = DOMAIN s.games \cup {g}
       /\ t.games[g].player1 = n1 /\ t.games[g].player2 = n2
       /\ ~t.games[g].over /\ t.games[g].tries = 1
       /\ \A h \in DOMAIN s.games : t.games[h] = s.games[h]
  <2>1. v.games[g] = x /\ DOMAIN v.games = DOMAIN s.games \cup {g}
    BY <1>7, <1>11
  <2>2. /\ t.link = v.link /\ DOMAIN t.players = DOMAIN s.players
        /\ \A m \in DOMAIN s.players :
              t.players[m] = IF m \in {n1, n2} THEN Begun(s.players[m]) ELSE s.players[m]
    BY <1>4, <1>11, <1>12, <2>1 DEF BeginDone
  <2>3. /\ DOMAIN t.games = DOMAIN s.games \cup {g}
        /\ t.games[g].player1 = n1 /\ t.games[g].player2 = n2
        /\ t.games[g].over = x.over /\ t.games[g].tries = x.tries + 1
        /\ \A h \in DOMAIN v.games : h # g => t.games[h] = v.games[h]
    BY <1>4, <1>12, <2>1 DEF BeginDone
  <2>4. \A h \in DOMAIN s.games : t.games[h] = s.games[h]
    BY <1>1, <1>7, <1>11, <2>1, <2>3
  <2>5. ~t.games[g].over /\ t.games[g].tries = 1
    BY <1>4, <2>3
  <2> QED BY <2>2, <2>3, <2>4, <2>5
<1>14. Steady(s, t)
  BY <1>7, <1>10, <1>13 DEF Gives, Steady
<1>15. ASSUME NEW d \in Client, NEW w \in Seq(Packet), s.link[d].up
       PROVE  Pending(t, d, w) = IF s.link[d].id \in {n1, n2} THEN Append(Pending(s, d, w), GameStart)
                                 ELSE Pending(s, d, w)
  <2>1. Pending(t, d, w) = Pending(v, d, w) /\ Pending(u, d, w) = Pending(s, d, w)
    BY <1>7, <1>13 DEF Pending
  <2> QED BY <1>7, <1>9, <1>10, <1>15, <2>1 DEF Gives
<1>16. MatchDone(s, t, g, n1, n2)
  BY <1>1, <1>13, <1>14, <1>15 DEF MatchDone
<1>17. Match(s, n1, n2) = t
  BY <1>6, <1>8
<1> QED BY <1>16, <1>17

LEMMA MatchTells ==
    ASSUME NEW s, Lists(s, {}), AllLive(s), Even(s),
           NEW n1 \in DOMAIN s.players, NEW n2 \in DOMAIN s.players, n1 # n2,
           s.players[n1].state = "WAIT", s.players[n2].state = "WAIT"
    PROVE  LET t == Match(s, n1, n2)
           IN  Even(t) /\ Tells(s, t)
<1> DEFINE t == Match(s, n1, n2)
<1>1. PICK g \in GameNumber : MatchDone(s, t, g, n1, n2)
  BY MatchEffect
<1>2. Lists(t, {}) /\ AllLive(t)
  BY MatchKeeps
<1> HIDE DEF t
<1>3. /\ g \notin DOMAIN s.games /\ DOMAIN t.games = DOMAIN s.games \cup {g}
      /\ t.games[g].player1 = n1 /\ t.games[g].player2 = n2 /\ ~t.games[g].over
      /\ \A h \in DOMAIN s.games : t.games[h] = s.games[h]
      /\ DOMAIN t.players = DOMAIN s.players
      /\ t.players[n1] = Begun(s.players[n1]) /\ t.players[n2] = Begun(s.players[n2])
      /\ \A m \in DOMAIN s.players : m \notin {n1, n2} => t.players[m] = s.players[m]
      /\ Steady(s, t)
  BY <1>1 DEF MatchDone
<1>4. \A h \in DOMAIN s.games : \A m \in PlayersOf(s.games[h]) : m \notin {n1, n2}
  BY DEF Even, Settled, HasPlayer
<1>5. PlayersOf(t.games[g]) = {n1, n2}
  BY <1>3 DEF PlayersOf
<1>6. Pair(t, g, n1, n2)
  <2>1. Opponent(t.games[g], n1) = n2 /\ g \in DOMAIN t.games /\ n1 \in PlayersOf(t.games[g])
    BY <1>3, <1>5 DEF Opponent
  <2> QED BY <1>2, <1>3, <2>1, PairOf
<1>7. \A n \in {n1, n2} : /\ t.players[n].state = "WAIT_MAP" /\ t.players[n].turns = 0
                         /\ t.players[n].wins = s.players[n].wins
  BY <1>3, BegunIs DEF Lists, Players
<1>8. \A n \in {n1, n2} : Role(s, n) = "wait" /\ Role(t, n) = "map"
  <2>1. Role(s, n1) = "wait" /\ Role(s, n2) = "wait"
    BY DEF Role, HasPlayer
  <2>2. Role(t, n1) = "map"
    BY <1>6, <1>7, PairRole
  <2>3. Pair(t, g, n2, n1)
    BY <1>6, PairTurned
  <2>4. Role(t, n2) = "map"
    BY <1>7, <2>3, PairRole
  <2> QED BY <2>1, <2>2, <2>4
<1>9. ASSUME NEW m, m \notin {n1, n2}
      PROVE  GamesOf(t, m) = GamesOf(s, m) /\ Same(s, t, m)
  <2>1. GamesOf(t, m) = GamesOf(s, m)
    BY <1>3, <1>5, <1>9 DEF GamesOf
  <2>2. ASSUME NEW h \in GamesOf(s, m)
        PROVE  h \in DOMAIN s.games /\ Opponent(s.games[h], m) \notin {n1, n2}
    <3>1. h \in DOMAIN s.games /\ m \in PlayersOf(s.games[h])
      BY DEF GamesOf
    <3>2. Opponent(s.games[h], m) \in PlayersOf(s.games[h])
      BY <3>1 DEF Opponent, PlayersOf
    <3> QED BY <1>4, <3>1, <3>2
  <2>3. \A h \in GamesOf(s, m) :
           LET o == Opponent(s.games[h], m)
           IN  /\ t.games[h] = s.games[h]
               /\ HasPlayer(t, o) <=> HasPlayer(s, o)
               /\ HasPlayer(s, o) => t.players[o] = s.players[o]
    BY <1>3, <2>2 DEF HasPlayer
  <2>4. (HasPlayer(t, m) <=> HasPlayer(s, m)) /\ (HasPlayer(s, m) => t.players[m] = s.players[m])
    BY <1>3, <1>9 DEF HasPlayer
  <2> QED BY <2>1, <2>3, <2>4, RoleKept
<1>10. Even(t)
  <2>1. Unique(t)
    BY <1>3 DEF Even, Unique, Steady
  <2>2. NamesFree(t)
    <3> SUFFICES ASSUME NEW d \in Client, t.link[d].up, ~HasPlayer(t, t.link[d].id)
                 PROVE  GameOf(t, t.link[d].id) = None
      BY DEF NamesFree
    <3> DEFINE n == s.link[d].id
    <3>1. s.link[d].up /\ t.link[d].id = n /\ ~HasPlayer(s, n) /\ n \notin {n1, n2}
      BY <1>3 DEF Steady, HasPlayer
    <3>2. GameOf(s, n) = None
      BY <3>1 DEF Even, NamesFree
    <3> HIDE DEF n
    <3> QED BY <1>9, <3>1, <3>2 DEF GameOf
  <2>3. Settled(t)
    <3> SUFFICES ASSUME NEW h \in DOMAIN t.games, NEW m \in PlayersOf(t.games[h]), HasPlayer(t, m)
                 PROVE  t.players[m].state # "WAIT"
      BY DEF Settled
    <3>1. CASE h = g
      BY <1>5, <1>7, <3>1
    <3>2. CASE h # g
      <4>1. h \in DOMAIN s.games /\ m \in PlayersOf(s.games[h])
        BY <1>3, <3>2
      <4>2. HasPlayer(s, m) /\ t.players[m] = s.players[m]
        BY <1>3, <1>4, <4>1 DEF HasPlayer
      <4> QED BY <4>1, <4>2 DEF Even, Settled
    <3> QED BY <3>1, <3>2
  <2>4. Matches(t)
    <3> SUFFICES ASSUME NEW h \in DOMAIN t.games, ~t.games[h].over
                 PROVE  Level(t.games[h], t.players[t.games[h].player1], t.players[t.games[h].player2])
      BY DEF Matches
    <3>1. CASE h = g
      BY <1>3, <1>7, <3>1 DEF Level
    <3>2. CASE h # g
      <4>1. h \in DOMAIN s.games /\ t.games[h] = s.games[h]
        BY <1>3, <3>2
      <4>2. s.games[h].player1 \in PlayersOf(s.games[h]) /\ s.games[h].player2 \in PlayersOf(s.games[h])
        BY DEF PlayersOf
      <4>3. \A m \in PlayersOf(s.games[h]) : m \in DOMAIN s.players
        BY <4>1 DEF Lists, Engaged, HasPlayer
      <4>4. \A m \in PlayersOf(s.games[h]) : t.players[m] = s.players[m]
        BY <1>3, <1>4, <4>1, <4>3
      <4> QED BY <4>1, <4>2, <4>4 DEF Even, Matches
    <3> QED BY <3>1, <3>2
  <2> QED BY <2>1, <2>2, <2>3, <2>4 DEF Even
<1>11. Tells(s, t)
  <2>1. ASSUME NEW d \in Client, NEW w \in Seq(Packet), NEW r, NEW at, NEW mk,
               s.link[d].up, Shape(r, at), Hears(s, d, w, r, at, mk)
        PROVE  Hears(t, d, w, r, at, mk)
    <3> DEFINE n == s.link[d].id
               p == Pending(s, d, w)
    <3>1. t.link[d].id = n
      BY <1>3 DEF Steady
    <3>2. Pending(t, d, w) = IF n \in {n1, n2} THEN Append(p, GameStart) ELSE p
      BY <1>1, <2>1 DEF MatchDone
    <3>3. CASE n \in {n1, n2}
      <4>1. p \in Seq(Packet)
        BY PendingType DEF Lists
      <4>2. Conv("wait", Hit(s, n), Alone(s, n), p, r, at, mk)
        BY <1>8, <2>1, <3>3 DEF Hears
      <4>3. Conv("map", Hit(t, n), Alone(t, n), Append(p, GameStart), r, at, mk)
        BY <2>1, <4>1, <4>2, ConvMatched
      <4>4. Role(t, n) = "map" /\ Pending(t, d, w) = Append(p, GameStart)
        BY <1>8, <3>2, <3>3
      <4> QED BY <3>1, <4>3, <4>4 DEF Hears
    <3>4. CASE n \notin {n1, n2}
      <4>1. Same(s, t, n) /\ Pending(t, d, w) = p
        BY <1>9, <3>2, <3>4
      <4> QED BY <2>1, <3>1, <4>1, HearsSame
    <3> QED BY <3>3, <3>4
  <2>2. ASSUME NEW m PROVE Stands(s, t, m)
    <3>1. CASE m \in {n1, n2}
      <4>1. ~InGame(s, m) /\ HasPlayer(s, m) /\ s.players[m].state = "WAIT"
        BY <1>4, <3>1, GameOfFound DEF InGame, HasPlayer, Lists
      <4>2. Pair(t, g, n2, n1)
        BY <1>6, PairTurned
      <4>3. /\ InGame(t, m) /\ HasPlayer(t, m) /\ Past(t.games[GameOf(t, m)]) = 0
            /\ t.players[m].wins = s.players[m].wins
        BY <1>1, <1>6, <1>7, <3>1, <4>2 DEF InGame, Pair, MatchDone, Past
      <4> QED BY <4>1, <4>3 DEF Stands, Gone, Wins, Played
    <3>2. CASE m \notin {n1, n2}
      <4>4. GamesOf(t, m) = GamesOf(s, m)
        BY <1>9, <3>2
      <4>1. GameOf(t, m) = GameOf(s, m)
        BY <4>4 DEF GameOf
      <4>2. GameOf(s, m) # None => t.games[GameOf(s, m)] = s.games[GameOf(s, m)]
        BY <1>3, GameOfFound DEF Lists
      <4>3. (InGame(t, m) <=> InGame(s, m)) /\ Played(t, m) = Played(s, m)
        BY <4>1, <4>2 DEF InGame, Played
      <4> QED BY <1>3, <3>2, <4>3 DEF Stands, Gone, Wins, HasPlayer
    <3> QED BY <3>1, <3>2
  <2>3. ASSUME Credits(s) PROVE Credits(t)
    <3>1. ASSUME NEW h \in DOMAIN t.games, ~t.games[h].over
          PROVE  Shared(t.games[h], t.players[t.games[h].player1], t.players[t.games[h].player2])
      <4>1. CASE h = g
        <5>1. t.players[n1].wins = 0 /\ t.players[n2].wins = 0 /\ t.games[g].tries = 1
          BY <1>1, <1>7, <2>3 DEF Credits, MatchDone
        <5> QED BY <1>3, <4>1, <5>1 DEF Shared, Past
      <4>2. CASE h # g
        <5>1. h \in DOMAIN s.games /\ t.games[h] = s.games[h]
          BY <1>3, <4>2
        <5>2. \A m \in {s.games[h].player1, s.games[h].player2} : t.players[m] = s.players[m]
          BY <1>3, <1>4, <3>1, <5>1 DEF Lists, Engaged, PlayersOf, HasPlayer
        <5> QED BY <2>3, <3>1, <5>1, <5>2 DEF Credits
      <4> QED BY <4>1, <4>2
    <3>2. ASSUME NEW m \in DOMAIN t.players, t.players[m].state = "WAIT"
          PROVE  t.players[m].wins = 0
      BY <1>3, <1>7, <2>3, <3>2 DEF Credits
    <3> QED BY <3>1, <3>2 DEF Credits
  <2>4. ASSUME NEW d \in Client, NEW w \in Seq(Packet), s.link[d].up
        PROVE  Plainly(Pending(s, d, w), Pending(t, d, w))
    BY <1>1, <2>4, PlainKinds DEF MatchDone, Plainly
  <2>5. Rates(s, t)
    BY <1>3, <2>2, <2>3, <2>4, PlainRates DEF Lists
  <2> QED BY <1>3, <2>1, <2>5 DEF Tells
<1> QED BY <1>10, <1>11 DEF t

\* The walk over the pairs.
LEMMA WalkTells ==
    ASSUME NEW s, Lists(s, {}), AllLive(s), Even(s),
           NEW n \in Nat, NEW w \in [1 .. n -> DOMAIN s.players],
           \A i, j \in 1 .. n : i # j => w[i] # w[j],
           \A i \in 1 .. n : s.players[w[i]].state = "WAIT",
           NEW k \in Nat, 2 * k <= n, NEW f, Walk(f, s, w, k)
    PROVE  \A i \in 0 .. k : Even(f[i]) /\ Tells(s, f[i])
<1> DEFINE P(i) == Even(f[i]) /\ Tells(s, f[i])
           T == {i \in 0 .. k : ~P(i)}
<1>1. SUFFICES ASSUME T # {} PROVE FALSE
  OBVIOUS
<1>2. PICK i \in T : \A j \in 0 .. i - 1 : j \notin T
  <2>1. T \in SUBSET Nat
    OBVIOUS
  <2> HIDE DEF T
  <2> QED BY <1>1, <2>1, LeastNumber
<1>3. i \in 0 .. k /\ ~P(i) /\ \A j \in 0 .. k : j < i => P(j)
  BY <1>2
<1>4. CASE i = 0
  <2>1. f[0] = s
    BY DEF Walk
  <2>2. Tells(s, s)
    BY DEF Tells, Steady, Rates
  <2> QED BY <1>3, <1>4, <2>1, <2>2
<1>5. CASE i # 0
  <2> DEFINE r == f[i - 1]
             a == w[2 * i - 1]
             b == w[2 * i]
             t == Match(r, a, b)
  <2>1. f[i] = t
    BY <1>3, <1>5 DEF Walk
  <2>2. P(i - 1) /\ i - 1 \in 0 .. k
    BY <1>3, <1>5
  <2>3. /\ Lists(r, {}) /\ AllLive(r) /\ DOMAIN r.players = DOMAIN s.players
        /\ \A j \in 2 * (i - 1) + 1 .. n : r.players[w[j]] = s.players[w[j]]
    BY <2>2, WalkKeeps
  <2>4. /\ 2 * i - 1 \in 1 .. n /\ 2 * i \in 1 .. n /\ 2 * i - 1 # 2 * i
        /\ 2 * i - 1 \in 2 * (i - 1) + 1 .. n /\ 2 * i \in 2 * (i - 1) + 1 .. n
    BY <1>3, <1>5
  <2>5. /\ a \in DOMAIN r.players /\ b \in DOMAIN r.players /\ a # b
        /\ r.players[a].state = "WAIT" /\ r.players[b].state = "WAIT"
    BY <2>3, <2>4
  <2>6. Even(r) /\ Tells(s, r)
    BY <2>2
  <2> HIDE DEF r, a, b
  <2>7. Even(t) /\ Tells(r, t)
    BY <2>3, <2>5, <2>6, MatchTells
  <2> HIDE DEF t
  <2>8. Tells(s, t)
    BY <2>6, <2>7, TellsOn
  <2> QED BY <1>3, <2>1, <2>7, <2>8
<1> QED BY <1>4, <1>5

\* AutoMatcher::Update.
LEMMA AutoMatchTells ==
    ASSUME NEW s, Lists(s, {}), AllLive(s), Even(s)
    PROVE  LET t == AutoMatch(s)
           IN  Even(t) /\ AllLive(t) /\ Tells(s, t)
<1>1. PICK n \in Nat : \E w \in [1 .. n -> DOMAIN s.players] : \E k \in Nat : \E f :
         /\ \A i \in 1 .. n : s.players[w[i]].state = "WAIT"
         /\ \A i, j \in 1 .. n : i # j => w[i] # w[j]
         /\ 2 * k <= n /\ Walk(f, s, w, k) /\ AutoMatch(s) = f[k]
  BY AutoMatchWalks
<1>2. \A k \in Nat : k \in 0 .. k
  OBVIOUS
<1> QED BY <1>1, <1>2, WalkKeeps, WalkTells

------------------------------------------------------------------------------
(* How a conversation goes on when the client acts. *)

\* A client that is not dead has one request on its way, wherever it goes.
LEMMA ShapeOn ==
    ASSUME NEW r, NEW at, at \notin Dead, Shape(r, at), NEW b
    PROVE  Shape(r, b)
  BY DEF Shape

\* Only what asks for a request leads to where an answer is awaited.
LEMMA AfterReplies ==
    ASSUME NEW at, NEW type, After(at, type) \in Reply
    PROVE  type \in Asks
  BY DEF After, Reply, Asks

LEMMA AsksOn ==
    ASSUME NEW q \in Seq(Packet), q # << >>
    PROVE  /\ NoAsks(q) => NoAsks(Tail(q)) /\ Head(q).type \notin Asks
           /\ AsksThen(q) => AsksThen(Tail(q))
           /\ AsksThen(q) /\ Head(q).type \in Asks => NoAsks(Tail(q))
<1> DEFINE n == Len(q)
           r == Tail(q)
<1>1. /\ n \in Nat /\ n >= 1 /\ Len(r) = n - 1 /\ Head(q) = q[1]
      /\ \A i \in 1 .. n - 1 : r[i] = q[i + 1]
  BY HeadTailProperties
<1>2. 1 \in 1 .. n /\ \A i \in 1 .. n - 1 : i + 1 \in 1 .. n /\ 1 < i + 1
  BY <1>1
<1>3. /\ NoAsks(q) => \A i \in 1 .. n : q[i].type \notin Asks
      /\ AsksThen(q) => \A i, j \in 1 .. n : i < j /\ q[i].type \in Asks => q[j].type = "ERROR"
  BY DEF NoAsks, AsksThen
<1>4. "ERROR" \notin Asks
  BY DEF Asks
<1> HIDE DEF n, r
<1>5. NoAsks(q) => NoAsks(r) /\ Head(q).type \notin Asks
  BY <1>1, <1>2, <1>3 DEF NoAsks
<1>6. AsksThen(q) => AsksThen(r)
  <2> SUFFICES ASSUME AsksThen(q), NEW i \in 1 .. n - 1, NEW j \in 1 .. n - 1, i < j,
                      r[i].type \in Asks
               PROVE  r[j].type = "ERROR"
    BY <1>1 DEF AsksThen
  <2>1. i + 1 \in 1 .. n /\ j + 1 \in 1 .. n /\ i + 1 < j + 1
    BY <1>1
  <2> QED BY <1>1, <1>3, <2>1
<1>7. AsksThen(q) /\ Head(q).type \in Asks => NoAsks(r)
  BY <1>1, <1>2, <1>3, <1>4 DEF NoAsks
<1> QED BY <1>5, <1>6, <1>7 DEF r

\* A packet is read to which no request is the answer.
Marks(p, mk) == IF IsFind(p) THEN mk \cup {p.cell} ELSE mk

LEMMA ConvRead ==
    ASSUME NEW role, NEW hit, NEW alone, NEW q \in Seq(Packet), q # << >>, NEW r, NEW at,
           at \notin Dead, NEW mk, Conv(role, hit, alone, q, r, at, mk), Head(q).type \notin Asks
    PROVE  LET b == After(at, Head(q).type)
           IN  /\ b \in Expected
               /\ b \notin Dead =>
                     Conv(role, hit, alone, Tail(q), r, b, Marks(Head(q), mk))
<1> DEFINE p == Head(q)
           b == After(at, p.type)
           v == Tail(q)
           m == Marks(p, mk)
<1>1. b \notin Reply
  BY AfterReplies
<1>2. CASE role # "gone"
  <2>1. Talking(Bound[role], q, r, at) /\ Looks(role, hit, q, r, mk)
    BY <1>2 DEF Conv
  <2>2. Leads(at, q, Bound[role]) /\ Clean(q) /\ r = << >>
    BY <2>1 DEF Talking
  <2>3. b \in Expected /\ Leads(b, v, Bound[role])
    BY <2>2, LeadsOn
  <2>4. Clean(v)
    BY <2>2, CleanOn
  <2>5. Talking(Bound[role], v, r, b)
    BY <1>1, <2>2, <2>3, <2>4 DEF Talking
  <2>6. m \cup Found(v) = mk \cup Found(q)
    BY FoundOn DEF Marks
  <2> HIDE DEF b, v, m, p
  <2>7. Looks(role, hit, v, r, m)
    BY <2>1, <2>2, <2>6 DEF Looks
  <2>8. Conv(role, hit, alone, v, r, b, m)
    BY <1>2, <2>2, <2>5, <2>7 DEF Conv, Asking
  <2> QED BY <2>3, <2>8 DEF b, v, m, p
<1>3. CASE role = "gone"
  <2>1. Parting(alone, q, r, at) /\ (Asking(r) => Right(role, hit, alone, r[1]))
    BY <1>3 DEF Conv
  <2>2. PICK e \in {"done", "ended", "playing"} : Leads(at, q, e)
    BY <2>1 DEF Parting
  <2>3. b \in Expected /\ Leads(b, v, e)
    BY <2>2, LeadsOn
  <2>4. (r # << >> \/ ~alone => NoAsks(v)) /\ AsksThen(v) /\ (r # << >> => alone)
    BY <2>1, AsksOn DEF Parting
  <2> HIDE DEF b, v, m, p
  <2>5. Parting(alone, v, r, b)
    BY <2>3, <2>4 DEF Parting
  <2>6. Conv(role, hit, alone, v, r, b, m)
    BY <1>3, <2>1, <2>5 DEF Conv
  <2> QED BY <2>3, <2>6 DEF b, v, m, p
<1> QED BY <1>2, <1>3

\* A client that has v to read and is asked for a request.
Answers(role, hit, alone, v, b, mk) ==
    /\ role # "gone" => /\ v = << >> /\ b = Bound[role] /\ Clean(v) /\ Leads(b, v, Bound[role])
                        /\ role \in {"ready", "mine", "theirs"} => mk = hit
    /\ role = "gone" => /\ alone /\ NoAsks(v) /\ AsksThen(v)
                        /\ \E e \in {"done", "ended", "playing"} : Leads(b, v, e)

LEMMA ConvAsked ==
    ASSUME NEW role, NEW hit, NEW alone, NEW q \in Seq(Packet), q # << >>, NEW r, NEW at,
           at \notin Dead, NEW mk, Shape(r, at), Conv(role, hit, alone, q, r, at, mk),
           Head(q).type \in Asks
    PROVE  r = << >> /\ Answers(role, hit, alone, Tail(q), After(at, Head(q).type), mk)
<1> DEFINE p == Head(q)
           b == After(at, p.type)
           v == Tail(q)
<1>1. CASE role # "gone"
  <2>1. Talking(Bound[role], q, r, at) /\ Looks(role, hit, q, r, mk)
    BY <1>1 DEF Conv
  <2>2. Leads(at, q, Bound[role]) /\ Clean(q) /\ r = << >>
    BY <2>1 DEF Talking
  <2>3. b \in Expected /\ Leads(b, v, Bound[role])
    BY <2>2, LeadsOn
  <2>4. Clean(v)
    BY <2>2, CleanOn
  <2>5. v = << >>
    <3>1. 1 \in 1 .. Len(q) /\ q[1] = p /\ v \in Seq(Packet) /\ Len(v) = Len(q) - 1
      BY HeadTailProperties
    <3>2. 1 = Len(q)
      BY <2>2, <3>1, AsksLast
    <3> HIDE DEF v
    <3>3. Len(v) = 0
      BY <3>1, <3>2
    <3> QED BY <3>1, <3>3, EmptySeq
  <2> HIDE DEF b, v
  <2>6. b = Bound[role]
    BY <2>3, <2>5, LeadsNowhere
  <2>7. Found(v) = {} /\ Found(q) = {}
    <3>1. ~IsFind(p)
      BY DEF IsFind, Asks
    <3> QED BY <2>5, <3>1, FoundOn, FoundNothing DEF v
  <2>8. role \in {"ready", "mine", "theirs"} => mk = hit
    BY <2>1, <2>7 DEF Looks
  <2>9. Answers(role, hit, alone, v, b, mk)
    BY <1>1, <2>3, <2>4, <2>5, <2>6, <2>8 DEF Answers
  <2> QED BY <2>2, <2>9 DEF b, v, p
<1>2. CASE role = "gone"
  <2>1. Parting(alone, q, r, at)
    BY <1>2 DEF Conv
  <2>2. PICK e \in {"done", "ended", "playing"} : Leads(at, q, e)
    BY <2>1 DEF Parting
  <2>3. Leads(b, v, e)
    BY <2>2, LeadsOn
  <2>4. ~NoAsks(q)
    BY AsksOn
  <2>5. r = << >> /\ alone /\ AsksThen(q)
    BY <2>1, <2>4 DEF Parting
  <2>6. NoAsks(v) /\ AsksThen(v)
    BY <2>5, AsksOn
  <2> HIDE DEF b, v
  <2>7. Answers(role, hit, alone, v, b, mk)
    BY <1>2, <2>2, <2>3, <2>5, <2>6 DEF Answers
  <2> QED BY <2>5, <2>7 DEF b, v, p
<1> QED BY <1>1, <1>2

\* The client answers with its map.
LEMMA ConvSendsMap ==
    ASSUME NEW role \in Roles, NEW hit, NEW alone, NEW q \in Seq(Packet), q # << >>, NEW r, NEW at,
           at \notin Dead, NEW mk, Shape(r, at), Conv(role, hit, alone, q, r, at, mk),
           Head(q).type \in Asks, After(at, Head(q).type) = "mapping",
           NEW info \in Maps, ValidMap(info)
    PROVE  /\ r = << >> /\ Shape(<<SubmitMap(info)>>, "mapping")
           /\ Conv(role, hit, alone, Tail(q), <<SubmitMap(info)>>, "mapping", {})
<1> DEFINE v == Tail(q)
           p == SubmitMap(info)
           z == <<p>>
<1>1. r = << >> /\ Answers(role, hit, alone, v, "mapping", mk)
  BY ConvAsked
<1>2. p \in RequestPacket \ {Closed} /\ p.type = "SUBMIT_MAP" /\ p.info = info
  BY RequestKinds DEF RequestPacket
<1>3. z # << >> /\ z[1] = p /\ Asking(z)
  BY <1>2 DEF Asking
<1>4. Shape(z, "mapping")
  BY <1>2 DEF Shape
<1>5. role = "gone" \/ role = "map"
  BY <1>1, BoundTable DEF Roles, Answers
<1>6. "mapping" \in Reply
  BY DEF Reply
<1> HIDE DEF v, p, z
<1>7. Right(role, hit, alone, p)
  BY <1>1, <1>2, <1>5 DEF Right, Answers
<1>8. CASE role = "gone"
  <2>1. Parting(alone, v, z, "mapping")
    BY <1>1, <1>8 DEF Parting, Answers
  <2> QED BY <1>1, <1>3, <1>4, <1>7, <1>8, <2>1 DEF Conv, v, p, z
<1>9. CASE role = "map"
  <2>1. Talking(Bound[role], v, z, "mapping")
    BY <1>1, <1>3, <1>6, <1>9 DEF Talking, Answers
  <2>2. Looks(role, hit, v, z, {})
    BY <1>9 DEF Looks
  <2>3. Conv(role, hit, alone, v, z, "mapping", {})
    BY <1>3, <1>7, <1>9, <2>1, <2>2 DEF Conv
  <2> QED BY <1>1, <1>4, <2>3 DEF v, p, z
<1> QED BY <1>5, <1>8, <1>9

\* The client attacks a cell that it has not marked.
LEMMA ConvSendsAttack ==
    ASSUME NEW role \in Roles, NEW hit, NEW alone, NEW q \in Seq(Packet), q # << >>, NEW r, NEW at,
           at \notin Dead, NEW mk, Shape(r, at), Conv(role, hit, alone, q, r, at, mk),
           Head(q).type \in Asks, After(at, Head(q).type) = "attacking",
           NEW x \in Cell, x \notin mk
    PROVE  /\ r = << >> /\ Shape(<<SubmitAttack(x)>>, "attacking")
           /\ Conv(role, hit, alone, Tail(q), <<SubmitAttack(x)>>, "attacking", mk)
<1> DEFINE v == Tail(q)
           p == SubmitAttack(x)
           z == <<p>>
<1>1. r = << >> /\ Answers(role, hit, alone, v, "attacking", mk)
  BY ConvAsked
<1>2. p \in RequestPacket \ {Closed} /\ p.type = "SUBMIT_ATTACK" /\ p.cell = x
  BY RequestKinds DEF RequestPacket
<1>3. z # << >> /\ z[1] = p /\ Asking(z)
  BY <1>2 DEF Asking
<1>4. Shape(z, "attacking")
  BY <1>2 DEF Shape
<1>5. role = "gone" \/ role = "mine"
  BY <1>1, BoundTable DEF Roles, Answers
<1>6. "attacking" \in Reply
  BY DEF Reply
<1> HIDE DEF v, p, z
<1>7. Right(role, hit, alone, p)
  BY <1>1, <1>2, <1>5 DEF Right, Answers
<1>8. CASE role = "gone"
  <2>1. Parting(alone, v, z, "attacking")
    BY <1>1, <1>8 DEF Parting, Answers
  <2> QED BY <1>1, <1>3, <1>4, <1>7, <1>8, <2>1 DEF Conv, v, p, z
<1>9. CASE role = "mine"
  <2>1. Talking(Bound[role], v, z, "attacking")
    BY <1>1, <1>3, <1>6, <1>9 DEF Talking, Answers
  <2>2. Looks(role, hit, v, z, mk)
    BY <1>1, <1>9, FoundNothing DEF Looks, Answers
  <2>3. Conv(role, hit, alone, v, z, "attacking", mk)
    BY <1>3, <1>7, <1>9, <2>1, <2>2 DEF Conv
  <2> QED BY <1>1, <1>4, <2>3 DEF v, p, z
<1> QED BY <1>5, <1>8, <1>9

\* The client closes its socket: what the server has to receive then.
Closing(r) == {Append(r, Closed), <<Closed>>}

LEMMA ConvHangs ==
    ASSUME NEW role, NEW hit, NEW alone, NEW q, NEW r, NEW at, at \notin Dead, NEW mk,
           Shape(r, at), Conv(role, hit, alone, q, r, at, mk),
           NEW z \in Closing(r), NEW b \in Dead, NEW v, NEW m
    PROVE  Shape(z, b) /\ Conv(role, hit, alone, v, z, b, m)
<1>1. r = << >> \/ \E p \in RequestPacket \ {Closed} : r = <<p>>
  BY DEF Shape
<1>2. CASE z = <<Closed>>
  BY <1>2 DEF Shape, Conv, Asking
<1>3. ASSUME NEW p \in RequestPacket \ {Closed}, r = <<p>>, z = Append(r, Closed)
      PROVE  Shape(z, b) /\ Conv(role, hit, alone, v, z, b, m)
  <2>1. z = <<p, Closed>> /\ z[1] = r[1]
    <3> DEFINE a == <<p>>
               y == <<p, Closed>>
    <3>1. a \in Seq({p, Closed}) /\ Len(a) = 1 /\ a[1] = p /\ z = Append(a, Closed)
      BY <1>3
    <3>2. y \in Seq({p, Closed}) /\ Len(y) = 2 /\ y[1] = p /\ y[2] = Closed
      OBVIOUS
    <3> HIDE DEF a, y
    <3>3. /\ z \in Seq({p, Closed}) /\ Len(z) = 2 /\ z[2] = Closed /\ z[1] = p
      <4> DEFINE S == {p, Closed}
      <4>1. a \in Seq(S) /\ Closed \in S
        BY <3>1
      <4> HIDE DEF S
      <4>2. /\ Append(a, Closed) \in Seq(S) /\ Len(Append(a, Closed)) = Len(a) + 1
            /\ Append(a, Closed)[Len(a) + 1] = Closed
            /\ \A i \in 1 .. Len(a) : Append(a, Closed)[i] = a[i]
        BY <4>1, AppendProperties
      <4> QED BY <3>1, <4>2 DEF S
    <3>4. \A i \in 1 .. 2 : z[i] = y[i]
      BY <3>2, <3>3
    <3>5. z = y
      BY <3>2, <3>3, <3>4, SeqEqual
    <3> QED BY <1>3, <3>3, <3>5 DEF y
  <2>2. Asking(r)
    BY <1>3 DEF Asking
  <2>3. Right(role, hit, alone, z[1])
    BY <2>1, <2>2 DEF Conv
  <2>4. Shape(z, b)
    BY <1>3, <2>1 DEF Shape
  <2> QED BY <2>3, <2>4 DEF Conv
<1>4. r = << >> => Append(r, Closed) = <<Closed>>
  OBVIOUS
<1> QED BY <1>1, <1>2, <1>3, <1>4 DEF Closing

------------------------------------------------------------------------------
(* The invariant. *)

\* What holds of client c, with w on the wire, r asked, at a place and with mk
\* marked, when the server is s and has not accepted the clients of O.
Serves(s, O, c, w, r, at, mk) ==
    /\ Shape(r, at)
    /\ s.link[c].up => Hears(s, c, w, r, at, mk)
    /\ c \in O => /\ s.link[c] = NoLink /\ w = << >>
                  /\ \/ at = "off" /\ r = << >>
                     \/ at \in {"naming", "left"} /\ Conv("name", {}, TRUE, << >>, r, at, {})
    /\ ~s.link[c].up /\ c \notin O => at \in Dead

Served(c) == Serves(server, Outside, c, wire[c], requests[c], pc[c], marked[c])

PInv == /\ Even(server)
        /\ phase = "accept" => AllLive(server)
        /\ \A c \in Client : Served(c)

\* A client of which nothing changes, when to its player nothing happens.
LEMMA ServesSame ==
    ASSUME NEW s, NEW t, NEW c \in Client, t.link[c] = s.link[c], Same(s, t, s.link[c].id),
           NEW O, NEW Q, c \in O <=> c \in Q, NEW w, NEW r, NEW at, NEW mk,
           Serves(s, O, c, w, r, at, mk)
    PROVE  Serves(t, Q, c, w, r, at, mk)
<1>1. Pending(t, c, w) = Pending(s, c, w) /\ t.link[c].id = s.link[c].id
  BY DEF Pending
<1>2. Hears(s, c, w, r, at, mk) => Hears(t, c, w, r, at, mk)
  BY <1>1, HearsSame
<1> QED BY <1>2 DEF Serves

\* The others, when client c takes a step.
LEMMA OneMoves ==
    ASSUME LInv, PInv, NEW c \in Client, UNCHANGED <<server, phase>>, Outside' = Outside,
           \A d \in Client : d # c => /\ wire'[d] = wire[d] /\ requests'[d] = requests[d]
                                      /\ pc'[d] = pc[d] /\ marked'[d] = marked[d],
           Serves(server, Outside, c, wire'[c], requests'[c], pc'[c], marked'[c])
    PROVE  PInv'
<1>1. ASSUME NEW d \in Client
      PROVE  Serves(server, Outside, d, wire'[d], requests'[d], pc'[d], marked'[d])
  <2>1. CASE d = c
    BY <2>1
  <2>2. CASE d # c
    <3>1. Serves(server, Outside, d, wire[d], requests[d], pc[d], marked[d])
      BY DEF PInv, Served
    <3> QED BY <2>2, <3>1
  <2> QED BY <2>1, <2>2
<1>2. \A d \in Client : Serves(server', Outside', d, wire'[d], requests'[d], pc'[d], marked'[d])
  BY <1>1
<1>3. Even(server') /\ (phase' = "accept" => AllLive(server'))
  BY DEF PInv
<1> QED BY <1>2, <1>3 DEF PInv, Served

------------------------------------------------------------------------------
(* The server's steps. *)

\* A session is made.
Accepts(s, t, h, u) ==
    /\ h \in Outside /\ pc[h] # "off" /\ h \in Client /\ Outside' = Outside \ {h}
    /\ u \in PlayerNumber /\ ~HasPlayer(s, u) /\ GameOf(s, u) = None
    /\ t.players = s.players /\ t.games = s.games /\ ~s.link[h].up
    /\ \A d \in Client : d # h => t.link[d] = s.link[d]
    /\ t.link[h].up /\ t.link[h].id = u /\ Pending(t, h, << >>) = << >>

Made == server' = [server EXCEPT !.link[Head(accepts)] =
                     [NoLink EXCEPT !.up = TRUE, !.id = UnusedNumber(server)]]

LEMMA AcceptDone ==
    ASSUME LInv, PInv, phase = "accept", pc' = pc, accepts # << >>, accepts' = Tail(accepts), Made
    PROVE  Accepts(server, server', Head(accepts), UnusedNumber(server))
<1> DEFINE s == server
           h == Head(accepts)
           u == UnusedNumber(server)
           l == [NoLink EXCEPT !.up = TRUE, !.id = u]
           f == [server.link EXCEPT ![h] = l]
<1>1. Lists(server, Outside) /\ Arrivals /\ AllLive(server)
  BY DEF LInv, PInv
<1>2. h \in Outside /\ pc[h] # "off" /\ h \in Client /\ Outside' = Outside \ {h}
  BY <1>1, OneAccepted
<1>3. u \in PlayerNumber /\ ~HasPlayer(s, u)
  BY <1>1, <1>2, NumberLeft
<1>4. l.up = TRUE /\ l.id = u /\ l.out = << >> /\ l.sent = 0
  BY DEF NoLink
<1>5. server' = [server EXCEPT !.link = f]
  BY DEF Made
<1> HIDE DEF l, u
<1>6. \A d \in Client : f[d] = IF d = h THEN l ELSE s.link[d]
  BY <1>1 DEF Lists, Links
<1> HIDE DEF f, h
<1>7. server'.link = f /\ server'.players = s.players /\ server'.games = s.games
  <2>1. Server(server)
    BY <1>1 DEF Lists
  <2> QED BY <1>5, <2>1, LinkField
<1> HIDE DEF s
<1>8. ~s.link[h].up
  BY <1>1, <1>2 DEF Lists, Down, s
<1>9. GameOf(s, u) = None
  <2> SUFFICES ASSUME GameOf(s, u) # None PROVE FALSE
    OBVIOUS
  <2>1. GameOf(s, u) \in DOMAIN s.games /\ u \in PlayersOf(s.games[GameOf(s, u)])
    BY <1>1, GameOfFound DEF Lists, s
  <2> QED BY <1>1, <1>3, <2>1 DEF AllLive, Lists, Engaged, s
<1>10. server'.link[h] = l
  BY <1>2, <1>6, <1>7
<1>11. Pending(server', h, << >>) = << >>
  BY <1>4, <1>10 DEF Pending, Rest
<1> QED BY <1>2, <1>3, <1>4, <1>6, <1>7, <1>8, <1>9, <1>10, <1>11 DEF Accepts, s, h, u

LEMMA AcceptServes ==
    ASSUME SerialLogin, LInv, PInv, Accept
    PROVE  PInv'
<1>1. /\ Lists(server, Outside) /\ Arrivals /\ Clients /\ Even(server)
      /\ UNCHANGED <<requests, wire, pc, marked>> /\ phase = "accept" /\ phase' = "apc"
      /\ AllLive(server)
  BY DEF LInv, PInv, Accept, clientVars
<1>2. ASSUME UNCHANGED <<server, accepts>>
      PROVE  PInv'
  <2>1. Outside' = Outside
    BY <1>1, <1>2 DEF Outside
  <2>2. \A d \in Client : Serves(server, Outside, d, wire[d], requests[d], pc[d], marked[d])
    BY DEF PInv, Served
  <2>3. \A d \in Client : Serves(server', Outside', d, wire'[d], requests'[d], pc'[d], marked'[d])
    BY <1>1, <1>2, <2>1, <2>2
  <2>4. Even(server') /\ ~(phase' = "accept")
    BY <1>1, <1>2
  <2> QED BY <2>3, <2>4 DEF PInv, Served
<1>3. ASSUME accepts # << >>, EveryoneNamed, accepts' = Tail(accepts), Made
      PROVE  PInv'
  <2> DEFINE s == server
             t == server'
             h == Head(accepts)
             u == UnusedNumber(server)
  <2>1. Accepts(s, t, h, u)
    BY <1>1, <1>3, AcceptDone
  <2> HIDE DEF u, h
  <2>7. Lists(t, Outside')
    <3>1. LInv'
      BY AcceptKeeps
    <3> QED BY <3>1 DEF LInv
  <2> HIDE DEF s, t
  <2>8. /\ \A m : Same(s, t, m)
        /\ Settled(s) => Settled(t)
        /\ Matches(s) => Matches(t)
    BY <2>1, RolesSame DEF Accepts
  <2>9. \A m : GameOf(t, m) = GameOf(s, m) /\ (HasPlayer(t, m) <=> HasPlayer(s, m))
    <3> TAKE m
    <3>1. GamesOf(t, m) = GamesOf(s, m)
      BY <2>1 DEF Accepts, GamesOf
    <3> QED BY <2>1, <3>1 DEF Accepts, GameOf, HasPlayer
  <2>11. \A d \in Client : s.link[d].up => HasPlayer(s, s.link[d].id)
    BY <1>3 DEF EveryoneNamed, s
  <2>12. Even(t)
    <3>1. Unique(t)
      <4> SUFFICES ASSUME NEW c \in Client, NEW d \in Client, c # d, t.link[c].up, t.link[d].up
                   PROVE  t.link[c].id # t.link[d].id
        BY DEF Unique
      <4>1. CASE c # h /\ d # h
        BY <1>1, <2>1, <4>1 DEF Accepts, Even, Unique, s
      <4>2. CASE c = h
        BY <2>1, <2>11, <4>2 DEF Accepts
      <4>3. CASE d = h
        BY <2>1, <2>11, <4>3 DEF Accepts
      <4> QED BY <4>1, <4>2, <4>3
    <3>2. NamesFree(t)
      <4> SUFFICES ASSUME NEW d \in Client, t.link[d].up, ~HasPlayer(t, t.link[d].id)
                   PROVE  GameOf(t, t.link[d].id) = None
        BY DEF NamesFree
      <4>1. d = h
        BY <2>1, <2>9, <2>11 DEF Accepts
      <4> QED BY <2>1, <2>9, <4>1 DEF Accepts
    <3> QED BY <1>1, <2>8, <3>1, <3>2 DEF Even, s
  <2>13. \A d \in Client : Serves(s, Outside, d, wire[d], requests[d], pc[d], marked[d])
    BY DEF PInv, Served, s
  <2>14. ASSUME NEW d \in Client
         PROVE  Serves(t, Outside', d, wire[d], requests[d], pc[d], marked[d])
    <3>1. CASE d # h
      <4>1. t.link[d] = s.link[d] /\ Same(s, t, s.link[d].id) /\ (d \in Outside <=> d \in Outside')
        BY <2>1, <2>8, <3>1 DEF Accepts
      <4> QED BY <2>13, <4>1, ServesSame
    <3>2. CASE d = h
      <4>1. /\ Shape(requests[h], pc[h]) /\ wire[h] = << >>
            /\ Conv("name", {}, TRUE, << >>, requests[h], pc[h], {})
        BY <2>1, <2>13 DEF Accepts, Serves
      <4>2. t.link[h].up /\ t.link[h].id = u /\ h \notin Outside'
        BY <2>1 DEF Accepts
      <4>3. Role(t, u) = "name" /\ Alone(t, u) = TRUE
        <5>1. Alone(t, u) /\ ~HasPlayer(t, u)
          BY <2>1, <2>9 DEF Accepts, Alone
        <5> QED BY <5>1 DEF Role, Alone
      <4>4. Hit(t, u) = {}
        BY <4>3 DEF Hit
      <4>5. Pending(t, h, << >>) = << >>
        BY <2>1 DEF Accepts
      <4>6. Conv("name", {}, TRUE, << >>, requests[h], pc[h], marked[h])
        BY <4>1 DEF Conv, Looks
      <4>7. Hears(t, h, wire[h], requests[h], pc[h], marked[h])
        BY <4>1, <4>2, <4>3, <4>4, <4>5, <4>6 DEF Hears
      <4> QED BY <3>2, <4>1, <4>2, <4>7 DEF Serves
    <3> QED BY <3>1, <3>2
  <2>15. \A d \in Client : Serves(server', Outside', d, wire'[d], requests'[d], pc'[d], marked'[d])
    BY <1>1, <2>14 DEF t
  <2>16. Even(server') /\ ~(phase' = "accept")
    BY <1>1, <2>12 DEF t
  <2> QED BY <2>15, <2>16 DEF PInv, Served
<1> QED BY <1>2, <1>3 DEF Accept, Made

\* A receive completes.
LEMMA RecvServes ==
    ASSUME LInv, PInv, NEW c \in Client, RecvCompletion(c)
    PROVE  PInv'
<1> DEFINE s == server
           t == server'
           r == requests[c]
           p == Head(r)
           rest(d) == IF d = c THEN Tail(r) ELSE requests[d]
<1>1. /\ Lists(server, Outside) /\ Clients /\ Even(server)
      /\ UNCHANGED <<phase, accepts, wire, pc, marked>> /\ phase = "apc"
      /\ server.link[c].up /\ r # << >> /\ p # Closed /\ server' = Handle(server, c, p)
      /\ requests' = [requests EXCEPT ![c] = Tail(r)]
  BY DEF LInv, PInv, RecvCompletion, clientVars
<1>2. Lists(s, {}) /\ Even(s) /\ s.link[c].up /\ t = Handle(s, c, p)
  BY <1>1, FewerDown
<1>3. Outside' = Outside /\ c \notin Outside
  BY <1>1 DEF Outside, Lists, Down
<1>4. \A d \in Client : Serves(s, Outside, d, wire[d], requests[d], pc[d], marked[d])
  BY DEF PInv, Served
<1>5. \A d \in Client : requests'[d] = rest(d)
  BY <1>1 DEF Clients
<1>6. Shape(r, pc[c]) /\ Hears(s, c, wire[c], r, pc[c], marked[c])
  BY <1>1, <1>4 DEF Serves
<1>7. \A d \in Client : wire[d] \in Seq(Packet)
  BY <1>1 DEF Clients
<1>8. p = r[1] /\ r \in Seq(RequestPacket) /\ p \in RequestPacket
  BY <1>1 DEF Clients
<1>9. SUFFICES /\ Even(t)
               /\ \A d \in Client : Serves(t, Outside, d, wire[d], rest(d), pc[d], marked[d])
  <2>1. ASSUME Even(t),
               \A d \in Client : Serves(t, Outside, d, wire[d], rest(d), pc[d], marked[d])
        PROVE  PInv'
    <3>1. \A d \in Client : Serves(server', Outside', d, wire'[d], requests'[d], pc'[d], marked'[d])
      BY <1>1, <1>3, <1>5, <2>1
    <3>2. Even(server') /\ ~(phase' = "accept")
      BY <1>1, <2>1
    <3> QED BY <3>1, <3>2 DEF PInv, Served
  <2> QED BY <2>1
<1> HIDE DEF s, t, p, r
<1>10. Asking(r)
  BY <1>1, <1>8 DEF Asking
<1>11. Right(Role(s, s.link[c].id), Hit(s, s.link[c].id), Alone(s, s.link[c].id), p)
  BY <1>6, <1>8, <1>10 DEF Hears, Conv
<1>12. Even(t) /\ Steady(s, t) /\ Carries(s, t, c)
  <2>1. p \in RequestPacket \ {Closed}
    BY <1>1, <1>8
  <2>2. LET v == Handle(s, c, p)
        IN  Even(v) /\ Steady(s, v) /\ Carries(s, v, c)
    BY <1>2, <1>11, <2>1, HandleCarries
  <2> QED BY <1>2, <2>2
<1>13. ASSUME NEW d \in Client
      PROVE  Serves(t, Outside, d, wire[d], rest(d), pc[d], marked[d])
  <2>1. Serves(s, Outside, d, wire[d], requests[d], pc[d], marked[d])
    BY <1>4
  <2>2. t.link[d].up = s.link[d].up /\ (~s.link[d].up => t.link[d] = s.link[d])
    BY <1>12 DEF Steady
  <2>3. Shape(rest(d), pc[d])
    <3>1. Shape(Tail(r), pc[c])
      BY <1>6, <1>10, TailAsks
    <3> QED BY <2>1, <3>1 DEF Serves
  <2>4. ASSUME s.link[d].up
        PROVE  Hears(t, d, wire[d], rest(d), pc[d], marked[d])
    <3>1. /\ t.link[d].up /\ Shape(requests[d], pc[d])
          /\ Hears(s, d, wire[d], requests[d], pc[d], marked[d])
          /\ d = c => Asking(requests[d])
      BY <1>10, <2>1, <2>2, <2>4 DEF Serves, r
    <3>2. Hears(t, d, wire[d], IF d = c THEN Tail(requests[d]) ELSE requests[d], pc[d], marked[d])
      BY <1>7, <1>12, <3>1 DEF Carries
    <3>3. rest(d) = IF d = c THEN Tail(requests[d]) ELSE requests[d]
      BY DEF r
    <3> QED BY <3>2, <3>3
  <2>5. d \in Outside => ~s.link[d].up /\ rest(d) = requests[d]
    BY <1>1, <1>3 DEF Lists, Down, s
  <2> HIDE DEF rest
  <2> QED BY <2>1, <2>2, <2>3, <2>4, <2>5 DEF Serves
<1> QED BY <1>12, <1>13

\* When it is closed, or not, nothing more is to come from the client.
LEMMA ClosesWhen ==
    ASSUME LInv, PInv, NEW c \in Client, Closes(c)
    PROVE  /\ pc[c] \in Dead /\ phase' = "apc"
           /\ \/ server' = CloseSession(server, c) /\ requests'[c] = << >>
              \/ server' = server /\ requests'[c] = requests[c]
              \/ server' = server /\ requests'[c] = << >> /\ ~Asking(requests[c])
<1> DEFINE r == requests[c]
<1>1. /\ Lists(server, Outside) /\ Clients /\ Even(server) /\ Shape(r, pc[c])
      /\ server.link[c].up /\ UNCHANGED phase
  BY ClosesParts DEF LInv, PInv, Served, Serves
<1>2. ~CloseSession(server, c).link[c].up
  BY <1>1, FewerDown, DisconnectParts DEF Parts
<1>3. r \in Seq(RequestPacket) /\ << >> \in Seq(RequestPacket)
  BY <1>1 DEF Clients
<1>4. CASE RecvEnd(c)
  <2>1. r # << >> /\ r[1] = Closed /\ phase = "apc" /\ requests'[c] = Tail(r)
    BY <1>1, <1>3, <1>4 DEF RecvEnd, Clients
  <2>2. ~Asking(r)
    BY <2>1 DEF Asking
  <2> HIDE DEF r
  <2>3. r = <<Closed>> /\ pc[c] \in Dead
    <3>1. \A x \in RequestPacket \ {Closed} : Asking(<<x>>) /\ Asking(<<x, Closed>>)
      BY DEF Asking
    <3> QED BY <1>1, <2>1, <2>2, <3>1 DEF Shape
  <2>4. Tail(r) = << >>
    BY <2>3
  <2> QED BY <1>1, <1>4, <2>1, <2>2, <2>3, <2>4 DEF RecvEnd, Disconnect, r
<1>5. CASE SendFails(c)
  <2>1. requests \in [Client -> Seq(RequestPacket)]
    BY <1>1 DEF Clients
  <2>2. /\ server' = CloseSession(server, c) \/ server' = server
        /\ pc[c] \in Dead /\ phase = "apc"
        /\ requests' = IF server'.link[c].up THEN requests ELSE [requests EXCEPT ![c] = << >>]
    BY <1>5 DEF SendFails, Disconnect
  <2> QED BY <1>1, <1>2, <2>1, <2>2
<1> QED BY <1>4, <1>5 DEF Closes

\* A receive ends, or a send fails.
LEMMA ClosesServes ==
    ASSUME LInv, PInv, NEW c \in Client, Closes(c)
    PROVE  PInv'
<1> DEFINE s == server
           t == server'
<1>1. /\ Lists(s, Outside) /\ Clients /\ Even(s)
      /\ UNCHANGED <<accepts, wire, pc, marked>> /\ s.link[c].up
      /\ \A d \in Client : d # c => requests'[d] = requests[d]
  BY ClosesParts DEF LInv, PInv
<1>2. /\ pc[c] \in Dead /\ phase' = "apc"
      /\ \/ t = CloseSession(s, c) /\ requests'[c] = << >>
         \/ t = s /\ requests'[c] = requests[c]
         \/ t = s /\ requests'[c] = << >>
  BY ClosesWhen
<1>3. Outside' = Outside /\ c \notin Outside
  BY <1>1 DEF Outside, Lists, Down
<1>4. \A d \in Client : Serves(s, Outside, d, wire[d], requests[d], pc[d], marked[d])
  BY DEF PInv, Served
<1>5. \A d \in Client : wire[d] \in Seq(Packet)
  BY <1>1 DEF Clients
<1>6. SUFFICES /\ Even(t)
               /\ \A d \in Client : Serves(t, Outside, d, wire[d], requests'[d], pc[d], marked[d])
  BY <1>1, <1>2, <1>3 DEF PInv, Served
<1> HIDE DEF s, t
<1>7. Shape(<< >>, pc[c]) /\ \A role, hit, alone, q : Conv(role, hit, alone, q, << >>, pc[c], marked[c])
  BY <1>2 DEF Shape, Conv, Asking
<1>8. CASE t = CloseSession(s, c) /\ requests'[c] = << >>
  <2>1. Even(t) /\ Parts(s, t, c)
    <3>1. Lists(s, {})
      BY <1>1, FewerDown
    <3> QED BY <1>1, <1>8, <3>1, DisconnectParts
  <2>2. ASSUME NEW d \in Client, d # c
        PROVE  Serves(t, Outside, d, wire[d], requests[d], pc[d], marked[d])
    <3>1. Serves(s, Outside, d, wire[d], requests[d], pc[d], marked[d])
      BY <1>4
    <3>2. /\ t.link[d].up = s.link[d].up /\ (~s.link[d].up => t.link[d] = s.link[d])
          /\ s.link[d].up => Hears(t, d, wire[d], requests[d], pc[d], marked[d])
      BY <1>5, <2>1, <2>2, <3>1 DEF Parts, Serves
    <3>3. d \in Outside => ~s.link[d].up
      BY <1>1 DEF Lists, Down
    <3> QED BY <3>1, <3>2, <3>3 DEF Serves
  <2>3. Serves(t, Outside, c, wire[c], << >>, pc[c], marked[c])
    BY <1>2, <1>3, <1>7, <2>1 DEF Serves, Parts
  <2> QED BY <1>1, <1>8, <2>1, <2>2, <2>3
<1>9. CASE t = s
  <2>1. Serves(s, Outside, c, wire[c], << >>, pc[c], marked[c])
    BY <1>1, <1>3, <1>7 DEF Serves, Hears
  <2> QED BY <1>1, <1>2, <1>4, <1>8, <1>9, <2>1
<1> QED BY <1>2, <1>8, <1>9

\* A send completes.
LEMMA SendDone ==
    ASSUME LInv, NEW c \in Client, SendCompletion(c)
    PROVE  /\ UNCHANGED <<phase, accepts, requests, wire, pc, marked, told>> /\ phase = "apc"
           /\ server'.players = server.players /\ server'.games = server.games
           /\ Steady(server, server')
           /\ \A d \in Client : \A w \in Seq(Packet) : Pending(server', d, w) = Pending(server, d, w)
<1> DEFINE s == server
           t == server'
           k == s.link[c]
           a == [k EXCEPT !.out = SubSeq(k.out, k.sent + 1, Len(k.out))]
           l == [a EXCEPT !.sent = 0]
           f == [server.link EXCEPT ![c] = l]
<1>1. /\ Lists(s, Outside) /\ k.up /\ phase = "apc"
      /\ UNCHANGED <<phase, accepts, requests, wire, pc, marked, told>>
  BY DEF LInv, SendCompletion, clientVars
<1>2. s.link \in [Client -> Session] /\ Server(s) /\ Links(s)
  BY <1>1 DEF Lists, Links
<1>3. server' = [server EXCEPT !.link = f]
  BY <1>2 DEF SendCompletion
<1>4. k \in Session /\ k.sent <= Len(k.out)
  BY <1>1 DEF Lists, Links
<1> HIDE DEF k
<1>5. /\ a.up = k.up /\ a.id = k.id /\ a.out = SubSeq(k.out, k.sent + 1, Len(k.out)) /\ a \in Session
  <2>1. SubSeq(k.out, k.sent + 1, Len(k.out)) \in Seq(Packet)
    BY <1>4 DEF Session
  <2> QED BY <1>4, <2>1 DEF Session
<1> HIDE DEF a
<1>6. l.up = k.up /\ l.id = k.id /\ l.out = SubSeq(k.out, k.sent + 1, Len(k.out)) /\ l.sent = 0
  BY <1>5 DEF Session
<1> HIDE DEF l
<1>7. \A d \in Client : f[d] = IF d = c THEN l ELSE s.link[d]
  BY <1>2
<1> HIDE DEF f
<1>8. t.link = f /\ t.players = s.players /\ t.games = s.games
  BY <1>2, <1>3, LinkField
<1> HIDE DEF s, t
<1>9. Steady(s, t)
  BY <1>1, <1>6, <1>7, <1>8 DEF Steady, k
<1>10. ASSUME NEW d \in Client, NEW w \in Seq(Packet)
       PROVE  Pending(t, d, w) = Pending(s, d, w)
  <2>1. CASE d # c
    BY <1>7, <1>8, <2>1 DEF Pending
  <2>2. CASE d = c
    <3>1. k.out \in Seq(Packet) /\ k.sent \in Nat
      BY <1>4 DEF Session
    <3>2. Rest(w, l.out, 0) = Rest(w, k.out, k.sent)
      BY <1>4, <1>6, <3>1, RestDone
    <3>3. t.link[c] = l /\ s.link[c] = k
      BY <1>7, <1>8 DEF k
    <3> QED BY <1>6, <2>2, <3>2, <3>3 DEF Pending
  <2> QED BY <2>1, <2>2
<1> QED BY <1>1, <1>8, <1>9, <1>10 DEF s, t

LEMMA SendServes ==
    ASSUME LInv, PInv, NEW c \in Client, SendCompletion(c)
    PROVE  PInv'
<1> DEFINE s == server
           t == server'
<1>1. /\ UNCHANGED <<phase, accepts, requests, wire, pc, marked>> /\ phase = "apc"
      /\ t.players = s.players /\ t.games = s.games /\ Steady(s, t)
      /\ \A d \in Client : \A w \in Seq(Packet) : Pending(t, d, w) = Pending(s, d, w)
  BY SendDone
<1>2. Even(s) /\ \A d \in Client : wire[d] \in Seq(Packet)
  BY DEF LInv, PInv, Clients
<1>3. \A d \in Client : Serves(s, Outside, d, wire[d], requests[d], pc[d], marked[d])
  BY DEF PInv, Served
<1>4. Outside' = Outside
  BY <1>1 DEF Outside
<1>5. \A d \in Client : d \in Outside => ~s.link[d].up
  BY DEF LInv, Lists, Down
<1> HIDE DEF s, t
<1>6. /\ \A m : Same(s, t, m)
      /\ NamesFree(s) /\ (\A d \in Client : /\ t.link[d].up = s.link[d].up
                                            /\ t.link[d].id = s.link[d].id) => NamesFree(t)
      /\ Settled(s) => Settled(t)
      /\ Matches(s) => Matches(t)
  BY <1>1, RolesSame
<1>7. Even(t)
  BY <1>1, <1>2, <1>6 DEF Even, Unique, Steady
<1>8. ASSUME NEW d \in Client
      PROVE  Serves(t, Outside, d, wire[d], requests[d], pc[d], marked[d])
  <2>1. /\ t.link[d].up = s.link[d].up /\ t.link[d].id = s.link[d].id
        /\ ~s.link[d].up => t.link[d] = s.link[d]
    BY <1>1 DEF Steady
  <2>2. Pending(t, d, wire[d]) = Pending(s, d, wire[d])
    BY <1>1, <1>2
  <2>3. Hears(s, d, wire[d], requests[d], pc[d], marked[d])
           => Hears(t, d, wire[d], requests[d], pc[d], marked[d])
    BY <1>6, <2>1, <2>2, HearsSame
  <2> QED BY <1>3, <1>5, <2>1, <2>3 DEF Serves
<1>9. \A d \in Client : Serves(server', Outside', d, wire'[d], requests'[d], pc'[d], marked'[d])
  BY <1>1, <1>4, <1>8 DEF t
<1>10. Even(server') /\ ~(phase' = "accept")
  BY <1>1, <1>7 DEF t
<1> QED BY <1>9, <1>10 DEF PInv, Served

\* The end of a pass: what the clients hear, and the score.
LEMMA FinishDone ==
    ASSUME LInv, PInv, FinishPass
    PROVE  LET s == server
               t == server'
           IN  /\ Even(t) /\ AllLive(t) /\ Steady(s, t) /\ Outside' = Outside
               /\ phase' = "accept" /\ UNCHANGED <<accepts, requests, pc, marked, told>>
               /\ \A d \in Client : ~s.link[d].up => wire'[d] = wire[d]
               /\ \A d \in Client : \A q, at, mk :
                     s.link[d].up /\ Shape(q, at) /\ Hears(s, d, wire[d], q, at, mk)
                        => Hears(t, d, wire'[d], q, at, mk)
               /\ Credits(s) =>
                     /\ Credits(t)
                     /\ \A d \in Client : \A tl \in Tally :
                           s.link[d].up /\ Counts(s, d, wire[d], tl) => Counts(t, d, wire'[d], tl)
<1> DEFINE s == server
           r == Flushed(s)
           u == RemoveOverGames(r)
           t == AutoMatch(u)
           on(d) == wire[d] \o s.link[d].out
<1>1. /\ Lists(s, Outside) /\ Clients /\ Even(s) /\ phase' = "accept"
      /\ UNCHANGED <<accepts, requests, pc, marked, told>>
      /\ \A d \in Client : s.link[d].up => s.link[d].sent = 0
      /\ wire' = [c \in Client |->
                    IF server.link[c].up THEN wire[c] \o server.link[c].out ELSE wire[c]]
      /\ server' = t
  BY DEF LInv, PInv, FinishPass, clientVars
<1>2. Outside' = Outside
  BY <1>1 DEF Outside
<1>3. Lists(s, {})
  BY <1>1, FewerDown
<1>4. \A d \in Client : wire'[d] = IF s.link[d].up THEN on(d) ELSE wire[d]
  BY <1>1
<1> HIDE DEF s
<1>5. /\ Lists(r, {}) /\ Even(r) /\ r.players = s.players /\ r.games = s.games
      /\ \A c \in Client : r.link[c].up = s.link[c].up /\ r.link[c].id = s.link[c].id
      /\ \A c \in Client : ~s.link[c].up => r.link[c] = s.link[c]
      /\ \A c \in Client : \A w \in Seq(Packet) : \A q, at, mk :
            s.link[c].up /\ s.link[c].sent = 0 /\ Hears(s, c, w, q, at, mk)
               => Hears(r, c, w \o s.link[c].out, q, at, mk)
      /\ \A c \in Client : \A w \in Seq(Packet) : s.link[c].up /\ s.link[c].sent = 0
            => Pending(r, c, w \o s.link[c].out) = Pending(s, c, w)
  BY <1>1, <1>3, FlushedKeeps, FlushTells
<1> HIDE DEF r
<1>6. Lists(u, {}) /\ AllLive(u) /\ Even(u) /\ Tells(r, u)
  BY <1>5, RemoveKeeps, RemoveTells
<1> HIDE DEF u
<1>7. Even(t) /\ AllLive(t) /\ Tells(u, t)
  BY <1>6, AutoMatchTells
<1> HIDE DEF t
<1>8. Tells(r, t)
  BY <1>6, <1>7, TellsOn
<1>9. Steady(s, t)
  BY <1>5, <1>8 DEF Tells, Steady
<1>10. \A d \in Client : s.link[d].up => wire[d] \in Seq(Packet) /\ on(d) \in Seq(Packet)
  <2> SUFFICES ASSUME NEW d \in Client PROVE wire[d] \in Seq(Packet) /\ on(d) \in Seq(Packet)
    OBVIOUS
  <2>1. wire[d] \in Seq(Packet) /\ s.link[d].out \in Seq(Packet)
    BY <1>1 DEF Clients, Lists, Links, Session
  <2> QED BY <2>1
<1>11. ASSUME NEW d \in Client, NEW q, NEW at, NEW mk, s.link[d].up, Shape(q, at),
              Hears(s, d, wire[d], q, at, mk)
       PROVE  Hears(t, d, wire'[d], q, at, mk)
  <2>1. Hears(r, d, on(d), q, at, mk)
    BY <1>1, <1>5, <1>10, <1>11
  <2> HIDE DEF on
  <2>2. Hears(t, d, on(d), q, at, mk)
    BY <1>5, <1>8, <1>10, <1>11, <2>1 DEF Tells
  <2> QED BY <1>4, <1>11, <2>2
<1>12. ASSUME Credits(s)
       PROVE  /\ Credits(t)
              /\ \A d \in Client : \A tl \in Tally :
                    s.link[d].up /\ Counts(s, d, wire[d], tl) => Counts(t, d, wire'[d], tl)
  <2>1. (\A m : Stands(s, r, m)) /\ Credits(r)
    BY <1>3, <1>5, <1>12, ListsStand
  <2>2. Rates(r, t) /\ Credits(t)
    BY <1>8, <2>1 DEF Tells, Rates
  <2>3. ASSUME NEW d \in Client, NEW tl \in Tally, s.link[d].up, Counts(s, d, wire[d], tl)
        PROVE  Counts(t, d, wire'[d], tl)
    <3>1. Pending(r, d, on(d)) = Pending(s, d, wire[d])
      BY <1>1, <1>5, <1>10, <2>3
    <3> HIDE DEF on
    <3>2. Counts(r, d, on(d), tl)
      BY <1>5, <2>1, <2>3, <3>1 DEF Counts, Stands
    <3>3. Counts(t, d, on(d), tl)
      BY <1>9, <1>10, <2>1, <2>2, <2>3, <3>2 DEF Rates, Steady
    <3> QED BY <1>4, <2>3, <3>3
  <2> QED BY <2>2, <2>3
<1>13. \A d \in Client : ~s.link[d].up => wire'[d] = wire[d]
  BY <1>4
<1> QED BY <1>1, <1>2, <1>7, <1>9, <1>11, <1>12, <1>13 DEF s

LEMMA FinishServes ==
    ASSUME LInv, PInv, FinishPass
    PROVE  PInv'
<1>1. /\ Even(server') /\ AllLive(server') /\ Steady(server, server') /\ Outside' = Outside
      /\ UNCHANGED <<requests, pc, marked>>
      /\ \A d \in Client : ~server.link[d].up => wire'[d] = wire[d]
      /\ \A d \in Client : \A q, at, mk :
            server.link[d].up /\ Shape(q, at) /\ Hears(server, d, wire[d], q, at, mk)
               => Hears(server', d, wire'[d], q, at, mk)
  BY FinishDone
<1>2. ASSUME NEW d \in Client
      PROVE  Serves(server', Outside', d, wire'[d], requests[d], pc[d], marked[d])
  <2>1. Serves(server, Outside, d, wire[d], requests[d], pc[d], marked[d])
    BY DEF PInv, Served
  <2>2. d \in Outside => ~server.link[d].up
    BY DEF LInv, Lists, Down
  <2> QED BY <1>1, <2>1, <2>2 DEF Serves, Steady
<1>3. \A d \in Client : Serves(server', Outside', d, wire'[d], requests'[d], pc'[d], marked'[d])
  BY <1>1, <1>2
<1> QED BY <1>1, <1>3 DEF PInv, Served

------------------------------------------------------------------------------
(* The clients' steps. *)

\* What is said between the server and client c.
Talk(c, q, r, at, mk) ==
    Conv(Role(server, Number(c)), Hit(server, Number(c)), Alone(server, Number(c)), q, r, at, mk)

\* A packet is never one that its client does not expect.
LEMMA ConvExpected ==
    ASSUME NEW role, NEW hit, NEW alone, NEW q \in Seq(Packet), q # << >>, NEW r, NEW at,
           at \notin Dead, NEW mk, Conv(role, hit, alone, q, r, at, mk)
    PROVE  After(at, Head(q).type) \in Expected
<1>1. \E e : Leads(at, q, e)
  BY DEF Conv, Talking, Parting
<1> QED BY <1>1, LeadsOn

\* A client that has something to read.
LEMMA Reads ==
    ASSUME LInv, PInv, NEW c \in Client, pc[c] \in DOMAIN Awaited, wire[c] # << >>
    PROVE  LET q == Pending(server, c, wire[c])
           IN  /\ server.link[c].up /\ c \notin Outside
               /\ pc[c] \notin Dead /\ pc[c] # "off" /\ Shape(requests[c], pc[c])
               /\ q \in Seq(Packet) /\ q # << >> /\ Head(q) = Head(wire[c])
               /\ Pending(server, c, Tail(wire[c])) = Tail(q)
               /\ Talk(c, q, requests[c], pc[c], marked[c])
               /\ After(pc[c], Head(wire[c]).type) \in Expected
<1> DEFINE k == server.link[c]
           q == Pending(server, c, wire[c])
<1>1. Lists(server, Outside) /\ Clients /\ Served(c)
  BY DEF LInv, PInv
<1>2. pc[c] \notin Dead /\ pc[c] # "off"
  BY AwaitedPlaces DEF Dead
<1>3. c \notin Outside /\ k.up /\ Shape(requests[c], pc[c])
  BY <1>1, <1>2 DEF Served, Serves
<1>4. wire[c] \in Seq(Packet)
  BY <1>1 DEF Clients
<1>5. k.out \in Seq(Packet) /\ k.sent \in Nat /\ k.sent <= Len(k.out)
  BY <1>1 DEF Lists, Links, Session
<1>6. Talk(c, q, requests[c], pc[c], marked[c])
  BY <1>1, <1>3 DEF Served, Serves, Hears, Talk, Number
<1>7. q \in Seq(Packet)
  BY <1>1, <1>4, PendingType DEF Lists
<1>8. \A w : Pending(server, c, w) = Rest(w, k.out, k.sent)
  BY DEF Pending
<1> HIDE DEF k, q
<1>9. q # << >> /\ Head(q) = Head(wire[c]) /\ Pending(server, c, Tail(wire[c])) = Tail(q)
  BY <1>4, <1>5, <1>8, RestOn DEF q
<1>10. After(pc[c], Head(q).type) \in Expected
  BY <1>2, <1>6, <1>7, <1>9, ConvExpected DEF Talk
<1> QED BY <1>2, <1>3, <1>6, <1>7, <1>9, <1>10 DEF k, q

\* Client c goes to b, with v left on the wire, z asked and m marked.
Moves(c, v, z, b, m) ==
    /\ UNCHANGED <<server, phase, accepts>> /\ pc[c] # "off" /\ b # "off"
    /\ wire' = [wire EXCEPT ![c] = v] /\ requests' = [requests EXCEPT ![c] = z]
    /\ pc' = [pc EXCEPT ![c] = b] /\ marked' = [marked EXCEPT ![c] = m]

LEMMA Unmoved ==
    ASSUME Clients, NEW c \in Client
    PROVE  /\ wire = [wire EXCEPT ![c] = wire[c]] /\ requests = [requests EXCEPT ![c] = requests[c]]
           /\ pc = [pc EXCEPT ![c] = pc[c]] /\ marked = [marked EXCEPT ![c] = marked[c]]
  BY DEF Clients

LEMMA MovesServe ==
    ASSUME LInv, PInv, NEW c \in Client, NEW v, NEW z, NEW b, NEW m, Moves(c, v, z, b, m),
           Serves(server, Outside, c, v, z, b, m)
    PROVE  PInv'
<1>1. Clients
  BY DEF LInv
<1>2. /\ wire'[c] = v /\ requests'[c] = z /\ pc'[c] = b /\ marked'[c] = m
      /\ \A d \in Client : d # c => /\ wire'[d] = wire[d] /\ requests'[d] = requests[d]
                                    /\ pc'[d] = pc[d] /\ marked'[d] = marked[d]
  BY <1>1 DEF Moves, Clients
<1>3. \A d \in Client : pc'[d] = "off" <=> pc[d] = "off"
  BY <1>2 DEF Moves
<1>4. Outside' = Outside
  BY <1>3 DEF Moves, Outside
<1>5. UNCHANGED <<server, phase>>
  BY DEF Moves
<1> QED BY <1>2, <1>4, <1>5, OneMoves

\* A client in conversation.
LEMMA TalkServes ==
    ASSUME LInv, PInv, NEW c \in Client, NEW v, NEW z, NEW b, NEW m, Moves(c, v, z, b, m),
           server.link[c].up, c \notin Outside, Shape(z, b),
           Talk(c, Pending(server, c, v), z, b, m)
    PROVE  PInv'
<1>1. Serves(server, Outside, c, v, z, b, m)
  BY DEF Serves, Hears, Talk, Number
<1> QED BY <1>1, MovesServe

\* A packet is read that asks for nothing.
LEMMA ReadServes ==
    ASSUME LInv, PInv, NEW c \in Client, pc[c] \in DOMAIN Awaited, wire[c] # << >>,
           NEW b, NEW m, Moves(c, Tail(wire[c]), requests[c], b, m),
           Head(wire[c]).type \notin Asks, b = After(pc[c], Head(wire[c]).type), b \notin Dead,
           m = Marks(Head(wire[c]), marked[c])
    PROVE  PInv'
<1> DEFINE q == Pending(server, c, wire[c])
<1>1. /\ server.link[c].up /\ c \notin Outside /\ pc[c] \notin Dead /\ Shape(requests[c], pc[c])
      /\ q \in Seq(Packet) /\ q # << >> /\ Head(q) = Head(wire[c])
      /\ Pending(server, c, Tail(wire[c])) = Tail(q)
      /\ Talk(c, q, requests[c], pc[c], marked[c])
  BY Reads
<1> HIDE DEF q
<1>2. Talk(c, Tail(q), requests[c], b, m)
  BY <1>1, ConvRead DEF Talk
<1>3. Shape(requests[c], b)
  BY <1>1, ShapeOn
<1> QED BY <1>1, <1>2, <1>3, TalkServes

LEMMA RepliedServes ==
    ASSUME LInv, PInv, NEW c \in Client, Replied(c)
    PROVE  PInv'
<1>1. PICK at \in {"naming", "mapping", "attacking"} :
         /\ Receives(c, at, "OK") \/ Receives(c, at, "ERROR")
         /\ pc' = [pc EXCEPT ![c] = AfterReply(at)]
         /\ UNCHANGED <<server, phase, accepts, requests, marked>>
  BY DEF Replied, serverVars, Goes
<1>2. /\ pc[c] = at /\ wire[c] # << >> /\ Head(wire[c]).type \in {"OK", "ERROR"}
      /\ wire' = [wire EXCEPT ![c] = Tail(wire[c])]
  BY <1>1 DEF Receives
<1>3. at \in DOMAIN Awaited /\ Clients
  BY AwaitedPlaces DEF LInv
<1>4. After(at, Head(wire[c]).type) \in Expected
  BY <1>2, <1>3, Reads
<1>5. AfterReply(at) = After(at, Head(wire[c]).type)
  BY <1>2, <1>4 DEF After, AfterReply, Expected
<1>6. AfterReply(at) \in {"lobby", "playing"}
  BY DEF AfterReply
<1>7. Moves(c, Tail(wire[c]), requests[c], AfterReply(at), marked[c])
  BY <1>1, <1>2, <1>3, <1>6, Unmoved DEF Moves
<1>8. Head(wire[c]).type \notin Asks /\ AfterReply(at) \notin Dead
  BY <1>2, <1>6 DEF Asks, Dead
<1>9. Marks(Head(wire[c]), marked[c]) = marked[c]
  BY <1>2 DEF Marks, IsFind
<1> QED BY <1>2, <1>3, <1>5, <1>7, <1>8, <1>9, ReadServes

LEMMA ResultServes ==
    ASSUME LInv, PInv, NEW c \in Client, SeesResult(c)
    PROVE  PInv'
<1> DEFINE p == Head(wire[c])
           m == Marks(p, marked[c])
<1>1. /\ pc[c] = "playing" /\ wire[c] # << >> /\ p.type = "ATTACK_RESULT"
      /\ wire' = [wire EXCEPT ![c] = Tail(wire[c])]
      /\ UNCHANGED <<server, phase, accepts, requests, pc>>
      /\ marked' = IF p.mine THEN [marked EXCEPT ![c] = marked[c] \cup {p.cell}] ELSE marked
  BY DEF SeesResult, Receives, serverVars
<1>2. Clients /\ pc[c] \in DOMAIN Awaited
  BY <1>1, AwaitedPlaces DEF LInv
<1>3. marked' = [marked EXCEPT ![c] = m]
  BY <1>1, <1>2, Unmoved DEF Marks, IsFind
<1>4. Moves(c, Tail(wire[c]), requests[c], "playing", m)
  <2> HIDE DEF m, p
  <2> QED BY <1>1, <1>2, <1>3, Unmoved DEF Moves
<1>5. p.type \notin Asks /\ "playing" \notin Dead /\ After(pc[c], p.type) = "playing"
  BY <1>1, AfterTable DEF Asks, Dead
<1> HIDE DEF m
<1> QED BY <1>1, <1>2, <1>4, <1>5, ReadServes DEF m

LEMMA GameOverServes ==
    ASSUME LInv, PInv, NEW c \in Client, SeesGameOver(c)
    PROVE  PInv'
<1>1. /\ pc[c] = "playing" /\ wire[c] # << >> /\ Head(wire[c]).type = "GAME_OVER"
      /\ wire' = [wire EXCEPT ![c] = Tail(wire[c])] /\ pc' = [pc EXCEPT ![c] = "between"]
      /\ UNCHANGED <<server, phase, accepts, requests, marked>>
  BY DEF SeesGameOver, Receives, serverVars, Goes
<1>2. Clients /\ pc[c] \in DOMAIN Awaited
  BY <1>1, AwaitedPlaces DEF LInv
<1>3. Moves(c, Tail(wire[c]), requests[c], "between", marked[c])
  BY <1>1, <1>2, Unmoved DEF Moves
<1>4. /\ Head(wire[c]).type \notin Asks /\ "between" \notin Dead
      /\ After(pc[c], Head(wire[c]).type) = "between"
      /\ Marks(Head(wire[c]), marked[c]) = marked[c]
  BY <1>1, AfterTable DEF Asks, Dead, Marks, IsFind
<1> QED BY <1>1, <1>2, <1>3, <1>4, ReadServes

\* MakeMapData and SubmitMap.
LEMMA StartServes ==
    ASSUME LInv, PInv, NEW c \in Client, Started(c) \/ NextStarted(c)
    PROVE  PInv'
<1> DEFINE q == Pending(server, c, wire[c])
           n == Number(c)
<1>1. /\ \/ pc[c] = "lobby" /\ Head(wire[c]).type = "GAME_START"
         \/ pc[c] = "between" /\ Head(wire[c]).type = "NEXT_GAME"
      /\ wire[c] # << >> /\ wire' = [wire EXCEPT ![c] = Tail(wire[c])]
      /\ UNCHANGED <<server, phase, accepts>> /\ StartGame(c)
  BY DEF Started, NextStarted, Receives, serverVars
<1>2. PICK info \in Maps : ValidMap(info) /\ Request(c, SubmitMap(info))
  BY <1>1 DEF StartGame
<1>3. pc' = [pc EXCEPT ![c] = "mapping"] /\ marked' = [marked EXCEPT ![c] = {}]
  BY <1>1 DEF StartGame, Goes
<1>4. Clients /\ Lists(server, Outside) /\ pc[c] \in DOMAIN Awaited
  BY <1>1, AwaitedPlaces DEF LInv
<1>5. /\ server.link[c].up /\ c \notin Outside /\ pc[c] \notin Dead /\ Shape(requests[c], pc[c])
      /\ q \in Seq(Packet) /\ q # << >> /\ Head(q) = Head(wire[c])
      /\ Pending(server, c, Tail(wire[c])) = Tail(q)
      /\ Talk(c, q, requests[c], pc[c], marked[c])
  BY <1>1, <1>4, Reads
<1>6. Role(server, n) \in Roles
  BY <1>4, RoleSays
<1>7. Head(q).type \in Asks /\ After(pc[c], Head(q).type) = "mapping"
  BY <1>1, <1>5, AfterTable DEF Asks
<1> HIDE DEF q
<1>8. /\ requests[c] = << >> /\ Shape(<<SubmitMap(info)>>, "mapping")
      /\ Talk(c, Tail(q), <<SubmitMap(info)>>, "mapping", {})
  BY <1>2, <1>5, <1>6, <1>7, ConvSendsMap DEF Talk
<1>9. requests' = [requests EXCEPT ![c] = <<SubmitMap(info)>>]
  <2>1. Append(<< >>, SubmitMap(info)) = <<SubmitMap(info)>>
    OBVIOUS
  <2>2. requests' = [requests EXCEPT ![c] = Append(requests[c], SubmitMap(info))]
    BY <1>2 DEF Request
  <2> QED BY <1>8, <2>1, <2>2
<1>10. Moves(c, Tail(wire[c]), <<SubmitMap(info)>>, "mapping", {})
  BY <1>1, <1>3, <1>9 DEF Moves
<1> QED BY <1>5, <1>8, <1>10, TalkServes

\* MakeAttackPos and SubmitAttack.
LEMMA TurnServes ==
    ASSUME LInv, PInv, NEW c \in Client, TakesTurn(c)
    PROVE  PInv'
<1> DEFINE q == Pending(server, c, wire[c])
           n == Number(c)
<1>1. /\ pc[c] = "playing" /\ wire[c] # << >> /\ Head(wire[c]).type = "MY_TURN"
      /\ wire' = [wire EXCEPT ![c] = Tail(wire[c])] /\ pc' = [pc EXCEPT ![c] = "attacking"]
      /\ UNCHANGED <<server, phase, accepts, marked>>
  BY DEF TakesTurn, Receives, serverVars, Goes
<1>2. PICK x \in Cell \ marked[c] : Request(c, SubmitAttack(x))
  BY DEF TakesTurn
<1>3. Clients /\ Lists(server, Outside) /\ pc[c] \in DOMAIN Awaited
  BY <1>1, AwaitedPlaces DEF LInv
<1>4. /\ server.link[c].up /\ c \notin Outside /\ pc[c] \notin Dead /\ Shape(requests[c], pc[c])
      /\ q \in Seq(Packet) /\ q # << >> /\ Head(q) = Head(wire[c])
      /\ Pending(server, c, Tail(wire[c])) = Tail(q)
      /\ Talk(c, q, requests[c], pc[c], marked[c])
  BY <1>1, <1>3, Reads
<1>5. Role(server, n) \in Roles
  BY <1>3, RoleSays
<1>6. Head(q).type \in Asks /\ After(pc[c], Head(q).type) = "attacking"
  BY <1>1, <1>4, AfterTable DEF Asks
<1> HIDE DEF q
<1>7. x \in Cell /\ x \notin marked[c]
  BY <1>2
<1>8. /\ requests[c] = << >> /\ Shape(<<SubmitAttack(x)>>, "attacking")
      /\ Talk(c, Tail(q), <<SubmitAttack(x)>>, "attacking", marked[c])
  BY <1>4, <1>5, <1>6, <1>7, ConvSendsAttack DEF Talk
<1>9. requests' = [requests EXCEPT ![c] = <<SubmitAttack(x)>>]
  <2>1. Append(<< >>, SubmitAttack(x)) = <<SubmitAttack(x)>>
    OBVIOUS
  <2>2. requests' = [requests EXCEPT ![c] = Append(requests[c], SubmitAttack(x))]
    BY <1>2 DEF Request
  <2> QED BY <1>8, <2>1, <2>2
<1>10. Moves(c, Tail(wire[c]), <<SubmitAttack(x)>>, "attacking", marked[c])
  BY <1>1, <1>3, <1>9, Unmoved DEF Moves
<1> QED BY <1>4, <1>8, <1>10, TalkServes

LEMMA Hangs ==
    ASSUME NEW c \in Client, Hang(c)
    PROVE  \E z \in Closing(requests[c]) : requests' = [requests EXCEPT ![c] = z]
  BY DEF Hang, Closing

\* ALL_OVER, and an error in a game.
LEMMA EndServes ==
    ASSUME LInv, PInv, NEW c \in Client, SeesAllOver(c) \/ SeesError(c)
    PROVE  PInv'
<1> DEFINE q == Pending(server, c, wire[c])
           w == Tail(wire[c])
<1>1. PICK b \in {"done", "ended"} :
         /\ pc[c] \in {"between", "playing"} /\ wire[c] # << >> /\ wire' = [wire EXCEPT ![c] = w]
         /\ pc' = [pc EXCEPT ![c] = b] /\ Hang(c) /\ UNCHANGED <<server, phase, accepts, marked>>
  BY DEF SeesAllOver, SeesError, Receives, serverVars, Goes
<1>2. Clients /\ pc[c] \in DOMAIN Awaited
  BY <1>1, AwaitedPlaces DEF LInv
<1>3. /\ server.link[c].up /\ c \notin Outside /\ pc[c] \notin Dead /\ Shape(requests[c], pc[c])
      /\ Talk(c, q, requests[c], pc[c], marked[c])
  BY <1>1, <1>2, Reads
<1>4. PICK z \in Closing(requests[c]) : requests' = [requests EXCEPT ![c] = z]
  BY <1>1, Hangs
<1>5. b \in Dead /\ b # "off" /\ pc[c] # "off"
  BY <1>1 DEF Dead
<1> HIDE DEF q, w
<1>6. Shape(z, b) /\ Talk(c, Pending(server, c, w), z, b, marked[c])
  BY <1>3, <1>4, <1>5, ConvHangs DEF Talk
<1>7. Moves(c, w, z, b, marked[c])
  BY <1>1, <1>2, <1>4, <1>5, Unmoved DEF Moves
<1> QED BY <1>3, <1>6, <1>7, TalkServes

\* A client disappears.
LEMMA LeaveServes ==
    ASSUME LInv, PInv, NEW c \in Client, Leave(c)
    PROVE  PInv'
<1> DEFINE q == Pending(server, c, wire[c])
<1>1. /\ pc[c] \in DOMAIN Awaited /\ pc' = [pc EXCEPT ![c] = "left"] /\ Hang(c)
      /\ UNCHANGED <<server, phase, accepts, wire, marked>>
  BY DEF Leave, serverVars, Goes
<1>2. Clients /\ Served(c)
  BY DEF LInv, PInv
<1>3. pc[c] \notin Dead /\ pc[c] # "off" /\ "left" \in Dead
  BY <1>1, AwaitedPlaces DEF Dead
<1>4. PICK z \in Closing(requests[c]) : requests' = [requests EXCEPT ![c] = z]
  BY <1>1, Hangs
<1>5. Moves(c, wire[c], z, "left", marked[c])
  BY <1>1, <1>2, <1>3, <1>4, Unmoved DEF Moves
<1> HIDE DEF q
<1>6. Shape(requests[c], pc[c])
  BY <1>2 DEF Served, Serves
<1>7. CASE c \notin Outside
  <2>1. server.link[c].up /\ Talk(c, q, requests[c], pc[c], marked[c])
    BY <1>2, <1>3, <1>7 DEF Served, Serves, Hears, Talk, Number, q
  <2>2. Shape(z, "left") /\ Talk(c, Pending(server, c, wire[c]), z, "left", marked[c])
    BY <1>3, <1>4, <1>6, <2>1, ConvHangs DEF Talk
  <2> QED BY <1>5, <1>7, <2>1, <2>2, TalkServes
<1>8. CASE c \in Outside
  <2>1. /\ server.link[c] = NoLink /\ wire[c] = << >>
        /\ Conv("name", {}, TRUE, << >>, requests[c], pc[c], {})
    BY <1>2, <1>3, <1>8 DEF Served, Serves
  <2>2. Shape(z, "left") /\ Conv("name", {}, TRUE, << >>, z, "left", {})
    BY <1>3, <1>4, <1>6, <2>1, ConvHangs
  <2>3. Serves(server, Outside, c, wire[c], z, "left", marked[c])
    <3>1. ~server.link[c].up
      BY <2>1 DEF NoLink
    <3> QED BY <1>8, <2>1, <2>2, <3>1 DEF Serves
  <2> QED BY <1>5, <2>3, MovesServe
<1> QED BY <1>7, <1>8

\* Connect and SubmitName.
LEMMA ConnectServes ==
    ASSUME LInv, PInv, NEW c \in Client, Connect(c)
    PROVE  PInv'
<1> DEFINE z == <<SubmitName>>
<1>1. /\ pc[c] = "off" /\ pc' = [pc EXCEPT ![c] = "naming"] /\ accepts' = Append(accepts, c)
      /\ requests' = [requests EXCEPT ![c] = Append(requests[c], SubmitName)]
      /\ UNCHANGED <<server, phase, wire, marked>>
  BY DEF Connect, serverVars, Goes, Request
<1>2. Clients /\ Served(c) /\ accepts \in Seq(Client)
  BY DEF LInv, PInv, Arrivals
<1>3. c \in Outside
  BY <1>1 DEF Outside
<1>4. server.link[c] = NoLink /\ wire[c] = << >> /\ requests[c] = << >>
  BY <1>1, <1>2, <1>3 DEF Served, Serves
<1>5. \A d \in Client : /\ pc'[d] = IF d = c THEN "naming" ELSE pc[d]
                        /\ requests'[d] = IF d = c THEN z ELSE requests[d]
  <2>1. Append(<< >>, SubmitName) = z
    OBVIOUS
  <2> HIDE DEF z
  <2> QED BY <1>1, <1>2, <1>4, <2>1 DEF Clients
<1>6. Outside' = Outside
  BY <1>1, <1>2, <1>5, OneArrives
<1>7. SubmitName \in RequestPacket \ {Closed} /\ SubmitName.type = "SUBMIT_NAME"
  BY RequestKinds DEF RequestPacket
<1>8. z # << >> /\ z[1] = SubmitName /\ Shape(z, "naming")
  BY <1>7 DEF Shape
<1> HIDE DEF z
<1>9. Conv("name", {}, TRUE, << >>, z, "naming", {})
  <2>1. Right("name", {}, TRUE, z[1])
    BY <1>7, <1>8 DEF Right
  <2>2. Clean(<< >>)
    BY DEF Clean
  <2>3. Leads("naming", << >>, "naming")
    BY LeadsNowhere DEF Expected
  <2>4. Talking(Bound["name"], << >>, z, "naming")
    BY <1>8, <2>2, <2>3, BoundTable DEF Talking, Reply
  <2>5. Looks("name", {}, << >>, z, {})
    BY DEF Looks
  <2> QED BY <2>1, <2>4, <2>5 DEF Conv
<1>10. Serves(server, Outside, c, wire[c], z, "naming", marked[c])
  <2>1. ~server.link[c].up
    BY <1>4 DEF NoLink
  <2> QED BY <1>3, <1>4, <1>8, <1>9, <2>1 DEF Serves
<1>11. Serves(server, Outside, c, wire'[c], requests'[c], pc'[c], marked'[c])
  BY <1>1, <1>5, <1>10
<1>12. \A d \in Client : d # c => /\ wire'[d] = wire[d] /\ requests'[d] = requests[d]
                                 /\ pc'[d] = pc[d] /\ marked'[d] = marked[d]
  BY <1>1, <1>5
<1>13. UNCHANGED <<server, phase>>
  BY <1>1
<1> QED BY <1>6, <1>11, <1>12, <1>13, OneMoves

\* Nothing is read that is not expected.
LEMMA NeverSurprised ==
    ASSUME LInv, PInv, NEW c \in Client
    PROVE  ~Surprised(c)
<1> SUFFICES ASSUME Surprised(c) PROVE FALSE
  OBVIOUS
<1>1. pc[c] \in DOMAIN Awaited /\ wire[c] # << >> /\ Head(wire[c]).type \notin Awaited[pc[c]]
  BY DEF Surprised
<1>2. After(pc[c], Head(wire[c]).type) \in Expected
  BY <1>1, Reads
<1> QED BY <1>1, <1>2, AfterAwaited

LEMMA ClientServes ==
    ASSUME LInv, PInv, NEW c \in Client, ClientStep(c) \/ Leave(c)
    PROVE  PInv'
<1>1. ~Fails(c)
  BY NeverSurprised DEF Fails
<1>2. CASE Connect(c)
  BY <1>2, ConnectServes
<1>3. CASE Replied(c)
  BY <1>3, RepliedServes
<1>4. CASE Started(c) \/ NextStarted(c)
  BY <1>4, StartServes
<1>5. CASE TakesTurn(c)
  BY <1>5, TurnServes
<1>6. CASE SeesResult(c)
  BY <1>6, ResultServes
<1>7. CASE SeesGameOver(c)
  BY <1>7, GameOverServes
<1>8. CASE SeesAllOver(c) \/ SeesError(c)
  BY <1>8, EndServes
<1>9. CASE Leave(c)
  BY <1>9, LeaveServes
<1> QED BY <1>1, <1>2, <1>3, <1>4, <1>5, <1>6, <1>7, <1>8, <1>9 DEF ClientStep

------------------------------------------------------------------------------
(* The invariant holds. *)

LEMMA ServesInit == Init => PInv
<1> SUFFICES ASSUME Init PROVE PInv
  OBVIOUS
<1>1. LInv /\ Lists(server, Outside)
  BY ListsInit DEF LInv
<1>2. /\ server = [link |-> [c \in Client |-> NoLink],
                   players |-> [n \in {} |-> NewPlayer], games |-> [g \in {} |-> None]]
      /\ requests = [c \in Client |-> << >>] /\ wire = [c \in Client |-> << >>]
      /\ pc = [c \in Client |-> "off"]
  BY DEF Init
<1>3. /\ DOMAIN server.players = {} /\ DOMAIN server.games = {}
      /\ \A c \in Client : server.link[c] = NoLink /\ ~server.link[c].up
  BY <1>2 DEF NoLink
<1>4. Even(server) /\ AllLive(server)
  BY <1>3 DEF Even, Unique, NamesFree, Settled, Matches, AllLive
<1>5. ASSUME NEW c \in Client PROVE Served(c)
  <2>1. requests[c] = << >> /\ wire[c] = << >> /\ pc[c] = "off"
    BY <1>2
  <2>2. c \in Outside
    BY <2>1 DEF Outside
  <2> QED BY <1>3, <2>1, <2>2 DEF Served, Serves, Shape
<1> QED BY <1>4, <1>5 DEF PInv

LEMMA ServesNext == ASSUME SerialLogin, LInv, PInv, [Next]_vars PROVE PInv'
<1>1. CASE Accept
  BY <1>1, AcceptServes
<1>2. CASE FinishPass
  BY <1>2, FinishServes
<1>3. ASSUME NEW c \in Client, RecvCompletion(c)
      PROVE  PInv'
  BY <1>3, RecvServes
<1>4. ASSUME NEW c \in Client, SendCompletion(c)
      PROVE  PInv'
  BY <1>4, SendServes
<1>5. ASSUME NEW c \in Client, ClientStep(c) \/ Leave(c)
      PROVE  PInv'
  BY <1>5, ClientServes
<1>6. ASSUME NEW c \in Client, RecvEnd(c) \/ SendFails(c)
      PROVE  PInv'
  BY <1>6, ClosesServes DEF Closes
<1>7. CASE UNCHANGED vars
  <2>1. UNCHANGED <<server, phase, accepts, requests, wire, pc, marked>>
    BY <1>7 DEF vars
  <2>2. Outside' = Outside
    BY <2>1 DEF Outside
  <2>3. \A d \in Client : Serves(server, Outside, d, wire[d], requests[d], pc[d], marked[d])
    BY DEF PInv, Served
  <2>4. \A d \in Client : Serves(server', Outside', d, wire'[d], requests'[d], pc'[d], marked'[d])
    BY <2>1, <2>2, <2>3
  <2>5. Even(server') /\ (phase' = "accept" => AllLive(server'))
    BY <2>1 DEF PInv
  <2> QED BY <2>4, <2>5 DEF PInv, Served
<1> QED BY <1>1, <1>2, <1>3, <1>4, <1>5, <1>6, <1>7 DEF Next

LEMMA Protocol == ASSUME SerialLogin PROVE Spec => [](LInv /\ PInv)
<1>1. Init => LInv /\ PInv
  BY ListsInit, ServesInit
<1>2. LInv /\ PInv /\ [Next]_vars => (LInv /\ PInv)'
  BY ListsNext, ServesNext
<1> QED BY <1>1, <1>2, PTL DEF Spec

------------------------------------------------------------------------------
(* What the invariant says of two clients that play. *)

LEMMA LeadsLast ==
    ASSUME NEW at, NEW q \in Seq(Packet), q # << >>, NEW e, Leads(at, q, e)
    PROVE  Len(q) \in 1 .. Len(q) /\ \E b : e = After(b, q[Len(q)].type)
<1>1. Len(q) \in Nat /\ Len(q) >= 1
  BY EmptySeq
<1>2. Len(q) \in 1 .. Len(q)
  BY <1>1
<1> QED BY <1>2 DEF Leads

\* The packet, and the request, that are the turn of a client.
TurnsOf(q, r) == Cardinality(Positions(q, "MY_TURN")) + Cardinality(Positions(r, "SUBMIT_ATTACK"))

\* A client whose turn it is has been told so, or attacks.
LEMMA MineTurns ==
    ASSUME NEW hit, NEW alone, NEW q \in Seq(Packet), NEW r, NEW at, at \notin Dead, NEW mk,
           Shape(r, at), Conv("mine", hit, alone, q, r, at, mk)
    PROVE  TurnsOf(q, r) = 1
<1>1. Leads(at, q, "attacking") /\ Clean(q) /\ ((r # << >>) <=> (at \in Reply /\ q = << >>))
  BY BoundTable DEF Conv, Talking
<1>2. /\ Cardinality({}) = 0
      /\ \A x : Cardinality({x}) = 1
  BY FS_EmptySet, FS_Singleton
<1>3. CASE q = << >>
  <2>1. at = "attacking"
    <3>1. at \in Expected
      BY <1>1, LeadsFromExpected
    <3> QED BY <1>1, <1>3, <3>1, LeadsNowhere
  <2>2. r # << >>
    BY <1>1, <1>3, <2>1 DEF Reply
  <2>3. Asking(r) /\ \E p \in RequestPacket \ {Closed} : r = <<p>>
    BY <2>2, AliveAsks
  <2>4. Right("mine", hit, alone, r[1])
    BY <2>3 DEF Conv
  <2>5. r[1].type = "SUBMIT_ATTACK"
    BY <2>4 DEF Right
  <2>6. Len(r) = 1
    BY <2>3
  <2>7. Positions(r, "SUBMIT_ATTACK") = {1}
    BY <2>5, <2>6 DEF Positions
  <2>8. Positions(q, "MY_TURN") = {}
    BY <1>3 DEF Positions
  <2>9. Cardinality(Positions(r, "SUBMIT_ATTACK")) = 1
    BY <1>2, <2>7
  <2>10. Cardinality(Positions(q, "MY_TURN")) = 0
    BY <1>2, <2>8
  <2> QED BY <2>9, <2>10 DEF TurnsOf
<1>4. CASE q # << >>
  <2>1. Len(q) \in 1 .. Len(q) /\ \E b : "attacking" = After(b, q[Len(q)].type)
    BY <1>1, <1>4, LeadsLast
  <2>2. q[Len(q)].type = "MY_TURN"
    BY <2>1 DEF After
  <2>3. \A i \in 1 .. Len(q) : q[i].type = "MY_TURN" => i = Len(q)
    BY <1>1, AsksLast DEF Asks
  <2>4. Positions(q, "MY_TURN") = {Len(q)}
    BY <2>1, <2>2, <2>3 DEF Positions
  <2>5. r = << >>
    BY <1>1, <1>4
  <2>6. Positions(r, "SUBMIT_ATTACK") = {}
    BY <2>5 DEF Positions
  <2>7. Cardinality(Positions(q, "MY_TURN")) = 1
    BY <1>2, <2>4
  <2>8. Cardinality(Positions(r, "SUBMIT_ATTACK")) = 0
    BY <1>2, <2>6
  <2> QED BY <2>7, <2>8 DEF TurnsOf
<1> QED BY <1>3, <1>4

\* The other has neither been told to attack nor attacks.
LEMMA TheirsTurns ==
    ASSUME NEW hit, NEW alone, NEW q \in Seq(Packet), NEW r, NEW at, at \notin Dead, NEW mk,
           Shape(r, at), Conv("theirs", hit, alone, q, r, at, mk)
    PROVE  TurnsOf(q, r) = 0
<1>1. Leads(at, q, "playing") /\ Clean(q)
  BY BoundTable DEF Conv, Talking
<1>2. Cardinality({}) = 0
  BY FS_EmptySet
<1>3. \A i \in 1 .. Len(q) : q[i].type # "MY_TURN"
  BY <1>1, AsksLast DEF Asks
<1>4. Positions(q, "MY_TURN") = {}
  BY <1>3 DEF Positions
<1>5. r = << >>
  BY ConvIdle
<1>6. Positions(r, "SUBMIT_ATTACK") = {}
  BY <1>5 DEF Positions
<1>7. /\ Cardinality(Positions(q, "MY_TURN")) = 0
      /\ Cardinality(Positions(r, "SUBMIT_ATTACK")) = 0
  BY <1>2, <1>4, <1>6
<1> QED BY <1>7 DEF TurnsOf

\* Clients c and d that play each other in game g.
Opposed(c, d, g) == Facing(c, d, g) /\ Playing(Number(c)) /\ Playing(Number(d))

\* What the invariant is, told of one of the two.
Plays(c, d, g) ==
    LET n == Number(c)
        o == Number(d)
    IN  /\ server.games[g].turn \in {n, o} /\ n # o
        /\ server.players[n].turns = Cardinality(server.players[o].board.hit)
        /\ pc[c] \notin Dead /\ Shape(requests[c], pc[c]) /\ Unread(c) \in Seq(Packet)
        /\ Conv(IF server.games[g].turn = n THEN "mine" ELSE "theirs",
                server.players[o].board.hit, FALSE, Unread(c), requests[c], pc[c], marked[c])

LEMMA OpposedPlays ==
    ASSUME LInv, PInv, NEW c \in Client, NEW d \in Client, NEW g \in LiveGames, Opposed(c, d, g)
    PROVE  Plays(c, d, g)
<1> DEFINE s == server
           n == Number(c)
           o == Number(d)
           x == s.games[g]
<1>1. Lists(s, Outside) /\ Clients /\ Even(s) /\ Served(c)
  BY DEF LInv, PInv
<1>2. /\ g \in DOMAIN s.games /\ ~x.over /\ PlayersOf(x) = {n, o}
      /\ s.link[c].up /\ pc[c] \in DOMAIN Awaited
      /\ s.players[n].state = "ON_GAME" /\ s.players[o].state = "ON_GAME"
  BY DEF Opposed, Facing, LiveGames, Alive, Playing
<1> HIDE DEF s, n, o, x
<1>3. Pair(s, g, n, o)
  <2>1. Pair(s, g, n, Opponent(s.games[g], n))
    BY <1>1, <1>2, PairOf DEF x
  <2>2. Opponent(s.games[g], n) = o
    BY <1>2, <2>1 DEF Pair, x
  <2> QED BY <2>1, <2>2
<1>4. Level(x, s.players[n], s.players[o])
  BY <1>1, <1>2, <1>3, LevelPair DEF Even, Matches, x
<1>5. /\ x.turn \in {n, o} /\ n # o
      /\ s.players[n].turns = Cardinality(s.players[o].board.hit)
  BY <1>2, <1>3, <1>4 DEF Level, Pair
<1>6. /\ Role(s, n) = IF x.turn = n THEN "mine" ELSE "theirs"
      /\ Hit(s, n) = s.players[o].board.hit /\ Alone(s, n) = FALSE
  <2>1. Alone(s, n) \in BOOLEAN
    BY DEF Alone
  <2> QED BY <1>2, <1>3, <2>1, PairRole DEF x
<1>7. pc[c] \notin Dead
  BY <1>2, AwaitedPlaces DEF Dead
<1>8. Unread(c) = Pending(s, c, wire[c])
  BY DEF Unread, Unsent, Pending, Rest, s
<1>9. Unread(c) \in Seq(Packet)
  BY <1>1, <1>8, PendingType DEF Clients, Lists
<1>10. /\ Shape(requests[c], pc[c])
       /\ Conv(Role(s, n), Hit(s, n), Alone(s, n), Unread(c), requests[c], pc[c], marked[c])
  BY <1>1, <1>2, <1>8 DEF Served, Serves, Hears, Number, n, s
<1> QED BY <1>5, <1>6, <1>7, <1>9, <1>10 DEF Plays, s, n, o, x

LEMMA PlaysTurns ==
    ASSUME NEW c, NEW d, NEW g, Plays(c, d, g)
    PROVE  /\ server.games[g].turn = Number(c) => TurnsOf(Unread(c), requests[c]) = 1
           /\ server.games[g].turn # Number(c) => TurnsOf(Unread(c), requests[c]) = 0
<1> DEFINE hit == server.players[Number(d)].board.hit
           q == Unread(c)
<1>1. pc[c] \notin Dead /\ Shape(requests[c], pc[c]) /\ q \in Seq(Packet)
  BY DEF Plays
<1>2. CASE server.games[g].turn = Number(c)
  <2>1. Conv("mine", hit, FALSE, q, requests[c], pc[c], marked[c])
    BY <1>2 DEF Plays
  <2> HIDE DEF hit, q
  <2>2. TurnsOf(q, requests[c]) = 1
    BY <1>1, <2>1, MineTurns
  <2> QED BY <1>2, <2>2 DEF q
<1>3. CASE server.games[g].turn # Number(c)
  <2>1. Conv("theirs", hit, FALSE, q, requests[c], pc[c], marked[c])
    BY <1>3 DEF Plays
  <2> HIDE DEF hit, q
  <2>2. TurnsOf(q, requests[c]) = 0
    BY <1>1, <2>1, TheirsTurns
  <2> QED BY <1>3, <2>2 DEF q
<1> QED BY <1>2, <1>3

LEMMA OneTurnFollows ==
    ASSUME LInv, PInv PROVE OneTurn
<1> SUFFICES ASSUME NEW c \in Client, NEW d \in Client, NEW g \in LiveGames, Opposed(c, d, g)
             PROVE  /\ TurnsOf(Unread(c), requests[c]) + TurnsOf(Unread(d), requests[d]) = 1
                    /\ TurnsOf(Unread(c), requests[c]) = 1 => server.games[g].turn = Number(c)
  BY DEF OneTurn, Opposed, TurnsOf
<1>1. Plays(c, d, g)
  BY OpposedPlays
<1>2. Plays(d, c, g)
  <2>1. Opposed(d, c, g)
    BY DEF Opposed, Facing
  <2> QED BY <2>1, OpposedPlays
<1>3. /\ server.games[g].turn = Number(c) => TurnsOf(Unread(c), requests[c]) = 1
      /\ server.games[g].turn # Number(c) => TurnsOf(Unread(c), requests[c]) = 0
  BY <1>1, PlaysTurns
<1>4. /\ server.games[g].turn = Number(d) => TurnsOf(Unread(d), requests[d]) = 1
      /\ server.games[g].turn # Number(d) => TurnsOf(Unread(d), requests[d]) = 0
  BY <1>2, PlaysTurns
<1>5. server.games[g].turn \in {Number(c), Number(d)} /\ Number(c) # Number(d)
  BY <1>1 DEF Plays
<1> QED BY <1>3, <1>4, <1>5

LEMMA ViewsAgreeFollows ==
    ASSUME LInv, PInv PROVE ViewsAgree
<1> SUFFICES ASSUME NEW c \in Client, NEW d \in Client, NEW g \in LiveGames, Opposed(c, d, g)
             PROVE  marked[c] \cup Found(Unread(c)) = server.players[Number(d)].board.hit
  BY DEF ViewsAgree, Opposed, Found
<1>1. Plays(c, d, g)
  BY OpposedPlays
<1> QED BY <1>1 DEF Plays, Conv, Looks

LEMMA TurnsCountFollows ==
    ASSUME LInv, PInv PROVE TurnsCountAttacks
<1> SUFFICES ASSUME NEW c \in Client, NEW d \in Client, NEW g \in LiveGames, Opposed(c, d, g)
             PROVE  server.players[Number(c)].turns
                      = Cardinality(server.players[Number(d)].board.hit)
  BY DEF TurnsCountAttacks, Opposed
<1>1. Plays(c, d, g)
  BY OpposedPlays
<1> QED BY <1>1 DEF Plays

------------------------------------------------------------------------------
(* The theorems. *)

\* When students log in one after the other, a game that is being played has
\* one turn, on its way to its player or taken by it, and the game knows whose:
\* for any number of clients and any boards (Game::OnSubmitAttack,
\* Game::NotifyMyTurn; nothing in SUBMIT_ATTACK asks whose turn it is).
THEOREM AlwaysOneTurn == ASSUME SerialLogin PROVE Spec => []OneTurn
<1>1. LInv /\ PInv => OneTurn
  BY OneTurnFollows
<1>2. Spec => [](LInv /\ PInv)
  BY Protocol
<1> QED BY <1>1, <1>2, PTL

\* Under the same assumption, what a client has marked, with the results it has
\* still to read, is what has been attacked on its opponent's board in this
\* game (Player::AttackAndGetResult, the example client's gEnemyMap).
THEOREM ViewsAlwaysAgree == ASSUME SerialLogin PROVE Spec => []ViewsAgree
<1>1. LInv /\ PInv => ViewsAgree
  BY ViewsAgreeFollows
<1>2. Spec => [](LInv /\ PInv)
  BY Protocol
<1> QED BY <1>1, <1>2, PTL

\* Under the same assumption, the turns a player is credited with are the
\* squares it has attacked in this game (Player::AddTurn, InitTurns, SetMap).
THEOREM TurnsAlwaysCount == ASSUME SerialLogin PROVE Spec => []TurnsCountAttacks
<1>1. LInv /\ PInv => TurnsCountAttacks
  BY TurnsCountFollows
<1>2. Spec => [](LInv /\ PInv)
  BY Protocol
<1> QED BY <1>1, <1>2, PTL

\* Under the same assumption, no client receives a packet it does not expect
\* where it is in main: nothing throws UNEXPECTED_PACKET, whoever leaves when
\* (WaitSpecPacket and the loops of Example.cpp).
THEOREM NeverASurprise == ASSUME SerialLogin PROVE Spec => []NoSurprise
<1>1. LInv /\ PInv => NoSurprise
  BY NeverSurprised DEF NoSurprise
<1>2. Spec => [](LInv /\ PInv)
  BY Protocol
<1> QED BY <1>1, <1>2, PTL
===============================================================================
