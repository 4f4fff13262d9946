------------------------------ MODULE GameServer ------------------------------
(***************************************************************************)
(* The battleship server and the clients that follow the example program.  *)
(*                                                                          *)
(* The server is one thread (Application::RunMessageLoop, EasyServer::Run): *)
(* a pass accepts at most one socket, lets SleepEx run the completions that *)
(* are queued, and ends with the flush of the send buffers, the removal of  *)
(* games that are over and AutoMatcher::Update.  Events are dispatched      *)
(* synchronously and nested (EventManager::Notify), so a handler here is an *)
(* operator from server state to server state that ends with the handlers   *)
(* of the events it raises.                                                 *)
(*                                                                          *)
(* A send completes before the flush of the next pass: what is outstanding  *)
(* to one client (BacklogFits) is far below a socket buffer, and WSASend    *)
(* then completes at once.  SendPath drops this assumption.                 *)
(***************************************************************************)
EXTENDS Board, Sequences, SequencesExt

CONSTANTS Client,
          MaxGames,     \* MAX_GAME_COUNT
          SerialLogin,  \* a socket is accepted only when every session has
                        \* its player: students log in one after the other
          MayLeave,     \* the clients that may disappear at any moment
          LingerFails   \* those on whose sockets setsockopt may fail

ASSUME GameAssumption ==
    /\ IsFiniteSet(Client)
    /\ MaxGames \in Nat \ {0}
    /\ SerialLogin \in BOOLEAN /\ MayLeave \subseteq Client
ASSUME LingerAssumption == LingerFails \subseteq Client

VARIABLES server,       \* the server's objects, see below
          phase,        \* where the pass is: "accept" or "apc"
          accepts,      \* pendingAcceptList
          requests,     \* bytes from each client, as packets
          wire,         \* bytes to each client, as packets
          pc,           \* where each client is in Example.cpp's main
          marked,       \* its gEnemyMap: the cells it has attacked
          told          \* what it has been told: results and errors

serverVars == <<server, phase>>
clientVars == <<pc, marked, told>>
vars == <<server, phase, accepts, requests, wire, pc, marked, told>>

None == -1
PlayerNumber == 0 .. Cardinality(Client) - 1
GameNumber == 0 .. Cardinality(Client) - 1

------------------------------------------------------------------------------
(* Packets. *)

Ok           == [type |-> "OK"]
ErrorPacket(code) == [type |-> "ERROR", code |-> code]
GameStart    == [type |-> "GAME_START"]
MyTurn       == [type |-> "MY_TURN"]
Attacked(c, mine, result) ==
    [type |-> "ATTACK_RESULT", cell |-> c, mine |-> mine, result |-> result]
GameOver(won, turns) == [type |-> "GAME_OVER", won |-> won, turns |-> turns]
NextGame     == [type |-> "NEXT_GAME"]
AllOver(wins, turns) == [type |-> "ALL_OVER", wins |-> wins, turns |-> turns]

SubmitName         == [type |-> "SUBMIT_NAME"]
SubmitMap(info)    == [type |-> "SUBMIT_MAP", info |-> info]
SubmitAttack(c)    == [type |-> "SUBMIT_ATTACK", cell |-> c]
Closed             == [type |-> "CLOSED"]     \* the end of the stream

\* sizeof, with one byte packing.
Size(p) == CASE p.type = "OK"            -> 4
             [] p.type = "ERROR"         -> 6
             [] p.type = "GAME_START"    -> 40
             [] p.type = "MY_TURN"       -> 4
             [] p.type = "ATTACK_RESULT" -> 9
             [] p.type = "GAME_OVER"     -> 9
             [] p.type = "NEXT_GAME"     -> 4
             [] p.type = "ALL_OVER"      -> 12

Bytes(q) ==
    LET bytes[i \in 0 .. Len(q)] == IF i = 0 THEN 0 ELSE bytes[i - 1] + Size(q[i])
    IN  bytes[Len(q)]

------------------------------------------------------------------------------
(* The server's objects: a record s with                                    *)
(*   s.link[c]    the ClientSession of client c and its send buffer: out,   *)
(*                the first sent of which WSASend has been given;           *)
(*   s.players    PlayerManager's playerList_, by player number;            *)
(*   s.games      GameManager's gameList_, by game number.                  *)

NoLink == [up |-> FALSE, id |-> None, out |-> << >>, sent |-> 0]

NewPlayer == [state |-> "WAIT", turns |-> -1, wins |-> 0, winTurns |-> 0, board |-> NoMap]

HasPlayer(s, n) == n \in DOMAIN s.players
SetPlayer(s, n, p) ==
    [s EXCEPT !.players = [m \in DOMAIN s.players \cup {n} |->
                             IF m = n THEN p ELSE s.players[m]]]
ErasePlayer(s, n) ==
    [s EXCEPT !.players = [m \in DOMAIN s.players \ {n} |-> s.players[m]]]
SetGame(s, g, game) ==
    [s EXCEPT !.games = [h \in DOMAIN s.games \cup {g} |->
                           IF h = g THEN game ELSE s.games[h]]]

PlayersOf(game) == {game.player1, game.player2}
Opponent(game, n) == IF n = game.player1 THEN game.player2
                     ELSE IF n = game.player2 THEN game.player1 ELSE None

\* Mutant: the number is how many players there are.
UnusedNumber_Count(s) == Cardinality(DOMAIN s.players)

\* GetNonUsedPlayerNumber: the first number no player in the list has.
UnusedNumber(s) == CHOOSE n \in PlayerNumber \cup {Cardinality(Client)} :
                     ~HasPlayer(s, n) /\ \A m \in 0 .. n - 1 : HasPlayer(s, m)

\* packets has a packet for each of the players an event is for: every session
\* whose Notify finds its number among them writes that packet to its own send
\* buffer.  SendRequest does nothing on a session that is not connected.  It would
\* disconnect one whose buffer is full: here a packet always fits, which
\* BacklogFits justifies under SerialLogin; without it, it is an assumption.
Send(s, packets) ==
    [s EXCEPT !.link = [c \in Client |->
        LET k == s.link[c]
        IN  IF k.up /\ k.id \in DOMAIN packets
              THEN [k EXCEPT !.out = Append(k.out, packets[k.id])] ELSE k]]

NotifyOk(s, n)     == Send(s, [m \in {n} |-> Ok])
\* The packet carries the event's type, EVT_ERROR = 0, not the error's.
NotifyError(s, n)  == Send(s, [m \in {n} |-> ErrorPacket("ET_UNKNOWN")])
NotifyMyTurn(s, n) == Send(s, [m \in {n} |-> MyTurn])

------------------------------------------------------------------------------
(* Game's handlers, on game number g. *)

\* Mutants: the players keep their state, or their turns, of the game before.
BeginGame_KeepState(s, g) ==
    LET game == s.games[g]
        t == SetGame(s, g, [game EXCEPT !.tries = game.tries + 1, !.started = TRUE])
    IN  [t EXCEPT !.players = [n \in DOMAIN s.players |->
            IF n \in PlayersOf(game)
              THEN [s.players[n] EXCEPT !.turns = 0,
                                        !.state = IF @ = "WAIT" THEN "WAIT_MAP" ELSE @]
              ELSE s.players[n]]]

BeginGame_KeepTurns(s, g) ==
    LET game == s.games[g]
        t == SetGame(s, g, [game EXCEPT !.tries = game.tries + 1, !.started = TRUE])
    IN  [t EXCEPT !.players = [n \in DOMAIN s.players |->
            IF n \in PlayersOf(game)
              THEN [s.players[n] EXCEPT !.turns = IF @ = -1 THEN 0 ELSE @,
                                        !.state = "WAIT_MAP"]
              ELSE s.players[n]]]

\* EVT_GAME_START and EVT_NEXT_GAME count the game and ask for new maps.
BeginGame(s, g) ==
    LET game == s.games[g]
        t == SetGame(s, g, [game EXCEPT !.tries = game.tries + 1, !.started = TRUE])
    IN  IF \A n \in PlayersOf(game) : HasPlayer(s, n)
          THEN [t EXCEPT !.players = [n \in DOMAIN s.players |->
                  IF n \in PlayersOf(game)
                    THEN [s.players[n] EXCEPT !.turns = 0, !.state = "WAIT_MAP"]
                    ELSE s.players[n]]]
          ELSE t

OnGameStart(s, g) == BeginGame(Send(s, [n \in PlayersOf(s.games[g]) |-> GameStart]), g)

OnNextGame(s, g) == BeginGame(Send(s, [n \in PlayersOf(s.games[g]) |-> NextGame]), g)

OnAllOver(s, g) ==
    Send(s, [n \in {m \in PlayersOf(s.games[g]) : HasPlayer(s, m)} |->
               AllOver(s.players[n].wins, s.players[n].winTurns)])

\* Mutants: one game too many; the next game is not announced.
OnGameOver_OneMore(s, g, winner) ==
    LET game == s.games[g]
        t == Send(s, [n \in PlayersOf(game) |->
                        GameOver(n = winner, s.players[winner].turns)])
    IN  IF game.tries > MaxGames
          THEN SetGame(OnAllOver(t, g), g, [game EXCEPT !.over = TRUE])
          ELSE OnNextGame(t, g)

OnGameOver_Unannounced(s, g, winner) ==
    LET game == s.games[g]
        t == Send(s, [n \in PlayersOf(game) |->
                        GameOver(n = winner, s.players[winner].turns)])
    IN  IF game.tries >= MaxGames
          THEN SetGame(OnAllOver(t, g), g, [game EXCEPT !.over = TRUE])
          ELSE BeginGame(t, g)

OnGameOver(s, g, winner) ==
    LET game == s.games[g]
        t == Send(s, [n \in PlayersOf(game) |->
                        GameOver(n = winner, s.players[winner].turns)])
    IN  IF game.tries >= MaxGames
          THEN SetGame(OnAllOver(t, g), g, [game EXCEPT !.over = TRUE])
          ELSE OnNextGame(t, g)

GiveTurn(s, g, n) ==
    NotifyMyTurn(SetGame(s, g, [s.games[g] EXCEPT !.turn = n]), n)

\* Mutant: the result is sent before the OK that the client waits for.
OnSubmitAttack_ResultFirst(s, g, n, c) ==
    LET game == s.games[g]
        o == Opponent(game, n)
        result == AttackResult(s.players[o].board, c)
        t == [s EXCEPT !.players[n].turns = @ + 1,
                       !.players[o].board = Attack(@, c)]
        s2 == Send(t, [m \in {n} |-> Attacked(c, TRUE, result)])
        s3 == NotifyOk(Send(s2, [m \in {o} |-> Attacked(c, FALSE, result)]), n)
    IN  IF ~HasPlayer(s, n) \/ ~HasPlayer(s, o) THEN s
        ELSE IF IsGameEnd(t.players[o].board)
          THEN OnGameOver([s3 EXCEPT !.players[n].wins = @ + 1], g, n)
          ELSE GiveTurn(s3, g, Opponent(game, game.turn))

\* EVT_SUBMIT_ATTACK by player n: OK, the result to both, and the end of the
\* game or the other's turn.
OnSubmitAttack(s, g, n, c) ==
    LET game == s.games[g]
        o == Opponent(game, n)
    IN  IF ~HasPlayer(s, n) \/ ~HasPlayer(s, o) THEN s
        ELSE LET result == AttackResult(s.players[o].board, c)
                 player == [s.players[n] EXCEPT !.turns = s.players[n].turns + 1]
                 target == [s.players[o] EXCEPT !.board = Attack(s.players[o].board, c)]
                 s1 == NotifyOk(SetPlayer(SetPlayer(s, n, player), o, target), n)
                 s2 == Send(s1, [m \in {n} |-> Attacked(c, TRUE, result)])
                 s3 == Send(s2, [m \in {o} |-> Attacked(c, FALSE, result)])
             IN  IF IsGameEnd(target.board)
                   THEN OnGameOver(
                          SetPlayer(s3, n, [player EXCEPT
                                              !.wins = player.wins + 1,
                                              !.winTurns = player.winTurns + player.turns]),
                          g, n)
                   ELSE GiveTurn(s3, g, Opponent(game, game.turn))

\* Mutant: the marks of the game before stay on the new map.
OnSubmitMap_KeepMarks(s, g, n, info) ==
    LET game == s.games[g]
        o == Opponent(game, n)
        t == NotifyOk([s EXCEPT !.players[n].board.info = info,
                                !.players[n].state = "ON_GAME"], n)
    IN  IF ~HasPlayer(s, n) \/ ~HasPlayer(s, o) THEN s
        ELSE IF t.players[o].state = "ON_GAME"
               THEN GiveTurn(t, g, game.player2) ELSE t

\* EVT_SUBMIT_MAP by player n.  GetFirstTurn's draw is overwritten by the
\* assignment that follows it: player 2 always begins.
OnSubmitMap(s, g, n, info) ==
    LET game == s.games[g]
        o == Opponent(game, n)
    IN  IF ~HasPlayer(s, n) \/ ~HasPlayer(s, o) THEN s
        ELSE LET player == [s.players[n] EXCEPT !.board = SetMap(info),
                                                !.state = "ON_GAME"]
                 t == NotifyOk(SetPlayer(s, n, player), n)
             IN  IF t.players[o].state = "ON_GAME"
                   THEN GiveTurn(t, g, game.player2) ELSE t

\* Mutants: the game goes on; the one who left is told.
OnOppositionLeft_GoesOn(s, g, n) == NotifyError(s, Opponent(s.games[g], n))
OnOppositionLeft_TellsLeaver(s, g, n) ==
    NotifyError(SetGame(s, g, [s.games[g] EXCEPT !.over = TRUE]), n)

\* EVT_DISCONNECT of player n.
OnOppositionLeft(s, g, n) ==
    NotifyError(SetGame(s, g, [s.games[g] EXCEPT !.over = TRUE]),
                Opponent(s.games[g], n))

\* Every Game listens to these events and looks for the player in itself; no
\* player is in two games (ListsAgree).
GamesOf(s, n) == {g \in DOMAIN s.games : n \in PlayersOf(s.games[g])}
GameOf(s, n) ==
    IF GamesOf(s, n) = {} THEN None ELSE CHOOSE g \in GamesOf(s, n) : TRUE

------------------------------------------------------------------------------
(* ClientSession's packet handlers and Disconnect, on the session of c. *)

\* PlayerManager's insert changes nothing when the number is in the list.
HandleSubmitName(s, c) ==
    LET n == s.link[c].id
    IN  NotifyOk(IF HasPlayer(s, n) THEN s ELSE SetPlayer(s, n, NewPlayer), n)

HandleSubmitMap(s, c, info) ==
    LET n == s.link[c].id
    IN  IF ValidMap(info)
          THEN IF GameOf(s, n) = None THEN s ELSE OnSubmitMap(s, GameOf(s, n), n, info)
          ELSE [s EXCEPT !.link[c].out = Append(@, ErrorPacket("ET_INVALID_MAP"))]

HandleSubmitAttack(s, c, cell) ==
    LET n == s.link[c].id
    IN  IF GameOf(s, n) = None THEN s ELSE OnSubmitAttack(s, GameOf(s, n), n, cell)

\* closesocket and EVT_DISCONNECT: PlayerManager listens before any Game does.
CloseSession(s, c) ==
    LET n == s.link[c].id
        t == ErasePlayer([s EXCEPT !.link[c].up = FALSE], n)
    IN  IF GameOf(t, n) = None THEN t ELSE OnOppositionLeft(t, GameOf(t, n), n)

\* What Disconnect may come to: when setsockopt fails it returns, with the
\* session as it was and nobody told.
Disconnect(s, c) == {CloseSession(s, c)} \cup {t \in {s} : c \in LingerFails}

Handle(s, c, p) ==
    CASE p.type = "SUBMIT_NAME"   -> HandleSubmitName(s, c)
      [] p.type = "SUBMIT_MAP"    -> HandleSubmitMap(s, c, p.info)
      [] p.type = "SUBMIT_ATTACK" -> HandleSubmitAttack(s, c, p.cell)

------------------------------------------------------------------------------
(* The end of a pass. *)

\* FlushClientSend hands WSASend what is in the send buffer; a send buffer's
\* second region follows a pass later, as if it were longer on the wire.
Flushed(s) ==
    [s EXCEPT !.link = [c \in Client |->
        IF s.link[c].up THEN [s.link[c] EXCEPT !.sent = Len(s.link[c].out)]
                        ELSE s.link[c]]]

RemoveOverGames(s) ==
    [s EXCEPT !.games = [g \in {h \in DOMAIN s.games : ~s.games[h].over} |-> s.games[g]]]

\* A std::map is walked through in the order of its keys.
InKeyOrder(S) ==
    CHOOSE q \in [1 .. Cardinality(S) -> S] :
        \A i, j \in 1 .. Cardinality(S) : i < j => q[i] < q[j]

WaitingPlayers(s) ==
    InKeyOrder({n \in DOMAIN s.players : s.players[n].state = "WAIT"})

\* EVT_NEW_GAME: the least number without a game.
NewGame(s) ==
    LET g == CHOOSE g \in GameNumber :
               g \notin DOMAIN s.games /\ \A h \in 0 .. g - 1 : h \in DOMAIN s.games
    IN  SetGame(s, g, [player1 |-> None, player2 |-> None, tries |-> 0, turn |-> None,
                       started |-> FALSE, over |-> FALSE])

\* GetWaitingGames looks at the games that have not started.
NotStarted(s) == {g \in DOMAIN s.games : ~s.games[g].started}

\* IsFull first drops the players of the game it asks about; both calls of
\* DropPlayer let the player of player2_ wait again.
DropDisconnectedPlayers(s) ==
    [s EXCEPT
       !.games = [g \in DOMAIN s.games |->
          IF s.games[g].started THEN s.games[g]
          ELSE [s.games[g] EXCEPT !.player1 = None, !.player2 = None]],
       !.players = [n \in DOMAIN s.players |->
          IF \E g \in NotStarted(s) : n = s.games[g].player2
            THEN [s.players[n] EXCEPT !.state = "WAIT"] ELSE s.players[n]]]

\* It then asks for the player of player1_, twice.
IsFull(s, g) == HasPlayer(s, s.games[g].player1)

\* In the order of their numbers.
WaitingGames(s) == InKeyOrder({g \in NotStarted(s) : ~IsFull(s, g)})

\* The two EVT_ADD_PLAYER events.  PS_READY lasts until the EVT_GAME_START that
\* follows.
AddPlayers(s, g, n1, n2) ==
    IF s.games[g].started THEN s
    ELSE SetGame(s, g, [s.games[g] EXCEPT !.player1 = n1, !.player2 = n2])

\* The first waiting game gets the players, be it the new one or not.
Match(s, n1, n2) ==
    LET t == DropDisconnectedPlayers(NewGame(s))
        g == Head(WaitingGames(t))
    IN  OnGameStart(AddPlayers(t, g, n1, n2), g)

\* AutoMatcher::Update pairs the waiting players in the order of their numbers.
AutoMatch(s) ==
    LET w == WaitingPlayers(s)
        pairs == Len(w) \div 2
        matched[i \in 0 .. pairs] ==
            IF i = 0 THEN s ELSE Match(matched[i - 1], w[2 * i - 1], w[2 * i])
    IN  matched[pairs]

------------------------------------------------------------------------------
(* The server's steps. *)

Init ==
    /\ server = [link |-> [c \in Client |-> NoLink],
                 players |-> [n \in {} |-> NewPlayer],
                 games |-> [g \in {} |-> None]]
    /\ phase = "accept"
    /\ accepts = << >>
    /\ requests = [c \in Client |-> << >>]
    /\ wire = [c \in Client |-> << >>]
    /\ pc = [c \in Client |-> "off"]
    /\ marked = [c \in Client |-> {}]
    /\ told = [c \in Client |-> [wins |-> 0, games |-> 0, errors |-> {}, final |-> {}]]

EveryoneNamed ==
    \A c \in Client : server.link[c].up => HasPlayer(server, server.link[c].id)

\* A session is made, and takes its player's number, when its socket is.
Accept ==
    /\ phase = "accept" /\ phase' = "apc"
    /\ \/ /\ accepts # << >>
          /\ SerialLogin => EveryoneNamed
          /\ server' = [server EXCEPT !.link[Head(accepts)] =
                          [NoLink EXCEPT !.up = TRUE, !.id = UnusedNumber(server)]]
          /\ accepts' = Tail(accepts)
       \/ /\ accepts = << >> \/ (SerialLogin /\ ~EveryoneNamed)
          /\ UNCHANGED <<server, accepts>>
    /\ UNCHANGED <<requests, wire, clientVars>>

\* A client that has closed its connection.
Dead == {"done", "ended", "failed", "left"}

\* A client sends its next request only when the last is answered, so that a
\* completion brings one packet.
RecvCompletion(c) ==
    /\ phase = "apc"
    /\ server.link[c].up /\ requests[c] # << >> /\ Head(requests[c]) # Closed
    /\ server' = Handle(server, c, Head(requests[c]))
    /\ requests' = [requests EXCEPT ![c] = Tail(@)]
    /\ UNCHANGED <<phase, accepts, wire, clientVars>>

\* Or it brings the end of the stream; a WSARecv that fails at once, behind a
\* handler, because the other end has gone comes to the same.
RecvEnd(c) ==
    /\ phase = "apc"
    /\ server.link[c].up /\ requests[c] # << >> /\ Head(requests[c]) = Closed
    /\ server' \in Disconnect(server, c)
    /\ requests' = [requests EXCEPT ![c] = Tail(@)]
    /\ UNCHANGED <<phase, accepts, wire, clientVars>>

\* Once the other end has gone, the WSASend of FlushClientSend or a send's
\* completion may fail and call Disconnect.  With its socket goes what a session
\* has not received.
SendFails(c) ==
    /\ phase = "apc"
    /\ server.link[c].up /\ server.link[c].out # << >> /\ pc[c] \in Dead
    /\ server' \in Disconnect(server, c)
    /\ requests' = IF server'.link[c].up THEN requests ELSE [requests EXCEPT ![c] = << >>]
    /\ UNCHANGED <<phase, accepts, wire, clientVars>>

\* Mutant: what was sent is not removed from the buffer.
SendCompletion_NoRemove(c) ==
    /\ phase = "apc"
    /\ server.link[c].up /\ server.link[c].sent > 0
    /\ server' = [server EXCEPT !.link[c].sent = 0]
    /\ UNCHANGED <<phase, accepts, requests, wire, clientVars>>

SendCompletion(c) ==
    /\ phase = "apc"
    /\ server.link[c].up /\ server.link[c].sent > 0
    /\ server' = [server EXCEPT
                    !.link[c].out = SubSeq(@, server.link[c].sent + 1, Len(@)),
                    !.link[c].sent = 0]
    /\ UNCHANGED <<phase, accepts, requests, wire, clientVars>>

FinishPass ==
    /\ phase = "apc" /\ phase' = "accept"
    /\ \A c \in Client : server.link[c].up => server.link[c].sent = 0
    /\ wire' = [c \in Client |->
                  IF server.link[c].up THEN wire[c] \o server.link[c].out ELSE wire[c]]
    /\ server' = AutoMatch(RemoveOverGames(Flushed(server)))
    /\ UNCHANGED <<accepts, requests, clientVars>>

------------------------------------------------------------------------------
(* The clients' steps. *)

Request(c, p) == requests' = [requests EXCEPT ![c] = Append(@, p)]

\* A reset discards what the server has not received yet.
Hang(c) == requests' \in {[requests EXCEPT ![c] = Append(@, Closed)],
                          [requests EXCEPT ![c] = <<Closed>>]}

\* The client receives packet p in state at.
Receives(c, at, type) ==
    /\ pc[c] = at /\ wire[c] # << >> /\ Head(wire[c]).type = type
    /\ wire' = [wire EXCEPT ![c] = Tail(@)]

Goes(c, to) == pc' = [pc EXCEPT ![c] = to]

\* Connect and SubmitName.
Connect(c) ==
    /\ pc[c] = "off" /\ Goes(c, "naming")
    /\ accepts' = Append(accepts, c)
    /\ Request(c, SubmitName)
    /\ UNCHANGED <<serverVars, wire, marked, told>>

\* WaitSpecPacket(PKT_SC_OK) in SubmitName, SubmitMap and SubmitAttack.  Only
\* ET_DUPLICATED_NAME, ET_INVALID_MAP and ET_INVALID_ATTACK are looked at
\* afterwards: any other error passes for success.
AfterReply(at) == CASE at = "naming"    -> "lobby"
                    [] at = "mapping"   -> "playing"
                    [] at = "attacking" -> "playing"

Replied(c) ==
    \E at \in {"naming", "mapping", "attacking"} :
        /\ \/ Receives(c, at, "OK") /\ UNCHANGED told
           \/ /\ Receives(c, at, "ERROR")
              /\ Head(wire[c]).code # "ET_INVALID_MAP"
              /\ told' = [told EXCEPT ![c].errors = @ \cup {Head(wire[c]).code}]
        /\ Goes(c, AfterReply(at))
        /\ UNCHANGED <<serverVars, accepts, requests, marked>>

\* Initialize, MakeMapData and SubmitMap at the start of every game.
StartGame(c) ==
    /\ Goes(c, "mapping")
    /\ marked' = [marked EXCEPT ![c] = {}]
    /\ \E info \in {i \in Maps : ValidMap(i)} : Request(c, SubmitMap(info))

\* WaitForStart.
Started(c) ==
    /\ Receives(c, "lobby", "GAME_START")
    /\ StartGame(c)
    /\ UNCHANGED <<serverVars, accepts, told>>

NextStarted(c) ==
    /\ Receives(c, "between", "NEXT_GAME")
    /\ StartGame(c)
    /\ UNCHANGED <<serverVars, accepts, told>>

\* MakeAttackPos draws until it finds a square it has not attacked.
TakesTurn(c) ==
    /\ Receives(c, "playing", "MY_TURN")
    /\ \E cell \in Cell \ marked[c] : Request(c, SubmitAttack(cell))
    /\ Goes(c, "attacking")
    /\ UNCHANGED <<serverVars, accepts, marked, told>>

SeesResult(c) ==
    /\ Receives(c, "playing", "ATTACK_RESULT")
    /\ marked' = IF Head(wire[c]).mine
                   THEN [marked EXCEPT ![c] = @ \cup {Head(wire[c]).cell}] ELSE marked
    /\ UNCHANGED <<serverVars, accepts, requests, pc, told>>

SeesGameOver(c) ==
    /\ Receives(c, "playing", "GAME_OVER")
    /\ told' = [told EXCEPT ![c].games = @ + 1,
                            ![c].wins = IF Head(wire[c]).won THEN @ + 1 ELSE @]
    /\ Goes(c, "between")
    /\ UNCHANGED <<serverVars, accepts, requests, marked>>

SeesAllOver(c) ==
    /\ Receives(c, "between", "ALL_OVER")
    /\ told' = [told EXCEPT ![c].final = {Head(wire[c]).wins}]
    /\ Goes(c, "done") /\ Hang(c)
    /\ UNCHANGED <<serverVars, accepts, marked>>

\* An error between two packets of a game: the client gives up.
SeesError(c) ==
    /\ Receives(c, "playing", "ERROR")
    /\ told' = [told EXCEPT ![c].errors = @ \cup {Head(wire[c]).code}]
    /\ Goes(c, "ended") /\ Hang(c)
    /\ UNCHANGED <<serverVars, accepts, marked>>

Awaited == [at \in {"naming", "lobby", "mapping", "attacking", "playing", "between"} |->
              CASE at \in {"naming", "mapping", "attacking"} -> {"OK", "ERROR"}
                [] at = "lobby"   -> {"GAME_START"}
                [] at = "playing" -> {"MY_TURN", "ATTACK_RESULT", "GAME_OVER", "ERROR"}
                [] at = "between" -> {"NEXT_GAME", "ALL_OVER"}]

Surprised(c) == /\ pc[c] \in DOMAIN Awaited /\ wire[c] # << >>
                /\ Head(wire[c]).type \notin Awaited[pc[c]]

\* UNEXPECTED_PACKET, or a stream read out of step after an error in the lobby.
Fails(c) ==
    /\ Surprised(c)
    /\ Goes(c, "failed") /\ Hang(c)
    /\ UNCHANGED <<serverVars, accepts, wire, marked, told>>

Leave(c) ==
    /\ c \in MayLeave /\ pc[c] \in DOMAIN Awaited
    /\ Goes(c, "left") /\ Hang(c)
    /\ UNCHANGED <<serverVars, accepts, wire, marked, told>>

------------------------------------------------------------------------------
ClientStep(c) ==
    \/ Connect(c) \/ Replied(c) \/ Started(c) \/ NextStarted(c) \/ TakesTurn(c)
    \/ SeesResult(c) \/ SeesGameOver(c) \/ SeesAllOver(c) \/ SeesError(c) \/ Fails(c)

Next ==
    \/ Accept \/ FinishPass
    \/ \E c \in Client : RecvCompletion(c) \/ RecvEnd(c) \/ SendCompletion(c)
                         \/ SendFails(c) \/ ClientStep(c) \/ Leave(c)

Spec == Init /\ [][Next]_vars

------------------------------------------------------------------------------
(* Fairness.  The loop runs on; SleepEx runs every completion that is queued, *)
(* so that a session whose receive completes in pass after pass is not       *)
(* passed over; a send completes; and a client that can take a step takes it. *)

\* Accept, FinishPass and RecvCompletion(c) or RecvEnd(c), told by the variable
\* only they change in this way.
PassBegins == phase = "accept" /\ phase' = "apc"
PassEnds   == /\ phase = "apc" /\ phase' = "accept"
              /\ \A c \in Client : server.link[c].up => server.link[c].sent = 0
IsReceived(c) == /\ phase = "apc" /\ server.link[c].up /\ requests[c] # << >>
                 /\ requests' = [requests EXCEPT ![c] = Tail(@)]

Fairness ==
    /\ WF_phase(PassBegins) /\ WF_phase(PassEnds)
    /\ \A c \in Client : /\ SF_requests(IsReceived(c))
                          /\ WF_vars(SendCompletion(c))
                          /\ WF_vars(ClientStep(c))

FairSpec == Spec /\ Fairness

------------------------------------------------------------------------------
(* Properties. *)

\* Types of the server's state and of the clients'.
TypeOK ==
    /\ phase \in {"accept", "apc"}
    /\ \A c \in Client :
          /\ server.link[c].up \in BOOLEAN
          /\ server.link[c].id \in {None} \cup PlayerNumber
          /\ server.link[c].sent \in 0 .. Len(server.link[c].out)
          /\ pc[c] \in DOMAIN Awaited \cup {"off"} \cup Dead
          /\ marked[c] \subseteq Cell
    /\ DOMAIN server.players \subseteq PlayerNumber
    /\ \A n \in DOMAIN server.players :
          /\ server.players[n].state \in {"WAIT", "WAIT_MAP", "ON_GAME"}
          /\ server.players[n].board \in [info : Maps, hit : SUBSET Cell]
    /\ DOMAIN server.games \subseteq GameNumber

\* The packets to c that it has not read: on the wire, or not handed to
\* WSASend yet.
Unsent(c)  == SubSeq(server.link[c].out, server.link[c].sent + 1, Len(server.link[c].out))
Unread(c)  == wire[c] \o Unsent(c)
\* Where the packets of a type are in a sequence.
Positions(q, type) == {i \in 1 .. Len(q) : q[i].type = type}

Alive(c) == server.link[c].up /\ pc[c] \in DOMAIN Awaited
Number(c) == server.link[c].id
LiveGames == {g \in DOMAIN server.games : ~server.games[g].over}

\* The clients c and d face each other in game g, and both are still there.
Facing(c, d, g) ==
    /\ c # d /\ Alive(c) /\ Alive(d) /\ g \in LiveGames
    /\ PlayersOf(server.games[g]) = {Number(c), Number(d)}

Playing(n) == HasPlayer(server, n) /\ server.players[n].state = "ON_GAME"

\* Sessions that are connected have different player numbers: events addressed
\* to a number reach one client (ClientSession's Notify compares mPlayerId).
UniquePlayerNumbers ==
    \A c, d \in Client : c # d /\ server.link[c].up /\ server.link[d].up
                            => Number(c) # Number(d)

\* The state has its types and the three lists agree, whatever leaves when: a player has a connected
\* session, a game that is not over has two different players of the list,
\* and no player is in two games (ClientSession, PlayerManager, Game).
ListsAgree ==
    /\ TypeOK
    /\ \A n \in DOMAIN server.players :
          \E c \in Client : server.link[c].up /\ Number(c) = n
    /\ \A g \in LiveGames :
          /\ server.games[g].player1 # server.games[g].player2
          /\ \A n \in PlayersOf(server.games[g]) :
                /\ HasPlayer(server, n) /\ server.players[n].state # "WAIT"
                /\ GamesOf(server, n) = {g}

\* In a game that is being played there is exactly one turn, neither lost nor
\* doubled: either one MY_TURN is on its way or one attack is, and the game
\* remembers whose it is (prev_trun_).  Nothing in SUBMIT_ATTACK asks whose
\* turn it is: only this keeps the players alternating.
OneTurn ==
    \A c, d \in Client : \A g \in LiveGames :
        Facing(c, d, g) /\ Playing(Number(c)) /\ Playing(Number(d)) =>
            LET Turns(e) == Cardinality(Positions(Unread(e), "MY_TURN"))
                            + Cardinality(Positions(requests[e], "SUBMIT_ATTACK"))
            IN  /\ Turns(c) + Turns(d) = 1
                /\ Turns(c) = 1 => server.games[g].turn = Number(c)

\* While a game is played, what a client has marked, with the results it has
\* still to read, is what has been attacked on the other's board in this game:
\* no result is lost or left over from the game before.
ViewsAgree ==
    \A c, d \in Client : \A g \in LiveGames :
        Facing(c, d, g) /\ Playing(Number(c)) /\ Playing(Number(d)) =>
            LET q == Unread(c)
                mine == {i \in Positions(q, "ATTACK_RESULT") : q[i].mine}
            IN  marked[c] \cup {q[i].cell : i \in mine}
                  = server.players[Number(d)].board.hit

\* The turns a player is credited with are the squares it has attacked in this
\* game: InitTurns and SetMap's reset of didAttacked_ happen in different
\* events and must come to the same.
TurnsCountAttacks ==
    \A c, d \in Client : \A g \in LiveGames :
        Facing(c, d, g) /\ Playing(Number(c)) /\ Playing(Number(d)) =>
            server.players[Number(c)].turns
              = Cardinality(server.players[Number(d)].board.hit)

\* The score a client keeps, with the results on their way, is the server's;
\* every game that was decided has one winner; and the total sent at the end is
\* what the client counted over MAX_GAME_COUNT games.
ScoreAgrees ==
    /\ \A c, d \in Client : \A g \in LiveGames : Facing(c, d, g) =>
          LET q == Unread(c)
              over == Positions(q, "GAME_OVER")
              won  == {i \in over : q[i].won}
          IN  /\ server.players[Number(c)].wins = told[c].wins + Cardinality(won)
              /\ told[c].games + Cardinality(over) = server.games[g].tries - 1
              /\ server.players[Number(c)].wins + server.players[Number(d)].wins
                   = server.games[g].tries - 1
    /\ \A c \in Client : told[c].final # {} =>
          told[c].final = {told[c].wins} /\ told[c].games = MaxGames

\* What is outstanding to one client, counting what it has read of a send that
\* has not completed, stays within half of its send buffer (BUFSIZE 128), so
\* that by HalfCapacity no SendRequest of a handler fails: a failure would
\* disconnect, and delete a Player that SUBMIT_ATTACK goes on using.
HalfBufSize == 64

BacklogFits ==
    \A c \in Client :
        LET k == server.link[c]
            given == Bytes(SubSeq(k.out, 1, k.sent))
            onWire == Bytes(wire[c])
        IN  k.up => (IF given > onWire THEN given ELSE onWire) + Bytes(Unsent(c))
                      <= HalfBufSize

\* No client is sent a packet it does not expect where it is in main: nothing
\* throws UNEXPECTED_PACKET.
NoSurprise == \A c \in Client : ~Surprised(c)

\* A match that has begun is played to the end by both clients, unless one of
\* them leaves.
MatchCompletes ==
    \A c \in Client : pc[c] = "mapping" ~> pc[c] = "done" \/ \E d \in Client : pc[d] = "left"

\* A session of a client that has gone which stays connected, because setsockopt
\* failed when its receive ended.
Stranded(d) ==
    d \in LingerFails /\ pc[d] = "left" /\ server.link[d].up /\ requests[d] = << >>

\* A client whose opponent disappears during their match is told so, by an
\* error, if the results of the whole match do not reach it first - unless
\* Disconnect itself fails, which leaves it waiting for a turn.
SurvivorTold ==
    \A c, d \in Client :
        (\E g \in LiveGames : /\ PlayersOf(server.games[g]) = {Number(c), Number(d)}
                              /\ c # d /\ Alive(c) /\ pc[d] = "left")
            ~> told[c].errors # {} \/ pc[c] \in {"done", "left"} \/ Stranded(d)

\* Example.cpp:177-183: the error a client receives is the end of the game for
\* it: "the opponent's connection is gone", and main returns.
ErrorEndsMatch ==
    \A c \in Client : told[c].errors # {} ~> pc[c] \in {"ended", "left"}
===============================================================================
