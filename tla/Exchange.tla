------------------------------- MODULE Exchange -------------------------------
(***************************************************************************)
(* One client and the server, byte by byte: the client library (Network.cpp *)
(* under Example.cpp's main), a connection that may cut what is sent        *)
(* anywhere, and the session's receiving side (PostRecv, RecvCompletion,    *)
(* OnRead) on its CircularBuffer.                                           *)
(*                                                                          *)
(* The game is reduced to when its packets are sent; the other player acts  *)
(* at any time.  GameServer has the game, SendPath the way of the packets   *)
(* to the connection.  A byte is a packet's type and its place in it, so    *)
(* that a stream that is read out of step shows.                            *)
(***************************************************************************)
EXTENDS CircularBufferOps

CONSTANTS Header,       \* sizeof(PacketHeader)
          Size,         \* mSize, by type
          MaxAttacks,   \* bound: the attacks of a game
          MaxGames      \* MAX_GAME_COUNT

Requests == {"NAME", "MAP", "ATTACK"}
Results  == {"OK", "ERROR", "GAME_START", "MY_TURN", "ATTACK_RESULT", "GAME_OVER",
             "NEXT_GAME", "ALL_OVER"}
Stages   == {"login", "named", "map", "ready", "mine", "theirs", "over", "left",
              "gone"}
Blank == [type |-> "NONE", nth |-> 0]       \* a cell that was never written

ASSUME ExchangeAssumption ==
    /\ Header \in Nat \ {0} /\ MaxAttacks \in Nat \ {0} /\ MaxGames \in Nat \ {0}
    /\ DOMAIN Size = Requests \cup Results
    /\ \A t \in DOMAIN Size : Size[t] \in Nat /\ Size[t] >= Header
    /\ \A t \in Requests : Size[t] <= Capacity
    /\ Byte = {Blank} \cup UNION {[type : {t}, nth : 1 .. Size[t]] : t \in DOMAIN Size}

VARIABLES pc,           \* where the client is, see Awaited
          request,      \* the request it is sending, or has sent last
          unsent,       \* the bytes of it that send has not taken
          got,          \* the bytes Recive has
          toServer, toClient,   \* the connection's two streams
          state,        \* of the connection: "open", "hung up" by the client,
                        \* "closed" or "reset" by the server
          up,           \* mConnected of the session
          mRecvBuffer,
          window,       \* the space WSARecv was given
          game,         \* what the session's game waits for
          asked, handled        \* history: the requests sent, and the bytes each
                                \* handler has read

client  == <<pc, request, unsent, got>>
session == <<up, mRecvBuffer, window>>
history == <<asked, handled>>
vars == <<client, toServer, toClient, state, session, game, history>>

Games == [stage : Stages, tries : 0 .. MaxGames - 1, attacks : 0 .. MaxAttacks]

Packet(t) == [i \in 1 .. Size[t] |-> [type |-> t, nth |-> i]]

\* WSARecv's buffer: the free space and where it starts.
Window(b) == [at |-> WritePosition(SwitchRegion(b)), space |-> FreeSpace(b)]

Init ==
    /\ pc = "off" /\ request = "NAME" /\ unsent = << >> /\ got = << >>
    /\ toServer = << >> /\ toClient = << >> /\ state = "open"
    /\ up = TRUE
    /\ mRecvBuffer = NewBuffer([i \in Offset |-> Blank])
    /\ window = Window(mRecvBuffer)
    /\ game = [stage |-> "login", tries |-> 0, attacks |-> 0]
    /\ asked = << >> /\ handled = << >>

------------------------------------------------------------------------------
(* The client library. *)

\* What main waits for: the answer to a request (WaitSpecPacket(PKT_SC_OK)),
\* WaitForStart, the game's loop, and the end of a game.
Awaited == [reply |-> {"OK"}, start |-> {"GAME_START"},
            loop  |-> {"MY_TURN", "ATTACK_RESULT", "GAME_OVER"},
            after |-> {"NEXT_GAME", "ALL_OVER"}]

Request(t) ==
    /\ pc' = "sending" /\ request' = t /\ unsent' = Packet(t)
    /\ asked' = Append(asked, t)

Goes(to) == pc' = to /\ UNCHANGED <<request, unsent, asked>>

\* Connect; SubmitName.
Connect ==
    /\ pc = "off" /\ Request("NAME")
    /\ UNCHANGED <<got, toServer, toClient, state, session, game, handled>>

\* send takes any number of the bytes that are left; it fails on a connection
\* the server has reset.
Send ==
    /\ pc = "sending"
    /\ \/ /\ state # "reset"
          /\ \E n \in 1 .. Len(unsent) :
                /\ toServer' = toServer \o SubSeq(unsent, 1, n)
                /\ unsent' = SubSeq(unsent, n + 1, Len(unsent))
                /\ pc' = IF n = Len(unsent) THEN "reply" ELSE "sending"
       \/ /\ state = "reset" /\ pc' = "failed"
          /\ UNCHANGED <<unsent, toServer>>
    /\ UNCHANGED <<request, got, toClient, state, session, game, history>>

\* Where main goes when the answer to its request is there.  Errors it does not
\* look for pass for success.
AfterReply == IF request = "NAME" THEN "start" ELSE "loop"

Reading == DOMAIN Awaited

\* What is read of a packet of type t behind its header.  GetPacketType reads an
\* error's type; WaitForStart then still reads the rest of the GAME_START.
Body(t) ==
    CASE t = "ERROR" /\ pc # "start" -> Size["ERROR"] - Header
      [] t = "ERROR" /\ pc = "start" -> Size["ERROR"] + Size["GAME_START"] - 2 * Header
      [] t \in Awaited[pc]           -> Size[t] - Header
      [] OTHER                       -> 0

\* How many bytes the calls of Recive under way want, from the header on.
Wanted == IF Len(got) < Header THEN Header ELSE Header + Body(Head(got).type)

\* Mutant: recv is taken to have read all that it was asked for.
Recive_Once ==
    /\ pc \in Reading /\ Len(got) < Wanted /\ toClient # << >>
    /\ \E n \in 1 .. Lesser(Wanted - Len(got), Len(toClient)) :
          /\ got' = [i \in 1 .. Wanted |->
                       IF i <= Len(got) THEN got[i]
                       ELSE IF i <= Len(got) + n THEN toClient[i - Len(got)] ELSE Blank]
          /\ toClient' = SubSeq(toClient, n + 1, Len(toClient))
    /\ UNCHANGED <<pc, request, unsent, toServer, state, session, game, history>>

\* Recive's loop: recv returns some of the bytes.  When the server has closed
\* the connection it returns 0 and the loop goes round for ever, since it is the
\* function that is compared with 0.
Recive ==
    /\ pc \in Reading /\ Len(got) < Wanted /\ toClient # << >>
    /\ \E n \in 1 .. Lesser(Wanted - Len(got), Len(toClient)) :
          /\ got' = got \o SubSeq(toClient, 1, n)
          /\ toClient' = SubSeq(toClient, n + 1, Len(toClient))
    /\ UNCHANGED <<pc, request, unsent, toServer, state, session, game, history>>

\* recv fails: NETWORK_ERROR.
ReciveFails ==
    /\ pc \in Reading /\ Len(got) < Wanted /\ state = "reset"
    /\ Goes("failed")
    /\ UNCHANGED <<got, toServer, toClient, state, session, game, handled>>

\* A call of the library returns with a packet of type t, and main goes on.
\* Anything but what is awaited, or an error, is UNEXPECTED_PACKET; so is an
\* error where a game has ended.
Returns ==
    /\ pc \in Reading /\ Len(got) = Wanted
    /\ LET t == Head(got).type
       IN  \/ pc = "reply" /\ t \in {"OK", "ERROR"} /\ Goes(AfterReply)
           \/ pc = "start" /\ t \in {"GAME_START", "ERROR"} /\ Request("MAP")
           \/ pc = "loop"  /\ t = "MY_TURN"       /\ Request("ATTACK")
           \/ pc = "loop"  /\ t = "ATTACK_RESULT" /\ Goes("loop")
           \/ pc = "loop"  /\ t = "GAME_OVER"     /\ Goes("after")
           \/ pc = "loop"  /\ t = "ERROR"         /\ Goes("ended")
           \/ pc = "after" /\ t = "NEXT_GAME"     /\ Request("MAP")
           \/ pc = "after" /\ t = "ALL_OVER"      /\ Goes("done")
           \/ t \notin Awaited[pc] /\ (t = "ERROR" => pc = "after") /\ Goes("failed")
    /\ got' = << >>
    /\ UNCHANGED <<toServer, toClient, state, session, game, handled>>

\* Network's Disconnect, when main is left.
Disconnect ==
    /\ pc \in {"done", "ended", "failed"} /\ state = "open"
    /\ state' = "hung up"
    /\ UNCHANGED <<client, toServer, toClient, session, game, history>>

------------------------------------------------------------------------------
(* The game, as far as this client's packets go. *)

\* The end of a game, or its next turn for the player of that stage.
Ended(g) == IF g.tries + 1 >= MaxGames
              THEN [game |-> [g EXCEPT !.stage = "over"],
                    out |-> Packet("GAME_OVER") \o Packet("ALL_OVER")]
              ELSE [game |-> [stage |-> "map", tries |-> g.tries + 1, attacks |-> 0],
                    out |-> Packet("GAME_OVER") \o Packet("NEXT_GAME")]
GoneOn(g, stage, out) ==
    [game |-> [g EXCEPT !.stage = stage, !.attacks = @ + 1], out |-> out]

\* An attack sinks the last ship or does not.
Sinks(g, last) == last \/ g.attacks + 1 >= MaxAttacks

\* The handler of a request: the game after it and the bytes sent; none to a
\* player whose opponent has gone.
Handler(g, t, last) ==
    CASE t = "NAME"   -> [game |-> [g EXCEPT !.stage = "named"], out |-> Packet("OK")]
      [] t = "MAP" /\ g.stage = "map" ->
            [game |-> [g EXCEPT !.stage = "ready"], out |-> Packet("OK")]
      [] t = "ATTACK" /\ g.stage = "mine" ->
            LET then == IF Sinks(g, last) THEN Ended(g) ELSE GoneOn(g, "theirs", << >>)
            IN  [then EXCEPT !.out = Packet("OK") \o Packet("ATTACK_RESULT") \o @]
      [] OTHER -> [game |-> g, out |-> << >>]

\* What the matcher and the other player make happen.
Others(g, last) ==
    CASE g.stage = "named"  -> {[game |-> [g EXCEPT !.stage = "map"],
                                 out |-> Packet("GAME_START")]}
      [] g.stage = "ready"  -> {[game |-> [g EXCEPT !.stage = "mine"],
                                 out |-> Packet("MY_TURN")],
                                [game |-> [g EXCEPT !.stage = "theirs"], out |-> << >>]}
      [] g.stage = "theirs" ->
            LET then == IF Sinks(g, last) THEN Ended(g) ELSE GoneOn(g, "mine", Packet("MY_TURN"))
            IN  {[then EXCEPT !.out = Packet("ATTACK_RESULT") \o @]}
      [] OTHER -> {}

Sent(out) == toClient' = toClient \o out

OthersAct ==
    /\ up /\ state = "open"
    /\ \E last \in BOOLEAN : \E o \in Others(game, last) : game' = o.game /\ Sent(o.out)
    /\ UNCHANGED <<client, toServer, state, session, history>>

\* A game in which all is over is told of it too, until the pass ends.
OtherLeaves ==
    /\ up /\ state = "open" /\ game.stage \in {"map", "ready", "mine", "theirs", "over"}
    /\ game' = [game EXCEPT !.stage = IF @ = "over" THEN "gone" ELSE "left"]
    /\ Sent(Packet("ERROR"))
    /\ UNCHANGED <<client, toServer, state, session, history>>

------------------------------------------------------------------------------
(* The session. *)

\* Mutant: a packet is handled only when more has come.
Complete_Late(b) ==
    /\ ReadFits(b, Header)
    /\ StoredSize(b) > Size[Peeked(b, Header)[1].type]

\* OnRead's tests: a header can be peeked at, and the packet is complete.
Complete(b) ==
    /\ ReadFits(b, Header)
    /\ StoredSize(b) >= Size[Peeked(b, Header)[1].type]

\* Mutant: the handler reads the body only.
HandlePacket_Body(r, last) ==
    LET t == Peeked(r.buf, Header)[1].type
        answer == Handler(r.game, t, last)
    IN  [buf |-> ReadBytes(r.buf, Size[t] - Header), game |-> answer.game,
         out |-> r.out \o answer.out,
         handled |-> Append(r.handled, Peeked(r.buf, Size[t] - Header))]

\* A complete packet is read from the buffer and handled.
HandlePacket(r, last) ==
    LET t == Peeked(r.buf, Header)[1].type
        answer == Handler(r.game, t, last)
    IN  [buf |-> ReadBytes(r.buf, Size[t]), game |-> answer.game,
         out |-> r.out \o answer.out,
         handled |-> Append(r.handled, Peeked(r.buf, Size[t]))]

Rounds == [buf : Buffers, game : Games, out : Seq(Byte), handled : Seq(Seq(Byte))]

\* OnRead's loop, from the buffer b, which goes round while a packet is complete:
\* what it leaves, what the game becomes, what is sent, and what has been handled.
\* A packet has a byte at least: there are no more rounds than bytes.
OnRead(b, last) ==
    LET round == [r \in Rounds |-> IF Complete(r.buf) THEN HandlePacket(r, last) ELSE r]
        read[n \in Nat] ==
            IF n = 0 THEN [buf |-> b, game |-> game, out |-> << >>, handled |-> handled]
            ELSE round[read[n - 1]]
    IN  read[StoredSize(b)]

\* Some bytes have come: OnRead, and the next PostRecv.
RecvCompletion ==
    /\ up
    /\ \E n \in 1 .. Lesser(window.space, Len(toServer)) : \E last \in BOOLEAN :
          LET filled == Store(SwitchRegion(mRecvBuffer), window.at, SubSeq(toServer, 1, n))
          IN  \E s \in {OnRead(CommitBytes(filled, n), last)} :
                 /\ toServer' = SubSeq(toServer, n + 1, Len(toServer))
                 /\ mRecvBuffer' = SwitchRegion(s.buf) /\ window' = Window(s.buf)
                 /\ game' = s.game /\ Sent(s.out) /\ handled' = s.handled
    /\ UNCHANGED <<client, state, up, asked>>

\* No bytes: the end of the stream, or a receive that was posted without space.
\* Disconnect follows; a session it leaves connected, because setsockopt fails,
\* has no receive posted and handles nothing any more either.
RecvNothing ==
    /\ up /\ \/ toServer = << >> /\ state = "hung up"
             \/ window.space = 0
    /\ up' = FALSE
    /\ UNCHANGED <<client, toServer, toClient, state, mRecvBuffer, window, game, history>>

\* The server ends, and with it the connection, in order or by a reset, which
\* takes back what the client has not received.
ServerStops ==
    /\ state = "open" /\ up' = FALSE
    /\ \/ state' = "closed" /\ UNCHANGED toClient
       \/ state' = "reset" /\ toClient' = << >>
    /\ UNCHANGED <<client, toServer, mRecvBuffer, window, game, history>>

------------------------------------------------------------------------------
ClientStep == Connect \/ Send \/ Recive \/ ReciveFails \/ Returns \/ Disconnect

Next == ClientStep \/ OthersAct \/ OtherLeaves \/ RecvCompletion \/ RecvNothing
        \/ ServerStops

Spec == Init /\ [][Next]_vars

\* The client and the server go on, the connection delivers what is sent, and
\* the other player plays.
Fairness == /\ WF_vars(ClientStep) /\ WF_vars(OthersAct)
            /\ WF_vars(RecvCompletion \/ RecvNothing)

FairSpec == Spec /\ Fairness

------------------------------------------------------------------------------
(* Properties. *)

\* Types; the session's window lies in its buffer.
TypeOK ==
    /\ pc \in {"off", "sending", "done", "ended", "failed"} \cup Reading
    /\ request \in Requests
    /\ \A s \in {unsent, got, toServer, toClient} : s \in Seq(Byte)
    /\ state \in {"open", "hung up", "closed", "reset"} /\ up \in BOOLEAN
    /\ mRecvBuffer \in Buffers /\ WellFormed(mRecvBuffer)
    /\ game \in Games
    /\ window.space >= 0 /\ window.at + window.space <= Capacity

\* However the connection cuts them, the requests reach their handlers whole,
\* once and in order.
HandledWhole ==
    /\ Len(handled) <= Len(asked)
    /\ \A i \in 1 .. Len(handled) : handled[i] = Packet(asked[i])

\* The state has its types and a session lasts as long as its connection: the
\* space posted for the next bytes is never empty, although a map takes more than
\* half of the buffer.  A receive without space would complete with no bytes,
\* which RecvCompletion takes for the end of the stream.
SessionLasts ==
    /\ TypeOK
    /\ ~up => state # "open"
    /\ up => window.space > 0

\* What the client reads is whole packets, from the header it is reading on:
\* every call reads just what the server sent for it; and the packet is one that
\* main expects there, so that it fails only because of the network.
InStep ==
    LET s == got \o toClient
    IN  /\ pc = "failed" => state = "reset"
        /\ pc \in Reading /\ state # "reset" =>
             \A i \in 1 .. Len(s) :
                IF i = 1 \/ s[i - 1].nth = Size[s[i - 1].type] THEN s[i].nth = 1
                ELSE s[i].type = s[i - 1].type /\ s[i].nth = s[i - 1].nth + 1

\* main reaches the final results, unless the other player or the server goes.
MatchEnds == <>(pc = "done" \/ game.stage = "left" \/ state \in {"closed", "reset"})
==============================================================================
