# BGNL in TLA+

Models, model checks and proofs for BGNL, the battleship server and network
library in `src/`. Students link the client library, follow `Example.cpp`, and
the server plays their programs against each other over TCP.

The server's sources are in `src/BattleshipServer/BattleshipServer/`; file names
without a directory below are there.

## 1. The system

### Threads and the loop

Two threads. The *accept thread* (`EasyServer.cpp`, `ClientAcceptThread`) calls
`accept` for ever and puts sockets into `pendingAcceptList`, a
`ProducerConsumerQueue<SOCKET, 100>`. The *main thread*
(`Application::RunMessageLoop`) runs everything else. One pass of it is

1. `EasyServer::Run`: take at most one socket from the list, make its
   `ClientSession` and post its first receive;
2. `SleepEx(1, TRUE)`: run the completions that are queued (`RecvCompletion`,
   `SendCompletion`); all packet handling happens here;
3. `FlushClientSend`: hand every session's send buffer to `WSASend`;
   `OnPeriodWork`: once a second, delete sessions that are closed and idle;
4. `GameManager::RemoveOverGames`, then `Update` of the components, among them
   `AutoMatcher::Update`.

Events (`Event.h`) go through `EventManager::Notify`, which calls the listeners
of a type one after the other, at once; handlers raise events themselves, so
that one packet runs a nest of handlers to its end before the next.

### Components

| Component | State | Operations | Correct when |
|---|---|---|---|
| `CircularBuffer` | an array with two regions, A and B | `Write`, `Read`, `Peek`, `Remove`, `GetFreeSpaceSize`, `GetBuffer`, `Commit` | it is a FIFO stream; regions never overlap; it refuses a write only when it is more than half full |
| `ClientSession` | socket, connected flag, player number, two buffers, count of overlapped operations | `OnConnect`, `PostRecv`, `OnRead`, `SendRequest`, `SendFlush`, `Disconnect`, completions, `Notify`, packet handlers | bytes go out once, in order, all; one number per session |
| `ClientManager` | sessions by socket | `CreateClient`, `FlushClientSend`, `CollectGarbageSessions` | every connected session is flushed; no session is deleted while an operation is pending |
| `ProducerConsumerQueue` | ring, SRW lock, two condition variables | `Produce`, `Consume` | bounded FIFO queue; no lost wake-up |
| `PlayerManager`, `Player` | players by number; board, state, turns, wins | `EVT_SUBMIT_NAME`, `EVT_DISCONNECT`; `SetMap`, `AttackAndGetResult`, `IsGameEnd` | a player per named session; the board is the map submitted and the attacks of this game |
| `GameManager`, `Game` | games by number; two players, the game's count, whose turn | `EVT_NEW_GAME`, `EVT_ADD_PLAYER_*`, `EVT_GAME_START`, `EVT_SUBMIT_MAP`, `EVT_SUBMIT_ATTACK`, `EVT_GAME_OVER`, `EVT_NEXT_GAME`, `EVT_DISCONNECT` | one turn at a time, `MAX_GAME_COUNT` games, right score, both sides see the same |
| `AutoMatcher` | none | `Update` | waiting players are paired, once |
| `EventManager` | listeners by type | `AddEventListener`, `RemoveEventListener`, `Notify` | listeners are called in the order they came, none after it is gone |
| `Network` (client library) | socket, connected flag | `Connect`, `Submit*`, `GetPacketType`, `WaitForStart`, `Get*Result` | calls and packets stay in step |
| `Example.cpp` | `gEnemyMap`, place in `main` | one match | terminates, or is told why not |
| `ShipData` | the coordinates of each ship | `SetShip`, `SetShipCoord`, `ToMapData` | a map arrives as it was meant, in any notation |
| `ObjectPool` | a free list | `new`, `delete` | an address has one owner, and no pointer is left behind |
| window (`Application.cpp`) | the Direct3D device and eight objects made with it | `Initialize`, `CreateDeviceResources`, `DiscardDeviceResources`, `OnRender`, `WndProc` | what is drawn with belongs to the current device; the window is painted again after a loss |
| components and animation, `pugixml`, `backup.xml` | - | - | not modelled |

`README.md` of the repository says that pairing is done by `AutoMatcher` or, by
hand, by `BattleBoard`. `BattleBoard` and the `Screen` that owns either are not
in the repository; the model pairs with `AutoMatcher`.

### What is hard

`PROJECT.json` lists each hazard at its line. In groups: the regions of
`CircularBuffer` after long sequences of calls; a send or receive that is
pending while other code runs; the lock and condition variables; what may
arrive after an opponent has gone (its `Player` deleted, its `Game` not yet);
three lists in three managers that must agree; turns, boards, counts and scores
that are kept by different handlers and must fit; a client that waits for a
packet nobody will send; numbers, sockets and addresses that are used again
while something still refers to what had them before; packets that the
connection cuts anywhere; calls that fail half way; a map whose indices change
order twice on its way.

## 2. Modules

| Module | Models | Notes |
|---|---|---|
| `CircularBufferOps` | the operations of `CircularBuffer` as operators on a record | shared by the next two |
| `CircularBuffer` | one buffer under every sequence of calls its users make | `pending` is a posted `WSARecv` |
| `ByteStream` | abstract: a bounded stream of bytes | refined by `CircularBuffer` |
| `SendPath` | one session's way out: `SendRequest`, `SendFlush`, the kernel, `SendCompletion` | bytes are numbered |
| `ProducerConsumerQueue` | `Produce` and `Consume`, step by step | any threads; `Waiting` are those that wait |
| `BoundedQueue` | abstract: a bounded FIFO queue | refined by `ProducerConsumerQueue` |
| `Board` | `Player`'s map, attacks and the end of a game, on flat squares | pure operators; what `MapTravel` implements |
| `GameServer` | loop, sessions, managers, games, matcher and clients, packet by packet | composes `Board` |
| `Sessions` | the life of a session object: accept, `ClientManager`'s list, the operations the kernel holds, `Disconnect`, collection, `ObjectPool` | handles and addresses are used again |
| `Exchange` | one client and its session, byte by byte: `Network.cpp` under `main`, the connection, `PostRecv`, `RecvCompletion`, `OnRead` | on `CircularBufferOps` |
| `MapTravel` | a map from the client's placement through the packet to the server's board, and the attacks on it | composes `Board` |
| `Display` | the window's Direct3D device, its losses and failures | |
| `CircularBufferOpsProofs`, `SendPathProofs`, `ProducerConsumerQueueProofs`, `SessionsProofs`, `GameServerProofs`, `MatchProofs`, `ExchangeProofs`, `MapDisplayProofs` | theorems about the modules of their names | `SendPathProofs` has those about `CircularBuffer` too, `MatchProofs` those about the score and the send buffers of `GameServer`, `MapDisplayProofs` those about `MapTravel` and `Display` |
| `MC*` | values of constants for TLC | |

How they fit: `GameServer` is the whole server with packets as units. The other
modules open one of its assumptions each: that buffers are queues of bytes
(`CircularBuffer`), that what is written is sent (`SendPath`), that a receive
brings a packet (`Exchange`), that a session is there for its connection's time
(`Sessions`), that a map is a function on squares (`MapTravel`, by refinement of
`Board`), that sockets come in through a FIFO queue (`ProducerConsumerQueue`).

**State and code.** Pointers of `CircularBuffer` are offsets (`aPtr`, `bPtr`,
`NULL` for `nullptr`). In `GameServer`, `server.link[c]` is the session of a
client with what its send buffer holds as packets (`out`), the first `sent` of
which were given to `WSASend`; `server.players` and `server.games` are
`playerList_` and `gameList_`; `phase` says whether the pass has to accept
next or is in `SleepEx`; `accepts` is `pendingAcceptList`; `requests` and `wire`
are the two directions of a TCP connection; `pc`, `marked` and `told` are a
client's place in `main`, its `gEnemyMap`, and what it was told. Handlers are
operators from server state to server state that end with the handlers of the
events they raise, in the order of the listeners: `PlayerManager` before a
session, a session before the games made after it. `Disconnect` has a set of
outcomes, since `setsockopt` may fail in it. `Accept`, `RecvCompletion`, `RecvEnd`
(its error path, or the end of the stream), `SendCompletion`, `SendFails` (the
error path of `WSASend` and of its completion) and `FinishPass` (flush,
`RemoveOverGames`, `AutoMatcher`) are the server's steps.

In `Sessions` an object is its address: `session` maps the addresses of live
sessions to their fields, `list` is `mClientList` from handle to address,
`freeList` and `made` are the pool's, and `posted` is what the kernel holds, so
that `ops` (`mOverlappedRequested`) can be compared with it. Its phases are the
pass's: accept, completions, flush and periodic work. In `Exchange` a byte is a
packet's type and its place in the packet, so that a stream read out of step
shows; `window` is the space posted with `WSARecv`; `OnRead`'s loop is a recursive
function over `Rounds`, what a round may find; `asked` and `handled` are history. In `MapTravel` arrays `[x][y]` are
functions on pairs, and `placed` is history: what the client meant. In `Display`
an object is the number of the device it was made with, 0 for a NULL pointer;
`forgotten` collects what loses its last pointer without `Release`, and `parent`
and `ShowText` are two members that nothing initialises: their values are chosen
in `Init`, and a picture drawn through a garbage `parent` may end the process.

**Abstractions.** Bytes of `CircularBuffer` are an uninterpreted set; its users'
packets are sizes. A map is a function on squares; student numbers and texts are
left out, and names with them (`Exchange` sends them as bytes); the average number of turns is sent as the two numbers it is made of.
The kernel takes bytes of a send between `WSASend` and its completion, at one
moment. A client that leaves hangs up in order or by a reset, which discards
what the server has not received.

**What is assumed, and where it is dropped.**

- *A send completes before the flush of the next pass* (`GameServer`;
  `MaxPosted = 1` in `SendPath`). What is outstanding to one client is at most
  half of 128 bytes (`BacklogFits`, proved when students log in one after the other), far less than a socket's buffer, so that
  `WSASend` completes at once and the next `SleepEx` runs the completion. The run
  `send_path_slow` drops it, and finds bytes sent twice and lost.
- *Students log in one after the other* (`SerialLogin = TRUE` in `match`,
  `error_ends_match` and `sessions`), that is, a session's name arrives before
  the next socket is accepted. `three_players` and `racing_numbers` drop it.
- *A packet fits the send buffer* (`Send` in `GameServer`). `SendRequest` disconnects a
  session whose buffer is full (`ClientSession.cpp:177-182`); that path is left out
  there. `BacklogFits`, checked and proved for every match, justifies it under
  `SerialLogin`. In `three_players` and `racing_numbers`, where two sessions of one number get
  each other's packets, it is an assumption, and `ListsAlwaysAgree`, which does not ask for
  `SerialLogin`, holds under it. `SendPath` has the failing write.
- *`setsockopt` fails only where `LingerFails` says so* (`GameServer`). When it fails,
  `Disconnect` returns with the session connected and without `EVT_DISCONNECT`
  (`ClientSession.cpp:126-131`): the opponent is not told. `match` and `three_players` let it
  fail for every client, `error_ends_match` and `racing_numbers` for none; the proofs are
  for any `LingerFails`. `Sessions` has the same failure. `SendPath` and
  `Exchange` close the session at every `Disconnect`: one that stays connected without a
  receive handles no request again, and a refused packet leaves what is stored as it was,
  so that what the two promise of the bytes is promised all the same.
- *A send or a receive fails only when the other end has gone* (`GameServer`, `Sessions`,
  `Exchange`): a network that breaks while both ends live is left out.
- *Clients follow `Example.cpp`* with any maps and any squares, and may vanish.
- *A receive brings one packet* (`GameServer`). `Exchange` drops this: packets are
  cut and joined anywhere, and handlers still get each whole, once, in order. A
  client of the library has one request under way at a time, so region B of the
  receive buffer is never opened there; `CircularBuffer` has that case.
- *The window does not disturb the server* (`GameServer`, `Sessions`). `Display`
  shows that the loop goes on after a lost device, but for the uninitialised
  `parent_`.

## 3. Runs

| Run | Bounds | Shows |
|---|---|---|
| `circular_buffer` | 6 bytes, 2 values, chunks of up to 3 | types, `RegionsApart`, `HalfCapacity`, `ReceiveIntoFreeSpace`, refinement of `ByteStream` |
| `send_path` | 7 bytes of buffer, 12 bytes in packets of 1 to 3, one send at a time, fair | `InOrder`, `NothingLost`, `AllSent` |
| `send_path_slow` | 5 bytes, 4 in packets of 1 or 2, two sends | **violates** `NothingLost` |
| `queue` | 2 producers that wait, a consumer that waits and the main loop, which does not; 2 slots, 2 items, fair | types, `SomeoneAwake`, refinement of `BoundedQueue`, `EveryItemQueued` |
| `match` | 2 clients, one may leave, `setsockopt` may fail, 2 squares, 1 ship of 1, 2 games, fair | `OneTurn`, `ViewsAgree`, `TurnsCountAttacks`, `ScoreAgrees`, `BacklogFits`, `NoSurprise`; `MatchCompletes`, `SurvivorTold` |
| `three_players` | 3 clients whose logins race, all may leave, `setsockopt` may fail, 1 square, 1 game | `ListsAgree`, with the types |
| `racing_numbers` | 2 clients, logins race | **violates** `UniquePlayerNumbers` |
| `error_ends_match` | 2 clients, one may leave, fair | **violates** `ErrorEndsMatch` |
| `sessions` | 3 connections on 2 handles, the pool grows by 2, one send at a time, handles used again at once, `WSARecv`, `WSASend`, `setsockopt` may fail, fair | `OperationsCounted`, `PoolIntact`, `ListSound`, `OneOwner`, `Listening`, `UniquePlayerNumbers`, `ListedCollected` |
| `exchange` | buffer of 32 bytes, packets a quarter of the real ones, header of 2, 3 games of up to 2 attacks, fair | `HandledWhole`, `SessionLasts`, `InStep`, `MatchEnds` |
| `map_travel` | 3 by 3 squares, ships of 2, 1 and 1, every placement, notation and order of attacks | `MapArrives`, `AnswersTrue`, `GameEnds`; refinement of `Board`'s attack (`ImplementsBoard`) |
| `display` | 4 devices, 3 losses and failures, 2 messages, fair | `OneDevice`, `OnlyBrushesForgotten`, `Repainted` |

Where a module's `TypeOK` is not in the list of its run, it is the first conjunct
of another invariant (`ListsAgree`, `OperationsCounted`, `SessionLasts`,
`MapArrives`, `OneDevice`).

**Bounds.** Six bytes with chunks of three let A be behind, at and before the
middle, B be opened, filled and moved, and writes be refused in either region.
Seven bytes with 12 to send wrap the send buffer several times with packets that
do not divide it. Two slots and two producers let a producer sleep on a full
queue with two consumers in between, one of which gives up on an empty one. On two squares with one ship a game lasts
from one attack to three, and both a hit and a miss are answered; two games in a
match exercise the reset of boards, turns and states. Three clients leave one
unpaired and let a number be given out again while games go on. The number of
clients bounds players and games; each client connects once. In `sessions` the
third connection needs a handle and, if the first two are still listed, an
address that the pool has to allocate anew; if not, both are used again. In
`exchange` packets keep their ratios to the buffer: a map fills more than half of
it, and requests wrap it several times in three games; the header is of two bytes so
that it can be cut. In `map_travel` no side of the board is a symmetry of its
indices, so that a transposed map shows; two destroyers of equal length show
that each has its own squares. In `display` four devices allow three losses, each
after another creation, and failures in the creations between them.

**Deadlock** is not checked where the modelled part really may stop: in
`SendPath` when a session has accepted its `MaxBytes`, in `Exchange` when the
match is over or the client is gone, in `MapTravel` when the game is over, and in
`Display` when the process has ended. Everywhere else it is; the server's loop
never stops.

**Fairness.** `GameServer`: the loop runs (`WF` of the two ends of a pass),
completions that are queued are run by `SleepEx` (`SF` of a receive or of the end of
one, which are enabled in every pass but not between passes; `WF` of a send), and a
client takes its next step (`WF`). Nothing makes `setsockopt` succeed, so that
`SurvivorTold` excepts an opponent that is `Stranded`: gone, with a session that stays
connected because its one receive has ended in a `Disconnect` that failed. `ProducerConsumerQueue`: a thread in the middle of a
call runs on; it gets the lock if the others leave it free again and again,
which the main loop, asleep between its calls, does; the main loop calls
`Consume` for ever, producers need not call. `SendPath`: every pass flushes, the
connection takes the bytes of a send while it lasts, completions are run. `Sessions`:
the loop's parts run (`WF`), a completion that is possible in pass after pass is
run by `SleepEx` and the second between two collections passes at last (`SF`: both
are enabled only in some phases). `Exchange`: the client takes its next step, the
other player, a client like it, does too, and the session's receive completes.
`MapTravel`: the client goes on. `Display`: `Initialize` returns, every pass calls
`OnRender`, and messages are dispatched. No fairness is assumed of a client that
leaves, of a call that fails or of a device that is lost.

**Symmetry** (`Permutations(Client)`) is used in `three_players` only, which checks
an invariant; it is sound there: all clients may leave, and names are permuted
with them.

### What was found

1. `ClientSession.cpp:194`: a flush does not ask whether the last send has
   completed. With a slow receiver bytes are sent twice, then others are removed
   unsent (`send_path_slow`).
2. `ClientSession.cpp:49`: a number is taken at accept and occupied at the name;
   in between another session gets it too (`racing_numbers`).
3. `Example.cpp:157-161, 192-200`: an error in place of an OK passes for success
   and the client hangs (`error_ends_match`). When the error comes between two
   packets of a game, the client ends as it should.

Seen while modelling; the models follow the code, and no run is spent on them:

- `ClientManager.cpp:13`: `insert` does nothing when a closed session is still
  listed under the handle the system gives to the new one. That session works
  until its first answer: it is in no list, so it is never flushed and never
  deleted. `Sessions` reaches this state; `ListedCollected` is about those that are
  in the list, and `ListSound` and `OneOwner` say what holds all the same.
- `ClientSession.cpp:127`: when `setsockopt` fails `Disconnect` returns early. The session has
  no receive posted any more and stays connected; its player stays in the game, and
  the opponent waits for a turn that never comes (`Stranded`).
- `Game.cpp:26-49`: `IsFull`, by way of `AutoMatcher::Update` and `GetWaitingGames(true)`, drops
  both players of every game that has not started, whether they are connected or not. There is
  such a game only between the two events with which the matcher itself makes it and
  fills it, when it has no players yet (`OneWaits` in the proofs), so that it does no harm.
- `ClientSession.cpp:258`: the type of the event is sent as the error's.
- `Network.cpp:256` compares the function `recv` with 0, so that `Recive` goes round
  for ever when the server closes the connection in order. `Exchange` has no step
  for such a client.
- `Application.cpp:538-548` does not release the loupe's brush, although the
  comment above says that all device-bound resources are released; every
  picture makes a brush and a text format anew without releasing the last ones
  (`OnlyBrushesForgotten` says that nothing else is dropped). When a creation
  behind the swap chain fails, nothing is made again and the window stays dark.
- `Component.cpp:44`, `Application.cpp`: `parent_` and `ShowText` are used before
  anything sets them.
- `ClientSession.cpp:280-281` puts the receiver's own name into GAME_START, where
  `Example.cpp:120` expects the opponent's; `PlayerManager.cpp:26-36` never sends the
  `ET_DUPLICATED_NAME` of `Example.cpp:106`; `Game.h:48-54` always lets player 2
  begin; `Player.cpp:20-21` admits coordinate 8; the repository's `README.md:32`
  allows letters for coordinates, which `SubmitAttack` does not convert (`SubmitMap`'s
  are, see `MapTravel`).

## 4. Proofs

Checked by `tlapm` for every value of the constants that satisfies the named
assumptions.

- `SendPathProofs`, the buffer. The inductive invariant `IInv` has the types, the
  regions and what is known of a posted receive: its place and size are those of
  the write region, since while it is posted nothing moves. `RegionsApart` needs
  more than disjointness to be inductive: while B is open, A is not empty and
  ends beyond the middle, for B is opened only then and A is only drained after.
  That also gives `HalfCapacity`. `ImplementsStream` maps each step to the same
  call on the stream `Contents(buf)`: `StoreAppends`, `RemoveDropsPrefix`,
  `PeekedIsPrefix` and `SwitchKeepsContents` of `CircularBufferOpsProofs` are its
  lemmas. Assumed: the capacity is a positive number.
- `SendPathProofs`, the way out. If `MaxPosted = 1`, the bytes reach the network once and in
  order (`SentInOrder`) and none leaves the buffer unsent (`SentBeforeRemoved`).
  The invariant `SInv` says that the buffer holds exactly the numbers after those
  removed, up to those accepted, and that the one send posted covers a prefix of
  region A, which writes do not touch and only its completion removes.
- `ProducerConsumerQueueProofs`. `ImplementsQueue`: the ring implements
  `BoundedQueue` for all sets of threads, sizes and choices of who waits; the
  types are the invariant, and the lemmas say that `Fill` appends and `Drain`
  takes the head of `Contents`, past the wrap of the ring. `SleepersHelped`: while
  a consumer sleeps, there are at least as many *helpers* as items (producers about
  to wake somebody, consumers on their way through the lock), and the same holds of
  producers and free slots. This counting invariant, `Helped`, is what "some waker
  exists" has to be strengthened to: two items stored while two consumers sleep
  need two wake-ups. Both sides are one lemma, `SideKeeps`, used twice. From it
  `SomeoneStaysAwake`: the waiting threads never all sleep. Assumed: finitely many
  threads, some waiting ones on either side, and fewer polling threads
  (`Thread \ Waiting`) than slots. The last is needed: with one slot and one
  polling thread TLC finds all waiting threads asleep for as long as the polling
  thread is between its unlock and its wake-up.
- `SessionsProofs`. `OperationsCounted`, `PoolIntact`, `ListSound`, `OneOwner`,
  `Listening`, and `UniquePlayerNumbers` if `SerialLogin`, for any handles and any
  number of sockets. The invariant `LifeInv` adds to them what links the kernel's
  operations to the objects: whose handle is open, which object an event's
  listener is, when an object may have operations at all. `SessionsCollectable`
  shows that the list always gives an order to delete the sessions in, so that
  `CollectGarbage` is never blocked by the model.
- `MapDisplayProofs`, the window. `HoldsOneDevice` and `ForgetsBrushesOnly` for any number of devices,
  faults and messages. The two hold together: `CreateDeviceResources` starts only
  without a swap chain, then by `OneDevice` nothing but the loupe's brush is held,
  so that nothing else can be written over.
- `MapDisplayProofs`, the map. `MapArrivesWhole`, `AnswersAreTrue` and `ArraysImplementBoard` for any
  set of ships and lengths. The invariant `TravelInv` follows the map through its
  four forms (the client's rows, its coordinates in one of the notations, the
  packet's rows, the server's columns), by the lemma that a place in the flat
  array names one square. Assumed: the side is at most 9, since a row is written as
  one digit (`MAP_HEIGHT` is 8), and for `ArraysImplementBoard` that ships 4 and 5,
  which share `AR_DESTROY_DESTROYER`, are of one length (both are 2).

- `GameServerProofs`. `ListsAlwaysAgree` for any number of clients, any board and any
  ships, with `MayLeave` and `SerialLogin` as they like. A handler is an operator from
  server state to server state, so the inductive invariant is a predicate on such a
  state, `Lists(s, D)`, and each operator has a lemma that it keeps it: `SendKeeps`,
  `SetPlayerKeeps` and `SetGameKeeps`, then Game's handlers, the session's, the
  end of the pass. `ListsAgree` is not inductive: it says that a player of a game that
  is not over is in no other game, and needs that no two games share a player, be they
  over or not (`Apart`), that a connected session has a number, and that the clients
  outside (`D`: not connected yet, or in `pendingAcceptList`) have no session. Three
  things the code searches for are shown to be there: a free player number when a
  socket waits (`NumberLeft`: players have sessions of their own), a free game
  number when a player waits (`NewGameNumber`: each game has a first player of its own,
  who does not wait), and the walk of `AutoMatcher::Update` over the pairs
  (`WalkExists`, `WalkKeeps`), both by the smallest number of pairs for which it fails.

- `GameServerProofs`, the protocol of a match: `AlwaysOneTurn`, `ViewsAlwaysAgree`,
  `TurnsAlwaysCount` and `NeverASurprise`, assuming `SerialLogin` (without it numbers are
  shared, and `racing_numbers` shows what comes of that). The four have one inductive
  invariant, `PInv`, on top of `LInv`. Its server half, `Even(s)`, says that numbers are
  unique, that a game's players do not wait, and that a game is `Level`: both play, a
  turn belongs to one of them and their turns count the attacks, or the boards are
  clean and no turn was taken. Its client half says of each client that it is in the
  middle of a *conversation*, `Conv`: what the server thinks of its player (`Role`: it is
  to name itself, waits, is to send a map, is ready, has the turn, has it not, or its
  game is gone), the packets it has still to read, the request on its way and its
  place in `main` fit together. The packets lead from where the client is to where the
  role says it must end up (`Leads`, by `After`, which restates main's receive loops);
  what asks for a request is the last of them; a request is one that the role allows
  (`Right`). That the packets are a path, and not only typed, is what makes it
  inductive: the head of the queue is what the client expects now because the whole
  queue is what it will expect. After a game is gone the path may end in an error
  that the client takes for an answer (finding 3), which `Parting` says.
  The proof has a layer for each side: the lemmas `Conv...` say how a conversation goes
  on for one packet more or one packet less, without the server; `...Effect` say which
  packets a handler gives to whom (`Gives`) and which roles it changes; `...Carries` put
  them together for the two players of the game, and `OthersSame` for everybody else.
  That no one else is affected needs `Unique` (no two players have one number);
  `SerialLogin` is used for one thing, that `Accept` keeps it.

- `MatchProofs`, the score: `ScoreAlwaysAgrees`, under the same assumption. Its
  invariant, `SInv`, stands on top of `LInv` and `PInv`. `ScoreAgrees` speaks of a game
  that two clients are both playing and of a client that has its total; between the two
  the game is over, or the opponent has left, and packets are still on their way. `SInv`
  says at all times, of each client, that the wins and games it has counted with
  the results it has still to read are those its player is credited with (`Counts`), as
  long as the player is in a game or waits for one; and that an `ALL_OVER` on its way
  comes after every result, with their number of wins, in the last of `MaxGames` games
  (`Tallied`). The server's half, `Credits`, is that the two players of a game share its
  past games out between them and that who waits has won none: a player is matched once.
  `Tallied...` say what one packet more or less does to the count, `...Rates` that a
  handler keeps both halves (`Rates`).

- `MatchProofs`, the send buffers: `BacklogAlwaysFits` (`BacklogFits`), under `SerialLogin`, for any number of
  clients, any board and any ships. A client's `Stage` is its role in the match, or
  `over`, or `alone` when the other has left; `Most` gives for each stage how many bytes
  may be unread, how many its send buffer may hold, and how many of these may be new
  since the last flush. The largest are 50 unread and 58 held, of 64. The invariant
  `BInv` (`Fine`), on top of `LInv` and `PInv`, says that every connected client is within
  these numbers (`Fits`), and two things without which they would grow from turn to
  turn. A request is on its way only when its client has read everything, so
  that an answer never comes on top of another one. And when who has the turn has been
  sent all, so has its opponent (`Behind`): one flush serves both, and what an attack
  sends to the other player finds that player's buffer flushed. The bytes of a queue of
  packets are summed by a recursive function; `BytesAre` and `BytesConcat` say that the
  sum exists, is the only one and adds up over a concatenation, each by the least
  number at which it would fail.

- `ExchangeProofs`: `ReachHandlersWhole` (`HandledWhole`), `SessionsLast` and `StaysInStep`
  (`InStep`), for every capacity that has room for a request, every size of header
  and packets, every number of games and attacks, and every cut of the bytes. The
  invariant `EInv` ties the two ends of the connection together. On the way to the
  server: what the session stores, what is on the wire and what the client has not
  sent yet (`Asking`) are, put together, nothing or the one request last asked for,
  and what is stored is no complete packet and lies in region A alone (`Posted`); so
  there is always space for the next receive, although the regions waste some. On
  the way to the client: what `Recive` has and what is to come (`Answers`) are whole
  packets that lead `main` from where it is (`Place`) to where the game's stage waits
  for it (`Goals`), with an error behind them when the other player has left
  (`Leading`); and while a request is under way there are none. `InStep` alone says
  nothing of where the client will be when it has read a packet, so it is no
  invariant of `Returns`; `Path` carries, byte by byte, where it will be. `OnReadIs`
  shows that `OnRead`'s loop goes round once or not at all in these states: it gives
  the recursive function's values and shows, by the least number at which it could
  differ, that it has no others.

All the safety properties that the passing runs check, invariants and action
properties, are proved in this way. Only model-checked is liveness (`EveryItemQueued`,
`AllSent`, `MatchEnds`, `Repainted`, `GameEnds` and the rest), which the proof system does
not reach.

## 5. Not modelled, and the plan

Not modelled:

- `EventManager`'s multimap: `GameServer` takes its order, registration's, and
  `Sessions` its set of listeners; adding and removing listeners inside of
  `Notify` is not.
- Malformed packets, and coordinates off the board: clients of this library send
  none. Names and numbers of students, and the texts the server shows.
- `BroadcastPacket`, which nothing calls, and `OnTick`, which is empty.
- Components and animation: matrices and positions of what is drawn. Every
  component but `Application` (`Screen`, `BattleBoard`) is missing from the
  repository, so that `WndProc`'s key events have no handler here; `Application`'s
  sample scene is commented out or never called.
- `pugixml`: a vendored XML parser of 12 000 lines, two thirds of all the lines of the
  repository's implementation; no source calls it. `PacketType.h` is there
  twice and `Event.h` is declarations of data; `Example.cpp`'s console output is
  not modelled.

Plan, for what is left:

1. `EventManager` with nested registration, as the reason for the order that
   `GameServer` assumes.

Liveness and recursion over data are beyond the proof system and stay with TLC.
