# MicroStarCraft: models, model checking and proofs

This directory specifies MicroStarCraft (a grid real-time-strategy game: a C++
engine, a gRPC server, an OpenGL observer and a vectorised interface for training)
in TLA+, checks the specifications with TLC on small boards, and proves the
results that matter most for every board and every rule table with TLAPS.

## 1. The system

| Component | Source | State it keeps | Operations |
|---|---|---|---|
| Types and rule tables | `game_types/game_types.h` | constant tables | equality, assignment, (de)serialization |
| Map generator | `server/engine/game_engine.cpp` `GameReset` | writes a whole `GameState` | roll expansions, lay minerals and terrain, mirror the half board |
| Engine | `game_engine.cpp` `GameStepSingle` | `GameState`: `objMap`, `resource`, `buildingCnt`, `time`, `objCnt` | one tick: ATTACK, PRODUCE, MOVE, GATHER, RETURN, refresh |
| Flat action decoding | `game_engine.cpp` `GameStep` | none | one byte plane per parameter to one order per object |
| Observation encoder | `server/engine/state_to_observation.cpp` | none | state to planes, rewards and action masks |
| Vectorised interface | `server/engine/client_interface.cpp` | `gameStateVec`, `taskCounter`, shared buffers | `Init`, `Step`, `Reset` |
| Thread pool | `3rdparty/thread_pool/thread_pool.h` | task queue, `stop` | `enqueue`, worker loop, destructor |
| Service | `server/service/rts_service_impl.cpp` | flags `reset`, `tick`, `tickingCycle`, `initParam`, `totalAction`, `stateLock` | main loop, observer streams, player streams |
| Replay | `rts_service_impl.cpp` `StepReplay`, `InitReplayStream` | file streams | record every state, play them back |
| RPC client | `observer/client/rpc_client.cpp` | one command slot, last state, orders | `Connect`, `SendCommand`, `SetAction`, `GetObservation` |
| Human player | `observer/ui/human_ai.cpp` | standing orders per unit | `Act`: click to order, path search, automatic attack |
| Observer window | `observer/ui/*` | widgets, meshes | rendering, buttons |
| Bot clients, server starter, training environment | `client/*` | last state | connect and drive the above |

How they interact: the main loop thread holds `stateLock` for a whole iteration and
calls the engine inside it; the handlers of observer streams write the flags
`tick`, `reset` and `tickingCycle` without the lock; the handlers of player streams
replace `totalAction` under the lock; one writer thread per stream copies the state
under the lock and sends it. In training the caller of `Step` puts one engine tick
per game into the thread pool and spins on `taskCounter`. The observer's window
talks to its stream through the one-slot mailbox of the RPC client.

### What is hard, and what would make each part correct

| Part | Hard behaviour | Correct means | Where |
|---|---|---|---|
| Engine | a tick is nine loops over unordered maps; claims of both players compete for tiles, minerals and money; actions run over several ticks; objects die between the loops that refer to them; one loop inserts into the map it goes over | tiles are exclusive, lookups of old targets succeed, money is conserved and never owed, nothing is interrupted or stuck, the building count is the buildings | modelled, proved but for completion |
| Service | three kinds of threads, three flags that no lock guards, a lock held while writing to the network, requests that arrive while they are being served | no torn state is sent, no order is carried out twice, late or in another game, ticking stops, commands are neither lost nor doubled, everyone sees the newest state | modelled, proved but for liveness |
| Map generator | random rolls with rejection, mirrored halves, overlapping clusters | the board is symmetric, has a base per player, and no two objects share a tile (`BoardLayout`, which the engine's proofs assume) | modelled, proved |
| Observation encoder | the masks restate the engine's guards in another language of planes and offsets | an order the mask allows is one the engine takes, and no order it takes is masked out; rewards say what happened | modelled, proved |
| Vectorised interface, thread pool | a counter as a barrier, reset between batches; tasks that throw | `Step` returns after every game has had its tick, once, and nothing it has started runs on | modelled, proved but for liveness |
| Replay | two end-of-file states, records cut off by a crash | what is played back is what was recorded, and a playback stops | modelled, proved but for liveness |
| RPC client | a one-slot mailbox emptied and filled in separate steps by two threads | no command is lost or sent twice; the window does not hang while it is connected | modelled for a user who waits for a Connect, proved but for liveness |
| Human player | standing orders that outlive what they are about; a path search for each unit, in a frame in which the others move too | a player's units do not get in each other's way; what was told to be done is done | modelled, proved but for liveness |

`PROJECT.json` lists the single hazards with the line where each one bites and the
properties that cover it.

## 2. Modules

| Module | What it is |
|---|---|
| `GameTypes` | object kinds, masks and rule tables of `game_types.h`, and the geometry |
| `GameEngine` | one game: `GameStepSingle` and every function it calls |
| `GameEngineProps` | what is claimed of it, the inductive invariant `IInv`, and what is added to it for counts, timing and sums |
| `MCGameEngine` | two 3x3 boards and the scaled rule tables for TLC |
| `GameEngineProofs` | `IInv` is inductive; the life of an object from loop to loop, the count of buildings, the worth of a game; twelve theorems |
| `RtsService` | the server: `mainLoop`, handlers, writers and their clients |
| `RtsServiceProps` | what is claimed of it, the inductive invariant `ServiceInv`, and what `message.proto` says of the commands |
| `MCRtsService` | one observer and one player for TLC |
| `RtsServiceProofs` | `ServiceInv` is inductive; six theorems |
| `ThreadPool` | the queue, the condition variable and the workers of `thread_pool.h` |
| `VecInterface` | `Step` and `Reset` of `client_interface.cpp` on top of it |
| `VecCalls` | the abstract specification: the same calls as if there were no threads |
| `VecProps` | what is claimed of `VecInterface`, the refinement mapping `Calls`, the inductive invariant `VecInv` |
| `VecProofs` | `VecInv` is inductive, and `VecInterface` implements `VecCalls`; four theorems |
| `Training` | planes, masks and rewards of `state_to_observation.cpp` and the flat orders of `GameStep`, over `GameEngine` |
| `TrainingProps`, `MCTraining` | what is claimed of it, what a running tick keeps of the game it began with, and its instance for TLC |
| `TrainingProofs` | that the masks leave nothing out and are obeyed, and the rewards say what happened; five theorems, on top of those about the engine |
| `MapGenerator` | `GameReset`: rolls, terrain, owners, mirror |
| `MapGeneratorProps` | what is claimed of it, the inductive invariant `GeneratorInv`, and what is added to it for room and terrain |
| `MCMapGenerator` | a 10x10 board and four requests for TLC |
| `MapGeneratorProofs` | `GeneratorInv` is inductive, and gives the engine its `BoardLayout`; four theorems |
| `Replay` | `mainLoop` with the two file streams, killed at any moment and started again on what it left |
| `ReplayProps`, `ReplayProofs` | what is claimed of it, and why: `ReplayInv` is inductive; two theorems |
| `HumanAi` | the player's clicks, standing orders and path search of `human_ai.cpp`, over `GameEngine` |
| `HumanAiProps`, `MCHumanAi` | what is claimed of it, the inductive invariant `HandInv`, and its instance for TLC |
| `HumanAiProofs` | `HandInv` is inductive; one theorem, on top of those about the engine |
| `RpcClient` | the observer's window, its connections and the mailbox between them |
| `RpcClientProps`, `RpcClientProofs` | what is claimed of it, and why: `ClientInv` is inductive; four theorems |

The engine is the most important part and everything else calls it, so it came first.
The service sees it from outside: `Ticked` and `NewGame` are what a tick and a Reset
of `GameEngine` can be told by (ids given out, a state that is new, an end of the
game, a throw). The two modules meet in one fact: `GameReset` empties `objMap` and
does not reset `objCnt`, so an id is never used twice.

`Training` extends the engine: it adds the copy of the game that `Step` makes before a
tick (`last`), and every property of it relates that copy to the game during or after
the tick. `VecInterface` extends `ThreadPool` and sees a game as the number of moves it
has made, since all it does with games is to hand them to jobs. `RpcClient` is the other
end of a stream of `RtsService`; each of the two takes the other as a peer that asks, or
answers, when it likes. `MapGenerator` stands before the engine: `IsLayout` of `GameTypes`
is what the one is proved to leave and what the other assumes of its boards. `Replay` is
`mainLoop` again, this time with what it does to files instead of what it does to
streams. `HumanAi` extends the engine by one that gives orders, as `Training` extends it
by one that learns from it.

### GameEngine and the code

A tick is a fixed sequence of loops. `phase` is the loop that runs; an iteration that
changes something is an action, in any order, since the loops go over `unordered_map`s.

| `phase` | Code | Actions |
|---|---|---|
| `idle` | between two calls of `GameStepSingle` | `BeginStep` builds `coordIdxMap` |
| `attack`, `hurt` | `GameStepAttack`, `GameExecuteAttack` | `StepAttack`, `EndAttack`, `ExecuteAttack` |
| `produce`, `execProduce` | `coordOccupationCount`, `GameStepProduce`, the collision check, `GameExecuteProduce` | `CountOccupation`, `StepProduce`, `ProduceThrows`, `ExecuteCollisions`, `ExecuteProduce` |
| `move` | `GameSettleProduce` (while `todo` is not empty), `GameStepMove`, `GameExecuteMove` | `BeginSettleProduce`, `SettleProduce`, `StepMove`, `ExecuteMove` |
| `settleMove` | `GameSettleMove`, `coordGatherCount` | `SettleMove` |
| `gather`, `settleGather` | `GameStepGather`, `GameExecuteGather`, `GameSettleGather` | `StepGather`, `GatherThrows`, `ExecuteGather`, `SettleGather`, `EraseMinerals` |
| `return` | `GameStepReturn`, `GameRefresh` | `StepReturn`, `ReturnThrows`, `GameRefresh` |
| `threw` | `at()` has thrown and nothing catches it | `Threw` (no tick any more) |

What is abstracted:

- *Orders.* A tick takes a map from object to one order. An order whose handler skips
  it leaves no trace, so the model picks an order in the handler that lets it pass, and
  `spent` keeps the objects whose order is used up. The guards of the handlers are
  operators of their own (`PassesMove` and the like, `Passes` for any order), so that
  `Training` and `HumanAi` can say what a handler would take. Player A's orders run before player
  B's in the loops where that can be seen (`AfterPlayerA`).
- *Counters.* `coordOccupationCount` and `coordGatherCount` are only compared with 1,
  so they are 0, 1 or `Many`. A tile that an object holds counts as `Many` from the
  start: a claim on it can only fail, and claims that can only fail are not made.
- *Rehash.* `GameSettleProduce` inserts into `objMap` inside a range-for over it. When
  the insertion rehashes (at the sizes in `RehashSizes`), the rest of the iteration is
  unspecified: the model visits any set of the other producers, including ones that
  were visited before.
- *Board.* A game begins on any board that meets `BoardLayout`; that `GameReset` leaves
  no other is the theorem `ResetLaysOut` of `MapGeneratorProofs`. Boards are square in this
  program, so that one of the bounds checks compares `y` with `game.w` makes no difference. `objCnt` starts at the number of
  objects laid out; after a RESET it goes on from where it was, which only shifts ids.
- *Numbers.* The widths of integers are not modelled. `time` saturates at `TimeCap`: no
  rule of the game reads it.

### RtsService and the code

| Actor | Code | Actions |
|---|---|---|
| main loop (`mpc`) | `mainLoop`, one action per access to a shared variable | `MainLock`, `ReadReset`, `RunReset`, `ClearReset`, `ReadTick`, `RunTick`, `ClearTick`, `ReadCycle`, `RunCycle`, `Unlock`, `StopTick`, `StopCycle` |
| writer (`stream[c].writer`) | the lambda given to `std::thread` in `ConnectObserver` and `ConnectPlayer` | `CheckEnd`, `CopyState`, `WriteLocked`, `Write` |
| handler (`stream[c].reader`) | the `while (stream->Read(&msg))` loops | `ReadStart`, `ReadStop`, `ReadStep`, `ReadResetRequest`, `SetReset`; `ReadEcho`, `ReadRequest`, `Submit`; `ReadDisconnect`, `ReadEnd`, `Join` |
| client and connection | gRPC, and the clients under `src/client` (external) | `Connect`, `ClientEnds`, `ClientReads`, `SendRequest` |

`holder` is `stateLock`; `flag` holds `reset`, `tick` and `tickingCycle`. `asked` is a
history variable: no guard reads it, and the properties use it to tell what the clients
asked for from what the main loop did. A state carries `whole`, which is FALSE when it
is copied while the main loop is inside Reset or a tick.

What is abstracted: `tickingCycle` is a Boolean (that `INT32_MAX` milliseconds are 24.8
days and not for ever is left out), time passes at will, a request carries at most one
order, for a unit the player has been sent, and every player keeps its side. A player
has one request under way at a time. `buildingCnt` starts at 1 and 1, so nothing is over
before the first RESET.

### VecInterface, ThreadPool and the code

| Actor | Code | Actions |
|---|---|---|
| caller (`pc`) | `Step`, `Reset` | `BeginStep`, `CopyStates`, `BeginReset`, `Submit`, `EndActs`, `ClearCounter`, `Return` |
| worker (`worker[w].at`) | the loop in the constructor of `ThreadPool` | `Take`, `Sleep`, `WakeSpuriously`, `Leave` |
| job (`worker[w].job`) | the functions bound in `Step` and `Reset` | `Act`, `Throw`, `Observe`, `Count` |
| end of the process | destructor of `ThreadPool` | `Close`, `Closed` |

What a thread does while it holds `queue_mutex` is one action. `notify_one` wakes any of
the workers that sleep, and a sleeping worker may also wake up for no reason. `fit` is
the set of games that the action data is long enough for; `GameStep` returns at once for
the others. Only a tick may throw: the exception stays in a future that nobody holds,
and the job does not count. A process that runs a call does not end: the pool is closed
between calls. A second `Init`, which replaces the pool, is left out.

### Training and the code

`ob[0]` is the set of the numbers of its bytes that are true. `Byte` counts as the code
does, so that a tile beyond the edge of the board falls on a byte of another tile or of
another plane. A mask is the set of the orders that `GameStep` makes of what it allows:
the decoding and the mask go through the same tables (`DIRECTION_TARGET_MAP`,
`AttackOffset`). `LossesAreRewarded` finds out from the objects after the tick who has shot
at whom, which is why it is about players that have lost nothing themselves.

### RpcClient and the code

| Actor | Code | Actions |
|---|---|---|
| window (`gui`) | the handlers of `rts_observer.cpp`, `SendCommand`, `GetObservation` | `PressCommand`, `PressDisconnect`, `SetStop`, `PressConnect`, `AskForReset`, `Quit`; `TestStop`, `AwaitEmpty`, `Fill`, `AwaitTaken`; `Render`, `Paint` |
| reader (`conn[c].reader`) | `Connect`, in a thread of the window's pool | `GiveUp`, `Begin`, `TestReader`, `Read`, `ReadFails`, `Store`, `Join` |
| writer (`conn[c].writer`) | the lambda given to `std::thread` in `Connect` | `FindLost`, `Load`, `Write`, `Clear` |
| server and net | gRPC (external) | `ServerEnds`, `Lose` |

`command` is the mailbox, and commands are known by the number of the `SendCommand` that
put them there; `asked` and `sent` are history variables. The user is taken to wait for
what became of the last Connect before he presses the button again (`PressConnect`). A
user who does not wait gets two writers on one mailbox, and the invariant
`CommandsArrive` does not hold for him: this is the hazard at `rpc_client.cpp:186`, and
the assumption is the model's, not the code's.

### MapGenerator and the code

`stage` is how far `GameReset` has come.

| `stage` | Code | Actions |
|---|---|---|
| `expand` | the loop over `expansionCnt`: up to a hundred rolls, the base, the clusters | `PlaceExpansion`, `EndExpansions` |
| `terrain` | `terrainFlagVec`, shuffled; the loop over the half board | `SkipTile`, `LayTile`, `ReadFails`; `SetOwners` |
| `mirror` | the loop over `cpy` | `Mirror`, `Finish` |
| `failed` | the vector got a negative size, or a read behind its end did not return | none |

The random engine may roll anything: an expansion is placed on any tile that a roll is
not repeated for, or none is (a hundred rolls may fail although there is room). Only the
number of flags that are still to be read and set is kept of the shuffled vector. The
vector has an entry for each tile that is free if every expansion was placed; when one
was given up the loop reads behind its end, which is a nondeterministic flag
(`MaxStray` bounds how many of them are set) or no return at all.

### Replay and the code

| Actor | Code | Actions |
|---|---|---|
| main loop (`mpc`) | `mainLoop`, `StepReplay`, `InitReplayStream`, `operator<<` and `operator>>` of a state | `ReadReset`, `RunReset`, `ClearReset`, `ReadTick`, `RunTick`, `ClearTick`, `RunCycle`, `SkipCycle`, `Continue`, `StopTick`, `StopCycle` |
| observers | the flags their handlers set | `Request` |
| the process | started with `--replay` after it was killed | `Kill`, `Restart` |

`written` says of each record how its game stood. Before the first Reset the board is empty
and `buildingCnt` is 1 and 1 (`Init`), so that a STEP then records a game that is not over,
does not stop the clock and is not flushed. For the same reason nothing but the stream stops
the clock of a playback before a record has been read, as with a file that is empty or was
cut off within its first record.

A record has four parts, and the buffer of the stream may have written any number of
them when the process is killed; only the flush at the end of a game is certain. A cut
within a part is taken for a cut before it, but for the first part, where it is taken for a
cut behind it: in both cases `operator>>` clears `objMap` and the stream fails in the same
call. What is left out is what a loop over a torn size does before it ends (an exception of
`reserve` is caught in `StepReplay`). `ifs` is
the stream that is read: `peek` sets `eof` at the end of the file, and the next `peek`,
which finds it set, sets `fail`; the states of the two reads behind the end are apart.
`Torn` is what `operator>>` makes of a record whose rest is missing. `clear` in `close`
and `open` are what `Opened` stands for.

### HumanAi and the code

| Actor | Code | Actions |
|---|---|---|
| the player | `RtsMap`'s right click, and the production buttons | `Click` |
| the window | `Act`, with each frame | `Frame`, `Visit` (one standing order: `ProcAction`, `ProcMove`), `EndAct` (automatic attack, `SetAction`) |
| the server | one tick of `GameEngine` with the orders it holds | `Tick` |

`standing` is `actionMap`, `tx` is `txActionMap`, and `pass` holds what lives as long as
one `Act` (`occupationMap`, `toGatherSet`, and the units the loop has still to come to).
The loop goes over an unordered map: units come in any order, and of several shortest
ways, or nearest bases, any may be taken, since a map decides it in the code.
`FirstSteps` gives by a recursive function what the breadth-first search of `ProcMove`
finds: the first steps of the shortest free ways. `Tick` gives every order that was sent
to its handler: a loop ends only when none is left that would pass (`AnyLeft`). `ProcMove` and the engine judge a tile by different means
(`occupationMap` of one frame, `coordOccupationCount` of one tick), and `StepsAreTaken`
is about where the two meet.

## 3. What the runs check

| Run | Bounds | Shows |
|---|---|---|
| `Economy` | 3x3, a base each, one mineral of two units in the middle; workers cost 2, bank 2; 270 000 states | types; the lookups of `GameSettleGather` find their mineral; every GATHER pays; no object freezes; a BASE shows the bank; the worth of the game is conserved |
| `Builders` | 3x3 corridor, cheap workers and barracks, bank 2, attacks that reach round the corner, rehash at 7 objects, fair ticking; 106 000 states | tiles are exclusive; no bank is overdrawn; `buildingCnt` is the buildings on the board; the defeated have nothing left; a defeat is final; an action under way is neither interrupted nor redirected, and ends |
| `Service` | one observer and one player, two requests each; 1 632 000 states | orders stay in their game, are carried out once and in order; no state is sent torn; ticking stops; nothing is served twice |
| `ServiceLive` | one request each, the player may leave; 45 000 states | connected clients come to see the newest state; the threads of a stream that said DISCONNECT end |
| `Vec` | two workers, games of two moves, calls until then, the pool closed at any time between; 19 000 states | no job outlives its call; threads make no difference (`VecCalls` is implemented); calls return unless a tick throws; a closed pool loses its workers |
| `Training` | 3x3, a base each, a mineral of one unit, bank 1, everything but bases costs 1; 522 000 states | what a mask allows is obeyed and what it forbids is refused, but for the refusals that `KnownRefusal` and `Vacated` name; rewards for births, income, hits, losses and the end say what happened |
| `RpcClient` | two connections, two commands; 312 000 states | commands go out once, in order, with their own orders; no state is overlooked; `SendCommand` returns and threads end, unless a connection is lost |
| `Verdict` | as `Builders` | **violated**: the log announces a draw for a game player B won with one building, and a win of player A for a draw (`game_engine.cpp:369`) |
| `MapGenerator` | 10x10, four requests (a full cluster; terrain; two expansions, of which the second may not fit; more than there is room for), ids from 2, one stray flag; 767 000 states | the board meets what the engine assumes of it; bases have room; terrain is as asked unless an expansion was given up |
| `Replay` | a game of three records, killed anywhere, played back any number of times; 143 000 states | what is shown is what was recorded, in order, but for a torn last record; a playback stops of itself |
| `HumanAi` | 3x3, two minerals of two units, a base each, workers cost 1, bank 1; four clicks of one player; 1 403 000 states | the steps of a player's units in one frame are all taken, but for contested destinations; orders that nobody is in the way of are done |
| `LostCommand` | one observer, six requests | **violated**, for a STEP, a RESET and a START in one behaviour: a STEP that arrives while the tick of another runs is wiped (`rts_service_impl.cpp:194`), a RESET that arrives while another is finished is wiped (`:190`), and a START that arrives with a RESET in the iteration in which the old game is over leaves a new game that does not tick (`:205`) |

Why the bounds are enough:

- *Boards.* `GameReset` lays a base only on boards from 10x10 on. The 3x3 boards keep
  what competes: a mineral that both players reach from two tiles each, and a corridor
  where everything is in somebody's way. The theorems of section 5 hold for every
  layout, the real ones included.
- *Rule tables.* The scaled ones keep the order of magnitudes that decides (who can be
  afforded, who survives a hit) and shorten times, so that births, deaths, arrivals and
  the end of a game all happen. `LongRange` lets a worker shoot round the corner, so
  that a base can fall while its owner still has units.
- *`RehashSizes`* is the size the board reaches with the second birth of a game, so that
  the unspecified rest of the iteration is met with another producer still to visit.
- *Service.* Two requests of an observer are enough for each pair of commands, in every
  interleaving with a whole iteration of the main loop; `LostCommand` has six, for a
  START alone needs four (RESET and START for a game that ends, and RESET and START for
  the next one). Two requests do not bring about a tick of the clock in a game that was
  over before; that there is one at most (the second half of `TickingStops`) rests on the
  theorem `ClockStops`. `MaxVersion`, `MaxUnits` and `MaxRequests` bound the model only;
  `Window` is one message, the tightest flow control, which makes every `Write` block as
  soon as it can.
- *`Vec`.* With two workers every pair of places in the loop of a worker meets, and a
  third one could only wait or run beside them; `VecInv` holds with three as well, and
  the proofs are for any number. Two moves let a second call begin on what the first has
  left.
- *`Training`.* Times are as short as they can be, so `RehashSizes` is empty: with it a
  rehash would run a production to its end in the tick in which it began, which the real
  times exclude (`ProductionOutlasts` below). `Builders` looks at rehashes.
  `MaxAttackRange` is 3, as in the code.
- *`RpcClient`.* One connection and the next one, a command under way and the one it may
  be mixed up with: the state between them is one slot and one flag.

- *`MapGenerator`.* 10x10 is the smallest board that has room for an expansion, and for
  two side by side. The rolls of every board and request are in the proofs.
- *`Replay`.* Three records: one that is whole, one that may be torn, and one that is
  lost; with steps before the first Reset, games that end at any record, and files that are
  empty or cut within their first record.
- *`HumanAi`.* A worker that is told to gather goes to and fro between a mineral and the
  base; four clicks let two workers be produced and sent, or one be sent four times. The
  other player gives no orders; units of the player that have none attack for themselves
  (`Bored`).

Deadlock is checked in every run but two. In `RpcClient` a window in which nobody presses
a button does nothing, and in `MapGenerator` a `GameReset` ends, and rightly so. A service whose clients are all done
still has a main loop, a game that threw takes the step `Threw`, and a caller that waits for a game
that threw spins (`Idle`).

## 4. Fairness

- `GameEngine!FairSpec`: `WF_vars(Next)`. Ticks are called for as long as the game is
  played, and a tick that has begun runs to its end. Which orders are given is not fair
  at all.
- `RtsService!FairSpec`: weak fairness for each thread, which the operating system's
  scheduler gives, and strong fairness for taking `stateLock` (`MainLock`, `CopyState`,
  `Submit`). A mutex promises no order; what justifies it here is that every holder
  gives it up and then sleeps (100 us in `mainLoop`, 10 ms in a writer), so that a
  waiting thread finds it free again and again. `ClientReads` is weakly fair: clients
  read what they are sent as long as they are connected. Nothing is assumed of what
  clients ask for or of whether they leave.
- `VecInterface!FairSpec`: weak fairness of the caller once a call has begun, and of what
  each worker does by itself. New calls, the end of the process and spurious wake-ups
  are not fair: nothing may depend on them.
- `RpcClient!FairSpec`: weak fairness of each thread, and of the server ending a stream
  that it was told to (`HandlerEnds` of `RtsService` is that promise, from the other
  end). Nothing is assumed of what the user presses.
- `Replay!FairSpec`: weak fairness of the main loop while there is a process, and strong
  fairness of `RunCycle`: the time for a tick passes again and again while the clock is
  on. Nothing is assumed of what observers ask for, or of when the process is killed.
- `HumanAi!FairHandSpec`: `[]<>(phase = "idle")` and `[]<>(phase = "attack")`, that is, the
  window goes on drawing and the server goes on ticking. In this model it says the same
  as weak fairness of `Tick \/ Act` (in every state one of them, or nothing but a click,
  is possible, and clicks are bounded), and TLC evaluates it faster. Clicks are not fair.

A player that stops reading while it stays connected blocks its writer in `Write` with
`stateLock` held, and with it the server. The repository promises nothing for such
clients, so it is a listed hazard and a stated assumption, and not a finding.

## 5. What is proved

All theorems hold for every value of the constants that meets the named assumptions:
`BoardSize`, `Rules` and `BoardLayout` for the engine (any board, any rule tables with
positive prices, hit points and attack intervals), `Streams` and `Bounds` for the
service (any number of observers and players), `Workers` and `Bound` for the vectorised
interface (any number of workers and games), `ClientBounds` for the client (any number of
connections and commands), `GeneratorAssumption` for the generator (any even board size
and any requests of the ranges that the server starter lets pass) and `RecordsAssumption`
for the replay (any number of records). Those about training assume three things more of
the tables, all of which hold in `game_types.h`:

- `Offsets`: nobody shoots farther than `MAX_ATTACK_RANGE`, by which the planes of ATTACK
  are laid out.
- `CheapestFirst`: the mask lets a player produce as soon as it can pay for a BARRACK, or
  for a LIGHT in a BARRACK; these are the cheapest.
- `ProductionOutlasts`: `OBJ_TIME_MAP` is at least 3, and the sizes at which
  `unordered_map` is rehashed more than double from one to the next (13, 29, 59, 127, ...
  in libstdc++). A production that has just begun is visited at most twice in its first
  tick, so that two is enough; without a rehash, one is.

The theorem about the human player assumes nothing more of the tables; it holds for either
player and any number of clicks (`PlayerAssumption`).

| Theorem | Says |
|---|---|
| `TypeCorrect` | `[]TypeOK` |
| `TilesExclusive` | `[]TileExclusive`: no two objects stand on, move to or build on one tile |
| `GatherLookups` | `[]GatherTargetsExist`: the unchecked lookups of `GameSettleGather` cannot throw |
| `MineralsLast` | `[]GatheringPays`: one gatherer per mineral, no empty mineral is left |
| `NeverOverdrawn` | `[]Solvent` |
| `BuildingsAreCounted` | `[]BuildingCount`: the count that three functions keep is that of the buildings on the board, in the middle of a tick too |
| `DefeatClears` | `[]DefeatIsTotal`: between ticks a player without a building has nothing |
| `DefeatLasts` | `DefeatIsFinal`: who has lost does not come back |
| `ActionsComplete` | `RunsToCompletion`: an action under way is neither interrupted nor redirected by later orders |
| `NothingFreezes` | `[]NoFrozenUnit`: whatever counts down has a loop that counts it |
| `BasesShowBanks` | `[]BaseShowsBank` |
| `WorthIsKept` | `WorthConserved`: at any prices, the worth of banks, loads, minerals, objects and what is under construction changes only where an object is removed |
| `MasksAreComplete` | `MaskIsComplete`: an order the engine accepts was in the mask, but one to a tile that became free in the same tick |
| `MasksAreObeyed` | `[]MaskIsObeyed`: the first order of a tick that its mask allows is accepted in the loop of its kind, but for the refusals that `KnownRefusal` names |
| `EndIsAsTold` | `[]EndIsTold` |
| `GainsAreTold` | `[]GainsAreRewarded`: births and income are those of the tick |
| `LossesAreTold` | `[]LossesAreRewarded`: the hits of a side that lost nothing are those its units dealt |
| `FirstStepsAreTaken` | `StepsAreTaken`: the steps that `ProcMove` finds in the first frame after a state are all taken by the tick that follows, but for contested destinations |
| `ServiceTypes` | `[]ServiceTypeOK` |
| `OrdersStayInTheirGame` | `[]OrdersMatchGame` |
| `OrdersOnce` | `[]OncePerOrder` |
| `ViewsWhole` | `[]NoTornView` |
| `ClockStops` | `[]TickingStops` |
| `NothingServedTwice` | `[]ServedOnce` |
| `VecTypes` | `[]VecTypeOK` |
| `JobsEndInTheirCall` | `[]NoStragglers`: no job outlives the call whose variables it points to |
| `ThreadsUnseen` | `Sequential`: `VecInterface` implements `VecCalls` under the mapping `Calls` |
| `GeneratorInductive` | `[]GeneratorInv` |
| `ResetLaysOut` | `[]LaidOut`: a `GameReset` that could place an expansion leaves a board that meets `IsLayout`, which is what `BoardLayout` asks of the engine's boards |
| `ResetLeavesRoom` | `[]BasesHaveRoom`: the tiles next to a base are free |
| `ResetLaysTerrain` | `[]TerrainAsAsked`: `terrainFlagVec` is not read behind its end, and each half has the terrain asked for |
| `ClientInductive`, `ClientTypes` | `[]ClientInv`, and `RpcTypeOK` from it |
| `CommandsDoArrive` | `[]CommandsArrive`: commands go out once, in order, with their own orders |
| `NothingStaysUnseen` | `[]NothingUnseen`: a state that was received and not drawn is still announced |
| `ReplayInductive` | `[]ReplayInv` |
| `ShowsTheRecordHolds` | `[]ShowsTheRecord`: what a playback shows was recorded, in order, but for the rest of a record the file ends with |

*The engine.* None of the invariants is inductive alone. That tiles are exclusive needs
to know, in the middle of a tick, that `coordOccupationCount` counts every tile somebody
holds and every claim (`OccupationOK`), that the claims belong to objects which may have
them (`ActionOK`, `LocalsOK`), and that an id given out is fresh (`IdsFresh`). That a
lookup succeeds needs the index to stay true of minerals while everything else moves and
dies (`IndexOK`), and that whoever gathers does so from a mineral with something in it,
alone (`GatheringOK`); this in turn needs that used-up minerals go before the loop of
the next tick (`GatheringPays`). Their conjunction is `IInv`. `GameEngineProofs` has
one lemma per action (`...Inv`), one step per conjunct, `NextInv` and `Inductive` on top.
`NeverOverdrawn` adds `NoDebt`: loads and minerals are not negative either.

*A tick, object by object.* What happens to one object in one step is told once, in `Life`:
it stays alike, shoots, starts an action, counts down, ends the action, or is refreshed;
in which loop each may happen, and what it does to the load (`Carries`). Every action is
shown to give all objects that life (`LifeGoesOn`), from `IInv`; the rest follows from `Life`
without a look at the actions. `RunsToCompletion` needs `TimingOK` with it: who is busy has no
cooldown, who has a claim is free, so that no handler takes an order for somebody who is
under way. `NoFrozenUnit` is a part of the same invariant, for what starts does so with a
progress that its loop counts.

*Counts and defeats.* `buildingCnt` is changed where an object is made, dies, or is removed,
each time by hand. `CountOK` says that it is the cardinality of `BuildingsOf` and that the
board is finite; in `ExecuteAttack` and `GameRefresh`, which remove many objects at once, the
cardinality of what goes is taken off. `DefeatIsTotal` then is what `GameRefresh` does, and
`DefeatIsFinal` needs that a side with nothing on the board (`WipedOut`) gains nothing in any
loop, as whatever appears has an owner that made it.

*Sums.* The worth of a game, the rewards for income and those for hits are sums over sets
of objects, and an induction over such sets is more than the provers can do. What the proofs need of
`SumFunction` (a member more or less, a term that changes, a sum of sums) is shown without
one: of the finite sets for which it fails take a smallest, by the strict inclusion of finite
sets being well-founded (`FS_StrictSubsetOrderingWellFounded`, `WFMin`), and take a member
away. `WorthConserved` adds that who gathers has its hands free (`HandsFree`), since a load
would be overwritten.

*Training.* The engine's theorems hold in training too (`IsAGame`), and what is shown here
relates the running tick to `last`. For the masks, `SinceTick` says that whoever is at ease
now was so when the tick began, in the same place with the same load (`Kept`), and that what
showed as an obstacle is still counted as occupied; a mask computed from `last` then covers
what any handler takes. That planes and bytes do not run together (`OneByte`) and that every
target in range has an offset (`WithinReach`) connects the mask to the order. That what the
mask allows is obeyed is claimed of the first order that is accepted in a tick, before
anybody else's claim is in its way. `FirstOrder` says what such an order finds: nothing
that was shown has gone but used-up minerals (`StillThere`), all of it is in the index
(`AllIndexed`), who was at ease is ready, and a tile or a mineral counts twice only if an obstacle, or a gatherer,
was shown there in `last` (`OnlyObstaclesCount`). For each kind of order the guards of the
handler then follow from the planes, and `KnownRefusal` is what remains. For the gains,
`GainsInv` follows each object through the loops: until orders are executed nothing has
changed that is rewarded (`Untouched`); after that, what produces did so before or has begun
in this tick (`Proceeds`), newcomers make and bring nothing (`Newborn`), and no production
both begins and ends (`NotYetDone`, the one place where a rehash matters: `Outlasts` bounds
the visits by the sizes of the map). Births and income hold at every loop on the way, and
`GameRefresh` takes nobody with it that earned something unless the game is over. For the
losses, `LossesInv` says that `unitDamageMap` holds, for each object, the points of just those
who have shot at it (`Aiming`), and that `ExecuteAttack` takes these from its hit points
(`Survives`); the shooters stand where they were and look where they shot to the end of the
tick (`Stood`). It is only claimed of a side that has lost nothing: the shots of units which
die in the same tick count, and cannot be seen after it.

*The human player.* A game played by hand is a game (`HandIsAGame`), so that the engine's
invariants are at hand. `StepsAreTaken` joins two algorithms that know nothing of each
other: `ProcMove`, which marks tiles in the `occupationMap` of a frame, and the loop MOVE of
a tick, which counts claims. `HandInv` carries the one into the other. While the first `Act`
for a state runs, whoever is sent to a tile has marked it (`PassOK`), so that two are sent to
one tile only if one of them was told to go there (`Apart`). Nothing moves before the moves
are claimed (`WalkersOK`); what is claimed by then was ordered (`ClaimsOK`); and what
`coordOccupationCount` has counted is really there: an object, a building that was ordered, or
a walker whose claim was accepted (`CountsOK`, the converse of the engine's `OccupationOK`,
without which an order might be refused for no reason). Of the search only one thing is used,
that a first step is an opening next to the unit (`Openings`): the proof holds whatever ways
are found. What is left for the end of the loop is a walker whose order has not been
accepted, which cannot be, as no loop ends before (`AnyLeft`).

*The service.* `ServiceInv` relates the states under way in each stream to the game
(`ViewsOK`: each is a past state of this game, or of one whose ids were used up before
this one began), and the orders under way to both (`OrdersOK`: an order of this game
names one of its ids, an older one an id below them all; numbers of orders grow along
request, `totalAction` and history). `LockOK` is what mutual exclusion by `stateLock`
amounts to, and `TicksOK` and `ServedOnce` say where in its iteration the main loop may
be while the history still has something open. `RtsServiceProofs` first describes what
a step of a stream can change (`StreamOK`, `Quiet`), so that the invariants are shown
once for all threads of a stream, and then goes conjunct by conjunct (`ViewsNext`,
`OrdersNext`, `ControlNext`).

*The vectorised interface.* The caller knows of its jobs only by a number. `VecInv` says
why that is enough: every job belongs to the batch the caller waits for (`JobsOK`), a
game is in one place at a time, the queue, a worker, or lost to a throw (`Distinct`), and
`taskCounter` is the number of games that are in none of them (`CountOK`). When it equals
the number of games there is no such place left, so that nothing is open. The mapping
takes from this what `VecCalls` has instead of threads: the games a stage has still to
come to (`Left`). Jobs that finish are its steps; everything else stutters but the
beginning, the turn and the end of a call.

*The generator.* That no two objects share a tile has three causes, one for each kind of
pair. Within the half, expansions are at least `2 * MINERAL_DISTANCE + 1` apart in a
row or a column, so that their windows are disjoint (`Inside`, `TooNear`), and the terrain
loop comes to each tile once and leaves the windows out (`UpperHalf`). Across the halves,
everything before the mirror is in rows above the middle, and `Opposite` maps these to
the rows below, one to one (`BothHalves`); this is where the board size has to be even.
The base is the first object of the first expansion (`BaseFirst`), and the owners follow.
That a base has room is a matter of its window, in which `RoomOK` keeps everything else away
from its neighbours, and of the middle of the board, which no window reaches over. The
terrain is counted: the windows, the flags read and the tiles ahead make up the half
(`FlagsOK`), as many flags are left as there is terrain to lay (`TerrainDue`), and `laid` is
the number of the objects (`TerrainCounted`).

*The client.* The window's thread and the writers hand one command over in a slot that has
no lock. `ClientInv` says who may be where while there is something in it: one writer at a
time takes from it (`OneWriter`), the window is in `SendCommand` (`WindowOK`), what is in the
slot is the last command asked for (`MailboxOK`), and what was sent before is complete
(`SentOK`).

*The replay.* `ReplayInv` says which records the state that is shown may be made of,
from how far the stream has come and from its two bits: `fail` without a cause other than
the end of the file is impossible, and a torn record is shown only behind every whole one.
That a finished game is in the file is what the flush in `StopCycle` is for; it is claimed of
games that a Reset has begun, for before that nothing is over.

Model-checked only:

- liveness under fairness, which is out of the provers' reach: `Completion`, `Delivery`,
  `HandlerEnds`, `CallsReturn`, `PoolCloses`, `CommandReturns`, `ConnectionEnds`,
  `PlaybackStops` and `OrdersAreDone`;
- `DrawMeansBothLost` and `CommandsHonoured`, which the code violates.

Every other property of a run is stated by a theorem. The type invariants of `RtsService`,
`VecInterface`, `MapGenerator`, `RpcClient`, `Replay` and `HumanAi` are parts of the
inductive invariants.

## 6. Not modelled

- Of the service: the data race on `initParam` while two RESETs meet, the index
  `msg.role()` without a check, and `light_only`; a Reset that throws inside the thread
  pool, after which the main loop waits for ever.
- Of `client_interface.cpp`: the buffers that `Init` makes, a second `Init`, and action
  bytes that no mask allows.
- Of `HumanAi`: states that the window shows late, or twice without a click. `RpcClient`
  and `RtsService` say what may happen to them on the way.
- Rendering, the Qt window, the sample bots and the training code: input and output
  only, or numerics.

What the code of `HumanAi` does, and a reader may not expect (nothing in the repository
says otherwise, so that none of it is a finding): a unit's own destination is open to it
even if another unit was sent there in the same frame, so that two units told to go to
one tile are refused tick after tick (`Contested`); a MOVE order whose way is closed
stands for ever; an order to produce is dropped after the one try, whether or not it was
taken; and orders that were computed for a state are sent again with those of a click on
the same state.

## 7. Plan

All safety properties that hold are proved. What is left are models of more:

1. Abstract specifications: tile reservation, which `GameEngine` should implement, and a
   rendezvous of two threads, which the client's mailbox should.
2. `RpcClient` with a user who does not wait for a Connect, and `HumanAi` on states that
   come late.
