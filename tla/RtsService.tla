----------------------------- MODULE RtsService -----------------------------
(***************************************************************************)
(* The server of MicroStarCraft: rts_service_impl.cpp.  One thread runs    *)
(* mainLoop; every connected stream has a handler thread, which reads the  *)
(* client's requests, and a writer thread, which sends it the game.  They  *)
(* share the game and the players' orders, guarded by stateLock, and the   *)
(* flags reset, tick and tickingCycle, which are atomic and guarded by     *)
(* nothing.  An action is what a thread does between two accesses that     *)
(* another thread can see.                                                 *)
(*                                                                         *)
(* A tick and a Reset are what GameEngine makes of them, seen from         *)
(* outside: ids given out, a new state, perhaps the end of the game, or a  *)
(* throw that ends the process.  tickingCycle is TRANSLATED to a Boolean:  *)
(* TICKING_INTERVAL or INT32_MAX, the time in between not being measured.  *)
(***************************************************************************)
EXTENDS Integers, Sequences, FiniteSets

CONSTANTS
  Observers,    \* streams of ConnectObserver
  Players,      \* streams of ConnectPlayer
  Side,         \* msg.role() of the requests of each player's stream
  BoardSize,    \* how many objects GameReset lays out
  Leaving,      \* streams that may end (a bound of the model only)
  MaxRequests,  \* requests read from one stream (a bound of the model only)
  MaxUnits,     \* objects made by ticks stop here (a bound of the model only)
  MaxVersion,   \* states told apart saturate here (a bound of the model only)
  Window,       \* messages a stream takes before Write blocks
  Main, NoOne   \* holders of stateLock other than a player's writer

Clients == Observers \cup Players
Roles   == {0, 1}

ASSUME Streams ==
  /\ Observers \cap Players = {}
  /\ Side \in [Players -> Roles]
  /\ Leaving \subseteq Clients
  /\ Main # NoOne
  /\ Main \notin Clients /\ NoOne \notin Clients

ASSUME Bounds ==
  /\ BoardSize \in Nat /\ MaxUnits \in Nat /\ MaxVersion \in Nat
  /\ MaxRequests \in Nat /\ Window \in Nat \ {0}

VARIABLES
  down,     \* the process has terminated
  mpc,      \* where mainLoop is
  holder,   \* who holds stateLock
  flag,     \* [reset, tick, cycle]: reset, tick, tickingCycle = TICKING_INTERVAL
  game,     \* GetGameState(0), seen from outside
  orders,   \* totalAction: role -> set of orders
  stream,   \* client -> the state of its two threads and of its connection
  asked     \* what has been asked of mainLoop and what it has done (history)

vars == <<down, mpc, holder, flag, game, orders, stream, asked>>

-----------------------------------------------------------------------------
(* The game from outside.  epoch counts the Resets; the ids of the current   *)
(* game are first .. next - 1; version tells states apart; whole is FALSE in *)
(* a copy that was taken while the state was being changed.                  *)

Snapshot == [epoch : Nat, first : Nat, next : Nat, version : Int,
             over : BOOLEAN, whole : BOOLEAN]

\* A GameState nobody has filled.
Blank == [epoch |-> 0, first |-> 0, next |-> 0, version |-> -1,
          over |-> FALSE, whole |-> TRUE]

Units(g) == g.first .. g.next - 1

Order == [unit : Nat, epoch : Nat, from : Players, n : Nat]

NextVersion(g) == IF g.version < MaxVersion THEN g.version + 1 ELSE g.version

\* Mutant: GameReset starts numbering again.
RenumberedGame(g) ==
  [g EXCEPT !.epoch = @ + 1, !.first = 0, !.next = BoardSize,
            !.version = NextVersion(g), !.over = FALSE]

\* GameReset: objMap is emptied and filled with fresh ids, as objCnt goes on.
NewGame(g) ==
  [epoch |-> g.epoch + 1, first |-> g.next, next |-> g.next + BoardSize,
   version |-> NextVersion(g), over |-> FALSE, whole |-> g.whole]

\* GameStepSingle: units are made by units, and a game with units may end.  A finished
\* game may stay as it is.
Ticked ==
  \E n \in IF Units(game) # {} /\ game.next < MaxUnits THEN {0, 1} ELSE {0},
     v \in {NextVersion(game)} \cup (IF game.over THEN {game.version} ELSE {}),
     o \in {b \in BOOLEAN : IF game.over THEN b ELSE b => Units(game) # {}} :
       game' = [epoch |-> game.epoch, first |-> game.first, next |-> game.next + n,
                version |-> v, over |-> o, whole |-> game.whole]

\* Somebody is writing to the game: mainLoop is inside Reset or Step.
Changing == mpc \in {"resetting", "stepping", "cycling"}

\* Mutant: the state is copied without stateLock.
AnyTime(c) == TRUE

\* stateLock can be taken.
Unlocked(c) == holder = NoOne

-----------------------------------------------------------------------------
Init ==
  /\ down = FALSE
  /\ mpc = "free"
  /\ holder = NoOne
  /\ flag = [reset |-> FALSE, tick |-> FALSE, cycle |-> FALSE]
  /\ game = [Blank EXCEPT !.version = 0]
  /\ orders = [r \in Roles |-> {}]
  /\ stream = [c \in Clients |->
                 [reader |-> "new", writer |-> "new", isEnd |-> FALSE,
                  known |-> FALSE, alive |-> FALSE, read |-> 0, last |-> Blank,
                  queue |-> << >>, got |-> Blank, request |-> << >>]]
  /\ asked = [step |-> FALSE, reset |-> FALSE, run |-> FALSE, late |-> 0,
              extra |-> 0, done |-> [p \in Players |-> 0]]

-----------------------------------------------------------------------------
(* mainLoop.  It holds stateLock for a whole iteration and reads the flags   *)
(* one after the other.                                                      *)

MainLock ==
  /\ mpc = "free" /\ holder = NoOne
  /\ holder' = Main
  /\ mpc' = "reset"
  /\ UNCHANGED <<down, flag, game, orders, stream, asked>>

\* if (reset)
ReadReset ==
  /\ mpc = "reset"
  /\ mpc' = IF flag.reset THEN "resetting" ELSE "tick"
  /\ UNCHANGED <<down, holder, flag, game, orders, stream, asked>>

RunReset ==
  /\ mpc = "resetting"
  /\ game' = NewGame(game)
  /\ asked' = [asked EXCEPT !.reset = FALSE, !.extra = 0]
  /\ mpc' = "clearReset"
  /\ UNCHANGED <<down, holder, flag, orders, stream>>

\* Mutant: reset is left set.
KeepReset ==
  /\ mpc = "clearReset"
  /\ mpc' = "tick"
  /\ UNCHANGED <<down, holder, flag, game, orders, stream, asked>>

ClearReset ==
  /\ mpc = "clearReset"
  /\ flag' = [flag EXCEPT !.reset = FALSE]
  /\ mpc' = "tick"
  /\ UNCHANGED <<down, holder, game, orders, stream, asked>>

\* if (tick)
ReadTick ==
  /\ mpc = "tick"
  /\ mpc' = IF flag.tick THEN "stepping" ELSE "cycle"
  /\ UNCHANGED <<down, holder, flag, game, orders, stream, asked>>

\* The orders of o that a tick looks at: those for units that exist.
Live(r) == {o \in orders[r] : o.unit \in Units(game)}

\* Mutant: the orders of a tick are not cleared at its end.
KeptOrders == orders

\* GameStepSingle ends by clearing both players' orders.
ClearedOrders == [r \in Roles |-> {}]

\* The orders are carried out and dropped.  n is 1 for a tick that the clock starts and
\* 0 for one that answers a STEP.
Tick(next, n) ==
  /\ Ticked
  /\ orders' = ClearedOrders
  /\ asked' = [asked EXCEPT
                 !.step  = n = 1 /\ @,
                 !.late  = IF flag.cycle THEN @ ELSE @ + n,
                 !.extra = IF game.over THEN @ + n ELSE @,
                 !.done  = [p \in Players |->
                              LET mine == {o \in Live(Side[p]) : o.from = p} IN
                              IF mine = {} THEN @[p]
                              ELSE (CHOOSE o \in mine : TRUE).n]]
  /\ mpc' = next
  /\ UNCHANGED down

\* An order for a unit that exists may throw: nothing catches it.
TickThrows ==
  /\ \E r \in Roles : Live(r) # {}
  /\ down' = TRUE
  /\ UNCHANGED <<mpc, game, orders, asked>>

\* ServerStep in live play
ServerStep(next, n) == Tick(next, n) \/ TickThrows

RunTick ==
  /\ mpc = "stepping"
  /\ ServerStep("clearTick", 0)
  /\ UNCHANGED <<holder, flag, stream>>

ClearTick ==
  /\ mpc = "clearTick"
  /\ flag' = [flag EXCEPT !.tick = FALSE]
  /\ mpc' = "cycle"
  /\ UNCHANGED <<down, holder, game, orders, stream, asked>>

\* Mutant: the time is checked, the interval is not.
AlwaysTicking == TRUE

Ticking == flag.cycle

\* gameStart is always set: tick when TICKING_INTERVAL has passed.
ReadCycle ==
  /\ mpc = "cycle"
  /\ \/ Ticking /\ mpc' = "cycling"
     \/ mpc' = "over"
  /\ UNCHANGED <<down, holder, flag, game, orders, stream, asked>>

RunCycle ==
  /\ mpc = "cycling"
  /\ ServerStep("over", 1)
  /\ UNCHANGED <<holder, flag, stream>>

\* The end of an iteration, unless the game is over.
Unlock ==
  /\ mpc = "over" /\ ~game.over
  /\ mpc' = "free"
  /\ holder' = NoOne
  /\ UNCHANGED <<down, flag, game, orders, stream, asked>>

\* A game that is over stops ticking.
StopTick ==
  /\ mpc = "over" /\ game.over
  /\ flag' = [flag EXCEPT !.tick = FALSE]
  /\ asked' = [asked EXCEPT !.step = FALSE]
  /\ mpc' = "stopCycle"
  /\ UNCHANGED <<down, holder, game, orders, stream>>

StopCycle ==
  /\ mpc = "stopCycle"
  /\ flag' = [flag EXCEPT !.cycle = FALSE]
  /\ asked' = [asked EXCEPT !.late = IF flag.cycle THEN 0 ELSE @,
                            !.run = flag.reset /\ @]
  /\ mpc' = "free"
  /\ holder' = NoOne
  /\ UNCHANGED <<down, game, orders, stream>>

MainStep ==
  \/ ReadReset \/ RunReset \/ ClearReset
  \/ ReadTick \/ RunTick \/ ClearTick
  \/ ReadCycle \/ RunCycle
  \/ Unlock \/ StopTick \/ StopCycle

-----------------------------------------------------------------------------
(* Streams *)

\* stream[c].f := v
Set(c, f, v) == stream' = [stream EXCEPT ![c][f] = v]

\* A client connects: its handler and its writer start.
Connect(c) ==
  /\ stream[c].reader = "new"
  /\ stream' = [stream EXCEPT ![c].reader = "read", ![c].writer = "check",
                              ![c].alive = TRUE]
  /\ UNCHANGED <<down, mpc, holder, flag, game, orders, asked>>

\* The connection ends: nothing can be read any more, and Write fails at once.  What
\* the handler has read already stays read.
ClientEnds(c) ==
  /\ c \in Leaving /\ stream[c].alive
  /\ stream' = [stream EXCEPT
                  ![c].alive = FALSE, ![c].queue = << >>,
                  ![c].request = IF stream[c].reader = "submit" THEN @ ELSE << >>]
  /\ UNCHANGED <<down, mpc, holder, flag, game, orders, asked>>

\* The client takes the next message from its stream.
ClientReads(c) ==
  /\ stream[c].queue # << >>
  /\ stream' = [stream EXCEPT ![c].got = Head(stream[c].queue), ![c].queue = Tail(@)]
  /\ UNCHANGED <<down, mpc, holder, flag, game, orders, asked>>

-----------------------------------------------------------------------------
(* The writer threads.  The state is sent when it differs from what was sent *)
(* last; the writer of a player keeps stateLock during the first of its two  *)
(* calls of Write.                                                           *)

\* Mutant: the loop of a writer has no end.
NeverEnd(c) ==
  /\ stream[c].writer = "check"
  /\ c \in Players => stream[c].known
  /\ Set(c, "writer", "copy")
  /\ UNCHANGED <<down, mpc, holder, flag, game, orders, asked>>

\* while (!isEnd), and a player's writer waits for the role.
CheckEnd(c) ==
  /\ stream[c].writer = "check"
  /\ \/ stream[c].isEnd /\ Set(c, "writer", "ended")
     \/ /\ ~stream[c].isEnd
        /\ c \in Players => stream[c].known
        /\ Set(c, "writer", "copy")
  /\ UNCHANGED <<down, mpc, holder, flag, game, orders, asked>>

CopyState(c) ==
  /\ stream[c].writer = "copy"
  /\ Unlocked(c)
  /\ IF stream[c].last = game
       THEN Set(c, "writer", "check") /\ UNCHANGED holder
       ELSE /\ stream' = [stream EXCEPT
                            ![c].last = [game EXCEPT !.whole = ~Changing],
                            ![c].writer = IF c \in Players THEN "held" ELSE "write"]
            /\ holder' = IF c \in Players THEN c ELSE holder
  /\ UNCHANGED <<down, mpc, flag, game, orders, asked>>

\* stream->Write(msg): it waits for room, and fails when the stream is broken.
CanWrite(c) == stream[c].alive => Len(stream[c].queue) < Window

Written(c, next) ==
  stream' = [stream EXCEPT ![c].writer = next,
                           ![c].queue = IF stream[c].alive
                                          THEN Append(@, stream[c].last) ELSE @]

\* Mutant: stateLock is not given back.
WriteKeeping(p) ==
  /\ stream[p].writer = "held" /\ CanWrite(p)
  /\ Written(p, "write")
  /\ UNCHANGED <<down, mpc, holder, flag, game, orders, asked>>

WriteLocked(p) ==
  /\ stream[p].writer = "held" /\ CanWrite(p)
  /\ Written(p, "write")
  /\ holder' = NoOne
  /\ UNCHANGED <<down, mpc, flag, game, orders, asked>>

Write(c) ==
  /\ stream[c].writer = "write" /\ CanWrite(c)
  /\ Written(c, "check")
  /\ UNCHANGED <<down, mpc, holder, flag, game, orders, asked>>

-----------------------------------------------------------------------------
(* The handlers of both kinds of stream *)

\* stream->Read(&msg) returns a request.
Reads(c) ==
  /\ stream[c].reader = "read" /\ stream[c].alive
  /\ stream[c].read < MaxRequests

ReadDisconnect(c) ==
  /\ c \in Leaving /\ Reads(c)
  /\ stream' = [stream EXCEPT ![c].isEnd = TRUE, ![c].known = c \in Players,
                              ![c].read = @ + 1]
  /\ UNCHANGED <<down, mpc, holder, flag, game, orders, asked>>

\* stream->Read(&msg) returns false.
ReadEnd(c) ==
  /\ stream[c].reader = "read" /\ ~stream[c].alive
  /\ Set(c, "reader", "join")
  /\ UNCHANGED <<down, mpc, holder, flag, game, orders, asked>>

\* writer.join()
Join(c) ==
  /\ stream[c].reader = "join" /\ stream[c].writer = "ended"
  /\ Set(c, "reader", "done")
  /\ UNCHANGED <<down, mpc, holder, flag, game, orders, asked>>

-----------------------------------------------------------------------------
(* ConnectObserver *)

CountRead(c) == stream' = [stream EXCEPT ![c].read = @ + 1]

ReadStart(c) ==
  /\ Reads(c) /\ CountRead(c)
  /\ flag' = [flag EXCEPT !.cycle = TRUE]
  /\ asked' = [asked EXCEPT !.run = TRUE, !.extra = 0]
  /\ UNCHANGED <<down, mpc, holder, game, orders>>

\* tickingCycle = INT32_MAX
StopTicking ==
  /\ flag' = [flag EXCEPT !.cycle = FALSE]
  /\ asked' = [asked EXCEPT !.run = FALSE, !.late = IF flag.cycle THEN 0 ELSE @]

ReadStop(c) ==
  /\ Reads(c) /\ CountRead(c)
  /\ StopTicking
  /\ UNCHANGED <<down, mpc, holder, game, orders>>

ReadStep(c) ==
  /\ Reads(c) /\ CountRead(c)
  /\ flag' = [flag EXCEPT !.tick = TRUE]
  /\ asked' = [asked EXCEPT !.step = TRUE]
  /\ UNCHANGED <<down, mpc, holder, game, orders>>

\* RESET turns ticking off, and then sets reset.
ReadResetRequest(c) ==
  /\ Reads(c)
  /\ stream' = [stream EXCEPT ![c].read = @ + 1, ![c].reader = "reset"]
  /\ StopTicking
  /\ UNCHANGED <<down, mpc, holder, game, orders>>

SetReset(c) ==
  /\ stream[c].reader = "reset"
  /\ Set(c, "reader", "read")
  /\ flag' = [flag EXCEPT !.reset = TRUE]
  /\ asked' = [asked EXCEPT !.reset = TRUE]
  /\ UNCHANGED <<down, mpc, holder, game, orders>>

-----------------------------------------------------------------------------
(* ConnectPlayer *)

\* The player answers what it has been sent with an order for one of its units, or
\* with none, and the request is on its way while the game goes on.
SendRequest(p) ==
  LET n == stream[p].read + 1  g == stream[p].got IN
  /\ stream[p].alive /\ stream[p].request = << >>
  /\ \E some \in {{}} \cup {{[unit |-> u, epoch |-> g.epoch, from |-> p, n |-> n]} :
                             u \in Units(g)} :
       Set(p, "request", <<some>>)
  /\ UNCHANGED <<down, mpc, holder, flag, game, orders, asked>>

\* A request that carries no orders (RESET, from the Python client) tells the role.
ReadEcho(p) ==
  /\ Reads(p)
  /\ stream' = [stream EXCEPT ![p].known = TRUE, ![p].read = @ + 1]
  /\ UNCHANGED <<down, mpc, holder, flag, game, orders, asked>>

ReadRequest(p) ==
  /\ Reads(p) /\ stream[p].request # << >>
  /\ stream' = [stream EXCEPT ![p].known = TRUE, ![p].read = @ + 1,
                              ![p].reader = "submit"]
  /\ UNCHANGED <<down, mpc, holder, flag, game, orders, asked>>

\* Under stateLock, the player's orders are replaced.
Submit(p) ==
  /\ stream[p].reader = "submit" /\ holder = NoOne
  /\ orders' = [orders EXCEPT ![Side[p]] = Head(stream[p].request)]
  /\ stream' = [stream EXCEPT ![p].reader = "read", ![p].request = << >>]
  /\ UNCHANGED <<down, mpc, holder, flag, game, asked>>

-----------------------------------------------------------------------------
ObserverRequest(c) ==
  \/ ReadStart(c) \/ ReadStop(c) \/ ReadStep(c)
  \/ ReadResetRequest(c) \/ SetReset(c)

PlayerRequest(p) == SendRequest(p) \/ ReadEcho(p) \/ ReadRequest(p) \/ Submit(p)

Writer(c) == CheckEnd(c) \/ CopyState(c) \/ Write(c)

StreamStep(c) ==
  \/ Connect(c) \/ ClientEnds(c) \/ ClientReads(c) \/ Writer(c)
  \/ ReadDisconnect(c) \/ ReadEnd(c) \/ Join(c)

Next ==
  \/ /\ ~down
     /\ \/ MainLock \/ MainStep
        \/ \E c \in Clients : StreamStep(c)
        \/ \E c \in Observers : ObserverRequest(c)
        \/ \E p \in Players : PlayerRequest(p) \/ WriteLocked(p)
  \/ down /\ UNCHANGED vars   \* the process is gone

Spec == Init /\ [][Next]_vars

\* Every thread that can run does.  stateLock is given to whoever asks for it again
\* and again: mainLoop lets go of it for 100 us in each iteration and a writer for
\* 10 ms.  Clients read what is sent to them as long as they are connected; what
\* they ask for, and whether they stay, is up to them.
FairSpec ==
  /\ Spec
  /\ WF_vars(~down /\ MainStep)
  /\ SF_vars(~down /\ MainLock)
  /\ \A c \in Clients :
       /\ WF_vars(~down /\ (CheckEnd(c) \/ Write(c) \/ Join(c)))
       /\ WF_vars(~down /\ (ClientReads(c) \/ ReadEnd(c)))
       /\ SF_vars(~down /\ CopyState(c))
  /\ \A p \in Players :
       WF_vars(~down /\ WriteLocked(p)) /\ SF_vars(~down /\ Submit(p))
  /\ \A c \in Observers : WF_vars(~down /\ SetReset(c))

==============================================================================
