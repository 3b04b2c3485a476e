--------------------------- MODULE RtsServiceProps ---------------------------
(***************************************************************************)
(* What is claimed of RtsService, and what message.proto says of its       *)
(* commands.                                                               *)
(***************************************************************************)
EXTENDS RtsService

Stream == [reader : {"new", "read", "reset", "submit", "join", "done"},
           writer : {"new", "check", "copy", "held", "write", "ended"},
           isEnd : BOOLEAN, known : BOOLEAN, alive : BOOLEAN, read : Nat,
           last : Snapshot, queue : Seq(Snapshot), got : Snapshot,
           request : Seq(SUBSET Order)]

\* The threads, the flags and the shared state have the values the code gives them.
ServiceTypeOK ==
  /\ down \in BOOLEAN
  /\ mpc \in {"free", "reset", "resetting", "clearReset", "tick", "stepping",
              "clearTick", "cycle", "cycling", "over", "stopCycle"}
  /\ holder \in {NoOne, Main} \cup Players
  /\ flag \in [reset : BOOLEAN, tick : BOOLEAN, cycle : BOOLEAN]
  /\ game \in Snapshot /\ game.version >= 0
  /\ orders \in [Roles -> SUBSET Order]
  /\ stream \in [Clients -> Stream]
  /\ asked \in [step : BOOLEAN, reset : BOOLEAN, run : BOOLEAN, late : Nat,
                extra : Nat, done : [Players -> Nat]]

-----------------------------------------------------------------------------
(* Orders *)

\* An order is never carried out in a game other than the one it was given in,
\* however long it was under way and however many RESETs came first: orders stay in
\* totalAction over a RESET, but GameReset goes on numbering where the old game
\* ended, so a tick finds no object with the id of an old order (ConnectPlayer,
\* GameReset, GameStepSingle).
OrdersMatchGame ==
  \A r \in Roles : \A o \in Live(r) : o.epoch = game.epoch

\* An order is carried out in one tick at most, and none is carried out after a later
\* one of the same stream.
OncePerOrder == \A r \in Roles : \A o \in orders[r] : o.n > asked.done[o.from]

-----------------------------------------------------------------------------
(* The state that is sent *)

\* The states in a stream: copied last, being sent, and received last.
Seen(s) == {s.last, s.got} \cup {s.queue[k] : k \in 1 .. Len(s.queue)}

\* No client is ever sent a state that mainLoop was in the middle of changing.
NoTornView == \A c \in Clients : \A v \in Seen(stream[c]) : v.whole

-----------------------------------------------------------------------------
(* Ticking *)

\* Once ticking is turned off, by STOP or RESET or by the end of the game, the tick
\* under way is the last one that the clock starts; and a finished game is given one
\* such tick at most for each START.
TickingStops == asked.late <= 1 /\ asked.extra <= 1

\* A STEP makes one tick at most and a RESET one Reset at most: but for the moment
\* between serving a request and clearing its flag, a flag is set only when a request
\* has come in since one was last served (mainLoop, ConnectObserver).
ServedOnce ==
  /\ flag.tick /\ mpc # "clearTick" => asked.step
  /\ flag.reset /\ mpc # "clearReset" => asked.reset

-----------------------------------------------------------------------------
(* Progress *)

Served(c) ==
  /\ stream[c].alive /\ ~stream[c].isEnd
  /\ stream[c].writer # "new"
  /\ c \in Players => stream[c].known

\* A client that stays connected, and has said which player it is, comes to see every
\* new state or a later one.
Delivery ==
  \A c \in Clients : \A v \in 1 .. MaxVersion :
    (Served(c) /\ game.version >= v) ~>
      (stream[c].got.version >= v \/ ~Served(c) \/ down)

\* The threads of a stream that said DISCONNECT before it ended are over in the end.
HandlerEnds ==
  \A c \in Leaving :
    (stream[c].isEnd /\ ~stream[c].alive) ~> (stream[c].reader = "done" \/ down)

-----------------------------------------------------------------------------
(* Why the safety properties hold: an inductive invariant.                   *)

\* s is a state that the game has gone through: of this game, or of one that used up
\* its ids before this one began.
Past(s) ==
  /\ s.epoch <= game.epoch
  /\ s.epoch = game.epoch => s.first = game.first /\ s.next <= game.next
  /\ s.epoch < game.epoch => s.next <= game.first

ViewsOK == \A c \in Clients : \A v \in Seen(stream[c]) : Past(v) /\ v.whole

\* An order names an object of the game it was given in.
Given(o) ==
  /\ o.epoch <= game.epoch
  /\ o.epoch = game.epoch => o.unit \in Units(game)
  /\ o.epoch < game.epoch => o.unit < game.first

\* The orders of p that are still on their way.
Sent(p) == IF stream[p].request = << >> THEN {} ELSE Head(stream[p].request)

OrdersOK ==
  /\ \A r \in Roles : \A o \in orders[r] :
       /\ Given(o)
       /\ asked.done[o.from] < o.n /\ o.n <= stream[o.from].read
  /\ \A p \in Players :
       /\ asked.done[p] <= stream[p].read
       /\ stream[p].reader = "submit" => stream[p].request # << >>
       /\ \A o \in Sent(p) :
            /\ Given(o) /\ o.from = p
            /\ asked.done[p] < o.n /\ o.n <= stream[p].read + 1
            /\ stream[p].reader = "submit" => o.n <= stream[p].read
            /\ \A r \in Roles : \A old \in orders[r] : old.from = p => old.n < o.n

\* Whoever is in the middle of something that needs stateLock has it.
LockOK ==
  /\ mpc # "free" => holder = Main
  /\ \A p \in Players : stream[p].writer = "held" => holder = p

TicksOK ==
  /\ asked.late <= 1 /\ (mpc = "cycling" /\ ~flag.cycle => asked.late = 0)
  /\ asked.extra <= 1
  /\ asked.extra = 1 =>
       game.over /\ mpc # "cycling" /\ (flag.cycle => mpc \in {"over", "stopCycle"})

ServiceInv ==
  /\ ServiceTypeOK /\ game.first <= game.next /\ game.whole
  /\ ViewsOK /\ OrdersOK /\ LockOK /\ TicksOK /\ ServedOnce

-----------------------------------------------------------------------------
(* What message.proto says of the commands *)

\* STEP ticks once by hand: while a STEP has not been followed by a tick (or by the
\* end of the game), the main loop has it before it.
StepHonoured == asked.step => flag.tick

\* RESET resets: while a RESET has not been followed by a Reset, the main loop has it
\* before it.
ResetHonoured == asked.reset => flag.reset

\* START starts the ticking: between two iterations, a game that was started and
\* neither stopped nor reset since, and is not over, ticks.
StartHonoured ==
  mpc = "free" /\ asked.run /\ ~flag.reset /\ ~game.over => flag.cycle

\* Each of the three is what message.proto promises of a command (START, line 18: begin
\* ticking; STEP, line 20: tick once by hand; RESET, line 21: reset), whenever it is sent.
\* This is their weakest common reading, that at least one of them can be relied on: a
\* behaviour that refutes it has lost a STEP, a RESET and a START.
CommandsHonoured == []StepHonoured \/ []ResetHonoured \/ []StartHonoured

==============================================================================
