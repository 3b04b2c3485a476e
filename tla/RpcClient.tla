----------------------------- MODULE RpcClient -----------------------------
(***************************************************************************)
(* The observer's side of a stream: RpcClient of rpc_client.cpp and the    *)
(* handlers of the window that use it (rts_observer.cpp).  One thread is   *)
(* the window's; each call of Connect has a thread of the window's pool,   *)
(* which reads, and one of its own, which writes.  Commands go from the    *)
(* window to the writers through a mailbox that holds one.                 *)
(*                                                                         *)
(* Commands are told apart by the number of the SendCommand that brought   *)
(* them.  An observer is a player that never has orders.                   *)
(***************************************************************************)
EXTENDS Integers, Sequences

CONSTANTS
  MaxConnections,   \* calls of Connect (a bound of the model only)
  MaxCommands       \* commands that are asked for (a bound of the model only)

ASSUME ClientBounds == {MaxConnections, MaxCommands} \subseteq Nat

VARIABLES
  command,         \* the mailbox
  stop,
  newState,
  state,           \* "none", or the last one received: "shown", or "unseen" so far
  discreteAction,  \* the player's orders
  gui,             \* the window's thread: [at, want, then]
  conn,            \* Connect call -> [reader, writer, req]
  link,            \* Connect call -> its stream and channel
  asked,           \* history: the commands put into the mailbox
  sent             \* history: the requests that went out

mailVars == <<command, discreteAction, asked>>
viewVars == <<state, newState>>
netVars == <<link, sent>>
vars == <<mailVars, viewVars, netVars, stop, gui, conn>>

\* INVALID_COMMAND
None == 0

Conns == 1 .. MaxConnections

\* No command, or the number of one.
IsDisconnect(n) == n # None /\ asked[n].kind = "DISCONNECT"

NoRequest == [n |-> None, orders |-> 0]

Init ==
  /\ command = None /\ stop = TRUE /\ newState = FALSE
  /\ state = "none"
  /\ discreteAction = 0
  /\ gui = [at |-> "idle", want |-> "STEP", then |-> "idle"]
  /\ conn = [c \in Conns |-> [reader |-> "unused", writer |-> "none",
                              req |-> NoRequest]]
  /\ link = [c \in Conns |-> "up"]
  /\ asked = << >> /\ sent = << >>

-----------------------------------------------------------------------------
(* The window *)

GoTo(at) == gui' = [gui EXCEPT !.at = at]

\* The handler calls SendCommand(kind) and goes on with what follows.
Call(kind, then) == gui' = [at |-> "test", want |-> kind, then |-> then]

MayAsk == gui.at = "idle" /\ Len(asked) < MaxCommands

\* The buttons for START, STOP, STEP and RESET.
PressCommand ==
  /\ MayAsk
  /\ Call("STEP", "idle")
  /\ UNCHANGED <<mailVars, viewVars, netVars, stop, conn>>

\* The button that reads Disconnect while stop is FALSE.
PressDisconnect ==
  /\ MayAsk /\ ~stop
  /\ Call("DISCONNECT", "stopping")
  /\ UNCHANGED <<mailVars, viewVars, netVars, stop, conn>>

SetStop ==
  /\ gui.at = "stopping"
  /\ stop' = TRUE
  /\ GoTo("idle")
  /\ UNCHANGED <<mailVars, viewVars, netVars, conn>>

\* The same button while stop is TRUE: a thread of the pool is to run Connect.  The
\* user is taken to wait for what became of the last Connect before he presses again.
PressConnect ==
  /\ gui.at = "idle" /\ stop
  /\ \A d \in Conns : conn[d].reader # "queued"
  /\ \E c \in Conns :
       /\ \A d \in Conns : conn[d].reader = "unused" <=> d >= c
       /\ conn' = [conn EXCEPT ![c].reader = "queued"]
  /\ GoTo("connecting")
  /\ UNCHANGED <<mailVars, viewVars, netVars, stop>>

\* A tenth of a second later: without a state yet, ask for one.
AskForReset ==
  /\ gui.at = "connecting"
  /\ IF state = "none" /\ Len(asked) < MaxCommands THEN Call("RESET", "idle") ELSE GoTo("idle")
  /\ UNCHANGED <<mailVars, viewVars, netVars, stop, conn>>

\* The destructor of the window.
Quit ==
  /\ MayAsk
  /\ Call("DISCONNECT", "gone")
  /\ UNCHANGED <<mailVars, viewVars, netVars, stop, conn>>

\* SendCommand: if (stop) return
TestStop ==
  /\ gui.at = "test"
  /\ GoTo(IF stop THEN gui.then ELSE "empty")
  /\ UNCHANGED <<mailVars, viewVars, netVars, stop, conn>>

AwaitEmpty ==
  /\ gui.at = "empty" /\ command = None
  /\ GoTo("fill")
  /\ UNCHANGED <<mailVars, viewVars, netVars, stop, conn>>

\* command = cmd
Fill ==
  /\ gui.at = "fill"
  /\ asked' = Append(asked, [kind |-> gui.want, orders |-> discreteAction])
  /\ command' = Len(asked) + 1
  /\ GoTo("taken")
  /\ UNCHANGED <<discreteAction, viewVars, netVars, stop, conn>>

\* Mutant: SendCommand does not wait for the writer.
ReturnAtOnce ==
  /\ gui.at = "taken"
  /\ GoTo(gui.then)
  /\ UNCHANGED <<mailVars, viewVars, netVars, stop, conn>>

AwaitTaken ==
  /\ gui.at = "taken" /\ command = None
  /\ GoTo(gui.then)
  /\ UNCHANGED <<mailVars, viewVars, netVars, stop, conn>>

\* The timer finds newState.exchange(false) true.
Render ==
  /\ gui.at = "idle" /\ newState
  /\ newState' = FALSE
  /\ GoTo("paint")
  /\ UNCHANGED <<mailVars, netVars, state, stop, conn>>

\* HumanAi::Act sets the orders, and sends them if there are any.
Act ==
  \/ discreteAction' = 0 /\ GoTo("idle")
  \/ /\ Len(asked) < MaxCommands
     /\ discreteAction' = Len(asked) + 1
     /\ Call("STEP", "idle")

\* Mutant: the flag is cleared once more after the state has been drawn.
PaintThenClear ==
  /\ \/ /\ gui.at = "paint"
        /\ state' = "shown" /\ GoTo("painted")
        /\ UNCHANGED <<newState, discreteAction>>
     \/ /\ gui.at = "painted"
        /\ newState' = FALSE /\ Act
        /\ UNCHANGED state
  /\ UNCHANGED <<command, asked, netVars, stop, conn>>

Paint ==
  /\ gui.at = "paint"
  /\ state' = "shown"
  /\ Act
  /\ UNCHANGED <<command, asked, netVars, newState, stop, conn>>

-----------------------------------------------------------------------------
(* A thread that runs Connect: it starts the writer, and reads *)

Writing(c) == conn[c].writer \notin {"none", "exit"}

ReaderTo(c, at) == conn' = [conn EXCEPT ![c].reader = at]

\* The channel is not ready.
GiveUp(c) ==
  /\ conn[c].reader = "queued"
  /\ ReaderTo(c, "done")
  /\ UNCHANGED <<mailVars, viewVars, netVars, stop, gui>>

Begin(c) ==
  /\ conn[c].reader = "queued"
  /\ stop' = FALSE
  /\ conn' = [conn EXCEPT ![c].reader = "test", ![c].writer = "check"]
  /\ UNCHANGED <<mailVars, viewVars, netVars, gui>>

TestReader(c) ==
  /\ conn[c].reader = "test"
  /\ ReaderTo(c, IF stop THEN "joining" ELSE "reading")
  /\ UNCHANGED <<mailVars, viewVars, netVars, stop, gui>>

\* stream->Read, which is false when the stream is over.
Read(c) ==
  /\ conn[c].reader = "reading" /\ link[c] = "up"
  /\ ReaderTo(c, "storing")
  /\ UNCHANGED <<mailVars, viewVars, netVars, stop, gui>>

ReadFails(c) ==
  /\ conn[c].reader = "reading" /\ link[c] # "up"
  /\ ReaderTo(c, "joining")
  /\ UNCHANGED <<mailVars, viewVars, netVars, stop, gui>>

\* With stateLock held, which GetObservation takes as well.
Store(c) ==
  /\ conn[c].reader = "storing"
  /\ state' = "unseen" /\ newState' = TRUE
  /\ ReaderTo(c, "test")
  /\ UNCHANGED <<mailVars, netVars, stop, gui>>

Join(c) ==
  /\ conn[c].reader = "joining" /\ ~Writing(c)
  /\ ReaderTo(c, "done")
  /\ UNCHANGED <<mailVars, viewVars, netVars, stop, gui>>

-----------------------------------------------------------------------------
(* A writer.  It reads command three times for each request; nobody else  *)
(* clears it, so that with one writer these are two steps.                 *)

WriterAt(c, at) == conn[c].writer = at

WriterTo(c, at) == conn' = [conn EXCEPT ![c].writer = at]

\* The channel is not ready any more: the window is told, the mailbox is left alone.
FindLost(c) ==
  /\ WriterAt(c, "check") /\ link[c] = "lost"
  /\ stop' = TRUE
  /\ WriterTo(c, "exit")
  /\ UNCHANGED <<mailVars, viewVars, netVars, gui>>

\* command, and the orders with actionLock held, go into a request.  (An empty
\* mailbox is looked at again.)
Load(c) ==
  /\ WriterAt(c, "check") /\ link[c] # "lost"
  /\ command # None
  /\ conn' = [conn EXCEPT ![c].writer = "write",
                          ![c].req = [n |-> command, orders |-> discreteAction]]
  /\ UNCHANGED <<mailVars, viewVars, netVars, stop, gui>>

\* What stream->Write returns is not looked at.
Write(c) ==
  /\ WriterAt(c, "write")
  /\ conn' = [conn EXCEPT ![c].writer = "clear", ![c].req = NoRequest]
  /\ sent' = IF link[c] = "up"
               THEN Append(sent, [conn |-> c, n |-> conn[c].req.n,
                                  orders |-> conn[c].req.orders])
               ELSE sent
  /\ UNCHANGED <<mailVars, viewVars, link, stop, gui>>

\* Mutant: a writer that has sent DISCONNECT goes on.
ClearAndGoOn(c) ==
  /\ WriterAt(c, "clear")
  /\ WriterTo(c, "check")
  /\ command' = None
  /\ UNCHANGED <<discreteAction, asked, viewVars, netVars, stop, gui>>

\* Mutant: DISCONNECT is left in the mailbox.
LeaveFull(c) ==
  /\ WriterAt(c, "clear")
  /\ IF IsDisconnect(command) THEN WriterTo(c, "exit") /\ UNCHANGED command
                              ELSE WriterTo(c, "check") /\ command' = None
  /\ UNCHANGED <<discreteAction, asked, viewVars, netVars, stop, gui>>

\* command = INVALID_COMMAND, and the end of the writer if it was DISCONNECT.
Clear(c) ==
  /\ WriterAt(c, "clear")
  /\ WriterTo(c, IF IsDisconnect(command) THEN "exit" ELSE "check")
  /\ command' = None
  /\ UNCHANGED <<discreteAction, asked, viewVars, netVars, stop, gui>>

-----------------------------------------------------------------------------
(* The server and the net *)

\* The server has read DISCONNECT and ends the stream.
ServerEnds(c) ==
  /\ link[c] = "up"
  /\ \E k \in DOMAIN sent : sent[k].conn = c /\ IsDisconnect(sent[k].n)
  /\ link' = [link EXCEPT ![c] = "ended"]
  /\ UNCHANGED <<mailVars, viewVars, sent, stop, gui, conn>>

Lose(c) ==
  /\ conn[c].reader \notin {"unused", "queued", "done"} /\ link[c] # "lost"
  /\ link' = [link EXCEPT ![c] = "lost"]
  /\ UNCHANGED <<mailVars, viewVars, sent, stop, gui, conn>>

-----------------------------------------------------------------------------
\* What the window's thread does without waiting for its user.
Handler ==
  SetStop \/ AskForReset \/ TestStop \/ AwaitEmpty \/ Fill \/ AwaitTaken \/ Paint

User == PressCommand \/ PressDisconnect \/ PressConnect \/ Quit

Reader(c) ==
  GiveUp(c) \/ Begin(c) \/ TestReader(c) \/ Read(c) \/ ReadFails(c) \/ Store(c) \/ Join(c)

Writer(c) ==
  FindLost(c) \/ Load(c) \/ Write(c) \/ Clear(c)

Next ==
  \/ User \/ Handler \/ Render
  \/ \E c \in Conns : Reader(c) \/ Writer(c) \/ ServerEnds(c) \/ Lose(c)

Spec == Init /\ [][Next]_vars

\* Every thread goes on, and the server ends a stream that is disconnected.
FairSpec ==
  /\ Spec
  /\ WF_vars(Handler)
  /\ \A c \in Conns : WF_vars(Reader(c)) /\ WF_vars(Writer(c)) /\ WF_vars(ServerEnds(c))

=============================================================================
