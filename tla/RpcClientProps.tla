--------------------------- MODULE RpcClientProps ---------------------------
(***************************************************************************)
(* What is claimed of RpcClient.                                           *)
(***************************************************************************)
EXTENDS RpcClient

AnyLost == \E c \in Conns : link[c] = "lost"

\* A command goes out once, after all that were asked for before it, and with the
\* orders it was asked for with, over all connections; one that SendCommand has come
\* back from has gone out, unless its connection was lost.
CommandsArrive ==
  /\ \A j, k \in DOMAIN sent : j < k => sent[j].n < sent[k].n
  /\ \A k \in DOMAIN sent :
       sent[k].n \in DOMAIN asked /\ sent[k].orders = asked[sent[k].n].orders
  /\ \A n \in DOMAIN asked :
       n = command \/ AnyLost \/ \E k \in DOMAIN sent : sent[k].n = n

\* No state is overlooked: the window shows the last one received, or the flag says
\* that there is one, or the window is about to look.
NothingUnseen == state = "unseen" => newState \/ gui.at = "paint"

\* SendCommand comes back, as long as no connection is lost: a writer that ends then
\* leaves the mailbox full, and the window waits for ever.
CommandReturns ==
  (gui.at \in {"empty", "fill", "taken"})
    ~> (gui.at \notin {"empty", "fill", "taken"} \/ AnyLost)

HasSaidBye(c) == \E k \in DOMAIN sent : sent[k].conn = c /\ IsDisconnect(sent[k].n)

\* The threads of a connection that was told DISCONNECT end, in whatever state of
\* reading and writing it met them.
ConnectionEnds ==
  \A c \in Conns : HasSaidBye(c) ~> conn[c].reader = "done"

-----------------------------------------------------------------------------
(* Why commands arrive: an inductive invariant.                              *)

Commands == [kind : {"STEP", "RESET", "DISCONNECT"}, orders : Nat]

Requests == [conn : Conns, n : Nat, orders : Nat]

Threads ==
  [reader : {"unused", "queued", "test", "reading", "storing", "joining", "done"},
   writer : {"none", "check", "write", "clear", "exit"},
   req : [n : Nat, orders : Nat]]

RpcTypeOK ==
  /\ command \in Nat /\ discreteAction \in Nat
  /\ stop \in BOOLEAN /\ newState \in BOOLEAN
  /\ state \in {"none", "shown", "unseen"}
  /\ gui \in [at : {"idle", "stopping", "connecting", "paint", "gone",
                    "test", "empty", "fill", "taken"},
              want : {"STEP", "RESET", "DISCONNECT"},
              then : {"idle", "stopping", "gone"}]
  /\ conn \in [Conns -> Threads]
  /\ link \in [Conns -> {"up", "ended", "lost"}]
  /\ asked \in Seq(Commands)
  /\ sent \in Seq(Requests)

Queued(c) == conn[c].reader = "queued"

\* There is one writer at most, and none while stop is TRUE or a Connect is queued.
OneWriter ==
  /\ \A c, d \in Conns : Writing(c) /\ Writing(d) => c = d
  /\ \A c \in Conns : Writing(c) => ~stop
  /\ \A c \in Conns : Queued(c) => stop
  /\ \A c, d \in Conns : Queued(c) /\ Queued(d) => c = d
  /\ \A c \in Conns : conn[c].reader \in {"unused", "queued"} => conn[c].writer = "none"

\* Where the window is.  From the moment it has found stop FALSE to the moment it comes
\* back no Connect is queued; when it is about to set stop, or DISCONNECT has been
\* taken out of the mailbox, the writer is gone.
WindowOK ==
  /\ \/ gui.at \in {"empty", "fill", "taken", "stopping"}
     \/ gui.at = "test" /\ gui.then = "stopping"
     => \A c \in Conns : ~Queued(c)
  /\ gui.at \in {"test", "empty", "fill", "taken"} /\ gui.then = "stopping" =>
       gui.want = "DISCONNECT"
  /\ gui.at = "taken" => asked # << >> /\ asked[Len(asked)].kind = gui.want
  /\ \/ gui.at = "stopping"
     \/ gui.at = "taken" /\ command = None /\ gui.want = "DISCONNECT"
     => \A c \in Conns : ~Writing(c)

\* The mailbox is full only while the window waits for the last command to be taken.
MailboxOK ==
  /\ command # None =>
       /\ gui.at = "taken"
       /\ command = Len(asked) /\ asked[command].orders = discreteAction
  /\ \A c \in Conns :
       /\ WriterAt(c, "write") =>
            command # None /\ conn[c].req = [n |-> command, orders |-> discreteAction]
       /\ WriterAt(c, "clear") =>
            command # None /\ (AnyLost \/ \E k \in DOMAIN sent : sent[k].n = command)

\* What went out: a command that is not yet written is newer than all that is, and who
\* was told DISCONNECT is written to no more.
SentOK ==
  /\ command # None /\ (\A c \in Conns : ~WriterAt(c, "clear")) =>
       \A k \in DOMAIN sent : sent[k].n < command
  /\ \A c \in Conns :
       /\ HasSaidBye(c) =>
            WriterAt(c, "exit") \/ (WriterAt(c, "clear") /\ IsDisconnect(command))
       /\ link[c] = "ended" => HasSaidBye(c)

ClientInv ==
  RpcTypeOK /\ OneWriter /\ WindowOK /\ MailboxOK /\ SentOK /\ CommandsArrive

=============================================================================
