-------------------------- MODULE RpcClientProofs --------------------------
(***************************************************************************)
(* Proofs about RpcClient, for any number of connections and of commands:  *)
(* ClientInv is inductive, and what the window and the writers promise     *)
(* each other follows from it.                                             *)
(***************************************************************************)
EXTENDS RpcClientProps, TLAPS

\* The steps of the window's thread.
Window == User \/ Handler \/ Render

\* What a sequence is that has one element more.
LEMMA Appended ==
  ASSUME NEW S, NEW q \in Seq(S), NEW e \in S
  PROVE  /\ Append(q, e) \in Seq(S)
         /\ DOMAIN q = 1 .. Len(q) /\ Len(q) \in Nat
         /\ \A k \in DOMAIN q : k \in DOMAIN Append(q, e) /\ Append(q, e)[k] = q[k]
         /\ \A k \in DOMAIN Append(q, e) :
              k \in DOMAIN q \/ (k = Len(q) + 1 /\ Append(q, e)[k] = e)
         /\ \E k \in DOMAIN Append(q, e) : Append(q, e)[k] = e
<1>1. Len(q) + 1 \in DOMAIN Append(q, e) /\ Append(q, e)[Len(q) + 1] = e
  OBVIOUS
<1> QED
  BY <1>1

-----------------------------------------------------------------------------
(* Moves of a thread *)

\* A reader's move is its own, and leaves its writer alone.
LEMMA ReaderMoves ==
  ASSUME conn \in [Conns -> Threads], NEW c \in Conns,
         NEW at \in {"queued", "test", "reading", "storing", "joining", "done"},
         ReaderTo(c, at)
  PROVE  /\ conn' \in [Conns -> Threads]
         /\ conn'[c].reader = at
         /\ \A d \in Conns : d # c => conn'[d] = conn[d]
         /\ \A d \in Conns : conn'[d].writer = conn[d].writer /\ conn'[d].req = conn[d].req
<1> DEFINE t == [conn[c] EXCEPT !.reader = at]
<1>1. t \in Threads /\ t.reader = at /\ t.writer = conn[c].writer /\ t.req = conn[c].req
  BY DEF Threads
<1>2. conn' = [conn EXCEPT ![c] = t]
  BY DEF ReaderTo
<1> HIDE DEF t
<1> QED
  BY <1>1, <1>2

\* So is a writer's.
LEMMA WriterMoves ==
  ASSUME conn \in [Conns -> Threads], NEW c \in Conns,
         NEW at \in {"check", "write", "clear", "exit"},
         WriterTo(c, at)
  PROVE  /\ conn' \in [Conns -> Threads]
         /\ conn'[c].writer = at
         /\ \A d \in Conns : d # c => conn'[d] = conn[d]
         /\ \A d \in Conns : conn'[d].reader = conn[d].reader /\ conn'[d].req = conn[d].req
<1> DEFINE t == [conn[c] EXCEPT !.writer = at]
<1>1. t \in Threads /\ t.writer = at /\ t.reader = conn[c].reader /\ t.req = conn[c].req
  BY DEF Threads
<1>2. conn' = [conn EXCEPT ![c] = t]
  BY DEF WriterTo
<1> HIDE DEF t
<1> QED
  BY <1>1, <1>2

\* A Connect that is asked for waits for its thread.
LEMMA ConnectMoves ==
  ASSUME conn \in [Conns -> Threads], PressConnect
  PROVE  \E c \in Conns :
           /\ conn[c].reader = "unused" /\ ReaderTo(c, "queued")
<1>1. PICK c \in Conns : /\ \A d \in Conns : conn[d].reader = "unused" <=> d >= c
                         /\ conn' = [conn EXCEPT ![c].reader = "queued"]
  BY DEF PressConnect
<1>2. c >= c
  BY ClientBounds DEF Conns
<1> QED
  BY <1>1, <1>2 DEF ReaderTo

\* Connect starts both its threads.
LEMMA BeginMoves ==
  ASSUME conn \in [Conns -> Threads], NEW c \in Conns, Begin(c)
  PROVE  /\ conn' \in [Conns -> Threads]
         /\ conn'[c].reader = "test" /\ conn'[c].writer = "check"
         /\ \A d \in Conns : d # c => conn'[d] = conn[d]
<1> DEFINE t == [conn[c] EXCEPT !.reader = "test", !.writer = "check"]
<1>1. t \in Threads /\ t.reader = "test" /\ t.writer = "check"
  BY DEF Threads
<1>2. conn' = [conn EXCEPT ![c] = t]
  BY DEF Begin
<1> HIDE DEF t
<1> QED
  BY <1>1, <1>2

\* A writer takes what is in the mailbox along.
LEMMA LoadMoves ==
  ASSUME conn \in [Conns -> Threads], command \in Nat, discreteAction \in Nat,
         NEW c \in Conns, Load(c)
  PROVE  /\ conn' \in [Conns -> Threads]
         /\ conn'[c].writer = "write" /\ conn'[c].reader = conn[c].reader
         /\ conn'[c].req = [n |-> command, orders |-> discreteAction]
         /\ \A d \in Conns : d # c => conn'[d] = conn[d]
<1> DEFINE r == [n |-> command, orders |-> discreteAction]
           t == [conn[c] EXCEPT !.writer = "write", !.req = r]
<1>1. r \in [n : Nat, orders : Nat]
  OBVIOUS
<1>2. conn' = [conn EXCEPT ![c] = t]
  BY DEF Load
<1> HIDE DEF r
<1>3. t \in Threads /\ t.writer = "write" /\ t.reader = conn[c].reader /\ t.req = r
  BY <1>1 DEF Threads
<1> HIDE DEF t
<1>4. /\ conn' \in [Conns -> Threads]
      /\ conn'[c].writer = "write" /\ conn'[c].reader = conn[c].reader
      /\ conn'[c].req = r
      /\ \A d \in Conns : d # c => conn'[d] = conn[d]
  BY <1>2, <1>3
<1> QED
  BY <1>4 DEF r

\* It goes out, or it does not.
LEMMA WriteMoves ==
  ASSUME conn \in [Conns -> Threads], NEW c \in Conns, Write(c)
  PROVE  /\ conn' \in [Conns -> Threads]
         /\ conn'[c].writer = "clear" /\ conn'[c].reader = conn[c].reader
         /\ \A d \in Conns : d # c => conn'[d] = conn[d]
<1> DEFINE t == [conn[c] EXCEPT !.writer = "clear", !.req = NoRequest]
<1>1. NoRequest \in [n : Nat, orders : Nat]
  BY DEF NoRequest, None
<1>2. conn' = [conn EXCEPT ![c] = t]
  BY DEF Write
<1>3. t \in Threads /\ t.writer = "clear" /\ t.reader = conn[c].reader
  BY <1>1 DEF Threads
<1> HIDE DEF t
<1> QED
  BY <1>2, <1>3

-----------------------------------------------------------------------------
(* Types *)

\* The window keeps every variable in its type.
LEMMA WindowKeepsType ==
  ASSUME RpcTypeOK, Window
  PROVE  RpcTypeOK'
<1> USE DEF RpcTypeOK, mailVars, viewVars, netVars, GoTo, Call, MayAsk
<1>1. CASE PressCommand \/ PressDisconnect \/ Quit
  BY <1>1 DEF PressCommand, PressDisconnect, Quit
<1>2. CASE PressConnect
  <2>1. conn' \in [Conns -> Threads]
    BY <1>2, ConnectMoves, ReaderMoves
  <2> QED
    BY <1>2, <2>1 DEF PressConnect
<1>3. CASE SetStop \/ TestStop \/ AwaitEmpty \/ AwaitTaken \/ Render
  BY <1>3 DEF SetStop, TestStop, AwaitEmpty, AwaitTaken, Render
<1>4. CASE AskForReset
  BY <1>4 DEF AskForReset
<1>5. CASE Fill
  <2>1. [kind |-> gui.want, orders |-> discreteAction] \in Commands
    BY DEF Commands
  <2>2. asked' \in Seq(Commands) /\ command' \in Nat
    BY <1>5, <2>1 DEF Fill
  <2> QED
    BY <1>5, <2>2 DEF Fill
<1>6. CASE Paint
  <2>1. discreteAction' \in Nat
    BY <1>6 DEF Paint, Act
  <2> QED
    BY <1>6, <2>1 DEF Paint, Act
<1> QED
  BY <1>1, <1>2, <1>3, <1>4, <1>5, <1>6 DEF Window, User, Handler

\* So do the threads of a connection, the server and the net.
LEMMA ConnectionKeepsType ==
  ASSUME RpcTypeOK, NEW c \in Conns,
         Reader(c) \/ Writer(c) \/ ServerEnds(c) \/ Lose(c)
  PROVE  RpcTypeOK'
<1> USE DEF RpcTypeOK, mailVars, viewVars, netVars
<1>1. CASE GiveUp(c) \/ TestReader(c) \/ Read(c) \/ ReadFails(c) \/ Join(c)
  <2>1. \E at \in {"reading", "storing", "joining", "done"} : ReaderTo(c, at)
    BY <1>1 DEF GiveUp, TestReader, Read, ReadFails, Join
  <2>2. conn' \in [Conns -> Threads]
    BY <2>1, ReaderMoves
  <2> QED
    BY <1>1, <2>2 DEF GiveUp, TestReader, Read, ReadFails, Join
<1>2. CASE Begin(c)
  BY <1>2, BeginMoves DEF Begin
<1>3. CASE Store(c)
  BY <1>3, ReaderMoves DEF Store
<1>4. CASE FindLost(c)
  BY <1>4, WriterMoves DEF FindLost
<1>5. CASE Load(c)
  BY <1>5, LoadMoves DEF Load
<1>6. CASE Write(c)
  <2> DEFINE r == [conn |-> c, n |-> conn[c].req.n, orders |-> conn[c].req.orders]
  <2>1. conn[c].req \in [n : Nat, orders : Nat]
    BY DEF Threads
  <2>2. r \in Requests
    BY <2>1 DEF Requests
  <2>5. sent' = sent \/ sent' = Append(sent, r)
    BY <1>6 DEF Write
  <2>3. sent \in Seq(Requests)
    OBVIOUS
  <2> HIDE DEF r, RpcTypeOK
  <2>4. Append(sent, r) \in Seq(Requests)
    BY <2>2, <2>3, Appended
  <2>6. sent' \in Seq(Requests)
    BY <2>3, <2>4, <2>5
  <2> USE DEF RpcTypeOK
  <2>7. conn' \in [Conns -> Threads]
    BY <1>6, WriteMoves
  <2>8. UNCHANGED <<mailVars, viewVars, link, stop, gui>>
    BY <1>6 DEF Write
  <2> QED
    BY <2>6, <2>7, <2>8
<1>7. CASE Clear(c)
  <2>1. \E at \in {"check", "exit"} : WriterTo(c, at)
    BY <1>7 DEF Clear
  <2> QED
    BY <1>7, <2>1, WriterMoves DEF Clear, None
<1>8. CASE ServerEnds(c) \/ Lose(c)
  BY <1>8 DEF ServerEnds, Lose
<1> QED
  BY <1>1, <1>2, <1>3, <1>4, <1>5, <1>6, <1>7, <1>8 DEF Reader, Writer

-----------------------------------------------------------------------------
(* Steps of the window *)

\* A step of the window that leaves the mailbox, the net and the threads alone keeps
\* everything but what WindowOK says of where the window is.
LEMMA WindowOnly ==
  ASSUME ClientInv, UNCHANGED <<command, asked, netVars, conn, stop>>,
         command # None => UNCHANGED <<gui, discreteAction>>
  PROVE  OneWriter' /\ MailboxOK' /\ SentOK' /\ CommandsArrive'
<1> USE DEF ClientInv, netVars
<1>1. OneWriter'
  BY DEF OneWriter, Writing, Queued
<1>2. \A c \in Conns : WriterAt(c, "write") \/ WriterAt(c, "clear") => command # None
  BY DEF MailboxOK
<1>3. MailboxOK'
  BY <1>2 DEF MailboxOK, WriterAt, AnyLost
<1>4. SentOK'
  BY DEF SentOK, WriterAt, HasSaidBye, IsDisconnect
<1>5. CommandsArrive'
  BY DEF CommandsArrive, AnyLost
<1> QED
  BY <1>1, <1>3, <1>4, <1>5

\* Unless it waits for the writer, the window finds the mailbox empty.
LEMMA MailboxEmpty ==
  ASSUME MailboxOK, gui.at # "taken"
  PROVE  command = None
BY DEF MailboxOK

\* The buttons, the timer and the way through SendCommand, but for Connect and for
\* putting the command into the mailbox.
LEMMA WindowStep ==
  ASSUME ClientInv,
         \/ PressCommand \/ PressDisconnect \/ Quit
         \/ AskForReset \/ TestStop \/ AwaitEmpty \/ AwaitTaken \/ Render \/ Paint
  PROVE  ClientInv'
<1> USE DEF mailVars, viewVars, netVars
<1>1. RpcTypeOK'
  BY WindowKeepsType DEF ClientInv, Window, User, Handler
<1>2. UNCHANGED <<command, asked, netVars, conn, stop>>
  BY DEF PressCommand, PressDisconnect, Quit, AskForReset, TestStop, AwaitEmpty,
         AwaitTaken, Render, Paint
<1>3. command = None
  BY MailboxEmpty DEF ClientInv, PressCommand, PressDisconnect, Quit, AskForReset,
         TestStop, AwaitEmpty, AwaitTaken, Render, Paint, MayAsk
<1>4. OneWriter' /\ MailboxOK' /\ SentOK' /\ CommandsArrive'
  BY <1>2, <1>3, WindowOnly
<1>5. WindowOK'
  <2> USE DEF WindowOK, GoTo, Call, MayAsk, Queued, Writing, RpcTypeOK, ClientInv
  <2>1. CASE PressCommand \/ PressDisconnect \/ Quit
    BY <1>2, <2>1 DEF PressCommand, PressDisconnect, Quit, OneWriter
  <2>2. CASE AskForReset
    BY <1>2, <2>2 DEF AskForReset
  <2>3. CASE TestStop
    BY <1>2, <2>3 DEF TestStop, OneWriter
  <2>4. CASE AwaitEmpty
    BY <1>2, <2>4 DEF AwaitEmpty
  <2>5. CASE AwaitTaken
    BY <1>2, <2>5 DEF AwaitTaken
  <2>6. CASE Render
    BY <1>2, <2>6 DEF Render
  <2>7. CASE Paint
    BY <1>2, <2>7 DEF Paint, Act
  <2> QED
    BY <2>1, <2>2, <2>3, <2>4, <2>5, <2>6, <2>7
<1> QED
  BY <1>1, <1>4, <1>5 DEF ClientInv

\* The window is about to set stop: its writer is gone.
LEMMA SetStopStep ==
  ASSUME ClientInv, SetStop
  PROVE  ClientInv'
<1> USE DEF mailVars, viewVars, netVars, ClientInv
<1>1. RpcTypeOK'
  BY WindowKeepsType DEF Window, Handler
<1>2. command = None
  BY MailboxEmpty DEF SetStop
<1>3. UNCHANGED <<command, asked, discreteAction, link, sent, conn>> /\ stop'
  BY DEF SetStop
<1>4. \A c \in Conns : ~Writing(c)
  BY DEF SetStop, WindowOK
<1>5. OneWriter'
  BY <1>3, <1>4 DEF OneWriter, Writing, Queued
<1>6. WindowOK'
  BY <1>3 DEF SetStop, WindowOK, GoTo, RpcTypeOK
<1>7. MailboxOK'
  BY <1>2, <1>3, <1>4 DEF MailboxOK, WriterAt, Writing
<1>8. SentOK' /\ CommandsArrive'
  BY <1>2, <1>3 DEF SentOK, CommandsArrive, WriterAt, HasSaidBye, IsDisconnect, AnyLost
<1> QED
  BY <1>1, <1>5, <1>6, <1>7, <1>8

\* A Connect is asked for: stop is TRUE, so that no writer runs.
LEMMA PressConnectStep ==
  ASSUME ClientInv, PressConnect
  PROVE  ClientInv'
<1> USE DEF mailVars, viewVars, netVars, ClientInv
<1>1. RpcTypeOK'
  BY WindowKeepsType DEF Window, User
<1>2. /\ command = None /\ stop
      /\ UNCHANGED <<command, asked, discreteAction, link, sent, stop>>
  BY MailboxEmpty DEF PressConnect
<1>3. PICK c \in Conns : conn[c].reader = "unused" /\ ReaderTo(c, "queued")
  BY ConnectMoves DEF RpcTypeOK
<1>4. /\ conn'[c].reader = "queued"
      /\ \A d \in Conns : d # c => conn'[d] = conn[d]
      /\ \A d \in Conns : conn'[d].writer = conn[d].writer /\ conn'[d].req = conn[d].req
  BY <1>3, ReaderMoves DEF RpcTypeOK
<1>5. \A d \in Conns : ~Queued(d)
  BY DEF PressConnect, Queued
<1>6. \A d \in Conns : Queued(d)' => d = c
  BY <1>4, <1>5 DEF Queued
<1>7. \A d \in Conns : ~Writing(d)
  BY <1>2 DEF OneWriter
<1>8. \A d \in Conns : ~Writing(d)'
  BY <1>4, <1>7 DEF Writing
<1>9. OneWriter'
  BY <1>2, <1>3, <1>4, <1>6, <1>8 DEF OneWriter
<1>10. WindowOK'
  BY <1>2, <1>8 DEF PressConnect, WindowOK, GoTo, RpcTypeOK
<1>11. MailboxOK'
  BY <1>2, <1>8 DEF MailboxOK, WriterAt, Writing
<1>12. \A d \in Conns : WriterAt(d, "exit")' = WriterAt(d, "exit")
                        /\ WriterAt(d, "clear")' = WriterAt(d, "clear")
  BY <1>4 DEF WriterAt
<1>13. SentOK'
  BY <1>2, <1>12 DEF SentOK, HasSaidBye, IsDisconnect
<1>14. CommandsArrive'
  BY <1>2 DEF CommandsArrive, AnyLost
<1> QED
  BY <1>1, <1>9, <1>10, <1>11, <1>13, <1>14

\* The mailbox is filled: the writers find a new command, and the older ones are
\* accounted for.
LEMMA FillStep ==
  ASSUME ClientInv, Fill
  PROVE  ClientInv'
<1> DEFINE new == [kind |-> gui.want, orders |-> discreteAction]
<1> USE DEF mailVars, viewVars, netVars, ClientInv
<1>1. RpcTypeOK'
  BY WindowKeepsType DEF Window, Handler
<1>2. /\ command = None /\ gui.at = "fill"
      /\ asked' = Append(asked, new) /\ command' = Len(asked) + 1
      /\ UNCHANGED <<discreteAction, link, sent, stop, conn>>
      /\ gui' = [gui EXCEPT !.at = "taken"]
  BY MailboxEmpty DEF Fill, GoTo
<1>3. gui'.at = "taken" /\ gui'.want = gui.want /\ gui'.then = gui.then
  BY <1>2 DEF RpcTypeOK
<1>4. asked \in Seq(Commands) /\ new \in Commands
  BY DEF RpcTypeOK, Commands
<1> HIDE DEF new
<1>5. /\ Len(asked) \in Nat /\ Len(asked') = Len(asked) + 1
      /\ DOMAIN asked = 1 .. Len(asked) /\ DOMAIN asked' = 1 .. Len(asked) + 1
      /\ asked'[Len(asked) + 1] = new
      /\ \A n \in DOMAIN asked : asked'[n] = asked[n]
      /\ asked' # << >>
  BY <1>2, <1>4
<1>6. new.kind = gui.want /\ new.orders = discreteAction
  BY DEF new
<1>7. \A c \in Conns : ~WriterAt(c, "write") /\ ~WriterAt(c, "clear")
  BY <1>2 DEF MailboxOK
<1>8. \A k \in DOMAIN sent : sent[k].n \in DOMAIN asked
  BY DEF CommandsArrive
<1>9. \A k \in DOMAIN sent : IsDisconnect(sent[k].n)' = IsDisconnect(sent[k].n)
  BY <1>2, <1>5, <1>8 DEF IsDisconnect
<1>10. \A c \in Conns : HasSaidBye(c)' = HasSaidBye(c)
  BY <1>2, <1>9 DEF HasSaidBye
<1>11. OneWriter'
  BY <1>2 DEF OneWriter, Writing, Queued
<1>12. WindowOK'
  <2>1. \A c \in Conns : Queued(c)' = Queued(c)
    BY <1>2 DEF Queued
  <2>2. command' # None
    BY <1>2, <1>5 DEF None
  <2> QED
    BY <1>2, <1>3, <1>5, <1>6, <2>1, <2>2 DEF WindowOK
<1>13. MailboxOK'
  BY <1>2, <1>3, <1>5, <1>6, <1>7 DEF MailboxOK, WriterAt
<1>14. SentOK'
  <2>1. \A k \in DOMAIN sent : sent[k].n < command'
    BY <1>2, <1>5, <1>8
  <2> QED
    BY <1>2, <1>7, <1>10, <2>1 DEF SentOK, WriterAt
<1>15. CommandsArrive'
  <2>1. \A k \in DOMAIN sent :
          sent[k].n \in DOMAIN asked' /\ sent[k].orders = asked'[sent[k].n].orders
    BY <1>5, <1>8 DEF CommandsArrive
  <2>2. \A n \in DOMAIN asked' :
          n = command' \/ AnyLost \/ \E k \in DOMAIN sent : sent[k].n = n
    BY <1>2, <1>5 DEF CommandsArrive, None
  <2> QED
    BY <1>2, <2>1, <2>2 DEF CommandsArrive, AnyLost
<1> QED
  BY <1>1, <1>11, <1>12, <1>13, <1>14, <1>15

-----------------------------------------------------------------------------
(* Steps of a reader *)

\* What a reader does that is not the start of its connection leaves everything that
\* is said of writers and of the mailbox alone.
LEMMA ReaderOnly ==
  ASSUME ClientInv, NEW c \in Conns,
         NEW at \in {"test", "reading", "storing", "joining", "done"},
         ReaderTo(c, at), UNCHANGED <<mailVars, netVars, stop, gui>>
  PROVE  OneWriter' /\ WindowOK' /\ MailboxOK' /\ SentOK' /\ CommandsArrive'
<1> USE DEF mailVars, netVars, ClientInv
<1>1. /\ conn'[c].reader = at
      /\ \A d \in Conns : d # c => conn'[d] = conn[d]
      /\ \A d \in Conns : conn'[d].writer = conn[d].writer /\ conn'[d].req = conn[d].req
  BY ReaderMoves DEF RpcTypeOK
<1>2. /\ \A d \in Conns : Queued(d)' => Queued(d)
      /\ \A d \in Conns : conn'[d].reader = "unused" => conn[d].reader = "unused"
  BY <1>1 DEF Queued
<1>3. /\ \A d \in Conns : Writing(d)' = Writing(d)
      /\ \A d \in Conns, w \in {"write", "clear", "exit"} : WriterAt(d, w)' = WriterAt(d, w)
  BY <1>1 DEF Writing, WriterAt
<1>4. OneWriter'
  BY <1>1, <1>2, <1>3 DEF OneWriter, Queued
<1>5. WindowOK'
  BY <1>2, <1>3 DEF WindowOK
<1>6. MailboxOK'
  BY <1>1, <1>3 DEF MailboxOK, AnyLost
<1>7. SentOK'
  BY <1>3 DEF SentOK, HasSaidBye, IsDisconnect
<1>8. CommandsArrive'
  BY DEF CommandsArrive, AnyLost
<1> QED
  BY <1>4, <1>5, <1>6, <1>7, <1>8

\* A connection starts: no writer runs, for the Connect was queued.
LEMMA BeginStep ==
  ASSUME ClientInv, NEW c \in Conns, Begin(c)
  PROVE  OneWriter' /\ WindowOK' /\ MailboxOK' /\ SentOK' /\ CommandsArrive'
<1> USE DEF mailVars, viewVars, netVars, ClientInv
<1>1. /\ conn'[c].reader = "test" /\ conn'[c].writer = "check"
      /\ \A d \in Conns : d # c => conn'[d] = conn[d]
  BY BeginMoves DEF RpcTypeOK
<1>2. Queued(c) /\ ~stop' /\ UNCHANGED <<command, asked, discreteAction, link, sent, gui>>
  BY DEF Begin, Queued
<1>3. \A d \in Conns : ~Writing(d)
  BY <1>2 DEF OneWriter
<1>4. conn[c].writer = "none"
  BY <1>2 DEF OneWriter, Queued
<1>5. \A d \in Conns : Writing(d)' => d = c
  BY <1>1, <1>3 DEF Writing
<1>6. \A d \in Conns : ~Queued(d)'
  BY <1>1, <1>2 DEF OneWriter, Queued
<1>7. \A d \in Conns : ~WriterAt(d, "write")' /\ ~WriterAt(d, "clear")'
  BY <1>1, <1>3 DEF Writing, WriterAt
<1>8. \A d \in Conns : WriterAt(d, "exit") => WriterAt(d, "exit")'
  BY <1>1, <1>4 DEF WriterAt
<1>9. OneWriter'
  BY <1>1, <1>2, <1>5, <1>6 DEF OneWriter, Queued
<1>10. WindowOK'
  BY <1>2, <1>6 DEF WindowOK
<1>11. MailboxOK'
  BY <1>2, <1>7 DEF MailboxOK
<1>12. SentOK'
  <2>1. \A d \in Conns : ~WriterAt(d, "clear")
    BY <1>3 DEF Writing, WriterAt
  <2> QED
    BY <1>2, <1>8, <2>1 DEF SentOK, HasSaidBye, IsDisconnect
<1>13. CommandsArrive'
  BY <1>2 DEF CommandsArrive, AnyLost
<1> QED
  BY <1>9, <1>10, <1>11, <1>12, <1>13

\* Every step of a reader.
LEMMA ReaderStep ==
  ASSUME ClientInv, NEW c \in Conns, Reader(c)
  PROVE  ClientInv'
<1>1. RpcTypeOK'
  BY ConnectionKeepsType DEF ClientInv
<1>2. CASE Begin(c)
  BY <1>1, <1>2, BeginStep DEF ClientInv
<1>3. CASE ~Begin(c)
  <2>1. \E at \in {"test", "reading", "storing", "joining", "done"} : ReaderTo(c, at)
    BY <1>3 DEF Reader, GiveUp, TestReader, Read, ReadFails, Store, Join
  <2>2. UNCHANGED <<mailVars, netVars, stop, gui>>
    BY <1>3 DEF Reader, GiveUp, TestReader, Read, ReadFails, Store, Join
  <2> QED
    BY <1>1, <2>1, <2>2, ReaderOnly DEF ClientInv
<1> QED
  BY <1>2, <1>3

-----------------------------------------------------------------------------
(* Steps of a writer *)

\* A writer that finds its channel lost ends, and has the window stop.
LEMMA FindLostStep ==
  ASSUME ClientInv, NEW c \in Conns, FindLost(c)
  PROVE  OneWriter' /\ WindowOK' /\ MailboxOK' /\ SentOK' /\ CommandsArrive'
<1> USE DEF mailVars, viewVars, netVars, ClientInv
<1>1. /\ conn'[c].writer = "exit"
      /\ \A d \in Conns : d # c => conn'[d] = conn[d]
      /\ \A d \in Conns : conn'[d].reader = conn[d].reader /\ conn'[d].req = conn[d].req
  BY WriterMoves DEF RpcTypeOK, FindLost
<1>2. /\ Writing(c) /\ WriterAt(c, "check") /\ link[c] = "lost"
      /\ UNCHANGED <<command, asked, discreteAction, link, sent, gui>> /\ stop'
  BY DEF FindLost, Writing, WriterAt
<1>3. \A d \in Conns : d # c => ~Writing(d)
  BY <1>2 DEF OneWriter
<1>4. \A d \in Conns : ~Writing(d)'
  BY <1>1, <1>3 DEF Writing
<1>5. \A d \in Conns : ~WriterAt(d, "write")' /\ ~WriterAt(d, "clear")'
  BY <1>4 DEF Writing, WriterAt
<1>6. \A d \in Conns : ~WriterAt(d, "clear")
  BY <1>2, <1>3 DEF Writing, WriterAt
<1>7. \A d \in Conns : Queued(d)' = Queued(d)
  BY <1>1 DEF Queued
<1>8. OneWriter'
  BY <1>1, <1>2, <1>4, <1>7 DEF OneWriter, Writing
<1>9. WindowOK'
  BY <1>2, <1>4, <1>7 DEF WindowOK
<1>10. MailboxOK'
  BY <1>2, <1>5 DEF MailboxOK
<1>11. SentOK'
  <2>1. \A d \in Conns : WriterAt(d, "exit") => WriterAt(d, "exit")'
    BY <1>1 DEF WriterAt
  <2> QED
    BY <1>2, <1>6, <2>1 DEF SentOK, HasSaidBye, IsDisconnect
<1>12. CommandsArrive'
  BY <1>2 DEF CommandsArrive, AnyLost
<1> QED
  BY <1>8, <1>9, <1>10, <1>11, <1>12

\* A writer takes the command of the mailbox.
LEMMA LoadStep ==
  ASSUME ClientInv, NEW c \in Conns, Load(c)
  PROVE  OneWriter' /\ WindowOK' /\ MailboxOK' /\ SentOK' /\ CommandsArrive'
<1> USE DEF mailVars, viewVars, netVars, ClientInv
<1>1. /\ conn'[c].writer = "write" /\ conn'[c].reader = conn[c].reader
      /\ conn'[c].req = [n |-> command, orders |-> discreteAction]
      /\ \A d \in Conns : d # c => conn'[d] = conn[d]
  BY LoadMoves DEF RpcTypeOK
<1>2. /\ Writing(c) /\ WriterAt(c, "check") /\ command # None
      /\ UNCHANGED <<command, asked, discreteAction, link, sent, gui, stop>>
  BY DEF Load, Writing, WriterAt
<1>3. \A d \in Conns : Writing(d)' = Writing(d) /\ Queued(d)' = Queued(d)
  BY <1>1, <1>2 DEF Writing, Queued
<1>4. \A d \in Conns : /\ WriterAt(d, "clear")' = WriterAt(d, "clear")
                       /\ WriterAt(d, "exit")' = WriterAt(d, "exit")
  BY <1>1, <1>2 DEF WriterAt
<1>5. OneWriter'
  BY <1>1, <1>2, <1>3 DEF OneWriter, WriterAt
<1>6. WindowOK'
  BY <1>2, <1>3 DEF WindowOK
<1>7. MailboxOK'
  <2>1. \A d \in Conns : WriterAt(d, "write")' =>
          conn'[d].req = [n |-> command, orders |-> discreteAction]
    BY <1>1 DEF MailboxOK, WriterAt
  <2> QED
    BY <1>2, <1>4, <2>1 DEF MailboxOK, AnyLost
<1>8. SentOK'
  BY <1>2, <1>4 DEF SentOK, HasSaidBye, IsDisconnect
<1>9. CommandsArrive'
  BY <1>2 DEF CommandsArrive, AnyLost
<1> QED
  BY <1>5, <1>6, <1>7, <1>8, <1>9

\* A writer clears the mailbox of what has gone out; after DISCONNECT it ends.
LEMMA ClearStep ==
  ASSUME ClientInv, NEW c \in Conns, Clear(c)
  PROVE  OneWriter' /\ WindowOK' /\ MailboxOK' /\ SentOK' /\ CommandsArrive'
<1> USE DEF mailVars, viewVars, netVars, ClientInv
<1> DEFINE at == IF IsDisconnect(command) THEN "exit" ELSE "check"
<1>1. WriterTo(c, at) /\ at \in {"check", "exit"}
  BY DEF Clear
<1>2. /\ conn'[c].writer = at
      /\ \A d \in Conns : d # c => conn'[d] = conn[d]
      /\ \A d \in Conns : conn'[d].reader = conn[d].reader /\ conn'[d].req = conn[d].req
  BY <1>1, WriterMoves DEF RpcTypeOK
<1>3. /\ Writing(c) /\ WriterAt(c, "clear") /\ command' = None
      /\ UNCHANGED <<asked, discreteAction, link, sent, gui, stop>>
  BY DEF Clear, Writing, WriterAt
<1>4. /\ command # None /\ gui.at = "taken" /\ command = Len(asked)
      /\ AnyLost \/ \E k \in DOMAIN sent : sent[k].n = command
  BY <1>3 DEF MailboxOK
<1>5. \A d \in Conns : Writing(d) => d = c
  BY <1>3 DEF OneWriter
<1>6. /\ \A d \in Conns : Writing(d)' => Writing(d)
      /\ \A d \in Conns : Queued(d)' = Queued(d)
  BY <1>2, <1>3 DEF Writing, Queued
<1>7. \A d \in Conns : ~WriterAt(d, "write")' /\ ~WriterAt(d, "clear")'
  BY <1>1, <1>2, <1>5 DEF Writing, WriterAt
<1>8. OneWriter'
  BY <1>2, <1>3, <1>6 DEF OneWriter, WriterAt
<1>9. WindowOK'
  <2>1. gui.want = "DISCONNECT" => IsDisconnect(command)
    BY <1>4 DEF WindowOK, IsDisconnect
  <2>2. gui.want = "DISCONNECT" => at = "exit"
    BY <2>1
  <2>3. gui.want = "DISCONNECT" => \A d \in Conns : ~Writing(d)'
    BY <1>2, <1>5, <1>6, <2>2 DEF Writing
  <2> QED
    BY <1>3, <1>4, <1>6, <2>3 DEF WindowOK
<1>10. MailboxOK'
  BY <1>3, <1>7 DEF MailboxOK
<1>11. SentOK'
  <2>1. \A d \in Conns : WriterAt(d, "exit") => WriterAt(d, "exit")'
    BY <1>2, <1>3 DEF WriterAt
  <2>2. \A d \in Conns : WriterAt(d, "clear") /\ IsDisconnect(command) => WriterAt(d, "exit")'
    BY <1>2, <1>5 DEF WriterAt, Writing
  <2> QED
    BY <1>3, <2>1, <2>2 DEF SentOK, HasSaidBye, IsDisconnect
<1>12. CommandsArrive'
  BY <1>3, <1>4 DEF CommandsArrive, AnyLost
<1> QED
  BY <1>8, <1>9, <1>10, <1>11, <1>12

\* A writer has written its request: it went out, or its connection is lost, for a
\* stream that the server has ended is written to no more.
LEMMA WriteStep ==
  ASSUME ClientInv, NEW c \in Conns, Write(c)
  PROVE  OneWriter' /\ WindowOK' /\ MailboxOK' /\ SentOK' /\ CommandsArrive'
<1> USE DEF mailVars, viewVars, netVars, ClientInv
<1> DEFINE r == [conn |-> c, n |-> command, orders |-> discreteAction]
<1>1. /\ conn'[c].writer = "clear" /\ conn'[c].reader = conn[c].reader
      /\ \A d \in Conns : d # c => conn'[d] = conn[d]
  BY WriteMoves DEF RpcTypeOK
<1>2. /\ Writing(c) /\ WriterAt(c, "write")
      /\ UNCHANGED <<command, asked, discreteAction, link, gui, stop>>
  BY DEF Write, Writing, WriterAt
<1>3. /\ command # None /\ conn[c].req = [n |-> command, orders |-> discreteAction]
      /\ gui.at = "taken" /\ command = Len(asked) /\ asked[command].orders = discreteAction
  BY <1>2 DEF MailboxOK
<1>4. \A d \in Conns : Writing(d) => d = c
  BY <1>2 DEF OneWriter
<1>5. \A d \in Conns : Writing(d)' = Writing(d) /\ Queued(d)' = Queued(d)
  BY <1>1, <1>2 DEF Writing, Queued
<1>6. \A d \in Conns : ~WriterAt(d, "clear")
  BY <1>2, <1>4 DEF Writing, WriterAt
<1>7. /\ \A d \in Conns : ~WriterAt(d, "write")'
      /\ \A d \in Conns : WriterAt(d, "clear")' => d = c
      /\ \A d \in Conns : WriterAt(d, "exit") => WriterAt(d, "exit")'
      /\ WriterAt(c, "clear")'
  BY <1>1, <1>2, <1>4 DEF Writing, WriterAt
<1>8. link[c] # "ended"
  BY <1>2, <1>6 DEF SentOK, WriterAt
<1>9. IF link[c] = "up" THEN sent' = Append(sent, r) ELSE sent' = sent /\ AnyLost
  <2>1. link[c] # "up" => AnyLost
    BY <1>8 DEF RpcTypeOK, AnyLost
  <2> QED
    BY <1>3, <2>1 DEF Write
<1>10. sent \in Seq(Requests) /\ command \in Nat
  BY DEF RpcTypeOK
<1>11. r \in Requests /\ r.n = command /\ r.orders = discreteAction /\ r.conn = c
  BY DEF RpcTypeOK, Requests
<1> HIDE DEF r
<1>12. \A k \in DOMAIN sent : k \in DOMAIN sent' /\ sent'[k] = sent[k]
  BY <1>9, <1>10, <1>11, Appended
<1>13. \A k \in DOMAIN sent' : k \in DOMAIN sent \/ (k = Len(sent) + 1 /\ sent'[k] = r)
  BY <1>9, <1>10, <1>11, Appended
<1>14. DOMAIN sent = 1 .. Len(sent) /\ Len(sent) \in Nat
  BY <1>10, <1>11, Appended
<1>15. AnyLost \/ \E k \in DOMAIN sent' : sent'[k] = r
  BY <1>9, <1>10, <1>11, Appended
<1>16. \A k \in DOMAIN sent : sent[k].n < command
  BY <1>3, <1>6 DEF SentOK
<1>17. OneWriter'
  BY <1>1, <1>2, <1>5 DEF OneWriter, WriterAt
<1>18. WindowOK'
  BY <1>2, <1>5 DEF WindowOK
<1>19. MailboxOK'
  BY <1>2, <1>3, <1>7, <1>11, <1>15 DEF MailboxOK, AnyLost
<1>20. SentOK'
  <2>1. IsDisconnect(command)' = IsDisconnect(command)
    BY <1>2 DEF IsDisconnect
  <2>2. ASSUME NEW d \in Conns, HasSaidBye(d)'
        PROVE  HasSaidBye(d) \/ (d = c /\ IsDisconnect(command))
    <3>1. PICK k \in DOMAIN sent' : sent'[k].conn = d /\ IsDisconnect(sent[k].n)'
      BY <2>2 DEF HasSaidBye
    <3>2. sent'[k] \in Requests
      BY <1>10, <1>11, <1>12, <1>13
    <3>3. IsDisconnect(sent'[k].n)
      BY <1>2, <3>1 DEF IsDisconnect
    <3>4. CASE k \in DOMAIN sent
      BY <1>12, <3>1, <3>3, <3>4 DEF HasSaidBye
    <3>5. CASE k \notin DOMAIN sent
      BY <1>11, <1>13, <3>1, <3>3, <3>5
    <3> QED
      BY <3>4, <3>5
  <2>3. ASSUME NEW d \in Conns, HasSaidBye(d)
        PROVE  HasSaidBye(d)'
    <3>1. PICK k \in DOMAIN sent : sent[k].conn = d /\ IsDisconnect(sent[k].n)
      BY <2>3 DEF HasSaidBye
    <3>2. IsDisconnect(sent[k].n)'
      BY <1>2, <1>12, <3>1 DEF IsDisconnect
    <3> QED
      BY <1>12, <3>1, <3>2 DEF HasSaidBye
  <2>4. \A d \in Conns : HasSaidBye(d)' =>
          WriterAt(d, "exit")' \/ (WriterAt(d, "clear")' /\ IsDisconnect(command)')
    BY <1>2, <1>6, <1>7, <1>10, <2>1, <2>2 DEF SentOK
  <2> QED
    BY <1>2, <1>7, <2>3, <2>4 DEF SentOK
<1>21. CommandsArrive'
  <2>1. ASSUME NEW j \in DOMAIN sent', NEW k \in DOMAIN sent', j < k
        PROVE  sent'[j].n < sent'[k].n
    <3>1. j \in DOMAIN sent
      BY <1>13, <1>14, <2>1
    <3>2. CASE k \in DOMAIN sent
      BY <1>12, <2>1, <3>1, <3>2 DEF CommandsArrive
    <3>3. CASE k \notin DOMAIN sent
      BY <1>11, <1>12, <1>13, <1>16, <3>1, <3>3
    <3> QED
      BY <3>2, <3>3
  <2>2. command \in DOMAIN asked
    BY <1>3, <1>10 DEF RpcTypeOK, None
  <2>3. \A k \in DOMAIN sent' :
          sent'[k].n \in DOMAIN asked /\ sent'[k].orders = asked[sent'[k].n].orders
    BY <1>3, <1>11, <1>12, <1>13, <2>2 DEF CommandsArrive
  <2>4. \A n \in DOMAIN asked :
          n = command \/ AnyLost \/ \E k \in DOMAIN sent' : sent'[k].n = n
    BY <1>12 DEF CommandsArrive
  <2> QED
    BY <1>2, <2>1, <2>3, <2>4 DEF CommandsArrive, AnyLost
<1> QED
  BY <1>17, <1>18, <1>19, <1>20, <1>21

\* Every step of a writer.
LEMMA WriterStep ==
  ASSUME ClientInv, NEW c \in Conns, Writer(c)
  PROVE  ClientInv'
<1>1. RpcTypeOK'
  BY ConnectionKeepsType DEF ClientInv
<1> QED
  BY <1>1, FindLostStep, LoadStep, ClearStep, WriteStep DEF Writer, ClientInv

-----------------------------------------------------------------------------
(* Steps of the server and of the net *)

\* A link changes: it is ended by the server if that has been told DISCONNECT, or lost.
LEMMA LinkStep ==
  ASSUME ClientInv, NEW c \in Conns, ServerEnds(c) \/ Lose(c)
  PROVE  ClientInv'
<1> USE DEF mailVars, viewVars, netVars, ClientInv
<1>1. RpcTypeOK'
  BY ConnectionKeepsType
<1>2. UNCHANGED <<command, asked, discreteAction, sent, gui, conn, stop>>
  BY DEF ServerEnds, Lose
<1>3. \/ link' = [link EXCEPT ![c] = "ended"] /\ link[c] = "up" /\ HasSaidBye(c)
      \/ link' = [link EXCEPT ![c] = "lost"]
  BY DEF ServerEnds, Lose, HasSaidBye
<1>4. \A d \in Conns : HasSaidBye(d)' = HasSaidBye(d)
  BY <1>2 DEF HasSaidBye, IsDisconnect
<1>5. \A d \in Conns : link'[d] = "ended" => HasSaidBye(d)
  BY <1>3 DEF SentOK, RpcTypeOK
<1>6. AnyLost => AnyLost'
  BY <1>3 DEF AnyLost, RpcTypeOK
<1>7. OneWriter'
  BY <1>2 DEF OneWriter, Writing, Queued
<1>8. WindowOK'
  BY <1>2 DEF WindowOK, Writing, Queued
<1>9. MailboxOK'
  BY <1>2, <1>6 DEF MailboxOK, WriterAt
<1>10. SentOK'
  BY <1>2, <1>4, <1>5 DEF SentOK, WriterAt, IsDisconnect
<1>11. CommandsArrive'
  BY <1>2, <1>6 DEF CommandsArrive
<1> QED
  BY <1>1, <1>7, <1>8, <1>9, <1>10, <1>11

-----------------------------------------------------------------------------
(* The theorems *)

\* The window starts with nothing asked for and nothing connected.
LEMMA ClientInit ==
  ASSUME Init
  PROVE  ClientInv
<1> USE DEF Init, None, NoRequest
<1>1. RpcTypeOK
  <2>1. [reader |-> "unused", writer |-> "none", req |-> NoRequest] \in Threads
    BY DEF Threads
  <2>2. conn \in [Conns -> Threads]
    BY <2>1
  <2>3. asked \in Seq(Commands) /\ sent \in Seq(Requests)
    OBVIOUS
  <2> QED
    BY <2>2, <2>3 DEF RpcTypeOK
<1>2. \A c \in Conns : conn[c].reader = "unused" /\ conn[c].writer = "none"
  OBVIOUS
<1>3. OneWriter
  BY <1>2 DEF OneWriter, Writing, Queued
<1>4. WindowOK
  BY DEF WindowOK
<1>5. MailboxOK
  BY <1>2 DEF MailboxOK, WriterAt
<1>6. DOMAIN sent = {} /\ DOMAIN asked = {}
  OBVIOUS
<1>7. SentOK
  BY <1>2, <1>6 DEF SentOK, HasSaidBye
<1>8. CommandsArrive
  BY <1>6 DEF CommandsArrive
<1> QED
  BY <1>1, <1>3, <1>4, <1>5, <1>7, <1>8 DEF ClientInv

\* A step in which nothing happens.
LEMMA ClientStutter ==
  ASSUME ClientInv, UNCHANGED vars
  PROVE  ClientInv'
<1> USE DEF vars, mailVars, viewVars, netVars, ClientInv
<1>1. RpcTypeOK'
  BY DEF RpcTypeOK
<1>2. OneWriter' /\ WindowOK'
  BY DEF OneWriter, WindowOK, Writing, Queued
<1>3. MailboxOK' /\ SentOK'
  BY DEF MailboxOK, SentOK, WriterAt, HasSaidBye, IsDisconnect, AnyLost
<1>4. CommandsArrive'
  BY DEF CommandsArrive, AnyLost
<1> QED
  BY <1>1, <1>2, <1>3, <1>4

\* Every step keeps the invariant.
LEMMA ClientNext ==
  ASSUME ClientInv, [Next]_vars
  PROVE  ClientInv'
<1>1. CASE User \/ Handler \/ Render
  BY <1>1, WindowStep, SetStopStep, PressConnectStep, FillStep DEF User, Handler
<1>2. ASSUME NEW c \in Conns, Reader(c) \/ Writer(c) \/ ServerEnds(c) \/ Lose(c)
      PROVE  ClientInv'
  BY <1>2, ReaderStep, WriterStep, LinkStep
<1>3. CASE UNCHANGED vars
  BY <1>3, ClientStutter
<1> QED
  BY <1>1, <1>2, <1>3 DEF Next

\* The mailbox, the threads and the window agree at all times: there is one writer at
\* most, and SendCommand has not come back while its command is in the mailbox.
THEOREM ClientInductive == Spec => []ClientInv
<1>1. Init => ClientInv
  BY ClientInit
<1>2. ClientInv /\ [Next]_vars => ClientInv'
  BY ClientNext
<1> QED
  BY <1>1, <1>2, PTL DEF Spec

\* The variables keep their types.
THEOREM ClientTypes == Spec => []RpcTypeOK
<1>1. ClientInv => RpcTypeOK
  BY DEF ClientInv
<1> QED
  BY <1>1, ClientInductive, PTL

\* Commands go out once, in the order and with the orders they were asked for, and
\* none is dropped unless a connection is lost: the mailbox of rpc_client.cpp, which
\* no lock protects, hands every command over.
THEOREM CommandsDoArrive == Spec => []CommandsArrive
<1>1. ClientInv => CommandsArrive
  BY DEF ClientInv
<1> QED
  BY <1>1, ClientInductive, PTL

\* A state that has been received is drawn: the flag is taken back before the state is
\* read, not after it.
THEOREM NothingStaysUnseen == Spec => []NothingUnseen
<1>1. Init => NothingUnseen
  BY DEF Init, NothingUnseen
<1>2. ASSUME NothingUnseen, RpcTypeOK, [Next]_vars
      PROVE  NothingUnseen'
  <2> USE <1>2 DEF NothingUnseen, mailVars, viewVars, netVars, GoTo, Call, MayAsk
  <2>1. CASE User
    BY <2>1 DEF User, PressCommand, PressDisconnect, PressConnect, Quit
  <2>2. CASE Handler \/ Render
    BY <2>2 DEF Handler, SetStop, AskForReset, TestStop, AwaitEmpty, Fill, AwaitTaken,
                Paint, Render, RpcTypeOK
  <2>3. ASSUME NEW c \in Conns, Reader(c)
        PROVE  NothingUnseen'
    BY <2>3 DEF Reader, GiveUp, Begin, TestReader, Read, ReadFails, Store, Join
  <2>4. ASSUME NEW c \in Conns, Writer(c)
        PROVE  NothingUnseen'
    BY <2>4 DEF Writer, FindLost, Load, Write, Clear
  <2>5. ASSUME NEW c \in Conns, ServerEnds(c) \/ Lose(c)
        PROVE  NothingUnseen'
    BY <2>5 DEF ServerEnds, Lose
  <2>6. CASE UNCHANGED vars
    BY <2>6 DEF vars
  <2> QED
    BY <1>2, <2>1, <2>2, <2>3, <2>4, <2>5, <2>6 DEF Next
<1> QED
  BY <1>1, <1>2, ClientTypes, PTL DEF Spec

=============================================================================
