-------------------------- MODULE RtsServiceProofs --------------------------
(***************************************************************************)
(* Proofs about RtsService, for any number of observers and players, any   *)
(* number of requests and any size of game: ServiceInv is inductive.       *)
(***************************************************************************)
EXTENDS RtsServiceProps, TLAPS

\* Versions are counted up.
LEMMA Versions ==
  ASSUME game \in Snapshot, game.version >= 0
  PROVE  NextVersion(game) \in Nat /\ game.version \in Nat
<1>1. game.version \in Nat
  BY DEF Snapshot
<1> QED
  BY <1>1, Bounds DEF NextVersion

\* What a Reset makes of a game.
LEMMA NewGameFacts ==
  ASSUME game \in Snapshot, game.version >= 0, NEW g, g = NewGame(game)
  PROVE  /\ g \in Snapshot /\ g.version >= 0 /\ g.whole = game.whole
         /\ g.epoch = game.epoch + 1 /\ g.first = game.next
         /\ g.next = game.next + BoardSize
<1> DEFINE v == NextVersion(game)
<1>1. v \in Nat /\ BoardSize \in Nat
  BY Versions, Bounds
<1>2. g = [epoch |-> game.epoch + 1, first |-> game.next,
           next |-> game.next + BoardSize, version |-> v, over |-> FALSE,
           whole |-> game.whole]
  BY DEF NewGame
<1> HIDE DEF v
<1> QED
  BY <1>1, <1>2 DEF Snapshot

\* What a tick makes of a game.
LEMMA TickedFacts ==
  ASSUME game \in Snapshot, game.version >= 0, Ticked
  PROVE  /\ game' \in Snapshot /\ game'.version >= 0 /\ game'.whole = game.whole
         /\ game'.epoch = game.epoch /\ game'.first = game.first
         /\ game'.next >= game.next
         /\ game.over => game'.over
<1> DEFINE N == IF Units(game) # {} /\ game.next < MaxUnits THEN {0, 1} ELSE {0}
           V == {NextVersion(game)} \cup (IF game.over THEN {game.version} ELSE {})
           O == {b \in BOOLEAN : IF game.over THEN b ELSE b => Units(game) # {}}
<1>1. PICK n \in N, v \in V, o \in O :
        game' = [epoch |-> game.epoch, first |-> game.first, next |-> game.next + n,
                 version |-> v, over |-> o, whole |-> game.whole]
  BY DEF Ticked
<1>2. n \in {0, 1} /\ v \in Nat
  BY Versions
<1>3. o \in BOOLEAN /\ (game.over => o)
  OBVIOUS
<1> HIDE DEF N, V, O
<1>4. /\ game' \in Snapshot /\ game'.version = v /\ game'.whole = game.whole
      /\ game'.epoch = game.epoch /\ game'.first = game.first
      /\ game'.next = game.next + n
  BY <1>1, <1>2, <1>3 DEF Snapshot
<1>5. game.over => game'.over
  BY <1>1, <1>3 DEF Snapshot
<1> QED
  BY <1>2, <1>4, <1>5 DEF Snapshot

-----------------------------------------------------------------------------
(* Types *)

\* The main loop keeps every variable in its type.
LEMMA MainKeepsType ==
  ASSUME ServiceTypeOK, MainLock \/ MainStep
  PROVE  ServiceTypeOK'
<1> USE DEF ServiceTypeOK
<1>1. CASE MainLock
  BY <1>1 DEF MainLock
<1>2. CASE RunReset
  BY <1>2, NewGameFacts DEF RunReset
<1>3. ASSUME NEW next \in {"clearTick", "over"}, NEW n \in {0, 1}, ServerStep(next, n)
      PROVE  /\ down' \in BOOLEAN
             /\ mpc' \in {mpc, next}
             /\ game' \in Snapshot /\ game'.version >= 0
             /\ orders' \in [Roles -> SUBSET Order]
             /\ asked' \in [step : BOOLEAN, reset : BOOLEAN, run : BOOLEAN, late : Nat,
                            extra : Nat, done : [Players -> Nat]]
  <2>1. CASE Tick(next, n)
    <3> DEFINE mine(p) == {o \in Live(Side[p]) : o.from = p}
    <3>1. \A p \in Players : mine(p) # {} => (CHOOSE o \in mine(p) : TRUE) \in Order
      BY Streams DEF Live
    <3>2. \A p \in Players :
            (IF mine(p) = {} THEN asked.done[p] ELSE (CHOOSE o \in mine(p) : TRUE).n) \in Nat
      BY <3>1 DEF Order
    <3> DEFINE step  == n = 1 /\ asked.step
               late  == IF flag.cycle THEN asked.late ELSE asked.late + n
               extra == IF game.over THEN asked.extra + n ELSE asked.extra
               done  == [p \in Players |-> IF mine(p) = {} THEN asked.done[p]
                                          ELSE (CHOOSE o \in mine(p) : TRUE).n]
    <3>4. /\ step \in BOOLEAN /\ late \in Nat /\ extra \in Nat
          /\ done \in [Players -> Nat]
      BY <3>2
    <3>5. asked' = [asked EXCEPT !.step = step, !.late = late, !.extra = extra, !.done = done]
      BY <2>1 DEF Tick
    <3> HIDE DEF step, late, extra, done, mine
    <3>3. asked' \in [step : BOOLEAN, reset : BOOLEAN, run : BOOLEAN, late : Nat,
                      extra : Nat, done : [Players -> Nat]]
      BY <3>4, <3>5
    <3> QED
      BY <2>1, <3>3, TickedFacts DEF Tick, ClearedOrders
  <2>2. CASE TickThrows
    BY <2>2 DEF TickThrows
  <2> QED
    BY <1>3, <2>1, <2>2 DEF ServerStep
<1>4. CASE RunTick
  BY <1>3, <1>4 DEF RunTick
<1>5. CASE RunCycle
  BY <1>3, <1>5 DEF RunCycle
<1>6. CASE ReadReset \/ ClearReset \/ ReadTick \/ ClearTick \/ ReadCycle
  BY <1>6 DEF ReadReset, ClearReset, ReadTick, ClearTick, ReadCycle
<1>7. CASE Unlock \/ StopTick
  BY <1>7 DEF Unlock, StopTick
<1>8. CASE StopCycle
  <2> DEFINE late == IF flag.cycle THEN 0 ELSE asked.late
             run  == flag.reset /\ asked.run
  <2>1. late \in Nat /\ run \in BOOLEAN
    OBVIOUS
  <2>2. asked' = [asked EXCEPT !.late = late, !.run = run]
    BY <1>8 DEF StopCycle
  <2> HIDE DEF late, run
  <2>3. asked' \in [step : BOOLEAN, reset : BOOLEAN, run : BOOLEAN, late : Nat,
                    extra : Nat, done : [Players -> Nat]]
    BY <2>1, <2>2
  <2> QED
    BY <1>8, <2>3 DEF StopCycle
<1> QED
  BY <1>1, <1>2, <1>4, <1>5, <1>6, <1>7, <1>8 DEF MainStep

-----------------------------------------------------------------------------
(* Streams *)

\* What a step of stream c may do to the stream: s is the stream before it and t the
\* stream after it.
Changes(c, s, t) ==
  /\ \A v \in Seen(t) :
       v \in Seen(s) \/ (holder = NoOne /\ v = [game EXCEPT !.whole = ~Changing])
  /\ t.read >= s.read
  /\ \/ holder' = holder /\ (t.writer = "held" => s.writer = "held")
     \/ holder = NoOne /\ holder' = c /\ c \in Players
     \/ s.writer = "held" /\ t.writer # "held" /\ holder' = NoOne /\ c \in Players

\* The step leaves the orders of the player as they are, on their way or lost.
Quiet(s, t) ==
  /\ t.request \in {s.request, << >>}
  /\ t.reader = "submit" =>
       t.request = s.request /\ (s.reader = "submit" \/
                                 (t.request # << >> /\ t.read = s.read + 1))

\* A step of the stream of c changes no other stream.
StreamOK(c) ==
  /\ stream' \in [Clients -> Stream]
  /\ \A d \in Clients : d # c => stream'[d] = stream[d]
  /\ Changes(c, stream[c], stream'[c])

\* A step of the threads of a stream that leaves what it transports.
ThreadsEdited(s, t) ==
  /\ t.last = s.last /\ t.got = s.got /\ t.queue \in {s.queue, << >>}
  /\ t.read >= s.read
  /\ t.writer = "held" => s.writer = "held"
  /\ Quiet(s, t)

\* Such a step keeps the type of the streams and what is in them.
LEMMA ThreadsOnly ==
  ASSUME stream \in [Clients -> Stream], NEW c \in Clients, NEW r \in Stream,
         stream' = [stream EXCEPT ![c] = r], holder' = holder,
         ThreadsEdited(stream[c], r)
  PROVE  StreamOK(c) /\ Quiet(stream[c], stream'[c])
<1>1. Seen(r) \subseteq Seen(stream[c])
  BY DEF Seen, ThreadsEdited
<1> QED
  BY <1>1 DEF StreamOK, Changes, ThreadsEdited

\* The steps of a stream's threads that copy and send nothing.
LEMMA ThreadShape ==
  ASSUME ServiceTypeOK, NEW c \in Clients, Connect(c) \/ ClientEnds(c) \/ CheckEnd(c) \/ ReadDisconnect(c) \/ ReadEnd(c)
           \/ Join(c)
  PROVE  StreamOK(c) /\ Quiet(stream[c], stream'[c])
<1>0. stream[c] \in Stream /\ stream \in [Clients -> Stream]
  BY DEF ServiceTypeOK
<1>1. CASE Connect(c)
  <2> DEFINE r == [stream[c] EXCEPT !.reader = "read", !.writer = "check", !.alive = TRUE]
  <2>1. r \in Stream
    BY <1>0 DEF Stream
  <2>2. ThreadsEdited(stream[c], r)
    BY <1>0, <1>1 DEF ThreadsEdited, Quiet, Stream, Connect
  <2>3. stream' = [stream EXCEPT ![c] = r] /\ holder' = holder
    BY <1>0, <1>1 DEF Connect
  <2> HIDE DEF r
  <2> QED
    BY <1>0, <2>1, <2>2, <2>3, ThreadsOnly
<1>2. CASE ClientEnds(c)
  <2> DEFINE q == IF stream[c].reader = "submit" THEN stream[c].request ELSE << >>
             none == << >>
  <2>0. q \in Seq(SUBSET Order) /\ none \in Seq(Snapshot)
    BY <1>0 DEF Stream
  <2> HIDE DEF q, none
  <2> DEFINE r == [stream[c] EXCEPT !.alive = FALSE, !.queue = none, !.request = q]
  <2>1. r \in Stream
    BY <1>0, <2>0 DEF Stream
  <2>2. ThreadsEdited(stream[c], r)
    BY <1>0, <1>2 DEF ThreadsEdited, Quiet, Stream, ClientEnds, q, none
  <2>3. stream' = [stream EXCEPT ![c] = r] /\ holder' = holder
    BY <1>0, <1>2 DEF ClientEnds, q, none
  <2> HIDE DEF r
  <2> QED
    BY <1>0, <2>1, <2>2, <2>3, ThreadsOnly
<1>3. CASE CheckEnd(c) /\ stream[c].isEnd /\ Set(c, "writer", "ended")
  <2> DEFINE r == [stream[c] EXCEPT !.writer = "ended"]
  <2>1. r \in Stream
    BY <1>0 DEF Stream
  <2>2. ThreadsEdited(stream[c], r)
    BY <1>0, <1>3 DEF ThreadsEdited, Quiet, Stream, CheckEnd, Set
  <2>3. stream' = [stream EXCEPT ![c] = r] /\ holder' = holder
    BY <1>0, <1>3 DEF CheckEnd, Set
  <2> HIDE DEF r
  <2> QED
    BY <1>0, <2>1, <2>2, <2>3, ThreadsOnly
<1>4. CASE CheckEnd(c) /\ Set(c, "writer", "copy")
  <2> DEFINE r == [stream[c] EXCEPT !.writer = "copy"]
  <2>1. r \in Stream
    BY <1>0 DEF Stream
  <2>2. ThreadsEdited(stream[c], r)
    BY <1>0, <1>4 DEF ThreadsEdited, Quiet, Stream, CheckEnd, Set
  <2>3. stream' = [stream EXCEPT ![c] = r] /\ holder' = holder
    BY <1>0, <1>4 DEF CheckEnd, Set
  <2> HIDE DEF r
  <2> QED
    BY <1>0, <2>1, <2>2, <2>3, ThreadsOnly
<1>5. CASE ReadDisconnect(c)
  <2> DEFINE n == stream[c].read + 1
             b == c \in Players
  <2>0. n \in Nat /\ b \in BOOLEAN
    BY <1>0 DEF Stream
  <2> HIDE DEF n, b
  <2> DEFINE r == [stream[c] EXCEPT !.isEnd = TRUE, !.known = b, !.read = n]
  <2>1. r \in Stream
    BY <1>0, <2>0 DEF Stream
  <2>2. ThreadsEdited(stream[c], r)
    BY <1>0, <1>5 DEF ThreadsEdited, Quiet, Stream, ReadDisconnect, n, b
  <2>3. stream' = [stream EXCEPT ![c] = r] /\ holder' = holder
    BY <1>0, <1>5 DEF ReadDisconnect, n, b
  <2> HIDE DEF r
  <2> QED
    BY <1>0, <2>1, <2>2, <2>3, ThreadsOnly
<1>6. CASE ReadEnd(c)
  <2> DEFINE r == [stream[c] EXCEPT !.reader = "join"]
  <2>1. r \in Stream
    BY <1>0 DEF Stream
  <2>2. ThreadsEdited(stream[c], r)
    BY <1>0, <1>6 DEF ThreadsEdited, Quiet, Stream, ReadEnd, Set
  <2>3. stream' = [stream EXCEPT ![c] = r] /\ holder' = holder
    BY <1>0, <1>6 DEF ReadEnd, Set
  <2> HIDE DEF r
  <2> QED
    BY <1>0, <2>1, <2>2, <2>3, ThreadsOnly
<1>7. CASE Join(c)
  <2> DEFINE r == [stream[c] EXCEPT !.reader = "done"]
  <2>1. r \in Stream
    BY <1>0 DEF Stream
  <2>2. ThreadsEdited(stream[c], r)
    BY <1>0, <1>7 DEF ThreadsEdited, Quiet, Stream, Join, Set
  <2>3. stream' = [stream EXCEPT ![c] = r] /\ holder' = holder
    BY <1>0, <1>7 DEF Join, Set
  <2> HIDE DEF r
  <2> QED
    BY <1>0, <2>1, <2>2, <2>3, ThreadsOnly
<1> QED
  BY <1>1, <1>2, <1>3, <1>4, <1>5, <1>6, <1>7 DEF CheckEnd

\* The handler of an observer changes its own stream's reader at most.
LEMMA ObserverShape ==
  ASSUME ServiceTypeOK, NEW c \in Clients, ObserverRequest(c)
  PROVE  StreamOK(c) /\ Quiet(stream[c], stream'[c])
<1>0. stream[c] \in Stream /\ stream \in [Clients -> Stream]
  BY DEF ServiceTypeOK
<1>1. CASE ReadStart(c)
  <2> DEFINE n == stream[c].read + 1
  <2>0. n \in Nat
    BY <1>0 DEF Stream
  <2> HIDE DEF n
  <2> DEFINE r == [stream[c] EXCEPT !.read = n]
  <2>1. r \in Stream
    BY <1>0, <2>0 DEF Stream
  <2>2. ThreadsEdited(stream[c], r)
    BY <1>0, <1>1 DEF ThreadsEdited, Quiet, Stream, ReadStart, CountRead, n
  <2>3. stream' = [stream EXCEPT ![c] = r] /\ holder' = holder
    BY <1>0, <1>1 DEF ReadStart, CountRead, n
  <2> HIDE DEF r
  <2> QED
    BY <1>0, <2>1, <2>2, <2>3, ThreadsOnly
<1>2. CASE ReadStop(c)
  <2> DEFINE n == stream[c].read + 1
  <2>0. n \in Nat
    BY <1>0 DEF Stream
  <2> HIDE DEF n
  <2> DEFINE r == [stream[c] EXCEPT !.read = n]
  <2>1. r \in Stream
    BY <1>0, <2>0 DEF Stream
  <2>2. ThreadsEdited(stream[c], r)
    BY <1>0, <1>2 DEF ThreadsEdited, Quiet, Stream, ReadStop, CountRead, n
  <2>3. stream' = [stream EXCEPT ![c] = r] /\ holder' = holder
    BY <1>0, <1>2 DEF ReadStop, CountRead, n
  <2> HIDE DEF r
  <2> QED
    BY <1>0, <2>1, <2>2, <2>3, ThreadsOnly
<1>3. CASE ReadStep(c)
  <2> DEFINE n == stream[c].read + 1
  <2>0. n \in Nat
    BY <1>0 DEF Stream
  <2> HIDE DEF n
  <2> DEFINE r == [stream[c] EXCEPT !.read = n]
  <2>1. r \in Stream
    BY <1>0, <2>0 DEF Stream
  <2>2. ThreadsEdited(stream[c], r)
    BY <1>0, <1>3 DEF ThreadsEdited, Quiet, Stream, ReadStep, CountRead, n
  <2>3. stream' = [stream EXCEPT ![c] = r] /\ holder' = holder
    BY <1>0, <1>3 DEF ReadStep, CountRead, n
  <2> HIDE DEF r
  <2> QED
    BY <1>0, <2>1, <2>2, <2>3, ThreadsOnly
<1>4. CASE ReadResetRequest(c)
  <2> DEFINE n == stream[c].read + 1
  <2>0. n \in Nat
    BY <1>0 DEF Stream
  <2> HIDE DEF n
  <2> DEFINE r == [stream[c] EXCEPT !.read = n, !.reader = "reset"]
  <2>1. r \in Stream
    BY <1>0, <2>0 DEF Stream
  <2>2. ThreadsEdited(stream[c], r)
    BY <1>0, <1>4 DEF ThreadsEdited, Quiet, Stream, ReadResetRequest, n
  <2>3. stream' = [stream EXCEPT ![c] = r] /\ holder' = holder
    BY <1>0, <1>4 DEF ReadResetRequest, n
  <2> HIDE DEF r
  <2> QED
    BY <1>0, <2>1, <2>2, <2>3, ThreadsOnly
<1>5. CASE SetReset(c)
  <2> DEFINE r == [stream[c] EXCEPT !.reader = "read"]
  <2>1. r \in Stream
    BY <1>0 DEF Stream
  <2>2. ThreadsEdited(stream[c], r)
    BY <1>0, <1>5 DEF ThreadsEdited, Quiet, Stream, SetReset, Set
  <2>3. stream' = [stream EXCEPT ![c] = r] /\ holder' = holder
    BY <1>0, <1>5 DEF SetReset, Set
  <2> HIDE DEF r
  <2> QED
    BY <1>0, <2>1, <2>2, <2>3, ThreadsOnly
<1> QED
  BY <1>1, <1>2, <1>3, <1>4, <1>5 DEF ObserverRequest

\* A player's handler reads a request, and stores it.
LEMMA PlayerShape ==
  ASSUME ServiceTypeOK, NEW c \in Clients, ReadEcho(c) \/ ReadRequest(c) \/ Submit(c)
  PROVE  StreamOK(c) /\ Quiet(stream[c], stream'[c])
<1>0. stream[c] \in Stream /\ stream \in [Clients -> Stream]
  BY DEF ServiceTypeOK
<1>1. CASE ReadEcho(c)
  <2> DEFINE n == stream[c].read + 1
  <2>0. n \in Nat
    BY <1>0 DEF Stream
  <2> HIDE DEF n
  <2> DEFINE r == [stream[c] EXCEPT !.known = TRUE, !.read = n]
  <2>1. r \in Stream
    BY <1>0, <2>0 DEF Stream
  <2>2. ThreadsEdited(stream[c], r)
    BY <1>0, <1>1 DEF ThreadsEdited, Quiet, Stream, ReadEcho, Reads, n
  <2>3. stream' = [stream EXCEPT ![c] = r] /\ holder' = holder
    BY <1>0, <1>1 DEF ReadEcho, Reads, n
  <2> HIDE DEF r
  <2> QED
    BY <1>0, <2>1, <2>2, <2>3, ThreadsOnly
<1>2. CASE ReadRequest(c)
  <2> DEFINE n == stream[c].read + 1
  <2>0. n \in Nat
    BY <1>0 DEF Stream
  <2> HIDE DEF n
  <2> DEFINE r == [stream[c] EXCEPT !.known = TRUE, !.read = n,
                                   !.reader = "submit"]
  <2>1. r \in Stream
    BY <1>0, <2>0 DEF Stream
  <2>2. ThreadsEdited(stream[c], r)
    BY <1>0, <1>2 DEF ThreadsEdited, Quiet, Stream, ReadRequest, Reads, n
  <2>3. stream' = [stream EXCEPT ![c] = r] /\ holder' = holder
    BY <1>0, <1>2 DEF ReadRequest, Reads, n
  <2> HIDE DEF r
  <2> QED
    BY <1>0, <2>1, <2>2, <2>3, ThreadsOnly
<1>3. CASE Submit(c)
  <2> DEFINE none == << >>
  <2>0. none \in Seq(SUBSET Order)
    OBVIOUS
  <2> HIDE DEF none
  <2> DEFINE r == [stream[c] EXCEPT !.reader = "read", !.request = none]
  <2>1. r \in Stream
    BY <1>0, <2>0 DEF Stream
  <2>2. ThreadsEdited(stream[c], r)
    BY <1>0, <1>3 DEF ThreadsEdited, Quiet, Stream, Submit, none
  <2>3. stream' = [stream EXCEPT ![c] = r] /\ holder' = holder
    BY <1>0, <1>3 DEF Submit, none
  <2> HIDE DEF r
  <2> QED
    BY <1>0, <2>1, <2>2, <2>3, ThreadsOnly
<1> QED
  BY <1>1, <1>2, <1>3

\* A player answers what it has been sent.
LEMMA SendShape ==
  ASSUME ServiceTypeOK, NEW p \in Players, SendRequest(p)
  PROVE  /\ StreamOK(p)
         /\ stream'[p].read = stream[p].read /\ stream'[p].reader = stream[p].reader
         /\ stream'[p].request # << >>
         /\ \A o \in Head(stream'[p].request) :
              /\ o.unit \in Units(stream[p].got) /\ o.epoch = stream[p].got.epoch
              /\ o.from = p /\ o.n = stream[p].read + 1
<1>0. /\ p \in Clients
      /\ stream[p] \in Stream /\ stream \in [Clients -> Stream]
  BY DEF ServiceTypeOK, Clients
<1> DEFINE n == stream[p].read + 1
           g == stream[p].got
<1>1. n \in Nat /\ g \in Snapshot
  BY <1>0 DEF Stream
<1>2. PICK some \in {{}} \cup {{[unit |-> u, epoch |-> g.epoch, from |-> p, n |-> n]} :
                               u \in Units(g)} : Set(p, "request", <<some>>)
  BY DEF SendRequest
<1>3. \A o \in some : /\ o.unit \in Units(g) /\ o.epoch = g.epoch
                      /\ o.from = p /\ o.n = n /\ o \in Order
  <2>1. SUFFICES ASSUME NEW u \in Units(g), NEW o,
                        o = [unit |-> u, epoch |-> g.epoch, from |-> p, n |-> n]
                 PROVE  /\ o.unit \in Units(g) /\ o.epoch = g.epoch
                        /\ o.from = p /\ o.n = n /\ o \in Order
    BY <1>2
  <2>2. u \in Nat /\ g.epoch \in Nat
    BY <1>1 DEF Units, Snapshot
  <2> QED
    BY <1>1, <2>1, <2>2 DEF Order
<1> DEFINE q == <<some>>
<1>4. q \in Seq(SUBSET Order) /\ q # << >> /\ Head(q) = some
  BY <1>3
<1> DEFINE r == [stream[p] EXCEPT !.request = q]
<1> HIDE DEF n, g, q
<1>5. r \in Stream
  BY <1>0, <1>4 DEF Stream
<1>6. stream' = [stream EXCEPT ![p] = r] /\ holder' = holder
  BY <1>0, <1>2 DEF Set, SendRequest, q
<1>7. /\ r.last = stream[p].last /\ r.got = stream[p].got /\ r.queue = stream[p].queue
      /\ r.read = stream[p].read /\ r.writer = stream[p].writer
      /\ r.reader = stream[p].reader /\ r.request = q
  BY <1>0 DEF Stream
<1> HIDE DEF r
<1>8. StreamOK(p)
  <2>1. Seen(r) = Seen(stream[p])
    BY <1>7 DEF Seen
  <2>2. r.read >= stream[p].read
    BY <1>0, <1>7 DEF Stream
  <2> QED
    BY <1>0, <1>5, <1>6, <1>7, <2>1, <2>2 DEF StreamOK, Changes
<1>9. stream'[p] = r
  BY <1>0, <1>6
<1> QED
  BY <1>3, <1>4, <1>7, <1>8, <1>9 DEF n, g

\* Appending to a queue, and taking from it, add nothing else to what is in it.
LEMMA QueueAppend ==
  ASSUME NEW q \in Seq(Snapshot), NEW v \in Snapshot
  PROVE  /\ Append(q, v) \in Seq(Snapshot)
         /\ \A k \in 1 .. Len(Append(q, v)) :
              Append(q, v)[k] = v \/ \E j \in 1 .. Len(q) : Append(q, v)[k] = q[j]
OBVIOUS

\* A client takes the oldest state of its queue, and the others stay.
LEMMA QueueTail ==
  ASSUME NEW q \in Seq(Snapshot), q # << >>
  PROVE  /\ Tail(q) \in Seq(Snapshot) /\ Head(q) \in Snapshot
         /\ \E j \in 1 .. Len(q) : Head(q) = q[j]
         /\ \A k \in 1 .. Len(Tail(q)) : \E j \in 1 .. Len(q) : Tail(q)[k] = q[j]
<1>1. Len(q) \in Nat \ {0} /\ Head(q) = q[1]
  OBVIOUS
<1>2. \A k \in 1 .. Len(Tail(q)) : k + 1 \in 1 .. Len(q) /\ Tail(q)[k] = q[k + 1]
  OBVIOUS
<1> QED
  BY <1>1, <1>2

\* The steps of a stream that copy, send or receive a state.
LEMMA TransportShape ==
  ASSUME ServiceTypeOK, NEW c \in Clients,
         \/ ClientReads(c) \/ CopyState(c) \/ Write(c)
         \/ c \in Players /\ WriteLocked(c)
  PROVE  StreamOK(c) /\ Quiet(stream[c], stream'[c])
<1>0. stream[c] \in Stream /\ stream \in [Clients -> Stream] /\ game \in Snapshot
  BY DEF ServiceTypeOK
<1>1. CASE ClientReads(c)
  <2> DEFINE q == stream[c].queue
             h == Head(q)
             t == Tail(q)
  <2>1. q \in Seq(Snapshot) /\ q # << >>
    BY <1>0, <1>1 DEF ClientReads, Stream
  <2>2. h \in Snapshot /\ t \in Seq(Snapshot)
    BY <2>1, QueueTail
  <2>3. \A v \in {h} \cup {t[k] : k \in 1 .. Len(t)} : \E j \in 1 .. Len(q) : v = q[j]
    BY <2>1, QueueTail
  <2>4. stream' = [stream EXCEPT ![c].got = h, ![c].queue = t] /\ holder' = holder
    BY <1>0, <1>1 DEF ClientReads
  <2> HIDE DEF h, t, q
  <2> DEFINE r == [stream[c] EXCEPT !.got = h, !.queue = t]
  <2>5. r \in Stream
    BY <1>0, <2>2 DEF Stream
  <2>6. stream' = [stream EXCEPT ![c] = r]
    BY <1>0, <2>4
  <2>7. /\ r.last = stream[c].last /\ r.got = h /\ r.queue = t
        /\ r.read = stream[c].read /\ r.read >= stream[c].read
        /\ r.writer = stream[c].writer
        /\ r.request = stream[c].request /\ r.reader = stream[c].reader
    BY <1>0 DEF Stream
  <2> HIDE DEF r
  <2>8. Seen(r) \subseteq Seen(stream[c])
    <3>1. Seen(r) = {stream[c].last, h} \cup {t[k] : k \in 1 .. Len(t)}
      BY <2>7 DEF Seen
    <3>2. Seen(stream[c]) = {stream[c].last, stream[c].got} \cup {q[k] : k \in 1 .. Len(q)}
      BY DEF Seen, q
    <3> QED
      BY <2>3, <3>1, <3>2
  <2> QED
    BY <1>0, <2>4, <2>5, <2>6, <2>7, <2>8 DEF StreamOK, Changes, Quiet
<1>2. CASE CopyState(c) /\ stream[c].last = game
  <2> DEFINE r == [stream[c] EXCEPT !.writer = "check"]
  <2>1. r \in Stream
    BY <1>0 DEF Stream
  <2>2. ThreadsEdited(stream[c], r)
    BY <1>0 DEF ThreadsEdited, Quiet, Stream
  <2>3. stream' = [stream EXCEPT ![c] = r] /\ holder' = holder
    BY <1>0, <1>2 DEF CopyState, Set
  <2> HIDE DEF r
  <2> QED
    BY <1>0, <2>1, <2>2, <2>3, ThreadsOnly
<1>3. CASE CopyState(c) /\ stream[c].last # game
  <2> DEFINE v == [game EXCEPT !.whole = ~Changing]
             w == IF c \in Players THEN "held" ELSE "write"
  <2>1. v \in Snapshot /\ w \in {"held", "write"} /\ (w = "held" => c \in Players)
    BY <1>0 DEF Snapshot, Changing
  <2>2. /\ stream' = [stream EXCEPT ![c].last = v, ![c].writer = w]
        /\ holder = NoOne
        /\ holder' = IF c \in Players THEN c ELSE holder
    BY <1>0, <1>3 DEF CopyState, Unlocked
  <2> DEFINE r == [stream[c] EXCEPT !.last = v, !.writer = w]
  <2>3. Seen(r) \subseteq Seen(stream[c]) \cup {v}
    <3> HIDE DEF v, w
    <3> QED
      BY <1>0 DEF Seen, Stream
  <2>4. r \in Stream
    <3> HIDE DEF v, w
    <3> QED
      BY <1>0, <2>1 DEF Stream
  <2>5. /\ r.read = stream[c].read /\ r.read >= stream[c].read
        /\ r.writer = w
        /\ r.request = stream[c].request /\ r.reader = stream[c].reader
    <3> HIDE DEF v, w
    <3> QED
      BY <1>0 DEF Stream
  <2>6. stream' = [stream EXCEPT ![c] = r]
    <3> HIDE DEF v, w
    <3> QED
      BY <1>0, <2>2
  <2> HIDE DEF r, w
  <2> QED
    BY <1>0, <2>1, <2>2, <2>3, <2>4, <2>5, <2>6 DEF StreamOK, Changes, Quiet
<1>4. ASSUME NEW next \in {"write", "check"}, Written(c, next)
      PROVE  /\ stream' \in [Clients -> Stream]
             /\ \A d \in Clients : d # c => stream'[d] = stream[d]
             /\ Seen(stream'[c]) \subseteq Seen(stream[c])
             /\ stream'[c].read = stream[c].read /\ stream'[c].writer = next
             /\ stream'[c].read >= stream[c].read
             /\ stream'[c].request = stream[c].request
             /\ stream'[c].reader = stream[c].reader
  <2> DEFINE a == Append(stream[c].queue, stream[c].last)
             q == IF stream[c].alive THEN a ELSE stream[c].queue
  <2>1. stream[c].queue \in Seq(Snapshot) /\ stream[c].last \in Snapshot
    BY <1>0 DEF Stream
  <2>2. /\ a \in Seq(Snapshot)
        /\ \A k \in 1 .. Len(a) :
             a[k] = stream[c].last \/ \E j \in 1 .. Len(stream[c].queue) : a[k] = stream[c].queue[j]
    BY <2>1, QueueAppend
  <2>3. stream' = [stream EXCEPT ![c].writer = next, ![c].queue = q]
    BY <1>0, <1>4 DEF Written
  <2> HIDE DEF a
  <2>4. q \in Seq(Snapshot) /\ \A k \in 1 .. Len(q) : q[k] \in Seen(stream[c])
    BY <2>1, <2>2 DEF Seen
  <2> HIDE DEF q
  <2> DEFINE r == [stream[c] EXCEPT !.writer = next, !.queue = q]
  <2>5. r \in Stream
    BY <1>0, <2>4 DEF Stream
  <2>6. stream' = [stream EXCEPT ![c] = r]
    BY <1>0, <2>3
  <2>7. /\ r.last = stream[c].last /\ r.got = stream[c].got /\ r.queue = q
        /\ r.read = stream[c].read /\ r.read >= stream[c].read
        /\ r.writer = next
        /\ r.request = stream[c].request /\ r.reader = stream[c].reader
    BY <1>0 DEF Stream
  <2> HIDE DEF r
  <2>8. Seen(r) \subseteq Seen(stream[c])
    BY <2>4, <2>7 DEF Seen
  <2> QED
    BY <1>0, <2>5, <2>6, <2>7, <2>8
<1>5. CASE Write(c)
  BY <1>4, <1>5 DEF Write, StreamOK, Changes, Quiet
<1>6. CASE c \in Players /\ WriteLocked(c)
  BY <1>4, <1>6 DEF WriteLocked, StreamOK, Changes, Quiet
<1> QED
  BY <1>1, <1>2, <1>3, <1>5, <1>6

\* What all those steps have in common.
LEMMA StreamSteps ==
  ASSUME ServiceTypeOK, NEW c \in Clients,
         \/ StreamStep(c)
         \/ c \in Players /\ (WriteLocked(c) \/ ReadEcho(c) \/ ReadRequest(c))
  PROVE  /\ StreamOK(c) /\ Quiet(stream[c], stream'[c])
         /\ UNCHANGED <<down, mpc, flag, game, orders, asked>>
<1>1. CASE \/ Connect(c) \/ ClientEnds(c) \/ CheckEnd(c) \/ ReadDisconnect(c) \/ ReadEnd(c)
           \/ Join(c)
  <2>1. UNCHANGED <<down, mpc, flag, game, orders, asked>>
    BY <1>1 DEF Connect, ClientEnds, CheckEnd, ReadDisconnect, ReadEnd, Join
  <2> QED
    BY <1>1, <2>1, ThreadShape
<1>2. CASE \/ ClientReads(c) \/ CopyState(c) \/ Write(c)
           \/ c \in Players /\ WriteLocked(c)
  <2>1. UNCHANGED <<down, mpc, flag, game, orders, asked>>
    BY <1>2 DEF ClientReads, CopyState, Write, WriteLocked
  <2> QED
    BY <1>2, <2>1, TransportShape
<1>3. CASE ReadEcho(c) \/ ReadRequest(c)
  BY <1>3, PlayerShape DEF ReadEcho, ReadRequest
<1> QED
  BY <1>1, <1>2, <1>3 DEF StreamStep, Writer

\* The types of the flags and of the history.
Flags == [reset : BOOLEAN, tick : BOOLEAN, cycle : BOOLEAN]
History == [step : BOOLEAN, reset : BOOLEAN, run : BOOLEAN, late : Nat,
            extra : Nat, done : [Players -> Nat]]

\* What the requests of observers have in common.
LEMMA ObserverSteps ==
  ASSUME ServiceTypeOK, NEW c \in Observers, ObserverRequest(c)
  PROVE  /\ c \in Clients /\ StreamOK(c) /\ Quiet(stream[c], stream'[c])
         /\ UNCHANGED <<down, mpc, holder, game, orders>>
         /\ flag' \in Flags /\ asked' \in History /\ asked'.done = asked.done
<1>0. c \in Clients /\ flag \in Flags /\ asked \in History
  BY DEF Clients, ServiceTypeOK, Flags, History
<1>1. UNCHANGED <<down, mpc, holder, game, orders>>
  BY DEF ObserverRequest, ReadStart, ReadStop, ReadStep, ReadResetRequest, SetReset
<1>2. ASSUME StopTicking
      PROVE  flag' \in Flags /\ asked' \in History /\ asked'.done = asked.done
  <2> DEFINE late == IF flag.cycle THEN 0 ELSE asked.late
  <2>1. late \in Nat
    BY <1>0 DEF History
  <2>2. asked' = [asked EXCEPT !.run = FALSE, !.late = late]
    BY <1>0, <1>2 DEF StopTicking, History
  <2> HIDE DEF late
  <2> QED
    BY <1>0, <1>2, <2>1, <2>2 DEF StopTicking, Flags, History
<1>3. flag' \in Flags /\ asked' \in History /\ asked'.done = asked.done
  <2>1. CASE ReadStart(c)
    BY <1>0, <2>1 DEF ReadStart, Flags, History
  <2>2. CASE ReadStep(c) \/ SetReset(c)
    BY <1>0, <2>2 DEF ReadStep, SetReset, Flags, History
  <2>3. CASE ReadStop(c) \/ ReadResetRequest(c)
    BY <1>2, <2>3 DEF ReadStop, ReadResetRequest
  <2> QED
    BY <2>1, <2>2, <2>3 DEF ObserverRequest
<1> QED
  BY <1>0, <1>1, <1>3, ObserverShape

\* What a player's request adds to the orders on their way, and what it submits.
LEMMA SubmitStep ==
  ASSUME ServiceTypeOK, OrdersOK, NEW p \in Players, Submit(p)
  PROVE  /\ StreamOK(p) /\ Quiet(stream[p], stream'[p])
         /\ stream[p].reader = "submit" /\ stream[p].request # << >>
         /\ stream'[p].reader = "read" /\ stream'[p].request = << >>
         /\ stream'[p].read = stream[p].read
         /\ Head(stream[p].request) \in SUBSET Order
         /\ orders' = [orders EXCEPT ![Side[p]] = Sent(p)]
         /\ UNCHANGED <<down, mpc, holder, flag, game, asked>>
<1>0. p \in Clients /\ stream[p] \in Stream /\ stream \in [Clients -> Stream]
  BY DEF Clients, ServiceTypeOK
<1>1. stream[p].reader = "submit" /\ stream[p].request # << >>
  BY DEF Submit, OrdersOK
<1>2. Head(stream[p].request) \in SUBSET Order
  BY <1>0, <1>1 DEF Stream
<1>3. stream'[p] = [stream[p] EXCEPT !.reader = "read", !.request = << >>]
  BY <1>0 DEF Submit
<1>4. /\ stream'[p].reader = "read" /\ stream'[p].request = << >>
      /\ stream'[p].read = stream[p].read
  BY <1>0, <1>3 DEF Stream
<1>5. orders' = [orders EXCEPT ![Side[p]] = Sent(p)]
  BY <1>1 DEF Submit, Sent
<1> QED
  BY <1>0, <1>1, <1>2, <1>4, <1>5, PlayerShape DEF Submit

-----------------------------------------------------------------------------
(* ServiceInv is inductive: one lemma for each of its parts. *)

\* The type invariant.
LEMMA TypeNext ==
  ASSUME ServiceInv, Next
  PROVE  ServiceTypeOK'
<1>0. ServiceTypeOK /\ OrdersOK
  BY DEF ServiceInv
<1>1. CASE MainLock \/ MainStep
  BY <1>0, <1>1, MainKeepsType
<1>2. ASSUME NEW c \in Clients, StreamOK(c) PROVE holder' \in {NoOne, Main} \cup Players
  BY <1>0, <1>2 DEF StreamOK, Changes, ServiceTypeOK
<1>3. ASSUME NEW c \in Clients,
             \/ StreamStep(c)
             \/ c \in Players /\ (WriteLocked(c) \/ ReadEcho(c) \/ ReadRequest(c))
      PROVE  ServiceTypeOK'
  <2>1. StreamOK(c) /\ UNCHANGED <<down, mpc, flag, game, orders, asked>>
    BY <1>0, <1>3, StreamSteps
  <2>2. stream' \in [Clients -> Stream] /\ holder' \in {NoOne, Main} \cup Players
    BY <1>2, <2>1 DEF StreamOK
  <2> QED
    BY <1>0, <2>1, <2>2 DEF ServiceTypeOK
<1>4. ASSUME NEW c \in Observers, ObserverRequest(c) PROVE ServiceTypeOK'
  BY <1>0, <1>4, ObserverSteps DEF ServiceTypeOK, StreamOK, Flags, History
<1>5. ASSUME NEW p \in Players, Submit(p) PROVE ServiceTypeOK'
  <2>1. orders' \in [Roles -> SUBSET Order]
    <3>1. Sent(p) \in SUBSET Order /\ orders' = [orders EXCEPT ![Side[p]] = Sent(p)]
      BY <1>0, <1>5, SubmitStep DEF Sent
    <3> QED
      BY <1>0, <3>1 DEF ServiceTypeOK
  <2>2. stream' \in [Clients -> Stream] /\ UNCHANGED <<down, mpc, holder, flag, game, asked>>
    BY <1>0, <1>5, SubmitStep DEF StreamOK
  <2> QED
    BY <1>0, <2>1, <2>2 DEF ServiceTypeOK
<1>6. ASSUME NEW p \in Players, SendRequest(p) PROVE ServiceTypeOK'
  <2>1. stream' \in [Clients -> Stream]
    BY <1>0, <1>6, SendShape DEF StreamOK
  <2>2. UNCHANGED <<down, mpc, holder, flag, game, orders, asked>>
    BY <1>6 DEF SendRequest
  <2> QED
    BY <1>0, <2>1, <2>2 DEF ServiceTypeOK
<1>7. CASE UNCHANGED vars
  BY <1>0, <1>7 DEF ServiceTypeOK, vars
<1>8. Players \subseteq Clients
  BY DEF Clients
<1> QED
  BY <1>1, <1>3, <1>4, <1>5, <1>6, <1>7, <1>8 DEF Next, PlayerRequest

\* A step of a stream copies the state only while mainLoop is not at it.
LEMMA ViewsOfStream ==
  ASSUME ServiceInv, NEW c \in Clients, StreamOK(c), game' = game
  PROVE  ViewsOK'
<1>1. \A s : Past(s)' <=> Past(s)
  BY DEF Past
<1> SUFFICES ASSUME NEW d \in Clients, NEW v \in Seen(stream'[d])
             PROVE  Past(v) /\ v.whole
  BY <1>1 DEF ViewsOK
<1>2. CASE v \in Seen(stream[d])
  BY <1>2 DEF ServiceInv, ViewsOK
<1>3. CASE v \notin Seen(stream[d])
  <2>1. holder = NoOne /\ v = [game EXCEPT !.whole = ~Changing]
    BY <1>3 DEF StreamOK, Changes
  <2>2. ~Changing /\ game \in Snapshot
    BY <2>1, Streams DEF ServiceInv, LockOK, Changing, ServiceTypeOK
  <2>3. /\ v.epoch = game.epoch /\ v.first = game.first /\ v.next = game.next
        /\ v.whole
    BY <2>1, <2>2 DEF Snapshot
  <2> QED
    BY <2>2, <2>3 DEF Past, Snapshot
<1> QED
  BY <1>2, <1>3

\* What was past stays past, and the ids of a game grow.
LEMMA GameMoves ==
  ASSUME ServiceInv,
         game' = game \/ game' = NewGame(game) \/ Ticked
  PROVE  /\ game' \in Snapshot /\ game'.version >= 0
         /\ game'.first <= game'.next /\ game'.whole
         /\ \A s \in Snapshot : Past(s) => Past(s)'
         /\ \A o \in Order : Given(o) => Given(o)'
<1>0. game \in Snapshot /\ game.version >= 0 /\ game.first <= game.next /\ game.whole
  BY DEF ServiceInv, ServiceTypeOK
<1>1. CASE game' = game
  BY <1>0, <1>1 DEF Past, Given, Units
<1>2. CASE game' = NewGame(game)
  <2>1. /\ game' \in Snapshot /\ game'.version >= 0 /\ game'.whole
        /\ game'.epoch = game.epoch + 1 /\ game'.first = game.next
        /\ game'.next = game.next + BoardSize
    BY <1>0, <1>2, NewGameFacts
  <2> QED
    BY <1>0, <2>1, Bounds DEF Past, Given, Units, Order, Snapshot
<1>3. CASE Ticked
  <2>1. /\ game' \in Snapshot /\ game'.version >= 0 /\ game'.whole
        /\ game'.epoch = game.epoch /\ game'.first = game.first
        /\ game'.next >= game.next
    BY <1>0, <1>3, TickedFacts
  <2> QED
    BY <1>0, <2>1 DEF Past, Given, Units, Order, Snapshot
<1> QED
  BY <1>1, <1>2, <1>3

\* What the steps of mainLoop do to the game.
LEMMA MainGame ==
  ASSUME MainLock \/ MainStep
  PROVE  stream' = stream /\ (game' = game \/ game' = NewGame(game) \/ Ticked)
<1>1. CASE RunTick \/ RunCycle
  BY <1>1 DEF RunTick, RunCycle, ServerStep, Tick, TickThrows
<1>2. CASE MainLock \/ ReadReset \/ RunReset \/ ClearReset \/ ReadTick \/ ClearTick
  BY <1>2 DEF MainLock, ReadReset, RunReset, ClearReset, ReadTick, ClearTick
<1>3. CASE ReadCycle \/ Unlock \/ StopTick \/ StopCycle
  BY <1>3 DEF ReadCycle, Unlock, StopTick, StopCycle
<1> QED
  BY <1>1, <1>2, <1>3 DEF MainStep

\* The states that are seen have the type of one.
LEMMA SeenType ==
  ASSUME ServiceTypeOK, NEW c \in Clients
  PROVE  Seen(stream[c]) \subseteq Snapshot
<1>1. stream[c] \in Stream
  BY DEF ServiceTypeOK
<1>2. \A k \in 1 .. Len(stream[c].queue) : stream[c].queue[k] \in Snapshot
  BY <1>1 DEF Stream
<1> QED
  BY <1>1, <1>2 DEF Seen, Stream

\* A step either moves the game on or belongs to one stream.
LEMMA NextSplit ==
  ASSUME ServiceTypeOK, OrdersOK, Next
  PROVE  \/ MainLock \/ MainStep
         \/ UNCHANGED vars
         \/ game' = game /\ \E c \in Clients : StreamOK(c)
<1>0. Players \subseteq Clients
  BY DEF Clients
<1>1. ASSUME NEW c \in Clients,
             \/ StreamStep(c)
             \/ c \in Players /\ (WriteLocked(c) \/ ReadEcho(c) \/ ReadRequest(c))
      PROVE  game' = game /\ StreamOK(c)
  BY <1>1, StreamSteps
<1>2. ASSUME NEW c \in Observers, ObserverRequest(c)
      PROVE  game' = game /\ c \in Clients /\ StreamOK(c)
  BY <1>2, ObserverSteps
<1>3. ASSUME NEW p \in Players, Submit(p) PROVE game' = game /\ StreamOK(p)
  BY <1>3, SubmitStep
<1>4. ASSUME NEW p \in Players, SendRequest(p) PROVE game' = game /\ StreamOK(p)
  BY <1>4, SendShape DEF SendRequest
<1> QED
  BY <1>0, <1>1, <1>2, <1>3, <1>4 DEF Next, PlayerRequest

\* The views.
LEMMA ViewsNext ==
  ASSUME ServiceInv, Next
  PROVE  ViewsOK' /\ game'.first <= game'.next /\ game'.whole
<1>0. ServiceTypeOK /\ OrdersOK /\ ViewsOK
  BY DEF ServiceInv
<1>1. CASE MainLock \/ MainStep
  <2>1. stream' = stream /\ (game' = game \/ game' = NewGame(game) \/ Ticked)
    BY <1>1, MainGame
  <2>2. \A s \in Snapshot : Past(s) => Past(s)'
    BY <2>1, GameMoves
  <2>3. ViewsOK'
    BY <1>0, <2>1, <2>2, SeenType DEF ViewsOK
  <2> QED
    BY <2>1, <2>3, GameMoves
<1>2. CASE UNCHANGED vars
  BY <1>0, <1>2 DEF vars, ViewsOK, Past, ServiceInv
<1>3. CASE game' = game /\ \E c \in Clients : StreamOK(c)
  BY <1>3, ViewsOfStream DEF ServiceInv
<1> QED
  BY <1>0, <1>1, <1>2, <1>3, NextSplit

-----------------------------------------------------------------------------
(* The orders *)

\* The orders that are stored or on their way have the type of one.
LEMMA OrdersType ==
  ASSUME ServiceTypeOK
  PROVE  /\ \A r \in Roles : orders[r] \subseteq Order
         /\ \A p \in Players : Sent(p) \subseteq Order /\ stream[p].read \in Nat
                               /\ asked.done[p] \in Nat
<1>1. \A r \in Roles : orders[r] \subseteq Order
  BY DEF ServiceTypeOK
<1>2. ASSUME NEW p \in Players
      PROVE  Sent(p) \subseteq Order /\ stream[p].read \in Nat /\ asked.done[p] \in Nat
  <2>1. stream[p] \in Stream
    BY DEF ServiceTypeOK, Clients
  <2>2. stream[p].request \in Seq(SUBSET Order) /\ stream[p].read \in Nat
    BY <2>1 DEF Stream
  <2>3. asked.done \in [Players -> Nat]
    BY DEF ServiceTypeOK
  <2> QED
    BY <2>2, <2>3 DEF Sent
<1> QED
  BY <1>1, <1>2

\* A step that gives and takes no order keeps them numbered.
LEMMA QuietOrders ==
  ASSUME ServiceInv, NEW c \in Clients, StreamOK(c), Quiet(stream[c], stream'[c]),
         game' = game, orders' = orders, asked'.done = asked.done
  PROVE  OrdersOK'
<1>0. ServiceTypeOK /\ OrdersOK
  BY DEF ServiceInv
<1>1. \A o : Given(o)' <=> Given(o)
  BY DEF Given, Units
<1>2. \A p \in Players : stream'[p].read \in Nat /\ stream'[p].read >= stream[p].read
  <2>1. stream' \in [Clients -> Stream] /\ Players \subseteq Clients
    BY DEF StreamOK, Clients
  <2>2. \A p \in Players : stream'[p].read \in Nat
    BY <2>1 DEF Stream
  <2>3. \A p \in Players : p # c => stream'[p] = stream[p]
    BY <2>1 DEF StreamOK
  <2> QED
    BY <1>0, <2>2, <2>3, OrdersType DEF StreamOK, Changes
<1>3. ASSUME NEW r \in Roles, NEW o \in orders[r]
      PROVE  Given(o) /\ asked.done[o.from] < o.n /\ o.n <= stream'[o.from].read
  <2>1. /\ Given(o) /\ asked.done[o.from] < o.n /\ o.n <= stream[o.from].read
        /\ o.from \in Players /\ o.n \in Nat
    BY <1>0, OrdersType DEF OrdersOK, Order
  <2> QED
    BY <1>0, <1>2, <2>1, OrdersType
<1>4. ASSUME NEW p \in Players
      PROVE  /\ asked.done[p] <= stream'[p].read
             /\ stream'[p].reader = "submit" => stream'[p].request # << >>
             /\ \A o \in Sent(p)' :
                  /\ Given(o) /\ o.from = p
                  /\ asked.done[p] < o.n /\ o.n <= stream'[p].read + 1
                  /\ stream'[p].reader = "submit" => o.n <= stream'[p].read
                  /\ \A r \in Roles : \A old \in orders[r] : old.from = p => old.n < o.n
  <2>0. p \in Clients
    BY DEF Clients
  <2>1. asked.done[p] <= stream'[p].read
    BY <1>0, <1>2, OrdersType DEF OrdersOK
  <2>2. stream'[p] = stream[p] \/ Quiet(stream[p], stream'[p])
    BY <2>0 DEF StreamOK
  <2>3. /\ stream'[p].reader = "submit" => stream'[p].request # << >>
        /\ Sent(p)' \subseteq Sent(p)
    BY <1>0, <2>2 DEF Quiet, Sent, OrdersOK
  <2>4. ASSUME NEW o \in Sent(p)'
        PROVE  /\ o.n <= stream'[p].read + 1
               /\ stream'[p].reader = "submit" => o.n <= stream'[p].read
    <3>1. /\ o \in Sent(p) /\ o.n \in Nat /\ o.n <= stream[p].read + 1
          /\ stream[p].reader = "submit" => o.n <= stream[p].read
      BY <1>0, <2>3, OrdersType DEF OrdersOK, Order
    <3>2. stream[p].read \in Nat
      BY <1>0, OrdersType
    <3> QED
      BY <1>2, <2>2, <3>1, <3>2 DEF Quiet
  <2> QED
    BY <1>0, <2>1, <2>3, <2>4 DEF OrdersOK
<1> QED
  BY <1>1, <1>3, <1>4 DEF OrdersOK

\* mainLoop carries out what is stored, and no more.
LEMMA MainOrders ==
  ASSUME ServiceInv, MainLock \/ MainStep
  PROVE  OrdersOK'
<1>0. ServiceTypeOK /\ OrdersOK
  BY DEF ServiceInv
<1>1. stream' = stream /\ (game' = game \/ game' = NewGame(game) \/ Ticked)
  BY MainGame
<1>2. \A o \in Order : Given(o) => Given(o)'
  BY <1>1, GameMoves
<1>3. CASE orders' = orders /\ asked'.done = asked.done
  BY <1>0, <1>1, <1>2, <1>3, OrdersType DEF OrdersOK, Sent
<1>4. ASSUME NEW next, NEW n, Tick(next, n) PROVE OrdersOK'
  <2> DEFINE mine(p) == {o \in Live(Side[p]) : o.from = p}
  <2>1. \A r \in Roles : orders'[r] = {}
    BY <1>4 DEF Tick, ClearedOrders
  <2>2. ASSUME NEW p \in Players
        PROVE  \/ asked'.done[p] = asked.done[p]
               \/ \E r \in Roles : \E o \in orders[r] : o.from = p /\ asked'.done[p] = o.n
    <3> DEFINE done == [q \in Players |-> IF mine(q) = {} THEN asked.done[q]
                                          ELSE (CHOOSE o \in mine(q) : TRUE).n]
    <3>1. asked'.done = done
      BY <1>0, <1>4 DEF Tick, ServiceTypeOK
    <3>2. mine(p) # {} => (CHOOSE o \in mine(p) : TRUE) \in mine(p)
      OBVIOUS
    <3>3. \A o \in mine(p) : Side[p] \in Roles /\ o \in orders[Side[p]] /\ o.from = p
      BY Streams DEF Live
    <3> HIDE DEF mine
    <3> QED
      BY <3>1, <3>2, <3>3
  <2>3. ASSUME NEW p \in Players
        PROVE  /\ asked'.done[p] <= stream[p].read
               /\ \A o \in Sent(p) : asked'.done[p] < o.n
    BY <1>0, <2>2 DEF OrdersOK
  <2> QED
    BY <1>0, <1>1, <1>2, <2>1, <2>3, OrdersType DEF OrdersOK, Sent
<1>5. CASE RunTick \/ RunCycle
  <2>1. ASSUME TickThrows PROVE orders' = orders /\ asked'.done = asked.done
    BY <2>1 DEF TickThrows
  <2> QED
    BY <1>3, <1>4, <1>5, <2>1 DEF RunTick, RunCycle, ServerStep
<1>6. CASE MainLock \/ ReadReset \/ RunReset \/ ClearReset \/ ReadTick \/ ClearTick
  BY <1>0, <1>3, <1>6 DEF MainLock, ReadReset, RunReset, ClearReset, ReadTick, ClearTick,
                          ServiceTypeOK
<1>7. CASE ReadCycle \/ Unlock \/ StopTick \/ StopCycle
  BY <1>0, <1>3, <1>7 DEF ReadCycle, Unlock, StopTick, StopCycle, ServiceTypeOK
<1> QED
  BY <1>5, <1>6, <1>7 DEF MainStep

\* A player's orders replace those of its side.
LEMMA SubmitOrders ==
  ASSUME ServiceInv, NEW p \in Players, Submit(p)
  PROVE  OrdersOK'
<1>0. ServiceTypeOK /\ OrdersOK /\ p \in Clients
  BY DEF ServiceInv, Clients
<1>1. /\ StreamOK(p) /\ stream[p].reader = "submit"
      /\ stream'[p].reader = "read" /\ stream'[p].request = << >>
      /\ stream'[p].read = stream[p].read
      /\ orders' = [orders EXCEPT ![Side[p]] = Sent(p)]
      /\ UNCHANGED <<game, asked>>
  BY <1>0, SubmitStep
<1>2. \A q \in Players : /\ stream'[q].read = stream[q].read
                         /\ q # p => stream'[q] = stream[q]
  BY <1>1 DEF StreamOK, Clients
<1>3. \A o : Given(o)' <=> Given(o)
  BY <1>1 DEF Given, Units
<1>4. \A r \in Roles : \A o \in orders'[r] :
        o \in orders[r] \/ (o \in Sent(p) /\ r = Side[p])
  BY <1>0, <1>1 DEF ServiceTypeOK
<1>5. ASSUME NEW r \in Roles, NEW o \in orders'[r]
      PROVE  Given(o) /\ asked.done[o.from] < o.n /\ o.n <= stream[o.from].read
  BY <1>0, <1>1, <1>4 DEF OrdersOK
<1>6. ASSUME NEW r \in Roles, NEW o \in orders'[r] PROVE o.from \in Players
  BY <1>0, <1>4, OrdersType DEF Order
<1>7. ASSUME NEW q \in Players
      PROVE  /\ asked.done[q] <= stream'[q].read
             /\ stream'[q].reader = "submit" => stream'[q].request # << >>
             /\ \A o \in Sent(q)' :
                  /\ Given(o) /\ o.from = q
                  /\ asked.done[q] < o.n /\ o.n <= stream'[q].read + 1
                  /\ stream'[q].reader = "submit" => o.n <= stream'[q].read
                  /\ \A r \in Roles : \A old \in orders'[r] : old.from = q => old.n < o.n
  <2>1. CASE q = p
    BY <1>0, <1>1, <2>1 DEF OrdersOK, Sent
  <2>2. CASE q # p
    <3>1. stream'[q] = stream[q] /\ Sent(q)' = Sent(q)
      BY <1>2, <2>2 DEF Sent
    <3>2. \A r \in Roles : \A old \in orders'[r] : old.from = q => old \in orders[r]
      BY <1>0, <1>4, <2>2 DEF OrdersOK
    <3> QED
      BY <1>0, <3>1, <3>2 DEF OrdersOK
  <2> QED
    BY <2>1, <2>2
<1> QED
  BY <1>1, <1>2, <1>3, <1>5, <1>6, <1>7 DEF OrdersOK

\* A player gives orders for what it has been sent.
LEMMA SendOrders ==
  ASSUME ServiceInv, NEW p \in Players, SendRequest(p)
  PROVE  OrdersOK'
<1>0. ServiceTypeOK /\ OrdersOK /\ p \in Clients /\ stream[p].got \in Seen(stream[p])
  BY DEF ServiceInv, Clients, Seen
<1>1. /\ StreamOK(p)
      /\ stream'[p].read = stream[p].read /\ stream'[p].reader = stream[p].reader
      /\ stream'[p].request # << >>
      /\ \A o \in Sent(p)' :
           /\ o.unit \in Units(stream[p].got) /\ o.epoch = stream[p].got.epoch
           /\ o.from = p /\ o.n = stream[p].read + 1
  BY <1>0, SendShape DEF Sent
<1>2. stream[p].request = << >> /\ UNCHANGED <<game, orders, asked>>
  BY DEF SendRequest
<1>3. \A q \in Players : /\ stream'[q].read = stream[q].read
                         /\ q # p => stream'[q] = stream[q]
  BY <1>1 DEF StreamOK, Clients
<1>4. \A o : Given(o)' <=> Given(o)
  BY <1>2 DEF Given, Units
<1>5. \A o \in Sent(p)' : Given(o)
  <2>1. Past(stream[p].got) /\ stream[p].got \in Snapshot /\ game \in Snapshot
    BY <1>0, SeenType DEF ServiceInv, ViewsOK, ServiceTypeOK
  <2> SUFFICES ASSUME NEW o \in Sent(p)' PROVE Given(o)
    OBVIOUS
  <2> DEFINE g == stream[p].got
  <2>2. o.epoch = g.epoch /\ o.unit \in g.first .. g.next - 1
    BY <1>1 DEF Units
  <2>3. /\ g.epoch \in Nat /\ g.first \in Nat /\ g.next \in Nat
        /\ game.epoch \in Nat /\ game.first \in Nat /\ game.next \in Nat
    BY <2>1 DEF Snapshot
  <2>4. /\ g.epoch <= game.epoch
        /\ g.epoch = game.epoch => g.first = game.first /\ g.next <= game.next
        /\ g.epoch < game.epoch => g.next <= game.first
    BY <2>1 DEF Past
  <2> HIDE DEF g
  <2>5. o.epoch <= game.epoch
    BY <2>2, <2>4
  <2>6. ASSUME o.epoch = game.epoch PROVE o.unit \in Units(game)
    BY <2>2, <2>3, <2>4, <2>6 DEF Units
  <2>7. ASSUME o.epoch < game.epoch PROVE o.unit < game.first
    BY <2>2, <2>3, <2>4, <2>7
  <2> QED
    BY <2>5, <2>6, <2>7 DEF Given
<1>6. \A r \in Roles : \A o \in orders[r] : o.from \in Players /\ o.n \in Nat
  BY <1>0, OrdersType DEF Order
<1>7. ASSUME NEW q \in Players
      PROVE  /\ asked.done[q] <= stream'[q].read
             /\ stream'[q].reader = "submit" => stream'[q].request # << >>
             /\ \A o \in Sent(q)' :
                  /\ Given(o) /\ o.from = q
                  /\ asked.done[q] < o.n /\ o.n <= stream'[q].read + 1
                  /\ stream'[q].reader = "submit" => o.n <= stream'[q].read
                  /\ \A r \in Roles : \A old \in orders[r] : old.from = q => old.n < o.n
  <2>1. CASE q = p
    <3>1. stream[p].reader # "submit"
      BY <1>0, <1>2 DEF OrdersOK
    <3>2. \A r \in Roles : \A old \in orders[r] : old.from = p => old.n <= stream[p].read
      BY <1>0 DEF OrdersOK
    <3>3. asked.done[p] <= stream[p].read /\ stream[p].read \in Nat /\ asked.done[p] \in Nat
      BY <1>0, OrdersType DEF OrdersOK
    <3> QED
      BY <1>1, <1>5, <1>6, <2>1, <3>1, <3>2, <3>3
  <2>2. CASE q # p
    <3>1. stream'[q] = stream[q] /\ Sent(q)' = Sent(q)
      BY <1>3, <2>2 DEF Sent
    <3> QED
      BY <1>0, <3>1 DEF OrdersOK
  <2> QED
    BY <2>1, <2>2
<1>8. \A r \in Roles : \A o \in orders[r] :
        Given(o) /\ asked.done[o.from] < o.n /\ o.n <= stream'[o.from].read
  BY <1>0, <1>3, <1>6 DEF OrdersOK
<1> QED
  BY <1>2, <1>4, <1>7, <1>8 DEF OrdersOK

\* The orders.
LEMMA OrdersNext ==
  ASSUME ServiceInv, Next
  PROVE  OrdersOK'
<1>0. ServiceTypeOK /\ OrdersOK /\ Players \subseteq Clients
  BY DEF ServiceInv, Clients
<1>1. ASSUME NEW c \in Clients,
             \/ StreamStep(c)
             \/ c \in Players /\ (WriteLocked(c) \/ ReadEcho(c) \/ ReadRequest(c))
      PROVE  OrdersOK'
  BY <1>0, <1>1, StreamSteps, QuietOrders
<1>2. ASSUME NEW c \in Observers, ObserverRequest(c) PROVE OrdersOK'
  BY <1>0, <1>2, ObserverSteps, QuietOrders
<1>3. CASE UNCHANGED vars
  BY <1>0, <1>3 DEF vars, OrdersOK, Given, Units, Sent
<1> QED
  BY <1>0, <1>1, <1>2, <1>3, MainOrders, SubmitOrders, SendOrders DEF Next, PlayerRequest

-----------------------------------------------------------------------------
(* The lock and the clock *)

\* The step of a stream neither takes stateLock from its holder nor changes mpc.
LEMMA LockOfStream ==
  ASSUME ServiceInv, NEW c \in Clients, StreamOK(c), mpc' = mpc
  PROVE  LockOK'
<1>0. LockOK /\ Players \subseteq Clients
  BY DEF ServiceInv, Clients
<1>1. \A d \in Clients : d # c => stream'[d] = stream[d]
  BY DEF StreamOK
<1>2. CASE holder' = holder /\ (stream'[c].writer = "held" => stream[c].writer = "held")
  BY <1>0, <1>1, <1>2 DEF LockOK
<1>3. CASE holder = NoOne /\ holder' = c /\ c \in Players
  BY <1>0, <1>1, <1>3, Streams DEF LockOK
<1>4. CASE /\ stream[c].writer = "held" /\ stream'[c].writer # "held"
           /\ holder' = NoOne /\ c \in Players
  BY <1>0, <1>1, <1>4, Streams DEF LockOK
<1> QED
  BY <1>2, <1>3, <1>4 DEF StreamOK, Changes

\* mainLoop takes the lock when it is free.
LEMMA LockOfMain ==
  ASSUME ServiceInv, MainLock \/ MainStep
  PROVE  LockOK'
<1>0. LockOK /\ Players \subseteq Clients /\ stream' = stream
  BY MainGame DEF ServiceInv, Clients
<1>1. CASE MainLock
  BY <1>0, <1>1, Streams DEF MainLock, LockOK
<1>2. CASE RunTick \/ RunCycle
  BY <1>0, <1>2 DEF RunTick, RunCycle, ServerStep, Tick, TickThrows, LockOK
<1>3. CASE ReadReset \/ RunReset \/ ClearReset \/ ReadTick \/ ClearTick \/ ReadCycle \/ StopTick
  BY <1>0, <1>3 DEF ReadReset, RunReset, ClearReset, ReadTick, ClearTick, ReadCycle,
                    StopTick, LockOK
<1>4. CASE Unlock \/ StopCycle
  BY <1>0, <1>4, Streams DEF Unlock, StopCycle, LockOK
<1> QED
  BY <1>1, <1>2, <1>3, <1>4 DEF MainStep

\* The clock and the requests, as mainLoop serves them.
LEMMA TicksOfMain ==
  ASSUME ServiceInv, MainLock \/ MainStep
  PROVE  TicksOK' /\ ServedOnce'
<1>0. /\ TicksOK /\ ServedOnce /\ asked \in History /\ flag \in Flags
      /\ game \in Snapshot /\ game.version >= 0
  BY DEF ServiceInv, ServiceTypeOK, History, Flags
<1>1. CASE RunReset
  BY <1>0, <1>1 DEF RunReset, TicksOK, ServedOnce, History
<1>2. CASE RunTick
  <2>1. CASE Tick("clearTick", 0)
    <3> DEFINE step  == 0 = 1 /\ asked.step
               late  == IF flag.cycle THEN asked.late ELSE asked.late + 0
               extra == IF game.over THEN asked.extra + 0 ELSE asked.extra
               done  == [p \in Players |->
                           LET mine == {o \in Live(Side[p]) : o.from = p} IN
                           IF mine = {} THEN asked.done[p]
                           ELSE (CHOOSE o \in mine : TRUE).n]
    <3>4. asked' = [asked EXCEPT !.step = step, !.late = late, !.extra = extra,
                                 !.done = done]
      BY <2>1 DEF Tick
    <3>5. step = FALSE
      OBVIOUS
    <3>6. asked.late \in Nat /\ asked.extra \in Nat
      BY <1>0 DEF History
    <3>7. late = asked.late /\ extra = asked.extra
      BY <3>6
    <3> HIDE DEF step, late, extra, done
    <3>1. /\ asked'.step = FALSE /\ asked'.reset = asked.reset
          /\ asked'.late = asked.late /\ asked'.extra = asked.extra
      BY <1>0, <3>4, <3>5, <3>7 DEF History
    <3>2. game.over => game'.over
      BY <1>0, <2>1, TickedFacts DEF Tick
    <3>3. flag' = flag /\ mpc = "stepping" /\ mpc' = "clearTick"
      BY <1>2, <2>1 DEF RunTick, Tick
    <3> QED
      BY <1>0, <3>1, <3>2, <3>3 DEF TicksOK, ServedOnce
  <2> QED
    BY <1>0, <1>2, <2>1 DEF RunTick, ServerStep, TickThrows, TicksOK, ServedOnce
<1>3. CASE RunCycle
  <2>1. CASE Tick("over", 1)
    <3>1. /\ asked'.step = asked.step /\ asked'.reset = asked.reset
          /\ asked'.late = IF flag.cycle THEN asked.late ELSE asked.late + 1
          /\ asked'.extra = IF game.over THEN asked.extra + 1 ELSE asked.extra
      BY <1>0, <2>1 DEF Tick, History
    <3>2. game.over => game'.over
      BY <1>0, <2>1, TickedFacts DEF Tick
    <3>3. flag' = flag /\ mpc = "cycling" /\ mpc' = "over"
      BY <1>3, <2>1 DEF RunCycle, Tick
    <3>4. asked.extra = 0 /\ asked.late \in Nat /\ asked.extra \in Nat
      BY <1>0, <3>3 DEF TicksOK, History
    <3> QED
      BY <1>0, <3>1, <3>2, <3>3, <3>4 DEF TicksOK, ServedOnce
  <2> QED
    BY <1>0, <1>3, <2>1 DEF RunCycle, ServerStep, TickThrows, TicksOK, ServedOnce
<1>4. CASE MainLock \/ ReadReset \/ ReadTick \/ ReadCycle \/ Unlock
  BY <1>0, <1>4 DEF MainLock, ReadReset, ReadTick, ReadCycle, Unlock, Ticking, TicksOK,
                    ServedOnce
<1>5. CASE ClearReset \/ ClearTick
  BY <1>0, <1>5 DEF ClearReset, ClearTick, TicksOK, ServedOnce, Flags
<1>6. CASE StopTick
  BY <1>0, <1>6 DEF StopTick, TicksOK, ServedOnce, Flags, History
<1>7. CASE StopCycle
  BY <1>0, <1>7 DEF StopCycle, TicksOK, ServedOnce, Flags, History
<1> QED
  BY <1>1, <1>2, <1>3, <1>4, <1>5, <1>6, <1>7 DEF MainStep

\* The clock and the requests, as observers turn and send them.
LEMMA TicksOfObserver ==
  ASSUME ServiceInv, NEW c \in Observers, ObserverRequest(c)
  PROVE  TicksOK' /\ ServedOnce'
<1>0. TicksOK /\ ServedOnce /\ asked \in History /\ flag \in Flags
  BY DEF ServiceInv, ServiceTypeOK, History, Flags
<1>1. UNCHANGED <<mpc, game>>
  BY ObserverSteps DEF ServiceInv
<1>2. CASE ReadStart(c)
  BY <1>0, <1>1, <1>2 DEF ReadStart, TicksOK, ServedOnce, Flags, History
<1>3. CASE ReadStep(c)
  BY <1>0, <1>1, <1>3 DEF ReadStep, TicksOK, ServedOnce, Flags, History
<1>4. CASE SetReset(c)
  BY <1>0, <1>1, <1>4 DEF SetReset, TicksOK, ServedOnce, Flags, History
<1>5. CASE ReadStop(c) \/ ReadResetRequest(c)
  <2>1. StopTicking
    BY <1>5 DEF ReadStop, ReadResetRequest
  <2>2. /\ flag'.cycle = FALSE /\ flag'.tick = flag.tick /\ flag'.reset = flag.reset
        /\ asked'.step = asked.step /\ asked'.reset = asked.reset
        /\ asked'.late = IF flag.cycle THEN 0 ELSE asked.late
        /\ asked'.extra = asked.extra
    BY <1>0, <2>1 DEF StopTicking, Flags, History
  <2> QED
    BY <1>0, <1>1, <2>2 DEF TicksOK, ServedOnce
<1> QED
  BY <1>2, <1>3, <1>4, <1>5 DEF ObserverRequest

\* The lock, the clock and the requests.
LEMMA ControlNext ==
  ASSUME ServiceInv, Next
  PROVE  LockOK' /\ TicksOK' /\ ServedOnce'
<1>0. /\ ServiceTypeOK /\ OrdersOK /\ LockOK /\ TicksOK /\ ServedOnce
      /\ Players \subseteq Clients
  BY DEF ServiceInv, Clients
<1>1. ASSUME UNCHANGED <<mpc, flag, game, asked>> PROVE TicksOK' /\ ServedOnce'
  BY <1>0, <1>1 DEF TicksOK, ServedOnce
<1>2. ASSUME NEW c \in Clients,
             \/ StreamStep(c)
             \/ c \in Players /\ (WriteLocked(c) \/ ReadEcho(c) \/ ReadRequest(c))
      PROVE  LockOK' /\ TicksOK' /\ ServedOnce'
  BY <1>0, <1>1, <1>2, StreamSteps, LockOfStream
<1>3. ASSUME NEW c \in Observers, ObserverRequest(c)
      PROVE  LockOK' /\ TicksOK' /\ ServedOnce'
  BY <1>0, <1>3, ObserverSteps, TicksOfObserver, LockOfStream
<1>4. ASSUME NEW p \in Players, Submit(p) \/ SendRequest(p)
      PROVE  LockOK' /\ TicksOK' /\ ServedOnce'
  <2>1. StreamOK(p)
    BY <1>0, <1>4, SubmitStep, SendShape
  <2>2. UNCHANGED <<mpc, flag, game, asked>>
    BY <1>4 DEF Submit, SendRequest
  <2> QED
    BY <1>0, <1>1, <2>1, <2>2, LockOfStream
<1>5. CASE UNCHANGED vars
  BY <1>0, <1>1, <1>5 DEF vars, LockOK
<1> QED
  BY <1>0, <1>2, <1>3, <1>4, <1>5, LockOfMain, TicksOfMain DEF Next, PlayerRequest

-----------------------------------------------------------------------------
(* The theorems *)

\* The server starts with no order, no stream and a board nobody has laid out.
LEMMA InitInv == Init => ServiceInv
<1> SUFFICES ASSUME Init PROVE ServiceInv
  OBVIOUS
<1>1. /\ Blank \in Snapshot /\ game \in Snapshot /\ game.version = 0 /\ game.whole
      /\ game.epoch = 0 /\ game.first = 0 /\ game.next = 0
  <2>1. Blank \in Snapshot
    BY DEF Blank, Snapshot
  <2>2. game = [epoch |-> 0, first |-> 0, next |-> 0, version |-> 0,
                over |-> FALSE, whole |-> TRUE]
    BY DEF Init, Blank
  <2> QED
    BY <2>1, <2>2 DEF Snapshot
<1>2. /\ Blank.whole /\ Blank.epoch = 0 /\ Blank.first = 0 /\ Blank.next = 0
  BY DEF Blank
<1> HIDE DEF Blank
<1>3. \A c \in Clients :
        /\ stream[c].last = Blank /\ stream[c].got = Blank /\ stream[c].queue = << >>
        /\ stream[c].request = << >> /\ stream[c].writer = "new"
        /\ stream[c].reader = "new" /\ stream[c].read = 0
  BY DEF Init
<1>4. stream \in [Clients -> Stream]
  BY <1>1 DEF Init, Stream
<1>5. ServiceTypeOK
  <2> DEFINE none == [p \in Players |-> 0]
  <2>1. none \in [Players -> Nat]
    OBVIOUS
  <2>2. asked = [step |-> FALSE, reset |-> FALSE, run |-> FALSE, late |-> 0,
                 extra |-> 0, done |-> none]
    BY DEF Init
  <2> HIDE DEF none
  <2>3. asked \in [step : BOOLEAN, reset : BOOLEAN, run : BOOLEAN, late : Nat,
                  extra : Nat, done : [Players -> Nat]]
    BY <2>1, <2>2
  <2>4. orders \in [Roles -> SUBSET Order]
    BY DEF Init
  <2>5. flag \in [reset : BOOLEAN, tick : BOOLEAN, cycle : BOOLEAN]
    BY DEF Init
  <2>6. down \in BOOLEAN /\ mpc = "free" /\ holder = NoOne
    BY DEF Init
  <2> QED
    BY <1>1, <1>4, <2>3, <2>4, <2>5, <2>6 DEF ServiceTypeOK
<1>6. ViewsOK
  BY <1>1, <1>2, <1>3 DEF ViewsOK, Seen, Past
<1>7. OrdersOK
  BY <1>3 DEF Init, OrdersOK, Sent, Clients
<1>8. LockOK /\ TicksOK /\ ServedOnce
  BY <1>3 DEF Init, LockOK, TicksOK, ServedOnce, Clients
<1> QED
  BY <1>1, <1>5, <1>6, <1>7, <1>8 DEF ServiceInv

\* ServiceInv holds in every state the server can reach.
LEMMA ServiceInductive == Spec => []ServiceInv
<1>1. ServiceInv /\ [Next]_vars => ServiceInv'
  <2> SUFFICES ASSUME ServiceInv, [Next]_vars PROVE ServiceInv'
    OBVIOUS
  <2>1. CASE Next
    BY <2>1, TypeNext, ViewsNext, OrdersNext, ControlNext DEF ServiceInv
  <2>2. CASE UNCHANGED vars
    BY <2>2 DEF vars, ServiceInv, ServiceTypeOK, ViewsOK, Past, OrdersOK, Given, Units,
                Sent, LockOK, TicksOK, ServedOnce
  <2> QED
    BY <2>1, <2>2
<1> QED
  BY <1>1, InitInv, PTL DEF Spec

\* Every variable of the service keeps its type, for any number of streams.
THEOREM ServiceTypes == Spec => []ServiceTypeOK
<1>1. ServiceInv => ServiceTypeOK
  BY DEF ServiceInv
<1> QED
  BY <1>1, ServiceInductive, PTL

\* No order reaches a game other than the one it was given in, with any number of
\* players on either side and however many RESETs it was under way for: the orders
\* of totalAction need not be cleared by a RESET.
THEOREM OrdersStayInTheirGame == Spec => []OrdersMatchGame
<1>1. ServiceInv => OrdersMatchGame
  <2> SUFFICES ASSUME ServiceInv, NEW r \in Roles, NEW o \in Live(r)
               PROVE  o.epoch = game.epoch
    BY DEF OrdersMatchGame
  <2>1. Given(o) /\ o \in Order /\ o.unit \in Units(game) /\ game \in Snapshot
    BY OrdersType DEF ServiceInv, OrdersOK, Live, ServiceTypeOK
  <2> QED
    BY <2>1 DEF Given, Units, Order, Snapshot
<1> QED
  BY <1>1, ServiceInductive, PTL

\* No order is carried out twice, and none after a later one of the same player.
THEOREM OrdersOnce == Spec => []OncePerOrder
<1>1. ServiceInv => OncePerOrder
  BY DEF ServiceInv, OrdersOK, OncePerOrder
<1> QED
  BY <1>1, ServiceInductive, PTL

\* No client is sent a state that mainLoop was changing: stateLock is enough.
THEOREM ViewsWhole == Spec => []NoTornView
<1>1. ServiceInv => NoTornView
  BY DEF ServiceInv, ViewsOK, NoTornView
<1> QED
  BY <1>1, ServiceInductive, PTL

\* At most one more tick is started by the clock once it is turned off, although the
\* flags are read and written without a lock.
THEOREM ClockStops == Spec => []TickingStops
<1>1. ServiceInv => TickingStops
  BY DEF ServiceInv, TicksOK, TickingStops
<1> QED
  BY <1>1, ServiceInductive, PTL

\* No STEP makes two ticks and no RESET two Resets.
THEOREM NothingServedTwice == Spec => []ServedOnce
<1>1. ServiceInv => ServedOnce
  BY DEF ServiceInv
<1> QED
  BY <1>1, ServiceInductive, PTL

==============================================================================
