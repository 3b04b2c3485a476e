----------------------------- MODULE ReplayProofs -----------------------------
(***************************************************************************)
(* Proofs about Replay: what is shown was recorded, for any number of      *)
(* records and wherever the file was cut off.                              *)
(***************************************************************************)
EXTENDS ReplayProps, TLAPS

\* A record is written in four parts.
LEMMA FourParts == PartCnt = 4
  BY DEF PartCnt, Parts

\* The bytes of d parts: whole records, and what is left behind them.
LEMMA KeptOK ==
  ASSUME NEW d \in Nat
  PROVE  /\ d \div 4 \in Nat /\ 4 * (d \div 4) <= d /\ d < 4 * (d \div 4) + 4
         /\ d % 4 = d - 4 * (d \div 4)
  BY SMT

\* What is left behind n records, if it is less than a record.
LEMMA LeftOver ==
  ASSUME NEW d \in Nat, NEW k \in Nat, NEW n \in Nat, NEW l \in Int,
         4 * k <= d, n <= k, l = d - 4 * n, l < 4
  PROVE  n = k
  BY SMT

\* At first nothing has been recorded, and nothing is shown.
LEMMA ReplayInit == Init => ReplayInv
<1> SUFFICES ASSUME Init PROVE ReplayInv
  OBVIOUS
<1>1. /\ mode = "record" /\ mpc = "free" /\ game = Whole(0) /\ written = << >> /\ disk = 0
      /\ ifs = [next |-> 0, eof |-> FALSE, fail |-> FALSE]
  BY DEF Init
<1>2. ReplayTypeOK
  BY <1>1, FourParts DEF ReplayTypeOK
<1>3. Kept = 0 /\ Len(written) = 0
  BY <1>1, FourParts, KeptOK DEF Kept
<1> QED
  BY <1>1, <1>2, <1>3 DEF ReplayInv, ShowsTheRecord, Opened, Found

\* A record is added at the end, and the file does not get longer than what was recorded.
LEMMA RecordOK ==
  ASSUME ReplayInv, mode = "record", UNCHANGED mode, mpc' # "free",
         NEW standing \in Standings, Record(standing)
  PROVE  ReplayInv'
<1>1. /\ ReplayTypeOK /\ ifs = Opened(TRUE) /\ Found
      /\ written' = Append(written, standing) /\ game' = Whole(Len(written'))
      /\ disk' \in disk .. 4 * Len(written') /\ ifs' = ifs
  <2>1. ReplayTypeOK /\ ifs = Opened(TRUE)
    BY DEF ReplayInv
  <2>2. Found
    BY <2>1 DEF Found, Opened
  <2> QED
    BY <2>1, <2>2, FourParts DEF Record
<1>2. /\ written' \in Seq(Standings) /\ Len(written') \in Nat /\ disk \in Nat
  BY <1>1, FourParts DEF ReplayTypeOK
<1>3. disk' \in 0 .. 4 * Len(written')
  BY <1>1, <1>2
<1>4. ReplayTypeOK'
  BY <1>1, <1>2, <1>3, FourParts DEF ReplayTypeOK
<1>5. ShowsTheRecord'
  BY <1>1 DEF ShowsTheRecord, Whole
<1> QED
  BY <1>1, <1>4, <1>5 DEF ReplayInv, Found

\* A read from a stream that is in order, or was just opened, shows the next record, or
\* what is left of it.
LEMMA StepOK ==
  ASSUME ReplayInv, mode = "play", UNCHANGED mode,
         NEW s, s = ifs \/ s = Opened(Found), StepReplay(s)
  PROVE  ReplayInv'
<1> DEFINE left == disk - PartCnt * s.next
<1>1. /\ ReplayTypeOK /\ ifs \in [next : Nat, eof : BOOLEAN, fail : BOOLEAN]
      /\ disk \in Nat /\ Len(written) \in Nat
      /\ Kept = disk \div 4 /\ Kept \in Nat /\ 4 * Kept <= disk /\ disk < 4 * Kept + 4
      /\ disk % 4 = disk - 4 * Kept
  <2>1. ReplayTypeOK
    BY DEF ReplayInv
  <2>2. disk \in Nat /\ Len(written) \in Nat
    BY <2>1, FourParts DEF ReplayTypeOK
  <2> QED
    BY <2>1, <2>2, FourParts, KeptOK DEF Kept, ReplayTypeOK
<1>2. /\ s \in [next : Nat, eof : BOOLEAN, fail : BOOLEAN]
      /\ s.next <= Kept
      /\ s.fail /\ s.eof => s.next = Kept
      /\ s.fail /\ ~s.eof => s.next = 0
      /\ s.fail => game = Whole(s.next) \/ (s.next = Kept /\ disk % 4 # 0)
      /\ s.eof /\ ~s.fail => game = Whole(s.next)
      /\ Kept = 0 => game = Whole(0) \/ disk % 4 # 0
  <2>1. /\ ifs.next <= Kept
        /\ ifs.fail => ~Found \/ ifs.next = Kept
        /\ game = Whole(ifs.next) \/ (ifs.fail /\ ifs.next = Kept /\ disk % 4 # 0)
        /\ ~Found => ifs.next = 0
    BY FourParts DEF ReplayInv, ShowsTheRecord
  <2>2. CASE s = ifs
    BY <1>1, <2>1, <2>2 DEF Found
  <2>3. CASE s = Opened(Found)
    <3>1. s.next = 0 /\ s.eof = FALSE /\ s.fail = ~Found
          /\ s \in [next : Nat, eof : BOOLEAN, fail : BOOLEAN]
      BY <1>1, <2>3 DEF Opened, Found
    <3>2. ifs.next = 0 => game = Whole(0) \/ (Kept = 0 /\ disk % 4 # 0)
      BY <2>1
    <3>3. Kept = 0 \/ ~Found => ifs.next = 0
      BY <1>1, <2>1
    <3> QED
      BY <1>1, <3>1, <3>2, <3>3
  <2> QED
    BY <2>2, <2>3
<1>3. /\ game' = IF s.fail \/ left = 0 THEN game
                 ELSE IF left >= 4 THEN Whole(s.next + 1)
                 ELSE Torn(s.next + 1, left)
      /\ ifs' = IF s.fail THEN s
                ELSE IF left = 0 THEN [s EXCEPT !.eof = TRUE, !.fail = s.eof]
                ELSE IF left >= 4 THEN [s EXCEPT !.next = @ + 1]
                ELSE [s EXCEPT !.eof = TRUE, !.fail = TRUE]
      /\ left = disk - 4 * s.next
      /\ UNCHANGED <<written, disk>>
  BY FourParts DEF StepReplay
<1>4. Kept' = Kept
  BY <1>3 DEF Kept
<1>5. /\ ifs' \in [next : Nat, eof : BOOLEAN, fail : BOOLEAN]
      /\ ifs'.next <= Kept
      /\ ifs'.fail /\ ifs'.eof => ifs'.next = Kept
      /\ ifs'.fail /\ ~ifs'.eof => ifs'.next = 0
      /\ \/ game' = Whole(ifs'.next)
         \/ ifs'.fail /\ ifs'.next = Kept /\ disk % 4 # 0
  <2>1. CASE s.fail
    BY <1>2, <1>3, <2>1
  <2>2. CASE ~s.fail /\ left = 0
    <3>1. ifs' = [s EXCEPT !.eof = TRUE, !.fail = s.eof] /\ game' = game
      BY <1>3, <2>2
    <3>2. s.next = Kept /\ disk = 4 * Kept /\ disk % 4 = 0
      BY <1>1, <1>2, <1>3, <2>2
    <3>3. game = Whole(s.next)
      <4>1. CASE s = ifs
        BY <4>1, <2>2, FourParts DEF ReplayInv, ShowsTheRecord
      <4>2. CASE s = Opened(Found)
        BY <4>2, <1>2, <3>2 DEF Opened
      <4> QED
        BY <4>1, <4>2
    <3> QED
      BY <1>2, <3>1, <3>2, <3>3
  <2>3. CASE ~s.fail /\ left >= 4
    <3>1. ifs' = [s EXCEPT !.next = @ + 1] /\ game' = Whole(s.next + 1)
      BY <1>1, <1>2, <1>3, <2>3
    <3>2. s.next + 1 <= Kept
      BY <1>1, <1>2, <1>3, <2>3
    <3> QED
      BY <1>2, <2>3, <3>1, <3>2
  <2>4. CASE ~s.fail /\ left # 0 /\ ~(left >= 4)
    <3>1. ifs' = [s EXCEPT !.eof = TRUE, !.fail = TRUE]
      BY <1>3, <2>4
    <3>2. s.next = Kept /\ disk % 4 # 0
      <4>1. s.next \in Nat /\ left = disk - 4 * s.next
        BY <1>2, <1>3
      <4> HIDE DEF left
      <4>2. left \in Int /\ left < 4 /\ left # 0
        BY <1>1, <2>4, <4>1
      <4>3. s.next = Kept
        <5>1. disk \in Nat /\ Kept \in Nat /\ 4 * Kept <= disk /\ s.next <= Kept
          BY <1>1, <1>2
        <5> QED
          BY <5>1, <4>1, <4>2, LeftOver
      <4> QED
        BY <1>1, <4>1, <4>2, <4>3
    <3>3. /\ ifs' \in [next : Nat, eof : BOOLEAN, fail : BOOLEAN]
          /\ ifs'.next = s.next /\ ifs'.eof /\ ifs'.fail
      BY <1>2, <3>1
    <3> QED
      BY <1>1, <3>2, <3>3
  <2> QED
    BY <2>1, <2>2, <2>3, <2>4
<1>6. ReplayTypeOK'
  BY <1>1, <1>3, <1>5 DEF ReplayTypeOK
<1>7. (ifs'.fail => ~Found' \/ ifs'.next = Kept) /\ (~Found' => ifs'.next = 0)
  BY <1>5 DEF Found
<1>8. ShowsTheRecord'
  BY <1>3, <1>4, <1>5, <1>7, FourParts DEF ShowsTheRecord, Whole
<1> QED
  BY <1>6, <1>7, <1>8 DEF ReplayInv

\* A step that leaves the files alone, and in recording does not end an iteration.
LEMMA QuietOK ==
  ASSUME ReplayInv, UNCHANGED mode, UNCHANGED Files,
         mode = "record" /\ mpc' = "free" => mpc = "free" \/ ~Over
  PROVE  ReplayInv'
<1>1. /\ UNCHANGED <<game, written, disk, ifs>> /\ Over' = Over /\ Kept' = Kept
      /\ Found' = Found
  BY DEF Files, Over, Kept, Found
<1>2. ReplayTypeOK' /\ (~Found' => ifs'.next = 0)
      /\ (mode' = "record" => ifs' = Opened(TRUE))
  BY <1>1 DEF ReplayInv, ReplayTypeOK
<1>3. ShowsTheRecord'
  BY <1>1 DEF ReplayInv, ShowsTheRecord, Whole
<1> QED
  BY <1>2, <1>3 DEF ReplayInv

\* After a step the game stands in one of the ways a game can stand.
LEMMA StandingsOK == ReplayTypeOK => StandsNext \subseteq Standings
<1> SUFFICES ASSUME ReplayTypeOK PROVE StandsNext \subseteq Standings
  OBVIOUS
<1>1. written \in Seq(Standings) /\ Len(written) \in Nat
  BY DEF ReplayTypeOK
<1>2. Len(written) # 0 => written[Len(written)] \in Standings
  BY <1>1
<1> QED
  BY <1>1, <1>2 DEF StandsNext, Standings

\* A step of the main loop records the next game, or shows the next record.
LEMMA ServerStepOK ==
  ASSUME ReplayInv, mode # "gone", UNCHANGED mode, mpc' # "free", ServerStep
  PROVE  ReplayInv'
<1>1. CASE mode = "play"
  BY <1>1, StepOK DEF ServerStep
<1>2. CASE mode = "record"
  <2>1. PICK standing \in StandsNext : Record(standing)
    BY <1>2 DEF ServerStep
  <2>2. StandsNext \subseteq Standings
    BY StandingsOK DEF ReplayInv
  <2> QED
    BY <1>2, <2>1, <2>2, RecordOK
<1> QED
  BY <1>1, <1>2 DEF ReplayInv, ReplayTypeOK

\* A reset does the same with a new game.
LEMMA RunResetOK == ReplayInv /\ mode # "gone" /\ RunReset => ReplayInv'
<1> SUFFICES ASSUME ReplayInv, mode # "gone", RunReset PROVE ReplayInv'
  OBVIOUS
<1>1. UNCHANGED mode /\ mpc' # "free"
  BY DEF RunReset, At
<1>2. CASE mode = "play"
  <2>1. StepReplay(Opened(Found))
    BY <1>2 DEF RunReset
  <2> QED
    BY <1>1, <1>2, <2>1, StepOK
<1>3. CASE mode = "record"
  <2>1. Record("on") /\ "on" \in Standings
    BY <1>3 DEF RunReset, Standings
  <2> QED
    BY <1>1, <1>3, <2>1, RecordOK
<1> QED
  BY <1>2, <1>3 DEF ReplayInv, ReplayTypeOK

\* A game that is over is flushed before the iteration ends.
LEMMA StopCycleOK == ReplayInv /\ mode # "gone" /\ StopCycle => ReplayInv'
<1> SUFFICES ASSUME ReplayInv, mode # "gone", StopCycle PROVE ReplayInv'
  OBVIOUS
<1>1. /\ UNCHANGED <<mode, game, written, ifs>>
      /\ disk' = IF mode = "record" THEN 4 * Len(written) ELSE disk
  BY FourParts DEF StopCycle, At, Flush
<1>2. ReplayTypeOK /\ Len(written) \in Nat
  BY DEF ReplayInv, ReplayTypeOK
<1>3. CASE mode = "record"
  <2>1. disk' = 4 * Len(written) /\ disk' \in Nat
    BY <1>1, <1>2, <1>3
  <2>2. Kept' = Len(written')
    BY <1>1, <1>2, <2>1, FourParts, KeptOK DEF Kept
  <2>3. ReplayTypeOK'
    BY <1>1, <1>2, <2>1, FourParts DEF ReplayTypeOK
  <2> QED
    BY <1>1, <1>3, <2>2, <2>3 DEF ReplayInv, ShowsTheRecord, Found, Whole
<1>4. CASE mode = "play"
  <2>1. UNCHANGED <<game, written, disk, ifs>> /\ UNCHANGED mode
    BY <1>1, <1>4
  <2> QED
    BY <1>4, <2>1, QuietOK DEF Files
<1> QED
  BY <1>2, <1>3, <1>4 DEF ReplayTypeOK

\* After a restart, with a file or without one, nothing has been read.
LEMMA RestartOK == ReplayInv /\ Restart => ReplayInv'
<1> SUFFICES ASSUME ReplayInv, Restart PROVE ReplayInv'
  OBVIOUS
<1>1. PICK found \in BOOLEAN : ifs' = Opened(found)
  BY DEF Restart
<1>2. mode' = "play" /\ game' = Whole(0) /\ UNCHANGED <<written, disk>>
  BY DEF Restart
<1>3. ReplayTypeOK' /\ ReplayTypeOK
  BY <1>1, <1>2 DEF ReplayInv, ReplayTypeOK, Opened
<1>4. Kept' \in Nat
  <2>1. disk' \in Nat
    BY <1>3, FourParts DEF ReplayTypeOK
  <2> QED
    BY <2>1, FourParts, KeptOK DEF Kept
<1>5. ifs'.next = 0 /\ ifs'.eof = FALSE
  BY <1>1 DEF Opened
<1>6. ShowsTheRecord'
  BY <1>2, <1>4, <1>5 DEF ShowsTheRecord, Found, Whole
<1> QED
  BY <1>2, <1>3, <1>5, <1>6 DEF ReplayInv

\* Every step keeps the invariant.
LEMMA ReplayStep == ReplayInv /\ [Next]_vars => ReplayInv'
<1> SUFFICES ASSUME ReplayInv, [Next]_vars PROVE ReplayInv'
  OBVIOUS
<1>1. CASE mode # "gone" /\ (RunReset \/ StopCycle)
  BY <1>1, RunResetOK, StopCycleOK
<1>2. CASE mode # "gone" /\ (RunTick \/ RunCycle)
  <2>1. UNCHANGED mode /\ mpc' # "free" /\ ServerStep
    BY <1>2 DEF RunTick, RunCycle, At
  <2> QED
    BY <1>2, <2>1, ServerStepOK
<1>3. CASE ReadReset \/ ClearReset \/ ReadTick \/ ClearTick \/ SkipCycle \/ Continue \/ StopTick
  <2>1. /\ UNCHANGED mode /\ UNCHANGED Files
        /\ mpc' = "free" => ~Over
    BY <1>3 DEF ReadReset, ClearReset, ReadTick, ClearTick, SkipCycle, Continue, StopTick,
                At, Ended
  <2> QED
    BY <2>1, QuietOK
<1>4. CASE Request \/ UNCHANGED vars
  <2>1. UNCHANGED <<mode, mpc>> /\ UNCHANGED Files
    BY <1>4 DEF Request, vars, Files
  <2> QED
    BY <2>1, QuietOK
<1>5. CASE Kill
  <2>1. mode' = "gone" /\ UNCHANGED <<game, written, disk, ifs>>
    BY <1>5 DEF Kill, Files
  <2> QED
    BY <2>1 DEF ReplayInv, ReplayTypeOK, ShowsTheRecord, Found
<1>6. CASE Restart
  BY <1>6, RestartOK
<1> QED
  BY <1>1, <1>2, <1>3, <1>4, <1>5, <1>6 DEF Next, MainStep

\* The invariant of recording and playback.
THEOREM ReplayInductive == Spec => []ReplayInv
  BY ReplayInit, ReplayStep, PTL DEF Spec

\* What is shown was recorded, in order and unmixed, whatever the file was cut to; and a
\* finished game is in the file as soon as mainLoop has found it to be over.
THEOREM ShowsTheRecordHolds == Spec => []ShowsTheRecord
<1>1. ReplayInv => ShowsTheRecord
  BY DEF ReplayInv
<1> QED
  BY <1>1, ReplayInductive, PTL

==============================================================================
