-------------------------------- MODULE Replay --------------------------------
(***************************************************************************)
(* Recording and playback: mainLoop of rts_service_impl.cpp with its two   *)
(* file streams.  A server that is started without --replay appends its    *)
(* game to a file after every Reset and every step; nothing ends it but    *)
(* being killed, and what the stream has not written yet is lost.  A       *)
(* server that is started with --replay shows the records of the file.     *)
(*                                                                         *)
(* The observers' requests are the flags they set, at any time.  Who holds *)
(* stateLock, and what the streams send, is in RtsService.                 *)
(***************************************************************************)
EXTENDS Integers, Sequences

CONSTANT MaxRecords   \* states recorded (a bound of the model only)

ASSUME RecordsAssumption == MaxRecords \in Nat

VARIABLES
  mode,     \* "record"; "gone", when the process was killed; "play"
  mpc,      \* where mainLoop is
  flag,     \* [reset, tick, cycle]: reset, tick, tickingCycle = TICKING_INTERVAL;
            \* half: an observer's RESET has stopped the ticking and not yet set reset
  game,     \* GetGameState(0), its parts as numbers of the records they are from
  written,  \* what was given to ofs: for each record, how its game stood
  disk,     \* parts of records that have arrived in the file
  ifs       \* [next, eof, fail]: records read, and the state bits of the stream

vars == <<mode, mpc, flag, game, written, disk, ifs>>

\* A record is written and read in this order; the first bytes stand for the size of
\* objMap.  A file is as long as its number of parts.
Parts == <<"size", "objMap", "counts", "rest">>
PartCnt == Len(Parts)

Garbage == -1

\* The state of record n; 0 is the state that Init leaves.
Whole(n) == [objMap |-> n, counts |-> n, rest |-> n]

\* How a game stands: no Reset has been made yet, it goes on, or a side has lost all its
\* buildings.  Before the first Reset both sides are said to have one building.
Standings == {"empty", "on", "over"}

\* A buildingCnt is 0.
Over == game.counts \in DOMAIN written /\ written[game.counts] = "over"

NoFlags == [reset |-> FALSE, tick |-> FALSE, cycle |-> FALSE, half |-> FALSE]

Init ==
  /\ mode = "record" /\ mpc = "free"
  /\ flag = NoFlags
  /\ game = Whole(0)
  /\ written = << >> /\ disk = 0
  /\ ifs = [next |-> 0, eof |-> FALSE, fail |-> FALSE]

-----------------------------------------------------------------------------
(* The file *)

\* ofs << GetGameState(0): the buffer of the stream writes as much as it likes.
Record(standing) ==
  /\ Len(written) < MaxRecords
  /\ written' = Append(written, standing)
  /\ game' = Whole(Len(written'))
  /\ disk' \in disk .. PartCnt * Len(written')
  /\ UNCHANGED ifs

\* Mutant: the buffer is left to itself.
NoFlush == UNCHANGED disk

Flush == disk' = IF mode = "record" THEN PartCnt * Len(written) ELSE disk

\* operator>> at the end of the file: what is not there is not read, objMap being
\* cleared before its entries are.
Torn(n, parts) ==
  [objMap |-> IF parts < 2 THEN Garbage ELSE n,
   counts |-> IF parts < 3 THEN game.counts ELSE n,
   rest   |-> game.rest]

\* StepReplay, on stream s.  peek sets eof at the end of the file, and fail when eof is
\* set already.
StepReplay(s) ==
  LET left == disk - PartCnt * s.next IN
  /\ game' = IF s.fail \/ left = 0 THEN game
             ELSE IF left >= PartCnt THEN Whole(s.next + 1)
             ELSE Torn(s.next + 1, left)
  /\ ifs' = IF s.fail THEN s
            ELSE IF left = 0 THEN [s EXCEPT !.eof = TRUE, !.fail = s.eof]
            ELSE IF left >= PartCnt THEN [s EXCEPT !.next = @ + 1]
            ELSE [s EXCEPT !.eof = TRUE, !.fail = TRUE]
  /\ UNCHANGED <<written, disk>>

\* InitReplayStream: opening the file clears the state bits, unless there is no file.
Opened(found) == [next |-> 0, eof |-> FALSE, fail |-> ~found]

\* The file was found when the server was started.
Found == ~ifs.fail \/ ifs.eof

-----------------------------------------------------------------------------
(* mainLoop *)

At(from, to) == mpc = from /\ mpc' = to /\ UNCHANGED mode

Files == <<game, written, disk, ifs>>

ReadReset ==
  /\ At("free", IF flag.reset THEN "resetting" ELSE "tick")
  /\ UNCHANGED flag /\ UNCHANGED Files

RunReset ==
  /\ At("resetting", "clearReset")
  /\ IF mode = "play" THEN StepReplay(Opened(Found)) ELSE Record("on")
  /\ UNCHANGED flag

ClearReset ==
  /\ At("clearReset", "tick")
  /\ flag' = [flag EXCEPT !.reset = FALSE]
  /\ UNCHANGED Files

ReadTick ==
  /\ At("tick", IF flag.tick THEN "stepping" ELSE "cycle")
  /\ UNCHANGED flag /\ UNCHANGED Files

\* How the recorded game may stand after a step: it may end, and then it does not go on;
\* and on an empty board nothing is counted.
StandsNext ==
  LET last == Len(written) IN
  IF last = 0 THEN {"empty"}
  ELSE IF written[last] = "on" THEN {"on", "over"} ELSE {written[last]}

ServerStep ==
  IF mode = "play" THEN StepReplay(ifs)
  ELSE \E standing \in StandsNext : Record(standing)

RunTick ==
  /\ At("stepping", "clearTick")
  /\ ServerStep
  /\ UNCHANGED flag

ClearTick ==
  /\ At("clearTick", "cycle")
  /\ flag' = [flag EXCEPT !.tick = FALSE]
  /\ UNCHANGED Files

\* 200 ms have passed since the last tick of the clock.
RunCycle ==
  /\ flag.cycle /\ At("cycle", "over")
  /\ ServerStep
  /\ UNCHANGED flag

SkipCycle ==
  /\ At("cycle", "over")
  /\ UNCHANGED flag /\ UNCHANGED Files

\* Mutant: mainLoop stops at the end of the game only.
GameOver == Over

\* A replay that cannot be read ends like a game that is over.
Ended == Over \/ ifs.fail

Continue ==
  /\ At("over", "free") /\ ~Ended
  /\ UNCHANGED flag /\ UNCHANGED Files

StopTick ==
  /\ At("over", "stopCycle") /\ Ended
  /\ flag' = [flag EXCEPT !.tick = FALSE]
  /\ UNCHANGED Files

StopCycle ==
  /\ At("stopCycle", "free")
  /\ flag' = [flag EXCEPT !.cycle = FALSE]
  /\ Flush
  /\ UNCHANGED <<game, written, ifs>>

MainStep ==
  /\ mode # "gone"
  /\ \/ ReadReset \/ RunReset \/ ClearReset
     \/ ReadTick \/ RunTick \/ ClearTick
     \/ RunCycle \/ SkipCycle
     \/ Continue \/ StopTick \/ StopCycle

-----------------------------------------------------------------------------
(* The others *)

\* An observer asks for START or STOP, STEP, or RESET, in which two flags are set one
\* after the other.
Request ==
  /\ mode # "gone"
  /\ \/ \E on \in BOOLEAN : flag' = [flag EXCEPT !.cycle = on]
     \/ flag' = [flag EXCEPT !.tick = TRUE]
     \/ ~flag.half /\ flag' = [flag EXCEPT !.cycle = FALSE, !.half = TRUE]
     \/ flag.half /\ flag' = [flag EXCEPT !.reset = TRUE, !.half = FALSE]
  /\ UNCHANGED <<mode, mpc>> /\ UNCHANGED Files

\* The process is killed, or an order throws.
Kill ==
  /\ mode # "gone"
  /\ mode' = "gone"
  /\ UNCHANGED <<mpc, flag>> /\ UNCHANGED Files

\* The server is started with --replay, with the name of the file or a wrong one.
Restart ==
  /\ mode = "gone"
  /\ mode' = "play" /\ mpc' = "free"
  /\ flag' = NoFlags
  /\ game' = Whole(0)
  /\ \E found \in BOOLEAN : ifs' = Opened(found)
  /\ UNCHANGED <<written, disk>>

Next == MainStep \/ Request \/ Kill \/ Restart

Spec == Init /\ [][Next]_vars

\* mainLoop runs as long as the process does, and time passes: a clock that is looked
\* at again and again while the ticking is on ticks.
FairSpec == Spec /\ WF_vars(MainStep) /\ SF_vars(mode # "gone" /\ RunCycle)

==============================================================================
