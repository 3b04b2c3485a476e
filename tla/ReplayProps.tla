----------------------------- MODULE ReplayProps -----------------------------
(***************************************************************************)
(* What is claimed of Replay.                                              *)
(***************************************************************************)
EXTENDS Replay

\* Records that are in the file from end to end.
Kept == disk \div PartCnt

\* What is shown was recorded.  A game that mainLoop has found to be over is in the file
\* to its last record, however the server ends after that.  A playback shows the records
\* in their order and none of them mixed with another, but for the rest of a record that
\* the file ends with, which is shown after all others; and the stream is not given up
\* before everything that is in the file was shown.
ShowsTheRecord ==
  /\ mode = "record" =>
       /\ game = Whole(Len(written))
       /\ mpc = "free" /\ Over => Kept = Len(written)
  /\ mode = "play" =>
       /\ ifs.next <= Kept
       /\ ifs.fail => ~Found \/ ifs.next = Kept
       /\ \/ game = Whole(ifs.next)
          \/ ifs.fail /\ ifs.next = Kept /\ disk % PartCnt # 0

\* Why: an inductive invariant.  The name of a file that was not found is not found later
\* either, and nothing was read from it.
ReplayTypeOK ==
  /\ mode \in {"record", "gone", "play"}
  /\ written \in Seq(Standings)
  /\ disk \in 0 .. PartCnt * Len(written)
  /\ ifs \in [next : Nat, eof : BOOLEAN, fail : BOOLEAN]

ReplayInv ==
  /\ ReplayTypeOK
  /\ ShowsTheRecord
  /\ mode = "record" => ifs = Opened(TRUE)
  /\ ~Found => ifs.next = 0

\* A playback that ticks stops of itself: the ticking is turned off at the end of a
\* game or when the file has ended, although it takes the stream two reads behind the end
\* to fail, and although observers may start it again and again.
PlaybackStops == mode = "play" /\ flag.cycle ~> ~flag.cycle \/ mode = "gone"

==============================================================================
