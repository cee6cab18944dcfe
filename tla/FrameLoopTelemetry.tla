------------------------ MODULE FrameLoopTelemetry ------------------------
(***************************************************************************)
(* The frame runner with its telemetry: FrameLoopClient leaves open whether *)
(* the statistics take a frame, here src/gears_telemetry.c decides it, with *)
(* words so small that every counter and every sum reaches its limit in the *)
(* middle of a run.                                                         *)
(*                                                                          *)
(* The times of a frame are chosen when it is retired, the only place that  *)
(* reads them; the first has no interval since a previous one.              *)
(***************************************************************************)
EXTENDS FrameLoopClient, Bags, FiniteSetsExt

CONSTANTS
  MaxWord,   (* UINT64_MAX, in bounded runs small enough to be reached      *)
  Timings,   (* bound: the times that one frame may take                    *)
  Budget     (* GearsFrameRunnerInput.present_interval_budget_ns            *)

S == INSTANCE Telemetry

ASSUME TimingAssumption ==
  /\ MaxWord \in Nat \ {0} /\ Budget \in Nat
  /\ Timings \subseteq [S!Times -> 0 .. MaxWord]

VARIABLES
  stats,      (* GearsFrameLoop.stats                                       *)
  report,     (* GearsFrameLoop.result.telemetry, what the callback is shown*)
  recorded    (* ghost: the bag of the times of all completed frames        *)

telemetryVars == <<stats, report, recorded>>

vars == <<loopVars, telemetryVars>>

TelemetryInit ==
  /\ Init
  /\ stats = S!Reset /\ report = S!Snapshot(S!Reset)
  /\ recorded = EmptyBag

-----------------------------------------------------------------------------
Interval(time) == time["present_interval"]

OverBudget(time) == Budget # 0 /\ Interval(time) > Budget

(* What the clock readings of retire() amount to.                           *)
Measured(time) ==
  IF result.frames_completed = 0
    THEN [time EXCEPT !["present_interval"] = 0] ELSE time

(* The end of retire(): the frame is shown, and recorded if it can be.      *)
FrameRetired(time) ==
  LET over == OverBudget(time)
      counted == S!CanRecord(stats, time, over)
  IN  /\ \E observed \in Observable : WaitVideoOutReturns(TRUE, observed, counted)
      /\ active_frames' < active_frames
      /\ stats' = IF counted THEN S!Recorded(stats, time, over)
                             ELSE S!ErrorRecorded(stats)
      /\ report' = S!Snapshot(stats')
      /\ recorded' = IF counted THEN recorded (+) SetToBag({time}) ELSE recorded

(* Every other step: a failure is recorded, once, and snapshot() runs where *)
(* a sample is due.                                                         *)
NoFrameRetired ==
  /\ active_frames' >= active_frames
  /\ stats' = IF result.state = "ACTIVE" /\ result'.state \notin {"ACTIVE", "COMPLETE"}
                THEN S!ErrorRecorded(stats) ELSE stats
  /\ report' = IF samples' # samples THEN S!Snapshot(stats') ELSE report
  /\ UNCHANGED recorded

TelemetryInCall ==
  \/ InCall /\ NoFrameRetired
  \/ \E time \in Timings : FrameRetired(Measured(time))

TelemetryNext ==
  \/ TelemetryInCall
  \/ (StepCall \/ DrainCall \/ RejectedCall) /\ NoFrameRetired

TelemetrySpec == TelemetryInit /\ [][TelemetryNext]_vars

(* Callbacks return: each of the native ones is bounded by a deadline.      *)
TelemetryFairSpec == TelemetrySpec /\ WF_vars(TelemetryInCall)
-----------------------------------------------------------------------------
(* The completed frames, those that came within an interval of another one, *)
(* and those that came too late; how many a set of them stands for, and     *)
(* what they took altogether.                                               *)
Frames == BagToSet(recorded)
Paced  == {time \in Frames : Interval(time) # 0}
Late   == {time \in Frames : OverBudget(time)}

Count(set) == SumFunctionOnSet(recorded, set)

Total(t) == SumFunctionOnSet([time \in Frames |-> recorded[time] * time[t]],
                             Frames)

(* Whatever the times and wherever a limit is hit, the numbers reported are *)
(* those of the frames completed, as computed from the whole history with   *)
(* integers that have no limit: a refused frame leaves no trace in them,    *)
(* and a run that failed reports exactly one error (src/gears_telemetry.c   *)
(* "record_frame", docs/TELEMETRY.md, the summary line).                    *)
ReportIsTrue ==
  LET samples_of(t) == Count(IF t = "present_interval" THEN Paced ELSE Frames)
      mean(t) == IF samples_of(t) = 0 THEN 0 ELSE Total(t) \div samples_of(t)
  IN  report =
        [frames_completed |-> result.frames_completed,
         present_intervals |-> Count(Paced),
         present_interval_over_budget |-> Count(Late),
         errors |-> IF result.state \in {"ACTIVE", "COMPLETE"} THEN 0 ELSE 1,
         max |-> [t \in S!Times |-> Max({0} \cup {time[t] : time \in Frames})],
         average |-> [t \in S!Times |-> mean(t)]]
=============================================================================
