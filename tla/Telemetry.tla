----------------------------- MODULE Telemetry -----------------------------
(***************************************************************************)
(* The accumulators of src/gears_telemetry.c as operators on the record     *)
(* they keep.  Times are words of 0 .. MaxWord.  The four times of a frame  *)
(* share one shape, so their totals and maxima are functions on Times.  A   *)
(* definition named after another one with a suffix is a plausible bug.     *)
(***************************************************************************)
EXTENDS Naturals

CONSTANT MaxWord        (* UINT64_MAX                                       *)

Times == {"compose", "gpu_wait", "video_wait", "present_interval"}

Word(n) == n % (MaxWord + 1)

Reset ==
  [frames_completed |-> 0, present_intervals |-> 0,
   present_interval_over_budget |-> 0, errors |-> 0,
   total |-> [t \in Times |-> 0], max |-> [t \in Times |-> 0]]

(* gears_telemetry_record_frame refuses a frame of these times, before it   *)
(* changes anything, if a counter or a sum cannot take it.                  *)
CanRecordUncheckedVideo(stats, time, over_budget) ==
  /\ stats.frames_completed # MaxWord
  /\ time["present_interval"] # 0 => stats.present_intervals # MaxWord
  /\ over_budget => stats.present_interval_over_budget # MaxWord
  /\ \A t \in Times \ {"video_wait"} : time[t] <= MaxWord - stats.total[t]

CanRecord(stats, time, over_budget) ==
  /\ stats.frames_completed # MaxWord
  /\ time["present_interval"] # 0 => stats.present_intervals # MaxWord
  /\ over_budget => stats.present_interval_over_budget # MaxWord
  /\ \A t \in Times : time[t] <= MaxWord - stats.total[t]

Recorded(stats, time, over_budget) ==
  LET up(counter, yes) == IF yes THEN Word(counter + 1) ELSE counter
  IN  [stats EXCEPT
         !.frames_completed = up(@, TRUE),
         !.present_intervals = up(@, time["present_interval"] # 0),
         !.present_interval_over_budget = up(@, over_budget),
         !.total = [t \in Times |-> Word(@[t] + time[t])],
         !.max = [t \in Times |-> IF @[t] > time[t] THEN @[t] ELSE time[t]]]

(* gears_telemetry_record_error: the counter saturates.                     *)
ErrorRecorded(stats) ==
  [stats EXCEPT !.errors = IF @ = MaxWord THEN @ ELSE @ + 1]

(* gears_telemetry_snapshot                                                 *)
Snapshot(stats) ==
  LET samples(t) == IF t = "present_interval" THEN stats.present_intervals
                                              ELSE stats.frames_completed
  IN  [frames_completed |-> stats.frames_completed,
       present_intervals |-> stats.present_intervals,
       present_interval_over_budget |-> stats.present_interval_over_budget,
       errors |-> stats.errors, max |-> stats.max,
       average |-> [t \in Times |-> IF samples(t) = 0 THEN 0
                                    ELSE stats.total[t] \div samples(t)]]
=============================================================================
