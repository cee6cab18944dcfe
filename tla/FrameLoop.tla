----------------------------- MODULE FrameLoop -----------------------------
(***************************************************************************)
(* The frame runner of src/gears_frame_runner.c over the animation of       *)
(* src/gears_animation.c and the ownership tracker.                         *)
(*                                                                          *)
(* gears_frame_loop_step and gears_frame_loop_drain are cut where they call *)
(* out: `call` is where the running call stands, and each action takes it   *)
(* from the return of one callback to the next one.  What a callback        *)
(* returns is a parameter of the action, so that this module can be checked *)
(* against callbacks that return anything, and GearsPipeline can put the    *)
(* native callbacks in their place.  As in FrameTracker, a definition named *)
(* after another one with a suffix is a plausible bug in it and takes no    *)
(* part in the specification.                                               *)
(***************************************************************************)
EXTENDS Integers, Sequences, FiniteSets

CONSTANTS FirstToken, MaxToken,
          SamplePeriod   (* 60 in gears_telemetry_should_sample             *)

ASSUME LoopAssumption ==
  /\ FirstToken \in Nat \ {0} /\ MaxToken \in Nat /\ FirstToken <= MaxToken
  /\ SamplePeriod \in Nat \ {0}

Buffers == {0, 1}        (* GEARS_FRAME_BUFFER_COUNT                        *)

VARIABLES
  slots, next_token,     (* the tracker, GearsAnimation.ownership           *)
  next_frame_index,      (* GearsAnimation.next_frame_index                 *)
  pending,               (* GearsFrameLoop.pending                          *)
  active_frames,         (* GearsFrameLoop.active_frames                    *)
  result,                (* GearsFrameLoop.result                           *)
  call,                  (* the call under way: which, where, on which slot *)
  rc,                    (* what the last call returned                     *)
  samples                (* the <<frame, error>> the telemetry callback got *)

T == INSTANCE FrameTracker

loopVars == <<slots, next_token, next_frame_index, pending, active_frames,
              result, call, rc, samples>>

RunStates == {"ACTIVE", "COMPLETE", "PRE_SUBMIT_FAILURE",
              "POST_SUBMIT_RETAIN", "TELEMETRY_FAILURE"}

Idle == [op |-> "none", at |-> "idle", slot |-> 0]

(* gears_frame_loop_init with a valid input                                 *)
LoopInit ==
  /\ T!TrackerInit
  /\ next_frame_index = 0
  /\ pending = [b \in Buffers |-> [token |-> 0, frame_index |-> 0,
                                   active |-> FALSE]]
  /\ active_frames = 0
  /\ result = [state |-> "ACTIVE", frames_completed |-> 0,
               max_frames_in_flight |-> 0, failed_frame |-> 0,
               retained_token |-> 0]
  /\ call = Idle
  /\ rc = 0
  /\ samples = <<>>

-----------------------------------------------------------------------------
Active == {b \in Buffers : pending[b].active}

At(p) == call.at = p

Goto(p) == call' = [call EXCEPT !.at = p]

Return(value) == call' = Idle /\ rc' = value

(* gears_telemetry_should_sample                                            *)
ShouldSample(frame, error) ==
  error \/ frame = 0 \/ (frame + 1) % SamplePeriod = 0

(* snapshot(): the telemetry callback runs on sampled frames.               *)
Sample(frame, error, force) ==
  samples' = IF force \/ ShouldSample(frame, error)
               THEN Append(samples, <<frame, error>>) ELSE samples

(* retain_failure(): nothing is released, the failing slot's token is named.*)
RetainFailure(b, frame) ==
  /\ result' = [result EXCEPT !.state = "POST_SUBMIT_RETAIN",
                              !.failed_frame = frame,
                              !.retained_token = pending[b].token]
  /\ Sample(frame, TRUE, FALSE)
  /\ Return(2)

(* prepare or compose failed: a failure before submission only if no other  *)
(* frame is in flight.                                                      *)
FailBeforeSubmitAlone(frame) ==
  /\ result' = [result EXCEPT !.state = "PRE_SUBMIT_FAILURE",
                              !.failed_frame = frame]
  /\ Sample(frame, TRUE, FALSE)
  /\ Return(1)

FailBeforeSubmit(frame) ==
  IF Active # {}
    THEN RetainFailure(CHOOSE b \in Active : \A c \in Active : b <= c, frame)
    ELSE /\ result' = [result EXCEPT !.state = "PRE_SUBMIT_FAILURE",
                                     !.failed_frame = frame]
         /\ Sample(frame, TRUE, FALSE)
         /\ Return(1)

-----------------------------------------------------------------------------
(* A call on a runner that is not ACTIVE.                                   *)
RejectedCall ==
  /\ At("idle") /\ result.state # "ACTIVE"
  /\ rc' = -1
  /\ UNCHANGED <<slots, next_token, next_frame_index, pending, active_frames,
                 result, call, samples>>

(* gears_frame_loop_step, up to its first callback                          *)
StepCall ==
  /\ At("idle") /\ result.state = "ACTIVE"
  /\ LET slot == next_frame_index % 2
     IN  call' = [op |-> "step", slot |-> slot,
                  at |-> IF pending[slot].active THEN "wait_gpu" ELSE "prepare"]
  /\ UNCHANGED <<slots, next_token, next_frame_index, pending, active_frames,
                 result, rc, samples>>

DrainCall ==
  /\ At("idle") /\ result.state = "ACTIVE"
  /\ call' = [op |-> "drain", slot |-> 0, at |-> "oldest"]
  /\ UNCHANGED <<slots, next_token, next_frame_index, pending, active_frames,
                 result, rc, samples>>

(* The head of drain's loop, while frames are in flight.                    *)
DrainOldestFirstSlot ==
  /\ At("oldest") /\ active_frames # 0
  /\ call' = [op |-> "drain", at |-> "wait_gpu",
              slot |-> CHOOSE b \in Active : \A c \in Active : b <= c]
  /\ UNCHANGED <<slots, next_token, next_frame_index, pending, active_frames,
                 result, rc, samples>>

DrainOldest ==
  /\ At("oldest") /\ active_frames # 0
  /\ call' = [op |-> "drain", at |-> "wait_gpu",
              slot |-> CHOOSE b \in Active : \A c \in Active :
                         pending[b].frame_index <= pending[c].frame_index]
  /\ UNCHANGED <<slots, next_token, next_frame_index, pending, active_frames,
                 result, rc, samples>>

(* The end of drain: every frame is retired.                                *)
DrainCompleteAlwaysForced ==
  /\ At("oldest") /\ active_frames = 0
  /\ result' = [result EXCEPT !.state = "COMPLETE"]
  /\ Sample(next_frame_index - 1, FALSE, result.frames_completed # 0)
  /\ Return(0)
  /\ UNCHANGED <<slots, next_token, next_frame_index, pending, active_frames>>

DrainCompleteNoReturn ==
  /\ At("oldest") /\ active_frames = 0
  /\ result' = [result EXCEPT !.state = "COMPLETE"]
  /\ UNCHANGED <<slots, next_token, next_frame_index, pending, active_frames,
                 call, rc, samples>>

DrainComplete ==
  /\ At("oldest") /\ active_frames = 0
  /\ result' = [result EXCEPT !.state = "COMPLETE"]
  /\ LET final == next_frame_index - 1
     IN  IF result.frames_completed # 0 /\ ~ShouldSample(final, FALSE)
           THEN Sample(final, FALSE, TRUE)
           ELSE UNCHANGED samples
  /\ Return(0)
  /\ UNCHANGED <<slots, next_token, next_frame_index, pending, active_frames>>

-----------------------------------------------------------------------------
(* retire(), first half: the wait_gpu callback returns.                     *)
WaitGpuReturns(ok) ==
  /\ At("wait_gpu")
  /\ LET b == call.slot
         p == pending[b]
     IN  IF ok /\ T!Holds(b, "SUBMITTED", p.token)
           THEN /\ T!MarkGpuComplete(b, p.token)
                /\ Goto("wait_videoout")
                /\ UNCHANGED <<result, rc, samples>>
           ELSE /\ RetainFailure(b, p.frame_index)
                /\ UNCHANGED <<slots, next_token>>
  /\ UNCHANGED <<next_frame_index, pending, active_frames>>

(* retire(), second half: wait_videoout returns the token it observed, the  *)
(* runner's slot is released, and the frame is accounted for.  `counted` is *)
(* false when a telemetry counter would overflow.                           *)
Account(b, counted) ==
  LET frame == pending[b].frame_index
  IN  IF counted
        THEN /\ result' = [result EXCEPT !.frames_completed = @ + 1]
             /\ Sample(frame, FALSE, FALSE)
             /\ Goto(IF call.op = "step" THEN "prepare" ELSE "oldest")
             /\ UNCHANGED rc
        ELSE /\ result' = [result EXCEPT !.state = "TELEMETRY_FAILURE",
                                         !.failed_frame = frame]
             /\ Sample(frame, TRUE, FALSE)
             /\ Return(IF call.op = "step" THEN 1 ELSE -1)

WaitVideoOutReturnsLateRelease(ok, observed, counted) ==
  /\ At("wait_videoout")
  /\ LET b == call.slot
     IN  IF ok /\ T!Holds(b, "SUBMITTED", observed)
           THEN /\ T!MarkVideoOutComplete(b, observed)
                /\ pending' = [pending EXCEPT ![b].active = ~counted]
                /\ active_frames' = active_frames - (IF counted THEN 1 ELSE 0)
                /\ Account(b, counted)
           ELSE /\ RetainFailure(b, pending[b].frame_index)
                /\ UNCHANGED <<slots, next_token, pending, active_frames>>
  /\ UNCHANGED next_frame_index

WaitVideoOutReturns(ok, observed, counted) ==
  /\ At("wait_videoout")
  /\ LET b == call.slot
     IN  IF ok /\ T!Holds(b, "SUBMITTED", observed)
           THEN /\ T!MarkVideoOutComplete(b, observed)
                /\ pending' = [pending EXCEPT ![b].active = FALSE]
                /\ active_frames' = active_frames - 1
                /\ Account(b, counted)
           ELSE /\ RetainFailure(b, pending[b].frame_index)
                /\ UNCHANGED <<slots, next_token, pending, active_frames>>
  /\ UNCHANGED next_frame_index

-----------------------------------------------------------------------------
(* gears_animation_prepare succeeds.                                        *)
PrepareOkSkipsIndex ==
  /\ At("prepare")
  /\ T!Begin(call.slot)
  /\ pending' = [pending EXCEPT ![call.slot].token = next_token,
                                ![call.slot].frame_index = next_frame_index]
  /\ next_frame_index' =
       IF Active = {} THEN next_frame_index + 1 ELSE next_frame_index + 2
  /\ Goto("compose")
  /\ UNCHANGED <<active_frames, result, rc, samples>>

PrepareOk ==
  /\ At("prepare")
  /\ T!Begin(call.slot)
  /\ pending' = [pending EXCEPT ![call.slot].token = next_token,
                                ![call.slot].frame_index = next_frame_index]
  /\ next_frame_index' = next_frame_index + 1
  /\ Goto("compose")
  /\ UNCHANGED <<active_frames, result, rc, samples>>

(* It fails before it touches the tracker (the clock is before start_ns) or *)
(* because the slot or the token range is exhausted.                        *)
PrepareRefused(clock_ok) ==
  /\ At("prepare")
  /\ ~clock_ok \/ ~T!CanBegin(call.slot)
  /\ FailBeforeSubmit(next_frame_index)
  /\ UNCHANGED <<slots, next_token, next_frame_index, pending, active_frames>>

(* It fails in gears_build_scene: the slot is cancelled, the token is spent.*)
PrepareSceneFails ==
  /\ At("prepare")
  /\ T!CanBegin(call.slot)
  /\ slots' = [slots EXCEPT ![call.slot] = T!EmptySlot]
  /\ next_token' = next_token + 1
  /\ pending' = [pending EXCEPT ![call.slot].token = next_token,
                                ![call.slot].frame_index = next_frame_index]
  /\ FailBeforeSubmit(next_frame_index)
  /\ UNCHANGED <<next_frame_index, active_frames>>

(* The compose callback returns.  On success the frame counts as submitted  *)
(* before the submit callback is entered.                                   *)
ComposeReturns(ok) ==
  /\ At("compose")
  /\ LET b == call.slot
         t == pending[b].token
     IN  IF ok
           THEN /\ T!MarkSubmitted(b, t)
                /\ pending' = [pending EXCEPT ![b].active = TRUE]
                /\ active_frames' = active_frames + 1
                /\ result' = [result EXCEPT !.max_frames_in_flight =
                                IF active_frames + 1 > @ THEN active_frames + 1
                                                         ELSE @]
                /\ Goto("submit")
                /\ UNCHANGED <<rc, samples>>
           ELSE /\ T!CancelPreSubmit(b, t)
                /\ FailBeforeSubmit(pending[b].frame_index)
                /\ UNCHANGED <<pending, active_frames>>
  /\ UNCHANGED next_frame_index

(* The submit callback returns, and with it the step.                       *)
SubmitReturns(ok) ==
  /\ At("submit")
  /\ IF ok THEN Return(0) /\ UNCHANGED <<result, samples>>
           ELSE RetainFailure(call.slot, pending[call.slot].frame_index)
  /\ UNCHANGED <<slots, next_token, next_frame_index, pending, active_frames>>

(* The runner's own work, with no callback to wait for.                     *)
Internal == DrainOldest \/ DrainComplete
=============================================================================
