-------------------------- MODULE FrameLoopClient --------------------------
(***************************************************************************)
(* The frame runner under every caller and every set of callbacks: step and *)
(* drain are called in any order, and compose, submit, wait_gpu and         *)
(* wait_videoout return success or failure, or the wrong token, as they     *)
(* please.  Whatever they do, the runner must not lose track of a frame the *)
(* devices may still own.                                                   *)
(***************************************************************************)
EXTENDS FrameLoop

(* What wait_videoout may claim to have observed: no token, one issued so   *)
(* far, or one never issued.                                                *)
Observable == {0} \cup FirstToken .. next_token

(* The callbacks and the runner's own steps: everything but a new call.     *)
InCall ==
  \/ Internal
  \/ PrepareOk
  \/ PrepareSceneFails
  \/ \E clock_ok \in BOOLEAN : PrepareRefused(clock_ok)
  \/ \E ok \in BOOLEAN :
       \/ ComposeReturns(ok)
       \/ SubmitReturns(ok)
       \/ WaitGpuReturns(ok)
       \/ \E observed \in Observable, counted \in BOOLEAN :
            WaitVideoOutReturns(ok, observed, counted)

Init == LoopInit

Next == StepCall \/ DrainCall \/ RejectedCall \/ InCall

Spec == Init /\ [][Next]_loopVars

(* Callbacks return: each of the native ones is bounded by a deadline.      *)
FairSpec == Spec /\ WF_loopVars(InCall)
-----------------------------------------------------------------------------
Places == {"idle", "wait_gpu", "wait_videoout", "prepare", "compose", "submit",
           "oldest"}

Indices == 0 .. (MaxToken - FirstToken + 1)

TypeOK ==
  /\ T!TrackerTypeOK
  /\ next_frame_index \in Indices
  /\ pending \in [Buffers -> [token : {0} \cup T!Tokens, frame_index : Indices,
                              active : BOOLEAN]]
  /\ active_frames \in 0 .. 2
  /\ result \in [state : RunStates, frames_completed : Indices,
                 max_frames_in_flight : 0 .. 2, failed_frame : Indices,
                 retained_token : {0} \cup T!Tokens]
  /\ call \in [op : {"none", "step", "drain"}, at : Places, slot : Buffers]
  /\ rc \in {-1, 0, 1, 2}
  /\ samples \in Seq(Indices \X BOOLEAN)

(* The runner and the tracker agree at every callback: a slot is pending    *)
(* exactly while the tracker holds it as submitted and not yet complete,    *)
(* under the same token (gears_frame_runner.c:55, "so both state machines   *)
(* remain consistent"), and a frame being composed is still the one that    *)
(* mark_submitted will accept.                                              *)
SlotsAgree ==
  \A b \in Buffers :
    /\ pending[b].active <=> slots[b].phase = "SUBMITTED" /\ ~T!CanReuse(b)
    /\ pending[b].active => slots[b].token = pending[b].token
    /\ At("compose") /\ call.slot = b => T!Holds(b, "PREPARED", pending[b].token)

(* No frame is lost or counted twice while the run goes on: every prepared  *)
(* frame is being composed, is in flight, or has completed, and the counter *)
(* that ends drain's loop is the number of pending slots.                   *)
FramesAccountedFor ==
  /\ active_frames = Cardinality(Active)
  /\ result.state = "ACTIVE" =>
       next_frame_index = result.frames_completed + active_frames
                            + (IF At("compose") THEN 1 ELSE 0)

(* The three ways a run ends mean what they say to the caller, who gives    *)
(* resources back or keeps them alive on their word (main.c:755,            *)
(* docs/ARCHITECTURE.md:93).                                                *)
(*   POST_SUBMIT_RETAIN names a token that is still in flight.              *)
RetainedTokenIsInFlight ==
  result.state = "POST_SUBMIT_RETAIN" =>
    \E b \in Active : pending[b].token = result.retained_token

(*   PRE_SUBMIT_FAILURE means that the devices own nothing.                 *)
PreSubmitFailureIsIdle ==
  result.state = "PRE_SUBMIT_FAILURE" =>
    Active = {} /\ \A b \in Buffers : T!CanReuse(b)

(*   COMPLETE means that every prepared frame is retired and both buffers   *)
(*   are free, the state in which main.c unmaps them.                       *)
CompleteIsDrained ==
  result.state = "COMPLETE" =>
    /\ result.frames_completed = next_frame_index
    /\ \A b \in Buffers : T!CanReuse(b)

(* Each ending of a run is sound: see the three above.                      *)
EndingsAreSound ==
  RetainedTokenIsInFlight /\ PreSubmitFailureIsIdle /\ CompleteIsDrained

(* The telemetry callback sees each frame at most once, in order, an error  *)
(* only as the last thing it sees, and a completed run always ends with its *)
(* final frame (docs/ARCHITECTURE.md, "every error and the final summary"). *)
SamplesInOrder ==
  /\ \A i, j \in DOMAIN samples : i < j =>
       samples[i][1] < samples[j][1] /\ ~samples[i][2]
  /\ result.state = "COMPLETE" /\ next_frame_index # 0 =>
       samples # <<>> /\ samples[Len(samples)] = <<next_frame_index - 1, FALSE>>

(* The runner implements FramesInFlight: two buffers deep, in order, and    *)
(* frozen by a failure.                                                     *)
Flight == INSTANCE FramesInFlight
  WITH Depth     <- 2,
       inflight  <- {pending[b].frame_index : b \in Active},
       completed <- result.frames_completed,
       outcome   <- IF result.state = "ACTIVE" THEN "running"
                    ELSE IF result.state = "COMPLETE" THEN "complete"
                    ELSE "failed"

ImplementsFramesInFlight == Flight!Spec

(* A drain ends, by completing or by failing, once its callbacks return.    *)
DrainReturns == call.op = "drain" ~> At("idle")
=============================================================================
