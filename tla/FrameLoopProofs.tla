-------------------------- MODULE FrameLoopProofs --------------------------
(***************************************************************************)
(* The frame runner under arbitrary callers and callbacks, for every token  *)
(* range and sampling period: no frame the devices may own is forgotten.    *)
(*                                                                          *)
(* SlotsAgree and the three claims about terminal states are not inductive: *)
(* what makes them so is where the running call stands (CallConsistent),    *)
(* what its flags say of a slot (SlotFlags), and that the counters add up   *)
(* (Counts).                                                                *)
(***************************************************************************)
EXTENDS FrameLoopClient, FiniteSetTheorems, SequenceTheorems, TLAPS

(* What holds of the slot the runner works on, wherever the call waits.     *)
CallConsistent ==
  /\ At("wait_gpu") \/ At("wait_videoout") =>
       call.op \in {"step", "drain"} /\ pending[call.slot].active
  /\ At("wait_videoout") => slots[call.slot].gpu_complete
  /\ At("prepare") => call.op = "step" /\ ~pending[call.slot].active
  /\ At("compose") =>
       /\ call.op = "step"
       /\ ~pending[call.slot].active
       /\ T!Holds(call.slot, "PREPARED", pending[call.slot].token)
  /\ At("submit") => call.op = "step" /\ pending[call.slot].active
  /\ At("oldest") => call.op = "drain"
  /\ ~At("idle") => result.state = "ACTIVE"

(* Only the slot being composed is prepared, with both reports still to     *)
(* come; a slot in flight has not been reported shown, since the report     *)
(* releases it in the same step.                                            *)
SlotFlags ==
  \A b \in Buffers :
    /\ slots[b].phase = "PREPARED" =>
         /\ At("compose") /\ call.slot = b
         /\ ~slots[b].gpu_complete /\ ~slots[b].videoout_complete
    /\ pending[b].active => ~slots[b].videoout_complete

InFlightCount ==
  (IF pending[0].active THEN 1 ELSE 0) + (IF pending[1].active THEN 1 ELSE 0)

(* Every frame index was paid for with a token, and no frame is lost.       *)
Counts ==
  /\ next_frame_index + FirstToken <= next_token
  /\ active_frames = InFlightCount
  /\ result.frames_completed + active_frames <= next_frame_index
  /\ result.state = "ACTIVE" =>
       next_frame_index = result.frames_completed + active_frames
                            + (IF At("compose") THEN 1 ELSE 0)


IInv ==
  /\ TypeOK
  /\ SlotsAgree
  /\ CallConsistent
  /\ SlotFlags
  /\ Counts
  /\ EndingsAreSound

-----------------------------------------------------------------------------
(* The telemetry callback only ever lengthens the record by one.            *)
LEMMA SampleTyped ==
  ASSUME TypeOK, NEW f \in Indices, NEW e \in BOOLEAN, NEW force \in BOOLEAN,
         Sample(f, e, force)
  PROVE  samples' \in Seq(Indices \X BOOLEAN)
<1> DEFINE S == Indices \X BOOLEAN
<1>1. samples \in Seq(S) /\ <<f, e>> \in S
  BY DEF TypeOK
<1>2. Append(samples, <<f, e>>) \in Seq(S)
  BY <1>1
<1>3. samples' = Append(samples, <<f, e>>) \/ samples' = samples
  BY DEF Sample
<1> QED BY <1>1, <1>2, <1>3

(* gears_frame_loop_init leaves an empty loop: the invariant holds.        *)
LEMMA InitIInv == Init => IInv
<1> SUFFICES ASSUME Init PROVE IInv
  OBVIOUS
<1>1. TypeOK
  BY LoopAssumption
     DEF Init, LoopInit, TypeOK, T!TrackerInit, T!TrackerTypeOK, T!EmptySlot,
         T!Slot, T!Phases, T!Tokens, Indices, RunStates, Places, Idle, Buffers
<1>2. SlotsAgree /\ CallConsistent /\ SlotFlags /\ EndingsAreSound
  BY DEF Init, LoopInit, T!TrackerInit, T!EmptySlot, T!CanReuse, T!Holds, Idle,
         At, SlotsAgree, CallConsistent, SlotFlags, EndingsAreSound,
         RetainedTokenIsInFlight, PreSubmitFailureIsIdle, CompleteIsDrained
<1>3. Counts
  BY LoopAssumption
     DEF Init, LoopInit, T!TrackerInit, Counts, InFlightCount, Idle, At, Buffers
<1> QED BY <1>1, <1>2, <1>3 DEF IInv

(* A step that moves only the call, to a place it may stand at.             *)
LEMMA StepCallIInv == ASSUME IInv, StepCall PROVE IInv'
<1>1. next_frame_index % 2 \in Buffers
  BY DEF IInv, TypeOK, Indices, Buffers
<1>2. TypeOK'
  BY <1>1 DEF IInv, TypeOK, T!TrackerTypeOK, StepCall, Places
<1>3. SlotsAgree' /\ CallConsistent' /\ SlotFlags' /\ Counts' /\ EndingsAreSound'
  BY <1>1 DEF IInv, TypeOK, T!TrackerTypeOK, StepCall, At, SlotsAgree,
     CallConsistent, SlotFlags, Counts, InFlightCount, EndingsAreSound,
     RetainedTokenIsInFlight, PreSubmitFailureIsIdle, CompleteIsDrained, Active,
     T!CanReuse, T!Holds
<1> QED BY <1>2, <1>3 DEF IInv

(* Calling drain on an active loop only opens the call.                    *)
LEMMA DrainCallIInv == ASSUME IInv, DrainCall PROVE IInv'
<1>1. TypeOK'
  BY DEF IInv, TypeOK, T!TrackerTypeOK, DrainCall, Places, Buffers
<1>2. SlotsAgree' /\ CallConsistent' /\ SlotFlags' /\ Counts' /\ EndingsAreSound'
  BY DEF IInv, TypeOK, T!TrackerTypeOK, DrainCall, At, SlotsAgree,
     CallConsistent, SlotFlags, Counts, InFlightCount, EndingsAreSound,
     RetainedTokenIsInFlight, PreSubmitFailureIsIdle, CompleteIsDrained, Active,
     T!CanReuse, T!Holds
<1> QED BY <1>1, <1>2 DEF IInv

(* A call on a loop that has ended only returns an error.                  *)
LEMMA RejectedCallIInv == ASSUME IInv, RejectedCall PROVE IInv'
<1>1. TypeOK'
  BY DEF IInv, TypeOK, T!TrackerTypeOK, RejectedCall
<1>2. SlotsAgree' /\ CallConsistent' /\ SlotFlags' /\ Counts' /\ EndingsAreSound'
  BY DEF IInv, RejectedCall, At, SlotsAgree,
     CallConsistent, SlotFlags, Counts, InFlightCount, EndingsAreSound,
     RetainedTokenIsInFlight, PreSubmitFailureIsIdle, CompleteIsDrained, Active,
     T!CanReuse, T!Holds
<1> QED BY <1>1, <1>2 DEF IInv

-----------------------------------------------------------------------------
(* The two CHOOSEs: a nonempty set of slots has a first and an oldest one.  *)
LEMMA FirstActive ==
  ASSUME Active # {}
  PROVE  (CHOOSE b \in Active : \A c \in Active : b <= c) \in Active
<1>1. \E b \in Active : \A c \in Active : b <= c
  BY DEF Active, Buffers
<1> QED BY <1>1

(* The frame a drain picks is an active one.                               *)
LEMMA OldestActive ==
  ASSUME TypeOK, Active # {}
  PROVE  (CHOOSE b \in Active : \A c \in Active :
            pending[b].frame_index <= pending[c].frame_index) \in Active
<1>1. \A b \in Buffers : pending[b].frame_index \in Nat
  BY LoopAssumption DEF TypeOK, Indices
<1>2. \E b \in Active : \A c \in Active :
         pending[b].frame_index <= pending[c].frame_index
  BY <1>1 DEF Active, Buffers
<1> QED BY <1>2

(* drain turns to the oldest frame in flight.                              *)
LEMMA DrainOldestIInv == ASSUME IInv, DrainOldest PROVE IInv'
<1>1. Active # {}
  BY DEF IInv, Counts, InFlightCount, DrainOldest, Active, Buffers
<1>2. call'.slot \in Active /\ call'.op = "drain" /\ call'.at = "wait_gpu"
  BY <1>1, OldestActive DEF IInv, DrainOldest
<1>3. call' = [op |-> "drain", at |-> "wait_gpu", slot |-> call'.slot]
  BY DEF DrainOldest
<1>4. TypeOK'
  BY <1>2, <1>3 DEF IInv, TypeOK, T!TrackerTypeOK, DrainOldest, Places, Active
<1>5. SlotsAgree' /\ CallConsistent' /\ SlotFlags' /\ Counts' /\ EndingsAreSound'
  BY <1>2 DEF IInv, DrainOldest, At, SlotsAgree,
     CallConsistent, SlotFlags, Counts, InFlightCount, EndingsAreSound,
     RetainedTokenIsInFlight, PreSubmitFailureIsIdle, CompleteIsDrained, Active,
     T!CanReuse, T!Holds
<1> QED BY <1>4, <1>5 DEF IInv

(* drain ends with nothing in flight: the run is complete.                 *)
LEMMA DrainCompleteIInv == ASSUME IInv, DrainComplete PROVE IInv'
<1>1. /\ result.state = "ACTIVE" /\ call.at = "oldest"
      /\ call' = Idle
      /\ result' = [result EXCEPT !.state = "COMPLETE"]
      /\ UNCHANGED <<slots, next_token, next_frame_index, pending, active_frames>>
      /\ rc' = 0
      /\ active_frames = 0
  BY DEF IInv, CallConsistent, DrainComplete, Return, At
<1>2. result \in [state : RunStates, frames_completed : Indices,
                 max_frames_in_flight : 0 .. 2, failed_frame : Indices,
                 retained_token : {0} \cup T!Tokens]
  BY DEF IInv, TypeOK
<1>3. samples' \in Seq(Indices \X BOOLEAN)
  <2>1. result.frames_completed # 0 => next_frame_index - 1 \in Indices
    BY <1>1, <1>2, LoopAssumption DEF IInv, TypeOK, Counts, Indices
  <2>2. samples \in Seq(Indices \X BOOLEAN)
    BY DEF IInv, TypeOK
  <2>3. \/ samples' = samples
        \/ next_frame_index - 1 \in Indices /\ Sample(next_frame_index - 1, FALSE, TRUE)
    BY <2>1 DEF DrainComplete
  <2> QED BY <2>2, <2>3, SampleTyped DEF IInv
<1>4. TypeOK'
  BY <1>1, <1>2, <1>3
     DEF IInv, TypeOK, T!TrackerTypeOK, RunStates, Idle, Places, Buffers
<1>5. \A b \in Buffers : ~pending[b].active /\ T!CanReuse(b)
  BY <1>1 DEF IInv, TypeOK, T!TrackerTypeOK, T!Slot, T!Phases, Counts,
     InFlightCount, SlotsAgree, SlotFlags, At, Buffers, T!CanReuse
<1>6. result.frames_completed = next_frame_index
  BY <1>1, <1>2 DEF IInv, TypeOK, Counts, At, Indices
<1>7. SlotsAgree' /\ CallConsistent' /\ SlotFlags'
  BY <1>1, <1>5 DEF IInv, SlotsAgree, CallConsistent, SlotFlags,
     At, Idle, T!CanReuse, T!Holds
<1>8. Counts'
  BY <1>1, <1>2 DEF IInv, TypeOK, Counts, InFlightCount
<1>9. EndingsAreSound'
  BY <1>1, <1>2, <1>5, <1>6
     DEF EndingsAreSound, RetainedTokenIsInFlight, PreSubmitFailureIsIdle,
         CompleteIsDrained, T!CanReuse
<1> QED BY <1>4, <1>7, <1>8, <1>9 DEF IInv

-----------------------------------------------------------------------------
(* Every way a call can fail: nothing in flight changes, no prepared slot   *)
(* is left behind, and the failure is reported by retain_failure for a slot *)
(* in flight, or as a failure before submission.                            *)
LEMMA FailureIInv ==
  ASSUME IInv, ~At("idle"),
         slots' \in [Buffers -> T!Slot],
         next_token' \in next_token .. MaxToken + 1,
         pending' \in [Buffers -> [token : {0} \cup T!Tokens,
                                   frame_index : Indices, active : BOOLEAN]],
         \A b \in Buffers :
           /\ pending'[b].active = pending[b].active
           /\ pending[b].active => pending'[b] = pending[b] /\ slots'[b] = slots[b]
           /\ ~pending[b].active => slots'[b] \in {slots[b], T!EmptySlot}
           /\ slots'[b].phase # "PREPARED",
         UNCHANGED <<next_frame_index, active_frames>>,
         NEW frame \in Indices,
         FailBeforeSubmit(frame) \/ \E b \in Active : RetainFailure(b, frame)
  PROVE  IInv'
<1>1. result.state = "ACTIVE"
  BY DEF IInv, CallConsistent
<1>2. \/ Active = {} /\ result' = [result EXCEPT !.state = "PRE_SUBMIT_FAILURE",
                                               !.failed_frame = frame]
      \/ \E b \in Active :
           result' = [result EXCEPT !.state = "POST_SUBMIT_RETAIN",
                                    !.failed_frame = frame,
                                    !.retained_token = pending[b].token]
  BY FirstActive DEF FailBeforeSubmit, RetainFailure
<1>3. call' = Idle /\ rc' \in {1, 2}
  BY DEF FailBeforeSubmit, RetainFailure, Return
<1>4. samples' \in Seq(Indices \X BOOLEAN)
  <2>1. Sample(frame, TRUE, FALSE)
    BY DEF FailBeforeSubmit, RetainFailure
  <2> QED BY <2>1, SampleTyped DEF IInv
<1>5. result \in [state : RunStates, frames_completed : Indices,
                 max_frames_in_flight : 0 .. 2, failed_frame : Indices,
                 retained_token : {0} \cup T!Tokens]
  BY DEF IInv, TypeOK
<1>6. \A b \in Active : pending[b].token \in {0} \cup T!Tokens
  BY DEF IInv, TypeOK, Active
<1>7. /\ result' \in [state : RunStates, frames_completed : Indices,
                     max_frames_in_flight : 0 .. 2, failed_frame : Indices,
                     retained_token : {0} \cup T!Tokens]
      /\ result'.frames_completed = result.frames_completed
      /\ result'.state \in {"PRE_SUBMIT_FAILURE", "POST_SUBMIT_RETAIN"}
  BY <1>2, <1>5, <1>6 DEF RunStates
<1>8. TypeOK'
  BY <1>3, <1>4, <1>7, LoopAssumption
     DEF IInv, TypeOK, T!TrackerTypeOK, Idle, Places, Buffers
<1>9. SlotsAgree'
  BY <1>3 DEF IInv, SlotsAgree, At, Idle, T!CanReuse, T!EmptySlot
<1>10. CallConsistent' /\ SlotFlags'
  BY <1>3 DEF IInv, CallConsistent, SlotFlags, At, Idle
<1>11. Counts'
  <2>1. InFlightCount' = InFlightCount
    BY DEF InFlightCount, Buffers
  <2>2. next_frame_index + FirstToken <= next_token'
    BY LoopAssumption DEF IInv, TypeOK, T!TrackerTypeOK, Counts, Indices
  <2> QED BY <2>1, <2>2, <1>7 DEF IInv, Counts
<1>12. EndingsAreSound'
  <2>1. Active' = Active /\ \A b \in Active : pending'[b].token = pending[b].token
    BY DEF Active
  <2>2. result'.state = "POST_SUBMIT_RETAIN" =>
          \E b \in Active : pending[b].token = result'.retained_token
    BY <1>2, <1>5
  <2>3. result'.state = "PRE_SUBMIT_FAILURE" => Active = {}
    BY <1>2, <1>5
  <2>4. Active = {} => \A b \in Buffers : T!CanReuse(b)'
    BY <1>9, <2>1 DEF SlotsAgree, Active, IInv, TypeOK, T!TrackerTypeOK, T!Slot,
       T!Phases, T!CanReuse
  <2> QED BY <1>7, <2>1, <2>2, <2>3, <2>4
             DEF EndingsAreSound, RetainedTokenIsInFlight, PreSubmitFailureIsIdle,
                 CompleteIsDrained
<1> QED BY <1>8, <1>9, <1>10, <1>11, <1>12 DEF IInv
-----------------------------------------------------------------------------
(* The shape of the state, for the proofs below.                            *)
PendingType == [token : {0} \cup T!Tokens, frame_index : Indices, active : BOOLEAN]

ResultType == [state : RunStates, frames_completed : Indices,
               max_frames_in_flight : 0 .. 2, failed_frame : Indices,
               retained_token : {0} \cup T!Tokens]

(* The pending frames and the slots have the types that TypeOK gives.      *)
LEMMA Shapes ==
  ASSUME TypeOK
  PROVE  /\ slots \in [Buffers -> T!Slot]
         /\ next_token \in FirstToken .. MaxToken + 1
         /\ next_frame_index \in Indices
         /\ pending \in [Buffers -> PendingType]
         /\ active_frames \in 0 .. 2
         /\ result \in ResultType
         /\ call \in [op : {"none", "step", "drain"}, at : Places, slot : Buffers]
         /\ rc \in {-1, 0, 1, 2}
         /\ samples \in Seq(Indices \X BOOLEAN)
  BY DEF TypeOK, T!TrackerTypeOK, PendingType, ResultType

(* No slot is prepared anywhere but at compose.                             *)
LEMMA NonePrepared ==
  ASSUME IInv, ~At("compose")
  PROVE  \A b \in Buffers : slots[b].phase # "PREPARED"
  BY DEF IInv, SlotFlags

(* retain_failure with nothing else changed.                                *)
LEMMA PlainFailure ==
  ASSUME IInv, ~At("idle"), ~At("compose"),
         UNCHANGED <<slots, next_token, next_frame_index, pending, active_frames>>,
         NEW frame \in Indices,
         FailBeforeSubmit(frame) \/ \E b \in Active : RetainFailure(b, frame)
  PROVE  IInv'
<1>1. TypeOK
  BY DEF IInv
<1>2. slots' \in [Buffers -> T!Slot] /\ next_token' \in next_token .. MaxToken + 1
  BY <1>1, Shapes, LoopAssumption
<1>3. pending' \in [Buffers -> [token : {0} \cup T!Tokens,
                               frame_index : Indices, active : BOOLEAN]]
  BY <1>1, Shapes DEF PendingType
<1>4. \A b \in Buffers :
        /\ pending'[b].active = pending[b].active
        /\ pending[b].active => pending'[b] = pending[b] /\ slots'[b] = slots[b]
        /\ ~pending[b].active => slots'[b] \in {slots[b], T!EmptySlot}
        /\ slots'[b].phase # "PREPARED"
  BY NonePrepared
<1> QED BY <1>2, <1>3, <1>4, FailureIInv

(* The GPU wait returns: on to VideoOut, or the frame has failed.          *)
LEMMA WaitGpuIInv ==
  ASSUME IInv, NEW ok \in BOOLEAN, WaitGpuReturns(ok)
  PROVE  IInv'
<1> DEFINE b == call.slot
<1>1. TypeOK /\ At("wait_gpu") /\ b \in Active /\ b \in Buffers
  BY Shapes DEF IInv, CallConsistent, WaitGpuReturns, Active
<1>2. CASE ok /\ T!Holds(b, "SUBMITTED", pending[b].token)
  <2>1. /\ slots' = [slots EXCEPT ![b].gpu_complete = TRUE]
        /\ call' = [call EXCEPT !.at = "wait_videoout"]
        /\ UNCHANGED <<next_token, next_frame_index, pending, active_frames,
                       result, rc, samples>>
    BY <1>2 DEF WaitGpuReturns, T!MarkGpuComplete, Goto
  <2>2. slots' \in [Buffers -> T!Slot] /\ call' \in [op : {"none", "step", "drain"},
                                                   at : Places, slot : Buffers]
    BY <2>1, <1>1, Shapes DEF T!Slot, Places
  <2>3. TypeOK'
    BY <2>1, <2>2, <1>1 DEF TypeOK, T!TrackerTypeOK
  <2>4. /\ slots'[b].gpu_complete /\ slots'[b].phase = slots[b].phase
        /\ slots'[b].token = slots[b].token
        /\ slots'[b].videoout_complete = slots[b].videoout_complete
        /\ \A c \in Buffers \ {b} : slots'[c] = slots[c]
        /\ call'.at = "wait_videoout" /\ call'.slot = b /\ call'.op = call.op
    BY <2>1, <1>1, Shapes DEF T!Slot
  <2>5. SlotsAgree'
    BY <2>1, <2>4, <1>1 DEF IInv, SlotsAgree, SlotFlags, CallConsistent, At,
       T!CanReuse, Active
  <2>6. CallConsistent' /\ SlotFlags' /\ Counts' /\ EndingsAreSound'
    BY <2>1, <2>4, <1>1 DEF IInv, CallConsistent, SlotFlags, Counts,
       InFlightCount, EndingsAreSound, At, T!Holds, Active, RetainedTokenIsInFlight,
       PreSubmitFailureIsIdle, CompleteIsDrained
  <2> QED BY <2>3, <2>5, <2>6 DEF IInv
<1>3. CASE ~(ok /\ T!Holds(b, "SUBMITTED", pending[b].token))
  <2>1. RetainFailure(b, pending[b].frame_index)
        /\ UNCHANGED <<slots, next_token, next_frame_index, pending, active_frames>>
    BY <1>3 DEF WaitGpuReturns
  <2>2. pending[b].frame_index \in Indices /\ ~At("idle") /\ ~At("compose")
    BY <1>1, Shapes DEF PendingType, At
  <2> QED BY <2>1, <2>2, <1>1, PlainFailure
<1> QED BY <1>2, <1>3

(* Submit returns, well or badly; the frame is in flight either way.       *)
LEMMA SubmitIInv ==
  ASSUME IInv, NEW ok \in BOOLEAN, At("submit"), SubmitReturns(ok)
  PROVE  IInv'
<1> DEFINE b == call.slot
<1>1. TypeOK /\ b \in Active /\ b \in Buffers
  BY Shapes DEF IInv, CallConsistent, Active
<1>2. CASE ok
  <2>1. call' = Idle /\ rc' = 0
        /\ UNCHANGED <<slots, next_token, next_frame_index, pending,
                       active_frames, result, samples>>
    BY <1>2 DEF SubmitReturns, Return
  <2>2. TypeOK'
    BY <2>1, <1>1 DEF TypeOK, T!TrackerTypeOK, Idle, Places, Buffers
  <2>3. SlotsAgree' /\ CallConsistent' /\ SlotFlags' /\ Counts'
          /\ EndingsAreSound'
    BY <2>1 DEF IInv, SlotsAgree, CallConsistent, SlotFlags, Counts,
       InFlightCount, EndingsAreSound, At, Idle, T!CanReuse, T!Holds, Active,
       RetainedTokenIsInFlight, PreSubmitFailureIsIdle, CompleteIsDrained
  <2> QED BY <2>2, <2>3 DEF IInv
<1>3. CASE ~ok
  <2>1. RetainFailure(b, pending[b].frame_index)
        /\ UNCHANGED <<slots, next_token, next_frame_index, pending, active_frames>>
    BY <1>3 DEF SubmitReturns
  <2>2. pending[b].frame_index \in Indices /\ ~At("idle") /\ ~At("compose")
    BY <1>1, Shapes DEF PendingType, At
  <2> QED BY <2>1, <2>2, <1>1, PlainFailure
<1> QED BY <1>2, <1>3

(* The animation refuses to prepare a frame: no slot is taken.             *)
LEMMA PrepareRefusedIInv ==
  ASSUME IInv, NEW clock_ok \in BOOLEAN, PrepareRefused(clock_ok)
  PROVE  IInv'
<1>1. next_frame_index \in Indices /\ ~At("idle") /\ ~At("compose")
  BY Shapes DEF IInv, PrepareRefused, At
<1> QED BY <1>1, PlainFailure DEF PrepareRefused

(* The scene cannot be built: the frame just begun is cancelled.           *)
LEMMA PrepareSceneIInv == ASSUME IInv, PrepareSceneFails PROVE IInv'
<1> DEFINE b == call.slot
<1>1. /\ TypeOK /\ At("prepare") /\ b \in Buffers
      /\ ~pending[b].active
      /\ next_token <= MaxToken
  BY Shapes DEF IInv, CallConsistent, PrepareSceneFails, T!CanBegin
<1>2. next_frame_index \in Indices /\ ~At("idle") /\ ~At("compose")
  BY <1>1, Shapes DEF At
<1>3. slots' \in [Buffers -> T!Slot]
  BY <1>1, Shapes DEF PrepareSceneFails, T!EmptySlot, T!Slot, T!Phases
<1>4. next_token' \in next_token .. MaxToken + 1
  BY <1>1, Shapes, LoopAssumption DEF PrepareSceneFails
<1>5. pending' \in [Buffers -> [token : {0} \cup T!Tokens,
                               frame_index : Indices, active : BOOLEAN]]
  BY <1>1, <1>2, Shapes, LoopAssumption DEF PrepareSceneFails, PendingType, T!Tokens
<1>6. \A c \in Buffers :
        /\ pending'[c].active = pending[c].active
        /\ pending[c].active => pending'[c] = pending[c] /\ slots'[c] = slots[c]
        /\ ~pending[c].active => slots'[c] \in {slots[c], T!EmptySlot}
        /\ slots'[c].phase # "PREPARED"
  <2>1. \A c \in Buffers : slots[c].phase # "PREPARED"
    BY <1>2, NonePrepared
  <2> QED BY <2>1, <1>1, Shapes DEF PrepareSceneFails, PendingType, T!EmptySlot
<1>7. UNCHANGED <<next_frame_index, active_frames>> /\ FailBeforeSubmit(next_frame_index)
  BY DEF PrepareSceneFails
<1> QED BY <1>2, <1>3, <1>4, <1>5, <1>6, <1>7, FailureIInv

(* A frame is prepared in a free slot under a new token.                   *)
LEMMA PrepareOkIInv == ASSUME IInv, PrepareOk PROVE IInv'
<1> DEFINE b == call.slot
           new == T!PreparedSlot(next_token)
<1>1. /\ TypeOK /\ At("prepare") /\ b \in Buffers
      /\ ~pending[b].active /\ call.op = "step" /\ result.state = "ACTIVE"
      /\ next_token <= MaxToken
  BY Shapes DEF IInv, CallConsistent, PrepareOk, T!Begin, T!CanBegin, At
<1>2. /\ slots' = [slots EXCEPT ![b] = new]
      /\ next_token' = next_token + 1
      /\ next_frame_index' = next_frame_index + 1
      /\ pending' = [pending EXCEPT ![b].token = next_token,
                                    ![b].frame_index = next_frame_index]
      /\ call' = [call EXCEPT !.at = "compose"]
      /\ UNCHANGED <<active_frames, result, rc, samples>>
  BY DEF PrepareOk, T!Begin, Goto
<1>3. /\ new \in T!Slot /\ new.phase = "PREPARED" /\ new.token = next_token
      /\ ~new.gpu_complete /\ ~new.videoout_complete
  BY <1>1, Shapes, LoopAssumption DEF T!PreparedSlot, T!Slot, T!Phases, T!Tokens
<1>4. next_frame_index' \in Indices
  BY <1>1, <1>2, Shapes, LoopAssumption DEF IInv, Counts, Indices
<1>5. /\ slots'[b] = new
      /\ pending'[b].token = next_token /\ ~pending'[b].active
      /\ \A c \in Buffers \ {b} : slots'[c] = slots[c] /\ pending'[c] = pending[c]
      /\ call'.at = "compose" /\ call'.slot = b /\ call'.op = "step"
  BY <1>1, <1>2, Shapes DEF PendingType
<1>6. TypeOK'
  <2>1. slots' \in [Buffers -> T!Slot]
    BY <1>1, <1>2, <1>3, Shapes
  <2>2. next_token' \in FirstToken .. MaxToken + 1
    BY <1>1, <1>2, Shapes, LoopAssumption
  <2>3. pending' \in [Buffers -> PendingType]
    BY <1>1, <1>2, Shapes, LoopAssumption DEF PendingType, T!Tokens
  <2>4. call' \in [op : {"none", "step", "drain"}, at : Places, slot : Buffers]
    BY <1>1, <1>2, Shapes DEF Places
  <2> QED BY <2>1, <2>2, <2>3, <2>4, <1>1, <1>2, <1>4
             DEF TypeOK, T!TrackerTypeOK, PendingType
<1>7. SlotsAgree'
  BY <1>1, <1>3, <1>5 DEF IInv, SlotsAgree, At, T!CanReuse, T!Holds
<1>8. CallConsistent'
  BY <1>1, <1>2, <1>3, <1>5 DEF CallConsistent, At, T!Holds
<1>9. SlotFlags'
  <2>1. \A c \in Buffers : slots[c].phase # "PREPARED"
    BY <1>1, NonePrepared DEF At
  <2> QED BY <2>1, <1>3, <1>5 DEF IInv, SlotFlags, At
<1>10. Counts'
  <2>1. InFlightCount' = InFlightCount
    BY <1>1, <1>5 DEF InFlightCount, Buffers
  <2> QED BY <2>1, <1>1, <1>2, <1>5, Shapes, LoopAssumption, SMTT(30)
             DEF IInv, Counts, At, Indices, ResultType
<1>11. EndingsAreSound'
  BY <1>1, <1>2 DEF EndingsAreSound, RetainedTokenIsInFlight, PreSubmitFailureIsIdle,
                    CompleteIsDrained
<1> QED BY <1>6, <1>7, <1>8, <1>9, <1>10, <1>11 DEF IInv

(* The VideoOut report that releases the slot, whatever telemetry makes of  *)
(* the frame.                                                               *)
LEMMA WaitVideoOutIInv ==
  ASSUME IInv, NEW ok \in BOOLEAN, NEW observed, NEW counted \in BOOLEAN,
         WaitVideoOutReturns(ok, observed, counted)
  PROVE  IInv'
<1> DEFINE b == call.slot
           frame == pending[b].frame_index
<1>1. /\ TypeOK /\ At("wait_videoout") /\ b \in Active /\ b \in Buffers
      /\ call.op \in {"step", "drain"} /\ result.state = "ACTIVE"
      /\ frame \in Indices /\ ~At("idle") /\ ~At("compose")
      /\ slots[b].gpu_complete
  BY Shapes DEF IInv, CallConsistent, WaitVideoOutReturns, Active, At, PendingType
<1>2. CASE ok /\ T!Holds(b, "SUBMITTED", observed)
  <2>1. /\ slots' = [slots EXCEPT ![b].videoout_complete = TRUE]
        /\ pending' = [pending EXCEPT ![b].active = FALSE]
        /\ active_frames' = active_frames - 1
        /\ Account(b, counted)
        /\ UNCHANGED <<next_token, next_frame_index>>
    BY <1>2 DEF WaitVideoOutReturns, T!MarkVideoOutComplete
  <2>2. /\ slots'[b].videoout_complete /\ slots'[b].phase = slots[b].phase
        /\ slots'[b].gpu_complete = slots[b].gpu_complete
        /\ ~pending'[b].active
        /\ \A c \in Buffers \ {b} : slots'[c] = slots[c] /\ pending'[c] = pending[c]
    BY <2>1, <1>1, Shapes DEF T!Slot, PendingType
  <2>3. InFlightCount' = InFlightCount - 1 /\ active_frames \in 1 .. 2
    BY <2>2, <1>1 DEF IInv, Counts, InFlightCount, Active, Buffers
  <2>4. result.frames_completed + 1 \in Indices
    BY <1>1, <2>3, Shapes, LoopAssumption DEF IInv, Counts, Indices, ResultType
  <2>5. \/ /\ result' = [result EXCEPT !.frames_completed = @ + 1]
           /\ call' = [call EXCEPT !.at = IF call.op = "step" THEN "prepare"
                                                             ELSE "oldest"]
           /\ rc' = rc
        \/ /\ result' = [result EXCEPT !.state = "TELEMETRY_FAILURE",
                                        !.failed_frame = frame]
           /\ call' = Idle /\ rc' \in {1, -1}
    BY <2>1 DEF Account, Goto, Return
  <2>6. TypeOK'
    <3>1. slots' \in [Buffers -> T!Slot]
      BY <2>1, <1>1, Shapes DEF T!Slot
    <3>2. pending' \in [Buffers -> PendingType]
      BY <2>1, <1>1, Shapes, ZenonT(60) DEF PendingType
    <3>3. result' \in ResultType
      BY <2>4, <2>5, <1>1, Shapes DEF ResultType, RunStates
    <3>4. call' \in [op : {"none", "step", "drain"}, at : Places, slot : Buffers]
      BY <2>5, <1>1, Shapes DEF Places, Idle, Buffers
    <3>5. samples' \in Seq(Indices \X BOOLEAN)
      <4>1. \E e \in BOOLEAN : Sample(frame, e, FALSE)
        BY <2>1 DEF Account
      <4> QED BY <4>1, <1>1, SampleTyped
    <3> QED BY <3>1, <3>2, <3>3, <3>4, <3>5, <2>1, <2>3, <2>5, <1>1, Shapes
            DEF TypeOK, T!TrackerTypeOK, PendingType, ResultType
  <2>7. call'.at \in {"prepare", "oldest", "idle"}
        /\ (call'.at = "prepare" => call'.op = "step" /\ call'.slot = b)
        /\ (call'.at = "oldest" => call'.op = "drain")
    BY <2>5, <1>1, Shapes DEF Idle
  <2>8. SlotsAgree'
    BY <2>2, <2>7, <1>1, ZenonT(60) DEF IInv, SlotsAgree, At, T!CanReuse, Active
  <2>9. CallConsistent'
    BY <2>2, <2>5, <2>7, <1>1, Shapes DEF CallConsistent, At, Idle, ResultType
  <2>10. SlotFlags'
    BY <2>2, <1>1 DEF IInv, SlotFlags, At
  <2>11. Counts'
    <3>1. \/ /\ result'.frames_completed = result.frames_completed
             /\ result'.state = "TELEMETRY_FAILURE"
          \/ result'.frames_completed = result.frames_completed + 1
      BY <2>5, <1>1, Shapes DEF ResultType
    <3>2. result.frames_completed + active_frames = next_frame_index
      BY <1>1, Shapes DEF IInv, Counts, ResultType, Indices
    <3>3. /\ next_frame_index' = next_frame_index /\ next_token' = next_token
          /\ active_frames' = active_frames - 1 /\ call'.at # "compose"
          /\ next_frame_index + FirstToken <= next_token
          /\ active_frames = InFlightCount
      BY <2>1, <2>7 DEF IInv, Counts
    <3>4. result.frames_completed \in Int /\ next_frame_index \in Int
      BY <1>1, Shapes, LoopAssumption DEF ResultType, Indices
    <3> HIDE DEF frame, b
    <3> QED BY <3>1, <3>2, <3>3, <3>4, <2>3 DEF Counts, At
  <2>12. EndingsAreSound'
    <3>1. result'.state \in {"ACTIVE", "TELEMETRY_FAILURE"}
      BY <2>5, <1>1, Shapes DEF ResultType
    <3> QED BY <3>1 DEF EndingsAreSound, RetainedTokenIsInFlight, PreSubmitFailureIsIdle,
                        CompleteIsDrained
  <2> QED BY <2>6, <2>8, <2>9, <2>10, <2>11, <2>12 DEF IInv
<1>3. CASE ~(ok /\ T!Holds(b, "SUBMITTED", observed))
  <2>1. RetainFailure(b, frame)
        /\ UNCHANGED <<slots, next_token, next_frame_index, pending, active_frames>>
    BY <1>3 DEF WaitVideoOutReturns
  <2> QED BY <2>1, <1>1, PlainFailure
<1> QED BY <1>2, <1>3

(* compose returns: the frame is marked submitted, or cancelled.           *)
LEMMA ComposeIInv ==
  ASSUME IInv, NEW ok \in BOOLEAN, ComposeReturns(ok)
  PROVE  IInv'
<1> DEFINE b == call.slot
<1>1. /\ TypeOK /\ At("compose") /\ b \in Buffers /\ ~At("idle")
      /\ ~pending[b].active /\ call.op = "step" /\ result.state = "ACTIVE"
      /\ slots[b].phase = "PREPARED" /\ slots[b].token = pending[b].token
      /\ ~slots[b].gpu_complete /\ ~slots[b].videoout_complete
      /\ pending[b].frame_index \in Indices
  BY Shapes DEF IInv, CallConsistent, SlotFlags, ComposeReturns, At, T!Holds,
     PendingType
<1>2. CASE ok
  <2>1. /\ slots' = [slots EXCEPT ![b].phase = "SUBMITTED"]
        /\ pending' = [pending EXCEPT ![b].active = TRUE]
        /\ active_frames' = active_frames + 1
        /\ result' = [result EXCEPT !.max_frames_in_flight =
                         IF active_frames + 1 > @ THEN active_frames + 1 ELSE @]
        /\ call' = [call EXCEPT !.at = "submit"]
        /\ UNCHANGED <<next_token, next_frame_index, rc, samples>>
    BY <1>2 DEF ComposeReturns, T!MarkSubmitted, Goto
  <2>2. /\ slots'[b] = [slots[b] EXCEPT !.phase = "SUBMITTED"]
        /\ pending'[b] = [pending[b] EXCEPT !.active = TRUE]
        /\ \A c \in Buffers \ {b} : slots'[c] = slots[c] /\ pending'[c] = pending[c]
        /\ call'.at = "submit" /\ call'.slot = b /\ call'.op = "step"
    BY <2>1, <1>1, Shapes
  <2>3. /\ slots'[b].phase = "SUBMITTED" /\ slots'[b].token = slots[b].token
        /\ ~slots'[b].gpu_complete /\ ~slots'[b].videoout_complete
        /\ pending'[b].active /\ pending'[b].token = pending[b].token
    BY <2>2, <1>1, Shapes DEF T!Slot, PendingType
  <2>4. InFlightCount' = InFlightCount + 1 /\ active_frames' \in 0 .. 2
    BY <2>1, <2>2, <2>3, <1>1 DEF IInv, Counts, InFlightCount, Buffers
  <2>5. result' \in ResultType
    BY <2>1, <2>4, <1>1, Shapes DEF ResultType
  <2>6. result'.state = "ACTIVE" /\ result'.frames_completed = result.frames_completed
    BY <2>1, <1>1, Shapes DEF ResultType
  <2>7. TypeOK'
    <3>1. slots' \in [Buffers -> T!Slot]
      BY <2>1, <1>1, Shapes DEF T!Slot, T!Phases
    <3>2. pending' \in [Buffers -> PendingType]
      BY <2>1, <1>1, Shapes DEF PendingType
    <3>3. call' \in [op : {"none", "step", "drain"}, at : Places, slot : Buffers]
      BY <2>1, <1>1, Shapes DEF Places
    <3> QED BY <3>1, <3>2, <3>3, <2>1, <2>4, <2>5, <1>1, Shapes
            DEF TypeOK, T!TrackerTypeOK, PendingType, ResultType
  <2>8. SlotsAgree'
    <3> SUFFICES ASSUME NEW c \in Buffers
                 PROVE  /\ (pending[c].active <=> slots[c].phase = "SUBMITTED"
                                                  /\ ~T!CanReuse(c))'
                        /\ (pending[c].active => slots[c].token = pending[c].token)'
                        /\ ~(At("compose") /\ call.slot = c)'
      BY DEF SlotsAgree
    <3>1. ~(At("compose"))'
      BY <2>2 DEF At
    <3>2. CASE c = b
      BY <3>1, <3>2, <2>3, <1>1 DEF T!CanReuse
    <3>3. CASE c # b
      BY <3>1, <3>3, <2>2 DEF IInv, SlotsAgree, T!CanReuse
    <3> QED BY <3>2, <3>3
  <2>9. CallConsistent' /\ SlotFlags'
    <3>1. CallConsistent'
      BY <2>2, <2>3, <2>6 DEF CallConsistent, At
    <3>2. ASSUME NEW c \in Buffers, c # b
          PROVE  /\ slots'[c].phase # "PREPARED"
                 /\ pending'[c].active => ~slots'[c].videoout_complete
      BY <3>2, <2>2 DEF IInv, SlotFlags
    <3> QED BY <3>1, <3>2, <2>3 DEF SlotFlags
  <2>10. Counts'
    BY <2>1, <2>2, <2>4, <2>6, <1>1, Shapes, LoopAssumption, SMTT(30)
       DEF IInv, Counts, At, ResultType, Indices
  <2>11. EndingsAreSound'
    BY <2>6 DEF EndingsAreSound, RetainedTokenIsInFlight, PreSubmitFailureIsIdle,
                CompleteIsDrained
  <2> QED BY <2>7, <2>8, <2>9, <2>10, <2>11 DEF IInv
<1>3. CASE ~ok
  <2>1. /\ slots' = [slots EXCEPT ![b] = T!EmptySlot]
        /\ UNCHANGED <<next_token, next_frame_index, pending, active_frames>>
        /\ FailBeforeSubmit(pending[b].frame_index)
    BY <1>3 DEF ComposeReturns, T!CancelPreSubmit
  <2>2. slots' \in [Buffers -> T!Slot] /\ next_token' \in next_token .. MaxToken + 1
    BY <2>1, <1>1, Shapes, LoopAssumption DEF T!EmptySlot, T!Slot, T!Phases
  <2>3. pending' \in [Buffers -> [token : {0} \cup T!Tokens,
                                 frame_index : Indices, active : BOOLEAN]]
    BY <2>1, <1>1, Shapes DEF PendingType
  <2>4. \A c \in Buffers :
          /\ pending'[c].active = pending[c].active
          /\ pending[c].active => pending'[c] = pending[c] /\ slots'[c] = slots[c]
          /\ ~pending[c].active => slots'[c] \in {slots[c], T!EmptySlot}
          /\ slots'[c].phase # "PREPARED"
    BY <2>1, <1>1, Shapes DEF IInv, SlotFlags, T!EmptySlot
  <2> QED BY <2>1, <2>2, <2>3, <2>4, <1>1, FailureIInv
<1> QED BY <1>2, <1>3

(* Every step of the frame loop preserves the invariant.                   *)
LEMMA NextIInv == ASSUME IInv, [Next]_loopVars PROVE IInv'
<1>1. CASE UNCHANGED loopVars
  BY <1>1 DEF loopVars, IInv, TypeOK, T!TrackerTypeOK, SlotsAgree, CallConsistent,
     SlotFlags, Counts, InFlightCount, EndingsAreSound, RetainedTokenIsInFlight,
     PreSubmitFailureIsIdle, CompleteIsDrained, At, Active, T!CanReuse, T!Holds
<1>2. CASE StepCall
  BY <1>2, StepCallIInv
<1>3. CASE DrainCall
  BY <1>3, DrainCallIInv
<1>4. CASE RejectedCall
  BY <1>4, RejectedCallIInv
<1>5. CASE Internal
  BY <1>5, DrainOldestIInv, DrainCompleteIInv DEF Internal
<1>6. CASE PrepareOk
  BY <1>6, PrepareOkIInv
<1>7. CASE PrepareSceneFails
  BY <1>7, PrepareSceneIInv
<1>8. CASE \E clock_ok \in BOOLEAN : PrepareRefused(clock_ok)
  BY <1>8, PrepareRefusedIInv
<1>9. ASSUME NEW ok \in BOOLEAN, ComposeReturns(ok) PROVE IInv'
  BY <1>9, ComposeIInv
<1>10. ASSUME NEW ok \in BOOLEAN, SubmitReturns(ok) PROVE IInv'
  BY <1>10, SubmitIInv DEF SubmitReturns
<1>11. ASSUME NEW ok \in BOOLEAN, WaitGpuReturns(ok) PROVE IInv'
  BY <1>11, WaitGpuIInv
<1>12. ASSUME NEW ok \in BOOLEAN, NEW observed \in Observable,
              NEW counted \in BOOLEAN, WaitVideoOutReturns(ok, observed, counted)
       PROVE  IInv'
  BY <1>12, WaitVideoOutIInv
<1> QED BY <1>1, <1>2, <1>3, <1>4, <1>5, <1>6, <1>7, <1>8, <1>9, <1>10, <1>11,
           <1>12 DEF Next, InCall

-----------------------------------------------------------------------------
(* The inductive invariant holds in every state of every run, for every     *)
(* token range and sampling period, whatever the callbacks return.          *)
THEOREM LoopInvariant == Spec => []IInv
<1>1. Init => IInv
  BY InitIInv
<1>2. IInv /\ [Next]_loopVars => IInv'
  BY NextIInv
<1> QED BY <1>1, <1>2, PTL DEF Spec

(* The runner's fields keep their types: tokens stay below the limit and    *)
(* at most two frames are in flight.                                        *)
THEOREM LoopTypeCorrect == Spec => []TypeOK
<1>1. IInv => TypeOK
  BY DEF IInv
<1> QED BY <1>1, LoopInvariant, PTL

(* The runner's pending slots and the tracker's submitted slots never       *)
(* diverge, not even when telemetry fails (gears_frame_runner.c:55).        *)
THEOREM LoopSlotsAgree == Spec => []SlotsAgree
<1>1. IInv => SlotsAgree
  BY DEF IInv
<1> QED BY <1>1, LoopInvariant, PTL

(* The three ways a run ends mean what their names say: a retained token is *)
(* in flight, a failure before submission leaves the devices idle, and a    *)
(* completed run is drained.                                                *)
THEOREM LoopEndings == Spec => []EndingsAreSound
<1>1. IInv => EndingsAreSound
  BY DEF IInv
<1> QED BY <1>1, LoopInvariant, PTL

(* The counter that ends drain's loop is the size of the set of slots in    *)
(* flight.                                                                  *)
LEMMA CountIsCardinality == InFlightCount = Cardinality(Active)
<1>1. Active = {} \/ Active = {0} \/ Active = {1} \/ Active = {0, 1}
  BY DEF Active, Buffers
<1>2. /\ Cardinality({}) = 0 /\ Cardinality({0}) = 1 /\ Cardinality({1}) = 1
      /\ Cardinality({0, 1}) = 2
  <2>1. IsFiniteSet({0}) /\ Cardinality({0}) = 1 /\ Cardinality({1}) = 1
    BY FS_Singleton
  <2>2. Cardinality({0} \cup {1}) = Cardinality({0}) + 1
    BY <2>1, FS_AddElement
  <2>3. {0} \cup {1} = {0, 1}
    OBVIOUS
  <2> QED BY <2>1, <2>2, <2>3, FS_EmptySet
<1>3. /\ pending[0].active <=> 0 \in Active
      /\ pending[1].active <=> 1 \in Active
  BY DEF Active, Buffers
<1>4. ASSUME Active = {} PROVE InFlightCount = 0
  BY <1>3, <1>4 DEF InFlightCount
<1>5. ASSUME Active = {0} \/ Active = {1} PROVE InFlightCount = 1
  BY <1>3, <1>5 DEF InFlightCount
<1>6. ASSUME Active = {0, 1} PROVE InFlightCount = 2
  BY <1>3, <1>6 DEF InFlightCount
<1> QED BY <1>1, <1>2, <1>4, <1>5, <1>6

(* No frame is lost or counted twice, for any number of frames.             *)
THEOREM LoopFramesAccountedFor == Spec => []FramesAccountedFor
<1>1. IInv => FramesAccountedFor
  BY CountIsCardinality DEF IInv, Counts, FramesAccountedFor
<1> QED BY <1>1, LoopInvariant, PTL

-----------------------------------------------------------------------------
(* The order of the frames: the runner implements FramesInFlight, and what  *)
(* the telemetry callback sees is in order, for every token range.          *)
(*                                                                          *)
(* The code keeps no queue of frames.  That the slot which a step turns to  *)
(* is the one of the oldest frame follows from parity alone: slot b holds   *)
(* frames of parity b, and the frames in flight follow the completed ones   *)
(* without a gap (FlightOrder).  A sample is then always of a frame that    *)
(* was not sampled before, and whether the last completed frame was sampled *)
(* is known from its index (SampleOrder).                                   *)

FlightOrder ==
  result.state = "ACTIVE" =>
    /\ \A b \in Active :
         /\ pending[b].frame_index % 2 = b
         /\ result.frames_completed <= pending[b].frame_index
         /\ pending[b].frame_index < result.frames_completed + active_frames
    /\ At("wait_gpu") \/ At("wait_videoout") =>
         pending[call.slot].frame_index = result.frames_completed
    /\ call.op = "step" /\ ~At("compose") /\ ~At("submit") =>
         call.slot = next_frame_index % 2
    /\ At("compose") =>
         /\ pending[call.slot].frame_index = next_frame_index - 1
         /\ pending[call.slot].frame_index % 2 = call.slot

SamplesSorted ==
  \A i, j \in DOMAIN samples : i < j =>
    samples[i][1] < samples[j][1] /\ ~samples[i][2]

LastCompleted == result.frames_completed - 1

SampleOrder ==
  /\ SamplesSorted
  /\ result.state = "ACTIVE" =>
       \A i \in DOMAIN samples :
         samples[i][1] < result.frames_completed /\ ~samples[i][2]
  /\ result.state = "ACTIVE" /\ result.frames_completed # 0 =>
       IF ShouldSample(LastCompleted, FALSE)
         THEN samples # <<>> /\ samples[Len(samples)] = <<LastCompleted, FALSE>>
         ELSE \A i \in DOMAIN samples : samples[i][1] # LastCompleted

OrderInv == FlightOrder /\ SampleOrder /\ SamplesInOrder

-----------------------------------------------------------------------------
(* Of the frames in flight, at most two and without a gap, the one of the   *)
(* next frame's parity is the oldest.                                       *)
LEMMA ParityIsOldest ==
  ASSUME NEW i \in Nat, NEW n \in Nat, NEW c \in Nat, NEW k \in 0 .. 2,
         n = c + k, c <= i, i < n, i % 2 = n % 2
  PROVE  i = c
<1>1. i = n - 1 \/ i = n - 2
  OBVIOUS
<1>2. (n - 1) % 2 # n % 2
  OBVIOUS
<1> QED BY <1>1, <1>2

(* Two frames of different parity within two of c: the smaller one is c.    *)
LEMMA OldestOfTwo ==
  ASSUME NEW i \in Nat, NEW j \in Nat, NEW c \in Nat,
         c <= i, c <= j, i < c + 2, j < c + 2, i % 2 # j % 2, i <= j
  PROVE  i = c
<1>1. i # j
  OBVIOUS
<1> QED BY <1>1

(* What one call of the telemetry callback adds to the record.              *)
LEMMA SampleAdds ==
  ASSUME TypeOK, SamplesSorted, NEW f \in Indices, NEW e \in BOOLEAN,
         NEW force \in BOOLEAN, Sample(f, e, force),
         \A i \in DOMAIN samples : samples[i][1] < f /\ ~samples[i][2]
  PROVE  /\ SamplesSorted'
         /\ \A i \in DOMAIN samples' :
              \/ (i \in DOMAIN samples /\ samples'[i] = samples[i])
              \/ samples'[i] = <<f, e>>
         /\ force \/ ShouldSample(f, e) =>
              samples' # <<>> /\ samples'[Len(samples')] = <<f, e>>
         /\ ~(force \/ ShouldSample(f, e)) => samples' = samples
<1>1. samples \in Seq(Indices \X BOOLEAN) /\ <<f, e>> \in Indices \X BOOLEAN
  BY DEF TypeOK
<1>2. CASE ~(force \/ ShouldSample(f, e))
  <2>1. samples' = samples
    BY <1>2 DEF Sample
  <2> QED BY <2>1, <1>2 DEF SamplesSorted
<1>3. CASE force \/ ShouldSample(f, e)
  <2>1. samples' = Append(samples, <<f, e>>)
    BY <1>3 DEF Sample
  <2>2. /\ Len(samples') = Len(samples) + 1
        /\ samples'[Len(samples')] = <<f, e>>
        /\ DOMAIN samples = 1 .. Len(samples)
        /\ DOMAIN samples' = 1 .. Len(samples) + 1
        /\ \A i \in 1 .. Len(samples) : samples'[i] = samples[i]
        /\ Len(samples) \in Nat
    BY <2>1, <1>1
  <2>3. SamplesSorted'
    <3> SUFFICES ASSUME NEW i \in DOMAIN samples', NEW j \in DOMAIN samples', i < j
                 PROVE  samples'[i][1] < samples'[j][1] /\ ~samples'[i][2]
      BY DEF SamplesSorted
    <3>1. i \in DOMAIN samples /\ samples'[i] = samples[i]
      BY <2>2
    <3>2. CASE j \in DOMAIN samples
      BY <3>1, <3>2, <2>2 DEF SamplesSorted
    <3>3. CASE j \notin DOMAIN samples
      <4>1. samples'[j] = <<f, e>>
        BY <3>3, <2>2
      <4> QED BY <4>1, <3>1
    <3> QED BY <3>2, <3>3
  <2>4. samples' # <<>>
    BY <2>2
  <2>5. \A i \in DOMAIN samples' :
          \/ (i \in DOMAIN samples /\ samples'[i] = samples[i])
          \/ samples'[i] = <<f, e>>
    BY <2>2
  <2> QED BY <2>2, <2>3, <2>4, <2>5, <1>3
<1> QED BY <1>2, <1>3

-----------------------------------------------------------------------------
(* A fresh loop has no frame and no sample.                                 *)
LEMMA InitOrder == Init => OrderInv
<1> SUFFICES ASSUME Init PROVE OrderInv
  OBVIOUS
<1>1. /\ Active = {} /\ samples = <<>> /\ DOMAIN samples = {}
      /\ result.state = "ACTIVE" /\ result.frames_completed = 0
      /\ call = [op |-> "none", at |-> "idle", slot |-> 0]
  BY DEF Init, LoopInit, Idle, Active
<1> QED BY <1>1 DEF OrderInv, FlightOrder, SampleOrder, SamplesSorted,
                    SamplesInOrder, At

(* While the record does not change, nor does what it is compared with.     *)
LEMMA SamplesKept ==
  ASSUME SampleOrder, SamplesInOrder, result.state = "ACTIVE",
         samples' = samples, result'.state = "ACTIVE",
         result'.frames_completed = result.frames_completed
  PROVE  SampleOrder' /\ SamplesInOrder'
  BY DEF SampleOrder, SamplesSorted, SamplesInOrder, LastCompleted, ShouldSample

(* A failure is the last sample, of a frame that had not completed.         *)
LEMMA FailureOrder ==
  ASSUME IInv, OrderInv, ~At("idle"),
         NEW frame \in Indices, result.frames_completed <= frame,
         FailBeforeSubmit(frame) \/ \E b \in Active : RetainFailure(b, frame)
  PROVE  OrderInv'
<1>1. TypeOK /\ result.state = "ACTIVE" /\ result \in ResultType
  BY Shapes DEF IInv, CallConsistent
<1>2. result'.state \in {"PRE_SUBMIT_FAILURE", "POST_SUBMIT_RETAIN"}
  BY <1>1 DEF FailBeforeSubmit, RetainFailure, ResultType
<1>3. Sample(frame, TRUE, FALSE)
  BY DEF FailBeforeSubmit, RetainFailure
<1>4. \A i \in DOMAIN samples : samples[i][1] < frame /\ ~samples[i][2]
  <2> SUFFICES ASSUME NEW i \in DOMAIN samples
               PROVE  samples[i][1] < frame /\ ~samples[i][2]
    OBVIOUS
  <2>1. samples[i][1] < result.frames_completed /\ ~samples[i][2]
    BY <1>1 DEF OrderInv, SampleOrder
  <2>2. samples[i] \in Indices \X BOOLEAN
    BY <1>1, Shapes, ElementOfSeq
  <2> QED BY <2>1, <2>2, <1>1, LoopAssumption DEF ResultType, Indices
<1>5. SamplesSorted'
  BY <1>1, <1>3, <1>4, SampleAdds DEF OrderInv, SampleOrder
<1> QED BY <1>2, <1>5 DEF OrderInv, FlightOrder, SampleOrder, SamplesInOrder,
                          SamplesSorted

-----------------------------------------------------------------------------
(* The numbers that the arithmetic below is about.                          *)
LEMMA Numbers ==
  ASSUME IInv
  PROVE  /\ next_frame_index \in Nat /\ result.frames_completed \in Nat
         /\ active_frames \in 0 .. 2 /\ call.slot \in Buffers
         /\ \A b \in Buffers : pending[b].frame_index \in Nat
         /\ \A b \in Active : b \in Buffers
  BY Shapes, LoopAssumption
     DEF IInv, PendingType, ResultType, Indices, Active

(* A call to step turns to the slot of the next frame's parity: if a frame  *)
(* is in flight there, it is the oldest.                                    *)
LEMMA StepCallOrder == ASSUME IInv, OrderInv, StepCall PROVE OrderInv'
<1> DEFINE b == next_frame_index % 2
<1>1. /\ call' = [op |-> "step", slot |-> b,
                  at |-> IF pending[b].active THEN "wait_gpu" ELSE "prepare"]
      /\ UNCHANGED <<slots, next_frame_index, pending, active_frames, result,
                     samples>>
      /\ result.state = "ACTIVE" /\ ~At("compose")
  BY DEF StepCall, At
<1>2. b \in Buffers
  BY Numbers DEF Buffers
<1>3. pending[b].active => pending[b].frame_index = result.frames_completed
  <2> SUFFICES ASSUME pending[b].active
               PROVE  pending[b].frame_index = result.frames_completed
    OBVIOUS
  <2>1. /\ pending[b].frame_index % 2 = b
        /\ result.frames_completed <= pending[b].frame_index
        /\ pending[b].frame_index < result.frames_completed + active_frames
    BY <1>1, <1>2 DEF OrderInv, FlightOrder, Active
  <2>2. next_frame_index = result.frames_completed + active_frames
    BY <1>1, Numbers DEF IInv, Counts
  <2>3. pending[b].frame_index \in Nat
    BY <1>2, Numbers
  <2> HIDE DEF b
  <2>4. b = next_frame_index % 2
    BY DEF b
  <2> QED BY <2>1, <2>2, <2>3, <2>4, Numbers, ParityIsOldest
<1>4. FlightOrder'
  <2>1. call'.slot = b /\ call'.op = "step" /\ call'.at \in {"wait_gpu", "prepare"}
        /\ (call'.at = "wait_gpu" => pending[b].active)
    BY <1>1
  <2> QED BY <2>1, <1>1, <1>3 DEF OrderInv, FlightOrder, At, Active
<1>5. SampleOrder' /\ SamplesInOrder'
  BY <1>1, SamplesKept DEF OrderInv
<1> QED BY <1>4, <1>5 DEF OrderInv

(* Calls that touch no frame.                                               *)
LEMMA QuietOrder ==
  ASSUME IInv, OrderInv, DrainCall \/ RejectedCall PROVE OrderInv'
<1>1. CASE DrainCall
  BY <1>1, SamplesKept DEF OrderInv, DrainCall, FlightOrder, At, Active
<1>2. CASE RejectedCall
  BY <1>2 DEF RejectedCall, OrderInv, FlightOrder, At, SampleOrder, SamplesSorted,
     SamplesInOrder, LastCompleted
<1> QED BY <1>1, <1>2

(* drain looks for the least index, which is that of the next completion.   *)
LEMMA DrainOldestOrder == ASSUME IInv, OrderInv, DrainOldest PROVE OrderInv'
<1> DEFINE P(b) == b \in Active /\ \A c \in Active :
                     pending[b].frame_index <= pending[c].frame_index
<1>1. Active # {}
  BY DEF IInv, Counts, InFlightCount, DrainOldest, Active, Buffers
<1>2. P(call'.slot)
  <2>1. \A b \in Buffers : pending[b].frame_index \in Nat
    BY Numbers
  <2>2. \E b \in Active : \A c \in Active :
           pending[b].frame_index <= pending[c].frame_index
    BY <1>1, <2>1 DEF Active, Buffers
  <2> QED BY <2>2 DEF DrainOldest
<1>3. /\ result.state = "ACTIVE" /\ call'.op = "drain" /\ call'.at = "wait_gpu"
      /\ UNCHANGED <<next_frame_index, pending, active_frames, result, samples>>
  BY DEF DrainOldest, IInv, CallConsistent, At
<1>4. pending[call'.slot].frame_index = result.frames_completed
  <2>1. PICK b \in Active : b = call'.slot /\ P(b)
    BY <1>2
  <2>2. /\ pending[b].frame_index % 2 = b
        /\ result.frames_completed <= pending[b].frame_index
        /\ pending[b].frame_index < result.frames_completed + active_frames
        /\ b \in {0, 1} /\ pending[b].active
    BY <1>3 DEF OrderInv, FlightOrder, Active, Buffers
  <2>3. /\ pending[b].frame_index \in Nat /\ result.frames_completed \in Nat
        /\ active_frames \in 0 .. 2
    BY Numbers
  <2>4. CASE active_frames < 2
    BY <2>1, <2>2, <2>3, <2>4
  <2>5. CASE active_frames = 2
    <3>1. pending[0].active /\ pending[1].active
      BY <2>5 DEF IInv, Counts, InFlightCount
    <3>2. PICK c \in {0, 1} : c # b /\ c \in Active
      BY <3>1, <2>2 DEF Active, Buffers
    <3>3. /\ pending[c].frame_index % 2 = c
          /\ result.frames_completed <= pending[c].frame_index
          /\ pending[c].frame_index < result.frames_completed + active_frames
          /\ pending[b].frame_index <= pending[c].frame_index
          /\ pending[c].frame_index \in Nat
      BY <3>2, <2>1, <1>3, Numbers DEF OrderInv, FlightOrder
    <3>4. pending[b].frame_index = result.frames_completed
      BY <3>2, <3>3, <2>2, <2>3, <2>5, OldestOfTwo
    <3> QED BY <3>4, <2>1
  <2> QED BY <2>3, <2>4, <2>5
<1>5. FlightOrder'
  BY <1>3, <1>4 DEF OrderInv, FlightOrder, At, Active
<1> QED BY <1>3, <1>5, SamplesKept DEF OrderInv

(* drain completes: its final sample is forced if retiring that frame did   *)
(* not already give one.                                                    *)
LEMMA DrainCompleteOrder == ASSUME IInv, OrderInv, DrainComplete PROVE OrderInv'
<1>1. /\ result.state = "ACTIVE" /\ At("oldest") /\ active_frames = 0
      /\ result' = [result EXCEPT !.state = "COMPLETE"]
      /\ next_frame_index' = next_frame_index
      /\ result \in ResultType
  BY Shapes DEF DrainComplete, IInv, CallConsistent, At
<1>2. result'.state = "COMPLETE" /\ next_frame_index = result.frames_completed
  BY <1>1, Numbers DEF IInv, Counts, At, ResultType
<1> DEFINE final == next_frame_index - 1
<1>3. CASE result.frames_completed # 0 /\ ~ShouldSample(final, FALSE)
  <2>1. Sample(final, FALSE, TRUE) /\ final \in Indices
    <3>1. Sample(final, FALSE, TRUE)
      BY <1>3 DEF DrainComplete
    <3>2. next_frame_index \in Indices /\ next_frame_index # 0
      BY <1>2, <1>3, Shapes DEF IInv
    <3>3. final \in Indices
      BY <3>2, LoopAssumption DEF Indices
    <3> QED BY <3>1, <3>3
  <2>2. \A i \in DOMAIN samples : samples[i][1] < final /\ ~samples[i][2]
    <3> SUFFICES ASSUME NEW i \in DOMAIN samples
                 PROVE  samples[i][1] < final /\ ~samples[i][2]
      OBVIOUS
    <3>1. /\ samples[i][1] < result.frames_completed /\ ~samples[i][2]
          /\ samples[i][1] # final
      BY <1>1, <1>2, <1>3 DEF OrderInv, SampleOrder, LastCompleted
    <3>2. samples[i] \in Indices \X BOOLEAN
      BY Shapes, ElementOfSeq DEF IInv
    <3> QED BY <3>1, <3>2, <1>2, Numbers, LoopAssumption DEF Indices
  <2> HIDE DEF final
  <2>3. SamplesSorted' /\ samples' # <<>> /\ samples'[Len(samples')] = <<final, FALSE>>
    BY <2>1, <2>2, SampleAdds DEF IInv, OrderInv, SampleOrder
  <2>4. final = next_frame_index' - 1
    BY <1>1 DEF final
  <2> QED BY <1>2, <2>3, <2>4 DEF OrderInv, FlightOrder, SampleOrder,
                                  SamplesInOrder, SamplesSorted
<1>4. CASE ~(result.frames_completed # 0 /\ ~ShouldSample(final, FALSE))
  <2>1. samples' = samples
    BY <1>4 DEF DrainComplete
  <2>2. next_frame_index # 0 =>
          samples # <<>> /\ samples[Len(samples)] = <<next_frame_index - 1, FALSE>>
    BY <1>1, <1>2, <1>4 DEF OrderInv, SampleOrder, LastCompleted
  <2> QED BY <1>1, <1>2, <2>1, <2>2
          DEF OrderInv, FlightOrder, SampleOrder, SamplesSorted, SamplesInOrder
<1> QED BY <1>3, <1>4

(* The GPU wait returns for the oldest frame.                               *)
LEMMA WaitGpuOrder ==
  ASSUME IInv, OrderInv, NEW ok \in BOOLEAN, WaitGpuReturns(ok) PROVE OrderInv'
<1> DEFINE b == call.slot
<1>1. /\ result.state = "ACTIVE" /\ At("wait_gpu") /\ ~At("idle") /\ b \in Active
      /\ call \in [op : {"none", "step", "drain"}, at : Places, slot : Buffers]
  BY Shapes DEF IInv, CallConsistent, WaitGpuReturns, Active, At
<1>2. CASE ok /\ T!Holds(b, "SUBMITTED", pending[b].token)
  <2>1. /\ call' = [call EXCEPT !.at = "wait_videoout"]
        /\ UNCHANGED <<next_frame_index, pending, active_frames, result, samples>>
    BY <1>2 DEF WaitGpuReturns, T!MarkGpuComplete, Goto
  <2>2. call'.at = "wait_videoout" /\ call'.slot = b /\ call'.op = call.op
    BY <1>1, <2>1
  <2>3. FlightOrder'
    BY <1>1, <2>1, <2>2 DEF OrderInv, FlightOrder, At, Active
  <2> QED BY <1>1, <2>1, <2>3, SamplesKept DEF OrderInv
<1>3. CASE ~(ok /\ T!Holds(b, "SUBMITTED", pending[b].token))
  <2>1. RetainFailure(b, pending[b].frame_index)
    BY <1>3 DEF WaitGpuReturns
  <2>2. /\ pending[b].frame_index \in Indices
        /\ pending[b].frame_index = result.frames_completed
        /\ result.frames_completed <= pending[b].frame_index
    BY <1>1, Shapes, Numbers DEF IInv, PendingType, OrderInv, FlightOrder, Active
  <2> QED BY <1>1, <2>1, <2>2, FailureOrder
<1> QED BY <1>2, <1>3

(* The oldest frame leaves: the others follow it without a gap.             *)
LEMMA WaitVideoOutOrder ==
  ASSUME IInv, OrderInv, NEW ok \in BOOLEAN, NEW observed, NEW counted \in BOOLEAN,
         WaitVideoOutReturns(ok, observed, counted)
  PROVE  OrderInv'
<1> DEFINE b == call.slot
           frame == pending[b].frame_index
<1>1. /\ TypeOK /\ At("wait_videoout") /\ b \in Active /\ b \in Buffers
      /\ result.state = "ACTIVE" /\ frame \in Indices /\ ~At("idle")
      /\ frame = result.frames_completed /\ result.frames_completed <= frame
      /\ frame % 2 = b /\ result \in ResultType
      /\ call \in [op : {"none", "step", "drain"}, at : Places, slot : Buffers]
      /\ call.op \in {"step", "drain"}
  BY Shapes, Numbers DEF IInv, CallConsistent, WaitVideoOutReturns, Active, At,
                PendingType, OrderInv, FlightOrder
<1>2. \A i \in DOMAIN samples : samples[i][1] < frame /\ ~samples[i][2]
  BY <1>1 DEF OrderInv, SampleOrder
<1>3. CASE ok /\ T!Holds(b, "SUBMITTED", observed) /\ counted
  <2>1. /\ pending' = [pending EXCEPT ![b].active = FALSE]
        /\ active_frames' = active_frames - 1
        /\ next_frame_index' = next_frame_index
        /\ result' = [result EXCEPT !.frames_completed = @ + 1]
        /\ call' = [call EXCEPT !.at = IF call.op = "step" THEN "prepare" ELSE "oldest"]
        /\ Sample(frame, FALSE, FALSE)
    BY <1>3 DEF WaitVideoOutReturns, Account, Goto
  <2>2. /\ result'.state = "ACTIVE"
        /\ result'.frames_completed = result.frames_completed + 1
        /\ call'.slot = b /\ call'.op = call.op
        /\ call'.at \in {"prepare", "oldest"}
        /\ call'.at = "prepare" => call.op = "step"
    BY <1>1, <2>1 DEF ResultType
  <2>3. /\ ~pending'[b].active
        /\ \A c \in Buffers \ {b} : pending'[c] = pending[c]
    BY <1>1, <2>1, Shapes DEF PendingType
  <2>4. FlightOrder'
    <3>1. ASSUME NEW c \in Active'
          PROVE  /\ pending'[c].frame_index % 2 = c
                 /\ result'.frames_completed <= pending'[c].frame_index
                 /\ pending'[c].frame_index
                      < result'.frames_completed + active_frames'
      <4>1. c \in Active /\ c # b /\ pending'[c] = pending[c]
        BY <2>3 DEF Active
      <4>2. /\ pending[c].frame_index % 2 = c
            /\ result.frames_completed <= pending[c].frame_index
            /\ pending[c].frame_index < result.frames_completed + active_frames
            /\ pending[c].frame_index \in Nat
        BY <4>1, <1>1, Numbers DEF OrderInv, FlightOrder
      <4>3. pending[c].frame_index # result.frames_completed
        BY <4>1, <4>2, <1>1
      <4> QED BY <4>1, <4>2, <4>3, <2>1, <2>2, Numbers
    <3>2. call.op = "step" => call.slot = next_frame_index % 2
      BY <1>1 DEF OrderInv, FlightOrder, At
    <3> QED BY <3>1, <3>2, <2>1, <2>2 DEF FlightOrder, At
  <2>5. /\ SamplesSorted'
        /\ \A i \in DOMAIN samples' :
             (i \in DOMAIN samples /\ samples'[i] = samples[i])
               \/ samples'[i] = <<frame, FALSE>>
        /\ ShouldSample(frame, FALSE) =>
             samples' # <<>> /\ samples'[Len(samples')] = <<frame, FALSE>>
        /\ ~ShouldSample(frame, FALSE) => samples' = samples
    <3> HIDE DEF frame
    <3> QED BY <1>1, <1>2, <2>1, SampleAdds DEF OrderInv, SampleOrder
  <2>6. LastCompleted' = frame /\ frame < result'.frames_completed
    BY <1>1, <2>2, Numbers DEF LastCompleted
  <2>7. \A i \in DOMAIN samples' :
          samples'[i][1] < result'.frames_completed /\ ~samples'[i][2]
    <3> SUFFICES ASSUME NEW i \in DOMAIN samples'
                 PROVE  samples'[i][1] < result'.frames_completed /\ ~samples'[i][2]
      OBVIOUS
    <3> HIDE DEF frame
    <3>1. CASE samples'[i] = <<frame, FALSE>>
      BY <3>1, <2>6
    <3>2. CASE i \in DOMAIN samples /\ samples'[i] = samples[i]
      <4>1. samples[i] \in Indices \X BOOLEAN
        BY <3>2, <1>1, Shapes, ElementOfSeq
      <4>2. samples[i][1] < result.frames_completed /\ ~samples[i][2]
        BY <3>2, <1>1 DEF OrderInv, SampleOrder
      <4> QED BY <3>2, <4>1, <4>2, <2>2, Numbers, LoopAssumption DEF Indices
    <3> QED BY <3>1, <3>2, <2>5
  <2>8. ~ShouldSample(frame, FALSE) => \A i \in DOMAIN samples' : samples'[i][1] # frame
    <3> SUFFICES ASSUME ~ShouldSample(frame, FALSE), NEW i \in DOMAIN samples
                 PROVE  samples[i][1] # frame
      BY <2>5
    <3>1. samples[i] \in Indices \X BOOLEAN /\ samples[i][1] < frame
      BY <1>1, <1>2, Shapes, ElementOfSeq
    <3> QED BY <3>1, <1>1, Numbers, LoopAssumption DEF Indices
  <2>9. SampleOrder' /\ SamplesInOrder'
    <3> HIDE DEF frame
    <3>1. ShouldSample(LastCompleted, FALSE)' <=> ShouldSample(frame, FALSE)
      BY <2>6 DEF ShouldSample
    <3> QED BY <3>1, <2>2, <2>5, <2>6, <2>7, <2>8
            DEF SampleOrder, SamplesInOrder, SamplesSorted
  <2> QED BY <2>4, <2>9 DEF OrderInv
<1>4. CASE ok /\ T!Holds(b, "SUBMITTED", observed) /\ ~counted
  <2>1. /\ result' = [result EXCEPT !.state = "TELEMETRY_FAILURE",
                                    !.failed_frame = frame]
        /\ Sample(frame, TRUE, FALSE)
    BY <1>4 DEF WaitVideoOutReturns, Account
  <2>2. result'.state = "TELEMETRY_FAILURE"
    BY <1>1, <2>1 DEF ResultType
  <2> HIDE DEF frame
  <2>3. SamplesSorted'
    BY <1>1, <1>2, <2>1, SampleAdds DEF OrderInv, SampleOrder
  <2> QED BY <2>2, <2>3 DEF OrderInv, FlightOrder, SampleOrder, SamplesInOrder,
                            SamplesSorted
<1>5. CASE ~(ok /\ T!Holds(b, "SUBMITTED", observed))
  <2>1. RetainFailure(b, frame)
    BY <1>5 DEF WaitVideoOutReturns
  <2> QED BY <1>1, <2>1, FailureOrder
<1> QED BY <1>3, <1>4, <1>5

(* A frame is prepared: it takes the next index and the slot of its parity. *)
LEMMA PrepareOkOrder == ASSUME IInv, OrderInv, PrepareOk PROVE OrderInv'
<1> DEFINE b == call.slot
<1>1. /\ result.state = "ACTIVE" /\ At("prepare") /\ b \in Buffers
      /\ ~pending[b].active /\ call.op = "step"
      /\ call \in [op : {"none", "step", "drain"}, at : Places, slot : Buffers]
      /\ b = next_frame_index % 2
  BY Shapes DEF IInv, CallConsistent, PrepareOk, At, OrderInv, FlightOrder
<1>2. /\ next_frame_index' = next_frame_index + 1
      /\ pending' = [pending EXCEPT ![b].token = next_token,
                                    ![b].frame_index = next_frame_index]
      /\ call' = [call EXCEPT !.at = "compose"]
      /\ UNCHANGED <<active_frames, result, samples>>
  BY DEF PrepareOk, Goto
<1>3. /\ pending'[b].frame_index = next_frame_index /\ ~pending'[b].active
      /\ \A c \in Buffers \ {b} : pending'[c] = pending[c]
      /\ call'.at = "compose" /\ call'.slot = b /\ call'.op = "step"
  BY <1>1, <1>2, Shapes DEF IInv, PendingType
<1>4. FlightOrder'
  <2>1. Active' = Active /\ \A c \in Active : pending'[c] = pending[c]
    BY <1>1, <1>3 DEF Active
  <2>2. next_frame_index' - 1 = next_frame_index
    BY <1>2, Numbers
  <2> HIDE DEF b
  <2>3. \A c \in Active :
          /\ pending[c].frame_index % 2 = c
          /\ result.frames_completed <= pending[c].frame_index
          /\ pending[c].frame_index < result.frames_completed + active_frames
    BY <1>1 DEF OrderInv, FlightOrder
  <2> QED BY <2>1, <2>2, <2>3, <1>1, <1>2, <1>3 DEF FlightOrder, At
<1> QED BY <1>1, <1>2, <1>4, SamplesKept DEF OrderInv

(* Preparing fails: the frame that would have been next is the one named.   *)
LEMMA PrepareFailsOrder ==
  ASSUME IInv, OrderInv,
         PrepareSceneFails \/ \E clock_ok \in BOOLEAN : PrepareRefused(clock_ok)
  PROVE  OrderInv'
<1>1. At("prepare") /\ ~At("idle") /\ FailBeforeSubmit(next_frame_index)
  BY DEF PrepareSceneFails, PrepareRefused, At
<1>2. next_frame_index \in Indices /\ result.frames_completed <= next_frame_index
  BY Shapes, Numbers DEF IInv, Counts
<1> QED BY <1>1, <1>2, FailureOrder

(* compose returns: the frame joins those in flight as the youngest, or it  *)
(* is the one that failed.                                                  *)
LEMMA ComposeOrder ==
  ASSUME IInv, OrderInv, NEW ok \in BOOLEAN, ComposeReturns(ok) PROVE OrderInv'
<1> DEFINE b == call.slot
           frame == pending[b].frame_index
<1>1. /\ result.state = "ACTIVE" /\ At("compose") /\ ~At("idle") /\ b \in Buffers
      /\ ~pending[b].active /\ call.op = "step"
      /\ call \in [op : {"none", "step", "drain"}, at : Places, slot : Buffers]
      /\ result \in ResultType /\ frame \in Indices
      /\ frame = next_frame_index - 1 /\ frame % 2 = b
  BY Shapes DEF IInv, CallConsistent, ComposeReturns, At, OrderInv, FlightOrder,
                PendingType
<1>2. frame = result.frames_completed + active_frames
      /\ result.frames_completed <= frame
  BY <1>1, Numbers DEF IInv, Counts
<1>3. CASE ok
  <2>1. /\ pending' = [pending EXCEPT ![b].active = TRUE]
        /\ active_frames' = active_frames + 1
        /\ result' = [result EXCEPT !.max_frames_in_flight =
                         IF active_frames + 1 > @ THEN active_frames + 1 ELSE @]
        /\ call' = [call EXCEPT !.at = "submit"]
        /\ UNCHANGED <<next_frame_index, samples>>
    BY <1>3 DEF ComposeReturns, Goto
  <2>2. /\ result'.state = "ACTIVE"
        /\ result'.frames_completed = result.frames_completed
        /\ call'.at = "submit" /\ call'.slot = b
    BY <1>1, <2>1 DEF ResultType
  <2>3. /\ pending'[b].frame_index = frame
        /\ \A c \in Buffers \ {b} : pending'[c] = pending[c]
    BY <1>1, <2>1, Shapes DEF IInv, PendingType
  <2>4. ASSUME NEW c \in Active'
        PROVE  /\ pending'[c].frame_index % 2 = c
               /\ result'.frames_completed <= pending'[c].frame_index
               /\ pending'[c].frame_index < result'.frames_completed + active_frames'
    <3>1. CASE c = b
      BY <3>1, <1>1, <1>2, <2>1, <2>2, <2>3, Numbers
    <3>2. CASE c # b
      <4>1. c \in Active /\ pending'[c] = pending[c]
        BY <3>2, <2>3 DEF Active
      <4>2. /\ pending[c].frame_index % 2 = c
            /\ result.frames_completed <= pending[c].frame_index
            /\ pending[c].frame_index < result.frames_completed + active_frames
            /\ pending[c].frame_index \in Nat
        BY <4>1, <1>1, Numbers DEF OrderInv, FlightOrder
      <4> QED BY <4>1, <4>2, <2>1, <2>2, Numbers
    <3> QED BY <3>1, <3>2
  <2>5. FlightOrder'
    BY <2>2, <2>4 DEF FlightOrder, At
  <2> QED BY <1>1, <2>1, <2>2, <2>5, SamplesKept DEF OrderInv
<1>4. CASE ~ok
  BY <1>1, <1>2, <1>4, FailureOrder DEF ComposeReturns
<1> QED BY <1>3, <1>4

(* submit returns, and the call with it, or the frame it was for failed.    *)
LEMMA SubmitOrder ==
  ASSUME IInv, OrderInv, NEW ok \in BOOLEAN, SubmitReturns(ok) PROVE OrderInv'
<1> DEFINE b == call.slot
<1>1. result.state = "ACTIVE" /\ ~At("idle") /\ b \in Active
  BY Shapes DEF IInv, CallConsistent, SubmitReturns, Active, At
<1>2. CASE ok
  <2>1. /\ call' = Idle
        /\ UNCHANGED <<next_frame_index, pending, active_frames, result, samples>>
    BY <1>2 DEF SubmitReturns, Return
  <2>2. FlightOrder'
    BY <2>1 DEF OrderInv, FlightOrder, At, Idle, Active
  <2> QED BY <1>1, <2>1, <2>2, SamplesKept DEF OrderInv
<1>3. CASE ~ok
  <2>1. RetainFailure(b, pending[b].frame_index)
    BY <1>3 DEF SubmitReturns
  <2>2. /\ pending[b].frame_index \in Indices
        /\ result.frames_completed <= pending[b].frame_index
    BY <1>1, Shapes DEF IInv, PendingType, OrderInv, FlightOrder, Active
  <2> QED BY <1>1, <2>1, <2>2, FailureOrder
<1> QED BY <1>2, <1>3

(* Every step keeps the order.                                              *)
LEMMA NextOrder == ASSUME IInv, OrderInv, [Next]_loopVars PROVE OrderInv'
<1>1. CASE UNCHANGED loopVars
  BY <1>1 DEF loopVars, OrderInv, FlightOrder, At, Active, SampleOrder,
     SamplesSorted, SamplesInOrder, LastCompleted, ShouldSample
<1>2. CASE StepCall
  BY <1>2, StepCallOrder
<1>3. CASE DrainCall \/ RejectedCall
  BY <1>3, QuietOrder
<1>4. CASE Internal
  BY <1>4, DrainOldestOrder, DrainCompleteOrder DEF Internal
<1>5. CASE PrepareOk
  BY <1>5, PrepareOkOrder
<1>6. CASE PrepareSceneFails \/ \E clock_ok \in BOOLEAN : PrepareRefused(clock_ok)
  BY <1>6, PrepareFailsOrder
<1>7. ASSUME NEW ok \in BOOLEAN, ComposeReturns(ok) PROVE OrderInv'
  BY <1>7, ComposeOrder
<1>8. ASSUME NEW ok \in BOOLEAN, SubmitReturns(ok) PROVE OrderInv'
  BY <1>8, SubmitOrder
<1>9. ASSUME NEW ok \in BOOLEAN, WaitGpuReturns(ok) PROVE OrderInv'
  BY <1>9, WaitGpuOrder
<1>10. ASSUME NEW ok \in BOOLEAN, NEW observed \in Observable,
              NEW counted \in BOOLEAN, WaitVideoOutReturns(ok, observed, counted)
       PROVE  OrderInv'
  BY <1>10, WaitVideoOutOrder
<1> QED BY <1>1, <1>2, <1>3, <1>4, <1>5, <1>6, <1>7, <1>8, <1>9, <1>10
        DEF Next, InCall

-----------------------------------------------------------------------------
(* Both invariants hold in every state of every run.                        *)
THEOREM LoopOrder == Spec => [](IInv /\ OrderInv)
<1>1. Init => IInv /\ OrderInv
  BY InitIInv, InitOrder
<1>2. IInv /\ OrderInv /\ [Next]_loopVars => (IInv /\ OrderInv)'
  BY NextIInv, NextOrder
<1> QED BY <1>1, <1>2, PTL DEF Spec

(* The telemetry callback sees each frame at most once and in order, an     *)
(* error only at the very end, and always the final frame of a run that     *)
(* completes, whatever the sampling period (src/gears_frame_runner.c).      *)
THEOREM LoopSamplesInOrder == Spec => []SamplesInOrder
<1>1. OrderInv => SamplesInOrder
  BY DEF OrderInv
<1> QED BY <1>1, LoopOrder, PTL

-----------------------------------------------------------------------------
(* The refinement: the frames in flight are the indices of the pending      *)
(* slots.                                                                   *)
InFlight == {pending[b].frame_index : b \in Active}

Outcome == IF result.state = "ACTIVE" THEN "running"
           ELSE IF result.state = "COMPLETE" THEN "complete" ELSE "failed"

flightVars == <<InFlight, result.frames_completed, Outcome>>

(* FramesInFlight counts with the same Cardinality as the runner's module.  *)
LEMMA FlightCardinality == \A S : Flight!Cardinality(S) = Cardinality(S)
  BY DEF Cardinality, Flight!Cardinality

(* The abstract number of frames in flight is the runner's counter.         *)
LEMMA InFlightSize ==
  ASSUME IInv, OrderInv, result.state = "ACTIVE"
  PROVE  Cardinality(InFlight) = active_frames
<1>1. \A b \in Active : pending[b].frame_index % 2 = b
  BY DEF OrderInv, FlightOrder
<1>2. CASE Active = {}
  <2>1. InFlight = {}
    BY <1>2 DEF InFlight
  <2>2. active_frames = 0
    BY <1>2 DEF IInv, Counts, InFlightCount, Active, Buffers
  <2> QED BY <2>1, <2>2, FS_EmptySet
<1>3. ASSUME NEW b \in Buffers, Active = {b}
      PROVE  Cardinality(InFlight) = active_frames
  <2>1. InFlight = {pending[b].frame_index}
    BY <1>3 DEF InFlight
  <2>2. active_frames = 1
    BY <1>3 DEF IInv, Counts, InFlightCount, Active, Buffers
  <2> QED BY <2>1, <2>2, FS_Singleton
<1>4. CASE Active = {0, 1}
  <2> DEFINE i == pending[0].frame_index
             j == pending[1].frame_index
  <2>1. InFlight = {i} \cup {j}
    BY <1>4 DEF InFlight
  <2>2. i % 2 = 0 /\ j % 2 = 1
    <3>1. 0 \in Active /\ 1 \in Active
      BY <1>4
    <3> QED BY <3>1, <1>1
  <2> HIDE DEF i, j
  <2>3. j \notin {i}
    BY <2>2
  <2>4. Cardinality({i} \cup {j}) = 2
    <3>1. IsFiniteSet({i}) /\ Cardinality({i}) = 1
      BY FS_Singleton
    <3>2. Cardinality({i} \cup {j}) = Cardinality({i}) + 1
      BY <2>3, <3>1, FS_AddElement
    <3> QED BY <3>1, <3>2
  <2>5. active_frames = 2
    BY <1>4 DEF IInv, Counts, InFlightCount, Active, Buffers
  <2> QED BY <2>1, <2>4, <2>5
<1>5. Active = {} \/ (\E b \in Buffers : Active = {b}) \/ Active = {0, 1}
  BY DEF Active, Buffers
<1> QED BY <1>2, <1>3, <1>4, <1>5

(* An empty runner is an empty flight.                                      *)
LEMMA InitFlight == Init => Flight!Init
  BY DEF Init, LoopInit, Flight!Init, Active

(* A step that leaves the pending frames, the count and the state of the    *)
(* run alone is no step of the flight.                                      *)
LEMMA FlightStutters ==
  ASSUME pending' = pending, result.frames_completed' = result.frames_completed,
         result.state' = result.state
  PROVE  UNCHANGED flightVars
  BY DEF flightVars, InFlight, Outcome, Active

(* A failure freezes the flight as it is.                                   *)
LEMMA FailureFails ==
  ASSUME IInv, ~At("idle"), NEW frame,
         FailBeforeSubmit(frame) \/ \E b \in Active : RetainFailure(b, frame),
         InFlight' = InFlight
  PROVE  Flight!Next
<1>1. result.state = "ACTIVE" /\ result \in ResultType
  BY Shapes DEF IInv, CallConsistent
<1>2. /\ result'.state \in {"PRE_SUBMIT_FAILURE", "POST_SUBMIT_RETAIN"}
      /\ result'.frames_completed = result.frames_completed
  BY <1>1 DEF FailBeforeSubmit, RetainFailure, ResultType
<1>3. Flight!Fail
  BY <1>1, <1>2 DEF Flight!Fail, InFlight
<1> QED BY <1>3 DEF Flight!Next

(* compose: the frame joins with the index after the youngest's.            *)
LEMMA ComposeFlies ==
  ASSUME IInv, OrderInv, NEW ok \in BOOLEAN, ComposeReturns(ok) PROVE Flight!Next
<1> DEFINE b == call.slot
<1>1. /\ result.state = "ACTIVE" /\ At("compose") /\ ~At("idle") /\ b \in Buffers
      /\ ~pending[b].active /\ result \in ResultType
      /\ pending[b].frame_index = next_frame_index - 1
  BY Shapes DEF IInv, CallConsistent, ComposeReturns, At, OrderInv, FlightOrder
<1>2. CASE ok
  <2>1. /\ pending' = [pending EXCEPT ![b].active = TRUE]
        /\ result' = [result EXCEPT !.max_frames_in_flight =
                         IF active_frames + 1 > @ THEN active_frames + 1 ELSE @]
        /\ active_frames' = active_frames + 1
    BY <1>2 DEF ComposeReturns
  <2>2. /\ result'.state = "ACTIVE"
        /\ result'.frames_completed = result.frames_completed
    BY <1>1, <2>1 DEF ResultType
  <2>3. /\ pending'[b].active /\ pending'[b].frame_index = pending[b].frame_index
        /\ \A c \in Buffers \ {b} : pending'[c] = pending[c]
    BY <1>1, <2>1, Shapes DEF IInv, PendingType
  <2>4. Active' = Active \cup {b}
    BY <1>1, <2>3 DEF Active
  <2>5. InFlight' = InFlight \cup {pending[b].frame_index}
    <3>1. \A c \in Active : pending'[c].frame_index = pending[c].frame_index
      BY <1>1, <2>3 DEF Active
    <3> QED BY <2>3, <2>4, <3>1 DEF InFlight
  <2>6. Cardinality(InFlight) = active_frames
    BY <1>1, InFlightSize
  <2>7. active_frames < 2
    BY <1>1, <2>1 DEF IInv, Counts, InFlightCount, Buffers
  <2>8. pending[b].frame_index = result.frames_completed + active_frames
    BY <1>1, Numbers DEF IInv, Counts
  <2>9. Flight!Submit
    <3>1. Cardinality(InFlight) < 2
      BY <2>6, <2>7
    <3>2. InFlight' =
            InFlight \cup {result.frames_completed + Cardinality(InFlight)}
      BY <2>5, <2>6, <2>8
    <3>3. Flight!Cardinality(InFlight) = Cardinality(InFlight)
      BY FlightCardinality
    <3> QED BY <1>1, <2>2, <3>1, <3>2, <3>3 DEF Flight!Submit, InFlight
  <2> QED BY <2>9 DEF Flight!Next
<1>3. CASE ~ok
  <2>1. pending' = pending
    BY <1>3 DEF ComposeReturns
  <2>2. InFlight' = InFlight
    BY <2>1 DEF InFlight, Active
  <2> QED BY <1>1, <1>3, <2>2, FailureFails DEF ComposeReturns
<1> QED BY <1>2, <1>3

(* VideoOut's report: the oldest frame leaves, counted or not.              *)
LEMMA WaitVideoOutFlies ==
  ASSUME IInv, OrderInv, NEW ok \in BOOLEAN, NEW observed, NEW counted \in BOOLEAN,
         WaitVideoOutReturns(ok, observed, counted)
  PROVE  Flight!Next
<1> DEFINE b == call.slot
           frame == pending[b].frame_index
<1>1. /\ At("wait_videoout") /\ b \in Active /\ b \in Buffers /\ ~At("idle")
      /\ result.state = "ACTIVE" /\ frame = result.frames_completed
      /\ result \in ResultType
  BY Shapes DEF IInv, CallConsistent, WaitVideoOutReturns, Active, At,
                OrderInv, FlightOrder
<1>2. CASE ok /\ T!Holds(b, "SUBMITTED", observed)
  <2>1. pending' = [pending EXCEPT ![b].active = FALSE] /\ Account(b, counted)
    BY <1>2 DEF WaitVideoOutReturns
  <2>2. \/ /\ result'.state = "ACTIVE"
           /\ result'.frames_completed = result.frames_completed + 1
        \/ /\ result'.state = "TELEMETRY_FAILURE"
           /\ result'.frames_completed = result.frames_completed
    BY <1>1, <2>1 DEF Account, ResultType
  <2>3. /\ ~pending'[b].active
        /\ \A c \in Buffers \ {b} : pending'[c] = pending[c]
    BY <1>1, <2>1, Shapes DEF IInv, PendingType
  <2>4. Active' = Active \ {b} /\ \A c \in Active' : pending'[c] = pending[c]
    BY <1>1, <2>3 DEF Active
  <2>5. \A c \in Active : c # b => pending[c].frame_index # frame
    <3> SUFFICES ASSUME NEW c \in Active, c # b
                 PROVE  pending[c].frame_index # frame
      OBVIOUS
    <3>1. pending[c].frame_index % 2 = c /\ frame % 2 = b
      BY <1>1 DEF OrderInv, FlightOrder
    <3> QED BY <3>1
  <2>6. InFlight' = InFlight \ {frame} /\ frame \in InFlight
    <3>1. InFlight' = {pending[c].frame_index : c \in Active \ {b}}
      BY <2>4 DEF InFlight
    <3>2. frame \in InFlight
      BY <1>1 DEF InFlight
    <3>3. {pending[c].frame_index : c \in Active \ {b}} = InFlight \ {frame}
      BY <2>5 DEF InFlight
    <3> QED BY <3>1, <3>2, <3>3
  <2>7. \A g \in InFlight : frame <= g
    BY <1>1 DEF InFlight, OrderInv, FlightOrder
  <2>8. Flight!Oldest(frame)
    BY <2>6, <2>7 DEF Flight!Oldest, InFlight
  <2> HIDE DEF frame
  <2>9. Flight!Retire \/ Flight!RetireUncounted
    BY <1>1, <2>2, <2>6, <2>8 DEF Flight!Retire, Flight!RetireUncounted, InFlight
  <2> QED BY <2>9 DEF Flight!Next
<1>3. CASE ~(ok /\ T!Holds(b, "SUBMITTED", observed))
  <2>1. RetainFailure(b, frame) /\ pending' = pending
    BY <1>3 DEF WaitVideoOutReturns
  <2>2. InFlight' = InFlight
    BY <2>1 DEF InFlight, Active
  <2> QED BY <1>1, <2>1, <2>2, FailureFails
<1> QED BY <1>2, <1>3

(* The callbacks that leave the pending frames as they are, or fail.        *)
LEMMA OthersFly ==
  ASSUME IInv, OrderInv,
         \/ PrepareSceneFails
         \/ \E ok \in BOOLEAN : PrepareRefused(ok) \/ SubmitReturns(ok)
                                  \/ WaitGpuReturns(ok)
  PROVE  Flight!Next \/ UNCHANGED flightVars
<1>1. CASE PrepareSceneFails
  <2>1. /\ ~At("idle") /\ FailBeforeSubmit(next_frame_index)
        /\ call.slot \in Buffers /\ ~pending[call.slot].active
        /\ pending' = [pending EXCEPT ![call.slot].token = next_token,
                                      ![call.slot].frame_index = next_frame_index]
    BY <1>1, Numbers DEF PrepareSceneFails, At, IInv, CallConsistent
  <2>2. Active' = Active /\ \A c \in Active : pending'[c] = pending[c]
    BY <2>1, Shapes DEF Active, IInv, PendingType
  <2>3. InFlight' = InFlight
    BY <2>2 DEF InFlight
  <2> QED BY <2>1, <2>3, FailureFails
<1>2. ASSUME NEW ok \in BOOLEAN, PrepareRefused(ok) PROVE Flight!Next
  <2>1. /\ ~At("idle") /\ FailBeforeSubmit(next_frame_index) /\ pending' = pending
    BY <1>2 DEF PrepareRefused, At
  <2> QED BY <2>1, FailureFails DEF InFlight, Active
<1>3. ASSUME NEW ok \in BOOLEAN, SubmitReturns(ok) \/ WaitGpuReturns(ok)
      PROVE  Flight!Next \/ UNCHANGED flightVars
  <2>1. pending' = pending /\ ~At("idle") /\ call.slot \in Active
    BY <1>3, Numbers DEF SubmitReturns, WaitGpuReturns, At, IInv, CallConsistent, Active
  <2>2. \/ result' = result
        \/ RetainFailure(call.slot, pending[call.slot].frame_index)
    BY <1>3 DEF SubmitReturns, WaitGpuReturns
  <2>3. InFlight' = InFlight
    BY <2>1 DEF InFlight, Active
  <2> QED BY <2>1, <2>2, <2>3, FailureFails, FlightStutters
<1> QED BY <1>1, <1>2, <1>3

(* The runner's own steps: a call begins, a frame is prepared, drain looks  *)
(* for the oldest frame or finds none.                                      *)
LEMMA OwnStepsFly ==
  ASSUME IInv, OrderInv,
         StepCall \/ DrainCall \/ RejectedCall \/ PrepareOk \/ Internal
  PROVE  Flight!Next \/ UNCHANGED flightVars
<1>1. CASE StepCall \/ DrainCall \/ RejectedCall \/ DrainOldest
  <2>1. pending' = pending /\ result' = result
    BY <1>1 DEF StepCall, DrainCall, RejectedCall, DrainOldest
  <2> QED BY <2>1, FlightStutters
<1>2. CASE PrepareOk
  <2>1. /\ result' = result /\ call.slot \in Buffers /\ ~pending[call.slot].active
        /\ pending' = [pending EXCEPT ![call.slot].token = next_token,
                                      ![call.slot].frame_index = next_frame_index]
    BY <1>2, Numbers DEF PrepareOk, At, IInv, CallConsistent
  <2>2. Active' = Active /\ \A c \in Active : pending'[c] = pending[c]
    BY <2>1, Shapes DEF Active, IInv, PendingType
  <2> QED BY <2>1, <2>2 DEF flightVars, InFlight, Outcome
<1>3. CASE DrainComplete
  <2>1. /\ result.state = "ACTIVE" /\ result \in ResultType
        /\ result' = [result EXCEPT !.state = "COMPLETE"]
        /\ pending' = pending /\ Active = {}
    BY <1>3, Shapes DEF DrainComplete, IInv, CallConsistent, At, Counts,
                        InFlightCount, Active, Buffers
  <2>2. result'.state = "COMPLETE"
        /\ result'.frames_completed = result.frames_completed
    BY <2>1 DEF ResultType
  <2>3. InFlight' = InFlight /\ InFlight = {}
    BY <2>1 DEF InFlight, Active
  <2>4. Flight!Finish
    BY <2>1, <2>2, <2>3 DEF Flight!Finish, InFlight
  <2> QED BY <2>4 DEF Flight!Next
<1> QED BY <1>1, <1>2, <1>3 DEF Internal

(* Frames are numbered without a gap, at most two are in flight, they leave *)
(* oldest first, and a run that fails keeps in flight whatever had not left *)
(* (src/gears_frame_runner.c): the runner implements FramesInFlight.        *)
THEOREM LoopRefinesFlight == Spec => ImplementsFramesInFlight
<1>1. Init => Flight!Init
  BY InitFlight
<1>2. IInv /\ OrderInv /\ [Next]_loopVars => [Flight!Next]_flightVars
  <2> SUFFICES ASSUME IInv, OrderInv, [Next]_loopVars
               PROVE  Flight!Next \/ UNCHANGED flightVars
    OBVIOUS
  <2>1. CASE UNCHANGED loopVars
    BY <2>1, FlightStutters DEF loopVars
  <2>2. ASSUME NEW ok \in BOOLEAN, ComposeReturns(ok) PROVE Flight!Next
    BY <2>2, ComposeFlies
  <2>3. ASSUME NEW ok \in BOOLEAN, NEW observed \in Observable,
               NEW counted \in BOOLEAN, WaitVideoOutReturns(ok, observed, counted)
        PROVE  Flight!Next
    BY <2>3, WaitVideoOutFlies
  <2> QED BY <2>1, <2>2, <2>3, OthersFly, OwnStepsFly DEF Next, InCall
<1>3. [](IInv /\ OrderInv) /\ [][Next]_loopVars => [][Flight!Next]_flightVars
  BY <1>2, PTL
<1> QED
  BY <1>1, <1>3, LoopOrder, PTL
     DEF Spec, ImplementsFramesInFlight, Flight!Spec, flightVars, InFlight, Outcome
=============================================================================
