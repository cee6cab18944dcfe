---------------------------- MODULE FrameTracker ----------------------------
(***************************************************************************)
(* The ownership tracker of src/gears_frame_tracker.c: one slot per display *)
(* buffer and a counter that hands out flip tokens.                         *)
(*                                                                          *)
(* Each action below is a call that returns 0.  A call whose precondition   *)
(* is false returns -1 and writes nothing, so it is a stuttering step; the  *)
(* predicates CanBegin and Holds are what a caller reads from the return    *)
(* value.  A definition named after another one with a suffix (BeginSame-   *)
(* Token, HoldsAnyToken, ...) is a plausible bug in that operation; it takes *)
(* no part in the specification.                                            *)
(***************************************************************************)
EXTENDS Naturals

CONSTANTS
  Buffers,     (* the display buffers, 0 .. GEARS_FRAME_BUFFER_COUNT - 1    *)
  FirstToken,  (* GearsFrameRunnerInput.first_flip_token                    *)
  MaxToken     (* kMaxPositiveFlipToken, the largest token VideoOut accepts *)

(* The check of gears_frame_tracker_init: 0 marks an empty slot.            *)
ASSUME TokenAssumption ==
  /\ FirstToken \in Nat \ {0}
  /\ MaxToken \in Nat
  /\ FirstToken <= MaxToken

VARIABLES
  slots,       (* [Buffers -> Slot]                                         *)
  next_token   (* the token the next gears_frame_begin will hand out        *)

trackerVars == <<slots, next_token>>

Phases == {"EMPTY", "PREPARED", "SUBMITTED"}

Tokens == FirstToken .. MaxToken

Slot == [token : {0} \cup Tokens, phase : Phases,
         gpu_complete : BOOLEAN, videoout_complete : BOOLEAN]

EmptySlot == [token |-> 0, phase |-> "EMPTY",
              gpu_complete |-> FALSE, videoout_complete |-> FALSE]

PreparedSlot(t) == [token |-> t, phase |-> "PREPARED",
                    gpu_complete |-> FALSE, videoout_complete |-> FALSE]

TrackerInit ==
  /\ slots = [b \in Buffers |-> EmptySlot]
  /\ next_token = FirstToken

-----------------------------------------------------------------------------
(* gears_frame_can_reuse                                                    *)
CanReuse(b) ==
  \/ slots[b].phase = "EMPTY"
  \/ /\ slots[b].phase = "SUBMITTED"
     /\ slots[b].gpu_complete
     /\ slots[b].videoout_complete

(* gears_frame_begin succeeds                                               *)
CanBeginPastLimit(b) == CanReuse(b)
CanBegin(b) == CanReuse(b) /\ next_token <= MaxToken

(* The test every later call makes: slot b is in phase p for token t.       *)
HoldsAnyToken(b, p, t) == slots[b].phase = p
Holds(b, p, t) == slots[b].phase = p /\ slots[b].token = t

BeginSameToken(b) ==
  /\ CanBegin(b)
  /\ slots' = [slots EXCEPT ![b] = PreparedSlot(next_token)]
  /\ UNCHANGED next_token

BeginKeepingFlags(b) ==
  /\ CanBegin(b)
  /\ slots' = [slots EXCEPT ![b].token = next_token, ![b].phase = "PREPARED"]
  /\ next_token' = next_token + 1

Begin(b) ==
  /\ CanBegin(b)
  /\ slots' = [slots EXCEPT ![b] = PreparedSlot(next_token)]
  /\ next_token' = next_token + 1

CancelPreSubmit(b, t) ==
  /\ Holds(b, "PREPARED", t)
  /\ slots' = [slots EXCEPT ![b] = EmptySlot]
  /\ UNCHANGED next_token

MarkSubmitted(b, t) ==
  /\ Holds(b, "PREPARED", t)
  /\ slots' = [slots EXCEPT ![b].phase = "SUBMITTED"]
  /\ UNCHANGED next_token

MarkGpuComplete(b, t) ==
  /\ Holds(b, "SUBMITTED", t)
  /\ slots' = [slots EXCEPT ![b].gpu_complete = TRUE]
  /\ UNCHANGED next_token

MarkVideoOutComplete(b, t) ==
  /\ Holds(b, "SUBMITTED", t)
  /\ slots' = [slots EXCEPT ![b].videoout_complete = TRUE]
  /\ UNCHANGED next_token

-----------------------------------------------------------------------------
TrackerTypeOK ==
  /\ slots \in [Buffers -> Slot]
  /\ next_token \in FirstToken .. MaxToken + 1
=============================================================================
