------------------------- MODULE FrameTrackerClient -------------------------
(***************************************************************************)
(* The frame tracker under the most general caller: any operation on any    *)
(* buffer, in any order, with the right token, with one issued before, or   *)
(* with one issued to the other buffer.  The history variable `reports`     *)
(* remembers which device spoke for which token while that token was        *)
(* outstanding, which is what the tracker's flags are supposed to stand for.*)
(***************************************************************************)
EXTENDS FrameTracker

VARIABLE reports   (* {<<token, engine>>} reported while outstanding        *)

vars == <<slots, next_token, reports>>

Engines == {"gpu", "videoout"}

Issued == FirstToken .. next_token - 1

Outstanding(t) ==
  \E b \in Buffers : slots[b].phase = "SUBMITTED" /\ slots[b].token = t

Init == TrackerInit /\ reports = {}

DoBegin(b)          == Begin(b)            /\ UNCHANGED reports
DoCancel(b, t)      == CancelPreSubmit(b, t) /\ UNCHANGED reports
DoMarkSubmitted(b, t) == MarkSubmitted(b, t) /\ UNCHANGED reports

(* Engine e says that token t is done, and the caller passes it on for      *)
(* buffer b.  The tracker ignores a report that is stale, early, or crossed *)
(* with the other buffer's token.                                           *)
Report(b, t, e) ==
  /\ reports' = IF Outstanding(t) THEN reports \cup {<<t, e>>} ELSE reports
  /\ IF Holds(b, "SUBMITTED", t)
       THEN IF e = "gpu" THEN MarkGpuComplete(b, t)
                         ELSE MarkVideoOutComplete(b, t)
       ELSE UNCHANGED trackerVars

Next ==
  \E b \in Buffers :
    \/ DoBegin(b)
    \/ \E t \in Issued :
         \/ DoCancel(b, t)
         \/ DoMarkSubmitted(b, t)
         \/ \E e \in Engines : Report(b, t, e)

Spec == Init /\ [][Next]_vars
-----------------------------------------------------------------------------
(* The state is well formed; the token counter stops one past MaxToken and  *)
(* is never wrapped back into the range of tokens in use.                   *)
TypeOK ==
  /\ TrackerTypeOK
  /\ reports \subseteq Issued \X Engines

(* Two slots never carry the same token, and none carries one that the      *)
(* counter will hand out again, so a token in a VideoOut event names one    *)
(* frame (gears_frame_begin, docs/TELEMETRY.md "one unique positive 48-bit  *)
(* flip token per frame").                                                  *)
TokensDistinct ==
  /\ \A b \in Buffers : slots[b].phase # "EMPTY" => slots[b].token \in Issued
  /\ \A b, c \in Buffers :
       b # c /\ slots[b].phase # "EMPTY" /\ slots[c].phase # "EMPTY"
         => slots[b].token # slots[c].token

(* A completion flag is set only if that engine reported the slot's present *)
(* token while it was outstanding: a flag is never inherited from the frame *)
(* that used the slot before, and never set by the other buffer's token.    *)
FlagsAreReports ==
  \A b \in Buffers :
    /\ slots[b].gpu_complete => <<slots[b].token, "gpu">> \in reports
    /\ slots[b].videoout_complete => <<slots[b].token, "videoout">> \in reports

(* The tracker implements BufferOwnership: hidden behind slots and flags,   *)
(* a buffer changes hands only the way that specification allows.           *)
AbstractOwner ==
  [b \in Buffers |->
     [with  |-> IF slots[b].phase = "EMPTY" THEN "nobody"
                ELSE IF slots[b].phase = "PREPARED" THEN "cpu" ELSE "devices",
      token |-> slots[b].token]]

Ownership == INSTANCE BufferOwnership
               WITH owner <- AbstractOwner, issued <- Issued, done <- reports

ImplementsOwnership == Ownership!Spec
=============================================================================
