----------------------- MODULE FrameCompletionClient -----------------------
(***************************************************************************)
(* The completion wait on its own: a caller that waits for one token after  *)
(* another, a GPU that clears the fence and a VideoOut that posts flip      *)
(* events whenever they like, in either order and between the two halves of *)
(* a poll.  The queue may also hold an event that belongs to another frame  *)
(* or that cannot be decoded.                                               *)
(***************************************************************************)
EXTENDS FrameCompletion, Sequences

CONSTANTS Waits,       (* the tokens waited for are 1 .. Waits              *)
          QueueBound   (* the most events the model lets the queue hold     *)

ASSUME ClientAssumption == Waits \in Nat \ {0} /\ QueueBound \in Nat \ {0}

VARIABLES
  fence,      (* the GPU fence word of the frame waited for                 *)
  equeue,     (* the event queue                                            *)
  flipped,    (* the tokens VideoOut has posted                             *)
  late        (* the deadline of this wait has passed                       *)

vars == <<completion, poll, verdict, fence, equeue, flipped, late>>

Expected == completion.expected_flip_arg

Init ==
  /\ CompletionInit
  /\ fence = 0 /\ equeue = <<>> /\ flipped = {} /\ late = FALSE

(* A new frame was submitted: its fence was set to 1 and the wait begins.   *)
NextWait ==
  /\ ~poll.busy
  /\ completion = NotBegun \/ completion.cleanup_allowed
  /\ Expected < Waits
  /\ CompletionBegin(Expected + 1)
  /\ fence' = 1 /\ late' = FALSE
  /\ UNCHANGED <<equeue, flipped>>

StartPoll ==
  /\ \E fence_expired, video_expired \in {FALSE, late} :
       PollStart(fence, fence_expired, video_expired)
  /\ UNCHANGED <<fence, equeue, flipped, late>>

TakeEvent ==
  /\ equeue # <<>>
  /\ PollEnd(Head(equeue))
  /\ equeue' = Tail(equeue)
  /\ UNCHANGED <<fence, flipped, late>>

WaitTimesOut ==
  /\ equeue = <<>>
  /\ PollEnd(NoEvent)
  /\ UNCHANGED <<fence, equeue, flipped, late>>

GpuFinishes ==
  /\ fence = 1 /\ fence' = 0
  /\ UNCHANGED <<completionVars, equeue, flipped, late>>

(* VideoOut flips to the frame waited for, or something else speaks on the  *)
(* queue: a token of another frame, or an event that cannot be decoded.     *)
Post(e) ==
  /\ Len(equeue) < QueueBound
  /\ equeue' = Append(equeue, e)
  /\ flipped' = flipped \cup ({e} \ {BadEvent})
  /\ UNCHANGED <<completionVars, fence, late>>

DeadlinePasses ==
  /\ ~late /\ late' = TRUE
  /\ UNCHANGED <<completionVars, fence, equeue, flipped>>

Next ==
  \/ NextWait \/ StartPoll \/ TakeEvent \/ WaitTimesOut
  \/ GpuFinishes \/ DeadlinePasses
  \/ \E e \in {Expected, 0, BadEvent} : Post(e)

Spec == Init /\ [][Next]_vars
-----------------------------------------------------------------------------
(* Resources are given up only for a frame that both devices are really     *)
(* done with: its fence is zero now, and VideoOut flipped to its own token. *)
ReleaseIsEarned ==
  completion.cleanup_allowed => fence = 0 /\ Expected \in flipped

(* A timeout is never blamed on a device whose signal this wait has already *)
(* seen: FENCE_TIMEOUT before the fence, VIDEOOUT_TIMEOUT after it.         *)
TimeoutsBlameTheRightDevice ==
  /\ verdict = "FENCE_TIMEOUT" => ~completion.fence_zero_seen /\ late
  /\ verdict = "VIDEOOUT_TIMEOUT" =>
       /\ fence = 0 /\ late
       /\ completion.fence_zero_seen /\ ~completion.matching_videoout_event_seen

(* A parked wait is final: a late fence, a late event or the end of a poll  *)
(* never reopens it.                                                        *)
ParkedForever == [][completion.parked => completion' = completion]_vars
=============================================================================
