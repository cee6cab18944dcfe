-------------------------- MODULE FrameCompletion --------------------------
(***************************************************************************)
(* One frame's wait for its two completion signals: the state machine of    *)
(* src/ps5_frame_completion.c and the poll of src/ps5_event_adapter.c that  *)
(* feeds it.                                                                *)
(*                                                                          *)
(* A poll reads the GPU fence, then waits up to 10 ms on the event queue,   *)
(* then hands both to `observe`.  The fence value is therefore as old as    *)
(* the wait: PollStart and PollEnd are separate actions, and whatever the   *)
(* devices do in between happens between them.  A definition named after    *)
(* another one with a suffix is a plausible bug in it and takes no part in  *)
(* the specification.                                                       *)
(***************************************************************************)
EXTENDS Naturals

CONSTANTS NoEvent, BadEvent   (* what a wait may deliver besides a token    *)

VARIABLES
  completion,   (* struct ps5_frame_completion                              *)
  poll,         (* the observation a poll has started to collect            *)
  verdict       (* what the last poll returned                              *)

completionVars == <<completion, poll, verdict>>

NoPoll == [busy |-> FALSE, fence |-> 0, fence_expired |-> FALSE,
           video_expired |-> FALSE]

NotBegun == [expected_flip_arg |-> 0, transaction_submitted |-> FALSE,
             fence_zero_seen |-> FALSE, matching_videoout_event_seen |-> FALSE,
             retain_all_resources |-> FALSE, cleanup_allowed |-> FALSE,
             parked |-> FALSE]

CompletionInit ==
  completion = NotBegun /\ poll = NoPoll /\ verdict = "NONE"

(* ps5_frame_completion_begin for a submitted transaction                   *)
CompletionBegin(token) ==
  /\ completion' = [NotBegun EXCEPT !.expected_flip_arg = token,
                                    !.transaction_submitted = TRUE,
                                    !.retain_all_resources = TRUE]
  /\ poll' = NoPoll
  /\ verdict' = "WAITING"

-----------------------------------------------------------------------------
(* The precondition of observe and of the poll                              *)
AwaitingThoughParked ==
  completion.transaction_submitted /\ ~completion.cleanup_allowed

Awaiting ==
  /\ completion.transaction_submitted
  /\ ~completion.cleanup_allowed
  /\ ~completion.parked

Park(why) == completion' = [completion EXCEPT !.parked = TRUE] /\ verdict' = why

(* The end of observe: nothing contradicts the frame's own signals.         *)
SettleAnyDeadline(zero_seen, event_seen, o) ==
  LET seen == [completion EXCEPT !.fence_zero_seen = zero_seen,
                                 !.matching_videoout_event_seen = event_seen]
  IN  CASE zero_seen /\ event_seen ->
             /\ completion' = [seen EXCEPT !.cleanup_allowed = TRUE,
                                           !.retain_all_resources = FALSE]
             /\ verdict' = "DONE"
        [] ~(zero_seen /\ event_seen) /\ (o.fence_expired \/ o.video_expired) ->
             /\ completion' = [seen EXCEPT !.parked = TRUE]
             /\ verdict' = "FENCE_TIMEOUT"
        [] OTHER -> completion' = seen /\ verdict' = "WAITING"

Settle(zero_seen, event_seen, o) ==
  LET seen == [completion EXCEPT !.fence_zero_seen = zero_seen,
                                 !.matching_videoout_event_seen = event_seen]
  IN  CASE zero_seen /\ event_seen ->
             /\ completion' = [seen EXCEPT !.cleanup_allowed = TRUE,
                                           !.retain_all_resources = FALSE]
             /\ verdict' = "DONE"
        [] ~zero_seen /\ o.fence_expired ->
             /\ completion' = [seen EXCEPT !.parked = TRUE]
             /\ verdict' = "FENCE_TIMEOUT"
        [] zero_seen /\ ~event_seen /\ o.video_expired ->
             /\ completion' = [seen EXCEPT !.parked = TRUE]
             /\ verdict' = "VIDEOOUT_TIMEOUT"
        [] OTHER -> completion' = seen /\ verdict' = "WAITING"

(* ps5_frame_completion_observe of observation o with event e               *)
ObserveAnyToken(o, e) ==
  IF e # NoEvent /\ o.fence # 0
    THEN Park("EVENT_BEFORE_FENCE")
    ELSE Settle(completion.fence_zero_seen \/ o.fence = 0,
                completion.matching_videoout_event_seen \/ e # NoEvent, o)

Observe(o, e) ==
  CASE e # NoEvent /\ o.fence # 0 -> Park("EVENT_BEFORE_FENCE")
    [] e # NoEvent /\ o.fence = 0 /\ e # completion.expected_flip_arg ->
         Park("UNEXPECTED_FLIP_ARG")
    [] OTHER -> Settle(completion.fence_zero_seen \/ o.fence = 0,
                       completion.matching_videoout_event_seen \/ e # NoEvent,
                       o)

-----------------------------------------------------------------------------
(* ps5_event_poll_completion, up to the call of wait_equeue                 *)
PollStart(fence, fence_expired, video_expired) ==
  /\ Awaiting /\ ~poll.busy
  /\ poll' = [busy |-> TRUE, fence |-> fence, fence_expired |-> fence_expired,
              video_expired |-> video_expired]
  /\ UNCHANGED <<completion, verdict>>

(* wait_equeue returned e: nothing within the timeout, an event that cannot *)
(* be counted or decoded, or the flip argument of one event.                *)
PollEnd(e) ==
  /\ poll.busy
  /\ poll' = NoPoll
  /\ IF e = BadEvent THEN Park("EVENT_INVALID") ELSE Observe(poll, e)
=============================================================================
