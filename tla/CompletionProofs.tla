-------------------------- MODULE CompletionProofs --------------------------
(***************************************************************************)
(* The completion wait and the memory block beside it, for every number of  *)
(* waits and every length of the event queue.                               *)
(*                                                                          *)
(* What is released is earned because nothing in the wait's record claims   *)
(* more than the devices have done (SeenIsDone), the observation that a     *)
(* poll still holds included; and the memory is safe because its record     *)
(* mirrors what the kernel holds of the block, apart from a stray mapping   *)
(* (FlagsAreHeld), and a give-back call is only ever under way with the     *)
(* devices idle and no doubt left (CallIsSafe).                             *)
(***************************************************************************)
EXTENDS CompletionMemory, SequenceTheorems, TLAPS

(* What the event queue can hold: a flip argument, or nothing that decodes.  *)
Events == Nat \cup {BadEvent}

CompletionType ==
  [expected_flip_arg : Nat, transaction_submitted : BOOLEAN,
   fence_zero_seen : BOOLEAN, matching_videoout_event_seen : BOOLEAN,
   retain_all_resources : BOOLEAN, cleanup_allowed : BOOLEAN,
   parked : BOOLEAN]

PollType == [busy : BOOLEAN, fence : {0, 1}, fence_expired : BOOLEAN,
             video_expired : BOOLEAN]

WaitTypeOK ==
  /\ completion \in CompletionType
  /\ poll \in PollType
  /\ fence \in {0, 1} /\ late \in BOOLEAN
  /\ equeue \in Seq(Events)

(* What the wait has seen, or a poll is about to hand it, is so.            *)
SeenIsDone ==
  /\ completion.fence_zero_seen => fence = 0
  /\ completion.matching_videoout_event_seen => Expected \in flipped
  /\ poll.busy =>
       /\ Awaiting
       /\ poll.fence = 0 => fence = 0
       /\ poll.fence_expired \/ poll.video_expired => late
  /\ \A i \in DOMAIN equeue : equeue[i] \in flipped \cup {BadEvent}

(* A wait ends once: done with both signals, or parked without them.        *)
EndsOnce ==
  /\ completion.cleanup_allowed =>
       /\ completion.fence_zero_seen /\ completion.matching_videoout_event_seen
       /\ ~completion.parked
  /\ verdict \in {"FENCE_TIMEOUT", "VIDEOOUT_TIMEOUT"} => completion.parked

WaitInv == WaitTypeOK /\ SeenIsDone /\ EndsOnce /\ TimeoutsBlameTheRightDevice

(* The flags of the block are what the kernel holds of it.                  *)
FlagsAreHeld ==
  /\ memory \in [allocated : BOOLEAN, mapped : BOOLEAN, retain : BOOLEAN]
  /\ held \subseteq Block \cup {"stray"}
  /\ memory.allocated <=> "physical" \in held
  /\ memory.mapped <=> "mapping" \in held
  /\ memory.mapped => memory.allocated

(* A platform call is under way only with the devices idle and no doubt     *)
(* about the block, and finds what it is to give back.                      *)
CallIsSafe ==
  /\ op \in {"none", "reserve", "allocate", "map", "undo", "unmap", "release"}
  /\ op # "none" => DevicesIdle /\ ~memory.retain /\ ~poll.busy
  /\ op \in {"reserve", "allocate"} => ~memory.allocated
  /\ op \in {"map", "undo", "release"} => memory.allocated /\ ~memory.mapped
  /\ op = "unmap" => memory.mapped
  /\ kept => memory.retain

IInv == WaitInv /\ FlagsAreHeld /\ CallIsSafe

-----------------------------------------------------------------------------
(* The wait.                                                                *)
(* Before the first wait nothing was seen and nothing is queued.            *)
LEMMA InitWait == Init => WaitInv
<1> SUFFICES ASSUME Init PROVE WaitInv
  OBVIOUS
<1>1. /\ NotBegun \in CompletionType /\ NoPoll \in PollType
      /\ <<>> \in Seq(Events) /\ DOMAIN <<>> = {}
  BY DEF CompletionType, PollType, NotBegun, NoPoll
<1>2. WaitTypeOK
  BY <1>1 DEF Init, CompletionInit, WaitTypeOK
<1>3. SeenIsDone
  BY <1>1 DEF Init, CompletionInit, NotBegun, NoPoll, SeenIsDone
<1>4. EndsOnce /\ TimeoutsBlameTheRightDevice
  BY DEF Init, CompletionInit, NotBegun, EndsOnce, TimeoutsBlameTheRightDevice
<1> QED BY <1>2, <1>3, <1>4 DEF WaitInv

(* A new wait has seen nothing yet, whatever the queue still holds.         *)
LEMMA NextWaitInv == ASSUME WaitInv, NextWait PROVE WaitInv'
<1>1. completion' = [NotBegun EXCEPT !.expected_flip_arg = Expected + 1,
                                     !.transaction_submitted = TRUE,
                                     !.retain_all_resources = TRUE]
      /\ poll' = NoPoll /\ verdict' = "WAITING"
      /\ fence' = 1 /\ late' = FALSE /\ UNCHANGED <<equeue, flipped>>
  BY DEF NextWait, CompletionBegin
<1>2. Expected \in Nat
  BY DEF WaitInv, WaitTypeOK, CompletionType, Expected
<1>3. WaitTypeOK'
  <2>1. Expected + 1 \in Nat
    BY <1>2
  <2>2. completion' \in CompletionType
    BY <1>1, <2>1 DEF CompletionType, NotBegun
  <2>3. poll' \in PollType
    BY <1>1 DEF PollType, NoPoll
  <2> QED BY <1>1, <2>2, <2>3 DEF WaitInv, WaitTypeOK
<1>4. SeenIsDone'
  BY <1>1 DEF WaitInv, SeenIsDone, NotBegun, NoPoll
<1>5. EndsOnce' /\ TimeoutsBlameTheRightDevice'
  BY <1>1 DEF EndsOnce, TimeoutsBlameTheRightDevice, NotBegun
<1> QED BY <1>3, <1>4, <1>5 DEF WaitInv

(* A poll that starts samples the fence and the clock as they are.          *)
LEMMA StartPollInv == ASSUME WaitInv, StartPoll PROVE WaitInv'
<1>1. PICK fe \in {FALSE, late}, ve \in {FALSE, late} : PollStart(fence, fe, ve)
  BY DEF StartPoll
<1>2. /\ poll' = [busy |-> TRUE, fence |-> fence, fence_expired |-> fe,
                  video_expired |-> ve]
      /\ Awaiting
      /\ UNCHANGED <<completion, verdict, fence, equeue, flipped, late>>
  BY <1>1 DEF PollStart, StartPoll
<1>3. WaitTypeOK'
  BY <1>2 DEF WaitInv, WaitTypeOK, PollType
<1>4. SeenIsDone'
  <2>1. Awaiting'
    BY <1>2 DEF Awaiting
  <2>2. fe \/ ve => late
    <3>1. (fe = FALSE \/ fe = late) /\ (ve = FALSE \/ ve = late)
      OBVIOUS
    <3> QED BY <3>1
  <2>3. poll'.fence = fence /\ poll'.fence_expired = fe /\ poll'.video_expired = ve
    BY <1>2
  <2> QED BY <1>2, <2>1, <2>2, <2>3 DEF WaitInv, SeenIsDone, Expected
<1>5. EndsOnce' /\ TimeoutsBlameTheRightDevice'
  BY <1>2 DEF WaitInv, EndsOnce, TimeoutsBlameTheRightDevice
<1> QED BY <1>3, <1>4, <1>5 DEF WaitInv

(* What a poll makes of the event it was given, if that event was posted.   *)
LEMMA PollEndInv ==
  ASSUME WaitInv, NEW e, e \in flipped \cup {BadEvent, NoEvent}, PollEnd(e),
         equeue' \in Seq(Events),
         \A i \in DOMAIN equeue' : equeue'[i] \in flipped \cup {BadEvent},
         UNCHANGED <<fence, flipped, late>>
  PROVE  WaitInv' /\ poll' = NoPoll
<1> DEFINE zero_seen == completion.fence_zero_seen \/ poll.fence = 0
           event_seen == completion.matching_videoout_event_seen \/ e # NoEvent
           seen == [completion EXCEPT !.fence_zero_seen = zero_seen,
                                      !.matching_videoout_event_seen = event_seen]
<1>1. poll' = NoPoll /\ poll.busy /\ Awaiting /\ completion \in CompletionType
      /\ poll \in PollType
  BY DEF PollEnd, WaitInv, WaitTypeOK, SeenIsDone
<1>2. ~completion.cleanup_allowed /\ ~completion.parked
  BY <1>1 DEF Awaiting
<1>3. CASE \E why \in {"EVENT_INVALID", "EVENT_BEFORE_FENCE",
                       "UNEXPECTED_FLIP_ARG"} : Park(why)
  <2>1. completion' = [completion EXCEPT !.parked = TRUE]
        /\ verdict' \notin {"FENCE_TIMEOUT", "VIDEOOUT_TIMEOUT"}
    BY <1>3 DEF Park
  <2>2. WaitTypeOK'
    BY <1>1, <2>1 DEF WaitInv, WaitTypeOK, CompletionType, NoPoll, PollType
  <2>3. SeenIsDone'
    BY <1>1, <2>1 DEF WaitInv, SeenIsDone, CompletionType, NoPoll, Expected
  <2>4. EndsOnce' /\ TimeoutsBlameTheRightDevice'
    BY <1>1, <1>2, <2>1 DEF EndsOnce, TimeoutsBlameTheRightDevice, CompletionType
  <2> QED BY <1>1, <2>2, <2>3, <2>4 DEF WaitInv
<1>4. CASE Settle(zero_seen, event_seen, poll)
           /\ (e # NoEvent => e # BadEvent /\ e = completion.expected_flip_arg)
  <2>1. zero_seen => fence = 0
    BY <1>1 DEF WaitInv, SeenIsDone
  <2>2. event_seen => Expected \in flipped
    BY <1>4 DEF WaitInv, SeenIsDone, Expected
  <2>3. /\ seen \in CompletionType
        /\ seen.fence_zero_seen = zero_seen
        /\ seen.matching_videoout_event_seen = event_seen
        /\ seen.expected_flip_arg = Expected
        /\ ~seen.cleanup_allowed /\ ~seen.parked
    BY <1>1, <1>2 DEF CompletionType, Expected
  <2> HIDE DEF seen, zero_seen, event_seen
  <2>4. \/ /\ zero_seen /\ event_seen
           /\ completion' = [seen EXCEPT !.cleanup_allowed = TRUE,
                                         !.retain_all_resources = FALSE]
           /\ verdict' = "DONE"
        \/ /\ ~zero_seen /\ poll.fence_expired
           /\ completion' = [seen EXCEPT !.parked = TRUE]
           /\ verdict' = "FENCE_TIMEOUT"
        \/ /\ zero_seen /\ ~event_seen /\ poll.video_expired
           /\ completion' = [seen EXCEPT !.parked = TRUE]
           /\ verdict' = "VIDEOOUT_TIMEOUT"
        \/ completion' = seen /\ verdict' = "WAITING"
    BY <1>4 DEF Settle, seen
  <2>5. poll.fence_expired \/ poll.video_expired => late
    BY <1>1 DEF WaitInv, SeenIsDone
  <2>6. /\ completion' \in CompletionType
        /\ completion'.fence_zero_seen = zero_seen
        /\ completion'.matching_videoout_event_seen = event_seen
        /\ completion'.expected_flip_arg = Expected
        /\ completion'.cleanup_allowed => zero_seen /\ event_seen
                                          /\ ~completion'.parked
        /\ verdict' \in {"FENCE_TIMEOUT", "VIDEOOUT_TIMEOUT"} => completion'.parked
    BY <2>3, <2>4 DEF CompletionType
  <2>7. WaitTypeOK'
    BY <1>1, <2>6 DEF WaitInv, WaitTypeOK, NoPoll, PollType
  <2>8. SeenIsDone'
    BY <1>1, <2>1, <2>2, <2>6 DEF SeenIsDone, NoPoll, Expected
  <2>9. EndsOnce'
    BY <2>6 DEF EndsOnce
  <2>10. TimeoutsBlameTheRightDevice'
    BY <2>1, <2>4, <2>5, <2>6 DEF TimeoutsBlameTheRightDevice
  <2> QED BY <1>1, <2>7, <2>8, <2>9, <2>10 DEF WaitInv
<1>5. \/ \E why \in {"EVENT_INVALID", "EVENT_BEFORE_FENCE",
                     "UNEXPECTED_FLIP_ARG"} : Park(why)
      \/ /\ Settle(zero_seen, event_seen, poll)
         /\ e # NoEvent => e # BadEvent /\ e = completion.expected_flip_arg
  <2>1. CASE e = BadEvent
    BY <2>1 DEF PollEnd
  <2>2. CASE e # BadEvent
    BY <2>2, <1>1 DEF PollEnd, Observe, PollType
  <2> QED BY <2>1, <2>2
<1> QED BY <1>3, <1>4, <1>5

(* The queue gives its first event, and only what was posted is in it.       *)
LEMMA TakeEventInv == ASSUME WaitInv, TakeEvent PROVE WaitInv' /\ poll' = NoPoll
<1>1. /\ equeue \in Seq(Events) /\ equeue # <<>> /\ equeue' = Tail(equeue)
      /\ PollEnd(Head(equeue)) /\ UNCHANGED <<fence, flipped, late>>
      /\ \A i \in DOMAIN equeue : equeue[i] \in flipped \cup {BadEvent}
  BY DEF TakeEvent, WaitInv, WaitTypeOK, SeenIsDone
<1>2. Head(equeue) \in flipped \cup {BadEvent}
  BY <1>1
<1>3. equeue' \in Seq(Events)
      /\ \A i \in DOMAIN equeue' : equeue'[i] \in flipped \cup {BadEvent}
  BY <1>1
<1> QED BY <1>1, <1>2, <1>3, PollEndInv

(* A poll that comes back without an event.                                 *)
LEMMA WaitTimesOutInv ==
  ASSUME WaitInv, WaitTimesOut PROVE WaitInv' /\ poll' = NoPoll
<1>1. /\ equeue' \in Seq(Events)
      /\ \A i \in DOMAIN equeue' : equeue'[i] \in flipped \cup {BadEvent}
  BY DEF WaitTimesOut, WaitInv, WaitTypeOK, SeenIsDone
<1> QED BY <1>1, PollEndInv DEF WaitTimesOut

(* The devices and the clock only add to what is so.                        *)
LEMMA DevicesWaitInv ==
  ASSUME WaitInv,
         GpuFinishes \/ DeadlinePasses \/ \E e \in {Expected, 0, BadEvent} : Post(e)
  PROVE  /\ WaitInv'
         /\ UNCHANGED completionVars
         /\ (fence = 0 => fence' = 0) /\ flipped \subseteq flipped'
<1>1. CASE GpuFinishes \/ DeadlinePasses
  BY <1>1 DEF GpuFinishes, DeadlinePasses, completionVars, WaitInv, WaitTypeOK,
     SeenIsDone, EndsOnce, TimeoutsBlameTheRightDevice, Awaiting, Expected
<1>2. ASSUME NEW e \in {Expected, 0, BadEvent}, Post(e)
      PROVE  /\ WaitInv'
             /\ UNCHANGED completionVars
             /\ (fence = 0 => fence' = 0) /\ flipped \subseteq flipped'
  <2>1. /\ equeue' = Append(equeue, e) /\ flipped' = flipped \cup ({e} \ {BadEvent})
        /\ UNCHANGED <<completionVars, fence, late>>
        /\ equeue \in Seq(Events)
    BY <1>2 DEF Post, WaitInv, WaitTypeOK
  <2>2. e \in Events
    BY DEF WaitInv, WaitTypeOK, CompletionType, Expected, Events
  <2>3. equeue' \in Seq(Events)
    BY <2>1, <2>2
  <2>4. \A i \in DOMAIN equeue' : equeue'[i] \in flipped' \cup {BadEvent}
    <3>1. ASSUME NEW i \in DOMAIN equeue'
          PROVE  (i \in DOMAIN equeue /\ equeue'[i] = equeue[i]) \/ equeue'[i] = e
      BY <2>1, <2>2
    <3> QED BY <3>1, <2>1 DEF WaitInv, SeenIsDone
  <2>5. WaitTypeOK'
    BY <2>1, <2>3 DEF WaitInv, WaitTypeOK, completionVars
  <2>6. SeenIsDone'
    BY <2>1, <2>4 DEF WaitInv, SeenIsDone, completionVars, Awaiting, Expected
  <2>7. EndsOnce' /\ TimeoutsBlameTheRightDevice'
    BY <2>1 DEF WaitInv, EndsOnce, TimeoutsBlameTheRightDevice, completionVars
  <2> QED BY <2>1, <2>5, <2>6, <2>7 DEF WaitInv
<1> QED BY <1>1, <1>2

(* The verdict that authorises a release, and its meaning.                  *)
LEMMA WaitEarns == WaitInv => ReleaseIsEarned
  BY DEF WaitInv, EndsOnce, SeenIsDone, ReleaseIsEarned, Expected

(* What the program closes the block on really says that nothing is running. *)
LEMMA AuthorityMeansIdle == WaitInv /\ Authority => DevicesIdle
  BY WaitEarns DEF Authority, DevicesIdle, ReleaseIsEarned

(* The wait does not depend on the block.                                   *)
LEMMA WaitUnchanged == WaitInv /\ UNCHANGED vars => WaitInv'
  BY DEF vars, completionVars, WaitInv, WaitTypeOK, SeenIsDone, EndsOnce,
         TimeoutsBlameTheRightDevice, Awaiting, Expected

-----------------------------------------------------------------------------
(* The block.                                                               *)
(* Nothing is allocated and no call is under way.                           *)
LEMMA InitIInv == MemInit => IInv
  BY InitWait DEF MemInit, MemoryInit, Closed, IInv, FlagsAreHeld, CallIsSafe

(* The CPU is in the wait: no platform call is under way.                   *)
LEMMA CpuPollsInv == ASSUME IInv, CpuPolls PROVE IInv'
<1>1. WaitInv'
  BY NextWaitInv, StartPollInv, TakeEventInv, WaitTimesOutInv DEF IInv, CpuPolls
<1>2. FlagsAreHeld' /\ CallIsSafe'
  BY DEF IInv, FlagsAreHeld, CallIsSafe, CpuPolls, memoryVars
<1> QED BY <1>1, <1>2 DEF IInv

(* A block is opened between two frames, with no doubt about an earlier one. *)
LEMMA OpenBlockInv == ASSUME IInv, OpenBlock PROVE IInv'
<1>1. WaitInv' /\ DevicesIdle
  BY WaitUnchanged, AuthorityMeansIdle DEF IInv, OpenBlock
<1>2. DevicesIdle'
  BY <1>1 DEF OpenBlock, vars, completionVars, DevicesIdle, Expected
<1>3. FlagsAreHeld' /\ CallIsSafe'
  BY <1>2 DEF IInv, FlagsAreHeld, CallIsSafe, OpenBlock, Open, Closed, vars,
              completionVars
<1> QED BY <1>1, <1>3 DEF IInv

(* A close goes ahead only with authority; refused, it leaves a doubt.      *)
LEMMA CloseBlockInv == ASSUME IInv, CloseBlock PROVE IInv'
<1>1. WaitInv' /\ (Authority => DevicesIdle')
  BY WaitUnchanged, AuthorityMeansIdle
     DEF IInv, CloseBlock, vars, completionVars, DevicesIdle, Expected
<1>2. FlagsAreHeld'
  BY DEF IInv, FlagsAreHeld, CloseBlock, Close
<1>3. CallIsSafe'
  <2>1. CASE Refused(Authority)
    BY <2>1 DEF IInv, FlagsAreHeld, CallIsSafe, CloseBlock, Close
  <2>2. CASE ~Refused(Authority)
    <3>1. ~memory.retain /\ (memory.mapped \/ memory.allocated => Authority)
      BY <2>2 DEF Refused
    <3>2. kept' = FALSE
      BY <3>1 DEF IInv, CallIsSafe, FlagsAreHeld, CloseBlock, Block
    <3> QED BY <1>1, <2>2, <3>1, <3>2
            DEF IInv, FlagsAreHeld, CallIsSafe, CloseBlock, Close, vars,
                completionVars
  <2> QED BY <2>1, <2>2
<1> QED BY <1>1, <1>2, <1>3 DEF IInv

(* A platform call returns: the flags follow, a failed give-back is kept.   *)
LEMMA PlatformInv ==
  ASSUME IInv, NEW ok \in BOOLEAN, PlatformReturns(ok) PROVE IInv'
<1>1. WaitInv' /\ (DevicesIdle => DevicesIdle') /\ op # "none"
  BY WaitUnchanged
     DEF IInv, PlatformReturns, PlatformCall, ReserveReturns, AllocateReturns,
         MapReturns, UndoReturns, UnmapReturns, ReleaseReturns, vars,
         completionVars, DevicesIdle, Expected
<1>2. FlagsAreHeld' /\ CallIsSafe'
  <2> USE DEF IInv, FlagsAreHeld, CallIsSafe, PlatformReturns, vars, completionVars
  <2>1. CASE ReserveReturns(ok)
    BY <1>1, <2>1 DEF ReserveReturns
  <2>2. CASE AllocateReturns(ok)
    BY <1>1, <2>2 DEF AllocateReturns, Block
  <2>3. CASE MapReturns(ok)
    BY <1>1, <2>3 DEF MapReturns, Block
  <2>4. CASE UndoReturns(ok)
    BY <1>1, <2>4 DEF UndoReturns
  <2>5. CASE UnmapReturns(ok)
    BY <1>1, <2>5 DEF UnmapReturns
  <2>6. CASE ReleaseReturns(ok)
    BY <1>1, <2>6 DEF ReleaseReturns
  <2> QED BY <2>1, <2>2, <2>3, <2>4, <2>5, <2>6 DEF PlatformCall
<1> QED BY <1>1, <1>2 DEF IInv

(* A mapping made elsewhere is held, and nowhere recorded.                  *)
LEMMA MapsElsewhereInv == ASSUME IInv, MapsElsewhere PROVE IInv'
<1>1. WaitInv' /\ (DevicesIdle => DevicesIdle')
  BY WaitUnchanged
     DEF IInv, MapsElsewhere, vars, completionVars, DevicesIdle, Expected
<1>2. FlagsAreHeld' /\ CallIsSafe'
  BY <1>1 DEF IInv, FlagsAreHeld, CallIsSafe, MapsElsewhere, MapReturnsElsewhere,
              vars, completionVars
<1> QED BY <1>1, <1>2 DEF IInv

(* The devices only finish what they were given, also inside a call.         *)
LEMMA DevicesStepInv == ASSUME IInv, DevicesStep PROVE IInv'
<1>1. /\ WaitInv' /\ UNCHANGED completionVars
      /\ (fence = 0 => fence' = 0) /\ flipped \subseteq flipped'
  BY DevicesWaitInv DEF IInv, DevicesStep
<1>2. FlagsAreHeld' /\ CallIsSafe'
  BY <1>1 DEF IInv, FlagsAreHeld, CallIsSafe, DevicesStep, memoryVars,
              completionVars, DevicesIdle, Expected
<1> QED BY <1>1, <1>2 DEF IInv

(* Every step keeps the inductive invariant.                                *)
LEMMA NextIInv == ASSUME IInv, [MemNext]_memVars PROVE IInv'
<1>1. CASE UNCHANGED memVars
  BY <1>1, WaitUnchanged
     DEF memVars, memoryVars, vars, completionVars, IInv, FlagsAreHeld, CallIsSafe,
         DevicesIdle, Expected
<1> QED BY <1>1, CpuPollsInv, OpenBlockInv, CloseBlockInv, PlatformInv,
           MapsElsewhereInv, DevicesStepInv DEF MemNext

-----------------------------------------------------------------------------
(* The inductive invariant holds in every state of every run.               *)
THEOREM CompletionInvariant == MemSpec => []IInv
  BY InitIInv, NextIInv, PTL DEF MemSpec

(* Resources are given up only for a frame whose fence is zero and whose    *)
(* own flip was made, in spite of fences read too early and foreign events  *)
(* (src/ps5_frame_completion.c).                                            *)
THEOREM EarnedRelease == MemSpec => []ReleaseIsEarned
<1>1. IInv => ReleaseIsEarned
  BY WaitEarns DEF IInv
<1> QED BY <1>1, CompletionInvariant, PTL

(* A time-out names the device that has not answered                        *)
(* (src/ps5_frame_completion.c:46).                                         *)
THEOREM HonestTimeouts == MemSpec => []TimeoutsBlameTheRightDevice
<1>1. IInv => TimeoutsBlameTheRightDevice
  BY DEF IInv, WaitInv
<1> QED BY <1>1, CompletionInvariant, PTL

(* A parked completion is never written again.                              *)
THEOREM ParkingIsFinal == MemSpec => ParkedForever
<1>1. IInv /\ [MemNext]_memVars => [completion.parked => completion' = completion]_vars
  <2> SUFFICES ASSUME IInv, [MemNext]_memVars, completion.parked
               PROVE  completion' = completion
    OBVIOUS
  <2>1. ~poll.busy /\ ~completion.cleanup_allowed
    BY DEF IInv, WaitInv, SeenIsDone, EndsOnce, Awaiting
  <2>2. ~NextWait /\ ~StartPoll /\ ~TakeEvent /\ ~WaitTimesOut
    BY <2>1 DEF NextWait, NotBegun, StartPoll, PollStart, Awaiting, TakeEvent,
                WaitTimesOut, PollEnd
  <2>3. CASE DevicesStep
    BY <2>3, DevicesWaitInv DEF IInv, DevicesStep, completionVars
  <2> QED BY <2>2, <2>3 DEF MemNext, CpuPolls, OpenBlock, CloseBlock,
             PlatformReturns, MapsElsewhere, memVars, vars, completionVars
<1> QED BY <1>1, CompletionInvariant, PTL DEF MemSpec, ParkedForever

(* Memory is never taken from under a device, nor once there was a doubt    *)
(* about it, nor before the mapping that its record knows, also when an     *)
(* earlier map call went elsewhere (src/ps5_direct_memory.c:38-47).         *)
THEOREM MemorySafe == MemSpec => MemoryOutlivesDevices
<1>1. IInv /\ [MemNext]_memVars =>
        [held \ held' # {} =>
           /\ DevicesIdle /\ ~kept
           /\ "mapping" \in held' => "physical" \in held']_memVars
  <2> SUFFICES ASSUME IInv, [MemNext]_memVars, held \ held' # {}
               PROVE  /\ DevicesIdle /\ ~kept
                      /\ "mapping" \in held' => "physical" \in held'
    OBVIOUS
  <2>1. PICK ok \in BOOLEAN : PlatformReturns(ok)
    BY DEF MemNext, CpuPolls, OpenBlock, Open, CloseBlock, Close, DevicesStep,
           MapsElsewhere, MapReturnsElsewhere, memVars, memoryVars
  <2>2. op # "none"
    BY <2>1 DEF PlatformReturns, PlatformCall, ReserveReturns, AllocateReturns,
                MapReturns, UndoReturns, UnmapReturns, ReleaseReturns
  <2>3. FlagsAreHeld'
    BY <2>1, PlatformInv DEF IInv
  <2> QED BY <2>2, <2>3 DEF IInv, CallIsSafe, FlagsAreHeld
<1> QED BY <1>1, CompletionInvariant, PTL DEF MemSpec, MemoryOutlivesDevices

(* The program that owns the block adds no behaviour to the wait: seen from  *)
(* the completion, its fence and its queue, it is one of the callers that    *)
(* FrameCompletionClient allows (src/src/ps5_event_adapter.c:20).                *)
THEOREM ProgramIsAClient == MemSpec => Spec
<1>1. MemInit => Init
  BY DEF MemInit
<1>2. [MemNext]_memVars => [Next]_vars
  BY DEF MemNext, CpuPolls, OpenBlock, CloseBlock, PlatformReturns, MapsElsewhere,
         DevicesStep, memVars, Next
<1> QED BY <1>1, <1>2, PTL DEF MemSpec, Spec
=============================================================================
