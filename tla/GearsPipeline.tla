--------------------------- MODULE GearsPipeline ---------------------------
(***************************************************************************)
(* The whole render pipeline of native/main.c while it runs: the main loop, *)
(* the frame runner (FrameLoop) with its native callbacks, the completion   *)
(* wait (FrameCompletion), and the devices on the other side, the graphics  *)
(* queue, VideoOut and its event queue.                                     *)
(*                                                                          *)
(* The CPU is one thread.  The GPU and VideoOut run beside it and share     *)
(* memory with it: the two command slots, the two fence words and the two   *)
(* framebuffers.  A definition named after another one with a suffix is a   *)
(* plausible bug in it and takes no part in the specification.              *)
(***************************************************************************)
EXTENDS FrameLoop

CONSTANTS
  NoEvent, BadEvent,
  FrameBound,    (* bound: Options is released and pressed again by the     *)
                 (* time this many frames have been prepared                *)
  GuardPeriod,   (* 60 in main's guard check                                *)
  Faults         (* which of FaultKinds this environment can produce        *)

FaultKinds == {"prepare", "compose", "submit", "timeout", "event", "coalesce",
               "telemetry", "guard", "pad"}

ASSUME PipelineAssumption ==
  /\ FrameBound \in Nat \ {0}
  /\ GuardPeriod \in Nat \ {0}
  /\ Faults \subseteq FaultKinds

VARIABLES
  completion, poll, verdict,   (* frame_wait_video's completion and poll    *)
  late,        (* the deadline of the wait under way has passed             *)
  main,        (* where main() stands                                       *)
  last_guard_check,
  pad,         (* is it open, and renderer.exit_control                     *)
  press,       (* ghost: how the press of Options that the player holds was *)
               (* first read, "usable" or "unusable", or "none"             *)
  mapped,      (* framebuffers, command memory and VideoOut are still held  *)
  dcb,         (* the command slots: [token, program] as the CPU wrote them *)
  fence,       (* the fence words                                           *)
  ring,        (* the DCBs the driver accepted, oldest first, and how far   *)
               (* the GPU is in each: [buffer, token, pos]                  *)
  flipq,       (* flips VideoOut was asked for and has not made             *)
  screen,      (* the [buffer, token] on screen                             *)
  equeue,      (* flip events not yet taken                                 *)
  finished     (* the <<token, engine>> pairs the devices are done with     *)

C == INSTANCE FrameCompletion

waitVars   == <<completion, poll, verdict, late>>
mainVars   == <<main, last_guard_check, pad, press, mapped>>
memoryVars == <<dcb, fence>>
deviceVars == <<ring, flipq, screen, equeue, finished>>

vars == <<loopVars, waitVars, mainVars, memoryVars, deviceVars>>

May(kind) == IF kind \in Faults THEN BOOLEAN ELSE {FALSE}

Nowhere == 2   (* screen.buffer before the first flip                       *)

Init ==
  /\ LoopInit
  /\ C!CompletionInit
  /\ late = FALSE
  /\ main = "running" /\ last_guard_check = 0 /\ mapped = TRUE
  /\ pad \in [opened : {TRUE} \cup {FALSE : f \in Faults \cap {"pad"}},
              previous : {FALSE}, requested : {FALSE}]
  /\ press = "none"
  /\ dcb = [b \in Buffers |-> [token |-> 0, program |-> <<>>]]
  /\ fence = [b \in Buffers |-> 0]
  /\ ring = <<>> /\ flipq = <<>> /\ equeue = <<>> /\ finished = {}
  /\ screen = [buffer |-> Nowhere, token |-> FirstToken - 1]

-----------------------------------------------------------------------------
(* The native callbacks.                                                    *)

(* The packets frame_compose writes: wait until the buffer is off screen,   *)
(* then clear depth and draw.                                               *)
RenderPacketsUnguarded == <<"draw">>
RenderPackets == <<"wait_rendering", "draw">>

(* What ps5_submission appends: SetFlip, then the release of the fence.     *)
PresentPacketsNoFlip == <<"release">>
PresentPackets == <<"set_flip", "release">>

Prepare ==
  /\ \/ PrepareOk
     \/ "prepare" \in Faults /\ PrepareSceneFails
     \/ \E failed \in May("prepare") : PrepareRefused(~failed)
  /\ UNCHANGED <<waitVars, mainVars, memoryVars, deviceVars>>

(* frame_compose clears the slot and writes it anew; what a failed one      *)
(* leaves there is never submitted.                                         *)
ComposeIntoOtherSlot ==
  /\ \E failed \in May("compose") :
       /\ ComposeReturns(~failed)
       /\ dcb' = [dcb EXCEPT ![1 - call.slot] =
                    [token |-> pending[call.slot].token,
                     program |-> IF failed THEN <<>> ELSE RenderPackets]]
  /\ UNCHANGED <<waitVars, mainVars, fence, deviceVars>>

Compose ==
  /\ \E failed \in May("compose") :
       /\ ComposeReturns(~failed)
       /\ dcb' = [dcb EXCEPT ![call.slot] =
                    [token |-> pending[call.slot].token,
                     program |-> IF failed THEN <<>> ELSE RenderPackets]]
  /\ UNCHANGED <<waitVars, mainVars, fence, deviceVars>>

(* frame_submit.  The fence is raised first.  It can fail before the driver *)
(* has the commands (SetFlip builder, driver) or after (suspend point).     *)
SubmitNoFence ==
  LET b == call.slot
      t == pending[b].token
  IN  /\ \E failed, suspend_failed \in May("submit") :
           /\ SubmitReturns(~failed /\ ~suspend_failed)
           /\ IF failed
                THEN UNCHANGED <<dcb, ring>>
                ELSE /\ dcb' = [dcb EXCEPT ![b].program = @ \o PresentPackets]
                     /\ ring' = Append(ring, [buffer |-> b, token |-> t, pos |-> 1])
      /\ UNCHANGED <<waitVars, mainVars, fence, flipq, screen, equeue, finished>>

Submit ==
  LET b == call.slot
      t == pending[b].token
  IN  /\ \E failed, suspend_failed \in May("submit") :
           /\ SubmitReturns(~failed /\ ~suspend_failed)
           /\ fence' = [fence EXCEPT ![b] = 1]
           /\ IF failed
                THEN UNCHANGED <<dcb, ring>>
                ELSE /\ dcb' = [dcb EXCEPT ![b].program = @ \o PresentPackets]
                     /\ ring' = Append(ring, [buffer |-> b, token |-> t, pos |-> 1])
      /\ UNCHANGED <<waitVars, mainVars, flipq, screen, equeue, finished>>

(* frame_wait_gpu: the last read decides, before or after the deadline.     *)
WaitGpuNotAtAll ==
  /\ WaitGpuReturns(TRUE)
  /\ late' = FALSE
  /\ UNCHANGED <<completion, poll, verdict, mainVars, memoryVars, deviceVars>>

WaitGpuForever ==
  /\ fence[call.slot] = 0
  /\ WaitGpuReturns(TRUE)
  /\ late' = FALSE
  /\ UNCHANGED <<completion, poll, verdict, mainVars, memoryVars, deviceVars>>

WaitGpu ==
  /\ fence[call.slot] = 0 \/ late
  /\ WaitGpuReturns(fence[call.slot] = 0)
  /\ late' = FALSE
  /\ UNCHANGED <<completion, poll, verdict, mainVars, memoryVars, deviceVars>>

(* frame_wait_video: a fresh completion, then polls until a verdict.  The   *)
(* fence deadline is never passed to the poll.                              *)
VideoBegin ==
  /\ At("wait_videoout") /\ verdict = "NONE"
  /\ C!CompletionBegin(pending[call.slot].token)
  /\ UNCHANGED <<loopVars, late, mainVars, memoryVars, deviceVars>>

VideoPoll ==
  /\ At("wait_videoout") /\ verdict = "WAITING"
  /\ C!PollStart(fence[call.slot], FALSE, late)
  /\ UNCHANGED <<loopVars, late, mainVars, memoryVars, deviceVars>>

VideoEvent ==
  /\ equeue # <<>>
  /\ \E broken \in May("event") :
       C!PollEnd(IF broken THEN BadEvent ELSE Head(equeue))
  /\ equeue' = Tail(equeue)
  /\ UNCHANGED <<loopVars, late, mainVars, memoryVars, ring, flipq, screen,
                 finished>>

VideoNoEvent ==
  /\ equeue = <<>>
  /\ C!PollEnd(NoEvent)
  /\ UNCHANGED <<loopVars, late, mainVars, memoryVars, deviceVars>>

VideoReturnDespiteTimeout ==
  /\ At("wait_videoout") /\ verdict \notin {"NONE", "WAITING"}
  /\ \E overflow \in May("telemetry") :
       WaitVideoOutReturns(verdict \in {"DONE", "VIDEOOUT_TIMEOUT"},
                           completion.expected_flip_arg, ~overflow)
  /\ completion' = C!NotBegun /\ poll' = C!NoPoll /\ verdict' = "NONE"
  /\ late' = FALSE
  /\ UNCHANGED <<mainVars, memoryVars, deviceVars>>

VideoReturn ==
  /\ At("wait_videoout") /\ verdict \notin {"NONE", "WAITING"}
  /\ \E overflow \in May("telemetry") :
       WaitVideoOutReturns(verdict = "DONE", completion.expected_flip_arg,
                           ~overflow)
  /\ completion' = C!NotBegun /\ poll' = C!NoPoll /\ verdict' = "NONE"
  /\ late' = FALSE
  /\ UNCHANGED <<mainVars, memoryVars, deviceVars>>

Drain == Internal /\ UNCHANGED <<waitVars, mainVars, memoryVars, deviceVars>>

-----------------------------------------------------------------------------
(* main()                                                                   *)
MainStep ==
  /\ main = "running" /\ StepCall
  /\ main' = "stepping"
  /\ UNCHANGED <<waitVars, last_guard_check, pad, press, mapped, memoryVars,
                 deviceVars>>

(* gears_exit_update: a read shows Options down or not, and is usable when  *)
(* the pad answered, is connected and is not intercepted by the system.     *)
ExitUpdatedWhenUsable(options, usable) ==
  [pad EXCEPT !.previous = IF usable THEN options ELSE @,
              !.requested = @ \/ (usable /\ options /\ ~pad.previous)]

ExitUpdated(options, usable) ==
  [pad EXCEPT !.previous = options,
              !.requested = @ \/ (usable /\ options /\ ~pad.previous)]

(* exit_requested.  A pad that does not answer leaves the zeroed buffer.    *)
ExitPolled(down, intercepted, failed) ==
  /\ pad' = IF pad.opened
              THEN ExitUpdated(down /\ ~failed, ~intercepted /\ ~failed) ELSE pad
  /\ press' = IF ~down THEN "none"
              ELSE IF press # "none" THEN press
              ELSE IF intercepted \/ failed THEN "unusable" ELSE "usable"

(* What the player does, within the bound.                                  *)
PlayerWithinBound(down, intercepted) ==
  /\ next_frame_index = FrameBound - 1 => ~down
  /\ next_frame_index >= FrameBound => down /\ ~intercepted

(* The body of the loop after a step: park on a failure or on a corrupt     *)
(* guard, else look at the pad.                                             *)
MainAfterStep ==
  /\ main = "stepping" /\ At("idle")
  /\ LET due == result.frames_completed >= last_guard_check + GuardPeriod
     IN  \/ /\ \/ rc # 0 \/ result.state # "ACTIVE"
               \/ due /\ "guard" \in Faults
            /\ main' = "parked"
            /\ UNCHANGED <<last_guard_check, pad, press>>
         \/ /\ rc = 0 /\ result.state = "ACTIVE"
            /\ last_guard_check' = IF due THEN result.frames_completed
                                          ELSE last_guard_check
            /\ \E down, intercepted \in BOOLEAN, failed \in May("pad") :
                 /\ PlayerWithinBound(down, intercepted)
                 /\ ExitPolled(down, intercepted, failed)
            /\ main' = IF pad'.requested THEN "leaving" ELSE "running"
  /\ UNCHANGED <<loopVars, waitVars, mapped, memoryVars, deviceVars>>

MainDrain ==
  /\ main = "leaving" /\ DrainCall
  /\ main' = "draining"
  /\ UNCHANGED <<waitVars, last_guard_check, pad, press, mapped, memoryVars,
                 deviceVars>>

MainAfterDrainUnchecked ==
  /\ main = "draining" /\ At("idle")
  /\ main' = "cleanup"
  /\ UNCHANGED <<loopVars, waitVars, last_guard_check, pad, press, mapped,
                 memoryVars, deviceVars>>

MainAfterDrain ==
  /\ main = "draining" /\ At("idle")
  /\ \E corrupt \in May("guard") :
       main' = IF rc # 0 \/ result.state # "COMPLETE" \/ corrupt
                 THEN "parked" ELSE "cleanup"
  /\ UNCHANGED <<loopVars, waitVars, last_guard_check, pad, press, mapped,
                 memoryVars, deviceVars>>

(* cleanup() as one step: VideoOut is closed, all GPU memory is unmapped.   *)
MainCleanup ==
  /\ main = "cleanup"
  /\ mapped' = FALSE /\ main' = "exited"
  /\ UNCHANGED <<loopVars, waitVars, last_guard_check, pad, press, memoryVars,
                 deviceVars>>

Cpu ==
  \/ MainStep \/ MainAfterStep \/ MainDrain \/ MainAfterDrain \/ MainCleanup
  \/ Prepare \/ Compose \/ Submit \/ WaitGpu
  \/ VideoBegin \/ VideoPoll \/ VideoEvent \/ VideoNoEvent \/ VideoReturn
  \/ Drain

(* The clock passes the deadline of the wait under way.                     *)
DeadlinePasses ==
  /\ "timeout" \in Faults
  /\ At("wait_gpu") \/ At("wait_videoout")
  /\ ~late /\ late' = TRUE
  /\ UNCHANGED <<loopVars, completion, poll, verdict, mainVars, memoryVars,
                 deviceVars>>

-----------------------------------------------------------------------------
(* The devices (external).  The GPU executes DCBs in submission order and   *)
(* reads each packet from the command slot when it gets there.              *)
Entry == ring[1]

NextPacket ==
  IF ring # <<>> /\ Entry.pos \in DOMAIN dcb[Entry.buffer].program
    THEN dcb[Entry.buffer].program[Entry.pos] ELSE "none"

Advance == ring' = [ring EXCEPT ![1].pos = @ + 1]

SafeForRendering(b) ==
  screen.buffer # b /\ \A i \in DOMAIN flipq : flipq[i].buffer # b

GpuWaitRendering ==
  /\ NextPacket = "wait_rendering" /\ SafeForRendering(Entry.buffer)
  /\ Advance
  /\ UNCHANGED <<loopVars, waitVars, mainVars, memoryVars, flipq, screen,
                 equeue, finished>>

GpuDraw ==
  /\ NextPacket = "draw"
  /\ Advance
  /\ UNCHANGED <<loopVars, waitVars, mainVars, memoryVars, flipq, screen,
                 equeue, finished>>

GpuSetFlip ==
  /\ NextPacket = "set_flip"
  /\ Advance
  /\ flipq' = Append(flipq, [buffer |-> Entry.buffer,
                             token |-> dcb[Entry.buffer].token])
  /\ UNCHANGED <<loopVars, waitVars, mainVars, memoryVars, screen, equeue,
                 finished>>

GpuRelease ==
  /\ NextPacket = "release"
  /\ fence' = [fence EXCEPT ![Entry.buffer] = 0]
  /\ finished' = finished \cup {<<Entry.token, "gpu">>}
  /\ ring' = Tail(ring)
  /\ UNCHANGED <<loopVars, waitVars, mainVars, dcb, flipq, screen, equeue>>

Gpu == GpuWaitRendering \/ GpuDraw \/ GpuSetFlip \/ GpuRelease

(* At a vertical blank VideoOut shows the next buffer and posts its token.  *)
(* A queue that coalesces keeps only the newest event.                      *)
Vblank ==
  /\ flipq # <<>>
  /\ screen' = Head(flipq)
  /\ flipq' = Tail(flipq)
  /\ finished' = finished \cup {<<Head(flipq).token, "videoout">>}
  /\ \E merged \in May("coalesce") :
       equeue' = Append(IF merged THEN <<>> ELSE equeue, Head(flipq).token)
  /\ UNCHANGED <<loopVars, waitVars, mainVars, memoryVars, ring>>

Next == Cpu \/ DeadlinePasses \/ Gpu \/ Vblank

Spec == Init /\ [][Next]_vars

(* The CPU keeps running and its clock advances; nothing is assumed of the  *)
(* devices, which may hang.                                                 *)
CpuFairSpec == Spec /\ WF_vars(Cpu) /\ WF_vars(DeadlinePasses)

(* The devices keep running too.                                            *)
FairSpec == CpuFairSpec /\ WF_vars(Gpu) /\ WF_vars(Vblank)
-----------------------------------------------------------------------------
(* The GPU never executes what the CPU has overwritten: every DCB in the    *)
(* graphics queue still has its own frame's commands in its slot, all four  *)
(* packets of them.                                                         *)
CommandsIntact ==
  \A i \in DOMAIN ring :
    dcb[ring[i].buffer] = [token |-> ring[i].token,
                           program |-> RenderPackets \o PresentPackets]

(* The GPU never draws into a buffer that is on screen or about to be: the  *)
(* tracker alone does not ensure this, since a frame counts as complete for *)
(* VideoOut from the moment it is shown.                                    *)
NoTearing ==
  NextPacket = "draw" => SafeForRendering(Entry.buffer)

(* A zero fence means that the GPU is done with the slot: no DCB still in   *)
(* the queue has its fence down, so a fence that an older frame left at 0   *)
(* is never taken for a completion of the frame just submitted.             *)
ZeroFenceMeansDone ==
  \A i \in DOMAIN ring : fence[ring[i].buffer] = 1

(* GPU memory and VideoOut are given back only with the devices idle, and a *)
(* parked process gives nothing back.                                       *)
ReleaseOnlyWhenIdle ==
  /\ ~mapped => ring = <<>> /\ flipq = <<>> /\ fence = [b \in Buffers |-> 0]
  /\ main = "parked" => mapped

(* Every frame is shown once and in order: the token on screen only ever    *)
(* moves to its successor.                                                  *)
ShownInOrder ==
  [][screen' # screen => screen'.token = screen.token + 1]_vars

(* A buffer goes back to the CPU only after the GPU and VideoOut have       *)
(* really finished with its token, whatever the completion path reported:   *)
(* the pipeline implements BufferOwnership with the devices' own state.     *)
AbstractOwner ==
  [b \in Buffers |->
     [with  |-> IF slots[b].phase = "EMPTY" THEN "nobody"
                ELSE IF slots[b].phase = "PREPARED" THEN "cpu" ELSE "devices",
      token |-> slots[b].token]]

Issued == FirstToken .. next_token - 1

Engines == {"gpu", "videoout"}

Ownership == INSTANCE BufferOwnership
  WITH Tokens <- T!Tokens, owner <- AbstractOwner, issued <- Issued,
       done <- finished

ImplementsOwnership == Ownership!Spec

(* With healthy devices the program never parks: none of its checks can be  *)
(* tripped by an unlucky interleaving (a fence read before the flip event,  *)
(* two events in the queue, the buffer that is still on screen).            *)
NeverParks == main # "parked"

(* Only a press that began in front of the program ends it: Options that    *)
(* was already down while the system had intercepted the pad must be        *)
(* released first (tests/test_gears_exit.c:15-18).                          *)
ExitIsAFreshPress == pad.requested => press = "usable"

(* With healthy devices a press of Options leads to a clean exit.           *)
OptionsLeadsToExit == press = "usable" ~> main = "exited"

(* Whatever the devices do, even hang, pressing Options leads to an exit or *)
(* to the parked state: no wait of the drain is unbounded.                  *)
OptionsLeadsToAnEnd == main = "leaving" ~> main \in {"exited", "parked"}
=============================================================================
