--------------------------- MODULE PipelineProofs ---------------------------
(***************************************************************************)
(* The render pipeline for every token range and every set of faults that   *)
(* PipelineAssumption allows: whatever fails, the GPU executes only what    *)
(* was written for it, never draws into a buffer that is shown, and nothing *)
(* is taken back while a device still uses it.                              *)
(*                                                                          *)
(* The pipeline is first shown to be one of the clients of the frame runner *)
(* (L below), so that the runner's inductive invariant holds in it.  What   *)
(* the devices hold is then tied to the runner's slots (RingFollows,        *)
(* FlipsFollow), and to each other by one count: the tokens on screen, in   *)
(* the flip queue, in the ring and with the CPU follow each other without a *)
(* gap (TokensInOrder).                                                     *)
(***************************************************************************)
EXTENDS GearsPipeline, SequenceTheorems, TLAPS

L == INSTANCE FrameLoopProofs

Packets == {"wait_rendering", "draw", "set_flip", "release"}

Program == RenderPackets \o PresentPackets

Submitting(b) == At("submit") /\ call.slot = b

DeviceTypeOK ==
  /\ dcb \in [Buffers -> [token : Nat, program : Seq(Packets)]]
  /\ fence \in [Buffers -> {0, 1}]
  /\ ring \in Seq([buffer : Buffers, token : Nat, pos : 1 .. 4])
  /\ flipq \in Seq([buffer : Buffers, token : Nat])
  /\ equeue \in Seq(Nat)
  /\ screen \in [buffer : Buffers \cup {Nowhere}, token : Nat]

(* 1 while the entry at the head of the ring is past its flip.              *)
Flipped == IF ring # <<>> /\ Entry.pos = 4 THEN 1 ELSE 0

(* A DCB in the ring is that of a slot in flight whose fence is up and      *)
(* whose commands are intact; only the first one has begun.                 *)
RingFollows ==
  \A i \in DOMAIN ring :
    /\ pending[ring[i].buffer].active
    /\ pending[ring[i].buffer].token = ring[i].token
    /\ fence[ring[i].buffer] = 1
    /\ dcb[ring[i].buffer] = [token |-> ring[i].token, program |-> Program]
    /\ ring[i].token = screen.token + Len(flipq) + i - Flipped
    /\ i # 1 => ring[i].pos = 1

(* A flip to come is that of a slot in flight, in the order of the tokens.  *)
FlipsFollow ==
  /\ \A i \in DOMAIN flipq :
       /\ pending[flipq[i].buffer].active
       /\ pending[flipq[i].buffer].token = flipq[i].token
       /\ flipq[i].token = screen.token + i
  /\ \A i \in DOMAIN equeue : equeue[i] <= screen.token

LastSubmitted == screen.token + Len(flipq) + Len(ring) - Flipped

TokensInOrder ==
  /\ result.state = "ACTIVE" =>
       LastSubmitted = next_token - (IF At("compose") \/ At("submit") THEN 2 ELSE 1)
  /\ At("compose") \/ At("submit") =>
       /\ pending[call.slot].token = next_token - 1
       /\ next_token > FirstToken
  /\ \A b \in Buffers :
       /\ pending[b].token < next_token
       /\ pending[b].active => pending[b].token >= FirstToken

(* What a raised and what a lowered fence says of its slot, what the slot   *)
(* being submitted looks like, and what the tracker's flags stand on.       *)
FencesTell ==
  /\ \A b \in Buffers :
       /\ fence[b] = 1 =>
            pending[b].active /\ ~slots[b].gpu_complete /\ ~Submitting(b)
       /\ fence[b] = 0 /\ pending[b].active /\ ~Submitting(b) =>
            <<pending[b].token, "gpu">> \in finished
       /\ slots[b].phase = "SUBMITTED" /\ slots[b].gpu_complete =>
            <<slots[b].token, "gpu">> \in finished
       /\ slots[b].phase = "SUBMITTED" /\ slots[b].videoout_complete =>
            <<slots[b].token, "videoout">> \in finished
       /\ Submitting(b) =>
            /\ ~slots[b].gpu_complete
            /\ dcb[b] = [token |-> pending[b].token, program |-> RenderPackets]
  /\ \A t \in FirstToken .. screen.token : <<t, "videoout">> \in finished

(* The head of the ring draws only after it has seen its buffer free.       *)
DrawsWhenSafe ==
  ring # <<>> /\ Entry.pos = 2 => SafeForRendering(Entry.buffer)

CompletionType ==
  [expected_flip_arg : Nat, transaction_submitted : BOOLEAN,
   fence_zero_seen : BOOLEAN, matching_videoout_event_seen : BOOLEAN,
   retain_all_resources : BOOLEAN, cleanup_allowed : BOOLEAN,
   parked : BOOLEAN]

(* The wait is for the slot of the running call, and takes it for shown     *)
(* only once it is on screen.                                               *)
WaitFollows ==
  /\ completion \in CompletionType
  /\ poll.busy => verdict = "WAITING"
  /\ verdict # "NONE" =>
       /\ At("wait_videoout")
       /\ completion.expected_flip_arg = pending[call.slot].token
  /\ completion.matching_videoout_event_seen =>
       completion.expected_flip_arg <= screen.token
  /\ verdict = "DONE" => completion.matching_videoout_event_seen

(* main() gives things back only after a drain that completed.              *)
MainFollows ==
  /\ main \in {"cleanup", "exited"} => result.state = "COMPLETE"
  /\ ~mapped => main = "exited"

DeviceInv ==
  /\ DeviceTypeOK /\ RingFollows /\ FlipsFollow /\ TokensInOrder /\ FencesTell
  /\ DrawsWhenSafe

PInv == L!IInv /\ DeviceInv /\ WaitFollows /\ MainFollows

-----------------------------------------------------------------------------
(* The runner inside the pipeline is the runner of FrameLoopClient.         *)
LEMMA RunnerStarts == LoopInit => L!Init
  BY DEF LoopInit, L!Init, L!LoopInit, T!TrackerInit, L!T!TrackerInit, Idle,
         L!Idle, T!EmptySlot, L!T!EmptySlot, Buffers, L!Buffers

(* What the runner's invariant says, in the words of this module.           *)
LEMMA RunnerFacts ==
  ASSUME L!IInv
  PROVE  /\ slots \in [Buffers -> T!Slot]
         /\ next_token \in FirstToken .. MaxToken + 1
         /\ next_frame_index \in Nat
         /\ pending \in [Buffers -> [token : {0} \cup T!Tokens, frame_index : Nat,
                                     active : BOOLEAN]]
         /\ call.slot \in Buffers
         /\ call \in [op : {"none", "step", "drain"}, at : L!Places, slot : Buffers]
         /\ result \in [state : RunStates, frames_completed : Nat,
                        max_frames_in_flight : 0 .. 2, failed_frame : Nat,
                        retained_token : {0} \cup T!Tokens]
         /\ \A b \in Buffers :
              /\ pending[b].active <=>
                   slots[b].phase = "SUBMITTED" /\ ~T!CanReuse(b)
              /\ pending[b].active => slots[b].token = pending[b].token
              /\ slots[b].phase = "PREPARED" =>
                   /\ At("compose") /\ call.slot = b
                   /\ ~slots[b].gpu_complete /\ ~slots[b].videoout_complete
              /\ pending[b].active => ~slots[b].videoout_complete
         /\ At("wait_gpu") \/ At("wait_videoout") \/ At("submit") =>
              pending[call.slot].active
         /\ At("wait_videoout") => slots[call.slot].gpu_complete
         /\ At("prepare") \/ At("compose") => ~pending[call.slot].active
         /\ At("compose") => T!Holds(call.slot, "PREPARED", pending[call.slot].token)
         /\ ~At("idle") => result.state = "ACTIVE"
         /\ result.state = "COMPLETE" => \A b \in Buffers : ~pending[b].active
<1> USE DEF L!IInv
<1>1. L!TypeOK
  OBVIOUS
<1>2. /\ slots \in [Buffers -> T!Slot]
      /\ next_token \in FirstToken .. MaxToken + 1
      /\ next_frame_index \in L!Indices
      /\ pending \in [Buffers -> [token : {0} \cup T!Tokens,
                                  frame_index : L!Indices, active : BOOLEAN]]
      /\ call \in [op : {"none", "step", "drain"}, at : L!Places, slot : Buffers]
      /\ result \in [state : RunStates, frames_completed : L!Indices,
                     max_frames_in_flight : 0 .. 2, failed_frame : L!Indices,
                     retained_token : {0} \cup T!Tokens]
  BY <1>1 DEF L!TypeOK, L!T!TrackerTypeOK, T!Slot, L!T!Slot, T!Phases, L!T!Phases,
     T!Tokens, L!T!Tokens, L!Buffers, Buffers, RunStates, L!RunStates
<1>3. \A i \in L!Indices : i \in Nat
  BY LoopAssumption DEF L!Indices
<1>4. \A b \in Buffers :
        /\ pending[b].active <=> slots[b].phase = "SUBMITTED" /\ ~T!CanReuse(b)
        /\ pending[b].active => slots[b].token = pending[b].token
        /\ slots[b].phase = "PREPARED" =>
             /\ At("compose") /\ call.slot = b
             /\ ~slots[b].gpu_complete /\ ~slots[b].videoout_complete
        /\ pending[b].active => ~slots[b].videoout_complete
  BY DEF L!SlotsAgree, L!SlotFlags, L!At, At, L!Buffers, Buffers, T!CanReuse,
         L!T!CanReuse
<1>5. /\ At("wait_gpu") \/ At("wait_videoout") \/ At("submit") =>
           pending[call.slot].active
      /\ At("wait_videoout") => slots[call.slot].gpu_complete
      /\ At("prepare") \/ At("compose") => ~pending[call.slot].active
      /\ At("compose") => T!Holds(call.slot, "PREPARED", pending[call.slot].token)
      /\ ~At("idle") => result.state = "ACTIVE"
  BY DEF L!CallConsistent, L!At, At, T!Holds, L!T!Holds
<1>6. result.state = "COMPLETE" => \A b \in Buffers : ~pending[b].active
  <2>1. result.state = "COMPLETE" => \A b \in Buffers : T!CanReuse(b)
    BY DEF L!EndingsAreSound, L!CompleteIsDrained, L!Buffers, Buffers, T!CanReuse,
           L!T!CanReuse
  <2> QED BY <2>1, <1>4
<1>7. /\ pending \in [Buffers -> [token : {0} \cup T!Tokens, frame_index : Nat,
                                  active : BOOLEAN]]
      /\ result \in [state : RunStates, frames_completed : Nat,
                     max_frames_in_flight : 0 .. 2, failed_frame : Nat,
                     retained_token : {0} \cup T!Tokens]
  BY <1>2, <1>3
<1> QED BY <1>2, <1>3, <1>4, <1>5, <1>6, <1>7

(* The helpers of the runner are the same in the instance.                  *)
LEMMA SameHelpers ==
  /\ Active = L!Active
  /\ \A f, e, force : Sample(f, e, force) <=> L!Sample(f, e, force)
  /\ \A b, f : RetainFailure(b, f) <=> L!RetainFailure(b, f)
  /\ \A f : FailBeforeSubmit(f) <=> L!FailBeforeSubmit(f)
<1>1. Active = L!Active
  BY DEF Active, L!Active, Buffers, L!Buffers
<1>2. \A f, e, force : Sample(f, e, force) <=> L!Sample(f, e, force)
  BY DEF Sample, L!Sample, ShouldSample, L!ShouldSample
<1>3. \A b, f : RetainFailure(b, f) <=> L!RetainFailure(b, f)
  BY <1>2 DEF RetainFailure, L!RetainFailure, Return, L!Return, Idle, L!Idle
<1>4. \A f : FailBeforeSubmit(f) <=> L!FailBeforeSubmit(f)
  BY <1>1, <1>2, <1>3
     DEF FailBeforeSubmit, L!FailBeforeSubmit, Return, L!Return, Idle, L!Idle
<1> QED BY <1>1, <1>2, <1>3, <1>4

(* Each action of the runner is the instance's.                             *)
LEMMA SameActions ==
  /\ StepCall => L!StepCall
  /\ DrainCall => L!DrainCall
  /\ Internal => L!Internal
  /\ PrepareOk => L!PrepareOk
  /\ PrepareSceneFails => L!PrepareSceneFails
  /\ \A ok \in BOOLEAN :
       /\ PrepareRefused(ok) => L!PrepareRefused(ok)
       /\ ComposeReturns(ok) => L!ComposeReturns(ok)
       /\ SubmitReturns(ok) => L!SubmitReturns(ok)
       /\ WaitGpuReturns(ok) => L!WaitGpuReturns(ok)
  /\ \A ok, counted \in BOOLEAN : \A observed :
       WaitVideoOutReturns(ok, observed, counted)
         => L!WaitVideoOutReturns(ok, observed, counted)
<1> USE DEF At, L!At, Goto, L!Goto, Return, L!Return, Idle, L!Idle
<1>1. (StepCall => L!StepCall) /\ (DrainCall => L!DrainCall)
  BY DEF StepCall, L!StepCall, DrainCall, L!DrainCall
<1>2. Internal => L!Internal
  <2>1. DrainOldest => L!DrainOldest
    BY SameHelpers DEF DrainOldest, L!DrainOldest
  <2>2. DrainComplete => L!DrainComplete
    BY SameHelpers DEF DrainComplete, L!DrainComplete, ShouldSample, L!ShouldSample
  <2> QED BY <2>1, <2>2 DEF Internal, L!Internal
<1>3. PrepareOk => L!PrepareOk
  BY DEF PrepareOk, L!PrepareOk, T!Begin, L!T!Begin, T!CanBegin, L!T!CanBegin,
         T!CanReuse, L!T!CanReuse, T!PreparedSlot, L!T!PreparedSlot
<1>4. PrepareSceneFails => L!PrepareSceneFails
  BY SameHelpers DEF PrepareSceneFails, L!PrepareSceneFails, T!CanBegin,
     L!T!CanBegin, T!CanReuse, L!T!CanReuse, T!EmptySlot, L!T!EmptySlot
<1>5. ASSUME NEW ok \in BOOLEAN PROVE PrepareRefused(ok) => L!PrepareRefused(ok)
  BY SameHelpers DEF PrepareRefused, L!PrepareRefused, T!CanBegin, L!T!CanBegin,
     T!CanReuse, L!T!CanReuse
<1>6. ASSUME NEW ok \in BOOLEAN PROVE ComposeReturns(ok) => L!ComposeReturns(ok)
  BY SameHelpers DEF ComposeReturns, L!ComposeReturns, T!MarkSubmitted,
     L!T!MarkSubmitted, T!CancelPreSubmit, L!T!CancelPreSubmit, T!Holds, L!T!Holds,
     T!EmptySlot, L!T!EmptySlot
<1>7. ASSUME NEW ok \in BOOLEAN PROVE SubmitReturns(ok) => L!SubmitReturns(ok)
  BY SameHelpers DEF SubmitReturns, L!SubmitReturns
<1>8. ASSUME NEW ok \in BOOLEAN PROVE WaitGpuReturns(ok) => L!WaitGpuReturns(ok)
  BY SameHelpers DEF WaitGpuReturns, L!WaitGpuReturns, T!MarkGpuComplete,
     L!T!MarkGpuComplete, T!Holds, L!T!Holds
<1>9. ASSUME NEW ok \in BOOLEAN, NEW counted \in BOOLEAN, NEW observed
      PROVE  WaitVideoOutReturns(ok, observed, counted)
               => L!WaitVideoOutReturns(ok, observed, counted)
  BY SameHelpers DEF WaitVideoOutReturns, L!WaitVideoOutReturns, Account, L!Account,
     T!MarkVideoOutComplete, L!T!MarkVideoOutComplete, T!Holds, L!T!Holds
<1> QED BY <1>1, <1>2, <1>3, <1>4, <1>5, <1>6, <1>7, <1>8, <1>9

(* Whatever the pipeline does is a step of the runner under some callbacks, *)
(* or none of its business; wait_videoout reports a token already issued.   *)
LEMMA RunnerStep ==
  ASSUME PInv, [Next]_vars PROVE L!Next \/ UNCHANGED L!loopVars
<1> USE DEF L!Next, L!InCall
<1>1. CASE UNCHANGED loopVars
  BY <1>1 DEF loopVars, L!loopVars
<1>2. CASE MainStep \/ MainDrain
  BY <1>2, SameActions DEF MainStep, MainDrain
<1>3. CASE Prepare
  BY <1>3, SameActions DEF Prepare, May
<1>4. CASE Compose
  <2>1. PICK ok \in BOOLEAN : ComposeReturns(ok)
    BY <1>4 DEF Compose, May
  <2> QED BY <2>1, SameActions
<1>5. CASE Submit
  <2>1. PICK ok \in BOOLEAN : SubmitReturns(ok)
    BY <1>5 DEF Submit, May
  <2> QED BY <2>1, SameActions
<1>6. CASE WaitGpu
  <2>1. PICK ok \in BOOLEAN : WaitGpuReturns(ok)
    BY <1>6 DEF WaitGpu
  <2> QED BY <2>1, SameActions
<1>7. CASE VideoReturn
  <2>1. PICK ok \in BOOLEAN, counted \in BOOLEAN :
          WaitVideoOutReturns(ok, completion.expected_flip_arg, counted)
    BY <1>7 DEF VideoReturn, May
  <2>2. completion.expected_flip_arg = pending[call.slot].token
    BY <1>7 DEF VideoReturn, PInv, WaitFollows
  <2>3. completion.expected_flip_arg \in L!Observable
    <3>1. /\ pending[call.slot].token \in {0} \cup T!Tokens
          /\ pending[call.slot].token < next_token
          /\ next_token \in FirstToken .. MaxToken + 1
      BY RunnerFacts DEF PInv, DeviceInv, TokensInOrder
    <3> QED BY <2>2, <3>1, LoopAssumption DEF L!Observable, T!Tokens
  <2> QED BY <2>1, <2>3, SameActions
<1>8. CASE Drain
  BY <1>8, SameActions DEF Drain
<1> QED
  BY <1>1, <1>2, <1>3, <1>4, <1>5, <1>6, <1>7, <1>8
     DEF Next, Cpu, vars, MainAfterStep, MainAfterDrain, MainCleanup, VideoBegin,
         VideoPoll, VideoEvent, VideoNoEvent, DeadlinePasses, Gpu,
         GpuWaitRendering, GpuDraw, GpuSetFlip, GpuRelease, Vblank

(* So the runner's invariant goes on to hold.                               *)
LEMMA RunnerInv == ASSUME PInv, [Next]_vars PROVE L!IInv'
  BY RunnerStep, L!NextIInv, LoopAssumption DEF PInv

-----------------------------------------------------------------------------
(* The devices.                                                             *)
RingEntry == [buffer : Buffers, token : Nat, pos : 1 .. 4]

Flip == [buffer : Buffers, token : Nat]

(* The program of a frame, packet by packet.                                *)
LEMMA ProgramIs ==
  /\ Program = <<"wait_rendering", "draw", "set_flip", "release">>
  /\ Program \in Seq(Packets) /\ RenderPackets \in Seq(Packets)
  /\ <<>> \in Seq(Packets)
<1> DEFINE all == <<"wait_rendering", "draw", "set_flip", "release">>
<1>1. \A p \in {"wait_rendering", "draw", "set_flip", "release"} : p \in Packets
  BY DEF Packets
<1>2. /\ RenderPackets \in Seq(Packets) /\ Len(RenderPackets) = 2
      /\ RenderPackets[1] = "wait_rendering" /\ RenderPackets[2] = "draw"
  BY <1>1 DEF RenderPackets
<1>3. /\ PresentPackets \in Seq(Packets) /\ Len(PresentPackets) = 2
      /\ PresentPackets[1] = "set_flip" /\ PresentPackets[2] = "release"
  BY <1>1 DEF PresentPackets
<1>4. /\ all \in Seq(Packets) /\ Len(all) = 4
      /\ all[1] = "wait_rendering" /\ all[2] = "draw" /\ all[3] = "set_flip"
      /\ all[4] = "release"
  BY <1>1
<1>5. /\ Program \in Seq(Packets) /\ Len(Program) = 4
      /\ \A i \in 1 .. 4 : Program[i] =
                            IF i <= 2 THEN RenderPackets[i] ELSE PresentPackets[i - 2]
  BY <1>2, <1>3, ConcatProperties DEF Program
<1> HIDE DEF all
<1>6. \A i \in 1 .. 4 : Program[i] = all[i]
  BY <1>2, <1>3, <1>4, <1>5
<1>7. Program = all
  BY <1>4, <1>5, <1>6, SeqEqual
<1> QED BY <1>1, <1>2, <1>5, <1>7 DEF all

(* The next packet tells where the GPU is in the first DCB.                 *)
LEMMA NextPacketIs ==
  ASSUME DeviceTypeOK, RingFollows, NextPacket # "none"
  PROVE  /\ ring # <<>> /\ 1 \in DOMAIN ring /\ Entry \in RingEntry
         /\ NextPacket = "wait_rendering" => Entry.pos = 1
         /\ NextPacket = "draw" => Entry.pos = 2
         /\ NextPacket = "set_flip" => Entry.pos = 3
         /\ NextPacket = "release" => Entry.pos = 4
<1>1. ring # <<>> /\ NextPacket = dcb[Entry.buffer].program[Entry.pos]
  BY DEF NextPacket
<1>2. 1 \in DOMAIN ring /\ Entry \in RingEntry
  <2>1. ring \in Seq(RingEntry)
    BY DEF DeviceTypeOK, RingEntry
  <2> QED BY <1>1, <2>1 DEF Entry
<1>3. dcb[Entry.buffer].program = Program /\ Entry.pos \in 1 .. 4
  <2>1. dcb[Entry.buffer] = [token |-> Entry.token, program |-> Program]
    BY <1>2 DEF RingFollows, Entry
  <2> QED BY <1>2, <2>1 DEF RingEntry
<1>4. NextPacket = Program[Entry.pos]
  BY <1>1, <1>3
<1>5. /\ Program[1] = "wait_rendering" /\ Program[2] = "draw"
      /\ Program[3] = "set_flip" /\ Program[4] = "release"
  BY ProgramIs
<1> QED BY <1>1, <1>2, <1>3, <1>4, <1>5

(* The GPU moves on by one packet.                                          *)
LEMMA AdvanceRing ==
  ASSUME ring \in Seq(RingEntry), ring # <<>>, Entry.pos \in 1 .. 3, Advance
  PROVE  /\ ring' \in Seq(RingEntry) /\ Len(ring') = Len(ring)
         /\ DOMAIN ring' = DOMAIN ring /\ ring' # <<>>
         /\ \A i \in DOMAIN ring :
              /\ ring'[i].buffer = ring[i].buffer
              /\ ring'[i].token = ring[i].token
              /\ i # 1 => ring'[i] = ring[i]
         /\ Entry' \in RingEntry /\ Entry'.pos = Entry.pos + 1
         /\ Entry'.buffer = Entry.buffer /\ Entry'.token = Entry.token
<1> DEFINE e == [ring[1] EXCEPT !.pos = @ + 1]
<1>1. ring[1] \in RingEntry /\ 1 \in 1 .. Len(ring) /\ DOMAIN ring = 1 .. Len(ring)
  OBVIOUS
<1>2. /\ e \in RingEntry /\ e.pos = ring[1].pos + 1 /\ e.buffer = ring[1].buffer
      /\ e.token = ring[1].token
  BY <1>1 DEF RingEntry, Entry
<1>3. ring' = [ring EXCEPT ![1] = e]
  BY DEF Advance
<1> HIDE DEF e
<1>4. ring' \in Seq(RingEntry) /\ Len(ring') = Len(ring)
  BY <1>1, <1>2, <1>3, ExceptSeq
<1>5. /\ DOMAIN ring' = DOMAIN ring
      /\ ring'[1] = e /\ \A i \in DOMAIN ring : i # 1 => ring'[i] = ring[i]
  BY <1>1, <1>3
<1> QED BY <1>1, <1>2, <1>4, <1>5 DEF Entry

(* A lock-step: what the invariant says of the slots and the fences needs   *)
(* no new proof while the GPU only moves on.                                *)
LEMMA GpuMovesOn ==
  ASSUME PInv, Advance, ring # <<>>,
         Entry.pos = 1 \/ Entry.pos = 2,
         Entry.pos = 1 => SafeForRendering(Entry.buffer),
         UNCHANGED <<loopVars, waitVars, mainVars, memoryVars, flipq, screen,
                     equeue, finished>>
  PROVE  DeviceInv'
<1>1. /\ ring \in Seq(RingEntry) /\ Entry.pos \in 1 .. 3
      /\ DeviceTypeOK /\ RingFollows /\ FlipsFollow /\ TokensInOrder /\ FencesTell
  BY DEF PInv, DeviceInv, DeviceTypeOK, RingEntry
<1>2. /\ ring' \in Seq(RingEntry) /\ Len(ring') = Len(ring)
      /\ DOMAIN ring' = DOMAIN ring /\ ring' # <<>>
      /\ \A i \in DOMAIN ring :
           /\ ring'[i].buffer = ring[i].buffer
           /\ ring'[i].token = ring[i].token
           /\ i # 1 => ring'[i] = ring[i]
      /\ Entry'.pos = Entry.pos + 1 /\ Entry'.buffer = Entry.buffer
  BY <1>1, AdvanceRing
<1>3. Flipped' = Flipped
  BY <1>1, <1>2 DEF Flipped
<1>4. DeviceTypeOK'
  BY <1>1, <1>2 DEF DeviceTypeOK, memoryVars, RingEntry
<1>5. RingFollows'
  BY <1>1, <1>2, <1>3 DEF RingFollows, loopVars, memoryVars
<1>6. FlipsFollow'
  BY <1>1 DEF FlipsFollow, loopVars
<1>7. TokensInOrder'
  BY <1>1, <1>2, <1>3 DEF TokensInOrder, LastSubmitted, loopVars, At
<1>8. FencesTell'
  BY <1>1 DEF FencesTell, loopVars, memoryVars, Submitting, At
<1>9. DrawsWhenSafe'
  BY <1>2 DEF DrawsWhenSafe, SafeForRendering
<1> QED BY <1>4, <1>5, <1>6, <1>7, <1>8, <1>9 DEF DeviceInv

(* A queue that grows at its end keeps what it held.                        *)
LEMMA AppendFacts ==
  ASSUME NEW S, NEW s \in Seq(S), NEW e \in S
  PROVE  /\ Append(s, e) \in Seq(S) /\ Len(Append(s, e)) = Len(s) + 1
         /\ Len(s) \in Nat /\ Append(s, e) # <<>>
         /\ \A i \in DOMAIN Append(s, e) :
              \/ i \in DOMAIN s /\ Append(s, e)[i] = s[i]
              \/ i = Len(s) + 1 /\ Append(s, e)[i] = e
  OBVIOUS

(* And one that loses its head.                                             *)
LEMMA TailFacts ==
  ASSUME NEW S, NEW s \in Seq(S), s # <<>>
  PROVE  /\ Tail(s) \in Seq(S) /\ Len(Tail(s)) = Len(s) - 1
         /\ Len(s) \in Nat /\ Len(s) >= 1
         /\ Head(s) = s[1] /\ s[1] \in S /\ 1 \in DOMAIN s
         /\ \A i \in DOMAIN Tail(s) :
              /\ i \in Nat /\ i >= 1 /\ i + 1 \in DOMAIN s
              /\ Tail(s)[i] = s[i + 1]
  OBVIOUS

(* A flip is handed to VideoOut: the token moves from the ring to the queue *)
(* and the count of those that precede any other does not change.           *)
LEMMA SetFlipInv == ASSUME PInv, GpuSetFlip PROVE DeviceInv'
<1> DEFINE f == [buffer |-> Entry.buffer, token |-> dcb[Entry.buffer].token]
<1>1. /\ DeviceTypeOK /\ RingFollows /\ FlipsFollow /\ TokensInOrder /\ FencesTell
      /\ ring \in Seq(RingEntry) /\ flipq \in Seq(Flip)
      /\ screen.token \in Nat
  BY DEF PInv, DeviceInv, DeviceTypeOK, RingEntry, Flip
<1>2. /\ Entry.pos = 3 /\ ring # <<>> /\ Entry \in RingEntry /\ 1 \in DOMAIN ring
      /\ Advance /\ flipq' = Append(flipq, f)
      /\ UNCHANGED <<loopVars, waitVars, mainVars, memoryVars, screen, equeue,
                     finished>>
  BY <1>1, NextPacketIs DEF GpuSetFlip
<1>3. /\ ring' \in Seq(RingEntry) /\ Len(ring') = Len(ring)
      /\ DOMAIN ring' = DOMAIN ring /\ ring' # <<>>
      /\ \A i \in DOMAIN ring :
           /\ ring'[i].buffer = ring[i].buffer
           /\ ring'[i].token = ring[i].token
           /\ i # 1 => ring'[i] = ring[i]
      /\ Entry'.pos = 4 /\ Entry'.buffer = Entry.buffer
  BY <1>1, <1>2, AdvanceRing
<1>4. /\ pending[Entry.buffer].active /\ pending[Entry.buffer].token = Entry.token
      /\ Entry.token = screen.token + Len(flipq) + 1 - Flipped
      /\ dcb[Entry.buffer] = [token |-> Entry.token, program |-> Program]
  BY <1>1, <1>2 DEF RingFollows, Entry
<1>5. Flipped = 0 /\ Flipped' = 1
  BY <1>2, <1>3 DEF Flipped
<1>6. /\ f \in Flip /\ f.buffer = Entry.buffer /\ f.token = Entry.token
  BY <1>2, <1>4 DEF Flip, RingEntry
<1> HIDE DEF f
<1>7. /\ flipq' \in Seq(Flip) /\ Len(flipq') = Len(flipq) + 1
      /\ \A i \in DOMAIN flipq' :
           \/ i \in DOMAIN flipq /\ flipq'[i] = flipq[i]
           \/ i = Len(flipq) + 1 /\ flipq'[i] = f
  <2>1. flipq' = Append(flipq, f) /\ flipq \in Seq(Flip) /\ f \in Flip
    BY <1>1, <1>2, <1>6
  <2> QED BY <2>1, AppendFacts
<1>8. DeviceTypeOK'
  BY <1>1, <1>2, <1>3, <1>7 DEF DeviceTypeOK, memoryVars, RingEntry, Flip
<1>9. RingFollows'
  <2>1. UNCHANGED <<pending, fence, dcb, screen>>
    BY <1>2 DEF loopVars, memoryVars
  <2>2. Len(flipq) - Flipped = Len(flipq') - Flipped' /\ Len(flipq) \in Nat
    BY <1>1, <1>5, <1>7, AppendFacts
  <2>3. ASSUME NEW i \in DOMAIN ring
        PROVE  /\ pending[ring'[i].buffer].active
               /\ pending[ring'[i].buffer].token = ring'[i].token
               /\ fence[ring'[i].buffer] = 1
               /\ dcb[ring'[i].buffer] = [token |-> ring'[i].token,
                                          program |-> Program]
               /\ i # 1 => ring'[i].pos = 1
    BY <1>1, <1>3 DEF RingFollows
  <2>4. ASSUME NEW i \in DOMAIN ring
        PROVE  ring'[i].token = screen.token + Len(flipq') + i - Flipped'
    <3>1. ring[i].token = screen.token + Len(flipq) + i - Flipped
      BY <1>1 DEF RingFollows
    <3>2. ring'[i].token = ring[i].token /\ i \in Nat
      <4>1. DOMAIN ring = 1 .. Len(ring) /\ Len(ring) \in Nat
        BY <1>1, LenProperties
      <4> QED BY <4>1, <1>3
    <3>3. Len(flipq') = Len(flipq) + 1 /\ Flipped = 0 /\ Flipped' = 1
      BY <1>5, <1>7
    <3>4. screen.token \in Nat /\ Len(flipq) \in Nat
      BY <1>1, <2>2
    <3> QED BY <3>1, <3>2, <3>3, <3>4, SMTT(30)
  <2> QED BY <2>1, <2>3, <2>4, <1>3 DEF RingFollows
<1>10. FlipsFollow'
  <2>1. ASSUME NEW i \in DOMAIN flipq'
        PROVE  /\ pending[flipq'[i].buffer].active
               /\ pending[flipq'[i].buffer].token = flipq'[i].token
               /\ flipq'[i].token = screen.token + i
    <3>1. CASE i \in DOMAIN flipq /\ flipq'[i] = flipq[i]
      BY <3>1, <1>1 DEF FlipsFollow
    <3>2. CASE i = Len(flipq) + 1 /\ flipq'[i] = f
      <4>1. f.token = screen.token + Len(flipq) + 1 /\ Len(flipq) \in Nat
        BY <1>1, <1>4, <1>5, <1>6, AppendFacts
      <4>2. /\ pending[f.buffer].active /\ pending[f.buffer].token = f.token
            /\ screen.token \in Nat
        BY <1>1, <1>4, <1>6
      <4>3. screen.token + Len(flipq) + 1 = screen.token + i
        BY <3>2, <4>1, <4>2
      <4> QED BY <3>2, <4>1, <4>2, <4>3
    <3> QED BY <1>7, <3>1, <3>2
  <2> QED BY <1>1, <1>2, <2>1 DEF FlipsFollow, loopVars
<1>11. LastSubmitted' = LastSubmitted
  <2>1. Len(flipq) \in Nat /\ Len(ring) \in Nat /\ screen' = screen
    BY <1>1, <1>2, LenProperties
  <2>2. /\ Len(flipq') = Len(flipq) + 1 /\ Len(ring') = Len(ring)
        /\ Flipped = 0 /\ Flipped' = 1 /\ screen.token \in Nat
    BY <1>1, <1>3, <1>5, <1>7
  <2> QED BY <2>1, <2>2 DEF LastSubmitted
<1>12. TokensInOrder'
  BY <1>1, <1>2, <1>11 DEF TokensInOrder, loopVars, At
<1>13. FencesTell'
  BY <1>1, <1>2 DEF FencesTell, loopVars, memoryVars, Submitting, At
<1>14. DrawsWhenSafe'
  BY <1>3 DEF DrawsWhenSafe
<1> QED BY <1>8, <1>9, <1>10, <1>12, <1>13, <1>14 DEF DeviceInv

(* The end of a DCB: its fence goes down, and the next entry, which has not *)
(* begun, is first.                                                         *)
LEMMA ReleaseInv == ASSUME PInv, GpuRelease PROVE DeviceInv'
<1>1. /\ DeviceTypeOK /\ RingFollows /\ FlipsFollow /\ TokensInOrder /\ FencesTell
      /\ ring \in Seq(RingEntry) /\ fence \in [Buffers -> {0, 1}]
      /\ screen.token \in Nat /\ Len(flipq) \in Nat
  BY DEF PInv, DeviceInv, DeviceTypeOK, RingEntry
<1>2. /\ Entry.pos = 4 /\ ring # <<>> /\ Entry \in RingEntry /\ 1 \in DOMAIN ring
      /\ fence' = [fence EXCEPT ![Entry.buffer] = 0]
      /\ finished' = finished \cup {<<Entry.token, "gpu">>}
      /\ ring' = Tail(ring)
      /\ UNCHANGED <<loopVars, waitVars, mainVars, dcb, flipq, screen, equeue>>
  BY <1>1, NextPacketIs DEF GpuRelease
<1>3. /\ ring' \in Seq(RingEntry) /\ Len(ring') = Len(ring) - 1
      /\ \A i \in DOMAIN ring' :
           i + 1 \in DOMAIN ring /\ i \in Nat /\ i >= 1 /\ ring'[i] = ring[i + 1]
      /\ Len(ring) \in Nat
  BY <1>1, <1>2, TailFacts
<1>15. ring' # <<>> => Entry'.pos = 1
  <2> SUFFICES ASSUME ring' # <<>> PROVE ring'[1].pos = 1
    BY DEF Entry
  <2>1. 1 \in DOMAIN ring'
    BY <1>3
  <2>2. ring'[1] = ring[1 + 1] /\ 1 + 1 \in DOMAIN ring /\ 1 + 1 # 1
    BY <1>3, <2>1
  <2> QED BY <2>2, <1>1 DEF RingFollows
<1>4. Flipped = 1 /\ Flipped' = 0
  BY <1>2, <1>15 DEF Flipped
<1>5. /\ Entry.buffer \in Buffers /\ pending[Entry.buffer].active
      /\ pending[Entry.buffer].token = Entry.token
  BY <1>1, <1>2 DEF RingFollows, Entry, RingEntry
<1>6. \A i \in DOMAIN ring' : ring'[i].buffer # Entry.buffer
  <2> SUFFICES ASSUME NEW i \in DOMAIN ring', ring'[i].buffer = Entry.buffer
               PROVE  FALSE
    OBVIOUS
  <2>1. i + 1 \in DOMAIN ring /\ ring'[i] = ring[i + 1] /\ i \in Nat /\ i >= 1
    BY <1>3
  <2> DEFINE j == i + 1
  <2>9. j \in DOMAIN ring /\ ring[j].buffer = Entry.buffer /\ j \in Nat /\ j >= 2
    BY <2>1
  <2> HIDE DEF j
  <2>2. /\ ring[j].token = pending[Entry.buffer].token
        /\ ring[j].token = screen.token + Len(flipq) + j - Flipped
    BY <1>1, <2>9 DEF RingFollows
  <2>3. /\ ring[1].token = pending[Entry.buffer].token
        /\ ring[1].token = screen.token + Len(flipq) + 1 - Flipped
    BY <1>1, <1>2 DEF RingFollows, Entry
  <2> QED BY <2>9, <2>2, <2>3, <1>1, <1>4
<1>7. /\ fence'[Entry.buffer] = 0
      /\ \A b \in Buffers \ {Entry.buffer} : fence'[b] = fence[b]
      /\ fence' \in [Buffers -> {0, 1}]
  BY <1>1, <1>2, <1>5
<1>8. DeviceTypeOK'
  BY <1>1, <1>2, <1>3, <1>7 DEF DeviceTypeOK, RingEntry
<1>9. RingFollows'
  <2> SUFFICES ASSUME NEW i \in DOMAIN ring'
               PROVE  /\ pending[ring'[i].buffer].active
                      /\ pending[ring'[i].buffer].token = ring'[i].token
                      /\ fence'[ring'[i].buffer] = 1
                      /\ dcb[ring'[i].buffer] = [token |-> ring'[i].token,
                                                 program |-> Program]
                      /\ ring'[i].token = screen.token + Len(flipq) + i
                      /\ ring'[i].pos = 1
    <3>1. UNCHANGED <<pending, dcb, screen, flipq>>
      BY <1>2 DEF loopVars
    <3>2. \A i \in DOMAIN ring' :
            screen.token + Len(flipq) + i - Flipped' = screen.token + Len(flipq) + i
      BY <1>1, <1>3, <1>4
    <3> QED BY <3>1, <3>2 DEF RingFollows
  <2> DEFINE j == i + 1
  <2>1. j \in DOMAIN ring /\ ring'[i] = ring[j] /\ j # 1 /\ j = i + 1 /\ i \in Nat
    BY <1>3
  <2> HIDE DEF j
  <2>2. /\ pending[ring[j].buffer].active
        /\ pending[ring[j].buffer].token = ring[j].token
        /\ fence[ring[j].buffer] = 1
        /\ dcb[ring[j].buffer] = [token |-> ring[j].token, program |-> Program]
        /\ ring[j].token = screen.token + Len(flipq) + j - Flipped
        /\ ring[j].pos = 1
    BY <2>1, <1>1 DEF RingFollows
  <2>3. ring[j].buffer \in Buffers \ {Entry.buffer}
    <3>1. ring[j] \in RingEntry
      BY <2>1, <1>1
    <3> QED BY <3>1, <2>1, <1>6 DEF RingEntry
  <2>4. screen.token + Len(flipq) + j - Flipped = screen.token + Len(flipq) + i
    BY <2>1, <1>1, <1>4
  <2> QED BY <2>1, <2>2, <2>3, <2>4, <1>7
<1>10. FlipsFollow'
  BY <1>1, <1>2 DEF FlipsFollow, loopVars
<1>11. LastSubmitted' = LastSubmitted
  BY <1>1, <1>2, <1>3, <1>4 DEF LastSubmitted
<1>12. TokensInOrder'
  BY <1>1, <1>2, <1>11 DEF TokensInOrder, loopVars, At
<1>13. FencesTell'
  <2>1. /\ \A b \in Buffers : Submitting(b)' <=> Submitting(b)
        /\ UNCHANGED <<slots, pending, dcb, screen>>
        /\ finished \subseteq finished'
        /\ <<pending[Entry.buffer].token, "gpu">> \in finished'
    BY <1>2, <1>5 DEF loopVars, Submitting, At
  <2>2. ASSUME NEW b \in Buffers
        PROVE  /\ fence'[b] = 1 =>
                    pending[b].active /\ ~slots[b].gpu_complete /\ ~Submitting(b)
               /\ fence'[b] = 0 /\ pending[b].active /\ ~Submitting(b) =>
                    <<pending[b].token, "gpu">> \in finished'
    BY <1>1, <1>7, <2>1, ZenonT(60) DEF FencesTell
  <2>3. ASSUME NEW b \in Buffers
        PROVE  /\ slots[b].phase = "SUBMITTED" /\ slots[b].gpu_complete =>
                    <<slots[b].token, "gpu">> \in finished'
               /\ slots[b].phase = "SUBMITTED" /\ slots[b].videoout_complete =>
                    <<slots[b].token, "videoout">> \in finished'
               /\ Submitting(b) =>
                    /\ ~slots[b].gpu_complete
                    /\ dcb[b] = [token |-> pending[b].token,
                                 program |-> RenderPackets]
    BY <1>1, <2>1 DEF FencesTell
  <2>4. \A t \in FirstToken .. screen.token : <<t, "videoout">> \in finished'
    BY <1>1, <2>1 DEF FencesTell
  <2> QED BY <2>1, <2>2, <2>3, <2>4 DEF FencesTell
<1>14. DrawsWhenSafe'
  BY <1>15 DEF DrawsWhenSafe
<1> QED BY <1>8, <1>9, <1>10, <1>12, <1>13, <1>14 DEF DeviceInv

(* At a vertical blank the token on screen moves to its successor, and that *)
(* of every flip left stays where it was.                                   *)
LEMMA VblankInv ==
  ASSUME PInv, Vblank
  PROVE  DeviceInv' /\ screen'.token = screen.token + 1
<1> DEFINE h == Head(flipq)
<1>1. /\ DeviceTypeOK /\ RingFollows /\ FlipsFollow /\ TokensInOrder /\ FencesTell
      /\ DrawsWhenSafe
      /\ ring \in Seq(RingEntry) /\ flipq \in Seq(Flip) /\ equeue \in Seq(Nat)
      /\ screen.token \in Nat /\ Len(ring) \in Nat
  BY DEF PInv, DeviceInv, DeviceTypeOK, RingEntry, Flip
<1>2. /\ flipq # <<>> /\ screen' = h /\ flipq' = Tail(flipq)
      /\ finished' = finished \cup {<<h.token, "videoout">>}
      /\ UNCHANGED <<slots, next_token, pending, result, call, dcb, fence, ring>>
  BY DEF Vblank, loopVars, memoryVars
<1>3. /\ flipq' \in Seq(Flip) /\ Len(flipq') = Len(flipq) - 1
      /\ Len(flipq) \in Nat /\ h = flipq[1] /\ h \in Flip /\ 1 \in DOMAIN flipq
      /\ \A i \in DOMAIN flipq' :
           /\ i \in Nat /\ i >= 1 /\ i + 1 \in DOMAIN flipq
           /\ flipq'[i] = flipq[i + 1]
  BY <1>1, <1>2, TailFacts
<1>4. h.token = screen.token + 1 /\ h.token \in Nat
  BY <1>1, <1>3 DEF FlipsFollow, Flip
<1>5. PICK q \in {equeue, <<>>} : equeue' = Append(q, h.token)
  BY DEF Vblank
<1> HIDE DEF h
<1>6. Flipped' = Flipped /\ Flipped \in {0, 1}
  BY <1>2 DEF Flipped, Entry
<1>7. DeviceTypeOK'
  <2>1. q \in Seq(Nat)
    BY <1>1, <1>5, EmptySeq
  <2>2. equeue' \in Seq(Nat)
    BY <2>1, <1>4, <1>5, AppendFacts
  <2> QED BY <1>1, <1>2, <1>3, <2>2 DEF DeviceTypeOK, Flip
<1>8. RingFollows'
  <2>1. screen'.token + Len(flipq') = screen.token + Len(flipq)
    BY <1>1, <1>2, <1>3, <1>4
  <2> QED BY <1>1, <1>2, <1>6, <2>1 DEF RingFollows
<1>9. FlipsFollow'
  <2>1. ASSUME NEW i \in DOMAIN flipq'
        PROVE  /\ pending[flipq'[i].buffer].active
               /\ pending[flipq'[i].buffer].token = flipq'[i].token
               /\ flipq'[i].token = h.token + i
    <3> DEFINE j == i + 1
    <3>1. /\ j \in DOMAIN flipq /\ flipq'[i] = flipq[j] /\ j = i + 1 /\ i \in Nat
      BY <1>3
    <3> HIDE DEF j
    <3>2. /\ pending[flipq[j].buffer].active
          /\ pending[flipq[j].buffer].token = flipq[j].token
          /\ flipq[j].token = screen.token + j
      BY <1>1, <3>1 DEF FlipsFollow
    <3>3. screen.token + j = h.token + i
      <4>1. screen.token \in Nat /\ i \in Nat /\ j = i + 1
        BY <1>1, <3>1
      <4>2. h.token = screen.token + 1
        BY <1>4
      <4> QED BY <4>1, <4>2
    <3> QED BY <3>1, <3>2, <3>3
  <2>2. ASSUME NEW i \in DOMAIN equeue' PROVE equeue'[i] <= h.token
    <3>1. q \in Seq(Nat)
      BY <1>1, <1>5, EmptySeq
    <3>2. \/ i \in DOMAIN q /\ equeue'[i] = q[i]
          \/ equeue'[i] = h.token
      BY <3>1, <1>4, <1>5, AppendFacts
    <3>3. i \in DOMAIN q => q[i] <= screen.token /\ q[i] \in Nat
      BY <3>1, <1>1, <1>5 DEF FlipsFollow
    <3> QED BY <3>2, <3>3, <1>1, <1>4
  <2> QED BY <1>2, <2>1, <2>2 DEF FlipsFollow
<1>10. LastSubmitted' = LastSubmitted
  BY <1>1, <1>2, <1>3, <1>4, <1>6 DEF LastSubmitted
<1>11. TokensInOrder'
  BY <1>1, <1>2, <1>10 DEF TokensInOrder, At
<1>12. FencesTell'
  <2>1. finished \subseteq finished'
    BY <1>2
  <2>2. ASSUME NEW t \in FirstToken .. h.token PROVE <<t, "videoout">> \in finished'
    <3>1. t \in FirstToken .. screen.token \/ t = h.token
      BY <1>1, <1>4, LoopAssumption
    <3> QED BY <3>1, <1>1, <1>2 DEF FencesTell
  <2>3. \A b \in Buffers : Submitting(b)' <=> Submitting(b)
    BY <1>2 DEF Submitting, At
  <2> QED BY <1>1, <1>2, <2>1, <2>2, <2>3 DEF FencesTell
<1>13. DrawsWhenSafe'
  <2> SUFFICES ASSUME ring # <<>>, Entry.pos = 2
               PROVE  /\ h.buffer # Entry.buffer
                      /\ \A i \in DOMAIN flipq' : flipq'[i].buffer # Entry.buffer
    BY <1>2 DEF DrawsWhenSafe, SafeForRendering, Entry
  <2>1. \A i \in DOMAIN flipq : flipq[i].buffer # Entry.buffer
    BY <1>1 DEF DrawsWhenSafe, SafeForRendering
  <2> QED BY <2>1, <1>3
<1> QED BY <1>2, <1>4, <1>7, <1>8, <1>9, <1>11, <1>12, <1>13 DEF DeviceInv

(* The four packets together.                                               *)
LEMMA GpuInv == ASSUME PInv, Gpu PROVE DeviceInv'
<1>1. DeviceTypeOK /\ RingFollows
  BY DEF PInv, DeviceInv
<1>2. CASE GpuWaitRendering
  BY <1>1, <1>2, NextPacketIs, GpuMovesOn DEF GpuWaitRendering
<1>3. CASE GpuDraw
  BY <1>1, <1>3, NextPacketIs, GpuMovesOn DEF GpuDraw
<1> QED BY <1>2, <1>3, SetFlipInv, ReleaseInv DEF Gpu

-----------------------------------------------------------------------------
(* The program.  A step that leaves the runner and the devices alone, but   *)
(* for an event taken from the queue.                                       *)
LEMMA DevicesKept ==
  ASSUME PInv,
         UNCHANGED <<loopVars, memoryVars, ring, flipq, screen, finished>>,
         equeue' = equeue \/ (equeue # <<>> /\ equeue' = Tail(equeue))
  PROVE  DeviceInv'
<1>1. /\ DeviceTypeOK /\ RingFollows /\ FlipsFollow /\ TokensInOrder /\ FencesTell
      /\ DrawsWhenSafe /\ equeue \in Seq(Nat)
      /\ \A i \in DOMAIN equeue : equeue[i] <= screen.token
  BY DEF PInv, DeviceInv, DeviceTypeOK, FlipsFollow
<1>2. UNCHANGED <<slots, next_token, pending, result, call, dcb, fence>>
  BY DEF loopVars, memoryVars
<1>3. equeue' \in Seq(Nat) /\ \A i \in DOMAIN equeue' : equeue'[i] <= screen.token
  <2>1. CASE equeue' = equeue
    BY <2>1, <1>1
  <2>2. CASE equeue # <<>> /\ equeue' = Tail(equeue)
    BY <2>2, <1>1, TailFacts
  <2> QED BY <2>1, <2>2
<1>4. DeviceTypeOK'
  BY <1>1, <1>2, <1>3 DEF DeviceTypeOK
<1>5. RingFollows'
  BY <1>1, <1>2 DEF RingFollows, Flipped, Entry
<1>6. FlipsFollow'
  BY <1>1, <1>2, <1>3 DEF FlipsFollow
<1>7. TokensInOrder'
  BY <1>1, <1>2 DEF TokensInOrder, LastSubmitted, Flipped, Entry, At
<1>8. FencesTell'
  BY <1>1, <1>2 DEF FencesTell, Submitting, At
<1>9. DrawsWhenSafe'
  BY <1>1 DEF DrawsWhenSafe, SafeForRendering, Entry
<1> QED BY <1>4, <1>5, <1>6, <1>7, <1>8, <1>9 DEF DeviceInv

(* A device may still hold the frame of slot b.                             *)
Held(b) == fence[b] = 1 \/ \E i \in DOMAIN flipq : flipq[i].buffer = b

(* What the runner's step must leave standing while the devices and their   *)
(* memory do not move: the frames that they hold are still in flight.       *)
LEMMA LoopMoves ==
  ASSUME PInv, UNCHANGED <<memoryVars, deviceVars>>,
         \A b \in Buffers : Held(b) =>
           pending'[b].active /\ pending'[b].token = pending[b].token,
         TokensInOrder', FencesTell'
  PROVE  DeviceInv'
<1>1. /\ DeviceTypeOK /\ RingFollows /\ FlipsFollow /\ DrawsWhenSafe
      /\ ring \in Seq(RingEntry) /\ flipq \in Seq(Flip)
  BY DEF PInv, DeviceInv, DeviceTypeOK, RingEntry, Flip
<1>2. UNCHANGED <<dcb, fence, ring, flipq, screen, equeue, finished>>
  BY DEF memoryVars, deviceVars
<1>3. DeviceTypeOK'
  BY <1>1, <1>2 DEF DeviceTypeOK
<1>4. RingFollows'
  <2>1. ASSUME NEW i \in DOMAIN ring
        PROVE  /\ pending'[ring[i].buffer].active
               /\ pending'[ring[i].buffer].token = ring[i].token
    <3>1. ring[i].buffer \in Buffers
      <4>1. ring[i] \in RingEntry
        BY <1>1
      <4> QED BY <4>1 DEF RingEntry
    <3>2. fence[ring[i].buffer] = 1 /\ pending[ring[i].buffer].token = ring[i].token
      BY <1>1 DEF RingFollows
    <3> QED BY <3>1, <3>2 DEF Held
  <2> QED BY <1>1, <1>2, <2>1 DEF RingFollows, Flipped, Entry
<1>5. FlipsFollow'
  <2>1. ASSUME NEW i \in DOMAIN flipq
        PROVE  /\ pending'[flipq[i].buffer].active
               /\ pending'[flipq[i].buffer].token = flipq[i].token
    <3>1. flipq[i].buffer \in Buffers
      <4>1. flipq[i] \in Flip
        BY <1>1
      <4> QED BY <4>1 DEF Flip
    <3>2. pending[flipq[i].buffer].token = flipq[i].token
      BY <1>1 DEF FlipsFollow
    <3> QED BY <3>1, <3>2 DEF Held
  <2> QED BY <1>1, <1>2, <2>1 DEF FlipsFollow
<1>6. DrawsWhenSafe'
  BY <1>1, <1>2 DEF DrawsWhenSafe, SafeForRendering, Entry
<1> QED BY <1>3, <1>4, <1>5, <1>6 DEF DeviceInv

(* A frame that a device holds is in flight.                                *)
LEMMA HeldIsActive ==
  ASSUME PInv, NEW b \in Buffers, Held(b) PROVE pending[b].active
<1>1. FencesTell /\ FlipsFollow
  BY DEF PInv, DeviceInv
<1> QED BY <1>1 DEF Held, FencesTell, FlipsFollow

(* A step of the runner that moves the call, and touches neither the slots  *)
(* nor the frames in flight: the calls themselves, the choice of the oldest *)
(* frame, the end of a drain, and every failure but that of a compose.      *)
LEMMA CallMoves ==
  ASSUME PInv, UNCHANGED <<memoryVars, deviceVars>>,
         UNCHANGED <<slots, next_token, pending>>,
         ~At("compose") /\ ~At("submit"), ~At("compose")' /\ ~At("submit")',
         result'.state = "ACTIVE" => result.state = "ACTIVE"
  PROVE  DeviceInv'
<1>1. TokensInOrder /\ FencesTell
  BY DEF PInv, DeviceInv
<1>2. UNCHANGED <<dcb, fence, ring, flipq, screen, equeue, finished>>
  BY DEF memoryVars, deviceVars
<1>3. LastSubmitted' = LastSubmitted
  BY <1>2 DEF LastSubmitted, Flipped, Entry
<1>4. TokensInOrder'
  BY <1>1, <1>3 DEF TokensInOrder, At
<1>5. FencesTell'
  BY <1>1, <1>2 DEF FencesTell, Submitting, At
<1> QED BY <1>4, <1>5, LoopMoves, HeldIsActive

(* A failure of the runner, whatever it retains: the run is over.           *)
LEMMA Failures ==
  ASSUME PInv
  PROVE  /\ \A b, f : RetainFailure(b, f) => result'.state # "ACTIVE" /\ call' = Idle
         /\ \A f : FailBeforeSubmit(f) => result'.state # "ACTIVE" /\ call' = Idle
<1>1. result \in [state : RunStates, frames_completed : Nat,
                  max_frames_in_flight : 0 .. 2, failed_frame : Nat,
                  retained_token : {0} \cup T!Tokens]
  BY RunnerFacts DEF PInv
<1>2. ASSUME NEW b, NEW f, RetainFailure(b, f)
      PROVE  result'.state # "ACTIVE" /\ call' = Idle
  BY <1>1, <1>2 DEF RetainFailure, Return
<1>3. ASSUME NEW f, FailBeforeSubmit(f)
      PROVE  result'.state # "ACTIVE" /\ call' = Idle
  <2>1. CASE Active # {}
    BY <1>2, <1>3, <2>1 DEF FailBeforeSubmit
  <2>2. CASE Active = {}
    BY <1>1, <1>3, <2>2 DEF FailBeforeSubmit, Return
  <2> QED BY <2>1, <2>2
<1> QED BY <1>2, <1>3

(* Preparing a frame takes a slot that no device holds.                     *)
LEMMA PrepareInv == ASSUME PInv, Prepare PROVE DeviceInv'
<1>1. /\ TokensInOrder /\ FencesTell /\ At("prepare")
      /\ UNCHANGED <<memoryVars, deviceVars>>
      /\ ~pending[call.slot].active /\ call.slot \in Buffers
      /\ result.state = "ACTIVE"
      /\ slots \in [Buffers -> T!Slot]
      /\ pending \in [Buffers -> [token : {0} \cup T!Tokens, frame_index : Nat,
                                  active : BOOLEAN]]
      /\ next_token \in Nat /\ next_token >= FirstToken
      /\ call \in [op : {"none", "step", "drain"}, at : L!Places, slot : Buffers]
  <2>1. At("prepare") /\ UNCHANGED <<memoryVars, deviceVars>>
    BY DEF Prepare, PrepareOk, PrepareSceneFails, PrepareRefused
  <2>2. TokensInOrder /\ FencesTell /\ L!IInv
    BY DEF PInv, DeviceInv
  <2>3. ~At("idle")
    BY <2>1 DEF At
  <2> QED BY <2>1, <2>2, <2>3, RunnerFacts, LoopAssumption
<1>2. UNCHANGED <<dcb, fence, ring, flipq, screen, equeue, finished>>
  BY <1>1 DEF memoryVars, deviceVars
<1>3. LastSubmitted' = LastSubmitted
  BY <1>2 DEF LastSubmitted, Flipped, Entry
<1>4. ~At("compose") /\ ~At("submit")
  BY <1>1 DEF At
<1>5. \A b \in Buffers : Held(b) => pending[b].active /\ b # call.slot
  BY <1>1, HeldIsActive
<1>6. CASE PrepareOk \/ PrepareSceneFails
  <2>1. /\ pending' = [pending EXCEPT ![call.slot].token = next_token,
                                      ![call.slot].frame_index = next_frame_index]
        /\ next_token' = next_token + 1
        /\ \/ slots' = [slots EXCEPT ![call.slot] = T!PreparedSlot(next_token)]
           \/ slots' = [slots EXCEPT ![call.slot] = T!EmptySlot]
    BY <1>6 DEF PrepareOk, PrepareSceneFails, T!Begin
  <2>2. \/ call'.slot = call.slot /\ At("compose")' /\ result' = result
        \/ result'.state # "ACTIVE" /\ call' = Idle
    <3>1. CASE PrepareOk
      BY <1>1, <3>1 DEF PrepareOk, Goto, At
    <3>2. CASE PrepareSceneFails
      BY <3>2, Failures DEF PrepareSceneFails
    <3> QED BY <1>6, <3>1, <3>2
  <2>3. /\ \A b \in Buffers \ {call.slot} :
             pending'[b] = pending[b] /\ slots'[b] = slots[b]
        /\ pending'[call.slot].token = next_token
        /\ ~pending'[call.slot].active
        /\ slots'[call.slot].phase # "SUBMITTED"
        /\ ~slots'[call.slot].gpu_complete
    BY <1>1, <2>1 DEF T!PreparedSlot, T!EmptySlot
  <2>4. TokensInOrder'
    <3>1. result'.state = "ACTIVE" =>
            LastSubmitted' = next_token' -
              (IF At("compose")' \/ At("submit")' THEN 2 ELSE 1)
      BY <1>1, <1>3, <1>4, <2>1, <2>2 DEF TokensInOrder
    <3>2. At("compose")' \/ At("submit")' =>
            /\ pending'[call'.slot].token = next_token' - 1
            /\ next_token' > FirstToken
      <4>1. next_token' - 1 = next_token /\ next_token' > FirstToken
        <5>1. next_token \in Nat /\ next_token >= FirstToken /\ FirstToken \in Nat
          BY <1>1, LoopAssumption
        <5>2. next_token' = next_token + 1
          BY <2>1
        <5> QED BY <5>1, <5>2
      <4>2. call'.slot = call.slot \/ call'.at = "idle"
        BY <2>2 DEF Idle
      <4> QED BY <4>1, <4>2, <2>3 DEF At
    <3>3. ASSUME NEW b \in Buffers
          PROVE  /\ pending'[b].token < next_token'
                 /\ pending'[b].active => pending'[b].token >= FirstToken
      <4>1. CASE b = call.slot
        BY <4>1, <1>1, <2>1, <2>3
      <4>2. CASE b # call.slot
        <5>1. /\ pending'[b] = pending[b] /\ pending[b].token < next_token
              /\ pending[b].active => pending[b].token >= FirstToken
          BY <4>2, <1>1, <2>3 DEF TokensInOrder
        <5>2. pending[b].token \in Nat
          BY <1>1, LoopAssumption DEF T!Tokens
        <5> QED BY <5>1, <5>2, <1>1, <2>1
      <4> QED BY <4>1, <4>2
    <3> QED BY <3>1, <3>2, <3>3 DEF TokensInOrder
  <2>5. FencesTell'
    <3>1. \A b \in Buffers : ~Submitting(b) /\ ~Submitting(b)'
      BY <1>4, <2>2 DEF Submitting, At, Idle
    <3>2. fence[call.slot] # 1
      BY <1>1 DEF FencesTell
    <3>3. ASSUME NEW b \in Buffers
          PROVE  /\ fence[b] = 1 => pending'[b].active /\ ~slots'[b].gpu_complete
                 /\ fence[b] = 0 /\ pending'[b].active =>
                      <<pending'[b].token, "gpu">> \in finished
                 /\ slots'[b].phase = "SUBMITTED" /\ slots'[b].gpu_complete =>
                      <<slots'[b].token, "gpu">> \in finished
                 /\ slots'[b].phase = "SUBMITTED" /\ slots'[b].videoout_complete =>
                      <<slots'[b].token, "videoout">> \in finished
      <4>1. CASE b = call.slot
        BY <4>1, <2>3, <3>2
      <4>2. CASE b # call.slot
        BY <4>2, <1>1, <2>3, <3>1 DEF FencesTell
      <4> QED BY <4>1, <4>2
    <3> QED BY <1>1, <1>2, <3>1, <3>3 DEF FencesTell
  <2> QED BY <1>1, <1>5, <2>3, <2>4, <2>5, LoopMoves
<1>7. CASE \E failed \in May("prepare") : PrepareRefused(~failed)
  <2>1. FailBeforeSubmit(next_frame_index) /\ UNCHANGED <<slots, next_token, pending>>
    BY <1>7 DEF PrepareRefused
  <2>2. result'.state # "ACTIVE" /\ ~At("compose")' /\ ~At("submit")'
    BY <2>1, Failures DEF At, Idle
  <2> QED BY <1>1, <1>4, <2>1, <2>2, CallMoves
<1> QED BY <1>6, <1>7 DEF Prepare

(* Composing writes the commands of a slot that no device holds; on success *)
(* the frame counts as submitted from here on.                              *)
LEMMA ComposeInv == ASSUME PInv, Compose PROVE DeviceInv'
<1> DEFINE c == call.slot
<1>1. PICK failed \in May("compose") :
        /\ ComposeReturns(~failed)
        /\ dcb' = [dcb EXCEPT ![call.slot] =
                     [token |-> pending[call.slot].token,
                      program |-> IF failed THEN <<>> ELSE RenderPackets]]
  BY DEF Compose
<1>2. At("compose") /\ UNCHANGED <<fence, ring, flipq, screen, equeue, finished>>
  BY <1>1 DEF Compose, ComposeReturns, deviceVars
<1>3. /\ DeviceTypeOK /\ RingFollows /\ FlipsFollow /\ TokensInOrder /\ FencesTell
      /\ DrawsWhenSafe /\ L!IInv /\ ~At("idle") /\ ~At("submit")
  BY <1>2 DEF PInv, DeviceInv, At
<1>4. /\ ~pending[c].active /\ c \in Buffers /\ result.state = "ACTIVE"
      /\ T!Holds(c, "PREPARED", pending[c].token)
      /\ slots[c].phase = "PREPARED" =>
           ~slots[c].gpu_complete /\ ~slots[c].videoout_complete
      /\ slots \in [Buffers -> T!Slot]
      /\ pending \in [Buffers -> [token : {0} \cup T!Tokens, frame_index : Nat,
                                  active : BOOLEAN]]
      /\ pending[c].token \in Nat
      /\ call \in [op : {"none", "step", "drain"}, at : L!Places, slot : Buffers]
      /\ result \in [state : RunStates, frames_completed : Nat,
                     max_frames_in_flight : 0 .. 2, failed_frame : Nat,
                     retained_token : {0} \cup T!Tokens]
  BY <1>2, <1>3, RunnerFacts, LoopAssumption DEF T!Tokens
<1>5. /\ next_token' = next_token /\ pending[c].token = next_token - 1
      /\ next_token > FirstToken /\ next_token \in Nat
      /\ \A b \in Buffers \ {c} :
           pending'[b] = pending[b] /\ slots'[b] = slots[b]
      /\ pending'[c].token = pending[c].token
  <2>1. next_token \in Nat
    BY <1>3, RunnerFacts, LoopAssumption
  <2>2. pending[c].token = next_token - 1 /\ next_token > FirstToken
    BY <1>2, <1>3 DEF TokensInOrder
  <2>3. CASE failed
    BY <1>1, <1>4, <2>1, <2>2, <2>3 DEF ComposeReturns, T!CancelPreSubmit
  <2>4. CASE ~failed
    BY <1>1, <1>4, <2>1, <2>2, <2>4 DEF ComposeReturns, T!MarkSubmitted
  <2> QED BY <2>3, <2>4
<1>6. \/ /\ failed /\ result'.state # "ACTIVE" /\ call' = Idle
         /\ ~pending'[c].active /\ slots'[c].phase = "EMPTY"
      \/ /\ ~failed /\ call'.slot = c /\ At("submit")' /\ pending'[c].active
         /\ slots'[c].phase = "SUBMITTED" /\ ~slots'[c].gpu_complete
         /\ ~slots'[c].videoout_complete
         /\ dcb'[c] = [token |-> pending[c].token, program |-> RenderPackets]
  <2>1. CASE failed
    BY <1>1, <1>4, <2>1, Failures
       DEF ComposeReturns, T!CancelPreSubmit, T!EmptySlot
  <2>2. CASE ~failed
    <3>1. /\ slots' = [slots EXCEPT ![c].phase = "SUBMITTED"]
          /\ pending' = [pending EXCEPT ![c].active = TRUE]
          /\ call' = [call EXCEPT !.at = "submit"]
      BY <1>1, <2>2 DEF ComposeReturns, T!MarkSubmitted, Goto
    <3>2. /\ slots'[c].phase = "SUBMITTED" /\ ~slots'[c].gpu_complete
          /\ ~slots'[c].videoout_complete
      BY <3>1, <1>4 DEF T!Holds, T!Slot
    <3>3. pending'[c].active /\ call'.slot = c /\ call'.at = "submit"
      BY <3>1, <1>4
    <3>4. dcb'[c] = [token |-> pending[c].token, program |-> RenderPackets]
      BY <1>1, <1>3, <1>4, <2>2 DEF DeviceTypeOK
    <3> QED BY <2>2, <3>2, <3>3, <3>4 DEF At
  <2> QED BY <2>1, <2>2
<1>7. \A b \in Buffers : Held(b) => pending[b].active /\ b # c
  BY <1>4, HeldIsActive
<1>8. \A b \in Buffers \ {c} : dcb'[b] = dcb[b]
  BY <1>1, <1>3, <1>4 DEF DeviceTypeOK
<1>9. DeviceTypeOK'
  <2>1. dcb' \in [Buffers -> [token : Nat, program : Seq(Packets)]]
    BY <1>1, <1>3, <1>4, ProgramIs DEF DeviceTypeOK
  <2> QED BY <1>2, <1>3, <2>1 DEF DeviceTypeOK
<1> HIDE DEF c
<1>10. RingFollows'
  <2>1. ASSUME NEW i \in DOMAIN ring
        PROVE  ring[i].buffer \in Buffers \ {c}
    <3>1. ring \in Seq(RingEntry)
      BY <1>3 DEF DeviceTypeOK, RingEntry
    <3>2. ring[i].buffer \in Buffers
      <4>1. ring[i] \in RingEntry
        BY <3>1
      <4> QED BY <4>1 DEF RingEntry
    <3>3. fence[ring[i].buffer] = 1
      BY <1>3 DEF RingFollows
    <3> QED BY <3>2, <3>3, <1>7 DEF Held
  <2>2. UNCHANGED <<fence, ring, flipq, screen>> /\ Flipped' = Flipped
    BY <1>2 DEF Flipped, Entry
  <2>3. \A i \in DOMAIN ring :
          /\ pending'[ring[i].buffer] = pending[ring[i].buffer]
          /\ dcb'[ring[i].buffer] = dcb[ring[i].buffer]
    BY <2>1, <1>5, <1>8
  <2> QED BY <1>3, <2>2, <2>3 DEF RingFollows
<1>11. FlipsFollow'
  <2>1. ASSUME NEW i \in DOMAIN flipq
        PROVE  flipq[i].buffer \in Buffers \ {c}
    <3>1. flipq \in Seq(Flip)
      BY <1>3 DEF DeviceTypeOK, Flip
    <3>2. flipq[i].buffer \in Buffers
      <4>1. flipq[i] \in Flip
        BY <3>1
      <4> QED BY <4>1 DEF Flip
    <3> QED BY <3>2, <1>7 DEF Held
  <2>2. \A i \in DOMAIN flipq :
          pending'[flipq[i].buffer] = pending[flipq[i].buffer]
    BY <2>1, <1>5
  <2> QED BY <1>2, <1>3, <2>2 DEF FlipsFollow
<1>12. TokensInOrder'
  <2>1. LastSubmitted' = LastSubmitted
    BY <1>2 DEF LastSubmitted, Flipped, Entry
  <2>2. result'.state = "ACTIVE" =>
          LastSubmitted' = next_token' -
            (IF At("compose")' \/ At("submit")' THEN 2 ELSE 1)
    BY <2>1, <1>2, <1>3, <1>4, <1>5, <1>6 DEF TokensInOrder
  <2>3. At("compose")' \/ At("submit")' =>
          /\ pending'[call'.slot].token = next_token' - 1
          /\ next_token' > FirstToken
    <3>1. call'.slot = c \/ call'.at = "idle"
      BY <1>6 DEF Idle
    <3> QED BY <3>1, <1>5 DEF At
  <2>4. ASSUME NEW b \in Buffers
        PROVE  /\ pending'[b].token < next_token'
               /\ pending'[b].active => pending'[b].token >= FirstToken
    <3>1. CASE b = c
      BY <3>1, <1>5, LoopAssumption
    <3>2. CASE b # c
      BY <3>2, <1>3, <1>5 DEF TokensInOrder
    <3> QED BY <3>1, <3>2
  <2> QED BY <2>2, <2>3, <2>4 DEF TokensInOrder
<1>13. FencesTell'
  <2>1. fence[c] # 1
    BY <1>3, <1>4 DEF FencesTell
  <2>2. \A b \in Buffers : ~Submitting(b)
    BY <1>3 DEF Submitting
  <2>3. ASSUME NEW b \in Buffers
        PROVE  /\ fence[b] = 1 =>
                    pending'[b].active /\ ~slots'[b].gpu_complete /\ ~Submitting(b)'
               /\ fence[b] = 0 /\ pending'[b].active /\ ~Submitting(b)' =>
                    <<pending'[b].token, "gpu">> \in finished
               /\ slots'[b].phase = "SUBMITTED" /\ slots'[b].gpu_complete =>
                    <<slots'[b].token, "gpu">> \in finished
               /\ slots'[b].phase = "SUBMITTED" /\ slots'[b].videoout_complete =>
                    <<slots'[b].token, "videoout">> \in finished
               /\ Submitting(b)' =>
                    /\ ~slots'[b].gpu_complete
                    /\ dcb'[b] = [token |-> pending'[b].token,
                                  program |-> RenderPackets]
    <3>1. CASE b = c
      BY <3>1, <2>1, <1>5, <1>6 DEF Submitting, At, Idle
    <3>2. CASE b # c
      <4>1. ~Submitting(b)'
        BY <3>2, <1>6 DEF Submitting, At, Idle
      <4> QED BY <3>2, <4>1, <2>2, <1>3, <1>5 DEF FencesTell
    <3> QED BY <3>1, <3>2
  <2> QED BY <1>2, <1>3, <2>3 DEF FencesTell
<1>14. DrawsWhenSafe'
  BY <1>2, <1>3 DEF DrawsWhenSafe, SafeForRendering, Entry
<1> QED BY <1>9, <1>10, <1>11, <1>12, <1>13, <1>14 DEF DeviceInv

(* frame_submit raises the fence of a slot that the GPU is done with, and   *)
(* appends its DCB to the ring under the token that follows the last one.   *)
LEMMA SubmitInv == ASSUME PInv, Submit PROVE DeviceInv'
<1> DEFINE b == call.slot
           t == pending[b].token
           e == [buffer |-> b, token |-> t, pos |-> 1]
<1>1. PICK failed \in May("submit"), suspend_failed \in May("submit") :
        /\ SubmitReturns(~failed /\ ~suspend_failed)
        /\ fence' = [fence EXCEPT ![b] = 1]
        /\ IF failed
             THEN UNCHANGED <<dcb, ring>>
             ELSE /\ dcb' = [dcb EXCEPT ![b].program = @ \o PresentPackets]
                  /\ ring' = Append(ring, e)
  BY DEF Submit
<1>2. /\ At("submit") /\ UNCHANGED <<flipq, screen, equeue, finished>>
      /\ UNCHANGED <<slots, next_token, pending>>
  BY <1>1 DEF Submit, SubmitReturns
<1>3. /\ DeviceTypeOK /\ RingFollows /\ FlipsFollow /\ TokensInOrder /\ FencesTell
      /\ DrawsWhenSafe /\ L!IInv /\ ~At("idle") /\ ~At("compose")
      /\ ring \in Seq(RingEntry) /\ flipq \in Seq(Flip) /\ screen.token \in Nat
      /\ Len(ring) \in Nat /\ Len(flipq) \in Nat
  BY <1>2 DEF PInv, DeviceInv, At, DeviceTypeOK, RingEntry, Flip
<1>4. /\ pending[b].active /\ b \in Buffers /\ result.state = "ACTIVE"
      /\ t \in Nat /\ t = next_token - 1
      /\ next_token \in Nat
  <2>1. /\ pending[b].active /\ b \in Buffers /\ result.state = "ACTIVE"
        /\ pending \in [Buffers -> [token : {0} \cup T!Tokens, frame_index : Nat,
                                    active : BOOLEAN]]
        /\ next_token \in Nat
    BY <1>2, <1>3, RunnerFacts, LoopAssumption
  <2>2. t = next_token - 1
    BY <1>2, <1>3 DEF TokensInOrder
  <2> QED BY <2>1, <2>2, LoopAssumption DEF T!Tokens
<1>5. /\ Submitting(b) /\ fence[b] = 0 /\ ~slots[b].gpu_complete
      /\ dcb[b] = [token |-> t, program |-> RenderPackets]
  <2>1. Submitting(b)
    BY <1>2 DEF Submitting
  <2> QED BY <2>1, <1>3, <1>4 DEF FencesTell, DeviceTypeOK
<1>6. ~At("compose")' /\ ~At("submit")' /\ \A c : ~Submitting(c)'
  <2>1. call' = Idle
    BY <1>1, Failures DEF SubmitReturns, Return
  <2> QED BY <2>1 DEF At, Idle, Submitting
<1> HIDE DEF b
<1>7. /\ fence'[b] = 1 /\ \A c \in Buffers \ {b} : fence'[c] = fence[c]
      /\ fence' \in [Buffers -> {0, 1}]
  BY <1>1, <1>3, <1>4 DEF DeviceTypeOK
<1>8. \A i \in DOMAIN ring : ring[i].buffer \in Buffers \ {b}
  <2> SUFFICES ASSUME NEW i \in DOMAIN ring PROVE ring[i].buffer \in Buffers \ {b}
    OBVIOUS
  <2>1. ring[i] \in RingEntry
    BY <1>3
  <2>2. fence[ring[i].buffer] = 1
    BY <1>3 DEF RingFollows
  <2> QED BY <2>1, <2>2, <1>5 DEF RingEntry
<1>9. FencesTell'
  <2>2. ASSUME NEW c \in Buffers
        PROVE  /\ fence'[c] = 1 => pending[c].active /\ ~slots[c].gpu_complete
               /\ fence'[c] = 0 /\ pending[c].active =>
                    <<pending[c].token, "gpu">> \in finished
    <3>1. CASE c = b
      BY <3>1, <1>4, <1>5, <1>7
    <3>2. CASE c # b
      <4>1. ~Submitting(c)
        BY <3>2 DEF Submitting, b
      <4> QED BY <3>2, <4>1, <1>3, <1>7 DEF FencesTell
    <3> QED BY <3>1, <3>2
  <2>3. ASSUME NEW c \in Buffers
        PROVE  /\ slots[c].phase = "SUBMITTED" /\ slots[c].gpu_complete =>
                    <<slots[c].token, "gpu">> \in finished
               /\ slots[c].phase = "SUBMITTED" /\ slots[c].videoout_complete =>
                    <<slots[c].token, "videoout">> \in finished
    BY <1>3 DEF FencesTell
  <2>4. \A u \in FirstToken .. screen.token : <<u, "videoout">> \in finished
    BY <1>3 DEF FencesTell
  <2> QED BY <1>2, <1>6, <2>2, <2>3, <2>4 DEF FencesTell
<1>10. FlipsFollow'
  BY <1>2, <1>3 DEF FlipsFollow
<1>11. \A c \in Buffers : pending[c].token < next_token /\
                          (pending[c].active => pending[c].token >= FirstToken)
  BY <1>3 DEF TokensInOrder
<1>12. CASE failed
  <2>1. UNCHANGED <<dcb, ring>>
    BY <1>1, <1>12
  <2>2. result'.state # "ACTIVE"
    BY <1>1, <1>12, Failures DEF SubmitReturns
  <2>3. DeviceTypeOK'
    BY <2>1, <1>2, <1>3, <1>7 DEF DeviceTypeOK
  <2>4. RingFollows'
    BY <2>1, <1>2, <1>3, <1>7, <1>8 DEF RingFollows, Flipped, Entry
  <2>5. TokensInOrder'
    BY <2>2, <1>2, <1>6, <1>11 DEF TokensInOrder
  <2>6. DrawsWhenSafe'
    BY <2>1, <1>2, <1>3 DEF DrawsWhenSafe, SafeForRendering, Entry
  <2> QED BY <2>3, <2>4, <2>5, <2>6, <1>9, <1>10 DEF DeviceInv
<1>13. CASE ~failed
  <2>1. /\ dcb' = [dcb EXCEPT ![b].program = @ \o PresentPackets]
        /\ ring' = Append(ring, e)
    BY <1>1, <1>13
  <2>2. /\ dcb'[b] = [token |-> t, program |-> Program]
        /\ \A c \in Buffers \ {b} : dcb'[c] = dcb[c]
        /\ dcb' \in [Buffers -> [token : Nat, program : Seq(Packets)]]
    <3>1. dcb[b].program = RenderPackets /\ dcb[b].token = t
      BY <1>5
    <3>2. dcb' = [dcb EXCEPT ![b] = [dcb[b] EXCEPT !.program = Program]]
      BY <2>1, <3>1 DEF Program
    <3>3. [dcb[b] EXCEPT !.program = Program] = [token |-> t, program |-> Program]
      BY <1>5
    <3>4. dcb \in [Buffers -> [token : Nat, program : Seq(Packets)]]
      BY <1>3 DEF DeviceTypeOK
    <3> QED BY <3>2, <3>3, <3>4, <1>4, ProgramIs
  <2>3. e \in RingEntry /\ e.buffer = b /\ e.token = t /\ e.pos = 1
    BY <1>4 DEF RingEntry
  <2> HIDE DEF e, t
  <2>4. /\ ring' \in Seq(RingEntry) /\ Len(ring') = Len(ring) + 1 /\ ring' # <<>>
        /\ \A i \in DOMAIN ring' :
             \/ i \in DOMAIN ring /\ ring'[i] = ring[i]
             \/ i = Len(ring) + 1 /\ ring'[i] = e
    BY <2>1, <2>3, <1>3, AppendFacts
  <2>5. \/ ring = <<>> /\ Entry' = e
        \/ ring # <<>> /\ Entry' = Entry
    <3>1. CASE ring = <<>>
      BY <3>1, <2>1 DEF Entry
    <3>2. CASE ring # <<>>
      BY <3>2, <2>1, <1>3 DEF Entry
    <3> QED BY <3>1, <3>2
  <2>6. Flipped' = Flipped /\ Flipped \in {0, 1}
    BY <2>3, <2>4, <2>5 DEF Flipped
  <2>7. LastSubmitted' = LastSubmitted + 1
    BY <2>4, <2>6, <1>2, <1>3 DEF LastSubmitted
  <2>8. LastSubmitted = next_token - 2
    BY <1>2, <1>3, <1>4 DEF TokensInOrder
  <2>9. t = screen.token + Len(flipq) + (Len(ring) + 1) - Flipped
    <3>1. screen.token + Len(flipq) + Len(ring) - Flipped = next_token - 2
      BY <2>8 DEF LastSubmitted
    <3>2. /\ screen.token \in Nat /\ Len(flipq) \in Nat /\ Len(ring) \in Nat
          /\ next_token \in Nat /\ t = next_token - 1
      BY <1>3, <1>4 DEF t
    <3> QED BY <3>1, <3>2, <2>6
  <2>10. DeviceTypeOK'
    BY <2>2, <2>4, <1>2, <1>3, <1>7 DEF DeviceTypeOK, RingEntry
  <2>11. RingFollows'
    <3>1. ASSUME NEW i \in DOMAIN ring'
          PROVE  /\ pending[ring'[i].buffer].active
                 /\ pending[ring'[i].buffer].token = ring'[i].token
                 /\ fence'[ring'[i].buffer] = 1
                 /\ dcb'[ring'[i].buffer] = [token |-> ring'[i].token,
                                             program |-> Program]
                 /\ ring'[i].token = screen.token + Len(flipq) + i - Flipped
                 /\ i # 1 => ring'[i].pos = 1
      <4>1. CASE i \in DOMAIN ring /\ ring'[i] = ring[i]
        BY <4>1, <1>3, <1>7, <1>8, <2>2, SMTT(30) DEF RingFollows
      <4>2. CASE i = Len(ring) + 1 /\ ring'[i] = e
        BY <4>2, <2>2, <2>3, <2>9, <1>4, <1>7 DEF t
      <4> QED BY <4>1, <4>2, <2>4
    <3> QED BY <3>1, <2>6, <1>2 DEF RingFollows
  <2>12. TokensInOrder'
    <3>1. LastSubmitted' = next_token - 1
      BY <2>7, <2>8, <1>4
    <3> QED BY <3>1, <1>2, <1>6, <1>11 DEF TokensInOrder
  <2>13. DrawsWhenSafe'
    BY <2>3, <2>5, <1>2, <1>3 DEF DrawsWhenSafe, SafeForRendering
  <2> QED BY <2>10, <2>11, <2>12, <2>13, <1>9, <1>10 DEF DeviceInv
<1> QED BY <1>12, <1>13

(* The runner takes a slot for executed only on a fence that was raised for *)
(* this very frame and has come down.                                       *)
LEMMA WaitGpuInv == ASSUME PInv, WaitGpu PROVE DeviceInv'
<1> DEFINE c == call.slot
<1>1. /\ At("wait_gpu") /\ WaitGpuReturns(fence[c] = 0)
      /\ UNCHANGED <<memoryVars, deviceVars>>
      /\ UNCHANGED <<dcb, fence, ring, flipq, screen, equeue, finished>>
      /\ UNCHANGED <<next_frame_index, pending>>
  BY DEF WaitGpu, WaitGpuReturns, memoryVars, deviceVars
<1>2. /\ TokensInOrder /\ FencesTell /\ L!IInv
      /\ ~At("idle") /\ ~At("compose") /\ ~At("submit")
  BY <1>1 DEF PInv, DeviceInv, At
<1>3. /\ pending[c].active /\ c \in Buffers /\ slots[c].token = pending[c].token
      /\ slots \in [Buffers -> T!Slot]
      /\ call \in [op : {"none", "step", "drain"}, at : L!Places, slot : Buffers]
  BY <1>1, <1>2, RunnerFacts
<1>4. CASE fence[c] = 0 /\ T!Holds(c, "SUBMITTED", pending[c].token)
  <2>1. /\ slots' = [slots EXCEPT ![c].gpu_complete = TRUE]
        /\ next_token' = next_token /\ result' = result
        /\ call' = [call EXCEPT !.at = "wait_videoout"]
    BY <1>1, <1>4 DEF WaitGpuReturns, T!MarkGpuComplete, Goto
  <2>2. <<pending[c].token, "gpu">> \in finished
    <3>1. ~Submitting(c)
      BY <1>2 DEF Submitting
    <3> QED BY <3>1, <1>2, <1>3, <1>4 DEF FencesTell
  <2>3. ~At("compose")' /\ ~At("submit")' /\ \A b : ~Submitting(b)' /\ ~Submitting(b)
    BY <1>2, <1>3, <2>1 DEF At, Submitting
  <2>4. TokensInOrder'
    <3>1. LastSubmitted' = LastSubmitted
      BY <1>1 DEF LastSubmitted, Flipped, Entry
    <3> QED BY <3>1, <1>1, <1>2, <2>1, <2>3 DEF TokensInOrder
  <2>5. FencesTell'
    <3>1. ASSUME NEW b \in Buffers
          PROVE  /\ fence[b] = 1 => pending[b].active /\ ~slots'[b].gpu_complete
                 /\ fence[b] = 0 /\ pending[b].active =>
                      <<pending[b].token, "gpu">> \in finished
                 /\ slots'[b].phase = "SUBMITTED" /\ slots'[b].gpu_complete =>
                      <<slots'[b].token, "gpu">> \in finished
                 /\ slots'[b].phase = "SUBMITTED" /\ slots'[b].videoout_complete =>
                      <<slots'[b].token, "videoout">> \in finished
      <4>1. CASE b = c
        <5>1. /\ slots'[c].token = slots[c].token /\ slots'[c].phase = slots[c].phase
              /\ slots'[c].videoout_complete = slots[c].videoout_complete
          BY <2>1, <1>3 DEF T!Slot
        <5>2. slots[c].phase = "SUBMITTED" /\ slots[c].videoout_complete =>
                <<slots[c].token, "videoout">> \in finished
          BY <1>2, <1>3 DEF FencesTell
        <5>3. fence[c] = 0 /\ slots[c].token = pending[c].token
          BY <1>3, <1>4
        <5> QED BY <4>1, <5>1, <5>2, <5>3, <2>2
      <4>2. CASE b # c
        <5>1. slots'[b] = slots[b]
          BY <4>2, <2>1, <1>3
        <5> QED BY <5>1, <1>2, <2>3 DEF FencesTell
      <4> QED BY <4>1, <4>2
    <3> QED BY <3>1, <1>1, <1>2, <2>3 DEF FencesTell
  <2> QED BY <1>1, <2>4, <2>5, HeldIsActive, LoopMoves
<1>5. CASE ~(fence[c] = 0 /\ T!Holds(c, "SUBMITTED", pending[c].token))
  <2>1. RetainFailure(c, pending[c].frame_index) /\ UNCHANGED <<slots, next_token>>
    BY <1>1, <1>5 DEF WaitGpuReturns
  <2>2. result'.state # "ACTIVE" /\ ~At("compose")' /\ ~At("submit")'
    BY <2>1, Failures DEF At, Idle
  <2> QED BY <1>1, <1>2, <2>1, <2>2, CallMoves
<1> QED BY <1>4, <1>5

(* It releases a slot only when its token has come up on screen; by then it *)
(* is in neither queue.                                                     *)
LEMMA VideoReturnInv == ASSUME PInv, VideoReturn PROVE DeviceInv'
<1> DEFINE c == call.slot
           o == completion.expected_flip_arg
<1>1. PICK overflow \in May("telemetry") :
        WaitVideoOutReturns(verdict = "DONE", o, ~overflow)
  BY DEF VideoReturn
<1>2. /\ At("wait_videoout") /\ verdict # "NONE"
      /\ UNCHANGED <<memoryVars, deviceVars>>
      /\ UNCHANGED <<dcb, fence, ring, flipq, screen, equeue, finished>>
  BY DEF VideoReturn, memoryVars, deviceVars
<1>3. /\ TokensInOrder /\ FencesTell /\ FlipsFollow /\ DeviceTypeOK /\ L!IInv
      /\ WaitFollows /\ ~At("idle") /\ ~At("compose") /\ ~At("submit")
  BY <1>2 DEF PInv, DeviceInv, At
<1>4. /\ pending[c].active /\ c \in Buffers /\ slots[c].token = pending[c].token
      /\ slots[c].phase = "SUBMITTED" /\ slots[c].gpu_complete
      /\ slots \in [Buffers -> T!Slot]
      /\ pending \in [Buffers -> [token : {0} \cup T!Tokens, frame_index : Nat,
                                  active : BOOLEAN]]
      /\ result.state = "ACTIVE"
      /\ call \in [op : {"none", "step", "drain"}, at : L!Places, slot : Buffers]
      /\ result \in [state : RunStates, frames_completed : Nat,
                     max_frames_in_flight : 0 .. 2, failed_frame : Nat,
                     retained_token : {0} \cup T!Tokens]
  BY <1>2, <1>3, RunnerFacts
<1>5. CASE verdict = "DONE" /\ T!Holds(c, "SUBMITTED", o)
  <2>1. /\ slots' = [slots EXCEPT ![c].videoout_complete = TRUE]
        /\ next_token' = next_token
        /\ pending' = [pending EXCEPT ![c].active = FALSE]
        /\ Account(c, ~overflow)
    BY <1>1, <1>5 DEF WaitVideoOutReturns, T!MarkVideoOutComplete
  <2>2. /\ o = pending[c].token /\ o <= screen.token /\ o >= FirstToken /\ o \in Nat
        /\ screen.token \in Nat
    <3>1. o = pending[c].token /\ o <= screen.token
      BY <1>2, <1>3, <1>5 DEF WaitFollows
    <3>2. pending[c].token >= FirstToken
      BY <1>3, <1>4 DEF TokensInOrder
    <3> QED BY <3>1, <3>2, <1>3, <1>4, LoopAssumption DEF DeviceTypeOK, T!Tokens
  <2>3. <<o, "videoout">> \in finished /\ <<o, "gpu">> \in finished
    <3>1. o \in FirstToken .. screen.token
      BY <2>2, LoopAssumption
    <3> QED BY <3>1, <2>2, <1>3, <1>4 DEF FencesTell
  <2>4. ~At("compose")' /\ ~At("submit")' /\ \A b : ~Submitting(b)' /\ ~Submitting(b)
    <3>1. call'.at \in {"prepare", "oldest", "idle"}
      <4>1. CASE overflow
        BY <4>1, <2>1 DEF Account, Return, Idle
      <4>2. CASE ~overflow
        <5>1. call' = [call EXCEPT !.at = IF call.op = "step" THEN "prepare"
                                                              ELSE "oldest"]
          BY <4>2, <2>1 DEF Account, Goto
        <5> QED BY <5>1, <1>4
      <4> QED BY <4>1, <4>2
    <3> QED BY <3>1, <1>3 DEF At, Submitting
  <2>5. ~Held(c)
    <3>1. fence[c] # 1
      BY <1>3, <1>4 DEF FencesTell
    <3>2. ASSUME NEW i \in DOMAIN flipq, flipq[i].buffer = c PROVE FALSE
      <4>1. pending[c].token = screen.token + i
        BY <3>2, <1>3 DEF FlipsFollow
      <4>2. i \in Nat /\ i >= 1
        BY <1>3 DEF DeviceTypeOK
      <4> QED BY <4>1, <4>2, <2>2
    <3> QED BY <3>1, <3>2 DEF Held
  <2>6. /\ \A b \in Buffers \ {c} : pending'[b] = pending[b] /\ slots'[b] = slots[b]
        /\ ~pending'[c].active /\ pending'[c].token = pending[c].token
        /\ slots'[c].token = slots[c].token /\ slots'[c].phase = slots[c].phase
        /\ slots'[c].gpu_complete
    BY <2>1, <1>4 DEF T!Slot
  <2> HIDE DEF c, o
  <2>7. TokensInOrder'
    <3>1. LastSubmitted' = LastSubmitted
      BY <1>2 DEF LastSubmitted, Flipped, Entry
    <3>2. ASSUME NEW b \in Buffers
          PROVE  /\ pending'[b].token < next_token'
                 /\ pending'[b].active => pending'[b].token >= FirstToken
      BY <1>3, <2>1, <2>6 DEF TokensInOrder
    <3> QED BY <3>1, <3>2, <1>3, <1>4, <2>1, <2>4 DEF TokensInOrder
  <2>8. FencesTell'
    <3>1. ASSUME NEW b \in Buffers
          PROVE  /\ fence[b] = 1 => pending'[b].active /\ ~slots'[b].gpu_complete
                 /\ fence[b] = 0 /\ pending'[b].active =>
                      <<pending'[b].token, "gpu">> \in finished
                 /\ slots'[b].phase = "SUBMITTED" /\ slots'[b].gpu_complete =>
                      <<slots'[b].token, "gpu">> \in finished
                 /\ slots'[b].phase = "SUBMITTED" /\ slots'[b].videoout_complete =>
                      <<slots'[b].token, "videoout">> \in finished
      <4>1. CASE b = c
        BY <4>1, <2>2, <2>3, <2>5, <2>6, <1>4 DEF Held
      <4>2. CASE b # c
        BY <4>2, <2>4, <2>6, <1>3 DEF FencesTell
      <4> QED BY <4>1, <4>2
    <3> QED BY <3>1, <1>2, <1>3, <2>4 DEF FencesTell
  <2>9. \A b \in Buffers : Held(b) =>
          pending'[b].active /\ pending'[b].token = pending[b].token
    BY <2>5, <2>6, HeldIsActive
  <2> QED BY <1>2, <2>7, <2>8, <2>9, LoopMoves
<1>6. CASE ~(verdict = "DONE" /\ T!Holds(c, "SUBMITTED", o))
  <2>1. RetainFailure(c, pending[c].frame_index) /\ UNCHANGED <<slots, next_token, pending>>
    BY <1>1, <1>6 DEF WaitVideoOutReturns
  <2>2. result'.state # "ACTIVE" /\ ~At("compose")' /\ ~At("submit")'
    BY <2>1, Failures DEF At, Idle
  <2> QED BY <1>2, <1>3, <2>1, <2>2, CallMoves
<1> QED BY <1>5, <1>6

(* The calls of main() and the runner's own work.                           *)
LEMMA CallsInv == ASSUME PInv, MainStep \/ MainDrain \/ Drain PROVE DeviceInv'
<1>1. /\ UNCHANGED <<memoryVars, deviceVars>>
      /\ StepCall \/ DrainCall \/ DrainOldest \/ DrainComplete
  BY DEF MainStep, MainDrain, Drain, Internal
<1>2. UNCHANGED <<slots, next_token, pending>>
  BY <1>1 DEF StepCall, DrainCall, DrainOldest, DrainComplete
<1>3. ~At("compose") /\ ~At("submit")
  BY <1>1 DEF StepCall, DrainCall, DrainOldest, DrainComplete, At
<1>4. call'.at \in {"wait_gpu", "prepare", "oldest", "idle"}
  <2>1. CASE StepCall
    BY <2>1 DEF StepCall
  <2>2. CASE DrainCall
    BY <2>2 DEF DrainCall
  <2>3. CASE DrainOldest
    BY <2>3 DEF DrainOldest
  <2>4. CASE DrainComplete
    BY <2>4 DEF DrainComplete, Return, Idle
  <2> QED BY <1>1, <2>1, <2>2, <2>3, <2>4
<1>5. result'.state = "ACTIVE" => result.state = "ACTIVE"
  <2>1. result \in [state : RunStates, frames_completed : Nat,
                    max_frames_in_flight : 0 .. 2, failed_frame : Nat,
                    retained_token : {0} \cup T!Tokens]
    BY RunnerFacts DEF PInv
  <2> QED BY <1>1, <2>1 DEF StepCall, DrainCall, DrainOldest, DrainComplete
<1> QED BY <1>1, <1>2, <1>3, <1>4, <1>5, CallMoves DEF At

(* A wait that is not under way, or that nothing touches, stays what it is  *)
(* while the screen moves on.                                               *)
LEMMA WaitKept ==
  ASSUME PInv, UNCHANGED <<completion, poll, verdict>>,
         verdict # "NONE" => UNCHANGED <<call, pending>>,
         screen' = screen \/ screen'.token = screen.token + 1
  PROVE  WaitFollows'
<1>1. /\ WaitFollows /\ completion.expected_flip_arg \in Nat /\ screen.token \in Nat
  BY DEF PInv, DeviceInv, DeviceTypeOK, WaitFollows, CompletionType
<1>2. completion.expected_flip_arg <= screen.token =>
        completion.expected_flip_arg <= screen'.token
  BY <1>1
<1> QED BY <1>1, <1>2 DEF WaitFollows, At

(* Whatever a poll sees: the event that settles the wait was posted for a   *)
(* flip that has been made.                                                 *)
LEMMA PollEndInv ==
  ASSUME PInv, NEW e, C!PollEnd(e), UNCHANGED <<loopVars, screen>>,
         e \in {NoEvent, BadEvent} \/ e <= screen.token
  PROVE  WaitFollows'
<1>1. /\ WaitFollows /\ completion \in CompletionType /\ poll.busy
      /\ verdict = "WAITING" /\ At("wait_videoout")
      /\ completion.expected_flip_arg = pending[call.slot].token
      /\ poll' = C!NoPoll
  BY DEF PInv, WaitFollows, C!PollEnd
<1>2. /\ completion' \in CompletionType
      /\ completion'.expected_flip_arg = completion.expected_flip_arg
      /\ completion'.matching_videoout_event_seen =>
           \/ completion.matching_videoout_event_seen
           \/ e \notin {NoEvent, BadEvent} /\ e = completion.expected_flip_arg
      /\ verdict' = "DONE" => completion'.matching_videoout_event_seen
      /\ verdict' # "NONE"
  <2>1. ASSUME NEW why \in {"EVENT_INVALID", "EVENT_BEFORE_FENCE",
                            "UNEXPECTED_FLIP_ARG"}, C!Park(why)
        PROVE  /\ completion' \in CompletionType
               /\ completion'.expected_flip_arg = completion.expected_flip_arg
               /\ completion'.matching_videoout_event_seen =>
                    completion.matching_videoout_event_seen
               /\ verdict' # "DONE" /\ verdict' # "NONE"
    BY <1>1, <2>1 DEF C!Park, CompletionType
  <2>2. ASSUME NEW zero \in BOOLEAN, NEW seen \in BOOLEAN, NEW o,
               C!Settle(zero, seen, o)
        PROVE  /\ completion' \in CompletionType
               /\ completion'.expected_flip_arg = completion.expected_flip_arg
               /\ completion'.matching_videoout_event_seen = seen
               /\ verdict' = "DONE" => seen
               /\ verdict' # "NONE"
    <3> DEFINE now == [completion EXCEPT !.fence_zero_seen = zero,
                                         !.matching_videoout_event_seen = seen]
    <3>1. /\ now \in CompletionType
          /\ now.expected_flip_arg = completion.expected_flip_arg
          /\ now.matching_videoout_event_seen = seen
      BY <1>1 DEF CompletionType
    <3>2. \/ /\ completion' = [now EXCEPT !.cleanup_allowed = TRUE,
                                          !.retain_all_resources = FALSE]
             /\ verdict' = "DONE" /\ seen
          \/ /\ completion' = [now EXCEPT !.parked = TRUE]
             /\ verdict' \in {"FENCE_TIMEOUT", "VIDEOOUT_TIMEOUT"}
          \/ completion' = now /\ verdict' = "WAITING"
      BY <2>2 DEF C!Settle
    <3> HIDE DEF now
    <3> QED BY <3>1, <3>2 DEF CompletionType
  <2>3. CASE e = BadEvent
    BY <2>1, <2>3 DEF C!PollEnd
  <2>4. CASE e # BadEvent
    <3>1. C!Observe(poll, e)
      BY <2>4 DEF C!PollEnd
    <3>2. CASE e # NoEvent /\ (poll.fence # 0 \/ e # completion.expected_flip_arg)
      BY <2>1, <3>1, <3>2 DEF C!Observe
    <3>3. CASE e = NoEvent \/ (poll.fence = 0 /\ e = completion.expected_flip_arg)
      <4> DEFINE zero == completion.fence_zero_seen \/ poll.fence = 0
                 seen == completion.matching_videoout_event_seen \/ e # NoEvent
      <4>1. C!Settle(zero, seen, poll) /\ zero \in BOOLEAN /\ seen \in BOOLEAN
        BY <3>1, <3>3, <1>1 DEF C!Observe, CompletionType
      <4>2. seen => \/ completion.matching_videoout_event_seen
                    \/ e # NoEvent /\ e = completion.expected_flip_arg
        BY <3>3
      <4> HIDE DEF zero, seen
      <4> QED BY <4>1, <4>2, <2>2, <2>4
    <3> QED BY <3>2, <3>3
  <2> QED BY <2>3, <2>4
<1>3. completion'.matching_videoout_event_seen =>
        completion'.expected_flip_arg <= screen'.token
  BY <1>1, <1>2 DEF WaitFollows
<1>4. ~poll'.busy /\ At("wait_videoout")' /\ pending' = pending /\ call' = call
  BY <1>1 DEF C!NoPoll, loopVars, At
<1> QED BY <1>1, <1>2, <1>3, <1>4 DEF WaitFollows

(* The wait of frame_wait_video, through every step of the program and of   *)
(* the devices.                                                             *)
LEMMA WaitInv == ASSUME PInv, [Next]_vars PROVE WaitFollows'
<1>1. WaitFollows /\ DeviceTypeOK /\ FlipsFollow
  BY DEF PInv, DeviceInv
<1>2. ASSUME UNCHANGED <<completion, poll, verdict>>, verdict = "NONE",
             UNCHANGED screen
      PROVE  WaitFollows'
  BY <1>2, WaitKept
<1>3. ASSUME ~At("wait_videoout") PROVE verdict = "NONE"
  BY <1>1, <1>3 DEF WaitFollows
<1>4. CASE MainStep \/ MainDrain \/ Prepare \/ Compose \/ Submit \/ WaitGpu \/ Drain
  <2>1. UNCHANGED <<completion, poll, verdict, screen>>
    BY <1>4 DEF MainStep, MainDrain, Prepare, Compose, Submit, WaitGpu, Drain,
           waitVars, deviceVars
  <2>2. ~At("wait_videoout")
    BY <1>4 DEF MainStep, MainDrain, Prepare, Compose, Submit, WaitGpu, Drain,
           StepCall, DrainCall, PrepareOk, PrepareSceneFails, PrepareRefused,
           ComposeReturns, SubmitReturns, WaitGpuReturns, Internal, DrainOldest,
           DrainComplete, At
  <2> QED BY <2>1, <2>2, <1>2, <1>3
<1>5. CASE VideoReturn
  <2>1. completion' = C!NotBegun /\ poll' = C!NoPoll /\ verdict' = "NONE"
    BY <1>5 DEF VideoReturn
  <2>2. C!NotBegun \in CompletionType
    BY DEF C!NotBegun, CompletionType
  <2> QED BY <2>1, <2>2 DEF WaitFollows, C!NotBegun, C!NoPoll
<1>6. CASE VideoBegin
  <2>1. /\ At("wait_videoout") /\ poll' = C!NoPoll /\ verdict' = "WAITING"
        /\ completion' = [C!NotBegun EXCEPT
                            !.expected_flip_arg = pending[call.slot].token,
                            !.transaction_submitted = TRUE,
                            !.retain_all_resources = TRUE]
        /\ UNCHANGED <<call, pending>>
    BY <1>6 DEF VideoBegin, C!CompletionBegin, loopVars
  <2>2. pending[call.slot].token \in Nat
    <3>1. /\ call.slot \in Buffers
          /\ pending \in [Buffers -> [token : {0} \cup T!Tokens, frame_index : Nat,
                                      active : BOOLEAN]]
      BY RunnerFacts DEF PInv
    <3> QED BY <3>1, LoopAssumption DEF T!Tokens
  <2>3. /\ completion' \in CompletionType
        /\ completion'.expected_flip_arg = pending[call.slot].token
        /\ ~completion'.matching_videoout_event_seen
    BY <2>1, <2>2 DEF C!NotBegun, CompletionType
  <2> QED BY <2>1, <2>3 DEF WaitFollows, C!NoPoll, At
<1>7. CASE VideoPoll
  <2>1. /\ UNCHANGED <<completion, verdict, call, pending, screen>>
        /\ verdict = "WAITING"
    BY <1>7 DEF VideoPoll, C!PollStart, loopVars, deviceVars
  <2> QED BY <2>1, <1>1 DEF WaitFollows, At
<1>8. CASE VideoEvent
  <2>1. PICK broken \in May("event") :
          C!PollEnd(IF broken THEN BadEvent ELSE Head(equeue))
    BY <1>8 DEF VideoEvent
  <2>2. Head(equeue) <= screen.token
    <3>1. equeue # <<>> /\ equeue \in Seq(Nat)
      BY <1>1, <1>8 DEF VideoEvent, DeviceTypeOK
    <3>2. Head(equeue) = equeue[1] /\ 1 \in DOMAIN equeue
      BY <3>1, TailFacts
    <3> QED BY <3>2, <1>1 DEF FlipsFollow
  <2>3. UNCHANGED <<loopVars, screen>>
    BY <1>8 DEF VideoEvent
  <2> QED BY <2>1, <2>2, <2>3, PollEndInv
<1>9. CASE VideoNoEvent
  <2>1. C!PollEnd(NoEvent) /\ UNCHANGED <<loopVars, screen>>
    BY <1>9 DEF VideoNoEvent, deviceVars
  <2> QED BY <2>1, PollEndInv
<1>10. CASE \/ MainAfterStep \/ MainAfterDrain \/ MainCleanup \/ DeadlinePasses
            \/ Gpu \/ UNCHANGED vars
  <2>1. UNCHANGED <<completion, poll, verdict, call, pending, screen>>
    BY <1>10 DEF MainAfterStep, MainAfterDrain, MainCleanup, DeadlinePasses, Gpu,
           GpuWaitRendering, GpuDraw, GpuSetFlip, GpuRelease, vars, loopVars,
           waitVars, deviceVars
  <2> QED BY <2>1, WaitKept
<1>11. CASE Vblank
  <2>1. UNCHANGED <<completion, poll, verdict, call, pending>>
    BY <1>11 DEF Vblank, loopVars, waitVars
  <2> QED BY <2>1, <1>11, VblankInv, WaitKept
<1> QED
  BY <1>4, <1>5, <1>6, <1>7, <1>8, <1>9, <1>10, <1>11 DEF Next, Cpu

-----------------------------------------------------------------------------
(* main() gives back only what a completed drain has left.                  *)
LEMMA MainInv == ASSUME PInv, [Next]_vars PROVE MainFollows'
<1>1. MainFollows /\ (~At("idle") => result.state = "ACTIVE")
  BY RunnerFacts DEF PInv
<1>2. CASE \/ MainStep \/ MainDrain \/ Prepare \/ Compose \/ Submit \/ WaitGpu
           \/ VideoReturn \/ Drain
  <2>1. result.state = "ACTIVE"
    BY <1>1, <1>2
       DEF MainStep, MainDrain, Prepare, Compose, Submit, WaitGpu, VideoReturn,
           Drain, StepCall, DrainCall, PrepareOk, PrepareSceneFails,
           PrepareRefused, ComposeReturns, SubmitReturns, WaitGpuReturns,
           Internal, DrainOldest, DrainComplete, At
  <2>2. mapped' = mapped /\ main' \in {main, "stepping", "draining"}
    BY <1>2 DEF MainStep, MainDrain, Prepare, Compose, Submit, WaitGpu,
           VideoReturn, Drain, mainVars
  <2> QED BY <1>1, <2>1, <2>2 DEF MainFollows
<1>3. CASE MainAfterStep
  <2>1. /\ main = "stepping" /\ mapped' = mapped
        /\ main' \in {"parked", "leaving", "running"}
    BY <1>3 DEF MainAfterStep
  <2> QED BY <1>1, <2>1 DEF MainFollows
<1>4. CASE MainAfterDrain
  <2>1. /\ main = "draining" /\ mapped' = mapped /\ result' = result
        /\ main' \in {"parked", "cleanup"}
        /\ main' = "cleanup" => result.state = "COMPLETE"
    BY <1>4 DEF MainAfterDrain, loopVars
  <2> QED BY <1>1, <2>1 DEF MainFollows
<1>5. CASE MainCleanup
  BY <1>1, <1>5 DEF MainCleanup, MainFollows, loopVars
<1>6. CASE UNCHANGED <<main, mapped, result>>
  BY <1>1, <1>6 DEF MainFollows
<1>7. CASE \/ VideoBegin \/ VideoPoll \/ VideoEvent \/ VideoNoEvent
           \/ DeadlinePasses \/ Gpu \/ Vblank \/ UNCHANGED vars
  <2>1. UNCHANGED <<main, mapped, result>>
    BY <1>7 DEF VideoBegin, VideoPoll, VideoEvent, VideoNoEvent, DeadlinePasses,
           Gpu, GpuWaitRendering, GpuDraw, GpuSetFlip, GpuRelease, Vblank, vars,
           loopVars, mainVars
  <2> QED BY <2>1, <1>6
<1> QED BY <1>2, <1>3, <1>4, <1>5, <1>7 DEF Next, Cpu

-----------------------------------------------------------------------------
(* Every step keeps what the devices hold tied to the runner's slots.       *)
LEMMA DevicesInv == ASSUME PInv, [Next]_vars PROVE DeviceInv'
<1>1. CASE Prepare \/ Compose \/ Submit \/ WaitGpu \/ VideoReturn
  BY <1>1, PrepareInv, ComposeInv, SubmitInv, WaitGpuInv, VideoReturnInv
<1>2. CASE MainStep \/ MainDrain \/ Drain
  BY <1>2, CallsInv
<1>3. CASE \/ MainAfterStep \/ MainAfterDrain \/ MainCleanup \/ VideoBegin
           \/ VideoPoll \/ VideoNoEvent \/ DeadlinePasses \/ UNCHANGED vars
  <2>1. UNCHANGED <<loopVars, memoryVars, ring, flipq, screen, finished, equeue>>
    BY <1>3 DEF MainAfterStep, MainAfterDrain, MainCleanup, VideoBegin, VideoPoll,
           VideoNoEvent, DeadlinePasses, vars, deviceVars
  <2> QED BY <2>1, DevicesKept
<1>4. CASE VideoEvent
  BY <1>4, DevicesKept DEF VideoEvent
<1>5. CASE Gpu \/ Vblank
  BY <1>5, GpuInv, VblankInv
<1> QED BY <1>1, <1>2, <1>3, <1>4, <1>5 DEF Next, Cpu

(* The start: nothing submitted, nothing shown.                             *)
LEMMA InitPInv == ASSUME Init PROVE PInv
<1>1. L!IInv
  BY RunnerStarts, L!InitIInv, LoopAssumption DEF Init
<1>2. /\ ring = <<>> /\ flipq = <<>> /\ equeue = <<>>
      /\ fence = [b \in Buffers |-> 0]
      /\ dcb = [b \in Buffers |-> [token |-> 0, program |-> <<>>]]
      /\ screen = [buffer |-> Nowhere, token |-> FirstToken - 1]
      /\ pending = [b \in Buffers |-> [token |-> 0, frame_index |-> 0,
                                       active |-> FALSE]]
      /\ slots = [b \in Buffers |-> T!EmptySlot]
      /\ next_token = FirstToken /\ call = Idle
      /\ FirstToken \in Nat \ {0} /\ FirstToken - 1 \in Nat
  BY LoopAssumption DEF Init, LoopInit, T!TrackerInit
<1>3. DOMAIN ring = {} /\ DOMAIN flipq = {} /\ DOMAIN equeue = {}
      /\ Len(ring) = 0 /\ Len(flipq) = 0
  BY <1>2
<1>4. DeviceTypeOK
  BY <1>2, EmptySeq, ProgramIs DEF DeviceTypeOK
<1>5. RingFollows /\ FlipsFollow
  BY <1>3 DEF RingFollows, FlipsFollow
<1>6. TokensInOrder
  BY <1>2, <1>3 DEF TokensInOrder, LastSubmitted, Flipped, At, Idle
<1>7. FencesTell
  <2>1. FirstToken .. screen.token = {}
    BY <1>2
  <2>2. \A b \in Buffers : ~pending[b].active /\ fence[b] = 0
                           /\ slots[b].phase = "EMPTY" /\ ~Submitting(b)
    BY <1>2 DEF T!EmptySlot, Submitting, At, Idle
  <2> QED BY <2>1, <2>2 DEF FencesTell
<1>8. DrawsWhenSafe
  BY <1>2 DEF DrawsWhenSafe
<1>9. WaitFollows
  <2>1. C!NotBegun \in CompletionType
    BY DEF C!NotBegun, CompletionType
  <2> QED BY <2>1 DEF Init, C!CompletionInit, WaitFollows, C!NotBegun, C!NoPoll
<1>10. MainFollows
  BY DEF Init, MainFollows
<1> QED BY <1>1, <1>4, <1>5, <1>6, <1>7, <1>8, <1>9, <1>10 DEF PInv, DeviceInv

(* The inductive invariant of the pipeline, whatever fails.                 *)
THEOREM PipelineInvariant == Spec => []PInv
<1>1. PInv /\ [Next]_vars => PInv'
  BY RunnerInv, DevicesInv, WaitInv, MainInv DEF PInv
<1> QED BY InitPInv, <1>1, PTL DEF Spec

-----------------------------------------------------------------------------
(* The native callbacks, under any faults, are callbacks that the runner    *)
(* was checked against: all that FrameLoopProofs says of the runner is true *)
(* of this program.                                                         *)
THEOREM PipelineIsAClient == Spec => L!Spec
<1>1. Init => L!Init
  BY RunnerStarts DEF Init
<1>2. PInv /\ [Next]_vars => [L!Next]_(L!loopVars)
  BY RunnerStep
<1> QED BY <1>1, <1>2, PipelineInvariant, PTL DEF Spec, L!Spec

(* The GPU never executes what the CPU has overwritten (frame_compose and   *)
(* ps5_submission write a slot only when it is free).                       *)
THEOREM PipelineCommandsIntact == Spec => []CommandsIntact
<1>1. PInv => CommandsIntact
  BY DEF PInv, DeviceInv, RingFollows, CommandsIntact, Program
<1> QED BY <1>1, PipelineInvariant, PTL

(* The wait packet at the head of each DCB keeps every draw away from a     *)
(* buffer that is on screen or about to be.                                 *)
THEOREM PipelineNoTearing == Spec => []NoTearing
<1>1. PInv => NoTearing
  BY NextPacketIs DEF PInv, DeviceInv, DrawsWhenSafe, NoTearing
<1> QED BY <1>1, PipelineInvariant, PTL

(* No fence that an older frame left at 0 is read for the frame just        *)
(* submitted: frame_submit raises it before the driver has the commands.    *)
THEOREM PipelineZeroFence == Spec => []ZeroFenceMeansDone
<1>1. PInv => ZeroFenceMeansDone
  BY DEF PInv, DeviceInv, RingFollows, ZeroFenceMeansDone
<1> QED BY <1>1, PipelineInvariant, PTL

(* cleanup() runs with both queues empty and both fences down, and a parked *)
(* process has given nothing back.                                          *)
THEOREM PipelineReleasesIdle == Spec => []ReleaseOnlyWhenIdle
<1>1. PInv => ReleaseOnlyWhenIdle
  <2> SUFFICES ASSUME PInv, ~mapped
               PROVE  /\ ring = <<>> /\ flipq = <<>>
                      /\ fence = [b \in Buffers |-> 0] /\ main # "parked"
    BY DEF ReleaseOnlyWhenIdle
  <2>1. main = "exited" /\ result.state = "COMPLETE"
    BY DEF PInv, MainFollows
  <2>2. /\ \A b \in Buffers : ~pending[b].active
        /\ DeviceTypeOK /\ RingFollows /\ FlipsFollow /\ FencesTell
    BY <2>1, RunnerFacts DEF PInv, DeviceInv
  <2>3. ring = <<>>
    <3> SUFFICES ASSUME ring # <<>> PROVE FALSE
      OBVIOUS
    <3>1. ring \in Seq(RingEntry)
      BY <2>2 DEF DeviceTypeOK, RingEntry
    <3>2. 1 \in DOMAIN ring /\ ring[1] \in RingEntry
      BY <3>1
    <3> QED BY <2>2, <3>2 DEF RingFollows, RingEntry
  <2>4. flipq = <<>>
    <3> SUFFICES ASSUME flipq # <<>> PROVE FALSE
      OBVIOUS
    <3>1. flipq \in Seq(Flip)
      BY <2>2 DEF DeviceTypeOK, Flip
    <3>2. 1 \in DOMAIN flipq /\ flipq[1] \in Flip
      BY <3>1
    <3> QED BY <2>2, <3>2 DEF FlipsFollow, Flip
  <2>5. fence = [b \in Buffers |-> 0]
    <3>1. \A b \in Buffers : fence[b] = 0
      BY <2>2 DEF FencesTell, DeviceTypeOK
    <3> QED BY <2>2, <3>1 DEF DeviceTypeOK
  <2> QED BY <2>1, <2>3, <2>4, <2>5
<1> QED BY <1>1, PipelineInvariant, PTL

(* Only a vertical blank changes the screen, and what it shows is the frame *)
(* after the one it showed.                                                 *)
THEOREM PipelineShownInOrder == Spec => ShownInOrder
<1>1. PInv /\ [Next]_vars => [screen' # screen => screen'.token = screen.token + 1]_vars
  <2> SUFFICES ASSUME PInv, [Next]_vars, screen' # screen
               PROVE  screen'.token = screen.token + 1
    OBVIOUS
  <2>1. Vblank
    BY DEF Next, Cpu, MainStep, MainDrain, MainAfterStep, MainAfterDrain,
           MainCleanup, Prepare, Compose, Submit, WaitGpu, VideoBegin, VideoPoll,
           VideoEvent, VideoNoEvent, VideoReturn, Drain, DeadlinePasses, Gpu,
           GpuWaitRendering, GpuDraw, GpuSetFlip, GpuRelease, vars, deviceVars
  <2> QED BY <2>1, VblankInv
<1> QED BY <1>1, PipelineInvariant, PTL DEF Spec, ShownInOrder

-----------------------------------------------------------------------------
(* Changing one slot changes that buffer's owner and no other.              *)
LEMMA OwnerStep ==
  ASSUME NEW b \in Buffers, NEW new, slots \in [Buffers -> T!Slot],
         slots' = [slots EXCEPT ![b] = new]
  PROVE  AbstractOwner' =
           [AbstractOwner EXCEPT ![b] =
              [with  |-> IF new.phase = "EMPTY" THEN "nobody"
                         ELSE IF new.phase = "PREPARED" THEN "cpu" ELSE "devices",
               token |-> new.token]]
<1>1. slots'[b] = new /\ \A c \in Buffers \ {b} : slots'[c] = slots[c]
  OBVIOUS
<1> QED BY <1>1 DEF AbstractOwner

(* A slot that the tracker lets the CPU take again is one that the devices  *)
(* have really finished with.                                               *)
LEMMA ReusableIsAvailable ==
  ASSUME PInv, NEW b \in Buffers, T!CanReuse(b)
  PROVE  Ownership!Available(b)
<1>1. slots[b].phase = "SUBMITTED" /\ slots[b].gpu_complete
        /\ slots[b].videoout_complete => Ownership!Finished(slots[b].token)
  BY DEF PInv, DeviceInv, FencesTell, Ownership!Finished, Engines
<1> QED BY <1>1 DEF T!CanReuse, Ownership!Available, AbstractOwner

(* Preparing a frame takes an available buffer, or spends a token on it.    *)
LEMMA PrepareOwns ==
  ASSUME PInv, Prepare
  PROVE  Ownership!Next \/ UNCHANGED <<AbstractOwner, Issued, finished>>
<1> DEFINE b == call.slot
<1>1. /\ slots \in [Buffers -> T!Slot] /\ b \in Buffers
      /\ next_token \in Nat /\ next_token >= FirstToken
      /\ FirstToken \in Nat /\ MaxToken \in Nat
  BY RunnerFacts, LoopAssumption DEF PInv
<1>2. finished' = finished
  BY DEF Prepare, deviceVars
<1>3. ASSUME PrepareOk \/ PrepareSceneFails
      PROVE  /\ Ownership!Available(b) /\ next_token \in T!Tokens \ Issued
             /\ Issued' = Issued \cup {next_token}
  <2>1. T!CanBegin(b) /\ next_token' = next_token + 1
    BY <1>3 DEF PrepareOk, PrepareSceneFails, T!Begin
  <2>2. Ownership!Available(b)
    BY <2>1, <1>1, ReusableIsAvailable DEF T!CanBegin
  <2>3. next_token \in T!Tokens \ Issued
    BY <2>1, <1>1 DEF T!CanBegin, T!Tokens, Issued
  <2>4. Issued' = Issued \cup {next_token}
    BY <2>1, <1>1 DEF Issued
  <2> QED BY <2>2, <2>3, <2>4
<1>4. CASE PrepareOk
  <2>1. slots' = [slots EXCEPT ![b] = T!PreparedSlot(next_token)]
    BY <1>4 DEF PrepareOk, T!Begin
  <2>2. AbstractOwner' =
          [AbstractOwner EXCEPT ![b] = [with |-> "cpu", token |-> next_token]]
    BY <2>1, <1>1, OwnerStep DEF T!PreparedSlot
  <2>3. Ownership!Acquire(b)
    BY <2>2, <1>2, <1>3, <1>4 DEF Ownership!Acquire
  <2> QED BY <2>3, <1>1 DEF Ownership!Next
<1>5. CASE PrepareSceneFails
  <2>1. slots' = [slots EXCEPT ![b] = T!EmptySlot]
    BY <1>5 DEF PrepareSceneFails
  <2>2. AbstractOwner' = [AbstractOwner EXCEPT ![b] = Ownership!Nobody]
    BY <2>1, <1>1, OwnerStep DEF T!EmptySlot, Ownership!Nobody
  <2>3. Ownership!Waste(b)
    BY <2>2, <1>2, <1>3, <1>5 DEF Ownership!Waste
  <2> QED BY <2>3, <1>1 DEF Ownership!Next
<1>6. CASE \E failed \in May("prepare") : PrepareRefused(~failed)
  BY <1>2, <1>6 DEF PrepareRefused, AbstractOwner, Issued
<1> QED BY <1>4, <1>5, <1>6 DEF Prepare

(* Composing hands the buffer over, or gives it up.                         *)
LEMMA ComposeOwns == ASSUME PInv, Compose PROVE Ownership!Next
<1> DEFINE b == call.slot
<1>1. PICK ok \in BOOLEAN : ComposeReturns(ok)
  BY DEF Compose, May
<1>2. /\ slots \in [Buffers -> T!Slot] /\ b \in Buffers
      /\ T!Holds(b, "PREPARED", pending[b].token)
  BY <1>1, RunnerFacts DEF PInv, ComposeReturns
<1>3. next_token' = next_token /\ finished' = finished
  BY <1>1 DEF Compose, deviceVars, ComposeReturns, T!MarkSubmitted,
     T!CancelPreSubmit
<1>4. Issued' = Issued /\ AbstractOwner[b].with = "cpu"
  BY <1>2, <1>3 DEF Issued, AbstractOwner, T!Holds
<1>5. CASE ok
  <2> DEFINE new == [slots[b] EXCEPT !.phase = "SUBMITTED"]
  <2>1. slots' = [slots EXCEPT ![b] = new]
    BY <1>1, <1>5 DEF ComposeReturns, T!MarkSubmitted
  <2>2. new.phase = "SUBMITTED" /\ new.token = slots[b].token
    BY <1>2 DEF T!Slot
  <2> HIDE DEF new
  <2>3. AbstractOwner' =
          [AbstractOwner EXCEPT ![b] = [with |-> "devices", token |-> slots[b].token]]
    BY <2>1, <2>2, <1>2, OwnerStep
  <2>4. AbstractOwner' = [AbstractOwner EXCEPT ![b].with = "devices"]
    BY <2>3, <1>2 DEF AbstractOwner
  <2>5. Ownership!HandOver(b)
    BY <2>4, <1>3, <1>4 DEF Ownership!HandOver
  <2> QED BY <2>5, <1>2 DEF Ownership!Next
<1>6. CASE ~ok
  <2>1. slots' = [slots EXCEPT ![b] = T!EmptySlot]
    BY <1>1, <1>6 DEF ComposeReturns, T!CancelPreSubmit
  <2>2. AbstractOwner' = [AbstractOwner EXCEPT ![b] = Ownership!Nobody]
    BY <2>1, <1>2, OwnerStep DEF T!EmptySlot, Ownership!Nobody
  <2>3. Ownership!Release(b)
    BY <2>2, <1>3, <1>4 DEF Ownership!Release
  <2> QED BY <2>3, <1>2 DEF Ownership!Next
<1> QED BY <1>5, <1>6

(* A device is done with a token: it is that of a buffer it was given.      *)
LEMMA DeviceReports ==
  ASSUME PInv, NEW b \in Buffers, NEW e \in Engines, pending[b].active,
         finished' = finished \cup {<<pending[b].token, e>>},
         UNCHANGED <<slots, next_token>>
  PROVE  Ownership!Next
<1>1. slots[b].phase = "SUBMITTED" /\ slots[b].token = pending[b].token
  BY RunnerFacts DEF PInv
<1>2. AbstractOwner[b].with = "devices" /\ AbstractOwner[b].token = pending[b].token
  BY <1>1 DEF AbstractOwner
<1>3. Ownership!Report(e)
  BY <1>2 DEF Ownership!Report, AbstractOwner, Issued
<1> QED BY <1>3 DEF Ownership!Next

(* The tracker's flags are no part of who owns what.                        *)
LEMMA FlagsOwnNothing ==
  ASSUME PInv, WaitGpu \/ VideoReturn
  PROVE  UNCHANGED <<AbstractOwner, Issued, finished>>
<1>1. slots \in [Buffers -> T!Slot]
  BY RunnerFacts DEF PInv
<1>2. finished' = finished
  BY DEF WaitGpu, VideoReturn, deviceVars
<1>3. /\ next_token' = next_token
      /\ \/ slots' = slots
         \/ slots' = [slots EXCEPT ![call.slot].gpu_complete = TRUE]
         \/ slots' = [slots EXCEPT ![call.slot].videoout_complete = TRUE]
  <2>1. CASE WaitGpu
    BY <2>1 DEF WaitGpu, WaitGpuReturns, T!MarkGpuComplete
  <2>2. CASE VideoReturn
    <3>1. PICK counted \in BOOLEAN :
            WaitVideoOutReturns(verdict = "DONE", completion.expected_flip_arg,
                                counted)
      BY <2>2 DEF VideoReturn, May
    <3> QED BY <3>1 DEF WaitVideoOutReturns, T!MarkVideoOutComplete
  <2> QED BY <2>1, <2>2
<1>4. \A c \in Buffers : /\ slots'[c].phase = slots[c].phase
                         /\ slots'[c].token = slots[c].token
  BY <1>1, <1>3 DEF T!Slot
<1> QED BY <1>2, <1>3, <1>4 DEF AbstractOwner, Issued

(* The pipeline implements BufferOwnership with the devices' own record of  *)
(* what they are done with: the runner never takes a buffer back, whatever  *)
(* its completion path reported, while a device still has its token.        *)
THEOREM PipelineRefinesOwnership == Spec => ImplementsOwnership
<1>1. Init => Ownership!Init
  <2> SUFFICES ASSUME Init PROVE Ownership!Init
    OBVIOUS
  <2>1. AbstractOwner = [b \in Buffers |-> Ownership!Nobody]
    BY DEF Init, LoopInit, T!TrackerInit, T!EmptySlot, AbstractOwner,
           Ownership!Nobody
  <2>2. Issued = {}
    BY LoopAssumption DEF Init, LoopInit, T!TrackerInit, Issued
  <2> QED BY <2>1, <2>2 DEF Init, Ownership!Init
<1>2. PInv /\ [Next]_vars =>
        [Ownership!Next]_<<AbstractOwner, Issued, finished>>
  <2> SUFFICES ASSUME PInv, [Next]_vars
               PROVE  Ownership!Next \/ UNCHANGED <<AbstractOwner, Issued, finished>>
    OBVIOUS
  <2>1. CASE Prepare
    BY <2>1, PrepareOwns
  <2>2. CASE Compose
    BY <2>2, ComposeOwns
  <2>3. CASE WaitGpu \/ VideoReturn
    BY <2>3, FlagsOwnNothing
  <2>4. CASE GpuRelease
    <3>1. DeviceTypeOK /\ RingFollows
      BY DEF PInv, DeviceInv
    <3>2. /\ 1 \in DOMAIN ring /\ Entry \in RingEntry
          /\ finished' = finished \cup {<<Entry.token, "gpu">>}
          /\ UNCHANGED <<slots, next_token>>
      BY <2>4, <3>1, NextPacketIs DEF GpuRelease, loopVars
    <3>3. /\ Entry.buffer \in Buffers /\ pending[Entry.buffer].active
          /\ pending[Entry.buffer].token = Entry.token
      BY <3>1, <3>2 DEF RingFollows, Entry, RingEntry
    <3> QED BY <3>2, <3>3, DeviceReports DEF Engines
  <2>5. CASE Vblank
    <3>1. DeviceTypeOK /\ FlipsFollow
      BY DEF PInv, DeviceInv
    <3>2. /\ flipq # <<>> /\ flipq \in Seq(Flip)
          /\ finished' = finished \cup {<<Head(flipq).token, "videoout">>}
          /\ UNCHANGED <<slots, next_token>>
      BY <2>5, <3>1 DEF Vblank, loopVars, DeviceTypeOK, Flip
    <3>3. Head(flipq) = flipq[1] /\ flipq[1] \in Flip /\ 1 \in DOMAIN flipq
      BY <3>2, TailFacts
    <3>4. /\ Head(flipq).buffer \in Buffers /\ pending[Head(flipq).buffer].active
          /\ pending[Head(flipq).buffer].token = Head(flipq).token
      BY <3>1, <3>3 DEF FlipsFollow, Flip
    <3> QED BY <3>2, <3>4, DeviceReports DEF Engines
  <2>6. CASE \/ MainStep \/ MainAfterStep \/ MainDrain \/ MainAfterDrain
             \/ MainCleanup \/ Submit \/ VideoBegin \/ VideoPoll \/ VideoEvent
             \/ VideoNoEvent \/ Drain \/ DeadlinePasses \/ GpuWaitRendering
             \/ GpuDraw \/ GpuSetFlip \/ UNCHANGED vars
    <3>1. UNCHANGED <<slots, next_token, finished>>
      BY <2>6
         DEF MainStep, MainAfterStep, MainDrain, MainAfterDrain, MainCleanup,
             Submit, VideoBegin, VideoPoll, VideoEvent, VideoNoEvent, Drain,
             DeadlinePasses, GpuWaitRendering, GpuDraw, GpuSetFlip, vars,
             loopVars, deviceVars, StepCall, DrainCall, SubmitReturns, Internal,
             DrainOldest, DrainComplete
    <3> QED BY <3>1 DEF AbstractOwner, Issued
  <2> QED BY <2>1, <2>2, <2>3, <2>4, <2>5, <2>6 DEF Next, Cpu, Gpu
<1> QED
  BY <1>1, <1>2, PipelineInvariant, PTL
     DEF Spec, ImplementsOwnership, Ownership!Spec

-----------------------------------------------------------------------------
(* exit_control while the pad answers: what it remembers of Options is what *)
(* the player does, and a request ends the loop at once.                    *)
ExitInv ==
  /\ pad \in [opened : BOOLEAN, previous : BOOLEAN, requested : BOOLEAN]
  /\ pad.opened /\ (pad.previous <=> press # "none")
  /\ press \in {"none", "usable", "unusable"}
  /\ pad.requested => press = "usable" /\ main \notin {"running", "stepping"}

(* A poll is all that touches it, and only after a step.                    *)
LEMMA ExitStep ==
  ASSUME "pad" \notin Faults, ExitInv, [Next]_vars PROVE ExitInv'
<1>1. CASE MainAfterStep
  <2>1. main = "stepping" /\ ~pad.requested
    BY <1>1 DEF MainAfterStep, ExitInv
  <2>2. CASE main' = "parked" /\ UNCHANGED <<pad, press>>
    BY <2>1, <2>2 DEF ExitInv
  <2>3. CASE ~(main' = "parked" /\ UNCHANGED <<pad, press>>)
    <3>1. PICK down \in BOOLEAN, intercepted \in BOOLEAN :
            ExitPolled(down, intercepted, FALSE)
      BY <1>1, <2>3 DEF MainAfterStep, May
    <3>2. main' = IF pad'.requested THEN "leaving" ELSE "running"
      BY <1>1, <2>3 DEF MainAfterStep
    <3>3. /\ pad.opened
          /\ pad' = [pad EXCEPT !.previous = down,
                                !.requested = ~intercepted /\ down /\ ~pad.previous]
      BY <2>1, <3>1 DEF ExitPolled, ExitUpdated, ExitInv
    <3>4. /\ pad' \in [opened : BOOLEAN, previous : BOOLEAN, requested : BOOLEAN]
          /\ pad'.opened /\ pad'.previous = down
          /\ pad'.requested <=> ~intercepted /\ down /\ ~pad.previous
      BY <3>3 DEF ExitInv
    <3>5. /\ press' = IF ~down THEN "none"
                      ELSE IF press # "none" THEN press
                      ELSE IF intercepted THEN "unusable" ELSE "usable"
          /\ press \in {"none", "usable", "unusable"}
          /\ pad.previous <=> press # "none"
      BY <3>1, <3>3 DEF ExitPolled, ExitInv
    <3>6. /\ press' \in {"none", "usable", "unusable"}
          /\ pad'.previous <=> press' # "none"
          /\ pad'.requested => press' = "usable"
      BY <3>4, <3>5
    <3>7. pad'.requested => main' \notin {"running", "stepping"}
      BY <3>2
    <3> QED BY <3>4, <3>6, <3>7 DEF ExitInv
  <2> QED BY <2>2, <2>3
<1>2. CASE MainStep \/ MainDrain \/ MainAfterDrain \/ MainCleanup
  <2>1. /\ UNCHANGED <<pad, press>>
        /\ main \in {"running", "leaving", "draining", "cleanup"}
        /\ main = "running" \/ main' \notin {"running", "stepping"}
    BY <1>2 DEF MainStep, MainDrain, MainAfterDrain, MainCleanup
  <2> QED BY <2>1 DEF ExitInv
<1>3. CASE ~(MainAfterStep \/ MainStep \/ MainDrain \/ MainAfterDrain \/ MainCleanup)
  <2>1. UNCHANGED <<main, pad, press>>
    BY <1>3
       DEF Next, Cpu, Prepare, Compose, Submit, WaitGpu, VideoBegin, VideoPoll,
           VideoEvent, VideoNoEvent, VideoReturn, Drain, DeadlinePasses, Gpu,
           GpuWaitRendering, GpuDraw, GpuSetFlip, GpuRelease, Vblank, vars, mainVars
  <2> QED BY <2>1 DEF ExitInv
<1> QED BY <1>1, <1>2, <1>3

(* While the pad answers every read, only a press that began in front of    *)
(* the program ends it: gears_exit_update keeps the level it has seen even  *)
(* when it may not use it.                                                  *)
THEOREM ExitOnAFreshPress ==
  ASSUME "pad" \notin Faults PROVE Spec => []ExitIsAFreshPress
<1>1. Init => ExitInv
  BY DEF Init, ExitInv
<1>2. ExitInv /\ [Next]_vars => ExitInv'
  BY ExitStep
<1>3. ExitInv => ExitIsAFreshPress
  BY DEF ExitInv, ExitIsAFreshPress
<1> QED BY <1>1, <1>2, <1>3, PTL DEF Spec

-----------------------------------------------------------------------------
(***************************************************************************)
(* With healthy devices the program never parks, for every token range that *)
(* is long enough and every time at which Options may be pressed.           *)
(*                                                                          *)
(* The checks of the completion path can only be tripped by a fence read    *)
(* too early or by an event of another frame.  Neither can happen: a wait   *)
(* for the flip begins after the fence of its slot has come down, and the   *)
(* events are taken in the order in which the frames are retired.  The      *)
(* second follows from the order of the frames (FrameLoopProofs) and one    *)
(* count: the last event taken is the last frame retired (EventsFollow).    *)
(***************************************************************************)

(* Nothing fails, wait_equeue's own results are no tokens, and the tokens   *)
(* last until the player must have pressed Options.                         *)
Healthy ==
  /\ Faults = {}
  /\ NoEvent \notin Nat /\ BadEvent \notin Nat /\ NoEvent # BadEvent
  /\ MaxToken >= FirstToken + FrameBound - 1

BeforePrepare == At("wait_gpu") \/ At("wait_videoout") \/ At("prepare")

(* No call has failed, and main() stands where the running call says.       *)
RunGoesOn ==
  /\ result.state \in {"ACTIVE", "COMPLETE"} /\ rc = 0 /\ ~late
  /\ main \in {"running", "stepping", "leaving", "draining", "cleanup", "exited"}
  /\ main \notin {"stepping", "draining"} => At("idle")
  /\ main \in {"running", "stepping", "leaving"} => result.state = "ACTIVE"
  /\ main = "stepping" => call.op # "drain"
  /\ main = "draining" =>
       result.state = "COMPLETE" \/ (call.op = "drain" /\ ~At("idle"))

(* No step begins past the bound: the press that is due there is a fresh    *)
(* one.                                                                     *)
PlayerInv ==
  /\ pad \in [opened : {TRUE}, previous : BOOLEAN, requested : BOOLEAN]
  /\ next_frame_index <= FrameBound
  /\ main = "running" \/ (main = "stepping" /\ BeforePrepare) =>
       /\ next_frame_index < FrameBound
       /\ next_frame_index = FrameBound - 1 => ~pad.previous
  /\ main = "stepping" /\ next_frame_index = FrameBound => ~pad.previous

(* No token was spent without a frame.                                      *)
TokensAreIndices ==
  /\ next_token = FirstToken + next_frame_index
  /\ \A b \in Buffers :
       pending[b].active \/ (At("compose") /\ call.slot = b) =>
         pending[b].token = FirstToken + pending[b].frame_index

(* The queue holds the tokens from the one of the oldest frame up to that   *)
(* on screen.                                                               *)
EventsFollow ==
  /\ verdict \in {"NONE", "WAITING", "DONE"}
  /\ verdict = "DONE" <=> completion.matching_videoout_event_seen
  /\ poll.busy =>
       poll.fence = 0 /\ ~poll.fence_expired /\ ~poll.video_expired
  /\ \A i \in DOMAIN equeue : equeue[i] = screen.token - Len(equeue) + i
  /\ screen.token - Len(equeue) =
       FirstToken - 1 + result.frames_completed
         + (IF verdict = "DONE" THEN 1 ELSE 0)

HealthInv == RunGoesOn /\ PlayerInv /\ TokensAreIndices /\ EventsFollow

HInv == PInv /\ L!OrderInv /\ HealthInv

-----------------------------------------------------------------------------
(* What the runner's invariants say of the call under way.                  *)
LEMMA CallFacts ==
  ASSUME HInv
  PROVE  /\ At("prepare") \/ At("compose") \/ At("submit") => call.op = "step"
         /\ At("oldest") => call.op = "drain"
         /\ At("wait_gpu") \/ At("wait_videoout") =>
              pending[call.slot].frame_index = result.frames_completed
         /\ \A b \in Buffers : pending[b].active =>
              T!Holds(b, "SUBMITTED", pending[b].token)
         /\ At("prepare") => T!CanReuse(call.slot)
<1>1. L!IInv /\ L!FlightOrder
  BY DEF HInv, PInv, L!OrderInv
<1>2. /\ At("prepare") \/ At("compose") \/ At("submit") => call.op = "step"
      /\ At("oldest") => call.op = "drain"
  BY <1>1 DEF L!IInv, L!CallConsistent, L!At, At
<1>3. ~At("idle") => result.state = "ACTIVE"
  BY <1>1, RunnerFacts
<1>4. At("wait_gpu") \/ At("wait_videoout") =>
        pending[call.slot].frame_index = result.frames_completed
  BY <1>1, <1>3 DEF L!FlightOrder, L!At, At
<1>5. \A b \in Buffers : pending[b].active =>
        T!Holds(b, "SUBMITTED", pending[b].token)
  BY <1>1, RunnerFacts DEF T!Holds
<1>6. At("prepare") => T!CanReuse(call.slot)
  <2> SUFFICES ASSUME At("prepare") PROVE T!CanReuse(call.slot)
    OBVIOUS
  <2> DEFINE b == call.slot
  <2>1. /\ ~pending[b].active /\ b \in Buffers /\ slots \in [Buffers -> T!Slot]
        /\ pending[b].active <=> slots[b].phase = "SUBMITTED" /\ ~T!CanReuse(b)
        /\ slots[b].phase # "PREPARED"
    BY <1>1, RunnerFacts DEF At
  <2>2. slots[b].phase \in {"EMPTY", "PREPARED", "SUBMITTED"}
    BY <2>1 DEF T!Slot, T!Phases
  <2> QED BY <2>1, <2>2 DEF T!CanReuse
<1> QED BY <1>2, <1>4, <1>5, <1>6

(* The types that the steps below need.                                     *)
LEMMA HealthTypes ==
  ASSUME HInv
  PROVE  /\ call.slot \in Buffers /\ screen.token \in Nat /\ equeue \in Seq(Nat)
         /\ Len(equeue) \in Nat
         /\ call \in [op : {"none", "step", "drain"}, at : L!Places, slot : Buffers]
         /\ pending \in [Buffers -> [token : {0} \cup T!Tokens, frame_index : Nat,
                                     active : BOOLEAN]]
         /\ result \in [state : RunStates, frames_completed : Nat,
                        max_frames_in_flight : 0 .. 2, failed_frame : Nat,
                        retained_token : {0} \cup T!Tokens]
         /\ next_frame_index \in Nat /\ next_token \in Nat
         /\ FirstToken \in Nat /\ MaxToken \in Nat
         /\ FrameBound \in Nat /\ FrameBound >= 1
         /\ ~At("idle") => result.state = "ACTIVE"
<1>1. PInv /\ L!IInv /\ DeviceTypeOK
  BY DEF HInv, PInv, DeviceInv
<1>2. screen.token \in Nat /\ equeue \in Seq(Nat) /\ Len(equeue) \in Nat
  BY <1>1 DEF DeviceTypeOK
<1> QED BY <1>1, <1>2, RunnerFacts, LoopAssumption, PipelineAssumption

(* What a step leaves alone needs no new proof: the events,                 *)
LEMMA EventsKept ==
  ASSUME HInv, UNCHANGED <<completion, poll, verdict, screen, equeue>>,
         result'.frames_completed = result.frames_completed
  PROVE  EventsFollow'
  BY DEF HInv, HealthInv, EventsFollow

(* and everything else.                                                     *)
LEMMA HealthKept ==
  ASSUME HInv, UNCHANGED <<loopVars, late, main, pad>>
  PROVE  RunGoesOn' /\ PlayerInv' /\ TokensAreIndices'
<1>1. UNCHANGED <<next_token, next_frame_index, pending, result, call, rc>>
  BY DEF loopVars
<1> QED BY <1>1 DEF HInv, HealthInv, RunGoesOn, PlayerInv, TokensAreIndices,
           BeforePrepare, At

-----------------------------------------------------------------------------
(* The devices: a flip adds its event at the end.                           *)
LEMMA DevicesHealthy ==
  ASSUME Healthy, HInv, Gpu \/ Vblank PROVE HealthInv'
<1>1. UNCHANGED <<loopVars, completion, poll, verdict, late, main, pad>>
  BY DEF Gpu, GpuWaitRendering, GpuDraw, GpuSetFlip, GpuRelease, Vblank,
         waitVars, mainVars
<1>2. result' = result
  BY <1>1 DEF loopVars
<1>3. CASE Gpu
  <2>1. UNCHANGED <<screen, equeue>>
    BY <1>3 DEF Gpu, GpuWaitRendering, GpuDraw, GpuSetFlip, GpuRelease
  <2> QED BY <1>1, <1>2, <2>1, EventsKept, HealthKept DEF HealthInv
<1>4. CASE Vblank
  <2>1. equeue' = Append(equeue, Head(flipq).token) /\ screen' = Head(flipq)
    BY <1>4 DEF Vblank, May, Healthy
  <2>2. screen'.token = screen.token + 1
    BY <1>4, VblankInv DEF HInv
  <2> DEFINE t == screen.token + 1
  <2>3. equeue' = Append(equeue, t) /\ t \in Nat /\ screen'.token = t
    BY <2>1, <2>2, HealthTypes
  <2>4. /\ Len(equeue') = Len(equeue) + 1
        /\ \A i \in DOMAIN equeue' :
             \/ i \in DOMAIN equeue /\ equeue'[i] = equeue[i]
             \/ i = Len(equeue) + 1 /\ equeue'[i] = t
    BY <2>3, HealthTypes, AppendFacts
  <2>5. screen'.token - Len(equeue') = screen.token - Len(equeue)
    BY <2>3, <2>4, HealthTypes
  <2>6. ASSUME NEW i \in DOMAIN equeue'
        PROVE  equeue'[i] = screen'.token - Len(equeue') + i
    <3>1. CASE i \in DOMAIN equeue /\ equeue'[i] = equeue[i]
      BY <3>1, <2>5 DEF HInv, HealthInv, EventsFollow
    <3>2. CASE i = Len(equeue) + 1 /\ equeue'[i] = t
      BY <3>2, <2>3, <2>4, HealthTypes
    <3> QED BY <2>4, <3>1, <3>2
  <2>7. EventsFollow'
    BY <1>1, <1>2, <2>5, <2>6 DEF HInv, HealthInv, EventsFollow
  <2> QED BY <2>7, <1>1, HealthKept DEF HealthInv
<1> QED BY <1>3, <1>4

(* The wait for the flip.  Its poll reads a fence that is down, and the     *)
(* event it takes is its own.                                               *)
LEMMA WaitHealthy ==
  ASSUME Healthy, HInv, VideoBegin \/ VideoPoll \/ VideoEvent \/ VideoNoEvent
  PROVE  HealthInv'
<1>1. UNCHANGED <<loopVars, late, main, pad, screen>>
  BY DEF VideoBegin, VideoPoll, VideoEvent, VideoNoEvent, mainVars, deviceVars
<1>2. /\ result' = result /\ EventsFollow /\ ~late
      /\ WaitFollows /\ FencesTell /\ DeviceTypeOK /\ L!IInv
  BY <1>1 DEF loopVars, HInv, HealthInv, RunGoesOn, PInv, DeviceInv
<1>3. CASE VideoBegin
  <2>1. /\ verdict = "NONE" /\ verdict' = "WAITING" /\ ~poll'.busy
        /\ ~completion'.matching_videoout_event_seen /\ equeue' = equeue
    BY <1>3 DEF VideoBegin, C!CompletionBegin, C!NotBegun, C!NoPoll, deviceVars
  <2>2. EventsFollow'
    BY <1>1, <1>2, <2>1 DEF EventsFollow
  <2> QED BY <1>1, <2>2, HealthKept DEF HealthInv
<1>4. CASE VideoPoll
  <2>1. /\ At("wait_videoout") /\ UNCHANGED <<completion, verdict, equeue>>
        /\ poll' = [busy |-> TRUE, fence |-> fence[call.slot],
                    fence_expired |-> FALSE, video_expired |-> late]
    BY <1>4 DEF VideoPoll, C!PollStart, deviceVars
  <2>2. fence[call.slot] = 0
    <3>1. slots[call.slot].gpu_complete /\ call.slot \in Buffers
      BY <2>1, <1>2, RunnerFacts
    <3>2. fence[call.slot] # 1
      BY <3>1, <1>2 DEF FencesTell
    <3> QED BY <3>1, <3>2, <1>2 DEF DeviceTypeOK
  <2>3. EventsFollow'
    BY <1>1, <1>2, <2>1, <2>2 DEF EventsFollow
  <2> QED BY <1>1, <2>3, HealthKept DEF HealthInv
<1>5. CASE VideoEvent \/ VideoNoEvent
  <2> DEFINE e == completion.expected_flip_arg
  <2>1. /\ poll.busy /\ verdict = "WAITING" /\ At("wait_videoout")
        /\ ~completion.matching_videoout_event_seen
        /\ poll.fence = 0 /\ ~poll.fence_expired /\ ~poll.video_expired
        /\ completion \in CompletionType /\ poll' = C!NoPoll
        /\ e = pending[call.slot].token
    BY <1>2, <1>5
       DEF VideoEvent, VideoNoEvent, C!PollEnd, WaitFollows, EventsFollow
  <2>2. e = FirstToken + result.frames_completed
    <3>1. pending[call.slot].active /\ call.slot \in Buffers
      BY <2>1, <1>2, RunnerFacts
    <3>2. pending[call.slot].token = FirstToken + pending[call.slot].frame_index
      BY <3>1 DEF HInv, HealthInv, TokensAreIndices
    <3> QED BY <2>1, <3>2, CallFacts
  <2>3. CASE VideoNoEvent
    <3>1. C!Settle(completion.fence_zero_seen \/ poll.fence = 0,
                   completion.matching_videoout_event_seen \/ NoEvent # NoEvent,
                   poll)
      BY <2>3, <2>1 DEF VideoNoEvent, C!PollEnd, C!Observe, Healthy
    <3>2. /\ verdict' = "WAITING" /\ ~completion'.matching_videoout_event_seen
          /\ equeue' = equeue
      BY <3>1, <2>1, <2>3 DEF C!Settle, CompletionType, VideoNoEvent, deviceVars
    <3>3. EventsFollow'
      BY <1>1, <1>2, <2>1, <3>2 DEF EventsFollow, C!NoPoll
    <3> QED BY <1>1, <3>3, HealthKept DEF HealthInv
  <2>4. CASE VideoEvent
    <3>1. /\ equeue # <<>> /\ equeue' = Tail(equeue)
          /\ C!PollEnd(Head(equeue))
      BY <2>4 DEF VideoEvent, May, Healthy
    <3>2. /\ Len(equeue') = Len(equeue) - 1 /\ Len(equeue) \in Nat
          /\ Head(equeue) = equeue[1] /\ equeue[1] \in Nat /\ 1 \in DOMAIN equeue
          /\ \A i \in DOMAIN equeue' :
               i \in Nat /\ i + 1 \in DOMAIN equeue /\ equeue'[i] = equeue[i + 1]
      BY <3>1, HealthTypes, TailFacts
    <3>3. Head(equeue) = e
      <4>1. Head(equeue) = screen.token - Len(equeue) + 1
        BY <3>2, <1>2 DEF EventsFollow
      <4>2. screen.token - Len(equeue) = FirstToken - 1 + result.frames_completed
        BY <2>1, <1>2, HealthTypes DEF EventsFollow
      <4>3. result.frames_completed \in Nat
        BY HealthTypes
      <4> QED BY <4>1, <4>2, <4>3, <2>2, HealthTypes
    <3>4. C!Settle(completion.fence_zero_seen \/ poll.fence = 0,
                   completion.matching_videoout_event_seen \/ Head(equeue) # NoEvent,
                   poll)
      BY <3>1, <3>2, <3>3, <2>1 DEF C!PollEnd, C!Observe, Healthy
    <3>5. Head(equeue) # NoEvent
      BY <3>2 DEF Healthy
    <3>6. verdict' = "DONE" /\ completion'.matching_videoout_event_seen
      BY <3>4, <3>5, <2>1 DEF C!Settle, CompletionType
    <3>7. ASSUME NEW i \in DOMAIN equeue'
          PROVE  equeue'[i] = screen'.token - Len(equeue') + i
      <4> DEFINE j == i + 1
      <4>1. j \in DOMAIN equeue /\ equeue'[i] = equeue[j] /\ j = i + 1 /\ i \in Nat
        BY <3>2
      <4> HIDE DEF j
      <4>2. equeue[j] = screen.token - Len(equeue) + j
        BY <4>1, <1>2 DEF EventsFollow
      <4>3. screen'.token = screen.token /\ screen.token \in Nat
        BY <1>1, HealthTypes
      <4> QED BY <4>1, <4>2, <4>3, <3>2, SMTT(30)
    <3>8. screen'.token - Len(equeue') = FirstToken - 1 + result.frames_completed + 1
      <4>1. screen.token - Len(equeue) = FirstToken - 1 + result.frames_completed
        BY <2>1, <1>2, HealthTypes DEF EventsFollow
      <4>2. /\ screen'.token = screen.token /\ screen.token \in Nat
            /\ FirstToken \in Nat /\ result.frames_completed \in Nat
        BY <1>1, HealthTypes
      <4> QED BY <4>1, <4>2, <3>2
    <3>9. EventsFollow'
      BY <1>1, <1>2, <2>1, <3>6, <3>7, <3>8 DEF EventsFollow, C!NoPoll
    <3> QED BY <1>1, <3>9, HealthKept DEF HealthInv
  <2> QED BY <1>5, <2>3, <2>4
<1> QED BY <1>3, <1>4, <1>5

-----------------------------------------------------------------------------
(* The callbacks.  One that is not about the flip leaves the events alone.  *)
LEMMA CallbackWaits ==
  ASSUME HInv, MainStep \/ MainDrain \/ Prepare \/ Compose \/ Submit \/ WaitGpu
               \/ Drain,
         result'.frames_completed = result.frames_completed
  PROVE  EventsFollow'
<1>1. UNCHANGED <<completion, poll, verdict, screen, equeue>>
  BY DEF MainStep, MainDrain, Prepare, Compose, Submit, WaitGpu, Drain, waitVars,
         deviceVars
<1> QED BY <1>1, EventsKept

(* Inside a call it is main that waits for it.                              *)
LEMMA CallerWaits ==
  ASSUME HInv
  PROVE  /\ At("prepare") \/ At("compose") \/ At("submit") => main = "stepping"
         /\ At("oldest") => main = "draining"
         /\ ~At("idle") => main \in {"stepping", "draining"}
  BY CallFacts, HealthTypes DEF HInv, HealthInv, RunGoesOn, At

(* A frame can always be prepared: its slot has been retired, and the       *)
(* tokens last.                                                             *)
LEMMA PrepareHealthy == ASSUME Healthy, HInv, Prepare PROVE HealthInv'
<1> DEFINE b == call.slot
<1>1. /\ At("prepare") /\ ~At("idle") /\ ~At("compose") /\ main = "stepping"
      /\ UNCHANGED <<late, main, pad>>
  <2>1. At("prepare") /\ UNCHANGED <<late, main, pad>>
    BY DEF Prepare, PrepareOk, PrepareSceneFails, PrepareRefused, waitVars, mainVars
  <2> QED BY <2>1, CallerWaits DEF At
<1>2. RunGoesOn /\ PlayerInv /\ TokensAreIndices
  BY DEF HInv, HealthInv
<1>3. /\ next_frame_index < FrameBound
      /\ next_frame_index = FrameBound - 1 => ~pad.previous
  BY <1>1, <1>2 DEF PlayerInv, BeforePrepare
<1>4. T!CanBegin(b)
  <2>1. next_token = FirstToken + next_frame_index
    BY <1>2 DEF TokensAreIndices
  <2>2. next_token <= MaxToken
    BY <2>1, <1>3, HealthTypes DEF Healthy
  <2> QED BY <1>1, <2>2, CallFacts DEF T!CanBegin
<1>5. PrepareOk
  BY <1>4 DEF Prepare, PrepareRefused, May, Healthy
<1>6. /\ next_frame_index' = next_frame_index + 1 /\ next_token' = next_token + 1
      /\ pending' = [pending EXCEPT ![b].token = next_token,
                                    ![b].frame_index = next_frame_index]
      /\ call' = [call EXCEPT !.at = "compose"] /\ UNCHANGED <<result, rc>>
  BY <1>5 DEF PrepareOk, T!Begin, Goto
<1>7. call'.op = call.op /\ call'.at = "compose" /\ call'.slot = b
  BY <1>6, HealthTypes
<1>8. RunGoesOn'
  BY <1>1, <1>2, <1>6, <1>7 DEF RunGoesOn, At
<1>9. PlayerInv'
  <2>1. ~BeforePrepare' /\ main' = "stepping"
    BY <1>1, <1>7 DEF BeforePrepare, At
  <2>2. /\ next_frame_index' <= FrameBound
        /\ next_frame_index' = FrameBound => ~pad'.previous
    BY <1>1, <1>3, <1>6, HealthTypes
  <2> QED BY <2>1, <2>2, <1>1, <1>2 DEF PlayerInv
<1>10. TokensAreIndices'
  <2>1. next_token = FirstToken + next_frame_index
    BY <1>2 DEF TokensAreIndices
  <2>2. next_token' = FirstToken + next_frame_index'
    BY <2>1, <1>6, HealthTypes
  <2>3. ASSUME NEW c \in Buffers,
               pending'[c].active \/ (At("compose")' /\ call'.slot = c)
        PROVE  pending'[c].token = FirstToken + pending'[c].frame_index
    <3>1. CASE c = b
      <4>1. pending'[b].token = next_token /\ pending'[b].frame_index = next_frame_index
        BY <1>6, HealthTypes
      <4> QED BY <3>1, <4>1, <2>1
    <3>2. CASE c # b
      <4>1. pending'[c] = pending[c] /\ pending[c].active
        BY <2>3, <3>2, <1>6, <1>7, HealthTypes
      <4> QED BY <4>1, <1>2 DEF TokensAreIndices
    <3> QED BY <3>1, <3>2
  <2> QED BY <2>2, <2>3 DEF TokensAreIndices
<1> QED BY <1>6, <1>8, <1>9, <1>10, CallbackWaits DEF HealthInv

(* Compose and submit succeed.                                              *)
LEMMA SubmitHealthy ==
  ASSUME Healthy, HInv, Compose \/ Submit PROVE HealthInv'
<1> DEFINE b == call.slot
<1>1. /\ At("compose") \/ At("submit")
      /\ UNCHANGED <<late, main, pad>>
      /\ ComposeReturns(TRUE) \/ SubmitReturns(TRUE)
  BY DEF Compose, Submit, ComposeReturns, SubmitReturns, waitVars, mainVars, May,
         Healthy
<1>2. main = "stepping" /\ call.op = "step" /\ b \in Buffers
  BY <1>1, CallerWaits, CallFacts, HealthTypes
<1>3. RunGoesOn /\ PlayerInv /\ TokensAreIndices
  BY DEF HInv, HealthInv
<1>4. /\ UNCHANGED <<next_frame_index, next_token>> /\ rc' = 0
      /\ result'.state = result.state
      /\ result'.frames_completed = result.frames_completed
  BY <1>1, <1>3, HealthTypes
     DEF ComposeReturns, SubmitReturns, T!MarkSubmitted, Return, RunGoesOn
<1>5. /\ call'.at \in {"submit", "idle"} /\ call'.op # "drain"
      /\ \A c \in Buffers :
           /\ pending'[c].token = pending[c].token
           /\ pending'[c].frame_index = pending[c].frame_index
           /\ pending'[c].active =>
                pending[c].active \/ (At("compose") /\ b = c)
  <2>1. CASE ComposeReturns(TRUE)
    <3>1. /\ pending' = [pending EXCEPT ![b].active = TRUE]
          /\ call' = [call EXCEPT !.at = "submit"] /\ At("compose")
      BY <2>1 DEF ComposeReturns, Goto
    <3>2. call'.at = "submit" /\ call'.op = call.op
      BY <3>1, HealthTypes
    <3>3. ASSUME NEW c \in Buffers
          PROVE  /\ pending'[c].token = pending[c].token
                 /\ pending'[c].frame_index = pending[c].frame_index
                 /\ b # c => pending'[c].active = pending[c].active
      BY <3>1, <1>2, HealthTypes
    <3> QED BY <3>1, <3>2, <3>3, <1>2
  <2>2. CASE SubmitReturns(TRUE)
    BY <2>2 DEF SubmitReturns, Return, Idle
  <2> QED BY <1>1, <2>1, <2>2
<1>6. RunGoesOn'
  BY <1>1, <1>2, <1>3, <1>4, <1>5 DEF RunGoesOn, At
<1>7. PlayerInv'
  BY <1>1, <1>2, <1>3, <1>4, <1>5 DEF PlayerInv, BeforePrepare, At
<1>8. TokensAreIndices'
  BY <1>3, <1>4, <1>5 DEF TokensAreIndices, At
<1> QED BY <1>4, <1>6, <1>7, <1>8, CallbackWaits DEF HealthInv

(* A wait ends only when its signal has come.                               *)
LEMMA RetireHealthy ==
  ASSUME Healthy, HInv, WaitGpu \/ VideoReturn PROVE HealthInv'
<1> DEFINE b == call.slot
<1>1. /\ At("wait_gpu") \/ At("wait_videoout")
      /\ late' = FALSE /\ UNCHANGED <<main, pad>>
  BY DEF WaitGpu, VideoReturn, WaitGpuReturns, WaitVideoOutReturns, mainVars
<1>2. /\ RunGoesOn /\ PlayerInv /\ TokensAreIndices /\ EventsFollow
      /\ WaitFollows /\ L!IInv
  BY DEF HInv, HealthInv, PInv
<1>3. /\ pending[b].active /\ b \in Buffers
      /\ T!Holds(b, "SUBMITTED", pending[b].token)
      /\ main \in {"stepping", "draining"} /\ BeforePrepare
      /\ result.state = "ACTIVE"
  BY <1>1, <1>2, RunnerFacts, CallFacts, CallerWaits DEF At, BeforePrepare
<1>4. CASE WaitGpu
  <2>1. WaitGpuReturns(TRUE)
    BY <1>2, <1>4 DEF WaitGpu, RunGoesOn
  <2>2. /\ call' = [call EXCEPT !.at = "wait_videoout"]
        /\ UNCHANGED <<next_token, next_frame_index, pending, result, rc>>
    BY <2>1, <1>3 DEF WaitGpuReturns, T!MarkGpuComplete, Goto
  <2>3. call'.op = call.op /\ call'.at = "wait_videoout"
    BY <2>2, HealthTypes
  <2>4. RunGoesOn'
    BY <1>1, <1>2, <1>3, <2>2, <2>3 DEF RunGoesOn, At
  <2>5. PlayerInv'
    BY <1>1, <1>2, <1>3, <2>2, <2>3 DEF PlayerInv, BeforePrepare, At
  <2>6. TokensAreIndices'
    BY <1>2, <2>2, <2>3 DEF TokensAreIndices, At
  <2> QED BY <1>4, <2>2, <2>4, <2>5, <2>6, CallbackWaits DEF HealthInv
<1>5. CASE VideoReturn
  <2>1. verdict = "DONE" /\ completion.expected_flip_arg = pending[b].token
    BY <1>2, <1>5 DEF VideoReturn, EventsFollow, WaitFollows
  <2>2. WaitVideoOutReturns(TRUE, pending[b].token, TRUE)
    BY <1>5, <2>1 DEF VideoReturn, May, Healthy
  <2>3. /\ pending' = [pending EXCEPT ![b].active = FALSE]
        /\ UNCHANGED <<next_token, next_frame_index, rc>>
        /\ result' = [result EXCEPT !.frames_completed = @ + 1]
        /\ call' = [call EXCEPT !.at = IF call.op = "step" THEN "prepare"
                                                           ELSE "oldest"]
    BY <2>2, <1>3 DEF WaitVideoOutReturns, T!MarkVideoOutComplete, Account, Goto
  <2>4. /\ call'.op = call.op
        /\ call'.at = IF call.op = "step" THEN "prepare" ELSE "oldest"
        /\ result'.state = result.state
        /\ result'.frames_completed = result.frames_completed + 1
        /\ \A c \in Buffers :
             /\ pending'[c].token = pending[c].token
             /\ pending'[c].frame_index = pending[c].frame_index
             /\ pending'[c].active => pending[c].active
    BY <2>3, HealthTypes
  <2>5. RunGoesOn'
    BY <1>1, <1>2, <1>3, <2>3, <2>4 DEF RunGoesOn, At
  <2>6. PlayerInv'
    BY <1>1, <1>2, <1>3, <2>3 DEF PlayerInv
  <2>7. TokensAreIndices'
    BY <1>2, <2>3, <2>4 DEF TokensAreIndices, At
  <2>8. EventsFollow'
    <3>1. /\ verdict' = "NONE" /\ ~poll'.busy
          /\ ~completion'.matching_videoout_event_seen
          /\ UNCHANGED <<screen, equeue>>
      BY <1>5 DEF VideoReturn, C!NotBegun, C!NoPoll, deviceVars
    <3>2. screen.token - Len(equeue) = FirstToken - 1 + result'.frames_completed
      <4>1. screen.token - Len(equeue) =
              FirstToken - 1 + result.frames_completed + 1
        BY <1>2, <2>1 DEF EventsFollow
      <4>2. result.frames_completed \in Nat /\ FirstToken \in Nat
        BY HealthTypes
      <4> QED BY <4>1, <4>2, <2>4
    <3>3. FirstToken - 1 + result'.frames_completed =
            FirstToken - 1 + result'.frames_completed + 0
      BY <2>4, HealthTypes
    <3> QED BY <3>1, <3>2, <3>3, <1>2 DEF EventsFollow
  <2> QED BY <2>5, <2>6, <2>7, <2>8 DEF HealthInv
<1> QED BY <1>4, <1>5

(* The calls of main, and drain's own work.                                 *)
LEMMA CallHealthy ==
  ASSUME Healthy, HInv, MainStep \/ MainDrain \/ Drain PROVE HealthInv'
<1>1. RunGoesOn /\ PlayerInv /\ TokensAreIndices
  BY DEF HInv, HealthInv
<1>2. /\ UNCHANGED <<next_token, next_frame_index, pending, pad, late>>
      /\ At("idle") \/ At("oldest")
  BY DEF MainStep, MainDrain, Drain, StepCall, DrainCall, Internal, DrainOldest,
         DrainComplete, waitVars, mainVars
<1>3. CASE MainStep
  <2>1. /\ main = "running" /\ main' = "stepping" /\ UNCHANGED <<result, rc>>
        /\ call'.op = "step" /\ call'.at \in {"wait_gpu", "prepare"}
    BY <1>3 DEF MainStep, StepCall
  <2>2. RunGoesOn'
    BY <1>1, <1>2, <2>1 DEF RunGoesOn, At
  <2>3. PlayerInv'
    <3>1. /\ next_frame_index < FrameBound
          /\ next_frame_index = FrameBound - 1 => ~pad.previous
      BY <1>1, <2>1 DEF PlayerInv
    <3>2. next_frame_index # FrameBound /\ next_frame_index <= FrameBound
      BY <3>1, HealthTypes
    <3> QED BY <3>1, <3>2, <1>1, <1>2 DEF PlayerInv
  <2>4. TokensAreIndices'
    BY <1>1, <1>2, <2>1 DEF TokensAreIndices, At
  <2> QED BY <1>3, <2>1, <2>2, <2>3, <2>4, CallbackWaits DEF HealthInv
<1>4. CASE MainDrain
  <2>1. /\ main' = "draining" /\ UNCHANGED <<result, rc>>
        /\ call'.op = "drain" /\ call'.at = "oldest"
    BY <1>4 DEF MainDrain, DrainCall
  <2>2. RunGoesOn'
    BY <1>1, <1>2, <2>1 DEF RunGoesOn, At
  <2>3. PlayerInv' /\ TokensAreIndices'
    BY <1>1, <1>2, <2>1 DEF PlayerInv, TokensAreIndices, At
  <2> QED BY <1>4, <2>1, <2>2, <2>3, CallbackWaits DEF HealthInv
<1>5. CASE Drain
  <2>1. main = "draining" /\ main' = main /\ At("oldest")
    <3>1. At("oldest") /\ main' = main
      BY <1>5 DEF Drain, Internal, DrainOldest, DrainComplete, mainVars
    <3> QED BY <3>1, CallerWaits
  <2>2. /\ rc' = 0 /\ result'.frames_completed = result.frames_completed
        /\ \/ result' = result /\ call'.op = "drain" /\ call'.at = "wait_gpu"
           \/ result'.state = "COMPLETE" /\ call'.at = "idle"
    <3>1. CASE DrainOldest
      BY <3>1, <1>1 DEF DrainOldest, RunGoesOn
    <3>2. CASE DrainComplete
      BY <3>2, HealthTypes DEF DrainComplete, Return, Idle
    <3> QED BY <1>5, <3>1, <3>2 DEF Drain, Internal
  <2>3. RunGoesOn'
    BY <1>1, <1>2, <2>1, <2>2 DEF RunGoesOn, At
  <2>4. PlayerInv' /\ TokensAreIndices'
    BY <1>1, <1>2, <2>1, <2>2 DEF PlayerInv, TokensAreIndices, At
  <2> QED BY <1>5, <2>2, <2>3, <2>4, CallbackWaits DEF HealthInv
<1> QED BY <1>3, <1>4, <1>5

(* main after a call that has returned 0.                                   *)
LEMMA MainHealthy ==
  ASSUME Healthy, HInv, MainAfterStep \/ MainAfterDrain \/ MainCleanup
  PROVE  HealthInv'
<1>1. /\ RunGoesOn /\ PlayerInv /\ TokensAreIndices
      /\ ~At("idle") => result.state = "ACTIVE"
  BY HealthTypes DEF HInv, HealthInv
<1>2. /\ UNCHANGED <<next_token, next_frame_index, pending, result, call, rc>>
      /\ UNCHANGED <<completion, poll, verdict, late, screen, equeue>>
  BY DEF MainAfterStep, MainAfterDrain, MainCleanup, loopVars, waitVars, deviceVars
<1>3. TokensAreIndices' /\ EventsFollow'
  BY <1>1, <1>2, EventsKept DEF TokensAreIndices, At
<1>4. CASE MainAfterStep
  <2>1. main = "stepping" /\ At("idle") /\ rc = 0 /\ result.state = "ACTIVE"
    BY <1>1, <1>4 DEF MainAfterStep, RunGoesOn
  <2>2. PICK down \in BOOLEAN, intercepted \in BOOLEAN :
          /\ PlayerWithinBound(down, intercepted)
          /\ ExitPolled(down, intercepted, FALSE)
          /\ main' = IF pad'.requested THEN "leaving" ELSE "running"
    BY <1>4, <2>1 DEF MainAfterStep, May, Healthy
  <2>3. /\ pad' \in [opened : {TRUE}, previous : BOOLEAN, requested : BOOLEAN]
        /\ pad'.previous = down
        /\ down /\ ~intercepted /\ ~pad.previous => pad'.requested
    BY <2>2, <1>1 DEF ExitPolled, ExitUpdated, PlayerInv
  <2>4. RunGoesOn'
    BY <1>1, <1>2, <2>1, <2>2 DEF RunGoesOn, At
  <2>5. PlayerInv'
    <3>1. next_frame_index = FrameBound => main' = "leaving"
      <4> SUFFICES ASSUME next_frame_index = FrameBound PROVE main' = "leaving"
        OBVIOUS
      <4>1. down /\ ~intercepted
        BY <2>2, HealthTypes DEF PlayerWithinBound
      <4>2. ~pad.previous
        BY <2>1, <1>1 DEF PlayerInv
      <4> QED BY <4>1, <4>2, <2>2, <2>3
    <3>2. next_frame_index = FrameBound - 1 => ~pad'.previous
      BY <2>2, <2>3 DEF PlayerWithinBound
    <3>3. next_frame_index <= FrameBound /\ next_frame_index \in Nat
      BY <1>1, HealthTypes DEF PlayerInv
    <3>4. main' \in {"leaving", "running"}
      BY <2>2
    <3>5. main' = "running" => next_frame_index < FrameBound
      <4>1. main' = "running" => next_frame_index # FrameBound
        BY <3>1
      <4> QED BY <4>1, <3>3, HealthTypes
    <3> QED BY <3>2, <3>3, <3>4, <3>5, <2>3, <1>2 DEF PlayerInv
  <2> QED BY <1>3, <2>4, <2>5 DEF HealthInv
<1>5. CASE MainAfterDrain
  <2>1. main = "draining" /\ At("idle") /\ rc = 0 /\ result.state = "COMPLETE"
    BY <1>1, <1>5 DEF MainAfterDrain, RunGoesOn
  <2>2. main' = "cleanup" /\ pad' = pad
    BY <1>5, <2>1 DEF MainAfterDrain, May, Healthy
  <2>3. RunGoesOn' /\ PlayerInv'
    BY <1>1, <1>2, <2>1, <2>2 DEF RunGoesOn, PlayerInv, At
  <2> QED BY <1>3, <2>3 DEF HealthInv
<1>6. CASE MainCleanup
  <2>1. main = "cleanup" /\ main' = "exited" /\ pad' = pad
    BY <1>6 DEF MainCleanup
  <2>2. RunGoesOn' /\ PlayerInv'
    BY <1>1, <1>2, <2>1 DEF RunGoesOn, PlayerInv, At
  <2> QED BY <1>3, <2>2 DEF HealthInv
<1> QED BY <1>4, <1>5, <1>6

-----------------------------------------------------------------------------
(* With healthy devices no step of the program or of the devices leads to a *)
(* failure.                                                                 *)
LEMMA HealthStep == ASSUME Healthy, HInv, [Next]_vars PROVE HealthInv'
<1>1. CASE UNCHANGED vars
  <2>1. UNCHANGED <<loopVars, late, main, pad, completion, poll, verdict, screen,
                    equeue>>
    BY <1>1 DEF vars, waitVars, mainVars, deviceVars
  <2>2. result'.frames_completed = result.frames_completed
    BY <2>1 DEF loopVars
  <2> QED BY <2>1, <2>2, EventsKept, HealthKept DEF HealthInv
<1>2. CASE DeadlinePasses
  BY <1>2 DEF DeadlinePasses, Healthy
<1> QED
  BY <1>1, <1>2, DevicesHealthy, WaitHealthy, PrepareHealthy, SubmitHealthy,
     RetireHealthy, CallHealthy, MainHealthy
     DEF Next, Cpu

(* The start of the program satisfies it.                                   *)
LEMMA InitHealthy == ASSUME Healthy, Init PROVE HInv
<1>1. PInv
  BY InitPInv
<1>2. L!OrderInv
  BY RunnerStarts, L!InitOrder, LoopAssumption DEF Init
<1>3. /\ equeue = <<>> /\ Len(equeue) = 0 /\ screen.token = FirstToken - 1
      /\ result.frames_completed = 0 /\ verdict = "NONE"
      /\ ~completion.matching_videoout_event_seen /\ ~poll.busy
      /\ FirstToken \in Nat /\ DOMAIN equeue = {}
  BY LoopAssumption
     DEF Init, LoopInit, C!CompletionInit, C!NotBegun, C!NoPoll
<1>4. EventsFollow
  BY <1>3 DEF EventsFollow
<1>5. RunGoesOn
  BY DEF Init, LoopInit, RunGoesOn, Idle, At
<1>6. PlayerInv
  <2>1. pad \in [opened : {TRUE}, previous : {FALSE}, requested : {FALSE}]
    BY DEF Init, Healthy
  <2>2. /\ next_frame_index = 0 /\ main = "running"
        /\ FrameBound \in Nat /\ FrameBound >= 1
    BY PipelineAssumption DEF Init, LoopInit
  <2>3. ~pad.previous
    BY <2>1
  <2>4. next_frame_index < FrameBound /\ next_frame_index <= FrameBound
    BY <2>2
  <2> QED BY <2>1, <2>2, <2>3, <2>4 DEF PlayerInv
<1>7. TokensAreIndices
  BY LoopAssumption DEF Init, LoopInit, T!TrackerInit, TokensAreIndices, Idle, At
<1> QED BY <1>1, <1>2, <1>4, <1>5, <1>6, <1>7 DEF HInv, HealthInv

(* With healthy devices and tokens to spare the program never parks:        *)
(* whatever the interleaving of its polls with the GPU and VideoOut, none   *)
(* of the checks of ps5_frame_completion.c, of the runner or of main()      *)
(* fails.                                                                   *)
THEOREM HealthyNeverParks == ASSUME Healthy PROVE Spec => []NeverParks
<1>1. Init => HInv
  BY InitHealthy
<1>2. HInv /\ [Next]_vars => HInv'
  <2> SUFFICES ASSUME HInv, [Next]_vars PROVE HInv'
    OBVIOUS
  <2>1. PInv'
    BY RunnerInv, DevicesInv, WaitInv, MainInv DEF PInv, HInv
  <2>2. L!OrderInv'
    <3>1. L!IInv /\ L!OrderInv /\ PInv
      BY DEF HInv, PInv
    <3>2. [L!Next]_(L!loopVars)
      BY <3>1, RunnerStep
    <3> QED BY <3>1, <3>2, L!NextOrder, LoopAssumption
  <2> QED BY <2>1, <2>2, HealthStep DEF HInv
<1>3. HInv => NeverParks
  BY DEF HInv, HealthInv, RunGoesOn, NeverParks
<1> QED BY <1>1, <1>2, <1>3, PTL DEF Spec
=============================================================================
