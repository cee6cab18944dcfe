--------------------------- MODULE CommandStream ---------------------------
(***************************************************************************)
(* How one frame becomes a command stream and reaches the driver: the       *)
(* checked packet writers (src/ps5_agc_writer.c), the frame's packets       *)
(* (native/main.c frame_compose, src/gears_renderer.c), the flip and the    *)
(* release behind them (src/ps5_present.c, src/ps5_submission.c) and the    *)
(* flush and submission (src/ps5_agc_submit.c).                             *)
(*                                                                          *)
(* Memory is counted in dwords.  A command slot holds the packets committed *)
(* to it, each with its place; what a failed builder scribbled behind the   *)
(* cursor is left out, for the run ends there.  A definition named after    *)
(* another one with a suffix is a plausible bug in it.                      *)
(***************************************************************************)
EXTENDS Integers, Sequences, FiniteSets

CONSTANTS
  Slots,          (* the command slots, {0, 1}                              *)
  SlotDwords,     (* COMMAND_SLOT_BYTES / 4                                 *)
  SlotAt,         (* [Slots -> Nat] addresses of the slots                  *)
  FenceAt,        (* [Slots -> Nat] addresses of the two-dword fences       *)
  MappingAt, MappingDwords,   (* the mapping the GPU sees                   *)
  MaxAddress,     (* UINTPTR_MAX                                            *)
  ShDwords, DrawDwords,       (* 27 and 3, the sizes both callers insist on *)
  FillRoom,       (* 16, the capacity fill_depth asks for                   *)
  FlipRoom,       (* PS5_PRESENT_SET_FLIP_MAX_DWORDS                        *)
  ReleaseDwords,  (* PS5_PRESENT_RELEASE_DWORDS                             *)
  Advances,       (* bound: how far a packet builder of AGC may advance ... *)
  Leaves,         (* ... or how much room it may leave behind it            *)
  FrameBound      (* bound: frames composed                                 *)

ASSUME StreamAssumption ==
  /\ {SlotDwords, FillRoom, FlipRoom, MappingAt, MappingDwords, MaxAddress,
      FrameBound} \subseteq Nat
  /\ {ShDwords, DrawDwords, ReleaseDwords} \subseteq Nat \ {0}
  /\ SlotAt \in [Slots -> Nat] /\ FenceAt \in [Slots -> Nat]
  /\ Advances \subseteq Nat /\ Leaves \subseteq Nat

VARIABLES
  pc,         (* where the CPU stands in compose and submit                 *)
  slot,       (* the slot of the frame under way                            *)
  step,       (* the packet of FramePlan it writes next                     *)
  cursor,     (* the cursor of that slot's stream, from the slot's start    *)
  saved,      (* native_renderer.cursor, NoCursor until a frame is composed *)
  frame,      (* the token of the latest frame                              *)
  submitted,  (* ps5_submission_state                                       *)
  busy,       (* the runner has not retired this slot's frame               *)
  memory,     (* the packets in each slot as the CPU wrote them             *)
  visible,    (* the packets of each slot as of its last cache flush        *)
  fence,      (* the fence words                                            *)
  queue,      (* the DCBs the driver holds, [slot, token, dwords]           *)
  flips       (* the tokens VideoOut may have heard of                      *)

cpuVars    == <<pc, slot, step, cursor, saved, frame, submitted, busy>>
deviceVars == <<queue, flips>>
vars       == <<cpuVars, memory, visible, fence, deviceVars>>

NoCursor == -1

Submissions == [transaction_started : BOOLEAN, submit_called : BOOLEAN,
                retain_all_resources : BOOLEAN]

NotSubmitted == [transaction_started |-> FALSE, submit_called |-> FALSE,
                 retain_all_resources |-> FALSE]

Init ==
  /\ pc = "idle" /\ slot \in Slots /\ step = 1 /\ cursor = 0 /\ frame = 0
  /\ saved = [b \in Slots |-> NoCursor]
  /\ submitted = NotSubmitted
  /\ busy = [b \in Slots |-> FALSE]
  /\ memory = [b \in Slots |-> {}] /\ visible = memory
  /\ fence = [b \in Slots |-> 0]
  /\ queue = <<>> /\ flips = {}

-----------------------------------------------------------------------------
(* The checked writers.                                                     *)

(* The sizes of the packets: the least advance that is a success.           *)
Least(kind) ==
  CASE kind = "sh_direct" -> ShDwords [] kind = "draw_auto" -> DrawDwords
    [] OTHER -> 1

(* A builder of AGC (external) is handed a writer over the remaining        *)
(* capacity and answers with an advance; "size" is what the driver asks for *)
(* a wait-rendering packet.  "intact" stands for what the writer that calls *)
(* it looks at besides the advance, finish_writer at the other fields of    *)
(* the writer, some callers at the builder's result; one that looks at      *)
(* fewer of them takes more answers for intact.                             *)
Answer(capacity, kind) ==
  LET lengths == {Least(kind)} \cup Advances
                          \cup {capacity - l : l \in {k \in Leaves : k <= capacity}}
                          \cup {capacity + 1}
  IN  [up : lengths, intact : BOOLEAN, size : lengths]

BeginWriter(capacity) == capacity # 0

FinishWriter(capacity, a, least, most) ==
  /\ a.intact /\ a.up <= capacity
  /\ least <= a.up /\ a.up <= most

WriteFlip(capacity, a) ==
  BeginWriter(capacity) /\ FinishWriter(capacity, a, 1, capacity)

WriteDrawAuto(capacity, a) ==
  /\ DrawDwords <= capacity /\ BeginWriter(capacity)
  /\ FinishWriter(capacity, a, DrawDwords, DrawDwords)

WriteShDirect(capacity, a) ==
  /\ ShDwords <= capacity /\ BeginWriter(capacity)
  /\ FinishWriter(capacity, a, ShDwords, ShDwords)

WriteIndirect(capacity, a) ==
  BeginWriter(capacity) /\ FinishWriter(capacity, a, 1, capacity)

WriteFillDepth(capacity, a) ==
  /\ FillRoom <= capacity /\ BeginWriter(capacity)
  /\ FinishWriter(capacity, a, 1, capacity)

WriteWaitRenderingUnbounded(capacity, a) ==
  /\ a.size # 0
  /\ a.intact /\ a.up = a.size

WriteWaitRendering(capacity, a) ==
  /\ a.size # 0 /\ a.size <= capacity
  /\ a.intact /\ a.up = a.size

(* Which writer, over which AGC builder, each packet of a frame goes to.    *)
Write(kind, capacity, a) ==
  CASE kind = "wait_rendering" -> WriteWaitRendering(capacity, a)
    [] kind = "fill_depth"     -> WriteFillDepth(capacity, a)
    [] kind = "sh_direct"      -> WriteShDirect(capacity, a)
    [] kind = "draw_auto"      -> WriteDrawAuto(capacity, a)
    [] OTHER                   -> WriteIndirect(capacity, a)

(* The packets of a frame.                                                  *)
ClearPackets == <<"sh_direct", "draw_auto">>

GearPackets == ClearPackets \o ClearPackets \o ClearPackets

RendererPackets == ClearPackets \o GearPackets

FramePlan ==
  <<"wait_rendering", "fill_depth", "depth_registers", "cx", "uc", "sh">>
    \o RendererPackets

Packet(kind, at, dwords) ==
  [kind |-> kind, at |-> at, dwords |-> dwords, token |-> frame]

(* One more packet in slot b, at the cursor.                                *)
Commit(b, kind, dwords) ==
  memory' = [memory EXCEPT ![b] =
    {p \in @ : p.at < cursor} \cup {Packet(kind, cursor, dwords)}]

Room == SlotDwords - cursor

Stop ==
  /\ pc' = "stopped"
  /\ UNCHANGED <<cursor, memory>>

-----------------------------------------------------------------------------
(* frame_compose.  The runner calls it for a slot it has retired.           *)
ComposeCall(b) ==
  /\ pc = "idle" /\ ~busy[b] /\ frame < FrameBound
  /\ pc' = "composing" /\ slot' = b /\ step' = 1 /\ frame' = frame + 1
  /\ cursor' = 0 /\ memory' = [memory EXCEPT ![b] = {}]
  /\ busy' = [busy EXCEPT ![b] = TRUE]
  /\ UNCHANGED <<saved, submitted, visible, fence, deviceVars>>

ComposePacket ==
  /\ pc = "composing"
  /\ \E a \in Answer(Room, FramePlan[step]) :
       /\ Write(FramePlan[step], Room, a)
       /\ Commit(slot, FramePlan[step], a.up)
       /\ cursor' = cursor + a.up
  /\ step' = step + 1
  /\ IF step = Len(FramePlan)
       THEN pc' = "composed" /\ saved' = [saved EXCEPT ![slot] = cursor']
       ELSE UNCHANGED <<pc, saved>>
  /\ UNCHANGED <<slot, frame, submitted, busy, visible, fence, deviceVars>>

ComposeFails ==
  /\ pc = "composing"
  /\ \E a \in Answer(Room, FramePlan[step]) : ~Write(FramePlan[step], Room, a)
  /\ Stop
  /\ UNCHANGED <<slot, step, saved, frame, submitted, busy, visible, fence,
                 deviceVars>>

-----------------------------------------------------------------------------
(* frame_submit, ps5_submission_build_and_submit and below.                 *)
FenceOverlapsSlot(b) ==
  FenceAt[b] < SlotAt[b] + SlotDwords /\ FenceAt[b] + 2 > SlotAt[b]

SubmitCall ==
  /\ pc = "composed"
  /\ submitted' = NotSubmitted
  /\ IF saved[slot] = NoCursor \/ FenceOverlapsSlot(slot)
       THEN Stop /\ UNCHANGED fence
       ELSE /\ pc' = "presenting" /\ cursor' = saved[slot]
            /\ fence' = [fence EXCEPT ![slot] = 1]
            /\ UNCHANGED memory
  /\ UNCHANGED <<slot, step, saved, frame, busy, visible, deviceVars>>

PresentHasNoRoom ==
  /\ pc = "presenting" /\ Room < FlipRoom + ReleaseDwords
  /\ Stop
  /\ UNCHANGED <<slot, step, saved, frame, submitted, busy, visible, fence,
                 deviceVars>>

(* From here on VideoOut may know of the frame, whatever the builder says.  *)
SetFlipRetainingWhenBuilt ==
  /\ pc = "presenting" /\ Room >= FlipRoom + ReleaseDwords
  /\ flips' = flips \cup {frame}
  /\ \E a \in Answer(FlipRoom, "set_flip") :
       IF WriteFlip(FlipRoom, a)
         THEN /\ Commit(slot, "set_flip", a.up)
              /\ cursor' = cursor + a.up
              /\ pc' = "releasing"
              /\ submitted' = [submitted EXCEPT !.transaction_started = TRUE,
                                                !.retain_all_resources = TRUE]
         ELSE Stop /\ UNCHANGED submitted
  /\ UNCHANGED <<slot, step, saved, frame, busy, visible, fence, queue>>

SetFlip ==
  /\ pc = "presenting" /\ Room >= FlipRoom + ReleaseDwords
  /\ submitted' = [submitted EXCEPT !.transaction_started = TRUE,
                                    !.retain_all_resources = TRUE]
  /\ flips' = flips \cup {frame}
  /\ \E a \in Answer(FlipRoom, "set_flip") :
       IF WriteFlip(FlipRoom, a)
         THEN /\ Commit(slot, "set_flip", a.up)
              /\ cursor' = cursor + a.up
              /\ pc' = "releasing"
         ELSE Stop
  /\ UNCHANGED <<slot, step, saved, frame, busy, visible, fence, queue>>

(* The release behind the flip, after a second look at the cursor.          *)
AppendRelease ==
  /\ pc = "releasing"
  /\ IF cursor > saved[slot] + FlipRoom \/ Room < ReleaseDwords
       THEN Stop /\ UNCHANGED submitted
       ELSE /\ Commit(slot, "release", ReleaseDwords)
            /\ cursor' = cursor + ReleaseDwords
            /\ submitted' = [submitted EXCEPT !.submit_called = TRUE,
                                              !.retain_all_resources = TRUE]
            /\ pc' = "flushing"
  /\ UNCHANGED <<slot, step, saved, frame, busy, visible, fence, deviceVars>>

(* ps5_gpu_span_visible, in the arithmetic of uintptr_t                     *)
Word(n) == n % (MaxAddress + 1)

SpanVisibleWrapping(at, dwords) ==
  /\ MappingDwords # 0 /\ dwords # 0
  /\ MappingAt <= at /\ Word(at + dwords) <= Word(MappingAt + MappingDwords)

SpanVisible(at, dwords) ==
  /\ MappingDwords # 0 /\ dwords # 0
  /\ MappingAt <= MaxAddress - MappingDwords /\ at <= MaxAddress - dwords
  /\ MappingAt <= at /\ Word(at + dwords) <= Word(MappingAt + MappingDwords)

(* ps5_agc_submit_checked: the flush covers exactly what is submitted.      *)
FlushComposedOnly ==
  /\ pc = "flushing"
  /\ IF SpanVisible(SlotAt[slot], cursor)
       THEN /\ pc' = "submitting"
            /\ visible' = [visible EXCEPT ![slot] =
                 {p \in memory[slot] : p.at < saved[slot]}]
            /\ UNCHANGED <<cursor, memory>>
       ELSE Stop /\ UNCHANGED visible
  /\ UNCHANGED <<slot, step, saved, frame, submitted, busy, fence, deviceVars>>

Flush ==
  /\ pc = "flushing"
  /\ IF SpanVisible(SlotAt[slot], cursor)
       THEN /\ pc' = "submitting"
            /\ visible' = [visible EXCEPT ![slot] =
                 {p \in memory[slot] : p.at < cursor}]
            /\ UNCHANGED <<cursor, memory>>
       ELSE Stop /\ UNCHANGED visible
  /\ UNCHANGED <<slot, step, saved, frame, submitted, busy, fence, deviceVars>>

DriverAccepts ==
  /\ pc = "submitting"
  /\ queue' = Append(queue, [slot |-> slot, token |-> frame, dwords |-> cursor])
  /\ pc' = "suspending"
  /\ UNCHANGED <<slot, step, cursor, saved, frame, submitted, busy, memory,
                 visible, fence, flips>>

(* The driver refuses the DCB, or the suspend point fails behind a DCB the  *)
(* driver has already taken: the caller sees the same error.                *)
SubmitFails ==
  /\ pc \in {"submitting", "suspending"}
  /\ Stop
  /\ UNCHANGED <<slot, step, saved, frame, submitted, busy, visible, fence,
                 deviceVars>>

SubmitReturnsRaisingFence ==
  /\ pc = "suspending"
  /\ pc' = "idle"
  /\ saved' = [saved EXCEPT ![slot] = cursor]
  /\ fence' = [fence EXCEPT ![slot] = 1]
  /\ UNCHANGED <<slot, step, cursor, frame, submitted, busy, memory, visible,
                 deviceVars>>

SubmitReturns ==
  /\ pc = "suspending"
  /\ pc' = "idle"
  /\ saved' = [saved EXCEPT ![slot] = cursor]
  /\ UNCHANGED <<slot, step, cursor, frame, submitted, busy, memory, visible,
                 fence, deviceVars>>

(* The runner retires a frame no earlier than its fence reads zero.         *)
Retire(b) ==
  /\ pc = "idle" /\ busy[b] /\ fence[b] = 0
  /\ busy' = [busy EXCEPT ![b] = FALSE]
  /\ UNCHANGED <<pc, slot, step, cursor, saved, frame, submitted, memory,
                 visible, fence, deviceVars>>

(* The GPU (external) executes the oldest DCB from the memory it sees; the  *)
(* release, if the DCB reaches it, clears the fence.                        *)
GpuExecutes ==
  /\ queue # <<>>
  /\ LET dcb == Head(queue)
     IN  fence' = [fence EXCEPT ![dcb.slot] =
           IF \E p \in visible[dcb.slot] : /\ p.kind = "release"
                                          /\ p.at < dcb.dwords
             THEN 0 ELSE @]
  /\ queue' = Tail(queue)
  /\ UNCHANGED <<cpuVars, memory, visible, flips>>

Next ==
  \/ \E b \in Slots : ComposeCall(b) \/ Retire(b)
  \/ ComposePacket \/ ComposeFails
  \/ SubmitCall \/ PresentHasNoRoom \/ SetFlip \/ AppendRelease
  \/ Flush \/ DriverAccepts \/ SubmitFails \/ SubmitReturns
  \/ GpuExecutes

Spec == Init /\ [][Next]_vars
-----------------------------------------------------------------------------
(* The state space, for every module that uses this one: the places of      *)
(* compose and submit, and cursors that stay inside their slot.             *)
Places == {"idle", "composing", "composed", "presenting", "releasing",
           "flushing", "submitting", "suspending", "stopped"}

TypeOK ==
  /\ pc \in Places /\ slot \in Slots
  /\ step \in 1 .. Len(FramePlan) + 1
  /\ cursor \in 0 .. SlotDwords
  /\ saved \in [Slots -> {NoCursor} \cup 0 .. SlotDwords]
  /\ frame \in Nat /\ submitted \in Submissions
  /\ busy \in [Slots -> BOOLEAN] /\ fence \in [Slots -> {0, 1}]

(* Packets that follow each other without a gap, are all of one frame, and  *)
(* end where the DCB ends: everything frame_compose and ps5_present write,  *)
(* in their order.                                                          *)
Whole(stream, dcb) ==
  LET plan == FramePlan \o <<"set_flip", "release">>
      place(p) == Cardinality({q \in stream : q.at < p.at}) + 1
      end(p) == p.at + p.dwords
  IN  /\ Cardinality(stream) = Len(plan)
      /\ \A p \in stream :
           /\ p.kind = plan[place(p)] /\ p.token = dcb.token
           /\ p.at = 0 \/ \E q \in stream : end(q) = p.at
           /\ IF place(p) = Len(plan) THEN end(p) = dcb.dwords
                                     ELSE end(p) < dcb.dwords

(* What the driver holds is one whole frame, in memory and behind the cache *)
(* (lines may be written back early, so the GPU may see either): no stale   *)
(* cursor, half packet, missed flush or rewrite of a slot in flight, also   *)
(* after a later frame has failed (native/main.c frame_compose and          *)
(* frame_submit, src/ps5_agc_submit.c).                                     *)
StreamsAreWhole ==
  \A i \in DOMAIN queue :
    LET dcb == queue[i]
    IN  Whole(memory[dcb.slot], dcb) /\ Whole(visible[dcb.slot], dcb)

(* Whatever the builders of AGC answer, the program commits no packet that  *)
(* reaches past its slot, where the fences and the other slot begin         *)
(* (finish_writer, the headroom check of src/ps5_present.c).                *)
NothingPastTheSlot ==
  \A b \in Slots : \A p \in memory[b] : p.at + p.dwords <= SlotDwords

(* The driver never holds a DCB that reaches out of the mapping the GPU     *)
(* sees, also where the end of a slot is past the end of the address space  *)
(* and its address wraps to a small one (src/ps5_gpu_span.c:10).            *)
SubmittedSpanIsMapped ==
  \A i \in DOMAIN queue :
    LET at == SlotAt[queue[i].slot]
    IN  /\ MappingAt <= at
        /\ at + queue[i].dwords <= MappingAt + MappingDwords

(* A fence is up while the driver holds the slot's DCB and down once the    *)
(* GPU has executed it, even if that is before the submit call returns: it  *)
(* is neither lowered for an old frame nor raised over an answer            *)
(* (src/ps5_submission.c raises it before anything else).                   *)
FenceTellsTruth ==
  \A b \in Slots :
    LET held == \E i \in DOMAIN queue : queue[i].slot = b
    IN  /\ held => fence[b] = 1
        /\ /\ busy[b] /\ ~held
           /\ pc \in {"idle", "suspending"} \/ slot # b
           => fence[b] = 0

(* A run that stops on a frame VideoOut or the driver may already own says  *)
(* so: ps5_submission reports retain_all_resources on every such error, a   *)
(* builder's or the suspend point's (docs/ARCHITECTURE.md:105).             *)
RetainsWhatDevicesMayOwn ==
  /\ pc = "stopped"
  /\ frame \in flips \/ \E i \in DOMAIN queue : queue[i].token = frame
  => submitted.retain_all_resources
=============================================================================
