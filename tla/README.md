# TLA+ models of ps5-agc-gears

The repository is a native application that animates three gears on a PS5.
Two frames may be in flight at a time, between a CPU that composes commands, a
GPU that executes them and a VideoOut unit that flips framebuffers. Almost all
that is hard in it is *ownership*: who may touch a command slot, a fence word,
a framebuffer or a block of memory, and what the program may conclude from a
fence, an event, an error code or a timeout. These modules model that part,
TLC checks it on small instances, and TLAPS proves the core of it for all
parameter values. Paths below are relative to the repository root.

## 1. The system

| Component | State | Operations | Interacts with |
|---|---|---|---|
| Ownership tracker, `src/gears_frame_tracker.c` | two slots (phase, token, two completion flags), next token | init, can_reuse, begin, cancel, mark submitted / GPU complete / VideoOut complete | animation and frame runner call it |
| Frame runner, `src/gears_frame_runner.c` | pending frame per slot, number in flight, result, telemetry | init, step, drain, result | calls compose, submit, wait_gpu, wait_videoout, telemetry of its user |
| Animation, `src/gears_animation.c` | next frame index, the tracker | init, prepare | tracker, scene |
| Completion, `src/ps5_frame_completion.c` and `src/ps5_event_adapter.c` | expected flip token, seen fence / event, parked, cleanup_allowed | begin, observe, poll | fence word, VideoOut event queue |
| Submission, `src/ps5_submission.c`, `ps5_present.c`, `ps5_agc_submit.c` | result record, stream cursor | build and submit | fence word, command slot, driver |
| Main program, `native/main.c` | resources and their flags, renderer | acquire, main loop, callbacks, drain, cleanup, park | everything |
| VideoOut chain, `src/ps5_videoout.c` | handle, equeue, event and registration flags | open, close | platform |
| Log client, `native/ps5log/ps5log.h` | configuration, socket, sequence, counters, stdio capture | load_config, init, line, raw, capture, release, reconnect, close | network shim, stdio |
| Network shim, `native/ps5log/ps5log_ps5_net.c` | the epoll object of a poll | socket, connect, send, fcntl, poll, ... | log client calls it, it calls sceNet |
| Telemetry sums, `src/gears_telemetry.c` | counters, totals, maxima | record, snapshot, should_sample | runner |
| Exit control, `src/gears_exit.c` | previous buttons, requested | init, update | Pad, main loop |
| Direct memory, `src/ps5_direct_memory.c` | address, offset, allocated / mapped / retain | open, close | platform; only the tests use it |
| Command writer, renderer, `src/ps5_agc_writer.c`, `ps5_gpu_span.c`, `gears_renderer.c`, `gears_draw_compose.c`, `gears_rt_clear.c` | cursor in a bounded command slot | one emit per packet | frame_compose |
| Pure data: surface plan, mesh, scene, colour, depth, pipeline, shader header | none | build | main program |

The CPU is one thread. What makes the program concurrent is the devices: the
GPU reads command slots and lowers fences, VideoOut flips and posts events,
both whenever they like. What makes it fragile is failure: any callback,
platform call or send may fail, a submit may fail after the driver took the
commands, a device may hang.

### What each component must get right

* Tracker: a buffer is reused only when both devices have finished with *its*
  token; tokens are never issued twice, also at their limit,
  0x00007fffffffffff.
* Runner: it never forgets a frame the devices may own, on any failure path;
  frames retire in order; COMPLETE means drained; a retained token is live.
* Completion: resources are given up only for a frame both devices are done
  with, in spite of stale fence reads and foreign events; parking is final.
* Pipeline: no command slot is overwritten while it is being executed, no
  on-screen buffer is drawn to, no memory is unmapped under a device; with
  healthy devices it never parks; Options always leads to an end.
* Exit control: only a press of Options that began while the program had the
  pad ends it.
* Telemetry: what is reported is the history of the completed frames, computed
  without overflow; a frame that is refused leaves no trace; a failed run
  counts one error.
* Direct memory: nothing is given back under a device, after any doubt about
  it, or while it is mapped; the last of these fails for a mapping that the
  platform made at another address.
* Command stream: what the driver gets is one whole frame, flushed and ended by
  flip and release; nothing is written past a slot; the fence of a frame is
  raised before and never after the driver has it; what is submitted lies
  inside the mapping, also where addresses end; an error behind the point of no
  return retains everything.
* Main program: the flags say what is held, teardown respects what stands on
  what, a clean exit gives everything back.
* Log client: every record is sent or counted, a connection has no gap, stdio
  never stays on a lost connection, a failed call leaves no socket or epoll
  object open, and no line of the client follows a line that was cut short.

`PROJECT.json` lists the hazards behind these, each with its source line.

## 2. The modules

| Module | Role |
|---|---|
| `FrameTracker` | The tracker's state and operations |
| `BufferOwnership` | Abstract: nobody / CPU / devices, under fresh tokens |
| `FrameTrackerClient` | The tracker under any caller, with its properties |
| `FrameTrackerProofs` | Proofs about `FrameTrackerClient` |
| `FrameLoop` | Runner, animation and tracker, cut at the callbacks |
| `FramesInFlight` | Abstract: a gap-free window of at most two frames, retired in order, frozen by a failure |
| `FrameLoopClient` | The runner under any caller and any callbacks, with its properties |
| `Telemetry` | The accumulators, as operators on their record |
| `FrameLoopTelemetry` | `FrameLoopClient` with the accumulators in place of a free choice, with the property of the reports |
| `FrameLoopTelemetryMC` | Its frame times for TLC |
| `FrameLoopProofs` | Proofs about `FrameLoopClient` |
| `TelemetryProofs` | Proofs about `FrameLoopTelemetry` |
| `FrameCompletion` | One completion wait: completion and event poll |
| `FrameCompletionClient` | That wait with a GPU, a VideoOut and a clock |
| `DirectMemory` | A block of GPU memory, opened and closed call by call |
| `CompletionMemory` | The wait and the block together: the completion's verdict is the authority to close |
| `CompletionProofs` | Proofs about `CompletionMemory` |
| `CommandStream` | Composition and submission of frames, packet by packet, with its properties |
| `CommandStreamMC` | Its layout for TLC |
| `CommandStreamProofs` | Proofs about `CommandStream` |
| `GearsPipeline` | Main loop with exit control + `FrameLoop` + `FrameCompletion` + the devices |
| `PipelineProofs` | Proofs about `GearsPipeline`, with the runner's invariant taken from `FrameLoopProofs` |
| `NativeApp` | Acquisition, leaving, cleanup, VideoOut open and close |
| `NativeAppProofs` | Proofs about `NativeApp` |
| `Ps5Log` | The log client, one action per call |
| `LogChannel` | The log client and the network shim, one action per network call; implements `Ps5Log` |
| `LogProofs` | Proofs about `LogChannel`, that it implements `Ps5Log` included |

`GearsPipeline` composes: it EXTENDS `FrameLoop` and instantiates
`FrameCompletion` inside the wait_videoout callback, and adds the driver queue,
the command slots, the fences, the flip queue and the event queue.
`FrameTracker` is instantiated inside `FrameLoop`. Three abstract
specifications are implemented: `BufferOwnership` (by the tracker, and again by
the pipeline with ownership read off the devices), `FramesInFlight` (by the
runner) and `Ps5Log` (by `LogChannel`).

### How code and model correspond

* *Tracker.* `slots` and `next_token` are the struct. A call that the code
  rejects returns -1 and changes nothing, which is a step of the client that
  leaves the tracker unchanged, or none.
* *Runner.* `gears_frame_loop_step` and `_drain` are cut where they call out,
  because that is where devices act. `call` says where the running call
  stands (`op`, `at`, `slot`), `rc` what the last one returned. A callback's
  return value is a parameter of the action that follows it: in
  `FrameLoopClient` it is arbitrary, in `GearsPipeline` it is computed from
  fences and events. `samples` is the sequence of telemetry callbacks.
  `MaxToken` stands for the limit of a token, 0x00007fffffffffff; the period 60 of the
  samples is `SamplePeriod`. Frame contents are left out. In
  `FrameLoopClient` and `GearsPipeline` it is a free choice whether the
  telemetry takes a frame.
* *Telemetry.* `FrameLoopTelemetry` takes every step of `FrameLoopClient` and
  decides that choice with the accumulators, in words of 0 .. `MaxWord`; every
  behaviour of it is one of `FrameLoopClient` (`TelemetryIsAClient`), so what is
  checked here holds there as far as the telemetry allows it, and the theorems
  about that module hold here (`TelemetryKeepsPromises`). The
  times of a frame are chosen when it is retired, which is where the code reads
  them; the first frame has no interval. The average over the whole run, which
  `drain` computes from two clock readings, is left out.
* *Completion.* A poll samples the fence, blocks on the event queue, and then
  judges both, so it is two actions, and the devices run between them.
* *Direct memory.* `op` is the platform call to be made next, `memory` the
  struct, `held` what the kernel has given. A map has three outcomes: it fails,
  it maps the block where it was asked to, or somewhere else; the code treats
  the last like the first, and in `held` a "stray" mapping then stays behind,
  which the struct knows nothing of. Only the tests use the component;
  as there, a caller of close passes the completion's `cleanup_allowed`, or yes
  if it submitted nothing. The reserved address range, which neither operation
  gives back, is left out.
* *Command stream.* `frame_compose` is one action per packet and `frame_submit`
  one per step that can fail or that a device can notice: raise the fence,
  SetFlip, release, flush, driver, suspend point. A cursor is a number of
  dwords from the start of its slot. Slots, fences and the mapping have
  addresses, and what is submitted is checked in the arithmetic of a
  `uintptr_t` of 0 .. `MaxAddress`. The memory of a slot is the set of packets
  committed to it, with their places and the frame they belong to; `visible`
  is the same as of the last cache flush, and the GPU reads that. An AGC
  builder (external) answers a call with any advance and any claim about the
  writer it was handed; the writer checks decide. What a builder that overruns
  its capacity does to the memory behind it is outside the model: the check
  comes after the write, in the code as well. `GearsPipeline` takes compose and
  submit as one step each, which is enough there because the devices only act
  on a slot once the driver has it.
* *Devices* (external, from the way the code uses them). The GPU executes
  accepted command buffers in order and reads each packet from the slot *when
  it gets there*, so a slot overwritten too early is really executed wrong.
  The packets are wait_rendering, draw, set_flip and release. VideoOut shows
  queued flips in order and posts an event with the token.
* *Main.* `main` is the program counter; `Faults` says which faults an
  environment can produce.
* *Exit control.* The pad is read once per frame. `press` remembers whether the
  press that the player holds began while the program could use the pad. An
  intercepted read still shows the buttons. A read that fails leaves the zeroed
  buffer, so a button held all the time looks released and then pressed again;
  `pipeline_faulty` has such reads, and `ExitIsAFreshPress` is checked where
  the pad answers.
* *NativeApp.* `held` is what the process really holds, `owned` what its flags
  say. Acquisitions are a sequence of entries, each with what it gets and
  which flags are set after it; every entry may fail.
* *Log client.* `target` says where stdout and stderr point, `wire` holds the
  lines handed to the network. In `Ps5Log`, `ps5log_init` includes the close of
  an open channel, and every failing call includes the disabling of the channel.
  In `LogChannel`, `call` is the call that is running and where it stands,
  `entry` what the client's variables were when it began; what a caller sees is
  the state between calls. A configuration is a sequence of files of up to two
  lines, of which the first that can be read decides, even if it is invalid. A
  send may take a line in parts, each of which uses up one send time-out. The
  options of a socket whose setting nobody checks are taken to be set.
  Captured output is not a protocol line and not on `wire`. Of it, the model
  has what waits in stdout's buffer (`buffered`), because the client flushes
  that at moments of its own: before it captures stdout and before it releases
  it. `ends` says what the present socket carries at its end: whole lines, a
  line cut short, captured text behind that, or a line of the client behind
  either. A flush may write everything, a part or nothing, and nobody looks.

A definition named after another one with a suffix (`Begin` and
`BeginSameToken`) is a plausible bug in it. It takes no part in the
specification; it is there so that each property can be seen to fail when the
code is wrong in that way (`mutants` in `PROJECT.json`).

## 3. The runs

| Run | Shows | States |
|---|---|---|
| `tracker` | Tokens are distinct, flags stand for reports about the present token, the tracker implements `BufferOwnership`, under stale, early and crossed reports | 4 056 |
| `frame_loop` | Runner and tracker agree at every callback, no frame is lost, every ending is sound, samples are in order and their numbers true, the runner implements `FramesInFlight`, a drain returns | 9 043 |
| `completion` | Release is earned, timeouts blame the device that is late, parked is final, memory outlives the devices and stays where there was a doubt | 10 812 |
| `pipeline_healthy` | With working devices no interleaving parks the program, only a fresh press of Options ends it, and every such press leads to a clean exit | 1 763 |
| `pipeline_faulty` | With every fault: commands intact, no tearing, a zero fence means done, nothing released while in use, frames shown in order, buffer ownership by what the *devices* did, Options leads to an end | 18 271 |
| `command_stream` | What the driver holds is one whole, flushed frame from inside the mapping; nothing is committed past a slot; fences tell the truth; errors retain what a device may own | 176 326 |
| `native_app` | Flags are true, held in order, clean exits, bounded leak of a failed start | 441 |
| `ps5log` | Records accounted for, gap-free connections, stdio never stale, nothing left open, no line of the client behind a cut one, and callers see what `Ps5Log` says | 1 154 160 |
| `native_app_leak` | *violated*: a failed mapping leaves memory allocated when AGC is unloaded | |
| `ps5log_dup` | *violated*: stdout stays on the socket when dup of stderr fails | |
| `log_blocking` | *violated*: a record waits once per part that it leaves in, not once | |
| `memory_order` | *violated*: physical memory is released under a mapping made at another address | |

The tracker's run also checks its type invariant, which says that the token
counter never passes its limit. The type invariants of the runner and of the
command stream are theorems.

### Bounds, and why they are enough

* Tokens: four in `tracker`, eight in `frame_loop`, six in `pipeline_faulty`.
  The loop's state depends on the two frames in flight and on the phase of the
  sampling period; two frames and one period later everything has occurred,
  the exhaustion of the tokens included, which the runs reach on purpose.
  `frame_loop` needs more tokens than twice `SamplePeriod` (3 for 60) so that a
  drain can end on, before and after a sample. Its words go up to `MaxWord` = 6:
  each of the five frame times in `FrameLoopTelemetryMC` fills a different sum
  first, and seven frames that take no time fill the counter, so that every
  check of a limit is the one that refuses a frame somewhere. `Budget` = 3 lies
  between two of the intervals. In `pipeline_healthy` the token
  range is out of reach, as it is for centuries in the program.
* `FrameBound` is the number of prepared frames by which Options is released
  and pressed again in front of the program; before that the player does what
  he likes.
  In `pipeline_healthy` it is 7, three more than it takes to reuse both slots
  and check the guards twice (`GuardPeriod` is 2 for 60). In
  `pipeline_faulty` the tokens run out before it: exhaustion, too, is covered.
* `Waits` is 3 and `QueueBound` 2 in `completion`: an event left by the
  previous wait, one of this wait, and a foreign one. The block may be opened
  and closed without bound.
* `command_stream`: three frames, so that a slot is used again. The slots have
  205 dwords for the code's 1024, seven more than the smallest frame with flip
  and release needs; packets of AGC take one dword, or leave exactly 0, 29 or
  192 behind them, or overrun, so that every capacity check is met from both
  sides and a frame can fill its slot to the last dword. The mapping ends five
  dwords before the second slot and the address space two, which the program's
  own layout never does, so that the span check meets a slot inside, one that
  sticks out and one whose end wraps.
* `ps5log`: three records, two connections, two inits: a record before, on and
  after a loss, and a reconnect or a new session after it. Three configuration
  files of up to two lines show that the first readable one decides and the
  last line of a key wins; two parts make a cut line (`log_blocking` has three,
  for a second wait). One unfinished line of output waits in stdout's buffer or
  none. The streams asked for are any nonempty set and dup does not fail.
  `ps5log_dup` has a dup that fails, and `StdioNeverStale` fails there; with
  `DupMayFail = FALSE` and `FlagSets = {{}, {"stdout"}}` the same configuration
  shows that it fails for a capture of no stream as well (section 5).
* `native_app` has no bound.

### Fairness

* `FrameLoopTelemetry` assumes that callbacks return (`WF(TelemetryInCall)`):
  each native callback ends by its deadline, which `pipeline_faulty` shows.
* `CpuFairSpec`: the one CPU thread keeps running, and the clock passes a
  deadline that is waited for. Nothing is assumed of the devices;
  `OptionsLeadsToAnEnd` holds even when they hang.
* `FairSpec` adds that GPU and VideoOut keep working; only
  `OptionsLeadsToExit` needs it. Vertical blanks recur, and the GPU executes
  what it was given.

`CHECK_DEADLOCK FALSE` is set where the system really stops: a parked or
exited process (pipelines, `native_app`), a run of the command stream that
failed or made its last frame, and a parked wait (`completion`).
The log client can always be called; the tracker and the runner never deadlock
in their clients, and TLC checks it.

## 4. What is proved

With TLAPS, for every value of the constants that the ASSUMEs allow. Every
safety property, action property and refinement that a passing run checks is a
theorem; the argument of each part follows.

*Tracker* (`FrameTrackerProofs`). TypeOK, TokensDistinct and FlagsAreReports
are together inductive: distinctness needs the tokens in slots to be issued,
and a flag stays honest because a reused slot is written anew. From the
invariant, every step maps to a step of `BufferOwnership` or to a stutter: an
acquisition is legal because `can_reuse` requires both flags and each flag
stands for a report (`TrackerRefinesOwnership`).

*Runner* (`FrameLoopProofs`). SlotsAgree and the claims about endings are not
inductive on their own. The inductive invariant adds where the running call
stands and what that implies for its slot (`CallConsistent`), what the flags of
a slot may say (`SlotFlags`: only the slot being composed is prepared, and a
slot in flight has not been reported shown), and that indices, tokens and
counters add up (`Counts`). There is one lemma per action. From it follow
`LoopTypeCorrect`, `LoopSlotsAgree`, `LoopEndings` (`EndingsAreSound`: a
retained token is in flight; a failure before the submit has nothing in flight;
COMPLETE means drained) and `LoopFramesAccountedFor`. The code keeps no queue:
that the slot a step turns to holds the oldest frame follows from parity, since
slot b holds frames of parity b and those in flight follow the completed ones
without a gap (`FlightOrder`). From that, and from what the index of the last
completed frame says of the last sample (`SampleOrder`), come
`LoopSamplesInOrder` and the refinement of `FramesInFlight`
(`LoopRefinesFlight`).

*Telemetry* (`TelemetryProofs`). Each step of `FrameLoopTelemetry` is a step of
`FrameLoopClient`, so the theorems above hold of it. `RecordNeverWraps`: what
`record_frame` does not refuse wraps nowhere, for every word size.
`ReportsAreTrue`: the accumulators equal the counts, sums and maxima of the
whole history at every moment (`TInv`), and the report is their snapshot
because every failure is sampled. The sums of the property are folds over a
finite set. That such a fold has a value, and that the order does not matter,
is an induction; it is done here by hand, as a least counterexample among the
natural numbers (`LeastNat`), since the library's induction theorems cannot be
used.

*Completion and memory* (`CompletionProofs`), about `CompletionMemory`: nothing
in the wait's record, the observation a poll still holds included, claims more
than the devices have done (`SeenIsDone`); the block's record mirrors the
kernel's, stray mappings apart (`FlagsAreHeld`); a call that gives memory back is only under way with
the devices idle and no doubt left (`CallIsSafe`). `MemorySafe` speaks of devices, doubts and the mapping that the
record knows; that the order holds for every mapping is false (`memory_order`).
`ProgramIsAClient` shows
that `CompletionMemory` is one of the callers of `FrameCompletionClient`.

*Pipeline* (`PipelineProofs`), for every set of faults. The pipeline is first
shown to be a client of the runner (`PipelineIsAClient`); its invariant is the
runner's, by INSTANCE, and what ties the devices to it: an entry of the ring or
of the flip queue is a slot in flight with its own commands and its fence up
(`RingFollows`, `FlipsFollow`, `FencesTell`), and the tokens on screen, in the
flip queue, in the ring and with the CPU follow each other without a gap
(`TokensInOrder`). From it come CommandsIntact, NoTearing, ZeroFenceMeansDone,
ReleaseOnlyWhenIdle, ShownInOrder and the refinement of `BufferOwnership` with
what the *devices* are done with. `ExitOnAFreshPress` has the hypothesis of its
property, that the pad answers. `HealthyNeverParks` assumes what
`pipeline_healthy` sets: no faults, results of the event queue that are no
tokens, and tokens for `FrameBound` frames. There the last event taken is the
last frame retired (`EventsFollow`), so that no check of the completion path
can trip.

*Command stream* (`CommandStreamProofs`), for every size of slot and packet,
every layout and every answer of the builders: `CursorsInSlot`,
`PacketsInSlot` and `StoppedRunRetains`. The chain of the first two is
`AnswerType` (an advance is a number, possibly too large), `WriteFits` (what a
checked writer lets through fits) and `CommitFits`. The third needs to know
that no device has heard of a frame that is yet to come (`FutureUnknown`) and
what is retained at each place of the submission (`KnownIsRetained`). The
others follow the plan of a frame: what lies in a slot is its first n packets,
end to end (`Laid`, `Written`), what the driver holds is laid out in full and
in memory behind the cache (`HeldLaid`), in a slot of its own with the fence up
(`OneDcbPerSlot`, `SlotTaken`), and inside the mapping (`SpanMapped`). They give
`WholeStreams`, `MappedSpans` and `TruthfulFences`.

*Main program* (`NativeAppProofs`). While main acquires, what is held and what
is flagged are functions of its place in the sequence; every prefix is closed
under what stands on what, and leaves one block unflagged at most. While
cleanup runs, all before its place is gone (`Behind`), deferred buffers
excepted, for as long as VideoOut is open.

*Log client* (`LogProofs`). `ChannelAt` says what is open and what is cut at
each step of a call (the socket of a channel that is up carries whole lines
only, and a flush adds nothing to these that could be joined: `FlushedEnds`), `LastLine` what the last line on the wire and the sequence
number have to do with each other there, `Counted` which numbers are settled,
`StdioAt` when stdout and stderr are at home, and `EntryAt` what the running
call has made of the state it began in. The last one is the refinement:
`CallsAreWhole` maps every network call but the last of a call to a stutter and
the last to the action of `Ps5Log`. `StdioComesHome` assumes what makes it
true: dup works (the run `ps5log_dup` shows that it must), and no capture asks
for no stream (section 5). A configuration file has two lines at most, so its
fold is unrolled.

Assumptions are those on the constants: sizes, addresses and advances are
natural numbers; the fixed packet sizes are positive; `FirstToken` is a positive
natural number, `MaxToken` is not below it, `SamplePeriod` and `MaxWord` are
positive.

*Only model-checked*: the liveness properties, which are out of the prover's
reach: DrainReturns, OptionsLeadsToExit and OptionsLeadsToAnEnd. That the
findings of section 5 are violations is TLC's result as well.

## 5. What the code does and the documents do not say

Checked by a run that is violated:

* `allocate_direct` (`native/main.c:122`) loses physical memory whose mapping
  failed; AGC is then unloaded before it is released (`native_app_leak`).
* `ps5log_capture_stdio` leaves stdout on the socket for good when the second
  dup fails (`ps5log_dup`), because `ps5log_release_stdio` looks at
  `capture_active` and not at the saved descriptors. For the same reason a
  change of the capture to `PS5LOG_CAPTURE_NONE` releases nothing; section 3
  says how TLC shows that.
* `ps5log__send_all` (`ps5log.h:736`) waits one send time-out for every part of
  a line; the header promises one for the line (`log_blocking`). The flush of
  captured output in `ps5log__disable_channel` writes to the same blocking
  socket and may wait once more.
* `ps5_direct_memory_open` releases the physical memory of a block that was
  mapped at another address than asked for, and leaves that mapping
  (`src/ps5_direct_memory.c:39`); docs/BACKEND_PROVENANCE.md:26 says "ordered
  unmap/release" (`memory_order`).

Met while modelling; the models follow the code:

* `fail_pre_submit` makes main return (`native/main.c:485`); docs/RELEASING.md:20
  says that this is forbidden, and why. In `NativeApp` it is `AcquireFails`,
  which ends with `ending` = "return" when any acquisition fails.
* docs/TELEMETRY.md:40 says that a program whose telemetry becomes incomplete
  after a submit parks and retains its resources. Only a refused sample does
  that. If the log channel is lost the program goes on, to a clean exit:
  `frame_telemetry` discards the result of `ps5log_printf`
  (`native/main.c:305`), and main never looks at the channel or at its counters.
  `GearsPipeline` therefore has no log, and no property says anything of it.
* `native/main.c:755` drains after Options (`MainDrain` in `GearsPipeline`);
  docs/ARCHITECTURE.md:89 says that production never does.
* A failed `scePadReadState` (`native/main.c:383`) is taken for a pad with no
  button down, so that Options held through it counts as a fresh press after.
* `ps5_direct_memory_open` keeps the reserved address range when a later call
  fails.
* After a line that was cut short, captured output still in stdout's buffer is
  flushed to the same connection before it is closed (`ps5log.h:561`, from
  614), so that the server sees it joined to the cut line. `LogChannel` has it
  (`ends` = "text"); what `NoLineJoinsACutOne` excludes is a line of the client
  there. Likewise an unfinished line of captured output is joined with what the
  client sends next, BYE included, which `ps5log_close` sends right after the
  flush; the model does not tell that apart.
* What a reconnect captures again is said in two ways: "if it was active"
  (`ps5log.h:177`) and "requested flags, re-applied on reconnect"
  (`ps5log.h:284`). The code does the latter. Likewise "nothing changed"
  (`ps5log.h:145`) while the channel is down: the requested flags do change,
  at 603.
* The result of setting a socket back to blocking (`ps5log.h:720`) and that of
  `SO_SNDTIMEO` (727) are not looked at; if either fails the time-outs of the
  header do not hold.
* An interrupted wait for the connection is reported as timed out.
* An invalid configuration file makes main skip `ps5log_init` (`native/main.c:498`),
  where `ps5log_init_default` initialises a disabled client.
* Fragments given to `ps5log_raw` without a newline are joined with the record
  that follows, which the header leaves to the caller.

## 6. What is not modelled

* Register words, shaders, mesh and scene geometry and the surface plan: pure
  data and fixed arithmetic with no state of their own; floating point is out
  of TLC's reach.
* Wall-clock durations. A deadline is an event that may happen, and a wait is
  counted, not measured.
* The text of log lines, their levels and the mirror file, which the program
  never sets.
* What the network does to a line once the socket took it; the server.
* Platform declarations and link stubs, build tools, tests, packaging.

## 7. Plan

Done, in this order: tracker, runner, completion, pipeline, application
life cycle, log client, command stream; proofs of tracker, runner and command
stream; exit control, telemetry, direct memory, the span check, and the log
client down to its network calls; proofs of everything that the runs check
except liveness.

Next, most important first:

1. `GearsPipeline`'s Compose and Submit shown to be what `CommandStream`
   implements, step by step.
2. That a reconnect captures again what was captured when the connection was
   lost (a hazard that no property covers).
3. The memory layout of the surfaces and of the arena (disjoint blocks, for
   every resolution) as a theorem.
