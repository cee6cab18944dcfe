-------------------------- MODULE CompletionMemory --------------------------
(***************************************************************************)
(* The completion wait and the memory its frames live in: a program that    *)
(* opens a block, submits frames from it, and tries to close it whenever it *)
(* is not inside a poll, with the cleanup_allowed of the last completion as *)
(* its authority.  The CPU does one thing at a time; the devices go on      *)
(* between the platform calls.  The native program allocates by itself (see *)
(* NativeApp) and uses neither component; their tests call them like this.  *)
(***************************************************************************)
EXTENDS FrameCompletionClient, DirectMemory

VARIABLE kept   (* ghost: a close was refused or a give-back call failed    *)

memVars == <<vars, memoryVars, kept>>

MemInit == Init /\ MemoryInit /\ kept = FALSE

(* No frame that the program submitted is with a device.                    *)
DevicesIdle ==
  completion.transaction_submitted => fence = 0 /\ Expected \in flipped

Authority == completion.cleanup_allowed \/ ~completion.transaction_submitted

(* What the record of the block stands for; a stray mapping is not in it.   *)
Block == {"physical", "mapping"}

CpuPolls ==
  /\ op = "none"
  /\ (NextWait /\ memory.mapped) \/ StartPoll \/ TakeEvent \/ WaitTimesOut
  /\ UNCHANGED <<memoryVars, kept>>

OpenBlock ==
  /\ ~poll.busy /\ Authority /\ memory = Closed
  /\ Open
  /\ UNCHANGED <<vars, kept>>

CloseBlock ==
  /\ ~poll.busy
  /\ Close(Authority)
  /\ kept' = (kept \/ (Block \cap held # {} /\ ~Authority))
  /\ UNCHANGED vars

PlatformReturns(ok) ==
  /\ kept' = (kept \/ (~ok /\ op \in {"undo", "unmap", "release"}))
  /\ PlatformCall(ok)
  /\ UNCHANGED vars

MapsElsewhere == MapReturnsElsewhere /\ UNCHANGED <<vars, kept>>

DevicesStep ==
  /\ GpuFinishes \/ DeadlinePasses
       \/ \E e \in {Expected, 0, BadEvent} : Post(e)
  /\ UNCHANGED <<memoryVars, kept>>

MemNext ==
  \/ CpuPolls \/ OpenBlock \/ CloseBlock \/ DevicesStep
  \/ \E ok \in BOOLEAN : PlatformReturns(ok)
  \/ MapsElsewhere

MemSpec == MemInit /\ [][MemNext]_memVars
-----------------------------------------------------------------------------
(* Memory is given back only while both devices are done with every frame   *)
(* that was submitted from it, the mapping that its record knows before     *)
(* what it maps, and never after a close was refused or a give-back failed  *)
(* half way: what is doubtful stays, whatever is observed later             *)
(* (src/ps5_direct_memory.c:41 and 57, docs/BACKEND_PROVENANCE.md:26,       *)
(* "refusal to release resources without explicit GPU cleanup authority").  *)
(* A mapping made elsewhere is not in the record, and no frame was ever     *)
(* submitted through it; that it is not undone is UnmapBeforeRelease.       *)
MemoryOutlivesDevices ==
  [][held \ held' # {} =>
       /\ DevicesIdle /\ ~kept
       /\ "mapping" \in held' => "physical" \in held']_memVars

(* Physical memory is given back only once no mapping is left, wherever the *)
(* platform made it: "Owns reserve/allocate/map and ordered unmap/release"  *)
(* (docs/BACKEND_PROVENANCE.md:26).                                         *)
UnmapBeforeRelease ==
  [][held \ held' = {"physical"} => held' = {}]_memVars
=============================================================================
