---------------------------- MODULE DirectMemory ----------------------------
(***************************************************************************)
(* A block of GPU memory, src/ps5_direct_memory.c: open reserves, allocates *)
(* and maps it, close unmaps and releases it once the GPU allows.  `op` is  *)
(* the platform call that the operation under way makes next; each call is  *)
(* an action, which succeeds or fails (an offset below zero counts as a     *)
(* failure, as in the code).  The map call has a third outcome: it succeeds *)
(* at another address than the one reserved.  The reserved address range,   *)
(* which neither operation gives back, is left out.                         *)
(* A definition named after another one with a suffix is a plausible bug.   *)
(***************************************************************************)

VARIABLES
  memory,   (* struct ps5_direct_memory                                     *)
  op,       (* the platform call to be made next                            *)
  held      (* what the kernel has given and not taken back: "physical",    *)
            (* "mapping" at memory->address, "stray" for one elsewhere      *)

memoryVars == <<memory, op, held>>

Closed == [allocated |-> FALSE, mapped |-> FALSE, retain |-> FALSE]

MemoryInit == memory = Closed /\ op = "none" /\ held = {}

(* ps5_direct_memory_open                                                   *)
Open == op = "none" /\ op' = "reserve" /\ memory' = Closed /\ UNCHANGED held

ReserveReturns(ok) ==
  /\ op = "reserve"
  /\ op' = IF ok THEN "allocate" ELSE "none"
  /\ UNCHANGED <<memory, held>>

AllocateReturns(ok) ==
  /\ op = "allocate"
  /\ IF ok THEN /\ memory' = [memory EXCEPT !.allocated = TRUE]
                /\ held' = held \cup {"physical"}
                /\ op' = "map"
           ELSE op' = "none" /\ UNCHANGED <<memory, held>>

MapReturns(ok) ==
  /\ op = "map"
  /\ IF ok THEN /\ memory' = [memory EXCEPT !.mapped = TRUE]
                /\ held' = held \cup {"mapping"}
                /\ op' = "none"
           ELSE op' = "undo" /\ UNCHANGED <<memory, held>>

(* The call returns 0 and maps the block, but not at memory->address: it is *)
(* handled like a failure, and nothing remembers where the block is mapped. *)
MapReturnsElsewhere ==
  /\ op = "map" /\ op' = "undo"
  /\ held' = held \cup {"stray"}
  /\ UNCHANGED memory

(* The release after a map that failed or went elsewhere.                   *)
UndoReturnsUnretained(ok) ==
  /\ op = "undo" /\ op' = "none"
  /\ IF ok THEN /\ memory' = [memory EXCEPT !.allocated = FALSE]
                /\ held' = held \ {"physical"}
           ELSE UNCHANGED <<memory, held>>

UndoReturns(ok) ==
  /\ op = "undo" /\ op' = "none"
  /\ IF ok THEN /\ memory' = [memory EXCEPT !.allocated = FALSE]
                /\ held' = held \ {"physical"}
           ELSE memory' = [memory EXCEPT !.retain = TRUE] /\ UNCHANGED held

(* ps5_direct_memory_close: refused for good if the GPU may own the block.  *)
Refused(gpu_cleanup_allowed) ==
  \/ memory.retain
  \/ (memory.mapped \/ memory.allocated) /\ ~gpu_cleanup_allowed

Close(gpu_cleanup_allowed) ==
  /\ op = "none"
  /\ IF Refused(gpu_cleanup_allowed)
       THEN memory' = [memory EXCEPT !.retain = TRUE] /\ UNCHANGED op
       ELSE /\ op' = IF memory.mapped THEN "unmap"
                     ELSE IF memory.allocated THEN "release" ELSE "none"
            /\ UNCHANGED memory
  /\ UNCHANGED held

UnmapReturns(ok) ==
  /\ op = "unmap"
  /\ IF ok THEN /\ memory' = [memory EXCEPT !.mapped = FALSE]
                /\ held' = held \ {"mapping"}
                /\ op' = IF memory.allocated THEN "release" ELSE "none"
           ELSE /\ memory' = [memory EXCEPT !.retain = TRUE]
                /\ op' = "none" /\ UNCHANGED held

ReleaseReturns(ok) ==
  /\ op = "release" /\ op' = "none"
  /\ IF ok THEN /\ memory' = [memory EXCEPT !.allocated = FALSE]
                /\ held' = held \ {"physical"}
           ELSE memory' = [memory EXCEPT !.retain = TRUE] /\ UNCHANGED held

(* The platform calls, (external) free to fail.                             *)
PlatformCall(ok) ==
  \/ ReserveReturns(ok) \/ AllocateReturns(ok) \/ MapReturns(ok)
  \/ UndoReturns(ok) \/ UnmapReturns(ok) \/ ReleaseReturns(ok)
=============================================================================
