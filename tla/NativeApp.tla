----------------------------- MODULE NativeApp -----------------------------
(***************************************************************************)
(* The life of the process in native/main.c around the frame loop: what     *)
(* main() acquires and in which order, what it does when an acquisition     *)
(* fails, and cleanup(), with src/ps5_videoout.c.                           *)
(*                                                                          *)
(* The platform and the program keep separate books.  `held` is the truth,  *)
(* what the kernel, VideoOut and the services really hold for the process;  *)
(* `owned` is what the flags of struct native_resources and struct          *)
(* ps5_videoout say.  Every platform call may fail.  A definition named     *)
(* after another one with a suffix is a plausible bug in it and takes no    *)
(* part in the specification.                                               *)
(***************************************************************************)
EXTENDS Naturals, Sequences

VARIABLES
  held,      (* the objects the process really holds                        *)
  owned,     (* the flags that say so                                       *)
  main,      (* where main() stands                                         *)
  next,      (* the next entry of Chain or of Teardown                      *)
  cleaned,   (* what cleanup() will return: "ok", "auxiliary" or "failed"   *)
  ending     (* how the process ends: "none", "return", "_exit" or "park"   *)

vars == <<held, owned, main, next, cleaned, ending>>

(* One acquisition: the object it gets, if any, and the flags that are set  *)
(* after it.                                                                *)
Get(r) == [gets |-> {r}, flags |-> {r}]
Check  == [gets |-> {}, flags |-> {}]

(* allocate_direct: physical memory, then its mapping; both flags are set   *)
(* by main() once it has returned 0.                                        *)
DirectFlagsFirst(mem, map) ==
  <<[gets |-> {mem}, flags |-> {mem, map}], [gets |-> {map}, flags |-> {}]>>

Direct(mem, map) ==
  <<[gets |-> {mem}, flags |-> {}], [gets |-> {map}, flags |-> {mem, map}]>>

(* map_command: each of its three flags is set as soon as its call succeeds.*)
MapCommandFlagsLast ==
  <<[gets |-> {"command_range"}, flags |-> {}],
    [gets |-> {"command_mem"}, flags |-> {}],
    [gets |-> {"command_map"},
     flags |-> {"command_range", "command_mem", "command_map"}]>>

MapCommand == <<Get("command_range"), Get("command_mem"), Get("command_map")>>

(* ps5_videoout_open: handle, event queue, flip event, flip rate, buffers   *)
VideoOutOpen ==
  <<Get("video"), Get("equeue"), Get("flip_event"), Check, Get("video_buffers")>>

(* main() up to the frame loop: agc_load, agc_init, the four memories and   *)
(* VideoOut, then shaders, pipelines and meshes, then gears_frame_loop_init.*)
Chain ==
  <<Get("agc"), Check>> \o MapCommand
    \o Direct("framebuffer_mem", "framebuffer_map") \o VideoOutOpen
    \o Direct("shader_mem", "shader_map") \o Direct("depth_mem", "depth_map")
    \o <<Check, Check>>

(* open_exit_control: a failure leaves the program without an exit control. *)
ExitControl == <<Get("user_service"), Check, Check, Get("pad")>>

(* The order of cleanup().                                                  *)
TeardownUnmapFirst ==
  <<"pad", "user_service", "framebuffer_map", "framebuffer_mem",
    "video_buffers", "flip_event", "equeue", "video",
    "depth_map", "depth_mem", "shader_map", "shader_mem",
    "command_map", "command_mem", "command_range", "agc">>

Teardown ==
  <<"pad", "user_service", "video_buffers", "flip_event", "equeue", "video",
    "framebuffer_map", "framebuffer_mem", "depth_map", "depth_mem",
    "shader_map", "shader_mem", "command_map", "command_mem",
    "command_range", "agc">>

Objects == {Teardown[i] : i \in DOMAIN Teardown}

Auxiliary == {"pad", "user_service"}

Init ==
  /\ held = {} /\ owned = {}
  /\ main = "acquiring" /\ next = 1
  /\ cleaned = "ok" /\ ending = "none"

-----------------------------------------------------------------------------
(* Acquisition.                                                             *)
Take(entry) ==
  /\ held' = held \cup entry.gets
  /\ owned' = owned \cup entry.flags
  /\ next' = next + 1

AcquireNext ==
  /\ main = "acquiring" /\ next <= Len(Chain)
  /\ Take(Chain[next])
  /\ UNCHANGED <<main, cleaned, ending>>

(* fail_pre_submit                                                          *)
AcquireFails ==
  /\ main = "acquiring" /\ next <= Len(Chain)
  /\ main' = "cleanup" /\ next' = 1 /\ ending' = "return"
  /\ UNCHANGED <<held, owned, cleaned>>

Acquired ==
  /\ main = "acquiring" /\ next > Len(Chain)
  /\ main' = "exit_control" /\ next' = 1
  /\ UNCHANGED <<held, owned, cleaned, ending>>

ExitControlNext ==
  /\ main = "exit_control" /\ next <= Len(ExitControl)
  /\ Take(ExitControl[next])
  /\ UNCHANGED <<main, cleaned, ending>>

(* open_exit_control returns, at its end or at its first failure.           *)
ExitControlReturns ==
  /\ main = "exit_control"
  /\ main' = "looping"
  /\ UNCHANGED <<held, owned, next, cleaned, ending>>

(* The frame loop ends: it parks, or Options was read from an open Pad and  *)
(* the drain completed.                                                     *)
LoopParks ==
  /\ main = "looping"
  /\ main' = "ended" /\ ending' = "park"
  /\ UNCHANGED <<held, owned, next, cleaned>>

LoopDrained ==
  /\ main = "looping" /\ "pad" \in owned
  /\ main' = "cleanup" /\ next' = 1 /\ ending' = "_exit"
  /\ UNCHANGED <<held, owned, cleaned>>

-----------------------------------------------------------------------------
(* cleanup()                                                                *)
Cleaning(r) ==
  /\ main = "cleanup" /\ next <= Len(Teardown)
  /\ r = Teardown[next]

SkipUnowned ==
  \E r \in Objects \ owned :
    /\ Cleaning(r)
    /\ next' = next + 1
    /\ UNCHANGED <<held, owned, main, cleaned, ending>>

(* A release succeeds.  Closing VideoOut also gives back the buffers whose  *)
(* unregistration it deferred.                                              *)
Releases(r) == IF r = "video" THEN {"video", "video_buffers"} ELSE {r}

ReleaseNext ==
  \E r \in owned :
    /\ Cleaning(r)
    /\ held' = held \ Releases(r)
    /\ owned' = owned \ Releases(r)
    /\ next' = next + 1
    /\ UNCHANGED <<main, cleaned, ending>>

(* sceVideoOutUnregisterBuffers says RESOURCE_BUSY: left to the close.      *)
UnregisterDeferred ==
  /\ "video_buffers" \in owned /\ Cleaning("video_buffers")
  /\ next' = next + 1
  /\ UNCHANGED <<held, owned, main, cleaned, ending>>

(* Pad and UserService: the error is remembered, the flag cleared.          *)
AuxiliaryFailsForgotten ==
  \E r \in owned \cap Auxiliary :
    /\ Cleaning(r)
    /\ owned' = owned \ {r}
    /\ next' = next + 1
    /\ UNCHANGED <<held, main, cleaned, ending>>

AuxiliaryFails ==
  \E r \in owned \cap Auxiliary :
    /\ Cleaning(r)
    /\ owned' = owned \ {r}
    /\ cleaned' = "auxiliary"
    /\ next' = next + 1
    /\ UNCHANGED <<held, main, ending>>

(* Any other release fails: cleanup returns at once.                        *)
ReleaseFails ==
  \E r \in owned \ Auxiliary :
    /\ Cleaning(r)
    /\ main' = "ended" /\ cleaned' = "failed"
    /\ UNCHANGED <<held, owned, next, ending>>

CleanupReturns ==
  /\ main = "cleanup" /\ next > Len(Teardown)
  /\ main' = "ended"
  /\ UNCHANGED <<held, owned, next, cleaned, ending>>

Next ==
  \/ AcquireNext \/ AcquireFails \/ Acquired
  \/ ExitControlNext \/ ExitControlReturns
  \/ LoopParks \/ LoopDrained
  \/ SkipUnowned \/ ReleaseNext \/ UnregisterDeferred
  \/ AuxiliaryFails \/ ReleaseFails \/ CleanupReturns

Spec == Init /\ [][Next]_vars
-----------------------------------------------------------------------------
(* No flag is set for an object the process does not hold, at any point of  *)
(* an acquisition or a teardown that stopped half way: cleanup never        *)
(* releases anything twice and never releases what it never got.            *)
FlagsAreTrue == owned \subseteq held

(* What each object stands on.                                              *)
Needs(r) ==
  CASE r = "video_buffers"   -> {"video", "framebuffer_map"}
    [] r = "flip_event"      -> {"video", "equeue"}
    [] r = "framebuffer_map" -> {"framebuffer_mem", "agc"}
    [] r = "depth_map"       -> {"depth_mem", "agc"}
    [] r = "shader_map"      -> {"shader_mem", "agc"}
    [] r = "command_map"     -> {"command_mem", "command_range", "agc"}
    [] OTHER                 -> {}

(* Nothing is taken away from under what still uses it, wherever an         *)
(* acquisition or a release fails: VideoOut never scans out of unmapped     *)
(* framebuffers, no mapping outlives its memory or the AGC module, the flip *)
(* event goes before its queue (docs/TELEMETRY.md:35, "ordered unregister,  *)
(* event removal, VideoOut close, memory release and AGC unload").          *)
HeldInOrder == \A r \in held : Needs(r) \subseteq held

(* _exit(0) means that everything was given back; trouble with the Pad or   *)
(* UserService alone keeps no memory and no VideoOut.                       *)
CleanExit ==
  main = "ended" /\ ending = "_exit" =>
    /\ cleaned = "ok" => held = {}
    /\ cleaned = "auxiliary" => held \subseteq Auxiliary

(* A start that fails and reports a clean teardown ("pre_submit_cleanup=0", *)
(* main.c:483) has given back everything but, at most, the one block of     *)
(* direct memory whose mapping failed.                                      *)
FailedStartLeavesOneBlock ==
  main = "ended" /\ ending = "return" /\ cleaned = "ok" =>
    \E mem \in {"framebuffer_mem", "shader_mem", "depth_mem"} : held \subseteq {mem}

(* AGC is unloaded last, after the memory release, on every path            *)
(* (docs/TELEMETRY.md:35).  allocate_direct forgets the memory it allocated *)
(* when the mapping fails, so cleanup unloads AGC with it still allocated.  *)
AgcUnloadedLast ==
  main = "ended" /\ "agc" \notin held => held \subseteq Auxiliary
=============================================================================
