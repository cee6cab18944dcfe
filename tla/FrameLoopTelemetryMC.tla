----------------------- MODULE FrameLoopTelemetryMC -----------------------
(***************************************************************************)
(* Times for words of 0 .. 6: a frame too fast to be measured, and four     *)
(* that fill one sum before the others, so that each check of a limit is    *)
(* the one that refuses a frame in some run.                                *)
(***************************************************************************)
EXTENDS FrameLoopTelemetry

Took(compose, gpu, video, interval) ==
  [compose |-> compose, gpu_wait |-> gpu, video_wait |-> video,
   present_interval |-> interval]

TheTimings ==
  {Took(0, 0, 0, 0), Took(3, 0, 0, 1), Took(0, 3, 0, 3), Took(0, 0, 3, 3),
   Took(1, 0, 0, 4)}
=============================================================================
