-------------------------- MODULE CommandStreamMC --------------------------
(***************************************************************************)
(* CommandStream in the layout of native/main.c, slot - fences - slot, with *)
(* slots just large enough that every check of the capacity can fail.  The  *)
(* mapping ends five dwords before the last slot does and the address space *)
(* two, which main() never lets happen and ps5_agc_submit.c must refuse.    *)
(***************************************************************************)
EXTENDS CommandStream, TLC

TheSlots == (0 :> 0) @@ (1 :> 450)

TheFences == (0 :> 240) @@ (1 :> 260)
=============================================================================
