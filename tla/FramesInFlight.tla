--------------------------- MODULE FramesInFlight ---------------------------
(***************************************************************************)
(* What the frame runner promises, without slots, buffers and callbacks:    *)
(* frames are numbered without a gap, at most Depth of them are in flight,  *)
(* they leave in the order in which they were submitted, and a run that     *)
(* fails keeps in flight whatever had not left.                             *)
(***************************************************************************)
EXTENDS Naturals, FiniteSets

CONSTANT Depth

VARIABLES
  inflight,    (* the indices of the submitted frames that have not left    *)
  completed,   (* how many frames have left and been counted                *)
  outcome      (* "running", "complete" or "failed"                         *)

Init == inflight = {} /\ completed = 0 /\ outcome = "running"

Oldest(f) == f \in inflight /\ \A g \in inflight : f <= g

Submit ==
  /\ outcome = "running"
  /\ Cardinality(inflight) < Depth
  /\ inflight' = inflight \cup {completed + Cardinality(inflight)}
  /\ UNCHANGED <<completed, outcome>>

Retire ==
  /\ outcome = "running"
  /\ \E f \in inflight : Oldest(f) /\ inflight' = inflight \ {f}
  /\ completed' = completed + 1
  /\ UNCHANGED outcome

(* The oldest frame leaves but can no longer be counted.                    *)
RetireUncounted ==
  /\ outcome = "running"
  /\ \E f \in inflight : Oldest(f) /\ inflight' = inflight \ {f}
  /\ outcome' = "failed"
  /\ UNCHANGED completed

Finish ==
  /\ outcome = "running" /\ inflight = {}
  /\ outcome' = "complete"
  /\ UNCHANGED <<inflight, completed>>

Fail ==
  /\ outcome = "running"
  /\ outcome' = "failed"
  /\ UNCHANGED <<inflight, completed>>

Next == Submit \/ Retire \/ RetireUncounted \/ Finish \/ Fail

Spec == Init /\ [][Next]_<<inflight, completed, outcome>>
=============================================================================
