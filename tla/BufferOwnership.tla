-------------------------- MODULE BufferOwnership --------------------------
(***************************************************************************)
(* What the frame tracker promises, without its slots, phases and flags:    *)
(* a buffer belongs to nobody, to the CPU or to the devices, always under a *)
(* token never used before, and it leaves the devices only once each of     *)
(* them has said that it is done with that very token.                      *)
(***************************************************************************)
EXTENDS Naturals

CONSTANTS Buffers, Tokens, Engines

VARIABLES
  owner,    (* [Buffers -> [with : {"nobody", "cpu", "devices"}, token]]    *)
  issued,   (* every token handed out so far                                *)
  done      (* the <<token, engine>> completions the devices have reported  *)

Nobody == [with |-> "nobody", token |-> 0]

Init ==
  /\ owner = [b \in Buffers |-> Nobody]
  /\ issued = {}
  /\ done = {}

Finished(t) == \A e \in Engines : <<t, e>> \in done

Available(b) ==
  \/ owner[b].with = "nobody"
  \/ owner[b].with = "devices" /\ Finished(owner[b].token)

(* The CPU takes an available buffer under a fresh token.                   *)
Acquire(b) ==
  /\ Available(b)
  /\ \E t \in Tokens \ issued :
       /\ owner' = [owner EXCEPT ![b] = [with |-> "cpu", token |-> t]]
       /\ issued' = issued \cup {t}
  /\ UNCHANGED done

(* A token is spent on an acquisition that is given up at once.             *)
Waste(b) ==
  /\ Available(b)
  /\ \E t \in Tokens \ issued : issued' = issued \cup {t}
  /\ owner' = [owner EXCEPT ![b] = Nobody]
  /\ UNCHANGED done

(* The CPU gives up a buffer the devices have never seen.                   *)
Release(b) ==
  /\ owner[b].with = "cpu"
  /\ owner' = [owner EXCEPT ![b] = Nobody]
  /\ UNCHANGED <<issued, done>>

HandOver(b) ==
  /\ owner[b].with = "cpu"
  /\ owner' = [owner EXCEPT ![b].with = "devices"]
  /\ UNCHANGED <<issued, done>>

(* A device reports a token it was given.                                   *)
Report(e) ==
  /\ \E b \in Buffers :
       /\ owner[b].with = "devices"
       /\ done' = done \cup {<<owner[b].token, e>>}
  /\ UNCHANGED <<owner, issued>>

Next ==
  \/ \E b \in Buffers : Acquire(b) \/ Waste(b) \/ Release(b) \/ HandOver(b)
  \/ \E e \in Engines : Report(e)

Spec == Init /\ [][Next]_<<owner, issued, done>>
=============================================================================
