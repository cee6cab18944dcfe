------------------------- MODULE FrameTrackerProofs -------------------------
(***************************************************************************)
(* The frame tracker, for every set of buffers and every range of tokens:   *)
(* type correctness, the two ownership invariants, and the refinement of    *)
(* BufferOwnership.                                                         *)
(***************************************************************************)
EXTENDS FrameTrackerClient, TLAPS

(* The three invariants together are inductive.                             *)
IInv == TypeOK /\ TokensDistinct /\ FlagsAreReports

(* How a step changes one slot and no other.                                *)
OnlySlot(b, new) ==
  /\ slots'[b] = new
  /\ \A c \in Buffers \ {b} : slots'[c] = slots[c]
  /\ slots' = [slots EXCEPT ![b] = new]

(* gears_frame_tracker_init writes well formed slots.                      *)
LEMMA EmptyIsSlot == EmptySlot \in Slot
  BY DEF EmptySlot, Slot, Phases

(* The invariant holds of an initialized tracker.                          *)
LEMMA InitIInv == Init => IInv
<1> SUFFICES ASSUME Init PROVE IInv
  OBVIOUS
<1>1. TypeOK
  BY EmptyIsSlot, TokenAssumption DEF Init, TrackerInit, TypeOK, TrackerTypeOK
<1>2. TokensDistinct /\ FlagsAreReports
  BY DEF Init, TrackerInit, TokensDistinct, FlagsAreReports, EmptySlot
<1> QED BY <1>1, <1>2 DEF IInv

(* What a Begin leaves behind, whatever the slot held before.               *)
LEMMA BeginIInv ==
  ASSUME IInv, NEW b \in Buffers, DoBegin(b)
  PROVE  IInv'
<1> DEFINE new == PreparedSlot(next_token)
<1>1. /\ slots \in [Buffers -> Slot]
      /\ next_token \in FirstToken .. MaxToken
      /\ reports \subseteq Issued \X Engines
  BY TokenAssumption DEF IInv, TypeOK, TrackerTypeOK, DoBegin, Begin, CanBegin
<1>2. /\ slots' = [slots EXCEPT ![b] = new]
      /\ next_token' = next_token + 1
      /\ reports' = reports
  BY DEF DoBegin, Begin
<1>3. new \in Slot
  BY <1>1 DEF PreparedSlot, Slot, Phases, Tokens
<1>4. next_token \notin Issued /\ Issued' = Issued \cup {next_token}
  BY <1>1, <1>2, TokenAssumption DEF Issued
<1>5. OnlySlot(b, new)
  BY <1>1, <1>2 DEF OnlySlot
<1>6. TypeOK'
  <2>1. slots' \in [Buffers -> Slot]
    BY <1>1, <1>2, <1>3
  <2>2. next_token' \in FirstToken .. MaxToken + 1
    BY <1>1, <1>2, TokenAssumption
  <2>3. (reports \subseteq Issued \X Engines)'
    BY <1>1, <1>2, <1>4 DEF Engines
  <2> QED BY <2>1, <2>2, <2>3 DEF TypeOK, TrackerTypeOK
<1>7. TokensDistinct'
  <2>1. TokensDistinct
    BY DEF IInv
  <2> QED BY <2>1, <1>4, <1>5 DEF TokensDistinct, OnlySlot, PreparedSlot
<1>8. FlagsAreReports'
  <2>1. FlagsAreReports
    BY DEF IInv
  <2> QED BY <2>1, <1>2, <1>5 DEF FlagsAreReports, OnlySlot, PreparedSlot
<1> QED BY <1>6, <1>7, <1>8 DEF IInv

(* A step that keeps the counter, and gives slot b a well-formed content    *)
(* with its old token or none, keeps the type and the tokens apart.         *)
LEMMA SlotStep ==
  ASSUME IInv, NEW b \in Buffers, NEW new \in Slot, OnlySlot(b, new),
         next_token' = next_token,
         new.phase # "EMPTY" =>
           /\ new.token = slots[b].token
           /\ slots[b].phase # "EMPTY",
         reports' \subseteq Issued \X Engines
  PROVE  TypeOK' /\ TokensDistinct'
<1>1. Issued' = Issued
  BY DEF Issued
<1>2. slots \in [Buffers -> Slot]
  BY DEF IInv, TypeOK, TrackerTypeOK
<1>3. TypeOK'
  BY <1>1, <1>2 DEF IInv, TypeOK, TrackerTypeOK, OnlySlot, Engines
<1>4. TokensDistinct
  BY DEF IInv
<1>5. TokensDistinct'
  BY <1>1, <1>4 DEF TokensDistinct, OnlySlot
<1> QED BY <1>3, <1>5

(* Cancelling and submitting a prepared slot.                               *)
LEMMA PreparedIInv ==
  ASSUME IInv, NEW b \in Buffers, NEW t \in Issued,
         DoCancel(b, t) \/ DoMarkSubmitted(b, t)
  PROVE  IInv'
<1> DEFINE submitted == [slots[b] EXCEPT !.phase = "SUBMITTED"]
<1>1. slots \in [Buffers -> Slot] /\ reports \subseteq Issued \X Engines
  BY DEF IInv, TypeOK, TrackerTypeOK
<1>2. /\ slots[b].phase = "PREPARED"
      /\ next_token' = next_token
      /\ reports' = reports
      /\ OnlySlot(b, EmptySlot) \/ OnlySlot(b, submitted)
  BY <1>1 DEF DoCancel, DoMarkSubmitted, CancelPreSubmit, MarkSubmitted, Holds,
              OnlySlot
<1>3. submitted \in Slot
  BY <1>1 DEF Slot, Phases
<1>4. /\ submitted.token = slots[b].token
      /\ submitted.gpu_complete = slots[b].gpu_complete
      /\ submitted.videoout_complete = slots[b].videoout_complete
  BY <1>1 DEF Slot
<1>5. TypeOK' /\ TokensDistinct'
  <2>1. CASE OnlySlot(b, EmptySlot)
    BY <2>1, <1>1, <1>2, EmptyIsSlot, SlotStep DEF EmptySlot
  <2>2. CASE OnlySlot(b, submitted)
    BY <2>2, <1>1, <1>2, <1>3, <1>4, SlotStep
  <2> QED BY <1>2, <2>1, <2>2
<1>6. FlagsAreReports'
  <2>1. FlagsAreReports
    BY DEF IInv
  <2>2. CASE OnlySlot(b, EmptySlot)
    BY <2>1, <2>2, <1>2 DEF FlagsAreReports, OnlySlot, EmptySlot
  <2>3. CASE OnlySlot(b, submitted)
    BY <2>1, <2>3, <1>2, <1>4 DEF FlagsAreReports, OnlySlot
  <2> QED BY <1>2, <2>2, <2>3
<1> QED BY <1>5, <1>6 DEF IInv

(* A report, accepted or ignored.                                           *)
LEMMA ReportIInv ==
  ASSUME IInv, NEW b \in Buffers, NEW t \in Issued, NEW e \in Engines,
         Report(b, t, e)
  PROVE  IInv'
<1> DEFINE gpu == [slots[b] EXCEPT !.gpu_complete = TRUE]
           video == [slots[b] EXCEPT !.videoout_complete = TRUE]
<1>1. slots \in [Buffers -> Slot] /\ reports \subseteq Issued \X Engines
  BY DEF IInv, TypeOK, TrackerTypeOK
<1>2. /\ next_token' = next_token
      /\ reports \subseteq reports'
      /\ reports' \subseteq Issued \X Engines
  BY <1>1 DEF Report, MarkGpuComplete, MarkVideoOutComplete, trackerVars
<1>3. FlagsAreReports
  BY DEF IInv
<1>4. gpu \in Slot /\ video \in Slot
  BY <1>1 DEF Slot
<1>5. CASE ~Holds(b, "SUBMITTED", t)
  <2>1. slots' = slots
    BY <1>5 DEF Report, trackerVars
  <2>2. TypeOK' /\ TokensDistinct'
    BY <2>1, <1>2 DEF IInv, TypeOK, TrackerTypeOK, TokensDistinct, Issued
  <2>3. FlagsAreReports'
    BY <2>1, <1>2, <1>3 DEF FlagsAreReports
  <2> QED BY <2>2, <2>3 DEF IInv
<1>6. CASE Holds(b, "SUBMITTED", t) /\ e = "gpu"
  <2>1. OnlySlot(b, gpu)
    BY <1>1, <1>6 DEF Report, MarkGpuComplete, OnlySlot
  <2>2. <<slots[b].token, "gpu">> \in reports'
    BY <1>6 DEF Report, Holds, Outstanding
  <2>3. TypeOK' /\ TokensDistinct'
    BY <2>1, <1>1, <1>2, <1>4, <1>6, SlotStep DEF Holds, Slot
  <2>4. FlagsAreReports'
    BY <2>1, <2>2, <1>1, <1>2, <1>3 DEF FlagsAreReports, OnlySlot, Slot
  <2> QED BY <2>3, <2>4 DEF IInv
<1>7. CASE Holds(b, "SUBMITTED", t) /\ e # "gpu"
  <2>1. OnlySlot(b, video) /\ e = "videoout"
    BY <1>1, <1>7 DEF Report, MarkVideoOutComplete, OnlySlot, Engines
  <2>2. <<slots[b].token, "videoout">> \in reports'
    BY <1>7, <2>1 DEF Report, Holds, Outstanding
  <2>3. TypeOK' /\ TokensDistinct'
    BY <2>1, <1>1, <1>2, <1>4, <1>7, SlotStep DEF Holds, Slot
  <2>4. FlagsAreReports'
    BY <2>1, <2>2, <1>1, <1>2, <1>3 DEF FlagsAreReports, OnlySlot, Slot
  <2> QED BY <2>3, <2>4 DEF IInv
<1> QED BY <1>5, <1>6, <1>7

(* Every operation of the tracker preserves the invariant.                 *)
LEMMA NextIInv == IInv /\ [Next]_vars => IInv'
<1> SUFFICES ASSUME IInv, [Next]_vars PROVE IInv'
  OBVIOUS
<1>1. CASE UNCHANGED vars
  BY <1>1 DEF vars, IInv, TypeOK, TrackerTypeOK, TokensDistinct,
              FlagsAreReports, Issued
<1>2. ASSUME NEW b \in Buffers, DoBegin(b) PROVE IInv'
  BY <1>2, BeginIInv
<1>3. ASSUME NEW b \in Buffers, NEW t \in Issued,
             DoCancel(b, t) \/ DoMarkSubmitted(b, t)
      PROVE  IInv'
  BY <1>3, PreparedIInv
<1>4. ASSUME NEW b \in Buffers, NEW t \in Issued, NEW e \in Engines,
             Report(b, t, e)
      PROVE  IInv'
  BY <1>4, ReportIInv
<1> QED BY <1>1, <1>2, <1>3, <1>4 DEF Next

(* The inductive invariant holds throughout.                               *)
THEOREM TrackerInvariant == Spec => []IInv
  BY InitIInv, NextIInv, PTL DEF Spec

(* The slots and the token counter stay in range, for every set of buffers  *)
(* and every token range: the counter of gears_frame_begin never runs past  *)
(* the largest positive flip token by more than the one it refuses.         *)
THEOREM TypeCorrect == Spec => []TypeOK
  BY TrackerInvariant, PTL DEF IInv

(* A token names at most one outstanding frame.                             *)
THEOREM DistinctTokens == Spec => []TokensDistinct
  BY TrackerInvariant, PTL DEF IInv

(* A completion flag always stands for a report of that token.              *)
THEOREM HonestFlags == Spec => []FlagsAreReports
  BY TrackerInvariant, PTL DEF IInv
-----------------------------------------------------------------------------
(* The refinement.  AbstractOwner changes where the slot changes.           *)
LEMMA OwnerStep ==
  ASSUME NEW b \in Buffers, NEW new, OnlySlot(b, new)
  PROVE  AbstractOwner' =
           [AbstractOwner EXCEPT ![b] =
              [with  |-> IF new.phase = "EMPTY" THEN "nobody"
                         ELSE IF new.phase = "PREPARED" THEN "cpu" ELSE "devices",
               token |-> new.token]]
  BY DEF AbstractOwner, OnlySlot

(* An initialized tracker maps to buffers that nobody owns.                *)
LEMMA InitRefines == Init => Ownership!Init
<1> SUFFICES ASSUME Init PROVE Ownership!Init
  OBVIOUS
<1>1. AbstractOwner = [b \in Buffers |-> Ownership!Nobody]
  BY DEF Init, TrackerInit, EmptySlot, AbstractOwner, Ownership!Nobody
<1>2. Issued = {}
  BY TokenAssumption DEF Init, TrackerInit, Issued
<1> QED BY <1>1, <1>2 DEF Init, Ownership!Init

(* A slot that may be reused is available: its flags are backed by reports. *)
LEMMA ReusableIsAvailable ==
  ASSUME IInv, NEW b \in Buffers, CanReuse(b)
  PROVE  Ownership!Available(b)
<1>1. slots[b].phase = "SUBMITTED" /\ slots[b].gpu_complete
        /\ slots[b].videoout_complete => Ownership!Finished(slots[b].token)
  BY DEF IInv, FlagsAreReports, Ownership!Finished, Engines
<1> QED BY <1>1 DEF CanReuse, Ownership!Available, AbstractOwner

(* gears_frame_begin maps to the CPU taking an available buffer.           *)
LEMMA BeginRefines ==
  ASSUME IInv, NEW b \in Buffers, DoBegin(b)
  PROVE  Ownership!Acquire(b)
<1> DEFINE new == PreparedSlot(next_token)
<1>1. /\ slots \in [Buffers -> Slot]
      /\ next_token \in FirstToken .. MaxToken
  BY TokenAssumption DEF IInv, TypeOK, TrackerTypeOK, DoBegin, Begin, CanBegin
<1>2. /\ slots' = [slots EXCEPT ![b] = new]
      /\ next_token' = next_token + 1
      /\ reports' = reports
      /\ CanReuse(b)
  BY DEF DoBegin, Begin, CanBegin
<1>3. /\ next_token \in Tokens \ Issued
      /\ Issued' = Issued \cup {next_token}
  BY <1>1, <1>2, TokenAssumption DEF Issued, Tokens
<1>4. OnlySlot(b, new)
  BY <1>1, <1>2 DEF OnlySlot
<1>5. AbstractOwner' = [AbstractOwner EXCEPT ![b] =
                          [with |-> "cpu", token |-> next_token]]
  BY <1>4, OwnerStep DEF PreparedSlot
<1>6. Ownership!Available(b)
  BY <1>2, ReusableIsAvailable
<1> QED BY <1>2, <1>3, <1>5, <1>6 DEF Ownership!Acquire

(* Submitting maps to the hand-over, cancelling to a release.              *)
LEMMA PreparedRefines ==
  ASSUME IInv, NEW b \in Buffers, NEW t \in Issued,
         DoCancel(b, t) \/ DoMarkSubmitted(b, t)
  PROVE  Ownership!Release(b) \/ Ownership!HandOver(b)
<1>1. slots \in [Buffers -> Slot]
  BY DEF IInv, TypeOK, TrackerTypeOK
<1>2. /\ slots[b].phase = "PREPARED"
      /\ reports' = reports
      /\ Issued' = Issued
      /\ AbstractOwner[b].with = "cpu"
  BY DEF DoCancel, DoMarkSubmitted, CancelPreSubmit, MarkSubmitted, Holds,
         Issued, AbstractOwner
<1>3. CASE DoCancel(b, t)
  <2>1. OnlySlot(b, EmptySlot)
    BY <1>1, <1>3 DEF DoCancel, CancelPreSubmit, OnlySlot
  <2>2. AbstractOwner' = [AbstractOwner EXCEPT ![b] = Ownership!Nobody]
    BY <2>1, OwnerStep DEF EmptySlot, Ownership!Nobody
  <2> QED BY <2>2, <1>2 DEF Ownership!Release
<1>4. CASE DoMarkSubmitted(b, t)
  <2> DEFINE new == [slots[b] EXCEPT !.phase = "SUBMITTED"]
  <2>1. OnlySlot(b, new)
    BY <1>1, <1>4 DEF DoMarkSubmitted, MarkSubmitted, OnlySlot
  <2>2. new.phase = "SUBMITTED" /\ new.token = slots[b].token
    BY <1>1 DEF Slot
  <2>3. AbstractOwner' = [AbstractOwner EXCEPT ![b] =
                            [with |-> "devices", token |-> slots[b].token]]
    BY <2>1, <2>2, OwnerStep
  <2>4. AbstractOwner' = [AbstractOwner EXCEPT ![b].with = "devices"]
    BY <2>3, <1>2 DEF AbstractOwner
  <2> QED BY <2>4, <1>2 DEF Ownership!HandOver
<1> QED BY <1>3, <1>4

(* A report never changes who owns what.                                    *)
LEMMA ReportRefines ==
  ASSUME IInv, NEW b \in Buffers, NEW t \in Issued, NEW e \in Engines,
         Report(b, t, e)
  PROVE  \/ Ownership!Report(e)
         \/ UNCHANGED <<AbstractOwner, Issued, reports>>
<1>1. slots \in [Buffers -> Slot]
  BY DEF IInv, TypeOK, TrackerTypeOK
<1>2. next_token' = next_token /\ Issued' = Issued
  BY DEF Report, MarkGpuComplete, MarkVideoOutComplete, trackerVars, Issued
<1>3. \A c \in Buffers : /\ slots'[c].phase = slots[c].phase
                         /\ slots'[c].token = slots[c].token
  BY <1>1 DEF Report, MarkGpuComplete, MarkVideoOutComplete, trackerVars, Slot
<1>4. AbstractOwner' = AbstractOwner
  BY <1>3 DEF AbstractOwner
<1>5. CASE Outstanding(t)
  <2>1. PICK c \in Buffers : slots[c].phase = "SUBMITTED" /\ slots[c].token = t
    BY <1>5 DEF Outstanding
  <2>2. AbstractOwner[c].with = "devices" /\ AbstractOwner[c].token = t
    BY <2>1 DEF AbstractOwner
  <2> QED BY <2>2, <1>2, <1>4, <1>5 DEF Report, Ownership!Report
<1>6. CASE ~Outstanding(t)
  BY <1>2, <1>4, <1>6 DEF Report
<1> QED BY <1>5, <1>6

(* The tracker of gears_frame_tracker.c implements BufferOwnership: for any *)
(* caller, a buffer leaves the devices only after both have reported its    *)
(* token, and every acquisition is under a token never issued before.       *)
THEOREM TrackerRefinesOwnership == Spec => ImplementsOwnership
<1> DEFINE avars == <<AbstractOwner, Issued, reports>>
<1>1. Init => Ownership!Init
  BY InitRefines
<1>2. IInv /\ [Next]_vars => [Ownership!Next]_avars
  <2> SUFFICES ASSUME IInv, [Next]_vars PROVE [Ownership!Next]_avars
    OBVIOUS
  <2>1. CASE UNCHANGED vars
    BY <2>1 DEF vars, AbstractOwner, Issued
  <2>2. ASSUME NEW b \in Buffers, DoBegin(b) PROVE Ownership!Next
    BY <2>2, BeginRefines DEF Ownership!Next
  <2>3. ASSUME NEW b \in Buffers, NEW t \in Issued,
               DoCancel(b, t) \/ DoMarkSubmitted(b, t)
        PROVE  Ownership!Next
    BY <2>3, PreparedRefines DEF Ownership!Next
  <2>4. ASSUME NEW b \in Buffers, NEW t \in Issued, NEW e \in Engines,
               Report(b, t, e)
        PROVE  [Ownership!Next]_avars
    BY <2>4, ReportRefines DEF Ownership!Next
  <2> QED BY <2>1, <2>2, <2>3, <2>4 DEF Next
<1> QED
  BY <1>1, <1>2, TrackerInvariant, PTL
     DEF Spec, ImplementsOwnership, Ownership!Spec
=============================================================================
