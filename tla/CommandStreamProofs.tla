------------------------ MODULE CommandStreamProofs ------------------------
(***************************************************************************)
(* Proofs about CommandStream, for every size of slot and packet, every     *)
(* layout and every answer of the AGC builders.                             *)
(***************************************************************************)
EXTENDS CommandStream, FunctionTheorems, FiniteSetTheorems, SequenceTheorems, TLAPS

Dcbs == [slot : Slots, token : Nat, dwords : 0 .. SlotDwords]

(* What the devices may know of a frame of the past.                        *)
Known(t) == t \in flips \/ \E i \in DOMAIN queue : queue[i].token = t

MemoryOK ==
  /\ memory = [b \in Slots |-> memory[b]]
  /\ \A b \in Slots : \A p \in memory[b] : p.at \in Nat /\ p.dwords \in Nat
  /\ queue \in Seq(Dcbs) /\ flips \subseteq Nat

StepInPlan == pc = "composing" => step \in 1 .. Len(FramePlan)

(* No device has heard of a frame that is still to come.                    *)
FutureUnknown == \A t \in Nat : Known(t) => t <= frame

(* Where a frame stands decides who may know of it and what is retained.    *)
KnownIsRetained ==
  /\ pc \in {"composing", "composed", "presenting"} => ~Known(frame)
  /\ pc \in {"releasing", "flushing", "submitting", "suspending"}
       => submitted.retain_all_resources
  /\ pc = "stopped" /\ Known(frame) => submitted.retain_all_resources

IInv ==
  /\ TypeOK /\ MemoryOK /\ StepInPlan /\ NothingPastTheSlot
  /\ FutureUnknown /\ KnownIsRetained

-----------------------------------------------------------------------------
(* The sizes of the layout are numbers.                                     *)
LEMMA ConstantsType ==
  /\ SlotDwords \in Nat /\ FlipRoom \in Nat /\ ReleaseDwords \in Nat
  /\ FillRoom \in Nat /\ ShDwords \in Nat /\ DrawDwords \in Nat
  BY StreamAssumption

(* Six packets, and four times the same two, are a sequence.                *)
LEMMA PlanLength ==
  ASSUME NEW a, NEW b, NEW c, NEW d, NEW e, NEW f, NEW g, NEW h
  PROVE  Len(<<a, b, c, d, e, f>>
               \o (<<g, h>> \o (<<g, h>> \o <<g, h>> \o <<g, h>>)))
           \in Nat \ {0}
  <1> DEFINE S == {a, b, c, d, e, f, g, h}
             two == <<g, h>>
             six == <<a, b, c, d, e, f>>
  <1>1. two \in Seq(S) /\ six \in Seq(S) /\ Len(six) = 6
    OBVIOUS
  <1> HIDE DEF S, two, six
  <1> DEFINE rest == two \o (two \o two \o two)
  <1>2. rest \in Seq(S)
    BY <1>1
  <1> HIDE DEF rest
  <1>3. Len(six \o rest) = Len(six) + Len(rest) /\ Len(rest) \in Nat
    BY <1>1, <1>2, ConcatProperties, LenProperties
  <1>4. Len(six \o rest) \in Nat \ {0}
    BY <1>1, <1>3
  <1>5. QED
    BY <1>4 DEF two, six, rest

(* The plan of a frame has a length, and is not empty.                      *)
LEMMA PlanType == Len(FramePlan) \in Nat \ {0}
  BY PlanLength, Zenon DEF FramePlan, RendererPackets, GearPackets, ClearPackets

(* A builder's answer is a number of dwords, possibly too large.            *)
LEMMA AnswerType ==
  ASSUME NEW capacity \in Nat, NEW kind, NEW a \in Answer(capacity, kind)
  PROVE  a.up \in Nat /\ a.size \in Nat
  <1> DEFINE left == {capacity - l : l \in {k \in Leaves : k <= capacity}}
             lengths == {Least(kind)} \cup Advances \cup left
                          \cup {capacity + 1}
  <1>1. Least(kind) \in Nat
    BY ConstantsType DEF Least
  <1>2. left \subseteq Nat
    <2>1. ASSUME NEW l \in Leaves, l <= capacity PROVE capacity - l \in Nat
      <3>1. l \in Nat
        BY StreamAssumption
      <3>2. QED
        BY <2>1, <3>1
    <2>2. QED
      BY <2>1
  <1>3. a \in [up : lengths, intact : BOOLEAN, size : lengths]
    BY DEF Answer
  <1>4. Advances \subseteq Nat /\ capacity + 1 \in Nat
    BY StreamAssumption
  <1> HIDE DEF left
  <1>5. lengths \subseteq Nat
    BY <1>1, <1>2, <1>4
  <1> HIDE DEF lengths
  <1>6. QED
    BY <1>3, <1>5

(* An advance that a checked writer lets through fits in its capacity.      *)
LEMMA WriteFits ==
  ASSUME NEW capacity \in Nat, NEW kind, NEW a, a.up \in Nat, a.size \in Nat,
         Write(kind, capacity, a)
  PROVE  a.up <= capacity
  BY DEF Write, WriteWaitRendering, WriteFillDepth, WriteShDirect,
         WriteDrawAuto, WriteIndirect, FinishWriter, BeginWriter

(* The same for the flip, which has a capacity of its own.                  *)
LEMMA FlipFits ==
  ASSUME NEW a, a.up \in Nat, WriteFlip(FlipRoom, a)
  PROVE  a.up <= FlipRoom
  BY DEF WriteFlip, FinishWriter, BeginWriter

(* Committing a packet that fits keeps memory well formed and in its slot.  *)
LEMMA CommitFits ==
  ASSUME TypeOK, MemoryOK, NothingPastTheSlot,
         NEW kind, NEW n \in Nat, cursor + n <= SlotDwords,
         Commit(slot, kind, n)
  PROVE  /\ memory' = [b \in Slots |-> memory'[b]]
         /\ \A b \in Slots : \A p \in memory'[b] :
              p.at \in Nat /\ p.dwords \in Nat /\ p.at + p.dwords <= SlotDwords
  <1>1. memory' = [b \in Slots |-> memory'[b]]
    BY DEF MemoryOK, Commit
  <1>2. ASSUME NEW b \in Slots, NEW p \in memory'[b]
        PROVE  p.at \in Nat /\ p.dwords \in Nat /\ p.at + p.dwords <= SlotDwords
    <2>1. CASE p \in memory[b]
      BY <2>1 DEF NothingPastTheSlot, MemoryOK
    <2>2. CASE p \notin memory[b]
      <3>1. p = Packet(kind, cursor, n)
        BY <2>2 DEF Commit, MemoryOK, TypeOK
      <3>2. p.at = cursor /\ p.dwords = n /\ cursor \in Nat
        BY <3>1, ConstantsType DEF Packet, TypeOK
      <3>3. QED
        BY <3>2
    <2>3. QED
      BY <2>1, <2>2
  <1>3. QED
    BY <1>1, <1>2

-----------------------------------------------------------------------------
(* The initial state, nothing composed and nothing submitted.               *)
LEMMA InitInv == Init => IInv
  <1> SUFFICES ASSUME Init PROVE IInv
    OBVIOUS
  <1>1. TypeOK
    <2>1. pc \in Places /\ slot \in Slots /\ cursor \in 0 .. SlotDwords
          /\ frame \in Nat
      BY ConstantsType DEF Init, Places
    <2>2. step \in 1 .. Len(FramePlan) + 1
      BY PlanType DEF Init
    <2>3. /\ saved \in [Slots -> {NoCursor} \cup 0 .. SlotDwords]
          /\ busy \in [Slots -> BOOLEAN] /\ fence \in [Slots -> {0, 1}]
      BY DEF Init
    <2>4. submitted \in Submissions
      BY DEF Init, NotSubmitted, Submissions
    <2>5. QED
      BY <2>1, <2>2, <2>3, <2>4 DEF TypeOK
  <1>2. MemoryOK
    BY DEF Init, MemoryOK
  <1>3. StepInPlan /\ NothingPastTheSlot
    BY DEF Init, StepInPlan, NothingPastTheSlot
  <1>4. FutureUnknown /\ KnownIsRetained
    BY DEF Init, FutureUnknown, Known, KnownIsRetained
  <1>5. QED
    BY <1>1, <1>2, <1>3, <1>4 DEF IInv

(* The devices' knowledge does not grow in a step that leaves the queue and *)
(* the flips alone, nor when the GPU takes the oldest DCB.                  *)
LEMMA KnownUnchanged ==
  ASSUME UNCHANGED deviceVars
  PROVE  \A t : Known(t)' <=> Known(t)
  BY DEF Known, deviceVars

LEMMA KnownShrinks ==
  ASSUME MemoryOK, GpuExecutes, NEW t, Known(t)'
  PROVE  Known(t)
  <1>1. CASE t \in flips'
    BY <1>1 DEF GpuExecutes, Known
  <1>2. CASE t \notin flips'
    <2>1. PICK i \in DOMAIN queue' : queue'[i].token = t
      BY <1>2 DEF Known
    <2>2. queue \in Seq(Dcbs) /\ queue # <<>> /\ queue' = Tail(queue)
      BY DEF MemoryOK, GpuExecutes
    <2>3. i + 1 \in DOMAIN queue /\ queue[i + 1] = queue'[i]
      BY <2>1, <2>2
    <2>4. QED
      BY <2>1, <2>3 DEF Known
  <1>3. QED
    BY <1>1, <1>2

(* The room left in a slot is never negative.                               *)
LEMMA RoomIsNat == TypeOK => Room \in Nat
  BY ConstantsType DEF TypeOK, Room

-----------------------------------------------------------------------------
(* One lemma per operation.                                                 *)
(* A new frame starts at the slot's beginning, unknown to every device.     *)
LEMMA ComposeCallInv ==
  ASSUME IInv, NEW b \in Slots, ComposeCall(b)
  PROVE  IInv'
  <1> USE DEF ComposeCall
  <1>1. TypeOK'
    BY PlanType, ConstantsType DEF IInv, TypeOK, Places
  <1>2. MemoryOK' /\ NothingPastTheSlot'
    BY DEF IInv, MemoryOK, NothingPastTheSlot, deviceVars
  <1>3. StepInPlan'
    BY PlanType DEF StepInPlan
  <1>4. FutureUnknown' /\ KnownIsRetained'
    <2>1. \A t : Known(t)' <=> Known(t)
      BY KnownUnchanged
    <2>2. frame \in Nat /\ frame' = frame + 1 /\ pc' = "composing"
      BY DEF IInv, TypeOK
    <2>3. FutureUnknown'
      BY <2>1, <2>2 DEF IInv, FutureUnknown
    <2>4. ~Known(frame + 1)
      BY <2>2 DEF IInv, FutureUnknown
    <2>5. ~Known(frame)'
      BY <2>2, <2>4 DEF Known, deviceVars
    <2>6. QED
      BY <2>2, <2>3, <2>5 DEF KnownIsRetained
  <1>5. QED
    BY <1>1, <1>2, <1>3, <1>4 DEF IInv

(* A packet is committed only if it fits; devices learn nothing.            *)
LEMMA ComposePacketInv ==
  ASSUME IInv, ComposePacket
  PROVE  IInv'
  <1> USE DEF ComposePacket
  <1>1. PICK a \in Answer(Room, FramePlan[step]) :
          /\ Write(FramePlan[step], Room, a)
          /\ Commit(slot, FramePlan[step], a.up)
          /\ cursor' = cursor + a.up
    OBVIOUS
  <1>2. Room \in Nat
    BY RoomIsNat DEF IInv
  <1>3. a.up \in Nat /\ a.size \in Nat
    BY <1>2, AnswerType
  <1>4. a.up <= Room
    BY <1>1, <1>2, <1>3, WriteFits
  <1>5. cursor + a.up <= SlotDwords /\ cursor' \in 0 .. SlotDwords
    BY <1>1, <1>2, <1>3, <1>4, ConstantsType DEF Room, IInv, TypeOK
  <1>6. TypeOK'
    <2>1. step' \in 1 .. Len(FramePlan) + 1
      BY PlanType DEF IInv, StepInPlan
    <2>2. pc' \in Places /\ saved' \in [Slots -> {NoCursor} \cup 0 .. SlotDwords]
      BY <1>5 DEF IInv, TypeOK, Places
    <2>3. QED
      BY <1>5, <2>1, <2>2 DEF IInv, TypeOK
  <1>7. MemoryOK' /\ NothingPastTheSlot'
    BY <1>1, <1>3, <1>5, CommitFits
       DEF IInv, MemoryOK, NothingPastTheSlot, deviceVars
  <1>8. StepInPlan'
    BY PlanType DEF IInv, StepInPlan
  <1>9. FutureUnknown' /\ KnownIsRetained'
    BY DEF IInv, FutureUnknown, KnownIsRetained, Known, deviceVars
  <1>10. QED
    BY <1>6, <1>7, <1>8, <1>9 DEF IInv

(* A failed step leaves everything but the place of the CPU alone; it may   *)
(* end the run wherever no device knows of the frame or all is retained.    *)
LEMMA StopInv ==
  ASSUME IInv, Stop,
         UNCHANGED <<slot, step, saved, frame, submitted, busy, deviceVars>>,
         fence' \in [Slots -> {0, 1}],
         Known(frame) => submitted.retain_all_resources
  PROVE  IInv'
  <1> USE DEF Stop
  <1>1. TypeOK'
    BY DEF IInv, TypeOK, Places
  <1>2. MemoryOK' /\ NothingPastTheSlot' /\ StepInPlan'
    BY DEF IInv, MemoryOK, NothingPastTheSlot, StepInPlan, deviceVars
  <1>3. FutureUnknown' /\ KnownIsRetained'
    BY DEF IInv, FutureUnknown, KnownIsRetained, Known, deviceVars
  <1>4. QED
    BY <1>1, <1>2, <1>3 DEF IInv

(* A frame that fails to compose is known to no device.                     *)
LEMMA ComposeFailsInv ==
  ASSUME IInv, ComposeFails
  PROVE  IInv'
  BY StopInv DEF ComposeFails, IInv, TypeOK, KnownIsRetained

(* The fence is raised and the result cleared before a device knows.        *)
LEMMA SubmitCallInv ==
  ASSUME IInv, SubmitCall
  PROVE  IInv'
  <1> USE DEF SubmitCall
  <1>1. NotSubmitted \in Submissions
    BY DEF NotSubmitted, Submissions
  <1>2. ~Known(frame)
    BY DEF IInv, KnownIsRetained
  <1>3. saved[slot] = NoCursor \/ saved[slot] \in 0 .. SlotDwords
    BY DEF IInv, TypeOK
  <1>4. TypeOK'
    <2>1. fence' \in [Slots -> {0, 1}]
      BY DEF IInv, TypeOK
    <2>2. pc' \in Places /\ cursor' \in 0 .. SlotDwords
      BY <1>3 DEF IInv, TypeOK, Places, Stop
    <2>3. QED
      BY <1>1, <2>1, <2>2 DEF IInv, TypeOK
  <1>5. MemoryOK' /\ NothingPastTheSlot' /\ StepInPlan'
    BY DEF IInv, MemoryOK, NothingPastTheSlot, StepInPlan, deviceVars, Stop
  <1>6. FutureUnknown' /\ KnownIsRetained'
    BY <1>2 DEF IInv, FutureUnknown, KnownIsRetained, Known, deviceVars, Stop
  <1>7. QED
    BY <1>4, <1>5, <1>6 DEF IInv

(* Too little room for flip and release: no device was called.              *)
LEMMA PresentHasNoRoomInv ==
  ASSUME IInv, PresentHasNoRoom
  PROVE  IInv'
  BY StopInv DEF PresentHasNoRoom, IInv, TypeOK, KnownIsRetained

(* VideoOut may know from here on, and everything is retained.              *)
LEMMA SetFlipInv ==
  ASSUME IInv, SetFlip
  PROVE  IInv'
  <1> USE DEF SetFlip
  <1>1. PICK a \in Answer(FlipRoom, "set_flip") :
          IF WriteFlip(FlipRoom, a)
            THEN /\ Commit(slot, "set_flip", a.up)
                 /\ cursor' = cursor + a.up /\ pc' = "releasing"
            ELSE Stop
    OBVIOUS
  <1>2. a.up \in Nat /\ a.size \in Nat
    BY ConstantsType, AnswerType
  <1>3. /\ submitted' \in Submissions /\ submitted'.retain_all_resources
    BY DEF IInv, TypeOK, Submissions
  <1>4. FutureUnknown' /\ flips' \subseteq Nat
    BY DEF IInv, TypeOK, MemoryOK, FutureUnknown, Known
  <1>5. CASE WriteFlip(FlipRoom, a)
    <2>1. cursor + a.up <= SlotDwords /\ cursor' \in 0 .. SlotDwords
      BY <1>1, <1>2, <1>5, FlipFits, RoomIsNat, ConstantsType
         DEF Room, IInv, TypeOK
    <2>2. TypeOK'
      BY <1>1, <1>3, <1>5, <2>1 DEF IInv, TypeOK, Places
    <2>3. MemoryOK' /\ NothingPastTheSlot'
      BY <1>1, <1>2, <1>4, <1>5, <2>1, CommitFits
         DEF IInv, MemoryOK, NothingPastTheSlot
    <2>4. StepInPlan' /\ KnownIsRetained'
      BY <1>1, <1>3, <1>5 DEF StepInPlan, KnownIsRetained
    <2>5. QED
      BY <1>4, <2>2, <2>3, <2>4 DEF IInv
  <1>6. CASE ~WriteFlip(FlipRoom, a)
    <2>1. TypeOK'
      BY <1>1, <1>3, <1>6 DEF IInv, TypeOK, Places, Stop
    <2>2. MemoryOK' /\ NothingPastTheSlot'
      BY <1>1, <1>4, <1>6 DEF IInv, MemoryOK, NothingPastTheSlot, Stop
    <2>3. StepInPlan' /\ KnownIsRetained'
      BY <1>1, <1>3, <1>6 DEF StepInPlan, KnownIsRetained, Stop
    <2>4. QED
      BY <1>4, <2>1, <2>2, <2>3 DEF IInv
  <1>7. QED
    BY <1>5, <1>6

(* The release fits behind the flip, and everything stays retained.         *)
LEMMA AppendReleaseInv ==
  ASSUME IInv, AppendRelease
  PROVE  IInv'
  <1> USE DEF AppendRelease
  <1>1. CASE cursor > saved[slot] + FlipRoom \/ Room < ReleaseDwords
    BY <1>1, StopInv DEF IInv, TypeOK, KnownIsRetained
  <1>2. CASE ~(cursor > saved[slot] + FlipRoom \/ Room < ReleaseDwords)
    <2>1. cursor + ReleaseDwords <= SlotDwords /\ cursor' \in 0 .. SlotDwords
      BY <1>2, RoomIsNat, ConstantsType DEF Room, IInv, TypeOK
    <2>2. submitted' \in Submissions /\ submitted'.retain_all_resources
      BY <1>2 DEF IInv, TypeOK, Submissions
    <2>3. TypeOK'
      BY <1>2, <2>1, <2>2 DEF IInv, TypeOK, Places
    <2>4. MemoryOK' /\ NothingPastTheSlot'
      BY <1>2, <2>1, CommitFits, ConstantsType
         DEF IInv, MemoryOK, NothingPastTheSlot, deviceVars
    <2>5. StepInPlan' /\ FutureUnknown' /\ KnownIsRetained'
      BY <1>2, <2>2 DEF IInv, StepInPlan, FutureUnknown, KnownIsRetained,
                        Known, deviceVars
    <2>6. QED
      BY <2>3, <2>4, <2>5 DEF IInv
  <1>3. QED
    BY <1>1, <1>2

(* The flush changes nothing but what the GPU sees.                         *)
LEMMA FlushInv ==
  ASSUME IInv, Flush
  PROVE  IInv'
  <1> USE DEF Flush
  <1>1. CASE SpanVisible(SlotAt[slot], cursor)
    <2>1. TypeOK'
      BY <1>1 DEF IInv, TypeOK, Places
    <2>2. MemoryOK' /\ NothingPastTheSlot' /\ StepInPlan'
      BY <1>1 DEF IInv, MemoryOK, NothingPastTheSlot, StepInPlan, deviceVars
    <2>3. FutureUnknown' /\ KnownIsRetained'
      BY <1>1 DEF IInv, FutureUnknown, KnownIsRetained, Known, deviceVars
    <2>4. QED
      BY <2>1, <2>2, <2>3 DEF IInv
  <1>2. CASE ~SpanVisible(SlotAt[slot], cursor)
    BY <1>2, StopInv DEF IInv, TypeOK, KnownIsRetained
  <1>3. QED
    BY <1>1, <1>2

(* The driver learns of the frame that is retained.                         *)
LEMMA DriverAcceptsInv ==
  ASSUME IInv, DriverAccepts
  PROVE  IInv'
  <1> USE DEF DriverAccepts
  <1> DEFINE dcb == [slot |-> slot, token |-> frame, dwords |-> cursor]
  <1>1. dcb \in Dcbs /\ dcb.token = frame
    BY DEF IInv, TypeOK, Dcbs
  <1>2. queue \in Seq(Dcbs) /\ queue' = Append(queue, dcb)
    BY DEF IInv, MemoryOK
  <1> HIDE DEF dcb
  <1>3. queue' \in Seq(Dcbs)
    BY <1>1, <1>2
  <1>4. TypeOK'
    BY DEF IInv, TypeOK, Places
  <1>5. MemoryOK' /\ NothingPastTheSlot' /\ StepInPlan'
    BY <1>3 DEF IInv, MemoryOK, NothingPastTheSlot, StepInPlan
  <1>6. FutureUnknown'
    <2>1. ASSUME NEW t \in Nat, Known(t)' PROVE t = frame \/ Known(t)
      <3>1. CASE t \in flips
        BY <3>1 DEF Known
      <3>2. CASE t \notin flips
        <4>1. PICK i \in DOMAIN queue' : queue'[i].token = t
          BY <2>1, <3>2 DEF Known
        <4>2. \/ i \in DOMAIN queue /\ queue'[i] = queue[i]
              \/ queue'[i] = dcb
          BY <1>1, <1>2, <4>1
        <4>3. QED
          BY <1>1, <4>1, <4>2 DEF Known
      <3>3. QED
        BY <3>1, <3>2
    <2>2. frame \in Nat /\ frame' = frame
      BY DEF IInv, TypeOK
    <2>3. QED
      BY <2>1, <2>2 DEF IInv, FutureUnknown
  <1>7. KnownIsRetained'
    BY DEF IInv, KnownIsRetained
  <1>8. QED
    BY <1>4, <1>5, <1>6, <1>7 DEF IInv

(* A refused DCB and a failed suspend point end the run alike.              *)
LEMMA SubmitFailsInv ==
  ASSUME IInv, SubmitFails
  PROVE  IInv'
  BY StopInv DEF SubmitFails, IInv, TypeOK, KnownIsRetained

(* The cursor saved behind the submission is inside the slot.               *)
LEMMA SubmitReturnsInv ==
  ASSUME IInv, SubmitReturns
  PROVE  IInv'
  <1> USE DEF SubmitReturns
  <1>1. TypeOK'
    BY DEF IInv, TypeOK, Places
  <1>2. MemoryOK' /\ NothingPastTheSlot' /\ StepInPlan'
    BY DEF IInv, MemoryOK, NothingPastTheSlot, StepInPlan, deviceVars
  <1>3. FutureUnknown' /\ KnownIsRetained'
    BY DEF IInv, FutureUnknown, KnownIsRetained, Known, deviceVars
  <1>4. QED
    BY <1>1, <1>2, <1>3 DEF IInv

(* Retiring a frame frees its slot for the next one.                        *)
LEMMA RetireInv ==
  ASSUME IInv, NEW b \in Slots, Retire(b)
  PROVE  IInv'
  <1> USE DEF Retire
  <1>1. TypeOK'
    BY DEF IInv, TypeOK
  <1>2. MemoryOK' /\ NothingPastTheSlot' /\ StepInPlan'
    BY DEF IInv, MemoryOK, NothingPastTheSlot, StepInPlan, deviceVars
  <1>3. FutureUnknown' /\ KnownIsRetained'
    BY DEF IInv, FutureUnknown, KnownIsRetained, Known, deviceVars
  <1>4. QED
    BY <1>1, <1>2, <1>3 DEF IInv

(* The GPU takes a DCB: it lowers a fence and knows one frame less.         *)
LEMMA GpuExecutesInv ==
  ASSUME IInv, GpuExecutes
  PROVE  IInv'
  <1> USE DEF GpuExecutes
  <1>1. TypeOK'
    <2>1. fence' \in [Slots -> {0, 1}]
      BY DEF IInv, TypeOK
    <2>2. QED
      BY <2>1 DEF IInv, TypeOK, cpuVars
  <1>2. queue' \in Seq(Dcbs)
    BY DEF IInv, MemoryOK
  <1>3. MemoryOK' /\ NothingPastTheSlot' /\ StepInPlan'
    BY <1>2 DEF IInv, MemoryOK, NothingPastTheSlot, StepInPlan, cpuVars
  <1>4. FutureUnknown'
    BY KnownShrinks DEF IInv, FutureUnknown, cpuVars
  <1>5. KnownIsRetained'
    <2>1. Known(frame)' => Known(frame)
      <3>1. frame' = frame
        BY DEF cpuVars
      <3>2. ASSUME Known(frame)' PROVE Known(frame)
        <4>1. CASE frame \in flips'
          BY <4>1 DEF Known
        <4>2. CASE frame \notin flips'
          <5>1. PICK i \in DOMAIN queue' : queue'[i].token = frame
            BY <3>1, <3>2, <4>2 DEF Known
          <5>2. queue \in Seq(Dcbs) /\ queue # <<>> /\ queue' = Tail(queue)
            BY DEF IInv, MemoryOK
          <5>3. i + 1 \in DOMAIN queue /\ queue[i + 1] = queue'[i]
            BY <5>1, <5>2
          <5>4. QED
            BY <5>1, <5>3 DEF Known
        <4>3. QED
          BY <4>1, <4>2
      <3>3. QED
        BY <3>2
    <2>2. QED
      BY <2>1 DEF IInv, KnownIsRetained, cpuVars
  <1>6. QED
    BY <1>1, <1>3, <1>4, <1>5 DEF IInv

(* Every step preserves the invariant.                                      *)
LEMMA NextInv == IInv /\ [Next]_vars => IInv'
  <1> SUFFICES ASSUME IInv, [Next]_vars PROVE IInv'
    OBVIOUS
  <1>1. ASSUME NEW b \in Slots, ComposeCall(b) PROVE IInv'
    BY <1>1, ComposeCallInv
  <1>2. ASSUME NEW b \in Slots, Retire(b) PROVE IInv'
    BY <1>2, RetireInv
  <1>3. CASE ComposePacket
    BY <1>3, ComposePacketInv
  <1>4. CASE ComposeFails
    BY <1>4, ComposeFailsInv
  <1>5. CASE SubmitCall
    BY <1>5, SubmitCallInv
  <1>6. CASE PresentHasNoRoom
    BY <1>6, PresentHasNoRoomInv
  <1>7. CASE SetFlip
    BY <1>7, SetFlipInv
  <1>8. CASE AppendRelease
    BY <1>8, AppendReleaseInv
  <1>9. CASE Flush
    BY <1>9, FlushInv
  <1>10. CASE DriverAccepts
    BY <1>10, DriverAcceptsInv
  <1>11. CASE SubmitFails
    BY <1>11, SubmitFailsInv
  <1>12. CASE SubmitReturns
    BY <1>12, SubmitReturnsInv
  <1>13. CASE GpuExecutes
    BY <1>13, GpuExecutesInv
  <1>14. CASE UNCHANGED vars
    BY <1>14 DEF IInv, TypeOK, MemoryOK, StepInPlan, NothingPastTheSlot,
                 FutureUnknown, KnownIsRetained, Known, vars, cpuVars, deviceVars
  <1>15. QED
    BY <1>1, <1>2, <1>3, <1>4, <1>5, <1>6, <1>7, <1>8, <1>9, <1>10, <1>11,
       <1>12, <1>13, <1>14 DEF Next

(* The inductive invariant holds throughout.                                *)
THEOREM Invariant == Spec => []IInv
  BY InitInv, NextInv, PTL DEF Spec

(* TypeOK, whose point is the cursors: every cursor, local, in a stream or  *)
(* saved, stays inside its slot.                                            *)
THEOREM CursorsInSlot == Spec => []TypeOK
  <1>1. IInv => TypeOK
    BY DEF IInv
  <1>2. QED
    BY <1>1, Invariant, PTL

(* No builder of AGC can make the program commit a packet that reaches past *)
(* the slot, whatever it answers and however large the slot is.             *)
THEOREM PacketsInSlot == Spec => []NothingPastTheSlot
  <1>1. IInv => NothingPastTheSlot
    BY DEF IInv
  <1>2. QED
    BY <1>1, Invariant, PTL

(* A run that stops on a frame a device may own retains everything.         *)
THEOREM StoppedRunRetains == Spec => []RetainsWhatDevicesMayOwn
  <1>1. IInv => RetainsWhatDevicesMayOwn
    BY DEF IInv, KnownIsRetained, Known, RetainsWhatDevicesMayOwn
  <1>2. QED
    BY <1>1, Invariant, PTL

-----------------------------------------------------------------------------
(* What the driver holds.                                                   *)
(*                                                                          *)
(* The packets of a stream are laid end to end: `at` gives their places,    *)
(* at[1] = 0 and at[n + 1] the place behind the last of n packets.          *)
Plan == FramePlan \o <<"set_flip", "release">>

PacketAt(at, i, t) ==
  [kind |-> Plan[i], at |-> at[i], dwords |-> at[i + 1] - at[i], token |-> t]

Layouts(n, end) ==
  {at \in [1 .. n + 1 -> Nat] :
     /\ at[1] = 0 /\ at[n + 1] = end
     /\ \A i, j \in 1 .. n + 1 : i < j => at[i] < at[j]}

Laid(stream, n, end, t) ==
  \E at \in Layouts(n, end) : stream = {PacketAt(at, i, t) : i \in 1 .. n}

Last == Len(FramePlan)

(* Two sequences of known lengths, one after the other.                     *)
Joined(u, s, m, t, k) ==
  /\ Len(u) = m + k
  /\ \A n \in 1 .. m : u[n] = s[n]
  /\ \A n \in 1 .. k : u[m + n] = t[n]

LEMMA JoinedIs ==
  ASSUME NEW S, NEW s \in Seq(S), NEW t \in Seq(S), NEW m, NEW k,
         Len(s) = m, Len(t) = k
  PROVE  Joined(s \o t, s, m, t, k)
<1>1. /\ Len(s \o t) = Len(s) + Len(t)
      /\ \A n \in 1 .. Len(s) + Len(t) :
           (s \o t)[n] = IF n <= Len(s) THEN s[n] ELSE t[n - Len(s)]
  BY ConcatProperties
<1>2. Len(s) \in Nat /\ Len(t) \in Nat
  OBVIOUS
<1>3. \A n \in 1 .. Len(s) : n \in 1 .. Len(s) + Len(t) /\ n <= Len(s)
  BY <1>2
<1>4. \A n \in 1 .. Len(t) :
        /\ Len(s) + n \in 1 .. Len(s) + Len(t)
        /\ ~(Len(s) + n <= Len(s))
        /\ Len(s) + n - Len(s) = n
  BY <1>2
<1>5. \A n \in 1 .. Len(s) : (s \o t)[n] = s[n]
  BY <1>1, <1>3
<1>6. \A n \in 1 .. Len(t) : (s \o t)[Len(s) + n] = t[n]
  BY <1>1, <1>4
<1> QED BY <1>1, <1>5, <1>6 DEF Joined

Kinds == {"wait_rendering", "fill_depth", "depth_registers", "cx", "uc", "sh",
          "sh_direct", "draw_auto", "set_flip", "release"}

LEMMA PlanIs ==
  /\ Last \in Nat \ {0} /\ Len(Plan) = Last + 2
  /\ \A i \in 1 .. Last : Plan[i] = FramePlan[i]
  /\ Plan[Last + 1] = "set_flip" /\ Plan[Last + 2] = "release"
<1> DEFINE two == <<"set_flip", "release">>
<1>1. two \in Seq(Kinds) /\ Len(two) = 2 /\ two[1] = "set_flip" /\ two[2] = "release"
  BY DEF Kinds
<1>2. FramePlan \in Seq(Kinds)
  <2> DEFINE six == <<"wait_rendering", "fill_depth", "depth_registers", "cx", "uc", "sh">>
             clear == <<"sh_direct", "draw_auto">>
  <2>1. six \in Seq(Kinds) /\ clear \in Seq(Kinds)
    BY DEF Kinds
  <2>2. FramePlan = six \o (clear \o (clear \o clear \o clear))
    BY DEF FramePlan, RendererPackets, GearPackets, ClearPackets
  <2> HIDE DEF six, clear
  <2>3. clear \o clear \in Seq(Kinds)
    BY <2>1, ConcatProperties
  <2>4. (clear \o clear) \o clear \in Seq(Kinds)
    BY <2>1, <2>3, ConcatProperties
  <2>5. clear \o ((clear \o clear) \o clear) \in Seq(Kinds)
    BY <2>1, <2>4, ConcatProperties
  <2> QED BY <2>1, <2>2, <2>5, ConcatProperties
<1> HIDE DEF two
<1>3. Plan = FramePlan \o two
  BY DEF Plan, two
<1>4. Last \in Nat \ {0}
  BY PlanType DEF Last
<1>5. /\ Len(Plan) = Last + 2
      /\ \A i \in 1 .. Last : Plan[i] = FramePlan[i]
      /\ \A i \in 1 .. 2 : Plan[Last + i] = two[i]
  <2>1. Len(FramePlan) = Last
    BY DEF Last
  <2>2. Joined(FramePlan \o two, FramePlan, Last, two, 2)
    BY <1>1, <1>2, <2>1, JoinedIs, Zenon
  <2> QED BY <1>3, <2>2 DEF Joined
<1>6. Plan[Last + 1] = two[1] /\ Plan[Last + 2] = two[2]
  BY <1>5
<1> QED BY <1>1, <1>4, <1>5, <1>6

(* The empty stream is laid, and one more packet behind a laid stream is.   *)
LEMMA LaidEmpty == ASSUME NEW t PROVE Laid({}, 0, 0, t)
<1> DEFINE at == [i \in 1 .. 1 |-> 0]
<1>1. at \in Layouts(0, 0)
  BY DEF Layouts
<1>2. {PacketAt(at, i, t) : i \in 1 .. 0} = {}
  OBVIOUS
<1> QED BY <1>1, <1>2 DEF Laid

LEMMA LaidExtends ==
  ASSUME NEW stream, NEW n \in Nat, NEW end \in Nat, NEW t, Laid(stream, n, end, t),
         NEW up \in Nat \ {0}
  PROVE  Laid({p \in stream : p.at < end}
                \cup {[kind |-> Plan[n + 1], at |-> end, dwords |-> up, token |-> t]},
              n + 1, end + up, t)
<1>1. PICK at \in Layouts(n, end) : stream = {PacketAt(at, i, t) : i \in 1 .. n}
  BY DEF Laid
<1> DEFINE more == [i \in 1 .. n + 2 |-> IF i = n + 2 THEN end + up ELSE at[i]]
           new  == [kind |-> Plan[n + 1], at |-> end, dwords |-> up, token |-> t]
<1>2. /\ at \in [1 .. n + 1 -> Nat] /\ at[1] = 0 /\ at[n + 1] = end
      /\ \A i, j \in 1 .. n + 1 : i < j => at[i] < at[j]
  BY <1>1 DEF Layouts
<1>3. /\ more[1] = 0 /\ more[n + 2] = end + up
      /\ \A i \in 1 .. n + 1 : more[i] = at[i]
  BY <1>2
<1>4. more \in [1 .. n + 2 -> Nat]
  BY <1>2
<1>5. \A i \in 1 .. n + 1 : at[i] <= end
  BY <1>2
<1>6. \A i, j \in 1 .. n + 2 : i < j => more[i] < more[j]
  <2> SUFFICES ASSUME NEW i \in 1 .. n + 2, NEW j \in 1 .. n + 2, i < j
               PROVE  more[i] < more[j]
    OBVIOUS
  <2>1. CASE j = n + 2
    <3>1. i \in 1 .. n + 1 /\ more[i] <= end
      BY <1>3, <1>5, <2>1
    <3>2. more[i] \in Nat
      BY <1>2, <1>3, <3>1
    <3> QED BY <1>3, <2>1, <3>1, <3>2
  <2>2. CASE j # n + 2
    BY <1>2, <1>3, <2>2
  <2> QED BY <2>1, <2>2
<1> HIDE DEF more
<1>7. more \in Layouts(n + 1, end + up)
  <2>1. n + 1 + 1 = n + 2
    OBVIOUS
  <2> QED BY <1>3, <1>4, <1>6, <2>1 DEF Layouts
<1>8. \A i \in 1 .. n : PacketAt(more, i, t) = PacketAt(at, i, t)
  BY <1>3 DEF PacketAt
<1>9. PacketAt(more, n + 1, t) = new
  <2>1. more[n + 1] = end /\ more[n + 1 + 1] = end + up /\ end + up - end = up
    BY <1>2, <1>3
  <2> QED BY <2>1 DEF PacketAt
<1>10. \A p \in stream : p.at < end
  BY <1>1, <1>2 DEF PacketAt
<1>11. {p \in stream : p.at < end} = {PacketAt(more, i, t) : i \in 1 .. n}
  BY <1>1, <1>8, <1>10
<1> HIDE DEF new
<1>12. {PacketAt(more, i, t) : i \in 1 .. n} \cup {new}
         = {PacketAt(more, i, t) : i \in 1 .. n + 1}
  <2>1. \A i \in 1 .. n + 1 : i \in 1 .. n \/ i = n + 1
    OBVIOUS
  <2>2. n + 1 \in 1 .. n + 1 /\ \A i \in 1 .. n : i \in 1 .. n + 1
    OBVIOUS
  <2> QED BY <1>9, <2>1, <2>2
<1>13. Laid({PacketAt(more, i, t) : i \in 1 .. n} \cup {new}, n + 1, end + up, t)
  BY <1>7, <1>12, Zenon DEF Laid
<1> QED BY <1>11, <1>13 DEF new

(* Everything in a laid stream lies before its end: a flush takes it all.   *)
LEMMA LaidFlushed ==
  ASSUME NEW stream, NEW n \in Nat, NEW end \in Nat, NEW t, Laid(stream, n, end, t)
  PROVE  {p \in stream : p.at < end} = stream
<1>1. PICK at \in Layouts(n, end) : stream = {PacketAt(at, i, t) : i \in 1 .. n}
  BY DEF Laid
<1>2. \A i \in 1 .. n : at[i] < end
  BY DEF Layouts
<1> QED BY <1>1, <1>2 DEF PacketAt

(* The whole plan, laid, is what Whole asks of a DCB.                       *)
LEMMA LaidIsWhole ==
  ASSUME NEW stream, NEW dcb, Laid(stream, Last + 2, dcb.dwords, dcb.token)
  PROVE  /\ Whole(stream, dcb)
         /\ \E p \in stream : p.kind = "release" /\ p.at < dcb.dwords
<1> DEFINE n == Last + 2
           place(p) == Cardinality({q \in stream : q.at < p.at}) + 1
<1>0. n \in Nat /\ n - 1 \in Nat /\ Len(Plan) = n /\ Plan[n] = "release"
  BY PlanIs
<1> HIDE DEF n
<1>1. PICK at \in Layouts(n, dcb.dwords) :
        stream = {PacketAt(at, i, dcb.token) : i \in 1 .. n}
  BY DEF Laid, n
<1> DEFINE pk == [i \in 1 .. n |-> PacketAt(at, i, dcb.token)]
<1>2. /\ at \in [1 .. n + 1 -> Nat] /\ at[1] = 0 /\ at[n + 1] = dcb.dwords
      /\ \A i, j \in 1 .. n + 1 : i < j => at[i] < at[j]
  BY <1>1 DEF Layouts
<1>3. \A i \in 1 .. n : /\ pk[i] \in stream /\ pk[i].at = at[i] /\ pk[i].kind = Plan[i]
                        /\ pk[i].token = dcb.token /\ pk[i].dwords = at[i + 1] - at[i]
  BY <1>1 DEF PacketAt
<1>4. \A p \in stream : \E i \in 1 .. n : p = pk[i]
  BY <1>1
<1>5. \A i, j \in 1 .. n : at[i] < at[j] <=> i < j
  BY <1>0, <1>2
<1>6. \A i, j \in 1 .. n : pk[i] = pk[j] => i = j
  BY <1>0, <1>2, <1>3, <1>5
<1> HIDE DEF pk
<1>7. \A k \in 0 .. n : Cardinality({pk[i] : i \in 1 .. k}) = k
  <2> SUFFICES ASSUME NEW k \in 0 .. n PROVE Cardinality({pk[i] : i \in 1 .. k}) = k
    OBVIOUS
  <2> DEFINE f == [i \in 1 .. k |-> pk[i]]
             T == {pk[i] : i \in 1 .. k}
  <2>1. \A i \in 1 .. k : i \in 1 .. n
    BY <1>0
  <2>2. f \in Bijection(1 .. k, T)
    <3>1. f \in [1 .. k -> T]
      OBVIOUS
    <3>2. \A i, j \in 1 .. k : f[i] = f[j] => i = j
      BY <1>6, <2>1
    <3>3. \A q \in T : \E i \in 1 .. k : f[i] = q
      OBVIOUS
    <3> HIDE DEF f, T
    <3> QED BY <3>1, <3>2, <3>3, Fun_IsBij
  <2>3. IsFiniteSet(1 .. k) /\ Cardinality(1 .. k) = k
    BY <1>0, FS_Interval, SMTT(30)
  <2>4. ExistsBijection(1 .. k, T)
    BY <2>2, Zenon DEF ExistsBijection
  <2> HIDE DEF T
  <2>5. Cardinality(T) = k
    BY <2>3, <2>4, FS_Bijection
  <2> QED BY <2>5 DEF T
<1>8. \A i \in 1 .. n : place(pk[i]) = i
  <2> SUFFICES ASSUME NEW i \in 1 .. n PROVE place(pk[i]) = i
    OBVIOUS
  <2>1. {q \in stream : q.at < pk[i].at} = {pk[j] : j \in 1 .. i - 1}
    <3>1. \A j \in 1 .. i - 1 : j \in 1 .. n /\ j < i
      BY <1>0
    <3>2. \A j \in 1 .. n : j < i => j \in 1 .. i - 1
      BY <1>0
    <3> QED BY <1>3, <1>4, <1>5, <3>1, <3>2
  <2>2. i - 1 \in 0 .. n
    BY <1>0
  <2>3. Cardinality({q \in stream : q.at < pk[i].at}) = i - 1
    BY <1>7, <2>1, <2>2
  <2> QED BY <1>0, <2>3
<1>9. Cardinality(stream) = n
  <2>1. stream = {pk[i] : i \in 1 .. n}
    BY <1>3, <1>4
  <2> QED BY <1>0, <1>7, <2>1
<1>10. ASSUME NEW p \in stream
       PROVE  /\ p.kind = Plan[place(p)] /\ p.token = dcb.token
              /\ p.at = 0 \/ \E q \in stream : q.at + q.dwords = p.at
              /\ IF place(p) = n THEN p.at + p.dwords = dcb.dwords
                                 ELSE p.at + p.dwords < dcb.dwords
  <2>1. PICK i \in 1 .. n : p = pk[i]
    BY <1>4
  <2>2. place(p) = i
    BY <1>8, <2>1
  <2> HIDE DEF place
  <2>3. i + 1 \in 1 .. n + 1 /\ at[i] \in Nat /\ at[i + 1] \in Nat
    BY <1>0, <1>2
  <2>4. p.at + p.dwords = at[i + 1]
    BY <1>3, <2>1, <2>3
  <2>5. p.at = 0 \/ \E q \in stream : q.at + q.dwords = p.at
    <3>1. CASE i = 1 BY <1>2, <1>3, <2>1, <3>1
    <3>2. CASE i # 1
      <4>1. i - 1 \in 1 .. n /\ i - 1 + 1 = i /\ at[i - 1] \in Nat
        BY <1>0, <1>2, <3>2
      <4>2. pk[i - 1].at = at[i - 1] /\ pk[i - 1].dwords = at[i] - at[i - 1]
        BY <1>3, <4>1
      <4>3. pk[i - 1].at + pk[i - 1].dwords = p.at
        BY <1>3, <2>1, <2>3, <4>1, <4>2
      <4> QED BY <1>3, <4>1, <4>3
    <3> QED BY <3>1, <3>2
  <2>6. IF i = n THEN at[i + 1] = dcb.dwords ELSE at[i + 1] < dcb.dwords
    BY <1>0, <1>2, <2>3
  <2> QED BY <1>3, <2>1, <2>2, <2>4, <2>5, <2>6
<1>11. Whole(stream, dcb)
  BY <1>0, <1>9, <1>10 DEF Whole, Plan
<1>12. pk[n] \in stream /\ pk[n].kind = "release" /\ pk[n].at < dcb.dwords
  <2>1. n \in 1 .. n /\ n + 1 \in 1 .. n + 1 /\ n \in 1 .. n + 1 /\ n < n + 1
    BY <1>0, PlanIs DEF n
  <2> QED BY <1>0, <1>2, <1>3, <2>1
<1> QED BY <1>11, <1>12

-----------------------------------------------------------------------------
Holds(b) == \E i \in DOMAIN queue : queue[i].slot = b

(* The slot of the frame under way is taken, its fence is up from the       *)
(* submission on, and the driver holds nothing in it until it accepts.      *)
SlotTaken ==
  /\ pc \in {"composing", "composed", "presenting", "releasing", "flushing",
             "submitting"} => ~Holds(slot)
  /\ pc \notin {"idle", "stopped"} => busy[slot]
  /\ pc \in {"presenting", "releasing", "flushing", "submitting"} => fence[slot] = 1

(* The driver holds one DCB of a slot at a time, of a frame not retired.    *)
OneDcbPerSlot ==
  /\ \A i \in DOMAIN queue : busy[queue[i].slot]
  /\ \A i, j \in DOMAIN queue : queue[i].slot = queue[j].slot => i = j

(* What has been written so far of the frame under way.                     *)
Written ==
  /\ visible = [b \in Slots |-> visible[b]]
  /\ pc = "composing"  => Laid(memory[slot], step - 1, cursor, frame)
  /\ pc = "composed"   => Laid(memory[slot], Last, saved[slot], frame)
  /\ pc = "presenting" => Laid(memory[slot], Last, cursor, frame)
  /\ pc = "releasing"  => Laid(memory[slot], Last + 1, cursor, frame)
  /\ pc \in {"flushing", "submitting"} => Laid(memory[slot], Last + 2, cursor, frame)
  /\ pc = "submitting" => Laid(visible[slot], Last + 2, cursor, frame)

(* What the driver holds is laid out whole, in memory and behind the cache. *)
HeldLaid ==
  \A i \in DOMAIN queue :
    /\ Laid(memory[queue[i].slot], Last + 2, queue[i].dwords, queue[i].token)
    /\ Laid(visible[queue[i].slot], Last + 2, queue[i].dwords, queue[i].token)

Mapped(b, dwords) ==
  MappingAt <= SlotAt[b] /\ SlotAt[b] + dwords <= MappingAt + MappingDwords

SpanMapped ==
  /\ pc = "submitting" => Mapped(slot, cursor)
  /\ SubmittedSpanIsMapped

StreamInv ==
  /\ IInv /\ SlotTaken /\ OneDcbPerSlot /\ Written /\ HeldLaid /\ SpanMapped
  /\ FenceTellsTruth


LEMMA StreamTypes ==
  ASSUME IInv
  PROVE  /\ slot \in Slots /\ cursor \in Nat /\ frame \in Nat
         /\ Last \in Nat \ {0} /\ step \in Nat
         /\ memory = [b \in Slots |-> memory[b]]
         /\ busy \in [Slots -> BOOLEAN] /\ fence \in [Slots -> {0, 1}]
         /\ queue \in Seq(Dcbs)
         /\ \A i \in DOMAIN queue : /\ queue[i].slot \in Slots
                                    /\ queue[i].dwords \in Nat
<1>1. \A d \in Dcbs : d.slot \in Slots /\ d.dwords \in Nat
  BY ConstantsType DEF Dcbs
<1>2. queue \in Seq(Dcbs) /\ \A i \in DOMAIN queue : queue[i] \in Dcbs
  BY DEF IInv, MemoryOK
<1>3. Last \in Nat \ {0} /\ step \in Nat /\ cursor \in Nat
  BY PlanType, ConstantsType DEF Last, IInv, TypeOK
<1> QED BY <1>1, <1>2, <1>3 DEF IInv, TypeOK, MemoryOK

(* A step that leaves the queue, the held slots and their frames alone.     *)
LEMMA HeldKept ==
  ASSUME StreamInv, queue' = queue,
         \A b \in Slots : Holds(b) => /\ memory'[b] = memory[b]
                                      /\ visible'[b] = visible[b]
                                      /\ busy'[b] = busy[b]
  PROVE  /\ HeldLaid' /\ OneDcbPerSlot' /\ SubmittedSpanIsMapped'
         /\ \A b : Holds(b)' <=> Holds(b)
<1>1. \A i \in DOMAIN queue : queue[i].slot \in Slots /\ Holds(queue[i].slot)
  BY StreamTypes DEF StreamInv, Holds
<1>2. \A b : Holds(b)' <=> Holds(b)
  BY DEF Holds
<1>3. HeldLaid'
  <2> SUFFICES ASSUME NEW i \in DOMAIN queue
               PROVE  /\ Laid(memory'[queue[i].slot], Last + 2,
                              queue[i].dwords, queue[i].token)
                      /\ Laid(visible'[queue[i].slot], Last + 2,
                              queue[i].dwords, queue[i].token)
    BY DEF HeldLaid
  <2>1. /\ memory'[queue[i].slot] = memory[queue[i].slot]
        /\ visible'[queue[i].slot] = visible[queue[i].slot]
    BY <1>1
  <2> QED BY <2>1 DEF StreamInv, HeldLaid
<1>4. OneDcbPerSlot' /\ SubmittedSpanIsMapped'
  BY <1>1 DEF StreamInv, SpanMapped, OneDcbPerSlot, SubmittedSpanIsMapped
<1> QED BY <1>2, <1>3, <1>4

(* A step that does so, moves no fence and frees no slot.                   *)
LEMMA FenceKept ==
  ASSUME StreamInv, UNCHANGED <<slot, busy, fence, queue>>,
         pc' \in {"idle", "suspending"} => pc \in {"idle", "suspending"}
  PROVE  FenceTellsTruth'
BY DEF StreamInv, FenceTellsTruth

LEMMA StopStream ==
  ASSUME StreamInv, IInv', pc' = "stopped",
         UNCHANGED <<slot, busy, memory, visible, fence, queue>>
  PROVE  StreamInv'
<1>1. HeldLaid' /\ OneDcbPerSlot' /\ SubmittedSpanIsMapped'
  BY HeldKept
<1>2. FenceTellsTruth'
  BY FenceKept
<1>3. SlotTaken' /\ Written' /\ SpanMapped'
  BY <1>1 DEF StreamInv, SlotTaken, Written, SpanMapped
<1> QED BY <1>1, <1>2, <1>3 DEF StreamInv

(* Committing the next packet of the plan lays it behind the others, and    *)
(* touches no slot the driver holds.                                        *)
LEMMA CommitLays ==
  ASSUME IInv, NEW n \in Nat, Laid(memory[slot], n, cursor, frame),
         NEW up \in Nat \ {0}, Commit(slot, Plan[n + 1], up)
  PROVE  /\ Laid(memory'[slot], n + 1, cursor + up, frame)
         /\ \A b \in Slots : b # slot => memory'[b] = memory[b]
<1>1. slot \in Slots /\ cursor \in Nat /\ memory = [b \in Slots |-> memory[b]]
  BY StreamTypes
<1>2. memory'[slot] = {p \in memory[slot] : p.at < cursor}
                        \cup {[kind |-> Plan[n + 1], at |-> cursor,
                               dwords |-> up, token |-> frame]}
  BY <1>1 DEF Commit, Packet
<1>3. \A b \in Slots : b # slot => memory'[b] = memory[b]
  BY <1>1 DEF Commit
<1>4. Laid({p \in memory[slot] : p.at < cursor}
             \cup {[kind |-> Plan[n + 1], at |-> cursor,
                    dwords |-> up, token |-> frame]}, n + 1, cursor + up, frame)
  BY <1>1, LaidExtends
<1> QED BY <1>2, <1>3, <1>4

(* No writer lets an empty packet through.                                  *)
LEMMA WriteAdvances ==
  ASSUME NEW capacity, NEW kind, NEW a, a.up \in Nat, Write(kind, capacity, a)
  PROVE  a.up # 0
BY StreamAssumption
   DEF Write, WriteWaitRendering, WriteFillDepth, WriteShDirect, WriteDrawAuto,
       WriteIndirect, FinishWriter

-----------------------------------------------------------------------------
(* One lemma per operation.                                                 *)
LEMMA ComposeCallStream ==
  ASSUME StreamInv, IInv', NEW b \in Slots, ComposeCall(b) PROVE StreamInv'
<1> USE DEF ComposeCall
<1>1. ~Holds(b)
  BY StreamTypes DEF StreamInv, OneDcbPerSlot, Holds
<1>2. queue' = queue /\ visible' = visible /\ fence' = fence
  BY DEF deviceVars
<1>3. /\ memory'[b] = {} /\ \A c \in Slots : c # b => memory'[c] = memory[c]
      /\ busy'[b] /\ \A c \in Slots : c # b => busy'[c] = busy[c]
  BY StreamTypes DEF StreamInv
<1>4. /\ HeldLaid' /\ OneDcbPerSlot' /\ SubmittedSpanIsMapped'
      /\ \A c : Holds(c)' <=> Holds(c)
  BY <1>1, <1>2, <1>3, HeldKept
<1>5. SlotTaken' /\ SpanMapped'
  <2>1. ~Holds(slot)'
    BY <1>1, <1>2 DEF Holds
  <2> QED BY <1>3, <1>4, <2>1 DEF SlotTaken, SpanMapped
<1>6. Written'
  <2>1. Laid({}, 0, 0, frame')
    BY LaidEmpty
  <2>2. step' - 1 = 0 /\ cursor' = 0 /\ slot' = b
    OBVIOUS
  <2>3. Laid(memory[slot], step - 1, cursor, frame)'
    BY <1>3, <2>1, <2>2
  <2> QED BY <1>2, <2>3 DEF StreamInv, Written
<1>7. FenceTellsTruth'
  BY <1>2, <1>3 DEF StreamInv, FenceTellsTruth
<1> QED BY <1>4, <1>5, <1>6, <1>7 DEF StreamInv

LEMMA ComposePacketStream ==
  ASSUME StreamInv, IInv', ComposePacket PROVE StreamInv'
<1> USE DEF ComposePacket
<1>1. PICK a \in Answer(Room, FramePlan[step]) :
        /\ Write(FramePlan[step], Room, a)
        /\ Commit(slot, FramePlan[step], a.up)
        /\ cursor' = cursor + a.up
  OBVIOUS
<1>2. a.up \in Nat \ {0}
  BY <1>1, RoomIsNat, AnswerType, WriteAdvances DEF StreamInv, IInv
<1>3. step \in 1 .. Last /\ FramePlan[step] = Plan[step] /\ step - 1 \in Nat
      /\ step - 1 + 1 = step
  BY PlanIs DEF StreamInv, IInv, StepInPlan, Last
<1>4. /\ Laid(memory'[slot], step, cursor', frame)
      /\ \A b \in Slots : b # slot => memory'[b] = memory[b]
  BY <1>1, <1>2, <1>3, CommitLays DEF StreamInv, Written
<1>5. queue' = queue /\ visible' = visible /\ slot \in Slots /\ ~Holds(slot)
  BY StreamTypes DEF StreamInv, SlotTaken, deviceVars
<1>6. /\ HeldLaid' /\ OneDcbPerSlot' /\ SubmittedSpanIsMapped'
      /\ \A c : Holds(c)' <=> Holds(c)
  BY <1>4, <1>5, HeldKept
<1>7. SlotTaken' /\ SpanMapped'
  BY <1>5, <1>6 DEF StreamInv, SlotTaken, SpanMapped, Holds
<1>8. Written'
  <2>1. slot' = slot /\ frame' = frame /\ step' - 1 = step
    BY <1>3
  <2>2. CASE step = Last
    <3>1. pc' = "composed" /\ saved' = [saved EXCEPT ![slot] = cursor']
      BY <2>2 DEF Last
    <3>2. saved'[slot] = cursor'
      BY <1>5, <3>1 DEF StreamInv, IInv, TypeOK
    <3> QED BY <1>4, <1>5, <2>1, <2>2, <3>1, <3>2 DEF StreamInv, Written
  <2>3. CASE step # Last
    <3>1. pc' = "composing"
      BY <2>3 DEF Last
    <3> QED BY <1>4, <1>5, <2>1, <3>1 DEF StreamInv, Written
  <2> QED BY <2>2, <2>3
<1>9. FenceTellsTruth'
  BY <1>5, FenceKept
<1> QED BY <1>6, <1>7, <1>8, <1>9 DEF StreamInv

LEMMA StoppingStream ==
  ASSUME StreamInv, IInv', ComposeFails \/ PresentHasNoRoom \/ SubmitFails
  PROVE  StreamInv'
BY StopStream DEF ComposeFails, PresentHasNoRoom, SubmitFails, Stop, deviceVars

LEMMA SubmitCallStream ==
  ASSUME StreamInv, IInv', SubmitCall PROVE StreamInv'
<1> USE DEF SubmitCall
<1>1. CASE saved[slot] = NoCursor \/ FenceOverlapsSlot(slot)
  BY <1>1, StopStream DEF Stop, deviceVars
<1>2. CASE ~(saved[slot] = NoCursor \/ FenceOverlapsSlot(slot))
  <2>1. /\ pc' = "presenting" /\ cursor' = saved[slot] /\ memory' = memory
        /\ fence' = [fence EXCEPT ![slot] = 1]
        /\ UNCHANGED <<slot, frame, busy, visible, queue>>
    BY <1>2 DEF deviceVars
  <2>2. slot \in Slots /\ fence'[slot] = 1 /\ ~Holds(slot) /\ busy[slot]
    BY <2>1, StreamTypes DEF StreamInv, SlotTaken
  <2>3. \A b \in Slots : b # slot => fence'[b] = fence[b]
    BY <2>1, StreamTypes DEF StreamInv
  <2>4. /\ HeldLaid' /\ OneDcbPerSlot' /\ SubmittedSpanIsMapped'
        /\ \A c : Holds(c)' <=> Holds(c)
    BY <2>1, HeldKept
  <2>5. SlotTaken' /\ SpanMapped'
    BY <2>1, <2>2, <2>4 DEF SlotTaken, SpanMapped, Holds
  <2>6. Written'
    BY <2>1 DEF StreamInv, Written
  <2>7. FenceTellsTruth'
    BY <2>1, <2>2, <2>3 DEF StreamInv, FenceTellsTruth, Holds
  <2> QED BY <2>4, <2>5, <2>6, <2>7 DEF StreamInv
<1> QED BY <1>1, <1>2

LEMMA SetFlipStream ==
  ASSUME StreamInv, IInv', SetFlip PROVE StreamInv'
<1> USE DEF SetFlip
<1>1. PICK a \in Answer(FlipRoom, "set_flip") :
        IF WriteFlip(FlipRoom, a)
          THEN /\ Commit(slot, "set_flip", a.up)
               /\ cursor' = cursor + a.up /\ pc' = "releasing"
          ELSE Stop
  OBVIOUS
<1>2. CASE ~WriteFlip(FlipRoom, a)
  BY <1>1, <1>2, StopStream DEF Stop
<1>3. CASE WriteFlip(FlipRoom, a)
  <2>1. a.up \in Nat \ {0}
    BY <1>3, ConstantsType, AnswerType DEF WriteFlip, FinishWriter
  <2>2. /\ Laid(memory'[slot], Last + 1, cursor', frame)
        /\ \A b \in Slots : b # slot => memory'[b] = memory[b]
    BY <1>1, <1>3, <2>1, PlanIs, CommitLays DEF StreamInv, Written
  <2>3. pc' = "releasing" /\ slot \in Slots /\ ~Holds(slot)
    BY <1>1, <1>3, StreamTypes DEF StreamInv, SlotTaken
  <2>4. /\ HeldLaid' /\ OneDcbPerSlot' /\ SubmittedSpanIsMapped'
        /\ \A c : Holds(c)' <=> Holds(c)
    BY <2>2, <2>3, HeldKept
  <2>5. SlotTaken' /\ SpanMapped' /\ Written'
    BY <2>2, <2>3, <2>4 DEF StreamInv, SlotTaken, SpanMapped, Written, Holds
  <2>6. FenceTellsTruth'
    BY <2>3, FenceKept
  <2> QED BY <2>4, <2>5, <2>6 DEF StreamInv
<1> QED BY <1>2, <1>3

LEMMA AppendReleaseStream ==
  ASSUME StreamInv, IInv', AppendRelease PROVE StreamInv'
<1> USE DEF AppendRelease
<1>1. CASE cursor > saved[slot] + FlipRoom \/ Room < ReleaseDwords
  BY <1>1, StopStream DEF Stop, deviceVars
<1>2. CASE ~(cursor > saved[slot] + FlipRoom \/ Room < ReleaseDwords)
  <2>1. /\ Commit(slot, "release", ReleaseDwords) /\ pc' = "flushing"
        /\ cursor' = cursor + ReleaseDwords
        /\ UNCHANGED <<slot, frame, busy, visible, fence, queue>>
    BY <1>2 DEF deviceVars
  <2>2. ReleaseDwords \in Nat \ {0} /\ Last + 1 + 1 = Last + 2 /\ Last + 1 \in Nat
    BY StreamAssumption, PlanIs
  <2>3. /\ Laid(memory'[slot], Last + 2, cursor', frame)
        /\ \A b \in Slots : b # slot => memory'[b] = memory[b]
    BY <2>1, <2>2, PlanIs, CommitLays DEF StreamInv, Written
  <2>4. slot \in Slots /\ ~Holds(slot)
    BY StreamTypes DEF StreamInv, SlotTaken
  <2>5. /\ HeldLaid' /\ OneDcbPerSlot' /\ SubmittedSpanIsMapped'
        /\ \A c : Holds(c)' <=> Holds(c)
    BY <2>1, <2>3, <2>4, HeldKept
  <2>6. SlotTaken' /\ SpanMapped' /\ Written'
    BY <2>1, <2>3, <2>4, <2>5 DEF StreamInv, SlotTaken, SpanMapped, Written, Holds
  <2>7. FenceTellsTruth'
    BY <2>1, FenceKept
  <2> QED BY <2>5, <2>6, <2>7 DEF StreamInv
<1> QED BY <1>1, <1>2

(* ps5_gpu_span_visible lets no span through that is not mapped: neither    *)
(* end wraps.                                                               *)
LEMMA VisibleIsMapped ==
  ASSUME NEW b \in Slots, NEW n \in Nat, SpanVisible(SlotAt[b], n)
  PROVE  Mapped(b, n)
<1>1. /\ SlotAt[b] \in Nat /\ MappingAt \in Nat /\ MappingDwords \in Nat
      /\ MaxAddress \in Nat
  BY StreamAssumption
<1>2. \A k \in 0 .. MaxAddress : k % (MaxAddress + 1) = k
  BY <1>1
<1>3. /\ SlotAt[b] + n \in 0 .. MaxAddress
      /\ MappingAt + MappingDwords \in 0 .. MaxAddress
  BY <1>1 DEF SpanVisible
<1>4. Word(SlotAt[b] + n) <= Word(MappingAt + MappingDwords)
  BY DEF SpanVisible
<1>5. SlotAt[b] + n <= MappingAt + MappingDwords
  BY <1>2, <1>3, <1>4 DEF Word
<1> QED BY <1>5 DEF SpanVisible, Mapped

LEMMA FlushStream ==
  ASSUME StreamInv, IInv', Flush PROVE StreamInv'
<1> USE DEF Flush
<1>1. CASE ~SpanVisible(SlotAt[slot], cursor)
  BY <1>1, StopStream DEF Stop, deviceVars
<1>2. CASE SpanVisible(SlotAt[slot], cursor)
  <2>1. /\ pc' = "submitting" /\ cursor' = cursor /\ memory' = memory
        /\ visible' = [visible EXCEPT ![slot] = {p \in memory[slot] : p.at < cursor}]
        /\ UNCHANGED <<slot, frame, busy, fence, queue>>
    BY <1>2 DEF deviceVars
  <2>2. slot \in Slots /\ ~Holds(slot) /\ cursor \in Nat /\ Last + 2 \in Nat
    BY StreamTypes DEF StreamInv, SlotTaken
  <2>3. Laid(memory[slot], Last + 2, cursor, frame)
    BY DEF StreamInv, Written
  <2>4. {p \in memory[slot] : p.at < cursor} = memory[slot]
    BY <2>2, <2>3, LaidFlushed
  <2>5. /\ visible'[slot] = memory[slot] /\ visible' = [b \in Slots |-> visible'[b]]
        /\ \A b \in Slots : b # slot => visible'[b] = visible[b]
    BY <2>1, <2>2, <2>4 DEF StreamInv, Written
  <2>6. /\ HeldLaid' /\ OneDcbPerSlot' /\ SubmittedSpanIsMapped'
        /\ \A c : Holds(c)' <=> Holds(c)
    BY <2>1, <2>2, <2>5, HeldKept
  <2>7. Mapped(slot, cursor)
    BY <1>2, <2>2, VisibleIsMapped
  <2>8. SlotTaken' /\ SpanMapped'
    BY <2>1, <2>2, <2>6, <2>7 DEF StreamInv, SlotTaken, SpanMapped, Holds, Mapped
  <2>9. Written'
    BY <2>1, <2>3, <2>5 DEF Written
  <2>10. FenceTellsTruth'
    BY <2>1, FenceKept
  <2> QED BY <2>6, <2>8, <2>9, <2>10 DEF StreamInv
<1> QED BY <1>1, <1>2

LEMMA DriverAcceptsStream ==
  ASSUME StreamInv, IInv', DriverAccepts PROVE StreamInv'
<1> USE DEF DriverAccepts
<1> DEFINE dcb == [slot |-> slot, token |-> frame, dwords |-> cursor]
<1>1. /\ queue' = Append(queue, dcb) /\ pc' = "suspending"
      /\ UNCHANGED <<slot, cursor, frame, busy, memory, visible, fence>>
  OBVIOUS
<1>2. /\ ~Holds(slot) /\ busy[slot] /\ fence[slot] = 1 /\ Mapped(slot, cursor)
      /\ Laid(memory[slot], Last + 2, cursor, frame)
      /\ Laid(visible[slot], Last + 2, cursor, frame)
  BY DEF StreamInv, SlotTaken, Written, SpanMapped
<1>3. dcb.slot = slot /\ dcb.token = frame /\ dcb.dwords = cursor
  OBVIOUS
<1>4. queue \in Seq(Dcbs) /\ dcb \in Dcbs
  BY StreamTypes DEF StreamInv, IInv, TypeOK, Dcbs
<1> HIDE DEF dcb
<1>5. /\ \A i \in DOMAIN queue' : \/ i \in DOMAIN queue /\ queue'[i] = queue[i]
                                  \/ i = Len(queue) + 1 /\ queue'[i] = dcb
      /\ \A i \in DOMAIN queue : i \in DOMAIN queue' /\ queue'[i] = queue[i]
      /\ Len(queue) + 1 \in DOMAIN queue' /\ queue'[Len(queue) + 1] = dcb
  <2>1. queue' = Append(queue, dcb)
    BY <1>1
  <2>2. Len(queue') = Len(queue) + 1 /\ Len(queue) \in Nat
    BY <1>4, <2>1
  <2>3. \A i \in 1 .. Len(queue) : queue'[i] = queue[i]
    BY <1>4, <2>1
  <2>4. queue'[Len(queue) + 1] = dcb
    BY <1>4, <2>1
  <2>5. DOMAIN queue' = 1 .. Len(queue) + 1 /\ DOMAIN queue = 1 .. Len(queue)
    BY <1>4, <2>1, <2>2
  <2> QED BY <2>2, <2>3, <2>4, <2>5
<1>6. \A i \in DOMAIN queue : queue[i].slot # slot
  BY <1>2 DEF Holds
<1>7. OneDcbPerSlot'
  <2>1. \A i \in DOMAIN queue' : busy'[queue'[i].slot]
    BY <1>1, <1>2, <1>3, <1>5 DEF StreamInv, OneDcbPerSlot
  <2>2. ASSUME NEW i \in DOMAIN queue', NEW j \in DOMAIN queue',
               queue'[i].slot = queue'[j].slot
        PROVE  i = j
    BY <1>3, <1>5, <1>6, <2>2 DEF StreamInv, OneDcbPerSlot
  <2> QED BY <2>1, <2>2 DEF OneDcbPerSlot
<1>8. HeldLaid'
  <2> SUFFICES ASSUME NEW i \in DOMAIN queue'
               PROVE  /\ Laid(memory[queue'[i].slot], Last + 2,
                              queue'[i].dwords, queue'[i].token)
                      /\ Laid(visible[queue'[i].slot], Last + 2,
                              queue'[i].dwords, queue'[i].token)
    BY <1>1 DEF HeldLaid
  <2>1. CASE queue'[i] = dcb
    BY <1>2, <1>3, <2>1
  <2>2. CASE queue'[i] # dcb
    BY <1>5, <2>2 DEF StreamInv, HeldLaid
  <2> QED BY <2>1, <2>2
<1>9. SpanMapped'
  BY <1>1, <1>2, <1>3, <1>5 DEF StreamInv, SpanMapped, SubmittedSpanIsMapped, Mapped
<1>10. SlotTaken' /\ Written'
  BY <1>1, <1>2 DEF StreamInv, SlotTaken, Written
<1>11. FenceTellsTruth'
  <2>1. \A b \in Slots : Holds(b)' => Holds(b) \/ b = slot
    BY <1>3, <1>5 DEF Holds
  <2>2. Holds(slot)'
    BY <1>1, <1>3, <1>5 DEF Holds
  <2>3. \A b \in Slots : Holds(b) => Holds(b)'
    BY <1>5 DEF Holds
  <2> SUFFICES ASSUME NEW b \in Slots
               PROVE  /\ Holds(b)' => fence[b] = 1
                      /\ busy[b] /\ ~Holds(b)' => fence[b] = 0
    BY <1>1 DEF FenceTellsTruth, Holds
  <2>4. Holds(b)' => fence[b] = 1
    BY <1>2, <2>1 DEF StreamInv, FenceTellsTruth, Holds
  <2>5. busy[b] /\ ~Holds(b)' => fence[b] = 0
    BY <2>2, <2>3 DEF StreamInv, FenceTellsTruth, Holds
  <2> QED BY <2>4, <2>5
<1> QED BY <1>7, <1>8, <1>9, <1>10, <1>11 DEF StreamInv

LEMMA ReturnsStream ==
  ASSUME StreamInv, IInv', SubmitReturns \/ \E b \in Slots : Retire(b)
  PROVE  StreamInv'
<1>1. CASE SubmitReturns
  <2>1. /\ pc = "suspending" /\ pc' = "idle"
        /\ UNCHANGED <<slot, busy, memory, visible, fence, queue>>
    BY <1>1 DEF SubmitReturns, deviceVars
  <2>2. HeldLaid' /\ OneDcbPerSlot' /\ SubmittedSpanIsMapped'
    BY <2>1, HeldKept
  <2>3. FenceTellsTruth'
    BY <2>1, FenceKept
  <2> QED BY <2>1, <2>2, <2>3 DEF StreamInv, SlotTaken, Written, SpanMapped
<1>2. ASSUME NEW b \in Slots, Retire(b) PROVE StreamInv'
  <2>1. /\ pc = "idle" /\ pc' = "idle" /\ fence[b] = 0
        /\ busy' = [busy EXCEPT ![b] = FALSE]
        /\ UNCHANGED <<slot, memory, visible, fence, queue>>
    BY <1>2 DEF Retire, deviceVars
  <2>2. ~Holds(b) /\ busy \in [Slots -> BOOLEAN]
    BY <2>1, StreamTypes DEF StreamInv, FenceTellsTruth, Holds
  <2>3. HeldLaid' /\ OneDcbPerSlot' /\ SubmittedSpanIsMapped'
    BY <2>1, <2>2, HeldKept
  <2>4. FenceTellsTruth'
    BY <2>1, <2>2 DEF StreamInv, FenceTellsTruth
  <2> QED BY <2>1, <2>3, <2>4 DEF StreamInv, SlotTaken, Written, SpanMapped
<1> QED BY <1>1, <1>2

(* The GPU reaches the release of what it executes, and lowers the fence.   *)
LEMMA GpuExecutesStream ==
  ASSUME StreamInv, IInv', GpuExecutes PROVE StreamInv'
<1> USE DEF GpuExecutes
<1>1. queue \in Seq(Dcbs) /\ queue # <<>> /\ queue' = Tail(queue)
  BY StreamTypes DEF StreamInv
<1> PICK dcb \in Dcbs : dcb = Head(queue)
  BY <1>1
<1>2. /\ 1 \in DOMAIN queue /\ dcb = queue[1]
      /\ \A i \in DOMAIN queue' : i + 1 \in DOMAIN queue /\ queue'[i] = queue[i + 1]
                                  /\ i + 1 # 1
      /\ \A i \in DOMAIN queue : i # 1 => i - 1 \in DOMAIN queue'
                                          /\ queue'[i - 1] = queue[i]
  BY <1>1
<1>3. dcb.slot \in Slots
  BY <1>2, StreamTypes DEF StreamInv
<1>4. \E p \in visible[dcb.slot] : p.kind = "release" /\ p.at < dcb.dwords
  BY <1>2, LaidIsWhole DEF StreamInv, HeldLaid
<1>5. /\ fence' = [fence EXCEPT ![dcb.slot] = 0]
      /\ UNCHANGED <<pc, slot, step, cursor, saved, frame, submitted, busy,
                     memory, visible>>
  BY <1>4 DEF cpuVars
<1>6. /\ fence'[dcb.slot] = 0
      /\ \A b \in Slots : b # dcb.slot => fence'[b] = fence[b]
  BY <1>3, <1>5, StreamTypes DEF StreamInv
<1>7. ~Holds(dcb.slot)'
  BY <1>2 DEF StreamInv, OneDcbPerSlot, Holds
<1>8. /\ \A b : Holds(b)' => Holds(b)
      /\ \A b : Holds(b) /\ b # dcb.slot => Holds(b)'
      /\ Holds(dcb.slot)
  BY <1>2, ZenonT(60) DEF Holds
<1>9. OneDcbPerSlot'
  <2>1. \A i \in DOMAIN queue' : busy'[queue'[i].slot]
    BY <1>2, <1>5 DEF StreamInv, OneDcbPerSlot
  <2>2. ASSUME NEW i \in DOMAIN queue', NEW j \in DOMAIN queue',
               queue'[i].slot = queue'[j].slot
        PROVE  i = j
    <3>1. i + 1 = j + 1
      BY <1>2, <2>2 DEF StreamInv, OneDcbPerSlot
    <3>2. i \in Nat /\ j \in Nat
      BY <1>1
    <3> QED BY <3>1, <3>2
  <2> QED BY <2>1, <2>2 DEF OneDcbPerSlot
<1>10. HeldLaid'
  BY <1>2, <1>5 DEF StreamInv, HeldLaid
<1>11. SpanMapped'
  BY <1>2, <1>5 DEF StreamInv, SpanMapped, SubmittedSpanIsMapped, Mapped
<1>12. SlotTaken'
  <2>1. pc \in {"composing", "composed", "presenting", "releasing", "flushing",
                "submitting"} => slot # dcb.slot /\ ~Holds(slot)
    BY <1>8 DEF StreamInv, SlotTaken
  <2>2. slot \in Slots
    BY StreamTypes DEF StreamInv
  <2>3. pc' \in {"composing", "composed", "presenting", "releasing", "flushing",
                 "submitting"} => ~Holds(slot)'
    BY <1>2, <1>5, <2>1 DEF Holds
  <2> QED BY <1>5, <1>6, <2>1, <2>2, <2>3 DEF StreamInv, SlotTaken
<1>13. Written'
  BY <1>5 DEF StreamInv, Written
<1>14. FenceTellsTruth'
  <2> SUFFICES ASSUME NEW b \in Slots
               PROVE  /\ Holds(b)' => fence'[b] = 1
                      /\ /\ busy[b] /\ ~Holds(b)'
                         /\ pc \in {"idle", "suspending"} \/ slot # b
                         => fence'[b] = 0
    BY <1>5 DEF FenceTellsTruth, Holds
  <2>1. CASE b = dcb.slot
    BY <1>6, <1>7, <2>1
  <2>2. CASE b # dcb.slot
    BY <1>6, <1>8, <2>2 DEF StreamInv, FenceTellsTruth, Holds
  <2> QED BY <2>1, <2>2
<1> QED BY <1>9, <1>10, <1>11, <1>12, <1>13, <1>14 DEF StreamInv

-----------------------------------------------------------------------------
LEMMA InitStream == ASSUME Init PROVE StreamInv
<1>1. IInv
  BY InitInv
<1>2. queue = <<>> /\ DOMAIN queue = {} /\ pc = "idle"
      /\ visible = [b \in Slots |-> {}] /\ busy = [b \in Slots |-> FALSE]
  BY DEF Init
<1>3. SlotTaken /\ OneDcbPerSlot /\ HeldLaid /\ SpanMapped /\ Written
  BY <1>2 DEF SlotTaken, OneDcbPerSlot, HeldLaid, SpanMapped, SubmittedSpanIsMapped,
              Written
<1>4. FenceTellsTruth
  BY <1>2 DEF FenceTellsTruth
<1> QED BY <1>1, <1>3, <1>4 DEF StreamInv

LEMMA StepStream == ASSUME StreamInv, IInv', [Next]_vars PROVE StreamInv'
<1>1. CASE UNCHANGED vars
  <2>1. UNCHANGED <<pc, slot, step, cursor, saved, frame, submitted, busy, memory,
                    visible, fence, queue, flips>>
    BY <1>1 DEF vars, cpuVars, deviceVars
  <2>2. HeldLaid' /\ OneDcbPerSlot' /\ SubmittedSpanIsMapped'
        /\ \A c : Holds(c)' <=> Holds(c)
    BY <2>1, HeldKept
  <2>3. FenceTellsTruth'
    BY <2>1, FenceKept
  <2>4. SlotTaken' /\ Written' /\ SpanMapped'
    BY <2>1, <2>2 DEF StreamInv, SlotTaken, Written, SpanMapped, Mapped, Holds
  <2> QED BY <2>2, <2>3, <2>4 DEF StreamInv
<1>2. CASE Next
  BY <1>2, ComposeCallStream, ReturnsStream, ComposePacketStream, StoppingStream,
     SubmitCallStream, SetFlipStream, AppendReleaseStream, FlushStream,
     DriverAcceptsStream, GpuExecutesStream DEF Next
<1> QED BY <1>1, <1>2

(* The inductive invariant of what the driver holds.                        *)
THEOREM StreamInvariant == Spec => []StreamInv
<1>1. Init => StreamInv
  BY InitStream
<1>2. StreamInv /\ [Next]_vars => StreamInv'
  <2> SUFFICES ASSUME StreamInv, [Next]_vars PROVE StreamInv'
    OBVIOUS
  <2>1. IInv'
    BY NextInv DEF StreamInv
  <2> QED BY <2>1, StepStream
<1> QED BY <1>1, <1>2, PTL DEF Spec

(* Every DCB the driver holds is one whole frame: all the packets of the    *)
(* plan, the flip and the release, in order, without a gap, of one frame,   *)
(* in memory and behind the cache.                                          *)
THEOREM WholeStreams == Spec => []StreamsAreWhole
<1>1. StreamInv => StreamsAreWhole
  BY LaidIsWhole DEF StreamInv, HeldLaid, StreamsAreWhole
<1> QED BY <1>1, StreamInvariant, PTL

(* No DCB reaches out of the mapping, whatever the layout and wherever the  *)
(* address space ends.                                                      *)
THEOREM MappedSpans == Spec => []SubmittedSpanIsMapped
<1>1. StreamInv => SubmittedSpanIsMapped
  BY DEF StreamInv, SpanMapped
<1> QED BY <1>1, StreamInvariant, PTL

(* A fence is up exactly while the driver holds the DCB it stands for.      *)
THEOREM TruthfulFences == Spec => []FenceTellsTruth
<1>1. StreamInv => FenceTellsTruth
  BY DEF StreamInv
<1> QED BY <1>1, StreamInvariant, PTL
=============================================================================
