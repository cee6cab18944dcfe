-------------------------- MODULE TelemetryProofs --------------------------
(***************************************************************************)
(* The telemetry of the frame runner, for every word size, every budget and *)
(* all times a frame may take.  Two things are shown: the runner with its   *)
(* telemetry is one of the clients of the frame runner, so that everything  *)
(* proved of those holds of it; and what it reports is true of the whole    *)
(* run, sums and averages included.                                         *)
(*                                                                          *)
(* The sums are folds over finite sets, and a fold is a function that is    *)
(* defined by recursion.  The first part shows that the function exists and *)
(* does not depend on the order in which the elements are taken, each time  *)
(* by a least counterexample among the natural numbers.                     *)
(***************************************************************************)
EXTENDS FrameLoopTelemetry, FrameLoopProofs, FunctionTheorems,
        WellFoundedInduction

LEMMA LeastNat ==
  ASSUME NEW N, N \subseteq Nat, N # {}
  PROVE  \E n \in N : \A m \in N : n <= m
<1>1. PICK n \in N : \A m \in N : ~(<<m, n>> \in OpToRel(<, Nat))
  BY NatLessThanWellFounded, WFMin
<1>2. \A m \in N : <<m, n>> \in OpToRel(<, Nat) <=> m < n
  BY DEF OpToRel
<1>3. \A m \in N : ~(m < n)
  BY <1>1, <1>2, Zenon
<1> QED BY <1>3

(* The element of a set that is added first, and what it is to be the sums  *)
(* of w over the subsets of D.                                              *)
First(s) == CHOOSE x \in s : TRUE

AddsUp(g, w, D) ==
  \A s \in SUBSET D :
    g[s] = IF s = {} THEN 0 ELSE w[First(s)] + g[s \ {First(s)}]

LEMMA FirstIn == ASSUME NEW s, s # {} PROVE First(s) \in s
BY DEF First

LEMMA SubsetSizes ==
  ASSUME NEW D, IsFiniteSet(D), NEW s \in SUBSET D
  PROVE  /\ IsFiniteSet(s) /\ Cardinality(s) \in Nat
         /\ Cardinality(s) = 0 <=> s = {}
         /\ \A x \in s : Cardinality(s \ {x}) = Cardinality(s) - 1
<1>1. IsFiniteSet(s)
  BY FS_Subset
<1> QED BY <1>1, FS_CardinalityType, FS_EmptySet, FS_RemoveElement

(* The function that the fold speaks of exists.                             *)
LEMMA SumExists ==
  ASSUME NEW D, IsFiniteSet(D), NEW w
  PROVE  \E g : AddsUp(g, w, D) /\ g = [s \in SUBSET D |-> g[s]]
<1> DEFINE Rhs(g, s) == IF s = {} THEN 0 ELSE w[First(s)] + g[s \ {First(s)}]
           UpTo(g, k) == \A s \in SUBSET D : Cardinality(s) <= k => g[s] = Rhs(g, s)
           Bad == {k \in Nat : ~\E g : UpTo(g, k)}
<1>1. \E g : UpTo(g, 0)
  <2>1. \A s \in SUBSET D : Cardinality(s) <= 0 => s = {}
    BY SubsetSizes
  <2>2. UpTo([s \in SUBSET D |-> 0], 0)
    BY <2>1
  <2> QED BY <2>2
<1>2. ASSUME NEW k \in Nat, NEW g, UpTo(g, k)
      PROVE  \E h : UpTo(h, k + 1)
  <2> DEFINE h == [s \in SUBSET D |-> IF Cardinality(s) <= k THEN g[s] ELSE Rhs(g, s)]
  <2>1. ASSUME NEW s \in SUBSET D, Cardinality(s) <= k + 1 PROVE h[s] = Rhs(h, s)
    <3>1. CASE s = {}
      <4>1. Cardinality(s) <= k
        BY <3>1, SubsetSizes
      <4> QED BY <1>2, <3>1, <4>1
    <3>2. CASE s # {}
      <4> DEFINE r == s \ {First(s)}
      <4>1. r \in SUBSET D /\ Cardinality(r) <= k
        BY <2>1, <3>2, FirstIn, SubsetSizes
      <4>2. h[r] = g[r]
        BY <4>1
      <4>3. h[s] = Rhs(g, s)
        BY <1>2
      <4> QED BY <3>2, <4>2, <4>3
    <3> QED BY <3>1, <3>2
  <2>2. UpTo(h, k + 1)
    <3> HIDE DEF h, Rhs
    <3> QED BY <2>1
  <2> QED BY <2>2
<1>3. Bad = {}
  <2> SUFFICES ASSUME Bad # {} PROVE FALSE
    OBVIOUS
  <2> HIDE DEF UpTo
  <2>1. PICK n \in Bad : \A m \in Bad : n <= m
    BY LeastNat
  <2>2. n # 0 /\ n - 1 \in Nat
    BY <1>1
  <2>3. \E g : UpTo(g, n - 1)
    BY <2>1, <2>2
  <2>4. \E h : UpTo(h, (n - 1) + 1)
    BY <1>2, <2>2, <2>3
  <2>5. (n - 1) + 1 = n
    BY <2>1
  <2> QED BY <2>1, <2>4, <2>5
<1>4. PICK g : UpTo(g, Cardinality(D))
  <2> HIDE DEF UpTo
  <2> QED BY <1>3, FS_CardinalityType
<1>5. \A s \in SUBSET D : g[s] = Rhs(g, s)
  BY <1>4, FS_Subset
<1> DEFINE f == [s \in SUBSET D |-> g[s]]
<1>6. \A s \in SUBSET D : Rhs(f, s) = Rhs(g, s)
  <2>1. ASSUME NEW s \in SUBSET D PROVE Rhs(f, s) = Rhs(g, s)
    <3>1. s \ {First(s)} \in SUBSET D
      OBVIOUS
    <3> QED BY <3>1
  <2> QED BY <2>1
<1>7. AddsUp(f, w, D)
  <2>1. \A s \in SUBSET D : f[s] = Rhs(f, s)
    BY <1>5, <1>6
  <2> HIDE DEF f
  <2> QED BY <2>1 DEF AddsUp
<1>8. f = [s \in SUBSET D |-> f[s]]
  OBVIOUS
<1> HIDE DEF f
<1> QED BY <1>7, <1>8

LEMMA SumRule ==
  ASSUME NEW D, IsFiniteSet(D), NEW w
  PROVE  \E g : SumFunctionOnSet(w, D) = g[D] /\ AddsUp(g, w, D)
<1> DEFINE Fold(g) == g = [s \in SUBSET D |->
                             IF s = {} THEN 0
                             ELSE w[First(s)] + g[s \ {First(s)}]]
           G == CHOOSE g : Fold(g)
<1>1. Fold(G)
  <2>1. PICK g : AddsUp(g, w, D) /\ g = [s \in SUBSET D |-> g[s]]
    BY SumExists
  <2>2. Fold(g)
    BY <2>1 DEF AddsUp
  <2> HIDE DEF Fold
  <2> QED BY <2>2, Zenon
<1>2. SumFunctionOnSet(w, D) = G[D]
  BY DEF SumFunctionOnSet, FoldFunctionOnSet, MapThenFoldSet, First
<1>3. AddsUp(G, w, D)
  <2> HIDE DEF G
  <2> QED BY <1>1 DEF AddsUp
<1> QED BY <1>2, <1>3


(* Two such functions agree where their weights do.                         *)
LEMMA SumsAgree ==
  ASSUME NEW D, IsFiniteSet(D), NEW E, D \subseteq E, NEW g, NEW h, NEW w, NEW v,
         AddsUp(g, w, D), AddsUp(h, v, E), \A x \in D : w[x] = v[x]
  PROVE  \A s \in SUBSET D : g[s] = h[s]
<1> DEFINE Bad == {Cardinality(s) : s \in {r \in SUBSET D : g[r] # h[r]}}
<1>1. SUFFICES ASSUME Bad # {} PROVE FALSE
  OBVIOUS
<1>2. Bad \subseteq Nat
  BY SubsetSizes
<1>3. PICK n \in Bad : \A m \in Bad : n <= m
  <2> HIDE DEF Bad
  <2> QED BY <1>1, <1>2, LeastNat
<1>4. PICK s \in SUBSET D : g[s] # h[s] /\ Cardinality(s) = n
  BY <1>3
<1> DEFINE x == First(s)
           r == s \ {x}
<1>5. s # {} /\ s \in SUBSET E
  BY <1>4 DEF AddsUp
<1>6. x \in s /\ r \in SUBSET D /\ Cardinality(r) = n - 1
  BY <1>4, <1>5, FirstIn, SubsetSizes
<1>7. g[r] = h[r]
  <2> SUFFICES ASSUME g[r] # h[r] PROVE FALSE
    OBVIOUS
  <2> HIDE DEF r, x
  <2>1. n - 1 \in Bad
    BY <1>6
  <2> HIDE DEF Bad
  <2> QED BY <1>2, <1>3, <2>1
<1>8. w[x] = v[x]
  BY <1>6
<1>9. g[s] = w[x] + g[r] /\ h[s] = v[x] + h[r]
  BY <1>5 DEF AddsUp
<1> QED BY <1>4, <1>7, <1>8, <1>9

(* The sum over a set depends on nothing but the weights of its elements.   *)
LEMMA SumSame ==
  ASSUME NEW D, IsFiniteSet(D), NEW w, NEW v, \A x \in D : w[x] = v[x]
  PROVE  SumFunctionOnSet(w, D) = SumFunctionOnSet(v, D)
<1>1. PICK g : SumFunctionOnSet(w, D) = g[D] /\ AddsUp(g, w, D)
  BY SumRule
<1>2. PICK h : SumFunctionOnSet(v, D) = h[D] /\ AddsUp(h, v, D)
  BY SumRule
<1> QED BY <1>1, <1>2, SumsAgree

(* How the fold takes a set apart.                                          *)
LEMMA SumFirst ==
  ASSUME NEW D, IsFiniteSet(D), NEW w
  PROVE  SumFunctionOnSet(w, D) =
           IF D = {} THEN 0
           ELSE w[First(D)] + SumFunctionOnSet(w, D \ {First(D)})
<1> DEFINE r == D \ {First(D)}
<1>1. PICK g : SumFunctionOnSet(w, D) = g[D] /\ AddsUp(g, w, D)
  BY SumRule
<1>2. IsFiniteSet(r) /\ r \in SUBSET D
  BY FS_Subset
<1>3. PICK h : SumFunctionOnSet(w, r) = h[r] /\ AddsUp(h, w, r)
  BY <1>2, SumRule
<1>4. h[r] = g[r]
  <2> HIDE DEF r
  <2> QED BY <1>1, <1>2, <1>3, SumsAgree
<1> QED BY <1>1, <1>3, <1>4 DEF AddsUp

LEMMA SumEmpty == \A w : SumFunctionOnSet(w, {}) = 0
BY SumFirst, FS_EmptySet

(* A sum of natural numbers is one.                                         *)
LEMMA SumNat ==
  ASSUME NEW D, IsFiniteSet(D), NEW w, \A x \in D : w[x] \in Nat
  PROVE  SumFunctionOnSet(w, D) \in Nat
<1> DEFINE Sum(s) == SumFunctionOnSet(w, s)
           Bad == {Cardinality(s) : s \in {r \in SUBSET D : Sum(r) \notin Nat}}
<1>1. SUFFICES ASSUME Bad # {} PROVE FALSE
  OBVIOUS
<1>2. Bad \subseteq Nat
  BY SubsetSizes
<1>3. PICK n \in Bad : \A m \in Bad : n <= m
  <2> HIDE DEF Bad
  <2> QED BY <1>1, <1>2, LeastNat
<1>4. PICK s \in SUBSET D : Sum(s) \notin Nat /\ Cardinality(s) = n
  BY <1>3
<1> DEFINE r == s \ {First(s)}
<1>5. IsFiniteSet(s)
  BY SubsetSizes
<1>6. s # {}
  BY <1>4, SumEmpty
<1>7. First(s) \in s /\ r \in SUBSET D /\ Cardinality(r) = n - 1
  BY <1>4, <1>6, FirstIn, SubsetSizes
<1>8. Sum(r) \in Nat
  <2> SUFFICES ASSUME Sum(r) \notin Nat PROVE FALSE
    OBVIOUS
  <2> HIDE DEF r, Sum
  <2>1. n - 1 \in Bad
    BY <1>7
  <2> HIDE DEF Bad
  <2> QED BY <1>2, <1>3, <2>1
<1>9. Sum(s) = w[First(s)] + Sum(r)
  BY <1>5, <1>6, SumFirst
<1>10. w[First(s)] \in Nat
  BY <1>7
<1> QED BY <1>4, <1>8, <1>9, <1>10

(* The order does not matter: any element may be added last.                *)
LEMMA SumInsert ==
  ASSUME NEW D, IsFiniteSet(D), NEW w, \A x \in D : w[x] \in Nat
  PROVE  \A e \in D :
           SumFunctionOnSet(w, D) = w[e] + SumFunctionOnSet(w, D \ {e})
<1> DEFINE Sum(s) == SumFunctionOnSet(w, s)
           Off(s) == \E e \in s : Sum(s) # w[e] + Sum(s \ {e})
           Bad == {Cardinality(s) : s \in {r \in SUBSET D : Off(r)}}
<1>1. SUFFICES ASSUME Off(D) PROVE FALSE
  OBVIOUS
<1>2. Bad \subseteq Nat /\ Bad # {}
  <2>1. Bad \subseteq Nat
    BY SubsetSizes
  <2>2. Cardinality(D) \in Bad
    <3> HIDE DEF Off
    <3> QED BY <1>1
  <2> HIDE DEF Bad
  <2> QED BY <2>1, <2>2
<1>3. PICK n \in Bad : \A m \in Bad : n <= m
  <2> HIDE DEF Bad
  <2> QED BY <1>2, LeastNat
<1>4. PICK s \in SUBSET D : Off(s) /\ Cardinality(s) = n
  <2> HIDE DEF Off
  <2> QED BY <1>3
<1>5. PICK e \in s : Sum(s) # w[e] + Sum(s \ {e})
  BY <1>4
<1> DEFINE x == First(s)
           r == s \ {x}
           q == s \ {e}
<1>6. /\ IsFiniteSet(s) /\ x \in s
      /\ r \in SUBSET D /\ q \in SUBSET D
      /\ Cardinality(r) = n - 1 /\ Cardinality(q) = n - 1
  BY <1>4, FirstIn, SubsetSizes
<1>7. Sum(s) = w[x] + Sum(r)
  BY <1>6, SumFirst
<1>8. x # e
  BY <1>5, <1>7
<1>9. \A t \in SUBSET D : IsFiniteSet(t) /\ Sum(t) \in Nat
  BY SubsetSizes, SumNat
<1>10. ~Off(r) /\ ~Off(q)
  <2>1. n - 1 \notin Bad
    <3> HIDE DEF Bad
    <3> QED BY <1>2, <1>3
  <2> HIDE DEF Off, r, q
  <2> QED BY <1>6, <2>1
<1>11. Sum(r) = w[e] + Sum(r \ {e}) /\ Sum(q) = w[x] + Sum(q \ {x})
  BY <1>6, <1>8, <1>10
<1>12. r \ {e} = q \ {x} /\ r \ {e} \in SUBSET D
  BY <1>6
<1>13. w[x] \in Nat /\ w[e] \in Nat /\ Sum(r \ {e}) \in Nat
  BY <1>6, <1>9, <1>12
<1>14. Sum(s) # w[e] + Sum(q) /\ Sum(r \ {e}) = Sum(q \ {x})
  BY <1>5, <1>12
<1> HIDE DEF Sum, r, q, x
<1> QED BY <1>7, <1>11, <1>13, <1>14

(* One weight changes, perhaps from nothing, and with it the sum.           *)
LEMMA SumChanges ==
  ASSUME NEW D, IsFiniteSet(D), NEW w, NEW v, NEW x,
         \A y \in D : w[y] \in Nat,
         \A y \in D \ {x} : v[y] = w[y],
         v[x] \in Nat
  PROVE  /\ SumFunctionOnSet(v, D \cup {x}) \in Nat
         /\ SumFunctionOnSet(w, D) \in Nat
         /\ x \in D => SumFunctionOnSet(v, D \cup {x}) + w[x] =
                        SumFunctionOnSet(w, D) + v[x]
         /\ x \notin D => SumFunctionOnSet(v, D \cup {x}) =
                           SumFunctionOnSet(w, D) + v[x]
<1> DEFINE E == D \cup {x}
           R == D \ {x}
<1>1. IsFiniteSet(E) /\ IsFiniteSet(R) /\ E \ {x} = R
  BY FS_AddElement, FS_RemoveElement
<1>2. \A y \in E : v[y] \in Nat
  OBVIOUS
<1>3. SumFunctionOnSet(v, E) = v[x] + SumFunctionOnSet(v, R)
  <2> HIDE DEF R
  <2>1. x \in E
    OBVIOUS
  <2> HIDE DEF E
  <2> QED BY <1>1, <1>2, <2>1, SumInsert
<1>4. SumFunctionOnSet(v, R) = SumFunctionOnSet(w, R)
  BY <1>1, SumSame
<1>5. SumFunctionOnSet(w, R) \in Nat /\ SumFunctionOnSet(w, D) \in Nat
  BY <1>1, SumNat
<1>6. x \in D => SumFunctionOnSet(w, D) = w[x] + SumFunctionOnSet(w, R)
  BY SumInsert
<1>7. x \notin D => R = D
  OBVIOUS
<1>8. x \in D => w[x] \in Nat
  OBVIOUS
<1> HIDE DEF R, E
<1> QED BY <1>3, <1>4, <1>5, <1>6, <1>7, <1>8 DEF E

-----------------------------------------------------------------------------
(* A step of the runner with its telemetry is a step of the runner, in      *)
(* which the telemetry decided whether the frame is counted.                *)
LEMMA RetiredIsAStep == ASSUME NEW time, FrameRetired(time) PROVE InCall
<1> DEFINE counted == S!CanRecord(stats, time, OverBudget(time))
<1>1. counted \in BOOLEAN
  BY DEF S!CanRecord
<1>2. PICK observed \in Observable : WaitVideoOutReturns(TRUE, observed, counted)
  BY DEF FrameRetired
<1> HIDE DEF counted
<1> QED BY <1>1, <1>2 DEF InCall

LEMMA TelemetryStepIsAStep == [TelemetryNext]_vars => [Next]_loopVars
<1>1. TelemetryNext => Next
  BY RetiredIsAStep DEF TelemetryNext, TelemetryInCall, Next
<1>2. UNCHANGED vars => UNCHANGED loopVars
  BY DEF vars
<1> QED BY <1>1, <1>2

(* The accumulators only decide what FrameLoopClient leaves open, so that   *)
(* every behaviour of the runner with its telemetry is one of that module.  *)
THEOREM TelemetryIsAClient == TelemetrySpec => Spec
<1>1. TelemetryInit => Init
  BY DEF TelemetryInit
<1> QED BY <1>1, TelemetryStepIsAStep, PTL DEF TelemetrySpec, Spec

(* With its telemetry the runner keeps every promise proved of it without:  *)
(* the safety properties and the refinement that the run checks.            *)
THEOREM TelemetryKeepsPromises ==
  TelemetrySpec => /\ [](SlotsAgree /\ FramesAccountedFor)
                   /\ [](EndingsAreSound /\ SamplesInOrder)
                   /\ ImplementsFramesInFlight
BY TelemetryIsAClient, LoopSlotsAgree, LoopFramesAccountedFor, LoopEndings,
   LoopSamplesInOrder, LoopRefinesFlight, PTL

-----------------------------------------------------------------------------
(* Every failure is sampled.                                                *)
LEMMA ErrorLengthens ==
  ASSUME TypeOK, NEW f, Sample(f, TRUE, FALSE) PROVE samples' # samples
<1>1. samples \in Seq(Indices \X BOOLEAN)
  BY DEF TypeOK
<1>2. samples' = Append(samples, <<f, TRUE>>)
  BY DEF Sample, ShouldSample
<1>3. Len(samples') = Len(samples) + 1 /\ Len(samples) \in Nat
  BY <1>1, <1>2
<1> QED BY <1>3

(* What a step that retires no frame may do to the result.                  *)
OtherStep ==
  /\ result'.frames_completed = result.frames_completed
  /\ result'.state = result.state \/ result.state = "ACTIVE"
  /\ result'.state = result.state \/ result'.state = "COMPLETE" \/ samples' # samples

RunResults == [state : RunStates, frames_completed : Indices,
               max_frames_in_flight : 0 .. 2, failed_frame : Indices,
               retained_token : {0} \cup T!Tokens]

LEMMA FailureIsOther ==
  ASSUME TypeOK, result.state = "ACTIVE", NEW f,
         FailBeforeSubmit(f) \/ \E b : RetainFailure(b, f)
  PROVE  OtherStep
<1>1. result \in RunResults
  BY DEF TypeOK, RunResults
<1>2. ASSUME NEW b, RetainFailure(b, f) PROVE OtherStep
  BY <1>1, <1>2, ErrorLengthens DEF RetainFailure, OtherStep, RunResults
<1>3. ASSUME FailBeforeSubmit(f) PROVE OtherStep
  <2>1. CASE Active # {}
    BY <1>2, <1>3, <2>1 DEF FailBeforeSubmit
  <2>2. CASE Active = {}
    BY <1>1, <1>3, <2>2, ErrorLengthens DEF FailBeforeSubmit, OtherStep, RunResults
  <2> QED BY <2>1, <2>2
<1> QED BY <1>2, <1>3

LEMMA CallIsOther ==
  ASSUME StepCall \/ DrainCall \/ RejectedCall PROVE OtherStep
BY DEF StepCall, DrainCall, RejectedCall, OtherStep

LEMMA InCallIsOther ==
  ASSUME IInv, InCall, active_frames' >= active_frames PROVE OtherStep
<1>1. TypeOK /\ result \in RunResults /\ active_frames \in Nat
  BY DEF IInv, TypeOK, RunResults
<1>2. ~At("idle") /\ result.state = "ACTIVE"
  BY DEF IInv, CallConsistent, InCall, At, Internal, DrainOldest, DrainComplete,
         PrepareOk, PrepareSceneFails, PrepareRefused, ComposeReturns,
         SubmitReturns, WaitGpuReturns, WaitVideoOutReturns
<1>3. CASE Internal
  BY <1>1, <1>2, <1>3
     DEF Internal, DrainOldest, DrainComplete, OtherStep, RunResults
<1>4. CASE PrepareOk
  BY <1>4 DEF PrepareOk, OtherStep
<1>5. CASE PrepareSceneFails
  BY <1>1, <1>2, <1>5, FailureIsOther DEF PrepareSceneFails
<1>6. CASE \E clock_ok \in BOOLEAN : PrepareRefused(clock_ok)
  BY <1>1, <1>2, <1>6, FailureIsOther DEF PrepareRefused
<1>7. ASSUME NEW ok \in BOOLEAN, ComposeReturns(ok) PROVE OtherStep
  <2>1. CASE ok
    BY <1>1, <1>7, <2>1 DEF ComposeReturns, OtherStep, RunResults
  <2>2. CASE ~ok
    BY <1>1, <1>2, <1>7, <2>2, FailureIsOther DEF ComposeReturns
  <2> QED BY <2>1, <2>2
<1>8. ASSUME NEW ok \in BOOLEAN, SubmitReturns(ok) PROVE OtherStep
  <2>1. CASE ok
    BY <1>8, <2>1 DEF SubmitReturns, OtherStep
  <2>2. CASE ~ok
    BY <1>1, <1>2, <1>8, <2>2, FailureIsOther DEF SubmitReturns
  <2> QED BY <2>1, <2>2
<1>9. ASSUME NEW ok \in BOOLEAN, WaitGpuReturns(ok) PROVE OtherStep
  <2>1. CASE ok /\ T!Holds(call.slot, "SUBMITTED", pending[call.slot].token)
    BY <1>9, <2>1 DEF WaitGpuReturns, OtherStep
  <2>2. CASE ~(ok /\ T!Holds(call.slot, "SUBMITTED", pending[call.slot].token))
    BY <1>1, <1>2, <1>9, <2>2, FailureIsOther DEF WaitGpuReturns
  <2> QED BY <2>1, <2>2
<1>10. ASSUME NEW ok \in BOOLEAN, NEW observed \in Observable,
              NEW counted \in BOOLEAN,
              WaitVideoOutReturns(ok, observed, counted)
       PROVE  OtherStep
  <2>1. CASE ok /\ T!Holds(call.slot, "SUBMITTED", observed)
    BY <1>1, <1>10, <2>1 DEF WaitVideoOutReturns
  <2>2. CASE ~(ok /\ T!Holds(call.slot, "SUBMITTED", observed))
    BY <1>1, <1>2, <1>10, <2>2, FailureIsOther DEF WaitVideoOutReturns
  <2> QED BY <2>1, <2>2
<1> QED BY <1>3, <1>4, <1>5, <1>6, <1>7, <1>8, <1>9, <1>10 DEF InCall


(* What a retired frame does to the result.                                 *)
LEMMA RetiredResult ==
  ASSUME IInv, NEW time, FrameRetired(time)
  PROVE  /\ result.state = "ACTIVE"
         /\ IF S!CanRecord(stats, time, OverBudget(time))
              THEN /\ result'.state = "ACTIVE"
                   /\ result'.frames_completed = result.frames_completed + 1
              ELSE /\ result'.state = "TELEMETRY_FAILURE"
                   /\ result'.frames_completed = result.frames_completed
<1> DEFINE counted == S!CanRecord(stats, time, OverBudget(time))
<1>1. PICK observed \in Observable : WaitVideoOutReturns(TRUE, observed, counted)
  BY DEF FrameRetired
<1> HIDE DEF counted
<1>2. result \in RunResults /\ active_frames \in Nat
  BY DEF IInv, TypeOK, RunResults
<1>3. ~At("idle") /\ result.state = "ACTIVE"
  BY <1>1 DEF IInv, CallConsistent, At, WaitVideoOutReturns
<1>4. active_frames' < active_frames
  BY DEF FrameRetired
<1>5. T!Holds(call.slot, "SUBMITTED", observed)
  BY <1>1, <1>2, <1>4 DEF WaitVideoOutReturns
<1>6. Account(call.slot, counted)
  BY <1>1, <1>5 DEF WaitVideoOutReturns
<1> QED BY <1>2, <1>3, <1>6 DEF Account, RunResults, counted

-----------------------------------------------------------------------------
(* The accumulators say of the whole history what their names promise, and  *)
(* the report shows them.                                                   *)
TimeType == [S!Times -> 0 .. MaxWord]

RecordedOk ==
  /\ IsFiniteSet(Frames) /\ Frames \subseteq TimeType
  /\ recorded \in [Frames -> Nat]

StatsType ==
  [frames_completed : 0 .. MaxWord, present_intervals : 0 .. MaxWord,
   present_interval_over_budget : 0 .. MaxWord, errors : 0 .. MaxWord,
   total : TimeType, max : TimeType]

StatsCount ==
  /\ stats.frames_completed = Count(Frames)
  /\ stats.present_intervals = Count(Paced)
  /\ stats.present_interval_over_budget = Count(Late)
  /\ stats.errors = IF result.state \in {"ACTIVE", "COMPLETE"} THEN 0 ELSE 1
  /\ result.frames_completed = Count(Frames)

StatsAddUp == \A t \in S!Times : stats.total[t] = Total(t)

Longest(max, frames, t) ==
  /\ max \in {0} \cup {time[t] : time \in frames}
  /\ \A time \in frames : time[t] <= max

StatsLongest == \A t \in S!Times : Longest(stats.max[t], Frames, t)

TInv ==
  /\ RecordedOk
  /\ stats \in StatsType
  /\ StatsCount
  /\ StatsAddUp
  /\ StatsLongest
  /\ report = S!Snapshot(stats)

(* A frame joins the history.                                               *)
LEMMA HistoryGrows ==
  ASSUME RecordedOk, NEW time \in TimeType,
         recorded' = recorded (+) SetToBag({time})
  PROVE  /\ RecordedOk'
         /\ Frames' = Frames \cup {time}
         /\ \A y \in Frames \ {time} : recorded'[y] = recorded[y]
         /\ recorded'[time] = (IF time \in Frames THEN recorded[time] ELSE 0) + 1
<1>1. Frames = DOMAIN recorded /\ Frames' = DOMAIN recorded'
  BY DEF Frames, BagToSet
<1>2. recorded' = [y \in Frames \cup {time} |->
                     (IF y \in Frames THEN recorded[y] ELSE 0)
                       + (IF y \in {time} THEN 1 ELSE 0)]
  BY <1>1 DEF (+), SetToBag
<1>3. Frames' = Frames \cup {time}
  BY <1>1, <1>2
<1>4. IsFiniteSet(Frames')
  BY <1>3, FS_AddElement DEF RecordedOk
<1>5. \A y \in Frames : recorded[y] \in Nat
  BY DEF RecordedOk
<1>6. recorded' \in [Frames' -> Nat]
  <2>1. ASSUME NEW y \in Frames' PROVE recorded'[y] \in Nat
    <3> DEFINE old == IF y \in Frames THEN recorded[y] ELSE 0
               up == IF y \in {time} THEN 1 ELSE 0
    <3>1. old \in Nat /\ up \in Nat
      BY <1>5
    <3>2. recorded'[y] = old + up
      BY <1>2, <1>3
    <3> HIDE DEF old, up
    <3> QED BY <3>1, <3>2
  <2>2. recorded' = [y \in Frames' |-> recorded'[y]]
    BY <1>2, <1>3
  <2> QED BY <2>1, <2>2
<1> QED BY <1>2, <1>3, <1>4, <1>5, <1>6 DEF RecordedOk

(* A set of frames that the new one joins counts one more, any other set    *)
(* counts the same.                                                         *)
LEMMA CountJoins ==
  ASSUME RecordedOk, NEW time \in TimeType,
         recorded' = recorded (+) SetToBag({time}),
         NEW old \in SUBSET Frames, time \in Frames => time \in old
  PROVE  SumFunctionOnSet(recorded', old \cup {time}) =
           SumFunctionOnSet(recorded, old) + 1
<1>1. IsFiniteSet(old) /\ \A y \in old : recorded[y] \in Nat
  BY FS_Subset DEF RecordedOk
<1>2. \A y \in old \ {time} : recorded'[y] = recorded[y]
  BY HistoryGrows
<1>3. recorded'[time] = (IF time \in old THEN recorded[time] ELSE 0) + 1
  BY HistoryGrows
<1>4. recorded'[time] \in Nat
  BY <1>1, <1>3
<1> DEFINE w == recorded
           v == recorded'
<1> HIDE DEF w, v
<1>5. /\ \A y \in old : w[y] \in Nat
      /\ \A y \in old \ {time} : v[y] = w[y]
      /\ v[time] \in Nat
  BY <1>1, <1>2, <1>4 DEF w, v
<1>6. /\ SumFunctionOnSet(v, old \cup {time}) \in Nat
      /\ SumFunctionOnSet(w, old) \in Nat
      /\ time \in old => SumFunctionOnSet(v, old \cup {time}) + w[time] =
                           SumFunctionOnSet(w, old) + v[time]
      /\ time \notin old => SumFunctionOnSet(v, old \cup {time}) =
                              SumFunctionOnSet(w, old) + v[time]
  BY <1>1, <1>5, SumChanges
<1>7. v[time] = (IF time \in old THEN w[time] ELSE 0) + 1
  BY <1>3 DEF w, v
<1>8. SumFunctionOnSet(v, old \cup {time}) = SumFunctionOnSet(w, old) + 1
  BY <1>5, <1>6, <1>7
<1> QED BY <1>8 DEF w, v

LEMMA CountStays ==
  ASSUME RecordedOk, NEW time \in TimeType,
         recorded' = recorded (+) SetToBag({time}),
         NEW old \in SUBSET Frames, time \notin old
  PROVE  SumFunctionOnSet(recorded', old) = SumFunctionOnSet(recorded, old)
<1>1. IsFiniteSet(old)
  BY FS_Subset DEF RecordedOk
<1>2. \A y \in old : recorded'[y] = recorded[y]
  BY HistoryGrows
<1> QED BY <1>1, <1>2, SumSame

LEMMA CountNat ==
  ASSUME RecordedOk, NEW set \in SUBSET Frames
  PROVE  SumFunctionOnSet(recorded, set) \in Nat
<1>1. IsFiniteSet(set) /\ \A y \in set : recorded[y] \in Nat
  BY FS_Subset DEF RecordedOk
<1> QED BY <1>1, SumNat

LEMMA TotalGrows ==
  ASSUME RecordedOk, NEW time \in TimeType, NEW t \in S!Times,
         recorded' = recorded (+) SetToBag({time})
  PROVE  Total(t) \in Nat /\ Total(t)' = Total(t) + time[t]
<1> DEFINE w == [y \in Frames |-> recorded[y] * y[t]]
           v == [y \in Frames' |-> recorded'[y] * y[t]]
<1>1. /\ IsFiniteSet(Frames) /\ Frames' = Frames \cup {time}
      /\ \A y \in Frames : recorded[y] \in Nat
      /\ \A y \in Frames' : y[t] \in Nat
      /\ \A y \in Frames \ {time} : recorded'[y] = recorded[y]
      /\ recorded'[time] = (IF time \in Frames THEN recorded[time] ELSE 0) + 1
  <2>1. \A y \in TimeType : y[t] \in Nat
    BY TimingAssumption DEF TimeType
  <2>2. IsFiniteSet(Frames) /\ Frames \subseteq TimeType
        /\ \A y \in Frames : recorded[y] \in Nat
    BY DEF RecordedOk
  <2> QED BY <2>1, <2>2, HistoryGrows
<1>2. \A y \in Frames : w[y] \in Nat
  <2>1. \A a, b \in Nat : a * b \in Nat
    OBVIOUS
  <2> QED BY <1>1, <2>1
<1>3. \A y \in Frames \ {time} : v[y] = w[y]
  BY <1>1
<1>4. v[time] = (IF time \in Frames THEN w[time] ELSE 0) + time[t]
  <2>1. \A a, b \in Nat : (a + 1) * b = a * b + b /\ (0 + 1) * b = b
    OBVIOUS
  <2> QED BY <1>1, <2>1
<1>5. time[t] \in Nat
  BY <1>1
<1> HIDE DEF w, v
<1>6. v[time] \in Nat
  BY <1>2, <1>4, <1>5
<1>7. /\ SumFunctionOnSet(v, Frames') \in Nat
      /\ SumFunctionOnSet(w, Frames) \in Nat
      /\ time \in Frames => SumFunctionOnSet(v, Frames') + w[time] =
                              SumFunctionOnSet(w, Frames) + v[time]
      /\ time \notin Frames => SumFunctionOnSet(v, Frames') =
                                 SumFunctionOnSet(w, Frames) + v[time]
  BY <1>1, <1>2, <1>3, <1>6, SumChanges
<1>8. Total(t) = SumFunctionOnSet(w, Frames)
  BY DEF Total, w
<1>9. Total(t)' = SumFunctionOnSet(v, Frames')
  BY DEF Total, v
<1> QED BY <1>2, <1>4, <1>5, <1>7, <1>8, <1>9


(* A frame whose times CanRecord lets through is recorded without any       *)
(* counter or sum wrapping round (gears_telemetry.c "record_frame").        *)
THEOREM RecordNeverWraps ==
  ASSUME NEW old \in StatsType, NEW time \in TimeType, NEW over \in BOOLEAN,
         S!CanRecord(old, time, over)
  PROVE  LET new == S!Recorded(old, time, over)
             one(yes) == IF yes THEN 1 ELSE 0
         IN  /\ new \in StatsType
             /\ new.frames_completed = old.frames_completed + 1
             /\ new.present_intervals =
                  old.present_intervals + one(time["present_interval"] # 0)
             /\ new.present_interval_over_budget =
                  old.present_interval_over_budget + one(over)
             /\ new.errors = old.errors
             /\ \A t \in S!Times :
                  /\ new.total[t] = old.total[t] + time[t]
                  /\ new.max[t] = IF old.max[t] > time[t] THEN old.max[t] ELSE time[t]
<1> DEFINE up(counter, yes) == IF yes THEN S!Word(counter + 1) ELSE counter
           total == [t \in S!Times |-> S!Word(old.total[t] + time[t])]
           max == [t \in S!Times |-> IF old.max[t] > time[t] THEN old.max[t]
                                                            ELSE time[t]]
           new == S!Recorded(old, time, over)
<1>1. MaxWord \in Nat
  BY TimingAssumption
<1>2. \A n \in 0 .. MaxWord : S!Word(n) = n
  BY <1>1 DEF S!Word
<1>3. /\ old.frames_completed \in 0 .. MaxWord - 1
      /\ time["present_interval"] # 0 => old.present_intervals \in 0 .. MaxWord - 1
      /\ over => old.present_interval_over_budget \in 0 .. MaxWord - 1
      /\ old.present_intervals \in 0 .. MaxWord
      /\ old.present_interval_over_budget \in 0 .. MaxWord
  BY <1>1 DEF StatsType, S!CanRecord
<1>4. \A t \in S!Times :
        /\ old.total[t] \in 0 .. MaxWord /\ old.max[t] \in 0 .. MaxWord
        /\ time[t] \in 0 .. MaxWord /\ time[t] <= MaxWord - old.total[t]
  BY DEF StatsType, TimeType, S!CanRecord
<1>5. \A t \in S!Times : old.total[t] + time[t] \in 0 .. MaxWord
  BY <1>1, <1>4
<1>6. \A t \in S!Times : total[t] = old.total[t] + time[t]
  BY <1>2, <1>5
<1>7. total \in TimeType /\ max \in TimeType
  <2>1. \A t \in S!Times : total[t] \in 0 .. MaxWord /\ max[t] \in 0 .. MaxWord
    BY <1>4, <1>5, <1>6
  <2>2. total = [t \in S!Times |-> total[t]] /\ max = [t \in S!Times |-> max[t]]
    OBVIOUS
  <2> HIDE DEF total, max
  <2> QED BY <2>1, <2>2 DEF TimeType
<1>8. new = [old EXCEPT
               !.frames_completed = up(old.frames_completed, TRUE),
               !.present_intervals =
                 up(old.present_intervals, time["present_interval"] # 0),
               !.present_interval_over_budget =
                 up(old.present_interval_over_budget, over),
               !.total = total, !.max = max]
  BY DEF S!Recorded, StatsType
<1>9. /\ up(old.frames_completed, TRUE) = old.frames_completed + 1
      /\ up(old.present_intervals, time["present_interval"] # 0) =
           old.present_intervals + (IF time["present_interval"] # 0 THEN 1 ELSE 0)
      /\ up(old.present_interval_over_budget, over) =
           old.present_interval_over_budget + (IF over THEN 1 ELSE 0)
      /\ up(old.frames_completed, TRUE) \in 0 .. MaxWord
      /\ up(old.present_intervals, time["present_interval"] # 0) \in 0 .. MaxWord
      /\ up(old.present_interval_over_budget, over) \in 0 .. MaxWord
  BY <1>1, <1>2, <1>3
<1>10. \A t \in S!Times :
         max[t] = IF old.max[t] > time[t] THEN old.max[t] ELSE time[t]
  OBVIOUS
<1> HIDE DEF up, total, max, new
<1>11. /\ new \in StatsType
       /\ new.frames_completed = up(old.frames_completed, TRUE)
       /\ new.present_intervals =
            up(old.present_intervals, time["present_interval"] # 0)
       /\ new.present_interval_over_budget =
            up(old.present_interval_over_budget, over)
       /\ new.errors = old.errors /\ new.total = total /\ new.max = max
  BY <1>7, <1>8, <1>9 DEF StatsType
<1> QED BY <1>6, <1>9, <1>10, <1>11 DEF new


(* What the clock readings of a frame amount to are words.                  *)
LEMMA MeasuredType ==
  ASSUME NEW time \in Timings PROVE Measured(time) \in TimeType
<1>1. time \in TimeType /\ MaxWord \in Nat
  BY TimingAssumption DEF TimeType
<1> DEFINE first == [time EXCEPT !["present_interval"] = 0]
<1>2. first \in TimeType
  <2>1. first = [t \in S!Times |-> IF t = "present_interval" THEN 0 ELSE time[t]]
    BY <1>1 DEF TimeType
  <2>2. 0 \in 0 .. MaxWord /\ \A t \in S!Times : time[t] \in 0 .. MaxWord
    BY <1>1 DEF TimeType
  <2> HIDE DEF first
  <2> QED BY <2>1, <2>2 DEF TimeType
<1>3. Measured(time) = first \/ Measured(time) = time
  BY DEF Measured
<1> QED BY <1>1, <1>2, <1>3

LEMMA OverBudgetType == \A time : OverBudget(time) \in BOOLEAN
BY DEF OverBudget

(* What the history counts changes like the counters do.                    *)
LEMMA HistoryCounts ==
  ASSUME RecordedOk, NEW time \in TimeType,
         recorded' = recorded (+) SetToBag({time})
  PROVE  /\ Count(Frames)' = Count(Frames) + 1
         /\ Count(Paced)' = Count(Paced) + (IF Interval(time) # 0 THEN 1 ELSE 0)
         /\ Count(Late)' = Count(Late) + (IF OverBudget(time) THEN 1 ELSE 0)
<1>1. Frames' = Frames \cup {time}
  BY HistoryGrows
<1>2. Paced \in SUBSET Frames /\ Late \in SUBSET Frames /\ Frames \in SUBSET Frames
  BY DEF Paced, Late
<1>3. Count(Frames) \in Nat /\ Count(Paced) \in Nat /\ Count(Late) \in Nat
  BY <1>2, CountNat DEF Count
<1>4. Count(Frames)' = Count(Frames) + 1
  BY <1>1, <1>2, CountJoins DEF Count
<1>5. Count(Paced)' = Count(Paced) + (IF Interval(time) # 0 THEN 1 ELSE 0)
  <2>1. CASE Interval(time) # 0
    <3>1. Paced' = Paced \cup {time} /\ (time \in Frames => time \in Paced)
      BY <1>1, <2>1 DEF Paced
    <3> QED BY <1>2, <2>1, <3>1, CountJoins DEF Count
  <2>2. CASE Interval(time) = 0
    <3>1. Paced' = Paced /\ time \notin Paced
      BY <1>1, <2>2 DEF Paced
    <3> QED BY <1>2, <1>3, <2>2, <3>1, CountStays DEF Count
  <2> QED BY <2>1, <2>2
<1>6. Count(Late)' = Count(Late) + (IF OverBudget(time) THEN 1 ELSE 0)
  <2>1. CASE OverBudget(time)
    <3>1. Late' = Late \cup {time} /\ (time \in Frames => time \in Late)
      BY <1>1, <2>1 DEF Late
    <3> QED BY <1>2, <2>1, <3>1, CountJoins DEF Count
  <2>2. CASE ~OverBudget(time)
    <3>1. Late' = Late /\ time \notin Late
      BY <1>1, <2>2 DEF Late
    <3> QED BY <1>2, <1>3, <2>2, <3>1, CountStays DEF Count
  <2> QED BY <2>1, <2>2
<1> QED BY <1>4, <1>5, <1>6

(* So does the longest time.                                                *)
LEMMA LongestGrows ==
  ASSUME NEW frames \in SUBSET TimeType, NEW time \in TimeType,
         NEW t \in S!Times, NEW m \in 0 .. MaxWord, Longest(m, frames, t)
  PROVE  Longest(IF m > time[t] THEN m ELSE time[t], frames \cup {time}, t)
<1>1. \A y \in TimeType : y[t] \in Nat
  BY TimingAssumption DEF TimeType
<1> QED BY <1>1 DEF Longest

LEMMA LongestIsMax ==
  ASSUME NEW frames \in SUBSET TimeType, NEW t \in S!Times,
         NEW m, Longest(m, frames, t)
  PROVE  Max({0} \cup {time[t] : time \in frames}) = m
<1> DEFINE times == {0} \cup {time[t] : time \in frames}
<1>1. \A y \in TimeType : y[t] \in Nat
  BY TimingAssumption DEF TimeType
<1>2. times \subseteq Nat /\ m \in times /\ \A x \in times : m >= x
  BY <1>1 DEF Longest
<1> HIDE DEF times
<1>3. \A x, y \in times : x >= y /\ y >= x => x = y
  BY <1>2
<1>4. \E x \in times : \A y \in times : x >= y
  BY <1>2
<1>5. Max(times) \in times /\ \A y \in times : Max(times) >= y
  BY <1>4 DEF Max
<1>6. Max(times) = m
  BY <1>2, <1>3, <1>5
<1> QED BY <1>6 DEF times

LEMMA InitTInv == TelemetryInit => TInv
<1> SUFFICES ASSUME TelemetryInit PROVE TInv
  OBVIOUS
<1>1. /\ stats = S!Reset /\ report = S!Snapshot(S!Reset)
      /\ recorded = [e \in {} |-> 1]
      /\ result.state = "ACTIVE" /\ result.frames_completed = 0
  BY DEF TelemetryInit, EmptyBag, SetToBag, Init, LoopInit
<1>2. Frames = {} /\ Paced = {} /\ Late = {}
  BY <1>1 DEF Frames, Paced, Late, BagToSet
<1>3. RecordedOk
  BY <1>1, <1>2, FS_EmptySet DEF RecordedOk
<1>4. stats \in StatsType
  BY <1>1, TimingAssumption DEF S!Reset, StatsType, TimeType
<1>5. StatsCount
  BY <1>1, <1>2, SumEmpty DEF StatsCount, Count, S!Reset
<1>6. StatsAddUp
  BY <1>1, <1>2, SumEmpty DEF StatsAddUp, Total, S!Reset
<1>7. StatsLongest
  BY <1>1, <1>2 DEF StatsLongest, Longest, S!Reset
<1> QED BY <1>1, <1>3, <1>4, <1>5, <1>6, <1>7 DEF TInv

LEMMA ErrorStats ==
  ASSUME stats \in StatsType, stats.errors = 0
  PROVE  /\ S!ErrorRecorded(stats) \in StatsType
         /\ S!ErrorRecorded(stats) = [stats EXCEPT !.errors = 1]
BY TimingAssumption DEF StatsType, S!ErrorRecorded

(* A history that stays as it is keeps its numbers.                         *)
LEMMA SameHistory ==
  ASSUME TInv, recorded' = recorded,
         stats' = stats \/ stats' = [stats EXCEPT !.errors = 1],
         result'.frames_completed = result.frames_completed,
         stats'.errors = IF result'.state \in {"ACTIVE", "COMPLETE"} THEN 0 ELSE 1,
         report' = S!Snapshot(stats')
  PROVE  TInv'
<1>1. Frames' = Frames /\ Paced' = Paced /\ Late' = Late
  BY DEF Frames, Paced, Late
<1>3. /\ stats' \in StatsType
      /\ stats'.frames_completed = stats.frames_completed
      /\ stats'.present_intervals = stats.present_intervals
      /\ stats'.present_interval_over_budget = stats.present_interval_over_budget
      /\ stats'.total = stats.total /\ stats'.max = stats.max
  BY TimingAssumption DEF TInv, StatsType
<1>4. RecordedOk'
  BY <1>1 DEF TInv, RecordedOk
<1>5. StatsCount'
  BY <1>1, <1>3 DEF TInv, StatsCount, Count
<1>6. StatsAddUp'
  BY <1>1, <1>3 DEF TInv, StatsAddUp, Total
<1>7. StatsLongest'
  BY <1>1, <1>3 DEF TInv, StatsLongest, Longest
<1> QED BY <1>3, <1>4, <1>5, <1>6, <1>7 DEF TInv

LEMMA OtherTInv ==
  ASSUME TInv, IInv, OtherStep, NoFrameRetired PROVE TInv'
<1>1. /\ recorded' = recorded
      /\ stats' = IF result.state = "ACTIVE"
                       /\ result'.state \notin {"ACTIVE", "COMPLETE"}
                    THEN S!ErrorRecorded(stats) ELSE stats
      /\ report' = IF samples' # samples THEN S!Snapshot(stats') ELSE report
  BY DEF NoFrameRetired
<1>2. /\ stats \in StatsType /\ report = S!Snapshot(stats)
      /\ stats.errors = IF result.state \in {"ACTIVE", "COMPLETE"} THEN 0 ELSE 1
  BY DEF TInv, StatsCount
<1>3. CASE result.state = "ACTIVE" /\ result'.state \notin {"ACTIVE", "COMPLETE"}
  <2>1. samples' # samples
    BY <1>3 DEF OtherStep
  <2>2. stats' = [stats EXCEPT !.errors = 1] /\ stats'.errors = 1
    BY <1>1, <1>2, <1>3, ErrorStats DEF StatsType
  <2> QED BY <1>1, <1>3, <2>1, <2>2, SameHistory DEF OtherStep
<1>4. CASE ~(result.state = "ACTIVE" /\ result'.state \notin {"ACTIVE", "COMPLETE"})
  <2>1. stats' = stats /\ report' = S!Snapshot(stats')
    BY <1>1, <1>2, <1>4
  <2>2. stats'.errors = IF result'.state \in {"ACTIVE", "COMPLETE"} THEN 0 ELSE 1
    BY <1>2, <1>4, <2>1 DEF OtherStep
  <2> QED BY <1>1, <2>1, <2>2, SameHistory DEF OtherStep
<1> QED BY <1>3, <1>4


(* A frame is retired: it joins the history and is counted, or it is        *)
(* refused and the only trace it leaves is the error.                       *)
LEMMA RetiredTInv ==
  ASSUME IInv, TInv, NEW time \in TimeType, FrameRetired(time) PROVE TInv'
<1> DEFINE over == OverBudget(time)
           counted == S!CanRecord(stats, time, over)
<1>1. /\ result.state = "ACTIVE"
      /\ counted => /\ result'.state = "ACTIVE"
                    /\ result'.frames_completed = result.frames_completed + 1
      /\ ~counted => /\ result'.state = "TELEMETRY_FAILURE"
                     /\ result'.frames_completed = result.frames_completed
  BY RetiredResult
<1>2. /\ stats' = IF counted THEN S!Recorded(stats, time, over)
                             ELSE S!ErrorRecorded(stats)
      /\ report' = S!Snapshot(stats')
      /\ recorded' = IF counted THEN recorded (+) SetToBag({time}) ELSE recorded
  BY DEF FrameRetired
<1>3. over \in BOOLEAN /\ RecordedOk /\ stats \in StatsType /\ stats.errors = 0
  BY <1>1, OverBudgetType DEF TInv, StatsCount
<1>4. CASE ~counted
  <2>1. recorded' = recorded /\ stats' = S!ErrorRecorded(stats)
    BY <1>2, <1>4
  <2>2. stats' = [stats EXCEPT !.errors = 1] /\ stats'.errors = 1
    BY <1>3, <2>1, ErrorStats DEF StatsType
  <2>3. result'.state \notin {"ACTIVE", "COMPLETE"}
        /\ result'.frames_completed = result.frames_completed
    BY <1>1, <1>4
  <2> QED BY <1>2, <2>1, <2>2, <2>3, SameHistory
<1>5. CASE counted
  <2>1. recorded' = recorded (+) SetToBag({time})
        /\ stats' = S!Recorded(stats, time, over)
    BY <1>2, <1>5
  <2>2. /\ stats' \in StatsType
        /\ stats'.frames_completed = stats.frames_completed + 1
        /\ stats'.present_intervals = stats.present_intervals
             + (IF time["present_interval"] # 0 THEN 1 ELSE 0)
        /\ stats'.present_interval_over_budget =
             stats.present_interval_over_budget + (IF over THEN 1 ELSE 0)
        /\ stats'.errors = stats.errors
        /\ \A t \in S!Times :
             /\ stats'.total[t] = stats.total[t] + time[t]
             /\ stats'.max[t] = IF stats.max[t] > time[t] THEN stats.max[t]
                                                         ELSE time[t]
    BY <1>3, <1>5, <2>1, RecordNeverWraps
  <2>3. RecordedOk' /\ Frames' = Frames \cup {time}
    BY <1>3, <2>1, HistoryGrows
  <2>4. /\ Count(Frames)' = Count(Frames) + 1
        /\ Count(Paced)' = Count(Paced) + (IF Interval(time) # 0 THEN 1 ELSE 0)
        /\ Count(Late)' = Count(Late) + (IF over THEN 1 ELSE 0)
    BY <1>3, <2>1, HistoryCounts
  <2>5. StatsCount'
    BY <1>1, <1>3, <1>5, <2>2, <2>4 DEF TInv, StatsCount, Interval
  <2>6. StatsAddUp'
    BY <1>3, <2>1, <2>2, TotalGrows DEF TInv, StatsAddUp
  <2>7. StatsLongest'
    <3> SUFFICES ASSUME NEW t \in S!Times
                 PROVE  Longest(stats'.max[t], Frames', t)
      BY DEF StatsLongest, Longest
    <3>1. Frames \in SUBSET TimeType /\ stats.max[t] \in 0 .. MaxWord
          /\ Longest(stats.max[t], Frames, t)
      BY <1>3 DEF TInv, RecordedOk, StatsLongest, StatsType, TimeType
    <3> QED BY <2>2, <2>3, <3>1, LongestGrows
  <2> QED BY <1>2, <2>2, <2>3, <2>5, <2>6, <2>7 DEF TInv
<1> QED BY <1>4, <1>5

LEMMA NextTInv ==
  ASSUME IInv, TInv, [TelemetryNext]_vars PROVE TInv'
<1>1. CASE UNCHANGED vars
  <2>1. /\ recorded' = recorded /\ stats' = stats /\ report' = report
        /\ result' = result
    BY <1>1 DEF vars, telemetryVars, loopVars
  <2> QED BY <2>1, SameHistory DEF TInv, StatsCount
<1>2. CASE InCall /\ NoFrameRetired
  <2>1. active_frames' >= active_frames
    BY <1>2 DEF NoFrameRetired
  <2> QED BY <1>2, <2>1, InCallIsOther, OtherTInv
<1>3. ASSUME NEW time \in Timings, FrameRetired(Measured(time)) PROVE TInv'
  BY <1>3, MeasuredType, RetiredTInv
<1>4. CASE (StepCall \/ DrainCall \/ RejectedCall) /\ NoFrameRetired
  BY <1>4, CallIsOther, OtherTInv
<1> QED BY <1>1, <1>2, <1>3, <1>4 DEF TelemetryNext, TelemetryInCall

(* The accumulators always agree with the history of the run, and the       *)
(* report with them.                                                        *)
THEOREM TelemetryInvariant == TelemetrySpec => []TInv
<1>1. TelemetryInit => TInv
  BY InitTInv
<1>2. IInv /\ TInv /\ [TelemetryNext]_vars => TInv'
  BY NextTInv
<1>3. TelemetrySpec => []IInv
  BY TelemetryIsAClient, LoopInvariant, PTL
<1> QED BY <1>1, <1>2, <1>3, PTL DEF TelemetrySpec

(* Whatever the times and wherever a limit is hit, every report is true of  *)
(* the whole run (src/gears_telemetry.c, docs/TELEMETRY.md).                *)
THEOREM ReportsAreTrue == TelemetrySpec => []ReportIsTrue
<1>1. TInv => ReportIsTrue
  <2> SUFFICES ASSUME TInv PROVE ReportIsTrue
    OBVIOUS
  <2>1. /\ report = S!Snapshot(stats) /\ stats \in StatsType
        /\ StatsCount /\ StatsAddUp
    BY DEF TInv
  <2>2. stats.max = [t \in S!Times |-> Max({0} \cup {time[t] : time \in Frames})]
    <3>1. \A t \in S!Times :
            stats.max[t] = Max({0} \cup {time[t] : time \in Frames})
      BY LongestIsMax DEF TInv, RecordedOk, StatsLongest
    <3>2. stats.max = [t \in S!Times |-> stats.max[t]]
      BY <2>1 DEF StatsType, TimeType
    <3> QED BY <3>1, <3>2
  <2>3. \A t \in S!Times : stats.total[t] = Total(t)
    BY <2>1 DEF StatsAddUp
  <2> QED BY <2>1, <2>2, <2>3 DEF ReportIsTrue, S!Snapshot, StatsCount
<1> QED BY <1>1, TelemetryInvariant, PTL
=============================================================================
