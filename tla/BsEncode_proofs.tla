--------------------------- MODULE BsEncode_proofs ---------------------------
(***************************************************************************)
(* Proofs about BsEncode, for any number of parts, any range of lambda,    *)
(* any step and any cost curve.                                            *)
(***************************************************************************)
EXTENDS BsEncode, TLAPS

\* Between two steps the probes stay inside the range of Start, and the next
\* run begins with the first part and is counted when it ends.
RangeInv ==
  /\ LoLambda <= MinLambda /\ MaxLambda <= HiLambda
  /\ ~running => RepeatEncPos = 0
  /\ running => frames < MaxFrames

\* LastLambda is the coarsest lambda or a probe that was seen to fit.
LastFits == cost[LastLambda] <= TargetBits \/ LastLambda = HiLambda

\* The bounds record what the probes saw: LastLambda lies one step above
\* MaxLambda once something fitted, and on a cost curve that never grows
\* everything a step below MinLambda was too expensive.
BoundsInv ==
  /\ LastLambda = MaxLambda + Step \/ LastLambda = MaxLambda
  /\ NonIncreasing(cost) =>
       \A x \in Lambdas : x <= MinLambda - Step => cost[x] > TargetBits

IInv == TypeOK /\ RangeInv /\ LastFits /\ BoundsInv /\ PrefixIsFresh /\ AllocFits /\ AllocIsTight

USE PartsAssumption, RangeAssumption, CostAssumption, BoundAssumption

\* The lambda Continue hands out is one the search may use, and it lies between
\* the bounds while the search is open.
LEMMA ContinueInRange ==
  ASSUME TypeOK, RangeInv
  PROVE  DoContinue \in Lambdas
BY DEF TypeOK, RangeInv, DoContinue, Converged, Lambdas

\* What a Submit leaves behind, in terms of the probe it was given.
LEMMA SubmitKeepsSearch ==
  ASSUME TypeOK, RangeInv, LastFits, BoundsInv, NEW l \in Lambdas, l = DoContinue,
         DoSubmit(l, cost[l]), UNCHANGED cost
  PROVE  /\ TargetBits' \in Targets /\ MinLambda' \in Int /\ MaxLambda' \in Int
         /\ CurLambda' \in Lambdas /\ LastLambda' \in Lambdas
         /\ LoLambda <= MinLambda' /\ MaxLambda' <= HiLambda
         /\ LastFits' /\ BoundsInv' /\ TargetBits' = TargetBits
<1>1. /\ cost \in [Lambdas -> Nat] /\ TargetBits \in Nat /\ cost[l] \in Nat
      /\ l \in Int /\ LoLambda <= l /\ l <= HiLambda
      /\ MinLambda \in Int /\ MaxLambda \in Int
  BY DEF TypeOK, Lambdas
<1>2. CASE Converged \/ cost[l] = TargetBits
  <2>1. /\ TargetBits' = TargetBits /\ MinLambda' = MinLambda /\ MaxLambda' = MaxLambda
        /\ LastLambda' = LastLambda /\ CurLambda' \in {CurLambda, l}
    BY <1>1, <1>2 DEF DoSubmit, search
  <2> QED
    BY <1>1, <2>1 DEF TypeOK, RangeInv, LastFits, BoundsInv, NonIncreasing
<1>3. CASE ~Converged /\ cost[l] < TargetBits
  <2>1. /\ TargetBits' = TargetBits /\ MinLambda' = MinLambda /\ MaxLambda' = l - Step
        /\ LastLambda' = l /\ CurLambda' = l
    BY <1>1, <1>3 DEF DoSubmit
  <2> QED
    BY <1>1, <1>3, <2>1 DEF TypeOK, RangeInv, LastFits, BoundsInv, NonIncreasing
<1>4. CASE ~Converged /\ cost[l] > TargetBits
  <2>1. /\ TargetBits' = TargetBits /\ MinLambda' = l + Step /\ MaxLambda' = MaxLambda
        /\ LastLambda' = LastLambda /\ CurLambda' = l
    BY <1>1, <1>4 DEF DoSubmit
  <2>2. ASSUME NonIncreasing(cost), NEW x \in Lambdas, x <= MinLambda' - Step
        PROVE  cost[x] > TargetBits
    <3>1. x <= l /\ x \in Int
      BY <1>1, <2>1, <2>2 DEF Lambdas
    <3>2. cost[l] <= cost[x] /\ cost[x] \in Nat
      BY <1>1, <2>2, <3>1 DEF NonIncreasing
    <3> QED
      BY <1>1, <1>4, <3>2
  <2>3. BoundsInv'
    BY <2>1, <2>2 DEF BoundsInv, NonIncreasing
  <2> QED
    BY <1>1, <2>1, <2>3 DEF TypeOK, RangeInv, LastFits
<1> QED
  BY <1>1, <1>2, <1>3, <1>4

\* Encoding the part behind a fresh prefix makes the prefix one part longer.
LEMMA PrefixGrows ==
  ASSUME NEW p \in Nat, NEW F, 0 .. p - 1 \subseteq F
  PROVE  LET G == (F \cap 0 .. p - 1) \cup {p}
         IN  \A r \in {0, p, p + 1} : 0 .. r - 1 \subseteq G
<1>1. 0 .. 0 - 1 = {} /\ 0 .. (p + 1) - 1 = (0 .. p - 1) \cup {p}
  OBVIOUS
<1> QED
  BY <1>1

LEMMA InitIInv == Init => IInv
<1> SUFFICES ASSUME Init PROVE IInv
  OBVIOUS
<1>1. TypeOK
  <2>1. running \in BOOLEAN /\ fresh \subseteq Parts
    BY DEF Init
  <2>2. CurLambda \in Lambdas /\ LastLambda \in Lambdas /\ used \in Lambdas
    BY DEF Init, Lambdas
  <2> QED
    BY <2>1, <2>2 DEF Init, TypeOK
<1>2. RangeInv /\ LastFits /\ BoundsInv
  BY DEF Init, RangeInv, LastFits, BoundsInv, Lambdas
<1>3. PrefixIsFresh /\ AllocFits /\ AllocIsTight
  BY DEF Init, PrefixIsFresh, AllocFits, AllocIsTight, Settled
<1> QED
  BY <1>1, <1>2, <1>3 DEF IInv

LEMMA BeginRunStep == IInv /\ BeginRun => IInv'
<1> SUFFICES ASSUME IInv, BeginRun PROVE IInv'
  OBVIOUS
<1>1. /\ CurEncPos' = 0 /\ RepeatEncPos' = 0 /\ running' /\ frames < MaxFrames
      /\ UNCHANGED <<search, cost, used, frames>>
  BY DEF IInv, RangeInv, BeginRun, GoTo
<1>2. TypeOK'
  BY <1>1 DEF IInv, TypeOK, BeginRun, search
<1>3. RangeInv' /\ LastFits' /\ BoundsInv'
  BY <1>1 DEF IInv, RangeInv, LastFits, BoundsInv, search, NonIncreasing
<1>4. PrefixIsFresh' /\ AllocFits' /\ AllocIsTight'
  BY <1>1 DEF PrefixIsFresh, AllocFits, AllocIsTight, Settled
<1> QED
  BY <1>2, <1>3, <1>4 DEF IInv

LEMMA ConfigureStep == IInv /\ EncodeConfigure => IInv'
<1> SUFFICES ASSUME IInv, EncodeConfigure PROVE IInv'
  OBVIOUS
<1>1. /\ running /\ running' /\ CurEncPos' = 1 /\ UNCHANGED <<RepeatEncPos, repeats, used, frames>>
      /\ TargetBits' \in Targets /\ MinLambda' = LoLambda /\ MaxLambda' = HiLambda
      /\ LastLambda' = HiLambda /\ CurLambda' = CurLambda /\ cost' \in Costs
      /\ fresh' = (fresh \cap 0 .. 0 - 1) \cup {0}
  BY DEF EncodeConfigure, DoStart, Encoded, NextPart, GoTo, IInv, TypeOK
<1>2. TypeOK'
  BY <1>1 DEF IInv, TypeOK, Lambdas, Parts
<1>3. RangeInv' /\ LastFits' /\ BoundsInv'
  BY <1>1 DEF IInv, RangeInv, LastFits, BoundsInv, Lambdas
<1>4. PrefixIsFresh' /\ AllocFits' /\ AllocIsTight'
  BY <1>1 DEF PrefixIsFresh, AllocFits, AllocIsTight, Settled
<1> QED
  BY <1>2, <1>3, <1>4 DEF IInv

LEMMA AllocStep == IInv /\ EncodeAlloc => IInv'
<1> SUFFICES ASSUME IInv, EncodeAlloc PROVE IInv'
  OBVIOUS
<1> DEFINE l == DoContinue
<1>1. l \in Lambdas
  BY ContinueInRange DEF IInv
<1>2. /\ running /\ running' /\ CurEncPos = AllocPart /\ UNCHANGED <<cost, frames>>
      /\ used' = l /\ DoSubmit(l, cost[l])
      /\ fresh' = (fresh \cap 0 .. AllocPart - 1) \cup {AllocPart}
  BY DEF EncodeAlloc, Encoded
<1>3. /\ TargetBits' \in Targets /\ MinLambda' \in Int /\ MaxLambda' \in Int
      /\ CurLambda' \in Lambdas /\ LastLambda' \in Lambdas
      /\ LoLambda <= MinLambda' /\ MaxLambda' <= HiLambda
      /\ LastFits' /\ BoundsInv' /\ TargetBits' = TargetBits
  <2> HIDE DEF l
  <2> QED
    BY <1>1, <1>2, SubmitKeepsSearch DEF IInv, l
<1>4. /\ CurEncPos' \in {0, AllocPart, AllocPart + 1} /\ RepeatEncPos' \in {0, AllocPart}
      /\ repeats' \in 0 .. MaxRepeats
      /\ CurEncPos' = AllocPart + 1 => Converged \/ cost[l] = TargetBits
  BY <1>1, <1>2 DEF IInv, TypeOK, EncodeAlloc, NeedRepeat, GoTo, RepeatPass
<1>5. TypeOK'
  BY <1>1, <1>2, <1>3, <1>4 DEF IInv, TypeOK, Parts
<1>6. RangeInv' /\ PrefixIsFresh'
  <2>1. RangeInv'
    BY <1>2, <1>3 DEF IInv, RangeInv
  <2>2. 0 .. AllocPart - 1 \subseteq fresh
    BY <1>2 DEF IInv, PrefixIsFresh
  <2>3. 0 .. CurEncPos' - 1 \subseteq fresh'
    BY <1>2, <1>4, <2>2, PrefixGrows
  <2> QED
    BY <2>1, <2>3 DEF PrefixIsFresh
<1>7. cost \in [Lambdas -> Nat] /\ TargetBits \in Nat
  BY DEF IInv, TypeOK
<1>8. AllocFits'
  <2> SUFFICES ASSUME CurEncPos' = AllocPart + 1
               PROVE  cost[l] <= TargetBits \/ l = HiLambda
    BY <1>2, <1>3, <1>4 DEF AllocFits, Settled
  <2>1. CASE Converged
    BY <2>1 DEF DoContinue, IInv, LastFits
  <2>2. CASE cost[l] = TargetBits
    BY <2>2, <1>7
  <2> QED
    BY <1>4, <2>1, <2>2
<1>9. AllocIsTight'
  <2> SUFFICES ASSUME CurEncPos' = AllocPart + 1, NonIncreasing(cost),
                      NEW x \in Lambdas, x <= l - 2 * Step
               PROVE  cost[x] >= TargetBits
    BY <1>2, <1>3, <1>4 DEF AllocIsTight, Settled, NonIncreasing
  <2>1. CASE Converged
    <3>1. l = LastLambda /\ MaxLambda <= MinLambda /\ MinLambda \in Int /\ MaxLambda \in Int
      BY <2>1 DEF DoContinue, Converged, IInv, TypeOK
    <3>2. LastLambda = MaxLambda + Step \/ LastLambda = MaxLambda
      BY DEF IInv, BoundsInv
    <3>3. x <= MinLambda - Step
      BY <3>1, <3>2, <1>1 DEF Lambdas
    <3>4. cost[x] > TargetBits
      BY <3>3 DEF IInv, BoundsInv
    <3> QED
      BY <3>4, <1>7
  <2>2. CASE cost[l] = TargetBits
    <3>1. x <= l
      BY <1>1 DEF Lambdas
    <3> HIDE DEF l
    <3> QED
      BY <3>1, <2>2, <1>1, <1>7 DEF NonIncreasing
  <2> QED
    BY <1>4, <2>1, <2>2
<1> QED
  BY <1>3, <1>5, <1>6, <1>8, <1>9 DEF IInv

LEMMA OtherStep == IInv /\ EncodeOther => IInv'
<1> SUFFICES ASSUME IInv, EncodeOther PROVE IInv'
  OBVIOUS
<1>1. /\ running /\ running' /\ CurEncPos \in Parts \ {0, AllocPart}
      /\ UNCHANGED <<TargetBits, MinLambda, MaxLambda, CurLambda, LastLambda, cost, used, frames>>
      /\ fresh' = (fresh \cap 0 .. CurEncPos - 1) \cup {CurEncPos}
      /\ RepeatEncPos' \in {0, RepeatEncPos} /\ repeats' \in 0 .. MaxRepeats
      /\ CurEncPos' \in {0, CurEncPos + 1}
  BY DEF EncodeOther, Encoded, NextPart, RepeatPass, GoTo, search, IInv, TypeOK
<1>2. TypeOK'
  BY <1>1 DEF IInv, TypeOK, Parts
<1>3. RangeInv' /\ LastFits' /\ BoundsInv'
  BY <1>1 DEF IInv, RangeInv, LastFits, BoundsInv, NonIncreasing
<1>4. PrefixIsFresh'
  <2>1. 0 .. CurEncPos - 1 \subseteq fresh /\ CurEncPos \in Nat
    BY <1>1 DEF IInv, PrefixIsFresh, Parts
  <2>2. 0 .. CurEncPos' - 1 \subseteq fresh'
    BY <1>1, <2>1, PrefixGrows
  <2> QED
    BY <2>2 DEF PrefixIsFresh
<1>5. Settled' => Settled
  BY <1>1 DEF Settled, Parts
<1>6. AllocFits' /\ AllocIsTight'
  BY <1>1, <1>5 DEF IInv, AllocFits, AllocIsTight, NonIncreasing
<1> QED
  BY <1>2, <1>3, <1>4, <1>6 DEF IInv

LEMMA DumpStep == IInv /\ Dump => IInv'
<1> SUFFICES ASSUME IInv, Dump PROVE IInv'
  OBVIOUS
<1>1. /\ running /\ running' = FALSE /\ RepeatEncPos' = 0 /\ frames' = frames + 1
      /\ UNCHANGED <<CurEncPos, TargetBits, MinLambda, MaxLambda, CurLambda, LastLambda,
                     cost, used, fresh, repeats>>
  BY DEF Dump, search
<1>2. TypeOK'
  <2>1. frames' \in 0 .. MaxFrames
    BY <1>1 DEF IInv, TypeOK, RangeInv
  <2>2. running' \in BOOLEAN
    BY <1>1
  <2>3. RepeatEncPos' \in {0, AllocPart}
    BY <1>1
  <2> QED
    BY <1>1, <2>1, <2>2, <2>3 DEF IInv, TypeOK
<1>3. RangeInv' /\ LastFits' /\ BoundsInv'
  BY <1>1 DEF IInv, RangeInv, LastFits, BoundsInv, NonIncreasing
<1>4. PrefixIsFresh' /\ AllocFits' /\ AllocIsTight'
  BY <1>1 DEF PrefixIsFresh, AllocFits, AllocIsTight, Settled
<1> QED
  BY <1>2, <1>3, <1>4 DEF IInv

LEMMA StutterStep == IInv /\ UNCHANGED vars => IInv'
BY DEF IInv, vars, search, TypeOK, RangeInv, LastFits, BoundsInv, PrefixIsFresh, AllocFits,
       AllocIsTight, Settled, NonIncreasing

\* The inductive invariant of the engine.
THEOREM Invariance == Spec => []IInv
<1>1. IInv /\ [Next]_vars => IInv'
  BY BeginRunStep, ConfigureStep, AllocStep, OtherStep, DumpStep, StutterStep DEF Next, Encode
<1> QED
  BY <1>1, InitIInv, PTL DEF Spec

\* Types, and no probe leaves the range given to Start.
THEOREM TypeCorrect == Spec => []TypeOK
BY Invariance, PTL DEF IInv

\* However often the driver repeats a suffix or the whole pass, a part is never
\* consulted or dumped after one it depends on was encoded again.
THEOREM NothingStale == Spec => []PrefixIsFresh
BY Invariance, PTL DEF IInv

\* Whatever the cost curve, the settled lambda fits unless it is the coarsest.
THEOREM BudgetKept == Spec => []AllocFits
BY Invariance, PTL DEF IInv

\* On a non-increasing cost curve the settled lambda is within two steps of the
\* finest one that leaves budget unused.
THEOREM BudgetUsed == Spec => []AllocIsTight
BY Invariance, PTL DEF IInv

\* Every step of the engine is a step of FrameAlloc or changes nothing it sees.
LEMMA StepRefines == IInv /\ IInv' /\ [Next]_vars => [Alloc!Next]_(Alloc!vars)
<1> USE DEF Alloc!Next, Alloc!vars, Alloc!Lambdas, Alloc!NoLambda, Alloc!Deals
<1> SUFFICES ASSUME IInv, IInv', [Next]_vars PROVE [Alloc!Next]_(Alloc!vars)
  OBVIOUS
<1>1. CASE BeginRun
  <2>1. /\ ~running /\ running' /\ frames < MaxFrames
        /\ UNCHANGED <<TargetBits, cost, frames>>
    BY <1>1 DEF BeginRun, search
  <2> QED
    BY <2>1 DEF Alloc!Accept
<1>2. CASE EncodeConfigure
  <2>1. /\ running /\ running' /\ frames' = frames
        /\ TargetBits' \in Targets /\ cost' \in Costs
    BY <1>2 DEF EncodeConfigure, DoStart
  <2> QED
    BY <2>1 DEF Alloc!Renegotiate
<1>3. CASE EncodeAlloc
  <2>1. /\ running /\ running' /\ UNCHANGED <<cost, frames>>
        /\ TargetBits' = TargetBits
    BY <1>3 DEF EncodeAlloc, DoSubmit, search
  <2> QED
    BY <2>1
<1>4. CASE EncodeOther
  <2>1. /\ running /\ running' /\ UNCHANGED <<TargetBits, cost, frames>>
    BY <1>4 DEF EncodeOther, search
  <2> QED
    BY <2>1
<1>5. CASE Dump
  <2>1. /\ running /\ ~running' /\ frames' = frames + 1 /\ CurEncPos = NumParts
        /\ UNCHANGED <<TargetBits, cost, used>>
    BY <1>5 DEF Dump, search
  <2>2. used \in Lambdas /\ (cost[used] <= TargetBits \/ used = HiLambda)
    BY <2>1 DEF IInv, TypeOK, AllocFits, Settled
  <2>3. frames' # 0
    BY <2>1 DEF IInv, TypeOK
  <2>4. used' \in {l \in Lambdas : Alloc!Acceptable([target |-> TargetBits, cost |-> cost], l)}
    BY <2>1, <2>2 DEF Alloc!Acceptable
  <2>5. (IF running' \/ frames' = 0 THEN LoLambda - 1 ELSE used') = used'
    BY <2>1, <2>3
  <2>6. Alloc!Deliver
    BY <2>1, <2>4, <2>5 DEF Alloc!Deliver, Lambdas
  <2> QED
    BY <2>6
<1>6. CASE UNCHANGED vars
  BY <1>6 DEF vars, search
<1> QED
  BY <1>1, <1>2, <1>3, <1>4, <1>5, <1>6 DEF Next, Encode

\* The engine implements its contract: each frame is negotiated, then delivered
\* exactly once, at a lambda that the last budget and cost curve accept.
THEOREM Refinement == Spec => ImplementsFrameAlloc
<1>1. Init => Alloc!Init
  BY DEF Init, Alloc!Init, Alloc!NoLambda, Alloc!Deals
<1> QED
  BY <1>1, StepRefines, Invariance, PTL DEF Spec, Alloc!Spec, ImplementsFrameAlloc
=============================================================================
