------------------------------ MODULE BsEncode ------------------------------
(***************************************************************************)
(* lib/bs_encode: TBitStreamEncoder runs the parts of a frame encoder in   *)
(* order over one frame, and TBitAllocHandler offers the parts a bisection *)
(* over lambda that makes the driver run a suffix of the parts again until *)
(* the bits submitted meet the target. A part may also ask for the whole   *)
(* pass to be repeated. The parts are the environment: one of them         *)
(* (position 0) configures the search, one (AllocPart) drives it, and any  *)
(* of them may ask to repeat.                                              *)
(*                                                                         *)
(* Lambda is an integer count of grid units, and Step units stand for the  *)
(* 0.01f of the code. Positions of parts are zero-based as in the code.    *)
(***************************************************************************)
EXTENDS Integers

CONSTANTS
  NumParts,             \* the number of parts
  AllocPart,            \* the part that calls Continue and Submit
  LoLambda, HiLambda,   \* the range the configuring part passes to Start
  Step,                 \* the 0.01f by which the bounds move past a probe
  Costs,                \* the cost curves a frame can have: bits per lambda
  Targets,              \* the budgets the configuring part can pass to Start
  MaxRepeats,           \* bound: whole-pass repeats per frame
  MaxFrames             \* bound: frames encoded

Parts   == 0 .. NumParts - 1
Lambdas == LoLambda .. HiLambda

ASSUME PartsAssumption ==
  NumParts \in Nat /\ AllocPart \in Nat /\ 0 < AllocPart /\ AllocPart < NumParts

ASSUME RangeAssumption ==
  /\ LoLambda \in Int /\ HiLambda \in Int /\ LoLambda < HiLambda
  /\ Step \in Nat /\ Step > 0

ASSUME CostAssumption ==
  Targets \subseteq Nat /\ Costs \subseteq [Lambdas -> Nat]

ASSUME BoundAssumption ==
  MaxRepeats \in Nat /\ MaxFrames \in Nat

VARIABLES
  running,        \* is DoRun on the stack?
  CurEncPos, RepeatEncPos,
  TargetBits, MinLambda, MaxLambda, CurLambda, LastLambda,
  cost,           \* what the frame costs at each lambda
  used,           \* the lambda the allocating part last encoded with
  fresh,          \* the parts encoded since any part before them was
  repeats,        \* whole-pass repeats asked for in this frame
  frames          \* frames dumped

search == <<TargetBits, MinLambda, MaxLambda, CurLambda, LastLambda>>
vars   == <<running, CurEncPos, RepeatEncPos, search, cost, used, fresh, repeats, frames>>
-----------------------------------------------------------------------------
(***************************************************************************)
(* TBitAllocHandler                                                        *)
(***************************************************************************)

\* The search is over: Continue then only hands out LastLambda.
Converged == MaxLambda <= MinLambda

DoStart(target) ==
  /\ TargetBits' = target
  /\ MinLambda'  = LoLambda
  /\ MaxLambda'  = HiLambda
  /\ LastLambda' = HiLambda
  /\ UNCHANGED CurLambda

\* The lambda Continue returns.
ContinueStale == IF Converged THEN CurLambda ELSE (MaxLambda + MinLambda) \div 2

DoContinue == IF Converged THEN LastLambda ELSE (MaxLambda + MinLambda) \div 2

\* Submit of the bits of a probe at lambda l, Continue having set CurLambda = l.
SubmitNoMargin(l, bits) ==
  IF Converged
  THEN UNCHANGED search
  ELSE /\ CurLambda' = l
       /\ UNCHANGED TargetBits
       /\ IF bits < TargetBits
          THEN LastLambda' = l /\ MaxLambda' = l - Step /\ UNCHANGED MinLambda
          ELSE UNCHANGED <<LastLambda, MaxLambda>>
               /\ MinLambda' = IF bits > TargetBits THEN l ELSE MinLambda

SubmitFirstFit(l, bits) ==
  IF Converged
  THEN UNCHANGED search
  ELSE /\ CurLambda' = l
       /\ UNCHANGED TargetBits
       /\ IF bits < TargetBits
          THEN LastLambda' = l /\ MaxLambda' = MinLambda /\ UNCHANGED MinLambda
          ELSE UNCHANGED <<LastLambda, MaxLambda>>
               /\ MinLambda' = IF bits > TargetBits THEN l + Step ELSE MinLambda

DoSubmit(l, bits) ==
  IF Converged
  THEN UNCHANGED search
  ELSE /\ CurLambda' = l
       /\ UNCHANGED TargetBits
       /\ IF bits < TargetBits
          THEN LastLambda' = l /\ MaxLambda' = l - Step /\ UNCHANGED MinLambda
          ELSE UNCHANGED <<LastLambda, MaxLambda>>
               /\ MinLambda' = IF bits > TargetBits THEN l + Step ELSE MinLambda

\* NeedRepeat after the Submit: the probe settled nothing yet.
RepeatOnlyIfSmall(bits) == ~Converged /\ bits < TargetBits

NeedRepeat(bits) == ~Converged /\ bits # TargetBits
-----------------------------------------------------------------------------
(***************************************************************************)
(* TBitStreamEncoder::TImpl::DoRun, one Encode call per step               *)
(***************************************************************************)

\* Encoding part p outdates everything the later parts derived from it.
Encoded(p) == fresh' = (fresh \cap 0 .. p - 1) \cup {p}

GoTo(p) == CurEncPos' = p

\* The part returned EStatus::Repeat: start over from the first part.
RepeatPass ==
  /\ repeats < MaxRepeats
  /\ repeats' = repeats + 1
  /\ RepeatEncPos' = 0
  /\ GoTo(0)

NextPart == GoTo(CurEncPos + 1) /\ UNCHANGED <<RepeatEncPos, repeats>>

BeginRun ==
  /\ ~running /\ frames < MaxFrames
  /\ running' = TRUE
  /\ GoTo(RepeatEncPos)
  /\ fresh'   = {}
  /\ repeats' = 0
  /\ UNCHANGED <<RepeatEncPos, search, cost, used, frames>>

\* The configuring part opens the search; a repeat may have shrunk the frame,
\* so both the budget and the cost curve are new.
EncodeConfigure ==
  /\ running /\ CurEncPos = 0
  /\ \E t \in Targets : DoStart(t)
  /\ cost' \in Costs
  /\ Encoded(0)
  /\ NextPart
  /\ UNCHANGED <<running, used, frames>>

\* The allocating part: Continue, cost the frame at that lambda, Submit. While
\* the search has not settled, the driver repeats from here whatever the part
\* returned; afterwards the part's status counts.
EncodeAlloc ==
  /\ running /\ CurEncPos = AllocPart
  /\ LET l    == DoContinue
         bits == cost[l]
     IN /\ used' = l
        /\ DoSubmit(l, bits)
        /\ IF NeedRepeat(bits)
           THEN GoTo(AllocPart) /\ RepeatEncPos' = AllocPart /\ UNCHANGED repeats
           ELSE \/ /\ GoTo(AllocPart + 1)
                   /\ RepeatEncPos' = IF Converged THEN RepeatEncPos ELSE AllocPart
                   /\ UNCHANGED repeats
                \/ RepeatPass
  /\ Encoded(AllocPart)
  /\ UNCHANGED <<running, cost, frames>>

\* A part that takes no part in the search.
EncodeOther ==
  /\ running /\ CurEncPos \in Parts \ {0, AllocPart}
  /\ Encoded(CurEncPos)
  /\ NextPart \/ RepeatPass
  /\ UNCHANGED <<running, search, cost, used, frames>>

DumpOnly ==
  /\ running /\ CurEncPos = NumParts
  /\ running' = FALSE
  /\ frames'  = frames + 1
  /\ UNCHANGED <<RepeatEncPos, CurEncPos, search, cost, used, fresh, repeats>>

\* All parts went through: Dump every one of them in order.
Dump ==
  /\ running /\ CurEncPos = NumParts
  /\ running' = FALSE
  /\ RepeatEncPos' = 0
  /\ frames'  = frames + 1
  /\ UNCHANGED <<CurEncPos, search, cost, used, fresh, repeats>>

Init ==
  /\ running = FALSE
  /\ CurEncPos = 0 /\ RepeatEncPos = 0
  /\ TargetBits \in Targets
  /\ MinLambda = LoLambda /\ MaxLambda = HiLambda
  /\ CurLambda = HiLambda /\ LastLambda = HiLambda
  /\ cost \in Costs
  /\ used = HiLambda
  /\ fresh = {}
  /\ repeats = 0 /\ frames = 0

Encode == EncodeConfigure \/ EncodeAlloc \/ EncodeOther
Next   == BeginRun \/ Encode \/ Dump

\* DoRun is one synchronous call: once entered, its loop keeps running.
Fairness == WF_vars(Encode \/ Dump)

Spec     == Init /\ [][Next]_vars
FairSpec == Spec /\ Fairness
-----------------------------------------------------------------------------
\* Types; and the probes never leave the range Start was given.
TypeOK ==
  /\ running \in BOOLEAN
  /\ CurEncPos \in 0 .. NumParts /\ RepeatEncPos \in {0, AllocPart}
  /\ TargetBits \in Targets
  /\ MinLambda \in Int /\ MaxLambda \in Int
  /\ CurLambda \in Lambdas /\ LastLambda \in Lambdas
  /\ cost \in Costs
  /\ used \in Lambdas
  /\ fresh \subseteq Parts
  /\ repeats \in 0 .. MaxRepeats /\ frames \in 0 .. MaxFrames

\* The parts in front of the one being encoded (whose consumption
\* GetCurGlobalConsumption adds up) and, at the end, the parts being dumped
\* were all encoded in this frame, and none before one it depends on: repeating
\* a suffix, or the whole pass, never leaves a stale part behind.
PrefixIsFresh == running => 0 .. CurEncPos - 1 \subseteq fresh

\* What is dumped fits the budget, unless not even the coarsest lambda was
\* found to; for any cost curve, monotone or not.
Settled == running /\ CurEncPos > AllocPart
AllocFits == Settled => cost[used] <= TargetBits \/ used = HiLambda

\* And it wastes nothing: on a cost curve that never grows with lambda, every
\* lambda finer than the dumped one by two steps or more would have cost at
\* least the whole budget.
NonIncreasing(f) == \A x, y \in Lambdas : x <= y => f[y] <= f[x]
AllocIsTight ==
  Settled /\ NonIncreasing(cost) =>
    \A x \in Lambdas : x <= used - 2 * Step => cost[x] >= TargetBits

\* DoRun returns: the bisection cannot go on for ever, whatever the parts cost,
\* as long as the parts ask for finitely many repeats.
Terminates == running ~> ~running

\* The engine delivers each frame once, at a lambda its last budget accepts.
Alloc == INSTANCE FrameAlloc WITH
           open   <- running,
           deal   <- [target |-> TargetBits, cost |-> cost],
           lambda <- IF running \/ frames = 0 THEN LoLambda - 1 ELSE used
ImplementsFrameAlloc == Alloc!Spec
=============================================================================
