----------------------------- MODULE FrameAlloc -----------------------------
(***************************************************************************)
(* What the bit-allocation engine of lib/bs_encode promises its callers,   *)
(* with no trace of how it searches: a frame is negotiated (its budget and *)
(* its cost curve may be revised any number of times while the parts of    *)
(* the encoder shrink the frame), and is then delivered once, at a lambda  *)
(* whose cost fits the budget in force, or else at the coarsest lambda.    *)
(***************************************************************************)
EXTENDS Integers

CONSTANTS
  LoLambda, HiLambda,   \* the finest and the coarsest lambda
  Costs,                \* the cost curves a frame can have: bits per lambda
  Targets,              \* the budgets, in bits
  MaxFrames             \* how many frames a behaviour encodes

VARIABLES
  open,     \* is a frame being negotiated?
  deal,     \* the budget and the cost curve in force
  lambda,   \* the lambda the frame just delivered was encoded with
  frames    \* the number of frames delivered so far

vars == <<open, deal, lambda, frames>>

Lambdas == LoLambda .. HiLambda
NoLambda == LoLambda - 1   \* no frame has been delivered since Accept
Deals   == [target : Targets, cost : Costs]

\* A lambda is acceptable when its cost is within the budget. The coarsest one
\* is accepted unseen: there is nothing coarser to fall back on.
Acceptable(d, l) == d.cost[l] <= d.target \/ l = HiLambda

Init ==
  /\ open   = FALSE
  /\ deal   \in Deals
  /\ lambda = NoLambda
  /\ frames = 0

Accept ==
  /\ ~open /\ frames < MaxFrames
  /\ open'   = TRUE
  /\ lambda' = NoLambda
  /\ UNCHANGED <<deal, frames>>

Renegotiate ==
  /\ open
  /\ deal' \in Deals
  /\ UNCHANGED <<open, lambda, frames>>

Deliver ==
  /\ open
  /\ open'   = FALSE
  /\ lambda' \in {l \in Lambdas : Acceptable(deal, l)}
  /\ frames' = frames + 1
  /\ UNCHANGED deal

Next == Accept \/ Renegotiate \/ Deliver

Spec == Init /\ [][Next]_vars
=============================================================================
