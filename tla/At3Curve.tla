------------------------------- MODULE At3Curve -------------------------------
(***************************************************************************)
(* The gain curve of an ATRAC3 band: CalcCurve of transient_detector.cpp,  *)
(* which finds it in the loudness of a frame's 32 subframes, point 0 that  *)
(* CreateSubbandInfo of atrac3denc.cpp puts in front, the fields it is     *)
(* written in, and the gain by which gain_processor.h divides the samples  *)
(* and multiplies them back. Amplitudes are powers of two, and kept as     *)
(* exponents, in units of 2e-6; gains in eighths of an exponent.           *)
(***************************************************************************)
EXTENDS Integers, FiniteSets, Sequences, FiniteSetsExt, Rows

Subframes == 0 .. 31
GainSamples == 0 .. 255
Neutral   == 4             \* ExponentOffset: the level of no gain
LocSz     == 8
Silent    == -100          \* the exponent of what is below 1e-6
FaintTop  == 5             \* and of the loudest below 1e-4

MaxCurvePoints == 6        \* leaves room for point 0

Amplitude(e)  == IF e = Silent THEN 0 ELSE Pow2[e]
SumOf(env, n) == SumTo([i \in Subframes |-> Amplitude(env[i])], n)
Energy(env)   == SumOf(env, 32)
Loudest(env) == Max({env[i] : i \in Subframes})

\* RelationToIdx of 2^d, and of num / den.
LevelOf(d) == IF d < -11 THEN 15 ELSE IF d > 4 THEN 0 ELSE Neutral - d
FirstSetBit(x) == Max({0} \cup {b \in 1 .. 11 : Pow2[b] <= x})
RelationToIdx(num, den) ==
  IF 2 * num <= den THEN Neutral + FirstSetBit(den \div num)
  ELSE Neutral - FirstSetBit(Min({16, num \div den}))

\* The middle one of three in order; a window at an edge has two, and the greater is taken.
Median(a, b, c) == Max({Min({a, b}), Min({Max({a, b}), c})})
MedianFilter(env) ==
  [i \in Subframes |-> IF i \in {0, 31} THEN Max({env[i], env[IF i = 0 THEN 1 ELSE 30]})
                       ELSE Median(env[i - 1], env[i], env[i + 1])]

(* ------------------------------ the target ----------------------------- *)

\* FindPlateau: the loudest level held for three subframes, where it is first, how
\* far it goes, and whether the frame dies away behind it.
FloorFrom(f, j)   == Min({f[j], f[j + 1], f[j + 2]})
PlateauLevel(f)   == Max({FloorFrom(f, j) : j \in 0 .. 29})
PlateauEnd(f, lv) ==
  LET first == Min({j \in 0 .. 29 : FloorFrom(f, j) = lv}) + 2
  IN Max({k \in first .. 31 : \A i \in first .. k : f[i] >= lv})
Releases(env, lv, end) ==
  /\ end < 31
  /\ \/ env[31] <= lv - 4
     \/ env[31] <= lv - 2 /\ \A i \in end + 1 .. 31 : env[i] < lv

Target(env) ==
  LET f  == MedianFilter(env)
      lv == PlateauLevel(f)
  IN IF lv # Silent /\ ~Releases(env, lv, PlateauEnd(f, lv)) /\ lv >= Loudest(env) - 1
     THEN lv ELSE env[31]

(* ------------------------------- the curve ----------------------------- *)

\* What each subframe needs. Where its loudness leans towards the subframe before,
\* and frames are not too uneven, it keeps that one's level.
StaysOnLevel(env, lastTarget) ==
  /\ Loudest(env) - Target(env) <= 2
  /\ lastTarget # Silent => Target(env) - lastTarget \in -3 .. 3
SfLevels(sound, lastTarget) ==
  LET f      == MedianFilter(sound.env)
      target == Target(sound.env)
      stay   == StaysOnLevel(sound.env, lastTarget)
      levels[i \in Subframes] ==
        LET level == LevelOf(f[i] - target)
            prev  == IF i > 0 THEN levels[i - 1] ELSE level
        IN IF stay /\ i \in sound.leaning /\ level - prev \in {-1, 1} THEN prev ELSE level
  IN levels

\* Behind the last subframe that needs a gain; the frame's last one cannot have one.
TargetSf(levels) == Max({0} \cup {sf \in 1 .. 31 : levels[sf - 1] # Neutral})

\* BoundaryTransientScore, as an exponent.
Jump(f, loc) ==
  LET left  == Max({f[i] : i \in {i \in Subframes : i >= loc - 3 /\ i < loc}})
      right == Max({f[i] : i \in {i \in Subframes : i >= loc /\ i < loc + 3}})
  IN IF left > right THEN left - right ELSE right - left

Distance(a, b) == IF a > b THEN a - b ELSE b - a

\* From right to left: the level of the last change kept when k subframes are behind,
\* and where changes are kept, by how much. A small change needs a transient.
MovesOn(prev, level, keep)   == level
PrevLevel(prev, level, keep) == IF keep THEN level ELSE prev
Keeps(levels, f, minJump, loc, prev) ==
  LET delta == Distance(levels[loc - 1], prev)
  IN delta > 0 /\ (loc = TargetSf(levels) \/ delta >= 2 \/ Jump(f, loc) >= minJump)
HeldLevels(levels, f, minJump) ==
  LET end == TargetSf(levels)
      held[k \in 0 .. end] ==
        IF k = 0 THEN Neutral
        ELSE LET prev == held[k - 1]
                 loc  == end + 1 - k
             IN PrevLevel(prev, levels[loc - 1], Keeps(levels, f, minJump, loc, prev))
  IN held
Transitions(levels, f, minJump) ==
  LET end      == TargetSf(levels)
      held     == HeldLevels(levels, f, minJump)
      prev(loc) == held[end - loc]
  IN [loc \in {loc \in 1 .. end : Keeps(levels, f, minJump, loc, prev(loc))} |->
        Distance(levels[loc - 1], prev(loc))]

\* The greatest changes are kept, of equal ones the rightmost.
TrimTo(trans, room) ==
  LET beats(a, b) == trans[a] > trans[b] \/ (trans[a] = trans[b] /\ a > b)
  IN {loc \in DOMAIN trans : Cardinality({a \in DOMAIN trans : beats(a, loc)}) < room}
TrimToField(trans) == TrimTo(trans, 7)
Trim(trans)        == TrimTo(trans, MaxCurvePoints)

\* In order.
Points(levels, locs) ==
  [k \in 1 .. Cardinality(locs) |->
     [Level |-> levels[Nth(locs, k) - 1], Location |-> Nth(locs, k)]]

\* ctx: what is left of the frame before.
CalcCurve(sound, ctx, minJump) ==
  LET levels == SfLevels(sound, ctx.LastTarget)
  IN IF Target(sound.env) = Silent \/ ctx.LastLevel = Silent THEN << >>
     ELSE Points(levels, Trim(Transitions(levels, MedianFilter(sound.env), minJump)))

\* dynamicMinScore: 1.9, and up to half as much again after a louder frame.
MinJump(energy, lastEnergy) == IF lastEnergy > 0 /\ 19 * lastEnergy > 20 * energy THEN 2 ELSE 1

(* ------------------------------- point 0 ------------------------------- *)

FirstLevel(curve) == IF curve = << >> THEN Neutral ELSE curve[1].Level

\* The level by which the target of the frame before goes over into what the curve
\* makes of the frame's beginning; no point if that is neutral, or inaudible.
WithPoint0(curve, env, lastTarget) ==
  LET level == FirstLevel(curve)
      n     == IF curve = << >> THEN 32 ELSE curve[1].Location
      sum   == SumOf(env, n)
      num   == IF level < Neutral THEN n * Pow2[Neutral - level] ELSE n
      den   == IF level > Neutral THEN sum * Pow2[level - Neutral] ELSE sum
      p0    == RelationToIdx(Amplitude(lastTarget) * num, den)
  IN IF lastTarget = Silent \/ den <= num \div 2 \/ (curve = << >> /\ p0 = Neutral) THEN curve
     ELSE <<[Level |-> p0, Location |-> 0]>> \o curve

\* It is dropped if the next point says the same.
DropPoint0(curve) ==
  IF Len(curve) >= 2 /\ curve[1].Location = 0 /\ curve[1].Level = curve[2].Level
  THEN Tail(curve) ELSE curve

(* ------------------------- written, and applied ------------------------ *)

\* Three bits of a number, four of each level and five of each location.
Written(curve) ==
  [count |-> Len(curve) % 8,
   points |-> [k \in DOMAIN curve |-> [Level |-> curve[k].Level % 16, Location |-> curve[k].Location % 32]]]
ReadCurve(wire) == SubSeq(wire.points, 1, wire.count)

\* A point's level up to its location, then a ramp to the next one's; then nothing.
GainAt(curve, pos) ==
  LET ahead == {k \in DOMAIN curve : pos < LocSz * (curve[k].Location + 1)}
  IN IF ahead = {} THEN 0
     ELSE LET k    == Min(ahead)
              next == IF k < Len(curve) THEN curve[k + 1].Level ELSE Neutral
              ramp == pos - LocSz * curve[k].Location
          IN LocSz * (Neutral - curve[k].Level)
               - (IF ramp > 0 THEN ramp * (next - curve[k].Level) ELSE 0)
Scale(curve) == LocSz * (Neutral - FirstLevel(curve))
=============================================================================
