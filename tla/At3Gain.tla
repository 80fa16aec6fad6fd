-------------------------------- MODULE At3Gain --------------------------------
(***************************************************************************)
(* The ATRAC3 encoder around its transform (GetLambda, CreateSubbandInfo   *)
(* and Mdct of atrac3denc.cpp), for one band of one channel: the look-ahead*)
(* buffer, the halves of the transform, the gain curve that the second one *)
(* is divided by before it becomes the next frame's first one, and what    *)
(* the curve of a frame takes from the frame before. Channels and bands do *)
(* the same side by side. A frame of sound is its number, 0 being silence. *)
(***************************************************************************)
EXTENDS At3Curve

CONSTANTS
  Sounds,          \* by name: the loudness of the subframes, in which of them it leans
                   \* towards the one before, and how much of it is high (highFreqRatio)
  MaxUnits         \* bound: frames encoded

ASSUME SoundsAssumption ==
  \A s \in DOMAIN Sounds :
    Sounds[s] \in [env : [Subframes -> {Silent} \cup 0 .. 14], leaning : SUBSET Subframes,
                   high : {"none", "some", "much"}]

VARIABLES
  band, NoGainControll,
  sounds,              \* of the frames so far
  LookAheadPending,
  LookAheadBuf,        \* the frames in it
  PcmFirst,            \* GetFirst: the frame before, as it was modulated
  CurveCtx,            \* with, for the properties, the frame that it is of
  units                \* written
setup == <<band, NoGainControll>>
gainVars == <<setup, sounds, LookAheadPending, LookAheadBuf, PcmFirst, CurveCtx, units>>

GainInit ==
  /\ band \in {0, 3} /\ NoGainControll \in BOOLEAN
  /\ sounds = << >> /\ LookAheadPending = TRUE
  /\ LookAheadBuf = [tail |-> 0, current |-> 0, next |-> 0]
  /\ PcmFirst = [of |-> 0, curve |-> << >>]
  /\ CurveCtx = [LastLevel |-> Silent, LastTarget |-> Silent, LastHpfEnergy |-> 0, of |-> 0]
  /\ units = << >>

\* The first call only brings the first frame.
FirstCall ==
  /\ LookAheadPending
  /\ LookAheadPending' = FALSE
  /\ LookAheadBuf' = [LookAheadBuf EXCEPT !.current = 1]
  /\ UNCHANGED <<setup, sounds, PcmFirst, CurveCtx, units>>

(* ---------------------------- a frame's curve -------------------------- *)

\* Every other call brings the next frame, and encodes the current one, whose sound
\* is chosen here, where it is first looked at. The transform takes the frame before,
\* divided by the curve's first gain, and this one, divided by all of it, which is
\* kept for the next frame; then all moves on. against: the frames whose traces are
\* in the curve.
Encode(s, curve, against) ==
  /\ ~LookAheadPending /\ Len(units) < MaxUnits
  /\ sounds' = Append(sounds, s)
  /\ units' = Append(units, [first |-> PcmFirst, second |-> LookAheadBuf.current, curve |-> curve,
                             wire |-> Written(curve), against |-> against])
  /\ PcmFirst' = [of |-> LookAheadBuf.current, curve |-> curve]
  /\ LookAheadBuf' = [tail    |-> LookAheadBuf.current,
                      current |-> LookAheadBuf.current + 1,
                      next    |-> LookAheadBuf.current + 1]
  /\ UNCHANGED <<setup, LookAheadPending>>

Uncontrolled(s) ==
  /\ NoGainControll
  /\ Encode(s, << >>, {}) /\ UNCHANGED CurveCtx

\* A band without transients: the frame after it gets no curve.
KeepContext(ctx)  == ctx
ResetContext(ctx) == [ctx EXCEPT !.LastLevel = Silent]
SkipBand(s) ==
  /\ ~NoGainControll /\ Sounds[s].high = "none"
  /\ Encode(s, << >>, {})
  /\ CurveCtx' = ResetContext(CurveCtx)

\* Faint sounds, those with little that is high and the highest band lose the curve,
\* the first two not point 0. Point 0 is kept if it does not make the fit worse.
Usable(curve, sound) ==
  IF Loudest(sound.env) <= FaintTop \/ sound.high = "some" \/ band = 3 THEN << >> ELSE curve
Variants(usable, sound) ==
  {usable} \cup (IF band < 3 THEN {WithPoint0(usable, sound.env, CurveCtx.LastTarget)} ELSE {})

Analyse(s, energy, raw) ==
  /\ CurveCtx' = [LastLevel |-> Sounds[s].env[31], LastTarget |-> Target(Sounds[s].env),
                  LastHpfEnergy |-> energy, of |-> LookAheadBuf.current]
  /\ \/ raw = << >> /\ Encode(s, << >>, {})
     \/ /\ raw # << >>
        /\ \E usable \in {Usable(raw, Sounds[s])} : \E curve \in Variants(usable, Sounds[s]) :
             Encode(s, DropPoint0(curve), {CurveCtx.of})
MakeCurve(s) ==
  /\ ~NoGainControll /\ ~LookAheadPending /\ Len(units) < MaxUnits
  /\ Sounds[s].high # "none"
  /\ \E energy \in {Energy(Sounds[s].env)} :
       \E raw \in {CalcCurve(Sounds[s], CurveCtx, MinJump(energy, CurveCtx.LastHpfEnergy))} :
         Analyse(s, energy, raw)

GainNext ==
  \/ FirstCall
  \/ \E s \in DOMAIN Sounds : Uncontrolled(s) \/ SkipBand(s) \/ MakeCurve(s)
GainSpec == GainInit /\ [][GainNext]_gainVars

(* ------------------------------ correctness ---------------------------- *)

\* A decoder that reads the curves from the units gets every sample of every frame
\* back as it was: what it has of a frame in the second half of one unit and in the
\* first half of the next is divided alike, the second time by the next curve's
\* first gain as well, so that aliasing cancels, and its Demodulate undoes both.
Restored(u) ==
  LET now  == ReadCurve(units[u].wire)
      next == ReadCurve(units[u + 1].wire)
  IN /\ units[u].second = u /\ units[u + 1].first.of = u
     /\ \A pos \in GainSamples :
          LET prev == -GainAt(units[u].curve, pos)
              cur  == -GainAt(units[u + 1].first.curve, pos) - Scale(units[u + 1].curve)
          IN cur + Scale(next) = prev /\ prev + GainAt(now, pos) = 0
SoundRestored == Len(units) >= 2 => Restored(Len(units) - 1)

\* Away from its ramps, from its first subframe, where point 0 is, and the last, a
\* curve divides a subframe by a level next to the one that the subframe needs, or
\* that level, however many small changes were left out; unless changes were dropped
\* because there were too many.
Follows(u) ==
  LET of     == units[u].second
      sound  == Sounds[sounds[of]]
      last   == IF of > 1 THEN Target(Sounds[sounds[of - 1]].env) ELSE Silent
      levels == SfLevels(sound, last)
      curve  == units[u].curve
      minJump == IF of > 1 THEN MinJump(Energy(sound.env), Energy(Sounds[sounds[of - 1]].env)) ELSE 1
      ramps  == {curve[k].Location : k \in DOMAIN curve}
      trans  == Transitions(levels, MedianFilter(sound.env), minJump)
  IN Cardinality(DOMAIN trans) <= MaxCurvePoints =>
       \A sf \in 1 .. 30 \ ramps :
         Distance(LocSz * (Neutral - levels[sf]), GainAt(curve, LocSz * sf)) <= LocSz
CurveFollows ==
  units # << >> /\ Len(units[Len(units)].curve) \in 2 .. 7 => Follows(Len(units))

\* What a curve takes from a frame before, the target that point 0 leads over from
\* and the energy that makes it careful, is of the frame just before, although bands
\* are skipped and nothing but LastLevel is reset then.
TargetIsFresh ==
  units # << >> => units[Len(units)].against \subseteq {units[Len(units)].second - 1}
=============================================================================
