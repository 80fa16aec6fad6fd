-------------------------- MODULE SoundPath_proofs --------------------------
(***************************************************************************)
(* The path of the sound: the invariants of PcmPipeline, for every block   *)
(* size, codec and input, those of At3Gain, for every set of sounds and    *)
(* number of frames, and that of At3pGha, for every input, set of windows  *)
(* and number of bands that its assumptions admit.                         *)
(*                                                                         *)
(* PcmPipeline's is a ledger: what is coded and what is owed to a drain    *)
(* add up to what the loop has gone through of the blocks fed to it. The   *)
(* loop variable is kept a multiple of the step, so that a block is used   *)
(* up entirely, and every step, in the buffer or held by the codec, has    *)
(* the samples that its place in the ledger says.                          *)
(*                                                                         *)
(* At3Gain's is a chain: every unit's first half is the second half of the *)
(* unit before, divided by that unit's curve, and what the next curve      *)
(* draws on is of the frame just before. The properties of a curve rest on *)
(* what the scan of the levels, Trim and Nth do with any row of 32 levels. *)
(*                                                                         *)
(* At3pGha's is an account. With the legacy strategy the bands that are    *)
(* still searched are all in one round; before each has been searched      *)
(* twice, no more was spent than two tones for each and no more than its   *)
(* frequencies, which is less than the budget. So the budget is not used   *)
(* up while a band waits for its first fit, which gives it an envelope.    *)
(*                                                                         *)
(* That its tonal blocks read back rests on the account, which bounds the  *)
(* tones of a band, and on where envelopes start; the rest is about what a *)
(* result of any tones is: the indices of a band rise, so each tells the   *)
(* width of the next in either direction, and the rows that the channels'  *)
(* fields are joined from are found by their lengths.                      *)
(***************************************************************************)
EXTENDS PcmPipeline, At3Gain, At3pGha, Sums_proofs, SequenceTheorems, FunctionTheorems

(***************************************************************************)
(* PcmPipeline: the ledger                                                 *)
(***************************************************************************)
LEMMA MultipleOrder ==
  ASSUME NEW a \in Nat, NEW b \in Nat, NEW s \in Nat \ {0}
  PROVE  /\ a * s <= b * s => a <= b
         /\ a <= b => a * s <= b * s
         /\ (a + 1) * s = a * s + s
  <1>1. (a + 1) * s = a * s + s
    BY SMT
  <1>2. ASSUME NEW x \in Nat, NEW y \in Nat, x <= y
        PROVE  \E d \in Nat : y = x + d /\ y * s = x * s + d * s /\ d * s \in Nat
                              /\ (d > 0 => d * s > 0)
    <2>1. y - x \in Nat /\ y = x + (y - x)
      BY <1>2
    <2>2. PICK d \in Nat : y = x + d
      BY <2>1
    <2>3. (x + d) * s = x * s + d * s
      BY SMT
    <2>4. d * s \in Nat /\ (d > 0 => d * s > 0)
      BY SMT
    <2> QED BY <2>2, <2>3, <2>4
  <1>3. a * s \in Nat /\ b * s \in Nat
    BY SMT
  <1>4. a <= b => a * s <= b * s
    BY <1>2, <1>3
  <1>5. CASE a <= b
    BY <1>1, <1>4, <1>5
  <1>6. CASE b < a
    <2>1. PICK d \in Nat : a = b + d /\ a * s = b * s + d * s /\ d * s \in Nat
                           /\ (d > 0 => d * s > 0)
      BY <1>2, <1>6
    <2> QED BY <1>1, <1>3, <1>4, <1>6, <2>1
  <1> QED BY <1>5, <1>6
-----------------------------------------------------------------------------
Multiples == {j * step : j \in Nat}

Control ==
  /\ codec \in Codecs /\ length \in Nat /\ claimed \in Nat
  /\ length \in Lengths
  /\ status \in {"running", "done", "no_data"}
  /\ drain \in BOOLEAN

Counts ==
  /\ ReadPos \in 0 .. length
  /\ i \in {Idle} \cup 0 .. BufSize /\ lastPos \in 0 .. BufSize
  /\ Processed \in Nat /\ ToDrain \in 0 .. codec.lookAhead
  /\ coded \in Nat /\ fed \in Nat
  /\ i # Idle => i \in Multiples /\ status = "running" /\ lastPos <= i

Values ==
  /\ Buffer \in [Positions -> Samples]
  /\ held \in {None} \cup Steps /\ frame \in {None} \cup Steps /\ ahead \in {None} \cup Steps

Owing == IF ToDrain = 0 THEN 0 ELSE step

Ledger ==
  /\ coded = Processed + (IF i = Idle THEN 0 ELSE lastPos)
  /\ coded + Owing = fed - (IF i = Idle \/ drain THEN 0 ELSE BufSize - i)
  /\ ReadPos < length => fed = ReadPos
  /\ ReadPos <= fed /\ fed < ReadPos + BufSize

Owed ==
  /\ held = None => ToDrain = 0
  /\ held # None => codec.lookAhead = 1
  /\ ahead # None => held = ahead
  /\ i # Idle /\ drain => held # None /\ ReadPos = length /\ (i = 0 => ToDrain = 1)
                          /\ (i = BufSize \/ i = 0)
  /\ held # None /\ ToDrain = 0 => ReadPos = length /\ (i # Idle => drain)

Contents ==
  /\ i # Idle /\ ~drain =>
       \A p \in Positions : fed - BufSize + p + 1 <= length
                              => Buffer[p] = fed - BufSize + p + 1
  /\ held # None /\ ToDrain > 0 => HasSamplesFrom(held, coded)

IInv == Control /\ Counts /\ Values /\ Ledger /\ Owed /\ Contents
          /\ FramesInOrder /\ AllCovered
-----------------------------------------------------------------------------
LEMMA CodecFacts ==
  ASSUME codec \in Codecs
  PROVE  /\ BufSize \in Nat /\ BufSize > 0
         /\ step \in Nat /\ 0 < step /\ step <= BufSize
         /\ codec.lookAhead \in {0, 1}
  <1>1. BufSize \in Nat /\ BufSize > 0
    BY BufAssumption
  <1>2. step \in 1 .. BufSize /\ codec.lookAhead \in {0, 1}
    BY CodecAssumption DEF step
  <1> QED BY <1>1, <1>2

LEMMA StepIsSomething ==
  ASSUME codec \in Codecs
  PROVE  None \notin [1 .. step -> Nat]
  BY NoneAssumption, Zenon DEF step

\* The steps divide a block: one that does not fit begins where the block ends.
LEMMA BlockUsedUp ==
  ASSUME codec \in Codecs, i \in 0 .. BufSize, i \in Multiples, i + step > BufSize
  PROVE  i = BufSize
  <1>0. step \in Nat \ {0} /\ BufSize \in Nat
    BY CodecFacts
  <1>1. PICK k \in 1 .. BufSize : BufSize = k * step
    BY CodecAssumption, Zenon DEF step
  <1>2. PICK j \in Nat : i = j * step
    BY Zenon DEF Multiples
  <1>3. k \in Nat /\ j + 1 \in Nat /\ i \in Nat
    BY <1>0, <1>1, <1>2
  <1>4. (j + 1) * step = i + step
    <2>1. (j + 1) * step = j * step + step
      BY <1>0, <1>2, MultipleOrder
    <2> QED BY <1>2, <2>1
  <1>5. j * step <= k * step
    BY <1>0, <1>1, <1>2
  <1>6. j <= k
    BY <1>0, <1>2, <1>3, <1>5, MultipleOrder
  <1>7. j + 1 <= k => (j + 1) * step <= k * step
    BY <1>0, <1>3, MultipleOrder
  <1>8. ~(j + 1 <= k)
    BY <1>0, <1>1, <1>3, <1>4, <1>7
  <1>9. j = k
    BY <1>2, <1>3, <1>6, <1>8
  <1> QED BY <1>1, <1>2, <1>9

LEMMA NextMultiple ==
  ASSUME codec \in Codecs, i \in Multiples
  PROVE  i + step \in Multiples
  <1>0. step \in Nat \ {0}
    BY CodecFacts
  <1>1. PICK j \in Nat : i = j * step
    BY Zenon DEF Multiples
  <1>2. (j + 1) * step = j * step + step
    BY <1>0, <1>1, MultipleOrder
  <1>3. j + 1 \in Nat /\ i + step = (j + 1) * step
    BY <1>1, <1>2
  <1> QED BY <1>3, Zenon DEF Multiples

LEMMA EdgeMultiples ==
  ASSUME codec \in Codecs
  PROVE  0 \in Multiples /\ BufSize \in Multiples
  <1>0. step \in Nat \ {0} /\ BufSize \in Nat
    BY CodecFacts
  <1>1. 0 \in Nat /\ 0 = 0 * step
    BY <1>0
  <1>2. PICK k \in 1 .. BufSize : BufSize = k * step
    BY CodecAssumption, Zenon DEF step
  <1>3. k \in Nat
    BY <1>0, <1>2
  <1> QED BY <1>1, <1>2, <1>3, Zenon DEF Multiples

\* A step cut from the buffer, and what samples it holds.
LEMMA DataFacts ==
  ASSUME Control, Counts, Values, InLoop
  PROVE  /\ Data \in Steps /\ Data # None
         /\ ~drain /\ Contents => HasSamplesFrom(Data, fed - BufSize + i)
  <1>0. i \in 0 .. BufSize /\ i + step <= BufSize /\ fed \in Nat /\ length \in Nat
    BY DEF InLoop, Counts, Control, Idle
  <1>a. step \in Nat /\ 0 < step /\ BufSize \in Nat /\ codec \in Codecs
    BY CodecFacts DEF Control
  <1>1. ASSUME NEW k \in 1 .. step
        PROVE  i + k - 1 \in Positions
    BY <1>0, <1>a DEF Positions
  <1>2. Data \in Steps
    BY <1>1 DEF Data, Steps, Values
  <1>3. Data # None
    <2>1. Samples \subseteq Nat
      BY <1>0 DEF Samples
    <2>2. Data \in [1 .. step -> Nat]
      BY <1>2, <2>1 DEF Steps
    <2> QED BY <1>a, <2>2, StepIsSomething, Zenon
  <1>4. ASSUME ~drain, Contents
        PROVE  HasSamplesFrom(Data, fed - BufSize + i)
    <2>1. SUFFICES ASSUME NEW k \in 1 .. step, fed - BufSize + i + k <= length
                   PROVE  Data[k] = fed - BufSize + i + k
      BY DEF HasSamplesFrom
    <2>2. Data[k] = Buffer[i + k - 1]
      BY DEF Data
    <2>4. fed - BufSize + (i + k - 1) + 1 = fed - BufSize + i + k
      BY <1>0, <1>a
    <2>5. Buffer[i + k - 1] = fed - BufSize + (i + k - 1) + 1
      BY <1>0, <1>1, <1>4, <2>1, <2>4 DEF Contents, Idle
    <2> QED BY <2>2, <2>4, <2>5
  <1> QED BY <1>2, <1>3, <1>4
-----------------------------------------------------------------------------
LEMMA InitInv ==
  ASSUME Init
  PROVE  IInv
  <1>1. BufSize \in Nat /\ BufSize > 0 /\ codec.lookAhead \in {0, 1} /\ codec \in Codecs
    BY CodecFacts DEF Init
  <1>2. length \in Nat /\ claimed \in Nat /\ length \in Lengths
    BY InputAssumption DEF Init
  <1>a. Control
    BY <1>1, <1>2 DEF Init, Control
  <1>b. Counts
    BY <1>1, <1>2 DEF Init, Counts, Idle
  <1>3. Control /\ Counts
    BY <1>a, <1>b
  <1>4. Values
    BY <1>2 DEF Init, Values, Samples
  <1>5. Ledger /\ Owed
    BY <1>1, <1>2 DEF Init, Ledger, Owing, Owed, Idle
  <1>6. Contents /\ FramesInOrder /\ AllCovered
    BY DEF Init, Contents, FramesInOrder, AllCovered, Idle
  <1> QED BY <1>3, <1>4, <1>5, <1>6 DEF IInv

LEMMA BeginBlockInv ==
  ASSUME IInv, BeginBlock
  PROVE  IInv'
  <1> DEFINE read == MinOf(BufSize, length - ReadPos)
  <1>1. /\ status = "running" /\ i = Idle
        /\ UNCHANGED <<run, Processed, ToDrain, held, frame, ahead, coded>>
    BY DEF BeginBlock
  <1>2. /\ codec' = codec /\ length' = length /\ claimed' = claimed /\ step' = step
        /\ Samples' = Samples /\ Steps' = Steps /\ Multiples' = Multiples
    BY <1>1 DEF run, step, Samples, Steps, Multiples
  <1>3. /\ BufSize \in Nat /\ BufSize > 0 /\ step \in Nat /\ codec \in Codecs
        /\ length \in Nat /\ ReadPos \in 0 .. length /\ fed \in Nat
        /\ coded \in Nat /\ Processed \in Nat /\ 0 \in Multiples
        /\ Owing \in Nat /\ Owing' = Owing
    BY <1>1, <1>2, CodecFacts, EdgeMultiples DEF IInv, Control, Counts, Owing
  <1>4. /\ read \in 0 .. BufSize /\ ReadPos + read <= length
        /\ (read > 0 => ReadPos < length)
        /\ (read = 0 => ReadPos = length)
        /\ (read < BufSize => ReadPos + read = length)
    BY <1>3 DEF MinOf
  <1>5. (FramesInOrder /\ (held # None /\ ToDrain > 0 => HasSamplesFrom(held, coded)))'
    BY <1>1, <1>2 DEF IInv, FramesInOrder, Contents, HasSamplesFrom
  <1>6. {held', frame', ahead'} \subseteq {None} \cup Steps'
    BY <1>1, <1>2 DEF IInv, Values
  <1> HIDE DEF read
  <1>7. CASE read > 0
    <2>1. /\ Buffer' = Filled(read) /\ ReadPos' = ReadPos + read /\ fed' = fed + BufSize
          /\ drain' = FALSE /\ i' = 0 /\ lastPos' = 0 /\ status' = status
      BY <1>7 DEF BeginBlock, read
    <2>2. fed = ReadPos
      BY <1>4, <1>7 DEF IInv, Ledger
    <2>3. Control'
      BY <1>1, <1>2, <2>1 DEF IInv, Control
    <2>4. Counts'
      BY <1>1, <1>2, <1>3, <1>4, <2>1 DEF IInv, Counts, Idle
    <2>5. ASSUME NEW p \in Positions
          PROVE  /\ Filled(read)[p] \in Samples
                 /\ fed + p + 1 <= length => Filled(read)[p] = fed + p + 1
      <3>1. p \in Nat /\ p < BufSize
        BY <1>3 DEF Positions
      <3>2. Buffer[p] \in Samples
        BY DEF IInv, Values
      <3>3. CASE p < read
        <4>1. Filled(read)[p] = ReadPos + p + 1
          BY <3>3 DEF Filled
        <4> QED BY <1>3, <1>4, <2>2, <3>1, <3>3, <4>1 DEF Samples
      <3>4. CASE ~(p < read)
        <4>1. Filled(read)[p] \in {0, Buffer[p]}
          BY <3>4 DEF Filled
        <4>2. ~(fed + p + 1 <= length)
          BY <1>3, <1>4, <2>2, <3>1, <3>4
        <4> QED BY <1>3, <3>2, <4>1, <4>2 DEF Samples
      <3> QED BY <3>3, <3>4
    <2>6. Filled(read) \in [Positions -> Samples]
      BY <2>5 DEF Filled
    <2>7. Values'
      BY <1>2, <1>6, <2>1, <2>6 DEF Values
    <2>8. Ledger'
      <3>1. coded = Processed /\ coded + Owing = fed
        BY <1>1, <1>3 DEF IInv, Ledger
      <3>2. coded' = Processed' + (IF i' = Idle THEN 0 ELSE lastPos')
        BY <1>1, <1>3, <2>1, <3>1 DEF Idle
      <3>3. ~(i' = Idle \/ drain')
        BY <2>1 DEF Idle
      <3>4. coded' + Owing' = fed' - (BufSize - i')
        BY <1>1, <1>3, <2>1, <3>1
      <3>5. (ReadPos' < length' => fed' = ReadPos') /\ ReadPos' <= fed'
            /\ fed' < ReadPos' + BufSize
        BY <1>2, <1>3, <1>4, <1>7, <2>1, <2>2
      <3> QED BY <3>2, <3>3, <3>4, <3>5 DEF Ledger
    <2>9. Owed'
      BY <1>1, <1>2, <1>3, <1>4, <1>7, <2>1 DEF IInv, Owed, Idle
    <2>10. \A p \in Positions : fed' - BufSize + p + 1 <= length
                                 => Buffer'[p] = fed' - BufSize + p + 1
      <3>1. fed' - BufSize = fed
        BY <1>3, <2>1
      <3> QED BY <2>1, <2>5, <3>1
    <2>11. Contents'
      BY <1>2, <1>5, <2>10 DEF Contents
    <2>12. AllCovered'
      BY <1>1, <2>1 DEF AllCovered
    <2> QED BY <1>5, <2>3, <2>4, <2>7, <2>8, <2>9, <2>11, <2>12 DEF IInv
  <1>8. CASE ~(read > 0)
    <2>0. read = 0 /\ ReadPos = length
      BY <1>4, <1>8
    <2>1. Buffer' \in AtEnd /\ ReadPos' = ReadPos /\ fed' = fed
      BY <1>8 DEF BeginBlock, read
    <2>2. Buffer' \in [Positions -> Samples]
      BY <1>3, <2>1 DEF AtEnd, IInv, Values, Samples
    <2>3. Values'
      BY <1>2, <1>6, <2>2 DEF Values
    <2>4. CASE ToDrain > 0
      <3>1. drain' = TRUE /\ i' = 0 /\ lastPos' = 0 /\ status' = status
        BY <1>8, <2>4 DEF BeginBlock, read
      <3>2. Control'
        BY <1>1, <1>2, <3>1 DEF IInv, Control
      <3>3. Counts'
        BY <1>1, <1>2, <1>3, <2>1, <3>1 DEF IInv, Counts, Idle
      <3>4. Ledger'
        BY <1>1, <1>3, <2>0, <2>1, <3>1, <1>2 DEF IInv, Ledger, Idle
      <3>5. ToDrain = 1
        BY <1>3, <2>4, CodecFacts DEF IInv, Counts
      <3>6. Owed'
        BY <1>1, <1>2, <1>3, <2>0, <2>1, <2>4, <3>1, <3>5 DEF IInv, Owed, Idle
      <3>7. Contents' /\ AllCovered'
        BY <1>1, <1>5, <3>1 DEF Contents, AllCovered
      <3> QED BY <1>5, <2>3, <3>2, <3>3, <3>4, <3>6, <3>7 DEF IInv
    <2>5. CASE ~(ToDrain > 0)
      <3>1. status' = "no_data" /\ i' = i /\ lastPos' = lastPos /\ drain' = drain
        BY <1>8, <2>5 DEF BeginBlock, read
      <3>2. ToDrain = 0
        BY <1>3, <2>5, CodecFacts DEF IInv, Counts
      <3>3. Control'
        BY <1>1, <1>2, <3>1 DEF IInv, Control
      <3>4. Counts'
        BY <1>1, <1>2, <1>3, <2>1, <3>1 DEF IInv, Counts, Idle
      <3>5. Ledger'
        BY <1>1, <1>3, <2>0, <2>1, <3>1, <1>2 DEF IInv, Ledger, Idle
      <3>6. Owed'
        BY <1>1, <1>2, <2>0, <2>1, <3>1 DEF IInv, Owed, Idle
      <3>7. Contents'
        BY <1>1, <1>5, <3>1 DEF Contents
      <3>8. coded >= length
        BY <1>1, <1>3, <2>0, <3>2 DEF IInv, Ledger, Owing, Idle
      <3>9. AllCovered'
        BY <1>1, <1>2, <3>1, <3>8 DEF AllCovered
      <3> QED BY <1>5, <2>3, <3>3, <3>4, <3>5, <3>6, <3>7, <3>9 DEF IInv
    <2> QED BY <2>4, <2>5
  <1> QED BY <1>7, <1>8

\* What a turn of the loop finds.
LEMMA LoopFacts ==
  ASSUME IInv, InLoop
  PROVE  /\ BufSize \in Nat /\ BufSize > 0 /\ step \in Nat /\ 0 < step /\ step <= BufSize
         /\ codec.lookAhead \in {0, 1} /\ ToDrain \in {0, 1}
         /\ length \in Nat /\ ReadPos \in 0 .. length /\ fed \in Nat /\ coded \in Nat
         /\ Processed \in Nat /\ lastPos \in 0 .. BufSize /\ lastPos <= i
         /\ i \in 0 .. BufSize /\ i # Idle /\ i + step <= BufSize
         /\ i + step \in 0 .. BufSize /\ i + step # Idle /\ BufSize # Idle
         /\ i + step \in Multiples /\ BufSize \in Multiples
         /\ status = "running" /\ drain \in BOOLEAN
         /\ coded = Processed + lastPos
         /\ coded + Owing = fed - (IF drain THEN 0 ELSE BufSize - i)
         /\ Data \in Steps /\ Data # None
         /\ ~drain => HasSamplesFrom(Data, fed - BufSize + i)
         /\ drain => i = 0 /\ ToDrain = 1 /\ held # None
  <1>1. /\ codec \in Codecs /\ length \in Nat /\ drain \in BOOLEAN
    BY DEF IInv, Control
  <1>2. /\ BufSize \in Nat /\ BufSize > 0 /\ step \in Nat /\ 0 < step /\ step <= BufSize
        /\ codec.lookAhead \in {0, 1}
    BY <1>1, CodecFacts
  <1>3. /\ i # Idle /\ i + step <= BufSize /\ status = "running"
    BY DEF InLoop
  <1>4. /\ ReadPos \in 0 .. length /\ fed \in Nat /\ coded \in Nat /\ Processed \in Nat
        /\ lastPos \in 0 .. BufSize /\ lastPos <= i /\ i \in 0 .. BufSize /\ i \in Multiples
        /\ ToDrain \in 0 .. codec.lookAhead
    BY <1>3 DEF IInv, Counts
  <1>5. ToDrain \in {0, 1}
    BY <1>2, <1>4
  <1>6. i + step \in Multiples /\ BufSize \in Multiples
    BY <1>1, <1>4, NextMultiple, EdgeMultiples
  <1>7. i + step \in 0 .. BufSize /\ i + step # Idle /\ BufSize # Idle
    BY <1>2, <1>3, <1>4 DEF Idle
  <1>8. coded = Processed + lastPos
        /\ coded + Owing = fed - (IF drain THEN 0 ELSE BufSize - i)
    BY <1>3 DEF IInv, Ledger
  <1>9. Data \in Steps /\ Data # None /\ (~drain => HasSamplesFrom(Data, fed - BufSize + i))
    BY DataFacts DEF IInv
  <1>10. drain => i = 0 /\ ToDrain = 1 /\ held # None
    BY <1>2, <1>3, <1>4 DEF IInv, Owed
  <1> QED BY <1>1, <1>2, <1>3, <1>4, <1>5, <1>6, <1>7, <1>8, <1>9, <1>10

LEMMA LookAheadInv ==
  ASSUME IInv, LookAhead
  PROVE  IInv'
  <1>1. /\ InLoop /\ codec.lookAhead = 1 /\ held = None
        /\ held' = Data /\ ToDrain' = ToDrain + 1 /\ i' = i + step
        /\ UNCHANGED <<run, status, Buffer, ReadPos, lastPos, drain, Processed,
                       frame, ahead, coded, fed>>
    BY DEF LookAhead, Wants
  <1>2. /\ codec' = codec /\ length' = length /\ claimed' = claimed /\ step' = step
        /\ Samples' = Samples /\ Steps' = Steps /\ Multiples' = Multiples
    BY <1>1 DEF run, step, Samples, Steps, Multiples
  <1>3. ~drain /\ ToDrain = 0 /\ ahead = None
    BY <1>1, LoopFacts DEF IInv, Owed
  <1>4. coded = fed - BufSize + i /\ Owing = 0 /\ Owing' = step
    BY <1>1, <1>2, <1>3, LoopFacts DEF Owing
  <1>5. Control'
    BY <1>1, <1>2 DEF IInv, Control
  <1>6. Counts'
    BY <1>1, <1>2, <1>3, LoopFacts DEF Counts
  <1>7. Values'
    BY <1>1, <1>2, LoopFacts DEF IInv, Values
  <1>8. Ledger'
    <2>1. coded' + Owing' = fed' - (BufSize - i')
      BY <1>1, <1>4, LoopFacts
    <2>2. ~(i' = Idle \/ drain') /\ i' # Idle /\ coded' = Processed' + lastPos'
      BY <1>1, <1>3, LoopFacts
    <2>3. (ReadPos' < length' => fed' = ReadPos') /\ ReadPos' <= fed' /\ fed' < ReadPos' + BufSize
      BY <1>1, <1>2 DEF IInv, Ledger
    <2> QED BY <2>1, <2>2, <2>3 DEF Ledger
  <1>9. Owed'
    BY <1>1, <1>2, <1>3, LoopFacts DEF Owed
  <1>10. Contents'
    <2>1. HasSamplesFrom(held, coded)'
      BY <1>1, <1>2, <1>3, <1>4, LoopFacts DEF HasSamplesFrom
    <2> QED BY <1>1, <1>2, <1>3, <2>1, LoopFacts DEF IInv, Contents
  <1>11. FramesInOrder' /\ AllCovered'
    BY <1>1, <1>2 DEF IInv, FramesInOrder, AllCovered, HasSamplesFrom
  <1> QED BY <1>5, <1>6, <1>7, <1>8, <1>9, <1>10, <1>11 DEF IInv

LEMMA EncodeStepInv ==
  ASSUME IInv, EncodeStep
  PROVE  IInv'
  <1>1. /\ InLoop /\ ~Wants
        /\ frame' = Current /\ held' = ahead'
        /\ ahead' = IF codec.lookAhead = 1 THEN Data ELSE None
        /\ coded' = coded + step /\ lastPos' = lastPos + step
        /\ UNCHANGED <<run, status, Buffer, ReadPos, drain, Processed, fed>>
    BY DEF EncodeStep
  <1>2. /\ codec' = codec /\ length' = length /\ claimed' = claimed /\ step' = step
        /\ Samples' = Samples /\ Steps' = Steps /\ Multiples' = Multiples
    BY <1>1 DEF run, step, Samples, Steps, Multiples
  <1>3. IF drain THEN ToDrain' = 0 /\ i' = BufSize ELSE ToDrain' = ToDrain /\ i' = i + step
    BY <1>1, LoopFacts DEF EncodeStep
  <1>4. /\ codec.lookAhead = 1 => held # None /\ frame' = held /\ held' = Data /\ ToDrain = 1
        /\ codec.lookAhead = 0 => held = None /\ frame' = Data /\ held' = None /\ ToDrain = 0
                                  /\ ~drain
    <2>1. CASE codec.lookAhead = 1
      <3>1. held # None
        BY <1>1, <2>1 DEF Wants
      <3>2. ToDrain # 0
        BY <1>1, <3>1, LoopFacts DEF IInv, Owed
      <3> QED BY <1>1, <2>1, <3>1, <3>2, LoopFacts DEF Current
    <2>2. CASE codec.lookAhead = 0
      <3>1. held = None
        BY <2>2 DEF IInv, Owed
      <3> QED BY <1>1, <2>2, <3>1, LoopFacts DEF Current, IInv, Owed
    <2> QED BY <1>1, <2>1, <2>2, LoopFacts
  <1>5. Owing = (IF codec.lookAhead = 1 THEN step ELSE 0)
        /\ Owing' = (IF codec.lookAhead = 1 /\ ~drain THEN step ELSE 0)
    BY <1>1, <1>2, <1>3, <1>4, LoopFacts DEF Owing
  <1>6. Control'
    BY <1>1, <1>2 DEF IInv, Control
  <1>7. i' \in 0 .. BufSize /\ i' # Idle /\ i' \in Multiples /\ lastPos' <= i'
        /\ lastPos' \in 0 .. BufSize
    BY <1>1, <1>3, LoopFacts
  <1>8. Counts'
    <2>1. ToDrain' \in 0 .. codec'.lookAhead
      BY <1>1, <1>2, <1>3, <1>4, LoopFacts
    <2> QED BY <1>1, <1>2, <1>7, <2>1, LoopFacts DEF Counts
  <1>9. Values'
    <2>1. frame' \in {None} \cup Steps
      BY <1>1, <1>4, LoopFacts DEF IInv, Values
    <2> QED BY <1>1, <1>2, <2>1, LoopFacts DEF IInv, Values
  <1>10. Ledger'
    <2>1. coded' = Processed' + lastPos'
      BY <1>1, LoopFacts
    <2>2. coded' + Owing' = fed' - (IF drain THEN 0 ELSE BufSize - i')
      BY <1>1, <1>3, <1>4, <1>5, LoopFacts
    <2>3. (ReadPos' < length' => fed' = ReadPos') /\ ReadPos' <= fed' /\ fed' < ReadPos' + BufSize
      BY <1>1, <1>2 DEF IInv, Ledger
    <2>4. drain' = drain
      BY <1>1
    <2> QED BY <1>7, <2>1, <2>2, <2>3, <2>4 DEF Ledger
  <1>11. Owed'
    <2>1. drain => ReadPos = length
      BY <1>1, LoopFacts DEF IInv, Owed
    <2>2. (drain' <=> drain) /\ ReadPos' = ReadPos
      BY <1>1
    <2> QED BY <1>1, <1>2, <1>3, <1>4, <1>7, <2>1, <2>2, LoopFacts DEF Owed
  <1>12. Contents'
    <2>1. ~drain /\ codec.lookAhead = 1 => HasSamplesFrom(held, coded)'
      <3>1. SUFFICES ASSUME ~drain, codec.lookAhead = 1
                     PROVE  HasSamplesFrom(held, coded)'
        OBVIOUS
      <3>2. coded' = fed - BufSize + i
        BY <1>1, <1>5, <3>1, LoopFacts
      <3> QED BY <1>1, <1>2, <1>4, <3>1, <3>2, LoopFacts DEF HasSamplesFrom
    <2>2. held' # None /\ ToDrain' > 0 => ~drain /\ codec.lookAhead = 1
      BY <1>1, <1>3, <1>4, LoopFacts
    <2>3. i' # Idle /\ ~drain' =>
            \A p \in Positions : fed' - BufSize + p + 1 <= length'
                                   => Buffer'[p] = fed' - BufSize + p + 1
      BY <1>1, <1>2, LoopFacts DEF IInv, Contents
    <2> QED BY <2>1, <2>2, <2>3 DEF Contents
  <1>13. FramesInOrder'
    <2>1. coded' - step = coded
      BY <1>1, LoopFacts
    <2>2. CASE codec.lookAhead = 1
      <3>1. HasSamplesFrom(held, coded)
        BY <1>4, <2>2 DEF IInv, Contents
      <3> QED BY <1>2, <1>4, <2>1, <2>2, <3>1 DEF FramesInOrder, HasSamplesFrom
    <2>3. CASE codec.lookAhead = 0
      <3>1. coded = fed - BufSize + i /\ ~drain
        BY <1>1, <1>4, <1>5, <2>3, LoopFacts
      <3>2. HasSamplesFrom(Data, coded)
        BY <1>1, <3>1, LoopFacts
      <3> QED BY <1>2, <1>4, <2>1, <2>3, <3>2 DEF FramesInOrder, HasSamplesFrom
    <2> QED BY <1>1, <2>2, <2>3, LoopFacts
  <1>14. AllCovered'
    BY <1>1, LoopFacts DEF AllCovered
  <1> QED BY <1>6, <1>8, <1>9, <1>10, <1>11, <1>12, <1>13, <1>14 DEF IInv

LEMMA EndBlockInv ==
  ASSUME IInv, EndBlock
  PROVE  IInv'
  <1>1. /\ status = "running" /\ i # Idle /\ i + step > BufSize
        /\ Processed' = Processed + lastPos /\ i' = Idle
        /\ status' = IF claimed > Processed' THEN "running" ELSE "done"
        /\ UNCHANGED <<run, Buffer, ReadPos, lastPos, drain, ToDrain, held, frame, ahead,
                       coded, fed>>
    BY DEF EndBlock
  <1>2. /\ codec' = codec /\ length' = length /\ claimed' = claimed /\ step' = step
        /\ Samples' = Samples /\ Steps' = Steps /\ Multiples' = Multiples /\ Owing' = Owing
    BY <1>1 DEF run, step, Samples, Steps, Multiples, Owing
  <1>3. /\ codec \in Codecs /\ i \in 0 .. BufSize /\ i \in Multiples /\ fed \in Nat
        /\ Processed \in Nat /\ lastPos \in 0 .. BufSize /\ claimed \in Nat /\ BufSize \in Nat
    BY <1>1, CodecFacts DEF IInv, Control, Counts
  <1>4. i = BufSize
    BY <1>1, <1>3, BlockUsedUp
  <1>5. coded = Processed + lastPos /\ coded + Owing = fed
    BY <1>1, <1>3, <1>4 DEF IInv, Ledger
  <1>6. Control'
    BY <1>1, <1>2 DEF IInv, Control
  <1>7. Counts'
    BY <1>1, <1>2, <1>3 DEF IInv, Counts
  <1>8. Values'
    BY <1>1, <1>2 DEF IInv, Values
  <1>9. Ledger'
    <2>1. coded' = Processed' + 0 /\ coded' + Owing' = fed' - 0
      BY <1>1, <1>2, <1>3, <1>5
    <2>2. (ReadPos' < length' => fed' = ReadPos') /\ ReadPos' <= fed' /\ fed' < ReadPos' + BufSize
      BY <1>1, <1>2 DEF IInv, Ledger
    <2> QED BY <1>1, <2>1, <2>2 DEF Ledger
  <1>10. Owed'
    BY <1>1, <1>2 DEF IInv, Owed
  <1>11. Contents' /\ FramesInOrder'
    BY <1>1, <1>2 DEF IInv, Contents, FramesInOrder, HasSamplesFrom
  <1>12. AllCovered'
    BY <1>1, <1>2, <1>3, <1>5 DEF AllCovered
  <1> QED BY <1>6, <1>7, <1>8, <1>9, <1>10, <1>11, <1>12 DEF IInv

THEOREM Invariance == Spec => []IInv
  <1>1. Init => IInv
    BY InitInv
  <1>2. IInv /\ [Next]_vars => IInv'
    <2>1. SUFFICES ASSUME IInv, [Next]_vars PROVE IInv'
      OBVIOUS
    <2>2. CASE UNCHANGED vars
      BY <2>1, <2>2 DEF vars, run, engine, IInv, Control, Counts, Values, Ledger, Owing, Owed,
                        Contents, FramesInOrder, AllCovered, HasSamplesFrom, Samples, Steps,
                        step, Multiples
    <2> QED
      BY <2>1, <2>2, BeginBlockInv, LookAheadInv, EncodeStepInv, EndBlockInv DEF Next
  <1> QED BY <1>1, <1>2, PTL DEF Spec
-----------------------------------------------------------------------------
\* Types, and one step at most is ever owed to the drain.
THEOREM TypeCorrect == Spec => []TypeOK
  <1>1. ASSUME IInv PROVE TypeOK
    <2>1. {held, frame, ahead} \subseteq {None} \cup Steps /\ Buffer \in [Positions -> Samples]
      BY <1>1 DEF IInv, Values
    <2>2. ReadPos \in Samples
      BY <1>1 DEF IInv, Counts, Samples
    <2> QED BY <1>1, <2>1, <2>2 DEF IInv, Control, Counts, TypeOK
  <1> QED BY <1>1, Invariance, PTL

\* Every frame encodes the samples after those of the frame before it.
THEOREM Ordered == Spec => []FramesInOrder
  <1>1. IInv => FramesInOrder
    BY DEF IInv
  <1> QED BY <1>1, Invariance, PTL

\* A frame is chosen with the frame after it in view.
THEOREM LooksAhead == Spec => []LookAheadIsNext
  <1>1. IInv => LookAheadIsNext
    BY DEF IInv, Owed, Contents, LookAheadIsNext
  <1> QED BY <1>1, Invariance, PTL

\* No sample of the input is left behind, however it ends.
THEOREM Covered == Spec => []AllCovered
  <1>1. IInv => AllCovered
    BY DEF IInv
  <1> QED BY <1>1, Invariance, PTL

\* No frame begins beyond the blocks read, and those end with the input's block.
THEOREM Bounded == Spec => []NothingInvented
  <1>1. ASSUME IInv PROVE NothingInvented
    <2>1. codec \in Codecs /\ coded \in Nat /\ fed \in Nat /\ i \in {Idle} \cup 0 .. BufSize
      BY <1>1 DEF IInv, Control, Counts
    <2>2. Owing \in Nat /\ BufSize \in Nat
      BY <2>1, CodecFacts DEF Owing
    <2>3. coded <= fed
      BY <1>1, <2>1, <2>2 DEF IInv, Ledger, Idle
    <2> QED BY <1>1, <2>3 DEF IInv, Ledger, NothingInvented
  <1> QED BY <1>1, Invariance, PTL

(***************************************************************************)
(* At3Gain: least and greatest, and what recursion stays in                *)
(***************************************************************************)
\* Min and Max are an element of the set, and a bound of it.
LEMMA MinIs ==
  ASSUME NEW lo \in Int, NEW S, S # {}, \A x \in S : x \in Int /\ lo <= x
  PROVE  Min(S) \in S /\ \A x \in S : Min(S) <= x
<1> DEFINE D == {x - lo : x \in S}
<1>1. D \in SUBSET Nat /\ D # {}
  OBVIOUS
<1>2. PICK d \in D : \A y \in D : d <= y
  BY <1>1, LeastNat
<1>3. PICK x \in S : d = x - lo
  BY <1>2
<1>4. \A y \in S : x <= y
  <2> TAKE y \in S
  <2>1. d <= y - lo /\ y - lo \in D
    BY <1>2
  <2> QED
    BY <1>3, <2>1
<1> QED
  BY <1>3, <1>4 DEF Min

LEMMA MaxIs ==
  ASSUME NEW hi \in Int, NEW S, S # {}, \A x \in S : x \in Int /\ x <= hi
  PROVE  Max(S) \in S /\ \A x \in S : Max(S) >= x
<1> DEFINE D == {hi - x : x \in S}
<1>1. D \in SUBSET Nat /\ D # {}
  OBVIOUS
<1>2. PICK d \in D : \A y \in D : d <= y
  BY <1>1, LeastNat
<1>3. PICK x \in S : d = hi - x
  BY <1>2
<1>4. \A y \in S : x >= y
  <2> TAKE y \in S
  <2>1. d <= hi - y /\ hi - y \in D
    BY <1>2
  <2> QED
    BY <1>3, <2>1
<1> QED
  BY <1>3, <1>4 DEF Max

\* What starts in V and does not leave it from one index to the next is in V.
LEMMA StaysIn ==
  ASSUME NEW n \in Nat, NEW V, NEW g, g = [k \in 0 .. n |-> g[k]], g[0] \in V,
         \A k \in 1 .. n : g[k - 1] \in V => g[k] \in V
  PROVE  g \in [0 .. n -> V]
<1> DEFINE T == {m \in Nat : m <= n => g[m] \in V}
<1>1. 0 \in T
  OBVIOUS
<1>2. ASSUME NEW m \in T PROVE m + 1 \in T
  <2>1. m \in Nat /\ m + 1 \in Nat /\ (m + 1) - 1 = m
    OBVIOUS
  <2> SUFFICES ASSUME m + 1 <= n PROVE g[m + 1] \in V
    BY <2>1
  <2>2. m + 1 \in 1 .. n /\ g[m] \in V
    BY <2>1
  <2> QED
    BY <2>1, <2>2
<1> HIDE DEF T
<1>3. T \in SUBSET Nat
  BY DEF T
<1>4. T = Nat
  BY <1>1, <1>2, <1>3, SetInduction
<1>5. \A m \in 0 .. n : g[m] \in V
  <2> TAKE m \in 0 .. n
  <2>1. m \in Nat /\ m <= n
    OBVIOUS
  <2>2. m \in T
    BY <1>4, <2>1
  <2> QED
    BY <2>1, <2>2 DEF T
<1> QED
  BY <1>5

(***************************************************************************)
(* Levels                                                                  *)
(***************************************************************************)
Exponents == {Silent} \cup 0 .. 14
Envelopes == [Subframes -> Exponents]
Levels    == 0 .. 15
LevelRows == [Subframes -> Levels]

LEMMA ExponentsAre == \A x \in Exponents : x \in Int /\ -100 <= x /\ x <= 14
BY DEF Exponents, Silent

LEMMA MaxExponent ==
  ASSUME NEW S \in SUBSET Exponents, S # {} PROVE Max(S) \in S
<1>1. \A x \in S : x \in Int /\ x <= 14
  BY ExponentsAre
<1> QED
  BY <1>1, MaxIs

LEMMA MinExponent ==
  ASSUME NEW S \in SUBSET Exponents, S # {} PROVE Min(S) \in S
<1>1. \A x \in S : x \in Int /\ -100 <= x
  BY ExponentsAre
<1> QED
  BY <1>1, MinIs

LEMMA MedianIs ==
  ASSUME NEW a \in Exponents, NEW b \in Exponents, NEW c \in Exponents
  PROVE  Median(a, b, c) \in Exponents
<1> DEFINE low    == Min({a, b})
           middle == Min({Max({a, b}), c})
<1>1. low \in {a, b}
  BY MinExponent
<1>2. Max({a, b}) \in {a, b}
  BY MaxExponent
<1>3. middle \in {Max({a, b}), c}
  BY <1>2, MinExponent
<1>4. Max({low, middle}) \in {low, middle}
  BY <1>1, <1>2, <1>3, MaxExponent
<1> QED
  BY <1>1, <1>2, <1>3, <1>4 DEF Median

LEMMA MedianFilterIs ==
  ASSUME NEW env \in Envelopes PROVE MedianFilter(env) \in Envelopes
<1> DEFINE at(j) == IF j \in {0, 31} THEN Max({env[j], env[IF j = 0 THEN 1 ELSE 30]})
                    ELSE Median(env[j - 1], env[j], env[j + 1])
<1>1. ASSUME NEW j \in Subframes PROVE at(j) \in Exponents
  <2>1. CASE j \in {0, 31}
    <3> DEFINE S == {env[j], env[IF j = 0 THEN 1 ELSE 30]}
    <3>1. S \in SUBSET Exponents /\ S # {}
      BY <2>1 DEF Subframes, Envelopes
    <3>2. Max(S) \in Exponents
      BY <3>1, MaxExponent
    <3> QED
      BY <2>1, <3>2
  <2>2. CASE j \notin {0, 31}
    <3>1. j - 1 \in Subframes /\ j + 1 \in Subframes
      BY <2>2 DEF Subframes
    <3>2. env[j - 1] \in Exponents /\ env[j] \in Exponents /\ env[j + 1] \in Exponents
      BY <3>1 DEF Envelopes
    <3>3. Median(env[j - 1], env[j], env[j + 1]) \in Exponents
      BY <3>2, MedianIs
    <3> QED
      BY <2>2, <3>3
  <2> QED
    BY <2>1, <2>2
<1>2. MedianFilter(env) = [j \in Subframes |-> at(j)]
  BY DEF MedianFilter
<1> HIDE DEF at
<1> QED
  BY <1>1, <1>2 DEF Envelopes

LEMMA TargetIs ==
  ASSUME NEW env \in Envelopes PROVE Target(env) \in Exponents
<1> DEFINE f == MedianFilter(env)
<1>1. f \in Envelopes
  BY MedianFilterIs
<1> HIDE DEF f
<1>2. \A j \in 0 .. 29 : FloorFrom(f, j) \in Exponents
  <2> TAKE j \in 0 .. 29
  <2> DEFINE S == {f[j], f[j + 1], f[j + 2]}
  <2>1. j \in Subframes /\ j + 1 \in Subframes /\ j + 2 \in Subframes
    BY DEF Subframes
  <2>2. S \in SUBSET Exponents /\ S # {}
    BY <1>1, <2>1 DEF Envelopes
  <2>3. Min(S) \in Exponents
    BY <2>2, MinExponent
  <2> QED
    BY <2>3 DEF FloorFrom
<1>3. PlateauLevel(f) \in Exponents
  <2> DEFINE S == {FloorFrom(f, j) : j \in 0 .. 29}
  <2>1. S \in SUBSET Exponents /\ S # {}
    BY <1>2
  <2>2. Max(S) \in Exponents
    BY <2>1, MaxExponent
  <2> QED
    BY <2>2 DEF PlateauLevel
<1>4. env[31] \in Exponents
  BY DEF Envelopes, Subframes
<1> QED
  BY <1>3, <1>4 DEF Target, f

LEMMA LevelOfIs == \A d \in Int : LevelOf(d) \in Levels
BY DEF LevelOf, Levels, Neutral

\* A subframe's level is that of its loudness or the one before.
LEMMA SfLevelsIs ==
  ASSUME NEW sound, sound.env \in Envelopes, NEW lastTarget
  PROVE  SfLevels(sound, lastTarget) \in LevelRows
<1> DEFINE f == MedianFilter(sound.env)
           target == Target(sound.env)
           stay == StaysOnLevel(sound.env, lastTarget)
           own(j) == LevelOf(f[j] - target)
           after(j, prev) ==
             IF stay /\ j \in sound.leaning /\ own(j) - prev \in {-1, 1} THEN prev ELSE own(j)
           advance == [x \in (1 .. 31) \X Levels |-> after(x[1], x[2])]
           levels[j \in Subframes] ==
             LET level == LevelOf(f[j] - target)
                 prev  == IF j > 0 THEN levels[j - 1] ELSE level
             IN IF stay /\ j \in sound.leaning /\ level - prev \in {-1, 1} THEN prev ELSE level
<1>1. \A j \in Subframes : own(j) \in Levels
  <2> TAKE j \in Subframes
  <2>1. f[j] \in Exponents /\ target \in Exponents
    BY MedianFilterIs, TargetIs DEF Envelopes
  <2>2. f[j] - target \in Int
    BY <2>1, ExponentsAre
  <2> QED
    BY <2>2, LevelOfIs
<1>2. SfLevels(sound, lastTarget) = levels
  BY DEF SfLevels
<1> HIDE DEF f, target, stay
<1>3. \A k \in 1 .. 31 : \A v \in Levels : advance[<<k, v>>] = after(k, v)
  OBVIOUS
<1>4. \A k \in 1 .. 31 : \A v \in Levels : advance[<<k, v>>] \in Levels
  <2> HIDE DEF own, advance
  <2>1. \A k \in 1 .. 31 : own(k) \in Levels
    BY <1>1 DEF Subframes
  <2> QED
    BY <1>3, <2>1
<1>5. own(0) \in Levels
  BY <1>1 DEF Subframes
<1> HIDE DEF advance
<1>6. PICK g : Stepped(g, own(0), advance, Levels, 31)
  BY <1>4, <1>5, BoundedRecursion
<1>7. g \in LevelRows
  BY <1>6 DEF Stepped, LevelRows, Subframes
<1>8. ASSUME NEW j \in Subframes
      PROVE  g[j] = LET level == LevelOf(f[j] - target)
                        prev  == IF j > 0 THEN g[j - 1] ELSE level
                    IN IF stay /\ j \in sound.leaning /\ level - prev \in {-1, 1}
                       THEN prev ELSE level
  <2>1. CASE j = 0
    <3>1. own(0) - own(0) \notin {-1, 1}
      BY <1>5 DEF Levels
    <3>2. g[j] = own(0)
      BY <1>6, <2>1 DEF Stepped
    <3> QED
      BY <2>1, <3>1, <3>2
  <2>2. CASE j # 0
    <3>1. j \in 1 .. 31 /\ j - 1 \in Subframes /\ j > 0
      BY <2>2 DEF Subframes
    <3>2. g[j - 1] \in Levels
      BY <1>7, <3>1 DEF LevelRows
    <3>3. g[j] = after(j, g[j - 1])
      BY <1>3, <1>6, <3>1, <3>2, SMTT(30) DEF Stepped
    <3> QED
      BY <3>1, <3>3
  <2> QED
    BY <2>1, <2>2
<1>9. g = [j \in Subframes |->
             LET level == LevelOf(f[j] - target)
                 prev  == IF j > 0 THEN g[j - 1] ELSE level
             IN IF stay /\ j \in sound.leaning /\ level - prev \in {-1, 1} THEN prev ELSE level]
  <2>1. g = [j \in Subframes |-> g[j]]
    BY <1>7 DEF LevelRows
  <2> QED
    BY <1>8, <2>1
<1>10. levels = [j \in Subframes |->
             LET level == LevelOf(f[j] - target)
                 prev  == IF j > 0 THEN levels[j - 1] ELSE level
             IN IF stay /\ j \in sound.leaning /\ level - prev \in {-1, 1} THEN prev ELSE level]
  BY <1>9
<1> HIDE DEF levels
<1>11. levels[0] \in Levels
  <2>1. levels[0] = own(0)
    BY <1>10 DEF Subframes
  <2> QED
    BY <1>5, <2>1
<1>12. ASSUME NEW k \in 1 .. 31, levels[k - 1] \in Levels PROVE levels[k] \in Levels
  <2>1. k \in Subframes /\ k > 0
    BY DEF Subframes
  <2>2. levels[k] = after(k, levels[k - 1])
    BY <1>10, <2>1
  <2>3. own(k) \in Levels
    BY <1>1, <2>1
  <2> HIDE DEF own
  <2> QED
    BY <1>12, <2>2, <2>3
<1>13. levels = [j \in 0 .. 31 |-> levels[j]]
  BY <1>10 DEF Subframes
<1>14. levels \in [0 .. 31 -> Levels]
  BY <1>11, <1>12, <1>13, StaysIn
<1> QED
  BY <1>2, <1>14 DEF LevelRows, Subframes

\* No subframe behind TargetSf needs a gain, and the one before it does.
LEMMA TargetSfIs ==
  ASSUME NEW levels \in LevelRows
  PROVE  /\ TargetSf(levels) \in 0 .. 31
         /\ TargetSf(levels) > 0 => levels[TargetSf(levels) - 1] # Neutral
         /\ \A sf \in 1 .. 31 : sf > TargetSf(levels) => levels[sf - 1] = Neutral
<1> DEFINE S == {0} \cup {sf \in 1 .. 31 : levels[sf - 1] # Neutral}
<1>1. S # {} /\ \A x \in S : x \in Int /\ x <= 31
  OBVIOUS
<1>2. Max(S) \in S /\ \A x \in S : Max(S) >= x
  BY <1>1, MaxIs
<1>3. TargetSf(levels) = Max(S)
  BY DEF TargetSf
<1>4. PICK m : m = Max(S)
  OBVIOUS
<1> QED
  BY <1>2, <1>3, <1>4

\* The recursion of HeldLevels, and that it stays among the levels.
LEMMA HeldLevelsIs ==
  ASSUME NEW levels \in LevelRows, NEW f, NEW minJump,
         NEW n \in 0 .. 31, n = TargetSf(levels),
         NEW h, h = HeldLevels(levels, f, minJump)
  PROVE  /\ h \in [0 .. n -> Levels]
         /\ h[0] = Neutral
         /\ \A k \in 1 .. n :
              h[k] = PrevLevel(h[k - 1], levels[n - k],
                               Keeps(levels, f, minJump, n + 1 - k, h[k - 1]))
<1> DEFINE after(k, v) ==
             LET loc == n + 1 - k
             IN PrevLevel(v, levels[loc - 1], Keeps(levels, f, minJump, loc, v))
           advance == [x \in (1 .. n) \X Levels |-> after(x[1], x[2])]
           row[k \in 0 .. n] ==
             IF k = 0 THEN Neutral
             ELSE LET prev == row[k - 1]
                      loc  == n + 1 - k
                  IN PrevLevel(prev, levels[loc - 1], Keeps(levels, f, minJump, loc, prev))
<1>1. h = row
  BY DEF HeldLevels
<1>2. \A k \in 1 .. n : \A v \in Levels : advance[<<k, v>>] = after(k, v)
  OBVIOUS
<1>3. \A k \in 1 .. n : \A v \in Levels : after(k, v) \in Levels
  <2> TAKE k \in 1 .. n
  <2> TAKE v \in Levels
  <2>1. (n + 1 - k) - 1 \in 0 .. 30
    OBVIOUS
  <2>2. levels[(n + 1 - k) - 1] \in Levels
    BY <2>1 DEF LevelRows, Subframes
  <2> QED
    BY <2>2 DEF PrevLevel
<1> HIDE DEF after, advance
<1>4. \A k \in 1 .. n : \A v \in Levels : advance[<<k, v>>] \in Levels
  BY <1>2, <1>3
<1>5. Neutral \in Levels /\ n \in Nat
  BY DEF Neutral, Levels
<1>6. PICK g : Stepped(g, Neutral, advance, Levels, n)
  BY <1>4, <1>5, BoundedRecursion
<1>7. ASSUME NEW k \in 0 .. n PROVE g[k] = IF k = 0 THEN Neutral ELSE after(k, g[k - 1])
  <2>1. CASE k = 0
    BY <1>6, <2>1 DEF Stepped
  <2>2. CASE k # 0
    <3>1. k \in 1 .. n /\ k - 1 \in 0 .. n
      BY <2>2
    <3>2. g[k - 1] \in Levels
      BY <1>6, <3>1 DEF Stepped
    <3>3. g[k] = advance[<<k, g[k - 1]>>]
      BY <1>6, <3>1 DEF Stepped
    <3> QED
      BY <1>2, <2>2, <3>1, <3>2, <3>3
  <2> QED
    BY <2>1, <2>2
<1>8. g = [k \in 0 .. n |-> IF k = 0 THEN Neutral ELSE after(k, g[k - 1])]
  <2>1. g = [k \in 0 .. n |-> g[k]]
    BY <1>6 DEF Stepped
  <2> QED
    BY <1>7, <2>1
<1>9. row = [k \in 0 .. n |-> IF k = 0 THEN Neutral ELSE after(k, row[k - 1])]
  BY <1>8 DEF after
<1> HIDE DEF row
<1>10. row[0] = Neutral
  BY <1>9, <1>5
<1>11. \A k \in 1 .. n : row[k] = after(k, row[k - 1])
  <2> TAKE k \in 1 .. n
  <2>1. k \in 0 .. n /\ k # 0
    OBVIOUS
  <2> QED
    BY <1>9, <2>1
<1>12. row \in [0 .. n -> Levels]
  <2>1. row = [k \in 0 .. n |-> row[k]]
    BY <1>9
  <2>2. \A k \in 1 .. n : row[k - 1] \in Levels => row[k] \in Levels
    BY <1>3, <1>11
  <2> QED
    BY <1>5, <1>10, <2>1, <2>2, StaysIn
<1>13. \A k \in 1 .. n : (n + 1 - k) - 1 = n - k
  OBVIOUS
<1> QED
  BY <1>1, <1>10, <1>11, <1>12, <1>13 DEF after

(***************************************************************************)
(* What Trim leaves, and in which order Nth tells it                       *)
(***************************************************************************)
LEMMA SetsOfPlaces ==
  ASSUME NEW S \in SUBSET (1 .. 31)
  PROVE  IsFiniteSet(S) /\ Cardinality(S) \in Nat
<1>1. 1 \in Int /\ 31 \in Int
  OBVIOUS
<1>2. IsFiniteSet(1 .. 31)
  BY <1>1, FS_Interval, Zenon
<1> QED
  BY <1>2, FS_Subset, FS_CardinalityType

LEMMA LessPlaces ==
  ASSUME NEW S \in SUBSET (1 .. 31), NEW R \in SUBSET S
  PROVE  /\ Cardinality(R) <= Cardinality(S)
         /\ \A x \in S \ R : Cardinality(R) < Cardinality(S)
<1>1. IsFiniteSet(S)
  BY SetsOfPlaces
<1>2. Cardinality(R) <= Cardinality(S)
  BY <1>1, FS_Subset
<1>3. ASSUME NEW x \in S \ R PROVE Cardinality(R) < Cardinality(S)
  <2>1. R # S
    BY <1>3
  <2>2. Cardinality(R) # Cardinality(S)
    BY <1>1, <2>1, FS_Subset
  <2>3. Cardinality(R) \in Nat /\ Cardinality(S) \in Nat
    BY SetsOfPlaces
  <2> QED
    BY <1>2, <2>2, <2>3
<1> QED
  BY <1>2, <1>3

Beats(trans, a, b) == trans[a] > trans[b] \/ (trans[a] = trans[b] /\ a > b)
Better(trans, loc) == {a \in DOMAIN trans : Beats(trans, a, loc)}

LEMMA TrimIs ==
  ASSUME NEW trans
  PROVE  Trim(trans) = {loc \in DOMAIN trans : Cardinality(Better(trans, loc)) < 6}
BY DEF Trim, TrimTo, MaxCurvePoints, Better, Beats

\* At most six changes are kept: the least of those kept is behind all others.
LEMMA TrimIsShort ==
  ASSUME NEW D \in SUBSET (1 .. 31), NEW trans \in [D -> Nat]
  PROVE  Trim(trans) \subseteq D /\ Cardinality(Trim(trans)) <= 6
<1> DEFINE K == Trim(trans)
           rank(loc) == Cardinality(Better(trans, loc))
<1>1. K = {loc \in D : rank(loc) < 6}
  BY TrimIs
<1>2. \A loc \in D : Better(trans, loc) \in SUBSET D /\ rank(loc) \in Nat
  <2> TAKE loc \in D
  <2>1. Better(trans, loc) \in SUBSET D
    BY DEF Better
  <2>2. Better(trans, loc) \in SUBSET (1 .. 31)
    BY <2>1
  <2> QED
    BY <2>1, <2>2, SetsOfPlaces
<1> HIDE DEF K
<1>3. K \in SUBSET (1 .. 31)
  BY <1>1
<1>4. CASE K = {}
  BY <1>1, <1>4, FS_EmptySet DEF K
<1>5. CASE K # {}
  <2> DEFINE R == {rank(loc) : loc \in K}
  <2>1. R # {} /\ \A x \in R : x \in Int /\ x <= 5
    <3>1. \A loc \in K : rank(loc) \in Int /\ rank(loc) <= 5
      <4> HIDE DEF rank
      <4> QED
        BY <1>1, <1>2
    <3> HIDE DEF rank
    <3> QED
      BY <1>5, <3>1
  <2>2. Max(R) \in R /\ \A x \in R : Max(R) >= x
    <3> HIDE DEF R
    <3> QED
      BY <2>1, MaxIs
  <2>3. PICK w \in K : rank(w) = Max(R)
    BY <2>2
  <2>4. \A loc \in K : rank(loc) <= rank(w)
    <3> TAKE loc \in K
    <3>1. rank(loc) \in R
      OBVIOUS
    <3>2. Max(R) >= rank(loc)
      BY <2>2, <3>1
    <3>3. rank(loc) \in Nat /\ rank(w) \in Nat
      BY <1>1, <1>2
    <3> HIDE DEF R, rank
    <3> QED
      BY <2>3, <3>2, <3>3
  <2> HIDE DEF R
  <2>5. w \in D /\ rank(w) < 6 /\ rank(w) \in Nat
    <3> HIDE DEF rank
    <3> QED
      BY <1>1, <1>2
  <2>6. ASSUME NEW a \in K, a # w PROVE a \in Better(trans, w)
    <3>1. a \in D /\ a \in Int /\ w \in Int /\ trans[a] \in Nat /\ trans[w] \in Nat
      BY <1>1, <2>5
    <3> SUFFICES ASSUME ~Beats(trans, a, w) PROVE FALSE
      BY <3>1 DEF Better
    <3>2. Beats(trans, w, a)
      BY <2>6, <3>1 DEF Beats
    <3>3. \A b \in D : Beats(trans, b, w) => Beats(trans, b, a)
      <4> TAKE b \in D
      <4>1. b \in Int /\ trans[b] \in Nat
        OBVIOUS
      <4> QED
        BY <3>1, <3>2, <4>1 DEF Beats
    <3>4. ~Beats(trans, w, w)
      BY <3>1 DEF Beats
    <3>5. Better(trans, w) \in SUBSET Better(trans, a)
      BY <3>3 DEF Better
    <3>6. w \in Better(trans, a) \ Better(trans, w)
      BY <2>5, <3>2, <3>4 DEF Better
    <3>7. Better(trans, a) \in SUBSET (1 .. 31)
      BY <1>2, <3>1
    <3>8. rank(w) < rank(a)
      BY <3>5, <3>6, <3>7, LessPlaces
    <3>9. rank(a) <= rank(w) /\ rank(a) \in Nat
      BY <1>2, <2>4, <3>1
    <3> HIDE DEF rank
    <3> QED
      BY <2>5, <3>8, <3>9
  <2>7. K \in SUBSET (Better(trans, w) \cup {w})
    BY <2>6
  <2>8. IsFiniteSet(Better(trans, w)) /\ Better(trans, w) \in SUBSET (1 .. 31)
    BY <1>2, <2>5, SetsOfPlaces
  <2>9. w \notin Better(trans, w)
    <3>1. w \in Int /\ trans[w] \in Nat
      BY <2>5
    <3> QED
      BY <3>1 DEF Better, Beats
  <2>10. Cardinality(Better(trans, w) \cup {w}) = rank(w) + 1
    BY <2>8, <2>9, FS_AddElement
  <2>11. Cardinality(K) <= Cardinality(Better(trans, w) \cup {w})
    <3>1. Better(trans, w) \cup {w} \in SUBSET (1 .. 31)
      BY <2>5, <2>8
    <3> QED
      BY <2>7, <3>1, LessPlaces
  <2>12. Cardinality(K) \in Nat
    BY <1>3, SetsOfPlaces
  <2>13. Cardinality(K) <= 6
    <3> HIDE DEF rank
    <3> QED
      BY <2>5, <2>10, <2>11, <2>12
  <2> QED
    BY <1>1, <2>13 DEF K
<1> QED
  BY <1>4, <1>5

\* Six changes or fewer are all kept.
LEMMA TrimKeepsAll ==
  ASSUME NEW D \in SUBSET (1 .. 31), NEW trans \in [D -> Nat], Cardinality(D) <= 6
  PROVE  Trim(trans) = D
<1>1. ASSUME NEW loc \in D PROVE Cardinality(Better(trans, loc)) < 6
  <2>1. Better(trans, loc) \in SUBSET D
    BY DEF Better
  <2>2. loc \notin Better(trans, loc)
    <3>1. loc \in Int /\ trans[loc] \in Nat
      OBVIOUS
    <3> QED
      BY <3>1 DEF Better, Beats
  <2>3. Cardinality(Better(trans, loc)) < Cardinality(D)
    BY <2>1, <2>2, LessPlaces
  <2>4. Better(trans, loc) \in SUBSET (1 .. 31)
    BY <2>1
  <2>5. Cardinality(Better(trans, loc)) \in Nat /\ Cardinality(D) \in Nat
    BY <2>4, SetsOfPlaces
  <2> QED
    BY <2>3, <2>5
<1> QED
  BY <1>1, TrimIs

(***************************************************************************)
(* Curves                                                                  *)
(***************************************************************************)
CurvePoint == [Level : Levels, Location : Subframes]
Curves     == {c \in Seq(CurvePoint) : Len(c) <= 7}

\* Of the analysis, without point 0, and with or without it.
RawCurves  == {c \in Seq(CurvePoint) : /\ Len(c) <= 6
                                       /\ \A k \in 1 .. Len(c) : c[k].Location \in 1 .. 31}
Point0(p)  == <<[Level |-> p, Location |-> 0]>>
Led(c)     == {c} \cup {Point0(p) \o c : p \in Levels}

LEMMA SequenceOf ==
  ASSUME NEW V, NEW n \in Nat, NEW g \in [1 .. n -> V] PROVE g \in Seq(V) /\ Len(g) = n
OBVIOUS

\* Where changes are kept, by the levels held behind them.
Kept(levels, f, minJump, n, h) == {loc \in 1 .. n : Keeps(levels, f, minJump, loc, h[n - loc])}

LEMMA TransitionsAre ==
  ASSUME NEW levels \in LevelRows, NEW f, NEW minJump,
         NEW n \in 0 .. 31, n = TargetSf(levels),
         NEW h, h = HeldLevels(levels, f, minJump),
         NEW trans, trans = Transitions(levels, f, minJump)
  PROVE  /\ DOMAIN trans = Kept(levels, f, minJump, n, h)
         /\ DOMAIN trans \in SUBSET (1 .. 31)
         /\ trans \in [DOMAIN trans -> Nat]
<1>1. DOMAIN trans = Kept(levels, f, minJump, n, h)
  BY DEF Transitions, Kept
<1>2. DOMAIN trans \in SUBSET (1 .. 31)
  BY <1>1 DEF Kept
<1>3. h \in [0 .. n -> Levels]
  BY HeldLevelsIs
<1>4. ASSUME NEW loc \in 1 .. n PROVE Distance(levels[loc - 1], h[n - loc]) \in Nat
  <2>1. loc - 1 \in Subframes /\ n - loc \in 0 .. n
    BY DEF Subframes
  <2>2. levels[loc - 1] \in Levels /\ h[n - loc] \in Levels
    BY <1>3, <2>1 DEF LevelRows
  <2> QED
    BY <2>2 DEF Distance, Levels
<1>5. trans = [loc \in DOMAIN trans |-> Distance(levels[loc - 1], h[n - loc])]
  BY DEF Transitions
<1>6. \A loc \in DOMAIN trans : trans[loc] \in Nat
  BY <1>1, <1>4, <1>5 DEF Kept
<1> QED
  BY <1>1, <1>2, <1>5, <1>6

LEMMA PointsAre ==
  ASSUME NEW levels \in LevelRows, NEW S \in SUBSET (1 .. 31), NEW c, c = Points(levels, S)
  PROVE  /\ c \in Seq(CurvePoint) /\ Len(c) = Cardinality(S)
         /\ \A k \in 1 .. Len(c) :
              /\ Nth(S, k) \in S /\ Nth(S, k) \in 1 .. 31
              /\ c[k] = [Level |-> levels[Nth(S, k) - 1], Location |-> Nth(S, k)]
<1>1. PICK n \in Nat : n = Cardinality(S)
  BY SetsOfPlaces
<1>2. \A k \in 1 .. n : Nth(S, k) \in S /\ Nth(S, k) \in 1 .. 31
  <2>1. S \in SUBSET Nat /\ IsFiniteSet(S)
    BY SetsOfPlaces
  <2> QED
    BY <1>1, <2>1, NthIs
<1>3. ASSUME NEW k \in 1 .. n
      PROVE  [Level |-> levels[Nth(S, k) - 1], Location |-> Nth(S, k)] \in CurvePoint
  <2>1. PICK loc \in 1 .. 31 : loc = Nth(S, k)
    BY <1>2
  <2>2. loc - 1 \in Subframes /\ loc \in Subframes
    BY DEF Subframes
  <2>3. levels[loc - 1] \in Levels
    BY <2>2 DEF LevelRows
  <2> QED
    BY <2>1, <2>2, <2>3 DEF CurvePoint
<1>4. c = [k \in 1 .. n |-> [Level |-> levels[Nth(S, k) - 1], Location |-> Nth(S, k)]]
  BY <1>1 DEF Points
<1>5. c \in [1 .. n -> CurvePoint]
  BY <1>3, <1>4
<1>6. c \in Seq(CurvePoint) /\ Len(c) = n
  BY <1>5, SequenceOf
<1> QED
  BY <1>1, <1>2, <1>4, <1>6

LEMMA NoCurve == << >> \in RawCurves /\ << >> \in Curves
<1>1. << >> \in Seq(CurvePoint) /\ Len(<< >>) = 0
  BY EmptySeq
<1> QED
  BY <1>1 DEF RawCurves, Curves

\* A curve of the analysis has six points at most, behind the first subframe.
LEMMA CalcCurveIs ==
  ASSUME NEW sound, sound.env \in Envelopes, NEW ctx, NEW minJump
  PROVE  CalcCurve(sound, ctx, minJump) \in RawCurves
<1> DEFINE levels == SfLevels(sound, ctx.LastTarget)
           f == MedianFilter(sound.env)
           trans == Transitions(levels, f, minJump)
           c == Points(levels, Trim(trans))
<1>1. levels \in LevelRows
  BY SfLevelsIs
<1>2. CalcCurve(sound, ctx, minJump) \in {<< >>, c}
  BY DEF CalcCurve
<1> HIDE DEF levels, f
<1>3. TargetSf(levels) \in 0 .. 31
  BY <1>1, TargetSfIs
<1>4. DOMAIN trans \in SUBSET (1 .. 31) /\ trans \in [DOMAIN trans -> Nat]
  BY <1>1, <1>3, TransitionsAre
<1> HIDE DEF trans
<1>5. Trim(trans) \in SUBSET (1 .. 31) /\ Cardinality(Trim(trans)) <= 6
  BY <1>4, TrimIsShort
<1>6. c \in RawCurves
  <2>1. \A k \in 1 .. Len(c) : c[k].Location \in 1 .. 31
    <3> TAKE k \in 1 .. Len(c)
    <3>1. PICK S \in SUBSET (1 .. 31) : S = Trim(trans)
      BY <1>5
    <3>2. /\ c[k] = [Level |-> levels[Nth(S, k) - 1], Location |-> Nth(S, k)]
          /\ Nth(S, k) \in 1 .. 31
      BY <1>1, <3>1, PointsAre
    <3> QED
      BY <3>2
  <2>2. c \in Seq(CurvePoint) /\ Len(c) <= 6
    BY <1>1, <1>5, PointsAre
  <2> QED
    BY <2>1, <2>2 DEF RawCurves
<1> QED
  BY <1>2, <1>6, NoCurve

LEMMA RelationIs ==
  ASSUME NEW num \in Int, NEW den \in Nat \ {0} PROVE RelationToIdx(num, den) \in Levels
<1>1. ASSUME NEW x PROVE FirstSetBit(x) \in 0 .. 11 /\ (x \in Int /\ x <= 16 => FirstSetBit(x) <= 4)
  <2> DEFINE S == {0} \cup {b \in 1 .. 11 : Pow2[b] <= x}
  <2>1. S # {} /\ \A b \in S : b \in Int /\ b <= 11
    OBVIOUS
  <2>2. Max(S) \in S
    <3>1. 11 \in Int
      OBVIOUS
    <3> HIDE DEF S
    <3> QED
      BY <2>1, <3>1, MaxIs, Zenon
  <2>3. \A b \in 5 .. 11 : Pow2[b] \in Int /\ Pow2[b] > 16
    BY DEF Pow2
  <2>4. PICK b \in S : b = FirstSetBit(x)
    BY <2>2 DEF FirstSetBit
  <2>5. b \in 0 .. 11
    OBVIOUS
  <2>6. ASSUME x \in Int, x <= 16 PROVE b <= 4
    <3>1. b = 0 \/ Pow2[b] <= x
      OBVIOUS
    <3>2. CASE b \in 5 .. 11
      BY <2>3, <2>6, <3>1, <3>2
    <3> QED
      BY <2>5, <3>2
  <2> QED
    BY <2>4, <2>5, <2>6
<1>2. CASE 2 * num <= den
  <2>1. PICK b \in 0 .. 11 : b = FirstSetBit(den \div num)
    BY <1>1
  <2> QED
    BY <1>2, <2>1 DEF RelationToIdx, Neutral, Levels
<1>3. CASE ~(2 * num <= den)
  <2>1. PICK q \in Int : q = num \div den
    OBVIOUS
  <2>2. Min({16, q}) \in Int /\ Min({16, q}) <= 16
    <3> DEFINE S == {16, q}
    <3>1. PICK lo \in Int : lo <= 16 /\ lo <= q
      <4>1. CASE q <= 16
        BY <4>1
      <4>2. CASE ~(q <= 16)
        BY <4>2
      <4> QED
        BY <4>1, <4>2
    <3>2. S # {} /\ \A x \in S : x \in Int /\ lo <= x
      BY <3>1
    <3>3. Min(S) \in S /\ \A x \in S : Min(S) <= x
      <4> HIDE DEF S
      <4> QED
        BY <3>2, MinIs
    <3> QED
      BY <3>3
  <2>3. PICK b \in 0 .. 11 : b = FirstSetBit(Min({16, q})) /\ b <= 4
    BY <1>1, <2>2
  <2> QED
    BY <1>3, <2>1, <2>3 DEF RelationToIdx, Neutral, Levels
<1> QED
  BY <1>2, <1>3

(* ------------------------------- point 0 ------------------------------- *)

LEMMA SumOfIs ==
  ASSUME NEW env \in Envelopes, NEW n \in 0 .. 32 PROVE SumOf(env, n) \in Nat
<1> DEFINE g == [j \in Subframes |-> Amplitude(env[j])]
<1>1. \A j \in Subframes : g[j] \in Nat
  <2> TAKE j \in Subframes
  <2>1. env[j] = Silent \/ env[j] \in 0 .. 14
    BY DEF Envelopes, Exponents
  <2>2. \A x \in 0 .. 14 : Pow2[x] \in Nat
    BY DEF Pow2
  <2> QED
    BY <2>1, <2>2 DEF Amplitude
<1> HIDE DEF g
<1>2. \A j \in 0 .. n - 1 : g[j] \in Nat
  BY <1>1 DEF Subframes
<1>3. n \in Nat
  OBVIOUS
<1> QED
  BY <1>2, <1>3, SumNat DEF SumOf, g

LEMMA LoudnessIs ==
  ASSUME NEW env \in Envelopes PROVE Energy(env) \in Nat /\ Target(env) \in Exponents
<1>1. 32 \in 0 .. 32
  OBVIOUS
<1> QED
  BY <1>1, SumOfIs, TargetIs DEF Energy

\* Point 0 only ever goes in front.
LEMMA WithPoint0Is ==
  ASSUME NEW c \in RawCurves, NEW env \in Envelopes, NEW lastTarget \in Exponents
  PROVE  WithPoint0(c, env, lastTarget) \in Led(c)
<1> DEFINE level == FirstLevel(c)
           n     == IF c = << >> THEN 32 ELSE c[1].Location
           sum   == SumOf(env, n)
           num   == IF level < Neutral THEN n * Pow2[Neutral - level] ELSE n
           den   == IF level > Neutral THEN sum * Pow2[level - Neutral] ELSE sum
           p0    == RelationToIdx(Amplitude(lastTarget) * num, den)
<1>1. WithPoint0(c, env, lastTarget)
        = IF lastTarget = Silent \/ den <= num \div 2 \/ (c = << >> /\ p0 = Neutral) THEN c
          ELSE Point0(p0) \o c
  BY DEF WithPoint0, Point0
<1>2. level \in Levels /\ n \in 1 .. 32
  <2>1. CASE c = << >>
    BY <2>1 DEF FirstLevel, Neutral, Levels
  <2>2. CASE c # << >>
    <3>1. c \in Seq(CurvePoint) /\ 1 \in 1 .. Len(c)
      BY <2>2, EmptySeq DEF RawCurves
    <3>2. c[1] \in CurvePoint
      BY <3>1, ElementOfSeq
    <3>3. c[1].Location \in 1 .. 31
      BY <3>1 DEF RawCurves
    <3> QED
      BY <2>2, <3>2, <3>3 DEF FirstLevel, CurvePoint
  <2> QED
    BY <2>1, <2>2
<1>3. sum \in Nat
  <2> HIDE DEF level, n
  <2>1. PICK m \in 0 .. 32 : m = n
    BY <1>2
  <2>2. SumOf(env, m) \in Nat
    BY SumOfIs
  <2> QED
    BY <2>1, <2>2
<1>4. \A x \in 0 .. 14 : Pow2[x] \in Nat \ {0}
  BY DEF Pow2
<1>5. Amplitude(lastTarget) \in Nat
  BY <1>4 DEF Exponents, Amplitude
<1> HIDE DEF level, n, sum
<1>6. num \in Nat
  <2>1. CASE level < Neutral
    <3>1. Neutral - level \in 0 .. 14
      BY <1>2, <2>1 DEF Neutral, Levels
    <3>2. PICK x \in Nat : x = Pow2[Neutral - level]
      BY <1>4, <3>1
    <3>3. n * x \in Nat
      BY <1>2
    <3> QED
      BY <2>1, <3>2, <3>3
  <2>2. CASE ~(level < Neutral)
    BY <1>2, <2>2
  <2> QED
    BY <2>1, <2>2
<1>7. den \in Nat
  <2>1. CASE level > Neutral
    <3>1. level - Neutral \in 0 .. 14
      BY <1>2, <2>1 DEF Neutral, Levels
    <3>2. PICK x \in Nat : x = Pow2[level - Neutral]
      BY <1>4, <3>1
    <3>3. sum * x \in Nat
      BY <1>3
    <3> QED
      BY <2>1, <3>2, <3>3
  <2>2. CASE ~(level > Neutral)
    BY <1>3, <2>2
  <2> QED
    BY <2>1, <2>2
<1> HIDE DEF num, den
<1>8. Amplitude(lastTarget) * num \in Int
  BY <1>5, <1>6
<1>9. ASSUME ~(den <= num \div 2) PROVE p0 \in Levels
  <2>1. num \div 2 \in Nat
    BY <1>6
  <2>2. den \in Nat \ {0}
    BY <1>7, <1>9, <2>1
  <2> QED
    BY <1>8, <2>2, RelationIs
<1> HIDE DEF p0
<1> QED
  BY <1>1, <1>9 DEF Led

LEMMA LedIs ==
  ASSUME NEW c \in RawCurves, NEW p \in Levels, NEW v, v = Point0(p) \o c
  PROVE  /\ v \in Curves /\ Len(v) = Len(c) + 1
         /\ v[1].Location = 0
         /\ \A k \in 1 .. Len(c) : v[k + 1] = c[k]
         /\ Tail(v) = c
<1>1. [Level |-> p, Location |-> 0] \in CurvePoint
  BY DEF CurvePoint, Subframes
<1>2. Point0(p) \in Seq(CurvePoint) /\ Len(Point0(p)) = 1
  BY <1>1 DEF Point0
<1>3. c \in Seq(CurvePoint) /\ Len(c) \in Nat /\ Len(c) <= 6
  BY LenProperties DEF RawCurves
<1>4. /\ v \in Seq(CurvePoint) /\ Len(v) = 1 + Len(c)
      /\ \A k \in 1 .. 1 + Len(c) : v[k] = IF k <= 1 THEN Point0(p)[k] ELSE c[k - 1]
  <2>1. PICK q \in Seq(CurvePoint) : q = Point0(p) /\ Len(q) = 1
    BY <1>2
  <2>2. /\ q \o c \in Seq(CurvePoint) /\ Len(q \o c) = Len(q) + Len(c)
        /\ \A k \in 1 .. Len(q) + Len(c) :
             (q \o c)[k] = IF k <= Len(q) THEN q[k] ELSE c[k - Len(q)]
    BY <1>3, ConcatProperties
  <2> QED
    BY <2>1, <2>2
<1>5. v[1].Location = 0
  <2>1. 1 \in 1 .. 1 + Len(c) /\ 1 <= 1
    BY <1>3
  <2>2. v[1] = [Level |-> p, Location |-> 0]
    BY <1>4, <2>1 DEF Point0
  <2> QED
    BY <2>2
<1>6. \A k \in 1 .. Len(c) : v[k + 1] = c[k]
  <2> TAKE k \in 1 .. Len(c)
  <2>1. k + 1 \in 1 .. 1 + Len(c) /\ ~(k + 1 <= 1) /\ (k + 1) - 1 = k
    BY <1>3
  <2> QED
    BY <1>4, <2>1
<1>7. Tail(v) = c
  <2>1. v # << >>
    <3>1. Len(v) # 0
      BY <1>3, <1>4
    <3> QED
      BY <3>1, EmptySeq
  <2>2. /\ Tail(v) \in Seq(CurvePoint) /\ Len(Tail(v)) = Len(c)
        /\ \A k \in 1 .. Len(Tail(v)) : Tail(v)[k] = v[k + 1]
    <3>1. (1 + Len(c)) - 1 = Len(c)
      BY <1>3
    <3> QED
      BY <1>4, <2>1, <3>1, HeadTailProperties
  <2>3. \A k \in 1 .. Len(Tail(v)) : Tail(v)[k] = c[k]
    BY <1>6, <2>2
  <2> QED
    BY <1>3, <2>2, <2>3, SeqEqual
<1> QED
  BY <1>3, <1>4, <1>5, <1>6, <1>7 DEF Curves

\* What is dropped is point 0, and nothing else.
LEMMA DropPoint0Is ==
  ASSUME NEW c \in RawCurves, NEW v \in Led(c) PROVE DropPoint0(v) \in Led(c)
<1>1. CASE v = c
  <2>1. CASE Len(c) >= 2
    <3>1. 1 \in 1 .. Len(c)
      BY <2>1, LenProperties DEF RawCurves
    <3>2. c[1].Location \in 1 .. 31
      BY <3>1 DEF RawCurves
    <3>3. c[1].Location # 0
      BY <3>2
    <3> QED
      BY <1>1, <3>3 DEF DropPoint0, Led
  <2>2. CASE ~(Len(c) >= 2)
    BY <1>1, <2>2 DEF DropPoint0, Led
  <2> QED
    BY <2>1, <2>2
<1>2. CASE \E p \in Levels : v = Point0(p) \o c
  <2>1. Tail(v) = c
    BY <1>2, LedIs
  <2> QED
    BY <2>1 DEF DropPoint0, Led
<1> QED
  BY <1>1, <1>2 DEF Led

LEMMA LedAreCurves ==
  ASSUME NEW c \in RawCurves PROVE Led(c) \subseteq Curves
<1>1. c \in Curves
  BY LenProperties DEF RawCurves, Curves
<1> QED
  BY <1>1, LedIs DEF Led

(* --------------------------- read, and applied ------------------------- *)

LEMMA CurveIs ==
  ASSUME NEW c \in Curves
  PROVE  /\ c \in Seq(CurvePoint) /\ Len(c) \in 0 .. 7 /\ DOMAIN c = 1 .. Len(c)
         /\ \A k \in 1 .. Len(c) :
              c[k].Level \in Levels /\ c[k].Location \in Subframes /\ c[k] \in CurvePoint
<1>1. c \in Seq(CurvePoint) /\ Len(c) <= 7
  BY DEF Curves
<1>2. Len(c) \in Nat /\ DOMAIN c = 1 .. Len(c)
  BY <1>1, LenProperties
<1>3. Len(c) \in 0 .. 7
  <2>1. \A n \in Nat : n <= 7 => n \in 0 .. 7
    OBVIOUS
  <2> QED
    BY <1>1, <1>2, <2>1, Zenon
<1>4. \A k \in 1 .. Len(c) : c[k] \in CurvePoint
  BY <1>1, ElementOfSeq
<1> QED
  BY <1>1, <1>2, <1>3, <1>4 DEF CurvePoint

\* The fields hold every curve: their count does not overflow.
LEMMA ReadsBack ==
  ASSUME NEW c \in Curves PROVE ReadCurve(Written(c)) = c
<1>1. c \in Seq(CurvePoint) /\ Len(c) \in 0 .. 7 /\ DOMAIN c = 1 .. Len(c)
  BY CurveIs, SMTT(30)
<1>2. Len(c) % 8 = Len(c)
  <2>1. \A x \in 0 .. 7 : x % 8 = x
    OBVIOUS
  <2> QED
    BY <1>1, <2>1
<1> DEFINE fields == [k \in DOMAIN c |-> [Level |-> c[k].Level % 16, Location |-> c[k].Location % 32]]
<1>3. fields = c
  <2>1. ASSUME NEW k \in DOMAIN c
        PROVE  [Level |-> c[k].Level % 16, Location |-> c[k].Location % 32] = c[k]
    <3>1. c[k] \in CurvePoint
      BY <1>1, ElementOfSeq
    <3>2. PICK lv \in 0 .. 15, loc \in 0 .. 31 : c[k] = [Level |-> lv, Location |-> loc]
      BY <3>1 DEF CurvePoint, Levels, Subframes
    <3>3. lv % 16 = lv /\ loc % 32 = loc
      OBVIOUS
    <3> QED
      BY <3>2, <3>3
  <2>2. c = [k \in DOMAIN c |-> c[k]]
    BY <1>1, LenProperties
  <2> QED
    BY <2>1, <2>2
<1>4. ReadCurve(Written(c)) = SubSeq(fields, 1, Len(c) % 8)
  BY DEF ReadCurve, Written
<1> HIDE DEF fields
<1>5. SubSeq(c, 1, Len(c)) = c
  BY <1>1, SubSeqFull
<1> QED
  BY <1>2, <1>3, <1>4, <1>5

LEMMA GainIs ==
  ASSUME NEW c \in Curves
  PROVE  Scale(c) \in Int /\ \A pos \in GainSamples : GainAt(c, pos) \in Int
<1>1. c \in Seq(CurvePoint) /\ Len(c) \in 0 .. 7 /\ DOMAIN c = 1 .. Len(c)
  BY CurveIs
<1>2. \A k \in 1 .. Len(c) : c[k].Level \in Int /\ c[k].Location \in Int
  <2>1. \A x \in Levels : x \in Int
    BY DEF Levels
  <2>2. \A x \in Subframes : x \in Int
    BY DEF Subframes
  <2> QED
    BY <2>1, <2>2, CurveIs
<1>3. Scale(c) \in Int
  <2>1. c # << >> => 1 \in 1 .. Len(c)
    BY <1>1, EmptySeq
  <2>2. FirstLevel(c) \in Int
    BY <1>2, <2>1 DEF FirstLevel, Neutral
  <2> QED
    BY <2>2 DEF Scale, LocSz, Neutral
<1>4. ASSUME NEW pos \in GainSamples PROVE GainAt(c, pos) \in Int
  <2> DEFINE due  == {k \in DOMAIN c : pos < LocSz * (c[k].Location + 1)}
             k    == Min(due)
             next == IF k < Len(c) THEN c[k + 1].Level ELSE Neutral
             ramp == pos - LocSz * c[k].Location
  <2>1. GainAt(c, pos) = IF due = {} THEN 0
                         ELSE LocSz * (Neutral - c[k].Level)
                                - (IF ramp > 0 THEN ramp * (next - c[k].Level) ELSE 0)
    BY DEF GainAt
  <2>2. CASE due = {}
    BY <2>1, <2>2
  <2>3. CASE due # {}
    <3>1. \A x \in due : x \in Int /\ 1 <= x
      BY <1>1
    <3>2. k \in 1 .. Len(c)
      <4>1. k \in due
        <5> HIDE DEF due
        <5> QED
          BY <2>3, <3>1, MinIs
      <4> QED
        BY <1>1, <4>1
    <3> HIDE DEF k, due
    <3>3. next \in Int
      <4>1. CASE k < Len(c)
        <5>1. k + 1 \in 1 .. Len(c)
          BY <1>1, <3>2, <4>1
        <5> QED
          BY <1>2, <4>1, <5>1
      <4>2. CASE ~(k < Len(c))
        BY <4>2 DEF Neutral
      <4> QED
        BY <4>1, <4>2
    <3>4. c[k].Level \in Int /\ c[k].Location \in Int
      BY <1>2, <3>2
    <3>10. pos \in Int
      BY DEF GainSamples
    <3> HIDE DEF next
    <3>5. PICK lv \in Int, loc \in Int : lv = c[k].Level /\ loc = c[k].Location
      BY <3>4
    <3>6. pos - LocSz * loc \in Int /\ LocSz * (Neutral - lv) \in Int /\ next - lv \in Int
      BY <3>10, <3>3, <3>4 DEF LocSz, Neutral
    <3>7. ramp = pos - LocSz * loc
      BY <3>5
    <3> HIDE DEF ramp
    <3>8. ramp * (next - lv) \in Int
      BY <3>6, <3>7
    <3>9. LocSz * (Neutral - lv) - (IF ramp > 0 THEN ramp * (next - lv) ELSE 0) \in Int
      BY <3>6, <3>8
    <3> QED
      BY <2>1, <2>3, <3>5, <3>9
  <2> QED
    BY <2>2, <2>3
<1> QED
  BY <1>3, <1>4

(***************************************************************************)
(* The inductive invariant                                                 *)
(***************************************************************************)
UnitRecords ==
  [first : [of : Nat, curve : Curves], second : Nat, curve : Curves,
   wire : {Written(c) : c \in Curves}, against : SUBSET Nat]

\* Every unit is of the frame of its number; its first half is the second half of
\* the unit before, divided by the curve of that one.
Chained ==
  /\ units \in Seq(UnitRecords) /\ sounds \in Seq(DOMAIN Sounds) /\ Len(sounds) = Len(units)
  /\ \A u \in 1 .. Len(units) :
       /\ units[u].second = u
       /\ units[u].wire = Written(units[u].curve)
       /\ units[u].against \subseteq {u - 1}
       /\ u > 1 => units[u].first = [of |-> u - 1, curve |-> units[u - 1].curve]

\* What the next call starts from.
Buffered ==
  /\ LookAheadPending \in BOOLEAN
  /\ LookAheadBuf \in [tail : Nat, current : Nat, next : Nat]
  /\ LookAheadPending => units = << >>
  /\ ~LookAheadPending => LookAheadBuf.current = Len(units) + 1
  /\ PcmFirst \in [of : Nat, curve : Curves]
  /\ units # << >> => PcmFirst = [of |-> Len(units), curve |-> units[Len(units)].curve]

\* A context with a level is of the frame just before, and tells its target and its
\* energy; without gain control there is none.
ContextIsFresh ==
  /\ NoGainControll => CurveCtx.LastLevel = Silent
  /\ CurveCtx \in [LastLevel : Exponents, LastTarget : Exponents, LastHpfEnergy : Nat, of : Nat]
  /\ CurveCtx.LastLevel # Silent =>
       /\ units # << >> /\ CurveCtx.of = Len(units)
       /\ CurveCtx.LastTarget = Target(Sounds[sounds[Len(units)]].env)
       /\ CurveCtx.LastHpfEnergy = Energy(Sounds[sounds[Len(units)]].env)

GainInv == Chained /\ Buffered /\ ContextIsFresh

LEMMA SoundsAre ==
  ASSUME NEW s \in DOMAIN Sounds PROVE Sounds[s].env \in Envelopes
BY SoundsAssumption DEF Envelopes, Exponents

LEMMA InitGain == GainInit => GainInv
<1> SUFFICES ASSUME GainInit PROVE GainInv
  OBVIOUS
<1>1. Chained
  <2>1. units = << >> /\ sounds = << >> /\ Len(units) = 0
    BY EmptySeq DEF GainInit
  <2>2. units \in Seq(UnitRecords) /\ sounds \in Seq(DOMAIN Sounds)
    BY <2>1, EmptySeq
  <2> QED
    BY <2>1, <2>2 DEF Chained
<1>2. Buffered
  BY NoCurve DEF GainInit, Buffered
<1>3. ContextIsFresh
  BY DEF GainInit, ContextIsFresh, Exponents
<1> QED
  BY <1>1, <1>2, <1>3 DEF GainInv

LEMMA FirstCallGain == GainInv /\ FirstCall => GainInv'
<1> SUFFICES ASSUME GainInv, FirstCall PROVE GainInv'
  OBVIOUS
<1>1. /\ units' = units /\ sounds' = sounds /\ CurveCtx' = CurveCtx /\ PcmFirst' = PcmFirst
      /\ NoGainControll' = NoGainControll
  BY DEF FirstCall, setup
<1>2. Chained'
  BY <1>1 DEF GainInv, Chained
<1>3. ContextIsFresh'
  BY <1>1 DEF GainInv, ContextIsFresh
<1>4. Buffered'
  <2>1. units = << >> /\ Len(units) = 0
    BY EmptySeq DEF GainInv, Buffered, FirstCall
  <2>2. LookAheadBuf' \in [tail : Nat, current : Nat, next : Nat] /\ LookAheadBuf'.current = 1
    BY DEF GainInv, Buffered, FirstCall
  <2>3. LookAheadPending' = FALSE /\ Len(units') = 0 /\ units' = << >>
    BY <1>1, <2>1 DEF FirstCall
  <2>4. PcmFirst' \in [of : Nat, curve : Curves]
    BY <1>1 DEF GainInv, Buffered
  <2>5. LookAheadBuf'.current = Len(units') + 1
    BY <2>2, <2>3
  <2>6. LookAheadPending' \in BOOLEAN /\ ~LookAheadPending'
    BY <2>3
  <2> QED
    BY <2>2, <2>3, <2>4, <2>5, <2>6 DEF Buffered
<1> QED
  BY <1>2, <1>3, <1>4 DEF GainInv

\* A frame encoded with any curve goes on with the chain, if what the curve draws on
\* is of the frame before.
LEMMA EncodeGain ==
  ASSUME NEW s \in DOMAIN Sounds, NEW curve \in Curves, NEW against \in SUBSET {Len(units)},
         Chained, Buffered, Encode(s, curve, against)
  PROVE  /\ Chained' /\ Buffered'
         /\ LookAheadBuf.current = Len(units) + 1
         /\ Len(units') = Len(units) + 1 /\ units' # << >>
         /\ units'[Len(units) + 1].curve = curve
         /\ units'[Len(units) + 1].second = Len(units) + 1
         /\ sounds'[Len(units) + 1] = s
         /\ \A u \in 1 .. Len(units) : sounds'[u] = sounds[u]
<1>1. PICK n \in Nat : n = Len(units) /\ n = Len(sounds)
  BY LenProperties DEF Chained
<1>2. LookAheadBuf.current = n + 1
  BY <1>1 DEF Encode, Buffered
<1> DEFINE new == [first |-> PcmFirst, second |-> n + 1, curve |-> curve,
                   wire |-> Written(curve), against |-> against]
<1>3. new \in UnitRecords
  BY <1>1 DEF UnitRecords, Buffered
<1>4. units' = Append(units, new) /\ sounds' = Append(sounds, s)
  BY <1>2 DEF Encode
<1>5. new.first = PcmFirst /\ new.second = n + 1 /\ new.curve = curve
      /\ new.wire = Written(curve) /\ new.against = against
  OBVIOUS
<1> HIDE DEF new
<1>6. /\ units' \in Seq(UnitRecords) /\ units' # << >> /\ Len(units') = n + 1
      /\ \A u \in 1 .. n : units'[u] = units[u]
      /\ units'[n + 1] = new
  BY <1>1, <1>3, <1>4, AppendProperties DEF Chained
<1>7. /\ sounds' \in Seq(DOMAIN Sounds) /\ Len(sounds') = n + 1
      /\ \A u \in 1 .. n : sounds'[u] = sounds[u]
      /\ sounds'[n + 1] = s
  BY <1>1, <1>4, AppendProperties DEF Chained
<1>8. ASSUME NEW u \in 1 .. n + 1
      PROVE  /\ units'[u].second = u
             /\ units'[u].wire = Written(units'[u].curve)
             /\ units'[u].against \subseteq {u - 1}
             /\ u > 1 => units'[u].first = [of |-> u - 1, curve |-> units'[u - 1].curve]
  <2>1. CASE u \in 1 .. n
    <3>1. u > 1 => u - 1 \in 1 .. n
      BY <1>1
    <3>2. /\ units[u].second = u
          /\ units[u].wire = Written(units[u].curve)
          /\ units[u].against \subseteq {u - 1}
          /\ u > 1 => units[u].first = [of |-> u - 1, curve |-> units[u - 1].curve]
      BY <1>1, <2>1 DEF Chained
    <3>3. units'[u] = units[u] /\ (u > 1 => units'[u - 1] = units[u - 1])
      BY <1>6, <2>1, <3>1
    <3> QED
      BY <3>2, <3>3
  <2>2. CASE u = n + 1
    <3>1. u - 1 = n
      BY <1>1, <2>2
    <3>2. units'[u] = new
      BY <1>6, <2>2
    <3>3. ASSUME u > 1 PROVE PcmFirst = [of |-> u - 1, curve |-> units'[u - 1].curve]
      <4>1. n \in 1 .. n /\ n # 0
        BY <1>1, <3>1, <3>3
      <4>2. units # << >>
        BY <1>1, <4>1, EmptySeq
      <4>3. PcmFirst = [of |-> n, curve |-> units[n].curve]
        BY <1>1, <4>2 DEF Buffered
      <4>4. units'[n] = units[n]
        BY <1>6, <4>1
      <4> QED
        BY <3>1, <4>3, <4>4
    <3> QED
      BY <1>1, <1>5, <2>2, <3>1, <3>2, <3>3
  <2> QED
    BY <1>1, <2>1, <2>2
<1>9. Chained'
  BY <1>6, <1>7, <1>8 DEF Chained
<1>10. Buffered'
  <2>1. LookAheadBuf' = [tail |-> n + 1, current |-> (n + 1) + 1, next |-> (n + 1) + 1]
    BY <1>2 DEF Encode
  <2>2. LookAheadBuf' \in [tail : Nat, current : Nat, next : Nat]
        /\ LookAheadBuf'.current = (n + 1) + 1
    BY <1>1, <2>1
  <2>3. PcmFirst' = [of |-> n + 1, curve |-> curve]
    BY <1>2 DEF Encode
  <2>4. PcmFirst' \in [of : Nat, curve : Curves]
    BY <1>1, <2>3
  <2>5. LookAheadPending' = FALSE
    BY DEF Encode, Buffered
  <2> QED
    BY <1>5, <1>6, <2>2, <2>3, <2>4, <2>5 DEF Buffered
<1> QED
  BY <1>1, <1>2, <1>5, <1>6, <1>7, <1>9, <1>10

LEMMA NoPointsIs ==
  ASSUME NEW c \in Led(<< >>) PROVE c \in Curves /\ Len(c) <= 1
<1>1. << >> \in RawCurves /\ Len(<< >>) = 0
  BY NoCurve, EmptySeq
<1>2. CASE c = << >>
  BY <1>1, <1>2, NoCurve
<1>3. CASE \E p \in Levels : c = Point0(p) \o << >>
  <2>1. c \in Curves /\ Len(c) = 0 + 1
    BY <1>1, <1>3, LedIs
  <2> QED
    BY <2>1
<1> QED
  BY <1>2, <1>3 DEF Led

\* The curve that MakeCurve encodes a frame with: with two points or more it is that of
\* the analysis, with or without a point 0, and the frame before had a level.
LEMMA CurveMade ==
  ASSUME GainInv, NEW s \in DOMAIN Sounds, MakeCurve(s), NEW raw,
         raw = CalcCurve(Sounds[s], CurveCtx, MinJump(Energy(Sounds[s].env), CurveCtx.LastHpfEnergy))
  PROVE  \E curve \in Curves, against \in SUBSET {Len(units)} :
           /\ Encode(s, curve, against)
           /\ Len(curve) >= 2 =>
                raw \in RawCurves /\ curve \in Led(raw) /\ CurveCtx.LastLevel # Silent
<1> DEFINE energy == Energy(Sounds[s].env)
<1>1. Analyse(s, energy, raw)
  BY DEF MakeCurve
<1> HIDE DEF energy
<1>2. Sounds[s].env \in Envelopes
  BY SoundsAre
<1>3. raw \in RawCurves
  BY <1>2, CalcCurveIs
<1>4. CASE Encode(s, << >>, {})
  <2>1. ~(Len(<< >>) >= 2)
    BY EmptySeq
  <2> QED
    BY <1>4, <2>1, NoCurve
<1>5. ASSUME raw # << >>,
             NEW usable \in {Usable(raw, Sounds[s])}, NEW c \in Variants(usable, Sounds[s]),
             Encode(s, DropPoint0(c), {CurveCtx.of})
      PROVE  \E curve \in Curves, against \in SUBSET {Len(units)} :
               /\ Encode(s, curve, against)
               /\ Len(curve) >= 2 =>
                    raw \in RawCurves /\ curve \in Led(raw) /\ CurveCtx.LastLevel # Silent
  <2>1. CurveCtx.LastLevel # Silent
    BY <1>5 DEF CalcCurve
  <2>2. {CurveCtx.of} \in SUBSET {Len(units)}
    BY <2>1 DEF GainInv, ContextIsFresh
  <2>3. usable \in {raw, << >>} /\ usable \in RawCurves
    BY <1>3, <1>5, NoCurve DEF Usable
  <2>4. CurveCtx.LastTarget \in Exponents
    BY DEF GainInv, ContextIsFresh
  <2>5. c \in Led(usable)
    <3>1. WithPoint0(usable, Sounds[s].env, CurveCtx.LastTarget) \in Led(usable)
      BY <1>2, <2>3, <2>4, WithPoint0Is
    <3>2. usable \in Led(usable)
      BY DEF Led
    <3> QED
      BY <1>5, <3>1, <3>2 DEF Variants
  <2>6. DropPoint0(c) \in Led(usable)
    BY <2>3, <2>5, DropPoint0Is
  <2>7. DropPoint0(c) \in Curves
    BY <2>3, <2>6, LedAreCurves
  <2>8. ASSUME Len(DropPoint0(c)) >= 2 PROVE DropPoint0(c) \in Led(raw)
    <3>1. CASE usable = << >>
      <4>1. DropPoint0(c) \in Curves /\ Len(DropPoint0(c)) <= 1
        BY <2>6, <3>1, NoPointsIs
      <4>2. Len(DropPoint0(c)) \in 0 .. 7
        BY <4>1, CurveIs
      <4> QED
        BY <2>8, <4>1, <4>2
    <3>2. CASE usable = raw
      BY <2>6, <3>2
    <3> QED
      BY <2>3, <3>1, <3>2
  <2> QED
    BY <1>3, <1>5, <2>1, <2>2, <2>7, <2>8
<1> QED
  BY <1>1, <1>4, <1>5 DEF Analyse

LEMMA UncontrolledGain ==
  ASSUME GainInv, NEW s \in DOMAIN Sounds, Uncontrolled(s)
  PROVE  GainInv'
<1>1. Encode(s, << >>, {}) /\ NoGainControll /\ CurveCtx' = CurveCtx
  BY DEF Uncontrolled
<1>2. Chained' /\ Buffered'
  BY <1>1, EncodeGain, NoCurve DEF GainInv
<1>3. NoGainControll' = NoGainControll
  BY <1>1 DEF Encode, setup
<1>4. ContextIsFresh'
  BY <1>1, <1>3 DEF GainInv, ContextIsFresh
<1> QED
  BY <1>2, <1>4 DEF GainInv

LEMMA SkipBandGain ==
  ASSUME GainInv, NEW s \in DOMAIN Sounds, SkipBand(s)
  PROVE  GainInv'
<1>1. Encode(s, << >>, {}) /\ ~NoGainControll /\ CurveCtx' = [CurveCtx EXCEPT !.LastLevel = Silent]
  BY DEF SkipBand, ResetContext
<1>2. Chained' /\ Buffered'
  BY <1>1, EncodeGain, NoCurve DEF GainInv
<1>3. NoGainControll' = NoGainControll
  BY <1>1 DEF Encode, setup
<1>4. CurveCtx'.LastLevel = Silent
      /\ CurveCtx' \in [LastLevel : Exponents, LastTarget : Exponents, LastHpfEnergy : Nat, of : Nat]
  BY <1>1 DEF GainInv, ContextIsFresh, Exponents
<1>5. ContextIsFresh'
  BY <1>1, <1>3, <1>4 DEF ContextIsFresh
<1> QED
  BY <1>2, <1>5 DEF GainInv

LEMMA MakeCurveGain ==
  ASSUME GainInv, NEW s \in DOMAIN Sounds, MakeCurve(s)
  PROVE  GainInv'
<1> DEFINE raw == CalcCurve(Sounds[s], CurveCtx, MinJump(Energy(Sounds[s].env), CurveCtx.LastHpfEnergy))
           energy == Energy(Sounds[s].env)
           target == Target(Sounds[s].env)
<1>1. PICK curve \in Curves, against \in SUBSET {Len(units)} : Encode(s, curve, against)
  BY CurveMade
<1>2. CurveCtx' = [LastLevel |-> Sounds[s].env[31], LastTarget |-> target,
                   LastHpfEnergy |-> energy, of |-> LookAheadBuf.current]
  BY DEF MakeCurve, Analyse
<1> HIDE DEF raw, energy, target
<1>3. /\ Chained' /\ Buffered' /\ LookAheadBuf.current = Len(units) + 1
      /\ Len(units') = Len(units) + 1 /\ units' # << >> /\ sounds'[Len(units) + 1] = s
  BY <1>1, EncodeGain DEF GainInv
<1>4. NoGainControll' = NoGainControll /\ ~NoGainControll
  BY <1>1 DEF Encode, setup, MakeCurve
<1>5. Sounds[s].env \in Envelopes
  BY SoundsAre
<1>6. energy \in Nat /\ target \in Exponents /\ Sounds[s].env[31] \in Exponents
  <2>1. energy \in Nat /\ target \in Exponents
    BY <1>5, LoudnessIs DEF energy, target
  <2>2. 31 \in Subframes
    BY DEF Subframes
  <2> QED
    BY <1>5, <2>1, <2>2 DEF Envelopes
<1>7. Len(units) + 1 \in Nat
  BY LenProperties DEF GainInv, Chained
<1>8. CurveCtx' \in [LastLevel : Exponents, LastTarget : Exponents, LastHpfEnergy : Nat, of : Nat]
  BY <1>2, <1>3, <1>6, <1>7
<1>9. /\ CurveCtx'.of = Len(units')
      /\ CurveCtx'.LastTarget = Target(Sounds[sounds'[Len(units')]].env)
      /\ CurveCtx'.LastHpfEnergy = Energy(Sounds[sounds'[Len(units')]].env)
  BY <1>2, <1>3 DEF energy, target
<1>10. ContextIsFresh'
  BY <1>3, <1>4, <1>8, <1>9 DEF ContextIsFresh
<1> QED
  BY <1>3, <1>10 DEF GainInv

LEMMA GainStep == GainInv /\ [GainNext]_gainVars => GainInv'
<1> SUFFICES ASSUME GainInv, [GainNext]_gainVars PROVE GainInv'
  OBVIOUS
<1>1. CASE FirstCall
  BY <1>1, FirstCallGain
<1>2. ASSUME NEW s \in DOMAIN Sounds, Uncontrolled(s) \/ SkipBand(s) \/ MakeCurve(s) PROVE GainInv'
  BY <1>2, UncontrolledGain, SkipBandGain, MakeCurveGain
<1>3. CASE UNCHANGED gainVars
  BY <1>3 DEF gainVars, setup, GainInv, Chained, Buffered, ContextIsFresh
<1> QED
  BY <1>1, <1>2, <1>3 DEF GainNext

\* The invariant holds of every behaviour of the encoder around its transform.
THEOREM GainInvariance == GainSpec => []GainInv
BY InitGain, GainStep, PTL DEF GainSpec

\* TargetIsFresh: the frames whose traces are in a curve are no others than the one
\* just before (CurveCtx in CreateSubbandInfo).
THEOREM TargetsAreFresh == GainSpec => []TargetIsFresh
<1>1. GainInv => TargetIsFresh
  <2> SUFFICES ASSUME GainInv, units # << >> PROVE TargetIsFresh
    BY DEF TargetIsFresh
  <2>1. PICK n \in Nat : n = Len(units) /\ n # 0
    BY LenProperties, EmptySeq DEF GainInv, Chained
  <2>2. n \in 1 .. Len(units)
    BY <2>1
  <2>3. units[n].second = n /\ units[n].against \subseteq {n - 1}
    BY <2>2 DEF GainInv, Chained
  <2> QED
    BY <2>1, <2>3 DEF TargetIsFresh
<1> QED
  BY <1>1, GainInvariance, PTL

\* SoundRestored: with the curves read from the units, a decoder undoes what each half
\* of each frame was divided by (TGainProcessor::Modulate and Demodulate).
THEOREM SoundsRestored == GainSpec => []SoundRestored
<1>1. GainInv => SoundRestored
  <2> SUFFICES ASSUME GainInv, Len(units) >= 2 PROVE Restored(Len(units) - 1)
    BY DEF SoundRestored
  <2>1. PICK n \in Nat : n = Len(units) /\ n >= 2
    BY LenProperties DEF GainInv, Chained
  <2> DEFINE u == n - 1
  <2>2. u \in 1 .. n /\ u + 1 = n /\ (u + 1) - 1 = u /\ u + 1 \in 1 .. n /\ u + 1 > 1
    BY <2>1
  <2>3. u = Len(units) - 1
    BY <2>1
  <2> HIDE DEF u
  <2>4. /\ units[u].second = u
        /\ units[u].wire = Written(units[u].curve)
        /\ units[u + 1].wire = Written(units[u + 1].curve)
        /\ units[u + 1].first = [of |-> u, curve |-> units[u].curve]
    BY <2>1, <2>2 DEF GainInv, Chained
  <2>5. units[u] \in UnitRecords /\ units[u + 1] \in UnitRecords
    BY <2>1, <2>2, ElementOfSeq DEF GainInv, Chained
  <2>6. units[u].curve \in Curves /\ units[u + 1].curve \in Curves
    BY <2>5 DEF UnitRecords
  <2>7. PICK c \in Curves, d \in Curves : c = units[u].curve /\ d = units[u + 1].curve
    BY <2>6
  <2>8. ReadCurve(units[u].wire) = c /\ ReadCurve(units[u + 1].wire) = d
    BY <2>4, <2>7, ReadsBack
  <2>9. units[u + 1].first.of = u /\ units[u + 1].first.curve = c
    BY <2>4, <2>7
  <2>10. ASSUME NEW pos \in GainSamples
         PROVE  /\ (-GainAt(c, pos) - Scale(d)) + Scale(d) = -GainAt(c, pos)
                /\ -GainAt(c, pos) + GainAt(c, pos) = 0
    <3>1. PICK x \in Int, y \in Int : x = GainAt(c, pos) /\ y = Scale(d)
      BY GainIs
    <3>2. (-x - y) + y = -x /\ -x + x = 0
      OBVIOUS
    <3> QED
      BY <3>1, <3>2
  <2>11. Restored(u)
    BY <2>4, <2>7, <2>8, <2>9, <2>10 DEF Restored
  <2> QED
    BY <2>3, <2>11
<1> QED
  BY <1>1, GainInvariance, PTL

(***************************************************************************)
(* A curve follows the levels                                              *)
(***************************************************************************)
\* The scan of the levels, from right to left: D is where changes are kept.
Scanned(levels, f, minJump, n, h, D) ==
  /\ levels \in LevelRows /\ n \in 0 .. 31 /\ n = TargetSf(levels)
  /\ h = HeldLevels(levels, f, minJump)
  /\ D = Kept(levels, f, minJump, n, h)
  /\ D \in SUBSET (1 .. 31)

LEMMA ScannedIs ==
  ASSUME NEW levels \in LevelRows, NEW f, NEW minJump,
         NEW trans, trans = Transitions(levels, f, minJump)
  PROVE  /\ Scanned(levels, f, minJump, TargetSf(levels), HeldLevels(levels, f, minJump), DOMAIN trans)
         /\ trans \in [DOMAIN trans -> Nat]
<1>1. TargetSf(levels) \in 0 .. 31
  BY TargetSfIs
<1>2. DOMAIN trans = Kept(levels, f, minJump, TargetSf(levels), HeldLevels(levels, f, minJump))
  BY <1>1, TransitionsAre
<1>3. DOMAIN trans \in SUBSET (1 .. 31) /\ trans \in [DOMAIN trans -> Nat]
  BY <1>1, TransitionsAre
<1> QED
  BY <1>1, <1>2, <1>3 DEF Scanned

LEMMA ScanSteps ==
  ASSUME NEW levels, NEW f, NEW minJump, NEW n, NEW h, NEW D,
         Scanned(levels, f, minJump, n, h, D)
  PROVE  /\ h[0] = Neutral
         /\ \A k \in 1 .. n :
              h[k] = PrevLevel(h[k - 1], levels[n - k],
                               Keeps(levels, f, minJump, n + 1 - k, h[k - 1]))
BY HeldLevelsIs DEF Scanned

\* Between two changes that are kept, going left, the level held is that of the right
\* one.
LEMMA HeldBetween ==
  ASSUME NEW levels, NEW f, NEW minJump, NEW n, NEW h, NEW D,
         Scanned(levels, f, minJump, n, h, D),
         NEW loc \in D, NEW q \in 0 .. loc - 1,
         \A x \in (loc - q) .. (loc - 1) : x \notin D
  PROVE  h[n + 1 - loc + q] = levels[loc - 1]
<1> DEFINE T == {r \in Nat : r <= q => h[n + 1 - loc + r] = levels[loc - 1]}
<1>0. n \in 0 .. 31 /\ D = {x \in 1 .. n : Keeps(levels, f, minJump, x, h[n - x])}
  BY DEF Scanned, Kept
<1>1. loc \in 1 .. n /\ Keeps(levels, f, minJump, loc, h[n - loc])
  BY <1>0
<1>2. \A k \in 1 .. n :
        h[k] = PrevLevel(h[k - 1], levels[n - k], Keeps(levels, f, minJump, n + 1 - k, h[k - 1]))
  BY ScanSteps
<1>3. 0 \in T
  <2>1. n + 1 - loc \in 1 .. n /\ n + 1 - loc + 0 = n + 1 - loc /\ n + 1 - (n + 1 - loc) = loc
        /\ n - (n + 1 - loc) = loc - 1 /\ (n + 1 - loc) - 1 = n - loc
    BY <1>0, <1>1
  <2>2. h[n + 1 - loc] = PrevLevel(h[n - loc], levels[loc - 1], Keeps(levels, f, minJump, loc, h[n - loc]))
    BY <1>2, <2>1
  <2>3. h[n + 1 - loc + 0] = levels[loc - 1]
    BY <1>0, <1>1, <2>1, <2>2 DEF PrevLevel
  <2> QED
    BY <2>3
<1>4. ASSUME NEW r \in T PROVE r + 1 \in T
  <2>1. r \in Nat /\ r + 1 \in Nat
    OBVIOUS
  <2> SUFFICES ASSUME r + 1 <= q PROVE h[n + 1 - loc + (r + 1)] = levels[loc - 1]
    BY <2>1
  <2>2. h[n + 1 - loc + r] = levels[loc - 1]
    BY <2>1
  <2>3. PICK k \in 1 .. n : k = n + 1 - loc + (r + 1)
    BY <1>0, <1>1, <2>1
  <2>4. /\ k - 1 = n + 1 - loc + r
        /\ n + 1 - k \in (loc - q) .. (loc - 1) /\ n + 1 - k \in 1 .. n
        /\ n - (n + 1 - k) = k - 1
    BY <1>0, <1>1, <2>1, <2>3
  <2>5. ~Keeps(levels, f, minJump, n + 1 - k, h[k - 1])
    <3>1. n + 1 - k \notin D
      BY <2>4
    <3> QED
      BY <1>0, <2>4, <3>1
  <2>6. h[k] = h[k - 1]
    BY <1>2, <2>5 DEF PrevLevel
  <2> QED
    BY <2>2, <2>3, <2>4, <2>6
<1> HIDE DEF T
<1>5. T \in SUBSET Nat
  BY DEF T
<1>6. T = Nat
  BY <1>3, <1>4, <1>5, SetInduction
<1>7. q \in T /\ q <= q
  BY <1>1, <1>6
<1> QED
  BY <1>7 DEF T

\* A curve drawn of the levels at the places D: in order, each place once, with the
\* level in front of it, and maybe a point 0.
Drawn(curve, levels, D) ==
  /\ curve \in Curves
  /\ \A k, m \in 1 .. Len(curve) : k < m => curve[k].Location < curve[m].Location
  /\ \A k \in 1 .. Len(curve) :
       \/ curve[k].Location = 0
       \/ curve[k].Location \in D /\ curve[k].Level = levels[curve[k].Location - 1]
  /\ \A x \in D : \E k \in 1 .. Len(curve) : curve[k].Location = x

LEMMA PointsDrawn ==
  ASSUME NEW levels \in LevelRows, NEW D \in SUBSET (1 .. 31), Cardinality(D) <= 6,
         NEW c, c = Points(levels, D)
  PROVE  Drawn(c, levels, D) /\ c \in RawCurves
<1>1. PICK n \in Nat : n = Cardinality(D) /\ n <= 6
  BY SetsOfPlaces
<1>2. c \in Seq(CurvePoint) /\ Len(c) = n
  BY <1>1, PointsAre
<1>3. \A k \in 1 .. n : /\ Nth(D, k) \in D /\ Nth(D, k) \in 1 .. 31
                        /\ c[k] = [Level |-> levels[Nth(D, k) - 1], Location |-> Nth(D, k)]
  BY <1>1, <1>2, PointsAre, ZenonT(60)
<1>4. \A k \in 1 .. n : c[k].Level = levels[Nth(D, k) - 1] /\ c[k].Location = Nth(D, k)
  <2> TAKE k \in 1 .. n
  <2>1. PICK x, y : x = levels[Nth(D, k) - 1] /\ y = Nth(D, k)
    OBVIOUS
  <2>2. c[k] = [Level |-> x, Location |-> y]
    BY <1>3, <2>1
  <2> QED
    BY <2>1, <2>2
<1>5. /\ \A k, m \in 1 .. n : k < m => Nth(D, k) < Nth(D, m)
      /\ \A x \in D : \E k \in 1 .. n : Nth(D, k) = x
  <2>1. D \in SUBSET Nat /\ IsFiniteSet(D)
    BY SetsOfPlaces
  <2> QED
    BY <1>1, <2>1, NthIs
<1>6. c \in RawCurves /\ c \in Curves
  <2>1. \A m \in Nat : m <= 6 => m <= 7
    OBVIOUS
  <2>2. Len(c) <= 6 /\ Len(c) <= 7
    BY <1>1, <1>2, <2>1, Zenon
  <2> QED
    BY <1>2, <1>3, <1>4, <2>2 DEF RawCurves, Curves
<1> QED
  BY <1>2, <1>3, <1>4, <1>5, <1>6 DEF Drawn

LEMMA LedDrawn ==
  ASSUME NEW levels \in LevelRows, NEW D \in SUBSET (1 .. 31),
         NEW c \in RawCurves, Drawn(c, levels, D), NEW p \in Levels, NEW v, v = Point0(p) \o c
  PROVE  Drawn(v, levels, D)
<1>1. PICK n \in Nat : n = Len(c)
  BY CurveIs DEF Drawn
<1>2. /\ v \in Curves /\ Len(v) = n + 1 /\ v[1].Location = 0
      /\ \A k \in 1 .. n : v[k + 1] = c[k]
  <2>1. v \in Curves /\ Len(v) = Len(c) + 1 /\ v[1].Location = 0
    BY LedIs
  <2>2. \A k \in 1 .. Len(c) : v[k + 1] = c[k]
    BY LedIs
  <2> QED
    BY <1>1, <2>1, <2>2
<1>3. \A k \in 1 .. n : c[k].Location \in 1 .. 31
  BY <1>1 DEF RawCurves
<1>4. ASSUME NEW k \in 2 .. n + 1 PROVE k - 1 \in 1 .. n /\ v[k] = c[k - 1]
  <2>1. k - 1 \in 1 .. n /\ (k - 1) + 1 = k
    OBVIOUS
  <2> QED
    BY <1>2, <2>1
<1>5. ASSUME NEW k \in 1 .. n + 1, NEW m \in 1 .. n + 1, k < m
      PROVE  v[k].Location < v[m].Location
  <2>1. m \in 2 .. n + 1
    BY <1>5
  <2>2. v[m] = c[m - 1] /\ m - 1 \in 1 .. n
    BY <1>4, <2>1
  <2>3. CASE k = 1
    <3>1. c[m - 1].Location \in 1 .. 31
      BY <1>3, <2>2
    <3>2. v[k].Location = 0 /\ v[m].Location = c[m - 1].Location
      BY <1>2, <2>2, <2>3
    <3>3. \A x \in 1 .. 31 : 0 < x
      OBVIOUS
    <3>4. 0 < c[m - 1].Location
      BY <3>1, <3>3, Zenon
    <3> QED
      BY <3>2, <3>4
  <2>4. CASE k # 1
    <3>1. k \in 2 .. n + 1 /\ k - 1 < m - 1
      BY <1>5, <2>4
    <3>2. v[k] = c[k - 1] /\ k - 1 \in 1 .. n
      BY <1>4, <3>1
    <3> QED
      BY <1>1, <2>2, <3>1, <3>2 DEF Drawn
  <2> QED
    BY <2>3, <2>4
<1>6. ASSUME NEW k \in 1 .. n + 1
      PROVE  \/ v[k].Location = 0
             \/ v[k].Location \in D /\ v[k].Level = levels[v[k].Location - 1]
  <2>1. CASE k = 1
    BY <1>2, <2>1
  <2>2. CASE k # 1
    <3>1. k \in 2 .. n + 1
      BY <2>2
    <3>2. v[k] = c[k - 1] /\ k - 1 \in 1 .. n
      BY <1>4, <3>1
    <3> QED
      BY <1>1, <3>2 DEF Drawn
  <2> QED
    BY <2>1, <2>2
<1>7. ASSUME NEW x \in D PROVE \E k \in 1 .. n + 1 : v[k].Location = x
  <2>1. PICK k \in 1 .. n : c[k].Location = x
    BY <1>1 DEF Drawn
  <2>2. k + 1 \in 1 .. n + 1 /\ v[k + 1].Location = x
    BY <1>2, <2>1
  <2> QED
    BY <2>2
<1> QED
  BY <1>2, <1>5, <1>6, <1>7 DEF Drawn

LEMMA RampPlaces ==
  ASSUME NEW x \in 0 .. 31, NEW y \in 1 .. 30, x # y
  PROVE  /\ LocSz * y < LocSz * (x + 1) <=> x > y
         /\ x > y => ~(LocSz * y - LocSz * x > 0)
         /\ x <= y <=> x < y
BY DEF LocSz

\* There is no point of c at sf; all places of D are before sf; loc is the next one, and
\* its level is the gain of c.
ClearOf(c, sf)  == \A k \in 1 .. Len(c) : c[k].Location # sf
PastAll(c, D, sf) == (\A x \in D : x < sf) /\ GainAt(c, LocSz * sf) = 0
LeadsTo(c, levels, D, sf, loc) ==
  /\ loc > sf /\ \A x \in D : x > sf => loc <= x
  /\ levels[loc - 1] \in Levels
  /\ GainAt(c, LocSz * sf) = LocSz * (Neutral - levels[loc - 1])

\* Away from its points, a curve divides by the level of the next one.
LEMMA GainBetween ==
  ASSUME NEW levels, NEW D \in SUBSET (1 .. 31), NEW c, Drawn(c, levels, D),
         NEW sf \in 1 .. 30, ClearOf(c, sf)
  PROVE  PastAll(c, D, sf) \/ \E loc \in D : LeadsTo(c, levels, D, sf, loc)
<1>1. /\ c \in Curves /\ Len(c) \in 0 .. 7 /\ DOMAIN c = 1 .. Len(c)
      /\ \A k \in 1 .. Len(c) : c[k].Level \in Levels /\ c[k].Location \in Subframes
  BY CurveIs DEF Drawn
<1>2. PICK n \in 0 .. 7 : n = Len(c)
  BY <1>1
<1> DEFINE pos  == LocSz * sf
           due  == {k \in DOMAIN c : pos < LocSz * (c[k].Location + 1)}
           next(k) == IF k < Len(c) THEN c[k + 1].Level ELSE Neutral
           ramp(k) == pos - LocSz * c[k].Location
<1>3. GainAt(c, pos) = IF due = {} THEN 0
                       ELSE LocSz * (Neutral - c[Min(due)].Level)
                            - (IF ramp(Min(due)) > 0
                               THEN ramp(Min(due)) * (next(Min(due)) - c[Min(due)].Level) ELSE 0)
  BY DEF GainAt
<1>4. ASSUME NEW k \in 1 .. n
      PROVE  /\ k \in due <=> c[k].Location > sf
             /\ c[k].Location > sf => ~(ramp(k) > 0)
             /\ c[k].Location <= sf <=> c[k].Location < sf
  <2>1. PICK loc \in 0 .. 31 : loc = c[k].Location /\ loc # sf
    BY <1>1, <1>2 DEF Subframes, ClearOf
  <2>2. LocSz * sf < LocSz * (loc + 1) <=> loc > sf
    BY <2>1, RampPlaces
  <2>3. loc > sf => ~(LocSz * sf - LocSz * loc > 0)
    BY <2>1, RampPlaces
  <2>4. loc <= sf <=> loc < sf
    BY <2>1, RampPlaces
  <2>5. k \in due <=> LocSz * sf < LocSz * (loc + 1)
    BY <1>1, <1>2, <2>1
  <2> QED
    BY <2>1, <2>2, <2>3, <2>4, <2>5
<1>5. ASSUME NEW x \in D PROVE \E k \in 1 .. n : c[k].Location = x
  BY <1>2 DEF Drawn
<1>6. due \in SUBSET (1 .. n)
  BY <1>1, <1>2
<1> HIDE DEF pos, due, next, ramp
<1>7. CASE due = {}
  <2>1. ASSUME NEW x \in D PROVE x < sf
    <3>1. PICK k \in 1 .. n : c[k].Location = x
      BY <1>5
    <3>2. ~(x > sf) /\ x \in Int
      BY <1>4, <1>7, <3>1
    <3>3. x <= sf
      BY <3>2
    <3> QED
      BY <1>4, <3>1, <3>3
  <2> QED
    BY <1>3, <1>7, <2>1 DEF pos, PastAll
<1>8. CASE due # {}
  <2>1. \A k \in due : k \in Int /\ 1 <= k
    BY <1>6
  <2>2. Min(due) \in due /\ \A k \in due : Min(due) <= k
    BY <1>8, <2>1, MinIs
  <2>3. PICK k \in due : k = Min(due) /\ \A m \in due : k <= m
    BY <2>2
  <2>4. k \in 1 .. n /\ c[k].Location > sf /\ ~(ramp(k) > 0)
    BY <1>4, <1>6, <2>3
  <2>5. PICK loc \in 0 .. 31 : loc = c[k].Location
    BY <1>1, <1>2, <2>4 DEF Subframes
  <2>6. loc > sf /\ loc # 0
    <3>1. loc > sf
      BY <2>4, <2>5, Zenon
    <3> QED
      BY <3>1
  <2>7. loc \in D /\ c[k].Level = levels[loc - 1] /\ c[k].Level \in Levels
    BY <1>1, <1>2, <2>4, <2>5, <2>6 DEF Drawn
  <2>8. ASSUME NEW x \in D, x > sf PROVE loc <= x
    <3>1. PICK m \in 1 .. n : c[m].Location = x
      BY <1>5
    <3>2. m \in due
      BY <1>4, <2>8, <3>1
    <3>3. k <= m
      BY <2>3, <3>2
    <3>4. CASE k = m
      BY <2>5, <2>8, <3>1, <3>4
    <3>5. CASE k # m
      <4>1. k < m
        BY <2>4, <3>3, <3>5
      <4>2. loc < x
        BY <1>2, <2>4, <2>5, <3>1, <4>1 DEF Drawn
      <4> QED
        BY <2>5, <2>8, <4>2
    <3> QED
      BY <3>4, <3>5
  <2>9. GainAt(c, pos) = LocSz * (Neutral - levels[loc - 1])
    <3>1. GainAt(c, pos) = LocSz * (Neutral - c[k].Level) - 0
      BY <1>3, <1>8, <2>3, <2>4
    <3>2. PICK lv \in 0 .. 15 : lv = c[k].Level
      BY <2>7 DEF Levels
    <3>3. LocSz * (Neutral - lv) - 0 = LocSz * (Neutral - lv)
      BY DEF LocSz, Neutral
    <3> QED
      BY <2>7, <3>1, <3>2, <3>3
  <2> QED
    BY <2>6, <2>7, <2>8, <2>9 DEF pos, LeadsTo
<1> QED
  BY <1>7, <1>8

LEMMA NextLevels ==
  ASSUME NEW a \in Levels, NEW b \in Levels, Distance(a, b) <= 1
  PROVE  Distance(LocSz * (Neutral - a), LocSz * (Neutral - b)) <= LocSz
BY DEF Levels, Distance, LocSz, Neutral

\* Behind the last change that is kept, the levels are neutral.
LEMMA NothingHeld ==
  ASSUME NEW levels, NEW f, NEW minJump, NEW n, NEW h, NEW D,
         Scanned(levels, f, minJump, n, h, D),
         NEW sf \in 1 .. 30, \A x \in D : x < sf
  PROVE  levels[sf] = Neutral
<1>0. /\ levels \in LevelRows /\ n \in 0 .. 31 /\ n = TargetSf(levels)
      /\ D = {x \in 1 .. n : Keeps(levels, f, minJump, x, h[n - x])}
  BY DEF Scanned, Kept
<1>1. n < sf + 1
  <2>1. CASE n = 0
    BY <1>0, <2>1
  <2>2. CASE n # 0
    <3>1. n \in 1 .. n /\ n > 0 /\ n - n = 0 /\ n - 1 \in Subframes
      BY <1>0, <2>2 DEF Subframes
    <3>2. levels[n - 1] # Neutral /\ levels[n - 1] \in Levels
      BY <1>0, <3>1, TargetSfIs DEF LevelRows
    <3>3. Distance(levels[n - 1], Neutral) > 0
      BY <3>2 DEF Distance, Levels, Neutral
    <3>4. Keeps(levels, f, minJump, n, h[n - n])
      BY <1>0, <3>1, <3>3, ScanSteps DEF Keeps
    <3>5. n \in D
      BY <1>0, <3>1, <3>4
    <3>6. n < sf
      BY <3>5
    <3> QED
      BY <1>0, <3>6
  <2> QED
    BY <2>1, <2>2
<1>2. sf + 1 \in 1 .. 31 /\ (sf + 1) - 1 = sf /\ sf + 1 > n
  BY <1>0, <1>1
<1> QED
  BY <1>0, <1>2, TargetSfIs

\* However many small changes were left out, each was measured from the level that is
\* held there: none leaves a subframe further off than by one.
LEMMA HeldNear ==
  ASSUME NEW levels, NEW f, NEW minJump, NEW n, NEW h, NEW D,
         Scanned(levels, f, minJump, n, h, D),
         NEW sf \in 1 .. 30, NEW loc \in D, loc > sf, \A x \in D : x > sf => loc <= x
  PROVE  Distance(levels[sf], levels[loc - 1]) <= 1
<1>0. /\ levels \in LevelRows /\ n \in 0 .. 31
      /\ D = {x \in 1 .. n : Keeps(levels, f, minJump, x, h[n - x])}
  BY DEF Scanned, Kept
<1>1. loc \in 1 .. n
  BY <1>0
<1>2. sf \in Subframes /\ loc - 1 \in Subframes
  BY <1>0, <1>1 DEF Subframes
<1>3. levels[sf] \in Levels /\ levels[loc - 1] \in Levels
  BY <1>0, <1>2 DEF LevelRows
<1>4. CASE loc = sf + 1
  <2>1. loc - 1 = sf
    BY <1>4
  <2>2. \A x \in Levels : Distance(x, x) <= 1
    BY DEF Distance, Levels
  <2> QED
    BY <1>3, <2>1, <2>2
<1>5. CASE loc # sf + 1
  <2>1. loc > sf + 1
    BY <1>0, <1>1, <1>5
  <2> DEFINE q == loc - sf - 2
  <2>2. /\ q \in 0 .. loc - 1 /\ loc - q = sf + 2 /\ n + 1 - loc + q = n - (sf + 1)
        /\ sf + 1 \in 1 .. n /\ (sf + 1) - 1 = sf
    BY <1>0, <1>1, <2>1
  <2>3. ASSUME NEW x \in (sf + 1) .. (loc - 1) PROVE x \notin D
    <3>1. x > sf /\ ~(loc <= x)
      BY <1>0, <1>1
    <3> QED
      BY <3>1
  <2>4. \A x \in (loc - q) .. (loc - 1) : x \notin D
    <3> TAKE x \in (loc - q) .. (loc - 1)
    <3>1. x \in (sf + 1) .. (loc - 1)
      BY <1>0, <1>1
    <3> QED
      BY <2>3, <3>1
  <2> HIDE DEF q
  <2>5. h[n + 1 - loc + q] = levels[loc - 1]
    BY <2>2, <2>4, HeldBetween
  <2>6. sf + 1 \notin D
    <3>1. sf + 1 \in (sf + 1) .. (loc - 1)
      BY <1>0, <1>1, <2>1
    <3> QED
      BY <2>3, <3>1
  <2>7. ~Keeps(levels, f, minJump, sf + 1, levels[loc - 1])
    <3>1. ~Keeps(levels, f, minJump, sf + 1, h[n - (sf + 1)])
      BY <1>0, <2>2, <2>6
    <3> QED
      BY <2>2, <2>5, <3>1
  <2>8. PICK d \in Nat : d = Distance(levels[sf], levels[loc - 1])
    BY <1>3 DEF Distance, Levels
  <2>9. ~(d > 0 /\ d >= 2)
    BY <2>2, <2>7, <2>8 DEF Keeps
  <2>10. d <= 1
    BY <2>9
  <2> QED
    BY <2>8, <2>10
<1> QED
  BY <1>4, <1>5

LEMMA CurveDrawn ==
  ASSUME NEW levels \in LevelRows,
         NEW D \in SUBSET (1 .. 31), NEW trans \in [D -> Nat], Cardinality(D) <= 6,
         NEW raw, raw = Points(levels, Trim(trans)), NEW curve \in Led(raw)
  PROVE  Drawn(curve, levels, D)
<1>1. Trim(trans) = D
  BY TrimKeepsAll
<1>2. Drawn(raw, levels, D) /\ raw \in RawCurves
  BY <1>1, PointsDrawn
<1>3. CASE curve = raw
  BY <1>2, <1>3
<1>4. CASE \E p \in Levels : curve = Point0(p) \o raw
  BY <1>2, <1>4, LedDrawn
<1> QED
  BY <1>3, <1>4 DEF Led

LEMMA GainNear ==
  ASSUME NEW levels, NEW f, NEW minJump, NEW n, NEW h, NEW D,
         Scanned(levels, f, minJump, n, h, D),
         NEW curve, Drawn(curve, levels, D),
         NEW sf \in 1 .. 30, ClearOf(curve, sf)
  PROVE  Distance(LocSz * (Neutral - levels[sf]), GainAt(curve, LocSz * sf)) <= LocSz
<1>1. levels[sf] \in Levels
  <2>1. sf \in Subframes
    BY DEF Subframes
  <2> QED
    BY <2>1 DEF LevelRows, Scanned
<1>0. D \in SUBSET (1 .. 31)
  BY DEF Scanned
<1>2. CASE PastAll(curve, D, sf)
  <2>1. levels[sf] = Neutral
    BY <1>2, NothingHeld DEF PastAll
  <2>2. Distance(LocSz * (Neutral - Neutral), 0) <= LocSz
    BY DEF Distance, LocSz, Neutral
  <2> QED
    BY <1>2, <2>1, <2>2 DEF PastAll
<1>3. CASE \E loc \in D : LeadsTo(curve, levels, D, sf, loc)
  <2>1. PICK loc \in D : /\ loc > sf /\ \A x \in D : x > sf => loc <= x
                         /\ levels[loc - 1] \in Levels
                         /\ GainAt(curve, LocSz * sf) = LocSz * (Neutral - levels[loc - 1])
    BY <1>3 DEF LeadsTo
  <2>2. Distance(levels[sf], levels[loc - 1]) <= 1
    BY <2>1, HeldNear
  <2>3. Distance(LocSz * (Neutral - levels[sf]), LocSz * (Neutral - levels[loc - 1])) <= LocSz
    BY <1>1, <2>1, <2>2, NextLevels
  <2> QED
    BY <2>1, <2>3
<1> QED
  BY <1>0, <1>2, <1>3, GainBetween

LEMMA FollowsLevels ==
  ASSUME NEW levels \in LevelRows, NEW f, NEW minJump,
         NEW trans, trans = Transitions(levels, f, minJump), Cardinality(DOMAIN trans) <= 6,
         NEW raw, raw = Points(levels, Trim(trans)), NEW curve \in Led(raw),
         NEW sf \in 1 .. 30, \A k \in DOMAIN curve : curve[k].Location # sf
  PROVE  Distance(LocSz * (Neutral - levels[sf]), GainAt(curve, LocSz * sf)) <= LocSz
<1>1. PICK n, h, D : /\ n = TargetSf(levels) /\ h = HeldLevels(levels, f, minJump)
                     /\ D = DOMAIN trans
  OBVIOUS
<1>2. Scanned(levels, f, minJump, n, h, D) /\ trans \in [D -> Nat]
  BY <1>1, ScannedIs
<1>3. Drawn(curve, levels, D)
  BY <1>1, <1>2, CurveDrawn DEF Scanned
<1>4. ClearOf(curve, sf)
  BY <1>3, CurveIs DEF Drawn, ClearOf
<1> QED
  BY <1>2, <1>3, <1>4, GainNear

\* The frame that MakeCurve has just encoded follows its levels.
LEMMA MadeFollows ==
  ASSUME GainInv, NEW s \in DOMAIN Sounds, MakeCurve(s), CurveFollows
  PROVE  CurveFollows'
<1> DEFINE energy == Energy(Sounds[s].env)
           jump == MinJump(energy, CurveCtx.LastHpfEnergy)
           raw == CalcCurve(Sounds[s], CurveCtx, jump)
           levels == SfLevels(Sounds[s], CurveCtx.LastTarget)
           f == MedianFilter(Sounds[s].env)
           trans == Transitions(levels, f, jump)
<1>1. PICK curve \in Curves, against \in SUBSET {Len(units)} :
        /\ Encode(s, curve, against)
        /\ Len(curve) >= 2 => raw \in RawCurves /\ curve \in Led(raw) /\ CurveCtx.LastLevel # Silent
  BY CurveMade
<1>2. PICK n \in Nat : n = Len(units)
  BY LenProperties DEF GainInv, Chained
<1>3. /\ Len(units') = n + 1
      /\ units'[n + 1].curve = curve /\ units'[n + 1].second = n + 1
      /\ sounds'[n + 1] = s /\ \A u \in 1 .. n : sounds'[u] = sounds[u]
  BY <1>1, <1>2, EncodeGain DEF GainInv
<1>4. SUFFICES ASSUME Len(curve) \in 2 .. 7 PROVE Follows(n + 1)'
  BY <1>3 DEF CurveFollows
<1>5. curve \in Led(raw) /\ CurveCtx.LastLevel # Silent
  BY <1>1, <1>4
<1>6. /\ n # 0 /\ n \in 1 .. n /\ n + 1 > 1 /\ (n + 1) - 1 = n
      /\ CurveCtx.LastTarget = Target(Sounds[sounds[n]].env)
      /\ CurveCtx.LastHpfEnergy = Energy(Sounds[sounds[n]].env)
  <2>1. /\ units # << >> /\ CurveCtx.LastTarget = Target(Sounds[sounds[n]].env)
        /\ CurveCtx.LastHpfEnergy = Energy(Sounds[sounds[n]].env)
    BY <1>2, <1>5 DEF GainInv, ContextIsFresh
  <2>2. n # 0
    BY <1>2, <2>1, EmptySeq DEF GainInv, Chained
  <2> QED
    BY <2>1, <2>2
<1>7. Sounds[s].env \in Envelopes
  BY SoundsAre
<1>8. levels \in LevelRows
  BY <1>7, SfLevelsIs
<1>9. raw = << >> \/ raw = Points(levels, Trim(trans))
  BY DEF CalcCurve
<1>10. raw # << >>
  <2>1. ASSUME raw = << >> PROVE FALSE
    <3>1. Len(curve) <= 1
      BY <1>5, <2>1, NoPointsIs
    <3>2. \A x \in 2 .. 7 : ~(x <= 1)
      OBVIOUS
    <3> QED
      BY <1>4, <3>1, <3>2, Zenon
  <2> QED
    BY <2>1
<1>11. Follows(n + 1)'
       <=> (Cardinality(DOMAIN trans) <= MaxCurvePoints =>
              \A sf \in 1 .. 30 \ {curve[k].Location : k \in DOMAIN curve} :
                Distance(LocSz * (Neutral - levels[sf]), GainAt(curve, LocSz * sf)) <= LocSz)
  BY <1>3, <1>6 DEF Follows
<1> HIDE DEF levels, f, trans, raw, jump
<1> SUFFICES ASSUME Cardinality(DOMAIN trans) <= 6,
                    NEW sf \in 1 .. 30 \ {curve[k].Location : k \in DOMAIN curve}
             PROVE  Distance(LocSz * (Neutral - levels[sf]), GainAt(curve, LocSz * sf)) <= LocSz
  BY <1>11 DEF MaxCurvePoints
<1>12. sf \in 1 .. 30 /\ \A k \in DOMAIN curve : curve[k].Location # sf
  OBVIOUS
<1> QED
  BY <1>5, <1>8, <1>9, <1>10, <1>12, TargetSfIs, FollowsLevels DEF trans

LEMMA PlainFollows ==
  ASSUME GainInv, NEW s \in DOMAIN Sounds, Encode(s, << >>, {})
  PROVE  CurveFollows'
<1>1. Len(units') = Len(units) + 1 /\ units'[Len(units) + 1].curve = << >>
  BY EncodeGain, NoCurve DEF GainInv
<1>2. Len(<< >>) \notin 2 .. 7
  BY EmptySeq
<1> QED
  BY <1>1, <1>2 DEF CurveFollows

\* CurveFollows: away from its ramps, a curve divides every subframe by its own level or
\* one next to it, unless changes had to be dropped (CalcCurve, its scan of levels).
THEOREM CurvesFollow == GainSpec => []CurveFollows
<1>1. GainInit => CurveFollows
  BY DEF GainInit, CurveFollows
<1>2. GainInv /\ CurveFollows /\ [GainNext]_gainVars => CurveFollows'
  <2> SUFFICES ASSUME GainInv, CurveFollows, [GainNext]_gainVars PROVE CurveFollows'
    BY SMTT(30)
  <2>1. CASE FirstCall
    BY <2>1 DEF FirstCall, CurveFollows, Follows
  <2>2. ASSUME NEW s \in DOMAIN Sounds, Uncontrolled(s) PROVE CurveFollows'
    BY <2>2, PlainFollows DEF Uncontrolled
  <2>3. ASSUME NEW s \in DOMAIN Sounds, SkipBand(s) PROVE CurveFollows'
    BY <2>3, PlainFollows DEF SkipBand
  <2>4. ASSUME NEW s \in DOMAIN Sounds, MakeCurve(s) PROVE CurveFollows'
    BY <2>4, MadeFollows
  <2>5. CASE UNCHANGED gainVars
    BY <2>5 DEF gainVars, CurveFollows, Follows
  <2> QED
    BY <2>1, <2>2, <2>3, <2>4, <2>5 DEF GainNext
<1> QED
  BY <1>1, <1>2, GainInvariance, PTL DEF GainSpec

(***************************************************************************)
(* At3pGha: sums over the bands of the channels                            *)
(***************************************************************************)
\* A sum over bands is a natural, and no smaller than a termwise smaller one.
Grids(n) == [1 .. n -> [Bands -> Nat]]
LEMMA RowNat ==
  ASSUME NEW f \in [Bands -> Nat] PROVE SumTo(f, Subbands) \in Nat
<1>1. Subbands \in Nat /\ \A k \in 0 .. Subbands - 1 : f[k] \in Nat
  BY SubbandsAssumption DEF Bands
<1> QED
  BY <1>1, SumNat

LEMMA RowMono ==
  ASSUME NEW f \in [Bands -> Nat], NEW g \in [Bands -> Nat], \A b \in Bands : f[b] <= g[b]
  PROVE  SumTo(f, Subbands) <= SumTo(g, Subbands)
<1>1. Subbands \in Nat /\ \A k \in 0 .. Subbands - 1 : f[k] \in Nat /\ g[k] \in Nat /\ f[k] <= g[k]
  BY SubbandsAssumption DEF Bands
<1> QED
  BY <1>1, SumMono

LEMMA GridNat ==
  ASSUME NEW n \in Nat, NEW f \in Grids(n) PROVE SumOver(n, f) \in Nat
<1> DEFINE rows == [c \in 0 .. n - 1 |-> SumTo(f[c + 1], Subbands)]
<1>1. ASSUME NEW c \in 0 .. n - 1 PROVE rows[c] \in Nat
  <2>1. c + 1 \in 1 .. n
    OBVIOUS
  <2>2. f[c + 1] \in [Bands -> Nat]
    BY <2>1 DEF Grids
  <2> QED
    BY <2>2, RowNat
<1> HIDE DEF rows
<1>2. SumTo(rows, n) \in Nat
  BY <1>1, SumNat
<1> QED
  BY <1>2 DEF SumOver, rows

LEMMA GridMono ==
  ASSUME NEW n \in Nat, NEW f \in Grids(n), NEW g \in Grids(n),
         \A c \in 1 .. n, b \in Bands : f[c][b] <= g[c][b]
  PROVE  SumOver(n, f) <= SumOver(n, g)
<1> DEFINE fr == [c \in 0 .. n - 1 |-> SumTo(f[c + 1], Subbands)]
           gr == [c \in 0 .. n - 1 |-> SumTo(g[c + 1], Subbands)]
<1>1. ASSUME NEW c \in 0 .. n - 1 PROVE fr[c] \in Nat /\ gr[c] \in Nat /\ fr[c] <= gr[c]
  <2>1. c + 1 \in 1 .. n
    OBVIOUS
  <2>2. f[c + 1] \in [Bands -> Nat] /\ g[c + 1] \in [Bands -> Nat]
    BY <2>1 DEF Grids
  <2>3. \A b \in Bands : f[c + 1][b] <= g[c + 1][b]
    BY <2>1
  <2> QED
    BY <2>2, <2>3, RowNat, RowMono
<1> HIDE DEF fr, gr
<1>2. SumTo(fr, n) <= SumTo(gr, n)
  BY <1>1, SumMono
<1> QED
  BY <1>2 DEF SumOver, fr, gr

\* Raising the terms of one channel raises the sum as much.
LEMMA GridRow ==
  ASSUME NEW n \in Nat, NEW f \in Grids(n), NEW g \in Grids(n), NEW c0 \in 1 .. n, NEW d \in Nat,
         \A c \in 1 .. n : c # c0 => g[c] = f[c],
         SumTo(g[c0], Subbands) = SumTo(f[c0], Subbands) + d
  PROVE  SumOver(n, g) = SumOver(n, f) + d
<1> DEFINE fr == [c \in 0 .. n - 1 |-> SumTo(f[c + 1], Subbands)]
           gr == [c \in 0 .. n - 1 |-> SumTo(g[c + 1], Subbands)]
           p == c0 - 1
<1>1. p \in 0 .. n - 1 /\ p + 1 = c0
  OBVIOUS
<1>2. ASSUME NEW c \in 0 .. n - 1 PROVE fr[c] \in Nat /\ (c # p => gr[c] = fr[c])
  <2>1. c + 1 \in 1 .. n /\ (c # p => c + 1 # c0)
    BY <1>1
  <2>2. f[c + 1] \in [Bands -> Nat]
    BY <2>1 DEF Grids
  <2>3. c # p => g[c + 1] = f[c + 1]
    BY <2>1
  <2> QED
    BY <2>2, <2>3, RowNat
<1>3. gr[p] = fr[p] + d
  BY <1>1
<1> HIDE DEF fr, gr, p
<1>4. SumTo(gr, n) = SumTo(fr, n) + d
  BY <1>1, <1>2, <1>3, SumUpdate
<1> QED
  BY <1>4 DEF SumOver, fr, gr

LEMMA GridOne ==
  ASSUME NEW n \in Nat, NEW f \in Grids(n), NEW g \in Grids(n), NEW c0 \in 1 .. n, NEW b0 \in Bands,
         NEW d \in Nat, \A c \in 1 .. n : c # c0 => g[c] = f[c],
         g[c0][b0] = f[c0][b0] + d, \A b \in Bands : b # b0 => g[c0][b] = f[c0][b]
  PROVE  SumOver(n, g) = SumOver(n, f) + d
<1>1. Subbands \in Nat /\ b0 \in 0 .. Subbands - 1
  BY SubbandsAssumption DEF Bands
<1>2. f[c0] \in [Bands -> Nat]
  BY DEF Grids
<1>3. \A k \in 0 .. Subbands - 1 : f[c0][k] \in Nat /\ (k # b0 => g[c0][k] = f[c0][k])
  BY <1>2 DEF Bands
<1>4. SumTo(g[c0], Subbands) = SumTo(f[c0], Subbands) + d
  BY <1>1, <1>3, SumUpdate
<1> QED
  BY <1>4, GridRow

\* One more in each band of a set is as many more as the set has members.
LEMMA RowRaised ==
  ASSUME NEW f \in [Bands -> Nat], NEW S \in SUBSET Bands
  PROVE  LET g == [b \in Bands |-> f[b] + (IF b \in S THEN 1 ELSE 0)]
         IN  IsFiniteSet(S) /\ SumTo(g, Subbands) = SumTo(f, Subbands) + Cardinality(S)
<1> DEFINE g == [b \in Bands |-> f[b] + (IF b \in S THEN 1 ELSE 0)]
           first(m) == {b \in S : b < m}
           T == {m \in Nat : m <= Subbands =>
                   IsFiniteSet(first(m)) /\ SumTo(g, m) = SumTo(f, m) + Cardinality(first(m))}
<1>1. 0 \in T
  <2>1. first(0) = {}
    <3>1. \A b \in S : b \in Nat /\ ~(b < 0)
      BY SubbandsAssumption DEF Bands
    <3> QED
      BY <3>1
  <2>2. SumTo(f, 0) = 0 /\ SumTo(g, 0) = 0
    BY SumToDef
  <2> HIDE DEF first, g
  <2> QED
    BY <2>1, <2>2, FS_EmptySet
<1>2. ASSUME NEW m \in T PROVE m + 1 \in T
  <2> SUFFICES ASSUME m + 1 <= Subbands
               PROVE  /\ IsFiniteSet(first(m + 1))
                      /\ SumTo(g, m + 1) = SumTo(f, m + 1) + Cardinality(first(m + 1))
    OBVIOUS
  <2>1. m \in Nat /\ m \in Bands /\ m <= Subbands
    BY SubbandsAssumption DEF Bands
  <2>2. IsFiniteSet(first(m)) /\ SumTo(g, m) = SumTo(f, m) + Cardinality(first(m))
    BY <2>1
  <2>3. SumTo(f, m + 1) = SumTo(f, m) + f[m] /\ SumTo(g, m + 1) = SumTo(g, m) + g[m]
    BY <2>1, SumToDef
  <2>4. g[m] = f[m] + (IF m \in S THEN 1 ELSE 0) /\ f[m] \in Nat
    BY <2>1
  <2>5. SumTo(f, m) \in Nat
    <3>1. \A k \in 0 .. m - 1 : k \in Bands
      BY <2>1, SubbandsAssumption DEF Bands
    <3>2. \A k \in 0 .. m - 1 : f[k] \in Nat
      BY <3>1
    <3> QED
      BY <2>1, <3>2, SumNat
  <2>6. first(m + 1) = IF m \in S THEN first(m) \cup {m} ELSE first(m)
    <3>1. \A b \in S : b \in Int /\ (b < m + 1 <=> b < m \/ b = m)
      BY <2>1, SubbandsAssumption DEF Bands
    <3>2. \A b : b \in first(m + 1) <=> b \in first(m) \/ (b = m /\ m \in S)
      BY <3>1, <2>1
    <3> HIDE DEF first
    <3> QED
      BY <3>2
  <2>7. m \notin first(m)
    BY <2>1
  <2>8. Cardinality(first(m)) \in Nat
    BY <2>2, FS_CardinalityType
  <2> HIDE DEF first, g
  <2>9. /\ IsFiniteSet(first(m + 1))
        /\ Cardinality(first(m + 1)) = Cardinality(first(m)) + (IF m \in S THEN 1 ELSE 0)
    BY <2>2, <2>6, <2>7, <2>8, FS_AddElement
  <2> QED
    BY <2>2, <2>3, <2>4, <2>5, <2>8, <2>9
<1>3. first(Subbands) = S
  <2>1. \A b \in S : b < Subbands
    BY SubbandsAssumption DEF Bands
  <2> QED
    BY <2>1
<1> HIDE DEF T
<1>4. T \in SUBSET Nat
  BY DEF T
<1>5. T = Nat
  BY <1>1, <1>2, <1>4, SetInduction
<1>6. Subbands \in T /\ Subbands \in Nat
  BY <1>5, SubbandsAssumption
<1> HIDE DEF g, first
<1>7. IsFiniteSet(S) /\ SumTo(g, Subbands) = SumTo(f, Subbands) + Cardinality(S)
  BY <1>3, <1>6 DEF T
<1> QED
  BY <1>7 DEF g

\* What is raised by at most one in some bands of one channel.
LEMMA GridRaised ==
  ASSUME NEW n \in Nat, NEW f \in Grids(n), NEW g \in Grids(n), NEW c0 \in 1 .. n,
         NEW S \in SUBSET Bands, \A c \in 1 .. n : c # c0 => g[c] = f[c],
         \A b \in Bands : g[c0][b] <= f[c0][b] + (IF b \in S THEN 1 ELSE 0)
  PROVE  IsFiniteSet(S) /\ SumOver(n, g) <= SumOver(n, f) + Cardinality(S)
<1> DEFINE row == [b \in Bands |-> f[c0][b] + (IF b \in S THEN 1 ELSE 0)]
           h == [f EXCEPT ![c0] = row]
<1>1. f[c0] \in [Bands -> Nat]
  BY DEF Grids
<1>2. IsFiniteSet(S) /\ SumTo(row, Subbands) = SumTo(f[c0], Subbands) + Cardinality(S)
  BY <1>1, RowRaised
<1>3. Cardinality(S) \in Nat
  BY <1>2, FS_CardinalityType
<1>4. row \in [Bands -> Nat] /\ \A b \in Bands : g[c0][b] <= row[b]
  BY <1>1
<1> HIDE DEF row
<1>5. h \in Grids(n) /\ h[c0] = row /\ \A c \in 1 .. n : c # c0 => h[c] = f[c]
  BY <1>4 DEF Grids
<1> HIDE DEF h
<1>6. SumOver(n, h) = SumOver(n, f) + Cardinality(S)
  BY <1>2, <1>3, <1>5, GridRow
<1>7. \A c \in 1 .. n, b \in Bands : g[c][b] <= h[c][b]
  <2> TAKE c \in 1 .. n, b \in Bands
  <2>1. CASE c = c0
    BY <1>4, <1>5, <2>1
  <2>2. CASE c # c0
    <3>1. g[c] = h[c] /\ g[c][b] \in Nat
      BY <1>5, <2>2 DEF Grids
    <3> QED
      BY <3>1
  <2> QED
    BY <2>1, <2>2
<1>8. SumOver(n, g) <= SumOver(n, h)
  BY <1>5, <1>7, GridMono
<1> QED
  BY <1>2, <1>6, <1>8

(***************************************************************************)
(* At3pGha: sets of tones                                                  *)
(***************************************************************************)
ToneSets      == SUBSET (0 .. 1023)
FrequencySets == SUBSET (0 .. 1024)

LEMMA BoundedFinite ==
  ASSUME NEW n \in Nat, NEW S \in SUBSET (0 .. n) PROVE IsFiniteSet(S) /\ Cardinality(S) \in Nat
<1>1. 0 \in Int /\ n \in Int
  OBVIOUS
<1>2. IsFiniteSet(0 .. n)
  BY <1>1, FS_Interval
<1>3. IsFiniteSet(S)
  BY <1>2, FS_Subset
<1> QED
  BY <1>3, FS_CardinalityType

LEMMA TonesFinite ==
  ASSUME NEW S \in ToneSets PROVE IsFiniteSet(S) /\ Cardinality(S) \in Nat
<1>1. PICK n \in Nat : n = 1023
  OBVIOUS
<1>2. S \in SUBSET (0 .. n)
  BY <1>1 DEF ToneSets
<1> QED
  BY <1>2, BoundedFinite

\* What is heard of frequencies: no more tones than those, and some if there are any.
LEMMA IndicesAre ==
  ASSUME NEW fs \in FrequencySets
  PROVE  /\ Indices(fs) \in ToneSets /\ IsFiniteSet(fs) /\ Cardinality(fs) \in Nat
         /\ Cardinality(Indices(fs)) <= Cardinality(fs)
         /\ Cardinality(fs) # 0 => Indices(fs) # {}
         /\ Cardinality(Indices(fs)) # 0 => fs # {}
<1>1. PICK n \in Nat : n = 1024
  OBVIOUS
<1>2. fs \in SUBSET (0 .. n)
  BY <1>1 DEF FrequencySets
<1>3. IsFiniteSet(fs) /\ Cardinality(fs) \in Nat
  BY <1>2, BoundedFinite
<1> DEFINE g == [x \in fs |-> Index(x)]
<1>4. g \in Surjection(fs, Indices(fs))
  BY Fun_IsSurj DEF Indices
<1>5. Cardinality(Indices(fs)) <= Cardinality(fs)
  BY <1>3, <1>4, FS_Surjection
<1>6. ASSUME NEW x \in fs PROVE Index(x) \in 0 .. 1023
  <2>1. x \in Nat
    BY DEF FrequencySets
  <2>2. x % 1024 \in 0 .. 1023
    BY <2>1
  <2> QED
    BY <2>2 DEF Index
<1>7. Indices(fs) \in ToneSets
  BY <1>6 DEF Indices, ToneSets
<1>8. Cardinality(fs) # 0 => Indices(fs) # {}
  <2>1. Cardinality(fs) # 0 => fs # {}
    BY FS_EmptySet
  <2>2. fs # {} => \E x \in fs : Index(x) \in Indices(fs)
    BY DEF Indices
  <2> QED
    BY <2>1, <2>2
<1>9. Cardinality(Indices(fs)) # 0 => fs # {}
  <2>1. fs = {} => Indices(fs) = {}
    BY DEF Indices
  <2> QED
    BY <2>1, FS_EmptySet
<1> QED
  BY <1>3, <1>5, <1>7, <1>8, <1>9

LEMMA GridChange ==
  ASSUME NEW n \in Nat, NEW f \in Grids(n), NEW g \in Grids(n), NEW c0 \in 1 .. n, NEW b0 \in Bands,
         \A c \in 1 .. n, b \in Bands : c # c0 \/ b # b0 => g[c][b] = f[c][b]
  PROVE  SumOver(n, g) = SumOver(n, f) + (g[c0][b0] - f[c0][b0])
<1>1. /\ \A c \in 1 .. n : f[c] \in [Bands -> Nat] /\ g[c] \in [Bands -> Nat]
      /\ f[c0][b0] \in Nat /\ g[c0][b0] \in Nat
  BY DEF Grids
<1>2. \A c \in 1 .. n : c # c0 => g[c] = f[c]
  BY <1>1
<1>3. PICK x \in Nat, y \in Nat : x = f[c0][b0] /\ y = g[c0][b0]
  BY <1>1
<1>4. SumOver(n, f) \in Nat /\ SumOver(n, g) \in Nat
  BY GridNat
<1>5. CASE x <= y
  <2>1. y - x \in Nat /\ y = x + (y - x)
    BY <1>5
  <2>2. SumOver(n, g) = SumOver(n, f) + (y - x)
    BY <1>2, <1>3, <2>1, GridOne
  <2> QED
    BY <1>3, <2>2
<1>6. CASE y < x
  <2>1. x - y \in Nat /\ x = y + (x - y)
    BY <1>6
  <2>2. SumOver(n, f) = SumOver(n, g) + (x - y)
    BY <1>2, <1>3, <2>1, GridOne
  <2>3. SumOver(n, g) = SumOver(n, f) + (y - x)
    BY <1>4, <2>2
  <2> QED
    BY <1>3, <2>3
<1> QED
  BY <1>5, <1>6

(***************************************************************************)
(* At3pGha: the rounds and the budget                                      *)
(***************************************************************************)
Chans == 1 .. Len(input[1])
PerBand(S) == [Bands -> S]
Marks     == 0 .. Done
Tones     == 0 .. 1023
Spans    == Int \X Int
ChannelData ==
  [tones : PerBand(ToneSets), done : PerBand(Marks), env : PerBand(Spans), gapless : PerBand(BOOLEAN),
   last : PerBand(Tones), union : PerBand({<< >>} \cup Spans), refined : PerBand(BOOLEAN)]

Typed ==
  /\ input \in Inputs /\ frames \in 0 .. Len(input)
  /\ stage \in {"refit", "look", "extract", "refine", "commit", "fill", "done"}
  /\ stage # "done" => frames # 0
  /\ stage \in {"refit", "look"} => strategy = "legacy"
  /\ stage \in {"extract", "refine", "commit"} => strategy # "legacy"
  /\ ch \in Chans /\ sb \in Bands
  /\ data \in [Chans -> ChannelData] /\ total \in Nat /\ progress \in [Chans -> BOOLEAN]

\* A band has no more tones than searches in it were successful.
Amounts(d) == [c \in Chans |-> [b \in Bands |-> Cardinality(d[c].tones[b])]]
Within(d, c, b) ==
  /\ Cardinality(d[c].tones[b]) <= TonesPerBand
  /\ d[c].done[b] # Done => Cardinality(d[c].tones[b]) <= d[c].done[b]
CountInv ==
  /\ SumOver(Len(input[1]), Amounts(data)) <= total /\ total <= TonesPerFrame
  /\ \A c \in Chans, b \in Bands : Within(data, c, b)

\* Of a band that the legacy strategy searches: as long as it goes on, the tone added
\* last is among its tones, until they are fitted; and only a band with a first tone
\* that was not fitted yet has no envelope.
Searched(d, sound, c, b, looking) ==
  /\ d[c].done[b] \in 1 .. TonesPerBand => d[c].tones[b] # {}
  /\ d[c].tones[b] \subseteq Indices(sound[c][b])
  /\ d[c].done[b] # Done /\ d[c].tones[b] # {} /\ ~looking => d[c].last[b] \in d[c].tones[b]
  /\ d[c].tones[b] # {} => ~Aborts(d[c].env[b]) \/ (d[c].done[b] = 1 /\ ~looking)

\* As long as some band has not been searched twice, what was spent on each is no
\* more than two tones and no more than its frequencies.
Cost(d, sound) ==
  [c \in Chans |-> [b \in Bands |->
     IF d[c].done[b] \in {0, 1} THEN d[c].done[b] ELSE Pairs(sound)[c][b]]]
Begun(d) == \E c \in Chans, b \in Bands : d[c].done[b] \in {0, 1}
Spent(d, sound, t) == Begun(d) => t <= SumOver(Len(input[1]), Cost(d, sound))

\* All bands that are still searched are in one round, which has come to band b0 of
\* channel c0; a channel that found nothing in it is not searched any more.
Before(c, b, c0, b0) == c < c0 \/ (c = c0 /\ b < b0)
InRound(d, r, c0, b0) ==
  \A c \in Chans, b \in Bands : d[c].done[b] \in {Done, IF Before(c, b, c0, b0) THEN r + 1 ELSE r}
Rests(d, p, c0, b0) ==
  \A c \in Chans, b \in Bands : c <= c0 /\ ~p[c] /\ Before(c, b, c0, b0) => d[c].done[b] = Done
Rounds(d, p, c0, b0) == (\E r \in Nat : InRound(d, r, c0, b0)) /\ Rests(d, p, c0, b0)

AllSearched ==
  \A c \in Chans, b \in Bands : Searched(data, Sound, c, b, stage = "look" /\ c = ch /\ b = sb)
SearchInv ==
  stage \in {"refit", "look"} =>
    /\ AllSearched /\ Spent(data, Sound, total)
    /\ stage = "look" => total < TonesPerFrame /\ data[ch].done[sb] # Done
    /\ total < TonesPerFrame => Rounds(data, progress, ch, sb)

\* With the wideband strategy a band with tones has their windows' union to fall back
\* on, unless its envelope came with a refinement.
Closing(w) == w \in Nat \X Nat /\ w[2] \in 1 .. FrameSamples
Extracted(d, c, b, st, c0, b0) ==
  /\ d[c].union[b] # << >> => Closing(d[c].union[b])
  /\ d[c].tones[b] # {} => d[c].union[b] # << >>
  /\ d[c].refined[b] => ~Aborts(d[c].env[b])
  /\ st = "extract" \/ (st = "refine" /\ ~Before(c, b, c0, b0)) => ~d[c].refined[b]
  /\ st = "commit" /\ Before(c, b, c0, b0) /\ d[c].tones[b] # {} => ~Aborts(d[c].env[b])
WideInv ==
  stage \in {"extract", "refine", "commit"} =>
    \A c \in Chans, b \in Bands : Extracted(data, c, b, stage, ch, sb)

Enveloped(d) == \A c \in Chans, b \in Bands : d[c].tones[b] # {} => ~Aborts(d[c].env[b])
FillInv == stage = "fill" => Enveloped(data)

GhaInv == Typed /\ CountInv /\ SearchInv /\ WideInv /\ FillInv

(* ------------------------------- the input ----------------------------- *)

LEMMA ChannelsAre ==
  ASSUME NEW in \in Inputs PROVE Len(in[1]) \in {1, 2} /\ in # << >> /\ 1 \in 1 .. Len(in)
<1>0. in \in Seq(Seq([Bands -> FrequencySets]))
  BY FramesAssumption DEF FrequencySets
<1>1. in # << >>
  BY FramesAssumption, Zenon
<1>2. Len(in) \in Nat /\ Len(in) # 0 /\ DOMAIN in = 1 .. Len(in)
  BY <1>0, <1>1, LenProperties, EmptySeq
<1>3. 1 \in DOMAIN in
  BY <1>2
<1> QED
  BY <1>1, <1>2, <1>3, FramesAssumption

LEMMA SoundIs ==
  ASSUME NEW in \in Inputs, NEW k \in 1 .. Len(in)
  PROVE  /\ in[k] \in [1 .. Len(in[1]) -> [Bands -> FrequencySets]]
         /\ Pairs(in[k]) \in Grids(Len(in[1]))
         /\ SumOver(Len(in[1]), Pairs(in[k])) < TonesPerFrame
         /\ \A c \in 1 .. Len(in[1]), b \in Bands :
              /\ in[k][c][b] \in FrequencySets
              /\ in[k][c][b] # {} => Pairs(in[k])[c][b] \in {1, 2}
              /\ Cardinality(in[k][c][b]) >= 2 => Pairs(in[k])[c][b] = 2
<1> DEFINE snd == in[k]
           n   == Len(in[1])
<1>1. in \in Seq(Seq([Bands -> FrequencySets]))
  BY FramesAssumption, ZenonT(60) DEF FrequencySets
<1>2. DOMAIN in = 1 .. Len(in)
  BY <1>1, LenProperties
<1>3. snd \in Seq([Bands -> FrequencySets])
  BY <1>1, ElementOfSeq
<1>4. Len(snd) = n /\ n \in {1, 2}
  BY <1>2, ChannelsAre, FramesAssumption
<1>5. snd \in [1 .. n -> [Bands -> FrequencySets]] /\ DOMAIN snd = 1 .. n
  BY <1>3, <1>4, LenProperties
<1>6. SumOver(n, Pairs(snd)) < TonesPerFrame
  BY <1>2, <1>4, BudgetAssumption
<1> HIDE DEF snd, n
<1>7. ASSUME NEW c \in 1 .. n, NEW b \in Bands
      PROVE  /\ snd[c][b] \in FrequencySets
             /\ Pairs(snd)[c][b] \in {0, 1, 2}
             /\ snd[c][b] # {} => Pairs(snd)[c][b] \in {1, 2}
             /\ Cardinality(snd[c][b]) >= 2 => Pairs(snd)[c][b] = 2
  <2>1. snd[c][b] \in FrequencySets
    BY <1>5
  <2>2. PICK m \in Nat : m = Cardinality(snd[c][b])
    BY <2>1, IndicesAre
  <2>3. snd[c][b] # {} => m # 0
    BY <2>1, <2>2, IndicesAre, FS_EmptySet
  <2>4. Pairs(snd)[c][b] = IF m > 2 THEN 2 ELSE m
    BY <1>5, <2>2 DEF Pairs
  <2> QED
    BY <2>1, <2>2, <2>3, <2>4
<1>8. Pairs(snd) \in Grids(n)
  <2>1. Pairs(snd) = [c \in 1 .. n |-> [b \in Bands |->
                        IF Cardinality(snd[c][b]) > 2 THEN 2 ELSE Cardinality(snd[c][b])]]
    BY <1>5 DEF Pairs
  <2>2. \A c \in 1 .. n, b \in Bands : Pairs(snd)[c][b] \in Nat
    BY <1>7
  <2> QED
    BY <2>1, <2>2 DEF Grids
<1> QED
  BY <1>5, <1>6, <1>7, <1>8 DEF snd, n

(* ------------------------- where a search ends ------------------------- *)

\* While a band was not searched twice the budget is not used up.
LEMMA SpentLess ==
  ASSUME Typed, frames # 0, NEW d \in [Chans -> ChannelData], NEW t \in Nat,
         \A c \in Chans, b \in Bands : Searched(d, Sound, c, b, FALSE),
         Spent(d, Sound, t), Begun(d)
  PROVE  t < TonesPerFrame
<1> DEFINE n == Len(input[1])
<1>1. input \in Inputs /\ frames \in 1 .. Len(input)
  BY DEF Typed
<1>2. /\ n \in Nat /\ Chans = 1 .. n
      /\ Pairs(Sound) \in Grids(n) /\ SumOver(n, Pairs(Sound)) < TonesPerFrame
      /\ \A c \in Chans, b \in Bands :
           Sound[c][b] \in FrequencySets /\ (Sound[c][b] # {} => Pairs(Sound)[c][b] \in {1, 2})
  BY <1>1, ChannelsAre, SoundIs DEF Sound, Chans
<1> HIDE DEF n
<1> DEFINE pairs == Pairs(Sound)
           cost  == Cost(d, Sound)
<1>3. ASSUME NEW c \in Chans, NEW b \in Bands
      PROVE  cost[c][b] \in Nat /\ cost[c][b] <= pairs[c][b]
  <2>1. pairs[c][b] \in Nat
    BY <1>2 DEF Grids
  <2>2. cost[c][b] = IF d[c].done[b] \in {0, 1} THEN d[c].done[b] ELSE pairs[c][b]
    BY DEF Cost
  <2>3. ASSUME d[c].done[b] = 1 PROVE pairs[c][b] \in {1, 2}
    <3>1. d[c].tones[b] # {} /\ d[c].tones[b] \subseteq Indices(Sound[c][b])
      BY <2>3, BudgetAssumption DEF Searched
    <3>2. Sound[c][b] # {}
      BY <3>1 DEF Indices
    <3> QED
      BY <1>2, <3>2
  <2> HIDE DEF cost, pairs
  <2> QED
    BY <2>1, <2>2, <2>3
<1>4. cost \in Grids(n)
  <2>1. cost = [c \in 1 .. n |-> [b \in Bands |->
                  IF d[c].done[b] \in {0, 1} THEN d[c].done[b] ELSE pairs[c][b]]]
    BY <1>2 DEF Cost
  <2> QED
    BY <1>2, <1>3, <2>1 DEF Grids
<1>5. t <= SumOver(n, cost)
  BY DEF Spent, n
<1> HIDE DEF cost, pairs
<1>6. SumOver(n, cost) <= SumOver(n, pairs)
  <2>1. pairs \in Grids(n) /\ n \in Nat
    BY <1>2 DEF pairs
  <2>2. \A c \in 1 .. n, b \in Bands : cost[c][b] <= pairs[c][b]
    BY <1>2, <1>3
  <2> QED
    BY <1>4, <2>1, <2>2, GridMono
<1>7. SumOver(n, cost) \in Nat /\ SumOver(n, pairs) \in Nat
  BY <1>2, <1>4, GridNat DEF pairs
<1>8. SumOver(n, pairs) < TonesPerFrame
  BY <1>2 DEF pairs
<1> QED
  BY <1>5, <1>6, <1>7, <1>8, BudgetAssumption

\* DoRound is left for the next channel, the next round or, with all envelopes there,
\* for good.
LEMMA RoundEnds ==
  ASSUME Typed, frames # 0, strategy = "legacy", NEW p \in [Chans -> BOOLEAN], NEW t \in Nat,
         NEW d \in [Chans -> ChannelData], data' = d, EndRound(p, t), total' = t, Same,
         t <= TonesPerFrame,
         \A c \in Chans, b \in Bands : Searched(d, Sound, c, b, FALSE),
         Spent(d, Sound, t), t < TonesPerFrame => Rounds(d, p, ch, Subbands)
  PROVE  Typed' /\ SearchInv' /\ WideInv' /\ FillInv'
<1>1. input' = input /\ frames' = frames /\ strategy' = strategy /\ Chans' = Chans /\ Sound' = Sound
  BY DEF Same, Chans, Sound
<1>2. /\ input \in Inputs /\ Len(data) = Len(input[1]) /\ Len(input[1]) \in {1, 2}
      /\ DOMAIN data = Chans /\ ch \in Chans
  <2>1. data \in [Chans -> ChannelData] /\ input \in Inputs /\ ch \in Chans
    BY DEF Typed
  <2>2. Len(input[1]) \in {1, 2}
    BY <2>1, ChannelsAre
  <2>3. Len(data) = Len(input[1])
    BY <2>1, <2>2, LenProperties DEF Chans
  <2> QED
    BY <2>1, <2>2, <2>3
<1>3. Subbands \in Nat /\ 0 \in Bands /\ \A b \in Bands : b \in Nat /\ b < Subbands
  BY SubbandsAssumption DEF Bands
<1>4. PICK n \in {1, 2} : n = Len(input[1]) /\ Chans = 1 .. n /\ Len(data) = n
  BY <1>2 DEF Chans
<1>5. ASSUME NEW c0 \in Chans, NEW q \in [Chans -> BOOLEAN], Go("refit", c0, 0), progress' = q,
             t < TonesPerFrame => Rounds(d, q, c0, 0)
      PROVE  Typed' /\ SearchInv' /\ WideInv' /\ FillInv'
  <2>1. stage' = "refit" /\ ch' = c0 /\ sb' = 0
    BY <1>5 DEF Go
  <2>2. Typed'
    BY <1>1, <1>3, <1>5, <2>1 DEF Typed
  <2>3. AllSearched'
    BY <1>1, <2>1 DEF AllSearched
  <2>4. Spent(d, Sound, t)'
    BY <1>1 DEF Spent, Begun, Cost, Chans
  <2>5. total' < TonesPerFrame => Rounds(data, progress, ch, sb)'
    BY <1>1, <1>5, <2>1 DEF Rounds, InRound, Rests
  <2>6. SearchInv'
    BY <1>1, <2>1, <2>3, <2>4, <2>5 DEF SearchInv, Spent, Begun, Cost
  <2> QED
    BY <2>1, <2>2, <2>6 DEF WideInv, FillInv
<1>6. CASE ch < Len(data)
  <2> DEFINE q == [p EXCEPT ![ch + 1] = FALSE]
  <2>1. ch + 1 \in Chans /\ ch \in Nat
    BY <1>2, <1>4, <1>6
  <2>2. Go("refit", ch + 1, 0) /\ progress' = q
    BY <1>6 DEF EndRound, RoundBegins
  <2>3. q \in [Chans -> BOOLEAN] /\ ~q[ch + 1] /\ \A c \in Chans : c # ch + 1 => q[c] = p[c]
    BY <2>1
  <2> HIDE DEF q
  <2>4. \A c \in Chans, b \in Bands : Before(c, b, ch + 1, 0) <=> Before(c, b, ch, Subbands)
    BY <1>3, <1>4, <2>1 DEF Before
  <2>5. \A c \in Chans, b \in Bands : c <= ch + 1 /\ Before(c, b, ch + 1, 0) => c <= ch /\ c # ch + 1
    BY <1>3, <1>4, <2>1 DEF Before
  <2>6. Rounds(d, p, ch, Subbands) => Rounds(d, q, ch + 1, 0)
    BY <2>3, <2>4, <2>5 DEF Rounds, InRound, Rests
  <2> QED
    BY <1>5, <2>1, <2>2, <2>3, <2>6
<1>7. CASE ~(ch < Len(data)) /\ MoreRounds(p, t)
  <2> DEFINE q == [p EXCEPT ![1] = FALSE]
  <2>1. 1 \in Chans /\ ch = n
    BY <1>2, <1>4, <1>7
  <2>2. Go("refit", 1, 0) /\ progress' = q
    BY <1>7 DEF EndRound, RoundBegins
  <2>3. q \in [Chans -> BOOLEAN]
    BY <2>1
  <2> HIDE DEF q
  <2>4. \A c \in Chans, b \in Bands : Before(c, b, ch, Subbands) /\ ~Before(c, b, 1, 0)
    BY <1>3, <1>4, <2>1 DEF Before
  <2>5. ASSUME Rounds(d, p, ch, Subbands) PROVE Rounds(d, q, 1, 0)
    <3>1. PICK r \in Nat : InRound(d, r, ch, Subbands)
      BY <2>5 DEF Rounds
    <3>2. r + 1 \in Nat /\ InRound(d, r + 1, 1, 0)
      BY <2>4, <3>1 DEF InRound
    <3>3. Rests(d, q, 1, 0)
      BY <2>4 DEF Rests
    <3> QED
      BY <3>2, <3>3 DEF Rounds
  <2> QED
    BY <1>5, <2>1, <2>2, <2>3, <2>5
<1>8. CASE ~(ch < Len(data)) /\ ~MoreRounds(p, t)
  <2>1. stage' = "fill" /\ ch' = 1 /\ sb' = 0 /\ progress' = p
    BY <1>8 DEF EndRound, Go
  <2>2. Typed'
    BY <1>1, <1>3, <1>4, <2>1 DEF Typed
  <2>3. ASSUME NEW c \in Chans, NEW b \in Bands, d[c].tones[b] # {}, Aborts(d[c].env[b])
        PROVE  FALSE
    <3>1. d[c].done[b] = 1
      BY <2>3 DEF Searched
    <3>2. Begun(d)
      BY <3>1 DEF Begun
    <3>3. t < TonesPerFrame
      BY <3>2, SpentLess
    <3>4. ~p[c]
      BY <1>2, <1>8, <3>3 DEF MoreRounds
    <3>5. c <= ch /\ Before(c, b, ch, Subbands)
      BY <1>2, <1>3, <1>4, <1>8 DEF Before
    <3>6. d[c].done[b] = Done
      BY <3>3, <3>4, <3>5 DEF Rounds, Rests
    <3> QED
      BY <3>1, <3>6, BudgetAssumption DEF Done
  <2>4. FillInv'
    BY <1>1, <2>3 DEF FillInv, Enveloped
  <2> QED
    BY <2>1, <2>2, <2>4 DEF SearchInv, WideInv
<1> QED
  BY <1>6, <1>7, <1>8

\* DoRound goes on to the next band, or ends.
LEMMA BandEnds ==
  ASSUME Typed, frames # 0, strategy = "legacy", NEW p \in [Chans -> BOOLEAN], NEW t \in Nat,
         NEW d \in [Chans -> ChannelData], data' = d, NextBand(p, t), total' = t, Same,
         t <= TonesPerFrame,
         \A c \in Chans, b \in Bands : Searched(d, Sound, c, b, FALSE),
         Spent(d, Sound, t), t < TonesPerFrame => Rounds(d, p, ch, sb + 1)
  PROVE  Typed' /\ SearchInv' /\ WideInv' /\ FillInv'
<1>1. CASE sb + 1 \in Bands
  <2>1. input' = input /\ frames' = frames /\ strategy' = strategy /\ Chans' = Chans /\ Sound' = Sound
    BY DEF Same, Chans, Sound
  <2>2. stage' = "refit" /\ ch' = ch /\ sb' = sb + 1 /\ progress' = p
    BY <1>1 DEF NextBand, Go
  <2>3. Typed'
    BY <1>1, <2>1, <2>2 DEF Typed
  <2>4. AllSearched'
    BY <2>1, <2>2 DEF AllSearched
  <2>5. total' < TonesPerFrame => Rounds(data, progress, ch, sb)'
    BY <2>1, <2>2 DEF Rounds, InRound, Rests
  <2>6. SearchInv'
    BY <2>1, <2>2, <2>4, <2>5 DEF SearchInv, Spent, Begun, Cost, Chans
  <2> QED
    BY <2>2, <2>3, <2>6 DEF WideInv, FillInv
<1>2. CASE sb + 1 \notin Bands
  <2>1. sb + 1 = Subbands
    BY <1>2, SubbandsAssumption DEF Typed, Bands
  <2>2. EndRound(p, t)
    BY <1>2 DEF NextBand
  <2> QED
    BY <2>1, <2>2, RoundEnds
<1> QED
  BY <1>1, <1>2

(* --------------------------- what a band does -------------------------- *)

\* Another band's tones and marks.
Elsewhere(d) ==
  \A c \in Chans, b \in Bands : c # ch \/ b # sb =>
    /\ d[c].tones[b] = data[c].tones[b] /\ d[c].done[b] = data[c].done[b]
    /\ d[c].env[b] = data[c].env[b] /\ d[c].last[b] = data[c].last[b]

LEMMA ChansAre ==
  ASSUME Typed
  PROVE  /\ Len(input[1]) \in {1, 2} /\ Chans = 1 .. Len(input[1]) /\ Len(data) = Len(input[1])
         /\ DOMAIN data = Chans
<1>1. data \in [Chans -> ChannelData] /\ input \in Inputs
  BY DEF Typed
<1>2. Len(input[1]) \in {1, 2}
  BY <1>1, ChannelsAre
<1>3. Len(data) = Len(input[1])
  BY <1>1, <1>2, LenProperties DEF Chans
<1> QED
  BY <1>1, <1>2, <1>3 DEF Chans

LEMMA AmountsAre ==
  ASSUME Typed, NEW d \in [Chans -> ChannelData]
  PROVE  /\ Amounts(d) \in Grids(Len(input[1]))
         /\ \A c \in Chans, b \in Bands :
              /\ Amounts(d)[c][b] = Cardinality(d[c].tones[b])
              /\ d[c].tones[b] \in ToneSets /\ Cardinality(d[c].tones[b]) \in Nat
<1>1. ASSUME NEW c \in Chans, NEW b \in Bands
      PROVE  d[c].tones[b] \in ToneSets /\ Cardinality(d[c].tones[b]) \in Nat
  <2>1. d[c].tones[b] \in ToneSets
    BY DEF ChannelData, PerBand, Marks
  <2> QED
    BY <2>1, TonesFinite
<1>2. \A c \in Chans, b \in Bands : Amounts(d)[c][b] = Cardinality(d[c].tones[b])
  BY DEF Amounts
<1>3. Amounts(d) \in Grids(Len(input[1]))
  BY <1>1 DEF Amounts, Grids, Chans
<1> QED
  BY <1>1, <1>2, <1>3

\* What is added to or taken from one band's tones is added to the count, or no more
\* than that is taken from it.
LEMMA Recounted ==
  ASSUME Typed, CountInv, NEW d \in [Chans -> ChannelData], Elsewhere(d), NEW t \in Int,
         t <= TonesPerFrame, Within(d, ch, sb),
         Cardinality(d[ch].tones[sb]) - Cardinality(Mine) <= t - total
  PROVE  /\ t \in Nat /\ SumOver(Len(input[1]), Amounts(d)) <= t
         /\ \A c \in Chans, b \in Bands : Within(d, c, b)
<1>1. PICK n \in {1, 2} : n = Len(input[1]) /\ Chans = 1 .. n
  BY ChansAre
<1>2. data \in [Chans -> ChannelData] /\ ch \in Chans /\ sb \in Bands /\ total \in Nat
  BY DEF Typed
<1>3. PICK f \in Grids(n), g \in Grids(n) : f = Amounts(data) /\ g = Amounts(d)
  BY <1>1, <1>2, AmountsAre
<1>4. /\ f[ch][sb] = Cardinality(Mine) /\ g[ch][sb] = Cardinality(d[ch].tones[sb])
      /\ f[ch][sb] \in Nat /\ g[ch][sb] \in Nat
  BY <1>2, <1>3, AmountsAre DEF Mine
<1>5. \A c \in 1 .. n, b \in Bands : c # ch \/ b # sb => g[c][b] = f[c][b]
  BY <1>1, <1>3 DEF Amounts, Elsewhere
<1>6. SumOver(n, g) = SumOver(n, f) + (g[ch][sb] - f[ch][sb])
  BY <1>1, <1>2, <1>5, GridChange
<1>7. SumOver(n, f) \in Nat /\ SumOver(n, g) \in Nat
  BY GridNat
<1>8. SumOver(n, f) <= total
  BY <1>1, <1>3 DEF CountInv
<1>9. SumOver(n, g) <= t
  BY <1>2, <1>4, <1>6, <1>7, <1>8
<1>10. \A c \in Chans, b \in Bands : Within(d, c, b)
  <2> TAKE c \in Chans, b \in Bands
  <2>1. CASE c = ch /\ b = sb
    BY <2>1
  <2>2. CASE c # ch \/ b # sb
    BY <2>2 DEF CountInv, Within, Elsewhere
  <2> QED
    BY <2>1, <2>2
<1> QED
  BY <1>1, <1>3, <1>7, <1>9, <1>10

LEMMA CountKept ==
  ASSUME Typed, NEW d \in [Chans -> ChannelData], data' = d, input' = input, NEW t, total' = t,
         t <= TonesPerFrame, SumOver(Len(input[1]), Amounts(d)) <= t,
         \A c \in Chans, b \in Bands : Within(d, c, b)
  PROVE  CountInv'
<1>1. Chans' = Chans /\ Amounts(data)' = Amounts(d)
  BY DEF Chans, Amounts
<1> QED
  BY <1>1 DEF CountInv, Within

\* What is spent on one band grows as the count does.
LEMMA Respent ==
  ASSUME Typed, frames # 0, NEW d \in [Chans -> ChannelData], Elsewhere(d), NEW t \in Nat,
         Spent(data, Sound, total), Begun(d) => Begun(data),
         Begun(d) => t - total <= Cost(d, Sound)[ch][sb] - Cost(data, Sound)[ch][sb]
  PROVE  Spent(d, Sound, t)
<1> SUFFICES ASSUME Begun(d) PROVE t <= SumOver(Len(input[1]), Cost(d, Sound))
  BY DEF Spent
<1>1. PICK n \in {1, 2} : n = Len(input[1]) /\ Chans = 1 .. n
  BY ChansAre
<1>2. /\ data \in [Chans -> ChannelData] /\ ch \in Chans /\ sb \in Bands /\ total \in Nat
      /\ input \in Inputs /\ frames \in 1 .. Len(input)
  BY DEF Typed
<1>3. Pairs(Sound) \in Grids(n)
  BY <1>1, <1>2, SoundIs DEF Sound
<1>4. ASSUME NEW x \in [Chans -> ChannelData] PROVE Cost(x, Sound) \in Grids(n)
  <2>1. \A c \in Chans, b \in Bands : x[c].done[b] \in 0 .. Done
    BY DEF ChannelData, PerBand, Marks
  <2>2. \A c \in Chans, b \in Bands : Pairs(Sound)[c][b] \in Nat
    BY <1>1, <1>3 DEF Grids
  <2> QED
    BY <1>1, <2>1, <2>2 DEF Cost, Grids
<1>5. PICK f \in Grids(n), g \in Grids(n) : f = Cost(data, Sound) /\ g = Cost(d, Sound)
  BY <1>2, <1>4
<1>6. f[ch][sb] \in Nat /\ g[ch][sb] \in Nat
  BY <1>1, <1>2, SMTT(30) DEF Grids
<1>7. \A c \in 1 .. n, b \in Bands : c # ch \/ b # sb => g[c][b] = f[c][b]
  BY <1>1, <1>5, SMTT(30) DEF Cost, Elsewhere
<1>8. SumOver(n, g) = SumOver(n, f) + (g[ch][sb] - f[ch][sb])
  <2>1. n \in Nat /\ ch \in 1 .. n /\ sb \in Bands
    BY <1>1, <1>2
  <2> QED
    BY <1>7, <2>1, GridChange
<1>9. SumOver(n, f) \in Nat /\ SumOver(n, g) \in Nat
  BY GridNat
<1>10. total <= SumOver(n, f)
  BY <1>1, <1>5 DEF Spent
<1>11. t - total <= g[ch][sb] - f[ch][sb]
  BY <1>5
<1>12. t <= SumOver(n, g)
  BY <1>2, <1>6, <1>8, <1>9, <1>10, <1>11
<1> QED
  BY <1>1, <1>5, <1>12

LEMMA RoundGoesFurther ==
  ASSUME Typed, NEW d \in [Chans -> ChannelData], Elsewhere(d), NEW p \in [Chans -> BOOLEAN],
         Rounds(data, progress, ch, sb),
         \A c \in Chans : c # ch => p[c] = progress[c], ~p[ch] => ~progress[ch],
         \/ d[ch].done[sb] = Done
         \/ data[ch].done[sb] # Done /\ d[ch].done[sb] = data[ch].done[sb] + 1 /\ p[ch]
  PROVE  Rounds(d, p, ch, sb + 1)
<1>1. PICK r \in Nat : InRound(data, r, ch, sb)
  BY DEF Rounds
<1>2. /\ ch \in Chans /\ sb \in Bands /\ sb \in Int /\ \A c \in Chans : c \in Int
      /\ \A b \in Bands : b \in Int
  BY DEF Typed, Chans, Bands
<1>3. \A c \in Chans, b \in Bands :
        Before(c, b, ch, sb + 1) <=> Before(c, b, ch, sb) \/ (c = ch /\ b = sb)
  <2> TAKE c \in Chans, b \in Bands
  <2>1. PICK m \in Int, k \in Int, n \in Int : m = b /\ k = sb /\ n = c
    BY <1>2
  <2>2. m < k + 1 <=> m < k \/ m = k
    OBVIOUS
  <2> QED
    BY <2>1, <2>2 DEF Before
<1>4. ~Before(ch, sb, ch, sb)
  BY <1>2 DEF Before
<1>5. InRound(d, r, ch, sb + 1)
  <2> SUFFICES ASSUME NEW c \in Chans, NEW b \in Bands
               PROVE  d[c].done[b] \in {Done, IF Before(c, b, ch, sb + 1) THEN r + 1 ELSE r}
    BY DEF InRound
  <2>1. CASE c = ch /\ b = sb
    <3>1. data[ch].done[sb] \in {Done, r}
      BY <1>1, <1>2, <1>4 DEF InRound
    <3> QED
      BY <1>3, <2>1, <3>1
  <2>2. CASE c # ch \/ b # sb
    BY <1>1, <1>3, <2>2 DEF InRound, Elsewhere
  <2> QED
    BY <2>1, <2>2
<1>6. Rests(d, p, ch, sb + 1)
  <2> SUFFICES ASSUME NEW c \in Chans, NEW b \in Bands, c <= ch, ~p[c], Before(c, b, ch, sb + 1)
               PROVE  d[c].done[b] = Done
    BY DEF Rests
  <2>1. CASE c = ch /\ b = sb
    BY <2>1
  <2>2. CASE c # ch \/ b # sb
    <3>1. ~progress[c] /\ Before(c, b, ch, sb)
      BY <1>3, <2>2
    <3> QED
      BY <2>2, <3>1 DEF Rounds, Rests, Elsewhere
  <2> QED
    BY <2>1, <2>2
<1> QED
  BY <1>5, <1>6 DEF Rounds

LEMMA WindowsAre ==
  ASSUME NEW w \in Windows, NEW cont \in BOOLEAN
  PROVE  /\ Closing(w) /\ w \in Spans
         /\ Closed(w, cont) \in Spans /\ ~Aborts(Closed(w, cont))
         /\ <<w[1], EmptyPoint>> \in Spans /\ ~Aborts(<<w[1], EmptyPoint>>) /\ ~Aborts(w)
<1>1. w \in Nat \X Nat /\ w[1] + 16 <= w[2] /\ w[2] <= FrameSamples
  BY WindowAssumption
<1>2. PICK x \in Nat, y \in Nat : w = <<x, y>>
  BY <1>1
<1>3. w[1] = x /\ w[2] = y /\ x + 16 <= y /\ y <= 128
  BY <1>1, <1>2 DEF FrameSamples
<1>4. Closing(w) /\ w \in Spans
  BY <1>1, <1>2, <1>3 DEF Closing, FrameSamples, Spans
<1>5. ~Aborts(w)
  BY <1>3 DEF Aborts, EmptyPoint, FrameSamples
<1>6. <<w[1], EmptyPoint>> \in Spans /\ ~Aborts(<<w[1], EmptyPoint>>)
  BY <1>3 DEF Aborts, EmptyPoint, Spans
<1> QED
  BY <1>4, <1>5, <1>6 DEF Closed

LEMMA LeftBehindIs ==
  ASSUME NEW env \in Spans, NEW e \in LeftBehind(env)
  PROVE  e \in Spans /\ (~Aborts(env) => ~Aborts(e))
<1>1. CASE e = env
  BY <1>1
<1>2. CASE \E w \in Windows : e = <<w[1], EmptyPoint>>
  BY <1>2, WindowsAre
<1>3. CASE e \in Windows
  BY <1>3, WindowsAre
<1> QED
  BY <1>1, <1>2, <1>3 DEF LeftBehind

LEMMA Touched ==
  ASSUME NEW S, NEW f \in PerBand(S), NEW b \in Bands, NEW v \in S
  PROVE  [f EXCEPT ![b] = v] \in PerBand(S)
BY DEF PerBand

LEMMA BandFields ==
  ASSUME NEW m \in ChannelData
  PROVE  /\ m.tones \in PerBand(ToneSets) /\ m.done \in PerBand(Marks)
         /\ m.env \in PerBand(Spans) /\ m.last \in PerBand(Tones)
         /\ m.union \in PerBand({<< >>} \cup Spans)
         /\ m.gapless \in PerBand(BOOLEAN) /\ m.refined \in PerBand(BOOLEAN)
BY DEF ChannelData

LEMMA BandIs ==
  ASSUME NEW d \in [Chans -> ChannelData], NEW c \in Chans, NEW b \in Bands
  PROVE  /\ d[c].tones[b] \in ToneSets /\ d[c].done[b] \in Marks
         /\ d[c].env[b] \in Spans /\ d[c].last[b] \in Tones
         /\ d[c].union[b] \in {<< >>} \cup Spans
         /\ d[c].gapless[b] \in BOOLEAN /\ d[c].refined[b] \in BOOLEAN
<1>1. d[c] \in ChannelData
  OBVIOUS
<1>2. ASSUME NEW S, NEW f \in PerBand(S) PROVE f[b] \in S
  BY DEF PerBand
<1> QED
  BY <1>1, <1>2, BandFields, Zenon

\* What the steps of DoRound start from.
LEMMA Searching ==
  ASSUME GhaInv, stage \in {"refit", "look"}
  PROVE  /\ Typed /\ CountInv /\ frames # 0 /\ strategy = "legacy"
         /\ Spent(data, Sound, total) /\ total <= TonesPerFrame
         /\ data \in [Chans -> ChannelData] /\ ch \in Chans /\ sb \in Bands /\ total \in Nat
         /\ progress \in [Chans -> BOOLEAN]
         /\ total < TonesPerFrame => Rounds(data, progress, ch, sb)
         /\ \A c \in Chans, b \in Bands :
              stage = "refit" \/ c # ch \/ b # sb => Searched(data, Sound, c, b, FALSE)
         /\ stage = "look" => Searched(data, Sound, ch, sb, TRUE)
         /\ stage = "look" => total < TonesPerFrame /\ data[ch].done[sb] # Done
         /\ data[ch].tones[sb] \in ToneSets /\ data[ch].done[sb] \in 0 .. Done
         /\ data[ch].env[sb] \in Spans /\ data[ch].last[sb] \in Tones
         /\ Done \in Nat /\ Done > 1 /\ Done = TonesPerBand + 1
         /\ TonesPerBand \in Nat /\ TonesPerFrame \in Nat
<1>1. Typed /\ CountInv /\ SearchInv
  BY DEF GhaInv
<1>2. frames # 0 /\ strategy = "legacy" /\ data \in [Chans -> ChannelData] /\ ch \in Chans
      /\ sb \in Bands /\ total \in Nat /\ progress \in [Chans -> BOOLEAN]
  BY <1>1 DEF Typed
<1>3. /\ AllSearched /\ Spent(data, Sound, total)
      /\ stage = "look" => total < TonesPerFrame /\ data[ch].done[sb] # Done
      /\ total < TonesPerFrame => Rounds(data, progress, ch, sb)
  BY <1>1 DEF SearchInv
<1>4. \A c \in Chans, b \in Bands :
        stage = "refit" \/ c # ch \/ b # sb => Searched(data, Sound, c, b, FALSE)
  BY <1>3 DEF AllSearched, Searched
<1>5. stage = "look" => Searched(data, Sound, ch, sb, TRUE)
  BY <1>2, <1>3 DEF AllSearched, Searched
<1>6. data[ch].tones[sb] \in ToneSets /\ data[ch].done[sb] \in 0 .. Done
      /\ data[ch].env[sb] \in Spans /\ data[ch].last[sb] \in Tones
  BY <1>2, BandIs DEF Marks
<1>7. Done \in Nat /\ Done > 1 /\ Done = TonesPerBand + 1 /\ TonesPerBand \in Nat
      /\ TonesPerFrame \in Nat
  BY BudgetAssumption DEF Done
<1>8. total <= TonesPerFrame
  BY <1>1 DEF CountInv
<1> QED
  BY <1>1, <1>2, <1>3, <1>4, <1>5, <1>6, <1>7, <1>8

(* ---------------------------- the legacy strategy ---------------------- *)

LEMMA CountSame ==
  ASSUME Typed, CountInv, data' = data, input' = input, total' = total PROVE CountInv'
<1>1. Chans' = Chans /\ Amounts(data)' = Amounts(data)
  BY DEF Chans, Amounts
<1> QED
  BY <1>1 DEF CountInv, Within

LEMMA SkipDoneGha == GhaInv /\ SkipDone => GhaInv'
<1> SUFFICES ASSUME GhaInv, SkipDone PROVE GhaInv'
  OBVIOUS
<1>1. stage = "refit" /\ data[ch].done[sb] = Done /\ NextBand(progress, total) /\ Same
      /\ data' = data /\ total' = total /\ input' = input
  BY DEF SkipDone, Same
<1>2. Elsewhere(data)
  BY DEF Elsewhere
<1>3. total < TonesPerFrame => Rounds(data, progress, ch, sb + 1)
  BY <1>1, <1>2, Searching, RoundGoesFurther
<1>4. Typed' /\ SearchInv' /\ WideInv' /\ FillInv'
  BY <1>1, <1>3, Searching, BandEnds
<1>5. CountInv'
  BY <1>1, Searching, CountSame
<1> QED
  BY <1>4, <1>5 DEF GhaInv

LEMMA UsedUpGha == GhaInv /\ UsedUp => GhaInv'
<1> SUFFICES ASSUME GhaInv, UsedUp PROVE GhaInv'
  OBVIOUS
<1> DEFINE p == [progress EXCEPT ![ch] = FALSE]
<1>1. stage = "refit" /\ total >= TonesPerFrame /\ EndRound(p, total) /\ Same
      /\ data' = data /\ total' = total /\ input' = input
  BY DEF UsedUp, Same
<1>2. p \in [Chans -> BOOLEAN]
  BY <1>1, Searching
<1> HIDE DEF p
<1>3. ~(total < TonesPerFrame)
  BY <1>1, Searching
<1>4. Typed' /\ SearchInv' /\ WideInv' /\ FillInv'
  BY <1>1, <1>2, <1>3, Searching, RoundEnds
<1>5. CountInv'
  BY <1>1, Searching, CountSame
<1> QED
  BY <1>4, <1>5 DEF GhaInv

\* On to the search, in the same place.
LEMMA Looks ==
  ASSUME GhaInv, stage = "refit", Go("look", ch, sb), Same, UNCHANGED <<total, progress>>,
         total < TonesPerFrame, data[ch].done[sb] # Done,
         NEW d \in [Chans -> ChannelData], data' = d, Elsewhere(d),
         d[ch].done[sb] = data[ch].done[sb],
         Searched(d, Sound, ch, sb, TRUE)
  PROVE  Typed' /\ SearchInv' /\ WideInv' /\ FillInv'
<1>1. input' = input /\ frames' = frames /\ strategy' = strategy /\ Chans' = Chans /\ Sound' = Sound
      /\ stage' = "look" /\ ch' = ch /\ sb' = sb /\ total' = total /\ progress' = progress
  BY DEF Same, Chans, Sound, Go
<1>2. Typed'
  BY <1>1, Searching DEF Typed
<1>3. \A c \in Chans, b \in Bands : d[c].done[b] = data[c].done[b]
  BY DEF Elsewhere
<1>4. Spent(d, Sound, total)
  <2>1. Begun(d) => Begun(data)
    BY <1>3 DEF Begun
  <2>2. Cost(d, Sound) = Cost(data, Sound)
    BY <1>3 DEF Cost
  <2> QED
    BY <2>1, <2>2, Searching DEF Spent
<1>5. Rounds(d, progress, ch, sb)
  BY <1>3, Searching DEF Rounds, InRound, Rests
<1>6. \A c \in Chans, b \in Bands : c # ch \/ b # sb => Searched(d, Sound, c, b, FALSE)
  BY Searching DEF Searched, Elsewhere
<1>7. \A c \in Chans, b \in Bands : Searched(d, Sound, c, b, c = ch /\ b = sb)
  <2> TAKE c \in Chans, b \in Bands
  <2>1. CASE c = ch /\ b = sb
    BY <2>1 DEF Searched
  <2>2. CASE ~(c = ch /\ b = sb)
    BY <1>6, <2>2 DEF Searched
  <2> QED
    BY <2>1, <2>2
<1>8. AllSearched'
  BY <1>1, <1>7 DEF AllSearched, Searched
<1>9. Spent(data, Sound, total)'
  BY <1>1, <1>4 DEF Spent, Begun, Cost
<1>10. Rounds(data, progress, ch, sb)'
  BY <1>1, <1>5 DEF Rounds, InRound, Rests
<1>11. SearchInv'
  <2>1. total' < TonesPerFrame /\ data'[ch'].done[sb'] # Done
    BY <1>1
  <2> QED
    BY <1>8, <1>9, <1>10, <2>1 DEF SearchInv
<1> QED
  BY <1>1, <1>2, <1>11 DEF WideInv, FillInv

LEMMA NothingToRefitGha == GhaInv /\ NothingToRefit => GhaInv'
<1> SUFFICES ASSUME GhaInv, NothingToRefit PROVE GhaInv'
  OBVIOUS
<1>1. stage = "refit" /\ data[ch].done[sb] # Done /\ total < TonesPerFrame /\ Mine = {}
      /\ Go("look", ch, sb) /\ UNCHANGED <<data, total, progress>> /\ Same
      /\ data' = data /\ total' = total /\ input' = input
  BY DEF NothingToRefit, Same
<1>2. Elsewhere(data)
  BY DEF Elsewhere
<1>3. Searched(data, Sound, ch, sb, TRUE)
  BY <1>1, Searching DEF Searched, Mine
<1>4. Typed' /\ SearchInv' /\ WideInv' /\ FillInv'
  BY <1>1, <1>2, <1>3, Searching, Looks
<1>5. CountInv'
  BY <1>1, Searching, CountSame
<1> QED
  BY <1>4, <1>5 DEF GhaInv

\* A fit of the tones of a band.
LEMMA RefittedAre ==
  ASSUME GhaInv, frames # 0, Mine # {}, NEW new \in Refitted(Cardinality(Mine))
  PROVE  /\ new \in ToneSets /\ new # {} /\ new \subseteq Indices(Here)
         /\ Cardinality(new) \in Nat /\ Cardinality(new) <= Cardinality(Mine)
<1>1. /\ data \in [Chans -> ChannelData] /\ ch \in Chans /\ sb \in Bands
      /\ input \in Inputs /\ frames \in 1 .. Len(input)
  BY DEF GhaInv, Typed
<1>2. Here \in FrequencySets
  BY <1>1, SoundIs DEF Here, Sound, Chans
<1>3. Mine \in ToneSets /\ Cardinality(Mine) \in Nat /\ Cardinality(Mine) # 0
  BY <1>1, BandIs, TonesFinite, FS_EmptySet DEF Mine
<1>4. PICK fs \in SUBSET Here : Cardinality(fs) = Cardinality(Mine) /\ new = Indices(fs)
  BY DEF Refitted
<1>5. fs \in FrequencySets
  BY <1>2, <1>4 DEF FrequencySets
<1>6. new \in ToneSets /\ Cardinality(new) <= Cardinality(Mine) /\ new # {}
  BY <1>3, <1>4, <1>5, IndicesAre
<1>7. new \subseteq Indices(Here)
  BY <1>4 DEF Indices
<1> QED
  BY <1>6, <1>7, TonesFinite

LEMMA RefitGha == GhaInv /\ Refit => GhaInv'
<1> SUFFICES ASSUME GhaInv, Refit PROVE GhaInv'
  OBVIOUS
<1>1. /\ stage = "refit" /\ data[ch].done[sb] # Done /\ total < TonesPerFrame /\ Mine # {}
      /\ Go("look", ch, sb) /\ UNCHANGED <<total, progress>> /\ Same
      /\ total' = total /\ input' = input
  BY DEF Refit, Same
<1>2. PICK w \in Windows, new \in Refitted(Cardinality(Mine)), cont \in BOOLEAN :
        /\ Explains(data[ch].env[sb], w)
        /\ ~(ToTheEnd(w) /\ data[ch].gapless[sb] /\ ~cont)
        /\ data' = [data EXCEPT ![ch].tones[sb] = new, ![ch].env[sb] = Closed(w, cont),
                             ![ch].gapless[sb] = @ \/ (ToTheEnd(w) /\ cont)]
  BY DEF Refit
<1>3. PICK e \in Spans : e = Closed(w, cont) /\ ~Aborts(e)
  BY WindowsAre
<1>4. /\ new \in ToneSets /\ new # {} /\ new \subseteq Indices(Here)
      /\ Cardinality(new) \in Nat /\ Cardinality(new) <= Cardinality(Mine)
  BY <1>1, Searching, RefittedAre
<1>5. PICK gap \in BOOLEAN : gap = (data[ch].gapless[sb] \/ (ToTheEnd(w) /\ cont))
  <2>1. data[ch].gapless[sb] \in BOOLEAN
    BY <1>1, Searching, BandIs
  <2> QED
    BY <2>1 DEF ToTheEnd
<1>6. PICK d \in [Chans -> ChannelData] :
        /\ data' = d /\ Elsewhere(d)
        /\ d[ch].tones[sb] = new /\ d[ch].env[sb] = e /\ d[ch].gapless[sb] = gap
        /\ d[ch].done[sb] = data[ch].done[sb] /\ d[ch].last[sb] = data[ch].last[sb]
  <2>1. data[ch] \in ChannelData /\ data \in [Chans -> ChannelData] /\ ch \in Chans /\ sb \in Bands
    BY <1>1, Searching
  <2> DEFINE tones2 == [data[ch].tones EXCEPT ![sb] = new]
             env2 == [data[ch].env EXCEPT ![sb] = e]
             gapless2 == [data[ch].gapless EXCEPT ![sb] = gap]
             m2 == [data[ch] EXCEPT !.tones = tones2, !.env = env2, !.gapless = gapless2]
             x  == [data EXCEPT ![ch] = m2]
  <2>2. tones2 \in PerBand(ToneSets) /\ env2 \in PerBand(Spans) /\ gapless2 \in PerBand(BOOLEAN)
    BY <1>3, <1>4, <1>5, <2>1, Touched, BandFields
  <2>3. m2 \in ChannelData
    <3> HIDE DEF tones2, env2, gapless2
    <3> QED
      BY <2>1, <2>2 DEF ChannelData
  <2>4. data' = x
    BY <1>2, <1>3, <1>5
  <2>5. m2.tones = tones2 /\ m2.env = env2 /\ m2.gapless = gapless2
        /\ m2.done = data[ch].done /\ m2.last = data[ch].last
    BY <2>1 DEF ChannelData
  <2>6. x \in [Chans -> ChannelData] /\ x[ch] = m2 /\ \A c \in Chans : c # ch => x[c] = data[c]
    <3> HIDE DEF m2
    <3> QED
      BY <2>1, <2>3
  <2>7. tones2[sb] = new /\ env2[sb] = e /\ gapless2[sb] = gap
        /\ \A b \in Bands : b # sb => tones2[b] = data[ch].tones[b] /\ env2[b] = data[ch].env[b]
    BY <2>1, BandFields DEF PerBand
  <2> HIDE DEF x, m2, tones2, env2, gapless2
  <2>8. Elsewhere(x)
    BY <2>5, <2>6, <2>7 DEF Elsewhere
  <2>9. x[ch].tones[sb] = new /\ x[ch].env[sb] = e /\ x[ch].gapless[sb] = gap
        /\ x[ch].done[sb] = data[ch].done[sb] /\ x[ch].last[sb] = data[ch].last[sb]
    BY <2>5, <2>6, <2>7
  <2> QED
    BY <2>4, <2>6, <2>8, <2>9, Zenon
<1>7. Searched(d, Sound, ch, sb, TRUE)
  BY <1>3, <1>4, <1>6 DEF Searched, Here
<1>8. Typed' /\ SearchInv' /\ WideInv' /\ FillInv'
  BY <1>1, <1>6, <1>7, Looks
<1>9. Within(d, ch, sb)
  <2>1. Within(data, ch, sb)
    BY <1>1, Searching DEF CountInv
  <2> QED
    BY <1>1, <1>4, <1>6, <2>1, Searching, TonesFinite DEF Within, Mine
<1>10. CountInv'
  <2>1. Cardinality(Mine) \in Nat
    BY <1>1, Searching, TonesFinite DEF Mine
  <2>2. Cardinality(d[ch].tones[sb]) - Cardinality(Mine) <= total - total
    BY <1>1, <1>4, <1>6, <2>1, Searching
  <2>3. total \in Int /\ total <= TonesPerFrame
    BY <1>1, Searching
  <2>4. SumOver(Len(input[1]), Amounts(d)) <= total /\ \A c \in Chans, b \in Bands : Within(d, c, b)
    BY <1>1, <1>6, <1>9, <2>2, <2>3, Searching, Recounted
  <2> QED
    BY <1>1, <1>6, <2>3, <2>4, Searching, CountKept
<1> QED
  BY <1>8, <1>10 DEF GhaInv

\* A band is left, with its tones, mark, envelope and the count as they are then.
LEMMA BandLeft ==
  ASSUME GhaInv, stage \in {"refit", "look"}, total < TonesPerFrame,
         NEW d \in [Chans -> ChannelData], data' = d, Elsewhere(d), NEW p \in [Chans -> BOOLEAN],
         NEW t \in Int, NextBand(p, t), total' = t, Same, t <= TonesPerFrame,
         Within(d, ch, sb), Cardinality(d[ch].tones[sb]) - Cardinality(Mine) <= t - total,
         Searched(d, Sound, ch, sb, FALSE), Begun(d) => Begun(data),
         Begun(d) => t - total <= Cost(d, Sound)[ch][sb] - Cost(data, Sound)[ch][sb],
         \A c \in Chans : c # ch => p[c] = progress[c], ~p[ch] => ~progress[ch],
         \/ d[ch].done[sb] = Done
         \/ data[ch].done[sb] # Done /\ d[ch].done[sb] = data[ch].done[sb] + 1 /\ p[ch]
  PROVE  GhaInv'
<1>1. /\ t \in Nat /\ SumOver(Len(input[1]), Amounts(d)) <= t
      /\ \A c \in Chans, b \in Bands : Within(d, c, b)
  BY Searching, Recounted
<1>2. CountInv'
  <2>1. input' = input
    BY DEF Same
  <2> QED
    BY <1>1, <2>1, Searching, CountKept
<1>3. Spent(d, Sound, t)
  BY <1>1, Searching, Respent
<1>4. Rounds(d, p, ch, sb + 1)
  BY Searching, RoundGoesFurther
<1>5. \A c \in Chans, b \in Bands : Searched(d, Sound, c, b, FALSE)
  <2> TAKE c \in Chans, b \in Bands
  <2>1. CASE c = ch /\ b = sb
    BY <2>1
  <2>2. CASE c # ch \/ b # sb
    <3>1. Searched(data, Sound, c, b, FALSE)
      BY <2>2, Searching
    <3> QED
      BY <2>2, <3>1 DEF Searched, Elsewhere
  <2> QED
    BY <2>1, <2>2
<1>6. Typed' /\ SearchInv' /\ WideInv' /\ FillInv'
  BY <1>1, <1>3, <1>4, <1>5, Searching, BandEnds
<1> QED
  BY <1>2, <1>6 DEF GhaInv

\* What a band's first two tones cost.
LEMMA Costs ==
  ASSUME GhaInv, stage \in {"refit", "look"}
  PROVE  /\ Here \in FrequencySets /\ Mine \in ToneSets /\ Cardinality(Mine) \in Nat
         /\ Mine \subseteq Indices(Here) /\ (Mine # {} <=> Cardinality(Mine) # 0)
         /\ Pairs(Sound)[ch][sb] \in 0 .. 2 /\ Within(data, ch, sb)
         /\ Here # {} => Pairs(Sound)[ch][sb] # 0
         /\ Cardinality(Here) >= 2 => Pairs(Sound)[ch][sb] = 2
         /\ \A d \in [Chans -> ChannelData] :
              Cost(d, Sound)[ch][sb] = IF d[ch].done[sb] \in {0, 1} THEN d[ch].done[sb]
                                       ELSE Pairs(Sound)[ch][sb]
         /\ data[ch].done[sb] = 0 <=> data[ch].done[sb] # Done /\ Mine = {}
         /\ data[ch].done[sb] \in 1 .. TonesPerBand => Mine # {} /\ Here # {}
<1>1. /\ input \in Inputs /\ frames \in 1 .. Len(input) /\ ch \in Chans /\ sb \in Bands
      /\ Within(data, ch, sb)
  <2>1. input \in Inputs /\ frames \in 0 .. Len(input) /\ frames # 0 /\ ch \in Chans /\ sb \in Bands
    BY Searching DEF Typed
  <2>2. Len(input) \in Nat
    <3>1. input \in Seq(Seq([Bands -> FrequencySets]))
      BY <2>1, FramesAssumption DEF FrequencySets
    <3> QED
      BY <3>1, LenProperties
  <2>3. frames \in 1 .. Len(input)
    BY <2>1, <2>2
  <2>4. Within(data, ch, sb)
    BY <2>1, Searching DEF CountInv
  <2> QED
    BY <2>1, <2>3, <2>4
<1>2. Mine \in ToneSets /\ Cardinality(Mine) \in Nat
  BY Searching, TonesFinite DEF Mine
<1>3. Mine # {} <=> Cardinality(Mine) # 0
  BY <1>2, TonesFinite, FS_EmptySet
<1>4. Searched(data, Sound, ch, sb, stage = "look")
  BY Searching DEF Searched
<1>5. Mine \subseteq Indices(Here)
  BY <1>4 DEF Searched, Mine, Here
<1>6. Here \in FrequencySets /\ (Here # {} => Pairs(Sound)[ch][sb] # 0)
      /\ (Cardinality(Here) >= 2 => Pairs(Sound)[ch][sb] = 2)
  BY <1>1, SoundIs DEF Here, Sound, Chans
<1>7. Pairs(Sound)[ch][sb] \in 0 .. 2
  <2>1. Here = {} => Cardinality(Here) = 0
    BY FS_EmptySet
  <2>2. PICK m \in Nat : m = Cardinality(Here)
    BY <1>6, IndicesAre
  <2>3. DOMAIN Sound = Chans
    BY <1>1, SoundIs DEF Sound, Chans
  <2>4. Pairs(Sound)[ch][sb] = IF m > 2 THEN 2 ELSE m
    BY <1>1, <2>2, <2>3 DEF Pairs, Here
  <2> QED
    BY <2>2, <2>4
<1>8. \A d \in [Chans -> ChannelData] :
        Cost(d, Sound)[ch][sb] = IF d[ch].done[sb] \in {0, 1} THEN d[ch].done[sb]
                                 ELSE Pairs(Sound)[ch][sb]
  BY <1>1 DEF Cost
<1>9. data[ch].done[sb] \in 1 .. TonesPerBand => Mine # {}
  BY <1>4 DEF Searched, Mine
<1>10. Mine # {} => Here # {}
  BY <1>5 DEF Indices
<1>11. data[ch].done[sb] = 0 <=> data[ch].done[sb] # Done /\ Mine = {}
  <2>1. PICK m \in 0 .. Done : m = data[ch].done[sb]
    BY Searching
  <2>2. PICK k \in Nat : k = Cardinality(Mine) /\ (m # Done => k <= m)
    BY <1>1, <1>2, <2>1 DEF Within, Mine
  <2>3. Done = TonesPerBand + 1 /\ Done \in Nat /\ Done > 1 /\ TonesPerBand \in Nat
    BY Searching
  <2>4. m = 0 => m # Done /\ k = 0
    BY <2>2, <2>3
  <2>5. m # Done /\ m # 0 => m \in 1 .. TonesPerBand
    BY <2>1, <2>3
  <2>6. Mine # {} <=> k # 0
    BY <1>3, <2>2
  <2>7. m = 0 => m # Done /\ Mine = {}
    BY <2>4, <2>6
  <2>8. m # Done /\ Mine = {} => m = 0
    BY <1>9, <2>1, <2>5
  <2> QED
    BY <2>1, <2>7, <2>8
<1> QED
  BY <1>1, <1>2, <1>3, <1>5, <1>6, <1>7, <1>8, <1>9, <1>10, <1>11

LEMMA DoneIsLate ==
  ASSUME GhaInv, stage \in {"refit", "look"}, NEW d \in [Chans -> ChannelData], Elsewhere(d),
         d[ch].done[sb] = Done, Begun(d)
  PROVE  Begun(data) /\ Cost(d, Sound)[ch][sb] = Pairs(Sound)[ch][sb]
<1>1. PICK c \in Chans, b \in Bands : d[c].done[b] \in {0, 1}
  BY DEF Begun
<1>2. Done \notin {0, 1}
  <2>1. Done \in Nat /\ Done > 1
    BY Searching
  <2> QED
    BY <2>1
<1>3. c # ch \/ b # sb
  BY <1>1, <1>2
<1>4. Begun(data)
  BY <1>1, <1>3 DEF Begun, Elsewhere
<1>5. Cost(d, Sound)[ch][sb] = IF d[ch].done[sb] \in {0, 1} THEN d[ch].done[sb]
                               ELSE Pairs(Sound)[ch][sb]
  BY Costs
<1>6. Cost(d, Sound)[ch][sb] = Pairs(Sound)[ch][sb]
  BY <1>2, <1>5, Zenon
<1> QED
  BY <1>4, <1>6

LEMMA LookInVainGha == GhaInv /\ LookInVain => GhaInv'
<1> SUFFICES ASSUME GhaInv, LookInVain PROVE GhaInv'
  OBVIOUS
<1>1. /\ stage = "look" /\ NextBand(progress, total) /\ Same /\ total' = total
      /\ data' = [data EXCEPT ![ch].done[sb] = Done]
  BY DEF LookInVain
<1>2. Done \in Marks
  BY <1>1, Searching DEF Marks
<1>3. PICK d \in [Chans -> ChannelData] :
        /\ data' = d /\ Elsewhere(d)
        /\ d[ch].done[sb] = Done
        /\ d[ch].tones[sb] = data[ch].tones[sb] /\ d[ch].env[sb] = data[ch].env[sb]
        /\ d[ch].last[sb] = data[ch].last[sb]
  <2>1. data[ch] \in ChannelData /\ data \in [Chans -> ChannelData] /\ ch \in Chans /\ sb \in Bands
    BY <1>1, Searching
  <2> DEFINE done2 == [data[ch].done EXCEPT ![sb] = Done]
             m2 == [data[ch] EXCEPT !.done = done2]
             x  == [data EXCEPT ![ch] = m2]
  <2>2. done2 \in PerBand(Marks)
    BY <1>2, <2>1, Touched, BandFields
  <2>3. m2 \in ChannelData
    <3> HIDE DEF done2
    <3> QED
      BY <2>1, <2>2 DEF ChannelData
  <2>4. data' = x
    BY <1>1
  <2>5. m2.done = done2
        /\ m2.tones = data[ch].tones /\ m2.env = data[ch].env /\ m2.last = data[ch].last
    BY <2>1 DEF ChannelData
  <2>6. x \in [Chans -> ChannelData] /\ x[ch] = m2 /\ \A c \in Chans : c # ch => x[c] = data[c]
    <3> HIDE DEF m2
    <3> QED
      BY <2>1, <2>3
  <2>7. done2[sb] = Done
        /\ \A b \in Bands : b # sb => done2[b] = data[ch].done[b]
    BY <2>1, BandFields DEF PerBand
  <2> HIDE DEF x, m2, done2
  <2>8. Elsewhere(x)
    BY <2>5, <2>6, <2>7 DEF Elsewhere
  <2>9. x[ch].done[sb] = Done
        /\ x[ch].tones[sb] = data[ch].tones[sb] /\ x[ch].env[sb] = data[ch].env[sb]
        /\ x[ch].last[sb] = data[ch].last[sb]
    BY <2>5, <2>6, <2>7
  <2> QED
    BY <2>4, <2>6, <2>8, <2>9, Zenon
<1>4. Searched(d, Sound, ch, sb, FALSE)
  <2>1. Searched(data, Sound, ch, sb, TRUE)
    BY <1>1, Searching
  <2> QED
    BY <1>1, <1>3, <2>1, Searching DEF Searched
<1>5. Within(d, ch, sb) /\ d[ch].tones[sb] = Mine
  BY <1>1, <1>3, Costs DEF Within, Mine
<1>6. ASSUME Begun(d)
      PROVE  total - total <= Cost(d, Sound)[ch][sb] - Cost(data, Sound)[ch][sb]
  <2>1. PICK q \in 0 .. 2 : q = Pairs(Sound)[ch][sb]
    BY <1>1, Costs
  <2>2. Cost(d, Sound)[ch][sb] = q
    BY <1>1, <1>3, <1>6, <2>1, DoneIsLate
  <2>3. PICK m \in 0 .. Done : m = data[ch].done[sb]
    BY <1>1, Searching
  <2>4. Cost(data, Sound)[ch][sb] = IF m \in {0, 1} THEN m ELSE q
    BY <1>1, <2>1, <2>3, Costs, Searching
  <2>5. m = 1 => q # 0
    <3>1. m = 1 => m \in 1 .. TonesPerBand
      BY <1>1, Searching
    <3> QED
      BY <1>1, <2>1, <2>3, <3>1, Costs
  <2> QED
    BY <1>1, <2>2, <2>4, <2>5, Searching
<1>7. Begun(d) => Begun(data)
  BY <1>1, <1>3, DoneIsLate
<1>8. Cardinality(d[ch].tones[sb]) - Cardinality(Mine) <= total - total
  BY <1>1, <1>5, Costs, Searching
<1>9. total \in Int /\ total <= TonesPerFrame /\ total < TonesPerFrame /\ progress \in [Chans -> BOOLEAN]
  BY <1>1, Searching
<1> QED
  BY <1>1, <1>3, <1>4, <1>5, <1>6, <1>7, <1>8, <1>9, BandLeft

LEMMA RollbackGha == GhaInv /\ Rollback => GhaInv'
<1> SUFFICES ASSUME GhaInv, Rollback PROVE GhaInv'
  OBVIOUS
<1> DEFINE rest == Mine \ {data[ch].last[sb]}
<1>1. /\ stage = "refit" /\ NextBand(progress, total - 1) /\ Same /\ total' = total - 1
      /\ data[ch].done[sb] # Done /\ total < TonesPerFrame /\ Mine # {}
  BY DEF Rollback
<1>2. PICK e \in LeftBehind(data[ch].env[sb]) :
        data' = [data EXCEPT ![ch].tones[sb] = @ \ {data[ch].last[sb]},
                             ![ch].done[sb] = Done, ![ch].env[sb] = e]
  BY DEF Rollback
<1>3. Done \in Marks /\ data[ch].env[sb] \in Spans
  BY <1>1, Searching DEF Marks
<1>4. e \in Spans /\ (~Aborts(data[ch].env[sb]) => ~Aborts(e))
  BY <1>3, LeftBehindIs
<1>5. Searched(data, Sound, ch, sb, FALSE)
  BY <1>1, Searching
<1>6. data[ch].last[sb] \in Mine
  BY <1>1, <1>5 DEF Searched, Mine
<1>7. rest \in ToneSets
  BY <1>1, Costs DEF ToneSets
<1>8. Cardinality(rest) = Cardinality(Mine) - 1 /\ Cardinality(Mine) \in Nat
      /\ (rest # {} => Cardinality(rest) # 0) /\ Cardinality(rest) \in Nat
  <2>1. IsFiniteSet(Mine) /\ IsFiniteSet(rest)
    BY <1>1, <1>7, Costs, TonesFinite
  <2>2. Cardinality(rest) = Cardinality(Mine) - 1
    BY <1>6, <2>1, FS_RemoveElement
  <2> QED
    BY <1>7, <2>1, <2>2, FS_EmptySet, TonesFinite, Costs, <1>1
<1> HIDE DEF rest
<1>9. data' = [data EXCEPT ![ch].tones[sb] = rest, ![ch].done[sb] = Done, ![ch].env[sb] = e]
  BY <1>2, Searching, <1>1 DEF rest, Mine
<1>10. PICK d \in [Chans -> ChannelData] :
        /\ data' = d /\ Elsewhere(d)
        /\ d[ch].tones[sb] = rest /\ d[ch].done[sb] = Done /\ d[ch].env[sb] = e
        /\ d[ch].last[sb] = data[ch].last[sb]
  <2>1. data[ch] \in ChannelData /\ data \in [Chans -> ChannelData] /\ ch \in Chans /\ sb \in Bands
    BY <1>1, Searching
  <2> DEFINE tones2 == [data[ch].tones EXCEPT ![sb] = rest]
             done2 == [data[ch].done EXCEPT ![sb] = Done]
             env2 == [data[ch].env EXCEPT ![sb] = e]
             m2 == [data[ch] EXCEPT !.tones = tones2, !.done = done2, !.env = env2]
             x  == [data EXCEPT ![ch] = m2]
  <2>2. tones2 \in PerBand(ToneSets) /\ done2 \in PerBand(Marks) /\ env2 \in PerBand(Spans)
    BY <1>3, <1>4, <1>7, <2>1, Touched, BandFields
  <2>3. m2 \in ChannelData
    <3> HIDE DEF tones2, done2, env2
    <3> QED
      BY <2>1, <2>2 DEF ChannelData
  <2>4. data' = x
    BY <1>9
  <2>5. m2.tones = tones2 /\ m2.done = done2 /\ m2.env = env2
        /\ m2.last = data[ch].last
    BY <2>1 DEF ChannelData
  <2>6. x \in [Chans -> ChannelData] /\ x[ch] = m2 /\ \A c \in Chans : c # ch => x[c] = data[c]
    <3> HIDE DEF m2
    <3> QED
      BY <2>1, <2>3
  <2>7. tones2[sb] = rest /\ done2[sb] = Done /\ env2[sb] = e
        /\ \A b \in Bands : b # sb =>
             /\ tones2[b] = data[ch].tones[b] /\ done2[b] = data[ch].done[b]
             /\ env2[b] = data[ch].env[b]
    BY <2>1, BandFields DEF PerBand
  <2> HIDE DEF x, m2, tones2, done2, env2
  <2>8. Elsewhere(x)
    BY <2>5, <2>6, <2>7 DEF Elsewhere
  <2>9. x[ch].tones[sb] = rest /\ x[ch].done[sb] = Done /\ x[ch].env[sb] = e
        /\ x[ch].last[sb] = data[ch].last[sb]
    BY <2>5, <2>6, <2>7
  <2> QED
    BY <2>4, <2>6, <2>8, <2>9, Zenon
<1>11. PICK m \in 0 .. Done, k \in Nat, j \in Nat :
         /\ m = data[ch].done[sb] /\ k = Cardinality(Mine) /\ j = Cardinality(rest)
         /\ j = k - 1 /\ k <= m /\ k <= TonesPerBand /\ m # Done
  BY <1>1, <1>8, Costs, Searching DEF Within, Mine
<1>12. Searched(d, Sound, ch, sb, FALSE)
  <2>1. ASSUME rest # {} PROVE ~Aborts(e)
    <3>1. m > 1
      BY <1>8, <1>11, <2>1
    <3>2. ~Aborts(data[ch].env[sb])
      BY <1>1, <1>5, <1>11, <3>1 DEF Searched, Mine
    <3> QED
      BY <1>4, <3>2
  <2>2. Done \notin 1 .. TonesPerBand /\ rest \subseteq Indices(Sound[ch][sb])
    BY <1>1, <1>5, Searching DEF Searched, Mine, rest
  <2> QED
    BY <1>10, <2>1, <2>2 DEF Searched
<1>13. Within(d, ch, sb)
  BY <1>1, <1>10, <1>11, Searching DEF Within
<1>14. ASSUME Begun(d)
       PROVE  (total - 1) - total <= Cost(d, Sound)[ch][sb] - Cost(data, Sound)[ch][sb]
  <2>1. PICK q \in 0 .. 2 : q = Pairs(Sound)[ch][sb]
    BY <1>1, Costs
  <2>2. Cost(d, Sound)[ch][sb] = q
    BY <1>1, <1>10, <1>14, <2>1, DoneIsLate
  <2>3. Cost(data, Sound)[ch][sb] = IF m \in {0, 1} THEN m ELSE q
    BY <1>1, <1>11, <2>1, Costs, Searching
  <2> QED
    BY <1>1, <2>2, <2>3, Searching
<1>15. Begun(d) => Begun(data)
  BY <1>1, <1>10, DoneIsLate
<1>16. Cardinality(d[ch].tones[sb]) - Cardinality(Mine) <= (total - 1) - total
  BY <1>1, <1>8, <1>10, Searching
<1>17. total - 1 \in Int /\ total - 1 <= TonesPerFrame /\ progress \in [Chans -> BOOLEAN]
  BY <1>1, Searching
<1> QED
  BY <1>1, <1>10, <1>12, <1>13, <1>14, <1>15, <1>16, <1>17, BandLeft

\* A tone far enough from those of its band is another one.
LEMMA FarIsOther ==
  ASSUME GhaInv, stage = "look", NEW x \in Indices(Here), ~TooClose(sb, x)
  PROVE  x \notin Mine
<1> SUFFICES ASSUME x \in Mine PROVE FALSE
  OBVIOUS
<1>1. PICK y \in Nat, z \in Nat : y = x /\ z = sb
  <2>1. x \in Nat
    BY Costs, SMTT(30) DEF ToneSets
  <2> QED
    BY <2>1, Searching, SubbandsAssumption DEF Bands
<1>2. 1024 * z + y - (1024 * z + y) \in 1 - MinFreqDistance .. MinFreqDistance - 1
  BY DEF MinFreqDistance
<1>3. sb \in Bands /\ x \in data[ch].tones[sb]
  BY Searching DEF Mine
<1> QED
  BY <1>1, <1>2, <1>3 DEF TooClose

LEMMA TwoTones ==
  ASSUME GhaInv, stage = "look", NEW x \in Indices(Here), x \notin Mine, Mine # {}
  PROVE  Cardinality(Here) >= 2
<1>1. PICK y \in Mine : TRUE
  OBVIOUS
<1>2. y \in Indices(Here) /\ x # y /\ Here \in FrequencySets
  <2>0. stage \in {"refit", "look"}
    OBVIOUS
  <2>1. Mine \subseteq Indices(Here) /\ Here \in FrequencySets
    BY <2>0, Costs, Zenon
  <2>2. x # y
    BY <1>1
  <2> QED
    BY <1>1, <2>1, <2>2
<1>3. Indices(Here) \in ToneSets /\ Cardinality(Here) \in Nat /\ Cardinality(Indices(Here)) <= Cardinality(Here)
  BY <1>2, IndicesAre
<1>4. IsFiniteSet(Indices(Here)) /\ Cardinality(Indices(Here)) \in Nat
  BY <1>3, TonesFinite
<1>5. {x} \cup {y} \in SUBSET Indices(Here)
  BY <1>2
<1>6. Cardinality({x} \cup {y}) = 2
  <2>1. IsFiniteSet({x}) /\ Cardinality({x}) = 1
    BY FS_Singleton
  <2>2. y \notin {x}
    BY <1>2
  <2> QED
    BY <2>1, <2>2, FS_AddElement
<1>7. Cardinality({x} \cup {y}) <= Cardinality(Indices(Here))
  BY <1>4, <1>5, FS_Subset
<1> QED
  BY <1>3, <1>4, <1>6, <1>7

LEMMA AddToneGha == GhaInv /\ AddTone => GhaInv'
<1> SUFFICES ASSUME GhaInv, AddTone PROVE GhaInv'
  OBVIOUS
<1> DEFINE p == [progress EXCEPT ![ch] = TRUE]
<1>1. /\ stage = "look" /\ NextBand(p, total + 1) /\ Same /\ total' = total + 1
      /\ total < TonesPerFrame /\ data[ch].done[sb] # Done /\ total \in Nat
  BY Searching DEF AddTone
<1>2. PICK x \in Indices(Here) :
        /\ data[ch].done[sb] = 0 \/ (~TooClose(sb, x) /\ data[ch].done[sb] < TonesPerBand)
        /\ data' = [data EXCEPT ![ch].tones[sb] = @ \cup {x}, ![ch].last[sb] = x,
                                ![ch].done[sb] = @ + 1]
  BY DEF AddTone
<1> DEFINE more == Mine \cup {x}
<1>3. PICK m \in 0 .. TonesPerBand, k \in Nat :
        /\ m = data[ch].done[sb] /\ k = Cardinality(Mine) /\ k <= m /\ m < TonesPerBand
  <2>1. data[ch].done[sb] < TonesPerBand
    BY <1>1, <1>2, Searching
  <2> QED
    BY <1>1, <2>1, Costs, Searching DEF Within, Mine
<1>4. x \in Tones /\ more \in ToneSets /\ m + 1 \in Marks /\ m + 1 <= TonesPerBand
  <2>1. Indices(Here) \in ToneSets
    BY <1>1, Costs, IndicesAre
  <2>2. PICK n \in Nat : n = 1023
    OBVIOUS
  <2>3. Indices(Here) \subseteq 0 .. n
    BY <2>1, <2>2 DEF ToneSets
  <2>4. Mine \subseteq 0 .. n
    BY <1>1, <2>2, Costs DEF ToneSets
  <2>5. x \in 0 .. n
    BY <2>3
  <2>6. x \in Tones
    BY <2>2, <2>5 DEF Tones
  <2>7. more \subseteq 0 .. n
    BY <2>4, <2>5, Zenon
  <2>8. more \in ToneSets
    <3> HIDE DEF more
    <3> QED
      BY <2>2, <2>7 DEF ToneSets
  <2>9. m + 1 \in Marks /\ m + 1 <= TonesPerBand
    BY <1>1, <1>3, Searching DEF Marks
  <2> HIDE DEF more
  <2> QED
    BY <2>6, <2>8, <2>9
<1>5. Cardinality(more) \in Nat /\ Cardinality(more) <= k + 1 /\ more # {}
      /\ more \subseteq Indices(Here)
  <2>1. IsFiniteSet(Mine)
    BY <1>1, Costs, TonesFinite
  <2>2. Cardinality(more) = IF x \in Mine THEN Cardinality(Mine) ELSE Cardinality(Mine) + 1
    BY <2>1, FS_AddElement
  <2>0. stage \in {"refit", "look"}
    BY <1>1
  <2>3. Mine \subseteq Indices(Here)
    BY <2>0, Costs, Zenon
  <2>4. more # {} /\ more \subseteq Indices(Here)
    BY <2>3
  <2> HIDE DEF more
  <2>5. Cardinality(more) \in Nat
    BY <1>4, TonesFinite
  <2>6. Cardinality(more) <= k + 1
    BY <1>3, <2>2 DEF more
  <2> QED
    BY <2>4, <2>5, <2>6
<1> HIDE DEF more
<1>6. data' = [data EXCEPT ![ch].tones[sb] = more, ![ch].last[sb] = x, ![ch].done[sb] = m + 1]
  BY <1>1, <1>2, <1>3, Searching DEF more, Mine
<1>7. PICK d \in [Chans -> ChannelData] :
        /\ data' = d /\ Elsewhere(d)
        /\ d[ch].tones[sb] = more /\ d[ch].last[sb] = x /\ d[ch].done[sb] = m + 1
        /\ d[ch].env[sb] = data[ch].env[sb]
  <2>1. data[ch] \in ChannelData /\ data \in [Chans -> ChannelData] /\ ch \in Chans /\ sb \in Bands
    BY <1>1, Searching
  <2> DEFINE tones2 == [data[ch].tones EXCEPT ![sb] = more]
             last2 == [data[ch].last EXCEPT ![sb] = x]
             done2 == [data[ch].done EXCEPT ![sb] = m + 1]
             m2 == [data[ch] EXCEPT !.tones = tones2, !.last = last2, !.done = done2]
             y  == [data EXCEPT ![ch] = m2]
  <2>2. tones2 \in PerBand(ToneSets) /\ last2 \in PerBand(Tones) /\ done2 \in PerBand(Marks)
    BY <1>4, <2>1, Touched, BandFields
  <2>3. m2 \in ChannelData
    <3> HIDE DEF tones2, last2, done2
    <3> QED
      BY <2>1, <2>2 DEF ChannelData
  <2>4. data' = y
    BY <1>6
  <2>5. m2.tones = tones2 /\ m2.last = last2 /\ m2.done = done2
        /\ m2.env = data[ch].env
    BY <2>1 DEF ChannelData
  <2>6. y \in [Chans -> ChannelData] /\ y[ch] = m2 /\ \A c \in Chans : c # ch => y[c] = data[c]
    <3> HIDE DEF m2
    <3> QED
      BY <2>1, <2>3
  <2>7. tones2[sb] = more /\ last2[sb] = x /\ done2[sb] = m + 1
        /\ \A b \in Bands : b # sb =>
             /\ tones2[b] = data[ch].tones[b] /\ last2[b] = data[ch].last[b]
             /\ done2[b] = data[ch].done[b]
    BY <2>1, BandFields DEF PerBand
  <2> HIDE DEF y, m2, tones2, last2, done2
  <2>8. Elsewhere(y)
    BY <2>5, <2>6, <2>7 DEF Elsewhere
  <2>9. y[ch].tones[sb] = more /\ y[ch].last[sb] = x /\ y[ch].done[sb] = m + 1
        /\ y[ch].env[sb] = data[ch].env[sb]
    BY <2>5, <2>6, <2>7
  <2> QED
    BY <2>4, <2>6, <2>8, <2>9, Zenon
<1>8. Searched(d, Sound, ch, sb, FALSE)
  <2>1. ASSUME m # 0 PROVE ~Aborts(data[ch].env[sb])
    <3>1. Mine # {}
      BY <1>1, <1>3, <2>1, Costs
    <3>2. Searched(data, Sound, ch, sb, TRUE)
      BY <1>1, Searching
    <3> QED
      BY <3>1, <3>2 DEF Searched, Mine
  <2>2. x \in more
    BY DEF more
  <2> QED
    BY <1>3, <1>5, <1>7, <2>1, <2>2 DEF Searched, Here
<1>9. Within(d, ch, sb)
  BY <1>1, <1>3, <1>4, <1>5, <1>7, Searching DEF Within
<1>10. Begun(d) => Begun(data)
  <2> SUFFICES ASSUME NEW c \in Chans, NEW b \in Bands, d[c].done[b] \in {0, 1} PROVE Begun(data)
    BY DEF Begun
  <2>1. CASE c = ch /\ b = sb
    <3>1. m + 1 \in {0, 1}
      BY <1>7, <2>1
    <3> QED
      BY <1>3, <2>1, <3>1 DEF Begun
  <2>2. CASE c # ch \/ b # sb
    BY <1>7, <2>2 DEF Begun, Elsewhere
  <2> QED
    BY <2>1, <2>2
<1>11. ASSUME Begun(d)
       PROVE  (total + 1) - total <= Cost(d, Sound)[ch][sb] - Cost(data, Sound)[ch][sb]
  <2>1. m \in {0, 1}
    <3>1. PICK c \in Chans, b \in Bands : d[c].done[b] \in {0, 1}
      BY <1>11 DEF Begun
    <3>2. PICK r \in Nat : InRound(data, r, ch, sb)
      BY <1>1, Searching DEF Rounds
    <3>3. ~Before(ch, sb, ch, sb)
      <4>1. ch \in Int /\ sb \in Int
        BY <1>1, Searching DEF Chans, Bands
      <4> QED
        BY <4>1 DEF Before
    <3>4. m = r
      BY <1>1, <1>3, <3>2, <3>3, Searching DEF InRound
    <3>5. CASE c = ch /\ b = sb
      <4>1. m + 1 \in {0, 1}
        BY <1>7, <3>1, <3>5
      <4> QED
        BY <1>3, <4>1
    <3>6. CASE c # ch \/ b # sb
      <4>1. data[c].done[b] \in {0, 1}
        BY <1>7, <3>1, <3>6 DEF Elsewhere
      <4>2. data[c].done[b] \in {Done, r + 1, r}
        BY <3>2 DEF InRound
      <4> QED
        BY <1>1, <1>3, <3>4, <4>1, <4>2, Searching
    <3> QED
      BY <3>5, <3>6
  <2>2. PICK q \in 0 .. 2 : q = Pairs(Sound)[ch][sb]
    BY <1>1, Costs
  <2>3. /\ Cost(d, Sound)[ch][sb] = IF m + 1 \in {0, 1} THEN m + 1 ELSE q
        /\ Cost(data, Sound)[ch][sb] = IF m \in {0, 1} THEN m ELSE q
    BY <1>1, <1>3, <1>7, <2>2, Costs, Searching
  <2>4. ASSUME m = 1 PROVE q = 2
    <3>1. Mine # {}
      BY <1>1, <1>3, <2>4, Costs
    <3>2. x \notin Mine
      BY <1>1, <1>2, <1>3, <2>4, FarIsOther
    <3>3. Cardinality(Here) >= 2
      BY <1>1, <3>1, <3>2, TwoTones
    <3> QED
      BY <1>1, <2>2, <3>3, Costs
  <2> QED
    BY <1>1, <2>1, <2>3, <2>4
<1>12. Cardinality(d[ch].tones[sb]) - Cardinality(Mine) <= (total + 1) - total
  BY <1>1, <1>3, <1>5, <1>7
<1>13. /\ p \in [Chans -> BOOLEAN] /\ p[ch] /\ \A c \in Chans : c # ch => p[c] = progress[c]
  BY <1>1, Searching
<1>14. d[ch].done[sb] = data[ch].done[sb] + 1
  BY <1>3, <1>7
<1>15. total + 1 \in Int /\ total + 1 <= TonesPerFrame
  BY <1>1, Searching
<1> HIDE DEF p
<1> QED
  BY <1>1, <1>7, <1>8, <1>9, <1>10, <1>11, <1>12, <1>13, <1>14, <1>15, BandLeft

(* --------------------------- the wideband strategies ------------------- *)

Aside(d) ==
  \A c \in Chans, b \in Bands : c # ch \/ b # sb =>
    d[c].union[b] = data[c].union[b] /\ d[c].refined[b] = data[c].refined[b]

LEMMA Widening ==
  ASSUME GhaInv, stage \in {"extract", "refine", "commit"}
  PROVE  /\ Typed /\ CountInv /\ frames # 0 /\ strategy # "legacy" /\ total <= TonesPerFrame
         /\ data \in [Chans -> ChannelData] /\ ch \in Chans /\ sb \in Bands /\ total \in Nat
         /\ progress \in [Chans -> BOOLEAN]
         /\ \A c \in Chans, b \in Bands :
              Extracted(data, c, b, stage, ch, sb) /\ Within(data, c, b)
         /\ Mine \in ToneSets /\ Cardinality(Mine) \in Nat
         /\ TonesPerBand \in Nat /\ TonesPerFrame \in Nat /\ Done = TonesPerBand + 1
<1>1. Typed /\ CountInv /\ WideInv
  BY DEF GhaInv
<1>2. frames # 0 /\ strategy # "legacy" /\ data \in [Chans -> ChannelData] /\ ch \in Chans
      /\ sb \in Bands /\ total \in Nat /\ progress \in [Chans -> BOOLEAN]
  BY <1>1 DEF Typed
<1>3. /\ \A c \in Chans, b \in Bands : Extracted(data, c, b, stage, ch, sb)
      /\ \A c \in Chans, b \in Bands : Within(data, c, b)
      /\ total <= TonesPerFrame
  BY <1>1 DEF WideInv, CountInv
<1>4. Mine \in ToneSets /\ Cardinality(Mine) \in Nat
  BY <1>2, BandIs, TonesFinite DEF Mine
<1>5. TonesPerBand \in Nat /\ TonesPerFrame \in Nat /\ Done = TonesPerBand + 1
  BY BudgetAssumption DEF Done
<1> QED
  BY <1>1, <1>2, <1>3, <1>4, <1>5

\* Where a walk through the bands comes to, and that it has been through all of them
\* when it leaves for the next stage.
LEMMA WalkGoes ==
  ASSUME Typed, NEW st, NEW next, Walk(st, next), st # next
  PROVE  /\ stage' \in {st, next} /\ ch' \in Chans /\ sb' \in Bands
         /\ \A c \in Chans, b \in Bands :
              /\ stage' = st =>
                   (Before(c, b, ch', sb') <=> Before(c, b, ch, sb) \/ (c = ch /\ b = sb))
              /\ stage' = next =>
                   /\ Before(c, b, ch, sb) \/ (c = ch /\ b = sb)
                   /\ ~Before(c, b, ch', sb')
<1>1. PICK n \in {1, 2} : n = Len(input[1]) /\ Chans = 1 .. n /\ Len(data) = n
  BY ChansAre
<1>2. PICK m \in Nat : m = Subbands /\ m # 0
  BY SubbandsAssumption
<1>3. Bands = 0 .. m - 1
  BY <1>2 DEF Bands
<1>4. ch \in 1 .. n /\ sb \in 0 .. m - 1
  BY <1>1, <1>3 DEF Typed
<1>5. CASE sb + 1 \in Bands
  <2>1. stage' = st /\ ch' = ch /\ sb' = sb + 1
    BY <1>5 DEF Walk, Go
  <2>2. \A c \in 1 .. n, b \in 0 .. m - 1 :
          Before(c, b, ch, sb + 1) <=> Before(c, b, ch, sb) \/ (c = ch /\ b = sb)
    BY <1>4 DEF Before
  <2> QED
    BY <1>1, <1>3, <1>4, <1>5, <2>1, <2>2
<1>6. CASE sb + 1 \notin Bands /\ ch < Len(data)
  <2>1. stage' = st /\ ch' = ch + 1 /\ sb' = 0
    BY <1>6 DEF Walk, Go
  <2>2. sb = m - 1
    BY <1>3, <1>4, <1>6
  <2>3. \A c \in 1 .. n, b \in 0 .. m - 1 :
          Before(c, b, ch + 1, 0) <=> Before(c, b, ch, sb) \/ (c = ch /\ b = sb)
    BY <1>4, <2>2 DEF Before
  <2>4. ch + 1 \in 1 .. n /\ 0 \in 0 .. m - 1
    BY <1>1, <1>2, <1>4, <1>6
  <2> QED
    BY <1>1, <1>3, <2>1, <2>3, <2>4
<1>7. CASE sb + 1 \notin Bands /\ ~(ch < Len(data))
  <2>1. stage' = next /\ ch' = 1 /\ sb' = 0
    BY <1>7 DEF Walk, Go
  <2>2. sb = m - 1 /\ ch = n
    BY <1>1, <1>3, <1>4, <1>7
  <2>3. \A c \in 1 .. n, b \in 0 .. m - 1 :
          (Before(c, b, ch, sb) \/ (c = ch /\ b = sb)) /\ ~Before(c, b, 1, 0)
    BY <1>4, <2>2 DEF Before
  <2>4. 1 \in 1 .. n /\ 0 \in 0 .. m - 1
    BY <1>2
  <2> QED
    BY <1>1, <1>3, <2>1, <2>3, <2>4
<1> QED
  BY <1>5, <1>6, <1>7

\* What refinement and commitment make of a band.
LEMMA WideMoves ==
  ASSUME GhaInv, \/ stage = "refine" /\ Walk("refine", "commit")
                 \/ stage = "commit" /\ Walk("commit", "fill"),
         Same, UNCHANGED <<total, progress>>,
         NEW d \in [Chans -> ChannelData], data' = d, Elsewhere(d), Aside(d),
         d[ch].done[sb] = data[ch].done[sb],
         Cardinality(d[ch].tones[sb]) <= Cardinality(Mine),
         d[ch].union[sb] # << >> => Closing(d[ch].union[sb]),
         d[ch].tones[sb] # {} => d[ch].union[sb] # << >>,
         d[ch].refined[sb] => ~Aborts(d[ch].env[sb]),
         stage = "commit" /\ d[ch].tones[sb] # {} => ~Aborts(d[ch].env[sb])
  PROVE  GhaInv'
<1>1. /\ input' = input /\ frames' = frames /\ strategy' = strategy /\ Chans' = Chans
      /\ Sound' = Sound /\ total' = total /\ progress' = progress
      /\ stage \in {"refine", "commit"}
  BY DEF Same, Chans, Sound
<1>2. /\ stage' \in {"refine", "commit", "fill"} /\ ch' \in Chans /\ sb' \in Bands
      /\ \A c \in Chans, b \in Bands :
           /\ stage' = stage =>
                (Before(c, b, ch', sb') <=> Before(c, b, ch, sb) \/ (c = ch /\ b = sb))
           /\ stage' # stage => Before(c, b, ch, sb) \/ (c = ch /\ b = sb)
           /\ stage' # stage => ~Before(c, b, ch', sb')
  <2>1. Typed
    BY DEF GhaInv
  <2>2. CASE stage = "refine" /\ Walk("refine", "commit")
    <3>1. "refine" # "commit"
      OBVIOUS
    <3> QED
      BY <2>1, <2>2, <3>1, WalkGoes
  <2>3. CASE stage = "commit" /\ Walk("commit", "fill")
    <3>1. "commit" # "fill"
      OBVIOUS
    <3> QED
      BY <2>1, <2>3, <3>1, WalkGoes
  <2> QED
    BY <2>2, <2>3
<1>3. stage = "refine" => stage' \in {"refine", "commit"}
  <2>1. Typed /\ "refine" # "commit"
    BY DEF GhaInv
  <2>2. stage = "refine" => Walk("refine", "commit")
    OBVIOUS
  <2> QED
    BY <2>1, <2>2, WalkGoes
<1>4. stage = "commit" => stage' \in {"commit", "fill"}
  <2>1. Typed /\ "commit" # "fill"
    BY DEF GhaInv
  <2>2. stage = "commit" => Walk("commit", "fill")
    OBVIOUS
  <2> QED
    BY <2>1, <2>2, WalkGoes
<1>5. Typed'
  BY <1>1, <1>2, Widening DEF Typed
<1>6. CountInv'
  <2>1. total \in Int /\ total <= TonesPerFrame /\ Cardinality(Mine) \in Nat
        /\ Cardinality(d[ch].tones[sb]) \in Nat
    BY <1>1, Widening, BandIs, TonesFinite
  <2>2. Cardinality(d[ch].tones[sb]) - Cardinality(Mine) <= total - total
    BY <2>1
  <2>3. Within(d, ch, sb)
    <3>1. Within(data, ch, sb) /\ data[ch].done[sb] \in Nat /\ TonesPerBand \in Nat
      BY <1>1, Widening, BandIs DEF Marks
    <3> QED
      BY <2>1, <3>1 DEF Within, Mine
  <2>4. /\ SumOver(Len(input[1]), Amounts(d)) <= total
        /\ \A c \in Chans, b \in Bands : Within(d, c, b)
    BY <1>1, <2>1, <2>2, <2>3, Widening, Recounted
  <2> QED
    BY <1>1, <2>1, <2>4, Widening, CountKept
<1>7. ASSUME NEW c \in Chans, NEW b \in Bands
      PROVE  /\ d[c].union[b] # << >> => Closing(d[c].union[b])
             /\ d[c].tones[b] # {} => d[c].union[b] # << >>
             /\ d[c].refined[b] => ~Aborts(d[c].env[b])
             /\ stage' = "refine" /\ ~Before(c, b, ch', sb') => ~d[c].refined[b]
             /\ stage = "commit" /\ (Before(c, b, ch, sb) \/ (c = ch /\ b = sb)) /\ d[c].tones[b] # {} =>
                  ~Aborts(d[c].env[b])
  <2>1. CASE c = ch /\ b = sb
    <3>1. stage' = "refine" => stage' = stage
      BY <1>1, <1>4
    <3> QED
      BY <1>2, <2>1, <3>1
  <2>2. CASE c # ch \/ b # sb
    <3>1. Extracted(data, c, b, stage, ch, sb)
      BY <1>1, Widening
    <3>2. /\ d[c].tones[b] = data[c].tones[b] /\ d[c].env[b] = data[c].env[b]
          /\ d[c].union[b] = data[c].union[b] /\ d[c].refined[b] = data[c].refined[b]
      BY <2>2 DEF Elsewhere, Aside
    <3>3. stage' = "refine" => stage = "refine"
      BY <1>1, <1>4
    <3>4. stage' = "refine" /\ ~Before(c, b, ch', sb') => ~data[c].refined[b]
      BY <1>2, <3>1, <3>3 DEF Extracted
    <3>5. /\ data[c].union[b] # << >> => Closing(data[c].union[b])
          /\ data[c].tones[b] # {} => data[c].union[b] # << >>
          /\ data[c].refined[b] => ~Aborts(data[c].env[b])
          /\ stage = "commit" /\ Before(c, b, ch, sb) /\ data[c].tones[b] # {} => ~Aborts(data[c].env[b])
      BY <3>1 DEF Extracted
    <3> QED
      BY <2>2, <3>2, <3>4, <3>5
  <2> QED
    BY <2>1, <2>2
<1>8. WideInv'
  <2> SUFFICES ASSUME stage' \in {"extract", "refine", "commit"}, NEW c \in Chans, NEW b \in Bands
               PROVE  Extracted(d, c, b, stage', ch', sb')
    BY <1>1 DEF WideInv
  <2>1. stage' # "extract"
    BY <1>2
  <2>2. stage' = "commit" /\ Before(c, b, ch', sb') =>
          stage = "commit" /\ (Before(c, b, ch, sb) \/ (c = ch /\ b = sb))
    BY <1>1, <1>2
  <2> QED
    BY <1>7, <2>1, <2>2 DEF Extracted
<1>9. FillInv'
  <2> SUFFICES ASSUME stage' = "fill" PROVE Enveloped(d)
    BY <1>1 DEF FillInv, Enveloped
  <2>1. stage = "commit" /\ stage' # stage
    BY <1>1, <1>3
  <2> QED
    BY <1>2, <1>7, <2>1 DEF Enveloped
<1>10. SearchInv'
  BY <1>2 DEF SearchInv
<1> QED
  BY <1>5, <1>6, <1>8, <1>9, <1>10 DEF GhaInv

LEMMA FrameIs ==
  ASSUME Typed, frames # 0 PROVE input \in Inputs /\ frames \in 1 .. Len(input)
<1>1. input \in Inputs /\ frames \in 0 .. Len(input)
  BY DEF Typed
<1>2. input \in Seq(Seq([Bands -> FrequencySets]))
  BY <1>1, FramesAssumption, ZenonT(60) DEF FrequencySets
<1>3. Len(input) \in Nat
  BY <1>2, LenProperties
<1> QED
  BY <1>1, <1>3

LEMMA ClosingCloses ==
  ASSUME NEW w, Closing(w), NEW cont \in BOOLEAN
  PROVE  Closed(w, cont) \in Spans /\ ~Aborts(Closed(w, cont))
<1>1. PICK x \in Nat, y \in Nat : w = <<x, y>>
  BY DEF Closing
<1>2. w[1] = x /\ w[2] = y /\ y \in 1 .. 128
  BY <1>1 DEF Closing, FrameSamples
<1>3. w \in Spans /\ ~Aborts(w)
  BY <1>1, <1>2 DEF Aborts, EmptyPoint, FrameSamples, Spans
<1>4. <<w[1], EmptyPoint>> \in Spans /\ ~Aborts(<<w[1], EmptyPoint>>)
  BY <1>2 DEF Aborts, EmptyPoint, Spans
<1> QED
  BY <1>3, <1>4 DEF Closed

\* What a band that has not been come to yet is like.
LEMMA Unrefined ==
  ASSUME GhaInv, stage = "refine"
  PROVE  /\ ~data[ch].refined[sb] /\ (Mine # {} => data[ch].union[sb] # << >>)
         /\ data[ch].union[sb] # << >> => Closing(data[ch].union[sb])
<1>1. ch \in Chans /\ sb \in Bands /\ Extracted(data, ch, sb, "refine", ch, sb)
  BY Widening
<1>2. ~Before(ch, sb, ch, sb)
  <2>1. ch \in Int /\ sb \in Int
    BY <1>1 DEF Chans, Bands
  <2> QED
    BY <2>1 DEF Before
<1> QED
  BY <1>1, <1>2 DEF Extracted, Mine

LEMMA RefineBandGha == GhaInv /\ RefineBand => GhaInv'
<1> SUFFICES ASSUME GhaInv, RefineBand PROVE GhaInv'
  OBVIOUS
<1>1. stage = "refine" /\ Walk("refine", "commit") /\ Same /\ UNCHANGED <<total, progress>> /\ Mine # {}
  BY DEF RefineBand
<1>2. CASE \E w \in Windows, new \in Refitted(Cardinality(Mine)), cont \in BOOLEAN :
             data' = [data EXCEPT ![ch].tones[sb] = new, ![ch].env[sb] = Closed(w, cont),
                                  ![ch].refined[sb] = TRUE]
  <2>1. PICK w \in Windows, new \in Refitted(Cardinality(Mine)), cont \in BOOLEAN :
             data' = [data EXCEPT ![ch].tones[sb] = new, ![ch].env[sb] = Closed(w, cont),
                                  ![ch].refined[sb] = TRUE]
    BY <1>2
  <2>2. PICK e \in Spans : e = Closed(w, cont) /\ ~Aborts(e)
    BY WindowsAre
  <2>3. new \in ToneSets /\ Cardinality(new) <= Cardinality(Mine)
    BY <1>1, Widening, RefittedAre
  <2>4. TRUE \in BOOLEAN
    OBVIOUS
  <2>5. data' = [data EXCEPT ![ch].tones[sb] = new, ![ch].env[sb] = e, ![ch].refined[sb] = TRUE]
    BY <2>1, <2>2
  <2>6. PICK d \in [Chans -> ChannelData] :
          /\ data' = d /\ Elsewhere(d) /\ Aside(d)
          /\ d[ch].tones[sb] = new /\ d[ch].env[sb] = e /\ d[ch].refined[sb] = TRUE
          /\ d[ch].done[sb] = data[ch].done[sb] /\ d[ch].last[sb] = data[ch].last[sb]
          /\ d[ch].union[sb] = data[ch].union[sb]
    <3>1. data[ch] \in ChannelData /\ data \in [Chans -> ChannelData] /\ ch \in Chans /\ sb \in Bands
      BY <1>1, Widening
    <3> DEFINE tones2 == [data[ch].tones EXCEPT ![sb] = new]
               env2 == [data[ch].env EXCEPT ![sb] = e]
               refined2 == [data[ch].refined EXCEPT ![sb] = TRUE]
               m2 == [data[ch] EXCEPT !.tones = tones2, !.env = env2, !.refined = refined2]
               x  == [data EXCEPT ![ch] = m2]
    <3>2. tones2 \in PerBand(ToneSets) /\ env2 \in PerBand(Spans) /\ refined2 \in PerBand(BOOLEAN)
      BY <2>2, <2>3, <2>4, <3>1, Touched, BandFields
    <3>3. m2 \in ChannelData
      <4> HIDE DEF tones2, env2, refined2
      <4> QED
        BY <3>1, <3>2 DEF ChannelData
    <3>4. data' = x
      BY <2>5
    <3>5. m2.tones = tones2 /\ m2.env = env2 /\ m2.refined = refined2
          /\ m2.done = data[ch].done /\ m2.last = data[ch].last /\ m2.union = data[ch].union
      BY <3>1 DEF ChannelData
    <3>6. x \in [Chans -> ChannelData] /\ x[ch] = m2 /\ \A c \in Chans : c # ch => x[c] = data[c]
      <4> HIDE DEF m2
      <4> QED
        BY <3>1, <3>3
    <3>7. tones2[sb] = new /\ env2[sb] = e /\ refined2[sb] = TRUE
          /\ \A b \in Bands : b # sb =>
               /\ tones2[b] = data[ch].tones[b] /\ env2[b] = data[ch].env[b]
               /\ refined2[b] = data[ch].refined[b]
      BY <3>1, BandFields DEF PerBand
    <3> HIDE DEF x, m2, tones2, env2, refined2
    <3>8. Elsewhere(x) /\ Aside(x)
      BY <3>5, <3>6, <3>7 DEF Elsewhere, Aside
    <3>9. x[ch].tones[sb] = new /\ x[ch].env[sb] = e /\ x[ch].refined[sb] = TRUE
          /\ x[ch].done[sb] = data[ch].done[sb] /\ x[ch].last[sb] = data[ch].last[sb]
          /\ x[ch].union[sb] = data[ch].union[sb]
      BY <3>5, <3>6, <3>7
    <3> QED
      BY <3>4, <3>6, <3>8, <3>9, Zenon
  <2>7. d[ch].union[sb] # << >> /\ Closing(d[ch].union[sb])
    BY <1>1, <2>6, Unrefined
  <2> QED
    BY <1>1, <2>2, <2>3, <2>6, <2>7, WideMoves
<1>3. CASE data' = [data EXCEPT ![ch].env[sb] = <<InitPoint, InitPoint>>]
  <2>0. InitPoint \in Int
    BY DEF InitPoint
  <2>1. PICK e \in Spans : e = <<InitPoint, InitPoint>>
    BY <2>0, Zenon DEF Spans
  <2>2. data' = [data EXCEPT ![ch].env[sb] = e]
    BY <1>3, <2>1
  <2>3. PICK d \in [Chans -> ChannelData] :
          /\ data' = d /\ Elsewhere(d) /\ Aside(d)
          /\ d[ch].env[sb] = e
          /\ d[ch].tones[sb] = data[ch].tones[sb] /\ d[ch].done[sb] = data[ch].done[sb]
          /\ d[ch].last[sb] = data[ch].last[sb] /\ d[ch].union[sb] = data[ch].union[sb]
          /\ d[ch].refined[sb] = data[ch].refined[sb]
    <3>1. data[ch] \in ChannelData /\ data \in [Chans -> ChannelData] /\ ch \in Chans /\ sb \in Bands
      BY <1>1, Widening
    <3> DEFINE env2 == [data[ch].env EXCEPT ![sb] = e]
               m2 == [data[ch] EXCEPT !.env = env2]
               x  == [data EXCEPT ![ch] = m2]
    <3>2. env2 \in PerBand(Spans)
      BY <2>1, <3>1, Touched, BandFields
    <3>3. m2 \in ChannelData
      <4> HIDE DEF env2
      <4> QED
        BY <3>1, <3>2 DEF ChannelData
    <3>4. data' = x
      BY <2>2
    <3>5. m2.env = env2
          /\ m2.tones = data[ch].tones /\ m2.done = data[ch].done /\ m2.last = data[ch].last
          /\ m2.union = data[ch].union /\ m2.refined = data[ch].refined
      BY <3>1 DEF ChannelData
    <3>6. x \in [Chans -> ChannelData] /\ x[ch] = m2 /\ \A c \in Chans : c # ch => x[c] = data[c]
      <4> HIDE DEF m2
      <4> QED
        BY <3>1, <3>3
    <3>7. env2[sb] = e
          /\ \A b \in Bands : b # sb => env2[b] = data[ch].env[b]
      BY <3>1, BandFields DEF PerBand
    <3> HIDE DEF x, m2, env2
    <3>8. Elsewhere(x) /\ Aside(x)
      BY <3>5, <3>6, <3>7 DEF Elsewhere, Aside
    <3>9. x[ch].env[sb] = e
          /\ x[ch].tones[sb] = data[ch].tones[sb] /\ x[ch].done[sb] = data[ch].done[sb]
          /\ x[ch].last[sb] = data[ch].last[sb] /\ x[ch].union[sb] = data[ch].union[sb]
          /\ x[ch].refined[sb] = data[ch].refined[sb]
      BY <3>5, <3>6, <3>7
    <3> QED
      BY <3>4, <3>6, <3>8, <3>9, Zenon
  <2>4. /\ d[ch].union[sb] # << >> /\ Closing(d[ch].union[sb]) /\ ~d[ch].refined[sb]
        /\ d[ch].tones[sb] = Mine /\ Cardinality(Mine) \in Nat
    BY <1>1, <2>3, Unrefined, Widening DEF Mine
  <2> QED
    BY <1>1, <2>3, <2>4, WideMoves
<1> QED
  BY <1>2, <1>3 DEF RefineBand

LEMMA RefineRawGha == GhaInv /\ RefineRaw => GhaInv'
<1> SUFFICES ASSUME GhaInv, RefineRaw PROVE GhaInv'
  OBVIOUS
<1>1. stage = "refine" /\ Walk("refine", "commit") /\ Same /\ UNCHANGED <<total, progress>> /\ Mine # {}
  BY DEF RefineRaw
<1>2. PICK new \in {is \in SUBSET Indices(Here) : Cardinality(is) = Cardinality(Mine)} :
        data' = [data EXCEPT ![ch].tones[sb] = new]
  BY DEF RefineRaw
<1>3. new \in ToneSets /\ Cardinality(new) = Cardinality(Mine)
  <2>1. /\ input \in Inputs /\ frames \in 1 .. Len(input) /\ ch \in Chans /\ sb \in Bands
    BY <1>1, Widening, FrameIs
  <2>2. Indices(Here) \in ToneSets
    BY <2>1, SoundIs, IndicesAre DEF Here, Sound, Chans
  <2> QED
    BY <1>2, <2>2 DEF ToneSets
<1>4. PICK d \in [Chans -> ChannelData] :
        /\ data' = d /\ Elsewhere(d) /\ Aside(d)
        /\ d[ch].tones[sb] = new
        /\ d[ch].done[sb] = data[ch].done[sb] /\ d[ch].env[sb] = data[ch].env[sb]
        /\ d[ch].last[sb] = data[ch].last[sb] /\ d[ch].union[sb] = data[ch].union[sb]
        /\ d[ch].refined[sb] = data[ch].refined[sb]
  <2>1. data[ch] \in ChannelData /\ data \in [Chans -> ChannelData] /\ ch \in Chans /\ sb \in Bands
    BY <1>1, Widening
  <2> DEFINE tones2 == [data[ch].tones EXCEPT ![sb] = new]
             m2 == [data[ch] EXCEPT !.tones = tones2]
             x  == [data EXCEPT ![ch] = m2]
  <2>2. tones2 \in PerBand(ToneSets)
    BY <1>3, <2>1, Touched, BandFields
  <2>3. m2 \in ChannelData
    <3> HIDE DEF tones2
    <3> QED
      BY <2>1, <2>2 DEF ChannelData
  <2>4. data' = x
    BY <1>2
  <2>5. m2.tones = tones2
        /\ m2.done = data[ch].done /\ m2.env = data[ch].env /\ m2.last = data[ch].last
        /\ m2.union = data[ch].union /\ m2.refined = data[ch].refined
    BY <2>1 DEF ChannelData
  <2>6. x \in [Chans -> ChannelData] /\ x[ch] = m2 /\ \A c \in Chans : c # ch => x[c] = data[c]
    <3> HIDE DEF m2
    <3> QED
      BY <2>1, <2>3
  <2>7. tones2[sb] = new
        /\ \A b \in Bands : b # sb => tones2[b] = data[ch].tones[b]
    BY <2>1, BandFields DEF PerBand
  <2> HIDE DEF x, m2, tones2
  <2>8. Elsewhere(x) /\ Aside(x)
    BY <2>5, <2>6, <2>7 DEF Elsewhere, Aside
  <2>9. x[ch].tones[sb] = new
        /\ x[ch].done[sb] = data[ch].done[sb] /\ x[ch].env[sb] = data[ch].env[sb]
        /\ x[ch].last[sb] = data[ch].last[sb] /\ x[ch].union[sb] = data[ch].union[sb]
        /\ x[ch].refined[sb] = data[ch].refined[sb]
    BY <2>5, <2>6, <2>7
  <2> QED
    BY <2>4, <2>6, <2>8, <2>9, Zenon
<1>5. d[ch].union[sb] # << >> /\ Closing(d[ch].union[sb]) /\ ~d[ch].refined[sb]
  BY <1>1, <1>4, Unrefined
<1>6. Cardinality(d[ch].tones[sb]) <= Cardinality(Mine)
  BY <1>1, <1>3, <1>4, Widening
<1> QED
  BY <1>1, <1>4, <1>5, <1>6, WideMoves

LEMMA RefineNothingGha == GhaInv /\ RefineNothing => GhaInv'
<1> SUFFICES ASSUME GhaInv, RefineNothing PROVE GhaInv'
  OBVIOUS
<1>1. stage = "refine" /\ Walk("refine", "commit") /\ Same /\ UNCHANGED <<total, progress>> /\ data' = data
  BY DEF RefineNothing
<1>2. Elsewhere(data) /\ Aside(data) /\ data \in [Chans -> ChannelData]
  BY <1>1, Widening DEF Elsewhere, Aside
<1>3. Mine = data[ch].tones[sb] /\ Cardinality(Mine) <= Cardinality(Mine)
  BY <1>1, Widening DEF Mine
<1> QED
  BY <1>1, <1>2, <1>3, Unrefined, WideMoves

LEMMA CommitGha == GhaInv /\ Commit => GhaInv'
<1> SUFFICES ASSUME GhaInv, Commit PROVE GhaInv'
  OBVIOUS
<1> DEFINE u == data[ch].union[sb]
<1>1. stage = "commit" /\ Walk("commit", "fill") /\ Same /\ UNCHANGED <<total, progress>>
  BY DEF Commit
<1>2. /\ (u # << >> => Closing(u)) /\ (Mine # {} => u # << >>)
      /\ (data[ch].refined[sb] => ~Aborts(data[ch].env[sb]))
      /\ Mine = data[ch].tones[sb] /\ Cardinality(Mine) <= Cardinality(Mine)
  <2>1. Extracted(data, ch, sb, stage, ch, sb) /\ Cardinality(Mine) \in Nat
    BY <1>1, Widening
  <2> QED
    BY <2>1 DEF Extracted, Mine
<1>3. CASE data[ch].refined[sb] \/ u = << >>
  <2>1. data' = data
    BY <1>3 DEF Commit
  <2>2. Elsewhere(data) /\ Aside(data) /\ data \in [Chans -> ChannelData]
    BY <1>1, Widening DEF Elsewhere, Aside
  <2>3. data[ch].tones[sb] # {} => ~Aborts(data[ch].env[sb])
    BY <1>2, <1>3
  <2> QED
    BY <1>1, <1>2, <2>1, <2>2, <2>3, WideMoves
<1>4. CASE ~(data[ch].refined[sb] \/ u = << >>)
  <2>1. PICK cont \in BOOLEAN :
          data' = [data EXCEPT ![ch].env[sb] = Closed(u, cont /\ Mine # {})]
    BY <1>4 DEF Commit
  <2>2. PICK e \in Spans : e = Closed(u, cont /\ Mine # {}) /\ ~Aborts(e)
    BY <1>2, <1>4, ClosingCloses
  <2>3. data' = [data EXCEPT ![ch].env[sb] = e]
    BY <2>1, <2>2
  <2> HIDE DEF u
  <2>4. PICK d \in [Chans -> ChannelData] :
          /\ data' = d /\ Elsewhere(d) /\ Aside(d)
          /\ d[ch].env[sb] = e
          /\ d[ch].tones[sb] = data[ch].tones[sb] /\ d[ch].done[sb] = data[ch].done[sb]
          /\ d[ch].last[sb] = data[ch].last[sb] /\ d[ch].union[sb] = data[ch].union[sb]
          /\ d[ch].refined[sb] = data[ch].refined[sb]
    <3>1. data[ch] \in ChannelData /\ data \in [Chans -> ChannelData] /\ ch \in Chans /\ sb \in Bands
      BY <1>1, Widening
    <3> DEFINE env2 == [data[ch].env EXCEPT ![sb] = e]
               m2 == [data[ch] EXCEPT !.env = env2]
               x  == [data EXCEPT ![ch] = m2]
    <3>2. env2 \in PerBand(Spans)
      BY <2>2, <3>1, Touched, BandFields
    <3>3. m2 \in ChannelData
      <4> HIDE DEF env2
      <4> QED
        BY <3>1, <3>2 DEF ChannelData
    <3>4. data' = x
      BY <2>3
    <3>5. m2.env = env2
          /\ m2.tones = data[ch].tones /\ m2.done = data[ch].done /\ m2.last = data[ch].last
          /\ m2.union = data[ch].union /\ m2.refined = data[ch].refined
      BY <3>1 DEF ChannelData
    <3>6. x \in [Chans -> ChannelData] /\ x[ch] = m2 /\ \A c \in Chans : c # ch => x[c] = data[c]
      <4> HIDE DEF m2
      <4> QED
        BY <3>1, <3>3
    <3>7. env2[sb] = e
          /\ \A b \in Bands : b # sb => env2[b] = data[ch].env[b]
      BY <3>1, BandFields DEF PerBand
    <3> HIDE DEF x, m2, env2
    <3>8. Elsewhere(x) /\ Aside(x)
      BY <3>5, <3>6, <3>7 DEF Elsewhere, Aside
    <3>9. x[ch].env[sb] = e
          /\ x[ch].tones[sb] = data[ch].tones[sb] /\ x[ch].done[sb] = data[ch].done[sb]
          /\ x[ch].last[sb] = data[ch].last[sb] /\ x[ch].union[sb] = data[ch].union[sb]
          /\ x[ch].refined[sb] = data[ch].refined[sb]
      BY <3>5, <3>6, <3>7
    <3> QED
      BY <3>4, <3>6, <3>8, <3>9, Zenon
  <2>5. /\ d[ch].union[sb] = u /\ d[ch].tones[sb] = Mine
    BY <1>2, <2>4 DEF u
  <2> QED
    BY <1>1, <1>2, <2>2, <2>4, <2>5, WideMoves
<1> QED
  BY <1>3, <1>4

(* ------------------------------- extraction ---------------------------- *)

\* A turn is over, with what it added.
LEMMA TurnEnds ==
  ASSUME GhaInv, stage = "extract", NEW p \in [Chans -> BOOLEAN], NEW t \in Nat, NextTurn(p, t), Same,
         total' = t, t <= TonesPerFrame, NEW d \in [Chans -> ChannelData], data' = d,
         SumOver(Len(input[1]), Amounts(d)) <= t,
         \A c \in Chans, b \in Bands :
           /\ Within(d, c, b) /\ ~d[c].refined[b]
           /\ d[c].union[b] # << >> => Closing(d[c].union[b])
           /\ d[c].tones[b] # {} => d[c].union[b] # << >>
  PROVE  GhaInv'
<1>1. /\ input' = input /\ frames' = frames /\ strategy' = strategy /\ Chans' = Chans
  BY DEF Same, Chans
<1>2. /\ stage' \in {"extract", "refine"} /\ ch' \in Chans /\ sb' \in Bands /\ progress' = p
  <2>1. PICK n \in {1, 2} : n = Len(input[1]) /\ Chans = 1 .. n /\ Len(data) = n
    BY ChansAre DEF GhaInv
  <2>2. 0 \in Bands
    BY SubbandsAssumption DEF Bands
  <2>3. ch \in 1 .. n
    BY <2>1, Widening
  <2>4. CASE ch < Len(data)
    <3>1. ch + 1 \in 1 .. n
      BY <2>1, <2>3, <2>4
    <3> QED
      BY <2>1, <2>2, <2>4, <3>1 DEF NextTurn, Go
  <2>5. CASE ~(ch < Len(data))
    <3>1. 1 \in 1 .. n
      BY <2>1, SMTT(30)
    <3> QED
      BY <2>1, <2>2, <2>5, <3>1 DEF NextTurn, Go
  <2> QED
    BY <2>4, <2>5
<1>3. Typed'
  BY <1>1, <1>2, Widening DEF Typed
<1>4. CountInv'
  BY <1>1, Widening, CountKept
<1>5. \A c \in Chans, b \in Bands : Extracted(d, c, b, stage', ch', sb')
  BY <1>2 DEF Extracted
<1>6. WideInv'
  BY <1>1, <1>5 DEF WideInv
<1>7. SearchInv' /\ FillInv'
  BY <1>2 DEF SearchInv, FillInv
<1> QED
  BY <1>3, <1>4, <1>6, <1>7 DEF GhaInv

LEMMA Extracting ==
  ASSUME GhaInv, stage = "extract"
  PROVE  \A c \in Chans, b \in Bands :
           /\ Within(data, c, b) /\ ~data[c].refined[b]
           /\ data[c].union[b] # << >> => Closing(data[c].union[b])
           /\ data[c].tones[b] # {} => data[c].union[b] # << >>
BY Widening DEF Extracted

LEMMA ExtractNoneGha == GhaInv /\ ExtractNone => GhaInv'
<1> SUFFICES ASSUME GhaInv, ExtractNone PROVE GhaInv'
  OBVIOUS
<1> DEFINE p == [progress EXCEPT ![ch] = FALSE]
<1>1. stage = "extract" /\ NextTurn(p, total) /\ Same /\ data' = data /\ total' = total
  BY DEF ExtractNone
<1>2. p \in [Chans -> BOOLEAN]
  BY <1>1, Widening
<1> HIDE DEF p
<1>3. /\ data \in [Chans -> ChannelData] /\ total \in Nat /\ total <= TonesPerFrame
      /\ SumOver(Len(input[1]), Amounts(data)) <= total
  BY <1>1, Widening DEF CountInv
<1> QED
  BY <1>1, <1>2, <1>3, Extracting, TurnEnds

LEMMA UnionCloses ==
  ASSUME NEW u, u # << >> => Closing(u), NEW w \in Windows
  PROVE  Closing(Union(u, w)) /\ Union(u, w) # << >> /\ Union(u, w) \in {<< >>} \cup Spans
<1>1. Closing(w)
  BY WindowsAre, TRUE \in BOOLEAN
<1>2. ASSUME NEW v, Closing(v) PROVE v # << >> /\ v \in {<< >>} \cup Spans
  <2>1. PICK x \in Nat, y \in Nat : v = <<x, y>>
    BY <1>2 DEF Closing
  <2> QED
    BY <2>1 DEF Spans
<1>3. CASE u = << >>
  BY <1>1, <1>2, <1>3 DEF Union
<1>4. CASE u # << >>
  <2>1. PICK x \in Nat, y \in Nat, v \in Nat, z \in Nat :
          u = <<x, y>> /\ w = <<v, z>> /\ y \in 1 .. FrameSamples /\ z \in 1 .. FrameSamples
    BY <1>1, <1>4 DEF Closing
  <2>2. Min({x, v}) \in {x, v}
    <3>1. \E a \in {x, v} : \A c \in {x, v} : a <= c
      BY <2>1
    <3> QED
      BY <3>1 DEF Min
  <2>3. Max({y, z}) \in {y, z}
    <3>1. \E a \in {y, z} : \A c \in {y, z} : a >= c
      BY <2>1
    <3> QED
      BY <3>1 DEF Max
  <2>4. Union(u, w) = <<Min({x, v}), Max({y, z})>>
    BY <1>4, <2>1 DEF Union
  <2>5. Closing(Union(u, w))
    BY <2>1, <2>2, <2>3, <2>4 DEF Closing
  <2> QED
    BY <1>2, <2>5
<1> QED
  BY <1>3, <1>4

LEMMA ExtractOneGha == GhaInv /\ ExtractOne => GhaInv'
<1> SUFFICES ASSUME GhaInv, ExtractOne PROVE GhaInv'
  OBVIOUS
<1>1. stage = "extract" /\ Same
  BY DEF ExtractOne
<1>2. PICK home \in Bands, w \in Windows :
       \E seen \in SUBSET {b \in Bands : b - home \in -1 .. 1 /\ data[ch].done[b] < TonesPerBand} :
         /\ seen # {} /\ ExtractFits(Cardinality(seen))
         /\ \E at \in [seen -> UNION {Indices(Sound[ch][b]) : b \in seen}] :
              /\ \A b \in seen : at[b] \in Indices(Sound[ch][b]) /\ ~TooClose(b, at[b])
              /\ data' = [data EXCEPT
                   ![ch].tones = [b \in Bands |-> IF b \in seen THEN @[b] \cup {at[b]} ELSE @[b]],
                   ![ch].done  = [b \in Bands |-> IF b \in seen THEN @[b] + 1 ELSE @[b]],
                   ![ch].union = [b \in Bands |-> IF b \in seen THEN Union(@[b], w) ELSE @[b]]]
         /\ total' = total + Cardinality(seen)
         /\ NextTurn(progress, total + Cardinality(seen))
  BY Zenon DEF ExtractOne
<1>3. PICK seen \in SUBSET {b \in Bands : b - home \in -1 .. 1 /\ data[ch].done[b] < TonesPerBand} :
         /\ seen # {} /\ ExtractFits(Cardinality(seen))
         /\ \E at \in [seen -> UNION {Indices(Sound[ch][b]) : b \in seen}] :
              /\ \A b \in seen : at[b] \in Indices(Sound[ch][b]) /\ ~TooClose(b, at[b])
              /\ data' = [data EXCEPT
                   ![ch].tones = [b \in Bands |-> IF b \in seen THEN @[b] \cup {at[b]} ELSE @[b]],
                   ![ch].done  = [b \in Bands |-> IF b \in seen THEN @[b] + 1 ELSE @[b]],
                   ![ch].union = [b \in Bands |-> IF b \in seen THEN Union(@[b], w) ELSE @[b]]]
         /\ total' = total + Cardinality(seen)
         /\ NextTurn(progress, total + Cardinality(seen))
  BY <1>2, ZenonT(60)
<1>4. PICK at \in [seen -> UNION {Indices(Sound[ch][b]) : b \in seen}] :
         /\ \A b \in seen : at[b] \in Indices(Sound[ch][b])
         /\ data' = [data EXCEPT
              ![ch].tones = [b \in Bands |-> IF b \in seen THEN @[b] \cup {at[b]} ELSE @[b]],
              ![ch].done  = [b \in Bands |-> IF b \in seen THEN @[b] + 1 ELSE @[b]],
              ![ch].union = [b \in Bands |-> IF b \in seen THEN Union(@[b], w) ELSE @[b]]]
  BY <1>3
<1> DEFINE t2 == [b \in Bands |-> IF b \in seen THEN data[ch].tones[b] \cup {at[b]} ELSE data[ch].tones[b]]
           d2 == [b \in Bands |-> IF b \in seen THEN data[ch].done[b] + 1 ELSE data[ch].done[b]]
           u2 == [b \in Bands |-> IF b \in seen THEN Union(data[ch].union[b], w) ELSE data[ch].union[b]]
           m2 == [data[ch] EXCEPT !.tones = t2, !.done = d2, !.union = u2]
           d  == [data EXCEPT ![ch] = m2]
<1>5. /\ data \in [Chans -> ChannelData] /\ data[ch] \in ChannelData /\ ch \in Chans
      /\ input \in Inputs /\ frames \in 1 .. Len(input)
      /\ seen \in SUBSET Bands /\ \A b \in seen : data[ch].done[b] < TonesPerBand
      /\ progress \in [Chans -> BOOLEAN] /\ total \in Nat /\ Typed
  <2>1. /\ Typed /\ frames # 0 /\ data \in [Chans -> ChannelData] /\ ch \in Chans
        /\ progress \in [Chans -> BOOLEAN] /\ total \in Nat
    BY <1>1, Widening
  <2>2. seen \in SUBSET Bands /\ \A b \in seen : data[ch].done[b] < TonesPerBand
    BY <1>3
  <2> QED
    BY <2>1, <2>2, FrameIs
<1>6. \A b \in seen : at[b] \in Tones
  <2> TAKE b \in seen
  <2>1. b \in Bands
    BY <1>5
  <2>2. Indices(Sound[ch][b]) \in ToneSets
    BY <1>5, <2>1, SoundIs, IndicesAre DEF Sound, Chans
  <2>3. Indices(Sound[ch][b]) \subseteq Tones
    BY <2>2 DEF ToneSets, Tones
  <2>4. at[b] \in Indices(Sound[ch][b])
    BY <1>4, Zenon
  <2> QED
    BY <2>3, <2>4
<1>7. ASSUME NEW b \in Bands
      PROVE  /\ t2[b] \in ToneSets /\ d2[b] \in Marks /\ u2[b] \in {<< >>} \cup Spans
             /\ Cardinality(t2[b]) <= Cardinality(data[ch].tones[b]) + (IF b \in seen THEN 1 ELSE 0)
             /\ Cardinality(t2[b]) \in Nat /\ Cardinality(data[ch].tones[b]) \in Nat
             /\ Cardinality(t2[b]) <= TonesPerBand
             /\ d2[b] # Done => Cardinality(t2[b]) <= d2[b]
             /\ u2[b] # << >> => Closing(u2[b])
             /\ t2[b] # {} => u2[b] # << >>
  <2>1. /\ data[ch].tones[b] \in ToneSets /\ data[ch].done[b] \in 0 .. Done
        /\ data[ch].union[b] \in {<< >>} \cup Spans
    BY <1>5, BandIs DEF Marks
  <2>2. /\ Within(data, ch, b) /\ (data[ch].union[b] # << >> => Closing(data[ch].union[b]))
        /\ (data[ch].tones[b] # {} => data[ch].union[b] # << >>)
    BY <1>1, <1>5, Extracting
  <2>3. /\ IsFiniteSet(data[ch].tones[b]) /\ Cardinality(data[ch].tones[b]) \in Nat
    BY <2>1, TonesFinite
  <2>4. TonesPerBand \in Nat /\ Done = TonesPerBand + 1
    BY <1>1, Widening
  <2>5. CASE b \in seen
    <3>1. /\ t2[b] = data[ch].tones[b] \cup {at[b]} /\ d2[b] = data[ch].done[b] + 1
          /\ u2[b] = Union(data[ch].union[b], w)
      BY <2>5
    <3>2. Closing(u2[b]) /\ u2[b] # << >> /\ u2[b] \in {<< >>} \cup Spans
      BY <2>2, <3>1, UnionCloses
    <3>3. t2[b] \in ToneSets
      <4>1. ToneSets = SUBSET Tones
        BY DEF ToneSets, Tones
      <4>2. data[ch].tones[b] \subseteq Tones /\ at[b] \in Tones
        BY <1>6, <2>1, <2>5, <4>1, Zenon
      <4>3. data[ch].tones[b] \cup {at[b]} \subseteq Tones
        BY <4>2, Zenon
      <4> QED
        BY <3>1, <4>1, <4>3, Zenon
    <3>4. /\ Cardinality(t2[b]) \in Nat /\ Cardinality(t2[b]) <= Cardinality(data[ch].tones[b]) + 1
      <4>1. Cardinality(t2[b]) \in Nat
        BY <3>3, TonesFinite
      <4>2. Cardinality(t2[b]) = IF at[b] \in data[ch].tones[b] THEN Cardinality(data[ch].tones[b])
                                 ELSE Cardinality(data[ch].tones[b]) + 1
        BY <2>3, <3>1, FS_AddElement
      <4> QED
        BY <2>3, <4>1, <4>2
    <3>5. PICK m \in Nat : m = data[ch].done[b] /\ m < TonesPerBand
      BY <1>5, <2>1, <2>4, <2>5
    <3>6. Cardinality(data[ch].tones[b]) <= m
      BY <2>2, <2>4, <3>5 DEF Within
    <3>7. d2[b] = m + 1 /\ m + 1 \in Marks
      BY <2>4, <3>1, <3>5 DEF Marks
    <3> HIDE DEF t2, d2, u2
    <3> QED
      BY <2>3, <2>4, <2>5, <3>2, <3>3, <3>4, <3>5, <3>6, <3>7
  <2>6. CASE b \notin seen
    <3>1. t2[b] = data[ch].tones[b] /\ d2[b] = data[ch].done[b] /\ u2[b] = data[ch].union[b]
      BY <2>6
    <3> HIDE DEF t2, d2, u2
    <3>2. t2[b] \in ToneSets /\ d2[b] \in Marks /\ u2[b] \in {<< >>} \cup Spans
      BY <2>1, <3>1 DEF Marks
    <3> QED
      BY <2>2, <2>3, <2>6, <3>1, <3>2 DEF Within
  <2> QED
    BY <2>5, <2>6
<1>8. t2 \in PerBand(ToneSets) /\ d2 \in PerBand(Marks) /\ u2 \in PerBand({<< >>} \cup Spans)
  <2>1. \A b \in Bands : t2[b] \in ToneSets /\ d2[b] \in Marks /\ u2[b] \in {<< >>} \cup Spans
    BY <1>7
  <2>2. ASSUME NEW S, NEW f, f = [b \in Bands |-> f[b]], \A b \in Bands : f[b] \in S
        PROVE  f \in PerBand(S)
    BY <2>2 DEF PerBand
  <2>3. t2 = [b \in Bands |-> t2[b]] /\ d2 = [b \in Bands |-> d2[b]] /\ u2 = [b \in Bands |-> u2[b]]
    OBVIOUS
  <2> HIDE DEF t2, d2, u2
  <2> QED
    BY <2>1, <2>2, <2>3
<1>9. data' = d
  BY <1>4, <1>5
<1> HIDE DEF t2, d2, u2
<1>10. m2 \in ChannelData /\ m2.tones = t2 /\ m2.done = d2 /\ m2.union = u2 /\ m2.refined = data[ch].refined
  BY <1>5, <1>8 DEF ChannelData
<1> HIDE DEF m2
<1>11. d \in [Chans -> ChannelData] /\ d[ch] = m2 /\ \A c \in Chans : c # ch => d[c] = data[c]
  BY <1>5, <1>10
<1> HIDE DEF d
<1>12. \A c \in Chans, b \in Bands :
         /\ Within(d, c, b) /\ ~d[c].refined[b]
         /\ d[c].union[b] # << >> => Closing(d[c].union[b])
         /\ d[c].tones[b] # {} => d[c].union[b] # << >>
  <2> TAKE c \in Chans, b \in Bands
  <2>1. CASE c = ch
    <3>1. ~data[ch].refined[b]
      BY <1>1, <1>5, Extracting
    <3> QED
      BY <1>7, <1>10, <1>11, <2>1, <3>1 DEF Within
  <2>2. CASE c # ch
    <3>1. d[c] = data[c]
      BY <1>11, <2>2
    <3>2. /\ Within(data, c, b) /\ ~data[c].refined[b]
          /\ data[c].union[b] # << >> => Closing(data[c].union[b])
          /\ data[c].tones[b] # {} => data[c].union[b] # << >>
      BY <1>1, Extracting
    <3> QED
      BY <3>1, <3>2 DEF Within
  <2> QED
    BY <2>1, <2>2
<1>13. /\ IsFiniteSet(seen)
       /\ SumOver(Len(input[1]), Amounts(d)) <=
            SumOver(Len(input[1]), Amounts(data)) + Cardinality(seen)
  <2>1. PICK n \in {1, 2} : n = Len(input[1]) /\ Chans = 1 .. n
    BY <1>5, ChansAre
  <2>2. PICK f \in Grids(n), g \in Grids(n) : f = Amounts(data) /\ g = Amounts(d)
    BY <1>5, <1>11, <2>1, AmountsAre
  <2>3. \A c \in 1 .. n : c # ch => g[c] = f[c]
    BY <1>11, <2>1, <2>2 DEF Amounts
  <2>4. \A b \in Bands : g[ch][b] <= f[ch][b] + (IF b \in seen THEN 1 ELSE 0)
    <3>1. \A b \in Bands : g[ch][b] = Cardinality(t2[b]) /\ f[ch][b] = Cardinality(data[ch].tones[b])
      BY <1>5, <1>10, <1>11, <2>2 DEF Amounts
    <3> QED
      BY <1>7, <3>1
  <2>5. n \in Nat /\ ch \in 1 .. n
    BY <1>5, <2>1
  <2>6. IsFiniteSet(seen) /\ SumOver(n, g) <= SumOver(n, f) + Cardinality(seen)
    BY <1>5, <2>2, <2>3, <2>4, <2>5, GridRaised
  <2> QED
    BY <2>1, <2>2, <2>6
<1>14. PICK t \in Nat : t = total + Cardinality(seen) /\ t <= TonesPerFrame
                        /\ SumOver(Len(input[1]), Amounts(d)) <= t
  <2>1. Cardinality(seen) \in Nat
    BY <1>13, FS_CardinalityType
  <2>2. SumOver(Len(input[1]), Amounts(data)) <= total
    BY <1>1, Widening DEF CountInv
  <2>3. /\ SumOver(Len(input[1]), Amounts(data)) \in Nat /\ SumOver(Len(input[1]), Amounts(d)) \in Nat
    <3>1. Len(input[1]) \in Nat
      BY <1>5, ChansAre, SMTT(30)
    <3> QED
      BY <1>5, <1>11, <3>1, AmountsAre, GridNat
  <2>4. total + Cardinality(seen) <= TonesPerFrame
    BY <1>3 DEF ExtractFits
  <2> QED
    BY <1>5, <1>13, <2>1, <2>2, <2>3, <2>4
<1>15. total' = t /\ NextTurn(progress, t)
  BY <1>3, <1>14
<1> QED
  BY <1>1, <1>5, <1>9, <1>11, <1>12, <1>14, <1>15, TurnEnds, SMTT(30)

(* ------------------------------- the frames ---------------------------- *)

LEMMA FillGha == GhaInv /\ Fill => GhaInv'
<1> SUFFICES ASSUME GhaInv, Fill PROVE GhaInv'
  OBVIOUS
<1>1. /\ input' = input /\ frames' = frames /\ strategy' = strategy /\ data' = data /\ total' = total
      /\ progress' = progress /\ stage' = "done" /\ ch' = 1 /\ sb' = 0 /\ stage = "fill"
  BY DEF Fill, Go
<1>2. Chans' = Chans /\ Typed /\ CountInv
  BY <1>1 DEF Chans, GhaInv
<1>3. 1 \in Chans /\ 0 \in Bands
  <2>1. Chans = 1 .. Len(input[1]) /\ Len(input[1]) \in {1, 2}
    BY <1>2, ChansAre
  <2> QED
    BY <2>1, SubbandsAssumption DEF Bands
<1>4. Typed'
  BY <1>1, <1>2, <1>3 DEF Typed
<1>5. CountInv'
  BY <1>1, <1>2, CountSame
<1>6. SearchInv' /\ WideInv' /\ FillInv'
  BY <1>1 DEF SearchInv, WideInv, FillInv
<1> QED
  BY <1>4, <1>5, <1>6 DEF GhaInv

\* A frame that nothing was found in yet.
LEMMA FreshIs ==
  ASSUME NEW n \in Nat, NEW d, d = [c \in 1 .. n |-> Fresh], Chans = 1 .. n, n = Len(input[1])
  PROVE  /\ d \in [Chans -> ChannelData] /\ SumOver(n, Amounts(d)) = 0
         /\ \A c \in Chans, b \in Bands :
              /\ d[c].tones[b] = {} /\ d[c].done[b] = 0 /\ d[c].union[b] = << >> /\ ~d[c].refined[b]
              /\ Within(d, c, b)
<1>1. Done \in Nat /\ TonesPerBand \in Nat
  BY BudgetAssumption DEF Done
<1>2. ASSUME NEW S, NEW f, f = [b \in Bands |-> f[b]], \A b \in Bands : f[b] \in S
      PROVE  f \in PerBand(S)
  BY <1>2 DEF PerBand
<1>3. /\ Fresh.tones \in PerBand(ToneSets) /\ Fresh.done \in PerBand(Marks)
      /\ Fresh.gapless \in PerBand(BOOLEAN)
      /\ Fresh.last \in PerBand(Tones) /\ Fresh.union \in PerBand({<< >>} \cup Spans)
      /\ Fresh.refined \in PerBand(BOOLEAN)
  <2>1. {} \in ToneSets /\ 0 \in Marks /\ 0 \in Tones
    BY <1>1 DEF ToneSets, Marks, Tones
  <2> QED
    BY <2>1 DEF Fresh, PerBand
<1>4. Fresh.env \in PerBand(Spans)
  <2>1. <<InitPoint, InitPoint>> \in Spans /\ <<0, 0>> \in Spans
    BY DEF InitPoint, Spans
  <2> QED
    BY <2>1 DEF Fresh, PerBand
<1>5. Fresh \in ChannelData
  <2>1. Fresh = [tones |-> Fresh.tones, done |-> Fresh.done, env |-> Fresh.env, gapless |-> Fresh.gapless,
                 last |-> Fresh.last, union |-> Fresh.union, refined |-> Fresh.refined]
    BY DEF Fresh
  <2> QED
    BY <1>3, <1>4, <2>1 DEF ChannelData
<1>6. d \in [Chans -> ChannelData]
  BY <1>5
<1>7. \A c \in Chans, b \in Bands :
        /\ d[c].tones[b] = {} /\ d[c].done[b] = 0 /\ d[c].union[b] = << >> /\ ~d[c].refined[b]
  BY DEF Fresh
<1>8. \A c \in Chans, b \in Bands : Within(d, c, b)
  <2> TAKE c \in Chans, b \in Bands
  <2>1. d[c].tones[b] = {} /\ d[c].done[b] = 0
    BY <1>7
  <2>2. Cardinality(d[c].tones[b]) = 0
    BY <2>1, FS_EmptySet
  <2> QED
    BY <1>1, <2>1, <2>2 DEF Within
<1>9. SumOver(n, Amounts(d)) = 0
  <2> DEFINE rows == [c \in 0 .. n - 1 |-> SumTo(Amounts(d)[c + 1], Subbands)]
  <2>1. ASSUME NEW c \in 0 .. n - 1 PROVE rows[c] = 0
    <3>1. c + 1 \in Chans
      OBVIOUS
    <3>2. Subbands \in Nat /\ \A k \in 0 .. Subbands - 1 : k \in Bands
      BY SubbandsAssumption DEF Bands
    <3>3. \A k \in 0 .. Subbands - 1 : Amounts(d)[c + 1][k] = 0
      BY <1>7, <3>1, <3>2, FS_EmptySet DEF Amounts
    <3> QED
      BY <3>2, <3>3, SumZero
  <2> HIDE DEF rows
  <2>2. SumTo(rows, n) = 0
    BY <2>1, SumZero
  <2> QED
    BY <2>2 DEF SumOver, rows
<1> QED
  BY <1>6, <1>7, <1>8, <1>9

LEMMA GhaBegins == GhaInit => GhaInv
<1> SUFFICES ASSUME GhaInit PROVE GhaInv
  OBVIOUS
<1>1. /\ input \in Inputs /\ stage = "done" /\ ch = 1 /\ sb = 0 /\ total = 0 /\ frames = 0
      /\ data = [c \in DOMAIN input[1] |-> Fresh] /\ progress = [c \in DOMAIN input[1] |-> FALSE]
  BY DEF GhaInit
<1>2. PICK n \in {1, 2} : n = Len(input[1])
  BY <1>1, ChannelsAre
<1>3. DOMAIN input[1] = 1 .. n /\ frames \in 0 .. Len(input)
  <2>1. input \in Seq(Seq([Bands -> FrequencySets])) /\ 1 \in 1 .. Len(input)
    BY <1>1, ChannelsAre, FramesAssumption, ZenonT(60) DEF FrequencySets
  <2>2. input[1] \in Seq([Bands -> FrequencySets]) /\ Len(input) \in Nat
    BY <2>1, ElementOfSeq, LenProperties
  <2> QED
    BY <1>1, <1>2, <2>2, LenProperties
<1>4. Chans = 1 .. n
  BY <1>2 DEF Chans
<1>5. /\ data \in [Chans -> ChannelData] /\ SumOver(n, Amounts(data)) = 0
      /\ \A c \in Chans, b \in Bands : Within(data, c, b)
  <2>1. n \in Nat /\ data = [c \in 1 .. n |-> Fresh]
    BY <1>1, <1>3
  <2> QED
    BY <1>2, <1>4, <2>1, FreshIs
<1>6. Typed
  <2>1. 1 \in Chans /\ 0 \in Bands
    BY <1>4, SubbandsAssumption DEF Bands
  <2> QED
    BY <1>1, <1>3, <1>4, <1>5, <2>1 DEF Typed
<1>7. CountInv
  BY <1>1, <1>2, <1>5, BudgetAssumption DEF CountInv
<1>8. SearchInv /\ WideInv /\ FillInv
  BY <1>1 DEF SearchInv, WideInv, FillInv
<1> QED
  BY <1>6, <1>7, <1>8 DEF GhaInv

LEMMA BeginFrameGha == GhaInv /\ BeginFrame => GhaInv'
<1> SUFFICES ASSUME GhaInv, BeginFrame PROVE GhaInv'
  OBVIOUS
<1>1. /\ frames < Len(input) /\ frames' = frames + 1 /\ data' = [c \in DOMAIN data |-> Fresh]
      /\ progress' = [c \in DOMAIN data |-> strategy # "legacy"] /\ total' = 0
      /\ stage' = (IF strategy = "legacy" THEN "refit" ELSE "extract") /\ ch' = 1 /\ sb' = 0
      /\ strategy' = strategy /\ input' = input
  BY DEF BeginFrame, Go
<1>2. Typed /\ Chans' = Chans
  BY <1>1 DEF GhaInv, Chans
<1>3. PICK n \in {1, 2} : n = Len(input[1]) /\ Chans = 1 .. n /\ DOMAIN data = 1 .. n
  BY <1>2, ChansAre
<1>4. PICK d : d = data'
  OBVIOUS
<1>5. /\ d \in [Chans -> ChannelData] /\ SumOver(n, Amounts(d)) = 0
      /\ \A c \in Chans, b \in Bands :
           /\ d[c].tones[b] = {} /\ d[c].done[b] = 0 /\ d[c].union[b] = << >> /\ ~d[c].refined[b]
           /\ Within(d, c, b)
  <2>1. n \in Nat /\ d = [c \in 1 .. n |-> Fresh]
    BY <1>1, <1>3, <1>4
  <2> QED
    BY <1>3, <2>1, FreshIs
<1>6. input \in Inputs /\ frames' \in 1 .. Len(input)
  <2>1. input \in Inputs /\ frames \in 0 .. Len(input)
    BY <1>2 DEF Typed
  <2>2. input \in Seq(Seq([Bands -> FrequencySets]))
    BY <2>1, FramesAssumption DEF FrequencySets
  <2>3. Len(input) \in Nat
    BY <2>2, LenProperties
  <2> QED
    BY <1>1, <2>1, <2>3
<1>7. 1 \in Chans /\ 0 \in Bands /\ progress' \in [Chans -> BOOLEAN]
  BY <1>1, <1>3, SubbandsAssumption, SMTT(30) DEF Bands
<1>8. Typed'
  BY <1>1, <1>2, <1>4, <1>5, <1>6, <1>7 DEF Typed
<1>9. CountInv'
  <2>1. 0 <= TonesPerFrame
    BY BudgetAssumption
  <2> QED
    BY <1>1, <1>2, <1>3, <1>4, <1>5, <2>1, CountKept
<1>10. SearchInv'
  <2> DEFINE snd == Sound'
  <2>1. Done \in Nat /\ TonesPerBand \in Nat /\ Done > 0
    BY BudgetAssumption DEF Done
  <2>2. \A c \in Chans, b \in Bands : Searched(d, snd, c, b, FALSE)
    BY <1>5, <2>1 DEF Searched
  <2>3. Spent(d, snd, 0)
    <3>1. Cost(d, snd) \in Grids(n)
      <4>1. \A c \in 1 .. n, b \in Bands : Cost(d, snd)[c][b] = 0
        BY <1>3, <1>5 DEF Cost
      <4>2. Cost(d, snd) = [c \in 1 .. n |-> [b \in Bands |-> Cost(d, snd)[c][b]]]
        BY <1>3 DEF Cost
      <4> QED
        BY <4>1, <4>2 DEF Grids
    <3>2. SumOver(n, Cost(d, snd)) \in Nat
      BY <3>1, GridNat
    <3> QED
      BY <1>3, <3>2 DEF Spent
  <2>4. Rounds(d, progress', 1, 0)
    <3>1. \A c \in Chans, b \in Bands : ~Before(c, b, 1, 0)
      BY <1>3, SubbandsAssumption DEF Before, Bands
    <3>2. InRound(d, 0, 1, 0) /\ Rests(d, progress', 1, 0)
      BY <1>5, <3>1 DEF InRound, Rests
    <3> QED
      BY <3>2 DEF Rounds
  <2> HIDE DEF snd
  <2>5. stage' # "look"
    BY <1>1
  <2>6. \A c \in Chans, b \in Bands :
          Searched(d, snd, c, b, stage' = "look" /\ c = ch' /\ b = sb')
    BY <2>2, <2>5 DEF Searched
  <2>7. AllSearched' /\ Spent(data, Sound, total)'
    <3>1. AllSearched'
      BY <1>2, <1>4, <2>6 DEF AllSearched, Searched, snd
    <3>2. Spent(data, Sound, total)'
      BY <1>1, <1>2, <1>4, <2>3 DEF Spent, Cost, Begun, snd
    <3> QED
      BY <3>1, <3>2
  <2>8. Rounds(data, progress, ch, sb)'
    BY <1>1, <1>2, <1>4, <2>4 DEF Rounds, InRound, Rests
  <2> QED
    BY <2>5, <2>7, <2>8 DEF SearchInv
<1>11. WideInv'
  <2>1. \A c \in Chans, b \in Bands : Extracted(d, c, b, "extract", 1, 0)
    BY <1>5 DEF Extracted
  <2> QED
    BY <1>1, <1>2, <1>4, <2>1 DEF WideInv, Extracted
<1>12. FillInv'
  BY <1>1 DEF FillInv
<1> QED
  BY <1>8, <1>9, <1>10, <1>11, <1>12 DEF GhaInv

LEMMA GhaStep == GhaInv /\ [GhaNext]_ghaVars => GhaInv'
<1> SUFFICES ASSUME GhaInv, [GhaNext]_ghaVars PROVE GhaInv'
  OBVIOUS
<1>1. CASE BeginFrame
  BY <1>1, BeginFrameGha
<1>2. CASE SkipDone
  BY <1>2, SkipDoneGha
<1>3. CASE UsedUp
  BY <1>3, UsedUpGha
<1>4. CASE NothingToRefit
  BY <1>4, NothingToRefitGha
<1>5. CASE Refit
  BY <1>5, RefitGha
<1>6. CASE Rollback
  BY <1>6, RollbackGha
<1>7. CASE LookInVain
  BY <1>7, LookInVainGha
<1>8. CASE AddTone
  BY <1>8, AddToneGha
<1>9. CASE ExtractNone
  BY <1>9, ExtractNoneGha
<1>10. CASE ExtractOne
  BY <1>10, ExtractOneGha
<1>11. CASE RefineBand
  BY <1>11, RefineBandGha
<1>12. CASE RefineRaw
  BY <1>12, RefineRawGha
<1>13. CASE RefineNothing
  BY <1>13, RefineNothingGha
<1>14. CASE Commit
  BY <1>14, CommitGha
<1>15. CASE Fill
  BY <1>15, FillGha
<1>16. CASE UNCHANGED ghaVars
  <2>1. /\ strategy' = strategy /\ input' = input /\ stage' = stage /\ ch' = ch /\ sb' = sb
        /\ data' = data /\ total' = total /\ progress' = progress /\ frames' = frames
    BY <1>16 DEF ghaVars
  <2>2. Typed /\ CountInv /\ SearchInv /\ WideInv /\ FillInv
    BY DEF GhaInv
  <2>3. Chans' = Chans /\ Sound' = Sound
    BY <2>1 DEF Chans, Sound
  <2>4. Typed'
    BY <2>1, <2>2, <2>3 DEF Typed
  <2>5. CountInv'
    BY <2>1, <2>2, CountSame
  <2>6. SearchInv'
    BY <2>1, <2>2, <2>3 DEF SearchInv, AllSearched, Searched, Spent, Begun, Cost, Rounds, InRound, Rests
  <2>7. WideInv'
    BY <2>1, <2>2, <2>3 DEF WideInv, Extracted
  <2>8. FillInv'
    BY <2>1, <2>2, <2>3 DEF FillInv, Enveloped
  <2> QED
    BY <2>4, <2>5, <2>6, <2>7, <2>8 DEF GhaInv
<1> QED
  BY <1>1, <1>2, <1>3, <1>4, <1>5, <1>6, <1>7, <1>8, <1>9, <1>10, <1>11, <1>12, <1>13, <1>14, <1>15,
     <1>16 DEF GhaNext, Analysis

\* In every frame, with every strategy and whatever fits take back, the count covers
\* the tones of both channels and does not pass the budget, no band has more tones
\* than it may have, the legacy strategy goes through the bands in rounds, in which
\* one that has a tone has an envelope as soon as the tone is fitted, and a band of
\* the wideband one has its windows' union to fall back on.
THEOREM ToneSearchInvariance == GhaSpec => []GhaInv
<1>1. GhaInit => GhaInv
  BY GhaBegins
<1>2. GhaInv /\ [GhaNext]_ghaVars => GhaInv'
  BY GhaStep
<1> QED
  BY <1>1, <1>2, PTL DEF GhaSpec

\* When the search ends, the tones of both channels are no more than the count, the
\* count no more than the budget that ApplyFilter has room for, each band's number
\* is one that four bits hold, and no band with tones lacks an envelope, on which
\* AdjustEnvelope would abort.
THEOREM TonesFitTheBudget == GhaSpec => []TonesFit
<1>1. GhaInv => TonesFit
  <2> SUFFICES ASSUME GhaInv, stage = "fill"
               PROVE  /\ SumOver(Len(data), Found) <= total /\ total <= TonesPerFrame
                      /\ \A c \in DOMAIN data : \A b \in Bands : data[c].tones[b] # {} =>
                           Cardinality(data[c].tones[b]) <= TonesPerBand /\ ~Aborts(data[c].env[b])
    BY DEF TonesFit
  <2>1. Typed /\ CountInv /\ Enveloped(data)
    BY DEF GhaInv, FillInv
  <2>2. Len(data) = Len(input[1]) /\ DOMAIN data = Chans
    BY <2>1, ChansAre
  <2>3. Found = Amounts(data)
    BY <2>2 DEF Found, Amounts
  <2>4. SumOver(Len(data), Found) <= total /\ total <= TonesPerFrame
    BY <2>1, <2>2, <2>3 DEF CountInv
  <2>5. \A c \in Chans, b \in Bands : Cardinality(data[c].tones[b]) <= TonesPerBand
    BY <2>1 DEF CountInv, Within
  <2> QED
    BY <2>1, <2>2, <2>4, <2>5 DEF Enveloped
<1> QED
  BY <1>1, ToneSearchInvariance, PTL

(***************************************************************************)
(* At3pTones: indices packed and read                                      *)
(***************************************************************************)
LEMMA PowersAre ==
  /\ Pow2[0] = 1 /\ Pow2[1] = 2 /\ Pow2[2] = 4 /\ Pow2[3] = 8 /\ Pow2[4] = 16 /\ Pow2[5] = 32
  /\ Pow2[6] = 64 /\ Pow2[7] = 128 /\ Pow2[8] = 256 /\ Pow2[9] = 512 /\ Pow2[10] = 1024
BY DEF Pow2

LEMMA PowersNat == \A b \in 0 .. 10 : Pow2[b] \in Nat
<1> TAKE b \in 0 .. 10
<1>1. b \in {0, 1, 2, 3, 4, 5, 6, 7, 8, 9, 10}
  OBVIOUS
<1> QED
  BY <1>1, PowersAre

\* GetFirstSetBit is the place of the highest bit: no more bits are needed.
LEMMA FirstBitIs ==
  ASSUME NEW x, x \in Tones
  PROVE  /\ GetFirstSetBit(x) \in 0 .. 9 /\ x < Pow2[GetFirstSetBit(x) + 1]
         /\ x <= 511 => GetFirstSetBit(x) \in 0 .. 8
<1> DEFINE S == {b \in 0 .. MaxBits : Pow2[b] <= x} \cup {0}
           g == Max(S)
<1>0. x \in 0 .. 1023
  BY DEF Tones
<1>1. 10 \in Int /\ S # {} /\ \A b \in S : b \in 0 .. 10 /\ b \in Int /\ b <= 10 /\ (b = 0 \/ Pow2[b] <= x)
  BY DEF MaxBits
<1>2. g \in S /\ \A b \in S : g >= b
  <2> HIDE DEF S
  <2> QED
    BY <1>1, MaxIs
<1>3. g \in 0 .. 10 /\ (g = 0 \/ Pow2[g] <= x)
  BY <1>1, <1>2
<1>4. g # 10
  <2>1. ~(Pow2[10] <= x)
    BY <1>0, PowersAre
  <2> QED
    BY <1>3, <2>1
<1>5. x <= 511 => g # 9
  <2>1. x <= 511 => ~(Pow2[9] <= x)
    BY <1>0, PowersAre
  <2> QED
    BY <1>3, <2>1
<1>6. ~(Pow2[g + 1] <= x)
  <2>1. g + 1 \in 0 .. MaxBits /\ ~(g >= g + 1)
    BY <1>3, <1>4 DEF MaxBits
  <2>2. Pow2[g + 1] <= x => g + 1 \in S
    BY <2>1
  <2> HIDE DEF g, S
  <2> QED
    BY <1>2, <2>1, <2>2
<1>7. GetFirstSetBit(x) = g
  BY DEF GetFirstSetBit
<1> HIDE DEF g
<1>8. g \in 0 .. 9 /\ (x <= 511 => g \in 0 .. 8)
  BY <1>3, <1>4, <1>5
<1>9. Pow2[g + 1] \in Nat
  <2>1. g + 1 \in 0 .. 10
    BY <1>8
  <2> QED
    BY <2>1, PowersNat
<1> QED
  BY <1>0, <1>6, <1>7, <1>8, <1>9

\* A value that fits its field is not changed by it.
LEMMA FieldIs ==
  ASSUME NEW b \in 0 .. 10, NEW v \in Nat, v < Pow2[b]
  PROVE  Field(v, b) = v
<1>1. PICK p \in Nat : p = Pow2[b] /\ v < p
  BY PowersNat
<1>2. v % p = v
  BY <1>1
<1> QED
  BY <1>1, <1>2 DEF Field

\* What ReadFreqs reads, when every index follows from the one before it.
Width(pack, prev) == IF pack.Desc THEN DescWidth(prev) ELSE AscWidth(prev)
Value(pack, e, prev) ==
  IF e.Bits # Width(pack, prev) THEN -1
  ELSE Field(e.Code, e.Bits) + (IF pack.Desc \/ e.Bits = MaxBits THEN 0 ELSE 1024 - Pow2[e.Bits])
LEMMA ReadsAs ==
  ASSUME NEW pack, NEW s \in Seq(Tones), NEW n \in Nat \ {0}, Len(s) = n, DOMAIN pack.Data = 1 .. n,
         Field(pack.Data[1].Code, MaxBits) = s[1],
         \A j \in 2 .. n : Value(pack, pack.Data[j], s[j - 1]) = s[j]
  PROVE  ReadFreqs(pack) = IF pack.Desc THEN Reverse(s) ELSE s
<1> DEFINE D == 1 .. n
           Reads(g) == g = [j \in D |-> IF j = 1 THEN Field(pack.Data[1].Code, MaxBits)
                                        ELSE Value(pack, pack.Data[j], g[j - 1])]
           read == CHOOSE g : Reads(g)
<1>1. s = [j \in D |-> s[j]]
  OBVIOUS
<1>2. Reads(s)
  <2>1. \A j \in D : s[j] = IF j = 1 THEN Field(pack.Data[1].Code, MaxBits)
                            ELSE Value(pack, pack.Data[j], s[j - 1])
    <3> TAKE j \in D
    <3>1. CASE j = 1
      BY <3>1
    <3>2. CASE j # 1
      <4>1. j \in 2 .. n
        BY <3>2
      <4> QED
        BY <3>2, <4>1
    <3> QED
      BY <3>1, <3>2
  <2> QED
    BY <1>1, <2>1
<1>3. Reads(read)
  BY <1>2
<1> HIDE DEF read
<1>4. read = [j \in D |-> read[j]]
  BY <1>3
<1>5. read = s
  <2> DEFINE T == {m \in Nat : m + 1 <= n => read[m + 1] = s[m + 1]}
  <2>1. 0 \in T
    <3>1. 1 \in D /\ 0 + 1 = 1
      OBVIOUS
    <3>2. read[1] = Field(pack.Data[1].Code, MaxBits)
      BY <1>3, <3>1
    <3> QED
      BY <3>1, <3>2
  <2>2. ASSUME NEW m \in T PROVE m + 1 \in T
    <3>1. m \in Nat /\ m + 1 \in Nat
      OBVIOUS
    <3> SUFFICES ASSUME (m + 1) + 1 <= n PROVE read[(m + 1) + 1] = s[(m + 1) + 1]
      BY <3>1
    <3>2. PICK j \in 2 .. n : j = (m + 1) + 1 /\ j - 1 = m + 1 /\ j \in D /\ j # 1 /\ m + 1 <= n
      BY <3>1
    <3>3. read[j - 1] = s[j - 1]
      BY <3>1, <3>2
    <3>4. read[j] = Value(pack, pack.Data[j], read[j - 1])
      BY <1>3, <3>2
    <3>5. Value(pack, pack.Data[j], s[j - 1]) = s[j]
      BY <3>2
    <3> QED
      BY <3>2, <3>3, <3>4, <3>5
  <2> HIDE DEF T
  <2>3. T \in SUBSET Nat
    BY DEF T
  <2>4. T = Nat
    BY <2>1, <2>2, <2>3, SetInduction
  <2>5. ASSUME NEW j \in D PROVE read[j] = s[j]
    <3>1. j - 1 \in Nat /\ (j - 1) + 1 = j /\ j <= n
      OBVIOUS
    <3>2. j - 1 \in T
      BY <2>4, <3>1
    <3>3. read[(j - 1) + 1] = s[(j - 1) + 1]
      BY <3>1, <3>2 DEF T
    <3> QED
      BY <3>1, <3>3
  <2> QED
    BY <1>1, <1>4, <2>5
<1>6. ReadFreqs(pack) = IF pack.Desc THEN Reverse(read) ELSE read
  BY DEF ReadFreqs, Width, Value, read
<1> QED
  BY <1>5, <1>6

\* Indices in order.
Rising(s)  == \A j \in 2 .. Len(s) : s[j - 1] < s[j]

LEMMA AscReads ==
  ASSUME NEW s \in Seq(Tones), s # << >>, Rising(s)
  PROVE  ReadFreqs([Data |-> AscPack(s), Desc |-> FALSE]) = s
<1> DEFINE pack == [Data |-> AscPack(s), Desc |-> FALSE]
<1>1. PICK n \in Nat \ {0} : n = Len(s)
  <2>1. Len(s) \in Nat /\ Len(s) # 0
    BY LenProperties, EmptySeq
  <2> QED
    BY <2>1
<1>2. DOMAIN s = 1 .. n /\ \A j \in 1 .. n : s[j] \in Tones
  BY <1>1, LenProperties, ElementOfSeq
<1>3. /\ pack.Data = AscPack(s) /\ ~pack.Desc /\ DOMAIN AscPack(s) = 1 .. n
  BY <1>2 DEF AscPack
<1>4. \A v \in Tones : v \in 0 .. 1023 /\ v \in Nat /\ v < Pow2[10] /\ Field(v, 10) = v
  <2> TAKE v \in Tones
  <2>1. v \in 0 .. 1023 /\ v \in Nat /\ v < Pow2[10]
    BY PowersAre DEF Tones
  <2>2. 10 \in 0 .. 10
    OBVIOUS
  <2> QED
    BY <2>1, <2>2, FieldIs
<1>5. Field(AscPack(s)[1].Code, MaxBits) = s[1]
  <2>1. AscPack(s)[1].Code = s[1] /\ s[1] \in Tones
    BY <1>2 DEF AscPack
  <2> QED
    BY <1>4, <2>1 DEF MaxBits
<1>6. ASSUME NEW j \in 2 .. n PROVE Value(pack, pack.Data[j], s[j - 1]) = s[j]
  <2>1. PICK x \in Tones, p \in Tones : x = s[j] /\ p = s[j - 1] /\ p < x
    <3>1. j \in 1 .. n /\ j - 1 \in 1 .. n /\ j \in 2 .. Len(s)
      BY <1>1
    <3>2. s[j] \in Tones /\ s[j - 1] \in Tones
      BY <1>2, <3>1
    <3>3. s[j - 1] < s[j]
      BY <3>1 DEF Rising
    <3> QED
      BY <3>2, <3>3
  <2>2. j \in 1 .. n /\ j # 1
    OBVIOUS
  <2>5. x \in 0 .. 1023 /\ p \in 0 .. 1023
    BY DEF Tones
  <2>3. CASE p < 512
    <3>1. AscPack(s)[j] = [Code |-> x, Bits |-> MaxBits]
      BY <1>2, <2>1, <2>2, <2>3 DEF AscPack
    <3>2. AscWidth(p) = MaxBits
      BY <2>3 DEF AscWidth
    <3>3. Field(x, MaxBits) = x
      BY <1>4, <2>1 DEF MaxBits
    <3>4. Value(pack, [Code |-> x, Bits |-> MaxBits], p) = x + 0
      BY <1>3, <3>2, <3>3 DEF Value, Width
    <3>5. x + 0 = x
      BY <2>5
    <3> HIDE DEF pack
    <3> QED
      BY <1>3, <2>1, <3>1, <3>4, <3>5
  <2>4. CASE ~(p < 512)
    <3>1. PICK b : b = AscWidth(p)
      OBVIOUS
    <3>2. b = GetFirstSetBit(1023 - p) + 1
      BY <2>4, <3>1 DEF AscWidth
    <3>3. 1023 - p \in 0 .. 1023 /\ 1023 - p <= 511
      BY <2>4, <2>5
    <3>4. b \in 1 .. 9 /\ 1023 - p < Pow2[b]
      <4>0. PICK y : y = 1023 - p
        OBVIOUS
      <4>1. y \in 0 .. 1023 /\ y <= 511 /\ y = 1023 - p
        BY <3>3, <4>0
      <4>2. GetFirstSetBit(y) \in 0 .. 8 /\ y < Pow2[GetFirstSetBit(y) + 1]
        <5>1. y \in Tones
          BY <4>1 DEF Tones
        <5>2. y < Pow2[GetFirstSetBit(y) + 1] /\ (y <= 511 => GetFirstSetBit(y) \in 0 .. 8)
          BY <5>1, FirstBitIs
        <5> QED
          BY <4>1, <5>2
      <4>3. b = GetFirstSetBit(y) + 1
        BY <3>2, <4>1
      <4> QED
        BY <4>1, <4>2, <4>3
    <3>5. PICK q \in Nat : q = Pow2[b] /\ 1023 - p < q
      <4>1. b \in 0 .. 10
        BY <3>4
      <4> QED
        BY <3>4, <4>1, PowersNat
    <3>6. AscPack(s)[j] = [Code |-> x - (1024 - q), Bits |-> b]
      <4>1. AscPack(s)[j] = IF j = 1 \/ s[j - 1] < 512 THEN [Code |-> s[j], Bits |-> MaxBits]
                            ELSE [Code |-> s[j] - (1024 - Pow2[AscWidth(s[j - 1])]),
                                  Bits |-> AscWidth(s[j - 1])]
        BY <1>2, <2>2 DEF AscPack
      <4> QED
        BY <2>1, <2>2, <2>4, <3>1, <3>5, <4>1
    <3>7. x - (1024 - q) \in Nat /\ x - (1024 - q) < q
      <4>1. x \in Int
        BY <2>5
      <4>2. p \in Int
        BY <2>5
      <4>3. q \in Int
        OBVIOUS
      <4>4. p < x
        BY <2>1
      <4>5. x <= 1023
        BY <2>5
      <4>6. 1023 - p < q
        BY <3>5
      <4> HIDE DEF pack
      <4> QED
        BY <4>1, <4>2, <4>3, <4>4, <4>5, <4>6
    <3>8. Field(x - (1024 - q), b) = x - (1024 - q)
      BY <3>4, <3>5, <3>7, FieldIs, SMTT(30)
    <3>9. b # MaxBits
      BY <3>4 DEF MaxBits
    <3>10. Value(pack, [Code |-> x - (1024 - q), Bits |-> b], p) = x - (1024 - q) + (1024 - q)
      <4> DEFINE e == [Code |-> x - (1024 - q), Bits |-> b]
      <4>1. e.Code = x - (1024 - q) /\ e.Bits = b
        OBVIOUS
      <4>2. Width(pack, p) = b
        BY <1>3, <3>1 DEF Width
      <4> HIDE DEF e
      <4>3. Value(pack, e, p) = Field(e.Code, e.Bits) + (1024 - Pow2[e.Bits])
        BY <1>3, <3>9, <4>1, <4>2 DEF Value
      <4>4. Value(pack, e, p) = x - (1024 - q) + (1024 - q)
        BY <3>5, <3>8, <4>1, <4>3
      <4> QED
        BY <4>4 DEF e
    <3>11. x - (1024 - q) + (1024 - q) = x
      BY <2>5, <3>5
    <3> HIDE DEF pack
    <3> QED
      BY <1>3, <2>1, <3>6, <3>10, <3>11
  <2> QED
    BY <2>3, <2>4
<1> HIDE DEF pack
<1>7. ReadFreqs(pack) = IF pack.Desc THEN Reverse(s) ELSE s
  BY <1>1, <1>3, <1>5, <1>6, ReadsAs
<1> QED
  BY <1>3, <1>7 DEF pack

LEMMA ReverseIs ==
  ASSUME NEW S, NEW s \in Seq(S)
  PROVE  /\ Reverse(s) \in Seq(S) /\ Len(Reverse(s)) = Len(s)
         /\ \A j \in 1 .. Len(s) : Reverse(s)[j] = s[Len(s) - j + 1]
         /\ Reverse(Reverse(s)) = s
<1>1. PICK n \in Nat : n = Len(s)
  BY LenProperties
<1>2. s \in [1 .. n -> S]
  BY <1>1, LenProperties, ElementOfSeq
<1> DEFINE r == [j \in 1 .. n |-> s[(n - j) + 1]]
<1>3. Reverse(s) = r
  BY <1>1 DEF Reverse
<1>4. \A j \in 1 .. n : (n - j) + 1 \in 1 .. n /\ (n - ((n - j) + 1)) + 1 = j
  BY <1>1
<1>5. r \in [1 .. n -> S]
  BY <1>2, <1>4
<1>6. r \in Seq(S) /\ Len(r) = n
  BY <1>5, SequenceOf
<1>7. Reverse(r) = [j \in 1 .. n |-> r[(n - j) + 1]]
  BY <1>6 DEF Reverse
<1>8. \A j \in 1 .. n : r[(n - j) + 1] = s[j]
  BY <1>4
<1>9. Reverse(r) = s
  BY <1>2, <1>7, <1>8
<1>10. \A j \in 1 .. n : r[j] = s[n - j + 1]
  OBVIOUS
<1> HIDE DEF r
<1> QED
  BY <1>1, <1>3, <1>6, <1>9, <1>10

LEMMA DescReads ==
  ASSUME NEW s \in Seq(Tones), s # << >>, Rising(s)
  PROVE  ReadFreqs([Data |-> DescPack(s), Desc |-> TRUE]) = s
<1> DEFINE pack == [Data |-> DescPack(s), Desc |-> TRUE]
<1>1. PICK n \in Nat \ {0} : n = Len(s)
  <2>1. Len(s) \in Nat /\ Len(s) # 0
    BY LenProperties, EmptySeq
  <2> QED
    BY <2>1
<1>2. PICK d \in Seq(Tones) : /\ d = Reverse(s) /\ Len(d) = n /\ Reverse(d) = s
                              /\ \A j \in 1 .. n : d[j] = s[n - j + 1]
  BY <1>1, ReverseIs
<1>3. DOMAIN d = 1 .. n /\ \A j \in 1 .. n : d[j] \in Tones
  BY <1>1, <1>2, LenProperties, ElementOfSeq
<1>4. ASSUME NEW j \in 2 .. n PROVE d[j] < d[j - 1]
  <2>1. j \in 1 .. n /\ j - 1 \in 1 .. n /\ n - j + 2 \in 2 .. n /\ (n - j + 2) - 1 = n - j + 1
        /\ n - (j - 1) + 1 = n - j + 2
    BY <1>1
  <2>2. s[n - j + 1] < s[n - j + 2]
    BY <1>1, <2>1 DEF Rising
  <2> QED
    BY <1>2, <2>1, <2>2
<1>5. pack.Data = DescPack(s) /\ pack.Desc /\ DOMAIN DescPack(s) = 1 .. n
  BY <1>2, <1>3 DEF DescPack
<1>6. \A j \in 1 .. n :
        DescPack(s)[j] = [Code |-> d[j], Bits |-> IF j = 1 THEN MaxBits ELSE DescWidth(d[j - 1])]
  BY <1>2, <1>3 DEF DescPack
<1>7. Field(DescPack(s)[1].Code, MaxBits) = d[1]
  <2>1. DescPack(s)[1].Code = d[1] /\ d[1] \in Tones
    <3>1. 1 \in 1 .. n
      OBVIOUS
    <3>2. DescPack(s)[1] = [Code |-> d[1], Bits |-> MaxBits]
      BY <1>6, <3>1
    <3> QED
      BY <1>3, <3>1, <3>2
  <2>2. PICK v : v = d[1]
    OBVIOUS
  <2>3. v \in Nat /\ v < Pow2[10] /\ 10 \in 0 .. 10
    <3>1. v \in 0 .. 1023
      BY <2>1, <2>2 DEF Tones
    <3> QED
      BY <3>1, PowersAre
  <2>4. Field(v, 10) = v
    BY <2>3, FieldIs
  <2> QED
    BY <2>1, <2>2, <2>4 DEF MaxBits
<1>8. ASSUME NEW j \in 2 .. n PROVE Value(pack, pack.Data[j], d[j - 1]) = d[j]
  <2>1. PICK x \in Tones, p \in Tones : x = d[j] /\ p = d[j - 1] /\ x < p
    <3>1. j \in 1 .. n /\ j - 1 \in 1 .. n
      BY <1>1
    <3>2. d[j] \in Tones /\ d[j - 1] \in Tones
      BY <1>3, <3>1
    <3>4. d[j] < d[j - 1]
      BY <1>4
    <3> QED
      BY <3>2, <3>4
  <2>9. x \in 0 .. 1023 /\ p \in 0 .. 1023
    BY DEF Tones
  <2>2. PICK b : b = DescWidth(p)
    OBVIOUS
  <2>3. b \in 1 .. 10 /\ p < Pow2[b]
    <3>1. PICK g : g = GetFirstSetBit(p)
      OBVIOUS
    <3>2. g \in 0 .. 9 /\ p < Pow2[g + 1]
      BY <3>1, FirstBitIs
    <3> QED
      BY <2>2, <3>1, <3>2 DEF DescWidth
  <2>4. x < Pow2[b] /\ b \in 0 .. 10 /\ x \in Nat
    <3>1. b \in 0 .. 10
      BY <2>3
    <3>2. PICK q \in Nat : q = Pow2[b]
      BY <3>1, PowersNat
    <3>3. x < q
      <4>1. x \in Int /\ p \in Int /\ q \in Int /\ x < p /\ p < q
        BY <2>1, <2>3, <2>9, <3>2
      <4> HIDE DEF pack
      <4> QED
        BY <4>1
    <3> QED
      BY <2>9, <3>1, <3>2, <3>3
  <2>5. Field(x, b) = x
    BY <2>4, FieldIs
  <2>6. DescPack(s)[j] = [Code |-> x, Bits |-> b]
    <3>1. j \in 1 .. n /\ j # 1
      OBVIOUS
    <3> QED
      BY <1>6, <2>1, <2>2, <3>1
  <2>7. Value(pack, [Code |-> x, Bits |-> b], p) = x + 0
    <3> DEFINE e == [Code |-> x, Bits |-> b]
    <3>1. e.Code = x /\ e.Bits = b /\ Width(pack, p) = b
      BY <1>5, <2>2 DEF Width
    <3> HIDE DEF e
    <3>2. Value(pack, e, p) = x + 0
      BY <1>5, <2>5, <3>1 DEF Value
    <3> QED
      BY <3>2 DEF e
  <2>8. x + 0 = x
    BY <2>9
  <2> HIDE DEF pack
  <2> QED
    BY <1>5, <2>1, <2>6, <2>7, <2>8
<1> HIDE DEF pack
<1>9. ReadFreqs(pack) = IF pack.Desc THEN Reverse(d) ELSE d
  BY <1>1, <1>2, <1>5, <1>7, <1>8, ReadsAs
<1> QED
  BY <1>2, <1>5, <1>9 DEF pack

\* A reader that follows the widths reads the indices that were packed, in
\* either order and with whichever the writer chose.
THEOREM PackReads ==
  ASSUME NEW s \in Seq(Tones), s # << >>, Rising(s)
  PROVE  ReadFreqs(CreateFreqBitPack(s)) = s
BY AscReads, DescReads DEF CreateFreqBitPack

(***************************************************************************)
(* At3pTones: what AddBands lays out                                       *)
(***************************************************************************)
\* An envelope that AdjustEnvelope does not abort on has points of five bits.
StartsWell(e) == e[1] \in 0 .. 127
LEMMA PointsKept ==
  ASSUME NEW e \in Spans, StartsWell(e), ~Aborts(e), NEW stop, NEW a, a = AdjustEnvelope(e, stop)
  PROVE  <<Point(a[1]), Point(a[2])>> = a
<1>1. PICK x \in Int, y \in Int : e = <<x, y>>
  BY DEF Spans
<1>2. x \in 0 .. 127 /\ (y = EmptyPoint \/ y \in 1 .. 128)
  BY <1>1 DEF StartsWell, Aborts, FrameSamples
<1>3. \A p \in 0 .. 31 : Point(p) = p
  <2> TAKE p \in 0 .. 31
  <2>1. p \in Nat /\ p < Pow2[5] /\ 5 \in 0 .. 10 /\ p # EmptyPoint
    BY PowersAre DEF EmptyPoint
  <2>2. Field(p, 5) = p
    BY <2>1, FieldIs
  <2> QED
    BY <2>1, <2>2 DEF Point
<1>4. PICK u, v : u = (IF x = 0 /\ stop = EmptyPoint THEN EmptyPoint ELSE x \div 4)
                  /\ v = (IF y = EmptyPoint THEN EmptyPoint ELSE (y - 1) \div 4)
  OBVIOUS
<1>5. a = <<u, v>>
  BY <1>1, <1>4 DEF AdjustEnvelope
<1>6. x \div 4 \in 0 .. 31
  BY <1>2
<1>7. y \in 1 .. 128 => (y - 1) \div 4 \in 0 .. 31
  OBVIOUS
<1>8. Point(EmptyPoint) = EmptyPoint
  BY DEF Point
<1>9. Point(u) = u
  BY <1>3, <1>4, <1>6, <1>8
<1>10. Point(v) = v
  BY <1>2, <1>3, <1>4, <1>7, <1>8
<1> QED
  BY <1>5, <1>9, <1>10

Waves == [FreqIndex : Tones, of : {1, 2}]
InOrder(g) == \A j \in 2 .. Len(g) : g[j - 1].FreqIndex < g[j].FreqIndex
Heard(g)   == {w.FreqIndex : w \in Range(g)}

\* The tones of a band as waves: in order, all of them, of their channel.
LEMMA WavesAre ==
  ASSUME NEW S \in ToneSets, NEW c \in {1, 2}, NEW g, g = WavesOf(S, c)
  PROVE  /\ g \in Seq(Waves) /\ Len(g) = Cardinality(S) /\ InOrder(g)
         /\ Heard(g) = S /\ \A w \in Range(g) : w.of = c
         /\ g = << >> <=> S = {}
<1>1. PICK n \in Nat : n = Cardinality(S) /\ IsFiniteSet(S)
  BY TonesFinite
<1>2. S \in SUBSET Nat /\ S \in SUBSET Tones
  BY DEF ToneSets, Tones
<1>3. /\ \A k \in 1 .. n : Nth(S, k) \in S /\ Nth(S, k) \in Tones
      /\ \A k, m \in 1 .. n : k < m => Nth(S, k) < Nth(S, m)
      /\ \A x \in S : \E k \in 1 .. n : Nth(S, k) = x
  BY <1>1, <1>2, NthIs
<1>4. g = [k \in 1 .. n |-> [FreqIndex |-> Nth(S, k), of |-> c]]
  BY <1>1 DEF WavesOf
<1>5. \A k \in 1 .. n : /\ g[k] \in Waves /\ g[k].FreqIndex = Nth(S, k) /\ g[k].of = c
  BY <1>3, <1>4 DEF Waves
<1>6. g \in [1 .. n -> Waves]
  BY <1>4, <1>5
<1>7. g \in Seq(Waves) /\ Len(g) = n /\ DOMAIN g = 1 .. n
  BY <1>6, SequenceOf
<1>8. InOrder(g)
  <2> SUFFICES ASSUME NEW j \in 2 .. n PROVE g[j - 1].FreqIndex < g[j].FreqIndex
    BY <1>7 DEF InOrder
  <2>1. j \in 1 .. n /\ j - 1 \in 1 .. n /\ j - 1 < j
    OBVIOUS
  <2>2. Nth(S, j - 1) < Nth(S, j)
    BY <1>3, <2>1
  <2> QED
    BY <1>5, <2>1, <2>2
<1>9. \A w \in Range(g) : \E k \in 1 .. n : w = g[k]
  BY <1>7 DEF Range
<1>10. \A k \in 1 .. n : g[k] \in Range(g)
  BY <1>7 DEF Range
<1>11. Heard(g) \subseteq S
  <2> SUFFICES ASSUME NEW w \in Range(g) PROVE w.FreqIndex \in S
    BY DEF Heard
  <2>1. PICK k \in 1 .. n : w = g[k]
    BY <1>9
  <2> QED
    BY <1>3, <1>5, <2>1
<1>12. S \subseteq Heard(g)
  <2> SUFFICES ASSUME NEW x \in S PROVE x \in Heard(g)
    OBVIOUS
  <2>1. PICK k \in 1 .. n : Nth(S, k) = x
    BY <1>3
  <2>2. g[k] \in Range(g) /\ g[k].FreqIndex = x
    BY <1>5, <1>10, <2>1
  <2> QED
    BY <2>2 DEF Heard
<1>13. \A w \in Range(g) : w.of = c
  BY <1>5, <1>9
<1>14. g = << >> <=> S = {}
  <2>1. g = << >> <=> n = 0
    BY <1>7, EmptySeq
  <2>2. n = 0 <=> S = {}
    BY <1>1, FS_EmptySet
  <2> QED
    BY <2>1, <2>2
<1> QED
  BY <1>1, <1>7, <1>8, <1>11, <1>12, <1>13, <1>14

\* A channel of the result that the syntax has room for.
Writable(waves, b) ==
  /\ GetWaves(waves, b) \in Seq(Waves) /\ InOrder(GetWaves(waves, b))
  /\ waves.WaveSbInfos[b].WaveNums = Len(GetWaves(waves, b))
  /\ waves.WaveSbInfos[b].WaveNums \in 0 .. 15
  /\ LET e == waves.WaveSbInfos[b].Envelope IN <<Point(e[1]), Point(e[2])>> = e

LEMMA BandsAdded ==
  ASSUME NEW channel \in ChannelData, NEW c \in {1, 2}, NEW num \in 0 .. Subbands,
         NEW own, NEW stops, NEW res, res = AddBands(channel, c, num, own, stops),
         \A b \in Bands : /\ Cardinality(channel.tones[b]) <= 15
                          /\ channel.tones[b] # {} => ~Aborts(channel.env[b]) /\ StartsWell(channel.env[b])
  PROVE  \A b \in 0 .. num - 1 :
           /\ GetWaves(res, b) = IF b \in own THEN WavesOf(channel.tones[b], c) ELSE << >>
           /\ Writable(res, b)
<1>1. PICK rows : rows = OwnWaves(channel, c, num, own)
  OBVIOUS
<1>2. ASSUME NEW b \in 0 .. num - 1
      PROVE  /\ b \in Bands /\ channel.tones[b] \in ToneSets /\ channel.env[b] \in Spans
             /\ Cardinality(channel.tones[b]) \in Nat
  <2>1. b \in Bands
    BY SubbandsAssumption DEF Bands
  <2>2. channel.tones[b] \in ToneSets /\ channel.env[b] \in Spans
    BY <2>1, BandFields DEF PerBand
  <2> QED
    BY <2>1, <2>2, TonesFinite
<1>3. \A b \in 0 .. num - 1 : rows[b] = IF b \in own THEN WavesOf(channel.tones[b], c) ELSE << >>
  BY <1>1 DEF OwnWaves
<1>4. ASSUME NEW b \in 0 .. num - 1
      PROVE  /\ rows[b] \in Seq(Waves) /\ InOrder(rows[b]) /\ Len(rows[b]) \in 0 .. 15
             /\ rows[b] # << >> => channel.tones[b] # {}
  <2>1. CASE b \in own
    <3>1. rows[b] = WavesOf(channel.tones[b], c)
      BY <1>3, <2>1
    <3>2. /\ rows[b] \in Seq(Waves) /\ InOrder(rows[b]) /\ Len(rows[b]) = Cardinality(channel.tones[b])
          /\ rows[b] # << >> => channel.tones[b] # {}
      BY <1>2, <3>1, WavesAre
    <3>3. Cardinality(channel.tones[b]) \in 0 .. 15
      BY <1>2
    <3> QED
      BY <3>2, <3>3
  <2>2. CASE b \notin own
    <3>1. rows[b] = << >>
      BY <1>3, <2>2
    <3> QED
      BY <3>1 DEF InOrder
  <2> QED
    BY <2>1, <2>2
<1>5. num \in Nat /\ \A b \in 0 .. num - 1 : rows[b] \in Seq(Waves) /\ Len(rows[b]) \in Nat
  BY <1>4, SubbandsAssumption
<1>6. PICK end : end = [b \in 0 .. num |-> SumTo(RowLengths(rows, num), b)]
  OBVIOUS
<1>7. PICK all : all = Joined(rows, num)
  OBVIOUS
<1>8. /\ all \in Seq(Waves) /\ Len(all) = end[num] /\ \A b \in 0 .. num : end[b] \in Nat
      /\ \A b \in 0 .. num - 1 :
           /\ end[b + 1] = end[b] + Len(rows[b]) /\ end[b + 1] <= end[num]
           /\ \A j \in 1 .. Len(rows[b]) : all[end[b] + j] = rows[b][j]
  <2>1. \A b \in 0 .. num - 1 : b \in 0 .. num /\ b + 1 \in 0 .. num /\ num \in 0 .. num
    BY <1>5
  <2>2. num \in 0 .. num
    BY <1>5
  <2>3. \A b \in 0 .. num : end[b] = SumTo(RowLengths(rows, num), b)
    BY <1>6
  <2>4. /\ Joined(rows, num) \in Seq(Waves) /\ Len(Joined(rows, num)) = SumTo(RowLengths(rows, num), num)
        /\ \A b \in 0 .. num : SumTo(RowLengths(rows, num), b) \in Nat
        /\ \A b \in 0 .. num - 1 :
             /\ SumTo(RowLengths(rows, num), b + 1) = SumTo(RowLengths(rows, num), b) + Len(rows[b])
             /\ SumTo(RowLengths(rows, num), b + 1) <= SumTo(RowLengths(rows, num), num)
             /\ \A j \in 1 .. Len(rows[b]) :
                  Joined(rows, num)[SumTo(RowLengths(rows, num), b) + j] = rows[b][j]
    <3>1. AllRows(rows, num, Waves)
      BY <1>5 DEF AllRows
    <3>2. HasRows(Joined(rows, num), rows, num, Waves, RowLengths(rows, num))
      BY <1>5, <3>1, JoinedIs
    <3> QED
      BY <3>2, Zenon DEF HasRows
  <2>7. \A b \in 0 .. num - 1 : end[b + 1] = end[b] + Len(rows[b]) /\ end[b + 1] <= end[num]
    BY <2>1, <2>2, <2>3, <2>4
  <2>8. \A b \in 0 .. num - 1 : \A j \in 1 .. Len(rows[b]) : all[end[b] + j] = rows[b][j]
    BY <1>7, <2>1, <2>3, <2>4
  <2> QED
    BY <1>7, <2>2, <2>3, <2>4, <2>7, <2>8
<1>9. res.WaveParams = all
  BY <1>1, <1>7 DEF AddBands
<1>10. ASSUME NEW b \in 0 .. num - 1
       PROVE  res.WaveSbInfos[b] =
                IF rows[b] = << >> THEN NoWaves
                ELSE [WaveIndex |-> end[b], WaveNums |-> Len(rows[b]),
                      Envelope |-> AdjustEnvelope(channel.env[b], HistStop(stops, b))]
  <2>1. end[b] = SumTo(RowLengths(rows, num), b)
    BY <1>5, <1>6
  <2> QED
    BY <1>1, <2>1 DEF AddBands
<1>11. ASSUME NEW b \in 0 .. num - 1
       PROVE  /\ GetWaves(res, b) = rows[b]
              /\ res.WaveSbInfos[b].WaveNums = Len(rows[b])
              /\ LET e == res.WaveSbInfos[b].Envelope IN <<Point(e[1]), Point(e[2])>> = e
  <2>1. CASE rows[b] = << >>
    <3>1. res.WaveSbInfos[b] = NoWaves
      BY <1>10, <2>1
    <3>2. NoWaves.WaveIndex = 0 /\ NoWaves.WaveNums = 0 /\ NoWaves.Envelope = <<EmptyPoint, EmptyPoint>>
      BY DEF NoWaves
    <3>3. SubSeq(all, 0 + 1, 0 + 0) = << >>
      BY SubSeqEmpty
    <3>4. GetWaves(res, b) = << >>
      BY <1>9, <3>1, <3>2, <3>3 DEF GetWaves
    <3>5. Point(EmptyPoint) = EmptyPoint
      BY DEF Point
    <3> QED
      BY <2>1, <3>1, <3>2, <3>4, <3>5
  <2>2. CASE rows[b] # << >>
    <3>1. PICK a : a = AdjustEnvelope(channel.env[b], HistStop(stops, b))
      OBVIOUS
    <3>2. res.WaveSbInfos[b] = [WaveIndex |-> end[b], WaveNums |-> Len(rows[b]), Envelope |-> a]
      BY <1>10, <2>2, <3>1
    <3>3. <<Point(a[1]), Point(a[2])>> = a
      BY <1>2, <1>4, <2>2, <3>1, PointsKept
    <3>4. PICK n \in Nat : n = Len(rows[b])
      BY <1>5
    <3>5. PICK p \in Nat : p = end[b] /\ p + n = end[b + 1] /\ p + n <= Len(all) /\ b + 1 \in 0 .. num
      <4>1. b \in 0 .. num /\ b + 1 \in 0 .. num
        BY <1>5
      <4> QED
        BY <1>8, <3>4, <4>1
    <3>6. \A k \in p + 1 .. p + n : all[k] \in Waves
      <4> TAKE k \in p + 1 .. p + n
      <4>1. Len(all) \in Nat
        BY <1>8, LenProperties
      <4>2. k \in 1 .. Len(all)
        BY <3>5, <4>1, SMTT(30)
      <4> QED
        BY <1>8, <4>2, ElementOfSeq
    <3>7. PICK g : g = SubSeq(all, p + 1, p + n)
      OBVIOUS
    <3>8. /\ g \in Seq(Waves) /\ Len(g) = (IF p + 1 <= p + n THEN (p + n) - (p + 1) + 1 ELSE 0)
          /\ \A k \in 1 .. (p + n) - (p + 1) + 1 : g[k] = all[(p + 1) + k - 1]
      <4>1. PICK lo \in Int, hi \in Int : lo = p + 1 /\ hi = p + n
        OBVIOUS
      <4>2. \A k \in lo .. hi : all[k] \in Waves
        BY <3>6, <4>1
      <4>3. /\ SubSeq(all, lo, hi) \in Seq(Waves)
            /\ Len(SubSeq(all, lo, hi)) = (IF lo <= hi THEN hi - lo + 1 ELSE 0)
            /\ \A k \in 1 .. hi - lo + 1 : SubSeq(all, lo, hi)[k] = all[lo + k - 1]
        BY <4>2, SubSeqProperties
      <4> QED
        BY <3>7, <4>1, <4>3
    <3>9. (p + n) - (p + 1) + 1 = n /\ (p + 1 <= p + n <=> n # 0)
      OBVIOUS
    <3>10. Len(g) = n /\ \A k \in 1 .. n : g[k] = all[p + k]
      <4>1. \A k \in 1 .. n : (p + 1) + k - 1 = p + k
        OBVIOUS
      <4>2. Len(g) = n
        BY <3>8, <3>9
      <4> QED
        BY <3>8, <3>9, <4>1, <4>2
    <3>11. \A k \in 1 .. n : g[k] = rows[b][k]
      BY <1>8, <3>4, <3>5, <3>10
    <3>12. g = rows[b]
      <4>1. rows[b] \in Seq(Waves) /\ g \in Seq(Waves) /\ Len(g) = Len(rows[b])
        BY <1>5, <3>4, <3>8, <3>10
      <4>2. \A k \in 1 .. Len(g) : g[k] = rows[b][k]
        BY <3>10, <3>11
      <4> QED
        BY <4>1, <4>2, SeqEqual
    <3>13. GetWaves(res, b) = g
      <4>1. res.WaveSbInfos[b].WaveIndex = p /\ res.WaveSbInfos[b].WaveNums = n
        BY <3>2, <3>4, <3>5
      <4>2. GetWaves(res, b) = SubSeq(res.WaveParams, res.WaveSbInfos[b].WaveIndex + 1,
                                      res.WaveSbInfos[b].WaveIndex + res.WaveSbInfos[b].WaveNums)
        BY DEF GetWaves
      <4>3. GetWaves(res, b) = SubSeq(all, p + 1, p + n)
        BY <1>9, <4>1, <4>2, Zenon
      <4> QED
        BY <3>7, <4>3
    <3> QED
      BY <3>2, <3>3, <3>12, <3>13
  <2> QED
    BY <2>1, <2>2
<1> QED
  BY <1>3, <1>4, <1>11 DEF Writable

(***************************************************************************)
(* At3pTones: a channel written and read                                   *)
(***************************************************************************)
FieldsFor(num, sharing, r) == {b \in 0 .. num - 1 : r = 1 \/ ~sharing[b]}
OwnList(own, num, sharing, r) ==
  /\ Len(own) \in Nat /\ DOMAIN own = 1 .. Len(own)
  /\ \A k \in 1 .. Len(own) : own[k] \in 0 .. num - 1
  /\ \A k, m \in 1 .. Len(own) : own[k] = own[m] => k = m
  /\ Range(own) = FieldsFor(num, sharing, r)
LEMMA OwnBandsAre ==
  ASSUME NEW num \in Nat, NEW sharing, NEW r, NEW own, own = OwnBands(num, sharing, r)
  PROVE  OwnList(own, num, sharing, r)
<1> DEFINE S == {b \in 0 .. num - 1 : r = 1 \/ ~sharing[b]}
<1>1. S \in SUBSET Nat /\ S \in SUBSET (0 .. num - 1) /\ IsFiniteSet(S)
  <2>1. 0 \in Int /\ num - 1 \in Int
    OBVIOUS
  <2>2. IsFiniteSet(0 .. num - 1)
    BY <2>1, FS_Interval
  <2> QED
    BY <2>2, FS_Subset
<1>2. own = Ascending(S)
  BY DEF OwnBands
<1> HIDE DEF S
<1>3. Cardinality(S) \in Nat
  BY <1>1, FS_CardinalityType
<1>4. /\ Len(own) = Cardinality(S) /\ DOMAIN own = 1 .. Cardinality(S) /\ own \in Seq(S)
      /\ \A k, m \in 1 .. Cardinality(S) : k < m => own[k] < own[m]
      /\ \A x \in S : \E k \in 1 .. Cardinality(S) : own[k] = x
  BY <1>1, <1>2, AscendingIs
<1>5. \A k \in 1 .. Len(own) : own[k] \in S /\ own[k] \in 0 .. num - 1
  BY <1>1, <1>4, ElementOfSeq
<1>6. \A k, m \in 1 .. Len(own) : own[k] = own[m] => k = m
  <2> TAKE k \in 1 .. Len(own), m \in 1 .. Len(own)
  <2>1. own[k] \in Int /\ own[m] \in Int
    BY <1>5
  <2>2. (k < m => own[k] < own[m]) /\ (m < k => own[m] < own[k])
    BY <1>4
  <2> QED
    BY <1>3, <1>4, <2>1, <2>2
<1>7. Range(own) = S
  BY <1>4, <1>5 DEF Range
<1> QED
  BY <1>3, <1>4, <1>5, <1>6, <1>7 DEF S, FieldsFor, OwnList

\* The indices of a band's tones, and the channels they are of.
IndicesOf(g)  == [j \in DOMAIN g |-> g[j].FreqIndex]
ChannelsOf(g) == [j \in DOMAIN g |-> g[j].of]
LEMMA IndicesOfAre ==
  ASSUME NEW g \in Seq(Waves), InOrder(g)
  PROVE  /\ IndicesOf(g) \in Seq(Tones) /\ Len(IndicesOf(g)) = Len(g) /\ Rising(IndicesOf(g))
         /\ ChannelsOf(g) \in Seq({1, 2}) /\ Len(ChannelsOf(g)) = Len(g)
         /\ \A j \in 1 .. Len(g) : /\ IndicesOf(g)[j] = g[j].FreqIndex /\ ChannelsOf(g)[j] = g[j].of
                                   /\ g[j] = [FreqIndex |-> g[j].FreqIndex, of |-> g[j].of]
<1>1. PICK n \in Nat : n = Len(g) /\ DOMAIN g = 1 .. n
  BY LenProperties
<1>2. \A j \in 1 .. n : /\ g[j] \in Waves /\ g[j].FreqIndex \in Tones /\ g[j].of \in {1, 2}
                        /\ g[j] = [FreqIndex |-> g[j].FreqIndex, of |-> g[j].of]
  <2> TAKE j \in 1 .. n
  <2>1. g[j] \in Waves
    BY <1>1, ElementOfSeq
  <2>2. \A w \in Waves : /\ w.FreqIndex \in Tones /\ w.of \in {1, 2}
                        /\ w = [FreqIndex |-> w.FreqIndex, of |-> w.of]
    BY DEF Waves
  <2> QED
    BY <2>1, <2>2
<1>3. PICK u, v : u = IndicesOf(g) /\ v = ChannelsOf(g)
  OBVIOUS
<1>4. /\ u \in [1 .. n -> Tones] /\ v \in [1 .. n -> {1, 2}]
      /\ \A j \in 1 .. n : u[j] = g[j].FreqIndex /\ v[j] = g[j].of
  BY <1>1, <1>2, <1>3 DEF IndicesOf, ChannelsOf
<1>5. u \in Seq(Tones) /\ Len(u) = n
  BY <1>4, SequenceOf
<1>6. v \in Seq({1, 2}) /\ Len(v) = n
  BY <1>4, SequenceOf
<1>7. Rising(u)
  <2> SUFFICES ASSUME NEW j \in 2 .. n PROVE u[j - 1] < u[j]
    BY <1>5 DEF Rising
  <2>1. j \in 1 .. n /\ j - 1 \in 1 .. n
    OBVIOUS
  <2>2. g[j - 1].FreqIndex < g[j].FreqIndex
    BY <1>1, SMTT(30) DEF InOrder
  <2> QED
    BY <1>4, <2>1, <2>2
<1> QED
  BY <1>1, <1>2, <1>3, <1>4, <1>5, <1>6, <1>7

\* What is written of one channel: for each of its bands an envelope, a number, and, if
\* it is not 0, indices; behind them the channels the tones are of.
OnWire(res, r, own, gs, m, f) ==
  /\ m \in Nat /\ \A k \in 1 .. m : gs[k] \in Seq(Waves) /\ InOrder(gs[k]) /\ Len(gs[k]) \in Nat
  /\ f.envelopes = [k \in 1 .. m |-> res.Waves[r].WaveSbInfos[own[k]].Envelope]
  /\ f.numWaves = [k \in 1 .. m |-> Len(gs[k])]
  /\ LET P == {k \in 1 .. m : Len(gs[k]) # 0}
     IN f.freqs = [k \in 1 .. Cardinality(P) |-> CreateFreqBitPack(IndicesOf(gs[Nth(P, k)]))]
  /\ f.amps = Joined([k \in 0 .. m - 1 |-> ChannelsOf(gs[k + 1])], m)
LEMMA ChannelWritten ==
  ASSUME NEW res, NEW num \in Nat, NEW r, res.NumToneBands = num,
         \A b \in 0 .. num - 1 : Writable(res.Waves[r], b),
         NEW own, own = OwnBands(num, res.ToneSharing, r), NEW m, m = Len(own),
         NEW gs, gs = [k \in 1 .. m |-> GetWaves(res.Waves[r], own[k])],
         NEW f, f = WriteChannel(res, r)
  PROVE  OnWire(res, r, own, gs, m, f)
<1>1. m \in Nat /\ DOMAIN own = 1 .. m /\ \A k \in 1 .. m : own[k] \in 0 .. num - 1
  <2>1. Len(own) \in Nat /\ DOMAIN own = 1 .. Len(own) /\ \A k \in 1 .. Len(own) : own[k] \in 0 .. num - 1
    <3>1. OwnList(own, num, res.ToneSharing, r)
      BY OwnBandsAre
    <3> QED
      BY <3>1 DEF OwnList
  <2> QED
    BY <2>1
<1>2. PICK w : w = res.Waves[r]
  BY SMTT(30)
<1>3. \A k \in 1 .. m :
        /\ gs[k] = GetWaves(w, own[k]) /\ gs[k] \in Seq(Waves) /\ InOrder(gs[k])
        /\ w.WaveSbInfos[own[k]].WaveNums = Len(gs[k]) /\ Len(gs[k]) \in 0 .. 15
        /\ LET e == w.WaveSbInfos[own[k]].Envelope IN <<Point(e[1]), Point(e[2])>> = e
  BY <1>1, <1>2, ZenonT(60) DEF Writable
<1> DEFINE of(k) == GetWaves(w, own[k])
           played == Ascending({k \in DOMAIN own : w.WaveSbInfos[own[k]].WaveNums # 0})
           freqs(k) == [j \in DOMAIN of(k) |-> of(k)[j].FreqIndex]
           P == {k \in 1 .. m : Len(gs[k]) # 0}
<1>4. /\ f.envelopes = [k \in DOMAIN own |-> LET e == w.WaveSbInfos[own[k]].Envelope
                                             IN <<Point(e[1]), Point(e[2])>>]
      /\ f.numWaves = [k \in DOMAIN own |-> Field(w.WaveSbInfos[own[k]].WaveNums, 4)]
      /\ f.freqs = [k \in DOMAIN played |-> CreateFreqBitPack(freqs(played[k]))]
      /\ f.amps = Joined([k \in 0 .. Len(own) - 1 |-> [j \in DOMAIN of(k + 1) |-> of(k + 1)[j].of]],
                         Len(own))
  BY <1>2 DEF WriteChannel
<1> HIDE DEF played
<1>5. f.envelopes = [k \in 1 .. m |-> w.WaveSbInfos[own[k]].Envelope]
  <2>1. f.envelopes = [k \in 1 .. m |-> LET e == w.WaveSbInfos[own[k]].Envelope
                                        IN <<Point(e[1]), Point(e[2])>>]
    BY <1>1, <1>4
  <2> QED
    BY <1>3, <2>1
<1>6. f.numWaves = [k \in 1 .. m |-> Len(gs[k])]
  <2>1. f.numWaves = [k \in 1 .. m |-> Field(w.WaveSbInfos[own[k]].WaveNums, 4)]
    BY <1>1, <1>4
  <2>2. ASSUME NEW k \in 1 .. m PROVE Field(w.WaveSbInfos[own[k]].WaveNums, 4) = Len(gs[k])
    <3>1. PICK v : v = Len(gs[k])
      OBVIOUS
    <3>2. v \in Nat /\ v < Pow2[4] /\ 4 \in 0 .. 10
      <4>1. v \in 0 .. 15
        BY <1>3, <3>1
      <4> QED
        BY <4>1, PowersAre
    <3>3. Field(v, 4) = v
      BY <3>2, FieldIs
    <3> QED
      BY <1>3, <3>1, <3>3
  <2> QED
    BY <2>1, <2>2, SMTT(30)
<1>7. P = {k \in DOMAIN own : w.WaveSbInfos[own[k]].WaveNums # 0} /\ P \in SUBSET (1 .. m)
  BY <1>1, <1>3
<1>8. P \in SUBSET Nat /\ IsFiniteSet(P)
  <2>1. IsFiniteSet(1 .. m)
    BY <1>1, FS_Interval
  <2>2. IsFiniteSet(P)
    BY <1>7, <2>1, FS_Subset
  <2> QED
    BY <1>7, <2>2
<1>9. f.freqs = [k \in 1 .. Cardinality(P) |-> CreateFreqBitPack(IndicesOf(gs[Nth(P, k)]))]
  <2>1. f.freqs = [k \in DOMAIN played |-> CreateFreqBitPack(freqs(played[k]))]
    BY <1>4
  <2>2. played = Ascending(P)
    BY <1>7 DEF played
  <2>3. DOMAIN played = 1 .. Cardinality(P) /\ \A k \in 1 .. Cardinality(P) : played[k] = Nth(P, k)
    BY <2>2 DEF Ascending
  <2>4. \A k \in 1 .. Cardinality(P) : Nth(P, k) \in 1 .. m
    BY <1>7, <1>8, NthIs
  <2>5. \A k \in 1 .. m : freqs(k) = IndicesOf(gs[k])
    BY <1>3 DEF IndicesOf
  <2> HIDE DEF played, freqs, P
  <2> QED
    BY <2>1, <2>3, <2>4, <2>5, SMTT(30)
<1>10. f.amps = Joined([k \in 0 .. m - 1 |-> ChannelsOf(gs[k + 1])], m)
  <2>1. f.amps = Joined([k \in 0 .. m - 1 |-> [j \in DOMAIN of(k + 1) |-> of(k + 1)[j].of]], m)
    BY <1>4
  <2>2. \A k \in 0 .. m - 1 : [j \in DOMAIN of(k + 1) |-> of(k + 1)[j].of] = ChannelsOf(gs[k + 1])
    <3> TAKE k \in 0 .. m - 1
    <3>1. k + 1 \in 1 .. m
      BY <1>1
    <3>2. of(k + 1) = gs[k + 1]
      BY <1>3, <3>1
    <3> QED
      BY <3>2 DEF ChannelsOf
  <2>3. [k \in 0 .. m - 1 |-> [j \in DOMAIN of(k + 1) |-> of(k + 1)[j].of]]
          = [k \in 0 .. m - 1 |-> ChannelsOf(gs[k + 1])]
    BY <2>2
  <2> QED
    BY <2>1, <2>3
<1>11. \A k \in 1 .. m : gs[k] \in Seq(Waves) /\ InOrder(gs[k]) /\ Len(gs[k]) \in Nat
  BY <1>3
<1>12. f.envelopes = [k \in 1 .. m |-> res.Waves[r].WaveSbInfos[own[k]].Envelope]
  BY <1>2, <1>5
<1> QED
  BY <1>1, <1>6, <1>9, <1>10, <1>11, <1>12 DEF OnWire

LEMMA ChannelReads ==
  ASSUME NEW res, NEW num \in Nat, NEW r, r \in DOMAIN res.Waves, res.NumToneBands = num,
         \A b \in 0 .. num - 1 : Writable(res.Waves[r], b)
  PROVE  ReadChannel(WriteTonalBlock(res), r) =
           [b \in Range(OwnBands(num, res.ToneSharing, r)) |->
              [waves |-> GetWaves(res.Waves[r], b), env |-> res.Waves[r].WaveSbInfos[b].Envelope]]
<1>1. PICK own : own = OwnBands(num, res.ToneSharing, r)
  OBVIOUS
<1>2. PICK m : m = Len(own)
  OBVIOUS
<1>3. PICK gs : gs = [k \in 1 .. m |-> GetWaves(res.Waves[r], own[k])]
  OBVIOUS
<1>4. PICK f : f = WriteChannel(res, r)
  OBVIOUS
<1>5. PICK P : P = {k \in 1 .. m : Len(gs[k]) # 0}
  OBVIOUS
<1>6. /\ m \in Nat /\ \A k \in 1 .. m : gs[k] \in Seq(Waves) /\ InOrder(gs[k]) /\ Len(gs[k]) \in Nat
      /\ f.envelopes = [k \in 1 .. m |-> res.Waves[r].WaveSbInfos[own[k]].Envelope]
      /\ f.numWaves = [k \in 1 .. m |-> Len(gs[k])]
      /\ f.freqs = [k \in 1 .. Cardinality(P) |-> CreateFreqBitPack(IndicesOf(gs[Nth(P, k)]))]
      /\ f.amps = Joined([k \in 0 .. m - 1 |-> ChannelsOf(gs[k + 1])], m)
  <2>1. OnWire(res, r, own, gs, m, f)
    BY <1>1, <1>2, <1>3, <1>4, ChannelWritten
  <2> QED
    BY <1>5, <2>1 DEF OnWire
<1>7. /\ DOMAIN own = 1 .. m /\ \A k, l \in 1 .. m : own[k] = own[l] => k = l
      /\ \A b \in Range(own) : \E k \in 1 .. m : own[k] = b
  <2>1. DOMAIN own = 1 .. m /\ \A k, l \in 1 .. m : own[k] = own[l] => k = l
    <3>1. DOMAIN own = 1 .. Len(own) /\ \A k, l \in 1 .. Len(own) : own[k] = own[l] => k = l
      <4>1. OwnList(own, num, res.ToneSharing, r)
        BY <1>1, OwnBandsAre
      <4> QED
        BY <4>1 DEF OwnList
    <3> QED
      BY <1>2, <3>1
  <2> QED
    BY <2>1 DEF Range
<1> DEFINE counts == [j \in 0 .. m - 1 |-> f.numWaves[j + 1]]
           before(k) == SumTo(counts, k - 1)
           pack(k)   == f.freqs[Cardinality({j \in 1 .. k : f.numWaves[j] # 0})]
           tones(k)  == IF f.numWaves[k] = 0 THEN << >>
                        ELSE [j \in 1 .. f.numWaves[k] |->
                                [FreqIndex |-> ReadFreqs(pack(k))[j], of |-> f.amps[before(k) + j]]]
           place(b)  == CHOOSE k \in DOMAIN own : own[k] = b
           wire      == WriteTonalBlock(res)
<1>8. ReadChannel(wire, r) =
        [b \in Range(own) |-> [waves |-> tones(place(b)), env |-> f.envelopes[place(b)]]]
  <2>1. wire.NumToneBands = num /\ wire.ToneSharing = res.ToneSharing /\ wire.Channels[r] = f
    BY <1>4 DEF WriteTonalBlock
  <2>2. OwnBands(wire.NumToneBands, wire.ToneSharing, r) = own
    BY <1>1, <2>1
  <2> HIDE DEF wire
  <2> QED
    BY <1>2, <2>1, <2>2 DEF ReadChannel
<1>9. ASSUME NEW k \in 1 .. m, NEW j \in 1 .. Len(gs[k])
      PROVE  f.amps[before(k) + j] = gs[k][j].of
  <2>1. PICK rows : rows = [q \in 0 .. m - 1 |-> ChannelsOf(gs[q + 1])]
    OBVIOUS
  <2>2. \A q \in 0 .. m - 1 : /\ rows[q] \in Seq({1, 2}) /\ Len(rows[q]) = Len(gs[q + 1])
                              /\ rows[q] = ChannelsOf(gs[q + 1])
    <3> TAKE q \in 0 .. m - 1
    <3>1. q + 1 \in 1 .. m
      BY <1>6
    <3> QED
      BY <1>6, <2>1, <3>1, IndicesOfAre
  <2>3. k - 1 \in 0 .. m - 1 /\ k - 1 \in Nat /\ (k - 1) + 1 = k
    BY <1>6
  <2>4. before(k) = SumTo(RowLengths(rows, m), k - 1)
    <3>1. \A q \in 0 .. (k - 1) - 1 : q \in 0 .. m - 1 /\ q + 1 \in 1 .. m
      BY <1>6
    <3>2. \A q \in 0 .. (k - 1) - 1 : counts[q] = RowLengths(rows, m)[q]
      BY <1>6, <2>2, <3>1 DEF RowLengths
    <3> HIDE DEF counts
    <3> QED
      BY <2>3, <3>2, SumSame
  <2>5. f.amps = Joined(rows, m)
    BY <1>6, <2>1
  <2>6. AllRows(rows, m, {1, 2})
    BY <2>2 DEF AllRows
  <2>7. /\ Joined(rows, m) \in Seq({1, 2})
        /\ \A q \in 0 .. m - 1 : \A l \in 1 .. Len(rows[q]) :
             Joined(rows, m)[SumTo(RowLengths(rows, m), q) + l] = rows[q][l]
    <3>1. HasRows(Joined(rows, m), rows, m, {1, 2}, RowLengths(rows, m))
      BY <1>6, <2>6, JoinedIs
    <3> QED
      BY <3>1, Zenon DEF HasRows
  <2>8. Len(rows[k - 1]) = Len(gs[k]) /\ rows[k - 1] = ChannelsOf(gs[k])
    BY <2>2, <2>3
  <2>9. Joined(rows, m)[SumTo(RowLengths(rows, m), k - 1) + j] = ChannelsOf(gs[k])[j]
    BY <2>3, <2>7, <2>8
  <2>10. ChannelsOf(gs[k])[j] = gs[k][j].of
    BY <1>6, IndicesOfAre
  <2> HIDE DEF before
  <2> QED
    BY <2>4, <2>5, <2>9, <2>10
<1>10. P \in SUBSET Nat /\ IsFiniteSet(P) /\ P \in SUBSET (1 .. m)
  <2>1. IsFiniteSet(1 .. m) /\ P \in SUBSET (1 .. m)
    BY <1>5, <1>6, FS_Interval
  <2>2. IsFiniteSet(P)
    BY <2>1, FS_Subset
  <2> QED
    BY <2>1, <2>2
<1>11. ASSUME NEW k \in P PROVE ReadFreqs(pack(k)) = IndicesOf(gs[k])
  <2>1. k \in 1 .. m /\ Len(gs[k]) # 0
    BY <1>5
  <2>2. {j \in 1 .. k : f.numWaves[j] # 0} = UpTo(P, k)
    <3>1. \A j : j \in 1 .. k <=> j \in 1 .. m /\ j <= k
      BY <1>6, <2>1
    <3> QED
      BY <1>5, <1>6, <3>1 DEF UpTo
  <2>3. PICK q : q = Rank(P, k)
    OBVIOUS
  <2>4. q \in 1 .. Cardinality(P) /\ Nth(P, q) = k
    BY <1>10, <2>3, NthOfRank
  <2>5. pack(k) = f.freqs[q]
    BY <2>2, <2>3 DEF Rank
  <2>6. pack(k) = CreateFreqBitPack(IndicesOf(gs[k]))
    BY <1>6, <2>4, <2>5
  <2>7. IndicesOf(gs[k]) \in Seq(Tones) /\ IndicesOf(gs[k]) # << >> /\ Rising(IndicesOf(gs[k]))
    <3>1. gs[k] \in Seq(Waves) /\ InOrder(gs[k])
      BY <1>6, <2>1
    <3>2. /\ IndicesOf(gs[k]) \in Seq(Tones) /\ Rising(IndicesOf(gs[k]))
          /\ Len(IndicesOf(gs[k])) = Len(gs[k])
      BY <3>1, IndicesOfAre
    <3> QED
      BY <2>1, <3>2, EmptySeq
  <2> HIDE DEF pack
  <2> QED
    BY <2>6, <2>7, PackReads
<1>12. ASSUME NEW k \in 1 .. m PROVE tones(k) = gs[k]
  <2>1. PICK n \in Nat : n = Len(gs[k]) /\ f.numWaves[k] = n
    BY <1>6
  <2>2. gs[k] \in Seq(Waves) /\ InOrder(gs[k])
    BY <1>6
  <2>3. CASE n = 0
    <3>1. gs[k] = << >>
      BY <2>1, <2>2, <2>3, EmptySeq
    <3> QED
      BY <2>1, <2>3, <3>1
  <2>4. CASE n # 0
    <3>1. k \in P
      BY <1>5, <2>1, <2>4
    <3>2. PICK packed, at : packed = ReadFreqs(pack(k)) /\ at = before(k)
      OBVIOUS
    <3>3. packed = IndicesOf(gs[k])
      BY <1>11, <3>1, <3>2
    <3>4. tones(k) = [j \in 1 .. n |-> [FreqIndex |-> packed[j], of |-> f.amps[at + j]]]
      BY <2>1, <2>4, <3>2
    <3>5. \A j \in 1 .. n : f.amps[at + j] = gs[k][j].of
      BY <1>9, <2>1, <3>2
    <3> HIDE DEF tones
    <3>6. \A j \in 1 .. n : /\ packed[j] = gs[k][j].FreqIndex
                            /\ gs[k][j] = [FreqIndex |-> gs[k][j].FreqIndex, of |-> gs[k][j].of]
      BY <2>1, <2>2, <3>3, IndicesOfAre
    <3>7. \A j \in 1 .. n : [FreqIndex |-> packed[j], of |-> f.amps[at + j]] = gs[k][j]
      BY <3>5, <3>6
    <3>8. tones(k) = [j \in 1 .. n |-> gs[k][j]]
      BY <3>4, <3>7
    <3>9. gs[k] = [j \in 1 .. n |-> gs[k][j]]
      BY <2>1, <2>2, LenProperties
    <3> QED
      BY <3>8, <3>9
  <2> QED
    BY <2>3, <2>4
<1>13. ASSUME NEW b \in Range(own)
       PROVE  /\ tones(place(b)) = GetWaves(res.Waves[r], b)
              /\ f.envelopes[place(b)] = res.Waves[r].WaveSbInfos[b].Envelope
  <2>1. PICK k \in 1 .. m : own[k] = b
    BY <1>7
  <2>2. place(b) = k
    BY <1>7, <2>1
  <2>3. gs[k] = GetWaves(res.Waves[r], b) /\ f.envelopes[k] = res.Waves[r].WaveSbInfos[b].Envelope
    BY <1>3, <1>6, <2>1
  <2> HIDE DEF tones, place
  <2> QED
    BY <1>12, <2>2, <2>3
<1> HIDE DEF tones, place
<1>14. [b \in Range(own) |-> [waves |-> tones(place(b)), env |-> f.envelopes[place(b)]]]
         = [b \in Range(own) |-> [waves |-> GetWaves(res.Waves[r], b),
                                  env |-> res.Waves[r].WaveSbInfos[b].Envelope]]
  BY <1>13
<1> QED
  BY <1>1, <1>8, <1>14

(***************************************************************************)
(* At3pTones: the result of two channels                                   *)
(***************************************************************************)
LEMMA BandsUsed ==
  ASSUME NEW channel \in ChannelData
  PROVE  /\ NumToneBandsUsed(channel) \in 0 .. Subbands
         /\ \A b \in Bands : channel.tones[b] # {} => b < NumToneBandsUsed(channel)
<1> DEFINE S == {0} \cup {b + 1 : b \in {b \in Bands : channel.tones[b] # {}}}
<1>1. Subbands \in Nat /\ Subbands \in Int
  BY SubbandsAssumption
<1>2. S # {} /\ \A x \in S : x \in 0 .. Subbands /\ x \in Int /\ x <= Subbands
  BY <1>1 DEF Bands
<1>3. PICK m : m = Max(S)
  OBVIOUS
<1>4. m \in S /\ \A x \in S : m >= x
  <2> HIDE DEF S
  <2> QED
    BY <1>1, <1>2, <1>3, MaxIs
<1>5. m \in 0 .. Subbands
  BY <1>2, <1>4
<1>6. NumToneBandsUsed(channel) = m
  BY <1>3 DEF NumToneBandsUsed
<1>7. ASSUME NEW b \in Bands, channel.tones[b] # {} PROVE b < m
  <2>1. b + 1 \in S /\ b \in Int
    BY <1>7 DEF Bands
  <2>2. m >= b + 1
    BY <1>4, <2>1
  <2> QED
    BY <1>5, <2>1, <2>2
<1> QED
  BY <1>5, <1>6, <1>7

\* The leader's bands are all that have tones.
Leads(d, n, lead, num) ==
  /\ Len(d) = n /\ DOMAIN d = 1 .. n /\ lead \in 1 .. n /\ num \in 0 .. Subbands
  /\ n = 2 => 3 - lead \in 1 .. n
  /\ \A c \in 1 .. n, b \in Bands : d[c].tones[b] # {} => b \in 0 .. num - 1
LEMMA LeaderIs ==
  ASSUME NEW n \in {1, 2}, NEW d \in [1 .. n -> ChannelData],
         NEW lead, lead = Leader(d), NEW num, num = NumToneBandsUsed(d[lead])
  PROVE  Leads(d, n, lead, num)
<1>1. Len(d) = n /\ DOMAIN d = 1 .. n
  <2>1. n \in Nat
    OBVIOUS
  <2> QED
    BY <2>1, SequenceOf
<1>2. lead = IF n = 2 /\ NumToneBandsUsed(d[2]) > NumToneBandsUsed(d[1]) THEN 2 ELSE 1
  BY <1>1 DEF Leader
<1>3. lead \in 1 .. n /\ (n = 2 => 3 - lead \in 1 .. n)
  BY <1>2
<1>4. num \in 0 .. Subbands
  BY <1>3, BandsUsed
<1>5. ASSUME NEW c \in 1 .. n, NEW b \in Bands, d[c].tones[b] # {} PROVE b \in 0 .. num - 1
  <2>1. PICK mine : mine = NumToneBandsUsed(d[c])
    OBVIOUS
  <2>2. mine \in 0 .. Subbands /\ b < mine
    BY <1>5, <2>1, BandsUsed
  <2>3. mine <= num
    <3>1. CASE c = lead
      BY <1>4, <2>1, <3>1
    <3>2. CASE c # lead
      <4>1. n = 2 /\ (c = 2 <=> lead = 1) /\ c \in {1, 2}
        BY <1>3, <3>2
      <4>2. NumToneBandsUsed(d[1]) \in Int /\ NumToneBandsUsed(d[2]) \in Int
        BY <4>1, BandsUsed
      <4> QED
        BY <1>2, <2>1, <4>1, <4>2
    <3> QED
      BY <3>1, <3>2
  <2>4. b \in Nat
    BY SubbandsAssumption DEF Bands
  <2> QED
    BY <1>4, <2>2, <2>3, <2>4
<1> QED
  BY <1>1, <1>3, <1>4, <1>5 DEF Leads

\* What the result is: in the first role the tones of the leader, in the second those
\* of the other channel in the bands that are not shared.
RoleOf(lead, r)  == IF r = 1 THEN lead ELSE 3 - lead
Laid(d, lead, shared, r, b) ==
  IF r = 2 /\ shared[b] THEN << >> ELSE WavesOf(d[RoleOf(lead, r)].tones[b], RoleOf(lead, r))
FewTones(d, n) ==
  \A c \in 1 .. n : \A b \in Bands :
    /\ Cardinality(d[c].tones[b]) <= 15
    /\ d[c].tones[b] # {} => ~Aborts(d[c].env[b]) /\ StartsWell(d[c].env[b])
LaidOut(res, d, n, lead, num, shared) ==
  /\ res.NumToneBands = num /\ res.SecondIsLeader = (lead = 2) /\ DOMAIN res.Waves = 1 .. n
  /\ \A b \in 0 .. num - 1 :
       shared[b] = (n = 2 /\ SharesBand(d[3 - lead].tones[b], d[lead].tones[b]))
  /\ \A r \in 1 .. n : \A b \in 0 .. num - 1 :
       /\ Writable(res.Waves[r], b)
       /\ GetWaves(res.Waves[r], b) = Laid(d, lead, shared, r, b)
LEMMA ResultIs ==
  ASSUME NEW n \in {1, 2}, NEW d \in [1 .. n -> ChannelData], FewTones(d, n), NEW stops,
         NEW res, res = FillResultBuf(d, stops), NEW lead, lead = Leader(d),
         NEW num, num = NumToneBandsUsed(d[lead]), NEW shared, shared = res.ToneSharing
  PROVE  LaidOut(res, d, n, lead, num, shared)
<1>1. Len(d) = n /\ DOMAIN d = 1 .. n /\ lead \in 1 .. n /\ num \in 0 .. Subbands
      /\ (n = 2 => 3 - lead \in 1 .. n)
  <2>1. Leads(d, n, lead, num)
    BY LeaderIs
  <2> QED
    BY <2>1 DEF Leads
<1>2. shared = [b \in 0 .. num - 1 |->
                  Len(d) = 2 /\ SharesBand(d[3 - lead].tones[b], d[lead].tones[b])]
  BY DEF FillResultBuf
<1>3. /\ res.NumToneBands = num /\ res.SecondIsLeader = (lead = 2)
  BY DEF FillResultBuf
<1>4. PICK free : free = {b \in Bands : b < num /\ ~shared[b]}
  OBVIOUS
<1>5. res.Waves = [r \in 1 .. n |->
                     IF r = 1 THEN AddBands(d[lead], lead, num, Bands, stops[1])
                     ELSE AddBands(d[3 - lead], 3 - lead, num, free, stops[2])]
  BY <1>1, <1>2, <1>4 DEF FillResultBuf
<1>6. DOMAIN res.Waves = 1 .. n
  BY <1>5
<1>7. ASSUME NEW r \in 1 .. n
      PROVE  RoleOf(lead, r) \in 1 .. n /\ RoleOf(lead, r) \in {1, 2}
  BY <1>1 DEF RoleOf
<1>8. \A b \in 0 .. num - 1 : b \in Bands /\ b < num /\ (b \in free <=> ~shared[b])
  BY <1>1, <1>4, SubbandsAssumption DEF Bands
<1>9. ASSUME NEW r \in 1 .. n, NEW b \in 0 .. num - 1
      PROVE  /\ Writable(res.Waves[r], b)
             /\ GetWaves(res.Waves[r], b) = Laid(d, lead, shared, r, b)
  <2>1. PICK c : c = RoleOf(lead, r)
    OBVIOUS
  <2>2. PICK own, stop : own = (IF r = 1 THEN Bands ELSE free) /\ stop = stops[r]
    OBVIOUS
  <2>3. res.Waves[r] = AddBands(d[c], c, num, own, stop)
    <3>1. r = 1 \/ r = 2
      OBVIOUS
    <3> QED
      BY <1>5, <2>1, <2>2, <3>1 DEF RoleOf
  <2>4. c \in {1, 2} /\ d[c] \in ChannelData
    BY <1>7, <2>1
  <2>5. \A x \in Bands : /\ Cardinality(d[c].tones[x]) <= 15
                         /\ d[c].tones[x] # {} => ~Aborts(d[c].env[x]) /\ StartsWell(d[c].env[x])
    BY <1>7, <2>1 DEF FewTones
  <2>6. PICK channel, w : channel = d[c] /\ w = res.Waves[r]
    OBVIOUS
  <2>7. /\ GetWaves(w, b) = IF b \in own THEN WavesOf(channel.tones[b], c) ELSE << >>
        /\ Writable(w, b)
    <3>1. channel \in ChannelData /\ w = AddBands(channel, c, num, own, stop) /\ num \in 0 .. Subbands
      BY <1>1, <2>3, <2>4, <2>6
    <3>2. \A x \in Bands : /\ Cardinality(channel.tones[x]) <= 15
                           /\ channel.tones[x] # {} => ~Aborts(channel.env[x]) /\ StartsWell(channel.env[x])
      BY <2>5, <2>6
    <3> QED
      BY <2>4, <3>1, <3>2, BandsAdded
  <2>8. b \in own <=> ~(r = 2 /\ shared[b])
    <3>1. r = 1 \/ r = 2
      OBVIOUS
    <3> QED
      BY <1>8, <2>2, <3>1
  <2> QED
    BY <2>1, <2>6, <2>7, <2>8 DEF Laid
<1>10. ASSUME NEW b \in 0 .. num - 1
       PROVE  shared[b] = (n = 2 /\ SharesBand(d[3 - lead].tones[b], d[lead].tones[b]))
  BY <1>1, <1>2
<1> QED
  BY <1>3, <1>6, <1>9, <1>10 DEF LaidOut

\* TonesRead, of a result of the tones d.
Attributed(d, read, c, b) ==
  LET heard(x, y) == IF y \in DOMAIN read[x] THEN Heard(read[x][y].waves) ELSE {}
      own == d[c].tones[b]
  IN \/ heard(c, b) = own /\ \A w \in Range(IF own = {} THEN << >> ELSE read[c][b].waves) :
                                w.of = c \/ d[w.of].tones[b] = own
     \/ own # {} /\ c # Leader(d) /\ own \subseteq d[3 - c].tones[b] /\ read[c][b] = read[3 - c][b]

\* A reader has what is filtered out.
LEMMA ReadIsFiltered ==
  ASSUME NEW n \in {1, 2}, NEW d \in [1 .. n -> ChannelData], FewTones(d, n), NEW stops,
         NEW res, res = FillResultBuf(d, stops)
  PROVE  ReadTonalBlock(WriteTonalBlock(res)) = FilteredTones(res)
<1>1. PICK lead : lead = Leader(d)
  OBVIOUS
<1>2. PICK num : num = NumToneBandsUsed(d[lead])
  OBVIOUS
<1>3. PICK shared : shared = res.ToneSharing
  OBVIOUS
<1>4. /\ res.NumToneBands = num /\ DOMAIN res.Waves = 1 .. n
      /\ \A r \in 1 .. n : \A b \in 0 .. num - 1 : Writable(res.Waves[r], b)
  <2>1. LaidOut(res, d, n, lead, num, shared)
    BY <1>1, <1>2, <1>3, ResultIs
  <2> QED
    BY <2>1 DEF LaidOut
<1>5. num \in Nat
  <2>1. Leads(d, n, lead, num)
    BY <1>1, <1>2, LeaderIs
  <2> QED
    BY <2>1, SubbandsAssumption DEF Leads
<1> DEFINE wire == WriteTonalBlock(res)
           info(r) == [b \in Range(OwnBands(num, shared, r)) |->
                        [waves |-> GetWaves(res.Waves[r], b), env |-> res.Waves[r].WaveSbInfos[b].Envelope]]
<1>6. ASSUME NEW r \in 1 .. n PROVE ReadChannel(wire, r) = info(r)
  <2>1. r \in DOMAIN res.Waves /\ \A b \in 0 .. num - 1 : Writable(res.Waves[r], b)
    BY <1>4
  <2>2. ReadChannel(WriteTonalBlock(res), r) =
           [b \in Range(OwnBands(num, res.ToneSharing, r)) |->
              [waves |-> GetWaves(res.Waves[r], b), env |-> res.Waves[r].WaveSbInfos[b].Envelope]]
    BY <1>4, <1>5, <2>1, ChannelReads
  <2> QED
    BY <1>3, <2>2
<1>7. /\ wire.NumToneBands = num /\ wire.ToneSharing = shared /\ wire.SecondIsLeader = res.SecondIsLeader
      /\ DOMAIN wire.Channels = 1 .. n
  BY <1>3, <1>4 DEF WriteTonalBlock
<1> HIDE DEF wire
<1>8. ReadTonalBlock(wire) = BothChannels(num, shared, res.SecondIsLeader, [r \in 1 .. n |-> ReadChannel(wire, r)])
  BY <1>7 DEF ReadTonalBlock
<1>9. FilteredTones(res) = BothChannels(num, shared, res.SecondIsLeader, [r \in 1 .. n |-> info(r)])
  BY <1>3, <1>4 DEF FilteredTones
<1> HIDE DEF info
<1>10. [r \in 1 .. n |-> ReadChannel(wire, r)] = [r \in 1 .. n |-> info(r)]
  BY <1>6
<1> QED
  BY <1>8, <1>9, <1>10 DEF wire

\* Each channel has its own tones, or those of the leader if they are all among them.
LEMMA FilteredAre ==
  ASSUME NEW n \in {1, 2}, NEW d \in [1 .. n -> ChannelData], FewTones(d, n), NEW stops,
         NEW res, res = FillResultBuf(d, stops), NEW read, read = FilteredTones(res)
  PROVE  \A c \in 1 .. n, b \in Bands : Attributed(d, read, c, b)
<1>1. PICK lead : lead = Leader(d)
  OBVIOUS
<1>2. PICK num : num = NumToneBandsUsed(d[lead])
  OBVIOUS
<1>3. PICK shared : shared = res.ToneSharing
  OBVIOUS
<1>4. /\ res.NumToneBands = num /\ res.SecondIsLeader = (lead = 2) /\ DOMAIN res.Waves = 1 .. n
      /\ \A b \in 0 .. num - 1 :
           shared[b] = (n = 2 /\ SharesBand(d[3 - lead].tones[b], d[lead].tones[b]))
      /\ \A r \in 1 .. n : \A b \in 0 .. num - 1 :
           GetWaves(res.Waves[r], b) = Laid(d, lead, shared, r, b)
  <2>1. LaidOut(res, d, n, lead, num, shared)
    BY <1>1, <1>2, <1>3, ResultIs
  <2> QED
    BY <2>1 DEF LaidOut
<1>5. /\ lead \in 1 .. n /\ num \in 0 .. Subbands /\ num \in Nat
      /\ n = 2 => 3 - lead \in 1 .. n
      /\ \A c \in 1 .. n, b \in Bands : d[c].tones[b] # {} => b \in 0 .. num - 1
  <2>1. Leads(d, n, lead, num)
    BY <1>1, <1>2, LeaderIs
  <2> QED
    BY <2>1, SubbandsAssumption DEF Leads
<1> DEFINE info(r) == [b \in Range(OwnBands(num, shared, r)) |->
                        [waves |-> GetWaves(res.Waves[r], b), env |-> res.Waves[r].WaveSbInfos[b].Envelope]]
           role == [r \in 1 .. n |-> info(r)]
           of(c) == IF lead = 2 THEN 3 - c ELSE c
<1>6. /\ DOMAIN read = 1 .. n
      /\ \A c \in 1 .. n : read[c] = [b \in 0 .. num - 1 |->
           IF of(c) = 2 /\ shared[b] THEN role[1][b] ELSE role[of(c)][b]]
  <2>1. FilteredTones(res) = BothChannels(num, shared, lead = 2, role)
    BY <1>3, <1>4 DEF FilteredTones
  <2>2. DOMAIN role = 1 .. n
    OBVIOUS
  <2> HIDE DEF role
  <2> QED
    BY <2>1, <2>2 DEF BothChannels
<1>7. ASSUME NEW r \in 1 .. n, NEW b \in 0 .. num - 1, r = 1 \/ ~shared[b]
      PROVE  role[r][b].waves = WavesOf(d[RoleOf(lead, r)].tones[b], RoleOf(lead, r))
  <2>1. b \in Range(OwnBands(num, shared, r))
    <3>1. PICK own : own = OwnBands(num, shared, r)
      OBVIOUS
    <3>2. OwnList(own, num, shared, r)
      BY <1>5, <3>1, OwnBandsAre
    <3> QED
      BY <1>7, <3>1, <3>2 DEF OwnList, FieldsFor
  <2>2. role[r] = info(r)
    OBVIOUS
  <2>3. info(r)[b].waves = GetWaves(res.Waves[r], b)
    BY <2>1
  <2>4. GetWaves(res.Waves[r], b) = Laid(d, lead, shared, r, b)
    BY <1>4
  <2>5. ~(r = 2 /\ shared[b])
    BY <1>7
  <2> HIDE DEF role, info
  <2> QED
    BY <2>2, <2>3, <2>4, <2>5 DEF Laid
<1> HIDE DEF role, info
<1>8. SUFFICES ASSUME NEW c \in 1 .. n, NEW b \in Bands PROVE Attributed(d, read, c, b)
  OBVIOUS
<1>9. PICK own : own = d[c].tones[b]
  OBVIOUS
<1>10. own \in ToneSets
  <2>1. d[c] \in ChannelData
    OBVIOUS
  <2> QED
    BY <1>9, <2>1, BandFields DEF PerBand
<1>11. CASE b \notin 0 .. num - 1
  <2>1. own = {}
    BY <1>5, <1>9, <1>11
  <2>2. b \notin DOMAIN read[c]
    BY <1>6, <1>11
  <2>3. Range(<< >>) = {}
    BY DEF Range
  <2> QED
    BY <1>9, <2>1, <2>2, <2>3 DEF Attributed
<1>12. CASE b \in 0 .. num - 1
  <2>1. DOMAIN read[c] = 0 .. num - 1
        /\ read[c][b] = IF of(c) = 2 /\ shared[b] THEN role[1][b] ELSE role[of(c)][b]
    BY <1>6, <1>12
  <2>2. c \in {1, 2} /\ of(c) \in 1 .. n /\ RoleOf(lead, of(c)) = c /\ (of(c) = 1 <=> c = lead)
        /\ (of(c) = 1 \/ of(c) = 2)
    <3>1. n = 1 \/ n = 2
      OBVIOUS
    <3> QED
      BY <1>5, <3>1 DEF RoleOf
  <2>3. CASE of(c) = 1 \/ ~shared[b]
    <3>1. read[c][b] = role[of(c)][b]
      BY <2>1, <2>3
    <3>2. read[c][b].waves = WavesOf(own, c)
      BY <1>7, <1>9, <1>12, <2>2, <2>3, <3>1
    <3>3. PICK g : g = read[c][b].waves
      OBVIOUS
    <3>4. Heard(g) = own /\ \A w \in Range(g) : w.of = c
      BY <1>10, <2>2, <3>2, <3>3, WavesAre
    <3>5. \A w \in Range(IF own = {} THEN << >> ELSE g) : w.of = c
      <4>1. Range(<< >>) = {}
        BY DEF Range
      <4> QED
        BY <3>4, <4>1
    <3> QED
      BY <1>9, <1>12, <2>1, <3>3, <3>4, <3>5 DEF Attributed
  <2>4. CASE of(c) = 2 /\ shared[b]
    <3>1. read[c][b] = role[1][b]
      BY <2>1, <2>4
    <3>2. n = 2 /\ SharesBand(d[3 - lead].tones[b], d[lead].tones[b])
      BY <1>4, <1>12, <2>4
    <3>3. c # lead /\ c = 3 - lead /\ lead = 3 - c /\ 3 - c \in 1 .. n /\ of(3 - c) = 1
      BY <1>5, <2>2, <2>4, <3>2
    <3>4. own # {} /\ own \subseteq d[3 - c].tones[b]
      BY <1>9, <3>2, <3>3 DEF SharesBand, AllFound
    <3>5. read[3 - c][b] = role[1][b]
      <4>1. PICK x : x = 3 - c
        OBVIOUS
      <4>2. x \in 1 .. n /\ of(x) = 1
        BY <3>3, <4>1
      <4>3. read[x] = [y \in 0 .. num - 1 |->
                         IF of(x) = 2 /\ shared[y] THEN role[1][y] ELSE role[of(x)][y]]
        BY <1>6, <4>2
      <4>4. read[x][b] = role[1][b]
        BY <1>12, <4>2, <4>3
      <4> QED
        BY <4>1, <4>4
    <3> QED
      BY <1>1, <1>9, <3>1, <3>3, <3>4, <3>5 DEF Attributed
  <2> QED
    BY <2>2, <2>3, <2>4
<1> QED
  BY <1>11, <1>12

(***************************************************************************)
(* At3pGha: the result of a frame is of its tones                          *)
(***************************************************************************)
\* No envelope starts where five bits do not reach, unless it is not there yet; and no
\* union of windows does.
Begins(e, u) == (e = <<InitPoint, InitPoint>> \/ StartsWell(e)) /\ (u # << >> => StartsWell(u))
StartInv == \A c \in Chans, b \in Bands : Begins(data[c].env[b], data[c].union[b])

\* Between two frames there is the result of the first one's tones.
DoneInv ==
  stage = "done" /\ result # NoTones =>
    Enveloped(data) /\ \E stops : result = FillResultBuf(data, stops)

LEMMA WindowsStart ==
  ASSUME NEW w \in Windows, NEW cont \in BOOLEAN
  PROVE  StartsWell(w) /\ StartsWell(Closed(w, cont)) /\ StartsWell(<<w[1], EmptyPoint>>)
<1>1. w \in Nat \X Nat /\ w[1] + 16 <= w[2] /\ w[2] <= FrameSamples
  BY WindowAssumption
<1>2. PICK x \in Nat, y \in Nat : w = <<x, y>>
  BY <1>1
<1>3. w[1] = x /\ x \in 0 .. 127
  BY <1>1, <1>2 DEF FrameSamples
<1> QED
  BY <1>3 DEF StartsWell, Closed

LEMMA UnionStarts ==
  ASSUME NEW u, u # << >> => Closing(u) /\ StartsWell(u), NEW w \in Windows
  PROVE  StartsWell(Union(u, w))
<1>1. Closing(w) /\ StartsWell(w)
  BY WindowsAre, WindowsStart, TRUE \in BOOLEAN
<1>2. CASE u = << >>
  BY <1>1, <1>2 DEF Union
<1>3. CASE u # << >>
  <2>1. PICK x \in Nat, y \in Nat, v \in Nat, z \in Nat : u = <<x, y>> /\ w = <<v, z>>
    BY <1>1, <1>3 DEF Closing
  <2>2. x \in 0 .. 127 /\ v \in 0 .. 127
    BY <1>1, <1>3, <2>1 DEF StartsWell
  <2>3. Min({x, v}) \in {x, v}
    <3>1. \E a \in {x, v} : \A c \in {x, v} : a <= c
      BY <2>1
    <3> QED
      BY <3>1 DEF Min
  <2>4. Union(u, w) = <<Min({x, v}), Max({y, z})>>
    BY <1>3, <2>1 DEF Union
  <2>5. PICK low, high : low = Min({x, v}) /\ high = Max({y, z})
    OBVIOUS
  <2>6. low \in 0 .. 127 /\ Union(u, w) = <<low, high>>
    BY <2>2, <2>3, <2>4, <2>5
  <2> QED
    BY <2>6 DEF StartsWell
<1> QED
  BY <1>2, <1>3

\* A band that is given an envelope, among others that keep theirs.
EnvelopeSet(d, e) ==
  \A c \in Chans, b \in Bands :
    /\ d[c].env[b] = IF c = ch /\ b = sb THEN e ELSE data[c].env[b]
    /\ d[c].union[b] = data[c].union[b]
LEMMA SetStarts ==
  ASSUME StartInv, NEW e, e = <<InitPoint, InitPoint>> \/ StartsWell(e),
         input' = input, EnvelopeSet(data', e)
  PROVE  StartInv'
<1>1. Chans' = Chans
  BY DEF Chans
<1>2. PICK d : d = data'
  OBVIOUS
<1>3. \A c \in Chans, b \in Bands : Begins(d[c].env[b], d[c].union[b])
  BY <1>2 DEF StartInv, EnvelopeSet, Begins
<1> QED
  BY <1>1, <1>2, <1>3 DEF StartInv

LEMMA KeptStarts ==
  ASSUME StartInv, input' = input,
         \A c \in Chans, b \in Bands :
           data'[c].env[b] = data[c].env[b] /\ data'[c].union[b] = data[c].union[b]
  PROVE  StartInv'
<1>1. Chans' = Chans
  BY DEF Chans
<1> QED
  BY <1>1 DEF StartInv

LEMMA RefitStarts == GhaInv /\ StartInv /\ Refit => StartInv'
<1> SUFFICES ASSUME GhaInv, StartInv, Refit PROVE StartInv'
  OBVIOUS
<1>1. Typed /\ input' = input
  BY DEF GhaInv, Refit, Same
<1>2. PICK w \in Windows, new \in Refitted(Cardinality(Mine)), cont \in BOOLEAN :
       /\ Explains(data[ch].env[sb], w)
       /\ ~(ToTheEnd(w) /\ data[ch].gapless[sb] /\ ~cont)
       /\ data' = [data EXCEPT ![ch].tones[sb] = new, ![ch].env[sb] = Closed(w, cont),
                               ![ch].gapless[sb] = @ \/ (ToTheEnd(w) /\ cont)]
  BY DEF Refit
<1>3. PICK e, g : e = Closed(w, cont) /\ g = (data[ch].gapless[sb] \/ (ToTheEnd(w) /\ cont))
  OBVIOUS
<1>4. data' = [data EXCEPT ![ch].tones[sb] = new, ![ch].env[sb] = e, ![ch].gapless[sb] = g]
  BY <1>2, <1>3
<1>5. EnvelopeSet(data', e)
  <2>1. data \in [Chans -> ChannelData] /\ ch \in Chans /\ sb \in Bands
    BY <1>1 DEF Typed
  <2>2. data[ch] \in ChannelData /\ data[ch].env \in PerBand(Spans)
    BY <2>1, BandFields
  <2>3. /\ data'[ch].env = [data[ch].env EXCEPT ![sb] = e] /\ data'[ch].union = data[ch].union
        /\ \A c \in Chans : c # ch => data'[c] = data[c]
    BY <1>4, <2>1, <2>2 DEF ChannelData
  <2> QED
    BY <2>1, <2>2, <2>3 DEF EnvelopeSet, PerBand
<1>6. StartsWell(e)
  BY <1>3, WindowsStart
<1> QED
  BY <1>1, <1>5, <1>6, SetStarts

LEMMA RollbackStarts == GhaInv /\ StartInv /\ Rollback => StartInv'
<1> SUFFICES ASSUME GhaInv, StartInv, Rollback PROVE StartInv'
  OBVIOUS
<1>1. Typed /\ input' = input
  BY DEF GhaInv, Rollback, Same
<1>2. PICK e \in LeftBehind(data[ch].env[sb]) :
        data' = [data EXCEPT ![ch].tones[sb] = @ \ {data[ch].last[sb]},
                             ![ch].done[sb] = Done, ![ch].env[sb] = e]
  BY DEF Rollback
<1>3. data \in [Chans -> ChannelData] /\ ch \in Chans /\ sb \in Bands
  BY <1>1 DEF Typed
<1>4. PICK rest : rest = data[ch].tones[sb] \ {data[ch].last[sb]}
  OBVIOUS
<1>5. data[ch] \in ChannelData /\ data[ch].env \in PerBand(Spans)
  BY <1>3, BandFields
<1>6. data' = [data EXCEPT ![ch].tones[sb] = rest, ![ch].done[sb] = Done, ![ch].env[sb] = e]
  BY <1>2, <1>3, <1>4, <1>5 DEF ChannelData
<1>7. EnvelopeSet(data', e)
  <2>1. /\ data'[ch].env = [data[ch].env EXCEPT ![sb] = e] /\ data'[ch].union = data[ch].union
        /\ \A c \in Chans : c # ch => data'[c] = data[c]
    BY <1>3, <1>5, <1>6 DEF ChannelData
  <2> QED
    BY <1>3, <1>5, <2>1 DEF EnvelopeSet, PerBand
<1>8. e = <<InitPoint, InitPoint>> \/ StartsWell(e)
  <2>1. CASE e = data[ch].env[sb]
    BY <1>3, <2>1 DEF StartInv, Begins
  <2>2. CASE \E w \in Windows : e = <<w[1], EmptyPoint>>
    BY <2>2, WindowsStart, TRUE \in BOOLEAN
  <2>3. CASE e \in Windows
    BY <2>3, WindowsStart, TRUE \in BOOLEAN
  <2> QED
    BY <2>1, <2>2, <2>3 DEF LeftBehind
<1> QED
  BY <1>1, <1>7, <1>8, SetStarts

LEMMA LookInVainStarts == GhaInv /\ StartInv /\ LookInVain => StartInv'
<1> SUFFICES ASSUME GhaInv, StartInv, LookInVain PROVE StartInv'
  OBVIOUS
<1>1. Typed /\ input' = input /\ data' = [data EXCEPT ![ch].done[sb] = Done]
  BY DEF GhaInv, LookInVain, Same
<1>2. data \in [Chans -> ChannelData] /\ ch \in Chans /\ sb \in Bands
  BY <1>1 DEF Typed
<1>3. data[ch] \in ChannelData
  BY <1>2
<1>4. \A c \in Chans : data'[c].env = data[c].env /\ data'[c].union = data[c].union
  BY <1>1, <1>2, <1>3 DEF ChannelData
<1> QED
  BY <1>1, <1>4, KeptStarts

LEMMA AddToneStarts == GhaInv /\ StartInv /\ AddTone => StartInv'
<1> SUFFICES ASSUME GhaInv, StartInv, AddTone PROVE StartInv'
  OBVIOUS
<1>1. Typed /\ input' = input
  BY SMTT(30) DEF GhaInv, AddTone, Same
<1>2. PICK x \in Indices(Here) :
        /\ data[ch].done[sb] = 0 \/ (~TooClose(sb, x) /\ data[ch].done[sb] < TonesPerBand)
        /\ data' = [data EXCEPT ![ch].tones[sb] = @ \cup {x}, ![ch].last[sb] = x,
                                ![ch].done[sb] = @ + 1]
  BY DEF AddTone
<1>3. data \in [Chans -> ChannelData] /\ ch \in Chans /\ sb \in Bands
  BY <1>1 DEF Typed
<1>4. data[ch] \in ChannelData
  BY <1>3
<1>5. PICK more, count : more = data[ch].tones[sb] \cup {x} /\ count = data[ch].done[sb] + 1
  OBVIOUS
<1>6. data' = [data EXCEPT ![ch].tones[sb] = more, ![ch].last[sb] = x, ![ch].done[sb] = count]
  BY <1>2, <1>3, <1>4, <1>5 DEF ChannelData
<1>7. \A c \in Chans : data'[c].env = data[c].env /\ data'[c].union = data[c].union
  BY <1>3, <1>4, <1>6 DEF ChannelData
<1> QED
  BY <1>1, <1>7, KeptStarts

LEMMA RefineRawStarts == GhaInv /\ StartInv /\ RefineRaw => StartInv'
<1> SUFFICES ASSUME GhaInv, StartInv, RefineRaw PROVE StartInv'
  OBVIOUS
<1>1. Typed /\ input' = input
  BY DEF GhaInv, RefineRaw, Same
<1>2. PICK new \in {is \in SUBSET Indices(Here) : Cardinality(is) = Cardinality(Mine)} :
        data' = [data EXCEPT ![ch].tones[sb] = new]
  BY DEF RefineRaw
<1>3. data \in [Chans -> ChannelData] /\ ch \in Chans /\ sb \in Bands
  BY <1>1 DEF Typed
<1>4. data[ch] \in ChannelData
  BY <1>3
<1>5. \A c \in Chans : data'[c].env = data[c].env /\ data'[c].union = data[c].union
  BY <1>2, <1>3, <1>4 DEF ChannelData
<1> QED
  BY <1>1, <1>5, KeptStarts

LEMMA RefineBandStarts == GhaInv /\ StartInv /\ RefineBand => StartInv'
<1> SUFFICES ASSUME GhaInv, StartInv, RefineBand PROVE StartInv'
  OBVIOUS
<1>1. Typed /\ input' = input
  BY DEF GhaInv, RefineBand, Same
<1>2. data \in [Chans -> ChannelData] /\ ch \in Chans /\ sb \in Bands
  BY <1>1 DEF Typed
<1>3. data[ch] \in ChannelData /\ data[ch].env \in PerBand(Spans)
  BY <1>2, BandFields
<1>4. CASE \E w \in Windows, new \in Refitted(Cardinality(Mine)), cont \in BOOLEAN :
             data' = [data EXCEPT ![ch].tones[sb] = new, ![ch].env[sb] = Closed(w, cont),
                                  ![ch].refined[sb] = TRUE]
  <2>1. PICK w \in Windows, new \in Refitted(Cardinality(Mine)), cont \in BOOLEAN :
             data' = [data EXCEPT ![ch].tones[sb] = new, ![ch].env[sb] = Closed(w, cont),
                                  ![ch].refined[sb] = TRUE]
    BY <1>4
  <2>2. PICK e : e = Closed(w, cont)
    OBVIOUS
  <2>3. data' = [data EXCEPT ![ch].tones[sb] = new, ![ch].env[sb] = e, ![ch].refined[sb] = TRUE]
    BY <2>1, <2>2
  <2>4. /\ data'[ch].env = [data[ch].env EXCEPT ![sb] = e] /\ data'[ch].union = data[ch].union
        /\ \A c \in Chans : c # ch => data'[c] = data[c]
    BY <1>2, <1>3, <2>3 DEF ChannelData
  <2>5. EnvelopeSet(data', e)
    BY <1>2, <1>3, <2>4 DEF EnvelopeSet, PerBand
  <2>6. StartsWell(e)
    BY <2>2, WindowsStart
  <2> QED
    BY <1>1, <2>5, <2>6, SetStarts
<1>5. CASE data' = [data EXCEPT ![ch].env[sb] = <<InitPoint, InitPoint>>]
  <2>1. PICK e : e = <<InitPoint, InitPoint>>
    OBVIOUS
  <2>2. data' = [data EXCEPT ![ch].env[sb] = e]
    BY <1>5, <2>1
  <2>3. /\ data'[ch].env = [data[ch].env EXCEPT ![sb] = e] /\ data'[ch].union = data[ch].union
        /\ \A c \in Chans : c # ch => data'[c] = data[c]
    BY <1>2, <1>3, <2>2 DEF ChannelData
  <2>4. EnvelopeSet(data', e)
    BY <1>2, <1>3, <2>3 DEF EnvelopeSet, PerBand
  <2> QED
    BY <1>1, <2>1, <2>4, SetStarts
<1> QED
  BY <1>4, <1>5, ZenonT(60) DEF RefineBand

LEMMA CommitStarts == GhaInv /\ StartInv /\ Commit => StartInv'
<1> SUFFICES ASSUME GhaInv, StartInv, Commit PROVE StartInv'
  OBVIOUS
<1>1. Typed /\ input' = input
  BY DEF GhaInv, Commit, Same
<1>2. data \in [Chans -> ChannelData] /\ ch \in Chans /\ sb \in Bands
  BY <1>1 DEF Typed
<1>3. data[ch] \in ChannelData /\ data[ch].env \in PerBand(Spans)
  BY <1>2, BandFields
<1>4. PICK u : u = data[ch].union[sb]
  OBVIOUS
<1>5. CASE data[ch].refined[sb] \/ u = << >>
  <2>1. data' = data
    BY <1>4, <1>5 DEF Commit
  <2> QED
    BY <1>1, <2>1, KeptStarts
<1>6. CASE ~(data[ch].refined[sb] \/ u = << >>)
  <2>1. PICK cont \in BOOLEAN : data' = [data EXCEPT ![ch].env[sb] = Closed(u, cont /\ Mine # {})]
    BY <1>4, <1>6 DEF Commit
  <2>2. PICK e : e = Closed(u, cont /\ Mine # {})
    OBVIOUS
  <2>3. data' = [data EXCEPT ![ch].env[sb] = e]
    BY <2>1, <2>2
  <2>4. /\ data'[ch].env = [data[ch].env EXCEPT ![sb] = e] /\ data'[ch].union = data[ch].union
        /\ \A c \in Chans : c # ch => data'[c] = data[c]
    BY <1>2, <1>3, <2>3 DEF ChannelData
  <2>5. EnvelopeSet(data', e)
    BY <1>2, <1>3, <2>4 DEF EnvelopeSet, PerBand
  <2>6. StartsWell(u)
    BY <1>2, <1>4, <1>6 DEF StartInv, Begins
  <2>7. StartsWell(<<u[1], EmptyPoint>>)
    BY <2>6 DEF StartsWell
  <2>8. StartsWell(e)
    BY <2>2, <2>6, <2>7 DEF Closed
  <2> QED
    BY <1>1, <2>5, <2>8, SetStarts
<1> QED
  BY <1>5, <1>6

LEMMA ExtractOneStarts == GhaInv /\ StartInv /\ ExtractOne => StartInv'
<1> SUFFICES ASSUME GhaInv, StartInv, ExtractOne PROVE StartInv'
  OBVIOUS
<1>1. stage = "extract" /\ Typed /\ input' = input
  BY DEF GhaInv, ExtractOne, Same
<1>2. PICK home \in Bands, w \in Windows :
       \E seen \in SUBSET {b \in Bands : b - home \in -1 .. 1 /\ data[ch].done[b] < TonesPerBand} :
         /\ seen # {} /\ ExtractFits(Cardinality(seen))
         /\ \E at \in [seen -> UNION {Indices(Sound[ch][b]) : b \in seen}] :
              /\ \A b \in seen : at[b] \in Indices(Sound[ch][b]) /\ ~TooClose(b, at[b])
              /\ data' = [data EXCEPT
                   ![ch].tones = [b \in Bands |-> IF b \in seen THEN @[b] \cup {at[b]} ELSE @[b]],
                   ![ch].done  = [b \in Bands |-> IF b \in seen THEN @[b] + 1 ELSE @[b]],
                   ![ch].union = [b \in Bands |-> IF b \in seen THEN Union(@[b], w) ELSE @[b]]]
         /\ total' = total + Cardinality(seen)
         /\ NextTurn(progress, total + Cardinality(seen))
  BY Zenon DEF ExtractOne
<1>3. PICK seen, at :
        data' = [data EXCEPT
          ![ch].tones = [b \in Bands |-> IF b \in seen THEN @[b] \cup {at[b]} ELSE @[b]],
          ![ch].done  = [b \in Bands |-> IF b \in seen THEN @[b] + 1 ELSE @[b]],
          ![ch].union = [b \in Bands |-> IF b \in seen THEN Union(@[b], w) ELSE @[b]]]
  <2>1. PICK seen \in SUBSET {b \in Bands : b - home \in -1 .. 1 /\ data[ch].done[b] < TonesPerBand} :
         /\ seen # {} /\ ExtractFits(Cardinality(seen))
         /\ \E at \in [seen -> UNION {Indices(Sound[ch][b]) : b \in seen}] :
              /\ \A b \in seen : at[b] \in Indices(Sound[ch][b]) /\ ~TooClose(b, at[b])
              /\ data' = [data EXCEPT
                   ![ch].tones = [b \in Bands |-> IF b \in seen THEN @[b] \cup {at[b]} ELSE @[b]],
                   ![ch].done  = [b \in Bands |-> IF b \in seen THEN @[b] + 1 ELSE @[b]],
                   ![ch].union = [b \in Bands |-> IF b \in seen THEN Union(@[b], w) ELSE @[b]]]
         /\ total' = total + Cardinality(seen)
         /\ NextTurn(progress, total + Cardinality(seen))
    BY <1>2, Zenon
  <2>2. PICK at \in [seen -> UNION {Indices(Sound[ch][b]) : b \in seen}] :
          data' = [data EXCEPT
            ![ch].tones = [b \in Bands |-> IF b \in seen THEN @[b] \cup {at[b]} ELSE @[b]],
            ![ch].done  = [b \in Bands |-> IF b \in seen THEN @[b] + 1 ELSE @[b]],
            ![ch].union = [b \in Bands |-> IF b \in seen THEN Union(@[b], w) ELSE @[b]]]
    BY <2>1
  <2> QED
    BY <2>2, ZenonT(60)
<1>4. data \in [Chans -> ChannelData] /\ ch \in Chans
  BY <1>1 DEF Typed
<1>5. PICK t2, d2, u2 :
        /\ t2 = [b \in Bands |-> IF b \in seen THEN data[ch].tones[b] \cup {at[b]} ELSE data[ch].tones[b]]
        /\ d2 = [b \in Bands |-> IF b \in seen THEN data[ch].done[b] + 1 ELSE data[ch].done[b]]
        /\ u2 = [b \in Bands |-> IF b \in seen THEN Union(data[ch].union[b], w) ELSE data[ch].union[b]]
  OBVIOUS
<1>7. data[ch] \in ChannelData
  BY <1>4
<1>6. data' = [data EXCEPT ![ch].tones = t2, ![ch].done = d2, ![ch].union = u2]
  BY <1>3, <1>4, <1>5, <1>7 DEF ChannelData
<1>8. /\ data'[ch].env = data[ch].env /\ data'[ch].union = u2
      /\ \A c \in Chans : c # ch => data'[c] = data[c]
  BY <1>4, <1>6, <1>7 DEF ChannelData
<1>9. ASSUME NEW b \in Bands PROVE u2[b] # << >> => StartsWell(u2[b])
  <2>1. data[ch].union[b] # << >> => Closing(data[ch].union[b]) /\ StartsWell(data[ch].union[b])
    BY <1>1, <1>4, Extracting DEF StartInv, Begins
  <2>2. StartsWell(Union(data[ch].union[b], w))
    BY <2>1, UnionStarts
  <2> QED
    BY <1>5, <2>1, <2>2
<1>10. PICK d : d = data'
  OBVIOUS
<1>11. \A c \in Chans, b \in Bands : Begins(d[c].env[b], d[c].union[b])
  <2> TAKE c \in Chans, b \in Bands
  <2>1. Begins(data[c].env[b], data[c].union[b])
    BY DEF StartInv
  <2>2. CASE c = ch
    BY <1>8, <1>9, <1>10, <2>1, <2>2 DEF Begins
  <2>3. CASE c # ch
    BY <1>8, <1>10, <2>1, <2>3
  <2> QED
    BY <2>2, <2>3
<1>12. Chans' = Chans
  BY <1>1 DEF Chans
<1> QED
  BY <1>10, <1>11, <1>12 DEF StartInv

LEMMA FreshStarts ==
  \A b \in Bands : Begins(Fresh.env[b], Fresh.union[b])
<1> TAKE b \in Bands
<1>1. Fresh.union[b] = << >> /\ Fresh.env[b] = IF b = 0 THEN <<InitPoint, InitPoint>> ELSE <<0, 0>>
  BY DEF Fresh
<1>2. StartsWell(<<0, 0>>)
  BY DEF StartsWell
<1> QED
  BY <1>1, <1>2 DEF Begins

LEMMA StartBegins == GhaInit => StartInv
<1> SUFFICES ASSUME GhaInit PROVE StartInv
  OBVIOUS
<1>1. data = [c \in DOMAIN input[1] |-> Fresh] /\ Typed
  BY GhaBegins DEF GhaInit, GhaInv
<1>2. DOMAIN data = Chans
  BY <1>1, ChansAre
<1>3. \A c \in Chans : data[c] = Fresh
  BY <1>1, <1>2
<1> QED
  BY <1>3, FreshStarts DEF StartInv

LEMMA BeginFrameStarts == GhaInv /\ StartInv /\ BeginFrame => StartInv'
<1> SUFFICES ASSUME GhaInv, StartInv, BeginFrame PROVE StartInv'
  OBVIOUS
<1>1. data' = [c \in DOMAIN data |-> Fresh] /\ input' = input /\ Typed
  BY DEF GhaInv, BeginFrame
<1>2. DOMAIN data = Chans
  BY <1>1, ChansAre
<1>3. Chans' = Chans
  BY <1>1 DEF Chans
<1>4. PICK d : d = data'
  OBVIOUS
<1>5. \A c \in Chans : d[c] = Fresh
  BY <1>1, <1>2, <1>4
<1>6. \A c \in Chans, b \in Bands : Begins(d[c].env[b], d[c].union[b])
  BY <1>5, FreshStarts
<1> QED
  BY <1>3, <1>4, <1>6 DEF StartInv

LEMMA StartStep == GhaInv /\ StartInv /\ [GhaNext]_ghaVars => StartInv'
<1> SUFFICES ASSUME GhaInv, StartInv, [GhaNext]_ghaVars PROVE StartInv'
  OBVIOUS
<1>1. CASE SkipDone \/ UsedUp \/ NothingToRefit \/ ExtractNone \/ RefineNothing \/ Fill \/ UNCHANGED ghaVars
  <2>1. data' = data /\ input' = input
    BY <1>1 DEF SkipDone, UsedUp, NothingToRefit, ExtractNone, RefineNothing, Fill, ghaVars, Same
  <2> QED
    BY <2>1, KeptStarts
<1> QED
  BY <1>1, BeginFrameStarts, RefitStarts, RollbackStarts, LookInVainStarts, AddToneStarts,
     ExtractOneStarts, RefineBandStarts, RefineRawStarts, CommitStarts DEF GhaNext, Analysis

\* Only Fill comes to the end.
LEMMA DoneStep == GhaInv /\ DoneInv /\ [GhaNext]_ghaVars => DoneInv'
<1> SUFFICES ASSUME GhaInv, DoneInv, [GhaNext]_ghaVars, stage' = "done", ~(result' = NoTones)
             PROVE  Enveloped(data)' /\ \E stops : result' = FillResultBuf(data', stops)
  BY DEF DoneInv
<1>1. CASE Fill
  <2>1. data' = data /\ stage = "fill" /\ input' = input
    BY <1>1 DEF Fill
  <2>2. Enveloped(data)'
    BY <2>1 DEF GhaInv, FillInv, Enveloped, Chans
  <2>3. total # 0
    BY <1>1 DEF Fill
  <2>4. result' = FillResultBuf(data, history)
    BY <1>1, <2>3 DEF Fill
  <2> QED
    BY <2>1, <2>2, <2>4
<1>2. CASE UNCHANGED ghaVars
  <2>1. data' = data /\ stage' = stage /\ input' = input /\ result' = result
    BY <1>2 DEF ghaVars
  <2>2. Enveloped(data) /\ \E stops : result = FillResultBuf(data, stops)
    BY <2>1 DEF DoneInv
  <2> QED
    BY <2>1, <2>2 DEF Enveloped, Chans
<1>3. CASE BeginFrame
  BY <1>3 DEF BeginFrame, Go
<1>4. CASE SkipDone \/ UsedUp \/ NothingToRefit \/ Refit \/ Rollback \/ LookInVain \/ AddTone
  BY <1>4 DEF SkipDone, UsedUp, NothingToRefit, Refit, Rollback, LookInVain, AddTone, NextBand, EndRound, Go
<1>5. CASE ExtractNone \/ ExtractOne
  BY <1>5 DEF ExtractNone, ExtractOne, NextTurn, Go
<1>6. CASE RefineBand \/ RefineRaw \/ RefineNothing \/ Commit
  BY <1>6 DEF RefineBand, RefineRaw, RefineNothing, Commit, Walk, Go
<1> QED
  BY <1>1, <1>2, <1>3, <1>4, <1>5, <1>6 DEF GhaNext, Analysis

\* What a reader makes of a frame's tonal block is what ApplyFilter takes out of the
\* encoder's own signal, and each channel has its own tones in it, or, in a band all of
\* whose tones the leading channel has as well, the leader's.
THEOREM TonesReadBack == GhaSpec => []TonesRead
<1>1. GhaInit => GhaInv /\ StartInv /\ DoneInv
  <2>1. GhaInit => DoneInv
    BY DEF GhaInit, DoneInv
  <2> QED
    BY <2>1, GhaBegins, StartBegins
<1>2. GhaInv /\ StartInv /\ DoneInv /\ [GhaNext]_ghaVars => (GhaInv /\ StartInv /\ DoneInv)'
  BY GhaStep, StartStep, DoneStep
<1>3. GhaInv /\ StartInv /\ DoneInv => TonesRead
  <2> SUFFICES ASSUME GhaInv, StartInv, DoneInv, stage = "done", ~(result = NoTones)
               PROVE  LET read == ReadTonalBlock(WriteTonalBlock(result))
                      IN /\ read = FilteredTones(result)
                         /\ \A c \in DOMAIN data : \A b \in Bands : Attributed(data, read, c, b)
    BY DEF TonesRead, Attributed, Heard
  <2>1. Typed /\ CountInv
    BY DEF GhaInv
  <2>2. PICK n \in {1, 2} : n = Len(input[1]) /\ Chans = 1 .. n /\ DOMAIN data = 1 .. n
    BY <2>1, ChansAre
  <2>3. data \in [1 .. n -> ChannelData]
    BY <2>1, <2>2 DEF Typed
  <2>4. PICK stops : result = FillResultBuf(data, stops)
    BY DEF DoneInv
  <2>5. FewTones(data, n)
    <3> SUFFICES ASSUME NEW c \in 1 .. n, NEW b \in Bands
                 PROVE  /\ Cardinality(data[c].tones[b]) <= 15
                        /\ data[c].tones[b] # {} => ~Aborts(data[c].env[b]) /\ StartsWell(data[c].env[b])
      BY DEF FewTones
    <3>1. data[c].tones[b] \in ToneSets /\ Within(data, c, b) /\ Begins(data[c].env[b], data[c].union[b])
      BY <2>1, <2>2, <2>3, BandIs DEF CountInv, StartInv
    <3>2. PICK k \in Nat : k = Cardinality(data[c].tones[b])
      BY <3>1, TonesFinite
    <3>3. k <= TonesPerBand /\ TonesPerBand \in Nat /\ TonesPerBand <= 15
      BY <3>1, <3>2, BudgetAssumption DEF Within
    <3>4. data[c].tones[b] # {} => ~Aborts(data[c].env[b])
      BY <2>2 DEF DoneInv, Enveloped
    <3>5. Aborts(<<InitPoint, InitPoint>>)
      BY DEF Aborts, InitPoint, EmptyPoint, FrameSamples
    <3>6. ~Aborts(data[c].env[b]) => StartsWell(data[c].env[b])
      BY <3>1, <3>5 DEF Begins
    <3> QED
      BY <3>2, <3>3, <3>4, <3>6
  <2>6. ReadTonalBlock(WriteTonalBlock(result)) = FilteredTones(result)
    BY <2>3, <2>4, <2>5, ReadIsFiltered
  <2>7. \A c \in 1 .. n, b \in Bands : Attributed(data, FilteredTones(result), c, b)
    BY <2>3, <2>4, <2>5, FilteredAre
  <2> QED
    BY <2>2, <2>6, <2>7
<1> QED
  BY <1>1, <1>2, <1>3, PTL DEF GhaSpec
=============================================================================
