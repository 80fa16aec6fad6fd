------------------------------- MODULE At3Tonal -------------------------------
(***************************************************************************)
(* Tonal components of an ATRAC3 channel: ExtractTonalComponents and       *)
(* MapTonalComponents of atrac3denc.cpp, which take runs of lines out of   *)
(* the spectrum, and GroupTonalComponents and EncodeTonalComponents of     *)
(* atrac/at3/atrac3_bitstream.cpp, which write them; with the reader that  *)
(* the syntax implies. What is kept of a line is its position.             *)
(***************************************************************************)
EXTENDS Rows

CONSTANT BlockSizeTab      \* where each BFU starts, and where the last one ends

MaxTonalLen == 5           \* kMaxTonalLen
MaxCoded    == 7           \* lines to a component, components to 64 lines
TonalBfus   == 8 .. 28

\* What ExtractTonalComponents can select: a few BFUs, and in each of them the
\* heaviest run of at most five lines.
Runs(b) == {r \in [first : BlockSizeTab[b] .. BlockSizeTab[b + 1] - 1, len : 1 .. MaxTonalLen] :
              r.first + r.len <= BlockSizeTab[b + 1]}
IsSelection(tones) ==
  DOMAIN tones \subseteq TonalBfus /\ \A b \in DOMAIN tones : tones[b] \in Runs(b)

\* The lines taken out of the first n BFUs, and the BFU a line is in.
TakenLines(tones, n) ==
  UNION {tones[b].first .. tones[b].first + tones[b].len - 1 : b \in {b \in DOMAIN tones : b < n}}
BfuOf(p) == CHOOSE b \in 0 .. 31 : BlockSizeTab[b] <= p /\ p < BlockSizeTab[b + 1]

\* The components: one for each line taken out, BFU by BFU.
ExtractTonalComponents(tones) ==
  LET lines == Ascending(TakenLines(tones, 32))
  IN [k \in DOMAIN lines |-> [Pos |-> lines[k], Bfu |-> BfuOf(lines[k])]]

\* A loop over 1 .. n in stretches: the next one is of the stretch that is open, if it
\* joins the first of that one and there is room for it, or else begins a stretch.
FirstOf(n, joins, limit) ==
  LET first[k \in 1 .. n] ==
        LET open == first[k - 1]
        IN IF k > 1 /\ open \in joins[k] /\ k - open < limit THEN open ELSE k
  IN first

\* Adjacent lines make a block, across a BFU's border too, up to a limit.
JoinLines(components, limit) ==
  LET adjacent == [k \in DOMAIN components |->
                     {j \in DOMAIN components : components[k].Pos = components[j].Pos + (k - j)}]
      first    == FirstOf(Len(components), adjacent, limit)
      begins   == Ascending({k \in DOMAIN components : first[k] = k})
  IN [b \in DOMAIN begins |->
        [Pos |-> components[begins[b]].Pos, Bfu |-> components[begins[b]].Bfu,
         len |-> Cardinality({k \in DOMAIN components : first[k] = begins[b]})]]

MapWithoutLimit(components)    == JoinLines(components, 1024)
MapTonalComponents(components) == JoinLines(components, MaxCoded)

\* The quantiser that goes with a BFU's word length.
TonalQuant(word) == IF word + 4 > 7 THEN 7 ELSE word + 4

\* The group a block belongs to, by its quantiser and its length.
GroupOf(t, alloc) == TonalQuant(alloc[t.Bfu]) * 8 + t.len

\* The blocks of a group, in their order. One whose BFU the frame does not code is
\* skipped.
Group(blocks, alloc, numBfu, i) ==
  LET at == Ascending({k \in DOMAIN blocks :
                         blocks[k].Bfu < numBfu /\ GroupOf(blocks[k], alloc) = i})
  IN [m \in DOMAIN at |-> blocks[at[m]]]

\* SubGroupMap: where the group is split, for there to be at most seven blocks
\* of a subgroup that start in the same 64 lines.
SubGroupMap(group) ==
  LET near  == [k \in DOMAIN group |->
                  {j \in DOMAIN group : group[k].Pos - 64 * (group[j].Pos \div 64) < 64}]
      first == FirstOf(Len(group), near, MaxCoded)
  IN Ascending({k \in DOMAIN group : k = 1 \/ (first[k] = k /\ first[k - 1] \in near[k])})

SubGroups(group) ==
  LET map == SubGroupMap(group)
  IN [s \in DOMAIN map |->
        SubSeq(group, map[s], IF s = Len(map) THEN Len(group) ELSE map[s + 1] - 1)]

\* The fields of a subgroup: a flag per QMF band, the lengths and the quantiser
\* and, in the bands flagged, how many blocks start in each 64 lines. Where each
\* of them starts is written relative to its 64 lines.
EncodeSubGroup(sub, i) ==
  LET count(j) == Cardinality({k \in DOMAIN sub : sub[k].Pos \div 64 = j})
      flags    == {band \in 0 .. 3 : \E j \in 4 * band .. 4 * band + 3 : count(j) > 0}
  IN [flags  |-> flags,
      coded  |-> (sub[1].len - 1) % 8,
      quant  |-> i \div 8,
      counts |-> [j \in {j \in 0 .. 15 : j \div 4 \in flags} |-> count(j) % 8],
      relPos |-> [k \in DOMAIN sub |-> sub[k].Pos % 64]]

EncodeTonalComponents(blocks, alloc, numBfu) ==
  LET coded == {k \in DOMAIN blocks : blocks[k].Bfu < numBfu}
      order == Ascending({GroupOf(blocks[k], alloc) : k \in coded})
      write(i) == LET subs == SubGroups(Group(blocks, alloc, numBfu, i))
                  IN [s \in DOMAIN subs |-> EncodeSubGroup(subs[s], i)]
  IN Joined([k \in 0 .. Len(order) - 1 |-> write(order[k + 1])], Len(order))

\* bitsUsed, when a line costs vlc[quant] bits.
TonalBits(fields, vlc) ==
  LET bits(s) == 4 + 3 + 3 + 3 * Cardinality(DOMAIN s.counts)
                   + Len(s.relPos) * (12 + (s.coded + 1) * vlc[s.quant])
  IN IF fields = << >> THEN 5
     ELSE 5 + 2 + SumTo([k \in 0 .. Len(fields) - 1 |-> bits(fields[k + 1])], Len(fields))

\* A reader of the fields: which lines each block of each subgroup stands for.
DecodeSubGroup(s) ==
  LET counts   == [j \in 0 .. 15 |-> IF j \in DOMAIN s.counts THEN s.counts[j] ELSE 0]
      at(j) == {k \in DOMAIN s.relPos : SumTo(counts, j) < k /\ k <= SumTo(counts, j + 1)}
      block(j, k) == [Pos |-> 64 * j + s.relPos[k], len |-> s.coded + 1, quant |-> s.quant]
  IN UNION {{block(j, k) : k \in at(j)} : j \in 0 .. 15}
=============================================================================
