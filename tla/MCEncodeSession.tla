-------------------------- MODULE MCEncodeSession --------------------------
(***************************************************************************)
(* EncodeSession with all combinations of codec, container and suffix, and *)
(* with real sizes of headers and frames. Words of 13 bits bring the three *)
(* limits of a RIFF file within nine frames: ATRAC3plus exceeds its size   *)
(* with four, ATRAC3 with eight at the highest bitrate, and at the lowest  *)
(* ones its samples do so first. An announced length may fall short of the *)
(* real one, exceed it, not fit the file or wrap.                          *)
(***************************************************************************)
EXTENDS EncodeSession

MCWord32 == 8192

Ask(codecs, bitrates, options, announced) ==
  [codec : codecs, requested : Containers \cup {"auto"}, suffix : Suffixes,
   bitrate : bitrates, optionsParse : options, announced : announced]

MCRequests ==
  LET lengths == {0, 4095, 10000, 20000, 8193 * 1024}
  IN Ask({"atrac1"}, {0}, {TRUE}, {10000})
     \cup Ask({"atrac3"}, {0, 64, 344}, {TRUE}, lengths)
     \cup Ask({"atrac3plus"}, {0}, BOOLEAN, lengths)

\* Every bitrate the option takes, and two it does not.
BitrateRequests == Ask({"atrac3"}, {31} \cup 32 .. 384 \cup {385}, {TRUE}, {4096})

\* A RM file of an input as long as announced.
RmRequests ==
  {r \in Ask({"atrac3"}, {0}, {TRUE}, {4096}) : r.requested = "rm" /\ r.suffix = "rm"}
=============================================================================
