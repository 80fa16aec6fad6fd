---------------------------- MODULE MCPcmPipeline ----------------------------
(***************************************************************************)
(* PcmPipeline at one 256th of the scale: blocks of 16 samples for 4096,   *)
(* and the three codecs' 2, 4 and 8 samples for 512, 1024 and 2048, so 8,  *)
(* 4 and 2 steps to a block. Inputs end everywhere in the first three      *)
(* blocks; the length announced is right, one off, or a block too much.    *)
(***************************************************************************)
EXTENDS PcmPipeline

MCCodecs == {[step |-> 2, lookAhead |-> 0],     \* ATRAC1
             [step |-> 4, lookAhead |-> 1],     \* ATRAC3
             [step |-> 8, lookAhead |-> 1]}     \* ATRAC3plus
MCLengths == 0 .. 48
MCErrors  == {-1, 0, 1, 17}
=============================================================================
