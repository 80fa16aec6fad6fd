------------------------------- MODULE MCAt3Gain -------------------------------
(***************************************************************************)
(* At3Gain with sounds that rise and fall, have more changes than there is *)
(* room for, change slowly, lean, end in another level than their target,  *)
(* are faint, silent or without highs.                                     *)
(***************************************************************************)
EXTENDS At3Gain

Steps(levels, len) == [i \in Subframes |-> levels[(i \div len) + 1]]
Of(env, high) == [env |-> env, leaning |-> {}, high |-> high]

MCSounds ==
  [steady |-> Of(Steps(<<12>>, 32), "much"),
   attack |-> Of(Steps(<<8, 13>>, 16), "much"),
   slope  |-> Of(Steps(<<6, 7, 8, 9, 10, 11, 12, 13>>, 4), "much"),
   busy   |-> Of(Steps(<<12, 9, 12, 8, 12, 9, 11, 8, 12, 9, 12, 8, 12, 9, 12, 12>>, 2), "much"),
   rough  |-> [env |-> Steps(<<10, 11, 10, 11, 12, 11, 11, 10>>, 4), leaning |-> {4, 12, 24}, high |-> "much"],
   fading |-> Of(Steps(<<13, 12, 9, 7>>, 8), "much"),
   dim    |-> Of(Steps(<<9, 11>>, 16), "some"),
   faint  |-> Of(Steps(<<2, 4>>, 16), "much"),
   dull   |-> Of(Steps(<<9>>, 32), "none"),
   still  |-> Of(Steps(<<Silent>>, 32), "much")]
=============================================================================
