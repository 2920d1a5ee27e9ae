------------------------ MODULE MCConnectionWrapper ------------------------
(***************************************************************************)
(* Instances of ConnectionWrapper for TLC.                                 *)
(***************************************************************************)
EXTENDS ConnectionWrapper

\* Two attempts, the fewest with one that is neither the first nor the last, and
\* max_retries = -1, which passes NewConfig.
TwoOrNegative == {2, -1}
=============================================================================
