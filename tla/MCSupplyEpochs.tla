--------------------------- MODULE MCSupplyEpochs ---------------------------
(***************************************************************************)
(* Four days of one hub, a clock unit a day: an epoch closes after two     *)
(* events or two days, and a proof is kept for two days.                   *)
(***************************************************************************)
EXTENDS SupplyEpochs
=============================================================================
