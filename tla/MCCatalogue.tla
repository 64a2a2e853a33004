---------------------------- MODULE MCCatalogue -----------------------------
(***************************************************************************)
(* Products of the live cluster; the new model makes vectors as wide as    *)
(* the old one, or wider.                                                  *)
(***************************************************************************)
EXTENDS Catalogue

WidthsToTry ==
    {[m \in Models |-> IF m = "old" THEN 1 ELSE new] : new \in 1..2}
=============================================================================
