---------------------------- MODULE MCDisclosures ----------------------------
(***************************************************************************)
(* The constants of Disclosures are numbers: two pages of two disclosures, *)
(* a day with five of them, two days, two failures.                        *)
(***************************************************************************)
EXTENDS Disclosures
=============================================================================
