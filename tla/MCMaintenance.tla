---------------------------- MODULE MCMaintenance ----------------------------
(***************************************************************************)
(* The constants of Maintenance are numbers: four days, the newest two     *)
(* backups kept, two failures, two changes of health.                      *)
(***************************************************************************)
EXTENDS Maintenance
=============================================================================
