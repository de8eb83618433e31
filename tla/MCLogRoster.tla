---------------------------- MODULE MCLogRoster ----------------------------
(***************************************************************************)
(* Small instances of LogRoster.                                           *)
(***************************************************************************)
EXTENDS LogRoster, TLC

CONSTANTS l1, l2, l3
=============================================================================
