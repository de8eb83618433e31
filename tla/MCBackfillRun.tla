---------------------------- MODULE MCBackfillRun ----------------------------
(***************************************************************************)
(* A small instance of BackfillRun for TLC: two logs that share c1, each   *)
(* with two entries of the window: one job more in all than the channel    *)
(* and a batch hold.                                                       *)
(***************************************************************************)
EXTENDS BackfillRun, TLC

CONSTANTS la, lb, run, ta, tb, c1, c2, c3

MCCerts == {c1, c2, c3}
MCEntries == (la :> <<c1, c2>>) @@ (lb :> <<c1, c3>>)
MCNotBefore == [c \in MCCerts |-> 2]
MCTimeOf == (la :> <<2, 2>>) @@ (lb :> <<2, 3>>)
MCRunOf == (ta :> run) @@ (tb :> run)
MCTaskLog == (ta :> la) @@ (tb :> lb)
MCNoNames == [c \in MCCerts |-> {}]
MCEmptyList == {{}}
=============================================================================
