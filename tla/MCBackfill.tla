----------------------------- MODULE MCBackfill -----------------------------
(***************************************************************************)
(* A small instance of BackfillTasks for TLC: one log of six entries in    *)
(* order of time, two before the timestamp asked for and two at that very  *)
(* time. The first does not decode: a search told of a log of two looks at *)
(* it. The last does not either, and is left out of the walk.              *)
(***************************************************************************)
EXTENDS BackfillTasks, TLC

CONSTANTS lg, r1, r2, t1, t2, c1, c2, c3

MCCerts == {c1, c2, c3}
MCEntries == lg :> <<Undecodable, c1, c1, c2, c3, Undecodable>>
MCNotBefore == [c \in MCCerts |-> 1]
MCTimeOf == lg :> <<1, 1, 2, 2, 3, 3>>
MCRunOf == (t1 :> r1) @@ (t2 :> r2)
MCTaskLog == (t1 :> lg) @@ (t2 :> lg)

(* The two invocations may change places. *)
MCSymmetry == {(t1 :> t1) @@ (t2 :> t2) @@ (r1 :> r1) @@ (r2 :> r2),
               (t1 :> t2) @@ (t2 :> t1) @@ (r1 :> r2) @@ (r2 :> r1)}
=============================================================================
