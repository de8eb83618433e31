----------------------------- MODULE MCPipeline -----------------------------
(***************************************************************************)
(* Small instances of Pipeline for TLC: one log, three certificates. c1 is *)
(* logged twice, c2 is dated before c1, c3 is older than the retention     *)
(* cutoff. Every watch list matches c1; c2 also matches d2's.              *)
(***************************************************************************)
EXTENDS Pipeline, TLC

CONSTANTS lg, w1, w2, c1, c2, c3, n1, n2, d1, d2

MCCerts == {c1, c2, c3}
MCNotBefore == (c1 :> 5) @@ (c2 :> 4) @@ (c3 :> 1)
MCNamesOf == (c1 :> {n1}) @@ (c2 :> {n1, n2}) @@ (c3 :> {n2})
MCDomainsOf == (c1 :> {d1}) @@ (c2 :> {d1, d2}) @@ (c3 :> {d2})
MCNoNamesOf == [c \in MCCerts |-> {}]
MCOneWatchList == {{d1}}
MCWatchLists == {{d1}, {d1, d2}}

MCOneWorker == w1 :> lg
MCTwoWorkers == (w1 :> lg) @@ (w2 :> lg)

(* The entries of the log, one choice per run. *)
MCServe == lg :> <<Ignored, c3, c1, c2, c1>>
MCSparse == lg :> <<Ignored, c1, Undecodable>>
=============================================================================
