--------------------------- MODULE MCSharedTables ---------------------------
(***************************************************************************)
(* A small instance of SharedTables: `serve` and one backfill, which meet  *)
(* c1 and c2 in opposite orders. c1 is the older one: from the next day on *)
(* it makes no row.                                                        *)
(***************************************************************************)
EXTENDS SharedTables, TLC

CONSTANTS serve, backfill, c1, c2, n1

MCBatches == (serve :> {<<c1, c2>>, <<c2, c2>>}) @@ (backfill :> {<<>>, <<c2, c1>>})
MCNamesOf == (c1 :> {n1}) @@ (c2 :> {n1})
MCNotBefore == (c1 :> 0) @@ (c2 :> 1)
=============================================================================
