----------------------------- MODULE MCWatchList -----------------------------
(***************************************************************************)
(* A small instance of WatchList: a registered domain in two spellings and *)
(* a host name that has none.                                              *)
(***************************************************************************)
EXTENDS WatchList, TLC

CONSTANTS upper, lower, host

MCLower == (upper :> lower) @@ (lower :> lower) @@ (host :> host)
MCReg == (upper :> upper) @@ (lower :> lower) @@ (host :> NoDomain)
MCContents == {{}, {upper}, {lower, host}}
=============================================================================
