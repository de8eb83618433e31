------------------------------ MODULE MCStream ------------------------------
(***************************************************************************)
(* A small instance of Stream for TLC: the client a asks for no domain in  *)
(* particular, b for d. The first event is not of d.                       *)
(***************************************************************************)
EXTENDS Stream, TLC

CONSTANTS a, b, d, f

MCDomainsOf == [i \in 1 .. MaxEvents |-> IF i = 1 THEN {f} ELSE {d, f}]
MCAsked == [c \in Clients |-> IF c = b THEN {d} ELSE {}]
=============================================================================
