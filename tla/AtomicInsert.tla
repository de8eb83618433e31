---------------------------- MODULE AtomicInsert ----------------------------
(***************************************************************************)
(* What certs::insert_batch (src/store/certs.rs) promises a writer,        *)
(* whatever the writers of other processes do at the same time: a batch    *)
(* goes into the table as a whole or not at all, and the number returned   *)
(* is that of its certificates that were not in the table before. The      *)
(* answer may be lost. Writer!InsertBatch relies on this.                  *)
(***************************************************************************)
EXTENDS Integers, FiniteSets

CONSTANTS Writers, Certs

VARIABLES
    certs,    \* the table
    asked,    \* asked[w]: the certificates w called insert_batch with
    returned  \* returned[w]: the number insert_batch gave the flush of w, 0
              \* when w is not in a flush

atomicVars == <<certs, asked, returned>>

Init ==
    /\ certs = {}
    /\ asked = [w \in Writers |-> {}]
    /\ returned = [w \in Writers |-> 0]

Call(w, S) ==
    /\ asked[w] = {}
    /\ asked' = [asked EXCEPT ![w] = S]
    /\ UNCHANGED <<certs, returned>>

Return(w) == asked' = [asked EXCEPT ![w] = {}]

Insert(w) ==
    /\ certs' = certs \cup asked[w]
    /\ returned' = [returned EXCEPT ![w] = Cardinality(asked[w] \ certs)]
    /\ Return(w)

AnswerLost(w) ==
    /\ certs' = certs \cup asked[w]
    /\ Return(w)
    /\ UNCHANGED returned

Refuse(w) == Return(w) /\ UNCHANGED <<certs, returned>>

EndFlush(w) ==
    /\ returned' = [returned EXCEPT ![w] = 0]
    /\ UNCHANGED <<certs, asked>>

Next ==
    \E w \in Writers :
        \/ \E S \in SUBSET Certs : Call(w, S)
        \/ Insert(w)
        \/ AnswerLost(w)
        \/ Refuse(w)
        \/ EndFlush(w)

Spec == Init /\ [][Next]_atomicVars
=============================================================================
