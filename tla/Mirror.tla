------------------------------- MODULE Mirror -------------------------------
(***************************************************************************)
(* What ctwatch promises of the logs it mirrors, without the tasks, the    *)
(* channel, the batches and the failures. Each log has a position, which   *)
(* survives restarts: everything from where the log is followed up to the  *)
(* position has been taken over. What was taken over may be stored, what   *)
(* is stored may be alerted on and streamed, and nothing is undone.        *)
(* Pipeline implements it.                                                 *)
(***************************************************************************)
EXTENDS Integers, Sequences

CONSTANTS
    Logs,
    Content,      \* Content[l]: what log l publishes, in order
    Undecodable,  \* the entry that cannot be taken over
    Keepable      \* the certificates worth a row: inside the retention

VARIABLES
    published,  \* published[l]: how many entries l has
    position,   \* position[l]: the next entry of l to take over; -1: l is unknown
    from,       \* from[l]: the entry l is followed from
    taken,      \* the entries taken over
    stored,     \* the certificates in the database
    alerted,    \* those a webhook alert was queued for
    streamed    \* those sent to the live stream

mirrorVars == <<published, position, from, taken, stored, alerted, streamed>>

Unknown == -1

EntryOf(t) == Content[t.log][t.index + 1]

-----------------------------------------------------------------------------
Publish(l) ==
    /\ published' = [published EXCEPT ![l] = @ + 1]
    /\ UNCHANGED <<position, from, taken, stored, alerted, streamed>>

Register(l) ==
    /\ position[l] = Unknown
    /\ position' = [position EXCEPT ![l] = 0]
    /\ UNCHANGED <<published, from, taken, stored, alerted, streamed>>

(* A log is followed from some tree head on; older entries are backfilled. *)
Follow(l, p) ==
    /\ position[l] < p /\ p <= published[l]
    /\ position' = [position EXCEPT ![l] = p]
    /\ from' = [from EXCEPT ![l] = p]
    /\ UNCHANGED <<published, taken, stored, alerted, streamed>>

TakeOver(t) ==
    /\ EntryOf(t) # Undecodable
    /\ taken' = taken \cup {t}
    /\ UNCHANGED <<published, position, from, stored, alerted, streamed>>

MoveOn(l, p) ==
    /\ position[l] < p /\ p <= published[l]
    /\ \A i \in 0 .. p - 1 : i >= from[l] => [log |-> l, index |-> i] \in taken
    /\ position' = [position EXCEPT ![l] = p]
    /\ UNCHANGED <<published, from, taken, stored, alerted, streamed>>

Store(S) ==
    /\ S \subseteq {EntryOf(t) : t \in taken} \cap Keepable
    /\ stored' = stored \cup S
    /\ UNCHANGED <<published, position, from, taken, alerted, streamed>>

Alert(c) ==
    /\ c \in stored
    /\ alerted' = alerted \cup {c}
    /\ UNCHANGED <<published, position, from, taken, stored, streamed>>

Stream(S) ==
    /\ S \subseteq stored
    /\ streamed' = streamed \cup S
    /\ UNCHANGED <<published, position, from, taken, stored, alerted>>

-----------------------------------------------------------------------------
Init ==
    /\ published = [l \in Logs |-> 0]
    /\ position = [l \in Logs |-> Unknown]
    /\ from = [l \in Logs |-> 0]
    /\ taken = {} /\ stored = {} /\ alerted = {} /\ streamed = {}

FollowStep(l) ==
    \/ Publish(l)
    \/ Register(l)
    \/ \E p \in 0 .. published[l] : Follow(l, p) \/ MoveOn(l, p)
    \/ \E i \in 0 .. published[l] - 1 : TakeOver([log |-> l, index |-> i])

Next ==
    \/ \E l \in Logs : FollowStep(l)
    \/ \E S \in SUBSET Keepable : Store(S) \/ Stream(S)
    \/ \E c \in Keepable : Alert(c)

Spec == Init /\ [][Next]_mirrorVars
=============================================================================
