------------------------------ MODULE JobQueue ------------------------------
(***************************************************************************)
(* The bounded tokio mpsc channel through which jobs (WriterJob) travel    *)
(* from the ingest workers, or the backfill tasks, to the writer.          *)
(***************************************************************************)
EXTENDS CTLogs

CONSTANT ChannelCapacity   \* writer::spawn's capacity (10_000)

ASSUME ChannelAssumption == ChannelCapacity \in Nat \ {0}

VARIABLE chan   \* the jobs sent and not yet received

queueVars == <<chan, faults>>

-----------------------------------------------------------------------------
InChannel(j) == \E k \in 1 .. Len(chan) : chan[k] = j

(* Mutant: one job more than the capacity. *)
HasRoomOffByOne == Len(chan) <= ChannelCapacity

HasRoom == Len(chan) < ChannelCapacity

QueueTypeOK ==
    /\ chan \in Seq(Jobs)
    /\ Len(chan) <= ChannelCapacity
    /\ faults \subseteq Faults

QueueInit == chan = <<>> /\ faults = {}
=============================================================================
