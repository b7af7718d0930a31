----------------------------- MODULE JobLifecycle -----------------------------
(***************************************************************************)
(* What the job manager promises about the jobs it accepts, without its    *)
(* goroutines, locks, files or callbacks: a bounded line of jobs, of which *)
(* only the first is ever converted, in the order in which they came; each *)
(* ends once, and leaves the line after it has ended.                      *)
(***************************************************************************)
EXTENDS Naturals, Sequences

CONSTANTS
    Jobs,
    Capacity   \* the jobs waiting and the one being converted

VARIABLES
    phase,     \* the status a client sees, "absent" before the job is accepted
    line,      \* accepted jobs that have not left the converter yet, in order
    shut       \* no job is accepted any more

lineVars == <<phase, line, shut>>

Ended == {"succeeded", "failed", "canceled"}

LineInit ==
    /\ phase = [j \in Jobs |-> "absent"]
    /\ line = << >>
    /\ shut = FALSE

Accept(j) ==
    /\ ~shut
    /\ phase[j] = "absent"
    /\ Len(line) < Capacity
    /\ phase' = [phase EXCEPT ![j] = "queued"]
    /\ line' = Append(line, j)
    /\ UNCHANGED shut

BeginFirst ==
    /\ line # << >> /\ phase[Head(line)] = "queued"
    /\ phase' = [phase EXCEPT ![Head(line)] = "processing"]
    /\ UNCHANGED <<line, shut>>

EndFirst ==
    /\ line # << >> /\ phase[Head(line)] = "processing"
    /\ \E s \in {"succeeded", "failed"} : phase' = [phase EXCEPT ![Head(line)] = s]
    /\ UNCHANGED <<line, shut>>

CancelOne(j) ==
    /\ phase[j] \in {"queued", "processing"}
    /\ phase' = [phase EXCEPT ![j] = "canceled"]
    /\ UNCHANGED <<line, shut>>

LeaveFirst ==
    /\ line # << >> /\ phase[Head(line)] \in Ended
    /\ line' = Tail(line)
    /\ UNCHANGED <<phase, shut>>

Shut ==
    /\ ~shut
    /\ shut' = TRUE
    /\ phase' = [j \in Jobs |-> IF phase[j] \in {"queued", "processing"}
                                THEN "canceled" ELSE phase[j]]
    /\ UNCHANGED line

LineNext ==
    \/ \E j \in Jobs : Accept(j) \/ CancelOne(j)
    \/ BeginFirst
    \/ EndFirst
    \/ LeaveFirst
    \/ Shut

LineSpec == LineInit /\ [][LineNext]_lineVars
=============================================================================
