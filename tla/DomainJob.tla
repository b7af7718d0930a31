------------------------------ MODULE DomainJob ------------------------------
(***************************************************************************)
(* The state machine of one conversion job: domain.Job.  Every method      *)
(* takes the job's own lock, so each is a function from the snapshot it    *)
(* finds to the snapshot it leaves.  A method whose guard does not hold    *)
(* returns ErrInvalidTransition (or nothing) and leaves the snapshot       *)
(* alone; callers test the same guard to see which of the two happened.    *)
(*                                                                         *)
(* Page counts, warnings, failure texts and timestamps are left out,       *)
(* except whether StartedAt is set.  The converter's working stages are    *)
(* one value.  Where an artifact is kept is told apart: in the job's own   *)
(* directory (Artifact.Path) or in the bucket (Artifact.StorageKey).       *)
(***************************************************************************)

Terminal == {"succeeded", "failed", "canceled"}

Statuses == {"absent", "queued", "processing"} \cup Terminal

Stages == {"waiting", "preflight", "working", "completed", "failed", "canceled"}

Artifacts == {"none", "local", "stored"}

Snapshots == [status : Statuses, stage : Stages,
              started : BOOLEAN, artifact : Artifacts]

\* A job identifier for which NewJob has not run.
Absent == [status |-> "absent", stage |-> "waiting",
           started |-> FALSE, artifact |-> "none"]

NewJob == [status |-> "queued", stage |-> "waiting",
           started |-> FALSE, artifact |-> "none"]

CanStart(s) == s.status = "queued"

Start(s) ==
    IF CanStart(s)
    THEN [s EXCEPT !.status = "processing", !.stage = "preflight", !.started = TRUE]
    ELSE s

\* Mutated form: progress is taken from a job in any status.
ReportAnyStatus(s) == [s EXCEPT !.stage = "working"]

ReportProgress(s) ==
    IF s.status = "processing" THEN [s EXCEPT !.stage = "working"] ELSE s

\* Mutated form: a job that ended meanwhile can still succeed.
CanSucceedAnyStatus(s) == TRUE

CanSucceed(s) == s.status = "processing"

Succeed(s, a) ==
    IF CanSucceed(s)
    THEN [s EXCEPT !.status = "succeeded", !.stage = "completed", !.artifact = a]
    ELSE s

\* Mutated form: a job that is being converted cannot be failed or canceled.
OpenWhileQueued(s) == s.status = "queued"

\* The guard Fail and Cancel share.
Open(s) == s.status \in {"queued", "processing"}

Fail(s) ==
    IF Open(s)
    THEN [s EXCEPT !.status = "failed", !.stage = "failed", !.artifact = "none"]
    ELSE s

Cancel(s) ==
    IF Open(s)
    THEN [s EXCEPT !.status = "canceled", !.stage = "canceled", !.artifact = "none"]
    ELSE s
=============================================================================
