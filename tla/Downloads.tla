------------------------------- MODULE Downloads -------------------------------
(***************************************************************************)
(* Downloads in front of the manager.  A request looks the job up, takes a  *)
(* snapshot, and answers with a signed URL or with the file; neither the    *)
(* look nor the URL holds anything, so the worker, the retention timer and  *)
(* shutdown go on between its steps.  Downloads change nothing there.       *)
(***************************************************************************)
EXTENDS JobManager

CONSTANT Readers    \* downloads under way at the same time

VARIABLE reader     \* download -> [at, job, artifact]

Waiting == [at |-> "idle", job |-> NoJob, artifact |-> "none"]

DownloadInit == Init /\ reader = [r \in Readers |-> Waiting]

Advance(r, place) == reader' = [reader EXCEPT ![r].at = place]

\* Manager.get finds the entry under the lock, or the answer is a 404.
Lookup(r, j) ==
    /\ reader[r].at = "idle"
    /\ j \in jobs
    /\ reader' = [reader EXCEPT ![r] = [at |-> "found", job |-> j, artifact |-> "none"]]
    /\ UNCHANGED vars

\* Mutated form: any artifact of a job, whatever became of the job.
DownloadableAnyStatus(s) == s.status # "queued"

Downloadable(s) == s.status = "succeeded" /\ s.artifact # "none"

\* The snapshot, taken after the lock was left; a stored artifact gets its
\* URL signed, which may fail.
TakeSnapshot(r) ==
    LET s == snap[reader[r].job] IN
    /\ reader[r].at = "found"
    /\ \/ /\ Downloadable(s)
          /\ reader' = [reader EXCEPT ![r].at = "answered", ![r].artifact = s.artifact]
       \/ /\ ~Downloadable(s) \/ s.artifact = "stored"
          /\ reader' = [reader EXCEPT ![r] = Waiting]
    /\ UNCHANGED vars

Present(r) ==
    \/ reader[r].artifact = "stored" /\ reader[r].job \in bucket
    \/ reader[r].artifact = "local" /\ "output" \in disk[reader[r].job]

\* The handler opens the file, or the browser follows the URL to the store.
Fetch(r) ==
    /\ reader[r].at = "answered"
    /\ Advance(r, IF Present(r) THEN "served" ELSE "gone")
    /\ UNCHANGED vars

\* The next download.
Leave(r) ==
    /\ reader[r].at \in {"served", "gone"}
    /\ reader' = [reader EXCEPT ![r] = Waiting]
    /\ UNCHANGED vars

DownloadStep(r) ==
    \/ \E j \in Jobs : Lookup(r, j)
    \/ TakeSnapshot(r)
    \/ Fetch(r)
    \/ Leave(r)

DownloadNext ==
    \/ Next /\ UNCHANGED reader
    \/ \E r \in Readers : DownloadStep(r)

DownloadSpec == DownloadInit /\ [][DownloadNext]_<<vars, reader>>

FairDownloadSpec == DownloadSpec /\ Fairness

-----------------------------------------------------------------------------
(* Properties. *)

\* A download that was answered with a file or a URL gets its EPUB, unless the
\* retention of the job or the shutdown has begun meanwhile.
AnsweredIsServed ==
    \A r \in Readers : reader[r].at = "gone" =>
        timer[reader[r].job] \in {"deleted", "fired"} \/ closer = "closed"
=============================================================================
