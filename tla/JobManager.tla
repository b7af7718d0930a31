------------------------------ MODULE JobManager ------------------------------
(***************************************************************************)
(* app.Manager: the upload handlers that submit jobs, the bounded channel  *)
(* and its slots, the one worker goroutine, the handlers that cancel, the  *)
(* retention timers and the shutdown, as processes that interleave at the  *)
(* points where the code takes or leaves a lock, sends, receives or calls  *)
(* out.  A critical section under Manager.mu or Job.mu is one step.        *)
(*                                                                         *)
(* The converter, the object store and the two billing callbacks are       *)
(* outside: each call is one step that returns any answer it may return.   *)
(* The store may keep an object although Publish or Delete returned an     *)
(* error (the request was served and its answer lost or cut off).          *)
(*                                                                         *)
(* Left out: who owns a job (the owner checks only refuse), activeID       *)
(* (written by the worker, read by nobody) and the conversion mode.        *)
(* Downloads are in a module of their own.                                 *)
(***************************************************************************)
EXTENDS DomainJob, Naturals, Sequences, FiniteSets

CONSTANTS
    Jobs,           \* job identifiers; randomID never returns one twice
    Cancelers,      \* requests that cancel a job, running at the same time
    NoJob,          \* what a process that handles no job points to
    QueueCapacity,  \* ManagerConfig.QueueCapacity
    Public,         \* public mode: billing callbacks, and a required store
    HasStore        \* ManagerConfig.ArtifactStore is not nil

ASSUME CapacityAssumption == QueueCapacity \in Nat
ASSUME NoJobAssumption == NoJob \notin Jobs
\* config.Load refuses public mode without R2.
ASSUME StoreAssumption == Public \in BOOLEAN /\ HasStore \in BOOLEAN /\ (Public => HasStore)

VARIABLES
    snap,      \* [Jobs -> Snapshots]: managedJob.job
    submit,    \* where the SubmitFor call that owns the identifier is
    slots,     \* len(m.slots)
    queue,     \* m.queue
    closed,    \* m.closed; m.queue is closed in the same critical section
    jobs,      \* the keys of m.jobs
    cancelFn,  \* managedJob.cancel: nil, or the state of its context
    worker,    \* where the worker goroutine is
    current,   \* the job the worker handles
    product,   \* the worker's result.Artifact
    done,      \* jobs whose done channel is closed
    timer,     \* the AfterFunc of finish
    cancel,    \* where a call of cancel is
    target,    \* the job that call is about
    closer,    \* where Close is
    disk,      \* the files in a job's directory
    bucket,    \* jobs whose EPUB is an object of the store
    stray,     \* objects the store kept although it answered with an error
    outcomes,  \* the statuses passed to OnJobOutcome for a job, in order
    acked      \* jobs for which a cancel returned nil

clientVars == <<submit, jobs, closed, closer, cancel, target, acked>>
handVars == <<current, product>>
endVars == <<done, timer>>
storeVars == <<disk, bucket, stray>>
vars == <<clientVars, handVars, endVars, storeVars, snap, slots, queue, cancelFn,
          worker, outcomes>>

-----------------------------------------------------------------------------
(* Vocabulary. *)

\* make(chan struct{}, QueueCapacity+1), for the slots and for the queue.
Capacity == QueueCapacity + 1

SubmitStates == {"idle", "checked", "admitted", "authorized", "staged",
                 "aborting", "releasing", "accepted", "rejected"}

\* The states in which SubmitFor must give its slot back if it fails.
Admitted == {"admitted", "authorized", "staged", "aborting", "releasing"}

WorkerStates == {"idle", "check", "attach", "start", "convert", "converted",
                 "publish", "succeed", "drop", "remove", "finish", "release",
                 "signal", "exited"}

\* The states in which the worker has dequeued a job and not yet released it.
Occupied == WorkerStates \ {"idle", "signal", "exited"}

Files == {"source", "output"}

Queued == {queue[i] : i \in 1..Len(queue)}

\* The jobs that hold a slot, wherever they are.
Holders == {j \in Jobs : submit[j] \in Admitted}
           \cup Queued
           \cup (IF worker \in Occupied THEN {current} ELSE {})

Init ==
    /\ snap = [j \in Jobs |-> Absent]
    /\ submit = [j \in Jobs |-> "idle"]
    /\ slots = 0
    /\ queue = << >>
    /\ closed = FALSE
    /\ jobs = {}
    /\ cancelFn = [j \in Jobs |-> "nil"]
    /\ worker = "idle"
    /\ current = NoJob
    /\ product = "none"
    /\ done = {}
    /\ timer = [j \in Jobs |-> "off"]
    /\ cancel = [c \in Cancelers |-> "idle"]
    /\ target = [c \in Cancelers |-> NoJob]
    /\ closer = "running"
    /\ disk = [j \in Jobs |-> {}]
    /\ bucket = {}
    /\ stray = {}
    /\ outcomes = [j \in Jobs |-> << >>]
    /\ acked = {}

-----------------------------------------------------------------------------
(* SubmitFor. *)

\* What no step of SubmitFor touches.
SubmitFrame == UNCHANGED <<handVars, endVars, closed, closer, cancel, target,
                           acked, cancelFn, worker, bucket, stray>>

Goto(j, place) == submit' = [submit EXCEPT ![j] = place]

BeginSubmit(j) ==
    /\ submit[j] = "idle"
    /\ ~closed
    /\ Goto(j, "checked")
    /\ SubmitFrame /\ UNCHANGED <<snap, slots, queue, jobs, disk, outcomes>>

\* Mutated form: one more submission is admitted than the queue can hold.
SlotFreeOffByOne == slots <= Capacity

SlotFree == slots < Capacity

\* The select with a default: a full manager answers ErrBusy, and the client
\* may come back later (no identifier has been drawn yet).
TakeSlot(j) ==
    /\ submit[j] = "checked"
    /\ \/ SlotFree /\ slots' = slots + 1 /\ Goto(j, "admitted")
       \/ ~SlotFree /\ slots' = slots /\ Goto(j, "idle")
    /\ SubmitFrame /\ UNCHANGED <<snap, queue, jobs, disk, outcomes>>

\* AuthorizeJob charges a credit or refuses; private mode has no such callback.
Authorize(j) ==
    /\ submit[j] = "admitted"
    /\ Goto(j, "authorized") \/ (Public /\ Goto(j, "releasing"))
    /\ SubmitFrame /\ UNCHANGED <<snap, slots, queue, jobs, disk, outcomes>>

\* Mkdir and writeLimitedFile: the copy is complete, or nothing of it is left.
\* Once Close has removed the work directory, Mkdir fails.
Stage(j) ==
    /\ submit[j] = "authorized"
    /\ \/ /\ closer # "closed"
          /\ snap' = [snap EXCEPT ![j] = NewJob]
          /\ disk' = [disk EXCEPT ![j] = {"source"}]
          /\ Goto(j, "staged")
       \/ Goto(j, "aborting") /\ UNCHANGED <<snap, disk>>
    /\ SubmitFrame /\ UNCHANGED <<slots, queue, jobs, outcomes>>

\* Mutated form: the closed flag is not looked at again under the lock.
StillOpenUnchecked == TRUE

StillOpen == ~closed

\* The critical section that registers the job and sends it, with m.mu held:
\* the send blocks, and the manager with it, unless the channel has room.
Enqueue(j) ==
    /\ submit[j] = "staged"
    /\ \/ /\ StillOpen
          /\ Len(queue) < Capacity
          /\ jobs' = jobs \cup {j}
          /\ queue' = Append(queue, j)
          /\ Goto(j, "accepted")
          /\ UNCHANGED disk
       \/ /\ ~StillOpen
          /\ disk' = [disk EXCEPT ![j] = {}]
          /\ Goto(j, "aborting")
          /\ UNCHANGED <<jobs, queue>>
    /\ SubmitFrame /\ UNCHANGED <<snap, slots, outcomes>>

\* notifyOutcome: nothing in private mode.
Notify(j, status) ==
    outcomes' = IF Public THEN [outcomes EXCEPT ![j] = Append(@, status)] ELSE outcomes

\* Mutated form: accepted and releaseSlot are not set when the job is queued.
FailedForgotten(j) == submit[j] \in {"aborting", "accepted"}

\* authorized && !accepted, once SubmitFor returns.
Failed(j) == submit[j] = "aborting"

\* The deferred notification of a submission that fails after AuthorizeJob.
AbortSubmit(j) ==
    /\ Failed(j)
    /\ Notify(j, "failed")
    /\ Goto(j, "releasing")
    /\ SubmitFrame /\ UNCHANGED <<snap, slots, queue, jobs, disk>>

\* The deferred receive that gives the slot back; it would block on an empty
\* channel.
ReleaseSubmit(j) ==
    /\ submit[j] = "releasing"
    /\ slots > 0
    /\ slots' = slots - 1
    /\ Goto(j, "rejected")
    /\ SubmitFrame /\ UNCHANGED <<snap, queue, jobs, disk, outcomes>>

-----------------------------------------------------------------------------
(* worker and run. *)

Dequeue ==
    /\ worker = "idle"
    /\ queue # << >>
    /\ current' = Head(queue)
    /\ queue' = Tail(queue)
    /\ worker' = "check"
    /\ UNCHANGED <<clientVars, product, endVars, storeVars, snap, slots,
                   cancelFn, outcomes>>

\* range over a closed and drained channel ends.
ExitWorker ==
    /\ worker = "idle"
    /\ queue = << >>
    /\ closed
    /\ worker' = "exited"
    /\ UNCHANGED <<clientVars, handVars, endVars, storeVars, snap, slots, queue,
                   cancelFn, outcomes>>

CheckCanceled ==
    /\ worker = "check"
    /\ worker' = IF snap[current].status = "canceled" THEN "remove" ELSE "attach"
    /\ UNCHANGED <<clientVars, handVars, endVars, storeVars, snap, slots, queue,
                   cancelFn, outcomes>>

\* The job gets its context with a deadline, and its cancel function.
Attach ==
    /\ worker = "attach"
    /\ cancelFn' = [cancelFn EXCEPT ![current] = "live"]
    /\ worker' = "start"
    /\ UNCHANGED <<clientVars, handVars, endVars, storeVars, snap, slots, queue,
                   outcomes>>

\* When Start fails, run goes straight to finish: the directory stays.
Started(s) == IF CanStart(s) THEN "convert" ELSE "finish"

StartJob ==
    /\ worker = "start"
    /\ snap' = [snap EXCEPT ![current] = Start(@)]
    /\ worker' = Started(snap[current])
    /\ UNCHANGED <<clientVars, handVars, endVars, storeVars, slots, queue,
                   cancelFn, outcomes>>

\* The converter reports a stage while it works.
Report ==
    /\ worker = "convert"
    /\ snap' = [snap EXCEPT ![current] = ReportProgress(@)]
    /\ UNCHANGED <<clientVars, handVars, endVars, storeVars, slots, queue,
                   cancelFn, worker, outcomes>>

\* The converter returns an EPUB or an error; whether the context was done
\* by then or not, it may do either, and it may leave intermediate files.
Convert ==
    /\ worker = "convert"
    /\ worker' = "converted"
    /\ product' \in {"local", "none"}
    /\ disk' = [disk EXCEPT ![current] = @ \cup {"output"}]
    /\ UNCHANGED <<clientVars, current, endVars, bucket, stray, snap, slots,
                   queue, cancelFn, outcomes>>

\* A canceled job and a failed conversion both end with the removal of the
\* directory (Fail leaves a canceled job canceled).
AfterConvert ==
    /\ worker = "converted"
    /\ \/ /\ snap[current].status = "canceled" \/ product = "none"
          /\ snap' = [snap EXCEPT ![current] = Fail(@)]
          /\ worker' = "remove"
       \/ /\ snap[current].status # "canceled" /\ product = "local"
          /\ worker' = IF HasStore THEN "publish" ELSE "succeed"
          /\ UNCHANGED snap
    /\ UNCHANGED <<clientVars, handVars, endVars, storeVars, slots, queue,
                   cancelFn, outcomes>>

\* Publish stores the EPUB and the local copy goes; or it returns an error,
\* whether the object landed or not, which fails the job where the store is
\* required and falls back on the local copy elsewhere.
Publish ==
    /\ worker = "publish"
    /\ \/ /\ bucket' = bucket \cup {current}
          /\ product' = "stored"
          /\ disk' = [disk EXCEPT ![current] = {}]
          /\ worker' = "succeed"
          /\ UNCHANGED <<snap, stray>>
       \/ /\ \E landed \in SUBSET {current} :
                bucket' = bucket \cup landed /\ stray' = stray \cup landed
          /\ \/ Public /\ snap' = [snap EXCEPT ![current] = Fail(@)] /\ worker' = "remove"
             \/ ~Public /\ snap' = snap /\ worker' = "succeed"
          /\ UNCHANGED <<product, disk>>
    /\ UNCHANGED <<clientVars, current, endVars, slots, queue, cancelFn, outcomes>>

\* Mutated form: the EPUB goes together with the source.
RemovedEverything == Files

\* os.Remove(sourcePath).
RemovedOnSuccess == {"source"}

SucceedJob ==
    /\ worker = "succeed"
    /\ disk' = [disk EXCEPT ![current] = @ \ RemovedOnSuccess]
    /\ snap' = [snap EXCEPT ![current] = Succeed(@, product)]
    /\ worker' = IF CanSucceed(snap[current]) THEN "finish" ELSE "drop"
    /\ UNCHANGED <<clientVars, handVars, endVars, bucket, stray, slots, queue,
                   cancelFn, outcomes>>

\* deleteStoredArtifact: the object goes, or the error is only logged.
DeleteObjects(keys) ==
    \E kept \in SUBSET (keys \cap bucket) :
        /\ bucket' = (bucket \ keys) \cup kept
        /\ stray' = stray \cup kept

\* Mutated form: the object of a job that can no longer succeed is left.
DroppedNothing == {}

Dropped == IF product = "stored" THEN {current} ELSE {}

\* The job was canceled after the conversion: its object is deleted again.
Drop ==
    /\ worker = "drop"
    /\ DeleteObjects(Dropped)
    /\ worker' = "remove"
    /\ UNCHANGED <<clientVars, handVars, endVars, disk, snap, slots, queue,
                   cancelFn, outcomes>>

\* Mutated form: only the output goes.
RemovedOutput == {"output"}

\* os.RemoveAll(jobDir).
Removed == Files

Remove ==
    /\ worker = "remove"
    /\ disk' = [disk EXCEPT ![current] = @ \ Removed]
    /\ worker' = "finish"
    /\ UNCHANGED <<clientVars, handVars, endVars, bucket, stray, snap, slots,
                   queue, cancelFn, outcomes>>

-----------------------------------------------------------------------------
(* finish: snapshot and notification, the slot, the done channel and timer. *)

FinishNotify ==
    /\ worker = "finish"
    /\ Notify(current, snap[current].status)
    /\ worker' = "release"
    /\ UNCHANGED <<clientVars, handVars, endVars, storeVars, snap, slots, queue,
                   cancelFn>>

\* Mutated form: finish does not receive from the slots channel.
SlotsNotReleased == slots

SlotsReleased == slots - 1

FinishRelease ==
    /\ worker = "release"
    /\ slots > 0
    /\ slots' = SlotsReleased
    /\ worker' = "signal"
    /\ UNCHANGED <<clientVars, handVars, endVars, storeVars, snap, queue,
                   cancelFn, outcomes>>

\* Mutated form: the done channel of a job is not closed.
DoneNotClosed == done

DoneClosed == done \cup {current}

\* cancel(): a context that is already done stays as it is.
Canceled(context) == IF context = "live" THEN "canceled" ELSE context

\* close(done), time.AfterFunc, and the deferred cancel of run.
FinishSignal ==
    /\ worker = "signal"
    /\ done' = DoneClosed
    /\ timer' = [timer EXCEPT ![current] = "armed"]
    /\ cancelFn' = [cancelFn EXCEPT ![current] = Canceled(@)]
    /\ worker' = "idle"
    /\ current' = NoJob
    /\ product' = "none"
    /\ UNCHANGED <<clientVars, storeVars, snap, slots, queue, outcomes>>

\* The deadline of a job's context passes (JobTimeout).
Expire(j) ==
    /\ cancelFn[j] = "live"
    /\ cancelFn' = [cancelFn EXCEPT ![j] = "expired"]
    /\ UNCHANGED <<clientVars, handVars, endVars, storeVars, snap, slots, queue,
                   worker, outcomes>>

\* The retention timer fires: the object and the directory go ...
RetentionDelete(j) ==
    /\ timer[j] = "armed"
    /\ DeleteObjects(IF snap[j].artifact = "stored" THEN {j} ELSE {})
    /\ disk' = [disk EXCEPT ![j] = {}]
    /\ timer' = [timer EXCEPT ![j] = "deleted"]
    /\ UNCHANGED <<clientVars, handVars, done, snap, slots, queue, cancelFn,
                   worker, outcomes>>

\* ... and then the job.
RetentionForget(j) ==
    /\ timer[j] = "deleted"
    /\ jobs' = jobs \ {j}
    /\ timer' = [timer EXCEPT ![j] = "fired"]
    /\ UNCHANGED <<submit, closed, closer, cancel, target, acked, handVars, done,
                   storeVars, snap, slots, queue, cancelFn, worker, outcomes>>

-----------------------------------------------------------------------------
(* cancel. *)

\* What no step of cancel touches.
CancelFrame == UNCHANGED <<submit, jobs, closed, closer, handVars, endVars,
                           storeVars, slots, queue, worker>>

Turn(c, place, j) ==
    /\ cancel' = [cancel EXCEPT ![c] = place]
    /\ target' = [target EXCEPT ![c] = j]

\* The lookup; a job in a terminal status is refused by CancelMark too.
CancelLookup(c, j) ==
    /\ cancel[c] = "idle"
    /\ j \in jobs
    /\ Turn(c, "found", j)
    /\ CancelFrame /\ UNCHANGED <<snap, cancelFn, outcomes, acked>>

\* Job.Cancel, or ErrNotCancelable.
CancelMark(c) ==
    /\ cancel[c] = "found"
    /\ snap' = [snap EXCEPT ![target[c]] = Cancel(@)]
    /\ IF Open(snap[target[c]]) THEN Turn(c, "marked", target[c])
                                ELSE Turn(c, "idle", NoJob)
    /\ CancelFrame /\ UNCHANGED <<cancelFn, outcomes, acked>>

\* Mutated form: the function read before Job.Cancel is used, and a job that
\* was still in the queue then had none.
ReadNoFunction(j) == "nil"

ReadFunction(j) == cancelFn[j]

\* managed.cancel is read again: with a function, the context is canceled and
\* the call waits for the worker; without one, the job is still in the queue.
CancelReread(c) ==
    /\ cancel[c] = "marked"
    /\ LET j == target[c] IN
       \/ /\ ReadFunction(j) = "nil"
          /\ Turn(c, "notifying", j)
          /\ UNCHANGED cancelFn
       \/ /\ ReadFunction(j) # "nil"
          /\ cancelFn' = [cancelFn EXCEPT ![j] = Canceled(@)]
          /\ Turn(c, "waiting", j)
    /\ CancelFrame /\ UNCHANGED <<snap, outcomes, acked>>

CancelReturns(c) ==
    /\ acked' = acked \cup {target[c]}
    /\ Turn(c, "idle", NoJob)

CancelNotify(c) ==
    /\ cancel[c] = "notifying"
    /\ Notify(target[c], "canceled")
    /\ CancelReturns(c)
    /\ CancelFrame /\ UNCHANGED <<snap, cancelFn>>

CancelWait(c) ==
    /\ cancel[c] = "waiting"
    /\ target[c] \in done
    /\ CancelReturns(c)
    /\ CancelFrame /\ UNCHANGED <<snap, cancelFn, outcomes>>

-----------------------------------------------------------------------------
(* Close. *)

\* One critical section: every job is canceled, every context is canceled,
\* and the queue is closed.
BeginClose ==
    /\ closer = "running"
    /\ closer' = "draining"
    /\ closed' = TRUE
    /\ snap' = [j \in Jobs |-> IF j \in jobs THEN Cancel(snap[j]) ELSE snap[j]]
    /\ cancelFn' = [j \in Jobs |-> IF j \in jobs THEN Canceled(cancelFn[j])
                                                 ELSE cancelFn[j]]
    /\ UNCHANGED <<submit, jobs, cancel, target, acked, handVars, endVars,
                   storeVars, slots, queue, worker, outcomes>>

\* Mutated form: the work directory goes but the stored objects stay.
SweptNothing == {}

Swept == {j \in jobs : snap[j].artifact = "stored"}

\* The worker has exited: cleanupStoredArtifacts, then the work directory.
Sweep ==
    /\ closer = "draining"
    /\ worker = "exited"
    /\ DeleteObjects(Swept)
    /\ disk' = [j \in Jobs |-> {}]
    /\ closer' = "closed"
    /\ UNCHANGED <<submit, jobs, closed, cancel, target, acked, handVars, endVars,
                   snap, slots, queue, cancelFn, worker, outcomes>>

-----------------------------------------------------------------------------
SubmitStep(j) ==
    \/ BeginSubmit(j)
    \/ TakeSlot(j)
    \/ Authorize(j)
    \/ Stage(j)
    \/ Enqueue(j)
    \/ AbortSubmit(j)
    \/ ReleaseSubmit(j)

WorkerStep ==
    \/ Dequeue
    \/ ExitWorker
    \/ CheckCanceled
    \/ Attach
    \/ StartJob
    \/ Report
    \/ Convert
    \/ AfterConvert
    \/ Publish
    \/ SucceedJob
    \/ Drop
    \/ Remove
    \/ FinishNotify
    \/ FinishRelease
    \/ FinishSignal

TimerStep(j) ==
    \/ Expire(j)
    \/ RetentionDelete(j)
    \/ RetentionForget(j)

CancelStep(c) ==
    \/ \E j \in Jobs : CancelLookup(c, j)
    \/ CancelMark(c)
    \/ CancelReread(c)
    \/ CancelNotify(c)
    \/ CancelWait(c)

Next ==
    \/ \E j \in Jobs : SubmitStep(j) \/ TimerStep(j)
    \/ WorkerStep
    \/ \E c \in Cancelers : CancelStep(c)
    \/ BeginClose
    \/ Sweep

Spec == Init /\ [][Next]_vars

\* Goroutines are scheduled and a call that is under way goes on.  The
\* converter and the store are only known to return once their context is
\* done; the deadline sees to that.  Nothing obliges a client to submit or to
\* cancel, or the operator to stop the server.
Fairness ==
    /\ \A j \in Jobs :
          /\ WF_vars(TakeSlot(j) \/ Authorize(j) \/ Stage(j) \/ Enqueue(j)
                     \/ AbortSubmit(j) \/ ReleaseSubmit(j))
          /\ WF_vars(Expire(j))
          /\ WF_vars(RetentionDelete(j) \/ RetentionForget(j))
    /\ WF_vars(Dequeue \/ ExitWorker \/ CheckCanceled \/ Attach \/ StartJob
               \/ AfterConvert \/ SucceedJob \/ Drop \/ Remove
               \/ FinishNotify \/ FinishRelease \/ FinishSignal)
    /\ WF_vars(current \in Jobs /\ cancelFn[current] # "live" /\ (Convert \/ Publish))
    /\ \A c \in Cancelers :
          WF_vars(CancelMark(c) \/ CancelReread(c) \/ CancelNotify(c) \/ CancelWait(c))
    /\ WF_vars(Sweep)

FairSpec == Spec /\ Fairness

-----------------------------------------------------------------------------
(* Properties. *)

TypeOK ==
    /\ snap \in [Jobs -> Snapshots]
    /\ submit \in [Jobs -> SubmitStates]
    /\ slots \in 0..Capacity
    /\ queue \in Seq(Jobs)
    /\ closed \in BOOLEAN
    /\ jobs \in SUBSET Jobs
    /\ cancelFn \in [Jobs -> {"nil", "live", "canceled", "expired"}]
    /\ worker \in WorkerStates
    /\ current \in Jobs \cup {NoJob}
    /\ product \in Artifacts
    /\ done \in SUBSET Jobs
    /\ timer \in [Jobs -> {"off", "armed", "deleted", "fired"}]
    /\ cancel \in [Cancelers -> {"idle", "found", "marked", "notifying", "waiting"}]
    /\ target \in [Cancelers -> Jobs \cup {NoJob}]
    /\ closer \in {"running", "draining", "closed"}
    /\ disk \in [Jobs -> SUBSET Files]
    /\ bucket \in SUBSET Jobs
    /\ stray \in SUBSET Jobs
    /\ outcomes \in [Jobs -> Seq(Terminal)]
    /\ acked \in SUBSET Jobs

\* Every slot taken is held by exactly one submission, queued job or running
\* job: no slot leaks on an error path and none is given back twice, so the
\* receive that gives a slot back never blocks.
SlotAccounting == slots = Cardinality(Holders)

\* A submission that holds a slot finds room in the queue, so the send in
\* SubmitFor never blocks while it holds the manager's lock.
SendNeverBlocks ==
    \A j \in Jobs : submit[j] = "staged" => Len(queue) < Capacity

\* Close closes the queue; a submission that passed the first check before
\* that must not send to the closed channel afterwards (it would panic).
NothingEnqueuedAfterClose == [][closed => Len(queue') <= Len(queue)]_vars

\* A job ends once: whatever succeeds, fails, cancels, closes or still reports
\* progress at the same time, its snapshot stays as the first end left it, with
\* status, stage and artifact.
TerminalIsFinal ==
    [][\A j \in Jobs : snap[j].status \in Terminal => snap'[j] = snap[j]]_vars

\* What billing is told about a job is the status the job ends with: a credit
\* is not refunded for a job that is, or may still be, delivered.
OutcomeIsFinal ==
    \A j \in Jobs : \A i \in DOMAIN outcomes[j] :
        outcomes[j][i] = IF submit[j] = "accepted" THEN snap[j].status ELSE "failed"

\* A job the worker is through with is in a terminal status, and billing has
\* been told: no path through run ends a job that still looks active.
DoneIsSettled ==
    \A j \in done : snap[j].status \in Terminal /\ (Public => outcomes[j] # << >>)

\* When a cancel has returned without an error, nothing converts, publishes
\* or completes the job any more, wherever the worker was meanwhile.
CancelStopsWork ==
    \A j \in acked :
        ~(current = j /\ worker \in {"convert", "converted", "publish", "succeed", "drop"})

\* The artifact a succeeded job shows can be fetched, from its directory or
\* from the store, until retention or shutdown removes it.
SucceededIsDeliverable ==
    \A j \in Jobs :
        snap[j].status = "succeeded" /\ timer[j] \in {"off", "armed"} /\ closer # "closed" =>
            /\ j \in jobs
            /\ \/ snap[j].artifact = "stored" /\ j \in bucket
               \/ snap[j].artifact = "local" /\ "output" \in disk[j]

\* A job that was started leaves no copy of the PDF when it is done, and
\* nothing at all unless it succeeded.
StartedJobIsCleaned ==
    \A j \in done : snap[j].started =>
        /\ "source" \notin disk[j]
        /\ snap[j].status # "succeeded" => disk[j] = {}

\* Every object in the bucket, except those the store kept and denied, is the
\* artifact of a job that will be forgotten, or is about to be one or dropped.
NoUntrackedObject ==
    \A j \in bucket \ stray :
        \/ snap[j].artifact = "stored" /\ j \in jobs /\ timer[j] \in {"off", "armed"}
        \/ current = j /\ product = "stored" /\ worker \in {"succeed", "drop"}

\* After a graceful shutdown neither files nor stored objects remain.
CloseLeavesNothing ==
    closer = "closed" => bucket \subseteq stray /\ \A j \in Jobs : disk[j] = {}

\* A client sees a job once it is accepted; the line is the job the worker
\* holds a slot for, followed by the queue.
VisiblePhase == [j \in Jobs |-> IF submit[j] = "accepted" THEN snap[j].status ELSE "absent"]

VisibleLine == (IF worker \in Occupied THEN <<current>> ELSE << >>) \o queue

Lifecycle == INSTANCE JobLifecycle WITH
    phase <- VisiblePhase, line <- VisibleLine, shut <- closed

\* Accepted jobs are converted one at a time in the order of acceptance, within
\* the capacity, and each ends exactly once, although uploads, the worker,
\* cancels, timers and shutdown interleave.
ImplementsLifecycle == Lifecycle!LineSpec

\* A cancel that marked the job returns.
CancelCompletes == \A c \in Cancelers : cancel[c] = "marked" ~> cancel[c] = "idle"

\* An accepted job ends, and in time no trace of it is left.
JobsSettle ==
    \A j \in Jobs : submit[j] = "accepted" ~>
                       (j \in done /\ j \notin jobs /\ disk[j] = {})

\* Shutdown comes to its end whatever is queued, running or being submitted.
CloseCompletes == closer = "draining" ~> closer = "closed"

\* docs/acceptance-v1.md: the copy of the PDF is deleted when the job ends.
SourceRemovedAtEnd == \A j \in done : "source" \notin disk[j]
=============================================================================
