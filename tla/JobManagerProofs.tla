--------------------------- MODULE JobManagerProofs ---------------------------
(***************************************************************************)
(* Theorems about JobManager and the downloads in front of it, for any     *)
(* number of jobs, of requests that cancel or download, and any queue      *)
(* capacity.  First its invariant, its slots, how jobs end, and what       *)
(* billing and the clients that cancel are told; then what it leaves in    *)
(* the directories and in the store: what a job shows can be fetched, what  *)
(* nobody shows is gone, and a download relies on both; last that it        *)
(* implements JobLifecycle.                                                *)
(***************************************************************************)
EXTENDS Downloads, FiniteSetTheorems, SequenceTheorems, TLAPS

-----------------------------------------------------------------------------
(* What the methods of a job do to its snapshot. *)

\* A method leaves a snapshot, and a terminal one it leaves alone.
LEMMA MethodsKeepSnapshots ==
    ASSUME NEW s \in Snapshots
    PROVE  /\ Start(s) \in Snapshots /\ ReportProgress(s) \in Snapshots
           /\ Fail(s) \in Snapshots /\ Cancel(s) \in Snapshots
           /\ \A a \in Artifacts : Succeed(s, a) \in Snapshots
    BY DEF Snapshots, Statuses, Stages, Artifacts, Terminal, Start, CanStart, ReportProgress,
           Succeed, CanSucceed, Fail, Cancel, Open

\* The status each method leaves behind.
LEMMA MethodsMoveStatus ==
    ASSUME NEW s \in Snapshots
    PROVE  /\ Start(s).status = IF s.status = "queued" THEN "processing" ELSE s.status
           /\ ReportProgress(s).status = s.status
           /\ \A a \in Artifacts :
                 Succeed(s, a).status = IF s.status = "processing" THEN "succeeded" ELSE s.status
           /\ Fail(s).status = IF s.status \in {"queued", "processing"} THEN "failed"
                                                                       ELSE s.status
           /\ Cancel(s).status = IF s.status \in {"queued", "processing"} THEN "canceled"
                                                                         ELSE s.status
    BY DEF Snapshots, Start, CanStart, ReportProgress, Succeed, CanSucceed, Fail, Cancel, Open

\* A method called too late changes nothing.
LEMMA MethodsKeepTerminal ==
    ASSUME NEW s \in Snapshots, s.status \in Terminal
    PROVE  /\ Start(s) = s /\ ReportProgress(s) = s /\ Fail(s) = s /\ Cancel(s) = s
           /\ \A a \in Artifacts : Succeed(s, a) = s
    BY DEF Terminal, Start, CanStart, ReportProgress, Succeed, CanSucceed, Fail, Cancel, Open

-----------------------------------------------------------------------------
(* The line of queued jobs. *)

Elements(q) == {q[i] : i \in 1..Len(q)}

Distinct(q) == \A i, k \in 1..Len(q) : q[i] = q[k] => i = k

\* A sequence without repetitions stays one when a new element joins it.
LEMMA AppendElements ==
    ASSUME NEW q \in Seq(Jobs), NEW j \in Jobs
    PROVE  /\ Elements(Append(q, j)) = Elements(q) \cup {j}
           /\ Distinct(q) /\ j \notin Elements(q) => Distinct(Append(q, j))
<1>1. Elements(Append(q, j)) = Elements(q) \cup {j}
  <2>1. /\ Len(Append(q, j)) = Len(q) + 1 /\ Len(q) \in Nat
        /\ \A i \in 1..Len(q) : Append(q, j)[i] = q[i]
        /\ Append(q, j)[Len(q) + 1] = j
    BY AppendProperties, LenProperties
  <2>2. 1..(Len(q) + 1) = 1..Len(q) \cup {Len(q) + 1}
    BY <2>1
  <2> QED  BY <2>1, <2>2 DEF Elements
<1>2. ASSUME Distinct(q), j \notin Elements(q)
      PROVE  Distinct(Append(q, j))
  BY <1>2 DEF Elements, Distinct
<1> QED  BY <1>1, <1>2

\* The tail of a sequence without repetitions lacks just its head.
LEMMA TailElements ==
    ASSUME NEW q \in Seq(Jobs), q # << >>, Distinct(q)
    PROVE  /\ Elements(Tail(q)) = Elements(q) \ {Head(q)}
           /\ Head(q) \in Elements(q)
           /\ Distinct(Tail(q))
<1>1. /\ Len(Tail(q)) = Len(q) - 1 /\ Len(q) \in Nat \ {0}
      /\ \A i \in 1..Len(Tail(q)) : Tail(q)[i] = q[i + 1]
      /\ Head(q) = q[1]
  BY HeadTailProperties, LenProperties, EmptySeq
<1>2. Elements(Tail(q)) \subseteq Elements(q) \ {Head(q)}
  BY <1>1 DEF Elements, Distinct
<1>3. ASSUME NEW j \in Elements(q), j # Head(q)
      PROVE  j \in Elements(Tail(q))
  <2>1. PICK i \in 1..Len(q) : q[i] = j
    BY DEF Elements
  <2>2. i - 1 \in 1..Len(Tail(q)) /\ Tail(q)[i - 1] = j
    BY <1>1, <1>3, <2>1
  <2> QED  BY <2>2 DEF Elements
<1>4. Head(q) \in Elements(q)
  BY <1>1 DEF Elements
<1>5. Distinct(Tail(q))
  BY <1>1 DEF Distinct
<1> QED  BY <1>2, <1>3, <1>4, <1>5

-----------------------------------------------------------------------------
(* The inductive invariant. *)

\* A submission at one of these points has not made its job yet.
Early == {"idle", "checked", "admitted", "authorized"}

\* The worker has no job.
Resting == {"idle", "exited"}

\* Jobs that are made but not accepted are still queued; only accepted jobs
\* are in m.jobs, in the queue, at the worker or the target of a cancel.
Acceptance ==
    /\ \A j \in Jobs : submit[j] \in Early => snap[j] = Absent
    /\ \A j \in Jobs : submit[j] = "staged" => snap[j].status = "queued"
    /\ \A j \in jobs \cup Queued : submit[j] = "accepted"
    /\ worker \notin Resting => current \in Jobs /\ submit[current] = "accepted"
    /\ \A c \in Cancelers : cancel[c] # "idle" =>
          target[c] \in Jobs /\ submit[target[c]] = "accepted"

\* A job is in the queue once, and not any more when the worker has it.
Line ==
    /\ Distinct(queue)
    /\ worker \notin Resting => current \notin Queued

\* The statuses a job may have when the worker is at a place in run with it.
Fits(place, status) ==
    /\ place \in {"check", "attach", "start"} => status \in {"queued", "canceled"}
    /\ place \in {"convert", "converted", "publish", "succeed"} =>
          status \in {"processing", "canceled"}
    /\ place \in {"drop", "remove", "finish", "release", "signal"} => status \in Terminal

\* How far the queued jobs and the job of the worker have come.
Progress ==
    /\ \A j \in Queued : snap[j].status \in {"queued", "canceled"}
    /\ worker \notin Resting => Fits(worker, snap[current].status)

ManagerInv == TypeOK /\ Acceptance /\ Line /\ Progress

\* It holds when the manager is made.
LEMMA ManagerInit == Init => ManagerInv
<1> SUFFICES ASSUME Init PROVE ManagerInv
  OBVIOUS
<1>1. Absent \in Snapshots
  BY DEF Absent, Snapshots, Statuses, Stages, Artifacts
<1>2. Queued = {}
  BY DEF Init, Queued
<1>3. TypeOK
  <2>1. snap \in [Jobs -> Snapshots] /\ slots \in 0..Capacity /\ queue \in Seq(Jobs)
    BY <1>1, CapacityAssumption, EmptySeq DEF Init, Capacity
  <2>2. outcomes \in [Jobs -> Seq(Terminal)]
    BY EmptySeq DEF Init
  <2> QED  BY <2>1, <2>2 DEF Init, TypeOK, Artifacts, SubmitStates, WorkerStates
<1>4. Acceptance /\ Line /\ Progress
  BY <1>2 DEF Init, Acceptance, Line, Distinct, Progress, Resting
<1> QED  BY <1>3, <1>4 DEF ManagerInv

\* The steps of a submission keep the types.
LEMMA SubmitTypes ==
    ASSUME ManagerInv, NEW j \in Jobs, SubmitStep(j)
    PROVE  TypeOK'
<1> USE DEF SubmitFrame, Goto, handVars, endVars
<1>1. CASE BeginSubmit(j)
  BY <1>1 DEF ManagerInv, TypeOK, BeginSubmit, SubmitStates
<1>2. CASE TakeSlot(j)
  <2>1. slots' \in 0..Capacity
    BY <1>2, CapacityAssumption DEF ManagerInv, TypeOK, TakeSlot, SlotFree, Capacity
  <2>2. submit' \in [Jobs -> SubmitStates]
    <3>1. submit' = [submit EXCEPT ![j] = "admitted"] \/ submit' = [submit EXCEPT ![j] = "idle"]
      BY <1>2 DEF TakeSlot
    <3> QED  BY <3>1 DEF ManagerInv, TypeOK, SubmitStates
  <2> QED  BY <1>2, <2>1, <2>2 DEF ManagerInv, TypeOK, TakeSlot
<1>3. CASE Authorize(j)
  BY <1>3 DEF ManagerInv, TypeOK, Authorize, SubmitStates
<1>4. CASE Stage(j)
  <2>1. NewJob \in Snapshots
    BY DEF NewJob, Snapshots, Statuses, Stages, Artifacts
  <2>2. CASE Goto(j, "staged") /\ snap' = [snap EXCEPT ![j] = NewJob]
             /\ disk' = [disk EXCEPT ![j] = {"source"}]
    BY <1>4, <2>1, <2>2 DEF ManagerInv, TypeOK, Stage, SubmitStates, Files
  <2>3. CASE Goto(j, "aborting") /\ UNCHANGED <<snap, disk>>
    BY <1>4, <2>3 DEF ManagerInv, TypeOK, Stage, SubmitStates
  <2> QED  BY <1>4, <2>2, <2>3 DEF Stage
<1>5. CASE Enqueue(j)
  <2>1. Append(queue, j) \in Seq(Jobs)
    BY AppendProperties DEF ManagerInv, TypeOK
  <2>2. CASE StillOpen
    BY <1>5, <2>1, <2>2 DEF ManagerInv, TypeOK, Enqueue, SubmitStates
  <2>3. CASE ~StillOpen
    BY <1>5, <2>3 DEF ManagerInv, TypeOK, Enqueue, SubmitStates
  <2> QED  BY <2>2, <2>3
<1>6. CASE AbortSubmit(j)
  BY <1>6 DEF ManagerInv, TypeOK, AbortSubmit, SubmitStates, Notify, Terminal
<1>7. CASE ReleaseSubmit(j)
  BY <1>7, CapacityAssumption DEF ManagerInv, TypeOK, ReleaseSubmit, SubmitStates, Capacity
<1> QED  BY <1>1, <1>2, <1>3, <1>4, <1>5, <1>6, <1>7 DEF SubmitStep

\* The steps of the worker keep the types.
LEMMA WorkerTypes ==
    ASSUME ManagerInv, WorkerStep
    PROVE  TypeOK'
<1> USE DEF clientVars, handVars, endVars, storeVars
<1>1. CASE Dequeue
  BY <1>1, HeadTailProperties DEF ManagerInv, TypeOK, Dequeue, WorkerStates
<1>2. CASE ExitWorker
  BY <1>2 DEF ManagerInv, TypeOK, ExitWorker, WorkerStates
<1>3. CASE CheckCanceled
  BY <1>3 DEF ManagerInv, TypeOK, CheckCanceled, WorkerStates
<1>4. CASE Attach
  BY <1>4 DEF ManagerInv, TypeOK, Attach, WorkerStates
<1>5. CASE StartJob
  BY <1>5, MethodsKeepSnapshots DEF ManagerInv, TypeOK, StartJob, Started, WorkerStates
<1>6. CASE Report
  BY <1>6, MethodsKeepSnapshots DEF ManagerInv, TypeOK, Report
<1>7. CASE Convert
  BY <1>7 DEF ManagerInv, TypeOK, Convert, WorkerStates, Artifacts, Files
<1>8. CASE AfterConvert
  <2>1. snap' \in [Jobs -> Snapshots]
    <3>1. snap' = [snap EXCEPT ![current] = Fail(snap[current])] \/ snap' = snap
      BY <1>8 DEF AfterConvert
    <3>2. current \in Jobs
      BY <1>8 DEF ManagerInv, Acceptance, Resting, AfterConvert
    <3>3. Fail(snap[current]) \in Snapshots
      BY <3>2, MethodsKeepSnapshots DEF ManagerInv, TypeOK
    <3> QED  BY <3>1, <3>3 DEF ManagerInv, TypeOK
  <2>2. worker' \in WorkerStates
    BY <1>8 DEF AfterConvert, WorkerStates
  <2> QED  BY <1>8, <2>1, <2>2 DEF ManagerInv, TypeOK, AfterConvert
<1>9. CASE Publish
  <2>0. current \in Jobs
    BY <1>9 DEF ManagerInv, Acceptance, Resting, Publish
  <2>1. snap' \in [Jobs -> Snapshots]
    <3>1. snap' = [snap EXCEPT ![current] = Fail(snap[current])] \/ snap' = snap
      BY <1>9 DEF Publish
    <3>2. Fail(snap[current]) \in Snapshots
      BY <2>0, MethodsKeepSnapshots DEF ManagerInv, TypeOK
    <3> QED  BY <3>1, <3>2 DEF ManagerInv, TypeOK
  <2>2. worker' \in WorkerStates /\ product' \in Artifacts
    BY <1>9 DEF ManagerInv, TypeOK, Publish, WorkerStates, Artifacts
  <2>4. bucket' \in SUBSET Jobs /\ stray' \in SUBSET Jobs /\ disk' \in [Jobs -> SUBSET Files]
    BY <1>9, <2>0 DEF ManagerInv, TypeOK, Publish
  <2> QED  BY <1>9, <2>1, <2>2, <2>4 DEF ManagerInv, TypeOK, Publish
<1>10. CASE SucceedJob
  BY <1>10, MethodsKeepSnapshots DEF ManagerInv, TypeOK, SucceedJob, WorkerStates
<1>11. CASE Drop
  BY <1>11 DEF ManagerInv, TypeOK, Drop, DeleteObjects, Dropped, WorkerStates
<1>12. CASE Remove
  BY <1>12 DEF ManagerInv, TypeOK, Remove, WorkerStates
<1>13. CASE FinishNotify
  <2>1. snap[current].status \in Terminal
    BY <1>13 DEF ManagerInv, Progress, Fits, Resting, FinishNotify
  <2>2. outcomes' \in [Jobs -> Seq(Terminal)]
    BY <1>13, <2>1, AppendProperties DEF ManagerInv, TypeOK, FinishNotify, Notify
  <2>3. worker' \in WorkerStates
    BY <1>13 DEF FinishNotify, WorkerStates
  <2> QED  BY <1>13, <2>2, <2>3 DEF ManagerInv, TypeOK, FinishNotify
<1>14. CASE FinishRelease
  BY <1>14, CapacityAssumption
  DEF ManagerInv, TypeOK, FinishRelease, SlotsReleased, WorkerStates, Capacity
<1>15. CASE FinishSignal
  BY <1>15 DEF ManagerInv, TypeOK, FinishSignal, DoneClosed, Canceled, WorkerStates, Artifacts,
               Acceptance, Resting
<1> QED  BY <1>1, <1>2, <1>3, <1>4, <1>5, <1>6, <1>7, <1>8, <1>9, <1>10, <1>11, <1>12, <1>13, <1>14,
           <1>15 DEF WorkerStep

\* The timers, the cancels and Close keep the types.
LEMMA OtherTypes ==
    ASSUME ManagerInv,
           \/ \E j \in Jobs : TimerStep(j)
           \/ \E c \in Cancelers : CancelStep(c)
           \/ BeginClose \/ Sweep
    PROVE  TypeOK'
<1> USE DEF clientVars, handVars, endVars, storeVars, Turn, CancelFrame, CancelReturns
<1>1. ASSUME NEW j \in Jobs, Expire(j)  PROVE TypeOK'
  BY <1>1 DEF ManagerInv, TypeOK, Expire
<1>2. ASSUME NEW j \in Jobs, RetentionDelete(j)  PROVE TypeOK'
  BY <1>2 DEF ManagerInv, TypeOK, RetentionDelete, DeleteObjects
<1>3. ASSUME NEW j \in Jobs, RetentionForget(j)  PROVE TypeOK'
  BY <1>3 DEF ManagerInv, TypeOK, RetentionForget
<1>4. ASSUME NEW c \in Cancelers, NEW j \in Jobs, CancelLookup(c, j)  PROVE TypeOK'
  BY <1>4 DEF ManagerInv, TypeOK, CancelLookup
<1>5. ASSUME NEW c \in Cancelers, CancelMark(c)  PROVE TypeOK'
  BY <1>5, MethodsKeepSnapshots DEF ManagerInv, TypeOK, CancelMark
<1>6. ASSUME NEW c \in Cancelers, CancelReread(c)  PROVE TypeOK'
  <2>1. target[c] \in Jobs
    BY <1>6 DEF ManagerInv, Acceptance, CancelReread
  <2>2. cancelFn' \in [Jobs -> {"nil", "live", "canceled", "expired"}]
    <3>1. /\ cancelFn \in [Jobs -> {"nil", "live", "canceled", "expired"}]
          /\ \/ cancelFn' = cancelFn
             \/ cancelFn' = [cancelFn EXCEPT ![target[c]] = Canceled(@)]
      BY <1>6 DEF ManagerInv, TypeOK, CancelReread
    <3> QED  BY <2>1, <3>1 DEF Canceled
  <2> QED  BY <1>6, <2>1, <2>2 DEF ManagerInv, TypeOK, CancelReread
<1>7. ASSUME NEW c \in Cancelers, CancelNotify(c)  PROVE TypeOK'
  BY <1>7 DEF ManagerInv, TypeOK, CancelNotify, Notify, Terminal, Acceptance
<1>8. ASSUME NEW c \in Cancelers, CancelWait(c)  PROVE TypeOK'
  BY <1>8 DEF ManagerInv, TypeOK, CancelWait, Acceptance
<1>9. CASE BeginClose
  BY <1>9, MethodsKeepSnapshots DEF ManagerInv, TypeOK, BeginClose, Canceled
<1>10. CASE Sweep
  BY <1>10 DEF ManagerInv, TypeOK, Sweep, DeleteObjects, Swept
<1> QED  BY <1>1, <1>2, <1>3, <1>4, <1>5, <1>6, <1>7, <1>8, <1>9, <1>10 DEF TimerStep, CancelStep

-----------------------------------------------------------------------------
\* The queued jobs are the elements of the channel.
LEMMA QueuedJobs ==
    ASSUME TypeOK
    PROVE  /\ Queued = Elements(queue) /\ Queued' = Elements(queue')
           /\ Queued \subseteq Jobs
BY DEF TypeOK, Queued, Elements

\* No step of a submission, a timer, a cancel or of Close moves the worker or
\* takes a job from the queue.
LEMMA SubmitAcceptance ==
    ASSUME ManagerInv, NEW j \in Jobs, SubmitStep(j)
    PROVE  Acceptance' /\ Progress'
<1> USE DEF SubmitFrame, Goto, handVars, endVars
<1>1. ASSUME UNCHANGED <<snap, queue, jobs>>, UNCHANGED <<current, worker, cancel, target>>,
             NEW p \in SubmitStates, submit' = [submit EXCEPT ![j] = p],
             submit[j] \notin {"accepted"}, p \in Early => submit[j] \in Early, p # "staged"
      PROVE  Acceptance' /\ Progress'
  BY <1>1 DEF ManagerInv, TypeOK, Acceptance, Progress, Queued, Resting
<1>2. CASE BeginSubmit(j)
  BY <1>2, <1>1 DEF BeginSubmit, Early, SubmitStates
<1>3. CASE TakeSlot(j)
  BY <1>3, <1>1 DEF TakeSlot, Early, SubmitStates
<1>4. CASE Authorize(j)
  BY <1>4, <1>1 DEF Authorize, Early, SubmitStates
<1>5. CASE Stage(j)
  <2>1. CASE submit' = [submit EXCEPT ![j] = "aborting"] /\ UNCHANGED snap
    BY <1>5, <2>1, <1>1 DEF Stage, Early, SubmitStates
  <2>2. CASE submit' = [submit EXCEPT ![j] = "staged"] /\ snap' = [snap EXCEPT ![j] = NewJob]
    <3>1. \A k \in Jobs : k # j => snap'[k] = snap[k] /\ submit'[k] = submit[k]
      BY <2>2 DEF ManagerInv, TypeOK
    <3>2. snap'[j].status = "queued" /\ submit'[j] = "staged" /\ submit[j] = "authorized"
      BY <1>5, <2>2 DEF ManagerInv, TypeOK, Stage, NewJob
    <3>3. UNCHANGED <<queue, jobs, current, worker, cancel, target>> /\ Queued' = Queued
      BY <1>5 DEF Stage, Queued
    <3>4. /\ j \notin jobs \cup Queued
          /\ worker \notin Resting => current # j
          /\ \A c \in Cancelers : cancel[c] # "idle" => target[c] # j
      BY <3>2 DEF ManagerInv, Acceptance
    <3> jobs \cup Queued \subseteq Jobs
      BY QueuedJobs DEF ManagerInv, TypeOK
    <3>5. Acceptance'
      BY <3>1, <3>2, <3>3, <3>4 DEF ManagerInv, Acceptance, Early
    <3>6. Progress'
      BY <3>1, <3>2, <3>3, <3>4 DEF ManagerInv, Acceptance, Progress, Resting
    <3> QED  BY <3>5, <3>6
  <2> QED  BY <1>5, <2>1, <2>2 DEF Stage
<1>6. CASE Enqueue(j)
  <2>1. CASE ~StillOpen
    BY <1>6, <2>1, <1>1 DEF Enqueue, Early, SubmitStates
  <2>2. CASE StillOpen
    <3>1. /\ submit[j] = "staged" /\ submit' = [submit EXCEPT ![j] = "accepted"]
          /\ jobs' = jobs \cup {j} /\ queue' = Append(queue, j)
          /\ UNCHANGED <<snap, current, worker, cancel, target>>
      BY <1>6, <2>2 DEF Enqueue
    <3>2. Queued' = Queued \cup {j} /\ Queued \subseteq Jobs
      BY <3>1, AppendElements, QueuedJobs DEF ManagerInv, TypeOK
    <3>3. Acceptance'
      BY <3>1, <3>2 DEF ManagerInv, TypeOK, Acceptance, Early
    <3>4. Progress'
      BY <3>1, <3>2 DEF ManagerInv, Acceptance, Progress
    <3> QED  BY <3>3, <3>4
  <2> QED  BY <2>1, <2>2
<1>7. CASE AbortSubmit(j)
  BY <1>7, <1>1 DEF AbortSubmit, Failed, Early, SubmitStates
<1>8. CASE ReleaseSubmit(j)
  BY <1>8, <1>1 DEF ReleaseSubmit, Early, SubmitStates
<1> QED  BY <1>2, <1>3, <1>4, <1>5, <1>6, <1>7, <1>8 DEF SubmitStep

\* The timers, the cancels and Close do not disturb what is accepted.
LEMMA OtherAcceptance ==
    ASSUME ManagerInv,
           \/ \E j \in Jobs : TimerStep(j)
           \/ \E c \in Cancelers : CancelStep(c)
           \/ BeginClose \/ Sweep
    PROVE  Acceptance' /\ Progress'
<1> USE DEF clientVars, handVars, endVars, storeVars, Turn, CancelFrame, CancelReturns
<1> jobs \cup Queued \subseteq Jobs
  BY QueuedJobs DEF ManagerInv, TypeOK
<1>1. ASSUME UNCHANGED <<submit, snap, queue, worker, current, cancel, target>>,
             jobs' \subseteq jobs
      PROVE  Acceptance' /\ Progress'
  BY <1>1 DEF ManagerInv, Acceptance, Progress, Queued
<1>2. ASSUME NEW j \in Jobs, TimerStep(j)  PROVE Acceptance' /\ Progress'
  BY <1>1, <1>2 DEF TimerStep, Expire, RetentionDelete, RetentionForget
<1>3. CASE Sweep
  BY <1>1, <1>3 DEF Sweep
<1>4. ASSUME NEW c \in Cancelers, CancelStep(c)  PROVE Acceptance' /\ Progress'
  <2>1. ASSUME UNCHANGED <<submit, jobs, queue, worker, current>>,
               snap' = snap \/ snap' = [snap EXCEPT ![target[c]] = Cancel(snap[target[c]])],
               cancel[c] # "idle" \/ snap' = snap,
               \A d \in Cancelers \ {c} : cancel'[d] = cancel[d] /\ target'[d] = target[d],
               cancel'[c] # "idle" => target'[c] \in Jobs /\ submit[target'[c]] = "accepted"
        PROVE  Acceptance' /\ Progress'
    <3>1. CASE snap' = snap
      BY <2>1, <3>1 DEF ManagerInv, Acceptance, Progress, Queued
    <3>2. CASE snap' # snap
      <4>1. PICK k \in Jobs : submit[k] = "accepted" /\ snap' = [snap EXCEPT ![k] = Cancel(snap[k])]
        BY <2>1, <3>2 DEF ManagerInv, Acceptance
      <4>2. /\ \A j \in Jobs \ {k} : snap'[j] = snap[j]
            /\ snap'[k].status = IF snap[k].status \in {"queued", "processing"}
                                 THEN "canceled" ELSE snap[k].status
        BY <4>1, MethodsMoveStatus DEF ManagerInv, TypeOK
      <4>3. Acceptance'
        BY <2>1, <4>1, <4>2 DEF ManagerInv, Acceptance, Early, Queued
      <4>4. Progress'
        BY <2>1, <4>1, <4>2 DEF ManagerInv, Acceptance, Progress, Fits, Resting, Queued, Terminal
      <4> QED  BY <4>3, <4>4
    <3> QED  BY <3>1, <3>2
  <2>2. ASSUME NEW j \in Jobs, CancelLookup(c, j)  PROVE Acceptance' /\ Progress'
    BY <2>1, <2>2 DEF CancelLookup, ManagerInv, TypeOK, Acceptance
  <2>3. CASE CancelMark(c)
    BY <2>1, <2>3 DEF CancelMark, ManagerInv, TypeOK, Acceptance
  <2>4. CASE CancelReread(c)
    BY <2>1, <2>4 DEF CancelReread, ManagerInv, TypeOK, Acceptance
  <2>5. CASE CancelNotify(c)
    BY <2>1, <2>5 DEF CancelNotify, ManagerInv, TypeOK, Acceptance
  <2>6. CASE CancelWait(c)
    BY <2>1, <2>6 DEF CancelWait, ManagerInv, TypeOK, Acceptance
  <2> QED  BY <1>4, <2>2, <2>3, <2>4, <2>5, <2>6 DEF CancelStep
<1>5. CASE BeginClose
  <2>1. \A j \in Jobs : snap'[j] = IF j \in jobs THEN Cancel(snap[j]) ELSE snap[j]
    BY <1>5 DEF BeginClose
  <2>2. \A j \in Jobs :
           /\ j \notin jobs => snap'[j] = snap[j]
           /\ j \in jobs => snap'[j].status = IF snap[j].status \in {"queued", "processing"}
                                              THEN "canceled" ELSE snap[j].status
    BY <2>1, MethodsMoveStatus DEF ManagerInv, TypeOK
  <2>3. UNCHANGED <<submit, jobs, queue, worker, current, cancel, target>> /\ Queued' = Queued
    BY <1>5 DEF BeginClose, Queued
  <2>4. Acceptance'
    BY <2>2, <2>3 DEF ManagerInv, Acceptance, Early
  <2>5. Progress'
    BY <2>2, <2>3 DEF ManagerInv, Acceptance, Progress, Fits, Resting, Terminal
  <2> QED  BY <2>4, <2>5
<1> QED  BY <1>2, <1>3, <1>4, <1>5

\* No step lets a job into the channel twice, or while the worker has it.
LEMMA LineStep ==
    ASSUME ManagerInv, Next
    PROVE  Line'
<1> jobs \cup Queued \subseteq Jobs /\ queue \in Seq(Jobs)
  BY QueuedJobs DEF ManagerInv, TypeOK
<1>1. ASSUME queue' = queue, current' = current,
             worker' \notin Resting => worker \notin Resting
      PROVE  Line'
  BY <1>1 DEF ManagerInv, Line, Distinct, Queued
<1>2. ASSUME NEW j \in Jobs, SubmitStep(j)  PROVE Line'
  <2>1. CASE Enqueue(j) /\ StillOpen
    <3>1. /\ submit[j] = "staged" /\ queue' = Append(queue, j)
          /\ UNCHANGED <<current, worker>>
      BY <2>1 DEF Enqueue, SubmitFrame, handVars
    <3>2. j \notin Queued /\ (worker \notin Resting => current # j)
      BY <3>1 DEF ManagerInv, Acceptance
    <3>3. Queued' = Queued \cup {j} /\ Distinct(queue')
      BY <3>1, <3>2, AppendElements, QueuedJobs DEF ManagerInv, TypeOK, Line
    <3> QED  BY <3>1, <3>2, <3>3 DEF ManagerInv, Line
  <2>2. CASE ~(Enqueue(j) /\ StillOpen)
    <3>1. UNCHANGED <<queue, current, worker>>
      BY <1>2, <2>2 DEF SubmitStep, BeginSubmit, TakeSlot, Authorize, Stage, Enqueue, AbortSubmit,
                        ReleaseSubmit, SubmitFrame, handVars
    <3> QED  BY <1>1, <3>1
  <2> QED  BY <2>1, <2>2
<1>3. CASE WorkerStep
  <2>1. CASE Dequeue
    <3>1. current' = Head(queue) /\ queue' = Tail(queue) /\ queue # << >>
      BY <2>1 DEF Dequeue
    <3>2. Queued' = Queued \ {Head(queue)} /\ Distinct(queue')
      BY <3>1, TailElements, QueuedJobs DEF ManagerInv, Line
    <3> QED  BY <3>1, <3>2 DEF Line
  <2>2. CASE FinishSignal
    BY <2>2 DEF ManagerInv, Line, FinishSignal, Queued, Distinct, Resting
  <2>3. CASE ~Dequeue /\ ~FinishSignal
    <3>1. /\ UNCHANGED <<queue, current>>
          /\ worker' \notin Resting => worker \notin Resting
      BY <1>3, <2>3
      DEF WorkerStep, ExitWorker, CheckCanceled, Attach, StartJob, Report, Convert, AfterConvert,
          Publish, SucceedJob, Drop, Remove, FinishNotify, FinishRelease, handVars, Resting
    <3> QED  BY <1>1, <3>1
  <2> QED  BY <2>1, <2>2, <2>3
<1>4. ASSUME \/ \E j \in Jobs : TimerStep(j)
             \/ \E c \in Cancelers : CancelStep(c)
             \/ BeginClose \/ Sweep
      PROVE  Line'
  <2>1. UNCHANGED <<queue, current, worker>>
    BY <1>4 DEF TimerStep, Expire, RetentionDelete, RetentionForget, CancelStep, CancelLookup,
                CancelMark, CancelReread, CancelNotify, CancelWait, BeginClose, Sweep, CancelFrame,
                handVars
  <2> QED  BY <1>1, <2>1
<1> QED  BY <1>2, <1>3, <1>4 DEF Next

\* The worker's job goes through the stages of Progress in their order.
LEMMA WorkerAcceptance ==
    ASSUME ManagerInv, WorkerStep
    PROVE  Acceptance' /\ Progress'
<1> USE DEF clientVars, handVars, endVars, storeVars
<1> jobs \cup Queued \subseteq Jobs /\ snap \in [Jobs -> Snapshots]
  BY QueuedJobs DEF ManagerInv, TypeOK
<1>1. CASE Dequeue
  <2>1. /\ current' = Head(queue) /\ queue' = Tail(queue) /\ queue # << >>
        /\ worker' = "check" /\ UNCHANGED <<clientVars, snap>>
    BY <1>1 DEF Dequeue
  <2>2. Queued' = Queued \ {Head(queue)} /\ Head(queue) \in Queued
    BY <2>1, TailElements, QueuedJobs DEF ManagerInv, TypeOK, Line
  <2>3. Acceptance'
    BY <2>1, <2>2 DEF ManagerInv, Acceptance
  <2>4. Progress'
    BY <2>1, <2>2 DEF ManagerInv, Progress, Fits
  <2> QED  BY <2>3, <2>4
<1>2. CASE ExitWorker \/ FinishSignal
  BY <1>2 DEF ExitWorker, FinishSignal, ManagerInv, Acceptance, Progress, Queued, Resting
<1>3. CASE ~Dequeue /\ ~ExitWorker /\ ~FinishSignal
  <2>1. UNCHANGED <<clientVars, queue, current>> /\ Queued' = Queued
    BY <1>3 DEF WorkerStep, CheckCanceled, Attach, StartJob, Report, Convert, AfterConvert, Publish,
                SucceedJob, Drop, Remove, FinishNotify, FinishRelease, Queued
  <2>2. worker \notin Resting
    BY <1>3 DEF WorkerStep, CheckCanceled, Attach, StartJob, Report, Convert, AfterConvert, Publish,
                SucceedJob, Drop, Remove, FinishNotify, FinishRelease, Resting
  <2>3. /\ current \in Jobs /\ submit[current] = "accepted" /\ current \notin Queued
        /\ snap[current] \in Snapshots /\ Fits(worker, snap[current].status)
    BY <2>2 DEF ManagerInv, Acceptance, Line, Progress
  <2>4. \A j \in Jobs : j # current => snap'[j] = snap[j]
    BY <1>3, <2>3 DEF WorkerStep, CheckCanceled, Attach, StartJob, Report, Convert, AfterConvert,
                      Publish, SucceedJob, Drop, Remove, FinishNotify, FinishRelease
  <2>5. Acceptance'
    <3>1. /\ UNCHANGED <<submit, jobs, cancel, target>> /\ current' = current
          /\ Queued' = Queued
      BY <2>1
    <3>2. \A j \in Jobs : submit[j] # "accepted" => snap'[j] = snap[j]
      BY <2>3, <2>4
    <3> QED  BY <2>3, <3>1, <3>2 DEF ManagerInv, Acceptance, Early
  <2>6. ASSUME Fits(worker', snap'[current].status)
        PROVE  Progress'
    BY <2>1, <2>3, <2>4, <2>6 DEF ManagerInv, Progress
  <2>7. Fits(worker', snap'[current].status)
    <3>1. CASE CheckCanceled
      BY <2>3, <3>1 DEF CheckCanceled, Fits, Terminal
    <3>2. CASE Attach
      BY <2>3, <3>2 DEF Attach, Fits
    <3>3. CASE StartJob
      BY <2>3, <3>3, MethodsMoveStatus DEF StartJob, Started, CanStart, Fits, Terminal
    <3>4. CASE Report
      BY <2>3, <3>4, MethodsMoveStatus DEF Report, Fits
    <3>5. CASE Convert
      BY <2>3, <3>5 DEF Convert, Fits
    <3>6. CASE AfterConvert
      BY <2>3, <3>6, MethodsMoveStatus DEF AfterConvert, Fits, Terminal
    <3>7. CASE Publish
      BY <2>3, <3>7, MethodsMoveStatus DEF Publish, Fits, Terminal
    <3>8. CASE SucceedJob
      BY <2>3, <3>8, MethodsMoveStatus
      DEF SucceedJob, CanSucceed, ManagerInv, TypeOK, Fits, Terminal
    <3>9. CASE Drop \/ Remove \/ FinishNotify \/ FinishRelease
      BY <2>3, <3>9 DEF Drop, Remove, FinishNotify, FinishRelease, Fits
    <3> QED  BY <1>3, <3>1, <3>2, <3>3, <3>4, <3>5, <3>6, <3>7, <3>8, <3>9 DEF WorkerStep
  <2> QED  BY <2>5, <2>6, <2>7
<1> QED  BY <1>1, <1>2, <1>3

\* The invariant is inductive.
LEMMA ManagerStep ==
    ASSUME ManagerInv, [Next]_vars
    PROVE  ManagerInv'
<1>1. CASE Next
  <2>1. Line'
    BY <1>1, LineStep
  <2>2. ASSUME NEW j \in Jobs, SubmitStep(j)  PROVE ManagerInv'
    BY <2>1, <2>2, SubmitTypes, SubmitAcceptance DEF ManagerInv
  <2>3. CASE WorkerStep
    BY <2>1, <2>3, WorkerTypes, WorkerAcceptance DEF ManagerInv
  <2>4. CASE \/ \E j \in Jobs : TimerStep(j)
             \/ \E c \in Cancelers : CancelStep(c)
             \/ BeginClose \/ Sweep
    BY <2>1, <2>4, OtherTypes, OtherAcceptance DEF ManagerInv
  <2> QED  BY <1>1, <2>2, <2>3, <2>4 DEF Next
<1>2. CASE UNCHANGED vars
  BY <1>2 DEF vars, clientVars, handVars, endVars, storeVars, ManagerInv, TypeOK, Acceptance, Line,
              Distinct, Progress, Queued
<1> QED  BY <1>1, <1>2

\* The inductive invariant: what is accepted is tracked, nothing is in line
\* twice, and the worker's place fits the status of its job.
THEOREM ManagerInvariant == Spec => []ManagerInv
BY ManagerInit, ManagerStep, PTL DEF Spec

\* The state of the manager keeps its types; in particular no more slots are
\* taken than there are, and billing is told terminal statuses only, so no path
\* through run ends with a job that still looks active.
THEOREM TypeCorrect == Spec => []TypeOK
BY ManagerInvariant, PTL DEF ManagerInv

-----------------------------------------------------------------------------
(* Slots. *)

\* Besides SlotAccounting: the jobs that hold slots can be counted, and the
\* queue is as long as it has jobs.
SlotInv ==
    /\ IsFiniteSet(Holders)
    /\ SlotAccounting
    /\ Len(queue) = Cardinality(Queued)

Admitting == {j \in Jobs : submit[j] \in Admitted}

AtWorker == IF worker \in Occupied THEN {current} ELSE {}

\* The three places in which a job can hold a slot exclude each other.
LEMMA HoldersApart ==
    ASSUME ManagerInv
    PROVE  /\ Holders = Admitting \cup Queued \cup AtWorker
           /\ Admitting \cap (Queued \cup AtWorker) = {}
           /\ Queued \cap AtWorker = {}
<1>1. Holders = Admitting \cup Queued \cup AtWorker
  BY DEF Holders, Admitting, AtWorker
<1>2. \A j \in Queued \cup AtWorker : submit[j] = "accepted"
  BY DEF ManagerInv, Acceptance, AtWorker, Occupied, Resting
<1>3. Queued \cap AtWorker = {}
  BY DEF ManagerInv, Line, AtWorker, Occupied, Resting
<1> QED  BY <1>1, <1>2, <1>3 DEF Admitting, Admitted

\* A job takes a slot, gives it back, or passes it on.
LEMMA SlotCases ==
    ASSUME ManagerInv, SlotInv,
           \/ slots' = slots /\ Holders' = Holders
           \/ \E j : slots' = slots + 1 /\ j \notin Holders /\ Holders' = Holders \cup {j}
           \/ \E j : slots' = slots - 1 /\ j \in Holders /\ Holders' = Holders \ {j},
           \/ UNCHANGED queue
           \/ \E j \in Jobs : j \notin Queued /\ queue' = Append(queue, j)
           \/ queue # << >> /\ queue' = Tail(queue)
    PROVE  SlotInv'
<1>1. IsFiniteSet(Holders') /\ slots' = Cardinality(Holders')
  BY FS_AddElement, FS_RemoveElement, FS_CardinalityType DEF SlotInv, SlotAccounting
<1>2. Len(queue') = Cardinality(Queued')
  <2>1. IsFiniteSet(Queued)
    BY FS_Subset DEF SlotInv, Holders
  <2>2. queue \in Seq(Jobs) /\ Distinct(queue)
    BY DEF ManagerInv, TypeOK, Line
  <2>3. CASE UNCHANGED queue
    BY <2>3 DEF SlotInv, Queued
  <2>4. ASSUME NEW j \in Jobs, j \notin Queued, queue' = Append(queue, j)
        PROVE  Len(queue') = Cardinality(Queued')
    <3>1. Queued' = Queued \cup {j} /\ Len(queue') = Len(queue) + 1
      BY <2>2, <2>4, AppendElements, AppendProperties, QueuedJobs DEF ManagerInv
    <3>2. Cardinality(Queued \cup {j}) = Cardinality(Queued) + 1
      BY <2>1, <2>4, FS_AddElement
    <3> QED  BY <3>1, <3>2 DEF SlotInv
  <2>5. CASE queue # << >> /\ queue' = Tail(queue)
    <3>1. /\ Queued' = Queued \ {Head(queue)} /\ Head(queue) \in Queued
          /\ Len(queue') = Len(queue) - 1
      BY <2>2, <2>5, TailElements, HeadTailProperties, QueuedJobs DEF ManagerInv
    <3>2. Cardinality(Queued \ {Head(queue)}) = Cardinality(Queued) - 1
      BY <2>1, <3>1, FS_RemoveElement
    <3> QED  BY <3>1, <3>2 DEF SlotInv
  <2> QED  BY <2>3, <2>4, <2>5
<1> QED  BY <1>1, <1>2 DEF SlotInv, SlotAccounting

\* Every step moves the slots with their holders.
LEMMA SlotStep ==
    ASSUME ManagerInv, SlotInv, Next
    PROVE  SlotInv'
<1> ManagerInv'
  BY ManagerStep
<1> USE HoldersApart
<1>1. Holders' = Admitting' \cup Queued' \cup AtWorker'
  BY DEF Holders, Admitting, AtWorker
<1>2. ASSUME UNCHANGED <<slots, queue>>, Admitting' = Admitting, AtWorker' = AtWorker
      PROVE  SlotInv'
  BY <1>1, <1>2, SlotCases DEF Queued
<1>3. ASSUME NEW j \in Jobs, SubmitStep(j)  PROVE SlotInv'
  <2> USE DEF SubmitFrame, Goto, handVars
  <2>1. AtWorker' = AtWorker
    BY <1>3 DEF SubmitStep, BeginSubmit, TakeSlot, Authorize, Stage, Enqueue, AbortSubmit,
                ReleaseSubmit, AtWorker
  <2>2. submit \in [Jobs -> SubmitStates]
    BY DEF ManagerInv, TypeOK
  <2>3. ASSUME NEW p, submit' = [submit EXCEPT ![j] = p], p \in Admitted, submit[j] \in Admitted
        PROVE  Admitting' = Admitting
    BY <2>2, <2>3 DEF Admitting
  <2>4. ASSUME NEW p, submit' = [submit EXCEPT ![j] = p], p \notin Admitted
        PROVE  Admitting' = Admitting \ {j}
    BY <2>2, <2>4 DEF Admitting
  <2>5. submit[j] \notin Admitted => j \notin Admitting
    BY DEF Admitting
  <2>6. CASE BeginSubmit(j)
    BY <2>6, <2>1, <2>4, <2>5, <1>2 DEF BeginSubmit, Admitted
  <2>7. CASE TakeSlot(j)
    <3>1. UNCHANGED queue /\ Queued' = Queued
      BY <2>7 DEF TakeSlot, Queued
    <3>2. CASE SlotFree
      <4>1. submit' = [submit EXCEPT ![j] = "admitted"] /\ slots' = slots + 1
        BY <2>7, <3>2 DEF TakeSlot
      <4>2. Admitting' = Admitting \cup {j}
        BY <2>2, <4>1 DEF Admitting, Admitted
      <4>3. submit[j] = "checked" /\ j \notin Holders
        BY <2>7, <1>1 DEF TakeSlot, Holders, Admitted, ManagerInv, Acceptance, Occupied, Resting
      <4>4. Holders' = Holders \cup {j}
        BY <1>1, <2>1, <3>1, <4>2
      <4> QED  BY <3>1, <4>1, <4>3, <4>4, SlotCases
    <3>3. CASE ~SlotFree
      BY <2>7, <3>3, <2>1, <2>4, <2>5, <1>2 DEF TakeSlot, Admitted
    <3> QED  BY <3>2, <3>3
  <2>8. CASE Authorize(j)
    BY <2>8, <2>1, <2>3, <1>2 DEF Authorize, Admitted
  <2>9. CASE Stage(j)
    BY <2>9, <2>1, <2>3, <1>2 DEF Stage, Admitted
  <2>10. CASE Enqueue(j)
    <3>1. CASE StillOpen
      <4>1. /\ submit[j] = "staged" /\ submit' = [submit EXCEPT ![j] = "accepted"]
            /\ queue' = Append(queue, j) /\ slots' = slots
        BY <2>10, <3>1 DEF Enqueue
      <4>2. Admitting' = Admitting \ {j} /\ j \in Admitting /\ j \notin Queued
        BY <2>4, <4>1 DEF Admitted, Admitting, ManagerInv, Acceptance
      <4>3. Queued' = Queued \cup {j}
        BY <4>1, AppendElements, QueuedJobs DEF ManagerInv, TypeOK
      <4>4. Holders' = Holders
        BY <1>1, <2>1, <4>2, <4>3
      <4> QED  BY <4>1, <4>2, <4>4, SlotCases
    <3>2. CASE ~StillOpen
      BY <2>10, <3>2, <2>1, <2>3, <1>2 DEF Enqueue, Admitted
    <3> QED  BY <3>1, <3>2
  <2>11. CASE AbortSubmit(j)
    BY <2>11, <2>1, <2>3, <1>2 DEF AbortSubmit, Failed, Admitted
  <2>12. CASE ReleaseSubmit(j)
    <3>1. /\ submit[j] = "releasing" /\ submit' = [submit EXCEPT ![j] = "rejected"]
          /\ slots' = slots - 1 /\ UNCHANGED queue /\ Queued' = Queued
      BY <2>12 DEF ReleaseSubmit, Queued
    <3>2. Admitting' = Admitting \ {j} /\ j \in Admitting
      BY <2>4, <3>1 DEF Admitted, Admitting
    <3>3. Holders' = Holders \ {j} /\ j \in Holders
      BY <1>1, <2>1, <3>1, <3>2
    <3> QED  BY <3>1, <3>3, SlotCases
  <2> QED  BY <1>3, <2>6, <2>7, <2>8, <2>9, <2>10, <2>11, <2>12 DEF SubmitStep
<1>4. CASE WorkerStep
  <2>1. Admitting' = Admitting
    BY <1>4 DEF WorkerStep, Dequeue, ExitWorker, CheckCanceled, Attach, StartJob, Report, Convert,
                AfterConvert, Publish, SucceedJob, Drop, Remove, FinishNotify, FinishRelease,
                FinishSignal, clientVars, Admitting
  <2>2. CASE Dequeue
    <3>1. /\ current' = Head(queue) /\ queue' = Tail(queue) /\ queue # << >> /\ slots' = slots
          /\ worker = "idle" /\ worker' = "check"
      BY <2>2 DEF Dequeue
    <3>2. Queued' = Queued \ {Head(queue)} /\ Head(queue) \in Queued
      BY <3>1, TailElements, QueuedJobs DEF ManagerInv, TypeOK, Line
    <3>3. AtWorker = {} /\ AtWorker' = {Head(queue)}
      BY <3>1 DEF AtWorker, Occupied, WorkerStates
    <3>4. Holders' = Holders
      BY <1>1, <2>1, <3>2, <3>3
    <3> QED  BY <3>1, <3>4, SlotCases
  <2>3. CASE FinishRelease
    <3>1. /\ worker = "release" /\ worker' = "signal" /\ slots' = slots - 1
          /\ UNCHANGED <<queue, current>> /\ Queued' = Queued
      BY <2>3 DEF FinishRelease, SlotsReleased, handVars, Queued
    <3>2. AtWorker = {current} /\ AtWorker' = {}
      BY <3>1 DEF AtWorker, Occupied, WorkerStates
    <3>3. Holders' = Holders \ {current} /\ current \in Holders
      BY <1>1, <2>1, <3>1, <3>2
    <3> QED  BY <3>1, <3>3, SlotCases
  <2>4. CASE ~Dequeue /\ ~FinishRelease
    <3>1. UNCHANGED <<slots, queue>>
      BY <1>4, <2>4 DEF WorkerStep, ExitWorker, CheckCanceled, Attach, StartJob, Report, Convert,
                        AfterConvert, Publish, SucceedJob, Drop, Remove, FinishNotify, FinishSignal
    <3>2. AtWorker' = AtWorker
      BY <1>4, <2>4 DEF WorkerStep, ExitWorker, CheckCanceled, Attach, StartJob, Started, Report,
                        Convert, AfterConvert, Publish, SucceedJob, Drop, Remove, FinishNotify,
                        FinishSignal, AtWorker, Occupied, WorkerStates, handVars
    <3> QED  BY <1>2, <2>1, <3>1, <3>2
  <2> QED  BY <2>2, <2>3, <2>4
<1>5. ASSUME \/ \E j \in Jobs : TimerStep(j)
             \/ \E c \in Cancelers : CancelStep(c)
             \/ BeginClose \/ Sweep
      PROVE  SlotInv'
  <2>1. UNCHANGED <<slots, queue, submit, worker, current>>
    BY <1>5 DEF TimerStep, Expire, RetentionDelete, RetentionForget, CancelStep, CancelLookup,
                CancelMark, CancelReread, CancelNotify, CancelWait, BeginClose, Sweep, CancelFrame,
                handVars, clientVars
  <2> QED  BY <1>2, <2>1 DEF Admitting, AtWorker
<1> QED  BY <1>3, <1>4, <1>5 DEF Next

\* The slots that are taken are those of the submissions under way, the queued
\* jobs and the job at the worker, in every reachable state.
THEOREM SlotsInvariant == Spec => [](ManagerInv /\ SlotInv)
<1>1. Init => SlotInv
  <2>1. Init => Queued = {} /\ Len(queue) = 0 /\ slots = 0
    BY DEF Init, Queued
  <2>2. Init => Holders = {}
    BY <2>1 DEF Init, Holders, Admitted, Occupied
  <2> QED  BY <2>1, <2>2, FS_EmptySet DEF SlotInv, SlotAccounting
<1>2. ManagerInv /\ SlotInv /\ [Next]_vars => SlotInv'
  <2>1. UNCHANGED vars /\ SlotInv => SlotInv'
    BY DEF vars, clientVars, handVars, SlotInv, SlotAccounting, Holders, Queued
  <2> QED  BY <2>1, SlotStep
<1> QED  BY <1>1, <1>2, ManagerInvariant, PTL DEF Spec

\* Slots are neither leaked nor given back twice, for any number of jobs.
THEOREM SlotsAccounted == Spec => []SlotAccounting
BY SlotsInvariant, PTL DEF SlotInv

\* The send in SubmitFor finds room, so the manager's lock is never held while
\* it waits: staged and queued jobs all hold slots, of which there are no more
\* than the queue has room.
THEOREM SendsFindRoom == Spec => []SendNeverBlocks
<1>1. ManagerInv /\ SlotInv => SendNeverBlocks
  <2> SUFFICES ASSUME ManagerInv, SlotInv, NEW j \in Jobs, submit[j] = "staged"
               PROVE  Len(queue) < Capacity
    BY DEF SendNeverBlocks
  <2>1. j \in Holders /\ j \notin Queued /\ Queued \subseteq Holders
    BY DEF Holders, Admitted, ManagerInv, Acceptance
  <2>2. IsFiniteSet(Queued)
    BY <2>1, FS_Subset DEF SlotInv
  <2>3. Cardinality(Queued \cup {j}) = Cardinality(Queued) + 1
    BY <2>1, <2>2, FS_AddElement
  <2>4. Cardinality(Queued \cup {j}) <= Cardinality(Holders)
    BY <2>1, FS_Subset DEF SlotInv
  <2>5. Cardinality(Holders) <= Capacity /\ Cardinality(Holders) \in Nat
    BY FS_CardinalityType DEF SlotInv, SlotAccounting, ManagerInv, TypeOK
  <2> QED  BY <2>2, <2>3, <2>4, <2>5, FS_CardinalityType, CapacityAssumption
           DEF SlotInv, Capacity
<1> QED  BY <1>1, SlotsInvariant, PTL

-----------------------------------------------------------------------------
(* How jobs end. *)

\* Once closed, nothing is sent to the queue, whatever was under way.
THEOREM ClosedQueueOnlyShrinks == Spec => NothingEnqueuedAfterClose
<1>1. ASSUME ManagerInv, [Next]_vars, closed
      PROVE  Len(queue') <= Len(queue)
  <2>1. queue' = queue \/ (queue # << >> /\ queue' = Tail(queue))
    BY <1>1
    DEF Next, SubmitStep, BeginSubmit, TakeSlot, Authorize, Stage, Enqueue, StillOpen, AbortSubmit,
        ReleaseSubmit, TimerStep, Expire, RetentionDelete, RetentionForget, WorkerStep, Dequeue,
        ExitWorker, CheckCanceled, Attach, StartJob, Report, Convert, AfterConvert, Publish,
        SucceedJob, Drop, Remove, FinishNotify, FinishRelease, FinishSignal, CancelStep,
        CancelLookup, CancelMark, CancelReread, CancelNotify, CancelWait, CancelFrame, BeginClose,
        Sweep, vars
  <2>2. queue \in Seq(Jobs) /\ Len(queue) \in Nat
    BY <1>1, LenProperties DEF ManagerInv, TypeOK
  <2> QED  BY <2>1, <2>2, HeadTailProperties
<1> QED  BY <1>1, ManagerInvariant, PTL DEF Spec, NothingEnqueuedAfterClose

\* A step leaves the snapshot of a job alone, calls a method of the job, or
\* makes the job.
LEMMA SnapshotSteps ==
    ASSUME ManagerInv, [Next]_vars, NEW j \in Jobs
    PROVE  \/ snap'[j] \in {snap[j], Start(snap[j]), ReportProgress(snap[j]), Fail(snap[j]),
                            Cancel(snap[j])}
           \/ \E a \in Artifacts : snap'[j] = Succeed(snap[j], a)
           \/ submit[j] = "authorized" /\ snap[j] = Absent /\ snap'[j] = NewJob
<1> snap \in [Jobs -> Snapshots] /\ product \in Artifacts
  BY DEF ManagerInv, TypeOK
<1>1. ASSUME NEW k \in Jobs, SubmitStep(k)
      PROVE  snap'[j] = snap[j] \/ (submit[j] = "authorized" /\ snap'[j] = NewJob)
  BY <1>1 DEF SubmitStep, BeginSubmit, TakeSlot, Authorize, Stage, Enqueue, AbortSubmit,
              ReleaseSubmit
<1>2. submit[j] = "authorized" => snap[j] = Absent
  BY DEF ManagerInv, Acceptance, Early
<1>3. CASE WorkerStep
  <2>1. CASE StartJob
    BY <2>1 DEF StartJob
  <2>2. CASE Report
    BY <2>2 DEF Report
  <2>3. CASE AfterConvert
    BY <2>3 DEF AfterConvert
  <2>4. CASE Publish
    BY <2>4 DEF Publish
  <2>5. CASE SucceedJob
    BY <2>5 DEF SucceedJob
  <2>6. CASE snap' = snap
    BY <2>6
  <2> QED  BY <1>3, <2>1, <2>2, <2>3, <2>4, <2>5, <2>6
           DEF WorkerStep, Dequeue, ExitWorker, CheckCanceled, Attach, Convert, Drop, Remove,
               FinishNotify, FinishRelease, FinishSignal
<1>4. ASSUME NEW c \in Cancelers, CancelStep(c)
      PROVE  snap'[j] \in {snap[j], Cancel(snap[j])}
  BY <1>4 DEF CancelStep, CancelLookup, CancelMark, CancelReread, CancelNotify, CancelWait
<1>5. CASE BeginClose
  BY <1>5 DEF BeginClose
<1>6. CASE Sweep \/ UNCHANGED vars \/ \E k \in Jobs : TimerStep(k)
  BY <1>6 DEF Sweep, TimerStep, Expire, RetentionDelete, RetentionForget, vars
<1> QED  BY <1>1, <1>2, <1>3, <1>4, <1>5, <1>6 DEF Next

\* A terminal snapshot is never changed.
LEMMA TerminalStep ==
    ASSUME ManagerInv, [Next]_vars, NEW j \in Jobs, snap[j].status \in Terminal
    PROVE  snap'[j] = snap[j]
<1>1. snap[j] \in Snapshots /\ snap[j] # Absent
  BY DEF ManagerInv, TypeOK, Absent, Terminal
<1> QED  BY <1>1, SnapshotSteps, MethodsKeepTerminal

\* The first end of a job is final: of all that may fail, cancel, complete,
\* close it or report about it at the same time, one sets its snapshot for good.
THEOREM EndsAreFinal == Spec => TerminalIsFinal
<1>1. ASSUME ManagerInv, [Next]_vars
      PROVE  \A j \in Jobs : snap[j].status \in Terminal => snap'[j] = snap[j]
  BY <1>1, TerminalStep
<1> QED  BY <1>1, ManagerInvariant, PTL DEF Spec, TerminalIsFinal

-----------------------------------------------------------------------------
(* Who moves what. *)

\* The places at which the worker converts, publishes or completes a job.
Working == {"convert", "converted", "publish", "succeed", "drop"}

\* Between a Dequeue and the FinishSignal that follows, the worker has one job,
\* and takes it through its places in order.
LEMMA WorkerMoves ==
    ASSUME [Next]_vars, ~Dequeue, ~FinishSignal
    PROVE  /\ UNCHANGED <<current, done>>
           /\ worker' \notin Resting => worker \notin Resting
           /\ ~Attach /\ worker' = "start" => worker = "start"
           /\ worker' \in Working => worker \in Working \/ StartJob
           /\ ~FinishNotify /\ worker' \in {"release", "signal"} => worker \in {"release", "signal"}
<1>1. CASE WorkerStep
  BY <1>1
  DEF WorkerStep, ExitWorker, CheckCanceled, Attach, StartJob, Started, Report, Convert,
      AfterConvert, Publish, SucceedJob, Drop, Remove, FinishNotify, FinishRelease, handVars,
      endVars, Resting, Working
<1>2. CASE ~WorkerStep
  <2>1. UNCHANGED <<current, done, worker>>
    BY <1>2
    DEF Next, SubmitStep, BeginSubmit, TakeSlot, Authorize, Stage, Enqueue, AbortSubmit,
        ReleaseSubmit, SubmitFrame, TimerStep, Expire, RetentionDelete, RetentionForget,
        CancelStep, CancelLookup, CancelMark, CancelReread, CancelNotify, CancelWait, CancelFrame,
        BeginClose, Sweep, vars, handVars, endVars
  <2> QED  BY <1>2, <2>1 DEF WorkerStep
<1> QED  BY <1>1, <1>2

\* Only the calls of cancel move a cancel.
LEMMA CancelMoves ==
    ASSUME [Next]_vars, ~(\E c \in Cancelers : CancelStep(c))
    PROVE  UNCHANGED <<cancel, target, acked>>
BY DEF Next, SubmitStep, BeginSubmit, TakeSlot, Authorize, Stage, Enqueue, AbortSubmit,
       ReleaseSubmit, SubmitFrame, TimerStep, Expire, RetentionDelete, RetentionForget,
       WorkerStep, Dequeue, ExitWorker, CheckCanceled, Attach, StartJob, Report, Convert,
       AfterConvert, Publish, SucceedJob, Drop, Remove, FinishNotify, FinishRelease,
       FinishSignal, BeginClose, Sweep, vars, clientVars

\* A cancel function, once attached, stays.
LEMMA FunctionsStay ==
    ASSUME ManagerInv, [Next]_vars, NEW j \in Jobs, cancelFn[j] # "nil"
    PROVE  cancelFn'[j] # "nil"
<1> cancelFn \in [Jobs -> {"nil", "live", "canceled", "expired"}]
  BY DEF ManagerInv, TypeOK
<1>1. \/ cancelFn' = cancelFn
      \/ Attach \/ FinishSignal \/ BeginClose
      \/ \E k \in Jobs : Expire(k)
      \/ \E c \in Cancelers : CancelReread(c)
  BY DEF Next, SubmitStep, BeginSubmit, TakeSlot, Authorize, Stage, Enqueue, AbortSubmit,
         ReleaseSubmit, SubmitFrame, TimerStep, RetentionDelete, RetentionForget, WorkerStep,
         Dequeue, ExitWorker, CheckCanceled, StartJob, Report, Convert, AfterConvert, Publish,
         SucceedJob, Drop, Remove, FinishNotify, FinishRelease, CancelStep, CancelLookup,
         CancelMark, CancelNotify, CancelWait, Sweep, vars
<1>2. CASE Attach \/ FinishSignal \/ BeginClose
  BY <1>2 DEF Attach, FinishSignal, BeginClose, Canceled
<1>3. ASSUME NEW k \in Jobs, Expire(k)  PROVE cancelFn'[j] # "nil"
  BY <1>3 DEF Expire
<1>4. ASSUME NEW c \in Cancelers, CancelReread(c)  PROVE cancelFn'[j] # "nil"
  BY <1>4 DEF CancelReread, Canceled
<1> QED  BY <1>1, <1>2, <1>3, <1>4

-----------------------------------------------------------------------------
(* What billing is told. *)

\* A submission at one of these points has told billing nothing yet.
Untold == Early \cup {"staged", "aborting"}

\* What billing was told about one job.
Told(j) ==
    /\ submit[j] \in Untold => outcomes[j] = << >>
    /\ \A i \in DOMAIN outcomes[j] :
          outcomes[j][i] = IF submit[j] = "accepted" THEN snap[j].status ELSE "failed"

\* A cancel that went past Job.Cancel is about a canceled job.
Marked == \A c \in Cancelers :
    cancel[c] \in {"marked", "notifying", "waiting"} => snap[target[c]].status = "canceled"

OutcomeInv ==
    /\ \A j \in Jobs : Told(j)
    /\ Marked

\* A cancel passes Job.Cancel only by canceling the job.
LEMMA MarkedStep ==
    ASSUME ManagerInv, Marked, [Next]_vars
    PROVE  Marked'
<1> SUFFICES ASSUME NEW c \in Cancelers, cancel'[c] \in {"marked", "notifying", "waiting"}
             PROVE  snap'[target'[c]].status = "canceled"
  BY DEF Marked
<1> cancel \in [Cancelers -> {"idle", "found", "marked", "notifying", "waiting"}]
    /\ target \in [Cancelers -> Jobs \cup {NoJob}] /\ snap \in [Jobs -> Snapshots]
  BY DEF ManagerInv, TypeOK
<1>1. CASE CancelMark(c)
  <2>1. /\ cancel[c] = "found" /\ Open(snap[target[c]]) /\ target'[c] = target[c]
        /\ snap' = [snap EXCEPT ![target[c]] = Cancel(snap[target[c]])]
    BY <1>1 DEF CancelMark, Turn
  <2>2. target[c] \in Jobs
    BY <2>1 DEF ManagerInv, Acceptance
  <2> QED  BY <2>1, <2>2, MethodsMoveStatus DEF Open
<1>2. CASE cancel[c] \in {"marked", "notifying", "waiting"} /\ target'[c] = target[c]
  <2>1. target[c] \in Jobs /\ snap[target[c]].status = "canceled"
    BY <1>2 DEF ManagerInv, Acceptance, Marked
  <2> QED  BY <1>2, <2>1, TerminalStep DEF Terminal
<1>3. CASE ~CancelMark(c)
  <2>1. ASSUME NEW d \in Cancelers, CancelStep(d)
        PROVE  /\ cancel[c] \in {"marked", "notifying", "waiting"}
               /\ target'[c] = target[c]
    <3>1. CASE d = c
      BY <1>3, <2>1, <3>1 DEF CancelStep, CancelLookup, CancelReread, CancelNotify, CancelWait,
                              CancelReturns, Turn
    <3>2. CASE d # c
      BY <2>1, <3>2 DEF CancelStep, CancelLookup, CancelMark, CancelReread, CancelNotify,
                        CancelWait, CancelReturns, Turn
    <3> QED  BY <3>1, <3>2
  <2>2. CASE ~(\E d \in Cancelers : CancelStep(d))
    BY <1>2, <2>2, CancelMoves
  <2> QED  BY <1>2, <2>1, <2>2
<1> QED  BY <1>1, <1>3

\* A step tells billing nothing about a job, or "failed" for a submission on
\* its way out, or the terminal status of an accepted job.
LEMMA OutcomeSteps ==
    ASSUME ManagerInv, Marked, [Next]_vars, NEW j \in Jobs
    PROVE  \/ /\ outcomes'[j] = outcomes[j]
              /\ submit'[j] \in Untold => submit[j] \in Untold
              /\ submit[j] = "accepted" => submit'[j] = "accepted"
              /\ submit'[j] = "accepted" => submit[j] \in Untold \cup {"accepted"}
           \/ /\ submit[j] = "aborting" /\ submit'[j] = "releasing"
              /\ outcomes'[j] = Append(outcomes[j], "failed")
           \/ /\ submit[j] = "accepted" /\ submit'[j] = "accepted"
              /\ snap'[j] = snap[j] /\ snap[j].status \in Terminal
              /\ outcomes'[j] = Append(outcomes[j], snap[j].status)
<1> /\ submit \in [Jobs -> SubmitStates] /\ outcomes \in [Jobs -> Seq(Terminal)]
    /\ snap \in [Jobs -> Snapshots]
  BY DEF ManagerInv, TypeOK
<1>1. ASSUME NEW k \in Jobs, SubmitStep(k), k # j
      PROVE  outcomes'[j] = outcomes[j] /\ submit'[j] = submit[j]
  BY <1>1 DEF SubmitStep, BeginSubmit, TakeSlot, Authorize, Stage, Enqueue, AbortSubmit, Notify,
              ReleaseSubmit, Goto
<1>2. CASE AbortSubmit(j)
  BY <1>2 DEF AbortSubmit, Failed, Notify, Goto, Untold, Early
<1>3. ASSUME SubmitStep(j), ~AbortSubmit(j)
      PROVE  /\ outcomes' = outcomes /\ submit[j] # "accepted"
             /\ \/ submit[j] \in Untold
                \/ submit'[j] \notin Untold \cup {"accepted"}
  BY <1>3 DEF SubmitStep, BeginSubmit, TakeSlot, Authorize, Stage, Enqueue, ReleaseSubmit, Goto,
              Untold, Early
<1>4. CASE FinishNotify
  <2>1. /\ submit' = submit /\ snap' = snap /\ submit[current] = "accepted" /\ current \in Jobs
        /\ snap[current].status \in Terminal
    BY <1>4 DEF FinishNotify, clientVars, ManagerInv, Acceptance, Progress, Fits, Resting
  <2> QED  BY <1>4, <2>1 DEF FinishNotify, Notify
<1>5. ASSUME NEW c \in Cancelers, CancelNotify(c)
      PROVE  \/ UNCHANGED <<outcomes, submit>>
             \/ /\ submit[j] = "accepted" /\ submit'[j] = "accepted"
                /\ snap'[j] = snap[j] /\ snap[j].status \in Terminal
                /\ outcomes'[j] = Append(outcomes[j], snap[j].status)
             \/ outcomes'[j] = outcomes[j] /\ submit' = submit
  <2>1. /\ submit' = submit /\ snap' = snap /\ submit[target[c]] = "accepted"
        /\ target[c] \in Jobs /\ snap[target[c]].status = "canceled"
    BY <1>5 DEF CancelNotify, CancelFrame, ManagerInv, Acceptance, Marked
  <2> QED  BY <1>5, <2>1 DEF CancelNotify, Notify, Terminal
<1>6. ASSUME ~(\E k \in Jobs : SubmitStep(k)), ~FinishNotify,
             ~(\E c \in Cancelers : CancelNotify(c))
      PROVE  UNCHANGED <<outcomes, submit>>
  BY <1>6
  DEF Next, TimerStep, Expire, RetentionDelete, RetentionForget, WorkerStep, Dequeue, ExitWorker,
      CheckCanceled, Attach, StartJob, Report, Convert, AfterConvert, Publish, SucceedJob, Drop,
      Remove, FinishRelease, FinishSignal, CancelStep, CancelLookup, CancelMark, CancelReread,
      CancelWait, CancelFrame, BeginClose, Sweep, vars, clientVars
<1> QED  BY <1>1, <1>2, <1>3, <1>4, <1>5, <1>6

\* Every step keeps what billing was told in line with the job.
LEMMA OutcomeStep ==
    ASSUME ManagerInv, OutcomeInv, [Next]_vars
    PROVE  OutcomeInv'
<1> SUFFICES ASSUME NEW j \in Jobs
             PROVE  Told(j)'
  BY MarkedStep DEF OutcomeInv
<1> outcomes[j] \in Seq(Terminal)
  BY DEF ManagerInv, TypeOK
<1>1. CASE /\ outcomes'[j] = outcomes[j]
           /\ submit'[j] \in Untold => submit[j] \in Untold
           /\ submit[j] = "accepted" => submit'[j] = "accepted"
           /\ submit'[j] = "accepted" => submit[j] \in Untold \cup {"accepted"}
  <2>1. submit'[j] \in Untold => outcomes'[j] = << >>
    BY <1>1 DEF OutcomeInv, Told
  <2>2. ASSUME NEW i \in DOMAIN outcomes'[j]
        PROVE  outcomes'[j][i] = IF submit'[j] = "accepted" THEN snap'[j].status ELSE "failed"
    <3>1. /\ outcomes[j] # << >> /\ submit[j] \notin Untold
          /\ outcomes[j][i] = IF submit[j] = "accepted" THEN snap[j].status ELSE "failed"
      BY <1>1, <2>2 DEF OutcomeInv, Told
    <3>2. submit'[j] = "accepted" <=> submit[j] = "accepted"
      BY <1>1, <3>1
    <3>3. CASE submit[j] = "accepted"
      <4>1. snap[j].status \in Terminal
        BY <1>1, <2>2, <3>1, <3>3, LenProperties
      <4> QED  BY <1>1, <3>1, <3>2, <3>3, <4>1, TerminalStep
    <3> QED  BY <1>1, <3>1, <3>2, <3>3
  <2> QED  BY <2>1, <2>2 DEF Told
<1>2. ASSUME NEW status \in Terminal, outcomes'[j] = Append(outcomes[j], status),
             status = IF submit'[j] = "accepted" THEN snap'[j].status ELSE "failed",
             submit'[j] \notin Untold,
             \A i \in DOMAIN outcomes[j] : outcomes[j][i] = status
      PROVE  Told(j)'
  <2>1. \A i \in DOMAIN outcomes'[j] : outcomes'[j][i] = status
    BY <1>2, AppendProperties, LenProperties
  <2> QED  BY <1>2, <2>1 DEF Told
<1>3. CASE /\ submit[j] = "aborting" /\ submit'[j] = "releasing"
           /\ outcomes'[j] = Append(outcomes[j], "failed")
  <2>1. outcomes[j] = << >>
    BY <1>3 DEF OutcomeInv, Told, Untold
  <2> QED  BY <1>2, <1>3, <2>1 DEF Terminal, Untold, Early
<1>4. CASE /\ submit[j] = "accepted" /\ submit'[j] = "accepted"
           /\ snap'[j] = snap[j] /\ snap[j].status \in Terminal
           /\ outcomes'[j] = Append(outcomes[j], snap[j].status)
  BY <1>2, <1>4 DEF OutcomeInv, Told, Untold, Early
<1> QED  BY <1>1, <1>3, <1>4, OutcomeSteps DEF OutcomeInv

\* What billing was told about each job, in every reachable state.
LEMMA OutcomeInvariant == Spec => [](ManagerInv /\ OutcomeInv)
<1>1. Init => OutcomeInv
  BY DEF Init, OutcomeInv, Told, Marked
<1>2. ManagerInv /\ OutcomeInv /\ [Next]_vars => OutcomeInv'
  BY OutcomeStep
<1> QED  BY <1>1, <1>2, ManagerInvariant, PTL DEF Spec

\* Billing is told about an accepted job only the status the job ends with, by
\* the worker and a cancel alike, and "failed" about a rejected submission.
THEOREM OutcomesAreFinal == Spec => []OutcomeIsFinal
<1>1. OutcomeInv => OutcomeIsFinal
  BY DEF OutcomeInv, Told, OutcomeIsFinal
<1> QED  BY <1>1, OutcomeInvariant, PTL

-----------------------------------------------------------------------------
(* Jobs that are done. *)

\* A job that is done has ended, was reported, and has left the queue and the
\* worker; a job that is about to be done was reported.
DoneInv ==
    /\ \A j \in done : /\ submit[j] = "accepted" /\ snap[j].status \in Terminal
                       /\ Public => outcomes[j] # << >>
                       /\ j \notin Queued
                       /\ worker \notin Resting => current # j
    /\ worker \in {"release", "signal"} /\ Public => outcomes[current] # << >>

\* What was reported stays reported.
LEMMA OutcomesGrow ==
    ASSUME ManagerInv, Marked, [Next]_vars, NEW j \in Jobs, outcomes[j] # << >>
    PROVE  outcomes'[j] # << >>
<1>1. outcomes[j] \in Seq(Terminal)
  BY DEF ManagerInv, TypeOK
<1>2. ASSUME NEW status \in Terminal
      PROVE  Append(outcomes[j], status) # << >>
  BY <1>1, AppendProperties
<1> QED  BY <1>2, OutcomeSteps DEF Terminal

\* Every step keeps the done jobs settled.
LEMMA DoneStep ==
    ASSUME ManagerInv, Marked, DoneInv, [Next]_vars
    PROVE  DoneInv'
<1> /\ done \subseteq Jobs /\ queue \in Seq(Jobs) /\ outcomes \in [Jobs -> Seq(Terminal)]
    /\ Queued \subseteq Jobs
  BY QueuedJobs DEF ManagerInv, TypeOK
<1>1. ASSUME NEW j \in done
      PROVE  /\ submit'[j] = "accepted" /\ snap'[j].status \in Terminal
             /\ Public => outcomes'[j] # << >>
  BY OutcomesGrow, OutcomeSteps, TerminalStep DEF DoneInv, Untold, Early
<1>2. ASSUME NEW j \in done
      PROVE  j \notin Queued'
  <2>1. \/ queue' = queue
        \/ \E k \in Jobs : submit[k] = "staged" /\ queue' = Append(queue, k)
        \/ queue # << >> /\ queue' = Tail(queue)
    BY DEF Next, SubmitStep, BeginSubmit, TakeSlot, Authorize, Stage, Enqueue, AbortSubmit,
           ReleaseSubmit, TimerStep, Expire, RetentionDelete, RetentionForget, WorkerStep, Dequeue,
           ExitWorker, CheckCanceled, Attach, StartJob, Report, Convert, AfterConvert, Publish,
           SucceedJob, Drop, Remove, FinishNotify, FinishRelease, FinishSignal, CancelStep,
           CancelLookup, CancelMark, CancelReread, CancelNotify, CancelWait, CancelFrame,
           BeginClose, Sweep, vars
  <2>2. CASE queue' = queue
    BY <2>2 DEF DoneInv, Queued
  <2>3. ASSUME NEW k \in Jobs, submit[k] = "staged", queue' = Append(queue, k)
        PROVE  j \notin Queued'
    BY <2>3, AppendElements, QueuedJobs DEF ManagerInv, DoneInv
  <2>4. CASE queue # << >> /\ queue' = Tail(queue)
    BY <2>4, TailElements, QueuedJobs DEF ManagerInv, DoneInv, Line
  <2> QED  BY <2>1, <2>2, <2>3, <2>4
<1>3. CASE Dequeue
  <2>1. /\ worker' = "check" /\ done' = done /\ current' = Head(queue) /\ queue # << >>
    BY <1>3 DEF Dequeue, endVars
  <2>2. Head(queue) \in Queued
    BY <2>1, TailElements, QueuedJobs DEF ManagerInv, Line
  <2> QED  BY <1>1, <1>2, <2>1, <2>2 DEF DoneInv
<1>4. CASE FinishSignal
  <2>1. /\ worker = "signal" /\ worker' = "idle" /\ done' = done \cup {current}
        /\ UNCHANGED <<queue, submit, snap, outcomes>> /\ Queued' = Queued
    BY <1>4 DEF FinishSignal, DoneClosed, clientVars, Queued
  <2>2. /\ current \in Jobs /\ submit[current] = "accepted" /\ current \notin Queued
        /\ snap[current].status \in Terminal
    BY <2>1 DEF ManagerInv, Acceptance, Line, Progress, Fits, Resting
  <2> QED  BY <2>1, <2>2 DEF DoneInv, Resting
<1>5. CASE FinishNotify
  <2>1. /\ worker = "finish" /\ worker' = "release" /\ UNCHANGED <<done, current>>
        /\ Public => outcomes' = [outcomes EXCEPT ![current] =
                                     Append(outcomes[current], snap[current].status)]
    BY <1>5 DEF FinishNotify, Notify, endVars, handVars
  <2>2. current \in Jobs /\ snap[current].status \in Terminal
    BY <2>1 DEF ManagerInv, Acceptance, Progress, Fits, Resting
  <2>3. Public => outcomes'[current] # << >>
    BY <2>1, <2>2, AppendProperties
  <2> QED  BY <1>1, <1>2, <2>1, <2>3 DEF DoneInv, Resting
<1>6. CASE ~Dequeue /\ ~FinishSignal /\ ~FinishNotify
  <2>1. UNCHANGED <<done, current>>
    BY <1>6, WorkerMoves
  <2>2. /\ worker' \notin Resting => worker \notin Resting
        /\ worker' \in {"release", "signal"} => worker \in {"release", "signal"}
    BY <1>6, WorkerMoves
  <2>3. worker' \in {"release", "signal"} /\ Public => outcomes'[current] # << >>
    <3> SUFFICES ASSUME worker' \in {"release", "signal"}, Public
                 PROVE  outcomes'[current] # << >>
      OBVIOUS
    <3>1. current \in Jobs /\ outcomes[current] # << >>
      BY <2>2 DEF DoneInv, ManagerInv, Acceptance, Resting
    <3> QED  BY <3>1, OutcomesGrow
  <2> QED  BY <1>1, <1>2, <2>1, <2>2, <2>3 DEF DoneInv
<1> QED  BY <1>3, <1>4, <1>5, <1>6

\* Done jobs are settled and out of line, in every reachable state.
LEMMA DoneInvariant == Spec => [](ManagerInv /\ OutcomeInv /\ DoneInv)
<1>1. Init => DoneInv
  BY DEF Init, DoneInv
<1>2. ManagerInv /\ OutcomeInv /\ DoneInv /\ [Next]_vars => DoneInv'
  BY DoneStep DEF OutcomeInv
<1> QED  BY <1>1, <1>2, OutcomeInvariant, PTL DEF Spec

\* A job the worker is through with has ended and, in public mode, was
\* reported: no path through run forgets either.
THEOREM DoneJobsAreSettled == Spec => []DoneIsSettled
<1>1. DoneInv => DoneIsSettled
  BY DEF DoneInv, DoneIsSettled
<1> QED  BY <1>1, DoneInvariant, PTL

-----------------------------------------------------------------------------
(* Cancels that have returned. *)

\* The worker does not work on the job.
Quiet(j) == ~(current = j /\ worker \in Working)

\* A job that is being worked on has a cancel function to be found; a cancel
\* that found none, or has returned, left nothing at work.
CancelInv ==
    /\ worker \in Working \cup {"start"} => cancelFn[current] # "nil"
    /\ \A c \in Cancelers : cancel[c] = "notifying" => Quiet(target[c])
    /\ \A j \in acked : snap[j].status = "canceled" /\ Quiet(j)

\* A canceled job that is not being worked on will not be.
LEMMA QuietStep ==
    ASSUME ManagerInv, [Next]_vars, NEW j \in Jobs, snap[j].status = "canceled", Quiet(j)
    PROVE  Quiet(j)'
<1>1. CASE StartJob
  BY <1>1 DEF StartJob, Started, CanStart, handVars, Quiet, Working
<1>2. CASE Dequeue \/ FinishSignal
  BY <1>2 DEF Dequeue, FinishSignal, Quiet, Working
<1>3. CASE ~StartJob /\ ~Dequeue /\ ~FinishSignal
  BY <1>3, WorkerMoves DEF Quiet
<1> QED  BY <1>1, <1>2, <1>3

\* Every step keeps the targets of returned cancels quiet.
LEMMA CancelInvStep ==
    ASSUME ManagerInv, Marked, DoneInv, CancelInv, [Next]_vars
    PROVE  CancelInv'
<1> /\ cancel \in [Cancelers -> {"idle", "found", "marked", "notifying", "waiting"}]
    /\ target \in [Cancelers -> Jobs \cup {NoJob}]
    /\ cancelFn \in [Jobs -> {"nil", "live", "canceled", "expired"}] /\ acked \subseteq Jobs
  BY DEF ManagerInv, TypeOK
<1>1. worker' \in Working \cup {"start"} => cancelFn'[current'] # "nil"
  <2>1. CASE Attach
    <3>1. current \in Jobs
      BY <2>1 DEF Attach, ManagerInv, Acceptance, Resting
    <3> QED  BY <2>1, <3>1 DEF Attach, handVars
  <2>2. CASE Dequeue \/ FinishSignal
    BY <2>2 DEF Dequeue, FinishSignal, Working
  <2>3. CASE ~Attach /\ ~Dequeue /\ ~FinishSignal
    <3>1. /\ current' = current
          /\ worker' \in Working \cup {"start"} => worker \in Working \cup {"start"}
      BY <2>3, WorkerMoves DEF StartJob
    <3>2. worker \in Working \cup {"start"} => current \in Jobs /\ cancelFn[current] # "nil"
      BY DEF CancelInv, ManagerInv, Acceptance, Resting, Working
    <3> QED  BY <3>1, <3>2, FunctionsStay
  <2> QED  BY <2>1, <2>2, <2>3
<1>2. ASSUME NEW c \in Cancelers, cancel'[c] = "notifying"
      PROVE  Quiet(target[c]) /\ target'[c] = target[c]
             /\ target[c] \in Jobs /\ snap[target[c]].status = "canceled"
  <2>1. \/ cancel[c] = "notifying" /\ target'[c] = target[c]
        \/ cancel[c] = "marked" /\ target'[c] = target[c] /\ cancelFn[target[c]] = "nil"
    <3>1. ASSUME NEW d \in Cancelers, CancelStep(d)
          PROVE  \/ cancel[c] = "notifying" /\ target'[c] = target[c]
                 \/ cancel[c] = "marked" /\ target'[c] = target[c] /\ cancelFn[target[c]] = "nil"
      <4>1. CASE d = c
        BY <1>2, <3>1, <4>1 DEF CancelStep, CancelLookup, CancelMark, CancelReread, ReadFunction,
                                CancelNotify, CancelWait, CancelReturns, Turn
      <4>2. CASE d # c
        BY <1>2, <3>1, <4>2 DEF CancelStep, CancelLookup, CancelMark, CancelReread,
                                CancelNotify, CancelWait, CancelReturns, Turn
      <4> QED  BY <4>1, <4>2
    <3>2. CASE ~(\E d \in Cancelers : CancelStep(d))
      BY <1>2, <3>2, CancelMoves
    <3> QED  BY <1>2, <3>1, <3>2
  <2>2. target[c] \in Jobs /\ snap[target[c]].status = "canceled"
    BY <2>1 DEF Marked, ManagerInv, Acceptance
  <2> QED  BY <2>1, <2>2 DEF CancelInv, Quiet
<1>3. ASSUME NEW j \in acked'
      PROVE  j \in Jobs /\ snap[j].status = "canceled" /\ Quiet(j)
  <2>1. \/ j \in acked
        \/ \E c \in Cancelers : target[c] = j /\ cancel[c] = "notifying"
        \/ \E c \in Cancelers : target[c] = j /\ cancel[c] = "waiting" /\ target[c] \in done
    BY <1>3, CancelMoves DEF CancelStep, CancelLookup, CancelMark, CancelReread, CancelNotify,
                             CancelWait, CancelReturns
  <2>2. \A c \in Cancelers : cancel[c] \in {"notifying", "waiting"} =>
            target[c] \in Jobs /\ snap[target[c]].status = "canceled"
    BY DEF Marked, ManagerInv, Acceptance
  <2>3. ASSUME NEW k \in done  PROVE Quiet(k)
    BY DEF DoneInv, Quiet, Working, Resting
  <2> QED  BY <2>1, <2>2, <2>3 DEF CancelInv
<1>4. ASSUME NEW j \in Jobs, snap[j].status = "canceled", Quiet(j)
      PROVE  snap'[j].status = "canceled" /\ Quiet(j)'
  BY <1>4, QuietStep, TerminalStep DEF Terminal
<1> QED  BY <1>1, <1>2, <1>3, <1>4 DEF CancelInv, Quiet

\* When a cancel has returned without an error, no worker converts, publishes
\* or completes the job, although the worker may have attached the function
\* that stops it at any moment of the cancel.
THEOREM CancelsStopWork == Spec => []CancelStopsWork
<1>1. Init => CancelInv
  BY DEF Init, CancelInv, Working
<1>2. ManagerInv /\ OutcomeInv /\ DoneInv /\ CancelInv /\ [Next]_vars => CancelInv'
  BY CancelInvStep DEF OutcomeInv
<1>3. CancelInv => CancelStopsWork
  BY DEF CancelInv, CancelStopsWork, Quiet, Working
<1> QED  BY <1>1, <1>2, <1>3, DoneInvariant, PTL DEF Spec

-----------------------------------------------------------------------------
(* What is known of the manager, and who changes a snapshot. *)

\* The invariants of the manager that other modules build on.
KnownInv == ManagerInv /\ OutcomeInv /\ DoneInv

Types ==
    /\ snap \in [Jobs -> Snapshots] /\ submit \in [Jobs -> SubmitStates]
    /\ timer \in [Jobs -> {"off", "armed", "deleted", "fired"}]
    /\ disk \in [Jobs -> SUBSET Files]
    /\ bucket \subseteq Jobs /\ stray \subseteq Jobs /\ done \subseteq Jobs /\ jobs \subseteq Jobs
    /\ Queued \subseteq Jobs
    /\ worker \notin Resting => current \in Jobs /\ submit[current] = "accepted" /\ current \notin done

LEMMA KnownTypes == ASSUME KnownInv PROVE Types
<1>1. Queued \subseteq Jobs
  BY QueuedJobs DEF KnownInv, ManagerInv
<1>2. worker \notin Resting => current \notin done
  BY DEF KnownInv, DoneInv
<1> QED  BY <1>1, <1>2 DEF Types, KnownInv, ManagerInv, TypeOK, Acceptance

\* The snapshot of a job: nobody; a Fail or Cancel of an accepted open job;
\* a report; the worker that starts or completes its job; the submission.
SnapChange(j) ==
    \/ snap'[j] = snap[j]
    \/ /\ submit[j] = "accepted"
       /\ snap'[j].status \in {"failed", "canceled"} /\ snap'[j].artifact = "none"
       /\ snap'[j].started = snap[j].started
    \/ /\ submit[j] = "accepted"
       /\ snap'[j].status = snap[j].status /\ snap'[j].artifact = snap[j].artifact
       /\ snap'[j].started = snap[j].started
    \/ /\ StartJob /\ j = current /\ snap'[j].status = "processing"
       /\ snap'[j].artifact = snap[j].artifact
    \/ /\ SucceedJob /\ j = current /\ CanSucceed(snap[j])
       /\ snap'[j].status = "succeeded" /\ snap'[j].artifact = product
       /\ snap'[j].started = snap[j].started
    \/ Stage(j) /\ snap[j] = Absent /\ snap'[j] = NewJob

LEMMA MethodsChange ==
    ASSUME NEW s \in Snapshots
    PROVE  /\ \A t \in {Fail(s), Cancel(s)} :
                 \/ t = s
                 \/ /\ t.status \in {"failed", "canceled"} /\ t.artifact = "none"
                    /\ t.started = s.started
           /\ LET t == ReportProgress(s) IN
              t.status = s.status /\ t.artifact = s.artifact /\ t.started = s.started
           /\ Start(s) = s \/ (Start(s).status = "processing" /\ Start(s).artifact = s.artifact)
           /\ \A a \in Artifacts :
                 \/ Succeed(s, a) = s
                 \/ /\ CanSucceed(s) /\ Succeed(s, a).status = "succeeded"
                    /\ Succeed(s, a).artifact = a /\ Succeed(s, a).started = s.started
BY DEF Snapshots, Fail, Cancel, ReportProgress, Start, Succeed, CanStart, CanSucceed

LEMMA SnapChanges ==
    ASSUME KnownInv, [Next]_vars, NEW j \in Jobs
    PROVE  SnapChange(j)
<1>1. Types /\ product \in Artifacts /\ snap[j] \in Snapshots
  BY KnownTypes DEF Types, KnownInv, ManagerInv, TypeOK
<1>2. ASSUME NEW k \in Jobs, SubmitStep(k) PROVE SnapChange(j)
  <2>1. snap'[j] = snap[j] \/ (Stage(j) /\ snap'[j] = NewJob)
    BY <1>1, <1>2 DEF SubmitStep, BeginSubmit, TakeSlot, Authorize, Stage, Enqueue, AbortSubmit,
                      ReleaseSubmit, Types
  <2>2. Stage(j) => snap[j] = Absent
    BY DEF KnownInv, ManagerInv, Acceptance, Early, Stage
  <2> QED  BY <2>1, <2>2 DEF SnapChange
<1>3. CASE StartJob
  <2>1. snap'[j] = snap[j] \/ (j = current /\ snap'[j] = Start(snap[j]))
    BY <1>1, <1>3 DEF StartJob, Types
  <2> QED  BY <1>1, <1>3, <2>1, MethodsChange DEF SnapChange
<1>4. CASE SucceedJob
  <2>1. snap'[j] = snap[j] \/ (j = current /\ snap'[j] = Succeed(snap[j], product))
    BY <1>1, <1>4 DEF SucceedJob, Types
  <2> QED  BY <1>1, <1>4, <2>1, MethodsChange DEF SnapChange
<1>5. CASE Report \/ AfterConvert \/ Publish
  <2>1. /\ worker \notin Resting
        /\ \/ snap'[j] = snap[j]
           \/ j = current /\ snap'[j] \in {ReportProgress(snap[j]), Fail(snap[j])}
    BY <1>1, <1>5 DEF Report, AfterConvert, Publish, Types, Resting
  <2>2. snap'[j] = snap[j] \/ submit[j] = "accepted"
    BY <1>1, <2>1 DEF Types
  <2> QED  BY <1>1, <2>1, <2>2, MethodsChange DEF SnapChange
<1>6. ASSUME NEW c \in Cancelers, CancelMark(c) PROVE SnapChange(j)
  <2>1. snap'[j] = snap[j] \/ (submit[j] = "accepted" /\ snap'[j] = Cancel(snap[j]))
    BY <1>1, <1>6 DEF CancelMark, Types, KnownInv, ManagerInv, Acceptance
  <2> QED  BY <1>1, <2>1, MethodsChange DEF SnapChange
<1>7. CASE BeginClose
  <2>1. snap'[j] = snap[j] \/ (submit[j] = "accepted" /\ snap'[j] = Cancel(snap[j]))
    BY <1>7 DEF BeginClose, KnownInv, ManagerInv, Acceptance
  <2> QED  BY <1>1, <2>1, MethodsChange DEF SnapChange
<1>8. CASE snap' = snap
  BY <1>8 DEF SnapChange
<1> QED  BY <1>2, <1>3, <1>4, <1>5, <1>6, <1>7, <1>8
  DEF Next, WorkerStep, Dequeue, ExitWorker, CheckCanceled, Attach, Convert, Drop, Remove,
      FinishNotify, FinishRelease, FinishSignal, CancelStep, CancelLookup, CancelReread,
      CancelNotify, CancelWait, CancelFrame, TimerStep, Expire, RetentionDelete, RetentionForget,
      Sweep, vars

-----------------------------------------------------------------------------
(* Who changes what. *)

\* Every step but those of submissions, timers, the worker and Sweep leaves
\* files, objects, timers and the list of jobs alone.
LEMMA StoreQuiet ==
    ASSUME [Next]_vars
    PROVE  \/ /\ UNCHANGED <<disk, bucket, stray, timer, done, jobs, worker, current, product,
                             submit, queue>>
              /\ closer' = closer \/ (closer = "running" /\ closer' = "draining")
           \/ \E k \in Jobs : SubmitStep(k) \/ RetentionDelete(k) \/ RetentionForget(k)
           \/ WorkerStep
           \/ Sweep
<1>1. ASSUME NEW k \in Jobs, Expire(k)
      PROVE  UNCHANGED <<disk, bucket, stray, timer, done, jobs, worker, current, product,
                         submit, queue, closer>>
  BY <1>1 DEF Expire, clientVars, handVars, endVars, storeVars
<1>2. ASSUME NEW c \in Cancelers, CancelStep(c)
      PROVE  UNCHANGED <<disk, bucket, stray, timer, done, jobs, worker, current, product,
                         submit, queue, closer>>
  BY <1>2 DEF CancelStep, CancelLookup, CancelMark, CancelReread, CancelNotify, CancelWait,
              CancelFrame, handVars, endVars, storeVars
<1>3. CASE BeginClose
  BY <1>3 DEF BeginClose, handVars, endVars, storeVars
<1>4. CASE UNCHANGED vars
  BY <1>4 DEF vars, clientVars, handVars, endVars, storeVars
<1> QED  BY <1>1, <1>2, <1>3, <1>4 DEF Next, TimerStep

\* A submission touches only its own job, which is not accepted yet.
LEMMA SubmitTouches ==
    ASSUME Types, NEW k \in Jobs, SubmitStep(k)
    PROVE  /\ UNCHANGED <<bucket, stray, timer, done, worker, current, product, closer>>
           /\ submit[k] # "accepted"
           /\ \A j \in Jobs : j # k => disk'[j] = disk[j] /\ submit'[j] = submit[j]
           /\ jobs \subseteq jobs' /\ (submit'[k] = "accepted" => k \in jobs')
           /\ closer = "closed" => disk' = disk \/ disk' = [disk EXCEPT ![k] = {}]
<1>1. /\ UNCHANGED <<bucket, stray, timer, done, worker, current, product, closer>>
      /\ submit[k] # "accepted"
  BY DEF SubmitStep, BeginSubmit, TakeSlot, Authorize, Stage, Enqueue, AbortSubmit,
         ReleaseSubmit, Failed, SubmitFrame, handVars, endVars
<1>2. \E place \in SubmitStates : submit' = [submit EXCEPT ![k] = place]
  BY DEF SubmitStep, BeginSubmit, TakeSlot, Authorize, Stage, Enqueue, AbortSubmit,
         ReleaseSubmit, Goto, SubmitStates
<1>3. \/ disk' = disk \/ disk' = [disk EXCEPT ![k] = {}]
      \/ closer # "closed" /\ disk' = [disk EXCEPT ![k] = {"source"}]
  BY DEF SubmitStep, BeginSubmit, TakeSlot, Authorize, Stage, Enqueue, AbortSubmit,
         ReleaseSubmit
<1>4. jobs \subseteq jobs' /\ (submit'[k] = "accepted" => k \in jobs')
  BY DEF SubmitStep, BeginSubmit, TakeSlot, Authorize, Stage, Enqueue, AbortSubmit,
         ReleaseSubmit, Goto, Types
<1> QED  BY <1>1, <1>2, <1>3, <1>4 DEF Types

-----------------------------------------------------------------------------
(* Jobs and timers. *)

JobInv(j) ==
    /\ submit[j] # "accepted" => snap[j].status \in {"absent", "queued"}
    /\ snap[j].status \in {"absent", "queued"} => ~snap[j].started
    /\ snap[j].artifact # "none" => snap[j].status = "succeeded"
    /\ timer[j] # "off" <=> j \in done
    /\ submit[j] = "accepted" /\ timer[j] # "fired" => j \in jobs

\* A job that has not come as far as Start was not started.
WaitingInv ==
    /\ \A j \in Queued : ~snap[j].started
    /\ worker \in {"check", "attach", "start"} => ~snap[current].started

LEMMA JobStep ==
    ASSUME KnownInv, [Next]_vars, NEW j \in Jobs, JobInv(j)
    PROVE  JobInv(j)'
<1>1. Types /\ SnapChange(j)
  BY KnownTypes, SnapChanges
<1>2. /\ submit'[j] # "accepted" => submit[j] # "accepted"
      /\ submit'[j] = "accepted" /\ submit[j] # "accepted" => j \in jobs'
      /\ Stage(j) => submit'[j] # "accepted"
  <2>1. ASSUME NEW k \in Jobs, SubmitStep(k)
        PROVE  /\ submit'[j] # "accepted" => submit[j] # "accepted"
               /\ submit'[j] = "accepted" /\ submit[j] # "accepted" => j \in jobs'
    BY <1>1, <2>1, SubmitTouches
  <2>2. ~(\E k \in Jobs : SubmitStep(k)) => submit' = submit
    BY StoreQuiet
    DEF WorkerStep, Dequeue, ExitWorker, CheckCanceled, Attach, StartJob, Report, Convert,
        AfterConvert, Publish, SucceedJob, Drop, Remove, FinishNotify, FinishRelease,
        FinishSignal, clientVars, RetentionDelete, RetentionForget, Sweep
  <2>3. Stage(j) => submit'[j] # "accepted"
    BY <1>1 DEF Stage, Goto, Types
  <2> QED  BY <2>1, <2>2, <2>3
<1>3. /\ submit'[j] # "accepted" => snap'[j].status \in {"absent", "queued"}
      /\ snap'[j].status \in {"absent", "queued"} => ~snap'[j].started
      /\ snap'[j].artifact # "none" => snap'[j].status = "succeeded"
  <2>1. StartJob \/ SucceedJob => submit[current] = "accepted"
    BY <1>1 DEF StartJob, SucceedJob, Types, Resting
  <2>2. NewJob.status = "queued" /\ ~NewJob.started /\ NewJob.artifact = "none"
    BY DEF NewJob
  <2>3. StartJob /\ j = current => snap[j].status \in {"queued", "canceled"}
    BY DEF StartJob, KnownInv, ManagerInv, Progress, Fits, Resting
  <2> QED  BY <1>1, <1>2, <2>1, <2>2, <2>3 DEF JobInv, SnapChange, StartJob, Start, CanStart
<1>4. timer'[j] # "off" <=> j \in done'
  <2>1. CASE FinishSignal
    <3>1. current \in Jobs
      BY <1>1, <2>1 DEF FinishSignal, Types, Resting
    <3> QED  BY <1>1, <2>1, <3>1 DEF FinishSignal, DoneClosed, JobInv, Types
  <2>2. ASSUME NEW k \in Jobs, RetentionDelete(k) \/ RetentionForget(k)
        PROVE  timer'[j] # "off" <=> j \in done'
    BY <1>1, <2>2 DEF RetentionDelete, RetentionForget, JobInv, Types
  <2>3. CASE UNCHANGED <<timer, done>>
    BY <2>3 DEF JobInv
  <2>4. ASSUME NEW k \in Jobs, SubmitStep(k) PROVE UNCHANGED <<timer, done>>
    BY <1>1, <2>4, SubmitTouches
  <2>5. WorkerStep /\ ~FinishSignal => UNCHANGED <<timer, done>>
    BY DEF WorkerStep, Dequeue, ExitWorker, CheckCanceled, Attach, StartJob, Report, Convert,
           AfterConvert, Publish, SucceedJob, Drop, Remove, FinishNotify, FinishRelease, endVars
  <2>6. Sweep => UNCHANGED <<timer, done>>
    BY DEF Sweep, endVars
  <2> QED  BY <2>1, <2>2, <2>3, <2>4, <2>5, <2>6, StoreQuiet
<1>5. submit'[j] = "accepted" /\ timer'[j] # "fired" => j \in jobs'
  <2>1. ASSUME NEW k \in Jobs, RetentionForget(k)
        PROVE  submit' = submit /\ (j \in jobs' \/ timer'[j] = "fired" \/ j \notin jobs)
               /\ (timer'[j] = timer[j] \/ timer'[j] = "fired")
    BY <1>1, <2>1 DEF RetentionForget, Types
  <2>2. ~(\E k \in Jobs : RetentionForget(k)) => jobs \subseteq jobs'
    BY <1>1, StoreQuiet, SubmitTouches
    DEF WorkerStep, Dequeue, ExitWorker, CheckCanceled, Attach, StartJob, Report, Convert,
        AfterConvert, Publish, SucceedJob, Drop, Remove, FinishNotify, FinishRelease,
        FinishSignal, clientVars, RetentionDelete, Sweep
  <2>3. ~(\E k \in Jobs : RetentionForget(k)) => (timer[j] = "fired" => timer'[j] = "fired")
    <3>1. ASSUME NEW k \in Jobs, RetentionDelete(k)
          PROVE  timer[j] = "fired" => timer'[j] = "fired"
      BY <1>1, <3>1 DEF RetentionDelete, Types
    <3>2. CASE FinishSignal
      <4>1. current \in Jobs /\ current \notin done
        BY <1>1, <3>2 DEF FinishSignal, Types, Resting
      <4>2. timer[j] = "fired" => j # current
        BY <4>1 DEF JobInv
      <4> QED  BY <1>1, <3>2, <4>2 DEF FinishSignal, Types
    <3>3. ASSUME ~FinishSignal, ~(\E k \in Jobs : RetentionDelete(k) \/ RetentionForget(k))
          PROVE  timer' = timer
      BY <1>1, <3>3, StoreQuiet, SubmitTouches
      DEF WorkerStep, Dequeue, ExitWorker, CheckCanceled, Attach, StartJob, Report, Convert,
          AfterConvert, Publish, SucceedJob, Drop, Remove, FinishNotify, FinishRelease, endVars,
          Sweep
    <3> QED  BY <3>1, <3>2, <3>3
  <2> QED  BY <1>2, <2>1, <2>2, <2>3 DEF JobInv
<1> QED  BY <1>3, <1>4, <1>5 DEF JobInv

\* Only StartJob sets StartedAt, and only of the job it starts.
LEMMA WaitingStep ==
    ASSUME KnownInv, WaitingInv, [Next]_vars, \A j \in Jobs : JobInv(j)
    PROVE  WaitingInv'
<1>1. Types /\ queue \in Seq(Jobs)
  BY KnownTypes DEF KnownInv, ManagerInv, TypeOK
<1>2. ASSUME NEW j \in Jobs, ~snap[j].started, ~(StartJob /\ j = current)
      PROVE  ~snap'[j].started
  BY <1>2, SnapChanges DEF SnapChange, NewJob
<1>3. \/ queue' = queue
      \/ \E k \in Jobs : submit[k] = "staged" /\ queue' = Append(queue, k)
      \/ queue # << >> /\ queue' = Tail(queue)
  BY StoreQuiet
  DEF SubmitStep, BeginSubmit, TakeSlot, Authorize, Stage, Enqueue, AbortSubmit, ReleaseSubmit,
      RetentionDelete, RetentionForget, WorkerStep, Dequeue, ExitWorker, CheckCanceled, Attach,
      StartJob, Report, Convert, AfterConvert, Publish, SucceedJob, Drop, Remove, FinishNotify,
      FinishRelease, FinishSignal, Sweep
<1>4. ASSUME NEW j \in Queued'
      PROVE  ~snap'[j].started
  <2>1. j \in Queued \/ (j \in Jobs /\ submit[j] = "staged")
    <3>1. Queued = Elements(queue) /\ Queued' = Elements(queue') /\ Distinct(queue)
      BY QueuedJobs DEF KnownInv, ManagerInv, Line
    <3>2. CASE queue' = queue
      BY <3>1, <3>2, <1>4
    <3>3. ASSUME NEW k \in Jobs, submit[k] = "staged", queue' = Append(queue, k)
          PROVE  j \in Queued \/ (j \in Jobs /\ submit[j] = "staged")
      BY <1>1, <3>1, <3>3, <1>4, AppendElements
    <3>4. CASE queue # << >> /\ queue' = Tail(queue)
      BY <1>1, <3>1, <3>4, <1>4, TailElements
    <3> QED  BY <1>3, <3>2, <3>3, <3>4
  <2>2. CASE j \in Queued
    <3>1. ~(StartJob /\ j = current)
      BY <2>2 DEF StartJob, KnownInv, ManagerInv, Line, Resting
    <3> QED  BY <1>1, <1>2, <2>2, <3>1 DEF WaitingInv, Types
  <2>3. CASE j \in Jobs /\ submit[j] = "staged"
    <3>1. ~snap[j].started
      BY <2>3 DEF KnownInv, ManagerInv, Acceptance, JobInv
    <3>2. ~(StartJob /\ j = current)
      BY <1>1, <2>3 DEF StartJob, Types, Resting
    <3> QED  BY <1>2, <2>3, <3>1, <3>2
  <2> QED  BY <2>1, <2>2, <2>3
<1>5. ASSUME worker' \in {"check", "attach", "start"}
      PROVE  ~snap'[current'].started
  <2>1. CASE Dequeue
    <3>1. Head(queue) \in Queued /\ current' = Head(queue) /\ snap' = snap
      BY <1>1, <2>1, QueuedJobs, TailElements DEF Dequeue, KnownInv, ManagerInv, Line
    <3> QED  BY <3>1 DEF WaitingInv
  <2>2. CASE ~Dequeue
    <3>1. worker \in {"check", "attach", "start"} /\ current' = current /\ ~StartJob
      BY <1>5, <2>2, StoreQuiet, SubmitTouches, <1>1
      DEF WorkerStep, ExitWorker, CheckCanceled, Attach, StartJob, Started, Report, Convert,
          AfterConvert, Publish, SucceedJob, Drop, Remove, FinishNotify, FinishRelease,
          FinishSignal, RetentionDelete, RetentionForget, Sweep, handVars
    <3> QED  BY <1>1, <1>2, <3>1 DEF WaitingInv, Types, Resting
  <2> QED  BY <2>1, <2>2
<1> QED  BY <1>4, <1>5 DEF WaitingInv

-----------------------------------------------------------------------------
(* Files and objects. *)

\* The files and the object of a job stay as they are.
Alone(j) ==
    /\ disk'[j] = disk[j]
    /\ j \in bucket' <=> j \in bucket
    /\ j \in stray' <=> j \in stray

\* The steps of the worker that touch the files or the object of its job.
Touching == Convert \/ Publish \/ SucceedJob \/ Drop \/ Remove

LEMMA Touches ==
    ASSUME KnownInv, [Next]_vars, NEW j \in Jobs
    PROVE  \/ Alone(j)
           \/ SubmitStep(j)
           \/ RetentionDelete(j)
           \/ j = current /\ Touching
           \/ Sweep
<1>1. Types
  BY KnownTypes
<1>2. ASSUME NEW k \in Jobs, SubmitStep(k), k # j  PROVE Alone(j)
  BY <1>1, <1>2, SubmitTouches DEF Alone
<1>3. ASSUME NEW k \in Jobs, RetentionDelete(k), k # j  PROVE Alone(j)
  <2>1. disk'[j] = disk[j]
    BY <1>1, <1>3 DEF RetentionDelete, Types
  <2>2. PICK kept \in SUBSET ({k} \cap bucket) :
            /\ \/ bucket' = (bucket \ {k}) \cup kept
               \/ bucket' = (bucket \ {}) \cup kept
            /\ stray' = stray \cup kept
    BY <1>3 DEF RetentionDelete, DeleteObjects
  <2> QED  BY <1>3, <2>1, <2>2 DEF Alone
<1>4. ASSUME Touching, j # current  PROVE Alone(j)
  <2>1. CASE Convert \/ SucceedJob \/ Remove
    BY <1>1, <1>4, <2>1 DEF Convert, SucceedJob, Remove, Types, Alone, storeVars
  <2>2. CASE Publish
    BY <1>1, <1>4, <2>2 DEF Publish, Types, Alone
  <2>3. CASE Drop
    <3>1. PICK kept \in SUBSET (Dropped \cap bucket) :
              bucket' = (bucket \ Dropped) \cup kept /\ stray' = stray \cup kept
      BY <2>3 DEF Drop, DeleteObjects
    <3>2. disk' = disk /\ Dropped \subseteq {current}
      BY <2>3 DEF Drop, Dropped
    <3> QED  BY <1>4, <3>1, <3>2 DEF Alone
  <2> QED  BY <1>4, <2>1, <2>2, <2>3 DEF Touching
<1>5. ASSUME WorkerStep, ~Touching  PROVE Alone(j)
  BY <1>5 DEF WorkerStep, Touching, Dequeue, ExitWorker, CheckCanceled, Attach, StartJob, Report,
              AfterConvert, FinishNotify, FinishRelease, FinishSignal, storeVars, Alone
<1>6. ASSUME NEW k \in Jobs, RetentionForget(k)  PROVE Alone(j)
  BY <1>6 DEF RetentionForget, storeVars, Alone
<1>7. CASE UNCHANGED <<disk, bucket, stray>>
  BY <1>7 DEF Alone
<1> QED  BY <1>2, <1>3, <1>4, <1>5, <1>6, <1>7, StoreQuiet

\* What the worker does with the files and the object of its job.
LEMMA TouchingSteps ==
    ASSUME KnownInv, [Next]_vars, Touching
    PROVE  /\ current' = current /\ worker \notin Resting /\ current \in Jobs
           /\ UNCHANGED <<timer, done, jobs, submit, closer>>
           /\ Convert => /\ disk'[current] = disk[current] \cup {"output"}
                         /\ UNCHANGED <<bucket, stray, snap>>
                         /\ product' \in {"local", "none"}
           /\ Publish => \/ /\ current \in bucket' /\ product' = "stored"
                            /\ disk'[current] = {} /\ worker' = "succeed" /\ snap' = snap
                         \/ /\ current \in bucket' \ stray' => current \in bucket \ stray
                            /\ disk' = disk /\ product' = product
                            /\ worker' = "remove" \/ (worker' = "succeed" /\ snap' = snap)
           /\ SucceedJob => /\ disk'[current] = disk[current] \ {"source"}
                            /\ UNCHANGED <<bucket, stray, product>>
           /\ Drop => /\ disk' = disk
                      /\ product = "stored" => current \notin bucket' \ stray'
                      /\ product # "stored" => UNCHANGED <<bucket, stray>>
           /\ Remove => disk'[current] = {} /\ UNCHANGED <<bucket, stray>>
<1>1. Types /\ worker \notin Resting
  BY KnownTypes DEF Touching, Convert, Publish, SucceedJob, Drop, Remove, Resting
<1>2. /\ current' = current /\ UNCHANGED <<timer, done, jobs, submit, closer>>
  BY DEF Touching, Convert, Publish, SucceedJob, Drop, Remove, clientVars, handVars, endVars
<1>3. current \in Jobs /\ disk \in [Jobs -> SUBSET Files]
  BY <1>1 DEF Types
<1>4. Convert => /\ disk'[current] = disk[current] \cup {"output"}
                 /\ UNCHANGED <<bucket, stray, snap>> /\ product' \in {"local", "none"}
  BY <1>3 DEF Convert
<1>5. Publish => \/ /\ current \in bucket' /\ product' = "stored"
                    /\ disk'[current] = {} /\ worker' = "succeed" /\ snap' = snap
                 \/ /\ current \in bucket' \ stray' => current \in bucket \ stray
                    /\ disk' = disk /\ product' = product
                    /\ worker' = "remove" \/ (worker' = "succeed" /\ snap' = snap)
  BY <1>3 DEF Publish
<1>6. SucceedJob => /\ disk'[current] = disk[current] \ {"source"}
                    /\ UNCHANGED <<bucket, stray, product>>
  BY <1>3 DEF SucceedJob, RemovedOnSuccess, handVars
<1>7. Drop => /\ disk' = disk
              /\ product = "stored" => current \notin bucket' \ stray'
              /\ product # "stored" => UNCHANGED <<bucket, stray>>
  <2> SUFFICES ASSUME Drop
               PROVE  /\ disk' = disk
                      /\ product = "stored" => current \notin bucket' \ stray'
                      /\ product # "stored" => UNCHANGED <<bucket, stray>>
    OBVIOUS
  <2>1. PICK kept \in SUBSET (Dropped \cap bucket) :
            bucket' = (bucket \ Dropped) \cup kept /\ stray' = stray \cup kept
    BY DEF Drop, DeleteObjects
  <2> QED  BY <2>1 DEF Drop, Dropped
<1>8. Remove => disk'[current] = {} /\ UNCHANGED <<bucket, stray>>
  BY <1>3 DEF Remove, Removed
<1> QED  BY <1>1, <1>2, <1>3, <1>4, <1>5, <1>6, <1>7, <1>8

-----------------------------------------------------------------------------
(* The job of the worker. *)

Fetchable(j, artifact) ==
    \/ artifact = "stored" /\ j \in bucket
    \/ artifact = "local" /\ "output" \in disk[j]

Clean(j) == snap[j].started =>
    /\ "source" \notin disk[j]
    /\ snap[j].status # "succeeded" => disk[j] = {}

\* The EPUB is where the product says from the conversion on, and the
\* directory is as it is to be left once the worker is through with the job.
WorkInv ==
    /\ worker \in {"drop", "remove"} => snap[current].status # "succeeded"
    /\ worker \in {"converted", "publish"} =>
          product \in {"local", "none"} /\ "output" \in disk[current]
    /\ worker = "publish" => product = "local"
    /\ worker = "succeed" => Fetchable(current, product)
    /\ worker \in {"finish", "release", "signal"} => Clean(current)

\* All that is assumed of the state before a step.
Whole == KnownInv /\ (\A j \in Jobs : JobInv(j)) /\ WaitingInv /\ WorkInv

\* A job becomes a succeeded one in one step of the worker only.
LEMMA SucceededBy ==
    ASSUME KnownInv, [Next]_vars, NEW j \in Jobs, snap'[j].status = "succeeded"
    PROVE  \/ snap'[j] = snap[j]
           \/ SucceedJob /\ j = current /\ CanSucceed(snap[j]) /\ snap'[j].artifact = product
           \/ snap[j].status = "succeeded" /\ snap'[j].artifact = snap[j].artifact
BY SnapChanges DEF SnapChange, NewJob

\* Nobody else touches the job of the worker.
LEMMA WorkElsewhere ==
    ASSUME Whole, [Next]_vars, ~WorkerStep
    PROVE  WorkInv'
<1>1. UNCHANGED <<worker, current, product>>
  BY StoreQuiet, SubmitTouches, KnownTypes
  DEF Whole, RetentionDelete, RetentionForget, Sweep, handVars
<1>2. CASE worker \in Resting
  BY <1>1, <1>2 DEF WorkInv, Resting
<1>3. CASE worker \notin Resting
  <2>1. /\ current \in Jobs /\ submit[current] = "accepted" /\ timer[current] = "off"
    BY <1>3, KnownTypes DEF Whole, Types, JobInv
  <2>2. Alone(current)
    <3>1. ~SubmitStep(current) /\ ~RetentionDelete(current) /\ ~Touching /\ ~Sweep
      BY <1>3, <2>1, SubmitTouches, KnownTypes
      DEF Whole, RetentionDelete, Sweep, WorkerStep, Touching, Resting
    <3> QED  BY <2>1, <3>1, Touches DEF Whole
  <2>3. snap[current].status # "succeeded" => snap'[current].status # "succeeded"
    BY <2>1, SucceededBy DEF Whole, WorkerStep
  <2>4. worker \in {"finish", "release", "signal"} => snap'[current] = snap[current]
    BY <2>1, <1>3, TerminalStep DEF Whole, KnownInv, ManagerInv, Progress, Fits
  <2> QED  BY <1>1, <2>2, <2>3, <2>4 DEF Whole, WorkInv, Fetchable, Clean, Alone
<1> QED  BY <1>2, <1>3

LEMMA WorkStepping ==
    ASSUME Whole, [Next]_vars, WorkerStep
    PROVE  WorkInv'
<1> Types
  BY KnownTypes DEF Whole
<1> USE DEF Resting
<1>1. CASE Dequeue \/ ExitWorker \/ FinishSignal
  BY <1>1 DEF Dequeue, ExitWorker, FinishSignal, WorkInv
<1>2. CASE CheckCanceled \/ Attach
  BY <1>2 DEF CheckCanceled, Attach, WorkInv, handVars
<1>3. CASE StartJob
  <2>1. worker' \in {"convert", "finish"} /\ current' = current /\ disk' = disk
    BY <1>3 DEF StartJob, Started, handVars, storeVars
  <2>2. worker' = "finish" => snap'[current] = snap[current]
    BY <1>3 DEF StartJob, Started, Start, Types
  <2> QED  BY <1>3, <2>1, <2>2 DEF StartJob, WorkInv, Whole, WaitingInv, Clean
<1>4. CASE Report
  BY <1>4 DEF Report, WorkInv
<1>5. CASE Convert
  <2>1. worker' = "converted" /\ "output" \in disk'[current]
    BY <1>5, TouchingSteps DEF Convert, Touching, Whole
  <2> QED  BY <1>5, <2>1, TouchingSteps DEF WorkInv, Touching, Whole
<1>6. CASE AfterConvert
  <2>1. /\ UNCHANGED <<current, product, disk, bucket>> /\ worker = "converted"
        /\ worker' \in {"publish", "succeed"} => product = "local"
        /\ worker' \in {"remove", "publish", "succeed"}
        /\ worker' = "remove" => ~SucceedJob
    BY <1>6 DEF AfterConvert, handVars, storeVars, SucceedJob
  <2>2. snap[current].status # "succeeded" /\ current \in Jobs
    BY <2>1 DEF Whole, KnownInv, ManagerInv, Progress, Fits, Types
  <2>3. worker' = "remove" => snap'[current].status # "succeeded"
    BY <2>1, <2>2, SucceededBy DEF Whole
  <2> QED  BY <2>1, <2>3 DEF Whole, WorkInv, Fetchable
<1>7. CASE Publish
  <2>1. worker = "publish" /\ current \in Jobs /\ snap[current].status # "succeeded" /\ ~SucceedJob
    BY <1>7 DEF Publish, SucceedJob, Whole, KnownInv, ManagerInv, Progress, Fits, Types
  <2>2. worker' = "remove" => snap'[current].status # "succeeded"
    BY <2>1, SucceededBy DEF Whole
  <2>3. product = "local" /\ "output" \in disk[current]
    BY <2>1 DEF Whole, WorkInv
  <2> QED  BY <1>7, <2>2, <2>3, TouchingSteps DEF Whole, Touching, WorkInv, Fetchable
<1>8. CASE SucceedJob
  <2>1. worker = "succeed" /\ current \in Jobs /\ snap[current].status # "succeeded"
    BY <1>8 DEF SucceedJob, Whole, KnownInv, ManagerInv, Progress, Fits, Types
  <2>2. snap'[current] = Succeed(snap[current], product)
    BY <1>8, <2>1 DEF SucceedJob, Types
  <2>3. CASE CanSucceed(snap[current])
    <3>1. worker' = "finish" /\ snap'[current].status = "succeeded"
      BY <1>8, <2>1, <2>2, <2>3 DEF SucceedJob, Succeed, Types, Snapshots
    <3> QED  BY <1>8, <3>1, TouchingSteps DEF Whole, Touching, WorkInv, Clean
  <2>4. CASE ~CanSucceed(snap[current])
    <3>1. worker' = "drop" /\ snap'[current] = snap[current]
      BY <1>8, <2>2, <2>4 DEF SucceedJob, Succeed
    <3> QED  BY <1>8, <2>1, <3>1, TouchingSteps DEF Whole, Touching, WorkInv
  <2> QED  BY <2>3, <2>4
<1>9. CASE Drop
  BY <1>9 DEF Drop, WorkInv, Whole, handVars
<1>10. CASE Remove
  <2>1. worker' = "finish" /\ disk'[current] = {} /\ current' = current
    BY <1>10, TouchingSteps DEF Remove, Touching, Whole
  <2> QED  BY <2>1 DEF WorkInv, Clean
<1>11. CASE FinishNotify \/ FinishRelease
  BY <1>11 DEF FinishNotify, FinishRelease, WorkInv, Whole, Clean, handVars, storeVars
<1> QED  BY <1>1, <1>2, <1>3, <1>4, <1>5, <1>6, <1>7, <1>8, <1>9, <1>10, <1>11 DEF WorkerStep

-----------------------------------------------------------------------------
(* Every job. *)

\* What is left of a job, from its end to the end of the server.
FilesInv ==
    /\ \A j \in done : Clean(j)
    /\ \A j \in Jobs :
          snap[j].status = "succeeded" /\ timer[j] \in {"off", "armed"} /\ closer # "closed" =>
              Fetchable(j, snap[j].artifact)
    /\ NoUntrackedObject
    /\ closer = "closed" =>
          worker = "exited" /\ bucket \subseteq stray /\ \A j \in Jobs : disk[j] = {}

\* Timers and Close only move on.
LEMMA EndsStay ==
    ASSUME Whole, [Next]_vars, NEW j \in Jobs
    PROVE  /\ timer'[j] \in {"off", "armed"} => timer[j] \in {"off", "armed"}
           /\ closer = "closed" => closer' = "closed"
           /\ j \in done' => j \in done \/ (FinishSignal /\ j = current)
           /\ timer[j] \in {"off", "armed"} =>
                 timer'[j] \in {"off", "armed"} \/ RetentionDelete(j)
<1>1. Types
  BY KnownTypes DEF Whole
<1>2. CASE FinishSignal
  <2>1. timer' = [timer EXCEPT ![current] = "armed"] /\ done' = done \cup {current}
        /\ closer' = closer /\ current \in Jobs /\ timer[current] = "off"
    BY <1>1, <1>2 DEF FinishSignal, DoneClosed, clientVars, Whole, Types, JobInv, Resting
  <2> QED  BY <1>1, <1>2, <2>1 DEF Types
<1>3. CASE \E k \in Jobs : RetentionDelete(k) \/ RetentionForget(k)
  BY <1>1, <1>3 DEF RetentionDelete, RetentionForget, clientVars, Types
<1>4. CASE Sweep
  BY <1>4 DEF Sweep, endVars
<1>5. CASE UNCHANGED <<timer, done, closer>>
  BY <1>5
<1>6. CASE UNCHANGED <<timer, done>> /\ closer = "running"
  BY <1>6
<1>7. ASSUME NEW k \in Jobs, SubmitStep(k)  PROVE UNCHANGED <<timer, done, closer>>
  BY <1>1, <1>7, SubmitTouches
<1>8. WorkerStep /\ ~FinishSignal => UNCHANGED <<timer, done, closer>>
  BY DEF WorkerStep, Dequeue, ExitWorker, CheckCanceled, Attach, StartJob, Report, Convert,
         AfterConvert, Publish, SucceedJob, Drop, Remove, FinishNotify, FinishRelease, endVars,
         clientVars
<1> QED  BY <1>2, <1>3, <1>4, <1>5, <1>6, <1>7, <1>8, StoreQuiet

\* A job that is done stays as its last step left it.
LEMMA CleanStep ==
    ASSUME Whole, FilesInv, [Next]_vars, NEW j \in done'
    PROVE  Clean(j)'
<1>1. Types /\ j \in Jobs /\ (j \in done \/ (FinishSignal /\ j = current))
  BY KnownTypes, EndsStay, ManagerStep DEF Whole, KnownInv, ManagerInv, TypeOK, Types
<1>2. CASE j \in done
  <2>1. snap'[j] = snap[j] /\ ~SubmitStep(j) /\ ~(j = current /\ Touching)
    BY <1>1, <1>2, TerminalStep, SubmitTouches, TouchingSteps
    DEF Whole, KnownInv, DoneInv, Types
  <2>2. Alone(j) \/ disk'[j] = {}
    BY <1>1, <2>1, Touches DEF Whole, RetentionDelete, Sweep, Types
  <2> QED  BY <1>2, <2>1, <2>2 DEF FilesInv, Clean, Alone
<1>3. CASE FinishSignal /\ j = current
  BY <1>3 DEF FinishSignal, storeVars, Whole, WorkInv, Clean
<1> QED  BY <1>1, <1>2, <1>3

\* What a succeeded job shows stays where it says.
LEMMA FetchableStep ==
    ASSUME Whole, FilesInv, [Next]_vars, NEW j \in Jobs,
           snap'[j].status = "succeeded", timer'[j] \in {"off", "armed"}, closer' # "closed"
    PROVE  Fetchable(j, snap[j].artifact)'
<1>1. Types /\ timer[j] \in {"off", "armed"} /\ closer # "closed" /\ ~Sweep
  BY KnownTypes, EndsStay DEF Whole, Sweep
<1>2. CASE SucceedJob /\ j = current /\ CanSucceed(snap[j]) /\ snap'[j].artifact = product
  <2>1. Fetchable(j, product)
    BY <1>2 DEF SucceedJob, Whole, WorkInv
  <2>2. UNCHANGED bucket /\ disk'[j] = disk[j] \ {"source"}
    BY <1>2, TouchingSteps DEF Whole, Touching
  <2> QED  BY <1>2, <2>1, <2>2 DEF Fetchable
<1>3. CASE snap[j].status = "succeeded" /\ snap'[j].artifact = snap[j].artifact
  <2>1. Fetchable(j, snap[j].artifact)
    BY <1>1, <1>3 DEF FilesInv
  <2>2. ~SubmitStep(j) /\ ~RetentionDelete(j)
    <3>1. submit[j] = "accepted"
      BY <1>3 DEF Whole, JobInv
    <3>2. ~RetentionDelete(j)
      BY <1>1 DEF RetentionDelete, Types
    <3> QED  BY <1>1, <3>1, <3>2, SubmitTouches
  <2>3. ~(j = current /\ Touching)
    <3>1. Touching => worker \in {"convert", "publish", "succeed", "drop", "remove"}
      BY DEF Touching, Convert, Publish, SucceedJob, Drop, Remove
    <3> QED  BY <1>3, <3>1 DEF Whole, WorkInv, KnownInv, ManagerInv, Progress, Fits, Resting
  <2>4. Alone(j)
    BY <1>1, <2>2, <2>3, Touches DEF Whole
  <2> QED  BY <1>3, <2>1, <2>4 DEF Fetchable, Alone
<1>4. snap'[j] = snap[j] => snap[j].status = "succeeded" /\ snap'[j].artifact = snap[j].artifact
  OBVIOUS
<1> QED  BY <1>2, <1>3, <1>4, SucceededBy DEF Whole

\* An object gets there for the job the worker has, and every job that shows
\* one keeps its timer or its place in m.jobs until it is deleted.
LEMMA TrackedStep ==
    ASSUME Whole, FilesInv, [Next]_vars
    PROVE  NoUntrackedObject'
<1> SUFFICES ASSUME NEW j \in bucket' \ stray'
             PROVE  \/ snap'[j].artifact = "stored" /\ j \in jobs' /\ timer'[j] \in {"off", "armed"}
                    \/ current' = j /\ product' = "stored" /\ worker' \in {"succeed", "drop"}
  BY DEF NoUntrackedObject
<1>1. Types /\ j \in Jobs
  BY KnownTypes, ManagerStep DEF Whole, KnownInv, ManagerInv, TypeOK
<1>2. CASE j = current /\ Touching
  <2>1. /\ current' = current /\ submit[j] = "accepted" /\ submit' = submit /\ timer[j] = "off"
        /\ timer' = timer /\ jobs' = jobs /\ j \in jobs
    BY <1>1, <1>2, TouchingSteps DEF Whole, Types, JobInv
  <2>2. j \in bucket \ stray =>
            \/ product = "stored" /\ worker \in {"succeed", "drop"}
            \/ snap[j].artifact = "stored"
    BY <1>2 DEF FilesInv, NoUntrackedObject
  <2>3. snap[j].artifact # "stored" \/ worker \in {"finish", "release", "signal"}
    BY <1>1, <1>2, <2>1, TouchingSteps
    DEF Whole, JobInv, WorkInv, KnownInv, ManagerInv, Progress, Fits, WorkerStates, Resting,
        TypeOK, Touching, Convert, Publish, SucceedJob, Drop, Remove
  <2>4. worker \in {"convert", "publish", "succeed", "drop", "remove"}
    BY <1>2 DEF Touching, Convert, Publish, SucceedJob, Drop, Remove
  <2>5. CASE Convert \/ Remove
    BY <1>2, <2>2, <2>3, <2>4, <2>5, TouchingSteps DEF Whole, Touching, Convert, Remove
  <2>6. CASE Publish
    BY <1>2, <2>2, <2>3, <2>4, <2>6, TouchingSteps DEF Whole, Touching, Publish
  <2>7. CASE SucceedJob
    <3>1. product = "stored" /\ product' = product
      BY <1>2, <2>2, <2>3, <2>4, <2>7, TouchingSteps DEF Whole, Touching
    <3>2. snap'[j] = Succeed(snap[j], product)
      BY <1>1, <1>2, <2>7 DEF SucceedJob, Types
    <3>3. worker' = "drop" \/ snap'[j].artifact = "stored"
      BY <1>1, <1>2, <2>7, <3>1, <3>2 DEF SucceedJob, Succeed, Types, Snapshots
    <3> QED  BY <1>2, <2>1, <3>1, <3>3
  <2>8. CASE Drop
    BY <1>2, <2>2, <2>3, <2>4, <2>8, TouchingSteps DEF Whole, Touching
  <2> QED  BY <1>2, <2>5, <2>6, <2>7, <2>8 DEF Touching
<1>3. CASE RetentionDelete(j)
  <2>1. j \in done /\ j \in bucket \ stray /\ snap[j].artifact # "stored"
    <3>1. PICK kept \in SUBSET ((IF snap[j].artifact = "stored" THEN {j} ELSE {}) \cap bucket) :
              /\ bucket' = (bucket \ (IF snap[j].artifact = "stored" THEN {j} ELSE {})) \cup kept
              /\ stray' = stray \cup kept
      BY <1>3 DEF RetentionDelete, DeleteObjects
    <3> QED  BY <1>1, <1>3, <3>1 DEF RetentionDelete, Whole, JobInv
  <2> QED  BY <2>1, <1>1 DEF FilesInv, NoUntrackedObject, Types, Resting
<1>4. CASE Sweep
  <2>1. PICK kept \in SUBSET (Swept \cap bucket) :
            bucket' = (bucket \ Swept) \cup kept /\ stray' = stray \cup kept
    BY <1>4 DEF Sweep, DeleteObjects
  <2>2. j \in bucket \ stray /\ j \notin Swept
    BY <2>1
  <2> QED  BY <1>4, <2>2 DEF FilesInv, NoUntrackedObject, Swept, Sweep
<1>5. CASE Alone(j) \/ SubmitStep(j)
  <2>1. j \in bucket \ stray
    BY <1>1, <1>5, SubmitTouches DEF Alone
  <2>2. CASE snap[j].artifact = "stored" /\ j \in jobs /\ timer[j] \in {"off", "armed"}
    <3>1. snap[j].status = "succeeded" /\ submit[j] = "accepted"
      BY <1>1, <2>2 DEF Whole, JobInv
    <3>2. snap'[j] = snap[j]
      BY <1>1, <3>1, TerminalStep DEF Whole, KnownInv, Terminal
    <3>3. CASE RetentionDelete(j)
      BY <1>3, <3>3
    <3>4. CASE ~RetentionDelete(j)
      <4>1. timer'[j] \in {"off", "armed"}
        BY <1>1, <2>2, <3>4, EndsStay
      <4>2. KnownInv' /\ (submit'[j] = "accepted")
        BY <1>1, <3>1, OutcomeStep, DoneStep, ManagerStep, OutcomeSteps
        DEF Whole, KnownInv, OutcomeInv, Untold, Early
      <4>3. JobInv(j)'
        BY <1>1, JobStep DEF Whole
      <4> QED  BY <2>2, <3>2, <4>1, <4>2, <4>3 DEF JobInv
    <3> QED  BY <3>3, <3>4
  <2>3. CASE current = j /\ product = "stored" /\ worker \in {"succeed", "drop"}
    <3>1. CASE Touching
      BY <1>2, <2>3, <3>1
    <3>2. CASE ~Touching
      <4>1. UNCHANGED <<current, product, worker>>
        BY <1>1, <2>3, <3>2, StoreQuiet, SubmitTouches
        DEF WorkerStep, Touching, Dequeue, ExitWorker, CheckCanceled, Attach, StartJob, Report,
            AfterConvert, FinishNotify, FinishRelease, FinishSignal, RetentionDelete,
            RetentionForget, Sweep, handVars
      <4> QED  BY <2>3, <4>1
    <3> QED  BY <3>1, <3>2
  <2> QED  BY <2>1, <2>2, <2>3 DEF FilesInv, NoUntrackedObject
<1> QED  BY <1>1, <1>2, <1>3, <1>4, <1>5, Touches DEF Whole

\* Once Close has swept, nothing comes back: the worker has exited, and a
\* submission that comes late finds no directory to write to.
LEMMA SweptStep ==
    ASSUME Whole, FilesInv, [Next]_vars, closer' = "closed"
    PROVE  worker' = "exited" /\ bucket' \subseteq stray' /\ \A j \in Jobs : disk'[j] = {}
<1>1. Types /\ NoUntrackedObject' /\ bucket' \subseteq Jobs
  BY KnownTypes, TrackedStep, ManagerStep DEF Whole, KnownInv, ManagerInv, TypeOK
<1>2. CASE Sweep
  <2>1. worker' = "exited" /\ \A j \in Jobs : disk'[j] = {}
    BY <1>2 DEF Sweep
  <2>2. PICK kept \in SUBSET (Swept \cap bucket) :
            bucket' = (bucket \ Swept) \cup kept /\ stray' = stray \cup kept
    BY <1>2 DEF Sweep, DeleteObjects
  <2>3. ASSUME NEW j \in bucket', j \notin stray'  PROVE FALSE
    <3>1. j \in bucket \ stray /\ j \notin Swept /\ worker = "exited"
      BY <1>2, <2>2, <2>3 DEF Sweep
    <3> QED  BY <3>1 DEF FilesInv, NoUntrackedObject, Swept
  <2> QED  BY <2>1, <2>3
<1>3. CASE ~Sweep
  <2>1. closer = "closed"
    BY <1>1, <1>3, StoreQuiet, SubmitTouches
    DEF RetentionDelete, RetentionForget, WorkerStep, Dequeue, ExitWorker, CheckCanceled, Attach,
        StartJob, Report, Convert, AfterConvert, Publish, SucceedJob, Drop, Remove, FinishNotify,
        FinishRelease, FinishSignal, clientVars
  <2>2. worker = "exited" /\ bucket \subseteq stray /\ \A j \in Jobs : disk[j] = {}
    BY <2>1 DEF FilesInv
  <2>3. ~WorkerStep
    BY <2>2 DEF WorkerStep, Dequeue, ExitWorker, CheckCanceled, Attach, StartJob, Report, Convert,
                AfterConvert, Publish, SucceedJob, Drop, Remove, FinishNotify, FinishRelease,
                FinishSignal
  <2>4. worker' = worker
    BY <1>1, <1>3, <2>3, StoreQuiet, SubmitTouches DEF RetentionDelete, RetentionForget
  <2>5. ASSUME NEW j \in Jobs
        PROVE  disk'[j] = {} /\ (j \in bucket' => j \in stray')
    <3>1. ~Touching
      BY <2>3 DEF Touching, WorkerStep
    <3>2. CASE Alone(j)
      BY <2>2, <3>2 DEF Alone
    <3>3. CASE SubmitStep(j)
      BY <1>1, <2>1, <2>2, <3>3, SubmitTouches DEF Types
    <3>4. CASE RetentionDelete(j)
      <4>1. PICK keys \in SUBSET {j} : DeleteObjects(keys)
        BY <3>4 DEF RetentionDelete
      <4>2. PICK kept \in SUBSET (keys \cap bucket) :
                bucket' = (bucket \ keys) \cup kept /\ stray' = stray \cup kept
        BY <4>1 DEF DeleteObjects
      <4> QED  BY <1>1, <2>2, <3>4, <4>2 DEF RetentionDelete, Types
    <3> QED  BY <1>3, <3>1, <3>2, <3>3, <3>4, Touches DEF Whole
  <2> QED  BY <1>1, <2>2, <2>4, <2>5
<1> QED  BY <1>2, <1>3

LEMMA FilesStep ==
    ASSUME Whole, FilesInv, [Next]_vars
    PROVE  FilesInv'
BY CleanStep, FetchableStep, TrackedStep, SweptStep DEF FilesInv

\* What is known of every job, of the worker's job and of what is stored, in
\* every reachable state.

LEMMA CleanupInit == Init => Whole /\ FilesInv
<1> SUFFICES ASSUME Init PROVE Whole /\ FilesInv
  OBVIOUS
<1>1. KnownInv
  BY ManagerInit DEF KnownInv, Init, OutcomeInv, Told, Marked, DoneInv
<1>2. Queued = {}
  BY DEF Init, Queued
<1> QED  BY <1>1, <1>2
         DEF Whole, Init, Absent, JobInv, WaitingInv, WorkInv, FilesInv, NoUntrackedObject

LEMMA CleanupStep ==
    ASSUME Whole, FilesInv, [Next]_vars
    PROVE  Whole' /\ FilesInv'
<1>1. KnownInv'
  BY ManagerStep, OutcomeStep, DoneStep DEF Whole, KnownInv, OutcomeInv
<1>2. (\A j \in Jobs : JobInv(j))' /\ WaitingInv' /\ WorkInv' /\ FilesInv'
  BY JobStep, WaitingStep, WorkElsewhere, WorkStepping, FilesStep DEF Whole
<1> QED  BY <1>1, <1>2 DEF Whole

LEMMA CleanupInvariant == Spec => [](Whole /\ FilesInv)
BY CleanupInit, CleanupStep, PTL DEF Spec

\* A job that was started has no copy of the PDF left when it is done, and
\* nothing at all unless it succeeded, on every way through run.
THEOREM StartedJobsAreCleaned == Spec => []StartedJobIsCleaned
<1>1. FilesInv => StartedJobIsCleaned
  BY DEF FilesInv, Clean, StartedJobIsCleaned
<1> QED  BY <1>1, CleanupInvariant, PTL

\* What a succeeded job shows can be fetched where its snapshot says, until
\* retention or Close takes it away.
THEOREM SucceededAreDeliverable == Spec => []SucceededIsDeliverable
<1>1. Whole /\ FilesInv => SucceededIsDeliverable
  BY DEF Whole, JobInv, FilesInv, Fetchable, SucceededIsDeliverable
<1> QED  BY <1>1, CleanupInvariant, PTL

\* No object is left that nobody will delete, unless the store kept it and
\* answered with an error.
THEOREM ObjectsAreTracked == Spec => []NoUntrackedObject
<1>1. FilesInv => NoUntrackedObject
  BY DEF FilesInv
<1> QED  BY <1>1, CleanupInvariant, PTL

\* When Close returns neither files nor objects remain, and none come back.
THEOREM NothingLeftAfterClose == Spec => []CloseLeavesNothing
<1>1. FilesInv => CloseLeavesNothing
  BY DEF FilesInv, CloseLeavesNothing
<1> QED  BY <1>1, CleanupInvariant, PTL

-----------------------------------------------------------------------------
(* Downloads. *)

ReaderRecords == [at : {"idle", "found", "answered", "served", "gone"},
                  job : Jobs \cup {NoJob}, artifact : Artifacts]

\* What a download knows of its job: nothing before it found it, the artifact
\* of its end once it was answered, and why the artifact is gone if it is.
Informed(entry) ==
    /\ entry.at # "idle" => entry.job \in Jobs
    /\ entry.at = "answered" =>
          snap[entry.job].status = "succeeded" /\ snap[entry.job].artifact = entry.artifact
    /\ entry.at = "gone" => timer[entry.job] \in {"deleted", "fired"} \/ closer = "closed"

ReaderInv ==
    /\ reader \in [Readers -> ReaderRecords]
    /\ \A r \in Readers : Informed(reader[r])

\* The manager goes on between the steps of a download.
LEMMA ReadersWait ==
    ASSUME Whole, ReaderInv, [Next]_vars, UNCHANGED reader
    PROVE  ReaderInv'
<1>1. ManagerInv /\ Types /\ timer' \in [Jobs -> {"off", "armed", "deleted", "fired"}]
  BY KnownTypes, ManagerStep DEF Whole, KnownInv, ManagerInv, TypeOK
<1>2. ASSUME NEW j \in Jobs
      PROVE  /\ snap[j].status = "succeeded" => snap'[j] = snap[j]
             /\ timer[j] \in {"deleted", "fired"} => timer'[j] \in {"deleted", "fired"}
             /\ closer = "closed" => closer' = "closed"
  BY <1>1, TerminalStep, EndsStay DEF Terminal, Types
<1> QED  BY <1>2 DEF ReaderInv, Informed

\* A download reads the end of a job and the place its artifact is at.
LEMMA ReadersStep ==
    ASSUME Whole, FilesInv, ReaderInv, NEW r \in Readers, DownloadStep(r)
    PROVE  ReaderInv'
<1>1. UNCHANGED <<snap, timer, closer>> /\ Types /\ jobs \subseteq Jobs
  BY KnownTypes DEF DownloadStep, Lookup, TakeSnapshot, Fetch, Leave, vars, clientVars, endVars,
                    Whole, Types
<1>2. ASSUME NEW entry \in ReaderRecords, reader' = [reader EXCEPT ![r] = entry], Informed(entry)
      PROVE  ReaderInv'
  <2>1. reader' \in [Readers -> ReaderRecords]
    BY <1>2 DEF ReaderInv
  <2>2. \A q \in Readers : reader'[q] = IF q = r THEN entry ELSE reader[q]
    BY <1>2 DEF ReaderInv
  <2> QED  BY <1>1, <1>2, <2>1, <2>2 DEF ReaderInv, Informed
<1>3. ASSUME NEW j \in Jobs, Lookup(r, j)
      PROVE  reader' = [reader EXCEPT ![r] = [at |-> "found", job |-> j, artifact |-> "none"]]
  BY <1>3 DEF Lookup
<1>4. CASE TakeSnapshot(r)
  <2> DEFINE s == snap[reader[r].job]
             entry == [reader[r] EXCEPT !.at = "answered", !.artifact = s.artifact]
  <2>1. reader[r].job \in Jobs /\ s \in Snapshots
    BY <1>1, <1>4 DEF TakeSnapshot, ReaderInv, Informed, Types
  <2>2. CASE /\ Downloadable(s)
             /\ reader' = [reader EXCEPT ![r].at = "answered", ![r].artifact = s.artifact]
    <3>1. reader' = [reader EXCEPT ![r] = entry]
      BY <2>2 DEF ReaderInv
    <3>2. s.status = "succeeded" /\ s.artifact \in Artifacts
      BY <2>1, <2>2 DEF Downloadable, Snapshots
    <3>3. reader[r] \in ReaderRecords
      BY DEF ReaderInv
    <3>4. entry \in ReaderRecords /\ entry.at = "answered" /\ entry.job = reader[r].job
          /\ entry.artifact = s.artifact
      BY <3>2, <3>3 DEF ReaderRecords
    <3> QED  BY <1>2, <2>1, <3>1, <3>2, <3>4 DEF Informed
  <2>3. CASE reader' = [reader EXCEPT ![r] = Waiting]
    BY <1>2, <2>3 DEF Waiting, Artifacts, ReaderRecords, Informed
  <2> QED  BY <1>4, <2>2, <2>3 DEF TakeSnapshot
<1>5. CASE Fetch(r)
  <2> DEFINE j == reader[r].job
             entry == [reader[r] EXCEPT !.at = IF Present(r) THEN "served" ELSE "gone"]
  <2>1. /\ j \in Jobs /\ snap[j].status = "succeeded" /\ snap[j].artifact = reader[r].artifact
    BY <1>5 DEF Fetch, ReaderInv, Informed
  <2>2. Present(r) <=> Fetchable(j, snap[j].artifact)
    BY <2>1 DEF Present, Fetchable
  <2>3. ~Present(r) => timer[j] \in {"deleted", "fired"} \/ closer = "closed"
    BY <1>1, <2>1, <2>2 DEF FilesInv, Types
  <2>4. reader' = [reader EXCEPT ![r] = entry]
    BY <1>5 DEF Fetch, Advance
  <2> QED  BY <1>2, <2>1, <2>3, <2>4 DEF ReaderInv, ReaderRecords, Informed
<1>6. CASE Leave(r)
  BY <1>2, <1>6 DEF Leave, Waiting, Artifacts, ReaderRecords, Informed
<1> QED  BY <1>2, <1>3, <1>4, <1>5, <1>6 DEF DownloadStep, Artifacts, ReaderRecords, Informed

\* What is known of the manager is known of the manager with downloads.
LEMMA DownloadInvariant == DownloadSpec => [](Whole /\ FilesInv /\ ReaderInv)
<1>1. DownloadInit => Whole /\ FilesInv /\ ReaderInv
  BY CleanupInit DEF DownloadInit, ReaderInv, Informed, ReaderRecords, Waiting, Artifacts
<1>2. Whole /\ FilesInv /\ ReaderInv /\ [DownloadNext]_<<vars, reader>>
      => (Whole /\ FilesInv /\ ReaderInv)'
  <2> SUFFICES ASSUME Whole, FilesInv, ReaderInv, [DownloadNext]_<<vars, reader>>
               PROVE  (Whole /\ FilesInv /\ ReaderInv)'
    OBVIOUS
  <2>1. CASE [Next]_vars /\ UNCHANGED reader
    BY <2>1, CleanupStep, ReadersWait
  <2>2. ASSUME NEW r \in Readers, DownloadStep(r)  PROVE (Whole /\ FilesInv /\ ReaderInv)'
    <3>1. UNCHANGED vars
      BY <2>2 DEF DownloadStep, Lookup, TakeSnapshot, Fetch, Leave
    <3> QED  BY <2>2, <3>1, CleanupStep, ReadersStep
  <2> QED  BY <2>1, <2>2 DEF DownloadNext
<1> QED  BY <1>1, <1>2, PTL DEF DownloadSpec

\* A download that was answered with a file or a URL gets its EPUB unless the
\* retention timer or the shutdown came in between: of all that happens between
\* the look, the answer and the fetch, nothing else takes the artifact away.
THEOREM AnswersAreServed == DownloadSpec => []AnsweredIsServed
<1>1. ReaderInv => AnsweredIsServed
  BY DEF ReaderInv, Informed, ReaderRecords, AnsweredIsServed
<1> QED  BY <1>1, DownloadInvariant, PTL

-----------------------------------------------------------------------------
(* The line of jobs. *)

\* The queue behind the job of the worker.
LEMMA Queueing ==
    ASSUME NEW e \in Jobs, NEW q \in Seq(Jobs)
    PROVE  /\ <<e>> \o q \in Seq(Jobs) /\ <<e>> \o q # << >> /\ Len(<<e>> \o q) = Len(q) + 1
           /\ Head(<<e>> \o q) = e /\ Tail(<<e>> \o q) = q
           /\ << >> \o q = q
           /\ \A k \in Jobs : Append(<<e>> \o q, k) = <<e>> \o Append(q, k)
<1>1. <<e>> \in Seq(Jobs) /\ Len(<<e>>) = 1 /\ <<e>>[1] = e
  OBVIOUS
<1>2. /\ <<e>> \o q \in Seq(Jobs) /\ Len(<<e>> \o q) = Len(q) + 1 /\ Len(q) \in Nat
      /\ \A i \in 1..(Len(q) + 1) : (<<e>> \o q)[i] = IF i <= 1 THEN e ELSE q[i - 1]
  BY <1>1, ConcatProperties, LenProperties
<1>3. <<e>> \o q # << >>
  BY <1>2, EmptySeq
<1>4. Head(<<e>> \o q) = e
  BY <1>2, <1>3
<1>5. Tail(<<e>> \o q) = q
  <2>1. /\ Tail(<<e>> \o q) \in Seq(Jobs) /\ Len(Tail(<<e>> \o q)) = Len(q)
        /\ \A i \in 1..Len(q) : Tail(<<e>> \o q)[i] = (<<e>> \o q)[i + 1]
    BY <1>2, <1>3, HeadTailProperties
  <2>2. \A i \in 1..Len(q) : Tail(<<e>> \o q)[i] = q[i]
    BY <1>2, <2>1
  <2> QED  BY <2>1, <2>2, SeqEqual
<1>6. ASSUME NEW k \in Jobs  PROVE Append(<<e>> \o q, k) = <<e>> \o Append(q, k)
  <2>1. Append(<<e>> \o q, k) = (<<e>> \o q) \o <<k>> /\ Append(q, k) = q \o <<k>>
    BY <1>2, AppendIsConcat
  <2>2. <<k>> \in Seq(Jobs)
    OBVIOUS
  <2> QED  BY <1>1, <2>1, <2>2, ConcatAssociative
<1>7. << >> \o q = q
  BY ConcatEmptySeq
<1> QED  BY <1>2, <1>3, <1>4, <1>5, <1>6, <1>7

\* Taking the first job of the queue does not change the line.
LEMMA HeadOfLine ==
    ASSUME NEW q \in Seq(Jobs), q # << >>
    PROVE  Head(q) \in Jobs /\ Tail(q) \in Seq(Jobs) /\ <<Head(q)>> \o Tail(q) = q
<1>1. /\ Head(q) \in Jobs /\ Tail(q) \in Seq(Jobs) /\ Len(Tail(q)) = Len(q) - 1
      /\ \A i \in 1..Len(Tail(q)) : Tail(q)[i] = q[i + 1]
  BY HeadTailProperties
<1>2. Len(q) \in Nat \ {0} /\ Head(q) = q[1]
  BY EmptySeq
<1>3. <<Head(q)>> \in Seq(Jobs) /\ Len(<<Head(q)>>) = 1 /\ <<Head(q)>>[1] = Head(q)
  BY <1>1
<1>4. /\ <<Head(q)>> \o Tail(q) \in Seq(Jobs) /\ Len(<<Head(q)>> \o Tail(q)) = Len(q)
      /\ \A i \in 1..Len(q) : (<<Head(q)>> \o Tail(q))[i] = IF i <= 1 THEN Head(q) ELSE Tail(q)[i - 1]
  BY <1>1, <1>2, <1>3, ConcatProperties
<1>5. \A i \in 1..Len(q) : (<<Head(q)>> \o Tail(q))[i] = q[i]
  BY <1>1, <1>2, <1>4
<1> QED  BY <1>1, <1>4, <1>5, SeqEqual

\* The flag that refuses submissions is set when Close begins.
ClosingInv == closed <=> closer # "running"

\* What the proofs about the line start from.
LineInv == Whole /\ SlotInv /\ ClosingInv

LEMMA ClosingStep ==
    ASSUME ClosingInv, [Next]_vars
    PROVE  ClosingInv'
<1>1. CASE BeginClose \/ Sweep
  BY <1>1 DEF BeginClose, Sweep, ClosingInv
<1>2. CASE ~BeginClose /\ ~Sweep
  <2>1. UNCHANGED <<closed, closer>>
    BY <1>2
    DEF Next, SubmitStep, BeginSubmit, TakeSlot, Authorize, Stage, Enqueue, AbortSubmit,
        ReleaseSubmit, SubmitFrame, TimerStep, Expire, RetentionDelete, RetentionForget,
        WorkerStep, Dequeue, ExitWorker, CheckCanceled, Attach, StartJob, Report, Convert,
        AfterConvert, Publish, SucceedJob, Drop, Remove, FinishNotify, FinishRelease,
        FinishSignal, CancelStep, CancelLookup, CancelMark, CancelReread, CancelNotify,
        CancelWait, CancelFrame, clientVars, vars
  <2> QED  BY <2>1 DEF ClosingInv
<1> QED  BY <1>1, <1>2

\* The status of one accepted job changes.
LEMMA PhaseOfJob ==
    ASSUME submit' = submit, NEW j \in Jobs, submit[j] = "accepted",
           \A i \in Jobs \ {j} : snap'[i] = snap[i]
    PROVE  VisiblePhase' = [VisiblePhase EXCEPT ![j] = snap'[j].status]
BY DEF VisiblePhase

\* The job of the worker is the first of the line while it holds a slot.
LEMMA FirstOfLine ==
    ASSUME Whole, worker \in Occupied
    PROVE  /\ current \in Jobs /\ submit[current] = "accepted"
           /\ VisibleLine # << >> /\ Head(VisibleLine) = current
           /\ Tail(VisibleLine) = queue
           /\ VisiblePhase[current] = snap[current].status
<1>1. current \in Jobs /\ submit[current] = "accepted" /\ queue \in Seq(Jobs)
  BY DEF Whole, KnownInv, ManagerInv, TypeOK, Acceptance, Occupied, Resting
<1> QED  BY <1>1, Queueing DEF VisibleLine, VisiblePhase

\* An accepted submission finds room in the line; any other step of a
\* submission is not seen by other clients.
LEMMA SubmitInLine ==
    ASSUME LineInv, NEW k \in Jobs, SubmitStep(k)
    PROVE  [Lifecycle!LineNext]_Lifecycle!lineVars
<1> Whole /\ SlotInv /\ ManagerInv /\ Types /\ queue \in Seq(Jobs)
  BY KnownTypes DEF LineInv, Whole, KnownInv, ManagerInv, TypeOK
<1>1. CASE Enqueue(k) /\ submit'[k] = "accepted"
  <2>1. /\ submit[k] = "staged" /\ ~closed /\ queue' = Append(queue, k)
        /\ submit' = [submit EXCEPT ![k] = "accepted"]
        /\ UNCHANGED <<snap, worker, current, closed>>
    BY <1>1 DEF Enqueue, StillOpen, Goto, Types, SubmitFrame, handVars
  <2>2. snap[k].status = "queued"
    BY <2>1 DEF ManagerInv, Acceptance
  <2>3. VisiblePhase[k] = "absent" /\ VisiblePhase' = [VisiblePhase EXCEPT ![k] = "queued"]
    BY <2>1, <2>2 DEF VisiblePhase, Types
  <2>4. VisibleLine' = Append(VisibleLine, k)
    <3>1. CASE worker \in Occupied
      BY <2>1, <3>1, FirstOfLine, Queueing DEF VisibleLine
    <3>2. CASE worker \notin Occupied
      <4>1. Append(queue, k) \in Seq(Jobs)
        BY AppendProperties
      <4> QED  BY <2>1, <3>2, <4>1, ConcatEmptySeq DEF VisibleLine
    <3> QED  BY <3>1, <3>2
  <2>5. Len(VisibleLine) < Capacity
    <3>1. k \in Admitting /\ k \notin Queued \cup AtWorker
      BY <2>1, HoldersApart DEF Admitting, Admitted
    <3>2. (Queued \cup {k}) \cup AtWorker \subseteq Holders
      BY <3>1, HoldersApart
    <3>3. IsFiniteSet((Queued \cup {k}) \cup AtWorker) /\ IsFiniteSet(Queued) /\ IsFiniteSet(AtWorker)
      BY <3>2, FS_Subset DEF SlotInv
    <3>4. Cardinality((Queued \cup {k}) \cup AtWorker) <= slots /\ slots <= Capacity
      BY <3>2, FS_Subset DEF SlotInv, SlotAccounting, ManagerInv, TypeOK
    <3>5. Cardinality(Queued \cup {k}) = Cardinality(Queued) + 1
      BY <3>1, <3>3, FS_AddElement
    <3>6. Cardinality(Queued) \in Nat /\ Len(queue) = Cardinality(Queued)
      BY <3>3, FS_CardinalityType DEF SlotInv
    <3>7. CASE worker \in Occupied
      <4>1. current \notin Queued \cup {k}
        BY <3>1, <3>7, HoldersApart DEF AtWorker
      <4>2. IsFiniteSet(Queued \cup {k})
        BY <3>3, FS_Subset
      <4>3. Cardinality((Queued \cup {k}) \cup {current}) = Cardinality(Queued) + 2
        <5>1. Cardinality((Queued \cup {k}) \cup {current}) = Cardinality(Queued \cup {k}) + 1
          BY <4>1, <4>2, FS_AddElement
        <5> QED  BY <3>5, <3>6, <5>1
      <4>4. Len(VisibleLine) = Len(queue) + 1
        BY <3>7, FirstOfLine, Queueing DEF VisibleLine
      <4> QED  BY <3>3, <3>4, <3>7, <4>3, <4>4, CapacityAssumption, FS_CardinalityType
               DEF AtWorker, SlotInv, Capacity, ManagerInv, TypeOK
    <3>8. CASE worker \notin Occupied
      <4>1. Len(VisibleLine) = Len(queue)
        BY <3>8, ConcatEmptySeq DEF VisibleLine
      <4>2. (Queued \cup {k}) \cup AtWorker = Queued \cup {k}
        BY <3>8 DEF AtWorker
      <4>3. Cardinality((Queued \cup {k}) \cup AtWorker) = Cardinality(Queued) + 1
        BY <3>5, <4>2
      <4> QED  BY <3>4, <3>6, <4>1, <4>3, CapacityAssumption DEF Capacity, ManagerInv, TypeOK
    <3> QED  BY <3>7, <3>8
  <2>6. Lifecycle!Accept(k)
    BY <2>1, <2>3, <2>4, <2>5 DEF Lifecycle!Accept
  <2> QED  BY <2>6 DEF Lifecycle!LineNext
<1>2. CASE ~(Enqueue(k) /\ submit'[k] = "accepted")
  <2>1. UNCHANGED <<queue, worker, current, closed>>
    BY <1>2 DEF SubmitStep, BeginSubmit, TakeSlot, Authorize, Stage, Enqueue, AbortSubmit,
                ReleaseSubmit, SubmitFrame, handVars, Goto, Types
  <2>2. /\ submit[k] # "accepted" /\ submit'[k] # "accepted"
        /\ \A j \in Jobs \ {k} : submit'[j] = submit[j] /\ snap'[j] = snap[j]
    BY <1>2 DEF SubmitStep, BeginSubmit, TakeSlot, Authorize, Stage, Enqueue, AbortSubmit, Failed,
                ReleaseSubmit, Goto, Types
  <2>3. UNCHANGED <<VisiblePhase, VisibleLine>>
    BY <2>1, <2>2 DEF VisiblePhase, VisibleLine
  <2> QED  BY <2>1, <2>3 DEF Lifecycle!lineVars
<1> QED  BY <1>1, <1>2

\* The worker starts and ends the first job of the line, and no other.
LEMMA WorkerInLine ==
    ASSUME LineInv, WorkerStep
    PROVE  [Lifecycle!LineNext]_Lifecycle!lineVars
<1> Whole /\ ManagerInv /\ Types /\ queue \in Seq(Jobs) /\ snap \in [Jobs -> Snapshots]
  BY KnownTypes DEF LineInv, Whole, KnownInv, ManagerInv, TypeOK
<1>1. UNCHANGED <<closed, submit>>
  BY DEF WorkerStep, Dequeue, ExitWorker, CheckCanceled, Attach, StartJob, Report, Convert,
         AfterConvert, Publish, SucceedJob, Drop, Remove, FinishNotify, FinishRelease,
         FinishSignal, clientVars
<1>2. CASE Dequeue
  <2>1. VisibleLine = queue
    BY <1>2, ConcatEmptySeq DEF Dequeue, VisibleLine, Occupied
  <2>2. VisibleLine' = <<Head(queue)>> \o Tail(queue)
    BY <1>2 DEF Dequeue, VisibleLine, Occupied, WorkerStates
  <2>3. VisibleLine' = VisibleLine
    BY <1>2, <2>1, <2>2, HeadOfLine DEF Dequeue
  <2>4. UNCHANGED VisiblePhase
    BY <1>1, <1>2 DEF Dequeue, VisiblePhase
  <2> QED  BY <1>1, <2>3, <2>4 DEF Lifecycle!lineVars
<1>3. CASE FinishRelease
  <2>1. worker = "release" /\ worker \in Occupied /\ worker' = "signal"
        /\ UNCHANGED <<queue, current, snap>>
    BY <1>3 DEF FinishRelease, Occupied, WorkerStates, handVars
  <2>2. VisibleLine' = queue
    BY <2>1, ConcatEmptySeq DEF VisibleLine, Occupied
  <2>3. snap[current].status \in Terminal
    BY <2>1 DEF ManagerInv, Progress, Fits, Resting
  <2>4. Lifecycle!LeaveFirst
    BY <1>1, <2>1, <2>2, <2>3, FirstOfLine
    DEF Lifecycle!LeaveFirst, Lifecycle!Ended, Terminal, VisiblePhase
  <2> QED  BY <2>4 DEF Lifecycle!LineNext
<1>4. CASE ExitWorker \/ FinishSignal
  <2>1. UNCHANGED <<queue, snap>> /\ worker \notin Occupied /\ worker' \notin Occupied
    BY <1>4 DEF ExitWorker, FinishSignal, Occupied
  <2>2. UNCHANGED <<VisiblePhase, VisibleLine>>
    BY <1>1, <2>1 DEF VisiblePhase, VisibleLine
  <2> QED  BY <1>1, <2>2 DEF Lifecycle!lineVars
<1>5. CASE /\ worker \in Occupied /\ worker' \in Occupied /\ UNCHANGED <<queue, current>>
           /\ \A i \in Jobs \ {current} : snap'[i] = snap[i]
           /\ \/ snap'[current].status = snap[current].status
              \/ snap[current].status = "queued" /\ snap'[current].status = "processing"
              \/ /\ snap[current].status = "processing"
                 /\ snap'[current].status \in {"succeeded", "failed"}
  <2>1. VisibleLine' = VisibleLine
    BY <1>5 DEF VisibleLine
  <2>2. VisiblePhase' = [VisiblePhase EXCEPT ![current] = snap'[current].status]
    BY <1>1, <1>5, FirstOfLine, PhaseOfJob
  <2>3. snap'[current].status = snap[current].status => VisiblePhase' = VisiblePhase
    BY <1>5, <2>2, FirstOfLine DEF VisiblePhase
  <2>4. snap[current].status = "queued" /\ snap'[current].status = "processing" =>
            Lifecycle!BeginFirst
    BY <1>1, <1>5, <2>1, <2>2, FirstOfLine DEF Lifecycle!BeginFirst
  <2>5. snap[current].status = "processing" /\ snap'[current].status \in {"succeeded", "failed"} =>
            Lifecycle!EndFirst
    BY <1>1, <1>5, <2>1, <2>2, FirstOfLine DEF Lifecycle!EndFirst
  <2> QED  BY <1>1, <1>5, <2>1, <2>3, <2>4, <2>5 DEF Lifecycle!LineNext, Lifecycle!lineVars
<1>6. CASE ~(Dequeue \/ FinishRelease \/ ExitWorker \/ FinishSignal)
  <2>1. worker \in Occupied /\ worker' \in Occupied /\ UNCHANGED <<queue, current>>
    BY <1>6 DEF WorkerStep, CheckCanceled, Attach, StartJob, Started, Report, Convert, AfterConvert,
                Publish, SucceedJob, Drop, Remove, FinishNotify, Occupied, WorkerStates, handVars
  <2>2. current \in Jobs /\ snap[current] \in Snapshots
    BY <2>1, FirstOfLine
  <2>3. \/ snap' = snap
        \/ StartJob /\ snap' = [snap EXCEPT ![current] = Start(@)]
        \/ Report /\ snap' = [snap EXCEPT ![current] = ReportProgress(@)]
        \/ (AfterConvert \/ Publish) /\ snap' = [snap EXCEPT ![current] = Fail(@)]
        \/ SucceedJob /\ snap' = [snap EXCEPT ![current] = Succeed(@, product)]
    BY <1>6 DEF WorkerStep, CheckCanceled, Attach, StartJob, Report, Convert, AfterConvert,
                Publish, SucceedJob, Drop, Remove, FinishNotify
  <2>4. AfterConvert \/ Publish => snap[current].status \in {"processing", "canceled"}
    BY DEF AfterConvert, Publish, ManagerInv, Progress, Fits, Resting
  <2>5. \A i \in Jobs \ {current} : snap'[i] = snap[i]
    BY <2>2, <2>3
  <2>6. \/ snap'[current].status = snap[current].status
        \/ snap[current].status = "queued" /\ snap'[current].status = "processing"
        \/ /\ snap[current].status = "processing"
           /\ snap'[current].status \in {"succeeded", "failed"}
    <3>1. CASE snap' = snap
      BY <3>1
    <3>2. CASE snap'[current] = Start(snap[current])
      BY <2>2, <3>2 DEF Start, CanStart, Snapshots
    <3>3. CASE snap'[current] = ReportProgress(snap[current])
      BY <2>2, <3>3 DEF ReportProgress, Snapshots
    <3>4. CASE /\ snap[current].status \in {"processing", "canceled"}
               /\ snap'[current] = Fail(snap[current])
      BY <2>2, <3>4 DEF Fail, Open, Snapshots
    <3>5. CASE snap'[current] = Succeed(snap[current], product)
      BY <2>2, <3>5 DEF Succeed, CanSucceed, Snapshots
    <3> QED  BY <2>2, <2>3, <2>4, <3>1, <3>2, <3>3, <3>4, <3>5
  <2> QED  BY <1>5, <2>1, <2>5, <2>6
<1> QED  BY <1>2, <1>3, <1>4, <1>6

\* A cancel ends one job, and shutdown all of them.
LEMMA EndsInLine ==
    ASSUME LineInv, BeginClose \/ \E c \in Cancelers : CancelStep(c)
    PROVE  [Lifecycle!LineNext]_Lifecycle!lineVars
<1> Whole /\ ManagerInv /\ Types /\ queue \in Seq(Jobs) /\ snap \in [Jobs -> Snapshots]
  BY KnownTypes DEF LineInv, Whole, KnownInv, ManagerInv, TypeOK
<1>1. UNCHANGED <<submit, queue, worker, current, VisibleLine>>
  BY DEF BeginClose, CancelStep, CancelLookup, CancelMark, CancelReread, CancelNotify, CancelWait,
         CancelFrame, handVars, VisibleLine
<1>2. \A s \in Snapshots : Cancel(s).status = IF s.status \in {"queued", "processing"}
                                             THEN "canceled" ELSE s.status
  BY DEF Cancel, Open, Snapshots
<1>3. ASSUME NEW c \in Cancelers, CancelMark(c)
      PROVE  [Lifecycle!LineNext]_Lifecycle!lineVars
  <2> DEFINE j == target[c]
  <2>1. j \in Jobs /\ submit[j] = "accepted" /\ closed' = closed
    BY <1>3 DEF CancelMark, CancelFrame, ManagerInv, Acceptance
  <2>2. snap' = [snap EXCEPT ![j] = Cancel(@)]
    BY <1>3 DEF CancelMark
  <2>3. VisiblePhase[j] = snap[j].status
        /\ VisiblePhase' = [VisiblePhase EXCEPT ![j] = Cancel(snap[j]).status]
    BY <1>1, <2>1, <2>2, PhaseOfJob DEF VisiblePhase
  <2>4. CASE snap[j].status \in {"queued", "processing"}
    <3>1. Lifecycle!CancelOne(j)
      BY <1>1, <1>2, <2>1, <2>3, <2>4 DEF Lifecycle!CancelOne
    <3> QED  BY <2>1, <3>1 DEF Lifecycle!LineNext
  <2>5. CASE snap[j].status \notin {"queued", "processing"}
    <3>1. VisiblePhase' = VisiblePhase
      BY <1>2, <2>1, <2>3, <2>5 DEF VisiblePhase
    <3> QED  BY <1>1, <2>1, <3>1 DEF Lifecycle!lineVars
  <2> QED  BY <2>4, <2>5
<1>4. CASE BeginClose
  <2>1. ~closed /\ closed' = TRUE
    BY <1>4 DEF BeginClose, LineInv, ClosingInv
  <2>2. ASSUME NEW j \in Jobs, submit[j] = "accepted", snap[j].status \in {"queued", "processing"}
        PROVE  j \in jobs
    <3>1. timer[j] # "fired"
      BY <2>2 DEF Whole, JobInv, KnownInv, DoneInv, Terminal
    <3> QED  BY <2>2, <3>1 DEF Whole, JobInv
  <2>3. ASSUME NEW j \in Jobs
        PROVE  VisiblePhase'[j] = IF VisiblePhase[j] \in {"queued", "processing"}
                                  THEN "canceled" ELSE VisiblePhase[j]
    <3>1. snap'[j] = IF j \in jobs THEN Cancel(snap[j]) ELSE snap[j]
      BY <1>4 DEF BeginClose
    <3>2. VisiblePhase[j] = (IF submit[j] = "accepted" THEN snap[j].status ELSE "absent")
          /\ VisiblePhase'[j] = (IF submit[j] = "accepted" THEN snap'[j].status ELSE "absent")
      BY <1>1 DEF VisiblePhase
    <3> QED  BY <1>2, <2>2, <3>1, <3>2
  <2>4. VisiblePhase' = [j \in Jobs |-> IF VisiblePhase[j] \in {"queued", "processing"}
                                        THEN "canceled" ELSE VisiblePhase[j]]
    BY <2>3 DEF VisiblePhase
  <2>5. Lifecycle!Shut
    BY <1>1, <2>1, <2>4 DEF Lifecycle!Shut
  <2> QED  BY <2>5 DEF Lifecycle!LineNext
<1>5. ASSUME NEW c \in Cancelers, CancelStep(c), ~CancelMark(c)
      PROVE  UNCHANGED <<snap, closed>>
  BY <1>5 DEF CancelStep, CancelLookup, CancelReread, CancelNotify, CancelWait, CancelFrame
<1>6. UNCHANGED <<snap, closed>> => UNCHANGED Lifecycle!lineVars
  BY <1>1 DEF Lifecycle!lineVars, VisiblePhase
<1> QED  BY <1>3, <1>4, <1>5, <1>6

\* Uploads, the worker, cancels, timers and shutdown, however they interleave,
\* make no step that the line of JobLifecycle does not make: jobs are converted
\* one at a time in the order of acceptance, within the capacity, and each ends
\* exactly once.
THEOREM FollowsLifecycle == Spec => ImplementsLifecycle
<1>1. Init => Lifecycle!LineInit
  <2> SUFFICES ASSUME Init PROVE Lifecycle!LineInit
    OBVIOUS
  <2>1. VisiblePhase = [j \in Jobs |-> "absent"]
    BY DEF Init, VisiblePhase
  <2>2. VisibleLine = << >>
    <3>1. << >> \in Seq(Jobs)
      BY EmptySeq
    <3> QED  BY <3>1, ConcatEmptySeq DEF Init, VisibleLine, Occupied
  <2> QED  BY <2>1, <2>2 DEF Init, Lifecycle!LineInit
<1>2. ASSUME LineInv, [Next]_vars  PROVE [Lifecycle!LineNext]_Lifecycle!lineVars
  <2>1. CASE Sweep \/ UNCHANGED vars \/ \E j \in Jobs : TimerStep(j)
    <3>1. UNCHANGED <<submit, snap, queue, worker, current, closed>>
      BY <2>1 DEF Sweep, TimerStep, Expire, RetentionDelete, RetentionForget, clientVars, handVars,
                  vars
    <3> QED  BY <3>1 DEF Lifecycle!lineVars, VisiblePhase, VisibleLine
  <2> QED  BY <1>2, <2>1, SubmitInLine, WorkerInLine, EndsInLine DEF Next
<1>3. Init => ClosingInv
  BY DEF Init, ClosingInv
<1>4. Spec => []LineInv
  BY <1>3, ClosingStep, CleanupInvariant, SlotsInvariant, PTL DEF Spec, LineInv
<1> QED  BY <1>1, <1>2, <1>4, PTL DEF Spec, ImplementsLifecycle, Lifecycle!LineSpec
=============================================================================
