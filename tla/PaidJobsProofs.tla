---------------------------- MODULE PaidJobsProofs ----------------------------
(***************************************************************************)
(* Theorems about the job manager wired to the credit ledger, for any      *)
(* number of jobs, wallets, vouchers, restarts and failing transactions.   *)
(* What is known of the manager is cited from JobManagerProofs, what is    *)
(* known of the ledger from CreditLedgerProofs, both step by step: a       *)
(* restart takes the memory of the one and leaves the file of the other.   *)
(***************************************************************************)
EXTENDS PaidJobs, JobManagerProofs

Ledger == INSTANCE CreditLedgerProofs WITH
    Orders <- {}, Sessions <- {}, Events <- {}, NoSession <- "none", NoOrder <- "none",
    PackCredits <- 1

-----------------------------------------------------------------------------
(* The ledger, as PaidJobs uses it. *)

\* The constants meet what CreditLedger assumes.
LEMMA LedgerConstants ==
    /\ \A e \in {} : /\ e.order \in {} /\ e.session \in {}
                     /\ e.paid \in BOOLEAN /\ e.final \in BOOLEAN
    /\ Ledger!IsFiniteSet(Jobs) /\ Ledger!IsFiniteSet({}) /\ Ledger!IsFiniteSet(Vouchers)
    /\ 1 \in Nat \ {0} /\ VoucherCredits \in Nat \ {0}
    /\ "none" \notin {} /\ NoAccount \notin Accounts
<1>1. IsFiniteSet({})
  BY FS_EmptySet
<1>2. \A S : IsFiniteSet(S) = Ledger!IsFiniteSet(S)
  BY DEF IsFiniteSet, Ledger!IsFiniteSet
<1> QED  BY <1>1, <1>2, LedgerAssumption

\* The specification and the theorems speak of the same service.
LEMMA SameService ==
    /\ Credit!CreditInit <=> Ledger!CreditInit
    /\ \A a \in Accounts, j \in Jobs : Credit!AuthorizeJob(a, j) <=> Ledger!AuthorizeJob(a, j)
    /\ \A a \in Accounts, j \in Jobs, status \in Terminal :
          Credit!RecordJobOutcome(j, a, status) <=> Ledger!RecordJobOutcome(j, a, status)
    /\ \A a \in Accounts, v \in Vouchers :
          Credit!RedeemVoucher(a, v) <=> Ledger!RedeemVoucher(a, v)
    /\ Credit!RestartService <=> Ledger!RestartService
    /\ [Credit!CreditNext]_Credit!creditVars <=> [Ledger!CreditNext]_Ledger!creditVars
<1>1. Credit!CreditInit <=> Ledger!CreditInit
  BY DEF Credit!CreditInit, Ledger!CreditInit, Credit!References, Ledger!References,
         Credit!NoCharge, Ledger!NoCharge, Credit!NoOrderRecord, Ledger!NoOrderRecord
<1> USE DEF Credit!AddEntry, Ledger!AddEntry, Credit!Covered, Ledger!Covered, Credit!HasEntry,
            Ledger!HasEntry, Credit!orderVars, Ledger!orderVars, Credit!ledgerVars,
            Ledger!ledgerVars
<1>2. \A a \in Accounts, j \in Jobs : Credit!AuthorizeJob(a, j) <=> Ledger!AuthorizeJob(a, j)
  BY DEF Credit!AuthorizeJob, Ledger!AuthorizeJob
<1>3. \A a \in Accounts, j \in Jobs, status \in Terminal :
         Credit!RecordJobOutcome(j, a, status) <=> Ledger!RecordJobOutcome(j, a, status)
  BY DEF Credit!RecordJobOutcome, Ledger!RecordJobOutcome, Credit!Settled, Ledger!Settled
<1>4. \A a \in Accounts, v \in Vouchers :
         Credit!RedeemVoucher(a, v) <=> Ledger!RedeemVoucher(a, v)
  BY DEF Credit!RedeemVoucher, Ledger!RedeemVoucher
<1>5. Credit!RestartService <=> Ledger!RestartService
  BY DEF Credit!RestartService, Ledger!RestartService, Credit!Reconcile, Ledger!Reconcile,
         Credit!Cardinality, Ledger!Cardinality, Credit!Interrupted, Ledger!Interrupted, Credit!References, Ledger!References
<1>6. [Credit!CreditNext]_Credit!creditVars <=> [Ledger!CreditNext]_Ledger!creditVars
  <2>1. Credit!ServiceNext <=> Ledger!ServiceNext
    BY <1>2, <1>3, <1>4, <1>5
    DEF Credit!ServiceNext, Ledger!ServiceNext, Credit!Outcomes, Ledger!Outcomes, Terminal
  <2> QED  BY <2>1 DEF Credit!CreditNext, Ledger!CreditNext, Credit!creditVars, Ledger!creditVars
<1> QED  BY <1>1, <1>2, <1>3, <1>4, <1>5, <1>6

-----------------------------------------------------------------------------
(* The inductive invariant. *)

\* A submission at one of these points has been authorized, and its charge is
\* neither handed over to an accepted job nor given up.
Paying == {"authorized", "staged", "aborting"}

\* The charge of a job follows the job: it is open while the job is submitted,
\* waits or is converted, its owner's all along, and an open charge of a job
\* with an EPUB is that of a job which still shows the EPUB.
Reservation(j) ==
    /\ submit[j] \in Paying => charges[j].status = "authorized"
    /\ submit[j] = "accepted" /\ snap[j].status \in {"queued", "processing"} =>
          charges[j].status = "authorized"
    /\ charges[j].status # "none" => charges[j].account = Owner[j]
    /\ j \in delivered => charges[j].status # "none"
    /\ submit[j] # "accepted" => snap[j].status \in {"absent", "queued"}
    /\ snap[j].status = "succeeded" => j \in delivered
    /\ charges[j].status = "authorized" /\ j \in delivered => snap[j].status = "succeeded"

\* While the ledger takes what it is told, an accepted job that was reported is
\* settled, and no accepted job is out of sight.
Settlement(j) ==
    submit[j] = "accepted" =>
        /\ j \in Queued \cup done \/ (worker \notin Resting /\ current = j)
        /\ faults = 0 /\ outcomes[j] # << >> => charges[j].status # "authorized"

\* The order of shutdown: the worker, the manager, the ledger.
Shutdown ==
    /\ ~ledgerOpen => closer = "closed"
    /\ closer = "closed" => worker = "exited"
    /\ worker = "exited" => closed /\ queue = << >>

WiringInv ==
    /\ \A j \in Jobs : Reservation(j) /\ Settlement(j)
    /\ Shutdown
    /\ faults \in Nat /\ ledgerOpen \in BOOLEAN

PaidInv == KnownInv /\ Ledger!LedgerInv /\ WiringInv

-----------------------------------------------------------------------------
(* What the steps do to the ledger. *)

\* What the ledger's invariant says of the charges.
LEMMA ChargeFacts ==
    ASSUME Ledger!LedgerInv
    PROVE  /\ balances \in [Accounts -> Nat]
           /\ charges \in [Jobs -> [status : {"none", "authorized", "completed", "refunded"},
                                    account : Accounts \cup {NoAccount}]]
           /\ \A j \in Jobs : charges[j].status = "none" => ledger[<<"job", j>>] = NoAccount
           /\ \A j \in Jobs : charges[j].status # "refunded" =>
                 ledger[<<"refund", j>>] = NoAccount
<1>1. /\ balances \in [Accounts -> Nat]
      /\ charges \in [Jobs -> {Ledger!NoCharge} \cup
             [status : {"authorized", "completed", "refunded"}, account : Accounts]]
  BY DEF Ledger!LedgerInv, Ledger!CreditTypeOK
<1>2. \A j \in Jobs :
        /\ ledger[<<"job", j>>] = charges[j].account
        /\ ledger[<<"refund", j>>] = IF charges[j].status = "refunded"
                                     THEN charges[j].account ELSE NoAccount
  BY DEF Ledger!LedgerInv, Ledger!ChargeMatchesLedger
<1>3. \A j \in Jobs : charges[j].status = "none" => charges[j].account = NoAccount
  BY <1>1 DEF Ledger!NoCharge
<1>4. {Ledger!NoCharge} \cup [status : {"authorized", "completed", "refunded"}, account : Accounts]
        \subseteq [status : {"none", "authorized", "completed", "refunded"},
                   account : Accounts \cup {NoAccount}]
  BY DEF Ledger!NoCharge
<1>5. charges \in [Jobs -> [status : {"none", "authorized", "completed", "refunded"},
                           account : Accounts \cup {NoAccount}]]
  BY <1>1, <1>4
<1> QED  BY <1>1, <1>2, <1>3, <1>5

\* A submission is charged, or refused and nothing happens.
LEMMA Charging ==
    ASSUME Ledger!LedgerInv, NEW j \in Jobs, Charge(j)
    PROVE  \/ /\ submit' = [submit EXCEPT ![j] = "authorized"]
              /\ charges[j].status = "none" /\ balances[Owner[j]] > 0
              /\ charges' = [charges EXCEPT ![j] = [status |-> "authorized", account |-> Owner[j]]]
              /\ balances' = [balances EXCEPT ![Owner[j]] = @ - 1]
              /\ UNCHANGED faults
           \/ /\ submit' = [submit EXCEPT ![j] = "releasing"]
              /\ UNCHANGED accountVars
              /\ faults' = faults \/ faults' = faults + 1
<1>1. Owner[j] \in Accounts
  BY WiringAssumption
<1>2. submit' = [submit EXCEPT ![j] = submit'[j]]
  BY DEF Charge, Authorize, Goto
<1>3. CASE submit'[j] = "authorized" /\ Credit!AuthorizeJob(Owner[j], j) /\ UNCHANGED faults
  <2>1. charges[j].status = "none" /\ ledger[<<"job", j>>] = NoAccount
    BY <1>3, ChargeFacts DEF Credit!AuthorizeJob
  <2> QED  BY <1>1, <1>2, <1>3, <2>1, ChargeFacts
           DEF Credit!AuthorizeJob, Credit!AddEntry, Credit!HasEntry, Credit!Covered
<1>4. CASE submit'[j] = "releasing" /\ UNCHANGED accountVars
           /\ (faults' = faults \/ faults' = faults + 1)
  BY <1>2, <1>4
<1> QED  BY <1>3, <1>4 DEF Charge, Fault

\* An outcome settles an open charge; only a closed or a failing ledger leaves
\* it open.
LEMMA Settling ==
    ASSUME Ledger!LedgerInv, NEW j \in Jobs, NEW status \in Terminal, Tell(j, status)
    PROVE  \/ /\ UNCHANGED accountVars
              /\ \/ charges[j].status # "authorized" /\ UNCHANGED faults
                 \/ ~ledgerOpen /\ UNCHANGED faults
                 \/ faults' = faults + 1
           \/ /\ charges[j].status = "authorized" /\ status = "succeeded"
              /\ charges' = [charges EXCEPT ![j].status = "completed"]
              /\ UNCHANGED <<balances, faults>>
           \/ /\ charges[j].status = "authorized" /\ status # "succeeded"
              /\ charges' = [charges EXCEPT ![j].status = "refunded"]
              /\ balances' = [balances EXCEPT ![Owner[j]] = @ + 1]
              /\ UNCHANGED faults
<1>1. Owner[j] \in Accounts
  BY WiringAssumption
<1>2. CASE Credit!RecordJobOutcome(j, Owner[j], status) /\ UNCHANGED faults
  <2>1. CASE charges[j].status # "none" /\ ~Credit!Settled(charges[j])
    <3>1. charges[j].status = "authorized" /\ ledger[<<"refund", j>>] = NoAccount
      BY <2>1, ChargeFacts DEF Credit!Settled
    <3> QED  BY <1>1, <1>2, <2>1, <3>1
             DEF Credit!RecordJobOutcome, Credit!AddEntry, Credit!HasEntry
  <2>2. CASE charges[j].status = "none" \/ Credit!Settled(charges[j])
    <3>1. UNCHANGED accountVars
      BY <1>2, <2>2 DEF Credit!RecordJobOutcome, Credit!Settled, Credit!ledgerVars,
                        Credit!orderVars, accountVars
    <3> QED  BY <1>2, <2>2, <3>1 DEF Credit!Settled
  <2> QED  BY <2>1, <2>2
<1>3. CASE ~ledgerOpen /\ UNCHANGED <<accountVars, faults>>
  BY <1>3
<1>4. CASE Fault
  BY <1>4 DEF Fault
<1> QED  BY <1>2, <1>3, <1>4 DEF Tell

\* Every step of the wired service is one of the ledger's own, or none.
LEMMA LedgerSteps ==
    ASSUME ManagerInv, Marked, [PaidNext]_<<vars, paidVars>>
    PROVE  [Credit!CreditNext]_Credit!creditVars
<1> USE DEF Credit!creditVars, Credit!ledgerVars, Credit!orderVars, accountVars
<1>1. \A j \in Jobs : Owner[j] \in Accounts
  BY WiringAssumption
<1>2. ASSUME NEW j \in Jobs, Charge(j)  PROVE [Credit!CreditNext]_Credit!creditVars
  BY <1>1, <1>2 DEF Charge, Fault, Credit!CreditNext, Credit!ServiceNext
<1>3. ASSUME NEW j \in Jobs, NEW status \in Terminal, Tell(j, status)
      PROVE  [Credit!CreditNext]_Credit!creditVars
  BY <1>1, <1>3 DEF Tell, Fault, Credit!CreditNext, Credit!ServiceNext, Credit!Outcomes, Terminal
<1>4. CASE TellOutcome
  <2>1. FinishNotify => current \in Jobs /\ snap[current].status \in Terminal
    BY DEF FinishNotify, ManagerInv, Acceptance, Progress, Fits, Resting
  <2>2. \A c \in Cancelers : CancelNotify(c) => target[c] \in Jobs
    BY DEF CancelNotify, ManagerInv, Acceptance
  <2> QED  BY <1>3, <1>4, <2>1, <2>2 DEF TellOutcome, Terminal
<1>5. CASE Work \/ CloseLedger \/ UNCHANGED <<vars, paidVars>>
  BY <1>5 DEF Work, CloseLedger, paidVars
<1>6. CASE \/ \E a \in Accounts, v \in Vouchers : Redeem(a, v)
           \/ Restart
  BY <1>6 DEF Redeem, Restart, Credit!CreditNext, Credit!ServiceNext
<1> QED  BY <1>2, <1>4, <1>5, <1>6 DEF PaidNext

\* So the ledger's invariant holds of the wired service, too.
LEMMA LedgerKept ==
    ASSUME ManagerInv, Marked, Ledger!LedgerInv, [PaidNext]_<<vars, paidVars>>
    PROVE  Ledger!LedgerInv'
BY LedgerSteps, SameService, Ledger!LedgerStep, LedgerConstants

-----------------------------------------------------------------------------
(* What the steps do to the manager. *)

\* A new manager has no job, and forgets what became of those of the old one.
LEMMA RestartKept ==
    ASSUME ManagerInv, RestartManager
    PROVE  ManagerInv' /\ OutcomeInv' /\ DoneInv'
<1>1. TypeOK'
  <2>1. Absent \in Snapshots
    BY DEF Absent, Snapshots, Statuses, Stages, Artifacts
  <2>2. /\ snap' \in [Jobs -> Snapshots] /\ slots' \in 0..Capacity /\ queue' \in Seq(Jobs)
        /\ outcomes' \in [Jobs -> Seq(Terminal)]
    BY <2>1, CapacityAssumption, EmptySeq DEF RestartManager, Capacity
  <2>3. submit' \in [Jobs -> SubmitStates]
    BY DEF RestartManager, SubmitStates
  <2> QED  BY <2>2, <2>3 DEF RestartManager, ManagerInv, TypeOK, Artifacts, WorkerStates
<1>2. Queued' = {} /\ Len(queue') = 0
  BY DEF RestartManager, Queued
<1>3. /\ \A j \in Jobs : snap'[j] = Absent /\ submit'[j] \in {"idle", "rejected"}
                         /\ outcomes'[j] = << >>
      /\ jobs' = {} /\ done' = {} /\ worker' = "idle"
      /\ \A c \in Cancelers : cancel'[c] = "idle"
  BY DEF RestartManager
<1>4. Acceptance' /\ Line' /\ Progress'
  BY <1>2, <1>3 DEF Acceptance, Line, Distinct, Progress, Resting
<1>5. OutcomeInv'
  BY <1>3 DEF OutcomeInv, Told, Marked
<1>6. DoneInv'
  BY <1>3 DEF DoneInv
<1> QED  BY <1>1, <1>4, <1>5, <1>6 DEF ManagerInv

\* Apart from a restart, the manager makes its own steps.
LEMMA ManagerMoves ==
    ASSUME [PaidNext]_<<vars, paidVars>>
    PROVE  [Next]_vars \/ Restart
<1>1. ASSUME NEW j \in Jobs, Charge(j)  PROVE Next
  BY <1>1 DEF Charge, Next, SubmitStep
<1>2. CASE TellOutcome \/ Work
  BY <1>2 DEF TellOutcome, Work, Next, SubmitStep, WorkerStep, CancelStep
<1>3. CASE CloseLedger \/ UNCHANGED <<vars, paidVars>>
           \/ \E a \in Accounts, v \in Vouchers : Redeem(a, v)
  BY <1>3 DEF CloseLedger, Redeem
<1> QED  BY <1>1, <1>2, <1>3 DEF PaidNext

\* The three ways in which billing is told an outcome: of a submission on its
\* way out, or of an accepted job that has ended.
LEMMA Telling ==
    ASSUME ManagerInv, Marked, TellOutcome
    PROVE  \E j \in Jobs, status \in Terminal :
              /\ Tell(j, status)
              /\ \/ /\ submit[j] = "aborting" /\ status = "failed"
                    /\ submit' = [submit EXCEPT ![j] = "releasing"]
                 \/ /\ submit[j] = "accepted" /\ status = snap[j].status
                    /\ submit' = submit
              /\ UNCHANGED <<snap, queue, closed, closer, current, done, ledgerOpen>>
              /\ outcomes' = [outcomes EXCEPT ![j] = Append(@, status)]
              /\ worker' = worker \/ (worker = "finish" /\ worker' = "release")
<1> Public
  BY WiringAssumption
<1>1. ASSUME NEW j \in Jobs, AbortSubmit(j), Tell(j, "failed")
      PROVE  /\ submit[j] = "aborting" /\ submit' = [submit EXCEPT ![j] = "releasing"]
             /\ UNCHANGED <<snap, queue, closed, closer, current, done, worker>>
             /\ outcomes' = [outcomes EXCEPT ![j] = Append(@, "failed")]
  BY <1>1 DEF AbortSubmit, Failed, Goto, Notify, SubmitFrame, handVars, endVars
<1>2. CASE FinishNotify /\ Tell(current, snap[current].status)
  <2>1. current \in Jobs /\ submit[current] = "accepted" /\ snap[current].status \in Terminal
    BY <1>2 DEF FinishNotify, ManagerInv, Acceptance, Progress, Fits, Resting
  <2>2. /\ UNCHANGED <<submit, snap, queue, closed, closer, current, done>>
        /\ outcomes' = [outcomes EXCEPT ![current] = Append(@, snap[current].status)]
        /\ worker = "finish" /\ worker' = "release"
    BY <1>2 DEF FinishNotify, Notify, clientVars, handVars, endVars
  <2> QED  BY <1>2, <2>1, <2>2 DEF TellOutcome, Watch
<1>3. ASSUME NEW c \in Cancelers, CancelNotify(c), Tell(target[c], "canceled")
      PROVE  /\ target[c] \in Jobs /\ submit[target[c]] = "accepted"
             /\ snap[target[c]].status = "canceled"
             /\ UNCHANGED <<submit, snap, queue, closed, closer, current, done, worker>>
             /\ outcomes' = [outcomes EXCEPT ![target[c]] = Append(@, "canceled")]
  BY <1>3 DEF CancelNotify, Notify, CancelFrame, handVars, endVars, ManagerInv, Acceptance, Marked
<1> "failed" \in Terminal /\ "canceled" \in Terminal
  BY DEF Terminal
<1>4. UNCHANGED ledgerOpen
  BY DEF TellOutcome, Watch
<1> QED  BY <1>1, <1>2, <1>3, <1>4 DEF TellOutcome

\* Where a submission goes while neither wallet nor billing is asked.
LEMMA WorkSubmits ==
    ASSUME KnownInv, Work, NEW j \in Jobs
    PROVE  /\ submit'[j] \in Paying => submit[j] \in Paying
           /\ submit[j] = "accepted" => submit'[j] = "accepted"
           /\ submit'[j] = "accepted" /\ submit[j] # "accepted" =>
                 submit[j] \in Paying /\ j \in Queued' /\ snap'[j] = snap[j]
           /\ UNCHANGED outcomes
<1> Types /\ queue \in Seq(Jobs)
  BY KnownTypes DEF KnownInv, ManagerInv, TypeOK
<1>1. ASSUME NEW k \in Jobs, BeginSubmit(k) \/ TakeSlot(k) \/ Stage(k) \/ ReleaseSubmit(k)
      PROVE  /\ submit'[j] \in Paying => submit[j] \in Paying
             /\ submit[j] = "accepted" <=> submit'[j] = "accepted"
             /\ UNCHANGED outcomes
  BY <1>1 DEF BeginSubmit, TakeSlot, Stage, ReleaseSubmit, Goto, Paying, Types
<1>2. ASSUME NEW k \in Jobs, Enqueue(k)
      PROVE  /\ submit'[j] \in Paying => submit[j] \in Paying
             /\ submit[j] = "accepted" => submit'[j] = "accepted"
             /\ submit'[j] = "accepted" /\ submit[j] # "accepted" =>
                   submit[j] \in Paying /\ j \in Queued' /\ snap'[j] = snap[j]
             /\ UNCHANGED outcomes
  <2>1. queue' = Append(queue, k) => Queued' = Queued \cup {k}
    BY AppendElements DEF Queued, Elements
  <2> QED  BY <1>2, <2>1 DEF Enqueue, Goto, Paying, Types
<1>3. ASSUME ~(\E k \in Jobs : BeginSubmit(k) \/ TakeSlot(k) \/ Stage(k) \/ Enqueue(k)
                               \/ ReleaseSubmit(k))
      PROVE  UNCHANGED <<submit, outcomes>>
  BY <1>3 DEF Work, TimerStep, Expire, RetentionDelete, RetentionForget, Dequeue, ExitWorker,
      CheckCanceled, Attach, StartJob, Report, Convert, AfterConvert, Publish, SucceedJob, Drop,
      Remove, FinishRelease, FinishSignal, CancelLookup, CancelMark, CancelReread, CancelWait,
      CancelFrame, BeginClose, Sweep, clientVars
<1> QED  BY <1>1, <1>2, <1>3

\* An accepted job passes from the queue to the worker, and from there to done.
LEMMA WorkTracks ==
    ASSUME KnownInv, Work, NEW j \in Jobs,
           j \in Queued \cup done \/ (worker \notin Resting /\ current = j)
    PROVE  j \in Queued' \cup done' \/ (worker' \notin Resting /\ current' = j)
<1> Types /\ queue \in Seq(Jobs)
  BY KnownTypes DEF KnownInv, ManagerInv, TypeOK
<1>1. CASE Dequeue
  <2>1. j \in Queued => j = Head(queue) \/ j \in Queued'
    BY <1>1, TailElements DEF Dequeue, Queued, Elements
  <2> QED  BY <1>1, <2>1 DEF Dequeue, Resting, endVars
<1>2. CASE FinishSignal
  BY <1>2 DEF FinishSignal, DoneClosed, Queued
<1>3. ASSUME NEW k \in Jobs, Enqueue(k)
      PROVE  Queued \subseteq Queued' /\ UNCHANGED <<worker, current, done>>
  <2>1. queue' = Append(queue, k) => Queued' = Queued \cup {k}
    BY AppendElements DEF Queued, Elements
  <2> QED  BY <1>3, <2>1 DEF Enqueue, SubmitFrame, handVars, endVars, Queued
<1>4. ASSUME ~Dequeue, ~FinishSignal, ~(\E k \in Jobs : Enqueue(k))
      PROVE  /\ UNCHANGED <<queue, current, done>>
             /\ worker \notin Resting => worker' \notin Resting
  BY <1>4
  DEF Work, BeginSubmit, TakeSlot, Stage, ReleaseSubmit, SubmitFrame, TimerStep, Expire,
      RetentionDelete, RetentionForget, ExitWorker, CheckCanceled, Attach, StartJob, Started,
      Report, Convert, AfterConvert, Publish, SucceedJob, Drop, Remove, FinishRelease,
      CancelLookup, CancelMark, CancelReread, CancelWait, CancelFrame, BeginClose, Sweep,
      handVars, endVars, Resting
<1> QED  BY <1>1, <1>2, <1>3, <1>4 DEF Queued

\* A worker that has exited and a manager that has closed stay so.
LEMMA WorkCloses ==
    ASSUME KnownInv, Work
    PROVE  /\ closer' # closer /\ closer' = "closed" => worker = "exited" /\ worker' = worker
           /\ closer = "closed" => closer' = closer
           /\ worker = "exited" => worker' = worker
           /\ closed => closed'
           /\ closed /\ queue = << >> => queue' = << >>
           /\ worker # "exited" /\ worker' = "exited" => closed /\ queue = << >>
<1>1. CASE Sweep \/ BeginClose \/ ExitWorker \/ Dequeue
  BY <1>1 DEF Sweep, BeginClose, ExitWorker, Dequeue, clientVars, KnownInv, ManagerInv, TypeOK
<1>2. ASSUME NEW k \in Jobs, Enqueue(k)
      PROVE  UNCHANGED <<closed, closer, worker>> /\ (closed => queue' = queue)
  BY <1>2 DEF Enqueue, StillOpen, SubmitFrame
<1>3. ASSUME ~(Sweep \/ BeginClose \/ ExitWorker \/ Dequeue), ~(\E k \in Jobs : Enqueue(k))
      PROVE  UNCHANGED <<closed, closer, queue>>
  BY <1>3
  DEF Work, BeginSubmit, TakeSlot, Stage, ReleaseSubmit, SubmitFrame, TimerStep, Expire,
      RetentionDelete, RetentionForget, CheckCanceled, Attach, StartJob, Report, Convert,
      AfterConvert, Publish, SucceedJob, Drop, Remove, FinishRelease, FinishSignal, CancelLookup,
      CancelMark, CancelReread, CancelWait, CancelFrame, clientVars
<1>4. ASSUME ~(Sweep \/ BeginClose \/ ExitWorker \/ Dequeue), ~(\E k \in Jobs : Enqueue(k))
      PROVE  worker' = worker \/ (worker # "exited" /\ worker' # "exited")
  BY <1>4
  DEF Work, BeginSubmit, TakeSlot, Stage, ReleaseSubmit, SubmitFrame, TimerStep, Expire,
      RetentionDelete, RetentionForget, CheckCanceled, Attach, StartJob, Started, Report, Convert,
      AfterConvert, Publish, SucceedJob, Drop, Remove, FinishRelease, FinishSignal, CancelLookup,
      CancelMark, CancelReread, CancelWait, CancelFrame
<1> QED  BY <1>1, <1>2, <1>3, <1>4

-----------------------------------------------------------------------------
(* The wiring keeps its invariant. *)

\* The status of an ended job is that of its first end; a job succeeds, and is
\* being converted, only after it was accepted.
LEMMA WorkSnapshots ==
    ASSUME KnownInv, Work, NEW j \in Jobs
    PROVE  /\ snap[j].status \in Terminal => snap'[j] = snap[j]
           /\ submit[j] # "accepted" =>
                 snap'[j].status = snap[j].status \/ snap'[j].status = "queued"
           /\ snap'[j].status \in {"queued", "processing"} /\ submit[j] = "accepted" =>
                 snap[j].status \in {"queued", "processing"}
           /\ snap'[j].status = "succeeded" /\ snap[j].status # "succeeded" =>
                 j = current /\ snap[j].status = "processing" /\ submit[j] = "accepted"
<1>1. Next
  BY DEF Work, Next, SubmitStep, WorkerStep, CancelStep
<1>2. Types /\ SnapChange(j)
  BY <1>1, KnownTypes, SnapChanges
<1>3. snap[j].status \in Terminal => snap'[j] = snap[j]
  BY <1>1, TerminalStep DEF KnownInv
<1>4. /\ StartJob /\ j = current => submit[j] = "accepted" /\ snap[j].status \in {"queued", "canceled"}
      /\ SucceedJob /\ j = current => submit[j] = "accepted"
  BY <1>2 DEF StartJob, SucceedJob, Types, KnownInv, ManagerInv, Progress, Fits, Resting
<1>5. Stage(j) => submit[j] # "accepted"
  BY DEF Stage
<1>6. NewJob.status = "queued"
  BY DEF NewJob
<1> QED  BY <1>2, <1>3, <1>4, <1>5, <1>6 DEF SnapChange, CanSucceed, Terminal

LEMMA WorkKept ==
    ASSUME PaidInv, Work
    PROVE  WiringInv'
<1> KnownInv /\ WiringInv
  BY DEF PaidInv
<1>1. /\ UNCHANGED <<charges, faults, ledgerOpen>>
      /\ delivered' = delivered \cup {j \in Jobs : snap'[j].status = "succeeded"}
  BY DEF Work, Watch, accountVars
<1>2. ASSUME NEW j \in Jobs  PROVE Reservation(j)'
  BY <1>1, <1>2, WorkSubmits, WorkSnapshots DEF WiringInv, Reservation, Paying, Terminal
<1>3. ASSUME NEW j \in Jobs  PROVE Settlement(j)'
  <2>1. submit'[j] = "accepted" =>
            j \in Queued' \cup done' \/ (worker' \notin Resting /\ current' = j)
    BY WorkSubmits, WorkTracks DEF WiringInv, Settlement
  <2>2. submit[j] # "accepted" /\ submit'[j] = "accepted" => outcomes[j] = << >>
    <3>1. Paying \subseteq Untold
      BY DEF Paying, Untold, Early
    <3> QED  BY <3>1, WorkSubmits DEF KnownInv, OutcomeInv, Told
  <2> QED  BY <1>1, <2>1, <2>2, WorkSubmits DEF WiringInv, Settlement
<1>4. Shutdown'
  BY <1>1, WorkCloses DEF WiringInv, Shutdown
<1> QED  BY <1>1, <1>2, <1>3, <1>4 DEF WiringInv

LEMMA ChargeKept ==
    ASSUME PaidInv, NEW k \in Jobs, Charge(k)
    PROVE  WiringInv'
<1> KnownInv /\ WiringInv /\ Ledger!LedgerInv /\ Types
  BY KnownTypes DEF PaidInv
<1>1. /\ UNCHANGED <<snap, queue, closed, closer, worker, current, done, outcomes, ledgerOpen>>
      /\ delivered' = delivered \cup {j \in Jobs : snap'[j].status = "succeeded"}
  BY DEF Charge, Authorize, SubmitFrame, handVars, endVars, Watch
<1>2. submit[k] = "admitted" /\ snap[k] = Absent
  BY DEF Charge, Authorize, KnownInv, ManagerInv, Acceptance, Early
<1>3. delivered' = delivered
  BY <1>1 DEF WiringInv, Reservation
<1>4. CASE /\ submit' = [submit EXCEPT ![k] = "authorized"]
           /\ charges[k].status = "none"
           /\ charges' = [charges EXCEPT ![k] = [status |-> "authorized", account |-> Owner[k]]]
           /\ UNCHANGED faults
  <2>1. k \notin delivered
    BY <1>4 DEF WiringInv, Reservation
  <2>2. ASSUME NEW j \in Jobs  PROVE Reservation(j)' /\ Settlement(j)'
    <3>1. charges'[j] = IF j = k THEN [status |-> "authorized", account |-> Owner[k]]
                                 ELSE charges[j]
      BY <1>4, ChargeFacts
    <3>2. submit'[j] = IF j = k THEN "authorized" ELSE submit[j]
      BY <1>4 DEF Types
    <3> QED  BY <1>1, <1>2, <1>3, <1>4, <2>1, <3>1, <3>2
             DEF WiringInv, Reservation, Settlement, Queued, Absent
  <2> QED  BY <1>1, <1>4, <2>2 DEF WiringInv, Shutdown
<1>5. CASE /\ submit' = [submit EXCEPT ![k] = "releasing"]
           /\ UNCHANGED accountVars
           /\ faults' = faults \/ faults' = faults + 1
  <2>1. faults' \in Nat /\ (faults' = 0 => faults = 0)
    BY <1>5 DEF WiringInv
  <2>2. ASSUME NEW j \in Jobs  PROVE Reservation(j)' /\ Settlement(j)'
    <3>1. submit'[j] = IF j = k THEN "releasing" ELSE submit[j]
      BY <1>5 DEF Types
    <3> QED  BY <1>1, <1>2, <1>3, <1>5, <2>1, <3>1
             DEF WiringInv, Reservation, Settlement, Queued, accountVars, Paying, Absent
  <2> QED  BY <1>1, <2>1, <2>2 DEF WiringInv, Shutdown
<1> QED  BY <1>4, <1>5, Charging

LEMMA TellKept ==
    ASSUME PaidInv, TellOutcome
    PROVE  WiringInv'
<1> KnownInv /\ ManagerInv /\ Marked /\ WiringInv /\ Ledger!LedgerInv /\ Types /\ Public
  BY KnownTypes, WiringAssumption DEF PaidInv, KnownInv, OutcomeInv
<1>1. PICK k \in Jobs, status \in Terminal :
        /\ Tell(k, status)
        /\ \/ /\ submit[k] = "aborting" /\ status = "failed"
              /\ submit' = [submit EXCEPT ![k] = "releasing"]
           \/ /\ submit[k] = "accepted" /\ status = snap[k].status
              /\ submit' = submit
        /\ UNCHANGED <<snap, queue, closed, closer, current, done, ledgerOpen>>
        /\ outcomes' = [outcomes EXCEPT ![k] = Append(@, status)]
        /\ worker' = worker \/ (worker = "finish" /\ worker' = "release")
  BY Telling
<1>2. delivered' = delivered
  BY <1>1 DEF TellOutcome, Watch, WiringInv, Reservation
<1>3. faults' \in Nat /\ (faults' = 0 => faults = 0 /\ UNCHANGED faults)
  BY <1>1, Settling DEF WiringInv
<1>4. ASSUME NEW j \in Jobs
      PROVE  /\ charges'[j].account = charges[j].account
             /\ j # k => charges'[j] = charges[j]
             /\ charges'[j].status # charges[j].status =>
                   charges[j].status = "authorized" /\ charges'[j].status \in {"completed", "refunded"}
  BY <1>1, Settling, ChargeFacts DEF accountVars
<1>5. submit[k] = "accepted" /\ faults' = 0 => charges'[k].status # "authorized"
  <2>1. CASE ~ledgerOpen /\ submit[k] = "accepted"
    <3>1. worker = "exited" /\ queue = << >>
      BY <2>1 DEF WiringInv, Shutdown
    <3>2. k \in done
      BY <2>1, <3>1 DEF WiringInv, Settlement, Queued, Resting
    <3> QED  BY <1>3, <1>4, <2>1, <3>2 DEF WiringInv, Settlement, KnownInv, DoneInv
  <2>2. CASE ledgerOpen
    <3>1. faults' # faults + 1 \/ faults' # 0
      BY <1>3 DEF WiringInv
    <3> QED  BY <1>1, <2>2, <3>1, Settling, ChargeFacts DEF accountVars
  <2> QED  BY <2>1, <2>2
<1>6. ASSUME NEW j \in Jobs  PROVE Reservation(j)'
  <2>1. submit'[j] = submit[j] \/ (j = k /\ submit[j] = "aborting" /\ submit'[j] = "releasing")
    BY <1>1 DEF Types
  <2>2. j = k => \/ submit[j] = "aborting" /\ submit'[j] = "releasing"
                 \/ submit[j] = "accepted" /\ snap[j].status \in Terminal
    BY <1>1 DEF Types
  <2> QED  BY <1>1, <1>2, <1>4, <2>1, <2>2 DEF WiringInv, Reservation, Paying, Terminal
<1>7. ASSUME NEW j \in Jobs  PROVE Settlement(j)'
  <2>1. submit'[j] = "accepted" => submit[j] = "accepted"
    BY <1>1 DEF Types
  <2>2. j # k => outcomes'[j] = outcomes[j]
    BY <1>1 DEF KnownInv, ManagerInv, TypeOK
  <2>3. worker \notin Resting => worker' \notin Resting
    BY <1>1 DEF Resting
  <2> QED  BY <1>1, <1>3, <1>4, <1>5, <2>1, <2>2, <2>3 DEF WiringInv, Settlement, Queued
<1>8. Shutdown'
  BY <1>1 DEF WiringInv, Shutdown
<1> QED  BY <1>1, <1>3, <1>6, <1>7, <1>8 DEF WiringInv

LEMMA RestartWired ==
    ASSUME PaidInv, Restart
    PROVE  WiringInv'
<1> KnownInv /\ WiringInv /\ Ledger!LedgerInv /\ Types
  BY KnownTypes DEF PaidInv
<1>1. /\ \A j \in Jobs : snap'[j] = Absent /\ submit'[j] \in {"idle", "rejected"}
      /\ closer' = "running" /\ worker' = "idle" /\ ledgerOpen' = TRUE
      /\ UNCHANGED <<faults, delivered>>
  BY DEF Restart, RestartManager
<1>2. \A j \in Jobs : charges'[j] = IF charges[j].status = "authorized"
                                    THEN [charges[j] EXCEPT !.status = "refunded"] ELSE charges[j]
  BY DEF Restart, Credit!RestartService, Credit!Reconcile, Credit!Interrupted
<1>3. ASSUME NEW j \in Jobs
      PROVE  /\ charges'[j].status # "authorized"
             /\ charges'[j].account = charges[j].account
             /\ charges'[j].status = "none" <=> charges[j].status = "none"
  BY <1>2, ChargeFacts
<1>4. ASSUME NEW j \in Jobs  PROVE Reservation(j)' /\ Settlement(j)'
  BY <1>1, <1>3 DEF WiringInv, Reservation, Settlement, Paying, Absent
<1> QED  BY <1>1, <1>4 DEF WiringInv, Shutdown

\* Every step of the wired service keeps the whole invariant.
LEMMA PaidStep ==
    ASSUME PaidInv, [PaidNext]_<<vars, paidVars>>
    PROVE  PaidInv'
<1>1. ManagerInv /\ OutcomeInv /\ Marked /\ DoneInv /\ Ledger!LedgerInv
  BY DEF PaidInv, KnownInv, OutcomeInv
<1>2. Ledger!LedgerInv'
  BY <1>1, LedgerKept
<1>3. KnownInv'
  <2>1. CASE [Next]_vars
    BY <1>1, <2>1, ManagerStep, OutcomeStep, DoneStep DEF KnownInv
  <2>2. CASE Restart
    BY <1>1, <2>2, RestartKept DEF Restart, KnownInv
  <2> QED  BY <2>1, <2>2, ManagerMoves
<1>4. WiringInv'
  <2>1. CASE \/ CloseLedger \/ UNCHANGED <<vars, paidVars>>
             \/ \E a \in Accounts, v \in Vouchers : Redeem(a, v)
    <3>1. /\ UNCHANGED <<vars, delivered, faults>>
          /\ UNCHANGED ledgerOpen \/ (ledgerOpen' = FALSE /\ closer = "closed")
          /\ \A j \in Jobs : charges'[j] = charges[j]
      BY <2>1 DEF CloseLedger, JobsClosed, Redeem, Credit!RedeemVoucher, Credit!orderVars, paidVars,
                  accountVars, historyVars
    <3>2. ASSUME NEW j \in Jobs  PROVE Reservation(j)' /\ Settlement(j)'
      BY <3>1 DEF PaidInv, WiringInv, Reservation, Settlement, Queued, vars, clientVars, handVars,
                  endVars
    <3>3. Shutdown' /\ faults' \in Nat /\ ledgerOpen' \in BOOLEAN
      <4>1. UNCHANGED <<closer, worker, closed, queue, faults>>
        BY <3>1 DEF vars, clientVars
      <4>2. ledgerOpen' \in BOOLEAN /\ (~ledgerOpen' => closer = "closed")
        <5>1. ledgerOpen \in BOOLEAN /\ (~ledgerOpen => closer = "closed")
          BY DEF PaidInv, WiringInv, Shutdown
        <5>2. CASE ledgerOpen' = ledgerOpen
          BY <5>1, <5>2
        <5>3. CASE ledgerOpen' = FALSE /\ closer = "closed"
          BY <5>3
        <5> QED  BY <3>1, <5>2, <5>3
      <4> QED  BY <4>1, <4>2 DEF PaidInv, WiringInv, Shutdown
    <3> QED  BY <3>2, <3>3 DEF WiringInv
  <2> QED  BY <2>1, WorkKept, ChargeKept, TellKept, RestartWired DEF PaidNext
<1> QED  BY <1>2, <1>3, <1>4 DEF PaidInv

LEMMA PaidInitial == PaidInit => PaidInv
<1> SUFFICES ASSUME PaidInit PROVE PaidInv
  OBVIOUS
<1>1. Init /\ Ledger!CreditInit
  BY SameService DEF PaidInit
<1>2. KnownInv
  BY <1>1, ManagerInit DEF KnownInv, Init, OutcomeInv, Told, Marked, DoneInv
<1>3. Ledger!LedgerInv
  BY <1>1, Ledger!LedgerInit, LedgerConstants
<1>4. \A j \in Jobs : charges[j].status = "none"
  BY <1>1 DEF Ledger!CreditInit, Ledger!NoCharge
<1>5. \A j \in Jobs : Reservation(j) /\ Settlement(j)
  BY <1>1, <1>4 DEF Init, PaidInit, Reservation, Settlement, Paying, Absent
<1> QED  BY <1>1, <1>2, <1>3, <1>5 DEF PaidInv, WiringInv, Shutdown, Init, PaidInit

-----------------------------------------------------------------------------
(* Theorems. *)

\* The whole of it holds of every behavior of the wired service.
THEOREM PaidInvariant == PaidSpec => []PaidInv
BY PaidInitial, PaidStep, PTL DEF PaidSpec

\* A job that waits or is being converted has its credit reserved.
THEOREM RunningJobsAreReserved == PaidSpec => []RunningIsReserved
<1>1. PaidInv => RunningIsReserved
  <2>1. ManagerInv => jobs \subseteq Jobs /\ \A j \in jobs : submit[j] = "accepted"
    BY DEF ManagerInv, TypeOK, Acceptance
  <2> QED  BY <2>1 DEF PaidInv, KnownInv, WiringInv, Reservation, RunningIsReserved
<1> QED  BY <1>1, PaidInvariant, PTL

\* When jobs.Close has returned and no transaction has failed, every accepted
\* job is settled: the worker has been through the queue, and each job was told
\* to billing before it was done.
THEOREM ShutdownSettlesCharges == PaidSpec => []ShutdownSettles
<1>1. ASSUME PaidInv, closer = "closed", faults = 0, NEW j \in Jobs, submit[j] = "accepted"
      PROVE  charges[j].status # "authorized"
  <2>1. worker = "exited" /\ queue = << >>
    BY <1>1 DEF PaidInv, WiringInv, Shutdown
  <2>2. j \in done
    BY <1>1, <2>1 DEF PaidInv, WiringInv, Settlement, Queued, Resting
  <2> QED  BY <1>1, <2>2, WiringAssumption
           DEF PaidInv, WiringInv, Settlement, KnownInv, DoneInv
<1>2. PaidInv => ShutdownSettles
  BY <1>1 DEF ShutdownSettles
<1> QED  BY <1>2, PaidInvariant, PTL

\* The job manager, its failures and its restarts move the wallets only by the
\* service's own transactions.
THEOREM WiredLedger == PaidSpec => Credit!CreditSpec
<1>1. PaidInit => Credit!CreditInit
  BY DEF PaidInit
<1>2. PaidInv /\ [PaidNext]_<<vars, paidVars>> => [Credit!CreditNext]_Credit!creditVars
  BY LedgerSteps DEF PaidInv, KnownInv, OutcomeInv
<1> QED  BY <1>1, <1>2, PaidInvariant, PTL DEF PaidSpec, Credit!CreditSpec

\* So every balance of the wired service is accounted for, across restarts.
THEOREM PaidBalances == PaidSpec => []Credit!BalanceIsAccounted
<1>1. PaidInv => Credit!BalanceIsAccounted
  BY DEF PaidInv, Ledger!LedgerInv, Ledger!BalanceIsAccounted, Credit!BalanceIsAccounted,
         Ledger!Cardinality, Credit!Cardinality, Ledger!PaidOrders, Credit!PaidOrders,
         Ledger!Redeemed, Credit!Redeemed, Ledger!Billed, Credit!Billed, Ledger!HasEntry, Credit!HasEntry
<1> QED  BY <1>1, PaidInvariant, PTL

-----------------------------------------------------------------------------
(* The promise to the wallets. *)

\* The phases are another name for the states of the charges.
LEMMA Phases ==
    ASSUME Ledger!LedgerInv
    PROVE  /\ CreditPhase \in [Jobs -> {"none", "reserved", "kept", "returned"}]
           /\ \A j \in Jobs : /\ CreditPhase[j] = "none" <=> charges[j].status = "none"
                              /\ CreditPhase[j] = "reserved" <=> charges[j].status = "authorized"
<1>1. \A s \in {"none", "authorized", "completed", "refunded"} :
         /\ PhaseNames[s] \in {"none", "reserved", "kept", "returned"}
         /\ PhaseNames[s] = "none" <=> s = "none"
         /\ PhaseNames[s] = "reserved" <=> s = "authorized"
  BY DEF PhaseNames
<1> QED  BY <1>1, ChargeFacts DEF CreditPhase

\* When one charge changes, its phase does.
LEMMA PhaseOfOne ==
    ASSUME Ledger!LedgerInv, NEW j \in Jobs, NEW s \in {"authorized", "completed", "refunded"},
           charges'[j].status = s, \A i \in Jobs \ {j} : charges'[i] = charges[i]
    PROVE  CreditPhase' = [CreditPhase EXCEPT ![j] = PhaseNames[s]]
BY DEF CreditPhase

LEMMA PromiseInitial == PaidInit => Promise!PromiseInit
<1> SUFFICES ASSUME PaidInit PROVE Promise!PromiseInit
  OBVIOUS
<1>1. balances = [a \in Accounts |-> 0] /\ charges = [j \in Jobs |-> Credit!NoCharge]
  BY DEF PaidInit, Credit!CreditInit
<1>2. CreditPhase = [j \in Jobs |-> "none"]
  BY <1>1 DEF CreditPhase, PhaseNames, Credit!NoCharge
<1> QED  BY <1>1, <1>2 DEF Promise!PromiseInit, PaidInit

LEMMA ChargePromised ==
    ASSUME PaidInv, NEW j \in Jobs, Charge(j)
    PROVE  [Promise!PromiseNext]_Promise!promiseVars
<1> Ledger!LedgerInv /\ WiringInv
  BY DEF PaidInv
<1>1. delivered' = delivered
  BY DEF Charge, Authorize, Watch, WiringInv, Reservation
<1>2. CASE /\ charges[j].status = "none" /\ balances[Owner[j]] > 0
           /\ charges' = [charges EXCEPT ![j] = [status |-> "authorized", account |-> Owner[j]]]
           /\ balances' = [balances EXCEPT ![Owner[j]] = @ - 1]
  <2>1. charges'[j].status = "authorized" /\ \A i \in Jobs \ {j} : charges'[i] = charges[i]
    BY <1>2, ChargeFacts
  <2>2. CreditPhase' = [CreditPhase EXCEPT ![j] = "reserved"]
    BY <2>1, PhaseOfOne DEF PhaseNames
  <2> QED  BY <1>1, <1>2, <2>2, Phases DEF Promise!PromiseNext, Promise!Reserve
<1>3. CASE UNCHANGED accountVars
  BY <1>1, <1>3 DEF accountVars, Promise!promiseVars, CreditPhase
<1> QED  BY <1>2, <1>3, Charging

LEMMA TellPromised ==
    ASSUME PaidInv, TellOutcome
    PROVE  [Promise!PromiseNext]_Promise!promiseVars
<1> ManagerInv /\ Marked /\ Ledger!LedgerInv /\ WiringInv
  BY DEF PaidInv, KnownInv, OutcomeInv
<1>1. PICK j \in Jobs, status \in Terminal :
        /\ Tell(j, status) /\ UNCHANGED snap
        /\ \/ submit[j] = "aborting" /\ status = "failed"
           \/ submit[j] = "accepted" /\ status = snap[j].status
  BY Telling
<1>2. delivered' = delivered
  BY <1>1 DEF TellOutcome, Watch, WiringInv, Reservation
<1>3. charges[j].status = "authorized" => (j \in delivered <=> status = "succeeded")
  BY <1>1 DEF WiringInv, Reservation
<1>4. CASE UNCHANGED accountVars
  BY <1>2, <1>4 DEF accountVars, Promise!promiseVars, CreditPhase
<1>5. CASE /\ charges[j].status = "authorized" /\ status = "succeeded"
           /\ charges' = [charges EXCEPT ![j].status = "completed"]
           /\ UNCHANGED balances
  <2>1. charges'[j].status = "completed" /\ \A i \in Jobs \ {j} : charges'[i] = charges[i]
    BY <1>5, ChargeFacts
  <2>2. CreditPhase' = [CreditPhase EXCEPT ![j] = "kept"]
    BY <2>1, PhaseOfOne DEF PhaseNames
  <2> QED  BY <1>2, <1>3, <1>5, <2>2, Phases DEF Promise!PromiseNext, Promise!Keep
<1>6. CASE /\ charges[j].status = "authorized" /\ status # "succeeded"
           /\ charges' = [charges EXCEPT ![j].status = "refunded"]
           /\ balances' = [balances EXCEPT ![Owner[j]] = @ + 1]
  <2>1. charges'[j].status = "refunded" /\ \A i \in Jobs \ {j} : charges'[i] = charges[i]
    BY <1>6, ChargeFacts
  <2>2. CreditPhase' = [CreditPhase EXCEPT ![j] = "returned"]
    BY <2>1, PhaseOfOne DEF PhaseNames
  <2> QED  BY <1>2, <1>3, <1>6, <2>2, Phases DEF Promise!PromiseNext, Promise!GiveBack
<1> QED  BY <1>1, <1>4, <1>5, <1>6, Settling

LEMMA WorkPromised ==
    ASSUME PaidInv, Work
    PROVE  [Promise!PromiseNext]_Promise!promiseVars
<1> KnownInv /\ Ledger!LedgerInv /\ WiringInv
  BY DEF PaidInv
<1>1. /\ UNCHANGED <<balances, charges, CreditPhase>>
      /\ delivered' = delivered \cup {j \in Jobs : snap'[j].status = "succeeded"}
  BY DEF Work, Watch, accountVars, CreditPhase
<1>2. CASE delivered' = delivered
  BY <1>1, <1>2 DEF Promise!promiseVars
<1>3. CASE delivered' # delivered
  <2>1. PICK j \in Jobs : snap'[j].status = "succeeded" /\ j \notin delivered
    BY <1>1, <1>3
  <2>2. \A i \in Jobs : snap'[i].status = "succeeded" /\ i \notin delivered =>
            i = current /\ snap[i].status = "processing" /\ submit[i] = "accepted"
    BY WorkSnapshots DEF WiringInv, Reservation
  <2>3. delivered' = delivered \cup {j}
    BY <1>1, <2>1, <2>2
  <2>4. charges[j].status = "authorized"
    BY <2>1, <2>2 DEF WiringInv, Reservation
  <2> QED  BY <1>1, <2>3, <2>4, Phases DEF Promise!PromiseNext, Promise!Produce
<1> QED  BY <1>2, <1>3

LEMMA RestartPromised ==
    ASSUME PaidInv, Restart
    PROVE  Promise!Crash
<1> Ledger!LedgerInv /\ WiringInv
  BY DEF PaidInv
<1> DEFINE open == {j \in Jobs : Credit!Interrupted(charges[j])}
           due == {j \in open : ~Credit!HasEntry(<<"refund", j>>)}
<1>1. due = open /\ open = Promise!Reserved
  BY ChargeFacts, Phases DEF Credit!Interrupted, Credit!HasEntry, Promise!Reserved
<1>2. \A a \in Accounts : {j \in due : charges[j].account = a}
                          = {j \in Promise!Reserved : Owner[j] = a}
  BY <1>1 DEF Credit!Interrupted, WiringInv, Reservation
<1>3. \A S : Credit!Cardinality(S) = Promise!Cardinality(S)
  BY DEF Credit!Cardinality, Promise!Cardinality
<1>4. balances' = [a \in Accounts |->
          balances[a] + Promise!Cardinality({j \in Promise!Reserved : Owner[j] = a})]
  <2>1. balances' = [a \in Accounts |->
            balances[a] + Credit!Cardinality({j \in due : charges[j].account = a})]
    BY DEF Restart, Credit!RestartService, Credit!Reconcile
  <2> HIDE DEF due
  <2> QED  BY <1>2, <1>3, <2>1
<1>5. CreditPhase' = [j \in Jobs |-> IF j \in Promise!Reserved THEN "returned" ELSE CreditPhase[j]]
  <2>1. \A j \in Jobs : charges'[j] = IF j \in open THEN [charges[j] EXCEPT !.status = "refunded"]
                                                    ELSE charges[j]
    BY DEF Restart, Credit!RestartService, Credit!Reconcile
  <2>2. \A j \in Jobs : charges'[j].status = IF j \in Promise!Reserved THEN "refunded"
                                                                     ELSE charges[j].status
    BY <1>1, <2>1, ChargeFacts
  <2> QED  BY <2>2 DEF CreditPhase, PhaseNames
<1> QED  BY <1>4, <1>5 DEF Promise!Crash, Restart

\* A wallet pays for the EPUBs it gets and for nothing else, but for those whose
\* outcome a restart found unrecorded: uploads, the worker, cancels, timers,
\* shutdown, failing transactions and restarts together make no step that
\* PrepaidConversions does not allow.
THEOREM KeepsPromise == PaidSpec => ImplementsPromise
<1>1. ASSUME PaidInv, [PaidNext]_<<vars, paidVars>>
      PROVE  [Promise!PromiseNext]_Promise!promiseVars
  <2>1. ASSUME NEW a \in Accounts, NEW v \in Vouchers, Redeem(a, v)
        PROVE  Promise!TopUp(a)
    BY <2>1 DEF Redeem, Credit!RedeemVoucher, Credit!AddEntry, historyVars, Promise!TopUp,
                CreditPhase
  <2>2. CASE CloseLedger \/ UNCHANGED <<vars, paidVars>>
    BY <2>2 DEF CloseLedger, paidVars, accountVars, historyVars, Promise!promiseVars, CreditPhase
  <2> QED  BY <1>1, <2>1, <2>2, ChargePromised, TellPromised, WorkPromised, RestartPromised
           DEF PaidNext, Promise!PromiseNext
<1> QED  BY <1>1, PromiseInitial, PaidInvariant, PTL
         DEF PaidSpec, ImplementsPromise, Promise!PromiseSpec
=============================================================================
