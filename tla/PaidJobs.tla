------------------------------- MODULE PaidJobs -------------------------------
(***************************************************************************)
(* The job manager wired to the credit ledger, as cmd/btc-server does in   *)
(* public mode: a submission charges a credit, the outcome of the job      *)
(* settles the charge.  The manager lives in memory and the ledger in a    *)
(* file; between the two a process may be shut down, in the order of the   *)
(* deferred calls of main, or stop anywhere and start again.  An error of  *)
(* the ledger when it is told an outcome is only logged.                   *)
(*                                                                         *)
(* JobManager is extended, with Public = TRUE; CreditLedger is used with   *)
(* the parts that concern jobs and vouchers, without orders.               *)
(***************************************************************************)
EXTENDS JobManager

CONSTANTS
    Accounts, NoAccount,
    Owner,           \* [Jobs -> Accounts]: whose session submits the job
    Vouchers,
    VoucherCredits,
    MaxRestarts,     \* bound on the number of restarts
    MaxFaults        \* bound on the transactions that fail

ASSUME WiringAssumption ==
    Public /\ HasStore /\ Owner \in [Jobs -> Accounts] /\ MaxRestarts \in Nat /\ MaxFaults \in Nat

\* What CreditLedger assumes of its constants, without orders.
ASSUME LedgerAssumption ==
    /\ NoAccount \notin Accounts
    /\ VoucherCredits \in Nat \ {0}
    /\ IsFiniteSet(Jobs) /\ IsFiniteSet(Vouchers)

VARIABLES
    balances, ledger, charges,
    orders, events, checkout, opened,   \* CreditLedger's, without any order
    ledgerOpen,    \* the database is open
    restarts, faults,
    delivered      \* history: jobs that have ever succeeded

Credit == INSTANCE CreditLedger WITH
    Orders <- {}, Sessions <- {}, Events <- {}, NoSession <- "none", NoOrder <- "none",
    PackCredits <- 1

accountVars == <<balances, ledger, charges, orders, events, checkout, opened>>
historyVars == <<restarts, faults, delivered>>
paidVars == <<accountVars, historyVars, ledgerOpen>>

PaidInit ==
    /\ Init
    /\ Credit!CreditInit
    /\ ledgerOpen = TRUE
    /\ restarts = 0
    /\ faults = 0
    /\ delivered = {}

\* What the job manager's own steps do to the history.
Watch ==
    /\ delivered' = delivered \cup {j \in Jobs : snap'[j].status = "succeeded"}
    /\ UNCHANGED <<restarts, ledgerOpen>>

\* External: a transaction of the database fails, on a full disk say.
Fault ==
    /\ ledgerOpen
    /\ faults < MaxFaults
    /\ faults' = faults + 1
    /\ UNCHANGED accountVars

\* AuthorizeJob charges the owner; without a credit, or with the database
\* closed or failing, the submission is refused and gives its slot back.
Charge(j) ==
    /\ Authorize(j)
    /\ \/ /\ submit'[j] = "authorized"
          /\ ledgerOpen
          /\ Credit!AuthorizeJob(Owner[j], j)
          /\ UNCHANGED faults
       \/ /\ submit'[j] = "releasing"
          /\ balances[Owner[j]] < 1 \/ ~ledgerOpen
          /\ UNCHANGED <<accountVars, faults>>
       \/ /\ submit'[j] = "releasing"
          /\ Fault
    /\ Watch

\* onJobOutcome: the ledger records the outcome, or the error is logged.
Tell(j, status) ==
    \/ /\ ledgerOpen
       /\ Credit!RecordJobOutcome(j, Owner[j], status)
       /\ UNCHANGED faults
    \/ /\ ~ledgerOpen
       /\ UNCHANGED <<accountVars, faults>>
    \/ Fault

\* The steps of the manager that call OnJobOutcome.
TellOutcome ==
    /\ \/ \E j \in Jobs : AbortSubmit(j) /\ Tell(j, "failed")
       \/ FinishNotify /\ Tell(current, snap[current].status)
       \/ \E c \in Cancelers : CancelNotify(c) /\ Tell(target[c], "canceled")
    /\ Watch

\* All other steps of the manager.
Work ==
    /\ \/ \E j \in Jobs :
             \/ BeginSubmit(j) \/ TakeSlot(j) \/ Stage(j) \/ Enqueue(j) \/ ReleaseSubmit(j)
             \/ TimerStep(j)
       \/ Dequeue \/ ExitWorker \/ CheckCanceled \/ Attach \/ StartJob \/ Report \/ Convert
       \/ AfterConvert \/ Publish \/ SucceedJob \/ Drop \/ Remove
       \/ FinishRelease \/ FinishSignal
       \/ \E c \in Cancelers :
             \/ \E j \in Jobs : CancelLookup(c, j)
             \/ CancelMark(c) \/ CancelReread(c) \/ CancelWait(c)
       \/ BeginClose
       \/ Sweep
    /\ Watch /\ UNCHANGED <<accountVars, faults>>

\* A voucher brings credits into a wallet.
Redeem(a, v) ==
    /\ ledgerOpen
    /\ Credit!RedeemVoucher(a, v)
    /\ UNCHANGED <<vars, ledgerOpen, historyVars>>

\* Mutated form: the deferred calls of main run in the other order.
JobsClosedIgnored == closed

\* jobs.Close has returned.
JobsClosed == closer = "closed"

\* billing.Close; requests that are still being served see errors from now on.
CloseLedger ==
    /\ JobsClosed
    /\ ledgerOpen
    /\ ledgerOpen' = FALSE
    /\ UNCHANGED <<vars, accountVars, historyVars>>

\* NewManager in a new process: nothing of the old memory or of the work
\* directory is left; the bucket keeps its objects, and no job refers to them.
RestartManager ==
    /\ snap' = [j \in Jobs |-> Absent]
    /\ submit' = [j \in Jobs |-> IF submit[j] \in {"idle", "checked"} THEN "idle" ELSE "rejected"]
    /\ slots' = 0 /\ queue' = << >> /\ closed' = FALSE /\ jobs' = {}
    /\ cancelFn' = [j \in Jobs |-> "nil"]
    /\ worker' = "idle" /\ current' = NoJob /\ product' = "none"
    /\ done' = {}
    /\ timer' = [j \in Jobs |-> "off"]
    /\ cancel' = [c \in Cancelers |-> "idle"]
    /\ target' = [c \in Cancelers |-> NoJob]
    /\ closer' = "running"
    /\ disk' = [j \in Jobs |-> {}]
    /\ bucket' = bucket /\ stray' = stray \cup bucket
    /\ outcomes' = [j \in Jobs |-> << >>]
    /\ acked' = {}

\* The process ends, by a crash at any point or after a shutdown, and another
\* one opens the ledger, reconciles the open charges and starts a manager.
Restart ==
    /\ restarts < MaxRestarts
    /\ restarts' = restarts + 1
    /\ RestartManager
    /\ Credit!RestartService
    /\ ledgerOpen' = TRUE
    /\ UNCHANGED <<faults, delivered>>

PaidNext ==
    \/ \E j \in Jobs : Charge(j)
    \/ TellOutcome
    \/ Work
    \/ \E a \in Accounts, v \in Vouchers : Redeem(a, v)
    \/ CloseLedger
    \/ Restart

PaidSpec == PaidInit /\ [][PaidNext]_<<vars, paidVars>>

-----------------------------------------------------------------------------
(* Properties. *)

\* A job that waits or is being converted has its credit reserved: no path
\* refunds a job that may still succeed, and none runs a job for nothing.
RunningIsReserved ==
    \A j \in jobs : snap[j].status \in {"queued", "processing"} =>
        charges[j].status = "authorized"

\* When jobs.Close has returned, every job that had been accepted is settled
\* in the ledger, unless the ledger failed; a charge is open only for an
\* upload that is still on its way out.
ShutdownSettles ==
    closer = "closed" /\ faults = 0 =>
        \A j \in Jobs : charges[j].status = "authorized" => submit[j] # "accepted"

\* How a wallet calls what the ledger says of a charge.
PhaseNames == [none |-> "none", authorized |-> "reserved",
               completed |-> "kept", refunded |-> "returned"]

CreditPhase == [j \in Jobs |-> PhaseNames[charges[j].status]]

Promise == INSTANCE PrepaidConversions WITH
    Price <- VoucherCredits,
    credits <- balances,
    phase <- CreditPhase,
    produced <- delivered

\* A wallet is charged for the EPUBs it gets and for nothing else, but for those
\* whose outcome a restart found unrecorded: the manager in memory and the ledger
\* in its file keep this promise across cancels, failing writes and shutdown.
ImplementsPromise == Promise!PromiseSpec
=============================================================================
