-------------------------- MODULE PrepaidConversions --------------------------
(***************************************************************************)
(* What public mode promises to a wallet.  A conversion reserves a credit  *)
(* before it begins; the credit is kept if the conversion produced an EPUB  *)
(* and given back if it did not; only a crash may give back the credit of  *)
(* one that did.  How uploads, the worker, cancels and shutdown bring this  *)
(* about, and what is in memory or in a file, is not said here.             *)
(***************************************************************************)
EXTENDS Integers, FiniteSets

CONSTANTS
    Jobs,
    Accounts,
    Owner,      \* job -> account
    Price       \* the credits a voucher adds to a wallet

VARIABLES
    credits,    \* account -> credits
    phase,      \* job -> what became of its credit
    produced    \* jobs with an EPUB

promiseVars == <<credits, phase, produced>>

Reserved == {j \in Jobs : phase[j] = "reserved"}

PromiseInit ==
    /\ credits = [a \in Accounts |-> 0]
    /\ phase = [j \in Jobs |-> "none"]
    /\ produced = {}

TopUp(a) ==
    /\ credits' = [credits EXCEPT ![a] = @ + Price]
    /\ UNCHANGED <<phase, produced>>

Reserve(j) ==
    /\ phase[j] = "none"
    /\ credits[Owner[j]] > 0
    /\ credits' = [credits EXCEPT ![Owner[j]] = @ - 1]
    /\ phase' = [phase EXCEPT ![j] = "reserved"]
    /\ UNCHANGED produced

\* An EPUB is made only at the cost of a credit that is still reserved.
Produce(j) ==
    /\ phase[j] = "reserved"
    /\ produced' = produced \cup {j}
    /\ UNCHANGED <<credits, phase>>

Keep(j) ==
    /\ phase[j] = "reserved" /\ j \in produced
    /\ phase' = [phase EXCEPT ![j] = "kept"]
    /\ UNCHANGED <<credits, produced>>

GiveBack(j) ==
    /\ phase[j] = "reserved" /\ j \notin produced
    /\ credits' = [credits EXCEPT ![Owner[j]] = @ + 1]
    /\ phase' = [phase EXCEPT ![j] = "returned"]
    /\ UNCHANGED produced

\* Nobody remembers which of the reserved conversions had produced an EPUB.
Crash ==
    /\ credits' = [a \in Accounts |-> credits[a] + Cardinality({j \in Reserved : Owner[j] = a})]
    /\ phase' = [j \in Jobs |-> IF j \in Reserved THEN "returned" ELSE phase[j]]
    /\ UNCHANGED produced

PromiseNext ==
    \/ \E a \in Accounts : TopUp(a)
    \/ \E j \in Jobs : Reserve(j) \/ Produce(j) \/ Keep(j) \/ GiveBack(j)
    \/ Crash

PromiseSpec == PromiseInit /\ [][PromiseNext]_promiseVars
=============================================================================
