------------------------------ MODULE UploadGate ------------------------------
(***************************************************************************)
(* The way of an upload through httpapi in public mode: a solved challenge  *)
(* is exchanged for a ticket, the ticket and a credit for a job.  A request *)
(* is a handler that stops at each lock it takes and each time it reads the *)
(* clock: between two of these, other requests come in and time goes by.    *)
(*                                                                         *)
(* The manager and the ledger, modelled in PaidJobs, are one step here: a   *)
(* submission is accepted and charged, or refused without a change.  Left   *)
(* out: sessions, request limits, parsing, Turnstile (a call without local  *)
(* state), and what the checkout and the redemption do with the ledger.      *)
(***************************************************************************)
EXTENDS Integers, FiniteSets

CONSTANTS
    Requests,
    Subjects,       \* owners of sessions
    NoSubject,
    Challenges,     \* ALTCHA challenges, told apart by their signatures
    NoChallenge,
    Tickets,        \* random tokens
    NoTicket,
    ChallengeTTL,
    TicketTTL,
    Credits,        \* the balance a subject starts with
    MaxTime         \* bound on the clock

ASSUME GateAssumption ==
    /\ NoSubject \notin Subjects /\ NoChallenge \notin Challenges /\ NoTicket \notin Tickets
    /\ ChallengeTTL \in Nat \ {0} /\ TicketTTL \in Nat \ {0}
    /\ Credits \in Nat /\ MaxTime \in Nat \ {0}
    /\ IsFiniteSet(Requests) /\ IsFiniteSet(Tickets)

VARIABLES
    clock,
    request,    \* request -> where its handler is, and what it holds
    expires,    \* challenge -> its time of expiry, 0 before it is issued
    used,       \* the challenges remembered as used
    tickets,    \* token -> [owner, expires], Undrawn or Spent
    balance,
    accepts,    \* history: challenge -> how often it was accepted
    earned,     \* history: subject -> the challenges accepted from it
    uploads     \* history: subject -> the uploads it was let through with

gateVars == <<clock, request, expires, used, tickets, balance, accepts, earned, uploads>>

Idle == [place |-> "idle", subject |-> NoSubject, challenge |-> NoChallenge,
         ticket |-> NoTicket, now |-> 0]

\* A token nobody drew, and one that was deleted.
Undrawn == [owner |-> NoSubject, expires |-> 0]
Spent == [owner |-> NoSubject, expires |-> 1]

GateInit ==
    /\ clock = 1
    /\ request = [r \in Requests |-> Idle]
    /\ expires = [c \in Challenges |-> 0]
    /\ used = {}
    /\ tickets = [t \in Tickets |-> Undrawn]
    /\ balance = [s \in Subjects |-> Credits]
    /\ accepts = [c \in Challenges |-> 0]
    /\ earned = [s \in Subjects |-> 0]
    /\ uploads = [s \in Subjects |-> 0]

Tick ==
    /\ clock < MaxTime
    /\ clock' = clock + 1
    /\ UNCHANGED <<request, expires, used, tickets, balance, accepts, earned, uploads>>

At(r, place) == request[r].place = place

Move(r, place) == request' = [request EXCEPT ![r].place = place]

Answer(r) == request' = [request EXCEPT ![r] = Idle]

-----------------------------------------------------------------------------
(* Challenges. *)

\* Issue keeps nothing: the challenge carries its own expiry and signature.
IssueChallenge(c) ==
    /\ expires[c] = 0
    /\ expires' = [expires EXCEPT ![c] = clock + ChallengeTTL]
    /\ UNCHANGED <<clock, request, used, tickets, balance, accepts, earned, uploads>>

\* handleUploadTicket calls Verify; VerifySolution of the library accepts a
\* solved payload before its challenge expires, and looks at its own clock.
VerifySolution(r, s, c) ==
    /\ At(r, "idle")
    /\ expires[c] # 0 /\ clock < expires[c]
    /\ request' = [request EXCEPT ![r] =
           [Idle EXCEPT !.place = "solved", !.subject = s, !.challenge = c]]
    /\ UNCHANGED <<clock, expires, used, tickets, balance, accepts, earned, uploads>>

\* Verify reads its clock, again before the lock.
ReadClock(r) ==
    /\ At(r, "solved")
    /\ request' = [request EXCEPT ![r].place = "timed", ![r].now = clock]
    /\ UNCHANGED <<clock, expires, used, tickets, balance, accepts, earned, uploads>>

\* Mutated form: what is remembered is forgotten a unit of time too early.
StillUsedTooShort(now) == {c \in used : now + 1 < expires[c]}

\* Used challenges are forgotten once they have expired.
StillUsed(now) == {c \in used : now < expires[c]}

\* The locked part of Verify: a used challenge is rejected with the request.
MarkUsed(r) ==
    LET c == request[r].challenge
        kept == StillUsed(request[r].now) IN
    /\ At(r, "timed")
    /\ \/ /\ c \in kept
          /\ used' = kept
          /\ Answer(r)
          /\ UNCHANGED <<accepts, earned>>
       \/ /\ c \notin kept
          /\ used' = kept \cup {c}
          /\ Move(r, "accepted")
          /\ accepts' = [accepts EXCEPT ![c] = @ + 1]
          /\ earned' = [earned EXCEPT ![request[r].subject] = @ + 1]
    /\ UNCHANGED <<clock, expires, tickets, balance, uploads>>

-----------------------------------------------------------------------------
(* Tickets. *)

\* cleanupLocked.
LiveTickets ==
    [t \in Tickets |-> IF tickets[t].owner # NoSubject /\ clock >= tickets[t].expires
                       THEN Spent ELSE tickets[t]]

\* Issue, for the subject of the session; the answer ends the request.
IssueTicket(r, t) ==
    /\ At(r, "accepted")
    /\ tickets[t] = Undrawn
    /\ tickets' = [LiveTickets EXCEPT ![t] =
           [owner |-> request[r].subject, expires |-> clock + TicketTTL]]
    /\ Answer(r)
    /\ UNCHANGED <<clock, expires, used, balance, accepts, earned, uploads>>

\* handleCheckout and handleRedeem spend the acceptance on a call of the ledger.
SpendOnLedger(r) ==
    /\ At(r, "accepted")
    /\ Answer(r)
    /\ UNCHANGED <<clock, expires, used, tickets, balance, accepts, earned, uploads>>

\* handleCreateJob looks at the balance before anything else.
LookAtBalance(r, s, t) ==
    /\ At(r, "idle")
    /\ balance[s] >= 1
    /\ tickets[t] # Undrawn
    /\ request' = [request EXCEPT ![r] =
           [Idle EXCEPT !.place = "looked", !.subject = s, !.ticket = t]]
    /\ UNCHANGED <<clock, expires, used, tickets, balance, accepts, earned, uploads>>

\* Mutated form: the ticket stays.
WithoutKept(table, t) == table

Without(table, t) ==
    [table EXCEPT ![t] = IF table[t].owner # NoSubject THEN Spent ELSE @]

\* Consume: the ticket is gone whether or not it is the subject's.
Consume(r) ==
    LET t == request[r].ticket
        s == request[r].subject IN
    /\ At(r, "looked")
    /\ tickets' = Without(LiveTickets, t)
    /\ \/ /\ LiveTickets[t].owner = s
          /\ Move(r, "admitted")
          /\ uploads' = [uploads EXCEPT ![s] = @ + 1]
       \/ /\ LiveTickets[t].owner # s
          /\ Answer(r)
          /\ UNCHANGED uploads
    /\ UNCHANGED <<clock, expires, used, balance, accepts, earned>>

\* Mutated form: the look at the balance is taken on trust.
CoveredByLook(s) == TRUE

\* SubmitFor has the ledger look again when it takes the credit.
CoveredNow(s) == balance[s] >= 1

\* The body is read and submitted, or the request fails: a body that is not a
\* PDF, a full queue, a credit that another upload took since the look.
Submit(r) ==
    LET s == request[r].subject IN
    /\ At(r, "admitted")
    /\ \/ UNCHANGED balance
       \/ CoveredNow(s) /\ balance' = [balance EXCEPT ![s] = @ - 1]
    /\ Answer(r)
    /\ UNCHANGED <<clock, expires, used, tickets, accepts, earned, uploads>>

-----------------------------------------------------------------------------
GateNext ==
    \/ Tick
    \/ \E c \in Challenges : IssueChallenge(c)
    \/ \E r \in Requests :
          \/ \E s \in Subjects :
                \/ \E c \in Challenges : VerifySolution(r, s, c)
                \/ \E t \in Tickets : LookAtBalance(r, s, t)
          \/ ReadClock(r)
          \/ MarkUsed(r)
          \/ \E t \in Tickets : IssueTicket(r, t)
          \/ SpendOnLedger(r)
          \/ Consume(r)
          \/ Submit(r)

GateSpec == GateInit /\ [][GateNext]_gateVars

-----------------------------------------------------------------------------
(* Properties. *)

\* The variables range over what the program can put into them; in particular
\* no balance falls below zero between the look at it and the charge.
GateTypeOK ==
    /\ clock \in 1..MaxTime
    /\ \A r \in Requests :
          /\ request[r].place \in {"idle", "solved", "timed", "accepted", "looked", "admitted"}
          /\ request[r].subject \in Subjects \cup {NoSubject}
          /\ request[r].challenge \in Challenges \cup {NoChallenge}
          /\ request[r].ticket \in Tickets \cup {NoTicket}
          /\ request[r].now \in 0..MaxTime
    /\ expires \in [Challenges -> 0..(MaxTime + ChallengeTTL)]
    /\ used \subseteq Challenges
    /\ tickets \in [Tickets -> [owner : Subjects \cup {NoSubject},
                                expires : 0..(MaxTime + TicketTTL)]]
    /\ balance \in [Subjects -> 0..Credits]

\* A challenge is accepted once while it is valid, whatever the order in which
\* requests verify it, read the clock and take the lock.  (Two requests that
\* verified it in time may both be accepted if one of them reads the clock
\* after the expiry: by then the first is forgotten.)
AcceptedOnceWhileValid ==
    [][\A c \in Challenges :
           accepts'[c] # accepts[c] /\ accepts[c] > 0 => clock >= expires[c]]_gateVars

\* Each acceptance of a challenge gives its subject one upload at most: as a
\* ticket about to be issued, one that lies in the table, or one used up.  It
\* cannot be used twice by requests that race for it, nor by another subject.
UploadsAreEarned ==
    \A s \in Subjects :
        uploads[s] + Cardinality({t \in Tickets : tickets[t].owner = s})
                   + Cardinality({r \in Requests : At(r, "accepted") /\ request[r].subject = s})
            <= earned[s]
=============================================================================
