----------------------------- MODULE UploadProofs -----------------------------
(***************************************************************************)
(* Theorems about the two ends of an upload, the gate that lets it through   *)
(* and the page that sends it, for any requests, subjects, challenges,       *)
(* tickets and lifetimes.  A challenge is accepted once while it is valid:   *)
(* an accepted challenge is remembered, and what a request forgets had       *)
(* expired by its own clock, which is never ahead of the others'.            *)
(* Every upload was earned: an acceptance is handed on from the request to    *)
(* the ticket and from the ticket to the upload, and never copied.           *)
(* The page can cancel the upload it sends, whatever became of earlier ones.  *)
(***************************************************************************)
EXTENDS UploadGate, WebClient, FiniteSetTheorems, TLAPS

-----------------------------------------------------------------------------
(* Requests, the clock and challenges. *)

Places == {"idle", "solved", "timed", "accepted", "looked", "admitted"}

RequestRecords ==
    [place : Places, subject : Subjects \cup {NoSubject},
     challenge : Challenges \cup {NoChallenge}, ticket : Tickets \cup {NoTicket}, now : Nat]

\* A request that verified a challenge has one that was issued; one that is
\* under way has a subject, and a ticket if it is an upload.
RequestInv(time, issuance, q) ==
    /\ q.place \in {"solved", "timed", "accepted"} =>
          q.challenge \in Challenges /\ issuance[q.challenge] # 0
    /\ q.place # "idle" => q.subject \in Subjects
    /\ q.place \in {"looked", "admitted"} => q.ticket \in Tickets
    /\ q.now <= time

AcceptsInv ==
    \A c \in Challenges :
        accepts[c] > 0 => expires[c] # 0 /\ (c \in used \/ clock >= expires[c])

GateInv ==
    /\ clock \in 1..MaxTime
    /\ request \in [Requests -> RequestRecords]
    /\ expires \in [Challenges -> 0..(MaxTime + ChallengeTTL)]
    /\ accepts \in [Challenges -> Nat]
    /\ \A r \in Requests : RequestInv(clock, expires, request[r])
    /\ AcceptsInv

LEMMA GateInitial == GateInit => GateInv
BY GateAssumption DEF GateInit, GateInv, RequestRecords, Places, RequestInv, AcceptsInv, Idle

\* A step that leaves challenges and clock alone, and sets one request.
LEMMA RequestStep ==
    ASSUME GateInv, NEW r \in Requests, NEW q \in RequestRecords,
           RequestInv(clock, expires, q), request' = [request EXCEPT ![r] = q],
           UNCHANGED <<clock, expires, used, accepts>>
    PROVE  GateInv'
<1>1. request' \in [Requests -> RequestRecords]
  BY DEF GateInv
<1>2. \A o \in Requests : RequestInv(clock, expires, request'[o])
  BY DEF GateInv
<1>3. \A o \in Requests : RequestInv(clock', expires', request'[o])
  BY <1>2
<1>4. AcceptsInv'
  BY DEF GateInv, AcceptsInv
<1> QED  BY <1>1, <1>3, <1>4 DEF GateInv

LEMMA IdleSound == ASSUME GateInv PROVE Idle \in RequestRecords /\ RequestInv(clock, expires, Idle)
BY DEF GateInv, Idle, RequestRecords, Places, RequestInv

\* A request goes to a place, and keeps what it holds.
LEMMA MovedSound ==
    ASSUME GateInv, NEW r \in Requests, NEW place \in Places,
           place \in {"solved", "timed", "accepted"} =>
               request[r].place \in {"solved", "timed", "accepted"},
           place \in {"looked", "admitted"} => request[r].place \in {"looked", "admitted"},
           request[r].place # "idle"
    PROVE  LET q == [request[r] EXCEPT !.place = place] IN
           q \in RequestRecords /\ RequestInv(clock, expires, q)
<1> DEFINE o == request[r]
           q == [o EXCEPT !.place = place]
<1>1. o \in RequestRecords /\ RequestInv(clock, expires, o)
  BY DEF GateInv
<1>2. /\ q \in RequestRecords /\ q.place = place /\ q.challenge = o.challenge
      /\ q.subject = o.subject /\ q.now = o.now
      /\ q.ticket = o.ticket
  BY <1>1 DEF RequestRecords
<1> HIDE DEF q, o
<1>3. RequestInv(clock, expires, q)
  BY <1>1, <1>2 DEF RequestInv, o
<1> QED  BY <1>2, <1>3 DEF q, o

LEMMA MarkStep ==
    ASSUME GateInv, NEW r \in Requests, MarkUsed(r)
    PROVE  GateInv'
<1> DEFINE c == request[r].challenge
           s == request[r].subject
           now == request[r].now
<1>1. /\ request[r].place = "timed" /\ UNCHANGED <<clock, expires>>
      /\ \/ /\ c \in StillUsed(now) /\ used' = StillUsed(now)
            /\ request' = [request EXCEPT ![r] = Idle] /\ UNCHANGED accepts
         \/ /\ c \notin StillUsed(now) /\ used' = StillUsed(now) \cup {c}
            /\ request' = [request EXCEPT ![r].place = "accepted"]
            /\ accepts' = [accepts EXCEPT ![c] = @ + 1]
  BY DEF MarkUsed, At, Answer, Move
<1>2. /\ request[r] \in RequestRecords /\ RequestInv(clock, expires, request[r])
      /\ request \in [Requests -> RequestRecords]
  BY DEF GateInv
<1>3. c \in Challenges /\ s \in Subjects /\ expires[c] # 0 /\ now \in Nat /\ now <= clock
  BY <1>1, <1>2 DEF RequestInv, RequestRecords
<1>4. \E q \in RequestRecords :
          RequestInv(clock, expires, q) /\ request' = [request EXCEPT ![r] = q]
  <2>1. CASE request' = [request EXCEPT ![r] = Idle]
    BY <2>1, IdleSound
  <2>2. CASE request' = [request EXCEPT ![r].place = "accepted"]
    <3> DEFINE q == [request[r] EXCEPT !.place = "accepted"]
    <3>1. q \in RequestRecords /\ RequestInv(clock, expires, q)
      BY <1>1, MovedSound DEF Places
    <3>2. request' = [request EXCEPT ![r] = q]
      BY <1>2, <2>2
    <3> QED  BY <3>1, <3>2
  <2> QED  BY <1>1, <2>1, <2>2
<1>5. request' \in [Requests -> RequestRecords]
      /\ \A o \in Requests : RequestInv(clock', expires', request'[o])
  <2>1. \A o \in Requests : RequestInv(clock, expires, request'[o])
    BY <1>2, <1>4 DEF GateInv
  <2> QED  BY <1>1, <1>2, <1>4, <2>1
<1>6. accepts' \in [Challenges -> Nat]
  BY <1>1, <1>3 DEF GateInv
<1>7. AcceptsInv'
  <2> SUFFICES ASSUME NEW d \in Challenges, accepts'[d] > 0
               PROVE  expires[d] # 0 /\ (d \in used' \/ clock >= expires[d])
    BY <1>1 DEF AcceptsInv
  <2>1. CASE accepts[d] > 0
    <3>1. expires[d] # 0 /\ (d \in used \/ clock >= expires[d])
      BY <2>1 DEF GateInv, AcceptsInv
    <3>2. d \in used => d \in used' \/ now >= expires[d]
      BY <1>1, <1>3 DEF StillUsed, GateInv
    <3> QED  BY <1>3, <3>1, <3>2 DEF GateInv
  <2>2. CASE ~(accepts[d] > 0)
    <3>1. d = c
      BY <1>1, <1>3, <2>2 DEF GateInv
    <3>2. c \in used'
      BY <1>1, <2>2
    <3> QED  BY <1>3, <3>1, <3>2
  <2> QED  BY <2>1, <2>2
<1> QED  BY <1>1, <1>5, <1>6, <1>7 DEF GateInv

LEMMA GateStep == GateInv /\ [GateNext]_gateVars => GateInv'
<1> SUFFICES ASSUME GateInv, [GateNext]_gateVars PROVE GateInv'
  OBVIOUS
<1>1. CASE Tick
  <2>1. clock' = clock + 1 /\ clock' \in 1..MaxTime
        /\ UNCHANGED <<request, expires, used, accepts>>
    BY <1>1, GateAssumption DEF Tick, GateInv
  <2>2. AcceptsInv'
    BY <2>1, GateAssumption DEF GateInv, AcceptsInv
  <2>3. ASSUME NEW r \in Requests  PROVE RequestInv(clock', expires', request'[r])
    BY <2>1, GateAssumption DEF GateInv, RequestInv, RequestRecords
  <2> QED  BY <2>1, <2>2, <2>3 DEF GateInv
<1>2. ASSUME NEW c \in Challenges, IssueChallenge(c)
      PROVE  GateInv'
  <2>1. /\ expires[c] = 0 /\ expires' = [expires EXCEPT ![c] = clock + ChallengeTTL]
        /\ UNCHANGED <<clock, request, used, accepts>>
    BY <1>2 DEF IssueChallenge
  <2>2. expires' \in [Challenges -> 0..(MaxTime + ChallengeTTL)] /\ expires'[c] # 0
    BY <2>1, GateAssumption DEF GateInv
  <2>3. ASSUME NEW r \in Requests PROVE RequestInv(clock', expires', request'[r])
    BY <2>1, <2>2 DEF GateInv, RequestInv
  <2>4. AcceptsInv'
    BY <2>1 DEF GateInv, AcceptsInv
  <2> QED  BY <2>1, <2>2, <2>3, <2>4 DEF GateInv
<1>3. ASSUME NEW r \in Requests, NEW s \in Subjects, NEW c \in Challenges, VerifySolution(r, s, c)
      PROVE  GateInv'
  <2> DEFINE q == [Idle EXCEPT !.place = "solved", !.subject = s, !.challenge = c]
  <2>1. q \in RequestRecords /\ q.place = "solved" /\ q.subject = s /\ q.challenge = c /\ q.now = 0
    BY DEF Idle, RequestRecords, Places
  <2>2. RequestInv(clock, expires, q)
    BY <1>3, <2>1 DEF RequestInv, VerifySolution, GateInv
  <2> QED  BY <1>3, <2>1, <2>2, RequestStep DEF VerifySolution
<1>4. ASSUME NEW r \in Requests, ReadClock(r)
      PROVE  GateInv'
  <2> DEFINE o == request[r]
             q == [o EXCEPT !.place = "timed", !.now = clock]
  <2>1. o \in RequestRecords /\ RequestInv(clock, expires, o) /\ o.place = "solved" /\ clock \in Nat
    BY <1>4 DEF GateInv, ReadClock, At
  <2>2. /\ q \in RequestRecords /\ q.place = "timed" /\ q.challenge = o.challenge
        /\ q.subject = o.subject /\ q.now = clock
        /\ q.ticket = o.ticket
    BY <2>1 DEF RequestRecords, Places
  <2>3. request' = [request EXCEPT ![r] = q]
    BY <1>4 DEF ReadClock, GateInv
  <2> HIDE DEF q, o
  <2>4. RequestInv(clock, expires, q)
    BY <2>1, <2>2 DEF RequestInv
  <2> QED  BY <1>4, <2>2, <2>3, <2>4, RequestStep DEF ReadClock
<1>5. ASSUME NEW r \in Requests, request' = [request EXCEPT ![r] = Idle],
             UNCHANGED <<clock, expires, used, accepts>>
      PROVE  GateInv'
  BY <1>5, IdleSound, RequestStep
<1>6. ASSUME NEW r \in Requests, NEW s \in Subjects, NEW t \in Tickets, LookAtBalance(r, s, t)
      PROVE  GateInv'
  <2> DEFINE q == [Idle EXCEPT !.place = "looked", !.subject = s, !.ticket = t]
  <2>1. q \in RequestRecords /\ q.place = "looked" /\ q.now = 0
    BY DEF Idle, RequestRecords, Places
  <2>2. RequestInv(clock, expires, q)
    BY <2>1 DEF RequestInv, GateInv
  <2> QED  BY <1>6, <2>1, <2>2, RequestStep DEF LookAtBalance
<1>7. ASSUME NEW r \in Requests, Consume(r)
      PROVE  GateInv'
  <2>1. CASE request' = [request EXCEPT ![r].place = "admitted"]
    <3> DEFINE q == [request[r] EXCEPT !.place = "admitted"]
    <3>1. q \in RequestRecords /\ RequestInv(clock, expires, q)
      BY <1>7, MovedSound DEF Places, Consume, At
    <3>2. request' = [request EXCEPT ![r] = q]
      BY <2>1 DEF GateInv
    <3> QED  BY <1>7, <3>1, <3>2, RequestStep DEF Consume
  <2> QED  BY <1>5, <1>7, <2>1 DEF Consume, Answer, Move
<1>8. CASE UNCHANGED gateVars
  BY <1>8 DEF gateVars, GateInv, RequestInv, AcceptsInv
<1>9. ASSUME NEW r \in Requests, \/ \E t \in Tickets : IssueTicket(r, t)
                                 \/ SpendOnLedger(r) \/ Submit(r)
      PROVE  GateInv'
  BY <1>5, <1>9 DEF IssueTicket, SpendOnLedger, Submit, Answer
<1> QED  BY <1>1, <1>2, <1>3, <1>4, <1>6, <1>7, <1>8, <1>9, MarkStep DEF GateNext

\* The invariant is inductive.
THEOREM GateInvariant == GateSpec => []GateInv
BY GateInitial, GateStep, PTL DEF GateSpec

\* Whatever the order in which requests verify a challenge, read the clock and
\* take the lock, a second acceptance comes after the expiry.
THEOREM ChallengesAcceptedOnce == GateSpec => AcceptedOnceWhileValid
<1> DEFINE Once ==
    \A c \in Challenges :
        accepts'[c] # accepts[c] /\ accepts[c] > 0 => clock >= expires[c]
<1>1. ASSUME GateInv, NEW c \in Challenges, NEW r \in Requests, MarkUsed(r),
             accepts'[c] # accepts[c], accepts[c] > 0
      PROVE  clock >= expires[c]
  <2> DEFINE now == request[r].now
  <2>1. /\ request[r].place = "timed" /\ accepts \in [Challenges -> Nat]
        /\ now \in Nat /\ now <= clock /\ clock \in Nat /\ expires[c] \in Nat
    BY <1>1 DEF MarkUsed, At, GateInv, RequestInv, RequestRecords
  <2>2. c = request[r].challenge /\ c \notin StillUsed(now)
    BY <1>1, <2>1 DEF MarkUsed
  <2>3. c \in used \/ clock >= expires[c]
    BY <1>1 DEF GateInv, AcceptsInv
  <2> QED  BY <2>1, <2>2, <2>3 DEF StillUsed
<1>2. GateInv /\ [GateNext]_gateVars => Once
  <2> SUFFICES ASSUME GateInv, [GateNext]_gateVars, NEW c \in Challenges, accepts'[c] # accepts[c],
                      accepts[c] > 0
               PROVE  clock >= expires[c]
    OBVIOUS
  <2>1. \E r \in Requests : MarkUsed(r)
    BY DEF GateNext, gateVars, Tick, IssueChallenge, VerifySolution, ReadClock, IssueTicket,
           SpendOnLedger, LookAtBalance, Consume, Submit
  <2> QED  BY <1>1, <2>1
<1> HIDE DEF Once
<1>3. GateSpec => [][Once]_gateVars
  BY <1>2, GateInvariant, PTL DEF GateSpec
<1> QED  BY <1>3 DEF Once, AcceptedOnceWhileValid

-----------------------------------------------------------------------------
(* Tickets, balances and uploads. *)

TicketRecords == [owner : Subjects \cup {NoSubject}, expires : 0..(MaxTime + TicketTTL)]

\* The tickets of a subject, and its requests that are about to draw one.
Held(s) == {t \in Tickets : tickets[t].owner = s}
Drawing(s) == {r \in Requests : At(r, "accepted") /\ request[r].subject = s}

EarnedInv ==
    /\ used \subseteq Challenges
    /\ tickets \in [Tickets -> TicketRecords]
    /\ balance \in [Subjects -> 0..Credits]
    /\ uploads \in [Subjects -> Nat] /\ earned \in [Subjects -> Nat]
    /\ UploadsAreEarned

\* The sets that UploadsAreEarned counts are finite.
LEMMA Countable ==
    ASSUME NEW s
    PROVE  /\ IsFiniteSet(Held(s)) /\ IsFiniteSet(Drawing(s))
           /\ Cardinality(Held(s)) \in Nat /\ Cardinality(Drawing(s)) \in Nat
BY FS_Subset, FS_CardinalityType, GateAssumption DEF Held, Drawing

\* Neither tickets nor requests that draw one become more, nor are uploads let
\* through: nothing more is to be earned.
LEMMA NothingMore ==
    ASSUME EarnedInv, NEW s \in Subjects, UNCHANGED <<uploads, earned>>,
           Held(s)' \subseteq Held(s), Drawing(s)' \subseteq Drawing(s)
    PROVE  uploads'[s] + Cardinality(Held(s)') + Cardinality(Drawing(s)') <= earned'[s]
<1>1. uploads[s] + Cardinality(Held(s)) + Cardinality(Drawing(s)) <= earned[s]
      /\ uploads[s] \in Nat /\ earned[s] \in Nat
  BY DEF EarnedInv, UploadsAreEarned, Held, Drawing
<1>2. /\ Cardinality(Held(s)') <= Cardinality(Held(s)) /\ Cardinality(Held(s)') \in Nat
      /\ Cardinality(Drawing(s)') <= Cardinality(Drawing(s)) /\ Cardinality(Drawing(s)') \in Nat
  BY Countable, FS_Subset, FS_CardinalityType
<1> QED  BY <1>1, <1>2, Countable

\* A request that goes anywhere but to the ticket table does not draw.
LEMMA DrawingMoved ==
    ASSUME GateInv, NEW r \in Requests, NEW q \in RequestRecords,
           request' = [request EXCEPT ![r] = q]
    PROVE  \A s \in Subjects :
               Drawing(s)' = IF q.place = "accepted" /\ q.subject = s
                             THEN Drawing(s) \cup {r} ELSE Drawing(s) \ {r}
<1>1. \A o \in Requests : request'[o] = IF o = r THEN q ELSE request[o]
  BY DEF GateInv
<1> QED  BY <1>1 DEF Drawing, At

\* cleanupLocked takes tickets away and gives none.
LEMMA Cleaned ==
    ASSUME EarnedInv
    PROVE  /\ LiveTickets \in [Tickets -> TicketRecords]
           /\ \A t \in Tickets : LiveTickets[t].owner # NoSubject => LiveTickets[t] = tickets[t]
<1>1. Spent \in TicketRecords /\ Spent.owner = NoSubject
  BY GateAssumption DEF Spent, TicketRecords
<1> QED  BY <1>1 DEF EarnedInv, LiveTickets

\* Besides the counts, the records stay what they are.
LEMMA EarnedStep ==
    ASSUME GateInv, EarnedInv, [GateNext]_gateVars
    PROVE  EarnedInv'
<1> /\ clock \in 1..MaxTime /\ request \in [Requests -> RequestRecords]
    /\ used \subseteq Challenges /\ tickets \in [Tickets -> TicketRecords]
    /\ balance \in [Subjects -> 0..Credits]
    /\ uploads \in [Subjects -> Nat] /\ earned \in [Subjects -> Nat]
  BY DEF GateInv, EarnedInv
<1>1. UploadsAreEarned' <=> \A s \in Subjects :
          uploads'[s] + Cardinality(Held(s)') + Cardinality(Drawing(s)') <= earned'[s]
  BY DEF UploadsAreEarned, Held, Drawing
<1>2. CASE UNCHANGED <<request, used, tickets, balance, earned, uploads>>
  <2>1. \A s \in Subjects : Held(s)' = Held(s) /\ Drawing(s)' = Drawing(s)
    BY <1>2 DEF Held, Drawing, At
  <2> QED  BY <1>1, <1>2, <2>1, NothingMore DEF EarnedInv
<1>3. ASSUME NEW r \in Requests, NEW q \in RequestRecords, q.place # "accepted",
             request' = [request EXCEPT ![r] = q],
             used' \subseteq Challenges, UNCHANGED <<tickets, balance, earned, uploads>>
      PROVE  EarnedInv'
  <2>1. \A s \in Subjects : Held(s)' = Held(s) /\ Drawing(s)' \subseteq Drawing(s)
    BY <1>3, DrawingMoved DEF Held
  <2> QED  BY <1>1, <1>3, <2>1, NothingMore DEF EarnedInv
<1>4. Idle \in RequestRecords /\ Idle.place # "accepted"
  BY IdleSound DEF Idle
<1>5. ASSUME NEW r \in Requests, NEW s \in Subjects, NEW c \in Challenges, VerifySolution(r, s, c)
      PROVE  EarnedInv'
  <2> DEFINE q == [Idle EXCEPT !.place = "solved", !.subject = s, !.challenge = c]
  <2>1. q \in RequestRecords /\ q.place = "solved"
    BY DEF Idle, RequestRecords, Places
  <2> QED  BY <1>3, <1>5, <2>1 DEF VerifySolution
<1>6. ASSUME NEW r \in Requests, NEW s \in Subjects, NEW t \in Tickets, LookAtBalance(r, s, t)
      PROVE  EarnedInv'
  <2> DEFINE q == [Idle EXCEPT !.place = "looked", !.subject = s, !.ticket = t]
  <2>1. q \in RequestRecords /\ q.place = "looked"
    BY DEF Idle, RequestRecords, Places
  <2> QED  BY <1>3, <1>6, <2>1 DEF LookAtBalance
<1>7. ASSUME NEW r \in Requests, ReadClock(r)
      PROVE  EarnedInv'
  <2> DEFINE q == [request[r] EXCEPT !.place = "timed", !.now = clock]
  <2>1. q \in RequestRecords /\ q.place = "timed"
    <3>1. request[r] \in RequestRecords /\ clock \in Nat
      OBVIOUS
    <3> QED  BY <3>1 DEF RequestRecords, Places
  <2>2. request' = [request EXCEPT ![r] = q]
    BY <1>7 DEF ReadClock
  <2> QED  BY <1>3, <1>7, <2>1, <2>2 DEF ReadClock
<1>8. ASSUME NEW r \in Requests, MarkUsed(r)
      PROVE  EarnedInv'
  <2> DEFINE c == request[r].challenge
             kept == StillUsed(request[r].now)
  <2>1. /\ request[r] \in RequestRecords /\ request[r].place = "timed"
        /\ c \in Challenges /\ request[r].subject \in Subjects /\ kept \subseteq Challenges
    BY <1>8 DEF MarkUsed, At, GateInv, RequestInv, StillUsed
  <2>0. PICK s \in Subjects : s = request[r].subject
    BY <2>1
  <2>2. CASE used' = kept /\ Answer(r) /\ UNCHANGED earned
    BY <1>3, <1>4, <1>8, <2>1, <2>2 DEF MarkUsed, Answer
  <2>3. CASE used' = kept \cup {c} /\ Move(r, "accepted") /\ earned' = [earned EXCEPT ![s] = @ + 1]
    <3>1. PICK q \in RequestRecords : q = [request[r] EXCEPT !.place = "accepted"]
      BY <2>1 DEF RequestRecords, Places
    <3>2. /\ request' = [request EXCEPT ![r] = q]
          /\ q.place = "accepted" /\ q.subject = s
      BY <2>0, <2>1, <2>3, <3>1 DEF Move, RequestRecords
    <3>3. UNCHANGED <<tickets, balance, uploads>>
      BY <1>8 DEF MarkUsed
    <3>4. r \notin Drawing(s)
      BY <2>1 DEF Drawing, At
    <3>5. ASSUME NEW o \in Subjects
          PROVE  uploads'[o] + Cardinality(Held(o)') + Cardinality(Drawing(o)') <= earned'[o]
      <4>1. Held(o)' = Held(o)
        BY <3>3 DEF Held
      <4>2. uploads[o] + Cardinality(Held(o)) + Cardinality(Drawing(o)) <= earned[o]
            /\ uploads[o] \in Nat /\ earned[o] \in Nat
        BY DEF EarnedInv, UploadsAreEarned, Held, Drawing
      <4>3. CASE o = s
        <5>1. Drawing(s)' = Drawing(s) \cup {r} /\ earned'[s] = earned[s] + 1
          BY <2>3, <3>2, DrawingMoved
        <5>2. Cardinality(Drawing(s) \cup {r}) = Cardinality(Drawing(s)) + 1
          BY <3>4, Countable, FS_AddElement
        <5> QED  BY <3>3, <4>1, <4>2, <4>3, <5>1, <5>2, Countable
      <4>4. CASE o # s
        <5>1. Drawing(o)' \subseteq Drawing(o)
          <6>1. Drawing(o)' = Drawing(o) \ {r}
            BY <3>2, <4>4, DrawingMoved
          <6> QED  BY <6>1
        <5>2. Cardinality(Drawing(o)') <= Cardinality(Drawing(o)) /\ Cardinality(Drawing(o)') \in Nat
          BY <5>1, Countable, FS_Subset, FS_CardinalityType
        <5>3. earned'[o] = earned[o]
          BY <2>3, <4>4
        <5> QED  BY <3>3, <4>1, <4>2, <5>2, <5>3, Countable
      <4> QED  BY <4>3, <4>4
    <3>6. earned' \in [Subjects -> Nat] /\ used' \subseteq Challenges
      BY <2>1, <2>3
    <3> QED  BY <1>1, <3>3, <3>5, <3>6 DEF EarnedInv
  <2> QED  BY <1>8, <2>0, <2>2, <2>3 DEF MarkUsed
<1>9. ASSUME NEW r \in Requests, NEW t \in Tickets, IssueTicket(r, t)
      PROVE  EarnedInv'
  <2>0. PICK s \in Subjects : s = request[r].subject
    BY <1>9 DEF IssueTicket, At, GateInv, RequestInv
  <2> DEFINE ticket == [owner |-> s, expires |-> clock + TicketTTL]
  <2>1. /\ request[r].place = "accepted" /\ tickets[t].owner = NoSubject
        /\ tickets' = [LiveTickets EXCEPT ![t] = ticket]
        /\ request' = [request EXCEPT ![r] = Idle]
        /\ UNCHANGED <<used, balance, earned, uploads>>
    BY <1>9, <2>0 DEF IssueTicket, At, Answer, Undrawn
  <2>2. ticket \in TicketRecords
    BY <2>1, GateAssumption DEF TicketRecords
  <2>3. tickets' \in [Tickets -> TicketRecords]
    BY <2>1, <2>2, Cleaned
  <2>4. \A o \in Tickets : tickets'[o] = IF o = t THEN ticket ELSE LiveTickets[o]
    BY <2>1, Cleaned
  <2>5. \A o \in Subjects : Drawing(o)' = Drawing(o) \ {r}
    BY <1>4, <2>1, DrawingMoved
  <2>6. ASSUME NEW o \in Subjects
        PROVE  uploads'[o] + Cardinality(Held(o)') + Cardinality(Drawing(o)') <= earned'[o]
    <3>1. uploads[o] + Cardinality(Held(o)) + Cardinality(Drawing(o)) <= earned[o]
          /\ uploads[o] \in Nat /\ earned[o] \in Nat
      BY DEF EarnedInv, UploadsAreEarned, Held, Drawing
    <3>2. CASE o = s
      <4>1. Held(s)' \subseteq Held(s) \cup {t} /\ t \notin Held(s)
        BY <2>1, <2>4, Cleaned, GateAssumption DEF Held
      <4>2. Cardinality(Held(s) \cup {t}) = Cardinality(Held(s)) + 1 /\ IsFiniteSet(Held(s) \cup {t})
        BY <4>1, Countable, FS_AddElement
      <4>3. Cardinality(Held(s)') <= Cardinality(Held(s)) + 1 /\ Cardinality(Held(s)') \in Nat
        BY <4>1, <4>2, FS_Subset, FS_CardinalityType
      <4>4. r \in Drawing(s)
        BY <2>0, <2>1 DEF Drawing, At
      <4>5. Cardinality(Drawing(s) \ {r}) = Cardinality(Drawing(s)) - 1
        BY <4>4, Countable, FS_RemoveElement
      <4>6. Cardinality(Drawing(s)') = Cardinality(Drawing(s)) - 1
        BY <2>5, <4>5
      <4> QED  BY <2>1, <3>1, <3>2, <4>3, <4>6, Countable
    <3>3. CASE o # s
      <4>1. Held(o)' \subseteq Held(o)
        BY <2>1, <2>4, <3>3, Cleaned, GateAssumption DEF Held
      <4> QED  BY <2>1, <2>5, <4>1, NothingMore
    <3> QED  BY <3>2, <3>3
  <2> QED  BY <1>1, <2>1, <2>3, <2>6 DEF EarnedInv
<1>10. ASSUME NEW r \in Requests, SpendOnLedger(r)
       PROVE  EarnedInv'
  BY <1>3, <1>4, <1>10 DEF SpendOnLedger, Answer
<1>11. ASSUME NEW r \in Requests, Consume(r)
       PROVE  EarnedInv'
  <2>0. PICK t \in Tickets, s \in Subjects : t = request[r].ticket /\ s = request[r].subject
    BY <1>11 DEF Consume, At, GateInv, RequestInv
  <2>1. request[r] \in RequestRecords
    OBVIOUS
  <2>2. /\ tickets' \in [Tickets -> TicketRecords]
        /\ \A o \in Tickets : tickets'[o].owner # NoSubject => o # t /\ tickets'[o] = tickets[o]
    <3>1. Spent \in TicketRecords /\ Spent.owner = NoSubject
      BY GateAssumption DEF Spent, TicketRecords
    <3>2. tickets' = [LiveTickets EXCEPT ![t] = IF LiveTickets[t].owner # NoSubject
                                                THEN Spent ELSE LiveTickets[t]]
      BY <1>11, <2>0, Cleaned DEF Consume, Without
    <3>3. \A o \in Tickets : tickets'[o] = IF o = t /\ LiveTickets[t].owner # NoSubject
                                          THEN Spent ELSE LiveTickets[o]
      BY <3>2, Cleaned
    <3> QED  BY <3>1, <3>2, <3>3, Cleaned
  <2>3. \A o \in Subjects : Held(o)' \subseteq Held(o) \ {t}
    BY <2>2, GateAssumption DEF Held
  <2>4. \A o \in Subjects : Drawing(o)' \subseteq Drawing(o)
    <3>1. CASE Answer(r)
      BY <1>4, <3>1, DrawingMoved DEF Answer
    <3>2. CASE Move(r, "admitted")
      <4>1. PICK q \in RequestRecords : q = [request[r] EXCEPT !.place = "admitted"]
        BY <2>1 DEF RequestRecords, Places
      <4>2. request' = [request EXCEPT ![r] = q] /\ q.place = "admitted"
        BY <2>1, <3>2, <4>1 DEF Move, RequestRecords
      <4>3. \A o \in Subjects : Drawing(o)' = Drawing(o) \ {r}
        BY <4>2, DrawingMoved
      <4> QED  BY <4>3
    <3> QED  BY <1>11, <3>1, <3>2 DEF Consume
  <2>5. UNCHANGED <<used, balance, earned>>
    BY <1>11 DEF Consume
  <2>6. CASE UNCHANGED uploads
    <3>1. \A o \in Subjects : Held(o)' \subseteq Held(o)
      BY <2>3
    <3> QED  BY <1>1, <2>2, <2>4, <2>5, <2>6, <3>1, NothingMore DEF EarnedInv
  <2>7. CASE LiveTickets[t].owner = s /\ uploads' = [uploads EXCEPT ![s] = @ + 1]
    <3>1. t \in Held(s)
      BY <2>7, Cleaned, GateAssumption DEF Held
    <3>2. ASSUME NEW o \in Subjects
          PROVE  uploads'[o] + Cardinality(Held(o)') + Cardinality(Drawing(o)') <= earned'[o]
      <4>1. uploads[o] + Cardinality(Held(o)) + Cardinality(Drawing(o)) <= earned[o]
            /\ uploads[o] \in Nat /\ earned[o] \in Nat
        BY DEF EarnedInv, UploadsAreEarned, Held, Drawing
      <4>2. /\ Cardinality(Drawing(o)') <= Cardinality(Drawing(o)) /\ Cardinality(Drawing(o)') \in Nat
            /\ IsFiniteSet(Held(o) \ {t})
        BY <2>4, Countable, FS_Subset, FS_CardinalityType
      <4>3. /\ Cardinality(Held(o)') <= Cardinality(Held(o) \ {t})
            /\ Cardinality(Held(o)') \in Nat /\ Cardinality(Held(o) \ {t}) \in Nat
        BY <2>3, <4>2, FS_Subset, FS_CardinalityType
      <4>4. CASE o = s
        <5>1. Cardinality(Held(s) \ {t}) = Cardinality(Held(s)) - 1
          BY <3>1, Countable, FS_RemoveElement
        <5>2. uploads'[s] = uploads[s] + 1
          BY <2>7
        <5> QED  BY <2>5, <4>1, <4>2, <4>3, <4>4, <5>1, <5>2, Countable
      <4>5. CASE o # s
        <5>1. Cardinality(Held(o) \ {t}) <= Cardinality(Held(o))
          BY Countable, FS_Subset
        <5>2. uploads'[o] = uploads[o]
          BY <2>7, <4>5
        <5> QED  BY <2>5, <4>1, <4>2, <4>3, <5>1, <5>2, Countable
      <4> QED  BY <4>4, <4>5
    <3>3. uploads' \in [Subjects -> Nat]
      BY <2>7
    <3> QED  BY <1>1, <2>2, <2>5, <3>2, <3>3 DEF EarnedInv
  <2> QED  BY <1>11, <2>0, <2>6, <2>7 DEF Consume
<1>12. ASSUME NEW r \in Requests, Submit(r)
       PROVE  EarnedInv'
  <2>1. request' = [request EXCEPT ![r] = Idle] /\ UNCHANGED <<used, tickets, earned, uploads>>
    BY <1>12 DEF Submit, Answer
  <2>2. request[r].subject \in Subjects
    BY <1>12 DEF Submit, At, GateInv, RequestInv
  <2>3. balance' \in [Subjects -> 0..Credits]
    BY <1>12, <2>2, GateAssumption DEF Submit, CoveredNow
  <2>4. \A s \in Subjects : Held(s)' = Held(s) /\ Drawing(s)' \subseteq Drawing(s)
    BY <1>4, <2>1, DrawingMoved DEF Held
  <2> QED  BY <1>1, <2>1, <2>3, <2>4, NothingMore DEF EarnedInv
<1>13. CASE Tick \/ UNCHANGED gateVars \/ \E c \in Challenges : IssueChallenge(c)
  BY <1>2, <1>13 DEF Tick, gateVars, IssueChallenge
<1> QED  BY <1>5, <1>6, <1>7, <1>8, <1>9, <1>10, <1>11, <1>12, <1>13 DEF GateNext

LEMMA EarnedInitial == GateInit => EarnedInv
<1> SUFFICES ASSUME GateInit PROVE EarnedInv
  OBVIOUS
<1>1. Undrawn \in TicketRecords /\ Undrawn.owner = NoSubject
  BY GateAssumption DEF Undrawn, TicketRecords
<1>2. \A s \in Subjects : Held(s) = {} /\ Drawing(s) = {}
  BY <1>1, GateAssumption DEF GateInit, Held, Drawing, At, Idle
<1>3. UploadsAreEarned
  <2>1. UploadsAreEarned <=> \A s \in Subjects :
            uploads[s] + Cardinality(Held(s)) + Cardinality(Drawing(s)) <= earned[s]
    BY DEF UploadsAreEarned, Held, Drawing
  <2>2. \A s \in Subjects : uploads[s] = 0 /\ earned[s] = 0
    BY DEF GateInit
  <2> QED  BY <1>2, <2>1, <2>2, FS_EmptySet
<1> QED  BY <1>1, <1>3, GateAssumption DEF EarnedInv, GateInit

\* The invariant that counts tickets, uploads and acceptances is inductive.
THEOREM EarnedInvariant == GateSpec => [](GateInv /\ EarnedInv)
BY GateInitial, GateStep, EarnedInitial, EarnedStep, PTL DEF GateSpec

\* No balance falls below zero between the look at it and the charge, and
\* clocks, challenges and tickets stay what they are said to be.
THEOREM GateTypeCorrect == GateSpec => []GateTypeOK
<1>1. GateInv /\ EarnedInv => GateTypeOK
  BY GateAssumption
  DEF GateInv, EarnedInv, GateTypeOK, RequestRecords, RequestInv, Places, TicketRecords
<1> QED  BY <1>1, EarnedInvariant, PTL

\* Requests that race for a challenge or a ticket, of one subject or of two,
\* are let through with no more uploads than challenges were accepted from
\* their subject.
THEOREM UploadsEarned == GateSpec => []UploadsAreEarned
<1>1. EarnedInv => UploadsAreEarned
  BY DEF EarnedInv
<1> QED  BY <1>1, EarnedInvariant, PTL

-----------------------------------------------------------------------------
(* The page that sends the upload. *)

ServerStates == {"absent", "running", "ended"}

PollRecords ==
    [job : Jobs \cup {NoJob}, answer : ServerStates \cup {"none"}, enables : BOOLEAN]

\* Where submissions may be, that the one whose request is named is being sent,
\* that only accepted ones are jobs to ask for, and that whoever waits for an
\* upload is in the workspace.
PageInv ==
    /\ workspace \in BOOLEAN
    /\ submission \in [Jobs -> {"unsent", "ticket", "sending", "accepted", "over"}]
    /\ \A j \in Jobs : submission[j] \in {"ticket", "sending"} => workspace
    /\ lastSent \in Jobs \cup {NoJob} /\ uploadRequest \in Jobs \cup {NoJob}
    /\ uploadRequest # NoJob => submission[uploadRequest] = "sending"
    /\ jobId \in Jobs \cup {NoJob} /\ (jobId # NoJob => submission[jobId] = "accepted")
    /\ server \in [Jobs -> ServerStates]
    /\ poll \in [Polls -> PollRecords]
    /\ \A p \in Polls : poll[p].job # NoJob => submission[poll[p].job] = "accepted"

\* The panel is open and the button enabled as long as the last upload is sent.
ButtonInv ==
    /\ button \in [hidden : BOOLEAN, disabled : BOOLEAN]
    /\ lastSent # NoJob /\ submission[lastSent] = "sending" =>
          panel.shows # "hidden" /\ ~button.disabled

SendingInv == PageInv /\ ButtonInv /\ CancelReachesUpload

\* What PollJob asks for, and that it asks only for accepted jobs.
LEMMA PollsAccepted ==
    ASSUME NEW j \in Jobs \cup {NoJob}, NEW inFlight \in [Polls -> PollRecords],
           NEW enables \in BOOLEAN, NEW accepted,
           PollJob(j, inFlight, enables), j # NoJob => j \in accepted,
           \A p \in Polls : inFlight[p].job # NoJob => inFlight[p].job \in accepted
    PROVE  /\ poll' \in [Polls -> PollRecords]
           /\ \A p \in Polls : poll'[p].job # NoJob => poll'[p].job \in accepted
<1> DEFINE Asked == [job |-> j, answer |-> "none", enables |-> enables]
<1>1. Asked \in PollRecords /\ Asked.job = j
  BY DEF PollRecords
<1>2. CASE j = NoJob
  BY <1>2 DEF PollJob
<1>3. CASE j # NoJob
  <2>1. PICK p \in Polls : poll' = [inFlight EXCEPT ![p] = Asked]
    BY <1>3 DEF PollJob
  <2> HIDE DEF Asked
  <2> QED  BY <2>1, <1>1
<1> QED  BY <1>2, <1>3

Accepted == {j \in Jobs : submission[j] = "accepted"}

LEMMA PageStep == PageInv /\ [WebNext]_webVars => PageInv'
<1> SUFFICES ASSUME PageInv, [WebNext]_webVars PROVE PageInv'
  OBVIOUS
<1> USE WebAssumption DEF PageInv
<1>1. UNCHANGED <<workspace, submission, lastSent, uploadRequest, jobId, server, poll>> => PageInv'
  OBVIOUS
<1>2. ASSUME NEW j \in Jobs, SubmitForm(j) PROVE PageInv'
  BY <1>2 DEF SubmitForm
<1>3. ASSUME NEW j \in Jobs, SendFile(j) PROVE PageInv'
  BY <1>3 DEF SendFile
<1>4. ASSUME NEW j \in Jobs, UploadAccepted(j) PROVE PageInv'
  <2>1. /\ submission' = [submission EXCEPT ![j] = "accepted"] /\ submission[j] = "sending"
        /\ uploadRequest' = IF uploadRequest = j THEN NoJob ELSE uploadRequest
        /\ jobId' = j /\ PollJob(j, poll, FALSE)
        /\ UNCHANGED <<lastSent, workspace, server>>
    BY <1>4 DEF UploadAccepted, RequestEnds
  <2>2. /\ poll' \in [Polls -> PollRecords]
        /\ \A p \in Polls : poll'[p].job # NoJob => poll'[p].job \in Accepted'
    <3>1. Accepted' = Accepted \cup {j}
      BY <2>1 DEF Accepted
    <3>2. \A p \in Polls : poll[p].job # NoJob => poll[p].job \in Accepted'
      BY <3>1 DEF Accepted, PollRecords
    <3> QED  BY <2>1, <3>1, <3>2, PollsAccepted
  <2> QED  BY <2>1, <2>2 DEF Accepted
<1>5. ASSUME NEW j \in Jobs, UploadFails(j) PROVE PageInv'
  <2>1. /\ submission' = [submission EXCEPT ![j] = "over"]
        /\ submission[j] \in {"ticket", "sending"}
        /\ uploadRequest' = IF uploadRequest = j THEN NoJob ELSE uploadRequest
        /\ UNCHANGED <<workspace, lastSent, jobId, server, poll>>
    BY <1>5 DEF UploadFails, RequestEnds
  <2> QED  BY <2>1 DEF PollRecords
<1>6. CASE AbortUpload
  <2>1. /\ submission' = [submission EXCEPT ![uploadRequest] = "over"]
        /\ uploadRequest \in Jobs /\ submission[uploadRequest] = "sending"
        /\ uploadRequest' = NoJob
        /\ UNCHANGED <<workspace, lastSent, jobId, server, poll>>
    BY <1>6 DEF AbortUpload
  <2> QED  BY <2>1 DEF PollRecords
<1>7. CASE Reload
  <2> DEFINE None == [p \in Polls |-> NoPoll]
             asked == IF workspace' THEN jobId' ELSE NoJob
  <2>1. /\ workspace' \in BOOLEAN /\ jobId' \in {jobId, NoJob}
        /\ uploadRequest' = NoJob /\ UNCHANGED <<lastSent, server>>
        /\ submission' = [j \in Jobs |-> IF submission[j] \in {"ticket", "sending"}
                                         THEN "over" ELSE submission[j]]
        /\ PollJob(asked, None, FALSE)
    BY <1>7 DEF Reload
  <2>2. None \in [Polls -> PollRecords] /\ \A p \in Polls : None[p].job = NoJob
    BY DEF NoPoll, PollRecords
  <2>3. asked \in Jobs \cup {NoJob} /\ (asked # NoJob => asked \in Accepted)
    BY <2>1 DEF Accepted
  <2> HIDE DEF None, asked
  <2>4. /\ poll' \in [Polls -> PollRecords]
        /\ \A p \in Polls : poll'[p].job # NoJob => poll'[p].job \in Accepted
    BY <2>1, <2>2, <2>3, PollsAccepted
  <2> QED  BY <2>1, <2>4 DEF Accepted
<1>8. ASSUME NEW p \in Polls, AnswerPoll(p) PROVE PageInv'
  <2>1. /\ poll' = [poll EXCEPT ![p].answer = server[poll[p].job]]
        /\ poll[p].job # NoJob
        /\ UNCHANGED <<workspace, submission, lastSent, uploadRequest, jobId, server>>
    BY <1>8 DEF AnswerPoll
  <2>2. server[poll[p].job] \in ServerStates
    BY <2>1 DEF PollRecords
  <2> QED  BY <2>1, <2>2 DEF PollRecords
<1>9. ASSUME NEW p \in Polls, PollArrives(p) \/ PollFails(p) PROVE PageInv'
  <2>1. /\ poll' = [poll EXCEPT ![p] = NoPoll] /\ jobId' \in {jobId, NoJob}
        /\ UNCHANGED <<workspace, submission, lastSent, uploadRequest, server>>
    BY <1>9 DEF PollArrives, PollFails
  <2>2. NoPoll \in PollRecords /\ NoPoll.job = NoJob
    BY DEF NoPoll, PollRecords
  <2> QED  BY <2>1, <2>2
<1>10. CASE TimerFires \/ Login \/ CancelAnswered
  <2>1. /\ UNCHANGED <<submission, lastSent, uploadRequest, jobId>>
        /\ workspace' \in BOOLEAN /\ (workspace => workspace')
        /\ server' \in [Jobs -> ServerStates]
    BY <1>10 DEF TimerFires, Login, CancelAnswered, ServerStates
  <2>2. poll' = poll \/ \E enables \in BOOLEAN : PollJob(jobId, poll, enables)
    BY <1>10 DEF TimerFires, Login, CancelAnswered
  <2>3. /\ poll' \in [Polls -> PollRecords]
        /\ \A p \in Polls : poll'[p].job # NoJob => poll'[p].job \in Accepted
    <3>1. jobId # NoJob => jobId \in Accepted
      BY DEF Accepted
    <3>2. \A p \in Polls : poll[p].job # NoJob => poll[p].job \in Accepted
      BY DEF Accepted, PollRecords
    <3> QED  BY <2>2, <3>1, <3>2, PollsAccepted
  <2> QED  BY <2>1, <2>3 DEF Accepted
<1>11. ASSUME NEW j \in Jobs, CreateJob(j) \/ EndJob(j) PROVE PageInv'
  <2>1. /\ server' \in [Jobs -> ServerStates]
        /\ UNCHANGED <<workspace, submission, lastSent, uploadRequest, jobId, poll>>
    BY <1>11 DEF CreateJob, EndJob, ServerStates
  <2> QED  BY <2>1
<1>12. ASSUME NEW j \in Jobs, ReceiveBody(j) \/ UploadProgress(j) PROVE PageInv'
  BY <1>1, <1>12 DEF ReceiveBody, UploadProgress
<1>13. CASE ClickCancel \/ UNCHANGED webVars
  BY <1>1, <1>13 DEF ClickCancel, webVars
<1> QED  BY <1>2, <1>3, <1>4, <1>5, <1>6, <1>7, <1>8, <1>9, <1>10, <1>11, <1>12, <1>13 DEF WebNext

\* Whatever hides the button says on the panel whose end it was.
LEMMA ButtonStep ==
    SendingInv /\ PageInv' /\ [WebNext]_webVars => ButtonInv' /\ CancelReachesUpload'
<1> SUFFICES ASSUME SendingInv, PageInv', [WebNext]_webVars
             PROVE  ButtonInv' /\ CancelReachesUpload'
  OBVIOUS
<1> USE WebAssumption DEF SendingInv, PageInv, ButtonInv, CancelReachesUpload, CancelUsable, Button, Panel
<1>1. UNCHANGED <<workspace, submission, lastSent, uploadRequest, panel, button>>
      => ButtonInv' /\ CancelReachesUpload'
  OBVIOUS
<1>2. ASSUME NEW j \in Jobs, SubmitForm(j) PROVE ButtonInv' /\ CancelReachesUpload'
  BY <1>2 DEF SubmitForm
<1>3. ASSUME NEW j \in Jobs, SendFile(j) PROVE ButtonInv' /\ CancelReachesUpload'
  BY <1>3 DEF SendFile
<1>4. ASSUME NEW j \in Jobs, UploadProgress(j) PROVE ButtonInv' /\ CancelReachesUpload'
  BY <1>4 DEF UploadProgress
<1>5. ASSUME NEW j \in Jobs, UploadAccepted(j) PROVE ButtonInv' /\ CancelReachesUpload'
  \* A request that ends resets uploadRequest only if it is the one named.
  <2>1. /\ submission' = [submission EXCEPT ![j] = "accepted"]
        /\ uploadRequest' = IF uploadRequest = j THEN NoJob ELSE uploadRequest
        /\ panel' = Panel(j, "running") /\ button' = [button EXCEPT !.hidden = FALSE]
        /\ UNCHANGED <<workspace, lastSent>>
    BY <1>5 DEF UploadAccepted, RequestEnds
  <2> QED  BY <2>1
<1>6. ASSUME NEW j \in Jobs, UploadFails(j) PROVE ButtonInv' /\ CancelReachesUpload'
  <2>1. /\ submission' = [submission EXCEPT ![j] = "over"]
        /\ uploadRequest' = IF uploadRequest = j THEN NoJob ELSE uploadRequest
        /\ panel' = Panel(j, "upload failed") /\ button' = [button EXCEPT !.hidden = TRUE]
        /\ UNCHANGED <<workspace, lastSent>>
    BY <1>6 DEF UploadFails, RequestEnds
  <2> QED  BY <2>1
<1>7. CASE AbortUpload
  BY <1>7 DEF AbortUpload
<1>8. CASE Reload
  BY <1>8 DEF Reload
<1>9. ASSUME NEW p \in Polls, PollArrives(p) PROVE ButtonInv' /\ CancelReachesUpload'
  <2> DEFINE ended == poll[p].answer = "ended"
  <2>1. /\ panel' = Panel(poll[p].job, poll[p].answer)
        /\ button' = Button(ended, DisabledAfter(p))
        /\ UNCHANGED <<workspace, submission, lastSent, uploadRequest>>
        /\ poll[p].answer # "none"
    BY <1>9 DEF PollArrives
  <2>2. poll[p] \in PollRecords
    OBVIOUS
  <2>3. poll[p].answer \in ServerStates /\ poll[p].job \in Jobs \cup {NoJob}
    BY <2>1, <2>2 DEF PollRecords
  <2>4. lastSent # NoJob /\ submission[lastSent] = "sending" => poll[p].job # lastSent
    OBVIOUS
  <2> QED  BY <2>1, <2>3, <2>4 DEF DisabledAfter, ServerStates
<1>10. ASSUME NEW p \in Polls, PollFails(p) PROVE ButtonInv' /\ CancelReachesUpload'
  <2>1. /\ button' = [button EXCEPT !.disabled = DisabledAfter(p)]
        /\ UNCHANGED <<workspace, submission, lastSent, uploadRequest, panel>>
    BY <1>10 DEF PollFails
  <2> QED  BY <2>1 DEF DisabledAfter
<1>11. CASE ClickCancel
  BY <1>11 DEF ClickCancel
<1>12. CASE CancelAnswered
  <2>1. /\ \/ button' = [button EXCEPT !.disabled = button.disabled /\ jobId # NoJob]
           \/ button' = [button EXCEPT !.disabled = FALSE]
        /\ UNCHANGED <<workspace, submission, lastSent, uploadRequest, panel>>
    BY <1>12 DEF CancelAnswered
  <2> QED  BY <2>1
<1>13. CASE Login
  <2>1. ~workspace /\ UNCHANGED <<submission, lastSent>> /\ button' = button
    BY <1>13 DEF Login
  <2> QED  BY <2>1
<1>14. ASSUME NEW j \in Jobs, ReceiveBody(j) \/ CreateJob(j) \/ EndJob(j)
       PROVE  ButtonInv' /\ CancelReachesUpload'
  BY <1>1, <1>14 DEF ReceiveBody, CreateJob, EndJob
<1>15. ASSUME NEW p \in Polls, AnswerPoll(p) PROVE ButtonInv' /\ CancelReachesUpload'
  BY <1>1, <1>15 DEF AnswerPoll
<1>16. CASE TimerFires \/ UNCHANGED webVars
  BY <1>1, <1>16 DEF TimerFires, webVars
<1> QED
  BY <1>2, <1>3, <1>4, <1>5, <1>6, <1>7, <1>8, <1>9, <1>10, <1>11, <1>12, <1>13, <1>14,
     <1>15, <1>16 DEF WebNext

\* Whatever earlier uploads, late answers and reloads come between, a press of
\* the cancel button reaches the upload that began last, as long as it goes on,
\* and no other one; and the button can be pressed unless the panel shows the end
\* of another job or upload, or the check before the next upload after such an end.
THEOREM CancelsReachUpload == WebSpec => []CancelReachesUpload
<1>1. WebInit => SendingInv
  BY WebAssumption
  DEF WebInit, SendingInv, PageInv, ButtonInv, CancelReachesUpload, ServerStates, PollRecords,
      NoPoll, Button
<1>2. SendingInv /\ [WebNext]_webVars => SendingInv'
  BY PageStep, ButtonStep DEF SendingInv
<1>3. SendingInv => CancelReachesUpload
  BY DEF SendingInv
<1> QED  BY <1>1, <1>2, <1>3, PTL DEF WebSpec
=============================================================================
