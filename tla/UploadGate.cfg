\* Two requests in flight, two subjects, two challenges, two tokens; challenges
\* live for two units of time and tickets for two, on a clock of four.
SPECIFICATION GateSpec
CONSTANTS
    Requests = {q1, q2}
    Subjects = {alice, bob}
    NoSubject = NoSubject
    Challenges = {c1, c2}
    NoChallenge = NoChallenge
    Tickets = {t1, t2}
    NoTicket = NoTicket
    ChallengeTTL = 2
    TicketTTL = 2
    Credits = 1
    MaxTime = 4
SYMMETRY GateSymmetry
CHECK_DEADLOCK FALSE
INVARIANTS
    GateTypeOK
    UploadsAreEarned
PROPERTIES
    AcceptedOnceWhileValid
