-------------------------------- MODULE Access --------------------------------
(***************************************************************************)
(* Who a request acts for: pages (tabs) that share the cookie of their       *)
(* browser, the sessions of auth.Manager, and the redemption of codes, which  *)
(* may move a browser to another wallet.  A page knows a session by its CSRF  *)
(* token; requests overlap, answers are late, lost, or cut off after their    *)
(* headers, the server restarts, and sessions and codes expire.              *)
(*                                                                         *)
(* A session stands for its token and its CSRF token, which are drawn        *)
(* together.  A request for tickets, jobs or a checkout is one kind, "act":   *)
(* what it does is modelled elsewhere, here it matters for which wallet.      *)
(* The way to the server takes no time: what is late on it is as good as sent *)
(* late.  The way back does.  Left out: the request limits, challenges, and   *)
(* how many credits there are.                                              *)
(***************************************************************************)
EXTENDS Configuration, Sequences

CONSTANTS
    Pages,
    Browsers,
    Requests,        \* requests under way at the same time
    Vouchers,
    OfferedEnvironments,
    SessionTTL,
    VoucherTTL,
    MaxSessions,     \* bound on the sessions drawn
    MaxLogins,       \* bound on those of the private mode
    MaxTime,         \* bound on the clock
    MaxStarts,       \* bound on the starts of the server
    MaxLoads         \* bound on the loads of pages

ASSUME AccessAssumption ==
    /\ SessionTTL \in Nat \ {0} /\ VoucherTTL \in Nat \ {0}
    /\ {MaxSessions, MaxLogins, MaxTime, MaxStarts, MaxLoads} \subseteq Nat
    /\ OfferedEnvironments \subseteq Environments

VARIABLES
    clock,
    server,     \* what Wire made of the environment of the last start
    running, starts,
    issued,     \* the sessions drawn so far, each with its claims
    sessions,   \* Manager.sessions: the private ones the process remembers
    redeemed,   \* voucher -> the wallet that its entry in the ledger names
    browser,    \* page -> its browser, for good
    jar,        \* browser -> the session in its cookie
    page,       \* page -> [at, csrf, shows]
    request,
    loads,
    loggedOut   \* history: private sessions whose logout the server has handled

serverVars == <<server, running, starts>>
sessionVars == <<issued, sessions, loggedOut>>
accessVars == <<clock, serverVars, sessionVars, redeemed, browser, jar, page, request, loads>>

\* Sessions count from 1; the wallet of a new guest has the number of the
\* session it came with.
NoSession == 0
NoWallet == -1
Admin == 0

Closed == [at |-> "closed", csrf |-> NoSession, shows |-> NoWallet]

\* for: the wallet the page showed.  Of the answer: the session in its
\* Set-Cookie header, and the session and the wallet its body tells of.
NoRequest == [page |-> "none", browser |-> "none", kind |-> "none", at |-> "idle",
              cookie |-> NoSession, voucher |-> "none", for |-> NoWallet,
              sets |-> NoSession, tells |-> NoSession, shows |-> NoWallet]

AccessInit ==
    /\ clock = 0
    /\ server = [public |-> FALSE] /\ running = FALSE /\ starts = 0
    /\ issued = <<>> /\ sessions = {} /\ loggedOut = {}
    /\ redeemed = [v \in Vouchers |-> NoWallet]
    /\ browser \in [Pages -> Browsers]
    /\ jar = [b \in Browsers |-> NoSession]
    /\ page = [p \in Pages |-> Closed] /\ loads = 0
    /\ request = [r \in Requests |-> NoRequest]

Tick ==
    /\ clock < MaxTime /\ clock' = clock + 1
    /\ UNCHANGED <<serverVars, sessionVars, redeemed, browser, jar, page, request, loads>>

-----------------------------------------------------------------------------
(* The process. *)

\* The environment may differ from the one before, but not in the mode.
Start(e) ==
    /\ ~running /\ starts < MaxStarts
    /\ Starts(e)
    /\ starts > 0 => e.public = server.public
    /\ running' = TRUE /\ server' = Wire(e) /\ starts' = starts + 1
    /\ UNCHANGED <<clock, sessionVars, redeemed, browser, jar, page, request, loads>>

\* A page that logs out loads again, whatever the answer.
Reloading(p, failed) == \E r \in failed : request[r].page = p /\ request[r].kind = "logout"

\* What the process remembered of private sessions is gone, and the requests it
\* was at fail.
Stop ==
    LET failed == {r \in Requests : request[r].at = "admitted"} IN
    /\ running /\ running' = FALSE
    /\ sessions' = {}
    /\ request' = [r \in Requests |-> IF r \in failed THEN NoRequest ELSE request[r]]
    /\ page' = [p \in Pages |-> IF Reloading(p, failed) THEN Closed ELSE page[p]]
    /\ UNCHANGED <<clock, server, starts, issued, loggedOut, redeemed, browser, jar, loads>>

-----------------------------------------------------------------------------
(* auth.Manager. *)

Wallet(s) == issued[s].wallet

Expired(s) == clock >= issued[s].expires

Fresh == Len(issued) + 1

Issue(wallet) ==
    /\ Len(issued) < MaxSessions
    /\ issued' = Append(issued, [wallet |-> wallet, expires |-> clock + SessionTTL,
                                 secret |-> server.secret])

\* deleteExpiredLocked.
Remembered == {s \in sessions : ~Expired(s)}

\* Validate: a guest's session is checked against the secret it was signed
\* with, a private one has to be remembered.
Valid(s) ==
    /\ running /\ s # NoSession
    /\ IF Wallet(s) = Admin THEN s \in Remembered
       ELSE issued[s].secret = server.secret /\ ~Expired(s)

\* Mutated form: only the browser forgets the session.
StillRemembered(s) == sessions

Forgotten(s) == sessions \ {s}

-----------------------------------------------------------------------------
(* Requests of a page. *)

Cookie(p) == jar[browser[p]]

By(p, kind, at) == [NoRequest EXCEPT !.page = p, !.browser = browser[p], !.kind = kind, !.at = at]

Open(p, r) == request[r] = NoRequest /\ page[p].at = "workspace"

\* The answer to a new session, and to a request for the one of the cookie.
Welcome(p, kind, wallet) ==
    [By(p, kind, "answered") EXCEPT !.sets = Fresh, !.tells = Fresh, !.shows = wallet]

SessionAnswer(p) ==
    [By(p, "session", "answered") EXCEPT !.tells = Cookie(p), !.shows = Wallet(Cookie(p))]

\* refreshSession, after a checkout or at the end of a job.
RefreshSession(p, r) ==
    /\ Open(p, r) /\ Valid(Cookie(p))
    /\ request' = [request EXCEPT ![r] = SessionAnswer(p)]
    /\ sessions' = Remembered
    /\ UNCHANGED <<clock, serverVars, issued, loggedOut, redeemed, browser, jar, page, loads>>

HandleLogin(p, r) ==
    /\ running /\ ~server.public
    /\ page[p].at = "login" /\ request[r] = NoRequest
    /\ Len(issued) < MaxLogins /\ Issue(Admin)
    /\ sessions' = Remembered \cup {Fresh}
    /\ request' = [request EXCEPT ![r] = Welcome(p, "login", Admin)]
    /\ UNCHANGED <<clock, serverVars, loggedOut, redeemed, browser, jar, page, loads>>

\* Mutated form: the CSRF token is not compared.
CSRFNotCompared(p) == TRUE

\* The page sends the token it knows, the browser the cookie it holds.
CSRFHolds(p) == page[p].csrf = Cookie(p)

\* The log-out button is hidden from guests, and the button that redeems is
\* disabled while its request is under way.
Offered(p, kind) ==
    /\ kind = "logout" => page[p].shows = Admin
    /\ kind = "redeem" => ~\E q \in Requests : request[q].page = p /\ request[q].kind = "redeem"

\* withSession in front of the handlers that change something; what it refuses
\* changes nothing.
Admit(p, r, kind, v) ==
    /\ Open(p, r) /\ Offered(p, kind)
    /\ Valid(Cookie(p)) /\ CSRFHolds(p)
    /\ kind = "redeem" => server.vouchers
    /\ request' = [request EXCEPT ![r] =
           [By(p, kind, "admitted") EXCEPT !.voucher = v, !.cookie = Cookie(p),
                                          !.for = page[p].shows]]
    /\ sessions' = Remembered
    /\ UNCHANGED <<clock, serverVars, issued, loggedOut, redeemed, browser, jar, page, loads>>

-----------------------------------------------------------------------------
(* The handlers behind withSession. *)

\* A ticket, a job, its cancel or a checkout, for the wallet of the cookie.
HandleAct(r) ==
    /\ request[r].at = "admitted" /\ request[r].kind = "act"
    /\ request' = [request EXCEPT ![r] = NoRequest]
    /\ UNCHANGED <<clock, serverVars, sessionVars, redeemed, browser, jar, page, loads>>

HandleLogout(r) ==
    /\ request[r].at = "admitted" /\ request[r].kind = "logout"
    /\ sessions' = Forgotten(request[r].cookie)
    /\ loggedOut' = loggedOut \cup {request[r].cookie}
    /\ request' = [request EXCEPT ![r].at = "answered", ![r].cookie = NoSession]
    /\ UNCHANGED <<clock, serverVars, issued, redeemed, browser, jar, page, loads>>

\* Mutated form: a code that was redeemed moves to the wallet that asks.
AccountOfAsker(v, own) == own

\* RedeemVoucher: a code that was redeemed opens the wallet it was redeemed
\* for, any other is credited to the one that asks.
RedemptionAccount(v, own) == IF redeemed[v] = NoWallet THEN own ELSE redeemed[v]

\* VoucherCodec.parse, of a code that was signed here.
CodeAccepted == clock < VoucherTTL

HandleRedeem(r) ==
    LET q == request[r]
        account == RedemptionAccount(q.voucher, Wallet(q.cookie)) IN
    /\ q.at = "admitted" /\ q.kind = "redeem"
    /\ CodeAccepted
    /\ redeemed' = [redeemed EXCEPT ![q.voucher] = account]
    /\ IF account = Wallet(q.cookie)
       THEN /\ request' = [request EXCEPT ![r] =
                   [q EXCEPT !.at = "answered", !.tells = q.cookie, !.shows = account]]
            /\ UNCHANGED issued
       ELSE /\ Issue(account)
            /\ request' = [request EXCEPT ![r] =
                   [q EXCEPT !.at = "answered", !.sets = Fresh, !.tells = Fresh, !.shows = account]]
    /\ UNCHANGED <<clock, serverVars, sessions, loggedOut, browser, jar, page, loads>>

-----------------------------------------------------------------------------
(* Answers, and pages that load. *)

\* The server goes on with the requests of a page that was left, and an answer
\* may still set the cookie; one that does not is of no use any more.
Left(p) ==
    [r \in Requests |->
        IF request[r].page # p THEN request[r]
        ELSE IF request[r].kind = "session" THEN NoRequest
        ELSE [request[r] EXCEPT !.page = "none"]]

\* restore: the page has lost its state; it asks at /meta whether the server
\* knows its session, and goes on with that session, as a new guest, or with the
\* log-in form, which any error shows, too.
Load(p) ==
    /\ loads < MaxLoads /\ loads' = loads + 1
    /\ \/ /\ Valid(Cookie(p))
          /\ \E r \in Requests :
                /\ Left(p)[r] = NoRequest
                /\ request' = [Left(p) EXCEPT ![r] = SessionAnswer(p)]
          /\ page' = [page EXCEPT ![p] = [Closed EXCEPT !.at = "restoring"]]
          /\ UNCHANGED issued
       \/ /\ running /\ server.public /\ ~Valid(Cookie(p))
          /\ server.verifier = "turnstile" => server.siteKey
          /\ Issue(Fresh)
          /\ \E r \in Requests :
                /\ Left(p)[r] = NoRequest
                /\ request' = [Left(p) EXCEPT ![r] = Welcome(p, "guest", Fresh)]
          /\ page' = [page EXCEPT ![p] = [Closed EXCEPT !.at = "restoring"]]
       \/ /\ request' = Left(p)
          /\ page' = [page EXCEPT ![p] = [Closed EXCEPT !.at = "login"]]
          /\ UNCHANGED issued
    /\ UNCHANGED <<clock, serverVars, sessions, loggedOut, redeemed, browser, jar>>

\* A body that is cut off reads as one without fields.  A page that has logged
\* out is about to load again.
PageAfter(q, whole) ==
    CASE q.kind \in {"session", "guest", "login"} ->
            [at |-> "workspace", csrf |-> IF whole THEN q.tells ELSE NoSession,
             shows |-> IF whole THEN q.shows ELSE NoWallet]
      [] q.kind = "logout" -> Closed
      [] q.kind = "redeem" /\ whole -> [page[q.page] EXCEPT !.csrf = q.tells, !.shows = q.shows]
      [] OTHER -> page[q.page]

\* The headers arrive, and with them the cookie; then the body, or not.
Arrive(r, whole) ==
    LET q == request[r] IN
    /\ q.at = "answered"
    /\ jar' = [jar EXCEPT ![q.browser] = IF q.kind = "logout" THEN NoSession
                                         ELSE IF q.sets # NoSession THEN q.sets ELSE @]
    /\ IF q.page = "none" \/ page[q.page].at = "closed" THEN UNCHANGED page
       ELSE page' = [page EXCEPT ![q.page] = PageAfter(q, whole)]
    /\ request' = [request EXCEPT ![r] = NoRequest]
    /\ UNCHANGED <<clock, serverVars, sessionVars, redeemed, browser, loads>>

\* A handler refuses (a limit, a challenge, a draw, a transaction that fails),
\* or its answer is lost.
Fail(r) ==
    LET q == request[r] IN
    /\ q # NoRequest
    /\ request' = [request EXCEPT ![r] = NoRequest]
    /\ page' = [p \in Pages |->
           CASE p = q.page /\ page[p].at = "restoring" -> [Closed EXCEPT !.at = "login"]
             [] Reloading(p, {r}) -> Closed
             [] OTHER -> page[p]]
    /\ UNCHANGED <<clock, serverVars, sessionVars, redeemed, browser, jar, loads>>

AccessNext ==
    \/ Tick
    \/ \E e \in OfferedEnvironments : Start(e)
    \/ Stop
    \/ \E p \in Pages : Load(p)
    \/ \E p \in Pages, r \in Requests :
          \/ RefreshSession(p, r) \/ HandleLogin(p, r)
          \/ Admit(p, r, "act", "none") \/ Admit(p, r, "logout", "none")
          \/ \E v \in Vouchers : Admit(p, r, "redeem", v)
    \/ \E r \in Requests :
          \/ HandleAct(r) \/ HandleLogout(r) \/ HandleRedeem(r)
          \/ Arrive(r, TRUE) \/ Arrive(r, FALSE) \/ Fail(r)

AccessSpec == AccessInit /\ [][AccessNext]_accessVars

-----------------------------------------------------------------------------
(* Properties. *)

\* A request that changes something acts for the wallet its page shows, although
\* another page may have moved the browser to another wallet, and an answer may
\* have changed the cookie without reaching the page.
ActsForShownWallet ==
    \A r \in Requests :
        request[r].at = "admitted" => Wallet(request[r].cookie) = request[r].for

\* Whoever presents a code gets the wallet it was redeemed for: the answer leaves
\* the browser with a session of that wallet, and tells the page that session
\* and that wallet, whichever browser was first, even if the answer to the first
\* attempt was lost and other redemptions are under way.
CodeOpensItsWallet ==
    \A r \in Requests :
        LET q == request[r]
            session == IF q.sets # NoSession THEN q.sets ELSE q.cookie IN
        q.at = "answered" /\ q.kind = "redeem" =>
            /\ Wallet(session) = redeemed[q.voucher]
            /\ q.tells = session
            /\ q.shows = redeemed[q.voucher]

\* A private session that was logged out is not let in again, not even with the
\* cookie another page of that browser sends before the answer is there.
LoggedOutStaysOut ==
    [][\A r \in Requests :
           request[r].at # "admitted" /\ request'[r].at = "admitted"
               => request'[r].cookie \notin loggedOut]_accessVars

\* A server that starts for the public can do all its visitors need: take a way
\* of payment, verify challenges its pages can show, store its artifacts
\* (JobManager relies on that, as StoreAssumption).
NeverHalfConfigured ==
    running /\ server.public =>
        /\ server.checkout \/ server.vouchers
        /\ server.verifier \in {"altcha", "turnstile"}
        /\ server.verifier = "turnstile" => server.siteKey
        /\ server.store
=============================================================================
