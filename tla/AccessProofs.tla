----------------------------- MODULE AccessProofs -----------------------------
(***************************************************************************)
(* Requests act for the wallet their page shows, codes open their wallet,    *)
(* sessions that were logged out stay out, and no server is half configured,  *)
(* for any pages, browsers, requests, codes and environments.               *)
(*                                                                         *)
(* What holds it together is that a page, and an answer on its way to one,    *)
(* names a session and a wallet that belong to each other.  Together with     *)
(* the comparison of the page's token and the browser's cookie that is all    *)
(* a request needs.  Below, log, red and up stand for issued, redeemed and    *)
(* running, before a step or after it.                                      *)
(***************************************************************************)
EXTENDS Access, TLAPS

Known(log) == 0..Len(log)

\* A session and a wallet that are named together.
Match(log, s, wallet) == s # NoSession => log[s].wallet = wallet

AdmittedInv(log, up, q) ==
    /\ up
    /\ q.cookie # NoSession /\ log[q.cookie].wallet = q.for /\ q.sets = NoSession
    /\ q.kind = "redeem" => q.voucher \in Vouchers
    /\ q.kind = "logout" => q.for = Admin

RedeemedInv(red, q) ==
    LET session == IF q.sets # NoSession THEN q.sets ELSE q.cookie IN
    /\ q.voucher \in Vouchers
    /\ red[q.voucher] # NoWallet /\ red[q.voucher] = q.shows
    /\ session # NoSession /\ q.tells = session

RequestInv(log, red, up, q) ==
    /\ q.cookie \in Known(log) /\ q.sets \in Known(log) /\ q.tells \in Known(log)
    /\ Match(log, q.tells, q.shows)
    /\ q.at = "admitted" => AdmittedInv(log, up, q)
    /\ q.at = "answered" /\ q.kind = "redeem" => RedeemedInv(red, q)

PageInv(log, w) == w.csrf \in Known(log) /\ Match(log, w.csrf, w.shows)

SessionsInv ==
    /\ sessions \subseteq 1..Len(issued)
    /\ loggedOut \subseteq 1..Len(issued)
    /\ \A s \in loggedOut : s \notin sessions /\ issued[s].wallet = Admin

WiredInv == running => \E e \in Environments : Starts(e) /\ server = Wire(e)

Claims == [wallet : Nat, expires : Int, secret : Secrets]

PageRecords == [at : {"closed", "login", "restoring", "workspace"}, csrf : Nat, shows : Int]

RequestRecords ==
    [page : Pages \cup {"none"}, browser : Browsers \cup {"none"},
     kind : {"none", "session", "guest", "login", "act", "logout", "redeem"},
     at : {"idle", "admitted", "answered"},
     cookie : Nat, voucher : Vouchers \cup {"none"}, for : Int,
     sets : Nat, tells : Nat, shows : Int]

Logs == Seq(Claims)
Redemptions == [Vouchers -> Nat \cup {NoWallet}]

\* The state that most steps leave alone or only extend ...
BaseInv ==
    /\ clock \in Nat /\ running \in BOOLEAN
    /\ issued \in Logs /\ redeemed \in Redemptions
    /\ browser \in [Pages -> Browsers]
    /\ WiredInv /\ SessionsInv

\* ... and cookies, pages and requests.
JarInv == jar \in [Browsers -> Nat] /\ \A b \in Browsers : jar[b] \in Known(issued)

PagesInv == page \in [Pages -> PageRecords] /\ \A p \in Pages : PageInv(issued, page[p])

RequestsInv ==
    /\ request \in [Requests -> RequestRecords]
    /\ \A r \in Requests : RequestInv(issued, redeemed, running, request[r])

AccessInv == BaseInv /\ JarInv /\ PagesInv /\ RequestsInv

LEMMA Numbers == NoSession = 0 /\ NoWallet \in Int /\ NoWallet \notin Nat /\ Admin = 0
BY DEF NoSession, NoWallet, Admin

-----------------------------------------------------------------------------
(* Sessions are only added. *)

Kept(log, more) ==
    /\ more \in Logs
    /\ Len(log) <= Len(more)
    /\ \A s \in 1..Len(log) : more[s] = log[s]

Settled(red, more) == \A v \in Vouchers : red[v] # NoWallet => more[v] = red[v]

LEMMA SameKept ==
    ASSUME NEW log \in Logs
    PROVE  Kept(log, log)
BY DEF Kept, Logs

LEMMA SameSettled == ASSUME NEW red PROVE Settled(red, red)
BY DEF Settled

LEMMA IssueKeeps ==
    ASSUME BaseInv, running, NEW w \in Nat, Issue(w)
    PROVE  /\ Kept(issued, issued') /\ Len(issued') = Len(issued) + 1
           /\ Fresh \in 1..Len(issued') /\ Fresh \notin 1..Len(issued)
           /\ issued'[Fresh].wallet = w
<1>1. issued \in Seq(Claims) /\ clock \in Nat
  BY DEF BaseInv, Logs
<1>2. server.secret \in Secrets
  BY DEF BaseInv, WiredInv, Starts, Loads, Wire
<1> DEFINE c == [wallet |-> w, expires |-> clock + SessionTTL, secret |-> server.secret]
<1>3. c \in Claims
  BY <1>1, <1>2, AccessAssumption DEF Claims
<1>4. c.wallet = w
  OBVIOUS
<1>5. issued' = Append(issued, c)
  BY DEF Issue
<1> HIDE DEF c
<1> QED  BY <1>1, <1>3, <1>4, <1>5 DEF Kept, Fresh, Logs

LEMMA KeptKnown ==
    ASSUME NEW log \in Logs, NEW more \in Logs, Kept(log, more), NEW s \in Known(log)
    PROVE  s \in Known(more) /\ (s # NoSession => more[s] = log[s])
<1>1. Len(log) \in Nat /\ Len(more) \in Nat
  BY DEF Logs
<1> QED  BY <1>1, Numbers DEF Kept, Known

LEMMA KeptPage ==
    ASSUME NEW log \in Logs, NEW more \in Logs, Kept(log, more), NEW w, PageInv(log, w)
    PROVE  PageInv(more, w)
BY KeptKnown DEF PageInv, Match

LEMMA KeptRequest ==
    ASSUME NEW log \in Logs, NEW more \in Logs, Kept(log, more),
           NEW red, NEW redmore, Settled(red, redmore),
           NEW up, NEW upmore, NEW q, RequestInv(log, red, up, q),
           q.at = "admitted" => upmore
    PROVE  RequestInv(more, redmore, upmore, q)
<1>1. q.cookie \in Known(more) /\ q.sets \in Known(more) /\ q.tells \in Known(more)
  BY KeptKnown DEF RequestInv
<1>2. Match(more, q.tells, q.shows)
  BY KeptKnown DEF RequestInv, Match
<1>3. q.at = "admitted" => AdmittedInv(more, upmore, q)
  BY KeptKnown DEF RequestInv, AdmittedInv
<1>4. q.at = "answered" /\ q.kind = "redeem" => RedeemedInv(redmore, q)
  BY DEF RequestInv, RedeemedInv, Settled
<1> QED  BY <1>1, <1>2, <1>3, <1>4 DEF RequestInv

\* What a step that only adds sessions and redemptions leaves alone stays sound.
Added ==
    /\ BaseInv /\ BaseInv'
    /\ Kept(issued, issued') /\ Settled(redeemed, redeemed')

LEMMA AddedJar ==
    ASSUME Added, JarInv, jar' = jar
    PROVE  JarInv'
BY KeptKnown DEF Added, BaseInv, JarInv

LEMMA AddedPages ==
    ASSUME Added, PagesInv, page' = page
    PROVE  PagesInv'
BY KeptPage DEF Added, BaseInv, PagesInv

LEMMA AddedPage ==
    ASSUME Added, PagesInv, NEW p \in Pages, NEW w \in PageRecords, PageInv(issued', w),
           page' = [page EXCEPT ![p] = w]
    PROVE  PagesInv'
<1>1. page' \in [Pages -> PageRecords]
  BY DEF PagesInv
<1>2. ASSUME NEW o \in Pages PROVE PageInv(issued', page'[o])
  <2>1. CASE o = p
    BY <2>1 DEF PagesInv
  <2>2. CASE o # p
    <3>1. page'[o] = page[o] /\ PageInv(issued, page[o])
      BY <2>2 DEF PagesInv
    <3> QED  BY <3>1, KeptPage DEF Added, BaseInv
  <2> QED  BY <2>1, <2>2
<1> QED  BY <1>1, <1>2 DEF PagesInv

LEMMA AddedRequests ==
    ASSUME Added, RequestsInv, request' = request, running' = running
    PROVE  RequestsInv'
<1>1. ASSUME NEW r \in Requests PROVE RequestInv(issued', redeemed', running', request[r])
  <2>1. RequestInv(issued, redeemed, running, request[r])
    BY DEF RequestsInv
  <2>2. request[r].at = "admitted" => running'
    BY <2>1 DEF RequestInv, AdmittedInv
  <2> QED  BY <2>1, <2>2, KeptRequest DEF Added, BaseInv
<1> QED  BY <1>1 DEF RequestsInv

\* f is what the requests are before one of them is set.
LEMMA AddedRequest ==
    ASSUME Added, running' = running,
           NEW f \in [Requests -> RequestRecords],
           \A r \in Requests : RequestInv(issued, redeemed, running, f[r]),
           NEW r \in Requests, NEW q \in RequestRecords,
           RequestInv(issued', redeemed', running', q),
           request' = [f EXCEPT ![r] = q]
    PROVE  RequestsInv'
<1>1. request' \in [Requests -> RequestRecords]
  OBVIOUS
<1>2. ASSUME NEW o \in Requests PROVE RequestInv(issued', redeemed', running', request'[o])
  <2>1. CASE o = r
    BY <2>1
  <2>2. CASE o # r
    <3>1. request'[o] = f[o] /\ RequestInv(issued, redeemed, running, f[o])
      BY <2>2
    <3>2. f[o].at = "admitted" => running'
      BY <3>1 DEF RequestInv, AdmittedInv
    <3> QED  BY <3>1, <3>2, KeptRequest DEF Added, BaseInv
  <2> QED  BY <2>1, <2>2
<1> QED  BY <1>1, <1>2 DEF RequestsInv

\* Parts of the base that a step leaves alone.
LEMMA AddedBase ==
    ASSUME BaseInv, Kept(issued, issued'), Settled(redeemed, redeemed'),
           redeemed' \in Redemptions, clock' = clock, browser' = browser,
           UNCHANGED serverVars,
           sessions' \subseteq 1..Len(issued'), loggedOut' = loggedOut,
           sessions' \cap loggedOut = {}
    PROVE  Added
<1>1. issued' \in Logs /\ issued \in Logs /\ Len(issued) \in Nat /\ Len(issued') \in Nat
  BY DEF Kept, BaseInv, Logs
<1>2. SessionsInv'
  BY <1>1 DEF BaseInv, SessionsInv, Kept
<1>3. WiredInv'
  BY DEF BaseInv, WiredInv, serverVars
<1> QED  BY <1>1, <1>2, <1>3 DEF Added, BaseInv, serverVars

LEMMA RememberedFewer == Remembered \subseteq sessions
BY DEF Remembered

-----------------------------------------------------------------------------
(* The initial states. *)

LEMMA NothingOpen ==
    ASSUME NEW log \in Logs, NEW red, NEW up
    PROVE  /\ \A w \in {Closed, [Closed EXCEPT !.at = "login"], [Closed EXCEPT !.at = "restoring"]} :
                  w \in PageRecords /\ PageInv(log, w)
           /\ RequestInv(log, red, up, NoRequest)
           /\ NoRequest \in RequestRecords
<1>1. 0 \in Known(log)
  BY DEF Logs, Known
<1>2. NoRequest \in RequestRecords
  BY Numbers DEF NoRequest, RequestRecords
<1>3. RequestInv(log, red, up, NoRequest)
  BY <1>1, Numbers DEF RequestInv, NoRequest, Match
<1> QED  BY <1>1, <1>2, <1>3, Numbers DEF PageInv, Closed, PageRecords, Match

LEMMA AccessInitial == AccessInit => AccessInv
<1> SUFFICES ASSUME AccessInit PROVE AccessInv
  OBVIOUS
<1> USE DEF AccessInit
<1>1. Len(issued) = 0
  OBVIOUS
<1>2. issued \in Logs
  BY DEF Logs
<1>3. redeemed \in Redemptions
  BY DEF Redemptions
<1>4. BaseInv
  BY <1>2, <1>3 DEF BaseInv, WiredInv, SessionsInv
<1>5. JarInv
  BY <1>1, Numbers DEF JarInv, Known
<1>6. PagesInv
  BY <1>2, NothingOpen DEF PagesInv
<1>7. RequestsInv
  BY <1>2, NothingOpen DEF RequestsInv
<1> QED  BY <1>4, <1>5, <1>6, <1>7 DEF AccessInv

-----------------------------------------------------------------------------
(* Answers. *)

LEMMA ByTyped ==
    ASSUME NEW p \in Pages, browser[p] \in Browsers,
           NEW kind \in {"session", "guest", "login"}
    PROVE  By(p, kind, "answered") \in RequestRecords
BY Numbers DEF By, NoRequest, RequestRecords

\* What a request that asks for its session is told ...
LEMMA SessionAnswerSound ==
    ASSUME AccessInv, NEW p \in Pages, Valid(Cookie(p)), NEW red, NEW up
    PROVE  SessionAnswer(p) \in RequestRecords /\ RequestInv(issued, red, up, SessionAnswer(p))
<1> DEFINE q == SessionAnswer(p)
           c == Cookie(p)
<1>1. /\ c \in Known(issued) /\ c \in Nat /\ browser[p] \in Browsers
      /\ issued \in Seq(Claims) /\ c # NoSession
  BY DEF AccessInv, BaseInv, JarInv, Logs, Cookie, Valid
<1>2. issued[c] \in Claims /\ issued[c].wallet \in Nat
  <2>1. c \in 1..Len(issued)
    BY <1>1, Numbers DEF Known
  <2>2. issued[c] \in Claims
    BY <1>1, <2>1
  <2> QED  BY <2>2 DEF Claims
<1>3. /\ q.cookie = NoSession /\ q.sets = NoSession /\ q.tells = c
      /\ q.shows = issued[c].wallet /\ q.kind = "session" /\ q.at = "answered"
  BY DEF SessionAnswer, By, NoRequest, Wallet
<1>4. q \in RequestRecords
  <2>1. By(p, "session", "answered") \in RequestRecords
    BY <1>1, ByTyped
  <2>2. c \in Nat /\ issued[c].wallet \in Int
    BY <1>1, <1>2
  <2> QED  BY <2>1, <2>2 DEF SessionAnswer, RequestRecords, Wallet
<1>5. NoSession \in Known(issued)
  BY <1>1, Numbers DEF Known
<1> HIDE DEF q, c
<1>6. RequestInv(issued, red, up, q)
  BY <1>1, <1>3, <1>5 DEF RequestInv, Match
<1> QED  BY <1>4, <1>6 DEF q

\* ... and what a new one is.
LEMMA WelcomeSound ==
    ASSUME AccessInv, NEW p \in Pages, NEW log \in Logs, NEW w \in Nat,
           NEW kind \in {"guest", "login"},
           Fresh \in 1..Len(log), log[Fresh].wallet = w, NEW red, NEW up
    PROVE  Welcome(p, kind, w) \in RequestRecords /\ RequestInv(log, red, up, Welcome(p, kind, w))
<1> DEFINE q == Welcome(p, kind, w)
<1>1. browser[p] \in Browsers /\ Len(log) \in Nat
  BY DEF AccessInv, BaseInv, Logs
<1>2. Fresh \in Nat /\ Fresh \in Known(log) /\ NoSession \in Known(log)
  BY <1>1, Numbers DEF Known
<1>3. /\ q.cookie = NoSession /\ q.sets = Fresh /\ q.tells = Fresh /\ q.shows = w
      /\ q.kind = kind /\ q.at = "answered"
  BY DEF Welcome, By, NoRequest
<1>4. q \in RequestRecords
  <2> DEFINE b == By(p, kind, "answered")
  <2>1. b \in RequestRecords /\ Fresh \in Nat /\ w \in Int
    BY <1>1, <1>2, ByTyped
  <2>2. q = [[[b EXCEPT !.sets = Fresh] EXCEPT !.tells = Fresh] EXCEPT !.shows = w]
    BY DEF Welcome
  <2> HIDE DEF b, q
  <2>3. [b EXCEPT !.sets = Fresh] \in RequestRecords
    BY <2>1 DEF RequestRecords
  <2>4. [[b EXCEPT !.sets = Fresh] EXCEPT !.tells = Fresh] \in RequestRecords
    BY <2>1, <2>3 DEF RequestRecords
  <2> QED  BY <2>1, <2>2, <2>4 DEF RequestRecords
<1> HIDE DEF q
<1>5. RequestInv(log, red, up, q)
  BY <1>2, <1>3 DEF RequestInv, Match
<1> QED  BY <1>4, <1>5 DEF q

\* A page that is left has no part in its requests any more.
LEMMA LeftSound ==
    ASSUME AccessInv, NEW p \in Pages
    PROVE  /\ Left(p) \in [Requests -> RequestRecords]
           /\ \A r \in Requests : RequestInv(issued, redeemed, running, Left(p)[r])
<1> SUFFICES ASSUME NEW r \in Requests
             PROVE  /\ Left(p)[r] \in RequestRecords
                    /\ RequestInv(issued, redeemed, running, Left(p)[r])
  BY DEF Left
<1> DEFINE q == request[r]
<1>1. q \in RequestRecords /\ RequestInv(issued, redeemed, running, q) /\ issued \in Logs
  BY DEF AccessInv, RequestsInv, BaseInv
<1>2. CASE Left(p)[r] = q
  BY <1>1, <1>2
<1>3. CASE Left(p)[r] = NoRequest
  BY <1>1, <1>3, NothingOpen
<1>4. CASE Left(p)[r] = [q EXCEPT !.page = "none"]
  <2> DEFINE l == [q EXCEPT !.page = "none"]
  <2>1. /\ l.cookie = q.cookie /\ l.sets = q.sets /\ l.tells = q.tells /\ l.shows = q.shows
        /\ l.at = q.at /\ l.kind = q.kind /\ l.voucher = q.voucher /\ l.for = q.for
        /\ l \in RequestRecords
    BY <1>1 DEF RequestRecords
  <2> HIDE DEF l
  <2>2. RequestInv(issued, redeemed, running, l)
    BY <1>1, <2>1 DEF RequestInv, AdmittedInv, RedeemedInv
  <2> QED  BY <1>4, <2>1, <2>2 DEF l
<1> QED  BY <1>2, <1>3, <1>4 DEF Left

-----------------------------------------------------------------------------
(* The steps. *)

\* Steps of the process: the requests it is at fail when it stops.
LEMMA TickStep == AccessInv /\ Tick => AccessInv'
<1> SUFFICES ASSUME AccessInv, Tick PROVE AccessInv'
  OBVIOUS
<1>1. /\ clock' = clock + 1
      /\ UNCHANGED <<server, running, issued, sessions, loggedOut, redeemed, browser, jar, page, request>>
  BY DEF Tick, serverVars, sessionVars
<1>2. BaseInv'
  BY <1>1 DEF AccessInv, BaseInv, WiredInv, SessionsInv
<1>3. Added
  BY <1>1, <1>2, SameKept, SameSettled DEF AccessInv, Added, BaseInv
<1> QED  BY <1>1, <1>2, <1>3, AddedJar, AddedPages, AddedRequests DEF AccessInv

LEMMA StartStep ==
    ASSUME AccessInv, NEW e \in OfferedEnvironments, Start(e)
    PROVE  AccessInv'
<1>1. /\ ~running /\ running' = TRUE /\ Starts(e) /\ server' = Wire(e) /\ e \in Environments
      /\ UNCHANGED <<clock, issued, sessions, loggedOut, redeemed, browser, jar, page, request>>
  BY AccessAssumption DEF Start, sessionVars
<1>2. WiredInv'
  BY <1>1 DEF WiredInv
<1>3. BaseInv'
  BY <1>1, <1>2 DEF AccessInv, BaseInv, SessionsInv
<1>4. Added
  BY <1>1, <1>3, SameKept, SameSettled DEF AccessInv, Added, BaseInv
<1>5. ASSUME NEW r \in Requests PROVE RequestInv(issued', redeemed', running', request[r])
  <2>1. RequestInv(issued, redeemed, running, request[r])
    BY DEF AccessInv, RequestsInv
  <2> QED  BY <1>1, <1>4, <2>1, KeptRequest DEF Added, BaseInv
<1>6. RequestsInv'
  BY <1>1, <1>5 DEF AccessInv, RequestsInv
<1> QED  BY <1>1, <1>3, <1>4, <1>6, AddedJar, AddedPages DEF AccessInv

LEMMA StopStep == AccessInv /\ Stop => AccessInv'
<1> SUFFICES ASSUME AccessInv, Stop PROVE AccessInv'
  OBVIOUS
<1>1. /\ running' = FALSE /\ sessions' = {}
      /\ UNCHANGED <<clock, issued, loggedOut, redeemed, browser, jar>>
  BY DEF Stop
<1>2. BaseInv'
  BY <1>1 DEF AccessInv, BaseInv, WiredInv, SessionsInv
<1>3. Added
  BY <1>1, <1>2, SameKept, SameSettled DEF AccessInv, Added, BaseInv
<1>4. request \in [Requests -> RequestRecords] /\ issued \in Logs
  BY DEF AccessInv, RequestsInv, BaseInv
<1>5. ASSUME NEW r \in Requests
      PROVE  request'[r] \in RequestRecords /\ RequestInv(issued', redeemed', running', request'[r])
  <2>1. CASE request[r].at = "admitted"
    <3>1. request'[r] = NoRequest
      BY <2>1 DEF Stop
    <3> QED  BY <1>1, <1>4, <3>1, NothingOpen
  <2>2. CASE request[r].at # "admitted"
    <3>1. request'[r] = request[r] /\ RequestInv(issued, redeemed, running, request[r])
      BY <2>2 DEF Stop, AccessInv, RequestsInv
    <3> QED  BY <1>3, <1>4, <2>2, <3>1, KeptRequest DEF Added, BaseInv
  <2> QED  BY <2>1, <2>2
<1>6. RequestsInv'
  BY <1>5 DEF Stop, RequestsInv
<1>7. PagesInv'
  <2>1. ASSUME NEW p \in Pages PROVE page'[p] \in PageRecords /\ PageInv(issued', page'[p])
    <3>1. page'[p] \in {Closed, page[p]}
      BY DEF Stop
    <3> QED  BY <1>1, <1>4, <3>1, NothingOpen DEF AccessInv, PagesInv
  <2> QED  BY <2>1 DEF Stop, PagesInv
<1> QED  BY <1>1, <1>2, <1>3, <1>6, <1>7, AddedJar DEF AccessInv

LEMMA RefreshStep ==
    ASSUME AccessInv, NEW p \in Pages, NEW r \in Requests, RefreshSession(p, r)
    PROVE  AccessInv'
<1>1. /\ Valid(Cookie(p)) /\ sessions' = Remembered
      /\ request' = [request EXCEPT ![r] = SessionAnswer(p)]
      /\ UNCHANGED <<clock, serverVars, issued, loggedOut, redeemed, browser, jar, page>>
  BY DEF RefreshSession
<1>2. Added
  BY <1>1, SameKept, SameSettled, RememberedFewer, AddedBase DEF AccessInv, BaseInv, SessionsInv
<1>3. RequestsInv'
  <2>1. running' = running
    BY <1>1 DEF serverVars
  <2>2. RequestInv(issued', redeemed', running', SessionAnswer(p)) /\ SessionAnswer(p) \in RequestRecords
    BY <1>1, SessionAnswerSound
  <2> QED  BY <1>1, <1>2, <2>1, <2>2, AddedRequest DEF AccessInv, RequestsInv
<1> QED  BY <1>1, <1>2, <1>3, AddedJar, AddedPages DEF AccessInv, Added

LEMMA LoginStep ==
    ASSUME AccessInv, NEW p \in Pages, NEW r \in Requests, HandleLogin(p, r)
    PROVE  AccessInv'
<1>1. /\ running /\ Issue(Admin) /\ sessions' = Remembered \cup {Fresh}
      /\ request' = [request EXCEPT ![r] = Welcome(p, "login", Admin)]
      /\ UNCHANGED <<clock, serverVars, loggedOut, redeemed, browser, jar, page>>
  BY DEF HandleLogin
<1>2. /\ Kept(issued, issued') /\ Fresh \in 1..Len(issued') /\ Fresh \notin 1..Len(issued)
      /\ Len(issued') = Len(issued) + 1 /\ issued'[Fresh].wallet = Admin /\ Admin \in Nat
  BY <1>1, IssueKeeps, Numbers DEF AccessInv
<1>3. Added
  <2>1. sessions \subseteq 1..Len(issued) /\ loggedOut \subseteq 1..Len(issued) /\ Len(issued) \in Nat
    BY DEF AccessInv, BaseInv, SessionsInv, Logs
  <2>2. sessions' \subseteq 1..Len(issued') /\ sessions' \cap loggedOut = {}
    BY <1>1, <1>2, <2>1, RememberedFewer DEF AccessInv, BaseInv, SessionsInv
  <2> QED  BY <1>1, <1>2, <2>2, SameSettled, AddedBase DEF AccessInv, BaseInv
<1>4. RequestsInv'
  <2>1. running' = running /\ issued' \in Logs
    BY <1>1, <1>2 DEF serverVars, Kept
  <2> DEFINE q == Welcome(p, "login", Admin)
  <2>2. RequestInv(issued', redeemed', running', q) /\ q \in RequestRecords
    BY <1>2, <2>1, WelcomeSound
  <2> HIDE DEF q
  <2>3. request' = [request EXCEPT ![r] = q]
    BY <1>1 DEF q
  <2> QED  BY <1>3, <2>1, <2>2, <2>3, AddedRequest DEF AccessInv, RequestsInv
<1> QED  BY <1>1, <1>3, <1>4, AddedJar, AddedPages DEF AccessInv, Added

LEMMA AdmitStep ==
    ASSUME AccessInv, NEW p \in Pages, NEW r \in Requests,
           NEW kind \in {"act", "logout", "redeem"}, NEW v \in Vouchers \cup {"none"},
           kind = "redeem" => v \in Vouchers,
           Admit(p, r, kind, v)
    PROVE  AccessInv'
<1> DEFINE q == [By(p, kind, "admitted") EXCEPT !.voucher = v, !.cookie = Cookie(p),
                                               !.for = page[p].shows]
<1>1. /\ Valid(Cookie(p)) /\ CSRFHolds(p) /\ Offered(p, kind) /\ sessions' = Remembered
      /\ request' = [request EXCEPT ![r] = q]
      /\ UNCHANGED <<clock, serverVars, issued, loggedOut, redeemed, browser, jar, page>>
  BY DEF Admit
<1>2. Added
  BY <1>1, SameKept, SameSettled, RememberedFewer, AddedBase DEF AccessInv, BaseInv, SessionsInv
<1>3. /\ Cookie(p) \in Known(issued) /\ Cookie(p) \in Nat /\ browser[p] \in Browsers
      /\ running /\ Cookie(p) # NoSession /\ NoSession \in Known(issued)
  BY <1>1, Numbers DEF AccessInv, BaseInv, JarInv, Logs, Cookie, Valid, Known
<1>4. page[p].csrf = Cookie(p) /\ issued[Cookie(p)].wallet = page[p].shows /\ page[p].shows \in Int
  BY <1>1, <1>3 DEF CSRFHolds, AccessInv, PagesInv, PageInv, Match, PageRecords
<1>5. /\ q.cookie = Cookie(p) /\ q.sets = NoSession /\ q.tells = NoSession
      /\ q.kind = kind /\ q.at = "admitted" /\ q.for = page[p].shows /\ q.voucher = v
  BY DEF By, NoRequest
<1>6. q \in RequestRecords
  BY <1>3, <1>4, Numbers DEF By, NoRequest, RequestRecords
<1>7. kind = "logout" => page[p].shows = Admin
  BY <1>1 DEF Offered
<1> HIDE DEF q
<1>8. RequestInv(issued, redeemed, running, q)
  BY <1>3, <1>4, <1>5, <1>7 DEF RequestInv, AdmittedInv, Match
<1>9. RequestsInv'
  <2>1. running' = running /\ issued' = issued /\ redeemed' = redeemed
    BY <1>1 DEF serverVars
  <2> QED  BY <1>1, <1>2, <1>6, <1>8, <2>1, AddedRequest DEF AccessInv, RequestsInv
<1> QED  BY <1>1, <1>2, <1>9, AddedJar, AddedPages DEF AccessInv, Added

LEMMA ActStep ==
    ASSUME AccessInv, NEW r \in Requests, HandleAct(r)
    PROVE  AccessInv'
<1>1. /\ request' = [request EXCEPT ![r] = NoRequest]
      /\ UNCHANGED <<clock, serverVars, sessions, issued, loggedOut, redeemed, browser, jar, page>>
  BY DEF HandleAct, sessionVars
<1>2. Added
  BY <1>1, SameKept, SameSettled, AddedBase DEF AccessInv, BaseInv, SessionsInv
<1>3. RequestsInv'
  <2>1. running' = running /\ issued' \in Logs
    BY <1>1, <1>2 DEF serverVars, Added, BaseInv
  <2> QED  BY <1>1, <1>2, <2>1, AddedRequest, NothingOpen DEF AccessInv, RequestsInv
<1> QED  BY <1>1, <1>2, <1>3, AddedJar, AddedPages DEF AccessInv, Added

LEMMA LogoutStep ==
    ASSUME AccessInv, NEW r \in Requests, HandleLogout(r)
    PROVE  AccessInv'
<1> DEFINE c == request[r].cookie
           q == [request[r] EXCEPT !.at = "answered", !.cookie = NoSession]
<1>1. /\ request[r].at = "admitted" /\ request[r].kind = "logout"
      /\ sessions' = sessions \ {c} /\ loggedOut' = loggedOut \cup {c}
      /\ UNCHANGED <<clock, serverVars, issued, redeemed, browser, jar, page>>
  BY DEF HandleLogout, Forgotten
<1>2. /\ request[r] \in RequestRecords /\ issued \in Logs
      /\ RequestInv(issued, redeemed, running, request[r])
  BY DEF AccessInv, RequestsInv, BaseInv
<1>3. c \in 1..Len(issued) /\ issued[c].wallet = Admin
  BY <1>1, <1>2, Numbers DEF RequestInv, AdmittedInv, Known, Logs
<1>4. SessionsInv'
  BY <1>1, <1>3 DEF AccessInv, BaseInv, SessionsInv
<1>5. Added
  <2>1. WiredInv'
    BY <1>1 DEF AccessInv, BaseInv, WiredInv, serverVars
  <2>2. BaseInv'
    BY <1>1, <1>4, <2>1 DEF AccessInv, BaseInv, serverVars
  <2> QED  BY <1>1, <2>2, SameKept, SameSettled DEF AccessInv, BaseInv, Added
<1>6. request' = [request EXCEPT ![r] = q]
  BY DEF HandleLogout, AccessInv, RequestsInv
<1>7. /\ q.cookie = NoSession /\ q.sets = request[r].sets /\ q.tells = request[r].tells
      /\ q.shows = request[r].shows /\ q.kind = "logout" /\ q.at = "answered"
      /\ q \in RequestRecords
  BY <1>1, <1>2, Numbers DEF RequestRecords
<1>8. NoSession \in Known(issued)
  BY <1>2, Numbers DEF Known, Logs
<1> HIDE DEF q
<1>9. RequestInv(issued, redeemed, running, q)
  BY <1>2, <1>7, <1>8 DEF RequestInv, Match
<1>10. RequestsInv'
  <2>1. running' = running /\ issued' = issued /\ redeemed' = redeemed
    BY <1>1 DEF serverVars
  <2> QED  BY <1>5, <1>6, <1>7, <1>9, <2>1, AddedRequest DEF AccessInv, RequestsInv
<1> QED  BY <1>1, <1>5, <1>10, AddedJar, AddedPages DEF AccessInv, Added

LEMMA AnsweredTyped ==
    ASSUME NEW o \in RequestRecords, NEW t \in Nat, NEW s \in Nat, NEW w \in Int
    PROVE  /\ [o EXCEPT !.at = "answered", !.tells = t, !.shows = w] \in RequestRecords
           /\ [o EXCEPT !.at = "answered", !.sets = s, !.tells = t, !.shows = w] \in RequestRecords
BY DEF RequestRecords

\* A code opens the wallet it was redeemed for before, or that of the request.
LEMMA RedeemStep ==
    ASSUME AccessInv, NEW r \in Requests, HandleRedeem(r)
    PROVE  AccessInv'
<1> DEFINE o == request[r]
           own == Wallet(o.cookie)
           account == RedemptionAccount(o.voucher, own)
           stay == [o EXCEPT !.at = "answered", !.tells = o.cookie, !.shows = account]
           move == [o EXCEPT !.at = "answered", !.sets = Fresh, !.tells = Fresh, !.shows = account]
<1>1. /\ o.at = "admitted" /\ o.kind = "redeem"
      /\ redeemed' = [redeemed EXCEPT ![o.voucher] = account]
      /\ UNCHANGED <<clock, serverVars, sessions, loggedOut, browser, jar, page>>
  BY DEF HandleRedeem
<1>2. \/ account = own /\ issued' = issued /\ request' = [request EXCEPT ![r] = stay]
      \/ account # own /\ Issue(account) /\ request' = [request EXCEPT ![r] = move]
  BY DEF HandleRedeem
<1>3. /\ o \in RequestRecords /\ issued \in Logs /\ redeemed \in Redemptions
      /\ RequestInv(issued, redeemed, running, o)
  BY DEF AccessInv, RequestsInv, BaseInv
<1>4. /\ running /\ o.cookie \in 1..Len(issued) /\ o.cookie # NoSession /\ o.sets = NoSession
      /\ o.voucher \in Vouchers
  BY <1>1, <1>3, Numbers DEF RequestInv, AdmittedInv, Known, Logs
<1>5. own \in Nat
  <2>1. issued[o.cookie] \in Claims
    BY <1>3, <1>4 DEF Logs
  <2> QED  BY <2>1 DEF Claims, Wallet
<1>6. /\ account \in Nat /\ account # NoWallet
      /\ redeemed[o.voucher] # NoWallet => account = redeemed[o.voucher]
  BY <1>3, <1>4, <1>5, Numbers DEF RedemptionAccount, Redemptions
<1> HIDE DEF o, own, account
<1>7. Settled(redeemed, redeemed') /\ redeemed' \in Redemptions /\ redeemed'[o.voucher] = account
  BY <1>1, <1>3, <1>4, <1>6 DEF Settled, Redemptions
<1>8. /\ Kept(issued, issued') /\ issued' \in Logs
      /\ account # own => Fresh \in 1..Len(issued') /\ issued'[Fresh].wallet = account
  BY <1>2, <1>3, <1>4, <1>6, IssueKeeps, SameKept DEF AccessInv, Kept
<1>9. Added
  <2>1. sessions' \subseteq 1..Len(issued')
    BY <1>1, <1>3, <1>8 DEF AccessInv, BaseInv, SessionsInv, Kept, Logs
  <2> QED  BY <1>1, <1>7, <1>8, <2>1, AddedBase DEF AccessInv, BaseInv, SessionsInv
<1>10. o.cookie \in Known(issued') /\ NoSession \in Known(issued') /\ issued'[o.cookie].wallet = own
  BY <1>3, <1>4, <1>8, Numbers DEF Known, Kept, Logs, Wallet, own
<1>11. CASE account = own
  <2>1. request' = [request EXCEPT ![r] = stay]
    BY <1>2, <1>11
  <2>2. /\ stay.cookie = o.cookie /\ stay.sets = NoSession /\ stay.tells = o.cookie
        /\ stay.shows = account /\ stay.kind = "redeem" /\ stay.at = "answered"
        /\ stay.voucher = o.voucher
    BY <1>1, <1>3, <1>4 DEF RequestRecords
  <2>6. stay \in RequestRecords
    <3>1. o.cookie \in Nat /\ account \in Int
      BY <1>3, <1>6 DEF RequestRecords
    <3> QED  BY <1>3, <3>1, AnsweredTyped
  <2> HIDE DEF stay
  <2>3. RequestInv(issued', redeemed', running', stay)
    BY <1>4, <1>6, <1>7, <1>10, <1>11, <2>2 DEF RequestInv, RedeemedInv, Match
  <2>4. running' = running
    BY <1>1 DEF serverVars
  <2>5. RequestsInv'
    BY <1>9, <2>1, <2>3, <2>4, <2>6, AddedRequest DEF AccessInv, RequestsInv
  <2> QED  BY <1>1, <1>9, <2>5, AddedJar, AddedPages DEF AccessInv, Added
<1>12. CASE account # own
  <2>1. request' = [request EXCEPT ![r] = move]
    BY <1>2, <1>12
  <2>2. Fresh \in Known(issued') /\ Fresh \in Nat /\ Fresh # NoSession
    BY <1>8, <1>12, Numbers DEF Known
  <2>3. /\ move.cookie = o.cookie /\ move.sets = Fresh /\ move.tells = Fresh
        /\ move.shows = account /\ move.kind = "redeem" /\ move.at = "answered"
        /\ move.voucher = o.voucher
    BY <1>1, <1>3, <1>4 DEF RequestRecords
  <2>7. move \in RequestRecords
    <3>1. account \in Int
      BY <1>6
    <3> QED  BY <1>3, <2>2, <3>1, AnsweredTyped
  <2> HIDE DEF move
  <2>4. RequestInv(issued', redeemed', running', move)
    BY <1>4, <1>6, <1>7, <1>8, <1>10, <1>12, <2>2, <2>3 DEF RequestInv, RedeemedInv, Match
  <2>5. running' = running
    BY <1>1 DEF serverVars
  <2>6. RequestsInv'
    BY <1>9, <2>1, <2>4, <2>5, <2>7, AddedRequest DEF AccessInv, RequestsInv
  <2> QED  BY <1>1, <1>9, <2>6, AddedJar, AddedPages DEF AccessInv, Added
<1> QED  BY <1>11, <1>12

LEMMA LoadStep ==
    ASSUME AccessInv, NEW p \in Pages, Load(p)
    PROVE  AccessInv'
<1> DEFINE login == [Closed EXCEPT !.at = "login"]
           restoring == [Closed EXCEPT !.at = "restoring"]
<1>1. UNCHANGED <<clock, serverVars, sessions, loggedOut, redeemed, browser, jar>>
  BY DEF Load
<1>2. /\ issued \in Logs /\ redeemed \in Redemptions /\ running' = running
      /\ sessions \subseteq 1..Len(issued) /\ sessions \cap loggedOut = {}
      /\ Len(issued) \in Nat
  BY <1>1 DEF AccessInv, BaseInv, SessionsInv, serverVars, Logs
<1>3. ASSUME Kept(issued, issued') PROVE Added
  <2>1. sessions' \subseteq 1..Len(issued')
    BY <1>1, <1>2, <1>3 DEF Kept, Logs
  <2> QED  BY <1>1, <1>2, <1>3, <2>1, SameSettled, AddedBase DEF AccessInv
<1>4. ASSUME Added, NEW w \in {login, restoring}, page' = [page EXCEPT ![p] = w], RequestsInv'
      PROVE  AccessInv'
  <2>1. w \in PageRecords /\ PageInv(issued', w)
    BY <1>4, NothingOpen DEF Added, BaseInv
  <2> QED  BY <1>1, <1>4, <2>1, AddedJar, AddedPage DEF AccessInv, Added
<1>5. ASSUME Added, NEW r \in Requests, NEW q \in RequestRecords,
             RequestInv(issued', redeemed', running', q), request' = [Left(p) EXCEPT ![r] = q]
      PROVE  RequestsInv'
  BY <1>2, <1>5, LeftSound, AddedRequest
<1>6. ASSUME NEW r \in Requests, Valid(Cookie(p)), issued' = issued,
             request' = [Left(p) EXCEPT ![r] = SessionAnswer(p)],
             page' = [page EXCEPT ![p] = restoring]
      PROVE  AccessInv'
  <2>1. Added
    BY <1>2, <1>3, <1>6, SameKept
  <2> QED  BY <1>4, <1>5, <1>6, <2>1, SessionAnswerSound
<1>7. ASSUME NEW r \in Requests, running, Issue(Fresh),
             request' = [Left(p) EXCEPT ![r] = Welcome(p, "guest", Fresh)],
             page' = [page EXCEPT ![p] = restoring]
      PROVE  AccessInv'
  <2>1. Fresh \in Nat
    BY <1>2 DEF Fresh
  <2>2. /\ Kept(issued, issued') /\ Fresh \in 1..Len(issued')
        /\ issued'[Fresh].wallet = Fresh /\ issued' \in Logs
    BY <1>7, <2>1, IssueKeeps DEF AccessInv, Kept
  <2>3. Added
    BY <1>3, <2>2
  <2> DEFINE q == Welcome(p, "guest", Fresh)
  <2>4. q \in RequestRecords /\ RequestInv(issued', redeemed', running', q)
    BY <2>1, <2>2, WelcomeSound
  <2> QED  BY <1>4, <1>5, <1>7, <2>3, <2>4
<1>8. ASSUME issued' = issued, request' = Left(p), page' = [page EXCEPT ![p] = login]
      PROVE  AccessInv'
  <2>1. Added
    BY <1>2, <1>3, <1>8, SameKept
  <2>2. RequestsInv'
    <3>1. redeemed' = redeemed
      BY <1>1
    <3> QED  BY <1>2, <1>8, <3>1, LeftSound DEF RequestsInv
  <2> QED  BY <1>4, <1>8, <2>1, <2>2
<1> QED  BY <1>6, <1>7, <1>8 DEF Load

\* An answer arrives, or is lost.
LEMMA ArriveStep ==
    ASSUME AccessInv, NEW r \in Requests, NEW whole \in BOOLEAN, Arrive(r, whole)
    PROVE  AccessInv'
<1> DEFINE q == request[r]
<1>1. /\ q.at = "answered" /\ request' = [request EXCEPT ![r] = NoRequest]
      /\ jar' = [jar EXCEPT ![q.browser] = IF q.kind = "logout" THEN NoSession
                                           ELSE IF q.sets # NoSession THEN q.sets ELSE @]
      /\ UNCHANGED <<clock, serverVars, sessions, issued, loggedOut, redeemed, browser>>
  BY DEF Arrive, sessionVars
<1>2. /\ q \in RequestRecords /\ RequestInv(issued, redeemed, running, q)
      /\ issued \in Logs /\ running' = running
  BY <1>1 DEF AccessInv, RequestsInv, BaseInv, serverVars
<1>3. Added
  BY <1>1, SameKept, SameSettled, AddedBase DEF AccessInv, BaseInv, SessionsInv
<1>4. RequestsInv'
  <2>1. NoRequest \in RequestRecords /\ RequestInv(issued', redeemed', running', NoRequest)
    BY <1>1, <1>2, NothingOpen
  <2> QED  BY <1>1, <1>2, <1>3, <2>1, AddedRequest DEF AccessInv, RequestsInv
<1>5. JarInv'
  <2>1. /\ jar \in [Browsers -> Nat] /\ \A b \in Browsers : jar[b] \in Known(issued)
        /\ NoSession \in Known(issued) /\ NoSession \in Nat
        /\ q.sets \in Known(issued) /\ q.sets \in Nat
    BY <1>2, Numbers DEF AccessInv, JarInv, RequestInv, RequestRecords, Known, Logs
  <2> QED  BY <1>1, <2>1 DEF JarInv
<1>6. ASSUME q.page \in Pages, page' = [page EXCEPT ![q.page] = PageAfter(q, whole)]
      PROVE  PagesInv'
  <2> DEFINE w == PageAfter(q, whole)
             old == page[q.page]
  <2>1. old \in PageRecords /\ PageInv(issued, old)
    BY <1>6 DEF AccessInv, PagesInv
  <2>2. /\ q.tells \in Nat /\ q.shows \in Int /\ q.tells \in Known(issued)
        /\ Match(issued, q.tells, q.shows) /\ NoSession \in Known(issued)
    BY <1>2, Numbers DEF RequestInv, RequestRecords, Known, Logs
  <2>3. w \in {Closed, old}
           \/ w = [at |-> "workspace", csrf |-> q.tells, shows |-> q.shows]
           \/ w = [at |-> "workspace", csrf |-> NoSession, shows |-> NoWallet]
           \/ w = [old EXCEPT !.csrf = q.tells, !.shows = q.shows]
    BY DEF PageAfter
  <2> HIDE DEF w, old
  <2>4. w \in PageRecords /\ PageInv(issued, w)
    <3>1. CASE w \in {Closed, old}
      BY <1>2, <2>1, <3>1, NothingOpen
    <3>2. CASE w = [at |-> "workspace", csrf |-> q.tells, shows |-> q.shows]
      BY <2>2, <3>2 DEF PageRecords, PageInv
    <3>3. CASE w = [at |-> "workspace", csrf |-> NoSession, shows |-> NoWallet]
      BY <2>2, <3>3, Numbers DEF PageRecords, PageInv, Match
    <3>4. CASE w = [old EXCEPT !.csrf = q.tells, !.shows = q.shows]
      BY <2>1, <2>2, <3>4 DEF PageRecords, PageInv
    <3> QED  BY <2>3, <3>1, <3>2, <3>3, <3>4
  <2>5. page' = [page EXCEPT ![q.page] = w]
    BY <1>6 DEF w
  <2> QED  BY <1>1, <1>3, <1>6, <2>4, <2>5, AddedPage DEF AccessInv
<1>7. CASE UNCHANGED page
  BY <1>1, <1>3, <1>4, <1>5, <1>7, AddedPages DEF AccessInv, Added
<1>8. CASE /\ q.page # "none" /\ page' = [page EXCEPT ![q.page] = PageAfter(q, whole)]
  <2>1. q.page \in Pages
    BY <1>2, <1>8 DEF RequestRecords
  <2> QED  BY <1>3, <1>4, <1>5, <1>6, <1>8, <2>1 DEF AccessInv, Added
<1> QED  BY <1>7, <1>8 DEF Arrive

LEMMA FailStep ==
    ASSUME AccessInv, NEW r \in Requests, Fail(r)
    PROVE  AccessInv'
<1>1. /\ request' = [request EXCEPT ![r] = NoRequest]
      /\ UNCHANGED <<clock, serverVars, sessions, issued, loggedOut, redeemed, browser, jar>>
  BY DEF Fail, sessionVars
<1>2. Added /\ running' = running /\ issued \in Logs
  BY <1>1, SameKept, SameSettled, AddedBase DEF AccessInv, BaseInv, SessionsInv, serverVars
<1>3. RequestsInv'
  <2>1. NoRequest \in RequestRecords /\ RequestInv(issued', redeemed', running', NoRequest)
    BY <1>1, <1>2, NothingOpen
  <2> QED  BY <1>1, <1>2, <2>1, AddedRequest DEF AccessInv, RequestsInv
<1>4. PagesInv'
  <2>1. ASSUME NEW p \in Pages PROVE page'[p] \in PageRecords /\ PageInv(issued', page'[p])
    <3>1. page'[p] \in {Closed, [Closed EXCEPT !.at = "login"], page[p]}
      BY DEF Fail
    <3> QED  BY <1>1, <1>2, <3>1, NothingOpen DEF AccessInv, PagesInv
  <2>2. page' = [p \in Pages |-> page'[p]]
    BY DEF Fail
  <2> QED  BY <2>1, <2>2 DEF PagesInv
<1> QED  BY <1>1, <1>2, <1>3, <1>4, AddedJar DEF AccessInv, Added

-----------------------------------------------------------------------------
(* The theorems. *)

LEMMA AccessStep == AccessInv /\ [AccessNext]_accessVars => AccessInv'
<1> SUFFICES ASSUME AccessInv, [AccessNext]_accessVars PROVE AccessInv'
  OBVIOUS
<1>1. ASSUME NEW p \in Pages, NEW r \in Requests,
             \/ RefreshSession(p, r) \/ HandleLogin(p, r)
             \/ Admit(p, r, "act", "none") \/ Admit(p, r, "logout", "none")
             \/ \E v \in Vouchers : Admit(p, r, "redeem", v)
      PROVE  AccessInv'
  BY <1>1, RefreshStep, LoginStep, AdmitStep
<1>2. ASSUME NEW r \in Requests,
             \/ HandleAct(r) \/ HandleLogout(r) \/ HandleRedeem(r)
             \/ Arrive(r, TRUE) \/ Arrive(r, FALSE) \/ Fail(r)
      PROVE  AccessInv'
  BY <1>2, ActStep, LogoutStep, RedeemStep, ArriveStep, FailStep
<1>3. CASE UNCHANGED accessVars
  BY <1>3 DEF AccessInv, BaseInv, JarInv, PagesInv, RequestsInv, WiredInv, SessionsInv,
              accessVars, serverVars, sessionVars
<1> QED  BY <1>1, <1>2, <1>3, TickStep, StartStep, StopStep, LoadStep DEF AccessNext

\* The invariant is inductive.
THEOREM AccessInvariant == AccessSpec => []AccessInv
BY AccessInitial, AccessStep, PTL DEF AccessSpec

\* A request that was let in acts for the wallet its page showed.
THEOREM RequestsActForShownWallet == AccessSpec => []ActsForShownWallet
<1>1. AccessInv => ActsForShownWallet
  BY DEF AccessInv, RequestsInv, RequestInv, AdmittedInv, ActsForShownWallet, Wallet
<1> QED  BY <1>1, AccessInvariant, PTL

\* The answer to a redemption leaves browser and page with the code's wallet.
THEOREM CodesOpenTheirWallet == AccessSpec => []CodeOpensItsWallet
<1>1. ASSUME AccessInv, NEW r \in Requests, request[r].at = "answered", request[r].kind = "redeem"
      PROVE  LET q == request[r]
                 session == IF q.sets # NoSession THEN q.sets ELSE q.cookie IN
             /\ Wallet(session) = redeemed[q.voucher]
             /\ q.tells = session
             /\ q.shows = redeemed[q.voucher]
  <2> DEFINE q == request[r]
             session == IF q.sets # NoSession THEN q.sets ELSE q.cookie
  <2>1. RequestInv(issued, redeemed, running, q)
    BY <1>1 DEF AccessInv, RequestsInv
  <2>2. RedeemedInv(redeemed, q) /\ Match(issued, q.tells, q.shows)
    BY <1>1, <2>1 DEF RequestInv
  <2>3. session # NoSession /\ q.tells = session /\ redeemed[q.voucher] = q.shows
    BY <2>2 DEF RedeemedInv
  <2> HIDE DEF session
  <2>4. Wallet(session) = q.shows
    BY <2>2, <2>3 DEF Match, Wallet
  <2> QED  BY <2>3, <2>4 DEF session
<1>2. AccessInv => CodeOpensItsWallet
  BY <1>1 DEF CodeOpensItsWallet
<1> QED  BY <1>2, AccessInvariant, PTL

\* A private session that was logged out is never let in again.
THEOREM LoggedOutForGood == AccessSpec => LoggedOutStaysOut
<1> DEFINE KeptOut == \A r \in Requests :
               request[r].at # "admitted" /\ request'[r].at = "admitted"
                   => request'[r].cookie \notin loggedOut
<1>1. ASSUME AccessInv, NEW r \in Requests, request \in [Requests -> RequestRecords],
             request[r].at # "admitted", request'[r].at = "admitted",
             NEW p \in Pages, NEW o \in Requests, NEW kind, NEW v, Admit(p, o, kind, v)
      PROVE  request'[r].cookie \notin loggedOut
  <2>1. /\ request' = [request EXCEPT ![o] =
               [By(p, kind, "admitted") EXCEPT !.voucher = v, !.cookie = Cookie(p),
                                               !.for = page[p].shows]]
        /\ Valid(Cookie(p)) /\ CSRFHolds(p) /\ Offered(p, kind)
    BY <1>1 DEF Admit
  <2>2. r = o /\ request'[r].cookie = Cookie(p)
    BY <1>1, <2>1 DEF By, NoRequest
  <2>3. Cookie(p) \notin loggedOut
    <3>1. ASSUME Cookie(p) \in loggedOut PROVE FALSE
      <4>1. Cookie(p) \notin sessions /\ Wallet(Cookie(p)) = Admin
        BY <1>1, <3>1 DEF AccessInv, BaseInv, SessionsInv, Wallet
      <4> QED  BY <2>1, <4>1, RememberedFewer DEF Valid
    <3> QED  BY <3>1
  <2> QED  BY <2>2, <2>3
<1>2. ASSUME AccessInv, [AccessNext]_accessVars, NEW r \in Requests,
             request[r].at # "admitted", request'[r].at = "admitted"
      PROVE  request'[r].cookie \notin loggedOut
  <2>1. request \in [Requests -> RequestRecords]
    BY <1>2 DEF AccessInv, RequestsInv
  <2>2. \E p \in Pages, o \in Requests, kind \in {"act", "logout", "redeem"}, v \in Vouchers \cup {"none"} :
            Admit(p, o, kind, v)
    <3>1. NoRequest.at = "idle"
      BY DEF NoRequest
    <3>2. ASSUME NEW p \in Pages
          PROVE  SessionAnswer(p).at = "answered"
                 /\ \A kind, w : Welcome(p, kind, w).at = "answered"
      BY DEF SessionAnswer, Welcome, By, NoRequest
    <3>3. ASSUME NEW p \in Pages, NEW o \in Requests,
                 RefreshSession(p, o) \/ HandleLogin(p, o)
          PROVE  FALSE
      BY <1>2, <2>1, <3>2, <3>3 DEF RefreshSession, HandleLogin
    <3>4. ASSUME NEW p \in Pages PROVE Left(p)[r].at # "admitted"
      BY <1>2, <2>1, <3>1 DEF Left, RequestRecords
    <3>5. ASSUME NEW p \in Pages, Load(p) PROVE FALSE
      <4>1. \/ \E o \in Requests :
                   \/ request' = [Left(p) EXCEPT ![o] = SessionAnswer(p)]
                   \/ request' = [Left(p) EXCEPT ![o] = Welcome(p, "guest", Fresh)]
            \/ request' = Left(p)
        BY <3>5 DEF Load
      <4>2. r \in DOMAIN Left(p)
        BY DEF Left
      <4> QED  BY <1>2, <3>2, <3>4, <4>1, <4>2
    <3>6. ASSUME NEW o \in Requests,
                 \/ HandleAct(o) \/ HandleLogout(o) \/ HandleRedeem(o)
                 \/ Arrive(o, TRUE) \/ Arrive(o, FALSE) \/ Fail(o)
          PROVE  FALSE
      BY <1>2, <2>1, <3>1, <3>6
         DEF HandleAct, HandleLogout, HandleRedeem, Arrive, Fail, RequestRecords
    <3>7. CASE Stop
      BY <1>2, <3>1, <3>7 DEF Stop
    <3>8. request' # request
      BY <1>2
    <3> QED  BY <1>2, <3>3, <3>5, <3>6, <3>7, <3>8 DEF AccessNext, Tick, Start, accessVars
  <2> QED  BY <1>1, <1>2, <2>1, <2>2
<1>3. AccessInv /\ [AccessNext]_accessVars => KeptOut
  BY <1>2
<1> HIDE DEF KeptOut
<1>4. AccessSpec => [][KeptOut]_accessVars
  BY <1>3, AccessInvariant, PTL DEF AccessSpec
<1> QED  BY <1>4 DEF KeptOut, LoggedOutStaysOut

\* A public server that runs can be paid, can verify what its pages can show,
\* and stores its artifacts.
THEOREM PublicServersAreComplete == AccessSpec => []NeverHalfConfigured
<1>1. AccessInv => NeverHalfConfigured
  <2> SUFFICES ASSUME WiredInv, running, server.public
               PROVE  /\ server.checkout \/ server.vouchers
                      /\ server.verifier \in {"altcha", "turnstile"}
                      /\ server.verifier = "turnstile" => server.siteKey
                      /\ server.store
    BY DEF AccessInv, BaseInv, NeverHalfConfigured
  <2>1. PICK e \in Environments : Starts(e) /\ server = Wire(e)
    BY DEF WiredInv
  <2>2. e.public /\ PublicReady(e)
    BY <2>1 DEF Wire, Starts, Loads
  <2> QED  BY <2>1, <2>2 DEF Wire, PublicReady, R2Enabled, ChallengeProvider
<1> QED  BY <1>1, AccessInvariant, PTL
=============================================================================
