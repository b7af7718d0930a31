# pdf2Epub: TLA+ models and proofs

pdf2Epub is a Go server that turns uploaded PDFs into EPUBs, one conversion at a
time, in one of two modes: *private*, for one account, and *public*, for guests
who pay a credit per conversion. This directory holds TLA+ models of it, the
configurations under which TLC checks them, and proofs that TLAPS checks. Paths
below are relative to `src/`.

Contents: 1 the system, 2 the modules, 3 the runs, 4 fairness, 5 the proofs,
6 where code and documents disagree, 7 what is not modelled, 8 what could come next.

## 1. The system

### 1.1 Components

| Component | State it keeps | Operations | Hard parts |
|---|---|---|---|
| `domain.Job` (`internal/domain/job.go`) | status, stage, artifact of one job | Start, ReportProgress, Succeed, Fail, Cancel | called by worker, cancels and shutdown in any order |
| `app.Manager` (`internal/app/manager.go`) | slots, bounded queue, table of jobs, one worker, timers, work directory | Submit, cancel, worker loop, finish, retention, Close | concurrency at every lock, channel and call |
| `commerce.Service` (`internal/commerce/service.go`) | balances, ledger, charges, orders, payment events in a bbolt file | AuthorizeJob, RecordJobOutcome, CreateCheckout, HandleWebhook, RedeemVoucher, reconcile on Open | repeated and reordered callbacks, crashes |
| server wiring (`cmd/btc-server/main.go`) | none of its own | chooses the parts, connects manager and billing; order of the deferred closes | two states, one in memory and one on disk |
| R2 store (`internal/artifactstore/r2.go`) | the bucket (remote) | Publish, Delete, signed URLs | an error does not mean that nothing happened |
| Stripe gateway (`internal/commerce/stripe.go`) | the provider's sessions (remote) | create a session, verify a callback | lost answers, late callbacks |
| voucher codec (`internal/commerce/voucher.go`) | none | sign and parse codes | a code is presented again, elsewhere |
| HTTP API (`internal/httpapi/api.go`, `ui.go`) | none | one handler per route | checks that are stale when used |
| upload tickets (`internal/httpapi/tickets.go`) | table of one-time tickets | Issue, Consume, clean-up | two requests with one ticket |
| request limiter (`internal/httpapi/limiter.go`) | token buckets, time of the last trim | Allow | clock read outside of the lock, buckets dropped |
| sessions (`internal/auth/session.go`) | private sessions; guests are stateless | Login, CreateGuest, Validate, Logout | several tabs share a cookie; answers get lost; restarts |
| challenges (`internal/abuse/`) | the used ALTCHA challenges | Issue, Verify | two readings of the clock |
| configuration (`internal/config/config.go`) | none | Load | settings inferred from each other, two modes |
| converter (`internal/converter/service.go`) | one conversion's pages, warnings, output | Convert | cancel between any two steps, limits, lines from fragments |
| text reconstruction (`internal/conversion/`) | none | lines to sections, outline | joins across pages, thresholds |
| EPUB writer (`internal/epub/writer.go`) | the output file | Write, ValidateStructure | indexes from pages to sections |
| web client (`internal/httpapi/web/app.js`) | current job, timer, requests in flight | submit, upload, poll, cancel, reload | answers out of order |
| packaging (`Dockerfile`, `compose.yaml`) | none | none | none |

### 1.2 How they interact

A browser solves a challenge, gets an upload *ticket* for it, and uploads the PDF
with the ticket. The handler looks at the balance, uses the ticket up and calls
`SubmitFor`. That call takes a *slot*, has the ledger charge a credit
(`AuthorizeJob`), copies the body to the job's directory, and, under the
manager's lock, registers the job and sends its id to the queue. One worker
goroutine takes jobs from the queue and runs the converter under a context with a
deadline; progress is reported into the `Job`. A finished EPUB is published to
R2, or kept as a local file where R2 is optional. `finish` tells the ledger the
outcome (a credit is kept for a delivered job and given back for any other),
gives the slot back, closes the job's `done` channel and sets the retention
timer. A cancel marks the job, cancels its context if it has one, and waits for
`done`; a job still in the queue is settled at once. On shutdown `main` closes
the manager, which cancels everything and waits for the worker, and then the
ledger. After a crash the next start gives back every credit that is still
reserved. The page polls its current job every two seconds.

A guest's wallet is whatever account the session in the browser's cookie names.
Redeeming a code that was redeemed before opens the wallet it was redeemed for: the
server answers with a new session, and the cookie of the browser, which its other
tabs share, changes. Every request that changes something carries the CSRF token of
the session its page knows, and is refused if the cookie has another.

### 1.3 What would make it wrong

* A slot leaks or is given back twice; the send under the manager's lock blocks;
  a submission sends on the channel that Close has closed (a panic).
* Succeed, Fail, Cancel and Close disagree about how a job ended; billing is told
  something else than the job's final status.
* A cancel returns while the conversion goes on, or never returns.
* A succeeded job shows an artifact that is gone; an object stays in the bucket
  that nobody will ever delete.
* A credit is lost, refunded twice, or kept for a job that was not delivered,
  across repeated callbacks, errors that are only logged, and restarts.
* The limiter allows more than its rate; a ticket or a challenge works twice.
* A line of the PDF is missing from the book, or in it twice; an entry of the
  table of contents leads elsewhere; a delivered file is cut off or lacks a page.
* The page waits for ever for a job that has ended, or has a cancel button that
  reaches another upload than the one that is running, or none.
* A request is charged to another wallet than the one its page shows; a code moves
  credits from the wallet it was redeemed for; a session works after its log-out.
* An order is paid for which no money came, or money came and no credit.
* A server starts for the public without a way to pay, to verify, or to store.

`PROJECT.json` lists these hazards one by one, each at its line, with the
properties that would catch it.

## 2. The modules

    JobLifecycle
        ^ implements
    DomainJob <- JobManager <- Downloads <- JobManagerProofs <- PaidJobsProofs
                  ^    ^           ^
                  |    |       MCDownloads (<- MCJobManager)
                  |    MCJobManager
                  |
              PaidJobs --- INSTANCE ---> CreditLedger <- StripeGateway <- MCCreditLedger
                  |  ^                     ^                  ^
       implements v  MCPaidJobs       CreditLedgerProofs <- StripeGatewayProofs
      PrepaidConversions

    TextRebuild <- PageText <- Conversion <- MCConversion, ConversionProofs
    Configuration <- Access <- MCAccess, AccessProofs
    RequestLimiter <- MCRequestLimiter, RequestLimiterProofs
    UploadGate <- MCUploadGate, UploadProofs
    WebClient <- MCWebClient, UploadProofs

`PaidJobsProofs` EXTENDS `PaidJobs` too, and takes what is known of the ledger as
an INSTANCE of `CreditLedgerProofs`. An arrow `A <- B` is EXTENDS. Next to some definitions stands a *mutated form*
(`SlotFreeOffByOne` before `SlotFree`): the same operator with a plausible bug.
No specification uses one; each shows that some property would notice the bug.

### DomainJob and JobManager

`DomainJob` has one operator per method of `domain.Job`, from the snapshot it
finds to the one it leaves: a method holds the job's lock throughout.

`JobManager` is the manager as interleaved processes. A critical section, a
channel operation or a call out is one step, so that every other goroutine can
come between two of them.

| Process | Variables | Actions, in order |
|---|---|---|
| `SubmitFor`, one per job id | `submit` | `BeginSubmit` (first look at `closed`), `TakeSlot`, `Authorize`, `Stage` (directory and copy), `Enqueue` (second look, registration and send); on an error `AbortSubmit` and `ReleaseSubmit`, the two deferred functions |
| worker | `worker`, `current`, `product` | `Dequeue`, `CheckCanceled`, `Attach`, `StartJob`, `Report`, `Convert`, `AfterConvert`, `Publish`, `SucceedJob`, `Drop`, `Remove`, then `finish` as `FinishNotify`, `FinishRelease`, `FinishSignal`; `ExitWorker` |
| `cancel`, one per canceler | `cancel`, `target`, `acked` | `CancelLookup`, `CancelMark`, `CancelReread`, then `CancelNotify` or `CancelWait` |
| timers, per job | `timer`, `cancelFn` | `Expire` (deadline), `RetentionDelete`, `RetentionForget` |
| `Close` | `closer`, `closed` | `BeginClose`, `Sweep` |

Shared state: `slots` and `queue` (the two channels), `jobs` (the keys of the
table), `snap`, `done` (closed channels), `disk`, `bucket`, `outcomes` (what
`OnJobOutcome` was called with). `stray` is history: objects that the store kept
although it answered with an error. The store may do that on Publish and Delete;
the converter may return anything at any time.

`JobLifecycle` is what the manager promises: a bounded line of jobs of which only
the first is converted, each of which ends once and leaves the line after it has
ended. `JobManager` maps its state onto it (`Lifecycle`): a job is visible once it is
accepted, and the line is the job that holds a slot at the worker, followed by the
queue.

### Downloads

A download is `Lookup` (the entry, under the lock), `TakeSnapshot` (status and
artifact, and the signing of a URL, which may fail) and `Fetch` (the file is
opened, or the browser follows the URL). Nothing is held between these steps, so
the worker, the retention timer and shutdown go on.

### CreditLedger and StripeGateway

One action per transaction (bbolt runs one `Update` at a time, as a whole).
`CreateCheckout` is `BeginCheckout`, the provider, and `BindSession`, since its
two transactions have a remote call between them. The ledger maps references
(`job:`, `refund:`, `order:`, `voucher:`) to the account of the entry; the
reference fixes amount and reason. `RestartService` is a crash or a stop
anywhere, followed by `Open` with its `reconcileOpenCharges`. The provider opens
at most one session for an order (the order is the idempotency key); of the
callbacks the ledger assumes only that they are in `Events`.

`StripeGateway` puts the provider behind it. External actions say what happens
to a session there (`Complete`, with a payment that is done, unneeded or pending;
`Expire`; `PendingPaid`; `PendingFails`) and what callback is written about it.
`ReceiveWebhook` is the handler with `VerifyWebhook`: it accepts a signed callback
of acceptable age, at any time, repeatedly and in any order, and `Paid` decides
from its type and payment status.

### PaidJobs and PrepaidConversions

The manager and the ledger together, as `main` wires them in public mode. Each
step of `JobManager` that calls billing is conjoined with the step of
`CreditLedger`: `Charge`, and `TellOutcome` for the three places that report an
outcome. A transaction may fail (`Fault`), which refuses an upload or leaves an
outcome unrecorded, because `main` only logs the error. `CloseLedger` comes after
`Close` has returned, and uploads or cancels whose requests outlive the HTTP
server's shutdown may still call a closed ledger. `Restart` loses the manager's
memory and work directory and keeps ledger and bucket.

`PrepaidConversions` is what a wallet is promised, without processes, files or
queues: a credit is reserved before a conversion begins, kept if it produced an
EPUB, given back if it did not, and only a crash may give back the credit of one
that did. `PaidJobs` maps its state onto it (`Promise`).

### RequestLimiter

`ReadClock` and `Allow` are two steps, as in the code: requests are decided in
another order than they read the clock, and the elapsed time may be negative.
Time and tokens are whole numbers; the code's are fractions, and the arithmetic
is the same. `Skew` bounds how long a request is between its two steps.
`TrimAssumption` says that an idle bucket has refilled when it is dropped, which
the limits in `NewWithOptions` satisfy by far.

### UploadGate

A request stops at each lock and each reading of the clock. Verification of a
challenge has three steps: the library checks the proof under its own clock, the
code reads the clock, and the lock is taken. Tickets, the look at the balance and
the charge follow. Manager and ledger are one step here (`Submit`), since
`PaidJobs` has the detail.

### TextRebuild, PageText and Conversion

`TextRebuild` has the pure functions of `internal/conversion` and the mapping from
pages to sections in `internal/epub`: running titles and page numbers, headings,
list items, paragraphs, the join of a paragraph across pages, the inferred
outline. Texts are values; four sets say which of the code's patterns a text
matches, and `ItemText` what `listPrefix` leaves of a list item: the code cuts its
marker or number off (`Wording`), and the EPUB's own list marks take its place.

`PageText` is `plainTextToLines`: the engine gives a page twice, as plain text and
as rectangles with position and font. Those that are `Visible` are put into rows one
after the other (`Rows`, `Placed`, with the tolerance of the code and its look at the
last four rows only), each row is sorted by insertion (`FromLeft`), and its words are
joined with or without a space (`NeedsSpace`). A line of the plain text takes its
`Looks`, size and break, from the last row that reads the same, or else what is in the
`Middle` of the page. Positions are whole points. `Spelling` gives the words of a text.

`Conversion` is `converter.Service.Convert` around them: the choice of a layout
from sampled pages, the loop over pages with its reports and its looks at the
context, which pages are refused, the writing and the checks of the file. That file
is *none*, *partial* or *whole*: every error removes it, if the removal works, except
that of the last `Stat` (`StatFails`), which leaves it where it is. `ValidateEPUB`
looks at the context only if it runs a checker: without a command, or without one
that is found, and with no check required (`RequireEPUBCheck`), a canceled conversion
may succeed (`Succeed`). The manager refuses the success of a job it has canceled
(`TerminalIsFinal`) and removes whatever a failure leaves (`StartedJobIsCleaned`).

### Configuration and Access

`Configuration` has the cross-checks of `config.Load` as predicates on an
environment (`PaymentProvider` and `ChallengeProvider` are the two inferences,
`PublicReady` what the public mode requires), what the constructors called by
`main` refuse in addition (`Starts`), and which parts the server then has (`Wire`).

`Access` is who a request acts for. Browsers have a cookie (`jar`), pages know a
CSRF token and show a wallet, and requests are *admitted* by `withSession`,
handled, *answered*, and arrive, perhaps without their body (`Arrive(r, FALSE)`)
or not at all (`Fail`). A server starts with any acceptable environment, stops
anywhere, and starts again with another one; private sessions are in memory,
guests' are signed with the secret of the process. `HandleRedeem` may open a
session for another wallet. A page that is left behind still has requests under
way whose answers set the cookie.

### WebClient

The page's variables (`state` in app.js), requests in flight that may be answered
in any order or fail, and the timers, those included whose handle was overwritten
(`strays`). `panel` says whose state is on display, because the end of *any* job
lets the user submit again; `button` is the cancel button, hidden or not and disabled
or not, as each handler leaves it, and `CancelUsable` whether it can be pressed. The
end of any job or upload hides it, and a progress event (`UploadProgress`) brings it
back. A reload either shows the workspace and asks for the stored job, or shows the
login panel (`workspace`): without a session, or, with the identifier of the job kept
and no request for it, after an error of `restore`; `Login` leads on. The server is
reduced to *absent, running, ended* for each job, and to whose body it has received.
An upload asks for a ticket first, as in a public installation; a private one, the only
one with a log-in, goes on to send the file at once, which is one of the orders here.

## 3. The runs

All bounds are in the `.cfg` files and the `MC` modules. The state counts are
distinct states.

| Run (module, cfg) | Instance | States |
|---|---|---|
| `manager_races` (MCJobManager, ManagerRaces) | public, 2 jobs, 2 cancels at once, 2 slots | 270,720 |
| `manager_private` (MCDownloads, ManagerPrivate) | private with an optional store, 2 jobs, 1 cancel, 2 slots, 1 download | 451,322 |
| `manager_liveness` (MCJobManager, ManagerLiveness) | private, no store, 2 jobs, 1 cancel, 1 slot | 79,349 |
| `manager_source_left` (MCJobManager, ManagerSourceLeft) | public, 1 job, 1 cancel, 1 slot | counterexample |
| `credit_ledger` (MCCreditLedger, CreditLedger) | 2 accounts, 2 jobs, 2 orders, 2 sessions, 1 voucher, all callbacks of Stripe, 3 ages of a signature | 80,568 |
| `paid_jobs` (MCPaidJobs, PaidJobs) | 2 jobs of one wallet, 1 cancel, 1 slot, 1 voucher of 2 credits, 1 restart, 1 failing transaction | 642,327 |
| `request_limiter` (MCRequestLimiter, RequestLimiter) | 2 requests under way, 2 keys, rate 2, burst 2, 5 units of time | 1,222,128 |
| `upload_gate` (MCUploadGate, UploadGate) | 2 requests, 2 subjects, 2 challenges, 2 tickets, 1 credit each | 784,733 |
| `conversion` (MCConversion, Conversion) | every PDF of up to 3 pages from 11 kinds of page, all modes | 188,126 |
| `conversion_gallery` (MCConversion, ConversionGallery) | up to 2 pages, 1 illustration to a page | counterexample |
| `web_client` (MCWebClient, WebClient) | 3 submissions, 2 polls in flight, 1 cancel, 1 reload | 319,598 |
| `access` (MCAccess, Access) | 2 tabs in 1 or 2 browsers, 2 requests at once, 1 code, 2 starts, 3 sessions, 3 loads | 751,201 |

What they show, and why the bounds are enough to see it:

* **manager_races.** However the worker, two cancels of the same or of different
  jobs, deadlines, retention and shutdown interleave: the final status and
  artifact of a job never change (`TerminalIsFinal`), billing hears only that
  status (`OutcomeIsFinal`), a job whose `done` is closed has ended and been
  reported (`DoneIsSettled`), no work goes on after a cancel returned
  (`CancelStopsWork`), every object in the bucket has somebody who will delete it
  (`NoUntrackedObject`), and shutdown leaves nothing (`CloseLeavesNothing`). Two
  jobs are one at the worker and one behind it; two cancels race for one job.
  `TypeOK` is the type invariant.
* **manager_private.** A local EPUB survives the clean-up after a failed publish
  (`SucceededIsDeliverable`), a started job leaves nothing else
  (`StartedJobIsCleaned`), a download that was answered gets its EPUB unless
  retention or shutdown has begun meanwhile (`AnsweredIsServed`; without the
  exception it is false, since a signed URL holds nothing), and the manager
  implements `JobLifecycle` (`ImplementsLifecycle`). A download that has been
  served begins again, so one at a time is enough.
* **manager_liveness.** With more uploads than slots: the slots taken are those
  of the jobs that hold one (`SlotAccounting`), the send under the lock finds room
  (`SendNeverBlocks`), nothing is sent on a closed channel
  (`NothingEnqueuedAfterClose`), and cancels, accepted jobs and shutdown come to
  an end (`CancelCompletes`, `JobsSettle`, `CloseCompletes`). No symmetry is used
  here, as it is not sound for liveness.
* **credit_ledger.** Balances are never negative (`CreditTypeOK`) and are what was
  bought and redeemed less the jobs that run or were delivered
  (`BalanceIsAccounted`); charges, orders and ledger agree (`RecordsMatchLedger`);
  settled charges, paid orders and entries never change (`RecordsAreFinal`). An
  order is paid only if Stripe has the money, and is paid once the service has
  acknowledged the callback that tells so (`CreditsFollowPayment`). The second
  order and account are what the first can be confused with. The run checks the
  ledger behind the gateway, where a paid order has no failed callback; the proofs
  about `CreditLedger` show it for any callbacks in any order, so for both of one
  order, too.
* **paid_jobs.** Manager and ledger together implement `PrepaidConversions`
  (`ImplementsPromise`); a waiting or running job has its credit reserved
  (`RunningIsReserved`); after a clean shutdown nothing that was accepted is open
  (`ShutdownSettles`). With one restart and one fault, both can hit any step.
* **request_limiter.** No stretch of time sees more requests allowed than burst
  plus rate (`RateIsBounded`), and a bucket decides exactly as one that forgets
  nothing (`BucketsForgetNothing`). Five units of time hold two trims and a
  bucket that is dropped and made again.
* **upload_gate.** No balance is overdrawn although the look at it is stale
  (`GateTypeOK`), every upload was earned by an accepted challenge of its own
  subject (`UploadsAreEarned`), and a valid challenge is accepted once
  (`AcceptedOnceWhileValid`). Challenges and tickets live for two of four units
  of time, so both expire while a request holds one.
* **conversion.** A book has every line of the PDF once and in order, but for
  running titles and page numbers; a list item is told without its marker or number,
  unless it makes a heading, and nothing else of it is lost (`NothingIsLost`). The outline leads to the
  headings, and the headings are the lines that stand out in the PDF, although
  the engine gives fonts only for fragments of them (`OutlineLeadsToHeading`, with
  `HeadingsStandOut`): every heading has the words of one, or a fragment that is set
  large, or is unknown to the fragments on a page that is large throughout; and on a
  page that is laid out clearly (`Clear`), a line is a heading wherever on it the
  large fragment stands and in whatever order its fragments came. A line is there
  what the positions say (`OnLine`), not what the code made of them; where its spaces
  go is what `NeedsSpace` says on both sides. Without `Clear` the second half is
  false: two lines that overlap are one row to the code, and one of the pages has
  such lines. A success, that of a canceled conversion too, has the whole file with a
  section for every page, and, but for the first page and what the limit of regions
  hides, no scan without text (`DeliveredIsComplete`); progress never goes back
  (`ProgressMovesOn`). `RequireEPUBCheck` is FALSE here, which includes all behaviours
  with a check; it is TRUE in `conversion_gallery`. Three
  pages are the least for a running title and for a paragraph that is joined over
  two page breaks; two sampled pages leave one out. Fragments come level and not
  quite level, in and out of order, padded, blank, and without a font. The run also
  compares `Middle` with the sort and the index of the code, for all lists of up to
  six sizes.
* **web_client.** A press of the cancel button reaches the upload that began last, and
  no other, although an earlier one is still being sent and ends in between; and the
  button can be pressed as long as the upload goes on, but for the case that the end
  of another job or upload has hidden it (`CancelReachesUpload`). This takes three
  submissions, the end of the first of which lets the second and third overlap. The
  exception happens in the run: a late answer about an earlier job hides the button,
  and no progress event comes once the body is sent. The end of the current job is
  shown, unless the page forgets or leaves the job, or a failed reload has left it at
  the login panel, until the log-in (`EndIsShown`).
* **access.** A request that was let in acts for the wallet its page shows
  (`ActsForShownWallet`), the answer to a redemption leaves cookie and page with
  the wallet of the code (`CodeOpensItsWallet`), a session that was logged out is
  not let in again (`LoggedOutStaysOut`), and a public server that runs has all its
  parts (`NeverHalfConfigured`). Two tabs of one browser, or of two, and two
  requests at once are what a cookie can be changed under; three sessions are two
  guests and the one a redemption opens. Each environment is one of three complete
  ones with one setting wrong.

**Deadlock.** `credit_ledger` checks it. The others set `CHECK_DEADLOCK FALSE`: a
manager that is closed does nothing more, a conversion ends, clocks, sessions and
loads stop at their bounds, and a user may do nothing. Where the system must not
stop short, the liveness properties say so.

**Symmetry.** Jobs, cancelers, readers, requests, keys, subjects, challenges,
tickets, pages, browsers and vouchers are interchangeable where a run has no
liveness property.

**Mutants.** Every property of every passing run is shown to fail for a mutated
definition of the model, listed in `PROJECT.json`: a dropped guard, a stale read,
a missing release, an off-by-one.

## 4. Fairness

`JobManager!Fairness` assumes that goroutines are scheduled and that timers fire:

* a submission that has begun goes on, unless the client never began it. The copy
  of the body ends because the server has a read timeout;
* the worker's own steps happen. `Convert` and `Publish` are fair only once the
  context of the job is done: a converter or store may hang until then, and
  nothing but the deadline (`Expire`, fair) ends that;
* a cancel that has marked the job goes on; retention timers fire; `Close` goes on
  when the worker has exited.

Nothing makes a client submit or cancel, or an operator stop the server. Each
condition is weak fairness on the steps of one process together, since the next
step of a process stays enabled until it is taken: sends on the queue and receives
from the slots never block (`SendNeverBlocks`, `SlotAccounting`), and a closed
`done` channel stays closed.

`WebFairness` assumes that a pending timer fires, that a poll is answered and that
its answer arrives or it fails. About users, their log-ins, uploads and jobs it assumes
nothing.

## 5. The proofs

TLAPS proves the following for every value of the constants: any set of jobs,
cancels, downloads, wallets, vouchers, restarts, faults, pages, browsers, requests,
keys and challenges, any queue capacity, both modes, any rates and lifetimes, and
any documents.

| Module | Theorem | What it states |
|---|---|---|
| `JobManagerProofs` | `TypeCorrect` (`TypeOK`) | The manager's state keeps its types for any jobs, cancelers, capacity and mode; billing is told terminal statuses only. |
| `JobManagerProofs` | `SlotsAccounted` (`SlotAccounting`) | The slots taken are exactly those of the submissions under way, the queued jobs and the job at the worker: none is leaked or released twice. |
| `JobManagerProofs` | `SendsFindRoom` (`SendNeverBlocks`) | A submission that may send finds room in the channel, so the send under the manager's lock never waits. |
| `JobManagerProofs` | `ClosedQueueOnlyShrinks` (`NothingEnqueuedAfterClose`) | Nothing is sent on the queue once Close has closed it. |
| `JobManagerProofs` | `EndsAreFinal` (`TerminalIsFinal`) | A terminal status and its artifact never change again, whichever of Succeed, Fail, Cancel and Close comes first. |
| `JobManagerProofs` | `OutcomesAreFinal` (`OutcomeIsFinal`) | Billing hears about an accepted job only the status it ends with, however often, and failed about a rejected one. |
| `JobManagerProofs` | `DoneJobsAreSettled` (`DoneIsSettled`) | A job whose done channel is closed has ended and was reported. |
| `JobManagerProofs` | `CancelsStopWork` (`CancelStopsWork`) | When a cancel has returned, the job is not being converted and will not be. |
| `CreditLedgerProofs` | `CreditTypeCorrect` (`CreditTypeOK`) | No balance becomes negative and every bucket keeps its type, for any accounts, jobs, orders, vouchers and callbacks. |
| `CreditLedgerProofs` | `BalancesAccounted` (`BalanceIsAccounted`) | Every balance is what was bought and redeemed less the jobs that run or were delivered. |
| `CreditLedgerProofs` | `RecordsMatch` (`RecordsMatchLedger`) | Charges and orders agree with the ledger: a charged job has its debit, a refunded one its refund, each once, and an order is paid exactly when its account was credited for it. |
| `CreditLedgerProofs` | `RecordsFinal` (`RecordsAreFinal`) | A settled charge, a paid order and an entry of the ledger never change again, whatever is repeated, late or reordered. |
| `StripeGatewayProofs` | `StripeImplementsLedger` | Behind the real webhook the ledger takes only steps it takes for any provider, so everything proved of the ledger holds with Stripe. |
| `StripeGatewayProofs` | `CreditsAndMoney` (`CreditsFollowPayment`) | No order is paid in the ledger for which Stripe has not taken the money, whatever callbacks are repeated, late or reordered. |
| `JobManagerProofs` | `StartedJobsAreCleaned` (`StartedJobIsCleaned`) | On every way through run a started job leaves no copy of the PDF when it is done, and nothing at all unless it succeeded. |
| `JobManagerProofs` | `SucceededAreDeliverable` (`SucceededIsDeliverable`) | What a succeeded job shows is in its directory or in the store until retention or Close takes it away. |
| `JobManagerProofs` | `ObjectsAreTracked` (`NoUntrackedObject`) | Every object is the artifact of a job that will be forgotten, or is about to be one or dropped, unless the store kept it and answered with an error. |
| `JobManagerProofs` | `NothingLeftAfterClose` (`CloseLeavesNothing`) | When Close has returned neither files nor objects remain, and no late submission brings any back. |
| `RequestLimiterProofs` | `RateBounded` (`RateIsBounded`) | No stretch of time sees more requests of a key allowed than burst and rate give, for any rate, burst, clock skew and number of requests under way. |
| `RequestLimiterProofs` | `NothingForgotten` (`BucketsForgetNothing`) | Dropping idle buckets never shows: a request is refused exactly if a stretch of time is used up. |
| `AccessProofs` | `RequestsActForShownWallet` (`ActsForShownWallet`) | A request that was let in acts for the wallet its page showed, whatever other tabs did to the cookie, for any browsers, pages and requests. |
| `AccessProofs` | `CodesOpenTheirWallet` (`CodeOpensItsWallet`) | The answer to a redemption leaves cookie and page with the wallet the code belongs to. |
| `AccessProofs` | `LoggedOutForGood` (`LoggedOutStaysOut`) | A private session that was logged out is never let in again, whatever log-ins and restarts follow. |
| `AccessProofs` | `PublicServersAreComplete` (`NeverHalfConfigured`) | A public server that runs has a way of payment, a verifier its pages can show and a store. |
| `UploadProofs` | `ChallengesAcceptedOnce` (`AcceptedOnceWhileValid`) | A challenge is accepted twice only when the second acceptance comes after its expiry, in whatever order requests verify, read the clock and take the lock. |
| `UploadProofs` | `GateTypeCorrect` (`GateTypeOK`) | No balance falls below zero between the look at it and the charge, whatever uploads race for the last credit, and the table of tickets holds what it is said to hold. |
| `UploadProofs` | `UploadsEarned` (`UploadsAreEarned`) | A subject is let through with no more uploads than challenges were accepted from it: neither an acceptance nor a ticket is used twice, by any number of racing requests. |
| `UploadProofs` | `CancelsReachUpload` (`CancelReachesUpload`) | A press of the cancel button reaches the upload that began last as long as it is sent, and no other, and the button can be pressed unless the end of another job or upload has hidden it, whatever late answers and reloads come between. |
| `JobManagerProofs` | `AnswersAreServed` (`AnsweredIsServed`) | A download that was answered finds the file or the object it was promised, unless retention or Close took it away since, for any number of downloads. |
| `JobManagerProofs` | `FollowsLifecycle` (`ImplementsLifecycle`) | The manager implements JobLifecycle: one job at a time, in the order of acceptance, within the capacity, and each ends once. |
| `PaidJobsProofs` | `RunningJobsAreReserved` (`RunningIsReserved`) | No job is in the line or at the worker without a credit that is reserved for it, across restarts and failing transactions. |
| `PaidJobsProofs` | `ShutdownSettlesCharges` (`ShutdownSettles`) | When Close has returned and no transaction has failed, every accepted job has its charge settled. |
| `PaidJobsProofs` | `WiredLedger` | Behind the manager the ledger takes only the steps it takes by itself, so everything proved of it holds of the wired server. |
| `PaidJobsProofs` | `PaidBalances` | Every balance of the wired server is what was redeemed less the jobs that run or were delivered. |
| `PaidJobsProofs` | `KeepsPromise` (`ImplementsPromise`) | The wired server implements PrepaidConversions: a credit is taken when a job is accepted and is used up by a delivery or comes back, once. |
| `ConversionProofs` | `DeliveriesComplete` (`DeliveredIsComplete`) | A success, canceled or not, leaves the whole file with one section for every page in order; but for the first page, a reflowable one has no scanned page without text among those with at most MaxIllustrations regions; for any document and limits. |
| `ConversionProofs` | `ProgressOnlyGrows` (`ProgressMovesOn`) | The stage and the number of pages that a user sees never go back, in either layout. |
| `ConversionProofs` | `NothingLost` (`NothingIsLost`) | For any document, a reflowable book read from the first section to the last has the lines of the PDF, each once and in order, a list item without its marker or number, but for page numbers and running titles. |
| `ConversionProofs` | `OutlineLeads` | Every entry of the outline leads to the section of its page, and one that was inferred to the section with its heading: the part of `OutlineLeadsToHeading` that is about the outline, for any document. |
| `ConversionProofs` | `FromLeftSorts` | sortFragments leaves the fragments of any row in order from left to right, those at the same place in the order in which they came, and each as often as it was there. |
| `ConversionProofs` | `RowsAreLines` | On a page that is laid out clearly, the rows that structuredLines makes are the lines of the page, each with all of its fragments, although the code looks at the last four rows only. |
| `ConversionProofs` | `HeadingsLead` (`OutlineLeadsToHeading`) | For any document, the headings of a reflowable book are the lines that the PDF says to be ones, by their words or their size, and every entry of the outline leads to the section of its page, an inferred one to its heading. |

Assumptions on constants. Manager: `CapacityAssumption` (a natural number),
`NoJobAssumption`, `StoreAssumption` (public mode has a store, which
`NeverHalfConfigured` shows of `config.Load`). Ledger: `CreditsAssumption`
(positive amounts, which `Open` and `Generate` require), `FiniteAssumption`
(balances count sets), and those that null values are no values;
`CallbackAssumption` for the gateway. Manager and ledger together:
`LedgerAssumption` (finitely many jobs and vouchers, and a voucher is worth
something). Conversion: `DocumentAssumption` (the engine gives a sequence of pages,
each with a sequence of texts, of rectangles and of image objects, and `extractOutline` keeps only
bookmarks that lead to one of them), and `TextAssumption` (a list item without its
marker is a text that is not blank, which the blank that `listPrefix` asks for after the
marker of a trimmed line ensures). Limiter: `NumbersAssumption` and
`TrimAssumption`. Gate and access: lifetimes and bounds are numbers, requests and tickets
are finitely many (they are counted), and what an operator offers are
environments. TLC evaluates them in the runs.

**The manager.** `ManagerInv == TypeOK /\ Acceptance /\ Line /\ Progress`.

* `Acceptance`: a job that was not made is absent; only accepted jobs are in the
  table, in the queue, at the worker, or the target of a cancel. Without it, a
  step of the worker could act on a job that a submission still builds.
* `Line`: the queue has no job twice and not the worker's. Without it, a job could
  be run twice.
* `Progress`: which statuses a job may have at each point of `run`. It is why
  `finish` reports only terminal statuses, which `TypeOK` needs for `outcomes`.

`SlotInv` adds that the holders are finite and the queue is as long as it has
jobs; `SlotAccounting` follows by one lemma per way to gain, pass on or give back
a slot, and `SendNeverBlocks` from it: the submission itself holds a slot that is
not in the queue. `EndsAreFinal` needs only what the methods of a job do to a
terminal snapshot.

`OutcomeInv` says that nothing is reported before a submission aborts, that what
is reported is the final status, and that a cancel beyond `Job.Cancel` is about a
canceled job. `DoneInv` adds that a job that is done is out of queue and worker.
`CancelInv` is the heart of `CancelsStopWork`: the worker has attached a cancel
function before it starts a job, so a cancel that found none has marked the job
before `Start`, which then refuses; one that found a function waits for `done`.

**What is left behind.** On top of these: `JobInv` relates
the life of one job to its files, its entry and its timer; `WaitingInv` says that a
job in the queue or before `Start` was not started; `WorkInv` says what directory
and store hold for each point of `run`, so that `Succeed` shows only what can be
fetched, and `finish` finds the directory clean on every way to it; `FilesInv` has
the four properties, from `done` on. A job's files are touched only by its own
submission, by the worker while it is the current job, by its timer and by `Close`
(lemma `Touches`), and `Close` sweeps after the worker has exited, when no
submission can be accepted any more. A download (`AnswersAreServed`) has looked at
a snapshot that only the job's timer and `Close` can outdate, and both leave a
trace: the timer is no longer pending, or `Close` has begun.

**The manager implements `JobLifecycle`.** The phase of a job is read off its
snapshot, from its acceptance on, and the line off the worker and the queue
(`VisiblePhase`, `VisibleLine`). Of the steps of the manager, `Enqueue` joins the
line, `StartJob`, `SucceedJob` and the other ends move the first of it, cancels
and deadlines end a job where it stands, and the rest are stutters (lemmas
`SubmitInLine`, `WorkerInLine`, `EndsInLine`). `LineInv` supplies what the abstract
guards ask for: a job that starts is the first of the line, and `Close` moves all
of it at once because the worker is gone.

**The ledger.** `LedgerInv` is the conjunction of type, `BalanceIsAccounted`,
`RecordsMatchLedger` and that a checkout has an order. `BalanceIsAccounted` alone
is not inductive: a payment is credited once only because an order is paid exactly
if it has an entry, and likewise a refund. The restart, which settles all open
charges in one step, is handled by counting them. `StripeImplementsLedger` shows
that each step behind the gateway is a step of the ledger for some callback, or
none, so that all this carries over. `PaymentInv` adds what the provider has
written: one callback of a type for a session, which tells of money only where
`VerifyWebhook` looks for it, and that the service remembers no other.

**The wired server.** What is known of the manager is an invariant, and what is
known of the ledger is one, but the composition adds a step to both: a restart,
which loses the memory of the one and settles the charges of the other.
`PaidInv` is the conjunction of the two with `WiringInv`, which relates them.
`Reservation`: a job that waits or runs has an open charge of its owner
(`RunningIsReserved` is a part of this), and a job with an EPUB and an open charge
still shows the EPUB. `Settlement`: an accepted job that is not done is in the queue
or at the worker, and unless a transaction failed, one whose outcome was reported has
no open charge. `Shutdown`: the ledger closes after the manager, which has closed
after the worker left an empty queue; with `Settlement` this gives `ShutdownSettles`.
None of it can be had from one side: that `finish` gives back the credit of a failed
job and keeps that of a succeeded one needs `OutcomeInv` of the manager and
`RecordsMatchLedger` of the ledger at the same step. `WiredLedger` shows that manager, faults and restarts move
the ledger only by its own transactions, so `PaidBalances` follows from
`BalancesAccounted`. `KeepsPromise` maps each step of the server to one of
`PrepaidConversions`: the credit of a wallet is its balance, a job's phase is what
the ledger says of its charge, and `produced` is what the manager says of the jobs
whose charge is open.

**The limiter.** A bucket with `t` tokens, last seen at `l`, says the same as the
list of all requests that were allowed: `Bounded` says that `t` further requests
keep every stretch of time up to `l` within the limit, `Exact` that `t + 1` do not.
A late request may drive `t` below zero, by no more than returns in `Skew`. A
dropped bucket is the difficult case: `TrimAssumption` makes it full for whoever
looks next, however late. `RateBounded` needs `Bounded` alone, `NothingForgotten`
both.

**Access.** A session and a wallet that are named together, by a page or by an
answer on its way to one, belong together (`Match`); sessions are only added and
redemptions never changed. With the comparison of token and cookie, that is all a
request needs. A session that was logged out is in no memory and is private, so
that no secret can validate it.

**The gate.** A challenge that was accepted is in the table or has expired
(`AcceptsInv`): what a request purges had expired by a clock it read before.
`EarnedInv` counts: the tickets of a subject in the table, its requests about to
draw one, and the uploads it was let through with, are together no more than its
accepted challenges. Each step moves one from one of these sets to the next, or
loses one; none is in two of them.

**The page.** `SendingInv == PageInv /\ ButtonInv /\ CancelReachesUpload`. A request
that ends resets `uploadRequest` only if it is the one named there, so an overtaken
upload cannot take the later one's. `PageInv` has the types, and that only accepted
jobs are asked for, so that an answer is never about the upload under way; with it,
`ButtonInv` says of the button what is shown on the panel while it is not to be
pressed. `PageStep` and `ButtonStep` go through the actions.

**Conversions.** `ConversionInv` says that what is extracted is extracted from the
first pages of the document, one after the other, by `PlainTextToLines` and
`CutImages` (`ExtractionInv`), that the book is what `Rebuild` makes of all of them
(`BookInv`), that the file is whole from its writing on (`FileInv`), and that no report
is ahead of the work. From
there the properties are about functions on sequences, and need induction. The
library's induction rules are about operators, which the provers cannot
instantiate; lemma `UpTo` is the same rule for a *set* of numbers, proved from the
library's `WFMin` and the well-foundedness of `<`: the least number outside the set
is neither 0 nor the successor of one inside. From it follow, in turn:

* `Recursion` and `FlattenSteps`, `TextBlocksSteps`, `SectionsSteps`,
  `RegionsSteps`: a recursive function exists and takes the steps it is defined by;
* `FlattenAppend`, `FlattenConcat`: flattening is a homomorphism;
* `TextBlocksRead`: the blocks of lines say what the lines say (`Wordings`: without
  the marker, if they are list items), wherever blocks start; `WithSectionReads`: a section added says what it says, whether or not its
  first paragraph goes to the page before; `SectionsRead`: so do all of them;
* `CleanLinesRead`, `RepeatedMarginsRead`, `PlainTextRead`: which lines are dropped
  depends on the texts alone, not on what the rectangles say of their looks.

`NothingLost` is the sum of these, page by page (`LinesLeft`, `PageDelivered`); which of
the lines that look like list items are headings, and so keep their markers, comes from
`HeadingsTold`. `OutlineLeads` needs one more fact about sections,
which is part of what `SectionRecord` says of them: a heading is a single line
(`TextBlocksSingle`), and the join of two pages changes paragraphs only. An inferred
entry is then among those that lead to their heading (`Leading`), because flattening
keeps to the set its parts are sequences over. `RegionsHold`, that the look at a page sees every
large object if there are not too many, gives the part of `DeliveriesComplete` about
scanned pages.

`HeadingsLead` adds to `OutlineLeads` what makes a line a heading, from the rectangles
to the section:

* `PlacedIs`, `RowsSteps`: every visible rectangle is put into exactly one row, and no
  row is empty;
* `RowsAreLines`, by induction over the rectangles with `LinesOf` as the invariant:
  so far there is one row for each line that has begun, in that order, with all of its
  rectangles so far. On a clear page, the parts of a line come one after the other,
  so that only the last row can be near the next rectangle (`RowAtStep`), and looking
  at four is enough; lines that are apart are never near, whichever of their
  rectangles the row was opened with (`LevelSame`);
* `InsertedSorts`, `InsertedInOrder`, `FromLeftSorts`: the sort is stable and keeps the
  rectangles: what `ToTheLeft` counts is the front of what is sorted so far
  (`FrontToTheLeft`). So the row reads like its line sorted from left to right, and its
  largest size is that of one of them (`RowSizeOf`);
* `LooksOf`, `RowReads`: a line has the looks of a row that reads the same, whose
  fragments are words of it, or those of its page;
* `HeadingsOfPage`, with `TextBlocksHeadings` and `WithSectionHeadings`: the headings
  of a section are the lines of its page that `IsHeading` accepts, and the join of
  pages moves none;
* `MiddleType`, `MedianKnown`: the size in the middle is a number, so that a row with
  a large fragment is large itself (`SetLargeFrom`).

`SelectSeq`, `SortSeq` and the folds have no definition that the provers can
use. This is why the blocks, sections, outline and rows, and the pictures of
`Conversion`, are written with recursive functions and `FlattenSeq`, and `Middle` as
the smallest size that more than half of the known ones do not exceed.

**Checked by TLC only.** Liveness (`CancelCompletes`, `JobsSettle`,
`CloseCompletes`, `EndIsShown`), which is out of this prover's reach. Every invariant
and every other action property that a run checks is proved.

## 6. Where code and documents disagree

Two runs are expected to find a violation; each states what
`docs/acceptance-v1.md` says.

* `SourceRemovedAtEnd` (line 70: the copy of the PDF is deleted at once when the
  job ends). A cancel between the worker's look at the status
  (`internal/app/manager.go:367`) and `Job.Start` takes the only path through
  `run` that does not remove the directory; the PDF stays until retention.
* `IllustrationsAreKept` (lines 61 and 68: illustrations are kept, degradations
  are shown). `imageRegions` stops after twelve regions; the only warning says
  that the page's illustrations were kept.

Other behaviours came up while modelling. They are in the models, and the
properties are stated so that they do not hide the rest:

* A job canceled in the queue keeps its slot and its PDF until the worker gets to
  it; a comment in the code knows about the place in the queue.
* A late answer about an earlier job replaces what the panel shows, for good if
  the current job has ended. If that job has ended, the answer hides the cancel button
  of an upload under way (`app.js:579`), and so does the end of an overtaken upload
  (`app.js:458`, `468`): for good once the whole body is sent, since only a progress
  event shows it again.
* After a reload, an error of any request of `restore` (`app.js:135`) shows the login
  panel although the session may be good; the page keeps the identifier of its job and
  asks for nothing until a log-in, for which a public installation has no account, or
  another reload.
* Any error of one poll makes the page forget its job; a job may be created for an
  upload that was canceled after its last byte, although the page says that none was.
* A canceled conversion goes on to succeed where no EPUBCheck runs
  (`internal/converter/service.go:262-273` does not look at the context); a failed
  `Stat` (`service.go:104`) leaves the EPUB. The manager deals with both.
* Redeeming a code of another wallet while a job of the previous one runs makes
  that job unreachable: its next poll is answered 404 and the page forgets it.
* A slow answer to another tab's request for a guest session may replace the
  cookie of the wallet in use; later requests of the first tab are refused until
  it is reloaded. A body that is cut off leaves a page without a token, with the
  same effect.
* A log-out forgets private sessions only: a guest's token is stateless and stays
  valid until it expires. The page hides the button from guests.
* `BTC_COMMERCE_DB_PATH` has a default below `/tmp`, while `acceptance-v1.md:33`
  has a missing persistent ledger refuse the start.

## 7. What is not modelled

* **Packaging** (`Dockerfile`, `compose.yaml`): no behaviour of its own.
* **Ledger**: `GrantCredits`, which only tests call; `EnsureAccount`, which records
  only that an account was seen; timestamps of records.
* **Voucher codec**: the encoding and signature of codes, and the command that
  prints them. Codes are valid ones here and expire.
* **Stripe**: the encoding of requests and signatures; a callback is signed or not.
* **Store**: keys, signing and requests are I/O.
* **Configuration**: ranges of single numbers are one flag; settings with a default
  that is always good, and secrets read from files, are left out.
* **HTTP**: parsing, headers, static files, how a client's address is found, the
  HTTP server's own shutdown, and Turnstile, a remote call without local state.
* **Conversion**: cover and metadata; the bullets that the writer's markup gives list
  items in place of the markers and numbers that `internal/conversion/rebuild.go:39`
  drops; the regular expressions themselves, spaces and hyphens at line ends,
  language, and markup; the weight of fonts, which no code reads.
* **Page**: the challenge's widget, and the words on the panel.

Identifiers and tokens are drawn at random in the code and are taken to be
distinct here.

## 8. What could come next

* What the code makes of pages whose lines overlap or whose fragments come in another
  order than line by line: `Clear` is what the proof and the run ask for.
* Liveness of `PaidJobs`: every charge is settled in the end, if there are restarts
  enough.
* A page that confuses jobs in `WebClient` together with wallets in `Access`.

To run them: `tlc -config ManagerRaces.cfg MCJobManager.tla` and likewise for the
others; `tlapm JobManagerProofs.tla` and likewise.
