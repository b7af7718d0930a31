------------------------------ MODULE WebClient ------------------------------
(***************************************************************************)
(* The page of app.js in front of the manager: one thread of handlers, with  *)
(* requests in flight and timers between them.  The network answers in any   *)
(* order or not at all, and the user may submit, cancel and reload whenever  *)
(* the page lets him.                                                       *)
(*                                                                         *)
(* The n-th submission creates the n-th job, if any.  On the server a job is *)
(* absent, running or ended (domain.Job and JobManager have its states).      *)
(* The page is of either kind of installation: with public access, an upload  *)
(* needs a ticket; a private one asks for none, and goes from SubmitForm to    *)
(* SendFile at once.                                                         *)
(* Left out: credits and vouchers, what is written on the panel except for    *)
(* whose state it shows, and the challenge's widget.                          *)
(***************************************************************************)
EXTENDS Integers, FiniteSets

CONSTANTS
    Jobs,           \* 1 .. n, in the order of submission
    NoJob,
    Polls,          \* requests for a job that may be in flight at once
    MaxCancels,     \* bound on the clicks that cancel a job, one at a time
    MaxReloads      \* bound on the reloads of the page

ASSUME WebAssumption ==
    /\ Jobs = 1..Cardinality(Jobs) /\ NoJob \notin Jobs
    /\ MaxCancels \in Nat /\ MaxReloads \in Nat

VARIABLES
    workspace,      \* the workspace is shown, not the login panel
    jobId,          \* state.jobId, and the same in sessionStorage
    uploading,      \* state.uploading
    uploadRequest,  \* state.uploadRequest: the submission whose body is sent
    submission,     \* job -> where its submit handler is; "over" without a job
    poll,           \* request -> [job, answer, enables], or NoPoll; a cancel
                    \* handler that waits for it enables the button then
    timer,          \* state.timer is pending
    strays,         \* pending timers that state.timer no longer names
    canceling,      \* the job of the cancel in flight
    panel,          \* [job, shows]
    button,         \* the cancel button on the panel, as [hidden, disabled]
    received,       \* submissions whose whole body is at the server, or on its way
    server,         \* job -> its state
    shown,          \* history: jobs whose end the page has shown since it was loaded
    lastSent,       \* history: the submission that began to send last
    cancels, reloads

webVars == <<workspace, jobId, uploading, uploadRequest, submission, poll, timer, strays,
             canceling, panel, button, received, server, shown, lastSent, cancels, reloads>>

NoPoll == [job |-> NoJob, answer |-> "none", enables |-> FALSE]

Panel(j, shows) == [job |-> j, shows |-> shows]

Button(hidden, disabled) == [hidden |-> hidden, disabled |-> disabled]

CancelUsable == workspace /\ panel.shows # "hidden" /\ ~button.hidden /\ ~button.disabled

WebInit ==
    /\ workspace = TRUE
    /\ jobId = NoJob /\ uploading = FALSE /\ uploadRequest = NoJob
    /\ submission = [j \in Jobs |-> "unsent"]
    /\ poll = [p \in Polls |-> NoPoll] /\ timer = FALSE /\ strays = 0
    /\ canceling = NoJob
    /\ panel = Panel(NoJob, "hidden") /\ button = Button(FALSE, FALSE)
    /\ server = [j \in Jobs |-> "absent"]
    /\ received = {} /\ lastSent = NoJob
    /\ shown = {} /\ cancels = 0 /\ reloads = 0

-----------------------------------------------------------------------------
(* pollJob. *)

\* pollJob for the job j, up to its await: it stops the timer it knows of, and
\* asks for the job if there is one.
PollJob(j, inFlight, enables) ==
    /\ timer' = FALSE
    /\ IF j = NoJob THEN poll' = inFlight
       ELSE \E p \in Polls :
               /\ inFlight[p] = NoPoll
               /\ poll' = [inFlight EXCEPT ![p] = [job |-> j, answer |-> "none", enables |-> enables]]

\* handleJob, at the server.
AnswerPoll(p) ==
    /\ poll[p].job # NoJob /\ poll[p].answer = "none"
    /\ poll' = [poll EXCEPT ![p].answer = server[poll[p].job]]
    /\ UNCHANGED <<workspace, jobId, uploading, uploadRequest, submission, timer,
                   strays, canceling, panel, button, server, shown, cancels, reloads,
                   received, lastSent>>

\* Mutated form: the end of any job stops the polling.
TimerAfterStopped(ended) == ~ended

\* Whether state.timer is pending after an answer: a job that goes on sets it,
\* one that has ended leaves it alone.
TimerAfter(ended) == ~ended \/ timer

\* The button once the request p is over.
DisabledAfter(p) == button.disabled /\ ~poll[p].enables

\* The answer arrives: renderJob shows it, whichever job is current by now, and
\* hides the button if that job has ended.
PollArrives(p) ==
    LET ended == poll[p].answer = "ended" IN
    /\ poll[p].answer # "none"
    /\ panel' = Panel(poll[p].job, poll[p].answer)
    /\ button' = Button(ended, DisabledAfter(p))
    /\ shown' = IF ended THEN shown \cup {poll[p].job} ELSE shown
    /\ uploading' = (uploading /\ ~ended)
    /\ timer' = TimerAfter(ended)
    /\ strays' = IF timer /\ ~ended THEN strays + 1 ELSE strays
    /\ poll' = [poll EXCEPT ![p] = NoPoll]
    /\ UNCHANGED <<workspace, jobId, uploadRequest, submission, canceling, server,
                   cancels, reloads, received, lastSent>>

\* Any error of any poll, a lost connection or a refusal of the limiter too,
\* makes the page forget its current job.
PollFails(p) ==
    /\ poll[p] # NoPoll
    /\ jobId' = NoJob
    /\ poll' = [poll EXCEPT ![p] = NoPoll]
    /\ button' = [button EXCEPT !.disabled = DisabledAfter(p)]
    /\ UNCHANGED <<workspace, uploading, uploadRequest, submission, timer, strays,
                   canceling, panel, server, shown, cancels, reloads, received,
                   lastSent>>

TimerFires ==
    /\ \/ timer /\ strays' = strays
       \/ strays > 0 /\ strays' = strays - 1
    /\ PollJob(jobId, poll, FALSE)
    /\ UNCHANGED <<workspace, jobId, uploading, uploadRequest, submission, canceling,
                   panel, button, server, shown, cancels, reloads, received,
                   lastSent>>

-----------------------------------------------------------------------------
(* The submit handler. *)

\* Up to the request for an upload ticket.  The button stays as it was.
SubmitForm(j) ==
    /\ workspace /\ ~uploading
    /\ submission[j] = "unsent" /\ \A i \in Jobs : i < j => submission[i] # "unsent"
    /\ jobId' = NoJob /\ uploading' = TRUE
    /\ submission' = [submission EXCEPT ![j] = "ticket"]
    /\ panel' = Panel(j, "verifying")
    /\ UNCHANGED <<workspace, uploadRequest, poll, timer, strays, canceling, button,
                   server, shown, cancels, reloads, received, lastSent>>

\* The ticket is there: renderUpload, and uploadJob sends the file.
SendFile(j) ==
    /\ submission[j] = "ticket"
    /\ submission' = [submission EXCEPT ![j] = "sending"]
    /\ uploadRequest' = j /\ lastSent' = j
    /\ panel' = Panel(j, "uploading") /\ button' = Button(FALSE, FALSE)
    /\ UNCHANGED <<workspace, jobId, uploading, poll, timer, strays, canceling, server,
                   shown, cancels, reloads, received>>

\* renderUpload on a progress event, whichever upload it is of; the event for
\* the last byte may come when the server has it all.
UploadProgress(j) ==
    /\ submission[j] = "sending"
    /\ panel' = Panel(j, "uploading") /\ button' = Button(FALSE, FALSE)
    /\ UNCHANGED <<workspace, jobId, uploading, uploadRequest, submission, poll, timer,
                   strays, canceling, server, shown, cancels, reloads, received, lastSent>>

\* ParseMultipartForm has read all of it.
ReceiveBody(j) ==
    /\ submission[j] = "sending" /\ j \notin received
    /\ received' = received \cup {j}
    /\ UNCHANGED <<workspace, jobId, uploading, uploadRequest, submission, poll,
                   timer, strays, canceling, panel, button, server, shown, cancels,
                   reloads, lastSent>>

\* handleCreateJob accepts what it has received, even if the page has given the
\* upload up since, or has lost the connection.
CreateJob(j) ==
    /\ j \in received /\ server[j] = "absent"
    /\ server' = [server EXCEPT ![j] = "running"]
    /\ UNCHANGED <<workspace, jobId, uploading, uploadRequest, submission, poll,
                   timer, strays, canceling, panel, button, shown, cancels, reloads,
                   received, lastSent>>

\* Mutated form: any request that ends resets it.
RequestEndsForAll(j) == uploadRequest' = NoJob

\* state.uploadRequest is reset by the request it names alone.
RequestEnds(j) == uploadRequest' = IF uploadRequest = j THEN NoJob ELSE uploadRequest

\* The answer that the job was created: the page follows it from now on.
UploadAccepted(j) ==
    /\ submission[j] = "sending" /\ server[j] # "absent"
    /\ RequestEnds(j)
    /\ submission' = [submission EXCEPT ![j] = "accepted"]
    /\ uploading' = FALSE /\ jobId' = j
    /\ panel' = Panel(j, "running") /\ button' = [button EXCEPT !.hidden = FALSE]
    /\ PollJob(j, poll, FALSE)
    /\ UNCHANGED <<workspace, strays, canceling, server, shown, cancels, reloads,
                   received, lastSent>>

\* The ticket or the upload is refused, or the connection is lost, after which
\* the server may still accept what it has received.
UploadFails(j) ==
    /\ submission[j] \in {"ticket", "sending"}
    /\ \/ server[j] = "absent" /\ received' = received \ {j}
       \/ j \in received /\ received' = received
    /\ RequestEnds(j)
    /\ submission' = [submission EXCEPT ![j] = "over"]
    /\ uploading' = FALSE
    /\ panel' = Panel(j, "upload failed") /\ button' = [button EXCEPT !.hidden = TRUE]
    /\ UNCHANGED <<workspace, jobId, poll, timer, strays, canceling, server, shown,
                   cancels, reloads, lastSent>>

-----------------------------------------------------------------------------
(* The cancel button, the reload, and the server. *)

AbortUpload ==
    /\ CancelUsable /\ uploadRequest # NoJob
    /\ submission' = [submission EXCEPT ![uploadRequest] = "over"]
    /\ uploading' = FALSE
    /\ panel' = Panel(uploadRequest, "upload canceled") /\ button' = Button(TRUE, TRUE)
    /\ uploadRequest' = NoJob
    /\ UNCHANGED <<workspace, jobId, poll, timer, strays, canceling, server, shown,
                   cancels, reloads, received, lastSent>>

ClickCancel ==
    /\ CancelUsable /\ uploadRequest = NoJob /\ jobId # NoJob
    /\ canceling = NoJob /\ cancels < MaxCancels
    /\ canceling' = jobId /\ cancels' = cancels + 1
    /\ button' = [button EXCEPT !.disabled = TRUE]
    /\ UNCHANGED <<workspace, jobId, uploading, uploadRequest, submission, poll,
                   timer, strays, panel, server, shown, reloads, received, lastSent>>

\* The cancel is answered, and the current job is asked for; or it fails.  The
\* button is disabled until all of that is over.
CancelAnswered ==
    /\ canceling # NoJob /\ canceling' = NoJob
    /\ \/ /\ server' = [server EXCEPT ![canceling] = "ended"]
          /\ PollJob(jobId, poll, TRUE)
          /\ button' = [button EXCEPT !.disabled = @ /\ jobId # NoJob]
       \/ /\ button' = [button EXCEPT !.disabled = FALSE]
          /\ UNCHANGED <<server, poll, timer>>
    /\ UNCHANGED <<workspace, jobId, uploading, uploadRequest, submission, strays, panel,
                   shown, cancels, reloads, received, lastSent>>

\* restore and showWorkspace: all is lost but the stored identifier.  A server
\* that does not know the session makes the page drop that, too.  The login
\* panel is shown in a private installation without a session, and after an
\* error of any request, with or without an identifier and without a poll.
Reload ==
    /\ reloads < MaxReloads /\ reloads' = reloads + 1
    /\ uploading' = FALSE /\ uploadRequest' = NoJob /\ strays' = 0 /\ canceling' = NoJob
    /\ submission' = [j \in Jobs |-> IF submission[j] \in {"ticket", "sending"}
                                     THEN "over" ELSE submission[j]]
    /\ panel' = Panel(NoJob, "hidden") /\ button' = Button(FALSE, FALSE) /\ shown' = {}
    /\ workspace' \in BOOLEAN /\ jobId' \in {jobId, NoJob}
    /\ PollJob(IF workspace' THEN jobId' ELSE NoJob, [p \in Polls |-> NoPoll], FALSE)
    /\ UNCHANGED <<server, cancels, received, lastSent>>

\* The login form is sent and accepted, which only a private installation does:
\* showWorkspace.
Login ==
    /\ ~workspace /\ workspace' = TRUE
    /\ PollJob(jobId, poll, FALSE)
    /\ UNCHANGED <<jobId, uploading, uploadRequest, submission, strays, canceling, panel,
                   button, server, shown, cancels, reloads, received, lastSent>>

EndJob(j) ==
    /\ server[j] = "running"
    /\ server' = [server EXCEPT ![j] = "ended"]
    /\ UNCHANGED <<workspace, jobId, uploading, uploadRequest, submission, poll,
                   timer, strays, canceling, panel, button, shown, cancels, reloads,
                   received, lastSent>>

WebNext ==
    \/ \E p \in Polls : AnswerPoll(p) \/ PollArrives(p) \/ PollFails(p)
    \/ \E j \in Jobs :
          SubmitForm(j) \/ SendFile(j) \/ UploadProgress(j) \/ ReceiveBody(j) \/ CreateJob(j)
          \/ UploadAccepted(j) \/ UploadFails(j) \/ EndJob(j)
    \/ TimerFires \/ AbortUpload \/ ClickCancel \/ CancelAnswered \/ Reload \/ Login

\* A timer fires in the end; a poll is answered and its answer or an error
\* arrives.  Of the user, the uploads and the jobs nothing is assumed.
WebFairness ==
    /\ WF_webVars(TimerFires)
    /\ \A p \in Polls : WF_webVars(AnswerPoll(p)) /\ WF_webVars(PollArrives(p) \/ PollFails(p))

WebSpec == WebInit /\ [][WebNext]_webVars /\ WebFairness

-----------------------------------------------------------------------------
(* Properties. *)

\* The upload that began last can be canceled as long as it goes on, although an
\* earlier one, which the end of a job before it lets the user overtake, is
\* still being sent and ends in between: the button reaches that upload and no
\* other, and it is there to be pressed, but for one case: the end of another
\* job or upload has hidden it.  (It is back with the next progress event, of
\* which there is none once the whole body is sent.)
CancelReachesUpload ==
    lastSent # NoJob /\ submission[lastSent] = "sending" =>
        /\ uploadRequest = lastSent
        /\ \/ CancelUsable
           \/ /\ panel.job # lastSent
              /\ panel.shows \in {"ended", "upload failed", "upload canceled", "verifying"}

\* The end of the current job is shown in the end, whatever late answers of
\* other jobs, cancels and reloads come between, unless the page forgets the
\* job (an error), leaves it (another submission), or fails to load and shows the
\* login panel, until the user has logged in.  (It need not stay: a late answer
\* about an earlier job may still replace it for good.)
EndIsShown ==
    \A j \in Jobs :
        jobId = j /\ server[j] = "ended" ~> j \in shown \/ jobId # j \/ ~workspace
=============================================================================
