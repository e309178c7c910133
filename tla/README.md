# A verification of adb-automation

`adb-automation` sends WhatsApp messages through Android phones that it drives
over adb.  An HTTP server takes send requests into a MariaDB queue, worker
threads claim jobs together with a phone, and a recovery worker brings a
restricted or logged-out account back; a listener app on each phone posts the
incoming notifications to the server, which forwards them to a webhook.  This
directory holds TLA+ modules of its concurrent core and of what it does on a
phone, TLC configurations that check them on small instances, and proofs checked
by TLAPS.

## 1. The system

| part | code (`src/adb_automation/`) | state | operations |
|---|---|---|---|
| device registry and lease | `devices.py`, `db.py` | `devices` rows: endpoint, `worker_id`, `locked_until` | add, update (refused while locked), acquire, release (by worker id *and* end of lease), unlock, seen |
| send queue | `send_queue.py` | `send_jobs` rows: status, lease written by the claim | enqueue, claim, complete, fail, stochastic companion job |
| queue workers | `queue_worker.py` | one thread each: the job it works on | poll, claim, drive the phone, complete or fail, webhook, open a recovery, release |
| CLI | `cli.py`, `workflows.py` | one process per command | `send` under a lease, `devices add/list/unlock` |
| recovery queue | `recovery_queue.py` | `whatsapp_recovery_jobs` rows: status, attempts, due time | enqueue (one active per phone), claim, guarded transitions, cancel, retry |
| recovery worker | `recovery_worker.py` | one thread: its copy of the job | poll, claim, review / pending / relogin stage, retry or fail, webhooks |
| HTTP API | `api.py` | none of its own: one connection per request | devices, send, jobs, recovery, notification ingest |
| notifications and webhooks | `notifications.py` | `received_notifications` rows, media files | ingest with dedup key, best-effort webhooks |
| send flow on the phone | `whatsapp.py`, `chat_navigation.py`, `media_picker.py`, `appium_media.py` | the screens of WhatsApp | open a chat, type, attach, tap send, confirm |
| recovery screens | `whatsapp_recovery.py` | the registration screens | classify, request a review, log in again |
| adb and UI dumps | `adb.py`, `adb_ui.py` | the adb server | connect, wake, unlock, dump with fallbacks |
| media | `downloaded_media.py`, `media.py` | files in a download directory | download, clean up |
| stochastic activity | `stochastic.py` | none | random scrolling |
| listener app | `notification-listener-app/` (Kotlin) | the tasks of an executor with one thread | post each notification once, wait for the answer or a timeout |
| web console | `static/` | none the server relies on | poll the API |

How they interact: everything meets in the database.  A claim is one
transaction that locks the pending jobs and a device row, writes the lease into
the device and the claim into the job; the phone is then driven without any
transaction, and each later write is a transaction of its own, guarded by a
`WHERE status ...`.  Exceptions drive the control flow: the send raises
`WhatsAppRestrictedError`, the worker fails the job, posts a webhook and opens a
recovery.  The lease is a pair of columns, not a lock: nobody renews it, and
nobody is told when it ends.

What is hard: claims by several threads and processes; a release that comes
after the lease has passed to another; the gap between a commit and the re-read
or the webhook that follows it; a database call that raises inside an `except`
or a `finally` block; a crash between two transactions; an operator who cancels,
retries or unlocks at any moment; decisions on a copy of a row that has changed
since.  On the phone: taps that are lost, handled late or land on another screen
than the one that was dumped; a dump that is an old one; whatever an earlier job
or attempt left behind.  `PROJECT.json` lists these hazards at their lines.

What makes each part correct:

- *lease*: exclusive until its end or its revocation; a late release frees
  nobody else's lease; a locked device's endpoint does not change.
- *send queue*: a message is sent at most once; an outcome is final and true;
  first in, first out per phone; every job leaves the queue.
- *recovery*: one active recovery per phone; an outcome is final, reported
  once, and truly; attempts are bounded; a recovery does not stay where it is.
- *send request*: the media file a job names stays until the job ends, and no
  file stays behind but where its removal fails or an exception escapes the
  handler; one companion job per interval.
- *notifications*: stored and forwarded once, media kept, order kept.
- *send flow on the phone*: one message per job however often the button is
  tapped again; the right text in the right chat, the right file and only once;
  no success for a draft; the phone is left as it was found.  The code cannot
  see all it would need for this: the exceptions are named by the properties.
- *recovery screens*: a verdict about the account is true; a job waits for a
  review only if the appeal is in; the number registered is the phone's own,
  again up to what the code cannot see; a stage ends.
- *together*: sends and recoveries share phones under one lease discipline; a
  send failure that needs a recovery gets one.

## 2. Modules

| module | models | extends / instances |
|---|---|---|
| `LeaseContract` | abstract: what a lease promises its users | |
| `DeviceLease` | the `devices` table, lease operations, operator's overrides, the clock | instances `LeaseContract` |
| `SendQueue` | `send_jobs`, the queue workers, CLI sends | extends `DeviceLease` |
| `Recovery` | `whatsapp_recovery_jobs`, the recovery worker, recovery requests | extends `DeviceLease` |
| `AutomationSystem` | one server: both queues over one `devices` table | extends `SendQueue`, instances `Recovery` |
| `SendRequest` | the send handlers of the API: media file, job, companion job, except blocks | |
| `Ingest` | the listener's executor, the ingest handlers, rows, media files, webhooks | |
| `TextSend` | one text through the screens: navigation, compose field, send button, and the phone that handles taps late | |
| `FileSend` | one file: the portrait guard, staging and index, attach menu or intent, confirmation, cleanup | |
| `PhoneSends` | one call of `send_whatsapp`, with a file or without | extends `TextSend`, `FileSend` |
| `UiDump` | one look at a phone: `dump_ui_xml` and its ladder | |
| `RecoveryScreens` | the stages of a recovery on the screens of WhatsApp | extends `UiDump` |
| `MC*` | the instances TLC checks | |
| `*Proofs` | theorems and proofs about the module of that name; `DeviceLeaseProofs` holds those of the contract too, `SystemProofs` those of `AutomationSystem` | |

**Grain.**  One action is one database transaction, one stay on the phone, one
webhook or one clock read that is used later.  Where the code reads the clock
before it waits for row locks (`claim_next_send_job`, `acquire_device_lease`)
the read is an action of its own (`BeginClaim`, `CliStart`).  Where a call may
raise, there is an action for it that leaves what was already committed
(`RereadFails`, `CompleteRaises`, `FailRaises`, `DecideRaises`, ...): these need
`DbMayFail`.

**State.**  Rows of a table are a function from ids to records, a row not yet
inserted has the status `absent`; NULL times are 0, NULL ids `Nobody`.  A thread
is a record with a program counter named for the place in its loop.  Times are
ticks of one bounded clock, the seconds of `now_iso()`.  Payloads, phone
numbers, texts and error messages are left out; an exception is what
`process_claimed_job` tells apart.  Histories, which no guard reads: `sent`,
`alerted`, `events`, `retries`, `crashes` (read by the crash bound only) and
`session`, the use of a phone that an actor's last lease began.

**Correspondence.**  The `map` of `PROJECT.json` names the lines behind every
definition.  In `SendQueue`, `Claim`/`ClaimNothing`/`ClaimFails` are the three
ends of the claim transaction; `Reread*` what follows its commit; `SendOk` and
`SendRaises` the try block; `CompleteSendJob`, `FailSendJob`, `Alert`,
`StartRecovery`, `Release` the rest of `process_claimed_job` in the code's
order.  `SendRaises` with `tapped` is an error after the tap on the send button.
In `Recovery`, `MarkRequestingReview` and `AnnounceStarted` are the two halves of
the first stage; `SeeScreen` is a stage's work on the phone, `Verdict` its table
of screens, `Decide` the UPDATE and its read-back, `NotifyOutcome` the webhook.
A worker keeps `row`, the copy of the job that it read after its claim, exactly
because the code decides on that copy.

`SendRequest` stands beside `SendQueue`: its handlers meet the workers only in the
table and in the media files, so of a worker it has the three things that happen to
a job's file (`WorkerClaims`, `WorkerFinishes`, `JobIsLost`).  `Reread` joins the
re-read of the new job and the count of the phone's jobs, which share the snapshot
of one REPEATABLE READ transaction.  `DownloadLeavesFile` and `RemoveFile` are the
ways a file outlives its request: a removal that raises is only logged, and an
exception of the download that no `except` names (an `IncompleteRead` of the
response) leaves the handler with the temporary file on the disk; the properties
name both.  In `Ingest` a notification is the fingerprint that
`build_notification_dedup_key` makes of it; the listener does not retry, and a
duplicate comes from Android's posting a notification again.  `AnswerTimesOut` and
`OnDestroy` are how two handlers come to hold one notification at a time.

`TextSend` is `send_whatsapp` without a file, run by itself: the worker that calls
it, in `SendQueue`, only sees whether it returns or raises (`SendOk`, `SendRaises`).
Its `pc` is the function the code is in; the phone is a screen (a chat, or
elsewhere), a draft per chat and the taps it has not handled.  What the code reads
from a screen may be missing (`TextIsUnreadable`, `FocusFails`, `ButtonMissing`),
what it does may have no effect (`HandleTap`, the second disjunct of
`AbortNavigation`), and waiting in vain is always possible since nothing bounds how
slow the phone is.  `am start` and a tap on a row return before the chat is there:
what they call up waits in `opening` and comes up at any later step, or never
(`ChatOpens`); a row whose index or place means another contact by the time of the
tap opens that one (`TapRow`).  The history `trusted` records what the code let pass
unchecked; no guard reads it.  `SentAsIntended`, `ReportedIsSent` and `SentByOneTap`
list these cases, which are the code's and not the model's: a chat left open when
navigation is skipped and the link opens late (`running`), a number that could not
be read back from the contact form (`number`), a row of the results that does not
show the number (`row`: a suffix of eight digits, or a name) or is another one at
the tap (`moved`), a compose field that cannot be read (`typed`), a text filled in
by a link (`prefill`), a chat that opens when the code is already at the button
(`late`) and one that opens after the message has left (`again`), an older message
of the same text, and the BACK key that leaves the chat.  The docstring of
`open_chat_via_ui` ("only when the chat is open and verified") promises more than
`wait_for_message_entry` checks: that some chat is open.

`FileSend` is the branch of `send_whatsapp` with a file; `PhoneSends` puts it beside
`TextSend`, since the two share the phone but no step.  `step` follows the calls of
`send_media_via_gallery_picker` or of the direct intent, and the `finally` blocks
are steps of their own (`StopAgent`, `CleanUp`, `LeaveGuard`), reached from every
step that may raise.  The gallery is the sequence of its rows by date, since the
attach menu shows the newest one first; what an earlier job left (an open chat, that
of the number too, or a preview, a pending tap, a draft, a row) is in `FileInit`.
What the link, the intent and the click on a thumbnail call up waits in `coming`,
and comes up in any order, or never.  That the guard forces all three settings is
the worst case of its calls, none of which raises.  A picture that came before the
file of the job is as good as the old one.  A document stays in the download
directory by design.  The guard also surrounds the branch without a file, where it
does the same and is not modelled again.  The history `doubts` records what the code
took for granted, `excused` what a failed call left; no guard reads them, and the
properties name each: another chat that is up where the link or intent should be
(`link`), a link or intent that has not come up when the code goes on, as when the
chat of the number was left open (`unopened`), a picture newer than the job's
(`newer`), a caption or a tap without a preview under it (`blind`), selectors that
could not be read (`unread`), an empty field that was not that of the chat
(`empty`), and leftovers (`late`, `draft`).  In `send_requests`, `phone_sends` and
`recovery_screens` each exception was removed once and the run then failed, so that
none is there to spare.

`RecoveryScreens` is one recovery from `requesting_review` on.  A step of a stage
begins with a dump (`Looks`, or the ladder), decides on it and taps where the dump
showed the control (`Tap`): the tap may be lost, or hit any control of the screen
that is there by now.  A screen is the set of marker tables of
`whatsapp_recovery.py` that match on it; `Press` is what its controls do.  WhatsApp
is taken to show, when it comes to the front, what it has to show of the account
(`ScreensOf`), with a notice over it or not; and an account that is logged in again
or banned for good stays so until the job ends.  The locals of a stage are forgotten
at its end.  The form is two fields of digits; taps on them and keys may be lost,
and leave it as in `Astray`, since nothing reads it back (`TypesNumber`); a reboot,
or the account's opening, brings up a form of its own.  `texts` are the markers that
the chats of a screen show, for `classify_elements` looks for its texts in every
element (`Carries`).  The histories `before`, `unsure` and `slip` record what the
code cannot know, and the properties name it: a file of before the recovery, of any
screen, which is read when the first dump does not come to rest and exits with 0 all
the same; a screen whose chats read as another one; a number typed without fields in
the dump, or lost in part; and a country field that shows the code of another
country, where the whole number goes into the national field, as
`tests/test_whatsapp_recovery.py` expects and the docstring of
`split_country_and_national` does not mention.  A send that takes the phone between
two stages is left out: the chat it leaves open and the dump it writes are of
screens that the phone did show during the recovery.  A code read from the SMS may
be an old one, and a stage that finds the code screen at its start types the number
into it; neither can make a verdict false.

## 3. Runs

| run | instance | shows |
|---|---|---|
| `send_queue_faults` | 2 workers, 2 phones, 2 jobs, 1 crash, failing calls, deleted rows | a message is sent at most once; one worker per job; outcomes are final and true; order per phone |
| `send_queue_leases` | 2 workers, 1 CLI send, 1 phone, unlocks, row edits, failing calls | the lease contract; a covered user drives the endpoint the row names |
| `send_queue_live` | 1 worker, 1 CLI send, 1 crash, fair | jobs leave the queue and are finished, locks clear |
| `recovery_faults` | 1 recovery thread, 1 operator, 2 recoveries of a phone, 1 crash, failing calls | one active per phone; outcomes final, events true, attempts bounded; the lease contract |
| `recovery_live` | 1 recovery thread, 2 phones, 1 restart, fair | recoveries move on; outcomes are reported |
| `system` | 1 worker, 1 recovery thread, a phone, 1 crash | the contract holds for both kinds of users together; failures open recoveries |
| `send_requests` | 3 requests, 2 phones, interval 2, failing calls, a valid or an invalid setting | media files live as long as their jobs, none is forgotten but where its removal fails or an exception escapes; a companion per interval unless handlers overlap or fail |
| `ingest` | 4 posts of 2 notifications, one with media, failing calls, restarts, timeouts | stored and forwarded once; media of rows kept, of duplicates removed; order |
| `phone_sends` | a text, a picture or a document; 2 chats, 2 search results, 2 pending taps, late chats and screens, leftovers, a server that dies | at most one message per job; text, file and chat as intended but for the named doubts; no success for what was not sent; the phone left clean |
| `recovery_screens` | a number of country 55, 2 attempts, a ladder with a reboot, chats with and without markers, lost taps and keys, restarts, fair | true verdicts, an appeal behind every wait and the phone's own number, but for the named exceptions; stages end |
| `recovery_started` (violation) | | the started webhook twice for a recovery |
| `system_unopened` (violation) | connector refuses nested transactions | a failure that opens no recovery |

**Bounds.**  `MaxTime` of 1 or 2 ticks with leases of 1 tick is enough for a lease
to run out under its holder, for another to take the phone and for the late release
to arrive.  Two workers and a CLI process are enough for every pair of users; two
jobs, of one phone or of two, for order; that a claim which skips a busy phone keeps
the order of a later job of the same phone needs a third job and is left to the
theorem `QueueIsFifoPerDevice` (three jobs are beyond the run).  `MaxAttempts = 2`
has a retry and a last attempt; two recoveries of one phone are a finished one and
its successor.  `MaxCrashes = 1` has every crash point once; `CanCrash` also asks
that leases end within the bounded clock, so that the liveness runs do not stop at
its horizon with a lease that could never end.  `MaxEdits` bounds row edits,
`MaxRetries` retry requests.  Three requests with an interval of 2 have a job that
brings a companion, one that does not, and every overlap of two handlers on one
phone; a phone can have an odd and an even count.  Four posts of two fingerprints
have a first post, a repost that overlaps it, a repost that comes later, and a third
behind them in the queue.  Two chats have the right one and a wrong one, two search
results every pair of rows in both orders, two pending taps the first and its
repetition.  The gallery has at most four rows: an old one, a stale one, the job's
and one that arrives.  A number of four digits with a national part of two has both
ways to split it, a country field may show nothing, the right code or another, and a
form gone wrong is one whose national digits went to the country field or one that
lacks a digit; a chat shows no marker or one of the three that decide something; a
ladder of three rungs ends with the reboot (a reconnect is one more rung of the same
kind); two attempts are a first and a last one, and `_tap_through_submit` keeps its
three taps.  The symmetry of workers and phones is used only without liveness.

**Deadlock** is not checked: at the clock's bound, with all jobs finished and
nothing left to enqueue, the bounded model stops.

**Fairness.**  `WF` of each worker thread's next step: the threads poll in an
endless loop, adb and Appium calls have timeouts, lock waits end in an error.
`WF` of a CLI process that has started and of an API request under way.  `WF` of
the clock.  Clients, operators, crashes and errors are never forced.  Each fair
run lets no database call fail: with failures allowed at every call, a worker
that fails for ever is fair.  In `recovery_screens`, `WF` of the stage's next step
(every adb command has a timeout, and the code neither waits for the screen without a
count nor without a deadline) and of the deadline's passing; the phone, WhatsApp
and the server's death are not forced, and adb commands and dumps may fail for
ever.

**What the violations mean.**  The two are in `findings`, with the sentence of the
repository they contradict: a retry request may write an old status back
(`StartedOnce`), and a nested transaction is refused by the connector but not by the
tests' fake (`FailureOpensRecovery`).  The passing runs state what does hold in
their place: one started event *plus one per retry request*, and a recovery opened
*when the connector allows it*.  A third promise holds only in part:
`recovery_queue.py:5-9` says that the lease keeps a recovery and a send from ever
being on a phone at the same time; since nobody renews a lease, that is so until
the lease ends, which is what `SystemImplementsContract` states.  A job whose
worker died stays `running` for ever, with a phone that is not locked, although
`README.md:764` describes `running` as "Device is locked and processing";
`JobsAreFinished` speaks of behaviours without a crash and says so.

**What the properties leave out.**  The code loses some things by design, and the
properties exempt them instead of hiding them in the model.  A recovery whose device row
is gone is failed inside the claim (`_fail_locked`, `recovery_queue.py:254`) and no
`session_recovery_failed` is posted, although `WEBHOOKS.md` lists the event for `failed`:
the model has the step, `OutcomeIsReported` is stated for phones whose row is there.  A
crash between the commit of a status and its webhook loses the webhook, since nothing
records that it is due; so does a failure of the ingest handler between row and webhook
(`StoredIsForwarded` exempts it).  A handler that fails after its job was committed
answers an error and removes the media of a job that will be sent (`MediaOutlivesJob`).
Two handlers of a phone that overlap lose or double a companion (`CompanionPerInterval`).
The fair runs of the send queue have one phone; that a busy phone does not hold up
another is not checked as liveness.

## 4. Proofs

TLAPS checks these for all values of the constants that satisfy the named
assumptions below:

| module | theorems |
|---|---|
| `DeviceLeaseProofs` | `ContractIsExclusive` (types, covered uses own their lease columns, exclusive use); each operation on `devices` is a step of the contract (lemmas); `ImplementationIsExclusive` |
| `SendQueueProofs` | `QueueInvariant`, `QueueTypes`, `QueueOneWorkerPerJob`, `QueueImplementsContract`, `QueueIsExclusive`, `QueueDrivesCurrentEndpoint`; `SendInvariant`, `QueueSendsAtMostOnce`, `QueueOutcomesAreTrue` (from `QueueSucceededWasSent` and `QueueAlertedJobFailed`), `QueueOutcomeIsFinal`, `QueueIsFifoPerDevice` |
| `RecoveryProofs` | `RecoveryInvariant`, `RecoveryTypes`, `RecoveryImplementsContract`, `OneRecoveryPerDevice`, `RecoveryOutcomeIsFinal`, `RecoveryAttemptsBounded`, `RecoveryOutcomeIsReported`, `RecoveryEventsAreTrue`, all under `OneThread` |
| `SystemProofs` | `SystemInvariant`, `SystemTypes`, `SystemKeepsContract`, `SystemIsExclusive`, `SystemSendsAtMostOnce`, `SystemIsFifoPerDevice`, `SystemDrivesCurrentEndpoint`, `SystemOneRecoveryPerDevice`, all under `OneThread` |
| `SendRequestProofs` | `MediaIsThere`, `FilesAreOwned`, `CompanionsAreCounted` |
| `IngestProofs` | `IngestQueueInvariant`, `IngestInvariant`, `IngestTypes`, `NotificationsAreForwardedOnce`, `StoredNotificationsAreForwarded`, `StoredMediaIsServed`, `MediaFilesAreOwned`, `NotificationsKeepTheirOrder` |
| `PhoneSendsProofs` | `PhoneInvariant`, `PhoneTypes`, `TextIsSentOnce`, `TextIsAsIntended`, `TextReportIsTrue`, `FileIsAsIntended`, `FileReportIsTrue`, `PhoneIsLeftClean` |
| `RecoveryScreensProofs` | `ScreensInvariant`, `ScreensTypes`, `VerdictsAreTrue`, `ReviewsAreAwaited`, `NumberIsOwn` |

So every safety invariant, every action property and every refinement that a
passing run checks is a theorem, for any number of workers, phones, jobs, posts,
chats or taps, with one exception, `FailureOpensRecovery`.

**Assumptions.**  Each module names what it asks of its constants, and TLC
evaluates it on every run of the module.  They are ranges (limits and durations are
positive numbers), distinct model values (`Elsewhere` is no chat, `NoFile` is no
screen), and three that say something of the code.  `SystemAssumption`: the worker
ids of queue workers, CLI sends and recovery threads differ
(`queue-<host>-<pid>-<n>`, `<host>-<pid>`, `recovery-<host>-<pid>`).
`RecoveryScreensAssumption`: a national part has more than one digit (11 in the code), so
that a number of country 55 can be split in two, and a screen may be without a text
that looks like a marker.  `OneThread`: the server starts one recovery thread.

**Argument.**  Exclusive use is not proved over program counters.  The contract has
a small inductive invariant: a covered use owns the lease columns of its phone
(`CoveredIsLeased`), so two covered uses of one phone would be one.  Then the
queue is shown to refine the contract: a claim is `Acquire` since the lease it
saw was over at a clock read that is not in the future; a release is `GiveBack`
or nothing since its `WHERE` names the worker and the end of the lease; an end
of a session, by return, error or crash, is `Stop`; an unlock or a deleted row is
`Revoke`.  The steps need to know that a claiming worker has no session, that
the row of a busy worker's job names that worker and a registered id, and that
clock reads are in the past: that is `QueueInv`, which is why `TypeOK` alone is
not inductive.

*Endpoints.*  A worker reads the serial of its phone once, after the claim.
`EndpointInv` says of a covered sender that the serial it holds is the one of the row:
a row can be edited only when no lock is active (`UpdateDevice`), and a covered
lease is one (`CoveredIsLeased`), so that the proof rests on the contract.

*Outcomes of sends.*  `SentAtMostOnce` is not inductive: nothing in it keeps a
worker from driving the phone for a job that was sent before.  `SendInv` says
what is known at each point of the loop (a job its worker has not driven yet has
no send) and of each status (pending: no send; succeeded: one).  Every change of
the table is one of a few row writes (`RowWrite`), each guarded by the old
status, which gives `OutcomeIsFinal` for every step.  For the order per
phone, the rows of the table are a prefix of the ids (`RowsArePrefix`), so a new
job is behind all others; and whatever a claim takes out of the queue, the job it
claims and the orphans before it, takes the earlier pending jobs of the same phone
along (`ClaimOrder`), whatever clock read it decides on.

*Recovery.*  The theorems assume `OneThread`, what the server does: it starts one
recovery thread.  They need it.  A recovery job stays claimable while it is worked
on, so a second thread could claim it when the lease has run out, and the first,
which re-reads the row after its claim, would give back the lease of the second.
With one thread, `RecoveryInv` says that the row of the job it holds, and its copy
of that row, name it, and that a terminal copy means a terminal row.  Every step
then either inserts one detected job for a phone without an active one, or opens
and reopens nothing (`StepOpens`): `OneActivePerDevice` and `OutcomeIsFinal`
follow.  `AttemptsOK` relates the thread's copy of the attempts, on which it
decides, to the row, in which the database counts: the copy lags by at most the
one increment whose read-back raised (`Slack`).  `EndsOK` says that a job that is
active, or that the thread still works on, was not reported, and that a thread
about to report has the status of the row; so a report is true and single, and
`Reported` adds that a verdict of the thread is all that ends a job.  The start is
a count: what was announced, what comes next, a `detected` that the row or the
copy still says, and every retry request that will write `detected` back, are
together at most one more than the retries (`StartedOK`).

*Send requests.*  A worker that is done removes a file by the name of its request,
so `MediaOutlivesJob` needs that no two jobs name one file, and that in turn that a
request has no job with media before its INSERT (`RequestInv`).  The companions
are right only at rest: in between, `CountsOk` says what the handler that has
committed its job and not yet counted still owes.

*Notifications.*  `QueueInv` keeps the app's queue sorted and behind all that left
it.  `IngestInv` says what a handler knows at each point of its work: before the
media is written there is no file, before the INSERT the file is there, from the
INSERT on the row names this post.  A webhook is posted only by the handler the
row names, so two webhooks of one fingerprint are one (`ForwardedOnce`), and a
duplicate, whom no row names, removes only its own file (`MediaIsServed`).
`OrderInv` adds that at most one post is between app and answer while the app is
patient; with the queue's order, webhooks are sorted.

*Texts.*  `TextInv` splits the code at the search for the send button.  Before it, no
tap is pending and nothing is sent; after it, only a chat that opens late can bring
text with it, which is on record (`AgainIsLate`), so a message that left an empty field
behind is the only one (`SentLeavesNoDraft`).  In between stands what was checked: the
chat on the screen and every chat yet to open is the right one or in doubt
(`ChatIsThere`, `OpeningsAreKnown`), and so is the text in its field (`TextIsThere`).  A
field that is seen empty in a chat therefore lost its text to a message or to a doubt
(`ReportedIsSent`).  That a matched row is one of the results needs the least element of
a set of indices (`FirstOfIsMember`), from the well-foundedness of the numbers.

*Files.*  `FileInv` has two halves that do not meet.  `GivenBack` lists for each
thing that a job takes (rotation, flags, the registration of uiautomator2, the
staged file, its row) the steps at which it is held; `HoldsFile` ends with `clean`,
and every step that raises leads there or is excused, so nothing is left at `idle`.
The row goes because there is one (`OneRow`, `RowsShrink`).  `ScreenInv` is about
what can be on the screen or about to come up.  Before the code calls up a chat or a
preview nothing is to come (`NotCalledUp`).  In the attach menu, what is there once
nothing is to come is the chat of the number, and unless a doubt is on record it
stays (`ChatIsPicked`, `TapsAreForOwn`); if the chat was there before its link came
up, that is the doubt `unopened`.  A preview comes from the row that was tapped, and
the last row is the file's or a newer one (`PreviewIsOwn`).  There is one preview,
either on the screen or about to come up, and none after a file was sent
(`OnePreview`): two taps that are handled late cannot send two files.  A preview
that is gone when the code looks, with nothing yet to come, was sent
(`PreviewIsTapped`, `IntentIsShown`), which gives `ReportedFileIsSent`.  `PhoneInv`
joins the halves of `PhoneSends`: a call takes one branch, and leaves the variables
of the other alone (`BranchStep`).

*Recovery screens.*  What a screen tells of the account stays true: a home screen means
logged in, a banned screen banned, a receipt that the appeal is in (`Tells`).  This holds
of the screen and of the one to come (`PhoneTells`) and of every dump of this recovery,
however old, but not of the file of before (`DumpTells`).  The code makes of such a dump
what the screen is, unless the texts of chats mislead it (`ClassIsTrue`), and the verdicts
are read off it.  For the number, what is typed beside a country field is the rest of the
number (`EnteredIsOwn`, from `SplitOfEmpty` and `SplitOfShown`), unless the dump shows
another code than the number's or the field has another one by then; so a form that was
typed without a slip holds the number (`FormIsOwn`), and nothing but typing or a new form
changes it.

*The system.*  The composed server needs no new invariant: `SystemInv` is `QueueInv` and
`RecoveryInv`.  What needs proof is that the steps of each part are, to the other, those of a
stranger: they leave its rows alone, and what they do to the lease columns is a
step the other's invariant already allows (`QueueLeavesOthers`,
`RecoveryLeavesOthers`, `OthersKeepQueue`, `OthersKeepRecovery`), a restart of the server being
a crash of all workers at once (`WorkersForget`, `RecoveryForgets`).  The lease contract,
the promises about sends and the one recovery per phone then follow from the step lemmas
of each part; a step in which a failed send opens a recovery is a step of both.

Only model-checked: the liveness properties `JobsAreFinished`, `LocksClear`,
`RecoveryMovesOn` and `StageEnds`, since temporal reasoning under fairness is out of
the prover's reach; and `FailureOpensRecovery`, which holds only with a connector that
allows a transaction within another (`ImplicitTxnRaises = FALSE` in `System.cfg`) and fails
with the real one, as `system_unopened` shows, so that a theorem under that assumption
would say nothing of the deployed program.  That a recursive or folded computation is right for every input
would need induction over data, which it does not do either; the models have none that a
property rests on.

## 5. Not modelled, and the plan

Left out for good: the web console, gestures of `stochastic.py`, the text of UI
selectors, migrations, logging.  `send_media_with_appium`,
`send_direct_media_fallback` and the Appium ladder of `appium_media.py` are code
that nothing which sends calls.  Connecting, waking and unlocking in `adb.py`
either return or raise: the models have them as calls that may fail.  InnoDB's
row-lock order is below the grain: a deadlock victim appears as a failed call.

What could follow: the deadlock of row locks between the send claim and the recovery
claim (`recovery_queue.py:187`), which needs a model of InnoDB's locks below the present
grain; device creation and the `last_seen` columns; and the abstract promise of a
notification path (forwarded once, in order) as a specification of its own that
`Ingest` refines.
