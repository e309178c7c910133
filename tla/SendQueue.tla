------------------------------ MODULE SendQueue ------------------------------
(***************************************************************************)
(* The send queue: the `send_jobs` table (send_queue.py), the queue worker *)
(* threads of the server process (queue_worker.py) and the one-off sends   *)
(* of the CLI (workflows.py), all taking phones through the device lease.  *)
(*                                                                         *)
(* One action is one database transaction, one call into the phone, or one *)
(* clock read, in the order the code makes them; whatever else runs may    *)
(* come between two of them.  Claims serialise on InnoDB row locks (SELECT *)
(* ... FOR UPDATE), so a claim is one step; the clock was read before it.  *)
(***************************************************************************)
EXTENDS DeviceLease

CONSTANTS QueueWorker,  \* the worker threads of the server process
          CliSend,      \* the CLI processes, each running one `send`
          MaxJobs,      \* bound on the rows of send_jobs
          MaxCrashes,   \* bound on the deaths of processes
          DbMayFail     \* may a database call of a worker or a CLI raise?

ASSUME SendQueueAssumption ==
  /\ QueueWorker \subseteq Actor /\ CliSend \subseteq Actor
  /\ QueueWorker \cap CliSend = {}
  /\ MaxJobs \in Nat /\ MaxCrashes \in Nat
  /\ DbMayFail \in BOOLEAN

VARIABLES send_jobs,  \* the table; a row that was not inserted yet is "absent"
          worker,     \* the local state of each queue worker thread
          cli,        \* the local state of each CLI process
          sent,       \* history: how often the message of a job was sent
          alerted,    \* history: the jobs a device-health webhook was posted for
          crashes     \* history: how many processes died

queueVars == <<send_jobs, worker, cli, sent, alerted, crashes>>
vars == <<leaseVars, queueVars>>

Job == 1..MaxJobs
Status == {"absent", "pending", "running", "succeeded", "failed"}
Terminal == {"succeeded", "failed"}

(* Why a send failed, as far as process_claimed_job tells exceptions apart: *)
(* WhatsAppRestrictedError, WhatsAppLoggedOutError, AdbError "not visible   *)
(* in adb", anything else.                                                  *)
Failure == {"restricted", "logged_out", "offline", "other"}
Recoverable == {"restricted", "logged_out"}

JobRow == [status : Status, device : Device \cup {Nobody}, seconds : LeaseSeconds \cup {0},
           worker : QueueWorker \cup {Nobody}, until : Nat]
NoRow == [status |-> "absent", device |-> Nobody, seconds |-> 0,
          worker |-> Nobody, until |-> 0]

(* Program counters of a worker: where queue_worker_loop is. *)
WorkerPc == {"idle",        \* between two polls
             "claiming",    \* now_iso() is read, the claim waits for row locks
             "claimed",     \* committed, the job and device not yet re-read
             "driving",     \* in the try block, using the phone
             "completing",  \* the send returned, complete_send_job comes next
             "failing",     \* the try block raised, fail_send_job comes next
             "alerting",    \* the job is failed, the webhook comes next
             "recovering",  \* start_recovery_for_job comes next
             "releasing",   \* in the finally block
             "dead"}        \* an uncaught exception ended the thread
Busy == WorkerPc \ {"idle", "claiming", "dead"}

Worker == [pc : WorkerPc, current : Nat, job : Job \cup {0},
           serial : Nat, failure : Failure]
IdleWorker == [pc |-> "idle", current |-> 0, job |-> 0, serial |-> 0,
               failure |-> "other"]

CliPc == {"start", "waiting", "leased", "driving", "releasing", "exited"}
Cli == [pc : CliPc, device : Device \cup {Nobody}, current : Nat, until : Nat,
        serial : Nat]
NewCli == [pc |-> "start", device |-> Nobody, current |-> 0, until |-> 0, serial |-> 0]

TypeOK ==
  /\ LeaseTypeOK
  /\ send_jobs \in [Job -> JobRow]
  /\ worker \in [QueueWorker -> Worker]
  /\ cli \in [CliSend -> Cli]
  /\ sent \in [Job -> Nat]
  /\ alerted \in SUBSET Job
  /\ crashes \in Nat

Init ==
  /\ LeaseInit
  /\ send_jobs = [j \in Job |-> NoRow]
  /\ worker = [w \in QueueWorker |-> IdleWorker]
  /\ cli = [c \in CliSend |-> NewCli]
  /\ sent = [j \in Job |-> 0]
  /\ alerted = {}
  /\ crashes = 0

(* Worker w moves to pc, keeping its job and nothing else it remembers. *)
MovesTo(w, pc) ==
  worker' = [worker EXCEPT ![w] = [IdleWorker EXCEPT !.pc = pc, !.job = worker[w].job]]

-----------------------------------------------------------------------------
(* enqueue_send_job: the INSERT of a pending row under the next id, from    *)
(* the API handler, which found the device just before.                     *)
EnqueueSendJob(d, secs) ==
  /\ d \in registered
  /\ \E j \in Job :
       /\ send_jobs[j].status = "absent"
       /\ \A i \in 1..(j - 1) : send_jobs[i].status # "absent"
       /\ send_jobs' = [send_jobs EXCEPT
                          ![j] = [NoRow EXCEPT !.status = "pending", !.device = d,
                                               !.seconds = secs]]
  /\ UNCHANGED <<leaseVars, worker, cli, sent, alerted, crashes>>

-----------------------------------------------------------------------------
(* claim_next_send_job.                                                     *)

Pending == {j \in Job : send_jobs[j].status = "pending"}
Orphans == {j \in Pending : send_jobs[j].device \notin registered}

(* Mutant: running jobs whose phone's lease is gone are claimed again. *)
ClaimableStale(current) ==
  {j \in Job : /\ send_jobs[j].status \in {"pending", "running"}
               /\ ~LockActive(send_jobs[j].device, current)}

Claimable(current) ==
  {j \in Pending \ Orphans : ~LockActive(send_jobs[j].device, current)}

(* Mutant: ORDER BY id DESC. *)
Last(S) == {j \in S : \A i \in S : i <= j}

(* ORDER BY id ASC, and the scan stops at the first claimable job. *)
First(S) == {j \in S : \A i \in S : j <= i}

(* Mutant: a status the API does not know. *)
FailRowUnknown(row) == [row EXCEPT !.status = "error"]

(* mark_claim_failed: orphans that the scan passes are failed on the way. *)
FailRow(row) == [row EXCEPT !.status = "failed"]

(* Mutant: the claim leases the phone but leaves the job pending. *)
ClaimRowPending(row, w, until) == [row EXCEPT !.worker = w, !.until = until]

ClaimRow(row, w, until) ==
  [row EXCEPT !.status = "running", !.worker = w, !.until = until]

(* current = now_iso(), before the transaction and its lock waits. *)
BeginClaim(w) ==
  /\ worker[w].pc = "idle"
  /\ worker' = [worker EXCEPT ![w] = [IdleWorker EXCEPT !.pc = "claiming",
                                                        !.current = now]]
  /\ UNCHANGED <<leaseVars, send_jobs, cli, sent, alerted, crashes>>

(* The oldest pending job whose phone is free becomes running, and its      *)
(* phone leased, in one transaction.                                        *)
Claim(w) ==
  /\ worker[w].pc = "claiming"
  /\ \E j \in First(Claimable(worker[w].current)) :
       /\ send_jobs' =
            [i \in Job |->
               IF i = j THEN ClaimRow(send_jobs[i], w, now + send_jobs[i].seconds)
               ELSE IF i \in Orphans /\ i < j THEN FailRow(send_jobs[i])
               ELSE send_jobs[i]]
       /\ TakeLease(w, send_jobs[j].device, now + send_jobs[j].seconds)
       /\ worker' = [worker EXCEPT ![w] = [IdleWorker EXCEPT !.pc = "claimed", !.job = j]]
  /\ UNCHANGED <<now, registered, serial, cli, sent, alerted, crashes>>

(* No pending job has a free phone: the scan ends, the worker sleeps. *)
ClaimNothing(w) ==
  /\ worker[w].pc = "claiming"
  /\ Claimable(worker[w].current) = {}
  /\ send_jobs' = [i \in Job |->
                     IF i \in Orphans THEN FailRow(send_jobs[i]) ELSE send_jobs[i]]
  /\ worker' = [worker EXCEPT ![w] = IdleWorker]
  /\ UNCHANGED <<leaseVars, cli, sent, alerted, crashes>>

(* The transaction raised (deadlock, lock wait timeout, lost connection):   *)
(* rolled back, and the loop starts over.                                   *)
ClaimFails(w) ==
  /\ DbMayFail
  /\ worker[w].pc = "claiming"
  /\ worker' = [worker EXCEPT ![w] = IdleWorker]
  /\ UNCHANGED <<leaseVars, send_jobs, cli, sent, alerted, crashes>>

(* The job and its device are read again after the commit; the serial the   *)
(* worker will drive comes from this read.                                  *)
Reread(w) ==
  /\ worker[w].pc = "claimed"
  /\ send_jobs[worker[w].job].device \in registered
  /\ worker' = [worker EXCEPT ![w].pc = "driving",
                              ![w].serial = serial[send_jobs[worker[w].job].device]]
  /\ UNCHANGED <<leaseVars, send_jobs, cli, sent, alerted, crashes>>

(* The re-read raised: the claim is already committed, and nothing undoes it. *)
RereadFails(w) ==
  /\ DbMayFail
  /\ worker[w].pc = "claimed"
  /\ worker' = [worker EXCEPT ![w] = IdleWorker]
  /\ EndSessions({w})
  /\ UNCHANGED <<now, registered, lease, serial, send_jobs, cli, sent, alerted, crashes>>

(* The device row is gone: device_serial(None) raises an AttributeError     *)
(* outside the try block, which the loop does not catch.                    *)
RereadNoDevice(w) ==
  /\ worker[w].pc = "claimed"
  /\ send_jobs[worker[w].job].device \notin registered
  /\ worker' = [worker EXCEPT ![w] = [IdleWorker EXCEPT !.pc = "dead"]]
  /\ EndSessions({w})
  /\ UNCHANGED <<now, registered, lease, serial, send_jobs, cli, sent, alerted, crashes>>

-----------------------------------------------------------------------------
(* process_claimed_job.                                                     *)

(* ensure_device_ready, wake_and_unlock_device and send_whatsapp (or the    *)
(* stochastic actions) returned.                                            *)
SendOk(w) ==
  /\ worker[w].pc = "driving"
  /\ sent' = [sent EXCEPT ![worker[w].job] = @ + 1]
  /\ MovesTo(w, "completing")
  /\ EndSessions({w})
  /\ UNCHANGED <<now, registered, lease, serial, send_jobs, cli, alerted, crashes>>

(* Mutant: the exception is logged and the job completed. *)
SendRaisesSwallowed(w, failure, tapped) ==
  /\ worker[w].pc = "driving"
  /\ tapped => failure # "offline"
  /\ sent' = [sent EXCEPT ![worker[w].job] = IF tapped THEN @ + 1 ELSE @]
  /\ MovesTo(w, "completing")
  /\ EndSessions({w})
  /\ UNCHANGED <<now, registered, lease, serial, send_jobs, cli, alerted, crashes>>

(* One of them raised; an error after the tap on send (no confirmation on   *)
(* the screen) leaves the message sent.  Only ensure_device_ready, which    *)
(* runs first, reports a phone that is not visible in adb.                  *)
SendRaises(w, failure, tapped) ==
  /\ worker[w].pc = "driving"
  /\ tapped => failure # "offline"
  /\ sent' = [sent EXCEPT ![worker[w].job] = IF tapped THEN @ + 1 ELSE @]
  /\ worker' = [worker EXCEPT ![w].pc = "failing", ![w].serial = 0,
                              ![w].failure = failure]
  /\ EndSessions({w})
  /\ UNCHANGED <<now, registered, lease, serial, send_jobs, cli, alerted, crashes>>

(* Mutant: the UPDATE is not guarded by the status. *)
FinishJobUnguarded(j, status) == send_jobs' = [send_jobs EXCEPT ![j].status = status]

(* Mutant: the guard names the wrong status, so the UPDATE matches no row. *)
FinishJobWrongGuard(j, status) ==
  send_jobs' = IF send_jobs[j].status = "pending"
                 THEN [send_jobs EXCEPT ![j].status = status]
                 ELSE send_jobs

(* UPDATE send_jobs ... WHERE id = j AND status = 'running'. *)
FinishJob(j, status) ==
  send_jobs' = IF send_jobs[j].status = "running"
                 THEN [send_jobs EXCEPT ![j].status = status]
                 ELSE send_jobs

(* complete_send_job: the guarded UPDATE, the commit, the re-read. *)
CompleteSendJob(w) ==
  /\ worker[w].pc = "completing"
  /\ FinishJob(worker[w].job, "succeeded")
  /\ MovesTo(w, "releasing")
  /\ UNCHANGED <<leaseVars, cli, sent, alerted, crashes>>

(* It raised, before the commit or in the re-read after it; the except      *)
(* block takes over.                                                        *)
CompleteRaises(w) ==
  /\ DbMayFail
  /\ worker[w].pc = "completing"
  /\ \/ UNCHANGED send_jobs
     \/ FinishJob(worker[w].job, "succeeded")
  /\ MovesTo(w, "failing")
  /\ UNCHANGED <<leaseVars, cli, sent, alerted, crashes>>

(* fail_send_job: the guarded UPDATE, the commit, the re-read. *)
FailSendJob(w) ==
  /\ worker[w].pc = "failing"
  /\ FinishJob(worker[w].job, "failed")
  /\ IF worker[w].failure = "other"
       THEN MovesTo(w, "releasing")
       ELSE worker' = [worker EXCEPT ![w].pc = "alerting"]
  /\ UNCHANGED <<leaseVars, cli, sent, alerted, crashes>>

(* It raised inside the except block: no webhook, no recovery, straight to  *)
(* the finally block.                                                       *)
FailRaises(w) ==
  /\ DbMayFail
  /\ worker[w].pc = "failing"
  /\ \/ UNCHANGED send_jobs
     \/ FinishJob(worker[w].job, "failed")
  /\ MovesTo(w, "releasing")
  /\ UNCHANGED <<leaseVars, cli, sent, alerted, crashes>>

(* notify_session_restricted / notify_session_disconnected. *)
Alert(w) ==
  /\ worker[w].pc = "alerting"
  /\ alerted' = alerted \cup {worker[w].job}
  /\ MovesTo(w, IF worker[w].failure \in Recoverable THEN "recovering" ELSE "releasing")
  /\ UNCHANGED <<leaseVars, send_jobs, cli, sent, crashes>>

(* start_recovery_for_job: whatever it does to the recovery table (see      *)
(* AutomationSystem), its exceptions are swallowed and the worker goes on.  *)
StartRecovery(w) ==
  /\ worker[w].pc = "recovering"
  /\ MovesTo(w, "releasing")
  /\ UNCHANGED <<leaseVars, send_jobs, cli, sent, alerted, crashes>>

(* The finally block: release_device_lease with the worker id and the       *)
(* locked_until of the job.                                                 *)
Release(w) ==
  /\ worker[w].pc = "releasing"
  /\ ReleaseLease(send_jobs[worker[w].job].worker, send_jobs[worker[w].job].device,
                  send_jobs[worker[w].job].until)
  /\ worker' = [worker EXCEPT ![w] = IdleWorker]
  /\ UNCHANGED <<now, registered, serial, session, send_jobs, cli, sent, alerted, crashes>>

(* The release raised; the lease stays until it runs out. *)
ReleaseRaises(w) ==
  /\ DbMayFail
  /\ worker[w].pc = "releasing"
  /\ worker' = [worker EXCEPT ![w] = IdleWorker]
  /\ UNCHANGED <<leaseVars, send_jobs, cli, sent, alerted, crashes>>

-----------------------------------------------------------------------------
(* send_with_device_lease, in a CLI process of its own.                     *)

(* acquire_device_lease reads the clock twice, for `current` and for        *)
(* `until`, both before its transaction waits for the row lock.             *)
CliStart(c, d, secs) ==
  /\ cli[c].pc = "start"
  /\ cli' = [cli EXCEPT ![c] = [NewCli EXCEPT !.pc = "waiting", !.device = d,
                                              !.current = now, !.until = now + secs]]
  /\ UNCHANGED <<leaseVars, send_jobs, worker, sent, alerted, crashes>>

CliAcquire(c) ==
  /\ cli[c].pc = "waiting"
  /\ cli[c].device \in registered
  /\ ~LockActive(cli[c].device, cli[c].current)
  /\ TakeLease(c, cli[c].device, cli[c].until)
  /\ cli' = [cli EXCEPT ![c].pc = "leased", ![c].current = 0]
  /\ UNCHANGED <<now, registered, serial, send_jobs, worker, sent, alerted, crashes>>

(* ValueError, DeviceLockError or a database error: the command exits. *)
CliRefused(c) ==
  /\ cli[c].pc = "waiting"
  /\ \/ cli[c].device \notin registered
     \/ LockActive(cli[c].device, cli[c].current)
     \/ DbMayFail
  /\ cli' = [cli EXCEPT ![c] = [NewCli EXCEPT !.pc = "exited"]]
  /\ UNCHANGED <<leaseVars, send_jobs, worker, sent, alerted, crashes>>

(* get_device_by_id after the commit: the serial, and the locked_until the  *)
(* release will name, come from this read.                                  *)
CliReread(c) ==
  /\ cli[c].pc = "leased"
  /\ cli[c].device \in registered
  /\ cli' = [cli EXCEPT ![c].pc = "driving",
                        ![c].until = lease[cli[c].device].until,
                        ![c].serial = serial[cli[c].device]]
  /\ UNCHANGED <<leaseVars, send_jobs, worker, sent, alerted, crashes>>

(* It raised, or found no row: the process exits before its try block. *)
CliRereadFails(c) ==
  /\ cli[c].pc = "leased"
  /\ DbMayFail \/ cli[c].device \notin registered
  /\ cli' = [cli EXCEPT ![c] = [NewCli EXCEPT !.pc = "exited"]]
  /\ EndSessions({c})
  /\ UNCHANGED <<now, registered, lease, serial, send_jobs, worker, sent, alerted, crashes>>

(* The send returned or raised. *)
CliStops(c) ==
  /\ cli[c].pc = "driving"
  /\ cli' = [cli EXCEPT ![c].pc = "releasing", ![c].serial = 0]
  /\ EndSessions({c})
  /\ UNCHANGED <<now, registered, lease, serial, send_jobs, worker, sent, alerted, crashes>>

CliRelease(c) ==
  /\ cli[c].pc = "releasing"
  /\ ReleaseLease(c, cli[c].device, cli[c].until)
  /\ cli' = [cli EXCEPT ![c] = [NewCli EXCEPT !.pc = "exited"]]
  /\ UNCHANGED <<now, registered, serial, session, send_jobs, worker, sent, alerted, crashes>>

CliReleaseRaises(c) ==
  /\ DbMayFail
  /\ cli[c].pc = "releasing"
  /\ cli' = [cli EXCEPT ![c] = [NewCli EXCEPT !.pc = "exited"]]
  /\ UNCHANGED <<leaseVars, send_jobs, worker, sent, alerted, crashes>>

-----------------------------------------------------------------------------
(* Bounds of the model: few processes die, and only while the bounded clock *)
(* can still reach the end of every lease.                                  *)
CanCrash == crashes < MaxCrashes /\ \A d \in Device : lease[d].until <= MaxTime

(* The server process dies and is started again: its workers lose their     *)
(* local state, the tables keep what was committed.                         *)
ServerRestarts ==
  /\ CanCrash
  /\ worker' = [w \in QueueWorker |-> IdleWorker]
  /\ EndSessions(QueueWorker)
  /\ crashes' = crashes + 1
  /\ UNCHANGED <<now, registered, lease, serial, send_jobs, cli, sent, alerted>>

(* A CLI process is killed. *)
CliDies(c) ==
  /\ CanCrash
  /\ cli[c].pc \notin {"start", "exited"}
  /\ cli' = [cli EXCEPT ![c] = [NewCli EXCEPT !.pc = "exited"]]
  /\ EndSessions({c})
  /\ crashes' = crashes + 1
  /\ UNCHANGED <<now, registered, lease, serial, send_jobs, worker, sent, alerted>>

-----------------------------------------------------------------------------
ClaimStep(w) ==
  \/ BeginClaim(w) \/ Claim(w) \/ ClaimNothing(w) \/ ClaimFails(w)
  \/ Reread(w) \/ RereadFails(w) \/ RereadNoDevice(w)

ProcessStep(w) ==
  \/ SendOk(w)
  \/ \E failure \in Failure, tapped \in BOOLEAN : SendRaises(w, failure, tapped)
  \/ CompleteSendJob(w) \/ CompleteRaises(w)
  \/ FailSendJob(w) \/ FailRaises(w)
  \/ Alert(w)
  \/ Release(w) \/ ReleaseRaises(w)

CliStep(c) ==
  \/ \E d \in Device, secs \in LeaseSeconds : CliStart(c, d, secs)
  \/ CliAcquire(c) \/ CliRefused(c) \/ CliReread(c) \/ CliRereadFails(c)
  \/ CliStops(c) \/ CliRelease(c) \/ CliReleaseRaises(c)
  \/ CliDies(c)

(* Every step of the queue but the one that reaches into the recovery table. *)
QueueStep ==
  \/ \E d \in Device, secs \in LeaseSeconds : EnqueueSendJob(d, secs)
  \/ \E w \in QueueWorker : ClaimStep(w) \/ ProcessStep(w)
  \/ \E c \in CliSend : CliStep(c)

Next ==
  \/ QueueStep
  \/ \E w \in QueueWorker : StartRecovery(w)
  \/ ServerRestarts
  \/ DevicesStep /\ UNCHANGED queueVars

Spec == Init /\ [][Next]_vars

-----------------------------------------------------------------------------
(* Properties.                                                              *)

(* Refinement: every step of the queue, of its workers and of the CLI is a  *)
(* step the lease contract allows, so no late release frees the lease of    *)
(* another and no claim takes a phone whose lease still runs                *)
(* (devices.py:379-390, send_queue.py:217-218, devices.py:356).             *)
ImplementsContract == Contract!Spec

(* Property: two uses of phones that their leases still cover are of        *)
(* different phones, through every interleaving of claims, late releases,   *)
(* unlocks, crashes and failed calls (send_queue.py:193-266).               *)
ExclusiveUse == Contract!ExclusiveUse

(* Property: an actor whose lease still covers it drives the endpoint that  *)
(* the device row names, although the serial was read once, after the claim *)
(* (devices.py:190-195 refuses edits of a locked device).                   *)
DrivesCurrentEndpoint ==
  /\ \A w \in QueueWorker :
       (worker[w].pc = "driving" /\ Contract!Covered(w)) =>
         worker[w].serial = serial[session[w].device]
  /\ \A c \in CliSend :
       (cli[c].pc = "driving" /\ Contract!Covered(c)) =>
         cli[c].serial = serial[session[c].device]

(* Property: the message of a job is sent at most once, whatever crashes,   *)
(* lease expiries and failed calls happen around it: a job that was claimed *)
(* is never claimed again (send_queue.py:193-266, queue_worker.py:169-196). *)
SentAtMostOnce == \A j \in Job : sent[j] <= 1

(* Property: two busy workers never work on the same job, and a busy worker *)
(* is the one its job's row names (send_queue.py:232-249).                  *)
OneWorkerPerJob ==
  /\ \A w \in QueueWorker :
       worker[w].pc \in Busy => send_jobs[worker[w].job].worker = w
  /\ \A v, w \in QueueWorker :
       (v # w /\ worker[v].pc \in Busy /\ worker[w].pc \in Busy) =>
         worker[v].job # worker[w].job

(* Property: a job that succeeded was sent, and one a device-health webhook *)
(* was posted for is failed, even when complete_send_job or fail_send_job   *)
(* raised half-way (queue_worker.py:193-210).                               *)
SucceededWasSent ==
  \A j \in Job : send_jobs[j].status = "succeeded" => sent[j] = 1
AlertedJobFailed ==
  \A j \in alerted : send_jobs[j].status = "failed"
OutcomesAreTrue == SucceededWasSent /\ AlertedJobFailed

(* Property: the outcome of a job is final: the except block cannot turn a  *)
(* job that complete_send_job already committed into a failed one           *)
(* (send_queue.py:282-316).                                                 *)
OutcomeIsFinal ==
  [][\A j \in Job : send_jobs[j].status \in Terminal =>
       send_jobs'[j].status = send_jobs[j].status]_vars

(* Property: jobs for one phone leave the queue in the order they entered   *)
(* it, although claims skip jobs whose phone is busy (send_queue.py:199-218). *)
FifoPerDevice ==
  \A i, j \in Job :
    (/\ i < j
     /\ send_jobs[i].device = send_jobs[j].device
     /\ send_jobs[j].status \in Terminal \cup {"running"}) =>
      send_jobs[i].status # "pending"

(* Fairness: worker threads keep polling, and every call they make into the *)
(* phone or the database returns or raises, since adb commands, waits and   *)
(* lock waits have timeouts; a CLI process that started runs on; the clock  *)
(* advances.  Nothing forces clients, operators, crashes or errors.         *)
Fairness ==
  /\ \A w \in QueueWorker : WF_vars(ClaimStep(w) \/ ProcessStep(w) \/ StartRecovery(w))
  /\ \A c \in CliSend : WF_vars(cli[c].pc # "start" /\ CliStep(c))
  /\ WF_vars(Tick /\ UNCHANGED queueVars)

FairSpec == Spec /\ Fairness

(* Liveness: every enqueued job leaves the queue, whatever crashes left     *)
(* behind, and if no process dies it ends succeeded or failed               *)
(* (queue_worker.py:106-120, send_queue.py:193-266).                        *)
JobsAreFinished ==
  /\ \A j \in Job : send_jobs[j].status = "pending" ~> send_jobs[j].status # "pending"
  /\ [](crashes = 0) =>
       \A j \in Job : send_jobs[j].status = "pending" ~> send_jobs[j].status \in Terminal

(* Liveness: no phone stays locked, even when the holder died or its        *)
(* release failed: the lease runs out.                                      *)
LocksClear == \A d \in Device : LockActive(d, now) ~> ~LockActive(d, now)
=============================================================================
