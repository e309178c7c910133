------------------------------- MODULE Recovery -------------------------------
(***************************************************************************)
(* The ban recovery: the `whatsapp_recovery_jobs` table                    *)
(* (recovery_queue.py), the recovery worker thread that drives the state   *)
(* machine (recovery_worker.py) and the recovery requests of the HTTP API  *)
(* (api.py).                                                               *)
(*                                                                         *)
(*   detected -> requesting_review <-> review_pending <-> relogin          *)
(*                    any of these -> recovered | failed | cancelled       *)
(*                                                                         *)
(* One action is one database transaction, one stay on the phone or one    *)
(* webhook.  The worker decides on the row it read after its claim; rows   *)
(* change under it when an operator cancels or retries the job.            *)
(***************************************************************************)
EXTENDS DeviceLease

CONSTANTS RecoveryWorker,  \* the recovery thread, one per server process
          Operator,        \* the API threads that serve recovery requests
          MaxRecoveries,   \* bound on the rows of whatsapp_recovery_jobs
          MaxAttempts,     \* ADB_AUTOMATION_RECOVERY_MAX_ATTEMPTS
          TransientBackoff, ReviewBackoff,  \* seconds between two looks at a phone
          MaxRetries,      \* bound on the retry requests
          MaxCrashes,      \* bound on the deaths of the server process
          DbMayFail,       \* may a database call of the worker raise?
          ImplicitTxnRaises  \* does start_transaction raise while the transaction
                             \* that a SELECT opened is still open?

ASSUME RecoveryAssumption ==
  /\ RecoveryWorker \subseteq Actor
  /\ MaxRecoveries \in Nat /\ MaxRetries \in Nat /\ MaxCrashes \in Nat
  /\ {MaxAttempts, TransientBackoff, ReviewBackoff} \subseteq Nat \ {0}
  /\ DbMayFail \in BOOLEAN /\ ImplicitTxnRaises \in BOOLEAN

VARIABLES recovery_jobs,  \* the table; a row that was not inserted yet is "absent"
          recoverer,      \* the local state of each recovery worker
          request,        \* the local state of each API thread in a retry request
          events,         \* history: the webhooks posted for each job
          retries,        \* history: the retry requests that were accepted
          crashes         \* history: how many processes died

recoveryVars == <<recovery_jobs, recoverer, request, events, retries, crashes>>
vars == <<leaseVars, recoveryVars>>

RecoveryJob == 1..MaxRecoveries
Active == {"detected", "requesting_review", "review_pending", "relogin"}
Terminal == {"recovered", "failed", "cancelled"}
Event == {"session_recovery_started", "session_recovered", "session_recovery_failed"}

(* What classify_elements makes of a screen dump. *)
Screen == {"logged_in", "restricted", "review_pending", "permanent_ban",
           "can_register", "unknown"}

RecoveryRow == [status : Active \cup Terminal \cup {"absent"},
                device : Device \cup {Nobody}, seconds : LeaseSeconds \cup {0},
                due : Nat, attempts : Nat,
                worker : RecoveryWorker \cup {Nobody}, until : Nat]
NoRow == [status |-> "absent", device |-> Nobody, seconds |-> 0, due |-> 0,
          attempts |-> 0, worker |-> Nobody, until |-> 0]

(* Where recovery_worker_loop is. *)
RecovererPc == {"idle",        \* between two polls
                "claiming",    \* now_iso() is read, the claim waits for row locks
                "claimed",     \* committed, the row not yet re-read
                "driving",     \* in the try block, using the phone
                "announcing",  \* requesting_review is committed, its webhook comes next
                "deciding",    \* the verdict on the screen is to be written
                "erring",      \* the try block raised, _handle_stage_error comes next
                "notifying",   \* the outcome is committed, its webhook comes next
                "releasing",   \* in the finally block
                "dead"}        \* an uncaught exception ended the thread

(* row is the copy of the job the worker holds, verdict the status it will  *)
(* write, or has written.                                                   *)
Recoverer == [pc : RecovererPc, current : Nat, job : RecoveryJob \cup {0},
              row : RecoveryRow, verdict : Active \cup Terminal \cup {"retry"}]
IdleRecoverer == [pc |-> "idle", current |-> 0, job |-> 0, row |-> NoRow,
                  verdict |-> "retry"]

Request == [job : RecoveryJob \cup {0}, status : Active]
NoRequest == [job |-> 0, status |-> "detected"]

TypeOK ==
  /\ LeaseTypeOK
  /\ recovery_jobs \in [RecoveryJob -> RecoveryRow]
  /\ recoverer \in [RecoveryWorker -> Recoverer]
  /\ request \in [Operator -> Request]
  /\ events \in [RecoveryJob -> [Event -> Nat]]
  /\ retries \in Nat /\ crashes \in Nat

RecoveryInit ==
  /\ recovery_jobs = [j \in RecoveryJob |-> NoRow]
  /\ recoverer = [r \in RecoveryWorker |-> IdleRecoverer]
  /\ request = [o \in Operator |-> NoRequest]
  /\ events = [j \in RecoveryJob |-> [e \in Event |-> 0]]
  /\ retries = 0 /\ crashes = 0

Init == LeaseInit /\ RecoveryInit

IsActive(j) == recovery_jobs[j].status \in Active

(* Mutant: only a job that was not started yet counts. *)
ActiveOnDetected(d) ==
  {j \in RecoveryJob : recovery_jobs[j].status = "detected" /\ recovery_jobs[j].device = d}

(* active_recovery_for_device *)
ActiveOn(d) == {j \in RecoveryJob : IsActive(j) /\ recovery_jobs[j].device = d}

GoTo(r, pc) == recoverer' = [recoverer EXCEPT ![r].pc = pc]

-----------------------------------------------------------------------------
(* enqueue_recovery_job: with the device row locked, an active job of the   *)
(* device is returned as it is, else a new one is inserted, due at once.    *)
(* It reads `registered` under the lock and raises when the row is gone.    *)
EnqueueRecovery(d, secs) ==
  IF d \notin registered \/ ActiveOn(d) # {}
    THEN UNCHANGED recovery_jobs
    ELSE \E j \in RecoveryJob :
           /\ recovery_jobs[j].status = "absent"
           /\ \A i \in 1..(j - 1) : recovery_jobs[i].status # "absent"
           /\ recovery_jobs' =
                [recovery_jobs EXCEPT
                   ![j] = [NoRow EXCEPT !.status = "detected", !.device = d,
                                        !.seconds = secs, !.due = now]]

(* POST /api/recovery.  Its connection has read the device and the active   *)
(* job before, in a transaction that autocommit=False leaves open: if the   *)
(* connector minds, the request ends in a 500.                              *)
CreateRecovery(d, secs) ==
  /\ ~ImplicitTxnRaises
  /\ d \in registered
  /\ EnqueueRecovery(d, secs)
  /\ UNCHANGED <<leaseVars, recoverer, request, events, retries, crashes>>

-----------------------------------------------------------------------------
(* The guarded UPDATEs.  `id = j AND status IN (active)`: a terminal row is *)
(* never written again.                                                     *)

(* Mutant: the UPDATE matches the row by id alone. *)
UpdateById(j, row) == recovery_jobs' = [recovery_jobs EXCEPT ![j] = row]

UpdateActive(j, row) ==
  recovery_jobs' = IF IsActive(j) THEN [recovery_jobs EXCEPT ![j] = row]
                   ELSE recovery_jobs

(* _set_status and mark_review_pending. *)
SetStatus(j, status, due) ==
  UpdateActive(j, [recovery_jobs[j] EXCEPT !.status = status, !.due = due])

(* bump_attempt_and_reschedule; attempts + 1 is computed by the database. *)
BumpAttempt(j, status) ==
  UpdateActive(j, [recovery_jobs[j] EXCEPT !.status = status, !.attempts = @ + 1,
                                           !.due = now + TransientBackoff])

-----------------------------------------------------------------------------
(* The other recovery requests of the API.                                  *)

(* POST .../cancel.  The check of the status before the guarded UPDATE      *)
(* changes the answer only, so the UPDATE is the whole request.             *)
CancelRecovery(j) ==
  /\ IsActive(j)
  /\ SetStatus(j, "cancelled", 0)
  /\ UNCHANGED <<leaseVars, recoverer, request, events, retries, crashes>>

(* POST .../retry reads the status it is about to keep ... *)
BeginRetry(o, j) ==
  /\ request[o] = NoRequest
  /\ retries < MaxRetries
  /\ IsActive(j)
  /\ request' = [request EXCEPT ![o] = [job |-> j, status |-> recovery_jobs[j].status]]
  /\ retries' = retries + 1
  /\ UNCHANGED <<leaseVars, recovery_jobs, recoverer, events, crashes>>

(* ... and writes it back with next_attempt_at = now. *)
FinishRetry(o) ==
  /\ request[o] # NoRequest
  /\ SetStatus(request[o].job, request[o].status, now)
  /\ request' = [request EXCEPT ![o] = NoRequest]
  /\ UNCHANGED <<leaseVars, recoverer, events, retries, crashes>>

-----------------------------------------------------------------------------
(* claim_next_recovery_job.                                                 *)

DueJobs(current) == {j \in RecoveryJob : IsActive(j) /\ recovery_jobs[j].due <= current}
Orphans(current) == {j \in DueJobs(current) : recovery_jobs[j].device \notin registered}
(* Mutant: a phone is free only once its lease was cleared. *)
ClaimableUnleased(current) ==
  {j \in DueJobs(current) \ Orphans(current) :
     lease[recovery_jobs[j].device] = NoLease}

Claimable(current) ==
  {j \in DueJobs(current) \ Orphans(current) :
     ~LockActive(recovery_jobs[j].device, current)}

(* ORDER BY id ASC, and the scan stops at the first claimable job. *)
First(S) == {j \in S : \A i \in S : j <= i}

(* Mutant: a status the API does not know. *)
FailLockedUnknown(row) == [row EXCEPT !.status = "error", !.due = 0]

(* _fail_locked: orphans that the scan passes are failed on the way. *)
FailLocked(row) == [row EXCEPT !.status = "failed", !.due = 0]

BeginClaim(r) ==
  /\ recoverer[r].pc = "idle"
  /\ recoverer' = [recoverer EXCEPT ![r] = [IdleRecoverer EXCEPT !.pc = "claiming",
                                                                 !.current = now]]
  /\ UNCHANGED <<leaseVars, recovery_jobs, request, events, retries, crashes>>

Claim(r) ==
  /\ recoverer[r].pc = "claiming"
  /\ \E j \in First(Claimable(recoverer[r].current)) :
       LET row == recovery_jobs[j]
           until == now + row.seconds
       IN  /\ recovery_jobs' =
                [i \in RecoveryJob |->
                   IF i = j THEN [row EXCEPT !.worker = r, !.until = until]
                   ELSE IF i \in Orphans(recoverer[r].current) /\ i < j
                     THEN FailLocked(recovery_jobs[i])
                     ELSE recovery_jobs[i]]
           /\ TakeLease(r, row.device, until)
           /\ recoverer' = [recoverer EXCEPT ![r] = [IdleRecoverer EXCEPT !.pc = "claimed",
                                                                          !.job = j]]
  /\ UNCHANGED <<now, registered, serial, request, events, retries, crashes>>

ClaimNothing(r) ==
  /\ recoverer[r].pc = "claiming"
  /\ Claimable(recoverer[r].current) = {}
  /\ recovery_jobs' = [i \in RecoveryJob |->
                         IF i \in Orphans(recoverer[r].current)
                           THEN FailLocked(recovery_jobs[i]) ELSE recovery_jobs[i]]
  /\ recoverer' = [recoverer EXCEPT ![r] = IdleRecoverer]
  /\ UNCHANGED <<leaseVars, request, events, retries, crashes>>

(* The transaction raised (deadlock, lock wait timeout, lost connection):   *)
(* rolled back, and the loop starts over.                                   *)
ClaimFails(r) ==
  /\ DbMayFail
  /\ recoverer[r].pc = "claiming"
  /\ recoverer' = [recoverer EXCEPT ![r] = IdleRecoverer]
  /\ UNCHANGED <<leaseVars, recovery_jobs, request, events, retries, crashes>>

(* The job and its device are read again after the commit; everything the   *)
(* worker decides on later comes from this copy.                            *)
Reread(r) ==
  /\ recoverer[r].pc = "claimed"
  /\ recovery_jobs[recoverer[r].job].device \in registered
  /\ recoverer' = [recoverer EXCEPT ![r].pc = "driving",
                                    ![r].row = recovery_jobs[recoverer[r].job]]
  /\ UNCHANGED <<leaseVars, recovery_jobs, request, events, retries, crashes>>

(* The re-read raised, or found no device row, which is an AttributeError   *)
(* the loop does not catch.  The lease stays until it runs out.             *)
RereadFails(r) ==
  /\ recoverer[r].pc = "claimed"
  /\ \/ /\ DbMayFail
        /\ recoverer' = [recoverer EXCEPT ![r] = IdleRecoverer]
     \/ /\ recovery_jobs[recoverer[r].job].device \notin registered
        /\ recoverer' = [recoverer EXCEPT ![r] = [IdleRecoverer EXCEPT !.pc = "dead"]]
  /\ EndSessions({r})
  /\ UNCHANGED <<now, registered, lease, serial, recovery_jobs, request, events,
                 retries, crashes>>

-----------------------------------------------------------------------------
(* process_recovery_job.                                                    *)

(* A job that was cancelled between the claim and the re-read: no stage     *)
(* matches its status, and the guarded UPDATE that reschedules it finds no  *)
(* row.                                                                     *)
LeaveTerminal(r) ==
  /\ recoverer[r].pc = "driving"
  /\ recoverer[r].row.status \in Terminal
  /\ BumpAttempt(recoverer[r].job, recoverer[r].row.status)
  /\ GoTo(r, "releasing")
  /\ EndSessions({r})
  /\ UNCHANGED <<now, registered, lease, serial, request, events, retries, crashes>>

(* A detected job first becomes requesting_review, in the table and in the  *)
(* worker's copy, whether or not the UPDATE found the row still active.     *)
MarkRequestingReview(r) ==
  /\ recoverer[r].pc = "driving"
  /\ recoverer[r].row.status = "detected"
  /\ SetStatus(recoverer[r].job, "requesting_review", now)
  /\ recoverer' = [recoverer EXCEPT ![r].pc = "announcing",
                                    ![r].row.status = "requesting_review"]
  /\ UNCHANGED <<leaseVars, request, events, retries, crashes>>

(* The UPDATE, or the re-read after its commit, raised: the copy still says *)
(* detected.                                                                *)
MarkRaises(r) ==
  /\ DbMayFail
  /\ recoverer[r].pc = "driving"
  /\ recoverer[r].row.status = "detected"
  /\ \/ UNCHANGED recovery_jobs
     \/ SetStatus(recoverer[r].job, "requesting_review", now)
  /\ GoTo(r, "erring")
  /\ EndSessions({r})
  /\ UNCHANGED <<now, registered, lease, serial, request, events, retries, crashes>>

Post(j, event) == events' = [events EXCEPT ![j][event] = @ + 1]

AnnounceStarted(r) ==
  /\ recoverer[r].pc = "announcing"
  /\ Post(recoverer[r].job, "session_recovery_started")
  /\ GoTo(r, "driving")
  /\ UNCHANGED <<leaseVars, recovery_jobs, request, retries, crashes>>

(* _apply_screen and _handle_relogin_stage: what the screen that the stage  *)
(* ended on means for a job in `status`.  In the relogin stage a screen     *)
(* that asks for nothing else has been through perform_relogin.             *)
Verdict(status, screen) ==
  CASE screen = "logged_in"      -> "recovered"
    [] screen = "permanent_ban"  -> "failed"
    [] screen = "review_pending" -> "review_pending"
    [] OTHER ->
         CASE status = "relogin"        -> "recovered"
           [] screen = "can_register"   -> "relogin"
           [] status = "review_pending" ->
                IF screen = "restricted" THEN "requesting_review" ELSE "review_pending"
           [] OTHER -> "retry"

(* The stage's work on the phone returned. *)
SeeScreen(r, screen) ==
  /\ recoverer[r].pc = "driving"
  /\ recoverer[r].row.status \in Active \ {"detected"}
  /\ recoverer' = [recoverer EXCEPT
                     ![r].pc = "deciding",
                     ![r].verdict = Verdict(recoverer[r].row.status, screen)]
  /\ EndSessions({r})
  /\ UNCHANGED <<now, registered, lease, serial, recovery_jobs, request, events,
                 retries, crashes>>

(* It raised: the phone is offline, the package or the review button is not *)
(* there, the login code did not arrive.                                    *)
PhoneRaises(r) ==
  /\ recoverer[r].pc = "driving"
  /\ GoTo(r, "erring")
  /\ EndSessions({r})
  /\ UNCHANGED <<now, registered, lease, serial, recovery_jobs, request, events,
                 retries, crashes>>

(* Mutant: one attempt too many. *)
OutcomeLate(r) ==
  IF recoverer[r].verdict = "retry" /\ recoverer[r].row.attempts >= MaxAttempts
    THEN "failed"
    ELSE recoverer[r].verdict

(* _retry_or_fail: the last attempt fails the job.  The attempts are those  *)
(* of the worker's copy.                                                    *)
Outcome(r) ==
  IF recoverer[r].verdict = "retry" /\ recoverer[r].row.attempts + 1 >= MaxAttempts
    THEN "failed"
    ELSE recoverer[r].verdict

(* The one UPDATE a verdict ends in. *)
WriteOutcome(r) ==
  LET j == recoverer[r].job
      outcome == Outcome(r)
  IN  \/ outcome = "retry" /\ BumpAttempt(j, recoverer[r].row.status)
      \/ outcome = "review_pending" /\ SetStatus(j, outcome, now + ReviewBackoff)
      \/ outcome \in {"requesting_review", "relogin"} /\ SetStatus(j, outcome, now)
      \/ outcome \in {"recovered", "failed"} /\ SetStatus(j, outcome, 0)

(* Mutant: the webhook is posted without reading the row back. *)
WritesStatusUnread(r) == TRUE

(* Mutant: the row is read back before the UPDATE. *)
WritesStatusEarly(r) == recovery_jobs[recoverer[r].job].status = Outcome(r)

(* _recover and _fail post their webhook only if the row they read back has *)
(* the status they wrote.  A terminal row does not change, so the read is   *)
(* part of the step.                                                        *)
WritesStatus(r) ==
  \/ IsActive(recoverer[r].job)
  \/ recovery_jobs[recoverer[r].job].status = Outcome(r)

Decide(r) ==
  /\ recoverer[r].pc \in {"deciding", "erring"}
  /\ WriteOutcome(r)
  /\ recoverer' = [recoverer EXCEPT
                     ![r].pc = IF Outcome(r) \in {"recovered", "failed"} /\ WritesStatus(r)
                                 THEN "notifying" ELSE "releasing",
                     ![r].verdict = Outcome(r)]
  /\ UNCHANGED <<leaseVars, request, events, retries, crashes>>

(* The UPDATE, or the read after its commit, raised.  Inside the try block  *)
(* _handle_stage_error takes over; inside _handle_stage_error only the      *)
(* finally block is left.                                                   *)
DecideRaises(r) ==
  /\ DbMayFail
  /\ recoverer[r].pc \in {"deciding", "erring"}
  /\ WriteOutcome(r) \/ UNCHANGED recovery_jobs
  /\ recoverer' = [recoverer EXCEPT
                     ![r].pc = IF @ = "deciding" THEN "erring" ELSE "releasing",
                     ![r].verdict = "retry"]
  /\ UNCHANGED <<leaseVars, request, events, retries, crashes>>

NotifyOutcome(r) ==
  /\ recoverer[r].pc = "notifying"
  /\ Post(recoverer[r].job, IF recoverer[r].verdict = "recovered"
                              THEN "session_recovered" ELSE "session_recovery_failed")
  /\ GoTo(r, "releasing")
  /\ UNCHANGED <<leaseVars, recovery_jobs, request, retries, crashes>>

(* The finally block names the lease of the worker's copy. *)
Release(r) ==
  /\ recoverer[r].pc = "releasing"
  /\ ReleaseLease(recoverer[r].row.worker, recoverer[r].row.device, recoverer[r].row.until)
  /\ recoverer' = [recoverer EXCEPT ![r] = IdleRecoverer]
  /\ UNCHANGED <<now, registered, serial, session, recovery_jobs, request, events,
                 retries, crashes>>

ReleaseRaises(r) ==
  /\ DbMayFail
  /\ recoverer[r].pc = "releasing"
  /\ recoverer' = [recoverer EXCEPT ![r] = IdleRecoverer]
  /\ UNCHANGED <<leaseVars, recovery_jobs, request, events, retries, crashes>>

-----------------------------------------------------------------------------
CanCrash == crashes < MaxCrashes /\ \A d \in Device : lease[d].until <= MaxTime

(* What a restart of the server process loses of this part. *)
ForgetRecovery ==
  /\ recoverer' = [r \in RecoveryWorker |-> IdleRecoverer]
  /\ request' = [o \in Operator |-> NoRequest]
  /\ UNCHANGED <<recovery_jobs, events, retries>>

ServerRestarts ==
  /\ CanCrash
  /\ ForgetRecovery
  /\ EndSessions(RecoveryWorker)
  /\ crashes' = crashes + 1
  /\ UNCHANGED <<now, registered, lease, serial>>

RecovererStep(r) ==
  \/ BeginClaim(r) \/ Claim(r) \/ ClaimNothing(r) \/ ClaimFails(r)
  \/ Reread(r) \/ RereadFails(r)
  \/ LeaveTerminal(r) \/ MarkRequestingReview(r) \/ MarkRaises(r) \/ AnnounceStarted(r)
  \/ \E screen \in Screen : SeeScreen(r, screen)
  \/ PhoneRaises(r)
  \/ Decide(r) \/ DecideRaises(r) \/ NotifyOutcome(r)
  \/ Release(r) \/ ReleaseRaises(r)

OperatorStep ==
  \/ \E d \in Device, secs \in LeaseSeconds : CreateRecovery(d, secs)
  \/ \E j \in RecoveryJob : CancelRecovery(j)
  \/ \E o \in Operator : FinishRetry(o) \/ \E j \in RecoveryJob : BeginRetry(o, j)

RecoveryStep == OperatorStep \/ \E r \in RecoveryWorker : RecovererStep(r)

Next ==
  \/ RecoveryStep
  \/ ServerRestarts
  \/ DevicesStep /\ UNCHANGED recoveryVars

Spec == Init /\ [][Next]_vars

-----------------------------------------------------------------------------
(* Properties.                                                              *)

(* Property: a phone never has two recoveries in flight, whatever the send  *)
(* failures and API requests that open them, and no late write brings a     *)
(* finished one back beside a new one (recovery_queue.py:121-137, 247-251;  *)
(* WEBHOOKS.md "One active job per device").                                *)
OneActivePerDevice ==
  \A i, j \in RecoveryJob :
    (i # j /\ IsActive(i) /\ IsActive(j)) =>
      recovery_jobs[i].device # recovery_jobs[j].device

(* Property: a cancel that commits while the worker drives the phone, or    *)
(* while a retry request is on its way, is not overwritten; an outcome is   *)
(* final (recovery_queue.py:247-251).                                       *)
OutcomeIsFinal ==
  [][\A j \in RecoveryJob : recovery_jobs[j].status \in Terminal =>
       recovery_jobs'[j] = recovery_jobs[j]]_vars

(* Property: a webhook that reports the end of a recovery reports the       *)
(* status the row ended in, once (recovery_worker.py:279-288); and          *)
(* session_recovery_started is posted once per recovery, plus at most once  *)
(* for each retry request, which may write `detected` back over a job that  *)
(* has left it (recovery_worker.py:199-206).                                *)
EventsAreTrue ==
  \A j \in RecoveryJob :
    /\ events[j].session_recovered <=
         IF recovery_jobs[j].status = "recovered" THEN 1 ELSE 0
    /\ events[j].session_recovery_failed <=
         IF recovery_jobs[j].status = "failed" THEN 1 ELSE 0
    /\ events[j].session_recovery_started <= 1 + retries

(* Property: unless the server dies, a database call fails or a device row  *)
(* is deleted by hand, the end of a recovery is reported: a recovered or    *)
(* failed row has its webhook, or a worker is about to post it              *)
(* (recovery_worker.py:279-288).                                            *)
OutcomeIsReported ==
  (crashes = 0 /\ ~DbMayFail /\ ~MayRemove) =>
    \A j \in RecoveryJob : recovery_jobs[j].status \in {"recovered", "failed"} =>
      \/ events[j].session_recovered + events[j].session_recovery_failed = 1
      \/ \E r \in RecoveryWorker : recoverer[r].pc = "notifying" /\ recoverer[r].job = j

(* Documented claim (WEBHOOKS.md:206-207, "`session_recovery_started` fires *)
(* once per recovery (not on every poll)").                                 *)
StartedOnce ==
  \A j \in RecoveryJob : events[j].session_recovery_started <= 1

(* Property: with the one recovery thread the server starts, the attempts   *)
(* of a job stay below the limit although the comparison and the increment  *)
(* are two steps; only an increment whose read-back raised is repeated, and *)
(* then the limit is reached (recovery_worker.py:265-276,                   *)
(* recovery_queue.py:379-409).                                              *)
AttemptsBounded ==
  \A j \in RecoveryJob :
    recovery_jobs[j].attempts < MaxAttempts + (IF DbMayFail THEN 1 ELSE 0)

(* Refinement: the recovery worker keeps the lease discipline it shares     *)
(* with the senders.                                                        *)
ImplementsContract == Contract!Spec

(* Fairness: the recovery thread keeps polling, its calls return or raise,  *)
(* an API thread finishes its request, the clock advances.                  *)
Fairness ==
  /\ \A r \in RecoveryWorker : WF_vars(RecovererStep(r))
  /\ \A o \in Operator : WF_vars(FinishRetry(o))
  /\ WF_vars(Tick /\ UNCHANGED recoveryVars)

FairSpec == Spec /\ Fairness

(* Liveness: a recovery does not stay where it is: it ends, or waits for    *)
(* WhatsApp's review, or is due beyond the horizon of the bounded clock.    *)
(* It uses up its attempts when the phone keeps failing, it outlives a      *)
(* restart of the server, and an older recovery does not starve it          *)
(* (recovery_worker.py:133-147, 265-276).                                   *)
RecoveryMovesOn ==
  \A j \in RecoveryJob :
    IsActive(j) ~> \/ ~IsActive(j)
                   \/ recovery_jobs[j].status = "review_pending"
                   \/ recovery_jobs[j].due > MaxTime
=============================================================================
