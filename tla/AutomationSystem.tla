--------------------------- MODULE AutomationSystem ---------------------------
(***************************************************************************)
(* The server and its CLI together: the send queue of SendQueue and the    *)
(* ban recovery of Recovery share the `devices` table and its lease, one   *)
(* server process hosts the workers of both, and a send that finds its     *)
(* account restricted or logged out opens a recovery                       *)
(* (queue_worker.py:start_recovery_for_job).                               *)
(***************************************************************************)
EXTENDS SendQueue

CONSTANTS RecoveryWorker, Operator, MaxRecoveries, MaxAttempts, TransientBackoff,
          ReviewBackoff, MaxRetries, ImplicitTxnRaises  \* see Recovery

(* The worker ids of senders and recovery differ, see DeviceLease. *)
ASSUME SystemAssumption ==
  /\ RecoveryWorker \subseteq Actor
  /\ RecoveryWorker \cap (QueueWorker \cup CliSend) = {}
  /\ MaxRecoveries \in Nat /\ MaxRetries \in Nat
  /\ {MaxAttempts, TransientBackoff, ReviewBackoff} \subseteq Nat \ {0}
  /\ ImplicitTxnRaises \in BOOLEAN

VARIABLES recovery_jobs, recoverer, request, events, retries  \* see Recovery

recoveryOnly == <<recovery_jobs, recoverer, request, events, retries>>
queueOnly == <<send_jobs, worker, cli, sent, alerted>>
systemVars == <<vars, recoveryOnly>>

R == INSTANCE Recovery

SystemTypeOK == TypeOK /\ R!TypeOK

SystemInit ==
  /\ Init
  /\ recovery_jobs = [j \in R!RecoveryJob |-> R!NoRow]
  /\ recoverer = [r \in RecoveryWorker |-> R!IdleRecoverer]
  /\ request = [o \in Operator |-> R!NoRequest]
  /\ events = [j \in R!RecoveryJob |-> [e \in R!Event |-> 0]]
  /\ retries = 0

(* Mutant: the send failure opens nothing. *)
OpenRecoverySkips(w) == UNCHANGED recovery_jobs

(* start_recovery_for_job.  fail_send_job has read the job back after its   *)
(* commit, which opened a transaction on the same connection: if the        *)
(* connector minds, enqueue_recovery_job raises before it did anything, as  *)
(* it does when a database call fails, and the exception is swallowed.      *)
OpenRecovery(w) ==
  \/ /\ ~ImplicitTxnRaises
     /\ \E secs \in LeaseSeconds :
          R!EnqueueRecovery(send_jobs[worker[w].job].device, secs)
  \/ /\ ImplicitTxnRaises \/ DbMayFail
     /\ UNCHANGED recovery_jobs

SystemStartRecovery(w) ==
  /\ StartRecovery(w)
  /\ OpenRecovery(w)
  /\ UNCHANGED <<recoverer, request, events, retries>>

(* The server process hosts the workers of both queues and the API. *)
SystemRestarts ==
  /\ CanCrash
  /\ worker' = [w \in QueueWorker |-> IdleWorker]
  /\ R!ForgetRecovery
  /\ EndSessions(QueueWorker \cup RecoveryWorker)
  /\ crashes' = crashes + 1
  /\ UNCHANGED <<now, registered, lease, serial, send_jobs, cli, sent, alerted>>

SystemNext ==
  \/ QueueStep /\ UNCHANGED recoveryOnly
  \/ \E w \in QueueWorker : SystemStartRecovery(w)
  \/ R!RecoveryStep /\ UNCHANGED queueOnly
  \/ SystemRestarts
  \/ DevicesStep /\ UNCHANGED <<queueVars, recoveryOnly>>

SystemSpec == SystemInit /\ [][SystemNext]_systemVars

-----------------------------------------------------------------------------
(* Properties.                                                              *)

(* Refinement: senders and recovery together keep the lease discipline, so  *)
(* that neither frees or takes a phone the other still holds                *)
(* (recovery_queue.py:5-9, recovery_worker.py:3-4).                         *)
SystemImplementsContract == Contract!Spec

(* Property: when neither database calls fail nor rows are deleted by hand, *)
(* a send failure that found the account restricted or logged out leaves    *)
(* its phone with a recovery in flight, its own or one that was open        *)
(* before, although API requests cancel and open recoveries at the same     *)
(* time (queue_worker.py:197-208; WEBHOOKS.md:213-214, "Send failures that  *)
(* raise ... open a recovery job automatically").                           *)
FailureOpensRecovery ==
  [][(~DbMayFail /\ ~MayRemove) =>
       \A w \in QueueWorker :
         (/\ worker[w].pc = "recovering"
          /\ worker'[w].pc = "releasing") =>
           \E j \in R!RecoveryJob :
             /\ recovery_jobs'[j].status \in R!Active
             /\ recovery_jobs'[j].device = send_jobs[worker[w].job].device]_systemVars
=============================================================================
