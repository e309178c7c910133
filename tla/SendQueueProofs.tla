---------------------------- MODULE SendQueueProofs ----------------------------
(***************************************************************************)
(* Theorems about SendQueue, for every number of phones, workers, CLI      *)
(* processes and jobs, and for every clock bound.  QueueInv is the         *)
(* inductive invariant: it adds to the types what the workers and the CLI  *)
(* know of the rows they hold, which the lease discipline rests on.        *)
(***************************************************************************)
EXTENDS SendQueue, DeviceLeaseProofs

(* A row that was inserted names a phone and a lease length. *)
JobsOK ==
  \A j \in Job : send_jobs[j].status # "absent" =>
    send_jobs[j].device \in Device /\ send_jobs[j].seconds \in LeaseSeconds

Taken == Terminal \cup {"running"}

(* A worker's clock read is not in the future; a busy worker is named by    *)
(* the row of its job, which left the queue; it uses a phone only between   *)
(* its claim and the end of its try block.                                  *)
WorkersOK ==
  \A w \in QueueWorker :
    /\ worker[w].current <= now
    /\ worker[w].pc \in Busy =>
         /\ worker[w].job \in Job
         /\ send_jobs[worker[w].job].status \in Taken
         /\ send_jobs[worker[w].job].worker = w
    /\ worker[w].pc \notin {"claimed", "driving"} => session[w] = NoSession

CliOK ==
  \A c \in CliSend :
    /\ cli[c].current <= now
    /\ cli[c].pc \notin {"start", "exited"} => cli[c].device \in Device
    /\ cli[c].pc = "waiting" => cli[c].until \in LeaseEnds
    /\ cli[c].pc \notin {"leased", "driving"} => session[c] = NoSession

QueueInv == TypeOK /\ ClockOK /\ JobsOK /\ WorkersOK /\ CliOK

LEMMA QueueInit ==
  ASSUME Init
  PROVE  QueueInv
<1>1. LeaseTypeOK /\ ClockOK
  BY LeaseInitOK DEF Init
<1>2. TypeOK
  BY <1>1 DEF Init, TypeOK, NoRow, JobRow, Status, IdleWorker, Worker, WorkerPc, Failure,
              NewCli, Cli, CliPc
<1>3. JobsOK /\ WorkersOK /\ CliOK
  BY SendQueueAssumption, DeviceLeaseAssumption
  DEF Init, LeaseInit, JobsOK, WorkersOK, CliOK, NoRow, IdleWorker, NewCli, Busy
<1> QED
  BY <1>1, <1>2, <1>3 DEF QueueInv

-----------------------------------------------------------------------------
(* How rows of send_jobs change.                                            *)

LEMMA RowTypes ==
  /\ \A row \in JobRow, w \in QueueWorker, until \in Nat :
       /\ ClaimRow(row, w, until) \in JobRow
       /\ ClaimRow(row, w, until).status = "running"
       /\ ClaimRow(row, w, until).worker = w
       /\ ClaimRow(row, w, until).until = until
       /\ ClaimRow(row, w, until).device = row.device
       /\ ClaimRow(row, w, until).seconds = row.seconds
  /\ \A row \in JobRow :
       /\ FailRow(row) \in JobRow
       /\ FailRow(row).status = "failed"
       /\ FailRow(row).worker = row.worker
       /\ FailRow(row).device = row.device
       /\ FailRow(row).seconds = row.seconds
<1>1. ASSUME NEW row \in JobRow, NEW w \in QueueWorker, NEW until \in Nat
      PROVE  /\ ClaimRow(row, w, until) \in JobRow
             /\ ClaimRow(row, w, until).status = "running"
             /\ ClaimRow(row, w, until).worker = w
             /\ ClaimRow(row, w, until).until = until
             /\ ClaimRow(row, w, until).device = row.device
             /\ ClaimRow(row, w, until).seconds = row.seconds
  BY DeviceLeaseAssumption DEF JobRow, ClaimRow, Status
<1>2. ASSUME NEW row \in JobRow
      PROVE  /\ FailRow(row) \in JobRow
             /\ FailRow(row).status = "failed"
             /\ FailRow(row).worker = row.worker
             /\ FailRow(row).device = row.device
             /\ FailRow(row).seconds = row.seconds
  BY DeviceLeaseAssumption DEF JobRow, FailRow, Status
<1> QED
  BY <1>1, <1>2

(* What every step but an insert and a claim leaves of row j. *)
RowKept(j) ==
  /\ send_jobs'[j] \in JobRow
  /\ send_jobs'[j].device = send_jobs[j].device
  /\ send_jobs'[j].seconds = send_jobs[j].seconds
  /\ send_jobs'[j].worker = send_jobs[j].worker
  /\ send_jobs'[j].status = "absent" <=> send_jobs[j].status = "absent"
  /\ send_jobs[j].status \in Taken => send_jobs'[j].status \in Taken

RowsKept ==
  /\ send_jobs' \in [Job -> JobRow]
  /\ \A j \in Job : RowKept(j)

LEMMA UnchangedRowsKept ==
  ASSUME TypeOK, UNCHANGED send_jobs
  PROVE  RowsKept
  BY DEF TypeOK, RowsKept, RowKept

LEMMA FinishJobKeepsRows ==
  ASSUME TypeOK, NEW j \in Job, NEW status \in Terminal, FinishJob(j, status)
  PROVE  RowsKept
<1>1. \A i \in Job : send_jobs[i] \in JobRow
  BY DEF TypeOK
<1>2. [send_jobs[j] EXCEPT !.status = status] \in JobRow
  BY <1>1 DEF JobRow, Status, Terminal
<1>3. send_jobs' \in [Job -> JobRow]
  BY <1>2 DEF FinishJob, TypeOK
<1>4. ASSUME NEW i \in Job
      PROVE  RowKept(i)
  BY <1>1, <1>3 DEF FinishJob, TypeOK, RowKept, JobRow, Taken, Terminal
<1> QED
  BY <1>3, <1>4 DEF RowsKept

-----------------------------------------------------------------------------
(* The shape shared by the steps of one worker and of one CLI process: the  *)
(* others, their sessions and their rows are left alone.                    *)

WorkerMove(w, x) ==
  /\ worker' = [worker EXCEPT ![w] = x]
  /\ x \in Worker
  /\ x.current <= now
  /\ x.pc \in Busy => worker[w].pc \in Busy /\ x.job = worker[w].job
  /\ x.pc \notin {"claimed", "driving"} => session'[w] = NoSession
  /\ \A a \in Actor \ {w} : session'[a] = session[a]
  /\ lease' \in [Device -> Lease] /\ session' \in [Actor -> Session]
  /\ RowsKept
  /\ sent' \in [Job -> Nat] /\ alerted' \in SUBSET Job
  /\ UNCHANGED <<now, registered, serial, cli, crashes>>

LEMMA WorkerMoves ==
  ASSUME QueueInv, NEW w \in QueueWorker, NEW x, WorkerMove(w, x)
  PROVE  QueueInv'
<1> USE DEF WorkerMove
<1> USE SendQueueAssumption
<1>1. TypeOK'
  BY DEF QueueInv, TypeOK, LeaseTypeOK, RowsKept
<1>2. JobsOK' /\ ClockOK'
  BY DEF QueueInv, JobsOK, ClockOK, RowsKept, RowKept
<1>3. CliOK'
  BY DEF QueueInv, CliOK
<1>4. ASSUME NEW v \in QueueWorker
      PROVE  /\ worker'[v].current <= now'
             /\ worker'[v].pc \in Busy =>
                  /\ worker'[v].job \in Job
                  /\ send_jobs'[worker'[v].job].status \in Taken
                  /\ send_jobs'[worker'[v].job].worker = v
             /\ worker'[v].pc \notin {"claimed", "driving"} => session'[v] = NoSession
  <2>1. CASE v = w
    BY <2>1 DEF QueueInv, TypeOK, WorkersOK, RowsKept, RowKept
  <2>2. CASE v # w
    BY <2>2 DEF QueueInv, TypeOK, WorkersOK, RowsKept, RowKept
  <2> QED
    BY <2>1, <2>2
<1> QED
  BY <1>1, <1>2, <1>3, <1>4 DEF QueueInv, WorkersOK

CliMove(c, x) ==
  /\ cli' = [cli EXCEPT ![c] = x]
  /\ x \in Cli
  /\ x.current <= now
  /\ x.pc \notin {"start", "exited"} => x.device \in Device
  /\ x.pc = "waiting" => x.until \in LeaseEnds
  /\ x.pc \notin {"leased", "driving"} => session'[c] = NoSession
  /\ \A a \in Actor \ {c} : session'[a] = session[a]
  /\ lease' \in [Device -> Lease] /\ session' \in [Actor -> Session]
  /\ crashes' \in Nat
  /\ UNCHANGED <<now, registered, serial, send_jobs, worker, sent, alerted>>

LEMMA CliMoves ==
  ASSUME QueueInv, NEW c \in CliSend, NEW x, CliMove(c, x)
  PROVE  QueueInv'
<1> USE DEF CliMove
<1> USE SendQueueAssumption
<1>1. TypeOK'
  BY DEF QueueInv, TypeOK, LeaseTypeOK
<1>2. JobsOK' /\ ClockOK' /\ WorkersOK'
  BY DEF QueueInv, JobsOK, ClockOK, WorkersOK
<1>3. CliOK'
  BY DEF QueueInv, TypeOK, CliOK
<1> QED
  BY <1>1, <1>2, <1>3 DEF QueueInv

-----------------------------------------------------------------------------
(* Each action keeps QueueInv.                                              *)

LEMMA EnqueueOK ==
  ASSUME QueueInv, NEW d \in Device, NEW secs \in LeaseSeconds, EnqueueSendJob(d, secs)
  PROVE  QueueInv'
<1> DEFINE row == [NoRow EXCEPT !.status = "pending", !.device = d, !.seconds = secs]
<1>1. PICK j \in Job : /\ send_jobs[j].status = "absent"
                       /\ send_jobs' = [send_jobs EXCEPT ![j] = row]
  BY DEF EnqueueSendJob
<1>2. row \in JobRow /\ row.device = d /\ row.seconds = secs
  BY DEF NoRow, JobRow, Status
<1>3. UNCHANGED <<now, registered, lease, serial, session, worker, cli, sent, alerted, crashes>>
  BY DEF EnqueueSendJob, leaseVars
<1>4. send_jobs' \in [Job -> JobRow] /\ send_jobs'[j] = row
  <2> HIDE DEF row
  <2> QED
    BY <1>1, <1>2 DEF QueueInv, TypeOK
<1> HIDE DEF row
<1>5. \A i \in Job \ {j} : send_jobs'[i] = send_jobs[i]
  BY <1>1 DEF QueueInv, TypeOK
<1>6. TypeOK'
  BY <1>3, <1>4 DEF QueueInv, TypeOK, LeaseTypeOK
<1>7. JobsOK'
  BY <1>2, <1>4, <1>5 DEF QueueInv, JobsOK
<1>8. \A w \in QueueWorker : worker[w].pc \in Busy => worker[w].job # j
  BY <1>1 DEF QueueInv, WorkersOK, Taken, Terminal
<1>9. WorkersOK' /\ CliOK' /\ ClockOK'
  BY <1>3, <1>5, <1>8 DEF QueueInv, WorkersOK, CliOK, ClockOK
<1> QED
  BY <1>6, <1>7, <1>9 DEF QueueInv

LEMMA ClaimOK ==
  ASSUME QueueInv, NEW w \in QueueWorker, Claim(w)
  PROVE  QueueInv' /\ Contract!Next
<1> USE SendQueueAssumption, DeviceLeaseAssumption
<1>1. PICK j \in First(Claimable(worker[w].current)) :
        /\ send_jobs' =
             [i \in Job |->
                IF i = j THEN ClaimRow(send_jobs[i], w, now + send_jobs[i].seconds)
                ELSE IF i \in Orphans /\ i < j THEN FailRow(send_jobs[i])
                ELSE send_jobs[i]]
        /\ TakeLease(w, send_jobs[j].device, now + send_jobs[j].seconds)
        /\ worker' = [worker EXCEPT ![w] = [IdleWorker EXCEPT !.pc = "claimed", !.job = j]]
  BY DEF Claim
<1>2. /\ j \in Job /\ send_jobs[j].status = "pending" /\ w \in Actor
      /\ ~LockActive(send_jobs[j].device, worker[w].current)
      /\ worker[w].pc = "claiming"
      /\ UNCHANGED <<now, registered, serial, cli, sent, alerted, crashes>>
  BY DEF First, Claimable, Pending, Claim
<1>3. \A i \in Job : send_jobs[i] \in JobRow
  BY DEF QueueInv, TypeOK
<1>4. LeaseTypeOK /\ ClockOK /\ worker[w].current \in Nat /\ worker[w].current <= now
  BY DEF QueueInv, TypeOK, WorkersOK, Worker
<1>5. /\ send_jobs[j].device \in Device
      /\ send_jobs[j].seconds \in LeaseSeconds
  BY <1>2 DEF QueueInv, JobsOK
<1>6. now + send_jobs[j].seconds \in LeaseEnds
  BY <1>4, <1>5, LeaseEndsReached DEF ClockOK
<1>7. now + send_jobs[j].seconds \in Nat
  BY <1>6, LeaseEndsAreNat
<1>8. /\ lease' \in [Device -> Lease] /\ session' \in [Actor -> Session]
      /\ \A a \in Actor \ {w} : session'[a] = session[a]
  BY <1>1, <1>2, <1>4, <1>5, <1>7, TakeLeaseType DEF TakeLease, LeaseTypeOK
<1>9. send_jobs'[j] = ClaimRow(send_jobs[j], w, now + send_jobs[j].seconds)
  BY <1>1, <1>2
<1>10. \A i \in Job \ {j} :
         \/ send_jobs'[i] = send_jobs[i]
         \/ send_jobs[i].status = "pending" /\ send_jobs'[i] = FailRow(send_jobs[i])
  BY <1>1 DEF Orphans, Pending
<1>11. /\ send_jobs'[j] \in JobRow
       /\ send_jobs'[j].status = "running" /\ send_jobs'[j].worker = w
       /\ send_jobs'[j].device = send_jobs[j].device
       /\ send_jobs'[j].seconds = send_jobs[j].seconds
  BY <1>2, <1>3, <1>7, <1>9, RowTypes
<1>12. \A i \in Job \ {j} :
         /\ send_jobs'[i] \in JobRow
         /\ send_jobs'[i].device = send_jobs[i].device
         /\ send_jobs'[i].seconds = send_jobs[i].seconds
         /\ send_jobs[i].status = "absent" <=> send_jobs'[i].status = "absent"
         /\ send_jobs[i].status \in Taken => send_jobs'[i] = send_jobs[i]
  BY <1>3, <1>10, RowTypes DEF Taken, Terminal
<1>13. send_jobs' \in [Job -> JobRow]
  <2>1. send_jobs' = [i \in Job |-> send_jobs'[i]]
    BY <1>1
  <2> QED
    BY <2>1, <1>11, <1>12
<1>14. worker' \in [QueueWorker -> Worker]
  BY <1>1, <1>2 DEF QueueInv, TypeOK, Worker, WorkerPc, IdleWorker, Failure
<1>15. TypeOK'
  BY <1>2, <1>8, <1>13, <1>14 DEF QueueInv, TypeOK, LeaseTypeOK
<1>16. JobsOK'
  BY <1>5, <1>11, <1>12 DEF QueueInv, JobsOK
<1>17. CliOK' /\ ClockOK'
  BY <1>2, <1>8 DEF QueueInv, CliOK, ClockOK
<1>18. WorkersOK'
  <2>1. worker'[w].pc = "claimed" /\ worker'[w].job = j /\ worker'[w].current = 0
    BY <1>1 DEF QueueInv, TypeOK, IdleWorker
  <2>2. \A v \in QueueWorker \ {w} : worker'[v] = worker[v] /\ session'[v] = session[v]
    BY <1>1, <1>8 DEF QueueInv, TypeOK
  <2>3. \A v \in QueueWorker : worker[v].pc \in Busy => worker[v].job # j
    BY <1>2 DEF QueueInv, WorkersOK, Taken, Terminal
  <2>4. now' \in Nat /\ now' = now
    BY <1>2, <1>4 DEF LeaseTypeOK
  <2> QED
    BY <1>2, <1>11, <1>12, <2>1, <2>2, <2>3, <2>4 DEF QueueInv, WorkersOK, Taken
<1>19. Contract!Next
  <2>1. session[w] = NoSession
    BY <1>2 DEF QueueInv, WorkersOK
  <2> QED
    BY <1>1, <1>2, <1>4, <1>5, <1>6, <2>1, TakeLeaseIsAcquire
<1> QED
  BY <1>15, <1>16, <1>17, <1>18, <1>19 DEF QueueInv

(* What MovesTo puts in the worker's place. *)
Moved(w, pc) == [IdleWorker EXCEPT !.pc = pc, !.job = worker[w].job]

LEMMA MovedIsWorker ==
  ASSUME TypeOK, NEW w \in QueueWorker, NEW pc \in WorkerPc
  PROVE  /\ Moved(w, pc) \in Worker
         /\ Moved(w, pc).pc = pc
         /\ Moved(w, pc).job = worker[w].job
         /\ Moved(w, pc).current = 0
  BY DEF TypeOK, Moved, Worker, IdleWorker, WorkerPc, Failure

LEMMA IdleIsWorker ==
  IdleWorker \in Worker /\ IdleWorker.pc = "idle" /\ IdleWorker.current = 0
  BY DEF Worker, IdleWorker, WorkerPc, Failure

(* A worker that is off the phone and leaves the leases alone. *)
OffPhone(w, x) ==
  /\ worker' = [worker EXCEPT ![w] = x]
  /\ x \in Worker
  /\ x.current <= now
  /\ worker[w].pc \notin {"claimed", "driving"}
  /\ x.pc \notin {"claimed", "driving"}
  /\ x.pc \in Busy => worker[w].pc \in Busy /\ x.job = worker[w].job
  /\ RowsKept
  /\ alerted' \in SUBSET Job
  /\ UNCHANGED <<leaseVars, cli, sent, crashes>>

LEMMA OffPhoneOK ==
  ASSUME QueueInv, NEW w \in QueueWorker, NEW x, OffPhone(w, x)
  PROVE  QueueInv' /\ [Contract!Next]_(Contract!contractVars)
<1>1. WorkerMove(w, x)
  BY DEF OffPhone, WorkerMove, QueueInv, TypeOK, LeaseTypeOK, WorkersOK, leaseVars
<1> QED
  BY <1>1, WorkerMoves DEF OffPhone, leaseVars, Contract!contractVars

(* A worker that leaves the phone, its lease staying as it is. *)
LeavesPhone(w, x) ==
  /\ worker' = [worker EXCEPT ![w] = x]
  /\ x \in Worker
  /\ x.current <= now
  /\ x.pc \in Busy => worker[w].pc \in Busy /\ x.job = worker[w].job
  /\ EndSessions({w})
  /\ sent' \in [Job -> Nat]
  /\ UNCHANGED <<now, registered, lease, serial, send_jobs, cli, alerted, crashes>>

LEMMA LeavesPhoneOK ==
  ASSUME QueueInv, NEW w \in QueueWorker, NEW x, LeavesPhone(w, x)
  PROVE  QueueInv' /\ [Contract!Next]_(Contract!contractVars)
<1> USE DEF LeavesPhone
<1>1. LeaseTypeOK /\ w \in Actor /\ TypeOK
  BY SendQueueAssumption DEF QueueInv, TypeOK
<1>2. /\ session' \in [Actor -> Session] /\ session'[w] = NoSession
      /\ \A a \in Actor \ {w} : session'[a] = session[a]
  BY <1>1, EndSessionsType
<1>3. WorkerMove(w, x)
  BY <1>1, <1>2, UnchangedRowsKept DEF WorkerMove, TypeOK, LeaseTypeOK
<1>4. Contract!Next
  BY <1>1, EndSessionsIsStop
<1> QED
  BY <1>3, <1>4, WorkerMoves

-----------------------------------------------------------------------------
LEMMA ClaimStepOK ==
  ASSUME QueueInv, NEW w \in QueueWorker, ClaimStep(w)
  PROVE  QueueInv' /\ [Contract!Next]_(Contract!contractVars)
<1> USE SendQueueAssumption
<1>0. /\ TypeOK /\ LeaseTypeOK /\ now \in Nat /\ w \in Actor
      /\ worker \in [QueueWorker -> Worker] /\ worker[w] \in Worker
      /\ worker[w].current <= now
      /\ alerted \in SUBSET Job /\ sent \in [Job -> Nat]
      /\ IdleWorker \in Worker /\ IdleWorker.pc = "idle" /\ IdleWorker.current = 0
  BY IdleIsWorker DEF QueueInv, TypeOK, LeaseTypeOK, WorkersOK
<1>1. CASE BeginClaim(w)
  <2> DEFINE x == [IdleWorker EXCEPT !.pc = "claiming", !.current = now]
  <2>1. x \in Worker /\ x.pc = "claiming" /\ x.current = now
    BY <1>0 DEF Worker, IdleWorker, WorkerPc, Failure
  <2>2. /\ worker[w].pc = "idle" /\ worker' = [worker EXCEPT ![w] = x]
        /\ UNCHANGED <<leaseVars, send_jobs, cli, sent, alerted, crashes>>
    BY <1>1 DEF BeginClaim
  <2> HIDE DEF x
  <2>3. OffPhone(w, x)
    BY <1>0, <2>1, <2>2, UnchangedRowsKept DEF Busy, OffPhone
  <2> QED
    BY <2>3, OffPhoneOK
<1>2. CASE Claim(w)
  BY <1>2, ClaimOK
<1>3. CASE ClaimNothing(w)
  <2>1. \A i \in Job : send_jobs[i] \in JobRow
    BY <1>0 DEF TypeOK
  <2>2. ASSUME NEW i \in Job
        PROVE  RowKept(i)
    <3>1. \/ send_jobs'[i] = send_jobs[i]
          \/ send_jobs[i].status = "pending" /\ send_jobs'[i] = FailRow(send_jobs[i])
      BY <1>3 DEF ClaimNothing, Orphans, Pending
    <3> QED
      BY <2>1, <3>1, RowTypes DEF RowKept, Taken, Terminal
  <2>3. send_jobs' = [i \in Job |-> send_jobs'[i]]
    BY <1>3 DEF ClaimNothing
  <2>4. RowsKept
    BY <2>2, <2>3 DEF RowsKept, RowKept
  <2>5. OffPhone(w, IdleWorker)
    BY <1>0, <1>3, <2>4 DEF ClaimNothing, Busy, OffPhone
  <2> QED
    BY <2>5, OffPhoneOK
<1>4. CASE ClaimFails(w)
  <2>1. OffPhone(w, IdleWorker)
    BY <1>0, <1>4, UnchangedRowsKept DEF ClaimFails, Busy, OffPhone
  <2> QED
    BY <2>1, OffPhoneOK
<1>5. CASE Reread(w)
  <2> DEFINE x == [worker[w] EXCEPT !.pc = "driving",
                                    !.serial = serial[send_jobs[worker[w].job].device]]
  <2>1. worker[w].pc = "claimed" /\ worker[w].job \in Job
        /\ send_jobs[worker[w].job].device \in Device
    BY <1>5 DEF Reread, QueueInv, WorkersOK, Busy, WorkerPc, TypeOK, LeaseTypeOK
  <2>2. /\ x \in Worker /\ x.pc = "driving" /\ x.job = worker[w].job
        /\ x.current = worker[w].current
    BY <1>0, <2>1 DEF Worker, WorkerPc, LeaseTypeOK
  <2>3. /\ worker' = [worker EXCEPT ![w] = x]
        /\ UNCHANGED <<leaseVars, send_jobs, cli, sent, alerted, crashes>>
    BY <1>0, <1>5 DEF Reread
  <2> HIDE DEF x
  <2>4. WorkerMove(w, x)
    BY <1>0, <2>1, <2>2, <2>3, UnchangedRowsKept
    DEF WorkerMove, Busy, WorkerPc, leaseVars, LeaseTypeOK
  <2> QED
    BY <2>3, <2>4, WorkerMoves DEF leaseVars, Contract!contractVars
<1>6. CASE RereadFails(w)
  <2>1. LeavesPhone(w, IdleWorker)
    BY <1>0, <1>6 DEF RereadFails, Busy, LeavesPhone
  <2> QED
    BY <2>1, LeavesPhoneOK
<1>7. CASE RereadNoDevice(w)
  <2> DEFINE x == [IdleWorker EXCEPT !.pc = "dead"]
  <2>1. x \in Worker /\ x.pc = "dead" /\ x.current = 0
    BY DEF Worker, IdleWorker, WorkerPc, Failure
  <2>2. /\ worker' = [worker EXCEPT ![w] = x] /\ EndSessions({w})
        /\ UNCHANGED <<now, registered, lease, serial, send_jobs, cli, sent, alerted, crashes>>
    BY <1>7 DEF RereadNoDevice
  <2> HIDE DEF x
  <2>3. LeavesPhone(w, x)
    BY <1>0, <2>1, <2>2 DEF Busy, LeavesPhone
  <2> QED
    BY <2>3, LeavesPhoneOK
<1> QED
  BY <1>1, <1>2, <1>3, <1>4, <1>5, <1>6, <1>7 DEF ClaimStep

LEMMA ProcessStepOK ==
  ASSUME QueueInv, NEW w \in QueueWorker, ProcessStep(w) \/ StartRecovery(w)
  PROVE  QueueInv' /\ [Contract!Next]_(Contract!contractVars)
<1> USE SendQueueAssumption
<1>0. /\ TypeOK /\ LeaseTypeOK /\ now \in Nat /\ w \in Actor
      /\ worker \in [QueueWorker -> Worker] /\ worker[w] \in Worker
      /\ worker[w].current <= now
      /\ worker[w].pc \in Busy => worker[w].job \in Job
      /\ alerted \in SUBSET Job /\ sent \in [Job -> Nat]
      /\ IdleWorker \in Worker /\ IdleWorker.pc = "idle" /\ IdleWorker.current = 0
  BY IdleIsWorker DEF QueueInv, TypeOK, LeaseTypeOK, WorkersOK
<1>m. ASSUME NEW pc \in Busy, MovesTo(w, pc)
      PROVE  /\ worker' = [worker EXCEPT ![w] = Moved(w, pc)]
             /\ Moved(w, pc) \in Worker /\ Moved(w, pc).pc = pc
             /\ Moved(w, pc).current = 0 /\ Moved(w, pc).job = worker[w].job
  <2>1. worker' = [worker EXCEPT ![w] = Moved(w, pc)]
    BY <1>m DEF MovesTo, Moved
  <2>2. pc \in WorkerPc
    BY DEF Busy
  <2> QED
    BY <1>0, <2>1, <2>2, MovedIsWorker
<1>1. CASE SendOk(w)
  <2>1. /\ worker[w].pc = "driving" /\ worker[w].job \in Job
        /\ MovesTo(w, "completing") /\ EndSessions({w})
        /\ sent' = [sent EXCEPT ![worker[w].job] = @ + 1]
        /\ UNCHANGED <<now, registered, lease, serial, send_jobs, cli, alerted, crashes>>
    BY <1>0, <1>1 DEF SendOk, Busy, WorkerPc
  <2>2. sent' \in [Job -> Nat]
    BY <1>0, <2>1
  <2>3. LeavesPhone(w, Moved(w, "completing"))
    BY <1>0, <1>m, <2>1, <2>2 DEF LeavesPhone, Busy, WorkerPc
  <2> QED
    BY <2>3, LeavesPhoneOK
<1>2. ASSUME NEW failure \in Failure, NEW tapped \in BOOLEAN, SendRaises(w, failure, tapped)
      PROVE  QueueInv' /\ [Contract!Next]_(Contract!contractVars)
  <2> DEFINE x == [worker[w] EXCEPT !.pc = "failing", !.serial = 0, !.failure = failure]
  <2>1. /\ worker[w].pc = "driving" /\ worker[w].job \in Job
        /\ worker' = [worker EXCEPT ![w] = x] /\ EndSessions({w})
        /\ sent' = [sent EXCEPT ![worker[w].job] = IF tapped THEN @ + 1 ELSE @]
        /\ UNCHANGED <<now, registered, lease, serial, send_jobs, cli, alerted, crashes>>
    BY <1>0, <1>2 DEF SendRaises, Busy, WorkerPc
  <2>2. /\ x \in Worker /\ x.pc = "failing" /\ x.job = worker[w].job
        /\ x.current = worker[w].current
    BY <1>0 DEF Worker, WorkerPc
  <2>3. sent' \in [Job -> Nat]
    BY <1>0, <2>1
  <2> HIDE DEF x
  <2>4. LeavesPhone(w, x)
    BY <1>0, <2>1, <2>2, <2>3 DEF LeavesPhone, Busy, WorkerPc
  <2> QED
    BY <2>4, LeavesPhoneOK
<1>3. CASE CompleteSendJob(w)
  <2>1. RowsKept
    BY <1>0, <1>3, FinishJobKeepsRows DEF CompleteSendJob, Busy, WorkerPc, Terminal
  <2>2. OffPhone(w, Moved(w, "releasing"))
    BY <1>0, <1>3, <1>m, <2>1 DEF CompleteSendJob, OffPhone, Busy, WorkerPc
  <2> QED
    BY <2>2, OffPhoneOK
<1>4. CASE CompleteRaises(w)
  <2>1. RowsKept
    BY <1>0, <1>4, FinishJobKeepsRows, UnchangedRowsKept
    DEF CompleteRaises, Busy, WorkerPc, Terminal
  <2>2. OffPhone(w, Moved(w, "failing"))
    BY <1>0, <1>4, <1>m, <2>1 DEF CompleteRaises, OffPhone, Busy, WorkerPc
  <2> QED
    BY <2>2, OffPhoneOK
<1>5. CASE FailSendJob(w)
  <2>1. RowsKept
    BY <1>0, <1>5, FinishJobKeepsRows DEF FailSendJob, Busy, WorkerPc, Terminal
  <2>2. CASE worker[w].failure = "other"
    <3>1. OffPhone(w, Moved(w, "releasing"))
      BY <1>0, <1>5, <1>m, <2>1, <2>2 DEF FailSendJob, OffPhone, Busy, WorkerPc
    <3> QED
      BY <3>1, OffPhoneOK
  <2>3. CASE worker[w].failure # "other"
    <3> DEFINE x == [worker[w] EXCEPT !.pc = "alerting"]
    <3>1. /\ x \in Worker /\ x.pc = "alerting" /\ x.job = worker[w].job
          /\ x.current = worker[w].current
      BY <1>0 DEF Worker, WorkerPc
    <3>2. worker[w].pc = "failing" /\ worker' = [worker EXCEPT ![w] = x]
      BY <1>0, <1>5, <2>3 DEF FailSendJob
    <3> HIDE DEF x
    <3>3. OffPhone(w, x)
      BY <1>0, <1>5, <2>1, <3>1, <3>2 DEF FailSendJob, OffPhone, Busy, WorkerPc
    <3> QED
      BY <3>3, OffPhoneOK
  <2> QED
    BY <2>2, <2>3
<1>6. CASE FailRaises(w)
  <2>1. RowsKept
    BY <1>0, <1>6, FinishJobKeepsRows, UnchangedRowsKept
    DEF FailRaises, Busy, WorkerPc, Terminal
  <2>2. OffPhone(w, Moved(w, "releasing"))
    BY <1>0, <1>6, <1>m, <2>1 DEF FailRaises, OffPhone, Busy, WorkerPc
  <2> QED
    BY <2>2, OffPhoneOK
<1>7. CASE Alert(w)
  <2>1. PICK pc \in {"recovering", "releasing"} : MovesTo(w, pc)
    BY <1>7 DEF Alert
  <2>2. alerted' \in SUBSET Job
    BY <1>0, <1>7 DEF Alert, Busy, WorkerPc
  <2>3. OffPhone(w, Moved(w, pc))
    BY <1>0, <1>7, <1>m, <2>1, <2>2, UnchangedRowsKept DEF Alert, OffPhone, Busy, WorkerPc
  <2> QED
    BY <2>3, OffPhoneOK
<1>8. CASE StartRecovery(w)
  <2>1. OffPhone(w, Moved(w, "releasing"))
    BY <1>0, <1>8, <1>m, UnchangedRowsKept DEF StartRecovery, OffPhone, Busy, WorkerPc
  <2> QED
    BY <2>1, OffPhoneOK
<1>9. CASE Release(w)
  <2> DEFINE row == send_jobs[worker[w].job]
  <2>1. /\ worker[w].pc = "releasing" /\ worker[w].job \in Job
        /\ row.worker = w /\ row.device \in Device /\ row.until \in Nat
        /\ session[w] = NoSession
    BY <1>0, <1>9
    DEF Release, QueueInv, WorkersOK, JobsOK, TypeOK, JobRow, Taken, Terminal, Busy, WorkerPc
  <2>2. /\ ReleaseLease(w, row.device, row.until)
        /\ worker' = [worker EXCEPT ![w] = IdleWorker]
        /\ UNCHANGED <<now, registered, serial, session, send_jobs, cli, sent, alerted, crashes>>
    BY <1>9, <2>1 DEF Release
  <2>3. WorkerMove(w, IdleWorker)
    <3>1. lease' \in [Device -> Lease]
      BY <1>0, <2>2, ReleaseLeaseType
    <3> QED
      BY <1>0, <2>1, <2>2, <3>1, UnchangedRowsKept DEF WorkerMove, Busy, LeaseTypeOK
  <2>4. [Contract!Next]_(Contract!contractVars)
    BY <1>0, <2>1, <2>2, ReleaseLeaseIsGiveBack
  <2> QED
    BY <2>3, <2>4, WorkerMoves
<1>10. CASE ReleaseRaises(w)
  <2>1. OffPhone(w, IdleWorker)
    BY <1>0, <1>10, UnchangedRowsKept DEF ReleaseRaises, OffPhone, Busy
  <2> QED
    BY <2>1, OffPhoneOK
<1> QED
  BY <1>1, <1>2, <1>3, <1>4, <1>5, <1>6, <1>7, <1>8, <1>9, <1>10 DEF ProcessStep

LEMMA CliStepOK ==
  ASSUME QueueInv, NEW c \in CliSend, CliStep(c)
  PROVE  QueueInv' /\ [Contract!Next]_(Contract!contractVars)
<1> USE SendQueueAssumption
<1>0. /\ TypeOK /\ LeaseTypeOK /\ ClockOK /\ now \in Nat /\ c \in Actor /\ crashes \in Nat
      /\ cli \in [CliSend -> Cli] /\ cli[c] \in Cli
      /\ cli[c].current <= now
      /\ cli[c].pc \notin {"start", "exited"} => cli[c].device \in Device
      /\ lease \in [Device -> Lease] /\ session \in [Actor -> Session]
      /\ serial \in [Device -> Nat]
      /\ cli[c].pc \notin {"leased", "driving"} => session[c] = NoSession
  BY DEF QueueInv, TypeOK, LeaseTypeOK, CliOK
<1> DEFINE gone == [NewCli EXCEPT !.pc = "exited"]
<1>g. gone \in Cli /\ gone.pc = "exited" /\ gone.current = 0
  BY DEF NewCli, Cli, CliPc
<1> HIDE DEF gone
(* A process that ends its session, however it got there. *)
<1>e. ASSUME EndSessions({c}), UNCHANGED <<now, lease>>
      PROVE  /\ session' \in [Actor -> Session] /\ session'[c] = NoSession
             /\ \A a \in Actor \ {c} : session'[a] = session[a]
             /\ Contract!Next
  BY <1>0, <1>e, EndSessionsType, EndSessionsIsStop
<1>1. ASSUME NEW d \in Device, NEW secs \in LeaseSeconds, CliStart(c, d, secs)
      PROVE  QueueInv' /\ [Contract!Next]_(Contract!contractVars)
  <2> DEFINE x == [NewCli EXCEPT !.pc = "waiting", !.device = d, !.current = now,
                                 !.until = now + secs]
  <2>1. now + secs \in LeaseEnds /\ now + secs \in Nat
    BY <1>0, LeaseEndsReached, LeaseEndsAreNat DEF ClockOK
  <2>2. /\ x \in Cli /\ x.pc = "waiting" /\ x.device = d /\ x.current = now
        /\ x.until = now + secs
    BY <1>0, <2>1 DEF NewCli, Cli, CliPc
  <2>3. /\ cli[c].pc = "start" /\ cli' = [cli EXCEPT ![c] = x]
        /\ UNCHANGED <<leaseVars, send_jobs, worker, sent, alerted, crashes>>
    BY <1>1 DEF CliStart
  <2> HIDE DEF x
  <2>4. CliMove(c, x)
    BY <1>0, <2>1, <2>2, <2>3 DEF CliMove, leaseVars
  <2> QED
    BY <2>3, <2>4, CliMoves DEF leaseVars, Contract!contractVars
<1>2. CASE CliAcquire(c)
  <2> DEFINE x == [cli[c] EXCEPT !.pc = "leased", !.current = 0]
  <2>1. /\ cli[c].pc = "waiting" /\ cli[c].device \in Device
        /\ cli[c].until \in LeaseEnds /\ cli[c].until \in Nat /\ cli[c].current \in Nat
        /\ session[c] = NoSession
    BY <1>0, <1>2 DEF CliAcquire, QueueInv, CliOK, Cli
  <2>2. x \in Cli /\ x.pc = "leased" /\ x.device = cli[c].device /\ x.current = 0
    BY <1>0 DEF Cli, CliPc
  <2>3. /\ cli' = [cli EXCEPT ![c] = x]
        /\ ~LockActive(cli[c].device, cli[c].current)
        /\ TakeLease(c, cli[c].device, cli[c].until)
        /\ UNCHANGED <<now, registered, serial, send_jobs, worker, sent, alerted, crashes>>
    BY <1>0, <1>2 DEF CliAcquire
  <2> HIDE DEF x
  <2>4. /\ lease' \in [Device -> Lease] /\ session' \in [Actor -> Session]
        /\ \A a \in Actor \ {c} : session'[a] = session[a]
    BY <1>0, <2>1, <2>3, TakeLeaseType DEF TakeLease
  <2>5. CliMove(c, x)
    BY <1>0, <2>1, <2>2, <2>3, <2>4 DEF CliMove
  <2>6. Contract!Next
    BY <1>0, <2>1, <2>3, TakeLeaseIsAcquire
  <2> QED
    BY <2>5, <2>6, CliMoves
<1>3. CASE CliRefused(c)
  <2>1. CliMove(c, gone)
    BY <1>0, <1>3, <1>g DEF CliRefused, CliMove, gone, leaseVars
  <2> QED
    BY <1>3, <2>1, CliMoves DEF CliRefused, leaseVars, Contract!contractVars
<1>4. CASE CliReread(c)
  <2> DEFINE x == [cli[c] EXCEPT !.pc = "driving", !.until = lease[cli[c].device].until,
                                 !.serial = serial[cli[c].device]]
  <2>1. cli[c].pc = "leased" /\ cli[c].device \in Device
    BY <1>0, <1>4 DEF CliReread
  <2>2. /\ x \in Cli /\ x.pc = "driving" /\ x.device = cli[c].device
        /\ x.current = cli[c].current
    BY <1>0, <2>1 DEF Cli, CliPc, Lease
  <2>3. /\ cli' = [cli EXCEPT ![c] = x]
        /\ UNCHANGED <<leaseVars, send_jobs, worker, sent, alerted, crashes>>
    BY <1>0, <1>4 DEF CliReread
  <2> HIDE DEF x
  <2>4. CliMove(c, x)
    BY <1>0, <2>1, <2>2, <2>3 DEF CliMove, leaseVars
  <2> QED
    BY <2>3, <2>4, CliMoves DEF leaseVars, Contract!contractVars
<1>5. CASE CliRereadFails(c)
  <2>1. CliMove(c, gone)
    BY <1>0, <1>5, <1>e, <1>g DEF CliRereadFails, CliMove, gone
  <2> QED
    BY <1>5, <1>e, <2>1, CliMoves DEF CliRereadFails
<1>6. CASE CliStops(c)
  <2> DEFINE x == [cli[c] EXCEPT !.pc = "releasing", !.serial = 0]
  <2>1. /\ x \in Cli /\ x.pc = "releasing" /\ x.device = cli[c].device
        /\ x.current = cli[c].current
    BY <1>0 DEF Cli, CliPc
  <2>2. /\ cli[c].pc = "driving" /\ cli' = [cli EXCEPT ![c] = x] /\ EndSessions({c})
        /\ UNCHANGED <<now, registered, lease, serial, send_jobs, worker, sent, alerted, crashes>>
    BY <1>0, <1>6 DEF CliStops
  <2> HIDE DEF x
  <2>3. CliMove(c, x)
    BY <1>0, <1>e, <2>1, <2>2 DEF CliMove
  <2> QED
    BY <1>e, <2>2, <2>3, CliMoves
<1>7. CASE CliRelease(c)
  <2>1. /\ cli[c].device \in Device /\ cli[c].until \in Nat /\ session[c] = NoSession
        /\ ReleaseLease(c, cli[c].device, cli[c].until)
    BY <1>0, <1>7 DEF CliRelease, Cli
  <2>2. lease' \in [Device -> Lease]
    BY <1>0, <2>1, ReleaseLeaseType
  <2>3. CliMove(c, gone)
    BY <1>0, <1>7, <1>g, <2>1, <2>2 DEF CliRelease, CliMove, gone
  <2>4. [Contract!Next]_(Contract!contractVars)
    BY <1>0, <1>7, <2>1, ReleaseLeaseIsGiveBack DEF CliRelease
  <2> QED
    BY <2>3, <2>4, CliMoves
<1>8. CASE CliReleaseRaises(c)
  <2>1. CliMove(c, gone)
    BY <1>0, <1>8, <1>g DEF CliReleaseRaises, CliMove, gone, leaseVars
  <2> QED
    BY <1>8, <2>1, CliMoves DEF CliReleaseRaises, leaseVars, Contract!contractVars
<1>9. CASE CliDies(c)
  <2>1. CliMove(c, gone)
    BY <1>0, <1>9, <1>e, <1>g DEF CliDies, CliMove, gone
  <2> QED
    BY <1>9, <1>e, <2>1, CliMoves DEF CliDies
<1> QED
  BY <1>1, <1>2, <1>3, <1>4, <1>5, <1>6, <1>7, <1>8, <1>9 DEF CliStep

(* A step of somebody else: of an operator, or of another user of the       *)
(* phones.                                                                  *)
LEMMA OthersKeepQueue ==
  ASSUME QueueInv, LeaseTypeOK', ClockOK', now <= now', crashes' \in Nat,
         \A a \in QueueWorker \cup CliSend : session[a] = NoSession => session'[a] = NoSession,
         UNCHANGED <<send_jobs, worker, cli, sent, alerted>>
  PROVE  QueueInv'
<1>1. TypeOK' /\ JobsOK'
  BY DEF QueueInv, TypeOK, JobsOK
<1>2. /\ \A w \in QueueWorker : worker[w].current \in Nat
      /\ \A c \in CliSend : cli[c].current \in Nat
      /\ now \in Nat /\ now' \in Nat
  BY DEF QueueInv, TypeOK, Worker, Cli, LeaseTypeOK
<1>3. WorkersOK'
  BY <1>2 DEF QueueInv, WorkersOK
<1>4. CliOK'
  BY <1>2 DEF QueueInv, CliOK
<1> QED
  BY <1>1, <1>3, <1>4 DEF QueueInv

(* The workers forget what they were doing, the CLI processes live on. *)
LEMMA WorkersForget ==
  ASSUME QueueInv, LeaseTypeOK', ClockOK', UNCHANGED now, crashes' \in Nat,
         worker' = [w \in QueueWorker |-> IdleWorker],
         \A w \in QueueWorker : session'[w] = NoSession,
         \A c \in CliSend : session'[c] = session[c],
         UNCHANGED <<send_jobs, cli, sent, alerted>>
  PROVE  QueueInv'
<1>1. TypeOK' /\ JobsOK'
  BY IdleIsWorker DEF QueueInv, TypeOK, JobsOK
<1>2. WorkersOK'
  BY IdleIsWorker DEF WorkersOK, Busy, LeaseTypeOK
<1>3. CliOK'
  BY DEF QueueInv, CliOK
<1> QED
  BY <1>1, <1>2, <1>3 DEF QueueInv

(* The death of the server ends the sessions of all its workers. *)
LEMMA ServerRestartsOK ==
  ASSUME QueueInv, ServerRestarts
  PROVE  QueueInv' /\ [Contract!Next]_(Contract!contractVars)
<1> USE SendQueueAssumption
<1>1. /\ LeaseTypeOK /\ EndSessions(QueueWorker)
      /\ worker' = [w \in QueueWorker |-> IdleWorker] /\ crashes' \in Nat
      /\ UNCHANGED <<now, registered, lease, serial, send_jobs, cli, sent, alerted>>
  BY DEF QueueInv, TypeOK, ServerRestarts
<1>2. /\ session' \in [Actor -> Session]
      /\ \A w \in QueueWorker : session'[w] = NoSession
      /\ \A c \in CliSend : session'[c] = session[c]
  BY <1>1, EndSessionsType
<1>3. Contract!Next
  BY <1>1, EndSessionsIsStop
<1>4. LeaseTypeOK' /\ ClockOK'
  BY <1>1, <1>2 DEF QueueInv, LeaseTypeOK, ClockOK
<1> QED
  BY <1>1, <1>2, <1>3, <1>4, WorkersForget

LEMMA DevicesKeepQueue ==
  ASSUME QueueInv, DevicesStep, UNCHANGED queueVars
  PROVE  QueueInv' /\ [Contract!Next]_(Contract!contractVars)
<1>1. /\ LeaseTypeOK' /\ ClockOK' /\ now <= now'
      /\ [Contract!Next]_(Contract!contractVars)
      /\ \A a \in QueueWorker \cup CliSend : session[a] = NoSession => session'[a] = NoSession
  BY SendQueueAssumption, DevicesStepOK DEF QueueInv, TypeOK
<1>2. UNCHANGED <<send_jobs, worker, cli, sent, alerted>> /\ crashes' \in Nat
  BY DEF QueueInv, TypeOK, queueVars
<1> QED
  BY <1>1, <1>2, OthersKeepQueue

(* The inductive step, and the step simulation of the refinement. *)
LEMMA QueueStepOK ==
  ASSUME QueueInv, [Next]_vars
  PROVE  QueueInv' /\ [Contract!Next]_(Contract!contractVars)
<1>1. CASE QueueStep
  <2>1. ASSUME NEW d \in Device, NEW secs \in LeaseSeconds, EnqueueSendJob(d, secs)
        PROVE  QueueInv' /\ [Contract!Next]_(Contract!contractVars)
    BY <2>1, EnqueueOK DEF EnqueueSendJob, leaseVars, Contract!contractVars
  <2> QED
    BY <1>1, <2>1, ClaimStepOK, ProcessStepOK, CliStepOK DEF QueueStep
<1>2. CASE \E w \in QueueWorker : StartRecovery(w)
  BY <1>2, ProcessStepOK
<1>3. CASE ServerRestarts
  BY <1>3, ServerRestartsOK
<1>4. CASE DevicesStep /\ UNCHANGED queueVars
  BY <1>4, DevicesKeepQueue
<1>5. CASE UNCHANGED vars
  BY <1>5
  DEF vars, leaseVars, queueVars, QueueInv, TypeOK, LeaseTypeOK, ClockOK, JobsOK, WorkersOK,
      CliOK, Contract!contractVars
<1> QED
  BY <1>1, <1>2, <1>3, <1>4, <1>5 DEF Next

-----------------------------------------------------------------------------
(* Theorem: the types, and what workers and CLI processes know of the rows  *)
(* they hold, survive every step of the queue (send_queue.py,               *)
(* queue_worker.py, workflows.py).                                          *)
THEOREM QueueInvariant == Spec => []QueueInv
<1>1. Init => QueueInv
  BY QueueInit
<1>2. QueueInv /\ [Next]_vars => QueueInv'
  BY QueueStepOK
<1> QED
  BY <1>1, <1>2, PTL DEF Spec

(* Theorem: every variable keeps its type. *)
THEOREM QueueTypes == Spec => []TypeOK
<1>1. QueueInv => TypeOK
  BY DEF QueueInv
<1> QED
  BY <1>1, QueueInvariant, PTL

(* Theorem: two busy workers never work on the same job: the row of a job   *)
(* names the one that claimed it (send_queue.py:232-249).                   *)
THEOREM QueueOneWorkerPerJob == Spec => []OneWorkerPerJob
<1>1. QueueInv => OneWorkerPerJob
  BY DEF QueueInv, WorkersOK, OneWorkerPerJob
<1> QED
  BY <1>1, QueueInvariant, PTL

(* Theorem: for any number of phones, workers, CLI processes and jobs, and  *)
(* with crashes, failed calls and operators acting at any moment, the send  *)
(* queue implements the lease contract (devices.py:343-390,                 *)
(* send_queue.py:193-266).                                                  *)
THEOREM QueueImplementsContract == Spec => ImplementsContract
<1>1. Init => Contract!Init
  BY LeaseInitOK DEF Init
<1>2. QueueInv /\ [Next]_vars => [Contract!Next]_(Contract!contractVars)
  BY QueueStepOK
<1>3. Spec => Contract!Spec
  BY <1>1, <1>2, QueueInvariant, PTL DEF Spec, Contract!Spec
<1> QED
  BY <1>3 DEF ImplementsContract

(* Theorem: two uses of phones that their leases still cover are of         *)
(* different phones (send_queue.py:193-266, workflows.py:15-44).            *)
THEOREM QueueIsExclusive == Spec => []ExclusiveUse
<1>1. Contract!Spec => []Contract!ExclusiveUse
  BY ImplementationIsExclusive
<1>2. Spec => Contract!Spec
  BY QueueImplementsContract DEF ImplementsContract
<1> QED
  BY <1>1, <1>2, PTL DEF ExclusiveUse

-----------------------------------------------------------------------------
(* What becomes of a job: its message is sent at most once, and its outcome *)
(* is true and final.  SendInv ties the program counter of the worker that  *)
(* holds a job to the row of the job and to what was sent.                  *)

JobFact(j) ==
  /\ sent[j] \in {0, 1}
  /\ send_jobs[j].status \in {"absent", "pending"} => sent[j] = 0
  /\ send_jobs[j].status = "succeeded" => sent[j] = 1
  /\ j \in alerted => send_jobs[j].status = "failed"

(* A worker that has yet to send holds a running job that was not sent; one *)
(* that completes holds a running job that was sent; one whose send raised  *)
(* something to report still holds a running job, and reports a failed one. *)
WorkerFact(w) ==
  /\ worker[w].pc \in {"claimed", "driving"} =>
       sent[worker[w].job] = 0 /\ send_jobs[worker[w].job].status = "running"
  /\ worker[w].pc = "completing" =>
       sent[worker[w].job] = 1 /\ send_jobs[worker[w].job].status = "running"
  /\ worker[w].pc = "failing" /\ worker[w].failure # "other" =>
       send_jobs[worker[w].job].status = "running"
  /\ worker[w].pc = "alerting" => send_jobs[worker[w].job].status = "failed"

SendInv ==
  /\ \A j \in Job : JobFact(j)
  /\ \A w \in QueueWorker : WorkerFact(w)

LEMMA SendInit ==
  ASSUME Init
  PROVE  SendInv
BY DEF Init, SendInv, JobFact, WorkerFact, NoRow, IdleWorker

-----------------------------------------------------------------------------
(* The row, the sends and the alerts of job i are left alone. *)
JobKept(i) ==
  /\ send_jobs'[i] = send_jobs[i] /\ sent'[i] = sent[i]
  /\ i \in alerted' => i \in alerted

LEMMA JobKeptOK ==
  ASSUME SendInv, NEW i \in Job, JobKept(i)
  PROVE  JobFact(i)'
<1>1. JobFact(i)
  BY DEF SendInv
<1> QED
  BY <1>1 DEF JobFact, JobKept

LEMMA WorkerKeptOK ==
  ASSUME SendInv, NEW v \in QueueWorker, worker'[v] = worker[v],
         worker[v].pc \in Busy => JobKept(worker[v].job)
  PROVE  WorkerFact(v)'
<1>1. WorkerFact(v)
  BY DEF SendInv
<1>2. CASE worker[v].pc \in Busy
  BY <1>1, <1>2 DEF WorkerFact, JobKept
<1>3. CASE worker[v].pc \notin Busy
  BY <1>3 DEF WorkerFact, Busy, WorkerPc
<1> QED
  BY <1>2, <1>3

(* A busy worker's step is about its own job, which no other busy worker    *)
(* holds.                                                                   *)
OwnJobStep(w, j, x) ==
  /\ worker[w].pc \in Busy /\ worker[w].job = j
  /\ worker' = [worker EXCEPT ![w] = x]
  /\ x.pc \in Busy => x.job = j
  /\ \A i \in Job \ {j} : JobKept(i)

LEMMA OwnJobStepOK ==
  ASSUME QueueInv, SendInv, NEW w \in QueueWorker, NEW j \in Job, NEW x,
         OwnJobStep(w, j, x), JobFact(j)', WorkerFact(w)'
  PROVE  SendInv'
<1>1. ASSUME NEW i \in Job
      PROVE  JobFact(i)'
  <2>1. CASE i = j
    BY <2>1
  <2>2. CASE i # j
    BY <2>2, JobKeptOK DEF OwnJobStep
  <2> QED
    BY <2>1, <2>2
<1>2. ASSUME NEW v \in QueueWorker, v # w
      PROVE  WorkerFact(v)'
  <2>1. worker'[v] = worker[v]
    BY <1>2 DEF OwnJobStep, QueueInv, TypeOK
  <2>2. worker[v].pc \in Busy => worker[v].job \in Job \ {j}
    BY <1>2 DEF QueueInv, WorkersOK, OwnJobStep
  <2>3. worker[v].pc \in Busy => JobKept(worker[v].job)
    BY <2>2 DEF OwnJobStep
  <2> QED
    BY <2>1, <2>3, WorkerKeptOK
<1> QED
  BY <1>1, <1>2 DEF SendInv

(* A worker that goes where nothing is claimed of its job, the jobs being   *)
(* left alone.                                                              *)
QuietStep(w, x) ==
  /\ worker' = [worker EXCEPT ![w] = x]
  /\ x.pc \notin {"claimed", "driving", "completing", "failing", "alerting"}
  /\ UNCHANGED <<send_jobs, sent, alerted>>

LEMMA QuietStepOK ==
  ASSUME QueueInv, SendInv, NEW w \in QueueWorker, NEW x, QuietStep(w, x)
  PROVE  SendInv'
<1>1. \A i \in Job : JobKept(i)
  BY DEF QuietStep, JobKept
<1>2. \A i \in Job : JobFact(i)'
  BY <1>1, JobKeptOK
<1>3. WorkerFact(w)'
  BY DEF QuietStep, WorkerFact, QueueInv, TypeOK
<1>4. ASSUME NEW v \in QueueWorker, v # w
      PROVE  WorkerFact(v)'
  <2>1. worker'[v] = worker[v]
    BY <1>4 DEF QuietStep, QueueInv, TypeOK
  <2>2. worker[v].pc \in Busy => JobKept(worker[v].job)
    BY <1>1 DEF QueueInv, WorkersOK
  <2> QED
    BY <2>1, <2>2, WorkerKeptOK
<1> QED
  BY <1>2, <1>3, <1>4 DEF SendInv

-----------------------------------------------------------------------------
(* Each action keeps SendInv.                                               *)

LEMMA EnqueueSends ==
  ASSUME QueueInv, SendInv, NEW d \in Device, NEW secs \in LeaseSeconds,
         EnqueueSendJob(d, secs)
  PROVE  SendInv'
<1>1. PICK j \in Job :
        /\ send_jobs[j].status = "absent"
        /\ send_jobs' = [send_jobs EXCEPT
                           ![j] = [NoRow EXCEPT !.status = "pending", !.device = d,
                                                !.seconds = secs]]
  BY DEF EnqueueSendJob
<1>2. UNCHANGED <<worker, sent, alerted>>
  BY DEF EnqueueSendJob
<1>3. send_jobs'[j].status = "pending"
  BY <1>1 DEF QueueInv, TypeOK, NoRow
<1>4. \A i \in Job \ {j} : JobKept(i)
  BY <1>1, <1>2 DEF QueueInv, TypeOK, JobKept
<1>5. JobFact(j)'
  <2>1. JobFact(j)
    BY DEF SendInv
  <2> QED
    BY <1>1, <1>2, <1>3, <2>1 DEF JobFact
<1>6. \A i \in Job : JobFact(i)'
  BY <1>4, <1>5, JobKeptOK
<1>7. ASSUME NEW v \in QueueWorker
      PROVE  WorkerFact(v)'
  <2>1. worker[v].pc \in Busy => worker[v].job \in Job \ {j}
    BY <1>1 DEF QueueInv, WorkersOK, Taken, Terminal
  <2> QED
    BY <1>2, <1>4, <2>1, WorkerKeptOK
<1> QED
  BY <1>6, <1>7 DEF SendInv

(* What a claim does to the jobs it does not claim. *)
JobPassed(i) ==
  /\ \/ send_jobs'[i] = send_jobs[i]
     \/ send_jobs[i].status = "pending" /\ send_jobs'[i] = FailRow(send_jobs[i])
  /\ sent'[i] = sent[i]
  /\ alerted' = alerted

LEMMA JobPassedOK ==
  ASSUME QueueInv, SendInv, NEW i \in Job, JobPassed(i)
  PROVE  JobFact(i)' /\ (send_jobs[i].status \in Taken => JobKept(i))
<1>1. JobFact(i) /\ send_jobs[i] \in JobRow
  BY DEF SendInv, QueueInv, TypeOK
<1>2. CASE send_jobs'[i] = send_jobs[i]
  BY <1>1, <1>2 DEF JobPassed, JobFact, JobKept
<1>3. CASE send_jobs[i].status = "pending" /\ send_jobs'[i] = FailRow(send_jobs[i])
  <2>1. send_jobs'[i].status = "failed"
    BY <1>1, <1>3, RowTypes
  <2> QED
    BY <1>1, <1>3, <2>1 DEF JobPassed, JobFact, Taken, Terminal
<1> QED
  BY <1>2, <1>3 DEF JobPassed

LEMMA ClaimSends ==
  ASSUME QueueInv, SendInv, NEW w \in QueueWorker, Claim(w) \/ ClaimNothing(w)
  PROVE  SendInv'
<1>1. CASE Claim(w)
  <2>1. PICK j \in First(Claimable(worker[w].current)) :
          /\ send_jobs' =
               [i \in Job |->
                  IF i = j THEN ClaimRow(send_jobs[i], w, now + send_jobs[i].seconds)
                  ELSE IF i \in Orphans /\ i < j THEN FailRow(send_jobs[i])
                  ELSE send_jobs[i]]
          /\ worker' = [worker EXCEPT ![w] = [IdleWorker EXCEPT !.pc = "claimed", !.job = j]]
    BY <1>1 DEF Claim
  <2>2. /\ j \in Job /\ send_jobs[j].status = "pending" /\ send_jobs[j] \in JobRow
        /\ UNCHANGED <<sent, alerted>>
    BY <1>1 DEF First, Claimable, Pending, Claim, QueueInv, TypeOK
  <2>3. send_jobs'[j] = ClaimRow(send_jobs[j], w, now + send_jobs[j].seconds)
    BY <2>1, <2>2
  <2>4. send_jobs'[j].status = "running"
    BY <2>2, <2>3 DEF ClaimRow, JobRow
  <2>5. \A i \in Job \ {j} : JobPassed(i)
    BY <2>1, <2>2 DEF JobPassed, Orphans, Pending
  <2>6. JobFact(j) /\ sent[j] = 0
    BY <2>2 DEF SendInv, JobFact
  <2>7. JobFact(j)'
    BY <2>2, <2>4, <2>6 DEF JobFact
  <2>8. \A i \in Job : JobFact(i)'
    BY <2>5, <2>7, JobPassedOK
  <2>9. ASSUME NEW v \in QueueWorker
        PROVE  WorkerFact(v)'
    <3>1. CASE v = w
      <4>1. worker'[v].pc = "claimed" /\ worker'[v].job = j
        BY <2>1, <3>1 DEF QueueInv, TypeOK, IdleWorker
      <4> QED
        BY <2>2, <2>4, <2>6, <4>1 DEF WorkerFact
    <3>2. CASE v # w
      <4>1. worker'[v] = worker[v]
        BY <2>1, <3>2 DEF QueueInv, TypeOK
      <4>2. ASSUME worker[v].pc \in Busy
            PROVE  worker[v].job \in Job \ {j} /\ send_jobs[worker[v].job].status \in Taken
        BY <2>2, <4>2 DEF QueueInv, WorkersOK, Taken, Terminal
      <4> QED
        BY <2>5, <4>1, <4>2, JobPassedOK, WorkerKeptOK
    <3> QED
      BY <3>1, <3>2
  <2> QED
    BY <2>8, <2>9 DEF SendInv
<1>2. CASE ClaimNothing(w)
  <2>1. \A i \in Job : JobPassed(i)
    BY <1>2 DEF ClaimNothing, JobPassed, Orphans, Pending
  <2>2. worker' = [worker EXCEPT ![w] = IdleWorker]
    BY <1>2 DEF ClaimNothing
  <2>3. ASSUME NEW v \in QueueWorker
        PROVE  WorkerFact(v)'
    <3>1. CASE v = w
      BY <2>2, <3>1, IdleIsWorker DEF WorkerFact, QueueInv, TypeOK
    <3>2. CASE v # w
      <4>1. worker'[v] = worker[v]
        BY <2>2, <3>2 DEF QueueInv, TypeOK
      <4>2. worker[v].pc \in Busy =>
              worker[v].job \in Job /\ send_jobs[worker[v].job].status \in Taken
        BY DEF QueueInv, WorkersOK
      <4> QED
        BY <2>1, <4>1, <4>2, JobPassedOK, WorkerKeptOK
    <3> QED
      BY <3>1, <3>2
  <2> QED
    BY <2>1, <2>3, JobPassedOK DEF SendInv
<1> QED
  BY <1>1, <1>2

LEMMA ClaimStepSends ==
  ASSUME QueueInv, SendInv, NEW w \in QueueWorker, ClaimStep(w)
  PROVE  SendInv'
<1>1. CASE BeginClaim(w)
  <2> DEFINE x == [IdleWorker EXCEPT !.pc = "claiming", !.current = now]
  <2>1. QuietStep(w, x)
    BY <1>1 DEF BeginClaim, QuietStep, IdleWorker
  <2> QED
    BY <2>1, QuietStepOK
<1>2. CASE Claim(w) \/ ClaimNothing(w)
  BY <1>2, ClaimSends
<1>3. CASE ClaimFails(w) \/ RereadFails(w)
  <2>1. QuietStep(w, IdleWorker)
    BY <1>3, IdleIsWorker DEF ClaimFails, RereadFails, QuietStep
  <2> QED
    BY <2>1, QuietStepOK
<1>4. CASE RereadNoDevice(w)
  <2> DEFINE x == [IdleWorker EXCEPT !.pc = "dead"]
  <2>1. QuietStep(w, x)
    BY <1>4 DEF RereadNoDevice, QuietStep, IdleWorker
  <2> QED
    BY <2>1, QuietStepOK
<1>5. CASE Reread(w)
  <2> DEFINE x == [worker[w] EXCEPT !.pc = "driving",
                                    !.serial = serial[send_jobs[worker[w].job].device]]
  <2>1. /\ worker[w].pc \in Busy /\ worker[w].job \in Job
        /\ worker[w].pc = "claimed" /\ WorkerFact(w)
    BY <1>5 DEF Reread, QueueInv, WorkersOK, Busy, WorkerPc, SendInv
  <2>2. PICK j \in Job : j = worker[w].job
    BY <2>1
  <2>3. x.job = j /\ x.pc = "driving"
    BY <2>2 DEF QueueInv, TypeOK, Worker
  <2>4. worker' = [worker EXCEPT ![w] = x] /\ worker'[w] = x
        /\ UNCHANGED <<send_jobs, sent, alerted>>
    BY <1>5 DEF Reread, QueueInv, TypeOK
  <2> HIDE DEF x
  <2>5. \A i \in Job : JobKept(i)
    BY <2>4 DEF JobKept
  <2>6. OwnJobStep(w, j, x)
    BY <2>1, <2>2, <2>3, <2>4, <2>5 DEF OwnJobStep
  <2>7. JobFact(j)'
    BY <2>5, JobKeptOK
  <2>8. WorkerFact(w)'
    BY <2>1, <2>2, <2>3, <2>4 DEF WorkerFact
  <2> QED
    BY <2>6, <2>7, <2>8, OwnJobStepOK
<1> QED
  BY <1>1, <1>2, <1>3, <1>4, <1>5 DEF ClaimStep

(* FinishJob writes the outcome of a running job and nothing else. *)
LEMMA FinishJobEffect ==
  ASSUME QueueInv, NEW j \in Job, NEW status \in Terminal, FinishJob(j, status)
  PROVE  /\ \A i \in Job \ {j} : send_jobs'[i] = send_jobs[i]
         /\ send_jobs'[j].status = IF send_jobs[j].status = "running"
                                     THEN status ELSE send_jobs[j].status
BY DEF FinishJob, QueueInv, TypeOK, JobRow

LEMMA ProcessStepSends ==
  ASSUME QueueInv, SendInv, NEW w \in QueueWorker, ProcessStep(w) \/ StartRecovery(w)
  PROVE  SendInv'
<1>0. ASSUME worker[w].pc \in Busy
      PROVE  /\ worker[w].job \in Job /\ WorkerFact(w) /\ JobFact(worker[w].job)
             /\ send_jobs[worker[w].job].status \in Taken
  BY <1>0 DEF QueueInv, WorkersOK, SendInv
<1>m. ASSUME NEW pc \in Busy, MovesTo(w, pc)
      PROVE  /\ worker' = [worker EXCEPT ![w] = Moved(w, pc)]
             /\ worker'[w] = Moved(w, pc) /\ Moved(w, pc).pc = pc
             /\ Moved(w, pc).job = worker[w].job /\ Moved(w, pc).failure = "other"
  BY <1>m DEF MovesTo, Moved, IdleWorker, QueueInv, TypeOK
(* A step of a worker on its job j, which others' rows do not see. *)
<1>s. ASSUME NEW j \in Job, NEW x, worker[w].job = j, worker[w].pc \in Busy,
             worker' = [worker EXCEPT ![w] = x], x.job = j,
             \A i \in Job \ {j} : JobKept(i), JobFact(j)', WorkerFact(w)'
      PROVE  SendInv'
  <2>1. OwnJobStep(w, j, x)
    BY <1>s DEF OwnJobStep
  <2> QED
    BY <1>s, <2>1, OwnJobStepOK
<1>1. CASE SendOk(w)
  <2>1. /\ worker[w].pc = "driving" /\ worker[w].pc \in Busy /\ MovesTo(w, "completing")
        /\ sent' = [sent EXCEPT ![worker[w].job] = @ + 1]
        /\ UNCHANGED <<send_jobs, alerted>>
    BY <1>1 DEF SendOk, Busy, WorkerPc
  <2>2. PICK j \in Job : j = worker[w].job
    BY <1>0, <2>1
  <2>3. send_jobs[j].status = "running" /\ sent[j] = 0 /\ sent'[j] = 1 /\ JobFact(j)
    BY <1>0, <2>1, <2>2 DEF WorkerFact, QueueInv, TypeOK
  <2>4. JobFact(j)'
    BY <2>1, <2>3 DEF JobFact
  <2>5. \A i \in Job \ {j} : JobKept(i)
    BY <2>1, <2>2 DEF JobKept, QueueInv, TypeOK
  <2>6. WorkerFact(w)'
    BY <1>m, <2>1, <2>2, <2>3 DEF WorkerFact, Busy, WorkerPc
  <2> QED
    BY <1>m, <1>s, <2>1, <2>2, <2>4, <2>5, <2>6 DEF Busy, WorkerPc
<1>2. ASSUME NEW failure \in Failure, NEW tapped \in BOOLEAN, SendRaises(w, failure, tapped)
      PROVE  SendInv'
  <2> DEFINE x == [worker[w] EXCEPT !.pc = "failing", !.serial = 0, !.failure = failure]
  <2>1. /\ worker[w].pc = "driving" /\ worker[w].pc \in Busy
        /\ worker' = [worker EXCEPT ![w] = x] /\ worker'[w] = x
        /\ sent' = [sent EXCEPT ![worker[w].job] = IF tapped THEN @ + 1 ELSE @]
        /\ UNCHANGED <<send_jobs, alerted>>
    BY <1>2 DEF SendRaises, Busy, WorkerPc, QueueInv, TypeOK
  <2>2. PICK j \in Job : j = worker[w].job
    BY <1>0, <2>1
  <2>3. x.pc = "failing" /\ x.job = j
    BY <2>2 DEF QueueInv, TypeOK, Worker
  <2> HIDE DEF x
  <2>4. send_jobs[j].status = "running" /\ sent[j] = 0 /\ sent'[j] \in {0, 1} /\ JobFact(j)
    BY <1>0, <2>1, <2>2 DEF WorkerFact, QueueInv, TypeOK
  <2>5. JobFact(j)'
    BY <2>1, <2>4 DEF JobFact
  <2>6. \A i \in Job \ {j} : JobKept(i)
    BY <2>1, <2>2 DEF JobKept, QueueInv, TypeOK
  <2>7. WorkerFact(w)'
    BY <2>1, <2>3, <2>4 DEF WorkerFact
  <2> QED
    BY <1>s, <2>1, <2>2, <2>3, <2>5, <2>6, <2>7
(* A guarded UPDATE of the job's row by complete_send_job or fail_send_job, *)
(* after which the worker is at pc.                                         *)
<1>3. ASSUME NEW j \in Job, NEW status \in Terminal, NEW x, worker[w].job = j,
             worker[w].pc \in Busy, worker' = [worker EXCEPT ![w] = x], x.job = j,
             FinishJob(j, status), UNCHANGED <<sent, alerted>>,
             status = "succeeded" /\ send_jobs[j].status = "running" => sent[j] = 1,
             \/ x.pc = "releasing"
             \/ x.pc = "failing" /\ x.failure = "other"
             \/ x.pc = "alerting" /\ send_jobs[j].status = "running" /\ status = "failed"
      PROVE  SendInv'
  <2>1. /\ \A i \in Job \ {j} : send_jobs'[i] = send_jobs[i]
        /\ send_jobs'[j].status = IF send_jobs[j].status = "running"
                                    THEN status ELSE send_jobs[j].status
    BY <1>3, FinishJobEffect
  <2>2. JobFact(j)
    BY <1>0, <1>3
  <2>3. JobFact(j)'
    BY <1>3, <2>1, <2>2 DEF JobFact, Terminal
  <2>4. \A i \in Job \ {j} : JobKept(i)
    BY <1>3, <2>1 DEF JobKept
  <2>5. worker'[w] = x
    BY <1>3 DEF QueueInv, TypeOK
  <2>6. WorkerFact(w)'
    BY <1>3, <2>1, <2>5 DEF WorkerFact
  <2> QED
    BY <1>3, <1>s, <2>3, <2>4, <2>6
<1>4. CASE CompleteSendJob(w)
  <2>1. /\ worker[w].pc = "completing" /\ worker[w].pc \in Busy
        /\ FinishJob(worker[w].job, "succeeded") /\ MovesTo(w, "releasing")
        /\ UNCHANGED <<sent, alerted>>
    BY <1>4 DEF CompleteSendJob, Busy, WorkerPc
  <2>2. PICK j \in Job : j = worker[w].job
    BY <1>0, <2>1
  <2>3. sent[j] = 1
    BY <1>0, <2>1, <2>2 DEF WorkerFact
  <2> QED
    BY <1>3, <1>m, <2>1, <2>2, <2>3 DEF Terminal, Busy, WorkerPc
<1>5. CASE CompleteRaises(w)
  <2>1. /\ worker[w].pc = "completing" /\ worker[w].pc \in Busy
        /\ FinishJob(worker[w].job, "succeeded") \/ UNCHANGED send_jobs
        /\ MovesTo(w, "failing") /\ UNCHANGED <<sent, alerted>>
    BY <1>5 DEF CompleteRaises, Busy, WorkerPc
  <2>2. PICK j \in Job : j = worker[w].job
    BY <1>0, <2>1
  <2>3. sent[j] = 1 /\ JobFact(j)
    BY <1>0, <2>1, <2>2 DEF WorkerFact
  <2>4. CASE FinishJob(j, "succeeded")
    BY <1>3, <1>m, <2>1, <2>2, <2>3, <2>4 DEF Terminal, Busy, WorkerPc
  <2>5. CASE UNCHANGED send_jobs
    <3>1. \A i \in Job : JobKept(i)
      BY <2>1, <2>5 DEF JobKept
    <3>2. JobFact(j)'
      BY <3>1, JobKeptOK
    <3>3. WorkerFact(w)'
      BY <1>m, <2>1 DEF WorkerFact, Busy, WorkerPc
    <3> QED
      BY <1>m, <1>s, <2>1, <2>2, <3>1, <3>2, <3>3 DEF Busy, WorkerPc
  <2> QED
    BY <2>1, <2>2, <2>4, <2>5
<1>6. CASE FailSendJob(w)
  <2>1. /\ worker[w].pc = "failing" /\ worker[w].pc \in Busy
        /\ FinishJob(worker[w].job, "failed") /\ UNCHANGED <<sent, alerted>>
    BY <1>6 DEF FailSendJob, Busy, WorkerPc
  <2>2. PICK j \in Job : j = worker[w].job
    BY <1>0, <2>1
  <2>3. CASE worker[w].failure = "other"
    BY <1>3, <1>6, <1>m, <2>1, <2>2, <2>3 DEF FailSendJob, Terminal, Busy, WorkerPc
  <2>4. CASE worker[w].failure # "other"
    <3> DEFINE x == [worker[w] EXCEPT !.pc = "alerting"]
    <3>1. worker' = [worker EXCEPT ![w] = x] /\ x.job = j /\ x.pc = "alerting"
      BY <1>6, <2>2, <2>4 DEF FailSendJob, QueueInv, TypeOK, Worker
    <3>2. send_jobs[j].status = "running"
      BY <1>0, <2>1, <2>2, <2>4 DEF WorkerFact
    <3> HIDE DEF x
    <3> QED
      BY <1>3, <2>1, <2>2, <3>1, <3>2 DEF Terminal
  <2> QED
    BY <2>3, <2>4
<1>7. CASE FailRaises(w)
  <2>1. /\ worker[w].pc = "failing" /\ worker[w].pc \in Busy
        /\ FinishJob(worker[w].job, "failed") \/ UNCHANGED send_jobs
        /\ MovesTo(w, "releasing") /\ UNCHANGED <<sent, alerted>>
    BY <1>7 DEF FailRaises, Busy, WorkerPc
  <2>2. PICK j \in Job : j = worker[w].job
    BY <1>0, <2>1
  <2>3. CASE FinishJob(j, "failed")
    BY <1>3, <1>m, <2>1, <2>2, <2>3 DEF Terminal, Busy, WorkerPc
  <2>4. CASE UNCHANGED send_jobs
    <3>1. QuietStep(w, Moved(w, "releasing"))
      BY <1>m, <2>1, <2>4 DEF QuietStep, Busy, WorkerPc
    <3> QED
      BY <3>1, QuietStepOK
  <2> QED
    BY <2>1, <2>2, <2>3, <2>4
<1>8. CASE Alert(w)
  <2>1. /\ worker[w].pc = "alerting" /\ worker[w].pc \in Busy
        /\ alerted' = alerted \cup {worker[w].job}
        /\ \E pc \in {"recovering", "releasing"} : MovesTo(w, pc)
        /\ UNCHANGED <<send_jobs, sent>>
    BY <1>8 DEF Alert, Busy, WorkerPc
  <2>2. PICK pc \in {"recovering", "releasing"} : MovesTo(w, pc)
    BY <2>1
  <2>3. PICK j \in Job : j = worker[w].job
    BY <1>0, <2>1
  <2>4. send_jobs[j].status = "failed" /\ JobFact(j)
    BY <1>0, <2>1, <2>3 DEF WorkerFact
  <2>5. JobFact(j)'
    BY <2>1, <2>4 DEF JobFact
  <2>6. \A i \in Job \ {j} : JobKept(i)
    BY <2>1, <2>3 DEF JobKept
  <2>7. pc \in Busy
    BY DEF Busy, WorkerPc
  <2>8. WorkerFact(w)'
    BY <1>m, <2>2, <2>7 DEF WorkerFact
  <2> QED
    BY <1>m, <1>s, <2>1, <2>2, <2>3, <2>5, <2>6, <2>7, <2>8
<1>9. CASE StartRecovery(w)
  <2>1. QuietStep(w, Moved(w, "releasing"))
    BY <1>9, <1>m DEF StartRecovery, QuietStep, Busy, WorkerPc
  <2> QED
    BY <2>1, QuietStepOK
<1>10. CASE Release(w) \/ ReleaseRaises(w)
  <2>1. QuietStep(w, IdleWorker)
    BY <1>10, IdleIsWorker DEF Release, ReleaseRaises, QuietStep, leaseVars
  <2> QED
    BY <2>1, QuietStepOK
<1> QED
  BY <1>1, <1>2, <1>4, <1>5, <1>6, <1>7, <1>8, <1>9, <1>10 DEF ProcessStep

(* The inductive step. *)
LEMMA SendStepOK ==
  ASSUME QueueInv, SendInv, [Next]_vars
  PROVE  SendInv'
<1>0. ASSUME UNCHANGED <<send_jobs, worker, sent, alerted>>
      PROVE  SendInv'
  BY <1>0 DEF SendInv, JobFact, WorkerFact
<1>1. CASE QueueStep
  <2>1. ASSUME NEW c \in CliSend, CliStep(c)
        PROVE  UNCHANGED <<send_jobs, worker, sent, alerted>>
    BY <2>1 DEF CliStep, CliStart, CliAcquire, CliRefused, CliReread, CliRereadFails, CliStops,
                CliRelease, CliReleaseRaises, CliDies
  <2> QED
    BY <1>0, <1>1, <2>1, EnqueueSends, ClaimStepSends, ProcessStepSends DEF QueueStep
<1>2. CASE \E w \in QueueWorker : StartRecovery(w)
  BY <1>2, ProcessStepSends
<1>3. CASE ServerRestarts
  <2>1. worker' = [w \in QueueWorker |-> IdleWorker] /\ UNCHANGED <<send_jobs, sent, alerted>>
    BY <1>3 DEF ServerRestarts
  <2>2. \A w \in QueueWorker : WorkerFact(w)'
    BY <2>1, IdleIsWorker DEF WorkerFact
  <2>3. \A j \in Job : JobFact(j)'
    BY <2>1 DEF SendInv, JobFact
  <2> QED
    BY <2>2, <2>3 DEF SendInv
<1>4. CASE DevicesStep /\ UNCHANGED queueVars
  BY <1>0, <1>4 DEF queueVars
<1>5. CASE UNCHANGED vars
  BY <1>0, <1>5 DEF vars, queueVars
<1> QED
  BY <1>1, <1>2, <1>3, <1>4, <1>5 DEF Next

(* Theorem: what a worker at each point of queue_worker_loop knows of its   *)
(* job, and what the row of a job says of its sends, holds always           *)
(* (queue_worker.py:106-210).                                               *)
THEOREM SendInvariant == Spec => []SendInv
<1>1. Init => SendInv
  BY SendInit
<1>2. QueueInv /\ SendInv /\ [Next]_vars => SendInv'
  BY SendStepOK
<1> QED
  BY <1>1, <1>2, QueueInvariant, PTL DEF Spec

(* Theorem: the message of a job is sent at most once, whatever crashes,    *)
(* lease expiries and failed calls happen around it: only a pending job is  *)
(* claimed, and a pending job was not sent (send_queue.py:193-266).         *)
THEOREM QueueSendsAtMostOnce == Spec => []SentAtMostOnce
<1>1. SendInv => SentAtMostOnce
  BY DEF SendInv, JobFact, SentAtMostOnce
<1> QED
  BY <1>1, SendInvariant, PTL

(* Theorem: a job that succeeded was sent, exactly once                     *)
(* (queue_worker.py:169-193).                                               *)
THEOREM QueueSucceededWasSent == Spec => []SucceededWasSent
<1>1. SendInv => SucceededWasSent
  BY DEF SendInv, JobFact, SucceededWasSent
<1> QED
  BY <1>1, SendInvariant, PTL

(* Theorem: a device-health webhook is posted only for a job that failed    *)
(* (queue_worker.py:197-210).                                               *)
THEOREM QueueAlertedJobFailed == Spec => []AlertedJobFailed
<1>1. QueueInv /\ SendInv => AlertedJobFailed
  BY DEF QueueInv, TypeOK, SendInv, JobFact, AlertedJobFailed
<1> QED
  BY <1>1, QueueInvariant, SendInvariant, PTL

(* Theorem: what the queue says of a job is true of it: one that succeeded  *)
(* was sent once, one a webhook was posted about failed                     *)
(* (queue_worker.py:192-210).                                               *)
THEOREM QueueOutcomesAreTrue == Spec => []OutcomesAreTrue
<1>1. SucceededWasSent /\ AlertedJobFailed => OutcomesAreTrue
  BY DEF OutcomesAreTrue
<1> QED
  BY <1>1, QueueSucceededWasSent, QueueAlertedJobFailed, PTL

-----------------------------------------------------------------------------
(* The writes to send_jobs: an insert, a claim, the outcome of a job.       *)

RowWrite ==
  \/ UNCHANGED send_jobs
  \/ \E d \in Device, secs \in LeaseSeconds : EnqueueSendJob(d, secs)
  \/ \E w \in QueueWorker : Claim(w) \/ ClaimNothing(w)
  \/ \E j \in Job, status \in Terminal : FinishJob(j, status)

LEMMA EveryRowWrite ==
  ASSUME QueueInv, [Next]_vars
  PROVE  RowWrite
<1>1. ASSUME NEW w \in QueueWorker, ClaimStep(w)
      PROVE  RowWrite
  BY <1>1 DEF ClaimStep, BeginClaim, ClaimFails, Reread, RereadFails, RereadNoDevice, RowWrite
<1>2. ASSUME NEW w \in QueueWorker, ProcessStep(w)
      PROVE  RowWrite
  <2>1. CASE CompleteSendJob(w) \/ CompleteRaises(w) \/ FailSendJob(w) \/ FailRaises(w)
    <3>1. worker[w].job \in Job
      BY <2>1 DEF CompleteSendJob, CompleteRaises, FailSendJob, FailRaises, QueueInv, WorkersOK,
                  Busy, WorkerPc
    <3> QED
      BY <2>1, <3>1 DEF CompleteSendJob, CompleteRaises, FailSendJob, FailRaises, RowWrite, Terminal
  <2>2. CASE \/ SendOk(w) \/ \E failure \in Failure, tapped \in BOOLEAN :
                               SendRaises(w, failure, tapped)
             \/ Alert(w) \/ Release(w) \/ ReleaseRaises(w)
    BY <2>2 DEF SendOk, SendRaises, Alert, Release, ReleaseRaises, RowWrite
  <2> QED
    BY <1>2, <2>1, <2>2 DEF ProcessStep
<1>3. ASSUME NEW c \in CliSend, CliStep(c)
      PROVE  RowWrite
  BY <1>3 DEF CliStep, CliStart, CliAcquire, CliRefused, CliReread, CliRereadFails, CliStops,
              CliRelease, CliReleaseRaises, CliDies, RowWrite
<1>4. CASE \/ \E w \in QueueWorker : StartRecovery(w)
           \/ ServerRestarts \/ (DevicesStep /\ UNCHANGED queueVars) \/ UNCHANGED vars
  BY <1>4 DEF StartRecovery, ServerRestarts, queueVars, vars, RowWrite
<1>5. CASE \E d \in Device, secs \in LeaseSeconds : EnqueueSendJob(d, secs)
  BY <1>5 DEF RowWrite
<1> QED
  BY <1>1, <1>2, <1>3, <1>4, <1>5 DEF Next, QueueStep

(* Theorem: the outcome of a job is final: no claim, late completion or     *)
(* except block rewrites it (send_queue.py:282-316).                        *)
THEOREM QueueOutcomeIsFinal == Spec => OutcomeIsFinal
<1>1. ASSUME QueueInv, [Next]_vars, NEW j \in Job, send_jobs[j].status \in Terminal
      PROVE  send_jobs'[j].status = send_jobs[j].status
  <2>1. RowWrite
    BY <1>1, EveryRowWrite
  <2>2. ASSUME NEW d \in Device, NEW secs \in LeaseSeconds, EnqueueSendJob(d, secs)
        PROVE  send_jobs'[j] = send_jobs[j]
    BY <1>1, <2>2 DEF EnqueueSendJob, QueueInv, TypeOK, Terminal
  <2>3. ASSUME NEW w \in QueueWorker, Claim(w) \/ ClaimNothing(w)
        PROVE  send_jobs'[j] = send_jobs[j]
    BY <1>1, <2>3
    DEF Claim, ClaimNothing, First, Claimable, Orphans, Pending, Terminal
  <2>4. ASSUME NEW i \in Job, NEW status \in Terminal, FinishJob(i, status)
        PROVE  send_jobs'[j] = send_jobs[j]
    BY <1>1, <2>4 DEF FinishJob, QueueInv, TypeOK, Terminal
  <2> QED
    BY <2>1, <2>2, <2>3, <2>4 DEF RowWrite
<1>2. QueueInv /\ [Next]_vars =>
        [\A j \in Job : send_jobs[j].status \in Terminal =>
           send_jobs'[j].status = send_jobs[j].status]_vars
  BY <1>1
<1> QED
  BY <1>2, QueueInvariant, PTL DEF Spec, OutcomeIsFinal

-----------------------------------------------------------------------------
(* The rows of the table are a prefix of Job, which AUTO_INCREMENT makes so, *)
(* and one phone's jobs leave it in order.                                  *)
RowsArePrefix ==
  \A i, j \in Job : i < j /\ send_jobs[i].status = "absent" => send_jobs[j].status = "absent"

OrderInv == RowsArePrefix /\ FifoPerDevice

LEMMA OrderInit ==
  ASSUME Init
  PROVE  OrderInv
BY DEF Init, OrderInv, RowsArePrefix, FifoPerDevice, NoRow, Terminal

(* A claim takes jobs from the queue, never ahead of an earlier one.         *)
LEMMA ClaimOrder ==
  ASSUME QueueInv, OrderInv, NEW w \in QueueWorker, Claim(w) \/ ClaimNothing(w)
  PROVE  OrderInv'
<1>1. \A i \in Job : send_jobs[i] \in JobRow
  BY DEF QueueInv, TypeOK
(* Whatever leaves takes the earlier pending jobs of its phone along.       *)
<1>2. ASSUME NEW Left \in SUBSET Pending,
             \A j \in Left : /\ send_jobs'[j].status \in Taken
                             /\ send_jobs'[j].device = send_jobs[j].device,
             \A j \in Job \ Left : send_jobs'[j] = send_jobs[j],
             \A j \in Left : \A i \in Pending :
               i < j /\ send_jobs[i].device = send_jobs[j].device => i \in Left
      PROVE  OrderInv'
  <2>1. \A j \in Job : /\ send_jobs'[j].device = send_jobs[j].device
                       /\ send_jobs'[j].status = "absent" <=> send_jobs[j].status = "absent"
                       /\ send_jobs'[j].status = "pending" <=> j \in Pending \ Left
    BY <1>2 DEF Pending, Taken, Terminal
  <2>2. RowsArePrefix'
    BY <2>1 DEF OrderInv, RowsArePrefix, Job
  <2>3. ASSUME NEW i \in Job, NEW j \in Job, i < j,
               send_jobs'[i].device = send_jobs'[j].device,
               send_jobs'[j].status \in Terminal \cup {"running"},
               send_jobs'[i].status = "pending"
        PROVE  FALSE
    <3>1. i \in Pending \ Left /\ send_jobs[i].device = send_jobs[j].device
      BY <2>1, <2>3
    <3>2. j \notin Left
      BY <1>2, <2>3, <3>1
    <3>3. send_jobs[j].status \in Terminal \cup {"running"}
      BY <1>2, <2>3, <3>2
    <3> QED
      BY <2>3, <3>1, <3>3 DEF OrderInv, FifoPerDevice, Pending
  <2> QED
    BY <2>2, <2>3 DEF OrderInv, FifoPerDevice
<1>3. CASE Claim(w)
  <2>1. PICK j \in First(Claimable(worker[w].current)) :
          send_jobs' =
            [i \in Job |->
               IF i = j THEN ClaimRow(send_jobs[i], w, now + send_jobs[i].seconds)
               ELSE IF i \in Orphans /\ i < j THEN FailRow(send_jobs[i])
               ELSE send_jobs[i]]
    BY <1>3 DEF Claim
  <2> DEFINE Left == {j} \cup {i \in Orphans : i < j}
  <2>2. /\ j \in Job /\ j \in Pending \ Orphans
        /\ ~LockActive(send_jobs[j].device, worker[w].current)
    BY <2>1 DEF First, Claimable, Pending
  <2>3. Left \in SUBSET Pending
    BY <2>2 DEF Orphans
  <2>4. \A i \in Left : /\ send_jobs'[i].status \in Taken
                        /\ send_jobs'[i].device = send_jobs[i].device
    BY <1>1, <2>1, <2>2 DEF Orphans, Pending, ClaimRow, FailRow, JobRow, Taken, Terminal
  <2>5. \A i \in Job \ Left : send_jobs'[i] = send_jobs[i]
    BY <2>1
  <2>6. ASSUME NEW k \in Left, NEW i \in Pending, i < k,
               send_jobs[i].device = send_jobs[k].device
        PROVE  i \in Left
    <3>1. CASE k = j
      <4>1. i \in Claimable(worker[w].current)
        BY <2>2, <2>6, <3>1 DEF Claimable, Orphans
      <4>2. j <= i
        BY <2>1, <4>1 DEF First
      <4> QED
        BY <2>2, <2>6, <3>1, <4>2 DEF Pending, Job
    <3>2. CASE k \in Orphans /\ k < j
      BY <2>2, <2>6, <3>2 DEF Orphans, Pending, Job
    <3> QED
      BY <3>1, <3>2
  <2> HIDE DEF Left
  <2> QED
    BY <1>2, <2>3, <2>4, <2>5, <2>6
<1>4. CASE ClaimNothing(w)
  <2>1. send_jobs' = [i \in Job |-> IF i \in Orphans THEN FailRow(send_jobs[i]) ELSE send_jobs[i]]
    BY <1>4 DEF ClaimNothing
  <2>2. \A i \in Orphans : /\ send_jobs'[i].status \in Taken
                           /\ send_jobs'[i].device = send_jobs[i].device
    BY <1>1, <2>1 DEF Orphans, Pending, FailRow, JobRow, Taken, Terminal
  <2>3. \A i \in Job \ Orphans : send_jobs'[i] = send_jobs[i]
    BY <2>1
  <2>4. \A k \in Orphans : \A i \in Pending :
          i < k /\ send_jobs[i].device = send_jobs[k].device => i \in Orphans
    BY DEF Orphans
  <2>5. Orphans \in SUBSET Pending
    BY DEF Orphans
  <2> QED
    BY <1>2, <2>2, <2>3, <2>4, <2>5
<1> QED
  BY <1>3, <1>4

LEMMA OrderStepOK ==
  ASSUME QueueInv, OrderInv, [Next]_vars
  PROVE  OrderInv'
<1>1. RowWrite
  BY EveryRowWrite
<1>2. ASSUME \A j \in Job :
               /\ send_jobs'[j].device = send_jobs[j].device
               /\ send_jobs'[j].status = "absent" <=> send_jobs[j].status = "absent"
               /\ send_jobs'[j].status = "pending" <=> send_jobs[j].status = "pending"
               /\ send_jobs'[j].status \in Terminal \cup {"running"} =>
                    send_jobs[j].status \in Terminal \cup {"running"}
      PROVE  OrderInv'
  BY <1>2 DEF OrderInv, RowsArePrefix, FifoPerDevice
<1>3. CASE UNCHANGED send_jobs
  BY <1>2, <1>3
<1>4. ASSUME NEW j \in Job, NEW status \in Terminal, FinishJob(j, status)
      PROVE  OrderInv'
  <2>1. /\ \A i \in Job \ {j} : send_jobs'[i] = send_jobs[i]
        /\ send_jobs'[j].device = send_jobs[j].device
        /\ send_jobs'[j].status = IF send_jobs[j].status = "running"
                                    THEN status ELSE send_jobs[j].status
    BY <1>4 DEF FinishJob, QueueInv, TypeOK, JobRow
  <2> QED
    BY <1>2, <1>4, <2>1 DEF Terminal
<1>5. ASSUME NEW d \in Device, NEW secs \in LeaseSeconds, EnqueueSendJob(d, secs)
      PROVE  OrderInv'
  <2>1. PICK j \in Job :
          /\ send_jobs[j].status = "absent"
          /\ \A i \in 1..(j - 1) : send_jobs[i].status # "absent"
          /\ send_jobs' = [send_jobs EXCEPT
                             ![j] = [NoRow EXCEPT !.status = "pending", !.device = d,
                                                  !.seconds = secs]]
    BY <1>5 DEF EnqueueSendJob
  <2>2. send_jobs'[j].status = "pending"
    BY <2>1 DEF QueueInv, TypeOK, NoRow
  <2>3. \A i \in Job \ {j} : send_jobs'[i] = send_jobs[i]
    BY <2>1 DEF QueueInv, TypeOK
  <2>4. \A k \in Job : k > j => send_jobs'[k].status = "absent"
    BY <2>1, <2>3 DEF OrderInv, RowsArePrefix, Job
  <2>5. \A i \in Job : i < j => send_jobs'[i].status # "absent"
    BY <2>1, <2>3, SendQueueAssumption DEF Job
  <2>6. RowsArePrefix'
    BY <2>2, <2>4, <2>5, SendQueueAssumption DEF RowsArePrefix, Job
  <2>7. ASSUME NEW i \in Job, NEW k \in Job, i < k,
               send_jobs'[i].device = send_jobs'[k].device,
               send_jobs'[k].status \in Terminal \cup {"running"}
        PROVE  send_jobs'[i].status # "pending"
    <3>1. k # j /\ i # j
      BY <2>2, <2>4, <2>7 DEF Terminal
    <3> QED
      BY <2>3, <2>7, <3>1 DEF OrderInv, FifoPerDevice
  <2> QED
    BY <2>6, <2>7 DEF OrderInv, FifoPerDevice
<1> QED
  BY <1>1, <1>3, <1>4, <1>5, ClaimOrder DEF RowWrite

(* Theorem: jobs for one phone leave the queue in the order they entered    *)
(* it, although claims skip jobs whose phone is busy, fail orphans on the   *)
(* way, and act on a clock read before them (send_queue.py:199-218).        *)
THEOREM QueueIsFifoPerDevice == Spec => []FifoPerDevice
<1>1. Init => OrderInv
  BY OrderInit
<1>2. QueueInv /\ OrderInv /\ [Next]_vars => OrderInv'
  BY OrderStepOK
<1>3. OrderInv => FifoPerDevice
  BY DEF OrderInv
<1> QED
  BY <1>1, <1>2, <1>3, QueueInvariant, PTL DEF Spec
-----------------------------------------------------------------------------
(* The endpoint that is driven.  The session of an actor on a phone is for  *)
(* the phone of its job or command; as long as the session is covered, the  *)
(* lease columns hold the edits of that phone's row off (CoveredIsLeased).  *)

OnPhone == {"claimed", "driving"}
CliOnPhone == {"leased", "driving"}

WorkerAims(w) ==
  worker[w].pc \in OnPhone =>
    /\ session[w].device = send_jobs[worker[w].job].device
    /\ (worker[w].pc = "driving" /\ Contract!Covered(w)) =>
         worker[w].serial = serial[session[w].device]

CliAims(c) ==
  cli[c].pc \in CliOnPhone =>
    /\ session[c].device = cli[c].device
    /\ (cli[c].pc = "driving" /\ Contract!Covered(c)) =>
         cli[c].serial = serial[session[c].device]

EndpointInv == (\A w \in QueueWorker : WorkerAims(w)) /\ (\A c \in CliSend : CliAims(c))

(* A step leaves the session of a alone, or ends its cover. *)
SessionKept(a) ==
  /\ session'[a].device = session[a].device
  /\ Contract!Covered(a)' =>
       Contract!Covered(a) /\ serial'[session[a].device] = serial[session[a].device]

WorkerKept(w) == worker'[w] = worker[w] /\ SessionKept(w)
CliKept(c) == cli'[c] = cli[c] /\ SessionKept(c)

JobDevicesKept ==
  \A j \in Job : send_jobs[j].status # "absent" => send_jobs'[j].device = send_jobs[j].device

LEMMA EndpointInit ==
  ASSUME Init
  PROVE  EndpointInv
  BY DEF Init, EndpointInv, WorkerAims, CliAims, OnPhone, CliOnPhone, IdleWorker, NewCli

LEMMA JobsKeepDevices ==
  ASSUME QueueInv, [Next]_vars
  PROVE  JobDevicesKept
<1>1. ASSUME NEW d \in Device, NEW secs \in LeaseSeconds, EnqueueSendJob(d, secs)
      PROVE  JobDevicesKept
  BY <1>1 DEF EnqueueSendJob, QueueInv, TypeOK, JobDevicesKept
<1>2. ASSUME NEW w \in QueueWorker, Claim(w) \/ ClaimNothing(w)
      PROVE  JobDevicesKept
  <2>1. ASSUME NEW j \in Job
        PROVE  send_jobs'[j].device = send_jobs[j].device
    <3>1. \/ send_jobs'[j] = send_jobs[j]
          \/ send_jobs'[j] = FailRow(send_jobs[j])
          \/ \E until : send_jobs'[j] = ClaimRow(send_jobs[j], w, until)
      BY <1>2 DEF Claim, ClaimNothing
    <3>2. send_jobs[j] \in JobRow
      BY DEF QueueInv, TypeOK
    <3> QED
      BY <3>1, <3>2 DEF FailRow, ClaimRow, JobRow
  <2> QED
    BY <2>1 DEF JobDevicesKept
<1>3. ASSUME NEW j \in Job, NEW status \in Terminal, FinishJob(j, status)
      PROVE  JobDevicesKept
  BY <1>3 DEF FinishJob, QueueInv, TypeOK, JobRow, JobDevicesKept
<1> QED
  BY <1>1, <1>2, <1>3, EveryRowWrite DEF RowWrite, JobDevicesKept

LEMMA KeptWorkerAims ==
  ASSUME QueueInv, JobDevicesKept, NEW w \in QueueWorker, WorkerAims(w), WorkerKept(w)
  PROVE  WorkerAims(w)'
<1> SUFFICES ASSUME worker[w].pc \in OnPhone
             PROVE  WorkerAims(w)'
  BY DEF WorkerAims, WorkerKept
<1>1. worker'[w] = worker[w] /\ SessionKept(w)
  BY DEF WorkerKept
<1>2. worker[w].job \in Job /\ send_jobs[worker[w].job].status # "absent"
  BY DEF QueueInv, WorkersOK, OnPhone, Busy, WorkerPc, Taken, Terminal
<1>3. send_jobs'[worker'[w].job].device = send_jobs[worker[w].job].device
  BY <1>1, <1>2 DEF JobDevicesKept
<1> QED
  BY <1>1, <1>3 DEF WorkerAims, SessionKept

LEMMA KeptCliAims ==
  ASSUME NEW c \in CliSend, CliAims(c), CliKept(c)
  PROVE  CliAims(c)'
  BY DEF CliAims, CliKept, SessionKept

LEMMA AllKeptOK ==
  ASSUME QueueInv, EndpointInv, JobDevicesKept, UNCHANGED <<worker, cli>>,
         \A a \in Actor : SessionKept(a)
  PROVE  EndpointInv'
<1>1. \A w \in QueueWorker : WorkerKept(w)
  BY SendQueueAssumption DEF WorkerKept
<1>2. \A c \in CliSend : CliKept(c)
  BY SendQueueAssumption DEF CliKept
<1> QED
  BY <1>1, <1>2, KeptWorkerAims, KeptCliAims DEF EndpointInv

(* A worker that is not on a phone afterwards, its session ended or left    *)
(* alone.                                                                   *)
LEMMA WorkerLeavesEndpoint ==
  ASSUME QueueInv, EndpointInv, JobDevicesKept, NEW w \in QueueWorker,
         \A v \in QueueWorker \ {w} : worker'[v] = worker[v],
         worker'[w].pc \notin OnPhone,
         EndSessions({w}) \/ UNCHANGED session,
         UNCHANGED <<now, serial, cli>>
  PROVE  EndpointInv'
<1>1. \A a \in Actor \ {w} : session'[a] = session[a]
  BY DEF EndSessions, QueueInv, TypeOK, LeaseTypeOK
<1>2. \A a \in Actor \ {w} : SessionKept(a)
  BY <1>1 DEF SessionKept, Contract!Covered
<1>3. \A v \in QueueWorker \ {w} : WorkerKept(v)
  BY <1>2, SendQueueAssumption DEF WorkerKept
<1>4. \A c \in CliSend : CliKept(c)
  BY <1>2, SendQueueAssumption DEF CliKept
<1>5. WorkerAims(w)'
  BY DEF WorkerAims
<1> QED
  BY <1>3, <1>4, <1>5, KeptWorkerAims, KeptCliAims DEF EndpointInv

LEMMA CliLeavesEndpoint ==
  ASSUME QueueInv, EndpointInv, JobDevicesKept, NEW c \in CliSend,
         \A b \in CliSend \ {c} : cli'[b] = cli[b],
         cli'[c].pc \notin CliOnPhone,
         EndSessions({c}) \/ UNCHANGED session,
         UNCHANGED <<now, serial, worker>>
  PROVE  EndpointInv'
<1>1. \A a \in Actor \ {c} : session'[a] = session[a]
  BY DEF EndSessions, QueueInv, TypeOK, LeaseTypeOK
<1>2. \A a \in Actor \ {c} : SessionKept(a)
  BY <1>1 DEF SessionKept, Contract!Covered
<1>3. \A b \in CliSend \ {c} : CliKept(b)
  BY <1>2, SendQueueAssumption DEF CliKept
<1>4. \A w \in QueueWorker : WorkerKept(w)
  BY <1>2, SendQueueAssumption DEF WorkerKept
<1>5. CliAims(c)'
  BY DEF CliAims
<1> QED
  BY <1>3, <1>4, <1>5, KeptWorkerAims, KeptCliAims DEF EndpointInv

(* The edits of a device row wait for its lease (devices.py:190-195).       *)
LEMMA DevicesKeepSessions ==
  ASSUME QueueInv, ContractInv, DevicesStep, NEW a \in Actor
  PROVE  SessionKept(a)
<1>0. /\ now \in Nat /\ session[a].until \in Nat
      /\ session \in [Actor -> Session]
      /\ serial \in [Device -> Nat] /\ lease \in [Device -> Lease]
      /\ session[a].revoked \in BOOLEAN
  BY DEF QueueInv, TypeOK, LeaseTypeOK, Session
<1>1. CASE Tick
  BY <1>0, <1>1 DEF Tick, SessionKept, Contract!Covered
<1>2. ASSUME NEW d \in Device, UpdateDevice(d)
      PROVE  SessionKept(a)
  <2>1. session' = session /\ now' = now /\ serial' = [serial EXCEPT ![d] = @ + 1]
    BY <1>2 DEF UpdateDevice
  <2>2. Contract!Covered(a)' <=> Contract!Covered(a)
    BY <2>1 DEF Contract!Covered
  <2>3. ASSUME Contract!Covered(a)
        PROVE  serial'[session[a].device] = serial[session[a].device]
    <3>1. lease[session[a].device] = [worker |-> a, until |-> session[a].until]
      BY <2>3 DEF ContractInv, Contract!CoveredIsLeased
    <3>2. lease[session[a].device].until > now
      BY <2>3, <3>1 DEF Contract!Covered
    <3>3. ~(lease[d].until > now)
      BY <1>2 DEF UpdateDevice, LockActive
    <3>4. session[a].device # d
      BY <3>2, <3>3
    <3> QED
      BY <1>0, <2>1, <3>4
  <2> QED
    BY <2>1, <2>2, <2>3 DEF SessionKept
<1>3. ASSUME NEW d \in Device, RevokeSessions(d), UNCHANGED <<now, serial>>
      PROVE  SessionKept(a)
  <2>1. session'[a] = [session[a] EXCEPT !.revoked = @ \/ session[a].device = d]
    BY <1>3 DEF RevokeSessions
  <2>2. session'[a].device = session[a].device /\ session'[a].until = session[a].until
    BY <1>0, <2>1 DEF Session
  <2>3. session[a].revoked => session'[a].revoked
    BY <1>0, <2>1 DEF Session
  <2> QED
    BY <1>3, <2>2, <2>3 DEF SessionKept, Contract!Covered
<1> QED
  BY <1>1, <1>2, <1>3 DEF DevicesStep, UnlockDevice, RemoveDevice

(* A worker that comes to a phone, or reads where it is. *)
LEMMA WorkerTakesEndpoint ==
  ASSUME QueueInv, EndpointInv, JobDevicesKept, NEW w \in QueueWorker,
         \A v \in QueueWorker \ {w} : worker'[v] = worker[v],
         \A a \in Actor \ {w} : session'[a] = session[a],
         session'[w].device = send_jobs'[worker'[w].job].device,
         \/ worker'[w].pc = "claimed"
         \/ worker'[w].serial = serial'[session'[w].device],
         UNCHANGED <<now, serial, cli>>
  PROVE  EndpointInv'
<1>1. \A a \in Actor \ {w} : SessionKept(a)
  BY DEF SessionKept, Contract!Covered
<1>2. \A c \in CliSend : CliKept(c)
  BY <1>1, SendQueueAssumption DEF CliKept
<1>3. \A v \in QueueWorker \ {w} : WorkerKept(v)
  BY <1>1, SendQueueAssumption DEF WorkerKept
<1>4. WorkerAims(w)'
  BY DEF WorkerAims
<1> QED
  BY <1>2, <1>3, <1>4, KeptWorkerAims, KeptCliAims DEF EndpointInv

LEMMA ClaimEndpoint ==
  ASSUME QueueInv, EndpointInv, JobDevicesKept, NEW w \in QueueWorker, ClaimStep(w)
  PROVE  EndpointInv'
<1>0. /\ worker \in [QueueWorker -> Worker] /\ worker[w] \in Worker
      /\ session \in [Actor -> Session] /\ w \in Actor
      /\ \A c \in CliSend : c \in Actor \ {w}
  BY SendQueueAssumption DEF QueueInv, TypeOK, LeaseTypeOK
<1>1. CASE \/ BeginClaim(w) \/ ClaimNothing(w) \/ ClaimFails(w)
           \/ RereadFails(w) \/ RereadNoDevice(w)
  <2>1. PICK x : /\ worker' = [worker EXCEPT ![w] = x]
                 /\ \/ x = IdleWorker
                    \/ x = [IdleWorker EXCEPT !.pc = "dead"]
                    \/ x = [IdleWorker EXCEPT !.pc = "claiming", !.current = now]
    <3>1. CASE BeginClaim(w)
      BY <3>1 DEF BeginClaim
    <3>2. CASE ClaimNothing(w) \/ ClaimFails(w) \/ RereadFails(w)
      BY <3>2 DEF ClaimNothing, ClaimFails, RereadFails
    <3>3. CASE RereadNoDevice(w)
      BY <3>3 DEF RereadNoDevice
    <3> QED
      BY <1>1, <3>1, <3>2, <3>3
  <2>2. x.pc \notin OnPhone
    <3>1. IdleWorker.pc = "idle" /\ [IdleWorker EXCEPT !.pc = "dead"].pc = "dead"
      BY DEF IdleWorker
    <3>2. [IdleWorker EXCEPT !.pc = "claiming", !.current = now].pc = "claiming"
      BY DEF IdleWorker
    <3> QED
      BY <2>1, <3>1, <3>2 DEF OnPhone
  <2>3. worker'[w] = x /\ \A v \in QueueWorker \ {w} : worker'[v] = worker[v]
    BY <1>0, <2>1
  <2>4. (EndSessions({w}) \/ UNCHANGED session) /\ UNCHANGED <<now, serial, cli>>
    BY <1>1 DEF BeginClaim, ClaimNothing, ClaimFails, RereadFails, RereadNoDevice, leaseVars
  <2> QED
    BY <2>2, <2>3, <2>4, WorkerLeavesEndpoint
<1>2. CASE Claim(w)
  <2>1. PICK j \in Job :
          /\ TakeLease(w, send_jobs[j].device, now + send_jobs[j].seconds)
          /\ send_jobs[j].status = "pending"
          /\ worker' = [worker EXCEPT ![w] = [IdleWorker EXCEPT !.pc = "claimed", !.job = j]]
    BY <1>2 DEF Claim, First, Claimable, Pending
  <2>2. /\ \A a \in Actor \ {w} : session'[a] = session[a]
        /\ session'[w].device = send_jobs[j].device
        /\ UNCHANGED <<now, serial, cli>>
    BY <1>0, <1>2, <2>1 DEF Claim, TakeLease
  <2>3. /\ worker'[w].pc = "claimed" /\ worker'[w].job = j
        /\ \A v \in QueueWorker \ {w} : worker'[v] = worker[v]
    BY <1>0, <2>1 DEF IdleWorker
  <2>4. send_jobs'[j].device = send_jobs[j].device
    BY <2>1 DEF JobDevicesKept
  <2> QED
    BY <1>0, <2>2, <2>3, <2>4, WorkerTakesEndpoint
<1>3. CASE Reread(w)
  <2>1. /\ worker'[w].pc = "driving" /\ worker'[w].job = worker[w].job
        /\ worker'[w].serial = serial[send_jobs[worker[w].job].device]
        /\ \A v \in QueueWorker \ {w} : worker'[v] = worker[v]
        /\ worker[w].pc = "claimed"
        /\ UNCHANGED <<now, serial, cli, session, send_jobs>>
    BY <1>0, <1>3 DEF Reread, leaseVars, Worker
  <2>2. session[w].device = send_jobs[worker[w].job].device
    BY <2>1 DEF EndpointInv, WorkerAims, OnPhone
  <2> QED
    BY <1>0, <2>1, <2>2, WorkerTakesEndpoint
<1> QED
  BY <1>1, <1>2, <1>3 DEF ClaimStep

LEMMA ProcessEndpoint ==
  ASSUME QueueInv, EndpointInv, JobDevicesKept, NEW w \in QueueWorker,
         ProcessStep(w) \/ StartRecovery(w)
  PROVE  EndpointInv'
<1>0. /\ worker \in [QueueWorker -> Worker] /\ worker[w] \in Worker
      /\ \A pc \in Busy : Moved(w, pc).pc = pc
  BY MovedIsWorker DEF QueueInv, TypeOK, Busy
<1>1. PICK x : worker' = [worker EXCEPT ![w] = x] /\ x.pc \notin OnPhone
  <2>1. CASE \E pc \in Busy \ OnPhone : MovesTo(w, pc)
    BY <1>0, <2>1 DEF MovesTo, Moved
  <2>2. CASE \E failure \in Failure, tapped \in BOOLEAN : SendRaises(w, failure, tapped)
    <3>1. PICK failure \in Failure :
            worker' = [worker EXCEPT ![w].pc = "failing", ![w].serial = 0,
                                     ![w].failure = failure]
      BY <2>2 DEF SendRaises
    <3>2. worker' = [worker EXCEPT ![w] = [worker[w] EXCEPT !.pc = "failing", !.serial = 0,
                                                            !.failure = failure]]
      BY <1>0, <3>1
    <3>3. [worker[w] EXCEPT !.pc = "failing", !.serial = 0, !.failure = failure].pc = "failing"
      BY <1>0 DEF Worker
    <3> QED
      BY <3>2, <3>3 DEF OnPhone
  <2>3. CASE worker' = [worker EXCEPT ![w].pc = "alerting"]
    <3>1. worker' = [worker EXCEPT ![w] = [worker[w] EXCEPT !.pc = "alerting"]]
      BY <1>0, <2>3
    <3>2. [worker[w] EXCEPT !.pc = "alerting"].pc = "alerting"
      BY <1>0 DEF Worker
    <3> QED
      BY <3>1, <3>2 DEF OnPhone
  <2>4. CASE worker' = [worker EXCEPT ![w] = IdleWorker]
    <3>1. IdleWorker.pc = "idle"
      BY DEF IdleWorker
    <3> QED
      BY <2>4, <3>1 DEF OnPhone
  <2>5. {"completing", "releasing", "failing", "recovering"} \subseteq Busy \ OnPhone
    BY DEF Busy, WorkerPc, OnPhone
  <2> QED
    BY <2>1, <2>2, <2>3, <2>4, <2>5
    DEF ProcessStep, SendOk, CompleteSendJob, CompleteRaises, FailSendJob, FailRaises, Alert,
        StartRecovery, Release, ReleaseRaises
<1>2. worker'[w] = x /\ \A v \in QueueWorker \ {w} : worker'[v] = worker[v]
  BY <1>0, <1>1
<1>3. (EndSessions({w}) \/ UNCHANGED session) /\ UNCHANGED <<now, serial, cli>>
  BY DEF ProcessStep, SendOk, SendRaises, CompleteSendJob, CompleteRaises, FailSendJob,
         FailRaises, Alert, StartRecovery, Release, ReleaseRaises, leaseVars
<1> QED
  BY <1>1, <1>2, <1>3, WorkerLeavesEndpoint

LEMMA CliTakesEndpoint ==
  ASSUME QueueInv, EndpointInv, JobDevicesKept, NEW c \in CliSend,
         \A b \in CliSend \ {c} : cli'[b] = cli[b],
         \A a \in Actor \ {c} : session'[a] = session[a],
         session'[c].device = cli'[c].device,
         \/ cli'[c].pc = "leased"
         \/ cli'[c].serial = serial'[session'[c].device],
         UNCHANGED <<now, serial, worker>>
  PROVE  EndpointInv'
<1>1. \A a \in Actor \ {c} : SessionKept(a)
  BY DEF SessionKept, Contract!Covered
<1>2. \A b \in CliSend \ {c} : CliKept(b)
  BY <1>1, SendQueueAssumption DEF CliKept
<1>3. \A w \in QueueWorker : WorkerKept(w)
  BY <1>1, SendQueueAssumption DEF WorkerKept
<1>4. CliAims(c)'
  BY DEF CliAims
<1> QED
  BY <1>2, <1>3, <1>4, KeptWorkerAims, KeptCliAims DEF EndpointInv

LEMMA CliEndpoint ==
  ASSUME QueueInv, EndpointInv, JobDevicesKept, NEW c \in CliSend, CliStep(c)
  PROVE  EndpointInv'
<1>0. /\ cli \in [CliSend -> Cli] /\ cli[c] \in Cli
      /\ session \in [Actor -> Session] /\ c \in Actor
  BY SendQueueAssumption DEF QueueInv, TypeOK, LeaseTypeOK
<1>1. CASE CliAcquire(c)
  <2>1. /\ \A a \in Actor \ {c} : session'[a] = session[a]
        /\ session'[c].device = cli[c].device
        /\ UNCHANGED <<now, serial, worker>>
    BY <1>0, <1>1 DEF CliAcquire, TakeLease
  <2>2. /\ cli'[c].pc = "leased" /\ cli'[c].device = cli[c].device
        /\ \A b \in CliSend \ {c} : cli'[b] = cli[b]
    BY <1>0, <1>1 DEF CliAcquire, Cli
  <2> QED
    BY <2>1, <2>2, CliTakesEndpoint
<1>2. CASE CliReread(c)
  <2>1. /\ cli'[c].pc = "driving" /\ cli'[c].device = cli[c].device
        /\ cli'[c].serial = serial[cli[c].device]
        /\ \A b \in CliSend \ {c} : cli'[b] = cli[b]
        /\ cli[c].pc = "leased"
        /\ UNCHANGED <<now, serial, worker, session>>
    BY <1>0, <1>2 DEF CliReread, leaseVars, Cli
  <2>2. session[c].device = cli[c].device
    BY <2>1 DEF EndpointInv, CliAims, CliOnPhone
  <2> QED
    BY <2>1, <2>2, CliTakesEndpoint
<1>3. ASSUME CliStep(c), ~CliAcquire(c), ~CliReread(c)
      PROVE  EndpointInv'
  <2>1. PICK x : cli' = [cli EXCEPT ![c] = x] /\ x.pc \notin CliOnPhone
    <3>1. ASSUME NEW d \in Device, NEW secs \in LeaseSeconds, CliStart(c, d, secs)
          PROVE  \E x : cli' = [cli EXCEPT ![c] = x] /\ x.pc \notin CliOnPhone
      <4>1. [NewCli EXCEPT !.pc = "waiting", !.device = d, !.current = now,
                           !.until = now + secs].pc = "waiting"
        BY DEF NewCli
      <4> QED
        BY <3>1, <4>1 DEF CliStart, CliOnPhone
    <3>2. CASE cli' = [cli EXCEPT ![c] = [NewCli EXCEPT !.pc = "exited"]]
      <4>1. [NewCli EXCEPT !.pc = "exited"].pc = "exited"
        BY DEF NewCli
      <4> QED
        BY <3>2, <4>1 DEF CliOnPhone
    <3>3. CASE CliStops(c)
      <4>1. cli' = [cli EXCEPT ![c] = [cli[c] EXCEPT !.pc = "releasing", !.serial = 0]]
        BY <1>0, <3>3 DEF CliStops
      <4>2. [cli[c] EXCEPT !.pc = "releasing", !.serial = 0].pc = "releasing"
        BY <1>0 DEF Cli
      <4> QED
        BY <4>1, <4>2 DEF CliOnPhone
    <3> QED
      BY <1>3, <3>1, <3>2, <3>3
      DEF CliStep, CliRefused, CliRereadFails, CliRelease, CliReleaseRaises, CliDies
  <2>2. cli'[c] = x /\ \A b \in CliSend \ {c} : cli'[b] = cli[b]
    BY <1>0, <2>1
  <2>3. (EndSessions({c}) \/ UNCHANGED session) /\ UNCHANGED <<now, serial, worker>>
    BY <1>3 DEF CliStep, CliStart, CliRefused, CliRereadFails, CliStops, CliRelease,
                CliReleaseRaises, CliDies, leaseVars
  <2> QED
    BY <2>1, <2>2, <2>3, CliLeavesEndpoint
<1> QED
  BY <1>1, <1>2, <1>3

LEMMA EndpointStep ==
  ASSUME QueueInv, ContractInv, EndpointInv, [Next]_vars
  PROVE  EndpointInv'
<1>0. JobDevicesKept
  BY JobsKeepDevices
<1>1. CASE QueueStep
  <2>1. ASSUME NEW d \in Device, NEW secs \in LeaseSeconds, EnqueueSendJob(d, secs)
        PROVE  EndpointInv'
    <3>1. UNCHANGED <<session, now, serial, worker, cli>>
      BY <2>1 DEF EnqueueSendJob, leaseVars
    <3> QED
      BY <1>0, <3>1, AllKeptOK DEF SessionKept, Contract!Covered
  <2> QED
    BY <1>0, <1>1, <2>1, ClaimEndpoint, ProcessEndpoint, CliEndpoint DEF QueueStep
<1>2. CASE \E w \in QueueWorker : StartRecovery(w)
  BY <1>0, <1>2, ProcessEndpoint
<1>3. CASE ServerRestarts
  <2>1. /\ \A w \in QueueWorker : worker'[w].pc = "idle"
        /\ EndSessions(QueueWorker) /\ UNCHANGED <<now, serial, cli>>
    BY <1>3 DEF ServerRestarts, IdleWorker
  <2>2. \A c \in CliSend : session'[c] = session[c]
    BY <2>1, SendQueueAssumption DEF EndSessions
  <2>3. \A c \in CliSend : CliKept(c)
    BY <2>1, <2>2 DEF CliKept, SessionKept, Contract!Covered
  <2>4. \A w \in QueueWorker : WorkerAims(w)'
    BY <2>1 DEF WorkerAims, OnPhone
  <2> QED
    BY <2>3, <2>4, KeptCliAims DEF EndpointInv
<1>4. CASE DevicesStep /\ UNCHANGED queueVars
  BY <1>0, <1>4, DevicesKeepSessions, AllKeptOK DEF queueVars
<1>5. CASE UNCHANGED vars
  BY <1>0, <1>5, AllKeptOK DEF vars, leaseVars, queueVars, SessionKept, Contract!Covered
<1> QED
  BY <1>1, <1>2, <1>3, <1>4, <1>5 DEF Next

(* Theorem: an actor whose lease covers it drives the endpoint that the     *)
(* device row names, although it read the serial once, after its claim:     *)
(* the row is not edited while its lease columns are those the actor wrote, *)
(* and they are as long as the use is covered (devices.py:190-195,          *)
(* queue_worker.py:169-196, workflows.py:15-44).                            *)
THEOREM QueueDrivesCurrentEndpoint == Spec => []DrivesCurrentEndpoint
<1>1. Init => ContractInv /\ EndpointInv
  <2>1. Init => Contract!Init
    BY LeaseInitOK DEF Init
  <2> QED
    BY <2>1, ContractInitOK, EndpointInit
<1>2. QueueInv /\ ContractInv /\ EndpointInv /\ [Next]_vars => ContractInv' /\ EndpointInv'
  BY QueueStepOK, ContractStepOK, EndpointStep
<1>3. EndpointInv => DrivesCurrentEndpoint
  BY DEF EndpointInv, WorkerAims, CliAims, OnPhone, CliOnPhone, DrivesCurrentEndpoint
<1> QED
  BY <1>1, <1>2, <1>3, QueueInvariant, PTL DEF Spec

-----------------------------------------------------------------------------
(* What a step of the queue leaves alone: the clock, the set of device      *)
(* rows, and the phones of everybody else.                                  *)
LEMMA QueueLeavesOthers ==
  ASSUME QueueInv, QueueStep
  PROVE  /\ UNCHANGED <<now, registered>>
         /\ \A a \in Actor \ (QueueWorker \cup CliSend) : session'[a] = session[a]
<1> USE DEF leaseVars
<1>0. session \in [Actor -> Session]
  BY DEF QueueInv, TypeOK, LeaseTypeOK
<1>1. ASSUME NEW d \in Device, NEW secs \in LeaseSeconds, EnqueueSendJob(d, secs)
      PROVE  UNCHANGED <<now, registered, session>>
  BY <1>1 DEF EnqueueSendJob
<1>2. ASSUME NEW w \in QueueWorker, ClaimStep(w)
      PROVE  /\ UNCHANGED <<now, registered>>
             /\ \A a \in Actor \ {w} : session'[a] = session[a]
  BY <1>0, <1>2
  DEF ClaimStep, BeginClaim, Claim, ClaimNothing, ClaimFails, Reread, RereadFails,
      RereadNoDevice, TakeLease, EndSessions
<1>3. ASSUME NEW w \in QueueWorker, ProcessStep(w)
      PROVE  /\ UNCHANGED <<now, registered>>
             /\ \A a \in Actor \ {w} : session'[a] = session[a]
  BY <1>3
  DEF ProcessStep, SendOk, SendRaises, CompleteSendJob, CompleteRaises, FailSendJob,
      FailRaises, Alert, Release, ReleaseRaises, EndSessions
<1>4. ASSUME NEW c \in CliSend, CliStep(c)
      PROVE  /\ UNCHANGED <<now, registered>>
             /\ \A a \in Actor \ {c} : session'[a] = session[a]
  BY <1>0, <1>4
  DEF CliStep, CliStart, CliAcquire, CliRefused, CliReread, CliRereadFails, CliStops,
      CliRelease, CliReleaseRaises, CliDies, TakeLease, EndSessions
<1> QED
  BY <1>1, <1>2, <1>3, <1>4 DEF QueueStep
=============================================================================
