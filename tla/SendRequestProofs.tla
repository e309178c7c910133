-------------------------- MODULE SendRequestProofs --------------------------
(***************************************************************************)
(* Proofs about SendRequest: for any number of requests and phones, any    *)
(* Interval, and whether or not the database fails, no job whose client    *)
(* was told `queued` loses its media, no downloaded file is forgotten, and *)
(* a phone whose handlers did not overlap gets the companions it is owed.  *)
(*                                                                         *)
(* No property is inductive.  A worker that finishes removes a file by its *)
(* request's name, so that MediaOutlivesJob needs that no second job names *)
(* it; and that in turn needs that a request has no job with media until   *)
(* its INSERT.  The companions are right only at rest: in between, CountOk *)
(* says what the handlers under way still owe (RequestInv, CountsOk).      *)
(***************************************************************************)
EXTENDS SendRequest, FiniteSetTheorems, TLAPS

(* A request that has not reached its INSERT has no job with media; its     *)
(* download is on the disk.                                                 *)
NoJobBeforeInsert ==
  \A i \in DOMAIN send_jobs :
    send_jobs[i].media => request[send_jobs[i].by].pc \notin {"start", "fetched"}

DownloadIsKept == \A r \in Request : request[r].pc = "fetched" => r \in files

(* No two jobs name one file. *)
OneJobPerFile ==
  \A i, j \in DOMAIN send_jobs :
    (/\ send_jobs[i].media
     /\ send_jobs[j].media
     /\ send_jobs[i].by = send_jobs[j].by) => i = j

(* A file on the disk: not of a request that has yet to download it, nor of *)
(* one that was refused, unless its removal raised; and once the job is     *)
(* committed, a job that is not done names it, until the except block is    *)
(* reached, or again its removal raised.                                    *)
FileHasOwner ==
  \A r \in files :
    /\ request[r].pc # "start"
    /\ request[r].pc = "refused" => r \in unremoved
    /\ request[r].pc \in {"stored", "companion", "accepted"} =>
         r \in unremoved \/ \E i \in DOMAIN send_jobs :
           /\ send_jobs[i].by = r /\ send_jobs[i].media
           /\ send_jobs[i].status # "done"

RequestInv == /\ RequestTypeOK /\ NoJobBeforeInsert /\ DownloadIsKept
              /\ OneJobPerFile /\ FileHasOwner /\ MediaOutlivesJob

-----------------------------------------------------------------------------
(* What the parts of a step do.                                             *)

(* A handler moves on, the others stay where they are. *)
LEMMA GoesToMoves ==
  ASSUME RequestTypeOK, NEW r \in Request, NEW pc \in RequestPc, GoesTo(r, pc)
  PROVE  /\ request' \in [Request -> [pc : RequestPc, device : Device, media : BOOLEAN]]
         /\ request'[r].pc = pc
         /\ \A o \in Request \ {r} : request'[o].pc = request[o].pc
         /\ \A o \in Request : request'[o].device = request[o].device
BY DEF RequestTypeOK, GoesTo

LEMMA JobsHaveRequests ==
  ASSUME RequestTypeOK
  PROVE  \A i \in DOMAIN send_jobs : send_jobs[i].by \in Request
<1> SUFFICES ASSUME NEW i \in DOMAIN send_jobs PROVE send_jobs[i].by \in Request
  OBVIOUS
<1>1. send_jobs[i] \in Row
  BY DEF RequestTypeOK
<1> QED
  BY <1>1 DEF Row

(* A new row: the rows before it are kept, and it is the last. *)
LEMMA InsertAppends ==
  ASSUME RequestTypeOK, NEW r \in Request, NEW endpoint \in {"send", "stochastic"},
         NEW media \in BOOLEAN, Insert(r, endpoint, media)
  PROVE  /\ send_jobs' \in Seq(Row)
         /\ DOMAIN send_jobs' = DOMAIN send_jobs \cup {Len(send_jobs) + 1}
         /\ \A i \in DOMAIN send_jobs : i # Len(send_jobs) + 1 /\ send_jobs'[i] = send_jobs[i]
         /\ send_jobs'[Len(send_jobs) + 1].by = r
         /\ send_jobs'[Len(send_jobs) + 1].device = request[r].device
         /\ send_jobs'[Len(send_jobs) + 1].endpoint = endpoint
         /\ send_jobs'[Len(send_jobs) + 1].media = media
         /\ send_jobs'[Len(send_jobs) + 1].status = "pending"
<1> DEFINE row == [by |-> r, device |-> request[r].device, endpoint |-> endpoint,
                   media |-> media, status |-> "pending"]
<1>1. row \in Row
  BY DEF Row, RequestTypeOK
<1>2. send_jobs' = Append(send_jobs, row)
  BY DEF Insert
<1>3. send_jobs \in Seq(Row)
  BY DEF RequestTypeOK
<1>4. /\ row.by = r
      /\ row.device = request[r].device
      /\ row.endpoint = endpoint
      /\ row.media = media
      /\ row.status = "pending"
  OBVIOUS
<1> HIDE DEF row
<1>5. send_jobs' \in Seq(Row) /\ Len(send_jobs') = Len(send_jobs) + 1
  BY <1>1, <1>2, <1>3
<1>6. send_jobs'[Len(send_jobs) + 1] = row
  BY <1>1, <1>2, <1>3
<1>7. \A i \in DOMAIN send_jobs : i # Len(send_jobs) + 1 /\ send_jobs'[i] = send_jobs[i]
  BY <1>1, <1>2, <1>3
<1>8. DOMAIN send_jobs' = DOMAIN send_jobs \cup {Len(send_jobs) + 1}
  BY <1>3, <1>5
<1> QED
  BY <1>4, <1>5, <1>6, <1>7, <1>8

(* The status of a job with media changes, and nothing else in the table. *)
LEMMA JobBecomesKeeps ==
  ASSUME RequestTypeOK, NEW i \in DOMAIN send_jobs,
         NEW status \in {"pending", "running", "lost", "done"}, JobBecomes(i, status)
  PROVE  /\ send_jobs' \in Seq(Row)
         /\ DOMAIN send_jobs' = DOMAIN send_jobs
         /\ \A j \in DOMAIN send_jobs :
              /\ send_jobs'[j].by = send_jobs[j].by
              /\ send_jobs'[j].device = send_jobs[j].device
              /\ send_jobs'[j].endpoint = send_jobs[j].endpoint
              /\ send_jobs'[j].media = send_jobs[j].media
              /\ j # i => send_jobs'[j] = send_jobs[j]
         /\ send_jobs'[i].status = status
<1>1. send_jobs \in Seq(Row) /\ send_jobs' = [send_jobs EXCEPT ![i].status = status]
  BY DEF RequestTypeOK, JobBecomes
<1>2. send_jobs[i] \in Row
  BY <1>1
<1>3. [send_jobs[i] EXCEPT !.status = status] \in Row
  BY <1>2 DEF Row
<1>4. send_jobs' \in Seq(Row)
  BY <1>1, <1>3
<1>5. DOMAIN send_jobs' = DOMAIN send_jobs /\ Len(send_jobs') = Len(send_jobs)
  BY <1>1, <1>4
<1>6. \A j \in DOMAIN send_jobs : j # i => send_jobs'[j] = send_jobs[j]
  BY <1>1
<1>7. send_jobs'[i] = [send_jobs[i] EXCEPT !.status = status]
  BY <1>1
<1>8. /\ send_jobs'[i].by = send_jobs[i].by
      /\ send_jobs'[i].device = send_jobs[i].device
      /\ send_jobs'[i].endpoint = send_jobs[i].endpoint
      /\ send_jobs'[i].media = send_jobs[i].media
      /\ send_jobs'[i].status = status
  BY <1>2, <1>7 DEF Row
<1> QED
  BY <1>4, <1>5, <1>6, <1>8

-----------------------------------------------------------------------------
(* Three kinds of steps keep the invariant.                                 *)

(* The jobs with media stay as they are; a job without may join them. *)
MediaJobsKept ==
  /\ send_jobs' \in Seq(Row)
  /\ \A i \in DOMAIN send_jobs : i \in DOMAIN send_jobs' /\ send_jobs'[i] = send_jobs[i]
  /\ \A i \in DOMAIN send_jobs' : i \in DOMAIN send_jobs \/ ~send_jobs'[i].media

(* A handler moves on, and inserts no job with media.  It may touch its own *)
(* file only: it has it when it leaves the download, loses it only on the   *)
(* way to a refusal, and never has it after one.                            *)
LEMMA HandlerMoves ==
  ASSUME RequestInv, setting' = setting, spoiled' \in SUBSET Device, MediaJobsKept,
         unremoved \subseteq unremoved', unremoved' \in SUBSET Request,
         NEW r \in Request, NEW pc \in RequestPc \ {"start"}, GoesTo(r, pc),
         request[r].pc \notin Answered,
         files' \in SUBSET Request,
         \A o \in Request \ {r} : o \in files' <=> o \in files,
         pc = "fetched" => request[r].pc = "start" /\ r \in files',
         pc = "refused" => r \notin files' \/ r \in unremoved',
         r \in files /\ r \notin files' => pc = "refused",
         r \in files' /\ pc \in {"stored", "companion", "accepted"} =>
           r \in files /\ request[r].pc \in {"stored", "companion"}
  PROVE  RequestInv'
<1> USE DEF RequestInv
<1>1. /\ request' \in [Request -> [pc : RequestPc, device : Device, media : BOOLEAN]]
      /\ request'[r].pc = pc
      /\ \A o \in Request \ {r} : request'[o].pc = request[o].pc
  BY GoesToMoves
<1>2. /\ \A i \in DOMAIN send_jobs : i \in DOMAIN send_jobs' /\ send_jobs'[i] = send_jobs[i]
      /\ \A i \in DOMAIN send_jobs' : i \in DOMAIN send_jobs \/ ~send_jobs'[i].media
  BY DEF MediaJobsKept
<1>3. \A i \in DOMAIN send_jobs : send_jobs[i].by \in Request
  BY JobsHaveRequests
<1>4. files \in SUBSET Request
  BY DEF RequestTypeOK
<1>5. RequestTypeOK'
  BY <1>1 DEF RequestTypeOK, MediaJobsKept
<1>6. NoJobBeforeInsert'
  BY <1>1, <1>2, <1>3 DEF NoJobBeforeInsert
<1>7. DownloadIsKept'
  BY <1>1 DEF DownloadIsKept
<1>8. OneJobPerFile'
  BY <1>2 DEF OneJobPerFile
<1>9. FileHasOwner'
  BY <1>1, <1>2, <1>4 DEF FileHasOwner
<1>10. MediaOutlivesJob'
  BY <1>1, <1>2, <1>3 DEF MediaOutlivesJob, Answered
<1> QED
  BY <1>5, <1>6, <1>7, <1>8, <1>9, <1>10

(* A handler inserts the one job that names its file. *)
LEMMA HandlerInserts ==
  ASSUME RequestInv, setting' = setting, spoiled' \in SUBSET Device, files' = files,
         unremoved' = unremoved,
         NEW r \in Request, NEW pc \in {"stored", "refusing"}, GoesTo(r, pc),
         request[r].pc = "fetched", Insert(r, "send", TRUE)
  PROVE  RequestInv'
<1> USE DEF RequestInv
<1> DEFINE n == Len(send_jobs) + 1
<1>1. /\ request' \in [Request -> [pc : RequestPc, device : Device, media : BOOLEAN]]
      /\ request'[r].pc = pc
      /\ \A o \in Request \ {r} : request'[o].pc = request[o].pc
  BY GoesToMoves DEF RequestPc
<1>2. /\ send_jobs' \in Seq(Row)
      /\ DOMAIN send_jobs' = DOMAIN send_jobs \cup {n}
      /\ \A i \in DOMAIN send_jobs : i # n /\ send_jobs'[i] = send_jobs[i]
      /\ send_jobs'[n].by = r
      /\ send_jobs'[n].media = TRUE
      /\ send_jobs'[n].status = "pending"
  BY InsertAppends
<1> HIDE DEF n
<1>3. \A i \in DOMAIN send_jobs : send_jobs[i].by \in Request
  BY JobsHaveRequests
<1>4. files \in SUBSET Request /\ r \in files
  BY DEF RequestTypeOK, DownloadIsKept
<1>5. \A i \in DOMAIN send_jobs : send_jobs[i].media => send_jobs[i].by # r
  BY DEF NoJobBeforeInsert
<1>6. RequestTypeOK'
  BY <1>1, <1>2 DEF RequestTypeOK
<1>7. NoJobBeforeInsert'
  BY <1>1, <1>2, <1>3 DEF NoJobBeforeInsert
<1>8. DownloadIsKept'
  BY <1>1 DEF DownloadIsKept
<1>9. OneJobPerFile'
  BY <1>2, <1>5 DEF OneJobPerFile
<1>10. FileHasOwner'
  <2>1. ASSUME NEW o \in files
        PROVE  /\ request'[o].pc # "start"
               /\ request'[o].pc = "refused" => o \in unremoved'
               /\ request'[o].pc \in {"stored", "companion", "accepted"} =>
                    o \in unremoved' \/ \E i \in DOMAIN send_jobs' :
                      /\ send_jobs'[i].by = o /\ send_jobs'[i].media
                      /\ send_jobs'[i].status # "done"
    <3>1. CASE o = r
      BY <1>1, <1>2, <3>1
    <3>2. CASE o # r
      BY <1>1, <1>2, <1>4, <3>2 DEF FileHasOwner
    <3> QED
      BY <3>1, <3>2
  <2> QED
    BY <2>1 DEF FileHasOwner
<1>11. MediaOutlivesJob'
  BY <1>1, <1>2, <1>3, <1>4, <1>5 DEF MediaOutlivesJob
<1> QED
  BY <1>6, <1>7, <1>8, <1>9, <1>10, <1>11

(* A job changes hands; when it is done, its file goes, and with it no file *)
(* of another job.                                                          *)
LEMMA JobMoves ==
  ASSUME RequestInv, request' = request, setting' = setting, spoiled' = spoiled,
         NEW k \in DOMAIN send_jobs, NEW status \in {"running", "lost", "done"},
         send_jobs[k].status \in {"pending", "running"}, JobBecomes(k, status),
         IF status = "done" THEN RemoveFile(send_jobs[k].by)
                            ELSE files' = files /\ unremoved' = unremoved
  PROVE  RequestInv'
<1> USE DEF RequestInv
<1>1. /\ send_jobs' \in Seq(Row)
      /\ DOMAIN send_jobs' = DOMAIN send_jobs
      /\ \A j \in DOMAIN send_jobs :
           /\ send_jobs'[j].by = send_jobs[j].by
           /\ send_jobs'[j].media = send_jobs[j].media
           /\ j # k => send_jobs'[j] = send_jobs[j]
      /\ send_jobs'[k].status = status
  BY JobBecomesKeeps
<1>2. send_jobs[k].media
  BY DEF JobBecomes
<1>3. \A j \in DOMAIN send_jobs :
        j # k /\ send_jobs[j].media => send_jobs[j].by # send_jobs[k].by
  BY <1>2 DEF OneJobPerFile
<1>4. request[send_jobs[k].by].pc # "fetched"
  BY <1>2 DEF NoJobBeforeInsert
<1>11. /\ files \ {send_jobs[k].by} \subseteq files' /\ files' \subseteq files
       /\ unremoved \subseteq unremoved'
       /\ unremoved' \subseteq unremoved \cup files
       /\ status # "done" => files' = files
       /\ status = "done" /\ send_jobs[k].by \in files' => send_jobs[k].by \in unremoved'
  BY DEF RemoveFile
<1>5. RequestTypeOK'
  BY <1>1, <1>11 DEF RequestTypeOK
<1>6. NoJobBeforeInsert'
  BY <1>1 DEF NoJobBeforeInsert
<1>7. DownloadIsKept'
  BY <1>4, <1>11 DEF DownloadIsKept
<1>8. OneJobPerFile'
  BY <1>1 DEF OneJobPerFile
<1>9. FileHasOwner'
  BY <1>1, <1>2, <1>11 DEF FileHasOwner
<1>10. MediaOutlivesJob'
  BY <1>1, <1>2, <1>3, <1>11 DEF MediaOutlivesJob
<1> QED
  BY <1>5, <1>6, <1>7, <1>8, <1>9, <1>10

-----------------------------------------------------------------------------
(* The invariant, and what it gives.                                        *)

LEMMA RequestInvInit ==
  ASSUME RequestInit
  PROVE  RequestInv
<1>1. send_jobs = <<>> /\ files = {} /\ unremoved = {}
  BY DEF RequestInit
<1>2. \A r \in Request : request[r].pc = "start"
  BY DEF RequestInit
<1>3. RequestTypeOK
  <2>1. send_jobs \in Seq(Row)
    BY <1>1
  <2>2. request \in [Request -> [pc : RequestPc, device : Device, media : BOOLEAN]]
    BY DEF RequestInit, RequestPc
  <2> QED
    BY <1>1, <2>1, <2>2 DEF RequestInit, RequestTypeOK
<1>4. DOMAIN send_jobs = {}
  BY <1>1
<1>5. NoJobBeforeInsert /\ OneJobPerFile /\ MediaOutlivesJob
  BY <1>4 DEF NoJobBeforeInsert, OneJobPerFile, MediaOutlivesJob
<1>6. DownloadIsKept /\ FileHasOwner
  BY <1>1, <1>2 DEF DownloadIsKept, FileHasOwner
<1> QED
  BY <1>3, <1>5, <1>6 DEF RequestInv

LEMMA UnchangedJobsKept ==
  ASSUME RequestTypeOK, UNCHANGED send_jobs
  PROVE  MediaJobsKept
BY DEF MediaJobsKept, RequestTypeOK

LEMMA InsertKeepsMediaJobs ==
  ASSUME RequestTypeOK, NEW r \in Request, NEW endpoint \in {"send", "stochastic"},
         Insert(r, endpoint, FALSE)
  PROVE  MediaJobsKept
BY InsertAppends DEF MediaJobsKept

(* The handlers that insert their own job: with media or without. *)
LEMMA EnqueueKeepsInv ==
  ASSUME RequestInv, setting' = setting, spoiled' \in SUBSET Device, files' = files,
         unremoved' = unremoved,
         NEW r \in Request, NEW pc \in {"stored", "refusing"}, GoesTo(r, pc),
         MayEnqueue(r), Insert(r, "send", request[r].media)
  PROVE  RequestInv'
<1>1. RequestTypeOK /\ FileHasOwner
  BY DEF RequestInv
<1>2. request[r].media \in BOOLEAN
  BY <1>1 DEF RequestTypeOK
<1>3. CASE request[r].media = TRUE
  BY <1>3, HandlerInserts DEF MayEnqueue
<1>4. CASE request[r].media = FALSE
  <2>1. request[r].pc = "start"
    BY <1>4 DEF MayEnqueue
  <2>2. MediaJobsKept
    BY <1>1, <1>4, InsertKeepsMediaJobs
  <2>3. r \notin files
    BY <1>1, <2>1 DEF FileHasOwner
  <2>4. files' \in SUBSET Request /\ unremoved' \in SUBSET Request
    BY <1>1 DEF RequestTypeOK
  <2> QED
    BY <2>1, <2>2, <2>3, <2>4, HandlerMoves DEF RequestPc, Answered
<1> QED
  BY <1>2, <1>3, <1>4

LEMMA RequestStep ==
  ASSUME RequestInv, [RequestNext]_requestVars
  PROVE  RequestInv'
<1>1. RequestTypeOK /\ FileHasOwner
  BY DEF RequestInv
<1>2. files \in SUBSET Request /\ spoiled \in SUBSET Device /\ unremoved \in SUBSET Request
  BY <1>1 DEF RequestTypeOK
<1>3. \A r \in Request : spoiled \cup {request[r].device} \in SUBSET Device
  BY <1>1 DEF RequestTypeOK
<1>4. UNCHANGED send_jobs => MediaJobsKept
  BY <1>1, UnchangedJobsKept
<1>5. ASSUME NEW r \in Request, Reject(r)
      PROVE  RequestInv'
  <2>1. r \notin files
    BY <1>1, <1>5 DEF Reject, FileHasOwner
  <2> QED
    BY <1>2, <1>4, <1>5, <2>1, HandlerMoves DEF Reject, RequestPc, Answered
<1>6. ASSUME NEW r \in Request, Download(r)
      PROVE  RequestInv'
  BY <1>2, <1>4, <1>6, HandlerMoves DEF Download, RequestPc, Answered
<1>18. ASSUME NEW r \in Request, DownloadLeavesFile(r)
       PROVE  RequestInv'
  <2>1. PICK pc \in {"refused", "crashed"} :
          /\ GoesTo(r, pc)
          /\ pc = "refused" => r \in unremoved'
          /\ unremoved \subseteq unremoved'
          /\ unremoved' \in SUBSET Request
    BY <1>2, <1>18 DEF DownloadLeavesFile
  <2>2. /\ request[r].pc = "start" /\ UNCHANGED send_jobs
        /\ files' = files \cup {r} /\ setting' = setting /\ spoiled' = spoiled
    BY <1>18 DEF DownloadLeavesFile
  <2> QED
    BY <1>2, <1>4, <2>1, <2>2, HandlerMoves DEF RequestPc, Answered
<1>7. ASSUME NEW r \in Request, Enqueue(r)
      PROVE  RequestInv'
  <2>1. spoiled' \in SUBSET Device
    BY <1>2, <1>3, <1>7 DEF Enqueue
  <2> QED
    BY <1>7, <2>1, EnqueueKeepsInv DEF Enqueue
<1>8. ASSUME NEW r \in Request, EnqueueRaises(r)
      PROVE  RequestInv'
  <2>1. /\ setting' = setting /\ files' = files /\ unremoved' = unremoved
        /\ spoiled' \in SUBSET Device
        /\ GoesTo(r, "refusing") /\ MayEnqueue(r)
    BY <1>3, <1>8 DEF EnqueueRaises
  <2>2. CASE UNCHANGED send_jobs
    <3>1. request[r].pc \notin Answered
      BY <2>1 DEF MayEnqueue, Answered
    <3> QED
      BY <1>2, <1>4, <2>1, <2>2, <3>1, HandlerMoves DEF RequestPc
  <2>3. CASE Insert(r, "send", request[r].media)
    BY <2>1, <2>3, EnqueueKeepsInv
  <2> QED
    BY <1>8, <2>2, <2>3 DEF EnqueueRaises
<1>9. ASSUME NEW r \in Request, Reread(r)
      PROVE  RequestInv'
  <2>1. PICK pc \in {"companion", "accepted"} : GoesTo(r, pc)
    BY <1>9 DEF Reread, Accept
  <2>2. /\ request[r].pc = "stored"
        /\ UNCHANGED send_jobs
        /\ files' = files /\ setting' = setting /\ spoiled' = spoiled
        /\ unremoved' = unremoved
    BY <1>9 DEF Reread, Accept
  <2> QED
    BY <1>2, <1>4, <2>1, <2>2, HandlerMoves DEF RequestPc, Answered
<1>10. ASSUME NEW r \in Request, RereadRaises(r)
       PROVE  RequestInv'
  BY <1>2, <1>3, <1>4, <1>10, HandlerMoves DEF RereadRaises, RequestPc, Answered
<1>11. ASSUME NEW r \in Request, EnqueueCompanion(r)
       PROVE  RequestInv'
  <2>1. MediaJobsKept
    BY <1>1, <1>11, InsertKeepsMediaJobs DEF EnqueueCompanion
  <2> QED
    BY <1>2, <1>11, <2>1, HandlerMoves DEF EnqueueCompanion, Accept, RequestPc, Answered
<1>12. ASSUME NEW r \in Request, CompanionRaises(r)
       PROVE  RequestInv'
  <2>1. MediaJobsKept
    BY <1>1, <1>4, <1>12, InsertKeepsMediaJobs DEF CompanionRaises
  <2> QED
    BY <1>2, <1>3, <1>12, <2>1, HandlerMoves DEF CompanionRaises, RequestPc, Answered
<1>13. ASSUME NEW r \in Request, Refuse(r)
       PROVE  RequestInv'
  BY <1>2, <1>4, <1>13, HandlerMoves DEF Refuse, RemoveFile, RequestPc, Answered
<1>14. ASSUME NEW i \in DOMAIN send_jobs, WorkerClaims(i)
       PROVE  RequestInv'
  BY <1>14, JobMoves DEF WorkerClaims
<1>15. ASSUME NEW i \in DOMAIN send_jobs, WorkerFinishes(i)
       PROVE  RequestInv'
  BY <1>15, JobMoves DEF WorkerFinishes
<1>16. ASSUME NEW i \in DOMAIN send_jobs, JobIsLost(i)
       PROVE  RequestInv'
  BY <1>16, JobMoves DEF JobIsLost
<1>17. CASE UNCHANGED requestVars
  BY <1>17 DEF requestVars, RequestInv, RequestTypeOK, NoJobBeforeInsert,
       DownloadIsKept, OneJobPerFile, FileHasOwner, MediaOutlivesJob
<1> QED
  BY <1>5, <1>6, <1>7, <1>8, <1>9, <1>10, <1>11, <1>12, <1>13, <1>14, <1>15, <1>16,
     <1>17, <1>18 DEF RequestNext

-----------------------------------------------------------------------------
(* The companions of a phone.  Of a phone that is not spoiled at most one   *)
(* handler waits for its count, so that the count it reads ends with its    *)
(* own job; and companions that are due but not yet inserted count as       *)
(* brought.                                                                 *)
Rereading(d) == {r \in Request : request[r].device = d /\ request[r].pc = "stored"}
Bringing(d) == {r \in Request : request[r].device = d /\ request[r].pc = "companion"}
Sent(d) == Cardinality(JobsOf(d, "send"))
Brought(d) == Cardinality(JobsOf(d, "stochastic")) + Cardinality(Bringing(d))

CountOk(d) ==
  /\ IsFiniteSet(Bringing(d))
  /\ \/ Rereading(d) = {} /\ Brought(d) = Sent(d) \div Interval
     \/ \E r \in Request :
          /\ Rereading(d) = {r}
          /\ Sent(d) # 0
          /\ Brought(d) = (Sent(d) - 1) \div Interval

CountsOk == setting = "true" => \A d \in Device \ spoiled : CountOk(d)

LEMMA NextCount ==
  ASSUME NEW I \in Nat \ {0}, NEW n \in Nat
  PROVE  (n + 1) \div I = IF (n + 1) % I = 0 THEN (n \div I) + 1 ELSE n \div I
OBVIOUS

LEMMA JobsOfFinite ==
  ASSUME RequestTypeOK, NEW d, NEW endpoint
  PROVE  /\ IsFiniteSet(JobsOf(d, endpoint))
         /\ Cardinality(JobsOf(d, endpoint)) \in Nat
<1>1. DOMAIN send_jobs = 1 .. Len(send_jobs) /\ Len(send_jobs) \in Nat
  BY DEF RequestTypeOK
<1>2. IsFiniteSet(DOMAIN send_jobs)
  BY <1>1, FS_Interval
<1>3. JobsOf(d, endpoint) \in SUBSET DOMAIN send_jobs
  BY DEF JobsOf
<1>4. IsFiniteSet(JobsOf(d, endpoint))
  BY <1>2, <1>3, FS_Subset
<1> QED
  BY <1>4, FS_CardinalityType

(* An INSERT counts one job more, of its phone and endpoint. *)
LEMMA InsertCounts ==
  ASSUME RequestTypeOK, NEW r \in Request, NEW endpoint \in {"send", "stochastic"},
         NEW media \in BOOLEAN, Insert(r, endpoint, media), NEW d, NEW e
  PROVE  Cardinality(JobsOf(d, e)') =
           IF d = request[r].device /\ e = endpoint THEN Cardinality(JobsOf(d, e)) + 1
                                                    ELSE Cardinality(JobsOf(d, e))
<1> DEFINE n == Len(send_jobs) + 1
<1>1. /\ DOMAIN send_jobs' = DOMAIN send_jobs \cup {n}
      /\ \A i \in DOMAIN send_jobs : i # n /\ send_jobs'[i] = send_jobs[i]
      /\ send_jobs'[n].device = request[r].device
      /\ send_jobs'[n].endpoint = endpoint
  BY InsertAppends
<1> HIDE DEF n
<1>2. n \notin JobsOf(d, e)
  BY <1>1 DEF JobsOf
<1>3. CASE d = request[r].device /\ e = endpoint
  <2>1. JobsOf(d, e)' = JobsOf(d, e) \cup {n}
    BY <1>1, <1>3 DEF JobsOf
  <2>2. IsFiniteSet(JobsOf(d, e))
    BY JobsOfFinite
  <2>3. Cardinality(JobsOf(d, e) \cup {n}) = Cardinality(JobsOf(d, e)) + 1
    BY <1>2, <2>2, FS_AddElement
  <2> QED
    BY <1>3, <2>1, <2>3
<1>4. CASE ~(d = request[r].device /\ e = endpoint)
  <2>1. JobsOf(d, e)' = JobsOf(d, e)
    BY <1>1, <1>4 DEF JobsOf
  <2> QED
    BY <1>4, <2>1
<1> QED
  BY <1>3, <1>4

(* A handler that moves on joins or leaves the two sets of its phone. *)
LEMMA GoesToSets ==
  ASSUME RequestTypeOK, NEW r \in Request, NEW pc \in RequestPc, GoesTo(r, pc), NEW d
  PROVE  /\ d # request[r].device => Rereading(d)' = Rereading(d) /\ Bringing(d)' = Bringing(d)
         /\ d = request[r].device =>
              /\ Rereading(d)' = IF pc = "stored" THEN Rereading(d) \cup {r}
                                                  ELSE Rereading(d) \ {r}
              /\ Bringing(d)' = IF pc = "companion" THEN Bringing(d) \cup {r}
                                                    ELSE Bringing(d) \ {r}
<1>1. /\ request'[r].pc = pc
      /\ \A o \in Request \ {r} : request'[o].pc = request[o].pc
      /\ \A o \in Request : request'[o].device = request[o].device
  BY GoesToMoves
<1> QED
  BY <1>1 DEF Rereading, Bringing

(* Another phone is not disturbed. *)
LEMMA OtherPhone ==
  ASSUME RequestTypeOK, NEW d, CountOk(d), NEW r \in Request, request[r].device # d,
         NEW pc \in RequestPc, GoesTo(r, pc),
         \/ UNCHANGED send_jobs
         \/ \E endpoint \in {"send", "stochastic"}, media \in BOOLEAN :
              Insert(r, endpoint, media)
  PROVE  CountOk(d)'
<1>1. Rereading(d)' = Rereading(d) /\ Bringing(d)' = Bringing(d)
  BY GoesToSets
<1>2. /\ Cardinality(JobsOf(d, "send")') = Cardinality(JobsOf(d, "send"))
      /\ Cardinality(JobsOf(d, "stochastic")') = Cardinality(JobsOf(d, "stochastic"))
  <2>1. CASE UNCHANGED send_jobs
    BY <2>1 DEF JobsOf
  <2>2. CASE \E endpoint \in {"send", "stochastic"}, media \in BOOLEAN :
               Insert(r, endpoint, media)
    BY <2>2, InsertCounts
  <2> QED
    BY <2>1, <2>2
<1> QED
  BY <1>1, <1>2 DEF CountOk, Sent, Brought

(* A handler of this phone that moves between states the count ignores. *)
LEMMA SilentMove ==
  ASSUME RequestTypeOK, NEW d, CountOk(d), NEW r \in Request,
         NEW pc \in RequestPc \ {"stored", "companion"}, GoesTo(r, pc),
         request[r].pc \notin {"stored", "companion"}, UNCHANGED send_jobs
  PROVE  CountOk(d)'
<1>1. r \notin Rereading(d) /\ r \notin Bringing(d)
  BY DEF Rereading, Bringing
<1>2. Rereading(d)' = Rereading(d) /\ Bringing(d)' = Bringing(d)
  <2>1. CASE d # request[r].device
    BY <2>1, GoesToSets
  <2>2. CASE d = request[r].device
    <3>1. Rereading(d)' = Rereading(d) \ {r} /\ Bringing(d)' = Bringing(d) \ {r}
      BY <2>2, GoesToSets
    <3> QED
      BY <1>1, <3>1
  <2> QED
    BY <2>1, <2>2
<1>3. \A e : JobsOf(d, e)' = JobsOf(d, e)
  BY DEF JobsOf
<1> QED
  BY <1>2, <1>3 DEF CountOk, Sent, Brought

(* The commit of a handler that no other is about to overtake. *)
LEMMA EnqueueCounts ==
  ASSUME RequestTypeOK, NEW d, CountOk(d), NEW r \in Request, request[r].device = d,
         ~CountsLate(r), Enqueue(r)
  PROVE  CountOk(d)'
<1> DEFINE sent == Sent(d)
           brought == Brought(d)
<1>1. /\ request[r].pc \notin {"stored", "companion"}
      /\ GoesTo(r, "stored")
      /\ Insert(r, "send", request[r].media)
      /\ request[r].media \in BOOLEAN
  BY DEF Enqueue, MayEnqueue, RequestTypeOK
<1>2. Rereading(d) = {} /\ r \notin Bringing(d)
  BY <1>1 DEF Rereading, Bringing, CountsLate
<1>3. Rereading(d)' = {r} /\ Bringing(d)' = Bringing(d)
  BY <1>1, <1>2, GoesToSets DEF RequestPc
<1>4. Sent(d)' = sent + 1 /\ Brought(d)' = brought
  BY <1>1, <1>3, InsertCounts DEF Sent, Brought
<1>5. sent \in Nat /\ brought = sent \div Interval
  BY <1>2, JobsOfFinite DEF CountOk, Sent
<1> HIDE DEF sent, brought
<1>6. sent + 1 # 0 /\ (sent + 1) - 1 = sent
  BY <1>5
<1>7. IsFiniteSet(Bringing(d))
  BY DEF CountOk
<1> QED
  BY <1>3, <1>4, <1>5, <1>6, <1>7 DEF CountOk

(* The count that a handler reads: it brings a companion exactly when the   *)
(* quotient grew.                                                           *)
LEMMA RereadCounts ==
  ASSUME RequestTypeOK, NEW d, CountOk(d), NEW r \in Request, request[r].device = d,
         setting = "true", Reread(r)
  PROVE  CountOk(d)'
<1> DEFINE n == Sent(d) - 1
<1>1. request[r].pc = "stored" /\ UNCHANGED send_jobs
  BY DEF Reread
<1>2. r \in Rereading(d) /\ r \notin Bringing(d)
  BY <1>1 DEF Rereading, Bringing
<1>3. /\ IsFiniteSet(Bringing(d))
      /\ Rereading(d) = {r}
      /\ Sent(d) # 0
      /\ Brought(d) = n \div Interval
  BY <1>2 DEF CountOk
<1>4. n \in Nat /\ Sent(d) = n + 1
  BY <1>3, JobsOfFinite DEF Sent
<1>5. Sent(d)' = Sent(d)
  BY <1>1 DEF Sent, JobsOf
<1>6. JobsOf(d, "stochastic")' = JobsOf(d, "stochastic")
  BY <1>1 DEF JobsOf
<1>7. Cardinality(JobsOf(d, "stochastic")) \in Nat /\ Cardinality(Bringing(d)) \in Nat
  BY <1>3, JobsOfFinite, FS_CardinalityType
<1> HIDE DEF n
<1>8. CASE CompanionIsDue(d) /\ GoesTo(r, "companion")
  <2>1. Rereading(d)' = {} /\ Bringing(d)' = Bringing(d) \cup {r}
    BY <1>3, <1>8, GoesToSets DEF RequestPc
  <2>2. /\ IsFiniteSet(Bringing(d)')
        /\ Cardinality(Bringing(d)') = Cardinality(Bringing(d)) + 1
    BY <1>2, <1>3, <2>1, FS_AddElement
  <2>3. Brought(d)' = Brought(d) + 1
    BY <1>6, <1>7, <2>2 DEF Brought
  <2>4. (n + 1) % Interval = 0
    BY <1>4, <1>8 DEF CompanionIsDue, Sent
  <2>5. (n + 1) \div Interval = (n \div Interval) + 1
    BY <1>4, <2>4, NextCount, SendRequestAssumption
  <2> QED
    BY <1>3, <1>4, <1>5, <2>1, <2>2, <2>3, <2>5 DEF CountOk
<1>9. CASE ~CompanionIsDue(d) /\ GoesTo(r, "accepted")
  <2>1. Rereading(d)' = {} /\ Bringing(d)' = Bringing(d)
    BY <1>2, <1>3, <1>9, GoesToSets DEF RequestPc
  <2>2. Brought(d)' = Brought(d)
    BY <1>6, <2>1 DEF Brought
  <2>3. (n + 1) % Interval # 0
    BY <1>4, <1>9 DEF CompanionIsDue, Sent
  <2>4. (n + 1) \div Interval = n \div Interval
    BY <1>4, <2>3, NextCount, SendRequestAssumption
  <2> QED
    BY <1>3, <1>4, <1>5, <2>1, <2>2, <2>4 DEF CountOk
<1> QED
  BY <1>8, <1>9 DEF Reread, Accept

(* The companion that was due is in the table. *)
LEMMA CompanionCounts ==
  ASSUME RequestTypeOK, NEW d, CountOk(d), NEW r \in Request, request[r].device = d,
         EnqueueCompanion(r)
  PROVE  CountOk(d)'
<1>1. /\ request[r].pc = "companion"
      /\ GoesTo(r, "accepted")
      /\ Insert(r, "stochastic", FALSE)
  BY DEF EnqueueCompanion, Accept
<1>2. r \in Bringing(d) /\ r \notin Rereading(d)
  BY <1>1 DEF Bringing, Rereading
<1>3. IsFiniteSet(Bringing(d))
  BY DEF CountOk
<1>4. Rereading(d)' = Rereading(d) /\ Bringing(d)' = Bringing(d) \ {r}
  BY <1>1, <1>2, GoesToSets DEF RequestPc
<1>5. /\ IsFiniteSet(Bringing(d)')
      /\ Cardinality(Bringing(d)') = Cardinality(Bringing(d)) - 1
  BY <1>2, <1>3, <1>4, FS_RemoveElement
<1>6. /\ Sent(d)' = Sent(d)
      /\ Cardinality(JobsOf(d, "stochastic")') = Cardinality(JobsOf(d, "stochastic")) + 1
  BY <1>1, InsertCounts DEF Sent
<1>7. Cardinality(JobsOf(d, "stochastic")) \in Nat /\ Cardinality(Bringing(d)) \in Nat
  BY <1>3, JobsOfFinite, FS_CardinalityType
<1>8. Brought(d)' = Brought(d)
  BY <1>5, <1>6, <1>7 DEF Brought
<1> QED
  BY <1>4, <1>5, <1>6, <1>8 DEF CountOk

LEMMA CountsInit ==
  ASSUME RequestInit
  PROVE  CountsOk
<1> SUFFICES ASSUME NEW d \in Device PROVE CountOk(d)
  BY DEF CountsOk
<1>1. Rereading(d) = {} /\ Bringing(d) = {}
  BY DEF RequestInit, Rereading, Bringing
<1>2. send_jobs = <<>>
  BY DEF RequestInit
<1>3. \A e : JobsOf(d, e) = {}
  BY <1>2 DEF JobsOf
<1>4. Sent(d) = 0 /\ Brought(d) = 0
  BY <1>1, <1>3, FS_EmptySet DEF Sent, Brought
<1>5. 0 \div Interval = 0
  BY SendRequestAssumption
<1> QED
  BY <1>1, <1>4, <1>5, FS_EmptySet DEF CountOk

(* A handler's step that spoils its phone, or leaves its count right. *)
LEMMA HandlerCounts ==
  ASSUME RequestTypeOK, NEW d \in Device, CountOk(d), setting = "true",
         NEW r \in Request, d \notin spoiled',
         \/ Reject(r) \/ Download(r) \/ DownloadLeavesFile(r)
         \/ Enqueue(r) \/ EnqueueRaises(r) \/ Reread(r) \/ RereadRaises(r)
         \/ EnqueueCompanion(r) \/ CompanionRaises(r) \/ Refuse(r)
  PROVE  CountOk(d)'
<1>1. CASE request[r].device # d
  <2>1. /\ \E pc \in RequestPc : GoesTo(r, pc)
        /\ \/ UNCHANGED send_jobs
           \/ Insert(r, "send", request[r].media)
           \/ Insert(r, "stochastic", FALSE)
    BY DEF Reject, Download, DownloadLeavesFile, Enqueue, EnqueueRaises, Reread,
         RereadRaises, EnqueueCompanion, CompanionRaises, Refuse, Accept, RequestPc
  <2>2. request[r].media \in BOOLEAN
    BY DEF RequestTypeOK
  <2> QED
    BY <1>1, <2>1, <2>2, OtherPhone
<1>2. CASE request[r].device = d
  <2>1. CASE Reject(r) \/ Download(r) \/ DownloadLeavesFile(r) \/ Refuse(r)
    BY <2>1, SilentMove DEF Reject, Download, DownloadLeavesFile, Refuse, RequestPc
  <2>2. CASE Enqueue(r)
    <3>1. ~CountsLate(r)
      BY <1>2, <2>2 DEF Enqueue
    <3> QED
      BY <1>2, <2>2, <3>1, EnqueueCounts
  <2>3. CASE Reread(r)
    BY <1>2, <2>3, RereadCounts
  <2>4. CASE EnqueueCompanion(r)
    BY <1>2, <2>4, CompanionCounts
  <2>5. CASE EnqueueRaises(r) \/ RereadRaises(r) \/ CompanionRaises(r)
    BY <1>2, <2>5 DEF EnqueueRaises, RereadRaises, CompanionRaises
  <2> QED
    BY <2>1, <2>2, <2>3, <2>4, <2>5
<1> QED
  BY <1>1, <1>2

(* A job that changes hands keeps its phone and its endpoint. *)
LEMMA JobMovesCounts ==
  ASSUME RequestTypeOK, NEW d, CountOk(d), request' = request,
         NEW k \in DOMAIN send_jobs, NEW status \in {"running", "lost", "done"},
         JobBecomes(k, status)
  PROVE  CountOk(d)'
<1>1. /\ DOMAIN send_jobs' = DOMAIN send_jobs
      /\ \A j \in DOMAIN send_jobs :
           /\ send_jobs'[j].device = send_jobs[j].device
           /\ send_jobs'[j].endpoint = send_jobs[j].endpoint
  BY JobBecomesKeeps
<1>2. \A e : JobsOf(d, e)' = JobsOf(d, e)
  BY <1>1 DEF JobsOf
<1>3. Rereading(d)' = Rereading(d) /\ Bringing(d)' = Bringing(d)
  BY DEF Rereading, Bringing
<1> QED
  BY <1>2, <1>3 DEF CountOk, Sent, Brought

LEMMA CountsStep ==
  ASSUME RequestTypeOK, CountsOk, [RequestNext]_requestVars
  PROVE  CountsOk'
<1> SUFFICES ASSUME setting' = "true", NEW d \in Device, d \notin spoiled'
             PROVE  CountOk(d)'
  BY DEF CountsOk
<1>1. setting' = setting /\ spoiled \in SUBSET spoiled'
  BY DEF RequestNext, requestVars, Reject, Download, DownloadLeavesFile, Enqueue,
       EnqueueRaises, Reread,
       RereadRaises, EnqueueCompanion, CompanionRaises, Refuse, WorkerClaims,
       WorkerFinishes, JobIsLost
<1>2. CountOk(d) /\ setting = "true"
  BY <1>1 DEF CountsOk
<1>3. ASSUME NEW r \in Request,
             \/ Reject(r) \/ Download(r) \/ DownloadLeavesFile(r)
             \/ Enqueue(r) \/ EnqueueRaises(r) \/ Reread(r) \/ RereadRaises(r)
             \/ EnqueueCompanion(r) \/ CompanionRaises(r) \/ Refuse(r)
      PROVE  CountOk(d)'
  BY <1>2, <1>3, HandlerCounts
<1>4. ASSUME NEW i \in DOMAIN send_jobs,
             WorkerClaims(i) \/ WorkerFinishes(i) \/ JobIsLost(i)
      PROVE  CountOk(d)'
  BY <1>2, <1>4, JobMovesCounts DEF WorkerClaims, WorkerFinishes, JobIsLost
<1>5. CASE UNCHANGED requestVars
  BY <1>2, <1>5 DEF requestVars, CountOk, Sent, Brought, Rereading, Bringing, JobsOf
<1> QED
  BY <1>3, <1>4, <1>5 DEF RequestNext

-----------------------------------------------------------------------------
(* The theorems.                                                            *)

LEMMA RequestInvariant == RequestSpec => []RequestInv
<1>1. RequestInit => RequestInv
  BY RequestInvInit
<1>2. RequestInv /\ [RequestNext]_requestVars => RequestInv'
  BY RequestStep
<1> QED
  BY <1>1, <1>2, PTL DEF RequestSpec

(* The types of the variables (api.py:register_send_route). *)
THEOREM RequestTypeCorrect == RequestSpec => []RequestTypeOK
<1>1. RequestInv => RequestTypeOK
  BY DEF RequestInv
<1> QED
  BY <1>1, RequestInvariant, PTL

(* The file of a job that waits or is being sent is on the disk, unless its *)
(* request was answered with an error (api.py:315-364).                     *)
THEOREM MediaIsThere == RequestSpec => []MediaOutlivesJob
<1>1. RequestInv => MediaOutlivesJob
  BY DEF RequestInv
<1> QED
  BY <1>1, RequestInvariant, PTL

(* A file on the disk belongs to a request under way or to a job that is    *)
(* not done, unless its removal raised or its download ended in an          *)
(* exception nobody caught (api.py:361-367, queue_worker.py:221-222,        *)
(* downloaded_media.py:124-154).                                            *)
THEOREM FilesAreOwned == RequestSpec => []NoStrayMedia
<1>1. RequestInv => NoStrayMedia
  BY DEF RequestInv, FileHasOwner, NoStrayMedia, Answered
<1> QED
  BY <1>1, RequestInvariant, PTL

(* A phone gets one companion per Interval jobs, for any number of handlers *)
(* and any Interval, unless two of its handlers overlapped or one failed    *)
(* between the commit and the count (send_queue.py:142-160).                *)
THEOREM CompanionsAreCounted == RequestSpec => []CompanionPerInterval
<1>1. RequestInit => CountsOk
  BY CountsInit
<1>2. RequestTypeOK /\ CountsOk /\ [RequestNext]_requestVars => CountsOk'
  BY CountsStep
<1>3. RequestTypeOK /\ CountsOk => CompanionPerInterval
  <2> SUFFICES ASSUME RequestTypeOK, CountsOk, setting = "true",
                      NEW d \in Device, d \notin spoiled,
                      \A r \in Request : request[r].device = d =>
                                          request[r].pc \notin {"stored", "companion"}
               PROVE  Cardinality(JobsOf(d, "stochastic")) =
                        Cardinality(JobsOf(d, "send")) \div Interval
    BY DEF CompanionPerInterval
  <2>1. CountOk(d)
    BY DEF CountsOk
  <2>2. Rereading(d) = {} /\ Bringing(d) = {}
    BY DEF Rereading, Bringing
  <2>3. Brought(d) = Sent(d) \div Interval
    BY <2>1, <2>2 DEF CountOk
  <2>4. Cardinality(Bringing(d)) = 0
    BY <2>2, FS_EmptySet
  <2>5. Cardinality(JobsOf(d, "stochastic")) \in Nat
    BY JobsOfFinite
  <2> QED
    BY <2>3, <2>4, <2>5 DEF Brought, Sent
<1> QED
  BY <1>1, <1>2, <1>3, RequestTypeCorrect, PTL DEF RequestSpec
=============================================================================
