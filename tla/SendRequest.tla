----------------------------- MODULE SendRequest -----------------------------
(***************************************************************************)
(* The send handlers of the HTTP API (api.py:register_send_route), from    *)
(* the request to its answer: the media file a request downloads           *)
(* (downloaded_media.py), the job it inserts, and the stochastic companion *)
(* job that every Interval-th job of a phone brings (send_queue.py).       *)
(*                                                                         *)
(* Handlers run concurrently with each other and with the queue workers;   *)
(* of a worker only what it does to a job's file appears (SendQueue has    *)
(* the rest).  A request and the file it downloads have one name.          *)
(***************************************************************************)
EXTENDS Naturals, Sequences, FiniteSets

CONSTANTS Request,    \* the requests, each handled by a thread of its own
          Device,     \* the phones they name
          Interval,   \* STOCHASTIC_INTERVAL
          DbMayFail   \* may a database call of a handler raise?

ASSUME SendRequestAssumption ==
  /\ Interval \in Nat \ {0}
  /\ DbMayFail \in BOOLEAN

VARIABLES request,    \* the local state of each handler
          send_jobs,  \* the rows of the table, by id
          files,      \* the requests whose downloaded file is on the disk
          setting,    \* STOCHASTIC_ENABLED: true, false, or a text env_bool rejects
          spoiled,    \* history: the phones whose count was read late, or not at all
          unremoved   \* history: the files whose removal raised, which is only logged

requestVars == <<request, send_jobs, files, setting, spoiled, unremoved>>

RequestPc == {"start",
              "fetched",    \* the file is downloaded
              "stored",     \* the job is committed, its re-read comes next
              "companion",  \* a companion is due, its INSERT comes next
              "refusing",   \* in an except block
              "accepted", "refused",
              "crashed"}    \* left by an exception that no except clause names
Answered == {"accepted", "refused", "crashed"}

Row == [by : Request, device : Device, endpoint : {"send", "stochastic"},
        media : BOOLEAN, status : {"pending", "running", "lost", "done"}]

RequestTypeOK ==
  /\ request \in [Request -> [pc : RequestPc, device : Device, media : BOOLEAN]]
  /\ send_jobs \in Seq(Row)
  /\ files \in SUBSET Request
  /\ setting \in {"true", "false", "invalid"}
  /\ spoiled \in SUBSET Device
  /\ unremoved \in SUBSET Request

RequestInit ==
  /\ request \in [Request -> [pc : {"start"}, device : Device, media : BOOLEAN]]
  /\ send_jobs = <<>>
  /\ files = {}
  /\ setting \in {"true", "false", "invalid"}
  /\ spoiled = {}
  /\ unremoved = {}

GoesTo(r, pc) == request' = [request EXCEPT ![r].pc = pc]

(* The jobs of a phone with an endpoint. *)
JobsOf(d, endpoint) ==
  {i \in DOMAIN send_jobs : send_jobs[i].device = d /\ send_jobs[i].endpoint = endpoint}

(* The INSERT of a pending job, and its commit. *)
Insert(r, endpoint, media) ==
  send_jobs' = Append(send_jobs, [by |-> r, device |-> request[r].device,
                                  endpoint |-> endpoint, media |-> media,
                                  status |-> "pending"])

(* Another handler of the phone is between its commit and its re-read, so   *)
(* that it will count the job of this one too.                              *)
CountsLate(r) ==
  \E o \in Request \ {r} : /\ request[o].device = request[r].device
                           /\ request[o].pc = "stored"

(* cleanup_downloaded_media_file: an OSError of the removal is logged, and   *)
(* the file stays.                                                          *)
RemoveFile(r) ==
  \/ files' = files \ {r} /\ UNCHANGED unremoved
  \/ files' = files /\ unremoved' = unremoved \cup ({r} \cap files)

-----------------------------------------------------------------------------
(* A bad request, an unknown device, no database, or a download that failed *)
(* before its file was created or removed what it wrote.                    *)
Reject(r) ==
  /\ request[r].pc = "start"
  /\ GoesTo(r, "refused")
  /\ UNCHANGED <<send_jobs, files, setting, spoiled, unremoved>>

(* A download fails with its temporary file on the disk, and the file stays: *)
(* its removal raised, or the exception is none that the except clauses of  *)
(* the download and of the handler name (an IncompleteRead of the response).*)
DownloadLeavesFile(r) ==
  /\ request[r].pc = "start"
  /\ request[r].media
  /\ files' = files \cup {r}
  /\ \/ GoesTo(r, "refused") /\ unremoved' = unremoved \cup {r}
     \/ GoesTo(r, "crashed") /\ UNCHANGED unremoved
  /\ UNCHANGED <<send_jobs, setting, spoiled>>

(* The device is found, and the file on the disk. *)
Download(r) ==
  /\ request[r].pc = "start"
  /\ request[r].media
  /\ files' = files \cup {r}
  /\ GoesTo(r, "fetched")
  /\ UNCHANGED <<send_jobs, setting, spoiled, unremoved>>

(* enqueue_send_job comes next. *)
MayEnqueue(r) == request[r].pc = IF request[r].media THEN "fetched" ELSE "start"

(* enqueue_send_job up to its commit. *)
Enqueue(r) ==
  /\ MayEnqueue(r)
  /\ Insert(r, "send", request[r].media)
  /\ spoiled' = IF CountsLate(r) THEN spoiled \cup {request[r].device} ELSE spoiled
  /\ GoesTo(r, "stored")
  /\ UNCHANGED <<files, setting, unremoved>>

(* It raised, before the commit or after it. *)
EnqueueRaises(r) ==
  /\ DbMayFail
  /\ MayEnqueue(r)
  /\ UNCHANGED send_jobs \/ Insert(r, "send", request[r].media)
  /\ spoiled' = spoiled \cup {request[r].device}
  /\ GoesTo(r, "refusing")
  /\ UNCHANGED <<files, setting, unremoved>>

(* Mutant: the companions count too. *)
CompanionIsDueOfAll(d) ==
  (Cardinality(JobsOf(d, "send")) + Cardinality(JobsOf(d, "stochastic"))) % Interval = 0

(* enqueue_stochastic_job_if_due; the count is not 0, for the handler's own *)
(* job is in it.                                                            *)
CompanionIsDue(d) == Cardinality(JobsOf(d, "send")) % Interval = 0

(* Mutant: the file is removed in a `finally` block. *)
AcceptCleansUp(r) == GoesTo(r, "accepted") /\ files' = files \ {r}

(* The answer 202; the file stays, the job names it. *)
Accept(r) == GoesTo(r, "accepted") /\ UNCHANGED files

(* The re-read after the commit opens the transaction whose snapshot the    *)
(* count reads too (REPEATABLE READ), so the two are one step.              *)
Reread(r) ==
  /\ request[r].pc = "stored"
  /\ \/ /\ setting = "true"
        /\ CompanionIsDue(request[r].device)
        /\ GoesTo(r, "companion")
        /\ UNCHANGED files
     \/ /\ setting = "true" => ~CompanionIsDue(request[r].device)
        /\ setting # "invalid"
        /\ Accept(r)
  /\ UNCHANGED <<send_jobs, setting, spoiled, unremoved>>

(* The re-read or the count raised, or env_bool did not understand the      *)
(* setting: the job is in the queue, and the handler answers an error.      *)
RereadRaises(r) ==
  /\ request[r].pc = "stored"
  /\ DbMayFail \/ setting = "invalid"
  /\ spoiled' = spoiled \cup {request[r].device}
  /\ GoesTo(r, "refusing")
  /\ UNCHANGED <<send_jobs, files, setting, unremoved>>

(* enqueue_stochastic_job: another enqueue_send_job, without media. *)
EnqueueCompanion(r) ==
  /\ request[r].pc = "companion"
  /\ Insert(r, "stochastic", FALSE)
  /\ Accept(r)
  /\ UNCHANGED <<setting, spoiled, unremoved>>

CompanionRaises(r) ==
  /\ DbMayFail
  /\ request[r].pc = "companion"
  /\ UNCHANGED send_jobs \/ Insert(r, "stochastic", FALSE)
  /\ spoiled' = spoiled \cup {request[r].device}
  /\ GoesTo(r, "refusing")
  /\ UNCHANGED <<files, setting, unremoved>>

(* Mutant: the except block leaves the file. *)
RefuseKeepsFile(r) ==
  /\ request[r].pc = "refusing"
  /\ GoesTo(r, "refused")
  /\ UNCHANGED <<send_jobs, files, setting, spoiled, unremoved>>

(* The except blocks: the file is removed, whether or not a job names it.   *)
Refuse(r) ==
  /\ request[r].pc = "refusing"
  /\ RemoveFile(r)
  /\ GoesTo(r, "refused")
  /\ UNCHANGED <<send_jobs, setting, spoiled>>

-----------------------------------------------------------------------------
(* What the rest of the server does to a job: a worker claims it, and works *)
(* on it to the end, with the cleanup in its `finally` block; or the job is *)
(* left behind: its worker died or could not read it back, or its phone was *)
(* gone and the claim failed it.  Jobs without a file are left out of this. *)
JobBecomes(i, status) ==
  /\ send_jobs[i].media
  /\ send_jobs' = [send_jobs EXCEPT ![i].status = status]

WorkerClaims(i) ==
  /\ send_jobs[i].status = "pending"
  /\ JobBecomes(i, "running")
  /\ UNCHANGED <<request, files, setting, spoiled, unremoved>>

WorkerFinishes(i) ==
  /\ send_jobs[i].status = "running"
  /\ JobBecomes(i, "done")
  /\ RemoveFile(send_jobs[i].by)
  /\ UNCHANGED <<request, setting, spoiled>>

JobIsLost(i) ==
  /\ send_jobs[i].status \in {"pending", "running"}
  /\ JobBecomes(i, "lost")
  /\ UNCHANGED <<request, files, setting, spoiled, unremoved>>

RequestNext ==
  \/ \E r \in Request :
       \/ Reject(r) \/ Download(r) \/ DownloadLeavesFile(r)
       \/ Enqueue(r) \/ EnqueueRaises(r) \/ Reread(r) \/ RereadRaises(r)
       \/ EnqueueCompanion(r) \/ CompanionRaises(r) \/ Refuse(r)
  \/ \E i \in DOMAIN send_jobs : WorkerClaims(i) \/ WorkerFinishes(i) \/ JobIsLost(i)

RequestSpec == RequestInit /\ [][RequestNext]_requestVars

-----------------------------------------------------------------------------
(* Properties.                                                              *)

(* Property: the downloaded file of a job that waits or is being sent is on *)
(* the disk, unless its request is about to be answered, or was answered,   *)
(* with an error: no job whose client was told `queued` loses its media,    *)
(* however requests, failures and workers interleave (api.py:315-364).      *)
MediaOutlivesJob ==
  \A i \in DOMAIN send_jobs :
    (send_jobs[i].media /\ send_jobs[i].status \in {"pending", "running"}) =>
      send_jobs[i].by \in files \/ request[send_jobs[i].by].pc = "refused"

(* Property: no downloaded file is forgotten but in the two ways the code   *)
(* lets one be: one on the disk belongs to a request under way, to a job    *)
(* that waits or runs, or to a job that was left behind; or its removal     *)
(* raised; or its download ended in an exception nobody caught              *)
(* (api.py:361-367, queue_worker.py:221-222, downloaded_media.py:124-154).  *)
NoStrayMedia ==
  \A r \in files :
    \/ request[r].pc \notin Answered \ {"crashed"}
    \/ r \in unremoved
    \/ \E i \in DOMAIN send_jobs :
         /\ send_jobs[i].by = r /\ send_jobs[i].media
         /\ send_jobs[i].status # "done"

(* Property: a phone gets exactly one companion per Interval jobs, as long  *)
(* as no two of its handlers were between the commit and the re-read at the *)
(* same time and none failed there; only that overlap loses or doubles one  *)
(* (send_queue.py:142-160).                                                 *)
CompanionPerInterval ==
  \A d \in Device :
    (/\ setting = "true"
     /\ d \notin spoiled
     /\ \A r \in Request :
          request[r].device = d => request[r].pc \notin {"stored", "companion"}) =>
      Cardinality(JobsOf(d, "stochastic")) = Cardinality(JobsOf(d, "send")) \div Interval
=============================================================================
