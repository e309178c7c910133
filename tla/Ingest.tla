-------------------------------- MODULE Ingest --------------------------------
(***************************************************************************)
(* Incoming notifications, from the listener app on a phone                *)
(* (NotificationForwarderService.kt) through the ingest handler of the     *)
(* server (api.py, notifications.py) to the webhook.  Android posts the    *)
(* same notification again and again; the app forwards each post once, on  *)
(* one thread, and gives up waiting after a timeout while the server goes  *)
(* on.  Messages, senders and texts are abstracted to the fingerprint that *)
(* build_notification_dedup_key makes of them.                             *)
(***************************************************************************)
EXTENDS Naturals, Sequences

CONSTANTS Posts,       \* how often Android posts a notification
          Fingerprint, \* what distinguishes notifications
          WithMedia,   \* the fingerprints whose notification carries media
          DbMayFail    \* may a database call of a handler raise, or the server die?

ASSUME IngestAssumption ==
  /\ WithMedia \subseteq Fingerprint
  /\ Posts \in Nat
  /\ DbMayFail \in BOOLEAN

VARIABLES post,      \* post[p]: its fingerprint, and how far it got
          outbox,    \* the tasks of the app's executor, in order
          sending,   \* the post the executor's thread waits for an answer to, or 0
          rows,      \* received_notifications: the post that made the row of a fingerprint
          files,     \* the posts whose media file is in received_media
          webhooks,  \* history: the posts handed to the webhook, in order
          patient    \* history: the app waited for every answer

ingestVars == <<post, outbox, sending, rows, files, webhooks, patient>>

(* The posts, in the order Android makes them. *)
Post == 1..Posts

PostPc == {"future",
           "queued",     \* in the app's executor
           "posted",     \* on its way to the server
           "saving",     \* a handler has parsed it
           "inserting",  \* its media is written
           "stored",     \* the INSERT is committed, the re-read comes next
           "webhook",    \* dispatch_webhook comes next
           "duplicate",  \* IntegrityError: the file is removed, the row read
           "created", "duplicated", "failed", "lost"}
Handling == {"saving", "inserting", "stored", "webhook", "duplicate"}
Served == {"created", "duplicated", "failed", "lost"}

IngestTypeOK ==
  /\ post \in [Post -> [pc : PostPc, print : Fingerprint]]
  /\ outbox \in Seq(Post)
  /\ sending \in Post \cup {0}
  /\ rows \in [Fingerprint -> Post \cup {0}]
  /\ files \in SUBSET Post
  /\ webhooks \in Seq(Post)
  /\ patient \in BOOLEAN

IngestInit ==
  /\ post \in [Post -> [pc : {"future"}, print : Fingerprint]]
  /\ outbox = <<>>
  /\ sending = 0
  /\ rows = [f \in Fingerprint |-> 0]
  /\ files = {}
  /\ webhooks = <<>>
  /\ patient = TRUE

server == <<rows, files, webhooks>>
app == <<outbox, sending>>

GoesTo(p, pc) == post' = [post EXCEPT ![p].pc = pc]

-----------------------------------------------------------------------------
(* The app.                                                                 *)

(* onNotificationPosted: the payload is built at once, its forwarding is a  *)
(* task of the executor.                                                    *)
OnNotificationPosted(p) ==
  /\ post[p].pc = "future"
  /\ \A o \in Post : o < p => post[o].pc # "future"
  /\ GoesTo(p, "queued")
  /\ outbox' = Append(outbox, p)
  /\ UNCHANGED <<sending, server, patient>>

(* Mutant: the tasks run on a pool of threads. *)
PostEventPooled ==
  /\ outbox # <<>>
  /\ sending' = Head(outbox)
  /\ outbox' = Tail(outbox)
  /\ GoesTo(Head(outbox), "posted")
  /\ UNCHANGED <<server, patient>>

(* WebhookSender.postEvent, the next task of the single thread. *)
PostEvent ==
  /\ sending = 0
  /\ outbox # <<>>
  /\ sending' = Head(outbox)
  /\ outbox' = Tail(outbox)
  /\ GoesTo(Head(outbox), "posted")
  /\ UNCHANGED <<server, patient>>

(* The answer arrives; whatever it says, the app forgets the post. *)
Answer ==
  /\ sending # 0
  /\ post[sending].pc \in Served
  /\ sending' = 0
  /\ UNCHANGED <<post, outbox, server, patient>>

(* The connection fails before the server has the request. *)
PostIsLost ==
  /\ sending # 0
  /\ post[sending].pc = "posted"
  /\ GoesTo(sending, "lost")
  /\ UNCHANGED <<app, server, patient>>

(* No answer within READ_TIMEOUT_MS: the thread takes the next task while   *)
(* the handler, or the request on its way, goes on.                         *)
AnswerTimesOut ==
  /\ sending # 0
  /\ post[sending].pc \notin Served
  /\ sending' = 0
  /\ patient' = FALSE
  /\ UNCHANGED <<post, outbox, server>>

(* onDestroy: shutdownNow drops the tasks that wait; the next service has   *)
(* an executor of its own, whatever became of the task that was running.    *)
OnDestroy ==
  /\ outbox # <<>> \/ sending # 0
  /\ post' = [p \in Post |->
                IF post[p].pc = "queued" THEN [post[p] EXCEPT !.pc = "lost"] ELSE post[p]]
  /\ outbox' = <<>>
  /\ sending' = 0
  /\ patient' = (patient /\ sending = 0)
  /\ UNCHANGED server

-----------------------------------------------------------------------------
(* The ingest handler, one thread for each request.                         *)

Arrive(p) ==
  /\ post[p].pc = "posted"
  /\ GoesTo(p, "saving")
  /\ UNCHANGED <<app, server, patient>>

(* The API key, the payload or the size of the media is refused: the post   *)
(* is answered with an error before anything is kept of it.                 *)
RejectPost(p) ==
  /\ post[p].pc = "posted"
  /\ GoesTo(p, "lost")
  /\ UNCHANGED <<app, server, patient>>

(* save_media_bytes, under a fresh name; the MIME type is in the            *)
(* fingerprint, so reposts of a notification carry media alike.             *)
SaveMedia(p) ==
  /\ post[p].pc = "saving"
  /\ files' = IF post[p].print \in WithMedia THEN files \cup {p} ELSE files
  /\ GoesTo(p, "inserting")
  /\ UNCHANGED <<app, rows, webhooks, patient>>

(* Mutant: the table has no unique key. *)
IsDuplicateNever(p) == FALSE

(* The unique key on dedup_key refuses a second row. *)
IsDuplicate(p) == rows[post[p].print] # 0

(* The INSERT and its commit; a concurrent INSERT of the same key waits for *)
(* the first to commit.                                                     *)
InsertNotification(p) ==
  /\ post[p].pc = "inserting"
  /\ ~IsDuplicate(p)
  /\ rows' = [rows EXCEPT ![post[p].print] = p]
  /\ GoesTo(p, "stored")
  /\ UNCHANGED <<app, files, webhooks, patient>>

(* IntegrityError: rolled back, the file removed, the first row read. *)
InsertIsDuplicate(p) ==
  /\ post[p].pc = "inserting"
  /\ IsDuplicate(p)
  /\ GoesTo(p, "duplicate")
  /\ UNCHANGED <<app, server, patient>>

(* Mutant: the copy of a duplicate stays. *)
DropDuplicateKeepsFile(p) ==
  /\ post[p].pc = "duplicate"
  /\ GoesTo(p, "duplicated")
  /\ UNCHANGED <<app, server, patient>>

(* Mutant: the file the first row names is removed. *)
DropDuplicateOfRow(p) ==
  /\ post[p].pc = "duplicate"
  /\ files' = files \ {rows[post[p].print]}
  /\ GoesTo(p, "duplicated")
  /\ UNCHANGED <<app, rows, webhooks, patient>>

DropDuplicate(p) ==
  /\ post[p].pc = "duplicate"
  /\ files' = files \ {p}
  /\ GoesTo(p, "duplicated")
  /\ UNCHANGED <<app, rows, webhooks, patient>>

(* Mutant: the handler takes the row it read back for a duplicate. *)
RereadAsDuplicate(p) ==
  /\ post[p].pc = "stored"
  /\ GoesTo(p, "duplicated")
  /\ UNCHANGED <<app, server, patient>>

(* The row is read back; it was created, so the webhook is next. *)
Reread(p) ==
  /\ post[p].pc = "stored"
  /\ GoesTo(p, "webhook")
  /\ UNCHANGED <<app, server, patient>>

(* dispatch_webhook: once, whether or not the receiver takes it. *)
DispatchWebhook(p) ==
  /\ post[p].pc = "webhook"
  /\ webhooks' = Append(webhooks, p)
  /\ GoesTo(p, "created")
  /\ UNCHANGED <<app, rows, files, patient>>

(* A database call raises, another error than IntegrityError: the handler   *)
(* answers 500 and leaves what is on the disk and in the table; that of a   *)
(* duplicate may raise before the file is removed or after.                 *)
HandlerRaises(p) ==
  /\ DbMayFail
  /\ \/ /\ post[p].pc \in {"saving", "inserting", "stored"}
        /\ UNCHANGED <<rows, files>>
     \/ /\ post[p].pc = "inserting"
        /\ ~IsDuplicate(p)
        /\ rows' = [rows EXCEPT ![post[p].print] = p]
        /\ UNCHANGED files
     \/ /\ post[p].pc = "duplicate"
        /\ files' \in {files, files \ {p}}
        /\ UNCHANGED rows
  /\ GoesTo(p, "failed")
  /\ UNCHANGED <<app, webhooks, patient>>

(* The server dies, its handlers with it, and is started again. *)
ServerRestarts ==
  /\ DbMayFail
  /\ \E p \in Post : post[p].pc \in Handling
  /\ post' = [p \in Post |->
                IF post[p].pc \in Handling THEN [post[p] EXCEPT !.pc = "failed"] ELSE post[p]]
  /\ UNCHANGED <<app, server, patient>>

IngestNext ==
  \/ \E p \in Post :
       \/ OnNotificationPosted(p) \/ Arrive(p) \/ RejectPost(p) \/ SaveMedia(p)
       \/ InsertNotification(p) \/ InsertIsDuplicate(p) \/ DropDuplicate(p)
       \/ Reread(p) \/ DispatchWebhook(p) \/ HandlerRaises(p)
  \/ PostEvent \/ Answer \/ PostIsLost \/ AnswerTimesOut \/ OnDestroy
  \/ ServerRestarts

IngestSpec == IngestInit /\ [][IngestNext]_ingestVars

-----------------------------------------------------------------------------
(* Properties.                                                              *)

(* Property: a notification is forwarded to the webhook at most once,       *)
(* however often Android reposts it, and although two handlers may hold the *)
(* same one at a time after a timeout (notifications.py:95-148;             *)
(* WEBHOOKS.md:105-106, "they are not forwarded again").                    *)
ForwardedOnce ==
  \A i, j \in DOMAIN webhooks :
    post[webhooks[i]].print = post[webhooks[j]].print => i = j

(* Property: a row that is stored is forwarded, or its handler is on the    *)
(* way to it, or failed there; no answer "duplicate" and no timeout of the  *)
(* app lose a notification (api.py:588-598; WEBHOOKS.md:104-105, "every     *)
(* newly-ingested notification is immediately forwarded there").            *)
StoredIsForwarded ==
  \A f \in Fingerprint :
    rows[f] # 0 =>
      \/ \E i \in DOMAIN webhooks : webhooks[i] = rows[f]
      \/ post[rows[f]].pc \in {"stored", "webhook", "failed"}

(* Property: the media a stored notification names is on the disk: a        *)
(* duplicate removes its own copy and never the stored one, in whatever     *)
(* order the two handlers run (notifications.py:114, 141-144).              *)
MediaIsServed ==
  \A f \in WithMedia : rows[f] # 0 => rows[f] \in files

(* Property: a media file belongs to a row or to a handler under way, or    *)
(* was left by one that failed (notifications.py:85-92, 141-144).           *)
NoStrayFiles ==
  \A p \in files :
    rows[post[p].print] = p \/ post[p].pc \notin Served \/ post[p].pc = "failed"

(* Property: as long as the app waits for every answer, notifications of a  *)
(* phone reach the webhook in the order Android posted them, lost and       *)
(* failed ones left out: the app forwards on one thread                     *)
(* (NotificationForwarderService.kt:28, 98-104).                            *)
ForwardedInOrder ==
  patient => \A i, j \in DOMAIN webhooks : i < j => webhooks[i] < webhooks[j]
=============================================================================
