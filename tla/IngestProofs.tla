----------------------------- MODULE IngestProofs -----------------------------
(***************************************************************************)
(* Theorems about Ingest, for every number of posts and every set of       *)
(* fingerprints.  QueueInv says what waits in the app, and that posts      *)
(* leave it in order; IngestInv adds what a handler knows at each point of *)
(* its work and what a row says of the post that made it; OrderInv that    *)
(* only one post is under way as long as the app waits for every answer.   *)
(***************************************************************************)
EXTENDS Ingest, TLAPS

(* What waits is queued, in the order of the posts, and behind whatever     *)
(* left the queue.                                                          *)
OutboxOK ==
  /\ \A i \in DOMAIN outbox : post[outbox[i]].pc = "queued"
  /\ \A i, j \in DOMAIN outbox : i < j => outbox[i] < outbox[j]
  /\ \A p, q \in Post : post[p].pc # "future" /\ post[q].pc = "future" => p < q
  /\ \A p \in Post, i \in DOMAIN outbox :
       post[p].pc \notin {"future", "queued"} => p < outbox[i]

QueueInv == IngestTypeOK /\ OutboxOK

(* A handler that has not come to the media has left no file; the media of  *)
(* p is on the disk while its handler may still store it; the handler that  *)
(* stored it is the one the row names.                                      *)
PostFact(p) ==
  /\ post[p].pc \in {"future", "queued", "posted", "saving"} => p \notin files
  /\ post[p].print \in WithMedia /\ post[p].pc = "inserting" => p \in files
  /\ post[p].pc \in {"stored", "webhook", "created"} => rows[post[p].print] = p
  /\ post[p].pc = "created" => \E i \in DOMAIN webhooks : webhooks[i] = p
  /\ p \in files =>
       rows[post[p].print] = p \/ post[p].pc \notin Served \/ post[p].pc = "failed"

RowFact(f) ==
  rows[f] # 0 =>
    /\ post[rows[f]].print = f
    /\ post[rows[f]].pc \in {"stored", "webhook", "created", "failed"}
    /\ f \in WithMedia => rows[f] \in files

WebhooksOK ==
  /\ \A i \in DOMAIN webhooks : post[webhooks[i]].pc = "created"
  /\ \A i, j \in DOMAIN webhooks : webhooks[i] = webhooks[j] => i = j

IngestInv ==
  /\ \A p \in Post : PostFact(p)
  /\ \A f \in Fingerprint : RowFact(f)
  /\ WebhooksOK

(* Only the post the thread waits for is between the app and its answer,    *)
(* and it is the last one that left the queue.                              *)
OrderInv ==
  patient =>
    /\ \A p \in Post : post[p].pc \in Handling \cup {"posted"} => p = sending
    /\ \A p \in Post :
         post[p].pc \notin {"future", "queued"} /\ sending # 0 => p <= sending
    /\ \A i, j \in DOMAIN webhooks : i < j => webhooks[i] < webhooks[j]

-----------------------------------------------------------------------------
(* The queue.                                                               *)

(* Post p goes to pc, and every other post stays where it is. *)
LEMMA GoesToType ==
  ASSUME IngestTypeOK, NEW p \in Post, NEW pc \in PostPc, GoesTo(p, pc)
  PROVE  /\ post' \in [Post -> [pc : PostPc, print : Fingerprint]]
         /\ post'[p].pc = pc
         /\ \A q \in Post : post'[q].print = post[q].print
         /\ \A q \in Post \ {p} : post'[q] = post[q]
BY DEF IngestTypeOK, GoesTo

(* What the end of the service does to a post, and what that of the server. *)
LEMMA DestroyedPost ==
  ASSUME IngestTypeOK, OnDestroy, NEW p \in Post
  PROVE  \/ post'[p] = post[p]
         \/ post[p].pc = "queued" /\ post'[p].pc = "lost" /\ post'[p].print = post[p].print
<1>1. post[p] \in [pc : PostPc, print : Fingerprint]
  BY DEF IngestTypeOK
<1>2. post'[p] = IF post[p].pc = "queued" THEN [post[p] EXCEPT !.pc = "lost"] ELSE post[p]
  BY DEF OnDestroy
<1>3. CASE post[p].pc = "queued"
  BY <1>1, <1>2, <1>3
<1> QED
  BY <1>2, <1>3

LEMMA RestartedPost ==
  ASSUME IngestTypeOK, ServerRestarts, NEW p \in Post
  PROVE  \/ post'[p] = post[p]
         \/ post[p].pc \in Handling /\ post'[p].pc = "failed" /\ post'[p].print = post[p].print
<1>1. post[p] \in [pc : PostPc, print : Fingerprint]
  BY DEF IngestTypeOK
<1>2. post'[p] = IF post[p].pc \in Handling THEN [post[p] EXCEPT !.pc = "failed"] ELSE post[p]
  BY DEF ServerRestarts
<1>3. CASE post[p].pc \in Handling
  BY <1>1, <1>2, <1>3
<1> QED
  BY <1>2, <1>3

LEMMA QueueInitOK ==
  ASSUME IngestInit
  PROVE  QueueInv
<1>1. \A p \in Post : post[p].pc = "future" /\ post[p].print \in Fingerprint
  BY DEF IngestInit
<1>2. IngestTypeOK
  BY <1>1 DEF IngestInit, IngestTypeOK, PostPc
<1>3. OutboxOK
  BY <1>1 DEF IngestInit, OutboxOK
<1> QED
  BY <1>2, <1>3 DEF QueueInv

(* Steps of a handler and of the request on its way: the queue stays, and   *)
(* no post enters or leaves it.                                             *)
OffQueue ==
  /\ outbox' = outbox
  /\ \A p \in Post : \A pc \in {"future", "queued"} : post'[p].pc = pc <=> post[p].pc = pc

LEMMA OffQueueOK ==
  ASSUME QueueInv, OffQueue
  PROVE  OutboxOK'
<1>1. \A i \in DOMAIN outbox : outbox[i] \in Post
  BY DEF QueueInv, IngestTypeOK
<1> QED
  BY <1>1 DEF QueueInv, OutboxOK, OffQueue

(* A handler step: one post of a handler goes on. *)
HandlerStep(p) ==
  \/ Arrive(p) \/ RejectPost(p) \/ SaveMedia(p)
  \/ InsertNotification(p) \/ InsertIsDuplicate(p)
  \/ DropDuplicate(p) \/ Reread(p) \/ DispatchWebhook(p) \/ HandlerRaises(p)

LEMMA HandlerGoesTo ==
  ASSUME QueueInv, NEW p \in Post, HandlerStep(p)
  PROVE  /\ post[p].pc \in Handling \cup {"posted"}
         /\ \E pc \in PostPc \ {"future", "queued", "posted"} : GoesTo(p, pc)
         /\ UNCHANGED <<app, patient>>
BY DEF HandlerStep, Arrive, RejectPost, SaveMedia, InsertNotification, InsertIsDuplicate,
       DropDuplicate, Reread, DispatchWebhook, HandlerRaises, Handling, PostPc, server

LEMMA HandlerTypes ==
  ASSUME IngestTypeOK, NEW p \in Post, HandlerStep(p)
  PROVE  /\ rows' \in [Fingerprint -> Post \cup {0}]
         /\ files' \in SUBSET Post
         /\ webhooks' \in Seq(Post)
<1>1. post[p].print \in Fingerprint
  BY DEF IngestTypeOK
<1>2. rows' = rows \/ rows' = [rows EXCEPT ![post[p].print] = p]
  BY DEF IngestTypeOK, HandlerStep, Arrive, RejectPost, SaveMedia, InsertNotification,
       InsertIsDuplicate, DropDuplicate, Reread, DispatchWebhook, HandlerRaises, server
<1>3. files' \in {files, files \cup {p}, files \ {p}}
  BY DEF IngestTypeOK, HandlerStep, Arrive, RejectPost, SaveMedia, InsertNotification,
       InsertIsDuplicate, DropDuplicate, Reread, DispatchWebhook, HandlerRaises, server
<1>4. webhooks' = webhooks \/ webhooks' = Append(webhooks, p)
  BY DEF IngestTypeOK, HandlerStep, Arrive, RejectPost, SaveMedia, InsertNotification,
       InsertIsDuplicate, DropDuplicate, Reread, DispatchWebhook, HandlerRaises, server
<1>5. rows' \in [Fingerprint -> Post \cup {0}]
  BY <1>1, <1>2 DEF IngestTypeOK
<1>6. files' \in SUBSET Post
  BY <1>3 DEF IngestTypeOK
<1>7. webhooks' \in Seq(Post)
  BY <1>4 DEF IngestTypeOK
<1> QED
  BY <1>5, <1>6, <1>7

LEMMA HandlerQueue ==
  ASSUME QueueInv, NEW p \in Post, HandlerStep(p)
  PROVE  QueueInv'
<1> USE DEF QueueInv
<1>1. PICK pc \in PostPc \ {"future", "queued", "posted"} : GoesTo(p, pc)
  BY HandlerGoesTo
<1>2. post[p].pc \in Handling \cup {"posted"} /\ UNCHANGED <<app, patient>>
  BY HandlerGoesTo
<1>3. /\ post' \in [Post -> [pc : PostPc, print : Fingerprint]]
      /\ post'[p].pc = pc
      /\ \A o \in Post \ {p} : post'[o] = post[o]
  BY <1>1, GoesToType
<1>4. IngestTypeOK'
  BY <1>2, <1>3, HandlerTypes DEF IngestTypeOK, app
<1>5. OffQueue
  BY <1>1, <1>2, <1>3 DEF OffQueue, Handling, app
<1> QED
  BY <1>4, <1>5, OffQueueOK

(* Post p is put at the end of the queue. *)
LEMMA PostedQueue ==
  ASSUME QueueInv, NEW p \in Post, OnNotificationPosted(p)
  PROVE  QueueInv'
<1> USE DEF QueueInv
<1>1. /\ post' \in [Post -> [pc : PostPc, print : Fingerprint]]
      /\ post'[p].pc = "queued"
      /\ \A o \in Post \ {p} : post'[o] = post[o]
  BY GoesToType DEF OnNotificationPosted, PostPc
<1>2. outbox \in Seq(Post) /\ outbox' = Append(outbox, p)
  BY DEF OnNotificationPosted, IngestTypeOK
<1>3. IngestTypeOK'
  BY <1>1, <1>2 DEF OnNotificationPosted, IngestTypeOK, server
<1>4. /\ post[p].pc = "future"
      /\ \A o \in Post : o < p => post[o].pc # "future"
  BY DEF OnNotificationPosted
<1>5. \A i \in DOMAIN outbox : outbox[i] \in Post /\ outbox[i] # p /\ outbox[i] < p
  BY <1>2, <1>4 DEF OutboxOK
<1>6. \A i \in DOMAIN outbox' :
        \/ i \in DOMAIN outbox /\ outbox'[i] = outbox[i]
        \/ i = Len(outbox) + 1 /\ outbox'[i] = p
  BY <1>2
<1>7. \A i \in DOMAIN outbox' : post'[outbox'[i]].pc = "queued"
  BY <1>1, <1>5, <1>6 DEF OutboxOK
<1>8. \A i, j \in DOMAIN outbox' : i < j => outbox'[i] < outbox'[j]
  BY <1>2, <1>5, <1>6 DEF OutboxOK
<1>9. \A o, r \in Post : post'[o].pc # "future" /\ post'[r].pc = "future" => o < r
  BY <1>1, <1>4 DEF OutboxOK, Post
<1>10. \A o \in Post, i \in DOMAIN outbox' :
         post'[o].pc \notin {"future", "queued"} => o < outbox'[i]
  BY <1>1, <1>4, <1>6 DEF OutboxOK
<1>11. OutboxOK'
  BY <1>7, <1>8, <1>9, <1>10 DEF OutboxOK
<1> QED
  BY <1>3, <1>11

(* The first post of the queue leaves it, and is behind none that left.     *)
LEMMA PostEventQueue ==
  ASSUME QueueInv, PostEvent
  PROVE  /\ QueueInv'
         /\ Head(outbox) \in Post
         /\ post[Head(outbox)].pc = "queued"
         /\ \A o \in Post : post[o].pc \notin {"future", "queued"} => o < Head(outbox)
<1> USE DEF QueueInv
<1>1. outbox \in Seq(Post) /\ outbox # <<>> /\ outbox' = Tail(outbox)
  BY DEF PostEvent, IngestTypeOK
<1>2. PICK h \in Post : h = Head(outbox)
  BY <1>1
<1>3. 1 \in DOMAIN outbox /\ outbox[1] = h
  BY <1>1, <1>2
<1>4. post[h].pc = "queued" /\ \A o \in Post : post[o].pc \notin {"future", "queued"} => o < h
  BY <1>3 DEF OutboxOK
<1>5. GoesTo(h, "posted") /\ sending' = h /\ UNCHANGED <<server, patient>>
  BY <1>2 DEF PostEvent
<1>6. /\ post' \in [Post -> [pc : PostPc, print : Fingerprint]]
      /\ post'[h].pc = "posted"
      /\ \A o \in Post \ {h} : post'[o] = post[o]
  BY <1>5, GoesToType DEF PostPc
<1>7. IngestTypeOK'
  BY <1>1, <1>5, <1>6 DEF IngestTypeOK, server
<1>8. \A i \in DOMAIN outbox' :
        i \in Nat /\ i + 1 \in DOMAIN outbox /\ outbox'[i] = outbox[i + 1] /\ 1 < i + 1
  BY <1>1
<1>9. \A i \in DOMAIN outbox' : outbox'[i] \in Post /\ h < outbox'[i]
  BY <1>1, <1>3, <1>8 DEF OutboxOK
<1>10. \A i \in DOMAIN outbox' : post'[outbox'[i]].pc = "queued"
  <2> TAKE i \in DOMAIN outbox'
  <2>1. outbox'[i] # h /\ outbox'[i] \in Post
    BY <1>9, <1>2 DEF Post
  <2> QED
    BY <2>1, <1>6, <1>8 DEF OutboxOK
<1>11. \A i, j \in DOMAIN outbox' : i < j => outbox'[i] < outbox'[j]
  BY <1>8 DEF OutboxOK
<1>12. \A o, r \in Post : post'[o].pc # "future" /\ post'[r].pc = "future" => o < r
  BY <1>4, <1>6 DEF OutboxOK
<1>13. \A o \in Post, i \in DOMAIN outbox' :
         post'[o].pc \notin {"future", "queued"} => o < outbox'[i]
  BY <1>6, <1>8, <1>9 DEF OutboxOK
<1>14. OutboxOK'
  BY <1>10, <1>11, <1>12, <1>13 DEF OutboxOK
<1> QED
  BY <1>2, <1>4, <1>7, <1>14

LEMMA LostQueue ==
  ASSUME QueueInv, PostIsLost
  PROVE  QueueInv'
<1> USE DEF QueueInv
<1>1. PICK p \in Post : p = sending
  BY DEF PostIsLost, IngestTypeOK
<1>2. post[p].pc = "posted" /\ GoesTo(p, "lost") /\ UNCHANGED <<app, server, patient>>
  BY <1>1 DEF PostIsLost
<1>3. /\ post' \in [Post -> [pc : PostPc, print : Fingerprint]]
      /\ post'[p].pc = "lost"
      /\ \A o \in Post \ {p} : post'[o] = post[o]
  BY <1>2, GoesToType DEF PostPc
<1>4. IngestTypeOK' /\ OffQueue
  BY <1>2, <1>3 DEF IngestTypeOK, OffQueue, app, server
<1> QED
  BY <1>4, OffQueueOK

LEMMA AppQueue ==
  ASSUME QueueInv, Answer \/ AnswerTimesOut \/ OnDestroy \/ ServerRestarts
  PROVE  QueueInv'
<1> USE DEF QueueInv
<1>1. CASE Answer \/ AnswerTimesOut
  <2>1. IngestTypeOK' /\ OffQueue
    BY <1>1 DEF Answer, AnswerTimesOut, IngestTypeOK, OffQueue, server
  <2> QED
    BY <2>1, OffQueueOK
<1>2. CASE OnDestroy
  <2>1. post' \in [Post -> [pc : PostPc, print : Fingerprint]]
    BY <1>2 DEF OnDestroy, IngestTypeOK, PostPc
  <2>2. IngestTypeOK'
    BY <1>2, <2>1 DEF OnDestroy, IngestTypeOK, server
  <2>3. \A o \in Post : post'[o].pc = "future" <=> post[o].pc = "future"
    BY <1>2 DEF OnDestroy, IngestTypeOK
  <2>4. OutboxOK'
    BY <1>2, <2>3 DEF OnDestroy, OutboxOK
  <2> QED
    BY <2>2, <2>4
<1>3. CASE ServerRestarts
  <2>1. post' \in [Post -> [pc : PostPc, print : Fingerprint]]
    BY <1>3 DEF ServerRestarts, IngestTypeOK, PostPc
  <2>2. IngestTypeOK'
    BY <1>3, <2>1 DEF ServerRestarts, IngestTypeOK, server, app
  <2>3. OffQueue
    BY <1>3 DEF ServerRestarts, IngestTypeOK, OffQueue, Handling, app
  <2> QED
    BY <2>2, <2>3, OffQueueOK
<1> QED
  BY <1>1, <1>2, <1>3

LEMMA QueueStepOK ==
  ASSUME QueueInv, [IngestNext]_ingestVars
  PROVE  QueueInv'
<1>1. CASE UNCHANGED ingestVars
  BY <1>1 DEF ingestVars, QueueInv, IngestTypeOK, OutboxOK
<1>2. ASSUME NEW p \in Post, OnNotificationPosted(p) \/ HandlerStep(p)
      PROVE  QueueInv'
  BY <1>2, PostedQueue, HandlerQueue
<1>3. CASE PostEvent \/ PostIsLost
  BY <1>3, PostEventQueue, LostQueue
<1>4. CASE Answer \/ AnswerTimesOut \/ OnDestroy \/ ServerRestarts
  BY <1>4, AppQueue
<1> QED
  BY <1>1, <1>2, <1>3, <1>4 DEF IngestNext, HandlerStep

-----------------------------------------------------------------------------
(* The server.                                                              *)

LEMMA IngestInitOK ==
  ASSUME IngestInit
  PROVE  IngestInv
<1>1. \A p \in Post : post[p].pc = "future"
  BY DEF IngestInit
<1>2. \A p \in Post : PostFact(p)
  BY <1>1 DEF IngestInit, PostFact
<1>3. (\A f \in Fingerprint : RowFact(f)) /\ WebhooksOK
  BY DEF IngestInit, RowFact, WebhooksOK
<1> QED
  BY <1>2, <1>3 DEF IngestInv

(* Steps of the app, and steps of handlers that neither store a row nor     *)
(* reach the webhook: rows and webhooks stay, and no post is newly where    *)
(* something is known of it.                                                *)
QuietPost(p) ==
  /\ post'[p].print = post[p].print
  /\ \/ post'[p].pc = post[p].pc /\ (p \in files' <=> p \in files)
     \/ /\ post[p].pc \in {"future", "queued", "posted", "saving", "inserting", "duplicate"}
        /\ post'[p].pc \notin {"stored", "webhook", "created"}
        /\ post'[p].pc \in {"queued", "posted", "saving"} => p \notin files'
        /\ post'[p].pc # "future"
        /\ post'[p].pc = "inserting" /\ post[p].print \in WithMedia => p \in files'
        /\ p \in files' => post'[p].pc \notin Served \/ post'[p].pc = "failed"
     \/ /\ post[p].pc = "stored" /\ post'[p].pc \in {"webhook", "failed"}
        /\ p \in files' <=> p \in files
     \/ /\ post[p].pc = "webhook" /\ post'[p].pc = "failed"
        /\ p \in files' <=> p \in files

QuietStep == UNCHANGED <<rows, webhooks>> /\ \A p \in Post : QuietPost(p)

LEMMA QuietStepOK ==
  ASSUME QueueInv, IngestInv, QuietStep
  PROVE  IngestInv'
<1>1. ASSUME NEW p \in Post
      PROVE  PostFact(p)'
  <2>1. PostFact(p) /\ RowFact(post[p].print) /\ QuietPost(p)
    BY DEF IngestInv, QueueInv, IngestTypeOK, QuietStep
  <2> QED
    BY <2>1 DEF PostFact, RowFact, QuietStep, QuietPost, Served
<1>2. ASSUME NEW f \in Fingerprint
      PROVE  RowFact(f)'
  <2>1. RowFact(f) /\ (rows[f] # 0 => rows[f] \in Post)
    BY DEF IngestInv, QueueInv, IngestTypeOK
  <2> QED
    BY <2>1 DEF RowFact, QuietStep, QuietPost
<1>3. WebhooksOK'
  <2>1. ASSUME NEW i \in DOMAIN webhooks
        PROVE  post'[webhooks[i]].pc = "created"
    <3>1. webhooks[i] \in Post /\ post[webhooks[i]].pc = "created"
      BY <2>1 DEF IngestInv, QueueInv, IngestTypeOK, WebhooksOK
    <3> QED
      BY <3>1 DEF QuietStep, QuietPost
  <2> QED
    BY <2>1 DEF IngestInv, WebhooksOK, QuietStep
<1> QED
  BY <1>1, <1>2, <1>3 DEF IngestInv

(* An INSERT of p: the row of its fingerprint names it, and p goes on or    *)
(* its handler fails.                                                       *)
StoreStep(p) ==
  /\ post[p].pc = "inserting"
  /\ rows[post[p].print] = 0
  /\ rows' = [rows EXCEPT ![post[p].print] = p]
  /\ \E pc \in {"stored", "failed"} : GoesTo(p, pc)
  /\ UNCHANGED <<files, webhooks>>

LEMMA StoreStepOK ==
  ASSUME QueueInv, IngestInv, NEW p \in Post, StoreStep(p)
  PROVE  IngestInv'
<1> USE DEF QueueInv
<1>1. PICK pc \in {"stored", "failed"} : GoesTo(p, pc)
  BY DEF StoreStep
<1>2. /\ post'[p].pc = pc
      /\ \A o \in Post : post'[o].print = post[o].print
      /\ \A o \in Post \ {p} : post'[o] = post[o]
  BY <1>1, GoesToType DEF PostPc
<1>3. PICK f \in Fingerprint : f = post[p].print
  BY DEF IngestTypeOK
<1>4. /\ post[p].pc = "inserting" /\ rows[f] = 0
      /\ rows' = [rows EXCEPT ![f] = p]
      /\ UNCHANGED <<files, webhooks>>
  BY <1>3 DEF StoreStep
<1>5. rows \in [Fingerprint -> Post \cup {0}] /\ rows'[f] = p
      /\ \A e \in Fingerprint \ {f} : rows'[e] = rows[e]
  BY <1>4 DEF IngestTypeOK
<1>6. ASSUME NEW o \in Post \ {p}
      PROVE  PostFact(o)'
  <2>1. PostFact(o) /\ post[o].print \in Fingerprint /\ o # 0
    BY DEF IngestInv, IngestTypeOK, Post
  <2>2. post'[o] = post[o] /\ (rows[post[o].print] = o => rows'[post[o].print] = o)
    BY <1>2, <1>4, <1>5, <2>1
  <2> QED
    BY <1>4, <2>1, <2>2 DEF PostFact
<1>7. PostFact(p)'
  BY <1>2, <1>3, <1>5 DEF PostFact
<1>8. ASSUME NEW e \in Fingerprint
      PROVE  RowFact(e)'
  <2>1. RowFact(e) /\ PostFact(p)
    BY DEF IngestInv
  <2>2. CASE e = f
    BY <1>2, <1>3, <1>4, <1>5, <2>1, <2>2 DEF RowFact, PostFact
  <2>3. CASE e # f
    <3>1. rows'[e] = rows[e] /\ (rows[e] # 0 => rows[e] \in Post)
      BY <1>5, <2>3
    <3>2. rows[e] # 0 => rows[e] # p
      BY <1>4, <2>1 DEF RowFact
    <3> QED
      BY <1>2, <1>4, <2>1, <3>1, <3>2 DEF RowFact
  <2> QED
    BY <2>2, <2>3
<1>9. WebhooksOK'
  <2>1. ASSUME NEW i \in DOMAIN webhooks
        PROVE  post'[webhooks[i]].pc = "created"
    <3>1. webhooks[i] \in Post /\ post[webhooks[i]].pc = "created"
      BY <2>1 DEF IngestInv, IngestTypeOK, WebhooksOK
    <3> QED
      BY <1>2, <1>4, <3>1
  <2> QED
    BY <1>4, <2>1 DEF IngestInv, WebhooksOK
<1> QED
  BY <1>6, <1>7, <1>8, <1>9 DEF IngestInv

(* A webhook is posted for p, which was not posted before.                  *)
LEMMA DispatchOK ==
  ASSUME QueueInv, IngestInv, NEW p \in Post, DispatchWebhook(p)
  PROVE  IngestInv'
<1> USE DEF QueueInv
<1>1. /\ post'[p].pc = "created"
      /\ \A o \in Post : post'[o].print = post[o].print
      /\ \A o \in Post \ {p} : post'[o] = post[o]
  BY GoesToType DEF DispatchWebhook, PostPc
<1>2. post[p].pc = "webhook" /\ UNCHANGED <<rows, files>>
  BY DEF DispatchWebhook
<1>3. webhooks \in Seq(Post) /\ webhooks' = Append(webhooks, p)
  BY DEF DispatchWebhook, IngestTypeOK
<1>4. /\ \A i \in DOMAIN webhooks : i \in DOMAIN webhooks' /\ webhooks'[i] = webhooks[i]
      /\ Len(webhooks) + 1 \in DOMAIN webhooks' /\ webhooks'[Len(webhooks) + 1] = p
      /\ \A i \in DOMAIN webhooks' : i \in DOMAIN webhooks \/ i = Len(webhooks) + 1
  BY <1>3
<1>5. ASSUME NEW o \in Post
      PROVE  PostFact(o)'
  <2>1. PostFact(o)
    BY DEF IngestInv
  <2>2. CASE o = p
    BY <1>1, <1>2, <1>4, <2>1, <2>2 DEF PostFact
  <2>3. CASE o # p
    BY <1>1, <1>2, <1>4, <2>1, <2>3 DEF PostFact
  <2> QED
    BY <2>2, <2>3
<1>6. ASSUME NEW f \in Fingerprint
      PROVE  RowFact(f)'
  <2>1. RowFact(f) /\ (rows[f] # 0 => rows[f] \in Post)
    BY DEF IngestInv, IngestTypeOK
  <2> QED
    BY <1>1, <1>2, <2>1 DEF RowFact
<1>7. \A i \in DOMAIN webhooks :
        webhooks[i] \in Post /\ webhooks[i] # p /\ post'[webhooks[i]].pc = "created"
  BY <1>1, <1>2, <1>3 DEF IngestInv, WebhooksOK
<1>8. WebhooksOK'
  BY <1>1, <1>4, <1>7 DEF IngestInv, WebhooksOK
<1> QED
  BY <1>5, <1>6, <1>8 DEF IngestInv

(* The other steps of a handler. *)
LEMMA HandlerQuiet ==
  ASSUME QueueInv, IngestInv, NEW p \in Post, HandlerStep(p), ~DispatchWebhook(p)
  PROVE  StoreStep(p) \/ QuietStep
<1> USE DEF QueueInv
<1>1. PICK pc \in PostPc \ {"future", "queued", "posted"} : GoesTo(p, pc)
  BY HandlerGoesTo
<1>2. /\ post'[p].pc = pc
      /\ \A o \in Post : post'[o].print = post[o].print
      /\ \A o \in Post \ {p} : post'[o] = post[o]
  BY <1>1, GoesToType
<1>3. p \in Post /\ PostFact(p)
  BY DEF IngestInv
<1>4. CASE Arrive(p) \/ RejectPost(p) \/ InsertIsDuplicate(p) \/ Reread(p)
  <2>1. UNCHANGED <<rows, files, webhooks>>
    BY <1>4 DEF Arrive, RejectPost, InsertIsDuplicate, Reread, server
  <2>2. \/ post[p].pc = "posted" /\ post'[p].pc = "saving"
        \/ post[p].pc = "posted" /\ post'[p].pc = "lost"
        \/ post[p].pc = "inserting" /\ post'[p].pc = "duplicate"
        \/ post[p].pc = "stored" /\ post'[p].pc = "webhook"
    BY <1>4, GoesToType DEF Arrive, RejectPost, InsertIsDuplicate, Reread, PostPc
  <2> QED
    BY <1>2, <1>3, <2>1, <2>2 DEF QuietStep, QuietPost, PostFact, Served
<1>5. CASE SaveMedia(p)
  <2>1. /\ post[p].pc = "saving" /\ post'[p].pc = "inserting"
        /\ files' = IF post[p].print \in WithMedia THEN files \cup {p} ELSE files
        /\ UNCHANGED <<rows, webhooks>>
    BY <1>5, GoesToType DEF SaveMedia, PostPc
  <2> QED
    BY <1>2, <2>1 DEF QuietStep, QuietPost, Served
<1>6. CASE DropDuplicate(p)
  <2>1. /\ post[p].pc = "duplicate" /\ post'[p].pc = "duplicated"
        /\ files' = files \ {p}
        /\ UNCHANGED <<rows, webhooks>>
    BY <1>6, GoesToType DEF DropDuplicate, PostPc
  <2> QED
    BY <1>2, <2>1 DEF QuietStep, QuietPost
<1>7. CASE InsertNotification(p)
  BY <1>7 DEF InsertNotification, IsDuplicate, StoreStep
<1>8. CASE HandlerRaises(p)
  <2>1. post'[p].pc = "failed" /\ UNCHANGED webhooks /\ GoesTo(p, "failed")
    BY <1>8, GoesToType DEF HandlerRaises, PostPc
  <2>2. CASE post[p].pc \in {"saving", "inserting", "stored"} /\ UNCHANGED <<rows, files>>
    BY <1>2, <2>1, <2>2 DEF QuietStep, QuietPost
  <2>3. CASE post[p].pc = "duplicate" /\ files' \in {files, files \ {p}} /\ UNCHANGED rows
    BY <1>2, <2>1, <2>3 DEF QuietStep, QuietPost
  <2>4. CASE /\ post[p].pc = "inserting" /\ ~IsDuplicate(p)
             /\ rows' = [rows EXCEPT ![post[p].print] = p] /\ UNCHANGED files
    BY <2>1, <2>4 DEF StoreStep, IsDuplicate
  <2> QED
    BY <1>8, <2>2, <2>3, <2>4 DEF HandlerRaises
<1> QED
  BY <1>4, <1>5, <1>6, <1>7, <1>8 DEF HandlerStep

LEMMA AppQuiet ==
  ASSUME QueueInv, IngestInv,
         \/ \E p \in Post : OnNotificationPosted(p)
         \/ PostEvent \/ Answer \/ PostIsLost \/ AnswerTimesOut \/ OnDestroy \/ ServerRestarts
  PROVE  QuietStep
<1> USE DEF QueueInv
<1>1. UNCHANGED <<rows, files, webhooks>>
  BY DEF OnNotificationPosted, PostEvent, Answer, PostIsLost, AnswerTimesOut, OnDestroy,
         ServerRestarts, server
<1>2. ASSUME NEW p \in Post, NEW pc \in PostPc, GoesTo(p, pc),
             post[p].pc \in {"future", "queued", "posted"}, pc \in {"queued", "posted", "lost"}
      PROVE  QuietStep
  <2>1. /\ post'[p].pc = pc
        /\ \A o \in Post : post'[o].print = post[o].print
        /\ \A o \in Post \ {p} : post'[o] = post[o]
    BY <1>2, GoesToType
  <2>2. p \notin files
    BY <1>2 DEF IngestInv, PostFact
  <2> QED
    BY <1>1, <1>2, <2>1, <2>2 DEF QuietStep, QuietPost
<1>3. CASE \E p \in Post : OnNotificationPosted(p)
  BY <1>2, <1>3 DEF OnNotificationPosted, PostPc
<1>4. CASE PostEvent
  BY <1>2, <1>4, PostEventQueue DEF PostEvent, PostPc
<1>5. CASE PostIsLost
  BY <1>2, <1>5 DEF PostIsLost, PostPc, IngestTypeOK
<1>6. CASE Answer \/ AnswerTimesOut
  BY <1>1, <1>6 DEF Answer, AnswerTimesOut, QuietStep, QuietPost
<1>7. CASE OnDestroy
  <2>1. ASSUME NEW p \in Post
        PROVE  QuietPost(p)
    <3>1. PostFact(p)
      BY DEF IngestInv
    <3> QED
      BY <1>1, <1>7, <3>1, DestroyedPost DEF QuietPost, PostFact
  <2> QED
    BY <1>1, <2>1 DEF QuietStep
<1>8. CASE ServerRestarts
  <2>1. ASSUME NEW p \in Post
        PROVE  QuietPost(p)
    BY <1>1, <1>8, RestartedPost DEF QuietPost, Handling
  <2> QED
    BY <1>1, <2>1 DEF QuietStep
<1> QED
  BY <1>3, <1>4, <1>5, <1>6, <1>7, <1>8

LEMMA IngestStepOK ==
  ASSUME QueueInv, IngestInv, [IngestNext]_ingestVars
  PROVE  IngestInv'
<1>1. CASE UNCHANGED ingestVars
  BY <1>1 DEF ingestVars, IngestInv, PostFact, RowFact, WebhooksOK
<1>2. ASSUME NEW p \in Post, HandlerStep(p)
      PROVE  IngestInv'
  BY <1>2, DispatchOK, HandlerQuiet, StoreStepOK, QuietStepOK
<1>3. CASE \/ \E p \in Post : OnNotificationPosted(p)
           \/ PostEvent \/ Answer \/ PostIsLost \/ AnswerTimesOut \/ OnDestroy
           \/ ServerRestarts
  BY <1>3, AppQuiet, QuietStepOK
<1> QED
  BY <1>1, <1>2, <1>3 DEF IngestNext, HandlerStep

-----------------------------------------------------------------------------
(* The order of the webhooks.                                               *)

LEMMA OrderInitOK ==
  ASSUME IngestInit
  PROVE  OrderInv
BY DEF IngestInit, OrderInv, Handling

(* The webhooks stay, no post but one that waited at the server's door      *)
(* enters a handler, and the thread waits as before.                        *)
OrderQuiet ==
  /\ UNCHANGED <<patient, webhooks>>
  /\ \A p \in Post :
       /\ post'[p].pc \in Handling \cup {"posted"} =>
            post[p].pc \in Handling \cup {"posted"} /\ (patient /\ p = sending => p = sending')
       /\ post'[p].pc \notin {"future", "queued"} /\ sending' # 0 =>
            post[p].pc \notin {"future", "queued"} /\ sending' = sending

LEMMA OrderQuietOK ==
  ASSUME OrderInv, OrderQuiet
  PROVE  OrderInv'
BY DEF OrderInv, OrderQuiet

LEMMA OrderStepOK ==
  ASSUME QueueInv, IngestInv, OrderInv, [IngestNext]_ingestVars
  PROVE  OrderInv'
<1> USE DEF QueueInv
<1>1. CASE UNCHANGED ingestVars
  BY <1>1 DEF ingestVars, OrderInv
<1>2. ASSUME NEW p \in Post, DispatchWebhook(p)
      PROVE  OrderInv'
  <2>1. /\ post'[p].pc = "created"
        /\ \A o \in Post \ {p} : post'[o] = post[o]
        /\ post[p].pc = "webhook" /\ UNCHANGED <<sending, patient>>
    BY <1>2, GoesToType DEF DispatchWebhook, PostPc, app
  <2>2. webhooks \in Seq(Post) /\ webhooks' = Append(webhooks, p)
    BY <1>2 DEF DispatchWebhook, IngestTypeOK
  <2>3. \A i \in DOMAIN webhooks : webhooks[i] \in Post /\ post[webhooks[i]].pc = "created"
    BY <2>2 DEF IngestInv, WebhooksOK
  <2>4. ASSUME patient
        PROVE  \A i \in DOMAIN webhooks : webhooks[i] < p
    <3>1. p = sending /\ sending # 0
      BY <2>1, <2>4 DEF OrderInv, Handling, Post
    <3> QED
      BY <2>1, <2>3, <2>4, <3>1 DEF OrderInv, Post
  <2>5. ASSUME patient
        PROVE  \A i, j \in DOMAIN webhooks' : i < j => webhooks'[i] < webhooks'[j]
    <3>1. \A i \in DOMAIN webhooks' :
            \/ i \in DOMAIN webhooks /\ webhooks'[i] = webhooks[i]
            \/ i = Len(webhooks) + 1 /\ webhooks'[i] = p
      BY <2>2
    <3> QED
      BY <2>2, <2>4, <2>5, <3>1 DEF OrderInv
  <2>6. ASSUME patient
        PROVE  \A o \in Post : post'[o].pc \in Handling \cup {"posted"} => o = sending
    BY <2>1, <2>6 DEF OrderInv, Handling
  <2>7. ASSUME patient
        PROVE  \A o \in Post :
                 post'[o].pc \notin {"future", "queued"} /\ sending # 0 => o <= sending
    BY <2>1, <2>7 DEF OrderInv
  <2> QED
    BY <2>1, <2>5, <2>6, <2>7 DEF OrderInv
<1>3. ASSUME NEW p \in Post, HandlerStep(p), ~DispatchWebhook(p)
      PROVE  OrderInv'
  <2>1. PICK pc \in PostPc \ {"future", "queued", "posted"} : GoesTo(p, pc)
    BY <1>3, HandlerGoesTo
  <2>2. post[p].pc \in Handling \cup {"posted"} /\ UNCHANGED <<app, patient>>
    BY <1>3, HandlerGoesTo
  <2>3. post'[p].pc = pc /\ \A o \in Post \ {p} : post'[o] = post[o]
    BY <2>1, GoesToType
  <2>4. UNCHANGED webhooks
    BY <1>3 DEF HandlerStep, Arrive, RejectPost, SaveMedia, InsertNotification, InsertIsDuplicate,
                DropDuplicate, Reread, HandlerRaises, server
  <2>5. OrderQuiet
    BY <2>2, <2>3, <2>4 DEF OrderQuiet, Handling, app
  <2> QED
    BY <2>5, OrderQuietOK
<1>4. ASSUME NEW p \in Post, OnNotificationPosted(p)
      PROVE  OrderInv'
  <2>1. post'[p].pc = "queued" /\ \A o \in Post \ {p} : post'[o] = post[o]
    BY <1>4, GoesToType DEF OnNotificationPosted, PostPc
  <2>2. UNCHANGED <<sending, webhooks, patient>>
    BY <1>4 DEF OnNotificationPosted, server
  <2>3. OrderQuiet
    BY <2>1, <2>2 DEF OrderQuiet, Handling
  <2> QED
    BY <2>3, OrderQuietOK
<1>5. CASE PostEvent
  <2>1. PICK h \in Post : h = Head(outbox)
    BY <1>5, PostEventQueue
  <2>2. /\ post[h].pc = "queued" /\ sending = 0 /\ sending' = h
        /\ GoesTo(h, "posted") /\ UNCHANGED <<webhooks, patient>>
        /\ \A o \in Post : post[o].pc \notin {"future", "queued"} => o < h
    BY <1>5, <2>1, PostEventQueue DEF PostEvent, server
  <2>3. post'[h].pc = "posted" /\ \A o \in Post \ {h} : post'[o] = post[o]
    BY <2>2, GoesToType DEF PostPc
  <2>4. ASSUME patient
        PROVE  \A o \in Post : post'[o].pc \in Handling \cup {"posted"} => o = h
    BY <2>2, <2>3, <2>4 DEF OrderInv, Post
  <2>5. \A o \in Post : post'[o].pc \notin {"future", "queued"} => o <= h
    BY <2>2, <2>3 DEF Post
  <2> QED
    BY <2>2, <2>4, <2>5 DEF OrderInv
<1>6. CASE PostIsLost
  <2>1. PICK p \in Post : p = sending
    BY <1>6 DEF PostIsLost, IngestTypeOK
  <2>2. /\ post[p].pc = "posted" /\ post'[p].pc = "lost"
        /\ \A o \in Post \ {p} : post'[o] = post[o]
    BY <1>6, <2>1, GoesToType DEF PostIsLost, PostPc
  <2>3. OrderQuiet
    BY <1>6, <2>2 DEF PostIsLost, OrderQuiet, Handling, app, server
  <2> QED
    BY <2>3, OrderQuietOK
<1>7. CASE Answer
  BY <1>7 DEF Answer, OrderInv, Served, Handling, server
<1>8. CASE AnswerTimesOut
  BY <1>8 DEF AnswerTimesOut, OrderInv
<1>9. CASE OnDestroy
  <2>1. \A o \in Post : post'[o] = post[o] \/ (post[o].pc = "queued" /\ post'[o].pc = "lost")
    BY <1>9, DestroyedPost
  <2>2. sending' = 0 /\ patient' = (patient /\ sending = 0) /\ UNCHANGED webhooks
    BY <1>9 DEF OnDestroy, server
  <2> QED
    BY <2>1, <2>2 DEF OrderInv, Handling
<1>10. CASE ServerRestarts
  <2>1. \A o \in Post :
          post'[o] = post[o] \/ (post[o].pc \in Handling /\ post'[o].pc = "failed")
    BY <1>10, RestartedPost
  <2>2. OrderQuiet
    BY <1>10, <2>1 DEF ServerRestarts, OrderQuiet, Handling, app, server
  <2> QED
    BY <2>2, OrderQuietOK
<1> QED
  BY <1>1, <1>2, <1>3, <1>4, <1>5, <1>6, <1>7, <1>8, <1>9, <1>10 DEF IngestNext, HandlerStep

-----------------------------------------------------------------------------
(* The theorems.                                                            *)

(* Theorem: what waits in the app's executor is queued and in order, and    *)
(* every variable keeps its type, whatever times out or dies.               *)
THEOREM IngestQueueInvariant ==
  IngestSpec => []QueueInv
<1> QED
  BY QueueInitOK, QueueStepOK, PTL DEF IngestSpec

(* Theorem: the inductive invariant of posts, rows, files and webhooks      *)
(* (api.py:576-611, notifications.py:95-160).                               *)
THEOREM IngestInvariant ==
  IngestSpec => []IngestInv
<1> QED
  BY IngestQueueInvariant, IngestInitOK, IngestStepOK, PTL DEF IngestSpec

(* Theorem: while the app waits for every answer, one post at a time is     *)
(* under way.                                                               *)
THEOREM IngestOrderInvariant ==
  IngestSpec => []OrderInv
<1> QED
  BY IngestQueueInvariant, IngestInvariant, OrderInitOK, OrderStepOK, PTL DEF IngestSpec

(* Theorem: every variable keeps its type, for every number of posts.       *)
THEOREM IngestTypes ==
  IngestSpec => []IngestTypeOK
<1>1. QueueInv => IngestTypeOK
  BY DEF QueueInv
<1> QED
  BY <1>1, IngestQueueInvariant, PTL

(* Theorem: a notification reaches the webhook at most once: two webhooks   *)
(* with one fingerprint are of the one post its row names                   *)
(* (notifications.py:95-148, 193-203).                                      *)
THEOREM NotificationsAreForwardedOnce ==
  IngestSpec => []ForwardedOnce
<1>1. QueueInv /\ IngestInv => ForwardedOnce
  <2> SUFFICES ASSUME QueueInv, IngestInv, NEW i \in DOMAIN webhooks,
                      NEW j \in DOMAIN webhooks,
                      post[webhooks[i]].print = post[webhooks[j]].print
               PROVE  i = j
    BY DEF ForwardedOnce
  <2>1. webhooks[i] \in Post /\ webhooks[j] \in Post
    BY DEF QueueInv, IngestTypeOK
  <2>2. \A k \in {i, j} : rows[post[webhooks[k]].print] = webhooks[k]
    BY <2>1 DEF IngestInv, WebhooksOK, PostFact
  <2> QED
    BY <2>2 DEF IngestInv, WebhooksOK
<1> QED
  BY <1>1, IngestQueueInvariant, IngestInvariant, PTL

(* Theorem: a stored notification was forwarded, or its handler is on the   *)
(* way there or failed (api.py:588-598).                                    *)
THEOREM StoredNotificationsAreForwarded ==
  IngestSpec => []StoredIsForwarded
<1>1. QueueInv /\ IngestInv => StoredIsForwarded
  <2> SUFFICES ASSUME QueueInv, IngestInv, NEW f \in Fingerprint, rows[f] # 0
               PROVE  \/ \E i \in DOMAIN webhooks : webhooks[i] = rows[f]
                      \/ post[rows[f]].pc \in {"stored", "webhook", "failed"}
    BY DEF StoredIsForwarded
  <2>1. rows[f] \in Post
    BY DEF QueueInv, IngestTypeOK
  <2>2. RowFact(f) /\ PostFact(rows[f])
    BY <2>1 DEF IngestInv
  <2> QED
    BY <2>2 DEF RowFact, PostFact
<1> QED
  BY <1>1, IngestQueueInvariant, IngestInvariant, PTL

(* Theorem: the media of a stored notification is on the disk               *)
(* (notifications.py:114, 141-144).                                         *)
THEOREM StoredMediaIsServed ==
  IngestSpec => []MediaIsServed
<1>1. QueueInv /\ IngestInv => MediaIsServed
  BY IngestAssumption DEF IngestInv, RowFact, MediaIsServed
<1> QED
  BY <1>1, IngestQueueInvariant, IngestInvariant, PTL

(* Theorem: a media file belongs to a row, to a handler under way or to one *)
(* that failed (notifications.py:85-92, 141-144).                           *)
THEOREM MediaFilesAreOwned ==
  IngestSpec => []NoStrayFiles
<1>1. QueueInv /\ IngestInv => NoStrayFiles
  BY DEF IngestInv, QueueInv, IngestTypeOK, PostFact, NoStrayFiles
<1> QED
  BY <1>1, IngestQueueInvariant, IngestInvariant, PTL

(* Theorem: an app that waits for every answer has its notifications        *)
(* forwarded in the order of the posts                                      *)
(* (NotificationForwarderService.kt:28, 98-104).                            *)
THEOREM NotificationsKeepTheirOrder ==
  IngestSpec => []ForwardedInOrder
<1>1. OrderInv => ForwardedInOrder
  BY DEF OrderInv, ForwardedInOrder
<1> QED
  BY <1>1, IngestOrderInvariant, PTL
=============================================================================
