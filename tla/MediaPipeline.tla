--------------------------- MODULE MediaPipeline ---------------------------
(***************************************************************************)
(* The life of an attachment: the upload endpoints (api/uploads.py), the   *)
(* rows of `attachments` (db/repository.py), the object storage, the Redis *)
(* list `media:processing`, and the thumbnail workers                      *)
(* (media_processing/worker.py, process.py, queue.py).                     *)
(*                                                                         *)
(* One action is one step between two awaits that touch shared state: a    *)
(* SELECT, a committed UPDATE, a storage access or a Redis command.  What  *)
(* an SQLAlchemy session loaded is kept in the request or worker record,   *)
(* because a session returns the object it already holds when the row is   *)
(* selected again, and its UPDATE names only attributes whose value        *)
(* differs from the loaded one.                                            *)
(***************************************************************************)
EXTENDS Naturals, Sequences, FiniteSets

CONSTANTS Images,       \* attachments whose content_type starts with image/
          Videos,       \* attachments whose content_type starts with video/
          Requests,     \* slots for concurrent POST /uploads/{id}/complete
          Posters,      \* slots for concurrent POST /posts
          Workers,      \* processes running app.media_processing
          CrashProne,   \* the workers that may die in this instance
          NumRetries,   \* len(RETRY_DELAYS); 3 in the code
          MaxQueue,     \* bound: jobs queued or about to be queued
          None          \* no attachment

Attachments == Images \cup Videos

ASSUME RetriesAssumption == NumRetries \in Nat
ASSUME KindsAssumption == Images \cap Videos = {}
ASSUME NoneAssumption == None \notin Attachments
ASSUME CrashAssumption == CrashProne \subseteq Workers

VARIABLES
  status,     \* attachments.status, "none" before the row exists
  thumbKey,   \* attachments.thumbnail_key IS NOT NULL
  object,     \* the original in storage: absent, or what it holds
  thumbObj,   \* the object <storage_key>.thumb is in storage
  queue,      \* media:processing, the next job to pop at its head
  dlq,        \* attachments named by an entry of media:processing:dlq
  posted,     \* attachments some post links (post_attachments)
  req,        \* per slot: where the complete handler is, and what it loaded
  ps,         \* per slot: where create_post is, and the attachment it checked
  wk,         \* per worker: where the loop is, and what it loaded
  lost        \* history: attachments whose job died with the worker that held
              \* it, and for which none was queued since

rows == <<status, thumbKey, posted>>
storage == <<object, thumbObj>>
vars == <<status, thumbKey, object, thumbObj, queue, dlq, posted, req, ps, wk, lost>>

Statuses == {"none", "pending", "processing", "ready", "failed"}
Contents == {"empty", "corrupt", "good"}
ReqPcs == {"idle", "loaded", "verified", "marked"}
InAttempt == {"start", "loaded", "marked", "made", "stored"}
WkPcs == InAttempt \cup {"idle", "down", "dlq", "fail", "failing"}

IdleReq == [pc |-> "idle", att |-> None, status |-> "none", thumb |-> FALSE]
IdlePost == [pc |-> "idle", att |-> None]
IdleWk == [pc |-> "idle", att |-> None, attempt |-> 0, status |-> "none"]
DownWk == [IdleWk EXCEPT !.pc = "down"]

Jobs == {queue[i] : i \in 1..Len(queue)}
Busy == {r \in Requests : req[r].pc # "idle"}

Init ==
  /\ status = [a \in Attachments |-> "none"]
  /\ thumbKey = [a \in Attachments |-> FALSE]
  /\ object = [a \in Attachments |-> "absent"]
  /\ thumbObj = [a \in Attachments |-> FALSE]
  /\ queue = <<>>
  /\ dlq = {}
  /\ posted = {}
  /\ req = [r \in Requests |-> IdleReq]
  /\ ps = [k \in Posters |-> IdlePost]
  /\ wk = [w \in Workers |-> IdleWk]
  /\ lost = {}
-----------------------------------------------------------------------------
(* The client's side of an upload. *)

\* POST /uploads: a new row, pending, and a URL the client may PUT to.
RequestUpload(a) ==
  /\ status[a] = "none"
  /\ status' = [status EXCEPT ![a] = "pending"]
  /\ UNCHANGED <<thumbKey, posted, storage, queue, dlq, req, ps, wk, lost>>

\* PUT to the signed URL.  The URL stays valid for 900 s whatever happens to
\* the row, so the object may be written again after it was completed.
PutObject(a, content) ==
  /\ status[a] # "none"
  /\ object' = [object EXCEPT ![a] = content]
  /\ UNCHANGED <<rows, thumbObj, queue, dlq, req, ps, wk, lost>>

(* POST /posts, for one of the attachments it names. *)

\* Faulty variant: an attachment in any status is accepted.
PostCheckAnyStatus(k, a) ==
  /\ ps[k].pc = "idle"
  /\ status[a] # "none"
  /\ ps' = [ps EXCEPT ![k] = [pc |-> "checked", att |-> a]]
  /\ UNCHANGED <<rows, storage, queue, dlq, req, wk, lost>>

\* An attachment of the author that is ready; any other ends in 403 or 409.
PostCheck(k, a) ==
  /\ ps[k].pc = "idle"
  /\ status[a] = "ready"
  /\ ps' = [ps EXCEPT ![k] = [pc |-> "checked", att |-> a]]
  /\ UNCHANGED <<rows, storage, queue, dlq, req, wk, lost>>

\* The post is committed, then linked: the second commit publishes the link.
\* The status is not read again, whatever it has become since the check.
PostLink(k) ==
  /\ ps[k].pc = "checked"
  /\ posted' = posted \cup {ps[k].att}
  /\ ps' = [ps EXCEPT ![k] = IdlePost]
  /\ UNCHANGED <<status, thumbKey, storage, queue, dlq, req, wk, lost>>

\* A database or Redis error (500), or the API process dying.
PostAborts(k) ==
  /\ ps[k].pc = "checked"
  /\ ps' = [ps EXCEPT ![k] = IdlePost]
  /\ UNCHANGED <<rows, storage, queue, dlq, req, wk, lost>>
-----------------------------------------------------------------------------
(* POST /uploads/{id}/complete, by the owner of an attachment. *)

CompleteLoad(r, a) ==
  /\ req[r].pc = "idle"
  /\ status[a] # "none"
  /\ Len(queue) + Cardinality(Busy) < MaxQueue
  /\ req' = [req EXCEPT ![r] = [pc |-> "loaded", att |-> a,
                                status |-> status[a], thumb |-> thumbKey[a]]]
  /\ UNCHANGED <<rows, storage, queue, dlq, ps, wk, lost>>

\* Faulty variant: a rejected completion marks the attachment failed.
CompleteRejectFails(r) ==
  /\ req[r].pc = "loaded"
  /\ object[req[r].att] \in {"absent", "empty"}
  /\ status' = [status EXCEPT ![req[r].att] = "failed"]
  /\ req' = [req EXCEPT ![r] = IdleReq]
  /\ UNCHANGED <<thumbKey, posted, storage, queue, dlq, ps, wk, lost>>

\* 409 object_not_found or object_empty ends the request.
CompleteReject(r) ==
  /\ req[r].pc = "loaded"
  /\ object[req[r].att] \in {"absent", "empty"}
  /\ req' = [req EXCEPT ![r] = IdleReq]
  /\ UNCHANGED <<rows, storage, queue, dlq, ps, wk, lost>>

CompleteVerify(r) ==
  /\ req[r].pc = "loaded"
  /\ object[req[r].att] \notin {"absent", "empty"}
  /\ req' = [req EXCEPT ![r].pc = "verified"]
  /\ UNCHANGED <<rows, storage, queue, dlq, ps, wk, lost>>

\* mark_ready.  The row is not rewritten when the session loaded it ready.
\* The loaded object is the one the handler holds: its status is now ready.
CompleteMarkReady(r) ==
  /\ req[r].pc = "verified"
  /\ IF req[r].status = "ready"
       THEN UNCHANGED status
       ELSE status' = [status EXCEPT ![req[r].att] = "ready"]
  /\ req' = [req EXCEPT ![r].pc = "marked", ![r].status = "ready"]
  /\ UNCHANGED <<thumbKey, posted, storage, queue, dlq, ps, wk, lost>>

NeedsJob(q) == ~q.thumb /\ q.att \in Images /\ q.status # "processing"

\* Faulty variant: the job may be queued before the row is marked.
CompleteEnqueueEarly(r) ==
  /\ req[r].pc \in {"verified", "marked"}
  /\ IF NeedsJob(req[r])
       THEN queue' = Append(queue, req[r].att) /\ lost' = lost \ {req[r].att}
       ELSE UNCHANGED <<queue, lost>>
  /\ req' = [req EXCEPT ![r] = IdleReq]
  /\ UNCHANGED <<rows, storage, dlq, ps, wk>>

CompleteEnqueue(r) ==
  /\ req[r].pc = "marked"
  /\ IF NeedsJob(req[r])
       THEN queue' = Append(queue, req[r].att) /\ lost' = lost \ {req[r].att}
       ELSE UNCHANGED <<queue, lost>>
  /\ req' = [req EXCEPT ![r] = IdleReq]
  /\ UNCHANGED <<rows, storage, dlq, ps, wk>>

\* A database or Redis error (500), or the API process dying.
CompleteAborts(r) ==
  /\ req[r].pc # "idle"
  /\ req' = [req EXCEPT ![r] = IdleReq]
  /\ UNCHANGED <<rows, storage, queue, dlq, ps, wk, lost>>
-----------------------------------------------------------------------------
(* The thumbnail worker. *)

\* BRPOP: from here the job exists only in the worker.
Dequeue(w) ==
  /\ wk[w].pc = "idle"
  /\ queue # <<>>
  /\ wk' = [wk EXCEPT ![w] = [pc |-> "start", att |-> Head(queue),
                              attempt |-> 0, status |-> "none"]]
  /\ queue' = Tail(queue)
  /\ UNCHANGED <<rows, storage, dlq, req, ps, lost>>

\* _process_once opens a session of its own and loads the row.  An image
\* with a thumbnail, or a video, ends the job: nothing to do.
AttemptSkip(w) ==
  /\ wk[w].pc = "start"
  /\ thumbKey[wk[w].att] \/ wk[w].att \notin Images
  /\ wk' = [wk EXCEPT ![w] = IdleWk]
  /\ UNCHANGED <<rows, storage, queue, dlq, req, ps, lost>>

AttemptLoad(w) ==
  /\ wk[w].pc = "start"
  /\ ~thumbKey[wk[w].att]
  /\ wk[w].att \in Images
  /\ wk' = [wk EXCEPT ![w].pc = "loaded", ![w].status = status[wk[w].att]]
  /\ UNCHANGED <<rows, storage, queue, dlq, req, ps, lost>>

MarkProcessing(w) ==
  /\ wk[w].pc = "loaded"
  /\ IF wk[w].status = "processing"
       THEN UNCHANGED status
       ELSE status' = [status EXCEPT ![wk[w].att] = "processing"]
  /\ wk' = [wk EXCEPT ![w].pc = "marked"]
  /\ UNCHANGED <<thumbKey, posted, storage, queue, dlq, req, ps, lost>>

\* get_bytes and generate_thumbnail, on bytes Pillow can decode.
MakeThumb(w) ==
  /\ wk[w].pc = "marked"
  /\ object[wk[w].att] = "good"
  /\ wk' = [wk EXCEPT ![w].pc = "made"]
  /\ UNCHANGED <<rows, storage, queue, dlq, req, ps, lost>>

PutThumb(w) ==
  /\ wk[w].pc = "made"
  /\ thumbObj' = [thumbObj EXCEPT ![wk[w].att] = TRUE]
  /\ wk' = [wk EXCEPT ![w].pc = "stored"]
  /\ UNCHANGED <<rows, object, queue, dlq, req, ps, lost>>

\* Faulty variant: the row may be updated before the object is stored.
UpdateThumbnailEarly(w) ==
  /\ wk[w].pc \in {"made", "stored"}
  /\ thumbKey' = [thumbKey EXCEPT ![wk[w].att] = TRUE]
  /\ status' = [status EXCEPT ![wk[w].att] = "ready"]
  /\ wk' = [wk EXCEPT ![w] = IdleWk]
  /\ UNCHANGED <<posted, storage, queue, dlq, req, ps, lost>>

\* update_thumbnail: one UPDATE sets the key and restores ready.
UpdateThumbnail(w) ==
  /\ wk[w].pc = "stored"
  /\ thumbKey' = [thumbKey EXCEPT ![wk[w].att] = TRUE]
  /\ status' = [status EXCEPT ![wk[w].att] = "ready"]
  /\ wk' = [wk EXCEPT ![w] = IdleWk]
  /\ UNCHANGED <<posted, storage, queue, dlq, req, ps, lost>>

\* Faulty variants: one attempt too many; attempts that are not counted.
NextAttemptOneMore(w) ==
  /\ wk' = IF wk[w].attempt <= NumRetries
             THEN [wk EXCEPT ![w] = [pc |-> "start", att |-> wk[w].att,
                                     attempt |-> wk[w].attempt + 1,
                                     status |-> "none"]]
             ELSE [wk EXCEPT ![w].pc = "dlq"]
  /\ UNCHANGED <<rows, storage, queue, dlq, req, ps, lost>>

NextAttemptForever(w) ==
  /\ wk' = [wk EXCEPT ![w].pc = "start", ![w].status = "none"]
  /\ UNCHANGED <<rows, storage, queue, dlq, req, ps, lost>>

\* The except clause of process_attachment: retry, or give up after the last.
NextAttempt(w) ==
  /\ wk' = IF wk[w].attempt < NumRetries
             THEN [wk EXCEPT ![w] = [pc |-> "start", att |-> wk[w].att,
                                     attempt |-> wk[w].attempt + 1,
                                     status |-> "none"]]
             ELSE [wk EXCEPT ![w].pc = "dlq"]
  /\ UNCHANGED <<rows, storage, queue, dlq, req, ps, lost>>

\* Bytes that are no image: Pillow raises on every attempt.
AttemptUndecodable(w) ==
  /\ wk[w].pc = "marked"
  /\ object[wk[w].att] # "good"
  /\ NextAttempt(w)

\* Storage or the database raises at any point of the attempt.
AttemptFails(w) ==
  /\ wk[w].pc \in InAttempt
  /\ NextAttempt(w)

\* push_to_dlq, whose own failure is logged and swallowed.
PushToDlq(w) ==
  /\ wk[w].pc = "dlq"
  /\ dlq' \in {dlq, dlq \cup {wk[w].att}}
  /\ wk' = [wk EXCEPT ![w].pc = "fail"]
  /\ UNCHANGED <<rows, storage, queue, req, ps, lost>>

\* mark_failed selects the row in a session of its own, ...
FailLoad(w) ==
  /\ wk[w].pc = "fail"
  /\ wk' = [wk EXCEPT ![w].pc = "failing", ![w].status = status[wk[w].att]]
  /\ UNCHANGED <<rows, storage, queue, dlq, req, ps, lost>>

\* Faulty variant: the row is left as it is.
MarkFailedForgotten(w) ==
  /\ wk[w].pc = "failing"
  /\ wk' = [wk EXCEPT ![w] = IdleWk]
  /\ UNCHANGED <<rows, storage, queue, dlq, req, ps, lost>>

\* ... then writes it; no UPDATE is sent when the session loaded failed.
MarkFailed(w) ==
  /\ wk[w].pc = "failing"
  /\ IF wk[w].status = "failed"
       THEN UNCHANGED status
       ELSE status' = [status EXCEPT ![wk[w].att] = "failed"]
  /\ wk' = [wk EXCEPT ![w] = IdleWk]
  /\ UNCHANGED <<thumbKey, posted, storage, queue, dlq, req, ps, lost>>

\* A kill, or an exception of mark_failed, which nothing catches: the job the
\* worker held is in no queue any more.
WorkerCrash(w) ==
  /\ w \in CrashProne
  /\ wk[w].pc # "down"
  /\ lost' = IF wk[w].pc = "idle" THEN lost ELSE lost \cup {wk[w].att}
  /\ wk' = [wk EXCEPT ![w] = DownWk]
  /\ UNCHANGED <<rows, storage, queue, dlq, req, ps>>

WorkerStart(w) ==
  /\ wk[w].pc = "down"
  /\ wk' = [wk EXCEPT ![w] = IdleWk]
  /\ UNCHANGED <<rows, storage, queue, dlq, req, ps, lost>>
-----------------------------------------------------------------------------
Client ==
  \E a \in Attachments :
    \/ RequestUpload(a)
    \/ \E content \in Contents : PutObject(a, content)

Post(k) ==
  \/ \E a \in Attachments : PostCheck(k, a)
  \/ PostLink(k)
  \/ PostAborts(k)

Complete(r) ==
  \/ \E a \in Attachments : CompleteLoad(r, a)
  \/ CompleteReject(r)
  \/ CompleteVerify(r)
  \/ CompleteMarkReady(r)
  \/ CompleteEnqueue(r)
  \/ CompleteAborts(r)

\* The steps a running worker takes without anything going wrong around it.
WorkerStep(w) ==
  \/ Dequeue(w)
  \/ AttemptSkip(w)
  \/ AttemptLoad(w)
  \/ MarkProcessing(w)
  \/ MakeThumb(w)
  \/ PutThumb(w)
  \/ UpdateThumbnail(w)
  \/ AttemptUndecodable(w)
  \/ PushToDlq(w)
  \/ FailLoad(w)
  \/ MarkFailed(w)

Next ==
  \/ Client
  \/ \E k \in Posters : Post(k)
  \/ \E r \in Requests : Complete(r)
  \/ \E w \in Workers :
       WorkerStep(w) \/ AttemptFails(w) \/ WorkerCrash(w) \/ WorkerStart(w)

Spec == Init /\ [][Next]_vars

\* A worker process that runs is scheduled; nothing is promised of clients,
\* requests, failures, crashes or restarts.
FairSpec == Spec /\ \A w \in Workers : WF_vars(WorkerStep(w))
-----------------------------------------------------------------------------
(* Type invariant. *)

ReqRecord ==
  [pc : ReqPcs, att : Attachments \cup {None}, status : Statuses, thumb : BOOLEAN]
PostRecord == [pc : {"idle", "checked"}, att : Attachments \cup {None}]
WkRecord ==
  [pc : WkPcs, att : Attachments \cup {None}, attempt : 0..NumRetries,
   status : Statuses]

\* Every variable holds a value of its kind; a request or worker that is in
\* the middle of something names an attachment.
TypeOK ==
  /\ status \in [Attachments -> Statuses]
  /\ thumbKey \in [Attachments -> BOOLEAN]
  /\ object \in [Attachments -> Contents \cup {"absent"}]
  /\ thumbObj \in [Attachments -> BOOLEAN]
  /\ queue \in Seq(Attachments)
  /\ dlq \subseteq Attachments
  /\ posted \subseteq Attachments
  /\ req \in [Requests -> ReqRecord]
  /\ ps \in [Posters -> PostRecord]
  /\ wk \in [Workers -> WkRecord]
  /\ lost \subseteq Attachments
  /\ \A r \in Requests : req[r].pc # "idle" => req[r].att # None
  /\ \A k \in Posters : ps[k].pc # "idle" => ps[k].att # None
  /\ \A w \in Workers : wk[w].pc \notin {"idle", "down"} => wk[w].att # None
-----------------------------------------------------------------------------
(* Safety. *)

\* thumbnail_key never names an object that is not in storage: the thumbnail
\* is written before the row says so, through every retry, crash and
\* duplicate job (process.py:114-117).
ThumbStored == \A a \in Attachments : thumbKey[a] => thumbObj[a]

\* A thumbnail job, queued or in a worker's hands, is always for an image
\* whose bytes were in storage and whose row left pending before the job was
\* pushed (uploads.py:112-132).
Underway == {wk[w].att : w \in {v \in Workers : wk[v].pc \notin {"idle", "down"}}}
JobsAreCompletedImages ==
  \A a \in Jobs \cup Underway :
    /\ a \in Images
    /\ object[a] # "absent"
    /\ status[a] \notin {"none", "pending"}

\* What create_post has checked, and what a post links, was completed and has
\* an original in storage: from the check to the link, and ever after, the row
\* may be taken to processing or failed, but never back to pending, although
\* the status is not read again (posts.py:58-80).
Linking == {ps[k].att : k \in {j \in Posters : ps[j].pc = "checked"}}
PostedAreCompleted ==
  \A a \in posted \cup Linking :
    object[a] # "absent" /\ status[a] \notin {"none", "pending"}

\* An attachment without a thumbnail is not left in processing: while its row
\* says so, a job for it is in a worker's hands or still to come, or one died
\* with its worker and none was queued since, however many workers are on
\* duplicate jobs for it (worker.py:32, process.py:70-71 and 98-117).
ProcessingIsOwned ==
  \A a \in Attachments :
    status[a] = "processing" /\ ~thumbKey[a] => a \in Underway \cup Jobs \cup lost

\* An image that has its thumbnail, and that no worker is on, is ready
\* (media-processing spec.md:41-43).  The code does not keep it: a second
\* worker that loaded the row before the thumbnail was published takes ready
\* away, and its own retry finds the thumbnail and leaves the row as it is.
DoneIsReady ==
  \A a \in Attachments : thumbKey[a] /\ a \notin Underway => status[a] = "ready"

\* Only the holder of a job withdraws ready: a step that takes a row away
\* from ready is a worker's, working on that attachment.
ReadyWithdrawnByHolder ==
  [][\A a \in Attachments :
       status[a] = "ready" /\ status'[a] # "ready" => a \in Underway]_vars

\* Every job is resolved: its image gets a thumbnail or is marked failed,
\* however often attempts fail, unless a worker dies with the job or none is
\* running (process.py:43-74).
NoWorker == \A w \in Workers : wk[w].pc = "down"
JobsResolve ==
  \A a \in Images :
    (a \in Jobs)
      ~> (thumbKey[a] \/ status[a] = "failed" \/ a \in lost \/ NoWorker)

\* An attachment without a thumbnail does not stay in processing forever, with
\* the same exceptions.
ProcessingEnds ==
  \A a \in Images :
    (status[a] = "processing" /\ ~thumbKey[a])
      ~> (status[a] # "processing" \/ a \in lost \/ NoWorker)
=============================================================================
