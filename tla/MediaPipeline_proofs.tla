------------------------ MODULE MediaPipeline_proofs ------------------------
(***************************************************************************)
(* Proofs about MediaPipeline for any attachments, any number of request   *)
(* slots, workers and retries, and any of the workers prone to crash.      *)
(*                                                                         *)
(* The inductive invariant says how far a row, a request and a job have    *)
(* come: a row past pending has its original in storage, a request that    *)
(* loaded such a row or verified the object keeps that fact, and a worker  *)
(* about to update the row has written the thumbnail.  A second invariant  *)
(* names who will still write the outcome of a row in processing.          *)
(***************************************************************************)
EXTENDS MediaPipeline, TLAPS

Settled(a) == status[a] \notin {"none", "pending"} /\ object[a] # "absent"

RowsSettle == \A a \in Attachments : status[a] \notin {"none", "pending"} => Settled(a)

RequestsKnow ==
  \A r \in Requests :
    /\ req[r].pc # "idle" /\ req[r].status \notin {"none", "pending"}
         => Settled(req[r].att)
    /\ req[r].pc \in {"verified", "marked"} => object[req[r].att] # "absent"
    /\ req[r].pc = "marked" => Settled(req[r].att)

JobOK(a) == a \in Images /\ Settled(a)

QueueOK == \A i \in 1..Len(queue) : JobOK(queue[i])
WorkersOK == \A w \in Workers : wk[w].pc \notin {"idle", "down"} => JobOK(wk[w].att)
PostersKnow == \A k \in Posters : ps[k].pc = "checked" => Settled(ps[k].att)
LinksOK == \A a \in posted : Settled(a)
StoredOK == \A w \in Workers : wk[w].pc = "stored" => thumbObj[wk[w].att]

\* The inductive invariant.
IInv ==
  /\ TypeOK
  /\ ThumbStored
  /\ RowsSettle
  /\ RequestsKnow
  /\ QueueOK
  /\ WorkersOK
  /\ StoredOK
  /\ PostersKnow
  /\ LinksOK
-----------------------------------------------------------------------------
\* An appended element is the only new one of a sequence.
LEMMA AppendElements ==
  ASSUME NEW S, NEW s \in Seq(S), NEW e \in S, NEW i \in 1..Len(Append(s, e))
  PROVE  Append(s, e)[i] = e \/ (i \in 1..Len(s) /\ Append(s, e)[i] = s[i])
  OBVIOUS

\* The elements of a tail are elements of the sequence.
LEMMA TailElements ==
  ASSUME NEW S, NEW s \in Seq(S), s # <<>>, NEW i \in 1..Len(Tail(s))
  PROVE  i + 1 \in 1..Len(s) /\ Tail(s)[i] = s[i + 1]
  OBVIOUS

\* Every initial state is well typed and satisfies the invariant.
LEMMA InitInvariant == Init => IInv
<1> SUFFICES ASSUME Init PROVE IInv
  OBVIOUS
<1> USE NoneAssumption, RetriesAssumption DEF Init, Attachments
<1>1. TypeOK
  BY DEF TypeOK, Statuses, Contents, ReqRecord, WkRecord, IdleReq, IdleWk, ReqPcs,
         WkPcs, InAttempt, PostRecord, IdlePost
<1>2. ThumbStored /\ RowsSettle /\ LinksOK /\ PostersKnow
  BY DEF ThumbStored, RowsSettle, LinksOK, PostersKnow, IdlePost
<1>3. RequestsKnow
  BY DEF RequestsKnow, IdleReq
<1>4. QueueOK /\ WorkersOK /\ StoredOK
  BY DEF QueueOK, WorkersOK, StoredOK, IdleWk
<1> QED BY <1>1, <1>2, <1>3, <1>4 DEF IInv
-----------------------------------------------------------------------------
(* Type correctness. *)

\* A request slot only ever holds a record of its kind.
LEMMA RequestTypes ==
  ASSUME TypeOK, NEW r \in Requests, Complete(r)
  PROVE  TypeOK'
<1> USE NoneAssumption DEF TypeOK, rows, storage, ReqRecord, ReqPcs, Statuses
<1>1. ASSUME NEW a \in Attachments, CompleteLoad(r, a) PROVE TypeOK'
  BY <1>1 DEF CompleteLoad
<1>2. CASE CompleteVerify(r)
  BY <1>2 DEF CompleteVerify
<1>6. CASE CompleteReject(r)
  BY <1>6 DEF CompleteReject, IdleReq
<1>3. CASE CompleteMarkReady(r)
  <2>1. req[r] \in ReqRecord /\ req[r].att \in Attachments
    BY <1>3 DEF CompleteMarkReady
  <2>2. req' \in [Requests -> ReqRecord]
    BY <1>3, <2>1 DEF CompleteMarkReady
  <2>3. status' \in [Attachments -> Statuses]
    BY <1>3, <2>1 DEF CompleteMarkReady
  <2>4. \A q \in Requests : req'[q].pc # "idle" => req'[q].att # None
    BY <1>3, <2>1 DEF CompleteMarkReady
  <2> QED BY <1>3, <2>2, <2>3, <2>4 DEF CompleteMarkReady
<1>4. CASE CompleteEnqueue(r)
  <2>1. queue' \in Seq(Attachments) /\ lost' \subseteq Attachments
    <3>1. CASE NeedsJob(req[r])
      <4>1. req[r].att \in Attachments
        BY <3>1 DEF NeedsJob, Attachments
      <4>2. queue' = Append(queue, req[r].att) /\ lost' = lost \ {req[r].att}
        BY <1>4, <3>1 DEF CompleteEnqueue
      <4>3. queue \in Seq(Attachments) /\ lost \subseteq Attachments
        OBVIOUS
      <4> HIDE NoneAssumption DEF TypeOK, rows, storage, ReqRecord, ReqPcs, Statuses
      <4> QED BY <4>1, <4>2, <4>3
    <3>2. CASE ~NeedsJob(req[r])
      BY <1>4, <3>2 DEF CompleteEnqueue
    <3> QED BY <3>1, <3>2
  <2> QED BY <1>4, <2>1 DEF CompleteEnqueue, IdleReq
<1>5. CASE CompleteAborts(r)
  BY <1>5 DEF CompleteAborts, IdleReq
<1> QED BY <1>1, <1>2, <1>3, <1>4, <1>5, <1>6 DEF Complete

\* A worker that turns to a record of its kind leaves every worker with one.
LEMMA WorkerTurns ==
  ASSUME TypeOK, NEW w \in Workers, NEW x \in WkRecord,
         x.pc \notin {"idle", "down"} => x.att # None,
         wk' = [wk EXCEPT ![w] = x]
  PROVE  /\ wk' \in [Workers -> WkRecord]
         /\ \A v \in Workers : wk'[v].pc \notin {"idle", "down"} => wk'[v].att # None
BY DEF TypeOK

\* A worker's next position is one of its kind.
LEMMA WorkerMoves ==
  ASSUME TypeOK, NEW w \in Workers, wk[w].pc \notin {"idle", "down"},
         NEW pc \in WkPcs, NEW st \in Statuses
  PROVE  /\ [wk[w] EXCEPT !.pc = pc] \in WkRecord
         /\ [wk[w] EXCEPT !.pc = pc, !.status = st] \in WkRecord
         /\ [wk[w] EXCEPT !.pc = pc].att # None
         /\ [wk[w] EXCEPT !.pc = pc, !.status = st].att # None
<1>1. wk[w] \in WkRecord /\ wk[w].att # None
  BY DEF TypeOK
<1> QED BY <1>1 DEF WkRecord

\* So does a worker, whose attempts are counted up to NumRetries.
LEMMA RetryTypes ==
  ASSUME TypeOK, NEW w \in Workers, wk[w].pc \in InAttempt, NextAttempt(w)
  PROVE  TypeOK'
<1>1. /\ wk[w] \in WkRecord /\ wk[w].att \in Attachments
      /\ wk[w].attempt \in 0..NumRetries /\ NumRetries \in Nat
  BY RetriesAssumption DEF TypeOK, InAttempt, WkRecord
<1>2. \E x \in WkRecord : x.att # None /\ wk' = [wk EXCEPT ![w] = x]
  <2>1. CASE wk[w].attempt < NumRetries
    <3> DEFINE x == [pc |-> "start", att |-> wk[w].att,
                     attempt |-> wk[w].attempt + 1, status |-> "none"]
    <3>1. x \in WkRecord /\ x.att # None
      BY <1>1, <2>1, NoneAssumption DEF WkRecord, WkPcs, InAttempt, Statuses
    <3> QED BY <2>1, <3>1 DEF NextAttempt
  <2>2. CASE ~(wk[w].attempt < NumRetries)
    <3> DEFINE x == [wk[w] EXCEPT !.pc = "dlq"]
    <3>1. x \in WkRecord /\ x.att # None
      BY <1>1, NoneAssumption DEF WkRecord, WkPcs
    <3>2. wk' = [wk EXCEPT ![w] = x]
      BY <2>2 DEF NextAttempt, TypeOK
    <3> QED BY <3>1, <3>2
  <2> QED BY <2>1, <2>2
<1>3. UNCHANGED <<rows, storage, queue, dlq, req, ps, lost>>
  BY DEF NextAttempt
<1>4. wk' \in [Workers -> WkRecord]
  BY <1>2 DEF TypeOK
<1>5. \A v \in Workers : wk'[v].pc \notin {"idle", "down"} => wk'[v].att # None
  BY <1>2 DEF TypeOK
<1> QED BY <1>3, <1>4, <1>5 DEF TypeOK, rows, storage

LEMMA WorkerTypes ==
  ASSUME TypeOK, NEW w \in Workers,
         WorkerStep(w) \/ AttemptFails(w) \/ WorkerCrash(w) \/ WorkerStart(w)
  PROVE  TypeOK'
<1> DEFINE WkOK == /\ wk' \in [Workers -> WkRecord]
                   /\ \A v \in Workers :
                        wk'[v].pc \notin {"idle", "down"} => wk'[v].att # None
<1>0. /\ IdleWk \in WkRecord /\ DownWk \in WkRecord
      /\ IdleWk.pc = "idle" /\ DownWk.pc = "down"
  BY RetriesAssumption DEF IdleWk, DownWk, WkRecord, WkPcs, InAttempt, Statuses
<1>a. wk' = [wk EXCEPT ![w] = IdleWk] \/ wk' = [wk EXCEPT ![w] = DownWk] => WkOK
  BY <1>0, WorkerTurns
<1>b. ASSUME wk[w].pc \notin {"idle", "down"}, NEW pc \in WkPcs,
             wk' = [wk EXCEPT ![w].pc = pc]
      PROVE  WkOK
  <2>1. wk' = [wk EXCEPT ![w] = [wk[w] EXCEPT !.pc = pc]]
    BY <1>b
  <2> QED BY <1>b, <2>1, WorkerMoves, WorkerTurns, Zenon DEF Statuses
<1>c. wk[w].pc \notin {"idle", "down"} => wk[w].att \in Attachments
  BY DEF TypeOK, WkRecord
<1> HIDE DEF WkOK
<1>1. CASE Dequeue(w)
  <2> DEFINE x == [pc |-> "start", att |-> Head(queue), attempt |-> 0, status |-> "none"]
  <2>1. Head(queue) \in Attachments /\ Tail(queue) \in Seq(Attachments)
    BY <1>1 DEF Dequeue, TypeOK
  <2>2. x \in WkRecord /\ x.att # None
    BY <2>1, NoneAssumption, RetriesAssumption DEF WkRecord, WkPcs, InAttempt, Statuses
  <2>3. WkOK
    BY <1>1, <2>2, WorkerTurns DEF Dequeue, WkOK
  <2> QED BY <1>1, <2>1, <2>3 DEF Dequeue, TypeOK, WkOK, rows, storage
<1>2. CASE AttemptLoad(w)
  <2> DEFINE x == [wk[w] EXCEPT !.pc = "loaded", !.status = status[wk[w].att]]
  <2>1. status[wk[w].att] \in Statuses
    BY <1>2, <1>c DEF AttemptLoad, TypeOK
  <2>2. x \in WkRecord /\ x.att # None
    BY <1>2, <2>1, WorkerMoves DEF AttemptLoad, WkPcs, InAttempt
  <2>3. wk' = [wk EXCEPT ![w] = x]
    BY <1>2 DEF AttemptLoad
  <2>4. WkOK
    BY <2>2, <2>3, WorkerTurns DEF WkOK
  <2> QED BY <1>2, <2>4 DEF AttemptLoad, TypeOK, WkOK, rows, storage
<1>3. CASE AttemptSkip(w)
  <2>1. WkOK
    BY <1>3, <1>a DEF AttemptSkip
  <2> QED BY <1>3, <2>1 DEF AttemptSkip, TypeOK, WkOK, rows, storage
<1>4. CASE MarkProcessing(w)
  <2>1. WkOK
    BY <1>4, <1>b DEF MarkProcessing, WkPcs, InAttempt
  <2>2. status' \in [Attachments -> Statuses]
    BY <1>4 DEF MarkProcessing, TypeOK, Statuses
  <2> QED BY <1>4, <2>1, <2>2 DEF MarkProcessing, TypeOK, WkOK, rows, storage
<1>5. CASE MakeThumb(w)
  <2>1. WkOK
    BY <1>5, <1>b DEF MakeThumb, WkPcs, InAttempt
  <2> QED BY <1>5, <2>1 DEF MakeThumb, TypeOK, WkOK, rows, storage
<1>6. CASE PutThumb(w)
  <2>1. WkOK
    BY <1>6, <1>b DEF PutThumb, WkPcs, InAttempt
  <2>2. thumbObj' \in [Attachments -> BOOLEAN]
    BY <1>6 DEF PutThumb, TypeOK
  <2> QED BY <1>6, <2>1, <2>2 DEF PutThumb, TypeOK, WkOK, rows
<1>7. CASE UpdateThumbnail(w)
  <2>1. WkOK
    BY <1>7, <1>a DEF UpdateThumbnail
  <2>2. status' \in [Attachments -> Statuses] /\ thumbKey' \in [Attachments -> BOOLEAN]
    BY <1>7 DEF UpdateThumbnail, TypeOK, Statuses
  <2> QED BY <1>7, <2>1, <2>2 DEF UpdateThumbnail, TypeOK, WkOK, storage
<1>8. CASE AttemptUndecodable(w)
  BY <1>8, RetryTypes DEF AttemptUndecodable, InAttempt
<1>9. CASE AttemptFails(w)
  BY <1>9, RetryTypes DEF AttemptFails
<1>10. CASE PushToDlq(w)
  <2>1. WkOK
    BY <1>10, <1>b DEF PushToDlq, WkPcs
  <2>2. dlq' \subseteq Attachments
    BY <1>10, <1>c DEF PushToDlq, TypeOK
  <2> QED BY <1>10, <2>1, <2>2 DEF PushToDlq, TypeOK, WkOK, rows, storage
<1>11. CASE MarkFailed(w)
  <2>1. WkOK
    BY <1>11, <1>a DEF MarkFailed
  <2>2. status' \in [Attachments -> Statuses]
    BY <1>11 DEF MarkFailed, TypeOK, Statuses
  <2> QED BY <1>11, <2>1, <2>2 DEF MarkFailed, TypeOK, WkOK, storage
<1>12. CASE WorkerCrash(w)
  <2>1. WkOK
    BY <1>12, <1>a DEF WorkerCrash
  <2>2. lost' \subseteq Attachments
    BY <1>12, <1>c DEF WorkerCrash, TypeOK
  <2> QED BY <1>12, <2>1, <2>2 DEF WorkerCrash, TypeOK, WkOK, rows, storage
<1>13. CASE WorkerStart(w)
  <2>1. WkOK
    BY <1>13, <1>a DEF WorkerStart
  <2> QED BY <1>13, <2>1 DEF WorkerStart, TypeOK, WkOK, rows, storage
<1>14. CASE FailLoad(w)
  <2> DEFINE x == [wk[w] EXCEPT !.pc = "failing", !.status = status[wk[w].att]]
  <2>1. status[wk[w].att] \in Statuses
    BY <1>14, <1>c DEF FailLoad, TypeOK
  <2>2. x \in WkRecord /\ x.att # None
    BY <1>14, <2>1, WorkerMoves DEF FailLoad, WkPcs
  <2>3. wk' = [wk EXCEPT ![w] = x]
    BY <1>14 DEF FailLoad
  <2>4. WkOK
    BY <2>2, <2>3, WorkerTurns DEF WkOK
  <2> QED BY <1>14, <2>4 DEF FailLoad, TypeOK, WkOK, rows, storage
<1> QED
  BY <1>1, <1>2, <1>3, <1>4, <1>5, <1>6, <1>7, <1>8, <1>9, <1>10, <1>11, <1>12, <1>13, <1>14
  DEF WorkerStep

\* A poster's slot holds what it checked.
LEMMA PosterTypes ==
  ASSUME TypeOK, NEW k \in Posters, Post(k)
  PROVE  TypeOK'
<1> USE NoneAssumption DEF TypeOK, rows, storage, PostRecord
<1>1. ASSUME NEW a \in Attachments, PostCheck(k, a) PROVE TypeOK'
  BY <1>1 DEF PostCheck
<1>2. CASE PostLink(k)
  BY <1>2 DEF PostLink, IdlePost
<1>3. CASE PostAborts(k)
  BY <1>3 DEF PostAborts, IdlePost
<1> QED BY <1>1, <1>2, <1>3 DEF Post

LEMMA TypeStep == TypeOK /\ [Next]_vars => TypeOK'
<1> SUFFICES ASSUME TypeOK, [Next]_vars PROVE TypeOK'
  OBVIOUS
<1>1. ASSUME NEW a \in Attachments, RequestUpload(a) PROVE TypeOK'
  BY <1>1 DEF RequestUpload, TypeOK, storage, Statuses
<1>2. ASSUME NEW a \in Attachments, NEW c \in Contents, PutObject(a, c) PROVE TypeOK'
  BY <1>2 DEF PutObject, TypeOK, rows
<1>3. ASSUME NEW k \in Posters, Post(k) PROVE TypeOK'
  BY <1>3, PosterTypes
<1>4. CASE UNCHANGED vars
  BY <1>4 DEF vars, TypeOK
<1> QED
  BY <1>1, <1>2, <1>3, <1>4, RequestTypes, WorkerTypes DEF Next, Client

\* Every variable keeps its type in every run (models.py, queue.py).
THEOREM TypeCorrect == Spec => []TypeOK
<1>1. Init => TypeOK
  BY InitInvariant DEF IInv
<1> QED BY <1>1, TypeStep, PTL DEF Spec
-----------------------------------------------------------------------------
(* Safety. *)

\* What no step undoes: a row past pending, an original, a thumbnail.
StepKeeps ==
  \A a \in Attachments :
    /\ status[a] \notin {"none", "pending"} => status'[a] \notin {"none", "pending"}
    /\ object[a] # "absent" => object'[a] # "absent"
    /\ thumbObj[a] => thumbObj'[a]

LEMMA NothingUndone == TypeOK /\ [Next]_vars => StepKeeps
<1> SUFFICES ASSUME TypeOK, [Next]_vars PROVE StepKeeps
  OBVIOUS
<1> USE DEF TypeOK, StepKeeps, rows, storage
<1>1. ASSUME NEW a \in Attachments, RequestUpload(a) PROVE StepKeeps
  BY <1>1 DEF RequestUpload
<1>2. ASSUME NEW a \in Attachments, NEW c \in Contents, PutObject(a, c) PROVE StepKeeps
  BY <1>2 DEF PutObject, Contents
<1>3. ASSUME NEW k \in Posters, Post(k) PROVE StepKeeps
  BY <1>3 DEF Post, PostCheck, PostLink, PostAborts
<1>4. ASSUME NEW r \in Requests, Complete(r) PROVE StepKeeps
  BY <1>4 DEF Complete, CompleteLoad, CompleteReject, CompleteVerify,
              CompleteMarkReady, CompleteEnqueue, CompleteAborts
<1>5. ASSUME NEW w \in Workers, WorkerStep(w) PROVE StepKeeps
  BY <1>5 DEF WorkerStep, Dequeue, AttemptSkip, AttemptLoad, MarkProcessing, MakeThumb,
              PutThumb, UpdateThumbnail, AttemptUndecodable, NextAttempt, PushToDlq,
              FailLoad, MarkFailed
<1>6. ASSUME NEW w \in Workers, AttemptFails(w) \/ WorkerCrash(w) \/ WorkerStart(w)
      PROVE  StepKeeps
  BY <1>6 DEF AttemptFails, NextAttempt, WorkerCrash, WorkerStart
<1>7. CASE UNCHANGED vars
  BY <1>7 DEF vars
<1> QED BY <1>1, <1>2, <1>3, <1>4, <1>5, <1>6, <1>7 DEF Next, Client

\* So each part of the invariant survives a step that leaves its own
\* variable alone.
LEMMA Frames ==
  ASSUME IInv, StepKeeps
  PROVE  /\ req' = req => RequestsKnow'
         /\ queue' = queue => QueueOK'
         /\ wk' = wk => WorkersOK' /\ StoredOK'
         /\ thumbKey' = thumbKey => ThumbStored'
         /\ status' = status => RowsSettle'
         /\ posted' = posted => LinksOK'
         /\ ps' = ps => PostersKnow'
<1>1. \A a \in Attachments : Settled(a) => Settled(a)'
  BY DEF StepKeeps, Settled
<1>2. req' = req => RequestsKnow'
  <2>1. \A r \in Requests : req[r].pc # "idle" => req[r].att \in Attachments
    BY DEF IInv, TypeOK, ReqRecord
  <2>2. \A r \in Requests : req[r].pc \in {"verified", "marked"} => req[r].pc # "idle"
    OBVIOUS
  <2> QED BY <1>1, <2>1, <2>2 DEF IInv, RequestsKnow, StepKeeps
<1>3. queue' = queue => QueueOK'
  <2>1. \A i \in 1..Len(queue) : queue[i] \in Attachments
    BY DEF IInv, TypeOK
  <2> QED BY <1>1, <2>1 DEF IInv, QueueOK, JobOK
<1>4. wk' = wk => WorkersOK' /\ StoredOK'
  <2>1. \A w \in Workers : wk[w].pc \notin {"idle", "down"} => wk[w].att \in Attachments
    BY DEF IInv, TypeOK, WkRecord
  <2>2. \A w \in Workers : wk[w].pc = "stored" => wk[w].att \in Attachments
    BY <2>1
  <2> QED BY <1>1, <2>1, <2>2 DEF IInv, WorkersOK, StoredOK, JobOK, StepKeeps
<1>5. thumbKey' = thumbKey => ThumbStored'
  BY DEF IInv, ThumbStored, StepKeeps
<1>6. status' = status => RowsSettle'
  BY <1>1 DEF IInv, RowsSettle
<1>7. posted' = posted => LinksOK'
  BY <1>1 DEF IInv, TypeOK, LinksOK
<1>8. ps' = ps => PostersKnow'
  <2>1. \A k \in Posters : ps[k].pc = "checked" => ps[k].att \in Attachments
    BY DEF IInv, TypeOK, PostRecord
  <2> QED BY <1>1, <2>1 DEF IInv, PostersKnow
<1> QED BY <1>2, <1>3, <1>4, <1>5, <1>6, <1>7, <1>8

\* A client's step: a new row is pending, an object is written.
LEMMA ClientInvariant ==
  ASSUME IInv, TypeOK', StepKeeps, Client
  PROVE  IInv'
<1> USE Frames DEF IInv
<1>1. ASSUME NEW a \in Attachments, RequestUpload(a) PROVE IInv'
  <2>1. RowsSettle'
    BY <1>1 DEF RequestUpload, RowsSettle, Settled, TypeOK, storage
  <2> QED BY <1>1, <2>1 DEF RequestUpload
<1>2. ASSUME NEW a \in Attachments, NEW c \in Contents, PutObject(a, c) PROVE IInv'
  BY <1>2 DEF PutObject, rows
<1> QED BY <1>1, <1>2 DEF Client

\* A step of create_post: what was ready at the check is settled at the link.
LEMMA PosterInvariant ==
  ASSUME IInv, TypeOK', StepKeeps, NEW k \in Posters, Post(k)
  PROVE  IInv'
<1> USE Frames DEF IInv
<1>1. ASSUME NEW a \in Attachments, PostCheck(k, a) PROVE IInv'
  <2>1. PostersKnow'
    BY <1>1 DEF PostCheck, PostersKnow, RowsSettle, Settled, TypeOK, rows, storage
  <2> QED BY <1>1, <2>1 DEF PostCheck, rows, storage
<1>2. ASSUME ps' = [ps EXCEPT ![k] = IdlePost], UNCHANGED <<status, object>>
      PROVE  PostersKnow'
  BY <1>2 DEF PostersKnow, IdlePost, Settled, TypeOK
<1>3. CASE PostLink(k)
  <2>1. LinksOK'
    BY <1>3 DEF PostLink, PostersKnow, LinksOK, Settled, storage
  <2> QED BY <1>2, <1>3, <2>1 DEF PostLink, storage
<1>4. CASE PostAborts(k)
  BY <1>2, <1>4 DEF PostAborts, rows, storage
<1> QED BY <1>1, <1>3, <1>4 DEF Post

\* A step of a complete request: what it learnt of the row and the object is
\* what it may later rely on.
LEMMA RequestInvariant ==
  ASSUME IInv, TypeOK', StepKeeps, NEW r \in Requests, Complete(r)
  PROVE  IInv'
<1> USE Frames DEF IInv
<1>1. \A q \in Requests : req[q].pc # "idle" => req[q].att \in Attachments
  BY DEF TypeOK, ReqRecord
<1>2. ASSUME req' = [req EXCEPT ![r] = IdleReq], UNCHANGED <<status, object>>
      PROVE  RequestsKnow'
  BY <1>2 DEF RequestsKnow, IdleReq, Settled, TypeOK
<1>3. ASSUME NEW a \in Attachments, CompleteLoad(r, a) PROVE IInv'
  <2>1. RequestsKnow'
    BY <1>3 DEF CompleteLoad, RequestsKnow, RowsSettle, Settled, TypeOK, rows, storage
  <2> QED BY <1>3, <2>1 DEF CompleteLoad, rows, storage
<1>4. CASE CompleteReject(r)
  BY <1>2, <1>4 DEF CompleteReject, rows, storage
<1>5. CASE CompleteVerify(r)
  <2>1. RequestsKnow'
    BY <1>5 DEF CompleteVerify, RequestsKnow, Settled, TypeOK, rows, storage
  <2> QED BY <1>5, <2>1 DEF CompleteVerify, rows, storage
<1>6. CASE CompleteMarkReady(r)
  <2>1. object[req[r].att] # "absent" /\ req[r].att \in Attachments
    BY <1>1, <1>6 DEF CompleteMarkReady, RequestsKnow
  <2>2. Settled(req[r].att)'
    BY <1>6, <2>1 DEF CompleteMarkReady, RequestsKnow, Settled, TypeOK, storage
  <2>3. RowsSettle'
    BY <1>6, <2>1 DEF CompleteMarkReady, RowsSettle, Settled, TypeOK, storage
  <2>4. RequestsKnow'
    <3> SUFFICES ASSUME NEW q \in Requests PROVE RequestsKnow!(q)'
      BY DEF RequestsKnow
    <3>1. CASE q = r
      BY <1>6, <2>1, <2>2, <3>1 DEF CompleteMarkReady, Settled, TypeOK, ReqRecord, storage
    <3>2. CASE q # r
      <4>1. req'[q] = req[q]
        BY <1>6, <3>2 DEF CompleteMarkReady, TypeOK
      <4>2. \A a \in Attachments : Settled(a) => Settled(a)'
        BY DEF StepKeeps, Settled
      <4>3. RequestsKnow!(q)
        BY DEF RequestsKnow
      <4>4. object' = object
        BY <1>6 DEF CompleteMarkReady, storage
      <4> QED BY <1>1, <4>1, <4>2, <4>3, <4>4
    <3> QED BY <3>1, <3>2
  <2> QED BY <1>6, <2>3, <2>4 DEF CompleteMarkReady
<1>7. CASE CompleteEnqueue(r)
  <2>1. Settled(req[r].att) /\ req[r].att \in Attachments
    BY <1>1, <1>7 DEF CompleteEnqueue, RequestsKnow
  <2>2. UNCHANGED <<status, object>>
    BY <1>7 DEF CompleteEnqueue, rows, storage
  <2>3. QueueOK'
    <3>1. CASE NeedsJob(req[r])
      <4>1. JobOK(req[r].att)
        BY <2>1, <3>1 DEF NeedsJob, JobOK
      <4>2. queue' = Append(queue, req[r].att)
        BY <1>7, <3>1 DEF CompleteEnqueue
      <4>3. \A i \in 1..Len(queue') : JobOK(queue'[i])
        BY <2>1, <4>1, <4>2, AppendElements DEF QueueOK, TypeOK
      <4> QED BY <2>2, <4>3 DEF QueueOK, JobOK, Settled
    <3>2. CASE ~NeedsJob(req[r])
      BY <1>7, <3>2 DEF CompleteEnqueue
    <3> QED BY <3>1, <3>2
  <2>4. RequestsKnow'
    BY <1>2, <1>7, <2>2 DEF CompleteEnqueue
  <2> QED BY <1>7, <2>3, <2>4 DEF CompleteEnqueue, rows, storage
<1>8. CASE CompleteAborts(r)
  BY <1>2, <1>8 DEF CompleteAborts, rows, storage
<1> QED BY <1>3, <1>4, <1>5, <1>6, <1>7, <1>8 DEF Complete

\* A retry keeps the job, and forgets what the attempt had reached.
LEMMA RetryInvariant ==
  ASSUME IInv, TypeOK', StepKeeps, NEW w \in Workers, wk[w].pc \in InAttempt, NextAttempt(w)
  PROVE  IInv'
<1> USE Frames DEF IInv
<1>1. JobOK(wk[w].att)
  BY DEF WorkersOK, InAttempt
<1>2. wk'[w].pc \in {"start", "dlq"} /\ wk'[w].att = wk[w].att
  BY DEF NextAttempt, TypeOK, WkRecord
<1>3. \A v \in Workers : v # w => wk'[v] = wk[v]
  BY DEF NextAttempt, TypeOK
<1>4. UNCHANGED <<rows, storage, queue, req, ps>>
  BY DEF NextAttempt
<1>5. WorkersOK' /\ StoredOK'
  BY <1>1, <1>2, <1>3, <1>4 DEF WorkersOK, StoredOK, JobOK, Settled, rows, storage
<1> QED BY <1>4, <1>5 DEF rows, storage

\* Any other step of a worker.
LEMMA WorkerInvariant ==
  ASSUME IInv, TypeOK', StepKeeps, NEW w \in Workers,
         WorkerStep(w) \/ AttemptFails(w) \/ WorkerCrash(w) \/ WorkerStart(w)
  PROVE  IInv'
<1> USE Frames DEF IInv
<1>1. \A a \in Attachments : JobOK(a) => JobOK(a)'
  BY DEF JobOK, Settled, StepKeeps
<1>2. wk[w].pc \notin {"idle", "down"} => wk[w].att \in Attachments /\ JobOK(wk[w].att)
  BY DEF TypeOK, WkRecord, WorkersOK
<1>3. ASSUME \A v \in Workers : v # w => wk'[v] = wk[v],
             wk'[w].pc \in {"idle", "down"}
                \/ (wk[w].pc \notin {"idle", "down"} /\ wk'[w].att = wk[w].att),
             wk'[w].pc = "stored" => thumbObj'[wk'[w].att]
      PROVE  WorkersOK' /\ StoredOK'
  <2>1. \A v \in Workers : wk[v].pc \notin {"idle", "down"} => wk[v].att \in Attachments
    BY DEF TypeOK, WkRecord
  <2>2. WorkersOK'
    BY <1>1, <1>2, <1>3, <2>1 DEF WorkersOK
  <2>3. \A v \in Workers : wk[v].pc = "stored" => wk[v].att \in Attachments
    BY <2>1
  <2>4. StoredOK'
    BY <1>3, <2>3 DEF StoredOK, StepKeeps
  <2> QED BY <2>2, <2>4
<1>4. ASSUME status' = [status EXCEPT ![wk[w].att] = status'[wk[w].att]],
             wk[w].pc \notin {"idle", "down"}
      PROVE  RowsSettle'
  BY <1>1, <1>2, <1>4 DEF RowsSettle, JobOK, Settled, TypeOK, StepKeeps
<1>5. CASE Dequeue(w)
  <2>1. Head(queue) \in Attachments /\ JobOK(Head(queue))
    BY <1>5 DEF Dequeue, QueueOK, TypeOK
  <2>2. QueueOK'
    <3>1. UNCHANGED <<status, object>>
      BY <1>5 DEF Dequeue, rows, storage
    <3>2. \A i \in 1..Len(queue') : JobOK(queue'[i])
      BY <1>5, TailElements DEF Dequeue, QueueOK, TypeOK
    <3> QED BY <3>1, <3>2 DEF QueueOK, JobOK, Settled
  <2>3. WorkersOK' /\ StoredOK'
    BY <1>5, <2>1 DEF Dequeue, WorkersOK, StoredOK, JobOK, Settled, TypeOK, rows, storage
  <2> QED BY <1>5, <2>2, <2>3 DEF Dequeue, rows, storage
<1>6. CASE AttemptSkip(w)
  <2>1. WorkersOK' /\ StoredOK'
    BY <1>3, <1>6 DEF AttemptSkip, IdleWk, TypeOK
  <2> QED BY <1>6, <2>1 DEF AttemptSkip, rows, storage
<1>7. CASE AttemptLoad(w)
  <2>1. WorkersOK' /\ StoredOK'
    BY <1>3, <1>7 DEF AttemptLoad, TypeOK, WkRecord
  <2> QED BY <1>7, <2>1 DEF AttemptLoad, rows, storage
<1>8. CASE MarkProcessing(w)
  <2>1. WorkersOK' /\ StoredOK'
    BY <1>3, <1>8 DEF MarkProcessing, TypeOK, WkRecord
  <2>2. RowsSettle'
    BY <1>2, <1>4, <1>8 DEF MarkProcessing, TypeOK
  <2> QED BY <1>8, <2>1, <2>2 DEF MarkProcessing, storage
<1>9. CASE MakeThumb(w)
  <2>1. WorkersOK' /\ StoredOK'
    BY <1>3, <1>9 DEF MakeThumb, TypeOK, WkRecord
  <2> QED BY <1>9, <2>1 DEF MakeThumb, rows, storage
<1>10. CASE PutThumb(w)
  <2>1. thumbObj'[wk[w].att]
    BY <1>2, <1>10 DEF PutThumb, TypeOK
  <2>2. WorkersOK' /\ StoredOK'
    BY <1>3, <1>10, <2>1 DEF PutThumb, TypeOK, WkRecord
  <2> QED BY <1>10, <2>2 DEF PutThumb, rows
<1>11. CASE UpdateThumbnail(w)
  <2>1. WorkersOK' /\ StoredOK'
    BY <1>3, <1>11 DEF UpdateThumbnail, IdleWk, TypeOK
  <2>2. RowsSettle'
    BY <1>2, <1>4, <1>11 DEF UpdateThumbnail, TypeOK
  <2>3. ThumbStored'
    BY <1>2, <1>11 DEF UpdateThumbnail, ThumbStored, StoredOK, TypeOK, storage
  <2> QED BY <1>11, <2>1, <2>2, <2>3 DEF UpdateThumbnail, storage
<1>12. CASE AttemptUndecodable(w)
  BY <1>12, RetryInvariant DEF AttemptUndecodable, InAttempt
<1>13. CASE AttemptFails(w)
  BY <1>13, RetryInvariant DEF AttemptFails
<1>14. CASE PushToDlq(w)
  <2>1. WorkersOK' /\ StoredOK'
    BY <1>3, <1>14 DEF PushToDlq, TypeOK, WkRecord
  <2> QED BY <1>14, <2>1 DEF PushToDlq, rows, storage
<1>15. CASE MarkFailed(w)
  <2>1. WorkersOK' /\ StoredOK'
    BY <1>3, <1>15 DEF MarkFailed, IdleWk, TypeOK
  <2>2. RowsSettle'
    BY <1>2, <1>4, <1>15 DEF MarkFailed, TypeOK
  <2> QED BY <1>15, <2>1, <2>2 DEF MarkFailed, storage
<1>17. CASE FailLoad(w)
  <2>1. WorkersOK' /\ StoredOK'
    BY <1>3, <1>17 DEF FailLoad, TypeOK, WkRecord
  <2> QED BY <1>17, <2>1 DEF FailLoad, rows, storage
<1>16. CASE WorkerCrash(w) \/ WorkerStart(w)
  <2>1. WorkersOK' /\ StoredOK'
    BY <1>3, <1>16 DEF WorkerCrash, WorkerStart, DownWk, IdleWk, TypeOK
  <2> QED BY <1>16, <2>1 DEF WorkerCrash, WorkerStart, rows, storage
<1> QED
  BY <1>5, <1>6, <1>7, <1>8, <1>9, <1>10, <1>11, <1>12, <1>13, <1>14, <1>15, <1>16, <1>17
  DEF WorkerStep
-----------------------------------------------------------------------------
\* The invariant is inductive.
LEMMA StepInvariant == IInv /\ [Next]_vars => IInv'
<1> SUFFICES ASSUME IInv, [Next]_vars PROVE IInv'
  OBVIOUS
<1>1. TypeOK' /\ StepKeeps
  BY TypeStep, NothingUndone DEF IInv
<1>2. CASE Client
  BY <1>1, <1>2, ClientInvariant
<1>3. ASSUME NEW r \in Requests, Complete(r) PROVE IInv'
  BY <1>1, <1>3, RequestInvariant
<1>4. ASSUME NEW w \in Workers,
             WorkerStep(w) \/ AttemptFails(w) \/ WorkerCrash(w) \/ WorkerStart(w)
      PROVE  IInv'
  BY <1>1, <1>4, WorkerInvariant
<1>5. CASE UNCHANGED vars
  BY <1>1, <1>5, Frames DEF IInv, vars
<1>6. ASSUME NEW k \in Posters, Post(k) PROVE IInv'
  BY <1>1, <1>6, PosterInvariant
<1> QED BY <1>2, <1>3, <1>4, <1>5, <1>6 DEF Next

\* The inductive invariant holds of every run.
THEOREM Invariant == Spec => []IInv
<1> QED BY InitInvariant, StepInvariant, PTL DEF Spec

\* A thumbnail_key always names a stored thumbnail, with any number of
\* workers on duplicate jobs, dying where they may (process.py:114-117).
THEOREM ThumbnailsAreStored == Spec => []ThumbStored
<1>1. IInv => ThumbStored
  BY DEF IInv
<1> QED BY <1>1, Invariant, PTL

\* What create_post checked and what a post links was completed and has its
\* original in storage, whatever happens to the row and to the object between
\* the check and the link and afterwards (posts.py:58-80).
THEOREM PostedCompleted == Spec => []PostedAreCompleted
<1>1. IInv => PostedAreCompleted
  BY DEF IInv, PostedAreCompleted, Linking, PostersKnow, LinksOK, Settled
<1> QED BY <1>1, Invariant, PTL

\* Every queued or running job is for an image whose upload was completed
\* (uploads.py:112-132).
THEOREM JobsAreForCompletedImages == Spec => []JobsAreCompletedImages
<1>1. IInv => JobsAreCompletedImages
  <2> SUFFICES ASSUME IInv, NEW a \in Jobs \cup Underway PROVE JobOK(a)
    BY DEF JobsAreCompletedImages, JobOK, Settled
  <2>1. CASE a \in Jobs
    BY <2>1 DEF IInv, Jobs, QueueOK
  <2>2. CASE a \in Underway
    BY <2>2 DEF IInv, Underway, WorkersOK
  <2> QED BY <2>1, <2>2
<1> QED BY <1>1, Invariant, PTL
-----------------------------------------------------------------------------
(* Who takes a row away from ready. *)

\* Only a worker that holds a job for an attachment withdraws ready from it,
\* with any number of workers, duplicate jobs and crashes: an upload that is
\* completed again, and a request that aborts, never do (repository.py:131, 146).
THEOREM ReadyIsWithdrawnByHolder == Spec => ReadyWithdrawnByHolder
<1>1. ASSUME TypeOK, Next, NEW a \in Attachments, status[a] = "ready", status'[a] # "ready"
      PROVE  a \in Underway
  <2>0. status \in [Attachments -> Statuses]
    BY <1>1 DEF TypeOK
  <2>1. CASE Client
    BY <1>1, <2>0, <2>1 DEF Client, RequestUpload, PutObject, rows
  <2>4. ASSUME NEW k \in Posters, Post(k) PROVE FALSE
    BY <1>1, <2>0, <2>4 DEF Post, PostCheck, PostLink, PostAborts, rows
  <2>2. ASSUME NEW r \in Requests, Complete(r) PROVE FALSE
    BY <1>1, <2>0, <2>2 DEF Complete, CompleteLoad, CompleteReject, CompleteVerify,
         CompleteMarkReady, CompleteEnqueue, CompleteAborts, rows
  <2>3. ASSUME NEW w \in Workers,
               WorkerStep(w) \/ AttemptFails(w) \/ WorkerCrash(w) \/ WorkerStart(w)
        PROVE  a \in Underway
    <3>1. wk[w].pc \in {"loaded", "failing"} /\ a = wk[w].att
      BY <1>1, <2>0, <2>3 DEF WorkerStep, Dequeue, AttemptSkip, AttemptLoad, MarkProcessing,
           MakeThumb, PutThumb, UpdateThumbnail, AttemptUndecodable, NextAttempt, PushToDlq,
           FailLoad, MarkFailed, AttemptFails, WorkerCrash, WorkerStart, rows
    <3> QED BY <3>1 DEF Underway
  <2> QED BY <1>1, <2>1, <2>2, <2>3, <2>4 DEF Next
<1>2. TypeOK /\ [Next]_vars => [\A a \in Attachments :
        status[a] = "ready" /\ status'[a] # "ready" => a \in Underway]_vars
  BY <1>1
<1> QED BY <1>2, TypeCorrect, PTL DEF Spec, ReadyWithdrawnByHolder
-----------------------------------------------------------------------------
(* Who still writes the outcome of a row in processing. *)

\* Worker w holds a job for a, and is not about to leave the row as it is.
Holds(w, a) ==
  /\ wk[w].pc \notin {"idle", "down"} /\ wk[w].att = a
  /\ ~(wk[w].pc = "failing" /\ wk[w].status = "failed")

Outstanding(a) == (\E w \in Workers : Holds(w, a)) \/ a \in Jobs \/ a \in lost

Owned ==
  \A a \in Attachments : status[a] = "processing" /\ ~thumbKey[a] => Outstanding(a)

\* The step of a request: a job that is queued makes a lost one good.
LEMMA RequestOwned ==
  ASSUME TypeOK, Owned, NEW r \in Requests, Complete(r)
  PROVE  Owned'
<1>0. status \in [Attachments -> Statuses] /\ queue \in Seq(Attachments)
  BY DEF TypeOK
<1>1. CASE CompleteEnqueue(r)
  <2>1. UNCHANGED <<status, thumbKey, wk>>
    BY <1>1 DEF CompleteEnqueue, rows
  <2>2. CASE NeedsJob(req[r])
    <3>1. queue' = Append(queue, req[r].att) /\ lost' = lost \ {req[r].att}
      BY <1>1, <2>2 DEF CompleteEnqueue
    <3>2. req[r].att \in Attachments
      BY <2>2 DEF NeedsJob, Attachments
    <3>3. Jobs' = Jobs \cup {req[r].att}
      BY <1>0, <3>1, <3>2 DEF Jobs
    <3> QED BY <2>1, <3>1, <3>3 DEF Owned, Outstanding, Holds
  <2>3. CASE ~NeedsJob(req[r])
    <3>1. UNCHANGED <<queue, lost>>
      BY <1>1, <2>3 DEF CompleteEnqueue
    <3> QED BY <2>1, <3>1 DEF Owned, Outstanding, Holds, Jobs
  <2> QED BY <2>2, <2>3
<1>2. CASE ~CompleteEnqueue(r)
  <2>1. /\ UNCHANGED <<thumbKey, wk, queue, lost>>
        /\ \A a \in Attachments : status'[a] = status[a] \/ status'[a] = "ready"
    BY <1>0, <1>2 DEF Complete, CompleteLoad, CompleteReject, CompleteVerify,
         CompleteMarkReady, CompleteAborts, rows
  <2> QED BY <2>1 DEF Owned, Outstanding, Holds, Jobs
<1> QED BY <1>1, <1>2

\* The step of a worker: it leaves a row in processing only with a thumbnail,
\* or by dying.
LEMMA WorkerOwned ==
  ASSUME TypeOK, WorkersOK, Owned, NEW w \in Workers,
         WorkerStep(w) \/ AttemptFails(w) \/ WorkerCrash(w) \/ WorkerStart(w)
  PROVE  Owned'
<1>0. /\ status \in [Attachments -> Statuses] /\ thumbKey \in [Attachments -> BOOLEAN]
      /\ wk \in [Workers -> WkRecord] /\ queue \in Seq(Attachments)
  BY DEF TypeOK
<1> SUFFICES ASSUME NEW a \in Attachments, status'[a] = "processing", ~thumbKey'[a]
             PROVE  Outstanding(a)'
  BY DEF Owned
<1>a. ASSUME UNCHANGED <<queue, lost>>, \A v \in Workers : v # w => wk'[v] = wk[v],
             status[a] = "processing", ~thumbKey[a], Holds(w, a) => Holds(w, a)'
      PROVE  Outstanding(a)'
  BY <1>a DEF Owned, Outstanding, Holds, Jobs
<1>1. CASE Dequeue(w)
  <2>1. UNCHANGED <<status, thumbKey, lost>> /\ ~Holds(w, a)
    BY <1>1 DEF Dequeue, Holds, rows
  <2>2. \A v \in Workers : v # w => wk'[v] = wk[v]
    BY <1>0, <1>1 DEF Dequeue
  <2>3. Outstanding(a)
    BY <2>1 DEF Owned
  <2>4. CASE a = Head(queue)
    <3>1. Holds(w, a)'
      BY <1>0, <1>1, <2>4 DEF Dequeue, Holds
    <3> QED BY <3>1 DEF Outstanding
  <2>5. CASE a # Head(queue)
    <3>1. a \in Jobs => a \in Jobs'
      <4> SUFFICES ASSUME NEW i \in 1..Len(queue), queue[i] = a PROVE a \in Jobs'
        BY DEF Jobs
      <4>1. queue # <<>> /\ queue' = Tail(queue)
        BY <1>1 DEF Dequeue
      <4>2. i # 1
        BY <1>0, <2>5, <4>1
      <4>3. i - 1 \in 1..Len(Tail(queue)) /\ Tail(queue)[i - 1] = queue[i]
        BY <1>0, <4>1, <4>2
      <4> QED BY <4>1, <4>3 DEF Jobs
    <3> QED BY <2>1, <2>2, <2>3, <3>1 DEF Outstanding, Holds
  <2> QED BY <2>4, <2>5
<1>2. CASE AttemptSkip(w)
  <2>1. UNCHANGED <<status, thumbKey>>
    BY <1>2 DEF AttemptSkip, rows
  <2>2. ~Holds(w, a)
    BY <1>2, <2>1 DEF AttemptSkip, Holds, WorkersOK, JobOK
  <2> QED BY <1>0, <1>2, <1>a, <2>1, <2>2 DEF AttemptSkip
<1>3. CASE AttemptLoad(w) \/ MakeThumb(w) \/ PutThumb(w) \/ PushToDlq(w)
  <2>1. /\ UNCHANGED <<status, thumbKey, queue, lost>>
        /\ \A v \in Workers : v # w => wk'[v] = wk[v]
        /\ wk'[w].att = wk[w].att
        /\ wk'[w].pc \in {"loaded", "made", "stored", "fail"}
    BY <1>0, <1>3 DEF AttemptLoad, MakeThumb, PutThumb, PushToDlq, WkRecord, rows
  <2> QED BY <1>a, <2>1 DEF Holds
<1>4. CASE MarkProcessing(w)
  <2>1. /\ UNCHANGED <<thumbKey, queue, lost>>
        /\ \A v \in Workers : v # w => wk'[v] = wk[v]
        /\ wk'[w].att = wk[w].att /\ wk'[w].pc = "marked"
    BY <1>0, <1>4 DEF MarkProcessing, WkRecord
  <2>2. CASE a = wk[w].att
    <3>1. Holds(w, a)'
      BY <2>1, <2>2 DEF Holds
    <3> QED BY <3>1 DEF Outstanding
  <2>3. CASE a # wk[w].att
    <3>1. status'[a] = status[a] /\ ~Holds(w, a)
      BY <1>0, <1>4, <2>3 DEF MarkProcessing, Holds
    <3> QED BY <1>a, <2>1, <3>1
  <2> QED BY <2>2, <2>3
<1>5. CASE UpdateThumbnail(w)
  <2>1. a # wk[w].att
    BY <1>0, <1>5 DEF UpdateThumbnail
  <2>2. status'[a] = status[a] /\ thumbKey'[a] = thumbKey[a] /\ ~Holds(w, a)
    BY <1>0, <1>5, <2>1 DEF UpdateThumbnail, Holds
  <2> QED BY <1>0, <1>5, <1>a, <2>2 DEF UpdateThumbnail
<1>6. CASE AttemptUndecodable(w) \/ AttemptFails(w)
  <2>1. /\ UNCHANGED <<status, thumbKey, queue, lost>>
        /\ \A v \in Workers : v # w => wk'[v] = wk[v]
        /\ wk'[w].att = wk[w].att /\ wk'[w].pc \in {"start", "dlq"}
    BY <1>0, <1>6 DEF AttemptUndecodable, AttemptFails, NextAttempt, WkRecord, rows
  <2> QED BY <1>a, <2>1 DEF Holds
<1>7. CASE FailLoad(w)
  <2>1. /\ UNCHANGED <<status, thumbKey, queue, lost>>
        /\ \A v \in Workers : v # w => wk'[v] = wk[v]
        /\ wk'[w].att = wk[w].att /\ wk'[w].pc = "failing"
        /\ wk'[w].status = status[wk[w].att]
    BY <1>0, <1>7 DEF FailLoad, WkRecord, rows
  <2> QED BY <1>a, <2>1 DEF Holds
<1>8. CASE MarkFailed(w)
  <2>1. ~Holds(w, a) /\ status'[a] = status[a] /\ thumbKey' = thumbKey
    BY <1>0, <1>8 DEF MarkFailed, Holds
  <2> QED BY <1>0, <1>8, <1>a, <2>1 DEF MarkFailed
<1>9. CASE WorkerCrash(w)
  <2>1. /\ UNCHANGED <<status, thumbKey, queue>>
        /\ \A v \in Workers : v # w => wk'[v] = wk[v]
        /\ Holds(w, a) => a \in lost'
        /\ a \in lost => a \in lost'
    BY <1>0, <1>9 DEF WorkerCrash, Holds, rows
  <2> QED BY <2>1 DEF Owned, Outstanding, Holds, Jobs
<1>10. CASE WorkerStart(w)
  <2>1. UNCHANGED <<status, thumbKey>> /\ ~Holds(w, a)
    BY <1>10 DEF WorkerStart, Holds, rows
  <2> QED BY <1>0, <1>10, <1>a, <2>1 DEF WorkerStart
<1> QED
  BY <1>1, <1>2, <1>3, <1>4, <1>5, <1>6, <1>7, <1>8, <1>9, <1>10 DEF WorkerStep

\* With any number of workers on duplicate jobs, dying where they may, a row
\* without a thumbnail is in processing only while a job for it is in some
\* worker's hands or queued, or died with its worker (worker.py:32,
\* process.py:70-71 and 98-117).
THEOREM ProcessingOwned == Spec => []ProcessingIsOwned
<1>1. Init => Owned
  BY DEF Init, Owned
<1>2. IInv /\ Owned /\ [Next]_vars => Owned'
  <2> SUFFICES ASSUME IInv, Owned, [Next]_vars PROVE Owned'
    OBVIOUS
  <2>0. status \in [Attachments -> Statuses]
    BY DEF IInv, TypeOK
  <2>1. CASE Client
    <3>1. /\ UNCHANGED <<thumbKey, wk, queue, lost>>
          /\ \A a \in Attachments : status'[a] = status[a] \/ status'[a] = "pending"
      BY <2>0, <2>1 DEF Client, RequestUpload, PutObject, rows
    <3> QED BY <3>1 DEF Owned, Outstanding, Holds, Jobs
  <2>2. ASSUME NEW k \in Posters, Post(k) PROVE Owned'
    <3>1. UNCHANGED <<status, thumbKey, wk, queue, lost>>
      BY <2>2 DEF Post, PostCheck, PostLink, PostAborts, rows
    <3> QED BY <3>1 DEF Owned, Outstanding, Holds, Jobs
  <2>3. ASSUME NEW r \in Requests, Complete(r) PROVE Owned'
    BY <2>3, RequestOwned DEF IInv
  <2>4. ASSUME NEW w \in Workers,
               WorkerStep(w) \/ AttemptFails(w) \/ WorkerCrash(w) \/ WorkerStart(w)
        PROVE  Owned'
    BY <2>4, WorkerOwned DEF IInv
  <2>5. CASE UNCHANGED vars
    BY <2>5 DEF vars, Owned, Outstanding, Holds, Jobs
  <2> QED BY <2>1, <2>2, <2>3, <2>4, <2>5 DEF Next
<1>3. Owned => ProcessingIsOwned
  BY DEF Owned, Outstanding, Holds, ProcessingIsOwned, Underway
<1> QED BY <1>1, <1>2, <1>3, Invariant, PTL DEF Spec
=============================================================================
