# A verification of the social platform

TLA+ models of the backend in `src/backend/app`, TLC configurations that check
them on small instances, and proofs that TLAPS checks for every instance. Every
definition is read off the Python source; comments, docs and `src/openspec` are
only quoted where the code and they disagree.

## 1. The system

A FastAPI application (any number of worker processes), PostgreSQL through
SQLAlchemy sessions, Redis, an object storage, a thumbnail worker process, and a
React frontend.

| Component | State | Operations | Interacts through | What makes it correct |
|---|---|---|---|---|
| Uploads (`api/uploads.py`) | rows of `attachments`, originals in storage | request, PUT, complete, status | queue `media:processing`, storage | a completed attachment has its bytes; what a post links was completed |
| Thumbnail worker (`media_processing/`) | the job in hand, attempts | dequeue, process with retries, DLQ, mark failed | the same rows and storage | a published thumbnail exists; every job ends; `processing` is left; an image that is done is `ready` |
| Posts and fan-out (`api/posts.py`, `feed/service.py`) | `posts`, `post_attachments`, `timeline_entries`, `feed:{user}` | create, list followers, ZADD, commit | follows, feed reads | all followers and nobody else, atomically, before 201 |
| Feed reads (`api/feed.py`, `feed/service.py`) | a cursor held by the client | first page, next page | cache, then Postgres | a scroll misses and repeats nothing |
| Social graph (`api/feed.py`) | `follows` | follow, unfollow | fan-out | a row per pair, nobody follows themselves |
| Chat (`api/chats.py`, `ChatRepository`) | `chats`, `chat_participants`, `messages` | get-or-create, send, list | WebSocket handlers | one chat per pair; stored before sent |
| Real-time bridge (`realtime/`) | registry per process, pub/sub channel, one subscriber task per process | connect, publish, forward | Redis `chat:events` | participants only, once, in one order |
| Presence (`realtime/ws.py`, `api/users.py`) | `online:{user}` with a time to live | set, refresh, delete, list | Redis, registry | shown online while connected, and not long after |
| Accounts (`api/auth.py`, `auth/`) | `users`, signed tokens held by clients | sign up, log in, refresh, use | every endpoint | 409 only for a taken email, whoever wins a race; a session ends when it is not renewed |
| Storage backends, imaging, configuration, migrations | | | | not modelled, see section 8 |
| Chat page (`pages/ChatsPage.tsx`) | the active chat, its messages, the list of chats | navigate, load, receive, send | REST and WebSocket | the active chat's messages, each once, none missing |
| Feed page (`pages/FeedPage.tsx`, `components/Composer.tsx`) | the list shown, its cursor, the text in the box | refresh, load more, type, post | REST | the list is the feed down to its cursor; no text is lost or posted twice |
| Other pages (upload, profile, login) | lists and forms | upload, follow, log in | REST | not modelled, see section 8 |

What is hard here, and what the properties are for:

* **Steps of several processes.** A request holds what its session loaded, or what it
  checked, while a worker or another request changes the row; a subscriber sends to a
  snapshot of connections that come and go while it awaits each send; sessions are created with
  `expire_on_commit=False`, and a second SELECT returns the object already held.
* **Two stores, no common transaction.** Postgres and Redis are written one after
  the other in `create_post`, `complete_upload` and the chat handler.
* **Failure.** A worker dies with a job that BRPOP has removed; a request dies
  between its commits; Redis drops a key; a subscriber task ends and is not
  started again.
* **Races without a constraint.** `get_or_create_chat` selects and then inserts.
* **Answers out of order.** The chat page replaces what it shows by any answer
  that comes, and changes it by frames that come in between; the feed page does
  the same with a refresh, a load-more and a post that are in flight together.
* **Time.** Tokens that nothing but their expiry ends, retries with delays, a key that lives 60 s, URLs that live 900 s.

## 2. Modules

| Module | Models | Root of runs |
|---|---|---|
| `MediaPipeline` | uploads, rows, storage, queue, thumbnail workers | `MCMediaPipeline` |
| `FeedFanout` | create_post, fan-out, cache, follows, scrolls | `MCFeedFanout` |
| `FeedDelivery` | the abstract promise of the feed; `FeedFanout` implements it | |
| `ChatDelivery` | chats, messages, WebSocket handlers, subscribers | `MCChatDelivery` |
| `ChatBroadcast` | the abstract promise of the bridge; `ChatDelivery` implements it | |
| `Presence` | the online key, registries, its handlers on several workers | `MCPresence` |
| `Accounts` | users, signups, tokens over time | `MCAccounts` |
| `ChatWindow` | the chat page of the frontend, against what `ChatDelivery` shows of the server | `MCChatWindow` |
| `FeedList` | the feed page of the frontend, against what `FeedFanout` shows of the server | `MCFeedList` |
| `NewestFirst` | what both pages are made of: rows newest first, a page of them, a list without one id; `ChatWindow` and `FeedList` extend it | |
| `MediaPipeline_proofs`, `FeedFanout_proofs`, `ChatDelivery_proofs`, `Presence_proofs`, `Accounts_proofs`, `NewestFirst_proofs`, `FeedList_proofs`, `ChatWindow_proofs` | theorems | |

`MC*` modules hold only what TLC needs: symmetry sets and the placement of
connections. In `ChatDelivery` and `Presence` a section "What comments and specifications say and
the code does not do" holds the properties of the runs that are expected to fail.

Definitions introduced by the words *Faulty variant* are not part of the models:
each is an action with a plausible mistake in it. Replacing the action of the
model by its variant must make TLC report the property paired with it in
`PROJECT.json`, which shows that the property can tell the two apart.

**Granularity.** One action is what happens between two points at which another
process can intervene: a committed transaction, a SELECT whose result is kept, a
Redis command (or one MULTI/EXEC), a storage access, one `send_json`. Where a
sequence of those is one action of a module, nothing that another action of that
module reads or writes lies between its parts: SELECT and DELETE in `unfollow`,
where a row that vanished in between makes the DELETE fail; SELECT and UPDATE in the
`mark_ready` of a request, which gets the object its session holds, and in
`mark_processing` and `update_thumbnail` for the same reason; and in
`MediaPipeline`, which has no feeds, the post's commit, the links, the fan-out and
the second commit of `create_post` as `PostLink`, after the status check `PostCheck`
(`FeedFanout` has the commits and the fan-out apart). `mark_failed` opens a session
of its own, so its SELECT and its UPDATE are two actions. Inserts that are only flushed are invisible to
others until the commit, so `ListFollowers` computes them and `CommitFanout`
publishes them.

### MediaPipeline

`status`, `thumbKey` are columns of `attachments`; `object`, `thumbObj` the two
storage keys; `queue`, `dlq` the Redis lists; `posted` the attachments linked by
posts. `req[r]` is a request of POST /uploads/{id}/complete: `pc` and the
attributes its session loaded. `wk[w]` is a worker: where in
`process_attachment` it is, the attempt, and the status its session loaded. `ps[k]`
is a create_post and the attachment it has checked. `lost` is a history: the
attachments whose job died with the worker that held it.

`CompleteLoad` → `CompleteReject | CompleteVerify` → `CompleteMarkReady` →
`CompleteEnqueue` are the handler; `CompleteMarkReady` also overwrites the status
the handler will test, because `mark_ready` gets the session's own object.
`PostCheck`, then `PostLink` or `PostAborts`, are `create_post`: between the check
and the link, workers and other requests may change the row, and nobody looks again.
`Dequeue`, `AttemptLoad | AttemptSkip`, `MarkProcessing`, `MakeThumb`,
`PutThumb`, `UpdateThumbnail` are a good attempt; `AttemptFails` (storage or
database, at any point) and `AttemptUndecodable` lead to the next attempt or to
`PushToDlq`, `FailLoad`, `MarkFailed`; an UPDATE that would write the status its own
session loaded is never sent, there as elsewhere. `WorkerCrash` loses the job in hand.

Content is `empty`, `corrupt` or `good`. The signed PUT URL stays valid, so the
object can be overwritten at any time, after completion too.

### FeedFanout and FeedDelivery

`posts` is the sequence of committed posts, an id its index. `timeline`, `linked`
and `cache` are `timeline_entries`, `post_attachments` and the sorted sets. A slot
`pr[k]` runs `create_post`: `CreatePost` (its own commit), `ListFollowers`,
`CacheFanout` (one pipeline), `CommitFanout`, `Respond`; `PostAborts` ends it
anywhere. `rd[u]` is a scroll of user u: `ReadCache`, or `ReadMiss` and
`ReadTimeline`, then `Hydrate`; a full page offers the next, which `ReadMore` asks
for when the user clicks. The histories `steady` and
`window` record who followed the author throughout, and at any time, between the
post's commit and the listing of followers.

`FeedDelivery` knows only published, delivered and acknowledged posts.
`FeedFanout` implements it with `delivered <- linked`: one step, the commit, makes
the post visible in every recipient's durable timeline.

### ChatDelivery and ChatBroadcast

`ws[c]` is the handler of one frame on connection c (`_handle_message`), `rest[s]`
a POST /chats/{peer}. `Matching` is the SELECT, `WsCreate` and `RestCreate` the
INSERT that nothing prevents from doubling. `Persist` commits the message,
`Publish` appends to the channel of every worker whose subscriber is up.
`sub[w]`, `channel[w]`, `cur[w]` are the subscriber task: `Take` a message; for one
recipient after the other `Forward` takes the snapshot of the connections here and
sends to the first (nothing is awaited in between), and each `ForwardOn`, after an
await in which connections opened and closed, sends to the next of the snapshot.
One that opens after the snapshot does not get the message; a send to one that has
closed raises and is swallowed (`Stale`). `SubscriberDies` is an exception of
`get_message`, after which the task is not restarted; `WorkerRestarts` is the
process dying. Two histories: `published` is the order in which Redis took the
messages, and `owed[m]` the connections of participants that were open when m was
published on a worker whose subscriber was up. A connection that closes, or whose
subscriber dies, is owed nothing more; its place in `Conns` and an empty `inbox` are
then there for the next connection of its user.

`ChatBroadcast` knows neither workers nor Redis: there is one `log` of
announcements, and a connection receives a subsequence of those made to its user.
`ChatDelivery` implements it with `log <- Announcements`, computed from
`published`, `messages` and `chats`: `Publish` is `Announce`, each send of a
`Forward` or `ForwardOn` is a `Deliver` of one entry of the log to one connection; a
connection that ends is `Leave`, and everything else stutters. This
one property says that no race, failure or restart carries a message to a third
user, delivers it twice or shows two connections two orders.

### Presence

`Register`, `SetOnline`, `Refresh`, `Leave`, `DeleteOnline` follow
`chat_websocket`; `HandshakeFails` is an exception before its `try`, which leaves
the connection in the registry for good. `Leave` removes the connection and
counts the rest in one step (there is no await), and the DELETE that follows is
another. Time passes in `Tick`.

### Accounts

`users` is the sequence of committed rows. A slot `req[k]` is a signup:
`SignupRefused | SignupCheck` is the lookup, `SignupInsert | SignupConflict` the
commit that the unique constraint on the email decides, `SignupAnswer` the tokens;
`SignupDies` ends it anywhere. `tokens` is every token ever signed: tokens are
stateless, so a renewed session leaves its old tokens good, and `Refresh` and
`CurrentUser` may use any of them for as long as `Valid` (`decode_token`) lets
them. The histories `proved` and `served` say when an email's user last proved
who they are, and was last served, and `renewed` whether the last proof was a refresh
token. Wrong passwords and tokens that were never
signed are refused without a change and do not occur.

### NewestFirst

`Descending(S)` is ORDER BY id DESC, `Newest(S, n)` the same with LIMIT n (the
timeline, the history of a chat), `Without(s, e)` the `prev.filter` of the chat
page. An order is stated by what it is, an enumeration that descends, and not by
the steps of a sort, so that what a page contains can be proved.

### ChatWindow

`stored`, `unsent` and `Publish` are the server: messages get ids when they are
stored and are published later, in any order. `fetches` are the page's requests in
flight; `Answer` is the moment the server computes the answer, `Resolve` the one in
which the page takes it up, `Fail` an exception. `route` is the chat in the URL and
`ref` is `chatIdRef`, which follows in `RunEffects`; between the two, a frame is
judged by the chat that is being left. `Remount` begins a new visit of the page.
The history `races` records what a visit has seen: a switch while a history was
loading (`hurried`), a frame handled meanwhile (`overtaken`), answers of one kind
out of order (`reordered`), a failed request. The properties say under which of
them the code keeps the page right; under the others it does not (section 5).

### FeedList

`refreshes` and `more` are the GET /feed requests in flight, `shown` and `cursor`
what `FeedPage` keeps of their answers, `text` and `composer` the box and its
submit. `AnswerRefresh` and `AnswerMore` are the moment the server computes an
answer, `ResolveRefresh` and `ResolveMore` the one in which the page takes it up:
a refresh replaces the list even while a page is loaded for it, and that page is
then appended to another list. `Insert`, `Deliver`, `Accepted` are `create_post`
as seen from here: the commit, the fan-out, the 201, which clears the box whatever
it holds by then and refreshes. `Refused` is an error after any of these; the text
stays and may be posted again. `Remount` begins a new visit. The server may be
this simple because `FeedFanout` proves it: ids grow, a post enters a feed once
and stays, and an author's own post is there before the 201.

The histories are `basis`, the feed as the last refresh saw it, `posted`, the ids
the page had a 201 for, and `races`: a refresh taken up during a load-more
(`crossed`), an older refresh after a newer one (`reordered`), a failed refresh, a
text typed during a submit (`retyped`), a submit that failed (`refused`).

## 3. Runs

| Run | Shows |
|---|---|
| `media_pipeline` | published thumbnails exist, jobs are for completed images and so is what posts check and link, an attachment in `processing` has a job unless one died with its worker, only a holder withdraws `ready`; with the same exception every job ends in a thumbnail or `failed` |
| `media_duplicate_jobs` | **fails**: two workers with duplicate jobs leave a finished image in `processing` |
| `feed_safe` | delivery to exactly the right users through aborts, the cache never behind Postgres, complete scrolls whose pages repeat nothing, refinement |
| `feed_eviction` | two users posting to each other while keys are evicted: every post arrives, and a page that was asked for is answered |
| `feed_partial_cache` | **fails**: after an eviction a scroll misses posts |
| `chat_delivery` | two tabs on one worker and a connection on another, with handler errors, dead subscribers and restarts: the bridge is one broadcast to participants, a sender's messages stay in order, what is owed is received or under way, and is received in the end |
| `chat_two_rooms` | **fails**: two chats for one pair |
| `presence_tabs` | three tabs of one user over two workers, another user, failures: how long and by whom a user is shown online or offline |
| `chat_window` | two chats, live messages and racing answers: nothing twice, nothing of another chat, nothing received missing, no stale preview, each outside the races that break it |
| `feed_list` | refreshes, load-more and posts in flight together: the list is the feed down to its cursor, own posts are shown, no text is lost or doubled, each outside the races that break it |
| `accounts` | refusals are right in every race, service and sessions end in time |
| `presence_refresh` | **fails**: the refresh does not bring a connected user back online |

**Bounds, and why they are enough.** A retry count of 1 has a first, a further
and a last attempt; the queue bound of 2 lets a duplicate job wait behind one in
hand. `media_pipeline` has one image, one complete and one create_post at a time and
one worker, which may die and come back: its invariants are theorems for any number of
each (and of videos, for which `NeedsJob` and `AttemptSkip` leave nothing to do), so
that two workers, two requests and two jobs at once are covered there; larger
instances, with two workers of which one may die (3,964,200 states) or with two
requests (639,304 states), show TLC no violation of the invariants either but take
longer than a run of the project should. Two workers and no crash are what
`media_duplicate_jobs` needs. Three posts of one author with pages of one post
make a scroll of several pages during which a post arrives; two slots are needed
for concurrent posts. Two messages, written over two connections (`Writers`) of two users on two workers,
exhibit every order of two messages, over one connection or two; two tabs of the
recipient on one worker make a snapshot of more than one connection, which open and
close between the sends; the one REST slot and the handlers race for the chat. The
one chat is between any two of three users, so that there are states in which each
connection must not hear of it; that messages of several chats stay apart is the
theorem `Refinement`, and a second chat of one pair is `chat_two_rooms`. Three tabs
over two workers give two on one worker and one on another; a time to live of 2
ticks has a fresh, an ageing and a dead key. Two slots race for an email, and
lifetimes of one and two ticks in a clock of four let a session be renewed, be
renewed late and run out. Two messages, two chats, pages of one and two requests in
flight give every order of an answer, a frame and a switch. Four posts in pages of
two make a second page, and posts that arrive before and after it is asked for;
two refreshes in flight can overtake each other, and two drafts are enough to type
one over the other. `MaxQueue`, `MaxPosts`, `MaxChats`,
`MaxMessages`, `Writers`, `MaxFetches`, `MaxDrafts`, `MaxRefreshes`, `MaxTime` stop the instance, not the system.

**Deadlock** is checked where the clients can always act; in the chat runs the
bounds on messages and used connections stop the instance, and in `accounts` the
clock does, so it is off there.

## 4. Fairness

`MediaPipeline!FairSpec`: a worker process that runs is scheduled
(`WF(WorkerStep(w))`). The steps of one attempt exclude each other, and
`run_worker` is a loop with no other wait. Nothing is assumed of clients, of
requests, of restarts, or of attempts succeeding: `AttemptFails` may happen
forever, and the attempts still run out.

`FeedFanout!FairSpec`: a request that is being served runs on. `PostsArrive` is
checked with `MayAbort = FALSE`, as a request that dies delivers nothing. Nothing is
assumed of readers but that a GET that is being served runs on: the next page is a
click on "Load older posts" (`FeedPage.tsx:66-74`), which is `ReadMore` and has no
fairness. `ScrollsEnd` therefore says that a page that was asked for is answered, and
that a user who keeps clicking comes to the end.

`ChatDelivery!FairSpec`: a subscriber task that is up goes on (WF of `Take`, `Forward` and `ForwardOn` together): it is a coroutine of an event loop
that waits for nothing but its own sends. Each send is awaited, so this assumes that
a client which stops reading does not hold one up forever: the server's send returns
or raises. Nothing is assumed of handlers, clients or Redis; `OwedArrives` speaks of
messages that are published already.

## 5. What the code does otherwise

Four are runs with a counterexample; `findings` in `PROJECT.json` has the lines.

1. A feed key refilled by one post after an eviction hides the older timeline.
2. Two concurrent `get_or_create_chat` make two chats; from then on
   `scalar_one_or_none` raises for that pair, and a WebSocket that sends to the
   peer is closed.
3. EXPIRE does nothing when the key is gone: a connection silent for 60 s, or
   whose key another worker deleted, stays offline while it is used.
4. `_process_once` checks `thumbnail_key` in one transaction and marks `processing` in
   another: with two workers on duplicate jobs the second takes `ready` away from a
   finished image, and if its attempt fails, its retry finds the thumbnail and leaves
   the row in `processing`.

Where the specifications under `src/openspec/specs` say otherwise and the models follow
the code: `feed/spec.md:45-47` has the 201 of a post sent before the fan-out, done by a
worker from a queue; the code fans out, commits and then answers (`posts.py:76-88`),
and `service.py:3-7` says so. `DeliveredToFollowers`, `ImplementsDelivery` and
`OwnPostsShown` rest on the code's order; a system as specified would keep only
`PostsArrive` of them. `feed/spec.md:41-43` has no timeline row for an author without
followers, who gets one all the same. `user-accounts/spec.md:43-51` has refresh tokens
rotated and revoked; the code keeps no token, so an old one stays good until it
expires, and `Refresh` models that.

Seen while modelling, and reproducible with the models by stating the property,
but not kept as runs: `complete_upload` never skips the enqueue for an attachment
in `processing`, because `mark_ready` has overwritten the status it tests
(`CompleteMarkReady`, then `NeedsJob`); a feed page read between ZADD and commit
has posts without their attachments; on the chat page, a history that answers after
the user moved on is shown in the wrong chat, and one that was computed before a
frame arrived removes that message again; on the feed page, a page that was being
loaded when a refresh came is appended to the refreshed list, with a gap before it
(`crossed`), a text typed while another is being posted is cleared with it
(`retyped`), and a post whose request failed after its commit is made twice when
the user tries again (`refused`); `mark_failed` of a duplicate job whose attempts fail at the
database marks a finished attachment failed; `mark_ready` of a second complete
shows `ready` while the thumbnail is generated; a request that dies between ZADD
and commit leaves a post in the cache that Postgres never had; an attachment that
a worker took out of `ready` after the check is linked to the post, as is one whose
object was overwritten; a message stored while a worker's subscriber is not subscribed is lost
to the connections of that worker. Outside the models: `api.ts` parses the empty
204 of an unfollow as JSON, so the profile page reports an error for an unfollow
that was done, and the posts of a profile come without the `attachments` that the
frontend's type promises; and a WebSocket authenticates once, when it is opened, so it
is served past the expiry of its token (`ServedRecently` is about HTTP requests).

## 6. Proofs

All theorems are about arbitrary constants; the assumptions are the named ASSUMEs
of the modules, which TLC evaluates on every run.

**MediaPipeline_proofs.** `ThumbStored` alone is not inductive: `UpdateThumbnail`
writes the key on the strength of an earlier `PutThumb`. `IInv` adds that a worker
in `stored` has stored (`StoredOK`), that a row past `pending` has its original
(`RowsSettle`), what a request in flight knows of its row (`RequestsKnow`), and
that every queued or running job is for such an image (`QueueOK`, `WorkersOK`).
The common argument (`NothingUndone`, `Frames`) is that no step ever removes an
object or takes a row back to `pending`; each group of actions has one lemma.
`PostersKnow` and `LinksOK` carry the same fact through a `create_post`, from its check
to its link and after it. Theorems: `TypeCorrect`, `ThumbnailsAreStored`,
`PostedCompleted`, `JobsAreForCompletedImages`, `ReadyIsWithdrawnByHolder`.
`ProcessingOwned` needs an invariant of its own, `Owned`: a row without a thumbnail that is in
`processing` has somebody who will still write its outcome (`Outstanding`), which is a
worker that `Holds` it at a point from which it comes to a `MarkFailed` that does write
or an `UpdateThumbnail`, a queued job, or a job recorded as lost. A worker that skips
its job leaves nothing behind because it skips only where there is a thumbnail. All
hold with any number of workers, any of which may die. That a finished image is
`ready` does not (section 5).

**FeedFanout_proofs.** `DeliveredToFollowers` speaks of posts that are already
acknowledged or delivered; `IInv` follows a post there. A slot owns its post
(`OwnPost`); until the listing, whoever follows the author lies between `steady`
and `window` (`CreatedOK`), afterwards whoever was listed does (`ListedOK`): this
is where a follow or unfollow that races with `create_post` is dealt with. The
post is not delivered before its slot commits (`UndeliveredOK`) and is with every
recipient after it (`CommittedOK`), so a `Respond` acknowledges only what is
delivered. Theorems: `TypeCorrect`, `Delivered`, with aborts and evictions;
`Distinct`, since nobody follows themselves; `CacheCovers`, which assumes
`MayEvict = FALSE` and adds that between the ZADDs and the commit the post is
cached for all recipients; `Refinement`, the implementation of `FeedDelivery`,
where `CommitFanout` is `Deliver(post, to)`, `Respond` is `Acknowledge`,
`CreatePost` is `Publish` and everything else stutters; and `ScrollsAreComplete`,
again without evictions. There, a scroll has been shown, of what was in the timeline
when it began, all that is not below its cursor: `ScrollStep` carries this over a page whichever
store it came from (`CacheCovers` makes the cache a superset of the timeline), and
`PageHasNoGap` is the step itself, for a set of at most Limit greatest ids below a
cursor. That each next cursor is
an id again, which `TypeCorrect` needs, rests on a non-empty set of naturals
having a least element (well-foundedness, from the library).

**Accounts_proofs.** `IInv` adds one conjunct to the properties, `TokensOK`: no
token lives longer than its lifetime from the last time its user proved who they
are, and no such time is in the future. `ServedRecently` is then what the expiry
check makes of it, and `SilenceEndsSession` follows step by step: a `Refresh` needs a
token that by `TokensOK` has run out. Theorems: `TypeCorrect`, `RefusalIsRight`,
`ServiceEnds`, `SilenceEnds`.

**Presence_proofs.** None of the three properties is inductive. `IInv` adds that
the clock of a served user stands at zero, that a leaked registry entry is a
recorded failure, and that a connection alone since its SET is the only handler
of its user and has used up no more of the key's life than it was silent.
`GoneIsOffline` rests on `NoneCounted`: a count other than zero names another
registered handler, which will do its own count later. Theorems: `TypeCorrect`,
`RecentlyOnline`, `GoneGoesOffline`, `AloneIsOnline`.

**ChatDelivery_proofs.** `Inv` has four parts. `TypeInv` adds to `TypeOK` that the
counters of slots in use leave room (`Room`: the bounds count handlers that will
insert, so no append passes them) and that every id held names a committed row
(`Rows`). `Log` says that `published` repeats nothing, has each connection's messages
in the order of their ids and lacks what a handler has still to publish; `Flow` that
each worker's channel is in the order of `published`, that the message in hand comes
before it and what the connections there received before both, the message in hand
only where it is no longer `Due`; and `Owed` that what a connection is owed is in one
of these three places. `HandInv` carries them over one send, whether it is the first to a
recipient or a later one of the snapshot (`ForwardHands` shows that both are such
steps), and `StaleKept` over a connection that leaves in between. `Flow` is the heart: from it follow that a delivery is new and later than all before it, which
the `Deliver` of `ChatBroadcast` demands, and the order of one sender, whose
messages enter `published` in the order of their ids. Theorems: `TypeCorrect`,
`SenderOrderHolds`, `OwedIsReceivedHolds`, `Refinement`, all with failures and
restarts at any point.

**NewestFirst_proofs.** `NewestProperties`: a page holds rows of the set,
descending and each once, and a row it lacks is older than all of a full page;
`WithoutProperties`: a list filtered by an id loses that id only. Both rest on the
`CHOOSE` of `Descending` having something to choose, a descending enumeration of
every finite set of ids (`DescendingExists`). That is an induction over the size of
the set, done by the least counterexample: of the sizes that have a set without an
enumeration take the least, remove the least id from such a set, enumerate the rest
and put the id behind it.

**FeedList_proofs.** `TextInv` splits a draft's life: `Kinds` gives the values,
`Kept` says that a draft that is neither in the box nor in the feed was typed over
or away, and `Once` that a draft has no copy before its submit inserts one and, with
no submit refused, one after. Theorem: `TextIsPostedHolds`, for any numbers of posts,
texts and requests.

For the list, `ListIsFeed` is not inductive: a refresh that is taken up while a page
is loading would replace the list, and nothing in the property says that the page
still goes below it. `ListInv` adds `FullAbove`: a full page of what the last refresh
saw lies at or above the cursor and above the cursor a load-more was sent with, and
since feeds only grow a later first page ends no lower (`Ordered`). `Complete` says
what a load-more in flight was asked for and that its answer is from at least the
feed the list came from; `Awaited` that an accepted post is in a refresh under way, or listed
or pushed off by a page of newer ones, which a longer list keeps (`NewerGrow`).
Theorems: `TypeIsInvariant`, `ListIsFeedHolds`, `OwnPostsShownHolds`.

**ChatWindow_proofs.** The properties speak of a page with nothing in flight; `IInv`
says what must be in flight for them to come true. `InOneChat`: a history in flight
is of its own chat and repeats nothing. `Following`: while the user does not hurry
there is at most one history in flight, for the chat that frames are compared with,
and when there is none only that chat is shown. `Caught`: while no frame comes during
a load, what came is in the history once that is answered, or in what is shown.
`Previewed`: of the requests for the list of chats there is one from which on all are
answered after the message was stored, or the list has it already: a frame puts such a
request at the end, a list that resolves in its turn is either before that one or has
the message, and one that resolves early counts as `reordered`. Theorems:
`TypeIsInvariant`, `NoRepeatsHolds`, `OnlyActiveChatHolds`, `ReceivedIsShownHolds`,
`PreviewIsFreshHolds`, for any chats, page size and number of messages and requests.
`NoRepeatsHolds` has no exceptions, whatever the page goes through.

## 7. Only model-checked

Liveness (`JobsResolve`, `ProcessingEnds`, `PostsArrive`, `ScrollsEnd`,
`OwedArrives`): the prover does not handle fairness. Every invariant and every
property of steps that a passing run checks is also a theorem.

## 8. Not modelled

Ownership checks and 4xx answers that change nothing; signed URLs, S3 and local
file I/O, path checks; Pillow's arithmetic; JSON and schemas; configuration and
migrations; users and posts being deleted, which no endpoint does; GET endpoints
that only read committed rows. The upload, profile and login pages; two tabs of one
browser with two logins, whose pages share the stored tokens (`api.ts:72`). A commit that raises is taken not to have
committed. Redis commands either take effect or fail before; only a failing
handshake of `Presence` and the DLQ push allow both.

## 9. Plan

1. (done) `MediaPipeline`, `FeedFanout` with `FeedDelivery`, `ChatDelivery` with
   `ChatBroadcast`, `Presence`, `Accounts`, `ChatWindow`, `FeedList`, and proofs about
   all of them.
2. The upload page with its polling of the status, as the client of `MediaPipeline`;
   `ChatBroadcast` as the server of `ChatWindow`.
