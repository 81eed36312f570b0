# FocusProof agent: TLA+ models, runs and proofs

FocusProof lets a learner state a goal, submit evidence and answers, and ask for a
review: an OpenHands agent reads everything through an append-only event log, asks a
question or writes a draft, and the server turns an accepted draft into a score and a
verdict. This directory models the parts of the repository in which a step that is
lost, repeated or taken too late would give a learner the wrong verdict, a second bill,
a lost image, or a server that does not come back. Paths below are relative to
`agent-server/focusproof/` unless they start with `docs/`, `scripts/`, `frontend/` or
`deploy/`.

## 1. Inventory

| Part | State it keeps | Operations | Talks to |
| --- | --- | --- | --- |
| Session service (`api/app.py`, `persistence/`) | `learning_sessions`, `evidence`, `learner_answers`, `reviews`, `audit_events` | create, submit evidence, submit answer, review, read | manager, database, run lock |
| Conversation manager (`openhands_runtime/manager.py`, `locks.py`, `provider_admission.py`) | open handles, active / running / interrupted reviews, accepting flag, provider permits | get_or_restore, send_evidence, send_answer, run_review, interrupt, close, close_all | run lock per session, synchronizer, projector, extractor, SDK |
| Synchronizer (`openhands_runtime/synchronizer.py`) | none of its own: the log's message keys and the rows' `conversation_synced_at` | sync | log, database |
| Projector (`openhands_runtime/projector.py`) | the audit events with a source event | on_event (callback), reconcile | SDK callback, audit log |
| Result extractor and its policy (`openhands_runtime/result_extractor.py`, `image_completion_policy.py`) | review row, session status, two audit events, the lineage of visual facts | extract a question or a completed review; read the lineage back | log, scoring, database |
| OpenHands SDK (external) | the native EventLog | send_message, arun, interrupt, close | callback |
| Scoring (`domain/scoring.py`, `scoring_inputs.py`) | none | score a session | extractor |
| Evidence tools (`openhands_runtime/tools/`) | per conversation an executor of URL checks; per process a fetcher and a bounded pool | verify text, URL, image; ask; draft | SDK agent, registry of providers |
| Writer barrier (`recovery.py`, middleware in `api/app.py`) | two file locks, two marker files | writer_barrier, maintenance_window | every write request, operator scripts |
| Backup and restore (`scripts/ai4c_backup.py`, `scripts/ai4c_restore.py`) | database, conversations, media objects, bundles | create_backup, restore_backup | writer barrier |
| Media ingestion (`media_core/ingestion.py`, `media_application.py`, `persistence/`) | reservations, scan attempts, clean receipts, leases, artifacts, quota | ingest, resume, replay, promote, publish, reference | stores, scanner, codec, run lock |
| Quarantine and object stores (`media_adapters/local_*_store.py`, `media_janitor.py`) | files under a root, a deletion journal | spool, publish, stage, reference, abort, sweep | ingestion, database |
| Speech requests (`speech_application.py`, `persistence/repositories.py`) | request rows with lease owner and generation, resource slots, temporary audio | admit, transition, dispatch, finalize, recover expired | provider, scanner, inspector |
| Speech admission (`api/speech_admission.py`) | gate, registry of tasks, sweeper | open, register, close with grace and fence, sweep | event loop |
| Server lifespan (`api/app.py` lifespan) | what was set up and how far the shutdown came | start, serve, stop | all of the above |
| Identity (`api/oidc.py`, `api/auth.py`, `persistence/providers.py`) | key cache, principals, security audit | verify a token, resolve a principal, audit | every request |
| Frontend (`frontend/`) | composer text, recorder reducer, token in memory, query cache | record, retry, edit, send, review | proxy |

What is hard here:

* **Two logs of one story.** The database and the EventLog are written one after the
  other with a crash possible in between; `message_key`s and `conversation_synced_at`
  make a retry safe, and the projection makes a third copy.
* **A critical section of minutes.** A review holds its session's run lock over an agent
  run; submissions, uploads, cancellations, timeouts and the shutdown all meet it.
* **State read before a wait and used after it**: the scoring facts, the `interrupted`
  set, the table of handles, the outcome of an earlier upload, a fetched signing key, the
  recorder's operation when the browser answers.
* **Threads that outlive their waiters.** A transaction of a speech request or a URL fetch
  goes on in its thread after the coroutine that wanted it gave up.
* **Leases.** Publication of an image, a speech request and a slot are held under leases
  that may run out while their holder is still at work.
* **Files and rows that name each other**, each written in several steps, with a janitor
  that decides from both what nobody needs.
* **Cooperating processes through files**: the writer barrier is shared by the server and
  the operator's backup and restore, either of which may be killed.

One fact about the deployed server bounds what can overlap. It runs one worker
(`deploy/compose.staging.yml`, `--workers 1`), and the middleware of `api/app.py` 225-292
takes the exclusive writer-drain lock around every `POST`, `PUT`, `PATCH` and `DELETE`. While
both hold, write requests do not overlap at all, except when a request's task is cancelled by
force: its review thread goes on after the middleware has given the barrier back (`api/app.py`
1354-1356). The models of sessions, of the manager, of uploads and of identities are models of
the code *below* that middleware: they let calls overlap as this code, its locks and its tests
do, and so show that it does not depend on the middleware.

## 2. Modules

| Module | Models | Used by |
| --- | --- | --- |
| `SessionPromise` | what a session promises its learner, without log, lock or failure | abstract specification of `LearningSession` |
| `LearningSession` | one session: rows, EventLog, projection, run lock, and every call on it | `MCLearningSession` |
| `ConversationManager` | the reviews of one process: admission, locks, permits, interrupts, shutdown | `MCConversationManager` |
| `RecoveryBarrier` | the write middleware, the maintenance window, backup and restore, and the people who crash, kill and repair them | `MCRecoveryBarrier` |
| `ResourceSlots` | the slot rows of a resource kind as operators, one per transaction | instantiated by `SpeechRequests` |
| `SpeechRequests` | transcription requests from admission to the provider's one call, the sweeper, shutdown and restart | `MCSpeechRequests` |
| `MediaPromise` | an idempotency key ends at most one way, and nobody is told of an image before it is there | abstract specification of `MediaIngestion` |
| `MediaIngestion` | uploads of several sessions: reservation, spool, scan, publication lease, staging, publication, reference | `MCMediaIngestion` |
| `DurableFiles` | directories seen by a process and on disk, and what a power loss leaves, as operators | extended by `MediaStores` |
| `MediaStores` | the files of one receipt call by call, and the janitor's sweeps over them | `MCMediaStores` |
| `ScoringRules` | the scorer as pure operators on texts | extended by `EvidenceTools` |
| `EvidenceTools` | what each tool observes of an evidence, as operators | extended by `ReviewVerdict` |
| `ReviewVerdict` | checks and drafts in the log, the policy, the narratives, the verdict and its lineage | `MCReviewVerdict` |
| `UrlChecks` | calls of the URL tool, their fetches, the shared pool and fetcher | extended by `ServerLifespan` |
| `ServerLifespan` | start, service and shutdown of the process around its URL checks | `MCServer` |
| `RequestIdentity` | tokens, key caches, principals and the security audit of requests | `MCRequestIdentity` |
| `SpeechComposer` | the frontend's text box and voice control | `MCSpeechComposer` |
| `*_proofs` | inductive invariants and theorems (section 6) | |

How they compose. `ReviewVerdict` extends `EvidenceTools` extends `ScoringRules`: from a text to
a verdict. `ServerLifespan` extends `UrlChecks`: the executors live in conversations that the
shutdown closes. `SpeechRequests` keeps its slots through an instance of `ResourceSlots`.
`LearningSession` has the last step of an upload as one action, `PublishImage`;
`MediaIngestion` has everything before and after it. `MediaIngestion` treats a store's operation
as done or not done; `MediaStores` takes it apart. `ConversationManager` leaves open what a review
finds in its session, which is `LearningSession`'s. Two refinements are checked:
`LearningSession` implements `SessionPromise`, and `MediaIngestion` implements `MediaPromise`;
both are proved as well.

## 3. How the models correspond to the code

**`LearningSession`.** One session and its conversation. `session`, `evidence`, `confirmed`,
`answers`, `reviews` and `audit` are the rows of the tables, `native` is the OpenHands EventLog,
`open` the entry in the manager's table of handles, `holder` the session's file lock. `pc`, `op`
and `job` are the program counter and the locals of the request thread that holds the lock.
A message is its `message_key`; the text it carries is left out, except that a release before
this one sent evidence without its text (`Legacy`), which the `context` messages repair.

| Actions | Code |
| --- | --- |
| `CreateSession`, `SubmitEvidence`, `SubmitAnswer`, `AskReview` | the handlers of `api/app.py` 1118-1343 with the rows they commit |
| `PublishImage` | the last step of an upload, `media_core/ingestion.py` 259-288 |
| `SessionBusy`, `OpenConversation`, `Reconcile` | `get_or_restore` under the run lock, `manager.py` 467-493, `projector.py` 47-81 |
| `Prepare`, `SendMessage`, `ConfirmMessage`, `SyncDone` | `synchronizer.py` 57-252 |
| `LogEvent`, `ProjectEvent` | the SDK's append and its callback, in either order |
| `LoadScoringFacts`, `PersistQuestion`, `PersistReview`, `ExtractNothing` | `_run_review` (`manager.py` 296-399) and `result_extractor.py` |
| `AgentStep`, `AgentStops` | the SDK's run: any question, draft or check, and an end |
| `CallFails`, `Crash` | an exception under the lock; the death of the process |

A commit is one action, as it is one transaction. A send and the marking of its row are two,
because the process may die in between. A submission's lock, check and commit are one action,
because nobody can see between them.

**`ConversationManager`.** All the reviews of one process, each a thread with its place in
`run_review` (`rpc`), against submissions, interrupts and `close_all`. `active`, `running`,
`interrupted`, `handles` are the manager's sets and dictionaries. What a review finds in its
session is left open (`Decide` may go either way), since `LearningSession` has that. `early` and
`stopped` are history: which reviews were cancelled before they could be interrupted, and which
runs were interrupted.

**`RecoveryBarrier`.** `wpc` follows a write request through `OperationalTelemetryMiddleware`
and `writer_barrier`; `opc` follows a backup or a restore through `maintenance_window`. The two
file locks are `admission` and `drain`, the two marker files `marker` and `incomplete`. A store
is the product's, one bundle's, or missing between two renames. `threads` counts the free
threads of the loop's default executor, which the middleware (`asyncio.to_thread`) shares with
reviews and image uploads (`Threaded`). Taking a lock with its timeout is two actions, one enabled
when the lock is free and one when it is not.

**`SpeechRequests`** (`speech_application.py`, `api/speech_admission.py`, `repositories.py`
1420-2140). `row` is the row of a request with its state, generation, lease and whether the audio
was sent; `slots` the rows of the asr slots; `file` the age of the temporary audio; `calls` counts
what the provider was asked. `pc`, `stage` and `left` are the coroutine, what it believes of its
row, and its deadline. Every change of a row is a transaction in a thread: `jobs` holds those not
yet over, each with the state it goes to, the generation it expects, and whether anybody still
waits. `RunJob` is the thread up to its look at the abandoned flag, `CommitJob` its commit,
`JobFails` a transaction that the database lets down, which its service takes for a failure of the
work (and which nobody hears of once the waiter is gone), `WaitTimesOut` and `Cancel` the
coroutine giving up in between. `Admit` is the middleware with its duplicate, quota and
HMAC-version rules; `Sweep` the sweeper's round; `StartClosing`, `Exit`, `Restart` the process
with a possibly rotated keyring. `Rivals` are requests of other sessions, of which only the slots
they claim and give back are modelled (`RivalClaims`, `RivalReleases`). Time is counted down in
ticks (`Tick`).

**`MediaIngestion`** (`media_core/ingestion.py`, `persistence/repositories.py` 70-660,
`audit_projection.py`). `res`, `art`, `evidence`, `attempt`, `receipt` and `clean` are rows;
`spool`, `formal` and `object` what the stores hold of an upload; `lock` the sessions' run locks.
`pc` follows `ingest` in its order: `Start`, `FindReplay`, `FindPendingReceipt`, `Reserve`,
`WriteSpool`, `RecordScan`, `Claim` and `Refresh` of the publication lease, `PublishPayload`,
`PublishRecord`, `PublishCommit`, `Activate`, `Validate`, `Stage`, `TakeRunLock`, `Finalize`,
`MarkReferenced`, `ConfirmReference` (`Unreferenced` when either fails), with `Reconcile` and
`PublishReplay` for what an earlier attempt left. `Expire` is the passing of any of the three
times, `Cancel` the cancellation gate, `StepFails` and `Crash` the faults.

**`MediaStores` with `DurableFiles`** (`media_adapters/local_quarantine_store.py`,
`local_media_object_store.py`, `media_janitor.py`). `fs` holds the entries a process sees, those on
disk, and those too young to be swept. An operation is the sequence of its file-system calls,
`todo`, put together when it starts and made one by one by `Call`; the janitor's are `calls`, made
by `JanitorCall`, phase after phase in the order of the sweep. `Crash` drops the process or the
power: a directory is then as it was seen or as it was last synced (`Remains`). `Grow` and `Pass`
let files age and the reservation run out.

**`ScoringRules`, `EvidenceTools`, `ReviewVerdict`** (`domain/scoring.py`, the tools,
`result_extractor.py`, `image_completion_policy.py`). A text is what it shares with the goal:
units of the goal, of its title, new ones, a filler phrase, a related term. The thresholds are the
code's, in integers; the count of words and the copy comparison share one notion of unit, and that
a text equal to the goal copies it follows from the thresholds. A tool's observation is what it
may come to for any reading of the evidence and any two responses of the visual model. `Window`,
`PolicyHolds`, `Narratives`, `Lineage`, `ReadsBack`, `PersistReview` are the extractor's
functions. A fact id, a hash in the code, is what is hashed.

**`UrlChecks`, `ServerLifespan`** (`tools/url_evidence.py`, `url_execution.py`, `url_fetch.py`,
`bootstrap`, `api/app.py` 600-870). A call of the tool has a caller (`pc`) and a fetch (`future`,
`work`); the pool has capacity and threads. `Signal` is one interrupt event set while others
are not yet. The start is the list `StartSteps`, each of which may raise what `Raises` says; the
shutdown is `StopSteps`, which an exception leaves (`StopRaises`), and `CleanSteps`, which run
whatever happened.

**`RequestIdentity`** (`api/oidc.py`, `api/auth.py`, the body limit, `persistence/providers.py`).
Each request goes through the cache of its process, a fetch in a thread, its principal, its body
and its route; `written` is what the security audit says of it. The middleware checks identity and
declared size itself (`Tell`); what the application then answers to a write, a refusal, an error or
a success, it collects until the body has ended, and an overflow replaces it whatever it was
(`Answer`): `answer` is what the application said, `told` what the client got. A submission that
finds its session locked is refused before anything is recorded (`Busy`), a review after
(`Refusals`). `Fails` is a database error at any step, with nothing done, `NotReady` a process whose
start failed. `Withdraw` is the issuer's, `SetActive` the operator's.

**`SpeechComposer`** (`frontend/features/evidence/SpeechRecorderControl.tsx`,
`ImageEvidenceForm.tsx`, `speech-recorder-reducer.ts`). `status` is the reducer's; `activeFence`,
`startPending`, `recorder`, `stream`, `aborter`, `retainedFile` are the refs of the control.
`tracks`, `record` and `request` belong to the browser, which answers in its own actions
(`MediaGranted`, `StopEvent`, `TranscriptArrives`...). A handler is one action with the rendering
and the effects it leads to, because React runs them before the browser's next event.

**`SessionPromise`** and **`MediaPromise`** have no code of their own: they are what the detailed
modules are shown to implement.

## 4. Runs

| Run | Asks | Bounds |
| --- | --- | --- |
| `session_text` | `VerdictHeardEveryAnswer`*, `DeliveredOnce`*, `RecordsAreTrue`*, `AgentReadsEveryFact`*, `KeepsPromise`* | 2 calls, 1 text left by the older release, 1 question, 2 versions, 2 agent events, 1 fault; calls symmetric |
| `session_images` | `AuditIsFaithful`*, `ScoredFactsCurrent`*, `StandingDraftSettles` | 2 calls, 1 image, 1 question, 2 agent events, 1 fault |
| `manager` | `PermitsAddUp`*, `ShutdownIsQuiet`*, `WorkEnds` | 2 reviews of different sessions, 1 submission, 2 `close_all`, 1 permit |
| `recovery` | `WindowIsQuiet`*, `TornIsFenced`*, `ClearedOnlyWhole`*, `RequestsEnd` | 3 writers, one of them a review that may be cancelled, 1 backup, 1 restore, 2 threads, 1 crash or kill |
| `speech` | `CalledAtMostOnce`*, `WorkKeepsItsResources`*, `TranscriptIsRecorded`*, `NothingLingers` | 2 requests with one key, 1 request of another session, 2 key versions, 1 slot, quota 2, deadline 2 ticks of which 1 for cleanup, 1 restart |
| `media` | `EvidenceIsSound`*, `PendingIsKept`*, `QuotaHolds`*, `KeepsPromise`* | 2 uploads of any of 3 keys in 2 sessions, 2 bodies, 2 items and 1 distinct image per session, 1 fault |
| `stores` | `NamesAreKept`*, `FirstReferenceIsKept`*, `SourceIsKept`*, `LeftoversGo` | 2 attempts, 1 crash, power loss or failed call |
| `rules` | `ImagesAreNarrated`*, `RecordIsExact`*, `LikelyIffEarned`* | 2 of 3 pieces of evidence, 1 answer, 4 events, 2 runs |
| `server` | `CapacityAddsUp`*, `OffersAreBacked`*, `StoppedIsClean`*, `ChecksEnd` | 2 conversations with a call each, 1 fetch in flight, 1 worker, 2 pools |
| `requests` | `AuditIsExact`*, `OneIdentity`*, `KeyTrustEnds`* | 2 requests of any kind of 1 subject, 2 processes that may not be ready, 2 keys, 1 cache entry kept 1 tick, fetches of up to 1 tick, 1 database error |
| `composer` | `SoundIsOwned`*, `TranscriptLands`*, `StoppedEnds` | 2 sessions, 3 operations, 2 edits |
| `composer_blocked` | the disagreement below | as `composer` |

A star marks a property that is also proved for all values of the constants (those of `NamesAreKept`
and `SourceIsKept` with `Outages` false).

Why these are enough. A message can be doubled or lost only around one interrupted send, so one
fault and one retry by another call show it; two versions of an answer are the least for which a
stale confirmation exists; two agent events are the least for a question or a check that comes
before a draft, or a draft before an answer. Two calls of a session suffice to hold the lock and
to wait for it. One permit and two reviews make one wait for the other, and a second `close_all`
joins the first. With three writers and two threads, two requests can hold both while a third
waits to leave; a larger pool fills up in the same way with more writers. Two requests of one key
are a request and its repetition, before or after a restart under another keyring. The request of
another session competes with them for the one slot: a claim fails while the other side holds it,
and either side may take it over when its lease has run out. It has no row of its own, since no
property asks what becomes of it; `WorkKept` (section 6) is proved for any number of keys, rivals
and slots. `speech_two_keys.cfg` has two keys instead, with both requests in work on rows of their
own, and asks the safety questions; it is not one of the runs, as one run answers for the
component, and liveness with two keys is out of TLC's reach. Two uploads race for one key, for one
image under two keys, and for the last place of a session; three keys give a follower of a key
that is not either's own. A power loss needs one cut, the retry after it one more attempt; what
takes more faults than one is left to the theorems. Four events are a check, a draft, and both
again in a second run. One cache entry makes every second key evict the first. One database error
is enough to let one request miss its row, and is met at any step of either. Three operations put
a late answer of the first and of the second beside a third. The bounds `MaxVersion`, `MaxEvents`,
`MaxFaults`, `MaxRestarts`, `MaxPools`, `MaxRuns`, `MaxEvidence`, `MaxAnswers`, `MaxOps`,
`MaxText` and `Attempts` are guards of the models; the theorems of section 6 hold for every value
of those in their modules.

The systems of one-shot callers do stop when everybody is done, and switch the deadlock check off;
the session runs keep it.

One run shows the code doing other than what a document says (`findings` in `PROJECT.json`).
`composer_blocked`: in a browser that cannot record, a second press of the microphone tells the
form that the control is busy and nothing tells it otherwise, so that it can submit nothing more,
although `PLAN.md` 62 says submission is disabled only while speech is active. A recording that
ends by itself (an unplugged microphone) leads to the same state.

Other disagreements were met while modelling; they have no run of their own:

* A chunked body that turns out too large is answered 413 whatever the application made of it
  (`api/app.py` 455-458), also when that was a 503 because the audit row could not be written
  (505-506) or a 409 before any row (1201): a 413 without the row that `test_security_audit.py` 619
  asks for, in place of the 503 that 755 asks for when the audit is down. The tests try each alone.
  `AuditIsExact` says what holds: the audit has what belongs to the answer the application gave,
  and no effect goes unrecorded.
* An image upload that ends after the review adds evidence to a reviewed session; the threat model
  says new facts are refused (`docs/THREAT_MODEL.md` 111). `SessionPromise` allows it.
* A restore reconciles the audit log but no review row: an accepted draft waits for somebody to
  ask for a review again (`docs/PERSISTENCE_RUNTIME_HARDENING_REPORT.md` 64-65).
  `StandingDraftSettles` assumes somebody does.
* `close_all` walks the table of handles without the lock that protects its writers
  (`manager.py` 445, `docs/THREAT_MODEL.md` 121-122); a conversation restored meanwhile ends it
  before it has waited for anybody. `ConversationManager` has this end as the outcome `error`.
* A review whose request task is cancelled gives the barrier back while its thread is still in the
  session (`api/app.py` 1354, `docs/AI4C_RUNBOOK.md` 116-118). `RecoveryBarrier` has it as
  `abandoned`.
* A publisher of an image whose lease ran out rolls back files its successor may have written
  (`local_quarantine_store.py` 650, `ingestion.py` 745): `EvidenceIsSound` holds since the
  successor validates what it finds; the upload is then refused.
* Where the janitor's question about a record raises, the database being away, the sweep takes that
  for a record it cannot read and removes it (`local_quarantine_store.py` 1127-1130), the source
  being whole and its reservation alive. The constant `Outages` has that behaviour in `MediaStores`,
  and with it `NamesAreKept` and `SourceIsKept` are false; the run and the two theorems about the
  source have it off. Only tests run the janitor so far.
* A publication that fails and is rolled back by calls that fail too, and a power loss that undoes
  a removal that was not synced, can make a source whole again whose deletion is in the journal:
  the next sweep finishes that deletion although the source may be needed
  (`local_quarantine_store.py` 649-657, 1374-1410). It takes two failed calls and a power loss;
  `SourceIsKept` excludes it.
* A reference that finds its link in place and is interrupted may leave the staged copy
  (`local_media_object_store.py` 174-179). `linked` is the history that tells these states apart.

## 5. Fairness

* `LearningSession`: weak fairness on the steps a request thread takes under its lock (`Serve`)
  and on the two halves of adding an event. Nobody is obliged to call, and the agent is not
  obliged to speak; it is obliged to stop, as the review timeout sees to. `StandingDraftSettles`
  assumes besides that reviews keep being asked for: the code has no task that would.
* `ConversationManager`: weak fairness on each review's own steps, on a submission that has
  begun, on a started `close_all` and on an interrupt that has looked its handle up. A wait for a
  permit or a lock ends by its timeout. That a running agent ends is the review timeout again.
* `RecoveryBarrier`: strong fairness on a write request's steps, since the threads it competes
  for come and go and the executor's queue is first-in first-out; weak fairness on an operation's
  steps and on the end of an abandoned review. The waits for the two locks end by their timeout
  of 300 s: without it (the mutant of `RequestsEnd`) a waiting request starves the one inside.
* `SpeechRequests`: weak fairness on each coroutine, on the threads, on time, on the sweeper,
  which runs periodically, and on the restart of a process that ended (the container's restart
  policy). The provider need not answer: the deadline does. That a transaction fails is never
  obliged to happen nor not to.
* `MediaStores`: weak fairness on the upload, on the sweeps, which the janitor repeats, and on
  the two passages of time. A fault is never obliged to happen nor not to.
* `ServerLifespan`: weak fairness on the caller of a URL check only. A fetch or a site need never
  end, and the property says the agent is answered all the same.
* `SpeechComposer`: the browser fires the stop event it has queued, and a request to the server is
  answered or fails. The permission prompt may stay open for ever.

`MediaIngestion`, `ReviewVerdict` and `RequestIdentity` state safety only, and no fairness.

## 6. Proofs

`tlapm` checks every theorem for all values of the constants under the modules' named assumptions
(`SessionAssumption`, `NoneAssumption`, `ManagerAssumption`, `BarrierAssumption`,
`SpeechAssumption`, `IdentityAssumption`, `ComposerAssumption`, `UrlAssumption`,
`ConfigAssumption`, `MediaAssumption`, `StoresAssumption`, `ScoringAssumption`,
`VerdictAssumption`, `ToolsAssumption`, `BlankAssumption`): sets that must be disjoint are, the
bounds are naturals, the sets that are counted are finite, and a text or a response of the visual
model is one.

* **`LearningSession_proofs`**. The properties are not inductive alone. The invariant adds who
  holds the lock and that only the holder is under way (`LockInv`), that the messages still to be
  sent are those of the rows as they are (`TodoInv`), that a synchronisation forgets no answer and
  the facts a review loaded are the stored ones (`FactsInv`), that event ids are unique (`IdInv`),
  and that a message is in the log or on its way but not both (`LogInv`). From it follow
  `SessionTyped`, `ScoredFactsStayCurrent`, `EveryMessageOnce`, `VerdictIsInformed` and
  `TextIsFinal`. The one that matters most, `VerdictIsInformed`, needs nearly all of it: a review
  is stored under the lock from a standing draft, after which no answer is in the log, and by
  `FactsInv` and `LogInv` every stored version is in the log before the agent starts. What the
  rows and the audit need comes after it. A message keeps its shape from the rows to the log
  (`ShapeInv`), so that what was delivered is what its row is marked for (`ConfirmedWasDelivered`,
  inductive with it). A synchronisation forgets no text: what the log lacks is still to be sent
  (`TextInv`). A review past its decision has an open session (`OpenInv`), and the review of a
  question names a question (`AskedInv`), so that the verdict's draft is no source yet and its
  three records are written together (`VerdictRecordsAgree`). The audit gains an entry only for an
  event that has none (`ProjectedOnce`), and the log nothing between a reconciliation and the
  reading of its outcome (`CaughtUpInv`). `RecordsTrue`, `FactsRead` and `AuditFaithful` follow.
  Last, `KeepsItsPromise`: every step maps to a step of `SessionPromise` or leaves its variables
  alone.
* **`Reviews_proofs`**. Of `ConversationManager`: which steps hold the lock (`LockInv`), which
  calls are active (`ActiveInv`) and registered (`RunningInv`), where an early cancellation can be
  (`EarlyInv`) and what a shutdown has reached (`ShutdownInv`). `PermitsConserved` counts the
  running agents as the set changes one by one. Of `ReviewVerdict`, whose variables are its own:
  no tool observes an image successfully with fewer than three facts, whatever the visual model
  answers (`ParseIs`, `InspectIs`, `LookIs`, kept by `LogInv`); a record of a verdict is that of
  the last standing draft, written when the policy held, there is at most one, and nothing is
  added to the log after it (`ReviewInv`), so that what was read off the log stays true of it
  (`LogSame`). `EveryImageNarrated` needs besides that a narrative is that of the oldest usable
  check of its image and that the lineage has one line for each of them (`NarrativesAre`,
  `LineageIs`). For `RecordExact` each kind of alteration is refused on its own: a line that
  agrees with the log is the line of the check it names (`AgreeingIs`), its projection names that
  check, its evidence and its facts in order, and a fact's identity has its place, so a line with
  another source, evidence, digest, length or order disagrees, a line written twice shares its
  facts with itself, and a made-up line has fewer facts than the check it claims. `VerdictEarned`
  adds up the points of the scorer over all its cases (`ScoreIs`). What the folds `FactText` and
  `JoinedAnswers` come to is not needed: the verdict and the property read the same text.
* **`RecoveryBarrier_proofs`**. The drain lock tells who is inside (`DrainInv`); the stores are
  taken apart behind the marker only (`FenceInv`); a verified restore has put every store of its
  bundle in place (`ProgressInv`). `WindowQuiet`, `TornFenced` and `ClearedWhole` follow, and
  `BarrierTyped` with a count of the threads in use.
* **`Speech_proofs`**. Of `SpeechRequests`: a key has one row of a version the process knows
  (`RowsInv`: a version it does not know blocks its start). A service waits for one transaction at
  a time, the one its stage asks for or the last one (`WaitInv`), and a transaction that holds its
  row finds it as it found it (`HeldInv`). What a row's state says of the call is true
  (`SentInv`), and the stage of a service never goes back, so that the call is made at the one
  moment it begins to dispatch (`CallInv`). A transaction that fails changes no row and ends its
  service's wait (`Dropped`, `ErrorKeeps`). `CalledOnce` and `TranscriptRecorded` follow.
  `Keeping` says what a request has while it works: at least the reserve of its time, a lease and
  a slot that last as long as that time, and audio younger than what is left of it; all of these
  run at the pace of the clock, a claim, the request's own or a rival's, takes nobody's slot, and
  the sweeper takes only what is past them. From `KInv` (`IInv` and `Keeping`) follows `WorkKept`,
  with a slot for each call, and for each rival that has one, by counting. Of `SpeechComposer`,
  whose variables are its own: the current operation is the one the reducer speaks of, the form
  knows of it, and its fence is of what is on the page (`CurrentInv`); a fence is of its session
  and of a revision that names one text (`FenceInv`); of one operation the prompt comes first,
  then the recording, then the request (`OrderInv`). `SoundOwned`, `OneAtATime` and
  `TranscriptLandsAlways` follow.
* **`RequestIdentity_proofs`**. `PeopleInv` says that an identified request has the row of its
  subject, whoever inserted it; `Fits` says of each place a request can be in what the audit has
  of it by then, and of an answered one what belongs to its answer. `IdentityIsOne` and
  `AuditExact` follow: a body that turns out too large changes what is told, not what was
  answered. `KeyInv` says of every cached entry of a withdrawn key that the time since and the
  time left are together no longer than an entry and a fetch: each tick moves one to the other.
  `TrustEnds` follows.
* **`ServerLifespan_proofs`**. Of the URL checks, `CallOK` says what a caller, its fetch and the
  pool's capacity have to do with each other; a pool's holders are a finite set that changes one
  by one, which gives `CapacityConserved`. Of the start and the shutdown, `StartInv` says of each
  thing a route uses from which step of the start on it is there (`Behind`), and that nothing
  opens the gate of speech before its slots and its sweeper; `StopInv` says of each thing that is
  closed after which step of the shutdown it is (`Cleaned`), whichever step of either raised.
  `OffersBacked` and `StopsClean` follow, and `ClosedFetchesEnd`: a fetch whose executor is closed
  has its interrupt set, and a fetch with its interrupt set begins nothing more. That is the
  action half of `ChecksEnd`; its other half is liveness.
* **`MediaIngestion_proofs`**. A media object is taken back by two callers only: the upload that
  staged it while it is early, that is before its finalize, and a replay of an outcome that had
  nothing referenced. An artifact and a reference intent name only uploads that are late, past
  their finalize, and no upload becomes early again. So an upload's `seen`, read before a wait, may
  be stale and still does no harm: what it asks for was true of the rows then, and the rows, the
  scans and the objects only go onward. `RowsOnward`, `ScansOnward`, `ObjectsOnward` and
  `ArtOnward` say what onward means, the `Kept` lemmas that what one upload relies on survives
  it, and each action is shown to go onward. `EvidenceSound`, `PendingKept` and `QuotaIsKept`
  follow, the last by counting the keys a step newly makes hold or show something. For
  `KeepsItsPromise` the evidence gains only keys that were not dead, a key once dead stays so, and
  a result is told only of a key with evidence: each step is a `Show` or a `Bury`, perhaps of
  nothing, with at most one `Tell`.
* **`MediaStores_proofs`**. The state is two programs, the calls that the upload and the sweep have
  yet to make, over files that a power loss may turn back. So the invariant speaks of programs.
  `Shapes` says which files each may add, remove and sync; `Ensured` that before its i-th call a
  file is on disk or a call and a sync of the program have put it there, `Cleared` the same of its
  removal; both survive every step of either side that does not touch the file. For the objects:
  while one is staged its manifest is ensured first (`StagingInv`), no program removes a manifest
  before its object is cleared (`NamedInv`), none removes the staged name of the row's object
  before the other name is ensured (`KeptInv`). `ObjectsNamed` and `FirstReferenceKept` follow,
  for any crashes and failures.
  For the source: until the time of the spool is up every file is young and nothing is swept
  (`EarlyInv`), and a publication in which nothing failed is at a known call over known files
  (`PubInv`), so that the marker comes last. A sweep removes payload and record only when the
  marker is durably gone, and the marker only when its removal is in the journal or no attempt runs
  any more (`Orderly`, `CommitInv`); after a crash the journal is resumed before anything else is
  swept (`ResumeInv`); and where the reservation is not over no deletion of a whole source is under
  way (`HalfInv`, `CalmInv`). `NamesKept` and `SourceKept` follow, where the database answers the
  sweep (`Outages = FALSE`). These facts hold while no call has failed; what holds after a failure
  is said by `ObjectInv` and by `HalfInv`.

Only model-checked: all liveness (`WorkEnds`, `RequestsEnd`, `NothingLingers`, `LeftoversGo`,
`StandingDraftSettles`, `StoppedEnds`, the answer that `ChecksEnd` owes the agent): it needs
fairness and `ENABLED`, out of the prover's reach. Every safety property of a passing run is a
theorem, `NamesAreKept` and `SourceIsKept` where the database answers the sweep. Proved of the
folds over a list (the text of a list of facts, the answers joined) is nothing: that is induction
over data, and no theorem rests on it.

## 7. Limits

* The SDK is outside the repository. Its log, callbacks, run and interrupt are modelled from how
  the code uses them, and where the order of two of its effects is not known both are allowed.
* Abstracted: message texts, scores as numbers of a session (they are in `ReviewVerdict`), URLs,
  the bytes of archives, images, audio and manifests, and which error code a failure gives where
  no property asks.
* `MediaIngestion` treats a store's operation as one step except the three files of a promotion;
  `MediaStores` has the calls, with one upload at a time. Their product is out of TLC's reach.
* `ReviewVerdict` runs one review at a time: that reviews of a session exclude each other is
  `LearningSession`'s and `ConversationManager`'s.
* The mode of the manager without a database, `close` of one session and the lineage projection
  of a read route are not modelled. After a question or a draft the agent may stop or go on, which
  is more than the SDK's pause allows.
* Observed while modelling, and promised nowhere: a draft recovered after a timeout may be scored
  with text evidence submitted after it; a question that stands keeps the agent from running
  until it is answered; an interrupt looked up for one review may reach the next one's run;
  `send_evidence` does not read `accepting`; a wait for the locks that times out is answered as
  if a recovery were incomplete; the version guard when a row is marked is redundant under the run
  lock; a backup does not look at the incomplete marker; the speech sweeper writes rows during a
  maintenance window; a restore under a running server leaves conversations open in memory whose
  files were replaced.

Not modelled, and why:

* Scanners, codecs and the adapters of providers: byte-level I/O with external processes; their
  outcomes are inputs of the ingestion and speech models.
* The same-origin proxy: forwards one request at a time and keeps nothing between requests.
* Schema migrations, release gates, evaluation and operator scripts other than backup and restore:
  run by hand, once, without state of the product.
* The parsing of settings, wiring, request validation, read routes and response shapes, the
  assembly of the agent from its tools: sequential code without state.
* The frontend's views, login, and the intents of image submissions in session storage.

## 8. Plan

What a later extension would add, in the order of what a failure would cost:

1. The image submissions of the frontend with their stored intents, against the idempotency keys
   of `MediaIngestion`: a reload between the request and its answer.
2. The read of a session's lineage by the projection route beside a review that is being stored.
3. `close` of one session and the manager's mode without a database.

The number of runs is kept small: one per component asks all its safety questions and its liveness
together.
