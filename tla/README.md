# Verification of MiniTTS in TLA+

MiniTTS is an asynchronous text-to-speech service: a FastAPI application takes
a text and a callback URL, charges the user's quota, and queues a Celery task;
workers fetch the audio from the Soprano inference server, store it in S3,
update the job in Postgres and call the client back. This directory models the
parts of it where processes, transactions and messages interleave, checks the
models with TLC, and proves their main safety properties with TLAPS for any
number of users, requests, workers, retries and failures.

## 1. Inventory

### Components, their state and their operations

| Component | Code | State | Operations |
|---|---|---|---|
| Submission endpoint | `api/app/routers/v1/tts.py`, `dependencies.py`, `core/db/queries/{users,jobs,quotas}.py` | `users.quota_tokens_remaining`, `jobs`, `quota_usage_events`; per request: a session with an identity map | `authenticate`, `get_or_create_user`, `lock_user`, `submit`, `create_job`, `create_quota_usage_event` |
| Result and status endpoints | `tts.py` | per request: a session with the job it loaded; the result endpoint holds a row lock on the job until the request ends | `get_job_result` (`get_job`, `get_job_safe`), `get_job_status_from_celery` |
| `tts.synthesize` | `celeryz/tasks.py`, `celeryz/util.py`, `core/db/queries/jobs.py` | `jobs.state`, `error`, `audio_url`; the objects in S3 | `synthesize_audio`, `lock_job_for_processing`, `generate_and_store_audio`, `mark_job_failed` |
| `tts.refund` | `celeryz/tasks.py`, `celeryz/util.py` | the quota tables | `refund_tts_job`, `process_refund` |
| `send_webhook` | `celeryz/tasks.py`, `celeryz/util.py` | `jobs.webhook_attempts` | `send_webhook`, `post_job_to_webhook` |
| Broker, worker pool and result backend | `celeryz/main.py` (`task_acks_late`, `task_reject_on_worker_lost`, `backend`) | ready and unacknowledged messages; a result per task | deliver, acknowledge, retry, redeliver, store a result |
| Soprano server | `soprano/endpoint.py` | `stream_speech_semaphore`, the model | `stream_speech` |
| `HttpxStreamWrapper` | `celeryz/util.py` | `_buffer`, the chunk iterator | `read` |
| Start-up | `api/app/config.py`, `celeryz/{main,s3,pg}.py`, migrations, compose files | connections, the schema | once per process |

### How they interact

* `submit` sends `tts.synthesize` to the broker *before* it commits the job.
* `synthesize_audio` queues `send_webhook` after it committed SUCCESS, and
  `tts.refund` before it commits FAILURE.
* Submissions and refunds meet in the row locks of `users` and
  `quota_usage_events`; synthesis, webhook, result requests and the commit of a
  refund meet in the row lock of `jobs`.
* The worker's upload reads the response of the Soprano server through
  `HttpxStreamWrapper`.
* The status endpoint reads the job's row and the result that Celery stores for
  the task of the job's id; an execution stores it after its body has ended and
  before its message is acknowledged.
* The three tasks retry without limit, and every message is acknowledged late,
  so any of them may run again, also while an earlier execution is alive.

### What is hard

Stale objects in a session that locks a row it loaded before; the row lock of a
job, which ends with the first commit of the task that took it; messages that
overtake commits; workers lost between a commit and the call that follows;
retries of tasks that partly succeeded; two deliveries of one job, one
publishing while the other cleans up; a result stored late, by a worker that
was given up; a response that breaks off in the middle of a read. The `hazards` of `PROJECT.json` list them
line by line, with the properties that would notice.

### What makes each component correct

* Quota accounting: no balance goes negative; a job is charged once and
  refunded at most once, by what it was charged; balances and ledger agree;
  refunds that are due are paid; locks are taken in one order.
* Synthesis: what a client is told about can be fetched; failures are refunded;
  terminal states are final; a job that was queued does not get stuck.
* Webhook: no completion is dropped; the counter of attempts is exact up to
  the faults.
* Soprano: one inference at a time; a truncated stream is not taken for a whole
  one; whoever waits is served, in the order of arrival.
* Stream wrapper: the reads of a stream are the stream, and what is stored is a
  whole one, in parts that S3 takes and in bounded memory.
* Status, result, callback: what a client was given can be fetched for good; the
  status does not rest before the task has returned, and does not go back; the
  callback tells of SUCCESS.

## 2. Modules

| Module | What it is |
|---|---|
| `Ledger` | Abstract specification: what the `quota_usage_events` table promises. |
| `Quota` | The submission endpoint and the `tts.refund` task, on several requests and refund workers. Implements `Ledger`. |
| `MCQuota` | TLC instance of `Quota`. |
| `Sums` | Theorems about the sums of the community modules' folds, with no system in them. |
| `QuotaProofs` | Theorems about `Quota`, and its refinement of `Ledger`. |
| `Pipeline` | One job from its submission to its terminal state: the `tts.synthesize` task, the row, the bucket, the broker. |
| `JobContract` | Abstract specification: what the pipeline promises to those who read a job's row, fetch its audio, pay its refund or await its callback. |
| `PipelineProofs` | Theorems about `Pipeline`, and its refinement of `JobContract`. |
| `ClientView` | `Pipeline` with what a client sees: the stored result, status and result requests, the callback. |
| `ClientViewProofs` | Theorems about `ClientView`, which implements `Pipeline`. |
| `AudioStream` | The audio of one attempt, from the response's pieces through `HttpxStreamWrapper.read` into the stored object. |
| `AudioStreamProofs` | Theorems about `AudioStream`. |
| `Webhook` | The `send_webhook` task of one job, several messages and workers. |
| `WebhookProofs` | Theorems about `Webhook`. |
| `Soprano` | The inference server: requests, the semaphore, inference threads, clients that leave. |
| `FifoPermit` | Abstract specification: what a semaphore with one permit promises to those who ask for it. |
| `SopranoProofs` | Theorems about `Soprano`, and its refinement of `FifoPermit`. |

The components are separate modules because they share little: `Quota`
and `Pipeline` meet in the synthesize message (`sent`, `Pipeline!queue`) and the
refund message (`Quota!SynthesisFails`, `Pipeline!SendRefund`), `Pipeline` and
`Webhook` in the webhook message. Each treats the other's side as something that
may happen at any time, as often as its bounds allow. In particular
`Quota!SynthesisFails` may send a refund for any job whose message exists,
several times, which is more than `Pipeline` does. `Soprano` is the other end of
`Pipeline!Respond` (a response that begins), `Upload` (one that ends properly) and
`StreamFails` (one that does not); a lost worker is a client that leaves.
`AudioStream` is what happens between `Respond` and `Upload`. Its `Break` is
what a client sees of `Soprano!InferenceFails`, and its `StoredIsWhole` is what
lets `Pipeline` take `Upload` for one step. `ClientView` extends `Pipeline`: its
steps are `Pipeline`'s, or leave `Pipeline`'s variables alone.

### Common conventions

* A transaction's writes are applied by its commit action: READ COMMITTED keeps
  them invisible until then. What others notice earlier, its row locks, are
  variables. A blocking `FOR UPDATE` or `UPDATE` is an action that waits for
  the lock; `NOWAIT` and `SKIP LOCKED` are actions for the locked case.
  Foreign keys lock too (`FOR KEY SHARE`), and wait for a row that someone has
  `FOR UPDATE`. For `user_id` this needs no step: whoever inserts into `jobs` or
  `quota_usage_events` has the `users` row already. A job and its USAGE row are
  inserted together. But the REFUND row refers to a job that result requests,
  claims and webhook attempts may have locked: this wait is `InsertRefund`.
* `pc[s]` is where a request or a worker is; each label lies before one
  statement at which others can interfere (a query, a commit, a call to the
  broker, S3 or HTTP).
* A message is a count of ready copies. A worker's copy is its own (`held`)
  until it acknowledges, dies, or the broker gives up on it. `self.retry`
  publishes a new message and then ends the execution, so a worker lost in
  between leaves two copies.
* An injected failure (`Fault`) is enabled while its bound lasts; the code's
  exceptions reach the handlers in the order of its `except` clauses.
* A commit that raises although it took effect is possible: `Unexpected` may
  start after the commit, `DatabaseFails` may have counted. In `Quota` such a
  commit is the commit itself, followed by another copy of the message or by a
  request whose client saw an error.

### Quota and the code

`Authenticate`, `LoadUser`, `CommitUser` are `authenticate` with
`get_or_create_user`; `LockUser`, `Refuse`, `Reserve`, `Enqueue`,
`EnqueueFails`, `CommitSubmit` are `submit` in its order; `Abort` is an
exception or the end of the process at any await, undone by `get_pg_session`.
`cached[s]` is `quota_tokens_remaining` of the `User` object in the session's
identity map. `authenticate` and `submit` share a session (FastAPI caches the
dependency), its sessionmaker sets `expire_on_commit=False`, and `lock_user` does
not ask for `populate_existing`: so `LockUser` does not change `cached`, and
`CommitSubmit` writes `cached - chars`. Refund workers open a fresh session, so
`LockOwner` loads the current balance. `stale` is a history variable, the users
for whom an outdated balance was written back. `LockEvent` through
`CommitRefund` are `process_refund`; its `session.commit()` is two steps,
`InsertRefund`, the flush that waits for the `jobs` row, and `CommitRefund`. Who
else has that row is `Other` (`LockJob`, `UnlockJob`): `get_job_safe` until the
request has ended, `lock_job_for_processing` and `post_job_to_webhook` until
their next commit. They take it with NOWAIT or SKIP LOCKED and wait for no other
row while they have it. `RetryRefund` is the handler of
`refund_tts_job`; `LoseWorker` and `AckRefund` are the late acknowledgement.
Branches that cannot happen (a user that disappears, a duplicate USAGE row) are
left out.

### Pipeline and the code

`Claim`, `ClaimLocked`, `ClaimNothing` are the three results of
`lock_job_for_processing`, which takes any `OperationalError`, a lost connection
as well as a locked row, for locked: hence the `Fault` in `ClaimLocked`. `CommitExecuting` commits, which releases the lock,
and computes the file key, which is new for every attempt
(`time.monotonic_ns()`); keys are numbered by `attempts`. `Respond`, `Upload`,
`Publish`, `Finish` are the good path, `StreamFails`, `StoreFails`, `Delete`,
`DeleteFails` the two `except` blocks. The task's session keeps the attributes
it loaded and writes only the ones that changed, so `Finish` clears the error
only when `seenError` (`ErrorCleared`), and `CommitPending` may leave an equal
message alone. `Announce`, `AnnounceFails`, `Unexpected`, `SendRefund`,
`SendRefundFails`, `ReadMark`, `WriteMark`, `MarkFails` are the rest of
`synthesize_audio`. After SUCCESS was committed, no transaction is open when
`send_webhook.delay` raises; the rollback changes nothing and
`mark_job_failed` sees the session's own SUCCESS, hence the label
`refund only`. `ReadResult` and `EndRead` are a result request holding the row
lock; other short holders of the lock (`post_job_to_webhook`, the commit of a
refund) look the same to the task. `overlapped` is a history variable: two deliveries were processing
the job at the same time. `JobContract` says what all this amounts to for those
outside; its `contested` is `overlapped`, every other variable has the same
name, and the property `ImplementsContract` is the refinement.

### ClientView and the code

`TaskStep` is a step of `Pipeline` by a worker, with what Celery makes of it: an
execution that ends by returning, or by a failure that the task only logs, has
the outcome SUCCESS, one that ends in `self.retry` has RETRY (`OutcomeAfter`).
`Report` stores it; the acknowledgement comes after (`Reported`). As Celery's
backends do, `Stored` leaves SUCCESS alone. `CheckOwner` is the first, unlocked
read of both endpoints, `Status` the choice of
`get_job_status_from_celery`, `LockResult` (which is `Pipeline!ReadResult`),
`RefuseLocked` and `AnswerResult` are the rest of `get_job_result`. `seen` is the
job as the request's session loaded it: the locked query of `get_job_safe` finds
it in the identity map and, without `populate_existing`, does not refresh it, so
the answer may be older than the lock. `Callback` is the POST of
`post_job_to_webhook`, at any time after the message was queued and as often as
`Webhook` may do it. `given` is a history variable, the files that clients were
told about. One request at a time is enough: requests share nothing but the
row lock, which one of them has, and `given`.

### AudioStream and the code

`Yield`, `Stop` and `Break` are the three results of `next(self._iterator)` in the
loop of `read(size)`, `StillShort` its condition, `Result` and `Consumed` the two
slices after it. `Probe` to `NoMoreParts` are the reads that boto3 makes of a file
object that cannot seek: it reads the multipart threshold; if that much is not
there, it puts the object in one request whose body takes the rest with
`read()`, else it makes parts of the bytes read ahead and of further reads,
until a part is empty. A stream is the sequence of its bytes' positions, so a
byte that is lost, repeated or moved shows. `Break` ends the iterator, as a
generator that raised, so that a further read would see the end of the audio;
the exception ends the upload (`Unwinds`), which removes its parts.

### Webhook and the code

`LoadJob` and `SkipLocked` are the SELECT of `post_job_to_webhook`,
`CountAttempt` the commit of the counter, `PostAccepted`, `PostFails` and
`PostRefused` the answers it distinguishes. `Retried` is what `send_webhook`
does with a `FatalError`: the same as with any other exception.

### Soprano and the code

`Enter`, `Wait` and `Exit` are `async with stream_speech_semaphore`; `YieldHeader`,
`YieldChunk`, `Finish` and `InferenceFails` are the body of `stream_speech`,
`Compute` its `await asyncio.to_thread(_next_chunk)`. `thread` is the set of
requests for which a thread is inside `next(generator)`: it is not emptied by a
cancellation. Three assumptions about code outside the repository: a client
that disconnects may cause the response to be cancelled (Starlette listens for
the disconnection while it sends the body); cancelling `to_thread` does not stop the
thread (Python documents it so); a generator abandoned at a `yield` is closed by
the event loop when it is collected (`Finalise`). A client that leaves while it is
waiting leaves the queue; one whose permit was granted, but whose task has not
run yet, hands it on, as `asyncio.Semaphore` does. The pool of threads (five or
more) is not exhausted by the requests of the model. `Line`, the request with
the permit and then the waiters, is the line of `FifoPermit`: `Wait` (or an
`Enter` that finds the permit free) is an arrival at its end, and whoever ends,
fails or disconnects leaves it at the place where it stands.

## 3. Runs

| Run | Module, cfg | Shows |
|---|---|---|
| `quota` | `MCQuota`, `MCQuota.cfg` | `TypeOK`, `NeverNegative`, `AtMostOneRefund`, `EnqueuedBeforeVisible`, `LedgerBalanced`, `LocksInOrder`, `RefundsExact`, `RefundsNotDropped`, refinement of `Ledger` (`ImplementsLedger`), and `RefundsDelivered` under fairness. |
| `quota_overspend` | `MCQuota`, `MCQuotaOverspend.cfg` | `NoOverspend` is violated. |
| `pipeline` | `Pipeline`, `Pipeline.cfg` | `TypeOK`, `AudioNeverDangles`, `FailureIsRefunded`, `SuccessShowsNoError`, `TerminalIsFinal`, `SynthesisNotDropped`, refinement of `JobContract` (`ImplementsContract`), and `QueuedJobsSettle` under fairness. |
| `pipeline_collision` | `Pipeline`, `PipelineCollision.cfg` | `NoCollision` is violated. |
| `pipeline_dropped` | `Pipeline`, `PipelineDropped.cfg` | `SubmittedJobsAreWorkedOn` is violated. |
| `pipeline_announced` | `Pipeline`, `PipelineAnnounced.cfg` | `SuccessIsAnnounced` is violated. |
| `webhook` | `Webhook`, `Webhook.cfg` | `TypeOK`, `AttemptsCovered`, `NeverDropped`, and `AcceptedInTheEnd` under fairness. |
| `soprano` | `Soprano`, `Soprano.cfg` | `TypeOK`, `NoSilentTruncation`, `OverlapsAreStray`, refinement of `FifoPermit` (`ImplementsFifo`), `EveryStepAdvances`, and `RequestsEnd` under fairness. |
| `soprano_overlap` | `Soprano`, `SopranoOverlap.cfg` | `OneInference` is violated. |
| `stream` | `AudioStream`, `AudioStream.cfg` | `TypeOK`, `ReadsAreTheStream`, `StoredIsWhole`, `PartsAreFull`, `MemoryIsBounded`, `EveryStepAdvances`, and `UploadEnds` under fairness. |
| `client` | `ClientView`, `ClientView.cfg` | `ViewTypeOK`, `GivenAudioStays`, `WorkUntilReported`, `CallbackSaysSuccess`, and `ReportedInTheEnd` under fairness. |
| `client_success` | `ClientView`, `ClientViewSuccess.cfg` | `ReportedSuccessIsSuccess` is violated. |

### Bounds, and why they are enough

* `quota`: one user, two requests, texts of 2 or 3 characters, a quota of 4,
  two refund workers, two copies of a refund message per job, and any number of times that others lock a
  jobs row (98,941 states).
  Two long texts do not fit, a refund makes room for another one, two refund
  tasks of one job and of two jobs run together, and a submission runs next to
  both. Users share nothing but the workers.
* `pipeline`: one job, two workers, one result request, three faults (501,475
  states). Jobs share nothing but workers. Two workers are enough for every
  pair of deliveries; three faults allow a redelivery, a failing attempt and a
  lost worker or a failing cleanup in one behaviour. Retries without a fault
  (locked rows) are bounded by the reads.
* `webhook`: two messages, two workers, one read, three POSTs after which the
  client accepts, two faults (102,434 states).
* `soprano`: three requests, texts of up to two chunks (71,126 states): one
  request holds the permit, one waits, and one has left with its thread still
  running; the queue has a first, and a last that may leave before its turn. Two
  requests of one chunk are enough for the overlap.
* `stream`: audio of 0 to 16 bytes in pieces of 2, a threshold of 4 and parts of
  3 (468 states). Parts are no multiple of pieces and do not divide the
  threshold: it is a whole part and a bit of the next one, parts begin and end
  inside pieces, and lengths below, at and above every multiple occur, with a
  break at every piece. The real sizes (1 MB pieces, 8 MB threshold and parts)
  are covered by the proofs.
* `client`: two workers, one result request, two faults, any number of status
  requests and callbacks (579,317 states): one fault gives a second delivery,
  the other makes the first one retry after the second has returned. For
  `client_success` one worker and one fault are enough.

### Fairness

Weak fairness of each worker's next step: a task that was started goes on, the
transactions it waits for end, and result requests end. In `Quota` weak
fairness of each request's steps says that a submission does not stay suspended
for ever with a row locked; it may be refused or fail. The same holds of those
who have a jobs row locked: weak fairness of `UnlockJob`. Others may lock it
again and again, but Postgres wakes a waiter when the row is freed, hence strong
fairness of `InsertRefund`. A ready message is
delivered as long as a worker is idle. With several jobs in one queue that
alone would let one job's message wait for ever while another one is retried;
the broker's queue is first in, first out, hence strong fairness of
`TakeRefund` for each job. In `Quota` a refund may fail any number of times
(`RetryRefund` and `LoseWorker` are bounded by the copies alone), but the
failures stop at some point: `<>[][no Disturb]`. In `Pipeline` and `Webhook`
failures are bounded by a constant, which says the same. No fairness is given to
submissions' failures, to faults or to clients' reads. In `Soprano` the event
loop runs what is ready, the model computes a chunk in finite time, and a client
reads what it is sent or goes away: weak fairness of each request's `Serve`, none
of failures or disconnections. In `AudioStream` the response goes on until it
ends or breaks off, which is `Soprano!RequestsEnd`, and the upload goes on: weak
fairness of `Read \/ Put`. `ClientView` adds to the fairness of `Pipeline` only
that a worker stores the result of what it executed; status requests and
callbacks are under none.

## 4. What the code does not keep

Each is a violation run and a finding in `PROJECT.json` with the line quoted.

1. *Overspending* (`NoOverspend`). `lock_user` serialises requests, but the check
   uses the `User` object loaded before the lock. Two requests of a user that
   both loaded the balance 4 are accepted for 3 characters each. The balance
   stays non-negative (`NeverNegative` holds) because the second deduction
   overwrites the first: the ledger and the balance disagree, which is why
   `LedgerBalanced` is claimed for users outside `stale`.
2. *Two live workers on one job* (`NoCollision`). The lock that the comment in
   `lock_job_for_processing` counts on is gone with the commit of EXECUTING.
   `AudioNeverDangles` shows that it does no harm to the audio, thanks to the
   file keys; `TerminalIsFinal` and `SuccessShowsNoError` hold only without it.
3. *A job that is never worked on* (`SubmittedJobsAreWorkedOn`). A worker faster
   than the commit of the submission finds no row and ends. The job stays
   CREATED, the quota stays charged.
4. *A success nobody hears of* (`SuccessIsAnnounced`). A worker lost between the
   commit of SUCCESS and the queueing of the webhook.
5. *A success that is none* (`ReportedSuccessIsSuccess`). The status endpoint
   prefers the state of the Celery result, and a task returns normally when it
   found no row and when it marked its job FAILURE: a client that polls is told
   success, and the row says CREATED or FAILURE.
6. *Two inferences at once* (`OneInference`). A client that leaves while its chunk
   is being computed frees the semaphore, but not the model. `OverlapsAreStray`
   holds: the second inference is for a client that is gone, and ends with the
   chunk it computes.

Further ones have no run of their own, since the code shows them at once:

* The comment at `soprano/endpoint.py:139-141` wants an inference failure to be
  an HTTP error and not a 200 with a truncated body. The header was yielded
  before the first inference, so it is always a 200 that breaks off. What
  matters to the worker is that it does break off, which `NoSilentTruncation`
  and `StoredIsWhole` say.
* The comment at `util.py:184-186` wants a 4xx other than 408 and 429 to be
  final. `send_webhook` retries a `FatalError` like any exception (`Retried`).
  For a row that is merely locked, which raises it too, this is what saves the
  callback (`NeverDropped`).
* A job may be SUCCESS and refunded: `send_webhook.delay` raises after the commit,
  or a worker is lost between the refund and the FAILURE mark, and the job is
  synthesised again. In the models this is `AnnounceFails` and `LoseWorker`.
* The comment at `tts.py:166-168` wants EXECUTING to be visible to a client that
  polls. After a first retry the stored result RETRY hides it.

## 5. Proofs

All proofs are for arbitrary constants that satisfy the named assumptions:
`QuotaAssumption` (users of requests, texts of at least 2 characters, a natural
quota), `RequestsFinite` (a service has received finitely many requests: the
sums of their charges exist), `PipelineAssumption` (`Free` and `Api` are no
workers, natural bounds), `WebhookAssumption` (the same, and finitely many
workers, for a cardinality), `SopranoAssumption` (`Free` is no request, a natural
bound on chunks), `AudioStreamAssumption` (sizes of at least one byte).
Each module has one inductive invariant `IInv`, shown to hold initially and to
be preserved by each action, and the properties follow from it. TLC has checked
the invariants on the instances of section 3.

* `QuotaProofs`. `AtMostOneRefund` alone is not inductive: a refund worker about
  to commit must know that no REFUND row exists. `LockInv` says which `pc`
  implies which row lock, `JobInv` what a session may rely on while it has that
  lock, `BalanceInv` that a refund worker's cached balance is the current one
  and that a request's cached balance covers its text (which keeps balances
  non-negative even when it is outdated). From it: `TypeOK`, `NeverNegative`,
  `AtMostOneRefund`, `EnqueuedBeforeVisible`, `RefundsExact`, and the refinement
  `ImplementsLedger`, step by step: `CommitSubmit` is `Charge`, `CommitRefund`
  is `Credit`, everything else stutters. `LocksInOrder` is the other direction
  of `LockInv`, with an inductive invariant of its own (`HoldersInv`): it says at
  which labels a session can be that has a row locked. Rows are locked in the
  order USAGE event, user, job. `NobodyWaitsInACircle` draws the conclusion: when
  a session waits for one that waits itself, the second waits for a row of a
  later kind, so chains have at most three members and none closes to a circle.
  Those who have a jobs row on behalf of another endpoint or task wait for
  nothing, which is an assumption of the model, read off their NOWAIT and SKIP
  LOCKED queries.
* The balance sheet (`BooksBalance`, in `QuotaProofs`). `LedgerBalanced` says that
  balances and ledger agree, where a ledger's content is a sum over all
  requests. `KnownInv` adds that only users with a row are charged. A commit
  changes one charge or one refund of one user, so by `Sums!SumOfChanged` it
  changes the sum by that amount, which is what it adds to or takes from the
  balance if what it had cached was current (`RefundsExact` for the refund, the
  definition of `stale` for the charge). `OnlyStaleBalancesOverspend` draws the
  conclusion that finding 1 of section 4 leaves open: the outdated balance is the
  *only* way to overspend.
* `Sums`. The library defines folds by a recursive function over sets, and the
  theorems that give induction over data take an operator as parameter, which
  the installed provers cannot instantiate. The induction is done by hand: a
  table of the sums of all subsets exists (`IsTable`), because among the
  subsets without one there would be one of least cardinality (well-founded
  minimality, cited for a set and not for a predicate).
* `PipelineProofs`. `KeyInv`: the file keys of attempts at work are fresh,
  pairwise different and different from the one in the row, so a cleanup cannot
  delete what a client was told about (`AudioNeverDangles`). `RefundInv`: a
  worker that may mark FAILURE has sent the refund (`FailureIsRefunded`).
  `SoloInv`: without an overlap at most one worker processes the job, the row is
  not terminal, and its error is known to the session. `RowInv`: nobody writes a
  row that is not committed. The last two give `SuccessShowsNoError` and
  `TerminalIsFinal`; all four give the refinement of `JobContract`
  (`PipelineImplementsContract`), where the invariant supplies the guards of the
  abstract actions: `CommitExecuting` is `Attempt`, `Delete` is `Withdraw`,
  `Finish` is `Succeed`, `WriteMark` is `Fail`.
* The safety halves of liveness. `RefundsDelivered` and `QueuedJobsSettle` need
  fairness and stay with TLC, but what could really break them in this code is a
  branch that ends an execution and takes the last copy of the message with it.
  `RefundsAreNotDropped` and `SynthesisIsNotDropped` prove for any number of
  workers, copies and faults that no step does so: as long as there is work to
  do, a copy is ready or with a worker that will finish, retry or give it back.
  (`WebhookIsNotDropped` says the same of callbacks, as a state invariant.)
  Likewise `UploadAdvances` and `RequestsAdvance` are the variants behind `UploadEnds`
  and `RequestsEnd`: natural-valued measures that every step makes smaller, from
  at most `2 * n + 4` for an upload of `n` bytes (`UploadIsShort`), so that
  nothing but standing still keeps an upload or a request from its end.
* What the abstract specifications are worth. `LedgerIsEnough` and `ContractIsEnough`
  prove from `Ledger` and `JobContract` alone the guarantees for whose sake they
  were written (one refund of the charged amount, charges that never change;
  audio that is served, refunded failures, final states): they are not so weak
  that everything implements them.
* `ClientViewProofs`. `StepSimulation` gives `ImplementsPipeline`, so `Pipeline`'s
  invariant holds and is the ground of the rest. `HandedInv`: a file that was
  ever in the row, as a client or a request may have seen it, is public and no
  attempt has its key, also after another delivery replaced it in the row
  (`GivenAudioStays`; `AudioNeverDangles` speaks of the current one only).
  `CarriedInv`: until the result is SUCCESS there is a message, or a worker that
  owns one and will report SUCCESS, retry, or be lost and give it back
  (`WorkUntilReported`). `AnnouncedInv`: without an overlap, who is about to queue
  the callback has committed SUCCESS, and nobody changes it (`CallbackSaysSuccess`).
* `AudioStreamProofs`. `StageInv` says where bytes can be at each stage: in
  particular a first read that was short has left nothing in the buffer and
  nothing on the wire, which makes the `read()` that does not clear the buffer
  harmless. With `ReadsAreTheStream`, `PartInv` and `MemoryInv` it is inductive.
  Concatenation is wrapped in an opaque operator whose laws are lemmas.
* `WebhookProofs`. `CountInv`: whoever is about to count has the lock and a
  current counter; with the cardinality of the posting workers this gives
  `AttemptsCovered`, an exact account: the counter is the POSTs made, plus those
  under way, plus at most one for each fault so far. Neither two deliveries
  at once nor a retry loses or doubles an increment. `CopyInv`: until a POST was
  accepted a copy is ready or with an undecided worker that still owns it; this
  gives `NeverDropped`.
* `SopranoProofs`. `QueueInv`: the waiters are waiting, each once, so handing the
  permit to the head moves exactly one request into the block; `RemoveFacts` is
  the lemma about a waiter that leaves the middle of the queue. `ThreadInv`: a
  thread computes for a request that awaits it or for one that is gone, which
  with the permit of `TypeOK` gives `OverlapsAreStray`. `SentInv` counts pieces
  (`NoSilentTruncation`). `PermitIsFifo` is the refinement of `FifoPermit`;
  its additional invariant `FreeInv` says that nobody waits for a permit that is
  free, without which an arrival could pass those who wait. An exit removes the
  first of the line (`RemoveFirstOfCons`), a waiter that gives up one further
  back (`RemoveLaterOfCons`), and a cancelled waiter that had been granted the
  permit also the first.

The type invariants of `Pipeline` and `Webhook` are split into numbers (`Counts`)
and everything else (`Flags`), since the arithmetic and the Boolean-valued
variables suit different backends.

## 6. Only model-checked

`RefundsDelivered`, `QueuedJobsSettle`, `AcceptedInTheEnd`, `RequestsEnd`,
`UploadEnds` and `ReportedInTheEnd` are liveness under fairness, out of reach of
the prover; section 5 says which safety facts behind them are proved. Every
invariant and every action property of a passing run, and every refinement, is a
theorem. The violations are behaviours found by TLC.

## 7. Not modelled, and what could follow

Left out for good: start-up and configuration, connection setup, schema
migrations, validation of payloads (its result is the set `Lengths`), logging,
timestamps, and the arithmetic of `duration_seconds`: sequential code whose
state does not change afterwards. Celery's own handling of a failing
`self.retry`, the expiry of its results, and RabbitMQ are external; the models
assume that publishing either succeeds or raises, that an unacknowledged message
is delivered again, and that a result is there while clients ask for it.

Two compositions are left to the interface arguments of section 2: `Pipeline`
with `Webhook` over one row (`Callback` stands for `Webhook`'s POST) and `Quota`
with `Pipeline` over the refund message (`Quota!SynthesisFails` allows more than
`Pipeline` does). Their products would multiply the state counts of section 3.

Next in the proofs: an abstract specification of the upload (the object is put
whole or not at all) that `AudioStream` implements, and one of the webhook's
delivery (at least once, counted) for `Webhook`; then the interface argument
between `Quota` and `Pipeline` as a theorem about the refund message.
