------------------------------ MODULE Pipeline ------------------------------
(***************************************************************************)
(* The life of one synthesis job: its submission by the API, the           *)
(* tts.synthesize task that Celery workers execute for it                  *)
(* (celeryz/src/celeryz/tasks.py, synthesize_audio, and util.py,           *)
(* generate_and_store_audio), the jobs row in Postgres, the audio object   *)
(* in S3, and the refund and webhook tasks it leads to.                    *)
(*                                                                         *)
(* Jobs share nothing but the workers, so one job is enough; any worker    *)
(* may execute any copy of its message.  A copy is acknowledged when the   *)
(* task ends (task_acks_late), so a worker that dies, or that loses its    *)
(* connection to the broker and works on, leaves it to another worker.     *)
(*                                                                         *)
(* Writes to the row are applied when they commit.  Between the claim,     *)
(* which commits EXECUTING and thereby gives up the row lock, and the last *)
(* commit of the task the row is not locked.                               *)
(***************************************************************************)
EXTENDS Naturals

CONSTANTS
  Workers,    \* worker processes
  Free,       \* nobody holds the row lock
  Api,        \* GET /v1/{job_id}/result holds the row lock
  MaxReads,   \* bound: number of such requests
  MaxFaults   \* bound: failed calls, lost workers and duplicated deliveries

ASSUME PipelineAssumption ==
  /\ Free \notin Workers /\ Api \notin Workers /\ Free # Api
  /\ MaxReads \in Nat
  /\ MaxFaults \in Nat

NoFile == 0    \* audio_url is NULL; the file keys are 1, 2, ...

VARIABLES
  submission,  \* "open", "enqueued", "committed" or "rolled back"
  state,       \* jobs.state, "none" while no row is visible
  error,       \* jobs.error is not NULL
  audio,       \* the file key in jobs.audio_url
  lock,        \* holder of the row lock
  queue,       \* ready copies of the tts.synthesize message
  pc,          \* pc[w]: where worker w is in synthesize_audio
  held,        \* held[w]: w's copy of the message is still its own
  key,         \* key[w]: file_key of w's attempt
  seenError,   \* seenError[w]: error of the row as w's session loaded it
  attempts,    \* file keys handed out
  stored,      \* keys of the objects in the bucket
  public,      \* those readable by anyone
  refund,      \* a tts.refund message was sent
  webhook,     \* a send_webhook message was sent
  reads, faults,
  overlapped   \* history: two workers processed the job at the same time

row     == <<state, error, audio>>
broker  == <<queue, held>>
session == <<key, seenError, attempts>>
bucket  == <<stored, public>>
outbox  == <<refund, webhook>>
vars == <<submission, row, lock, broker, pc, session, bucket, outbox,
          reads, faults, overlapped>>

Eligible == {"created", "pending", "executing"}
Terminal == {"success", "failure"}

(* w may still write to the row because of what it has already done.       *)
Processing(w) ==
  pc[w] \in {"claimed", "request", "upload", "publish", "finish",
             "refund", "mark", "write"}

Goto(w, label) == pc' = [pc EXCEPT ![w] = label]
Fault == faults < MaxFaults /\ faults' = faults + 1

(* Worker w starts to process the job.                                     *)
Enter(w) ==
  overlapped' = (overlapped \/ \E v \in Workers \ {w} : Processing(v))

Init ==
  /\ submission = "open"
  /\ state = "none" /\ error = FALSE /\ audio = NoFile
  /\ lock = Free
  /\ queue = 0
  /\ pc = [w \in Workers |-> "idle"]
  /\ held = [w \in Workers |-> FALSE]
  /\ key = [w \in Workers |-> NoFile]
  /\ seenError = [w \in Workers |-> FALSE]
  /\ attempts = 0
  /\ stored = {} /\ public = {}
  /\ refund = FALSE /\ webhook = FALSE
  /\ reads = 0 /\ faults = 0
  /\ overlapped = FALSE

-----------------------------------------------------------------------------
(* The API.                                                                *)

(* send_task comes before the commit of the row.                           *)
Enqueue ==
  /\ submission = "open"
  /\ submission' = "enqueued"
  /\ queue' = queue + 1
  /\ UNCHANGED <<row, lock, held, pc, session, bucket, outbox, reads, faults,
                 overlapped>>

CommitSubmit ==
  /\ submission = "enqueued"
  /\ submission' = "committed"
  /\ state' = "created"
  /\ UNCHANGED <<error, audio, lock, broker, pc, session, bucket, outbox,
                 reads, faults, overlapped>>

(* send_task or the commit raises, or the API process dies.                *)
RollbackSubmit ==
  /\ submission \in {"open", "enqueued"}
  /\ submission' = "rolled back"
  /\ UNCHANGED <<row, lock, broker, pc, session, bucket, outbox, reads,
                 faults, overlapped>>

(* get_job_safe locks the row for the rest of the request.                 *)
ReadResult ==
  /\ reads < MaxReads
  /\ state # "none"
  /\ lock = Free
  /\ lock' = Api
  /\ reads' = reads + 1
  /\ UNCHANGED <<submission, row, broker, pc, session, bucket, outbox, faults,
                 overlapped>>

EndRead ==
  /\ lock = Api
  /\ lock' = Free
  /\ UNCHANGED <<submission, row, broker, pc, session, bucket, outbox, reads,
                 faults, overlapped>>

-----------------------------------------------------------------------------
(* The broker and the workers' processes.                                  *)

Deliver(w) ==
  /\ pc[w] = "idle"
  /\ queue > 0
  /\ queue' = queue - 1
  /\ held' = [held EXCEPT ![w] = TRUE]
  /\ Goto(w, "claim")
  /\ UNCHANGED <<submission, row, lock, session, bucket, outbox, reads,
                 faults, overlapped>>

(* The broker gives up on w, whose connection or acknowledgement timed     *)
(* out, and delivers the message again.  w works on.                       *)
Redeliver(w) ==
  /\ pc[w] # "idle"
  /\ held[w]
  /\ Fault
  /\ queue' = queue + 1
  /\ held' = [held EXCEPT ![w] = FALSE]
  /\ UNCHANGED <<submission, row, lock, pc, session, bucket, outbox, reads,
                 overlapped>>

AckedOnReceipt(w) == queue
AckedLate(w) == IF held[w] THEN queue + 1 ELSE queue

StillLocked(w) == lock
Unlocked(w) == IF lock = w THEN Free ELSE lock    \* w's transaction ends

(* w dies: its transaction is rolled back, its message goes back.          *)
LoseWorker(w) ==
  /\ pc[w] # "idle"
  /\ Fault
  /\ queue' = AckedLate(w)
  /\ held' = [held EXCEPT ![w] = FALSE]
  /\ lock' = Unlocked(w)
  /\ Goto(w, "idle")
  /\ UNCHANGED <<submission, row, session, bucket, outbox, reads, overlapped>>

(* self.retry: publish the task again, then end this execution.            *)
Retry(w) ==
  /\ pc[w] = "retry"
  /\ queue' = queue + 1
  /\ Goto(w, "ack")
  /\ UNCHANGED <<submission, row, lock, held, session, bucket, outbox, reads,
                 faults, overlapped>>

Ack(w) ==
  /\ pc[w] = "ack"
  /\ held' = [held EXCEPT ![w] = FALSE]
  /\ Goto(w, "idle")
  /\ UNCHANGED <<submission, row, lock, queue, session, bucket, outbox, reads,
                 faults, overlapped>>

-----------------------------------------------------------------------------
(* generate_and_store_audio.                                               *)

DroppedWhenLocked == "ack"
RetriedWhenLocked == "retry"

(* lock_job_for_processing, NOWAIT: another transaction has the row, or    *)
(* another OperationalError (a lost connection), which it takes for that.  *)
ClaimLocked(w) ==
  /\ pc[w] = "claim"
  /\ \/ state \in Eligible /\ lock # Free /\ UNCHANGED faults
     \/ Fault
  /\ Goto(w, RetriedWhenLocked)
  /\ UNCHANGED <<submission, row, lock, broker, session, bucket, outbox,
                 reads, overlapped>>

AlsoTerminal == {"created", "pending", "executing", "success", "failure"}
Claimable == Eligible

(* There is no row, or its state is terminal: nothing to do.               *)
ClaimNothing(w) ==
  /\ pc[w] = "claim"
  /\ state \notin Claimable
  /\ Goto(w, "ack")
  /\ UNCHANGED <<submission, row, lock, broker, session, bucket, outbox,
                 reads, faults, overlapped>>

Claim(w) ==
  /\ pc[w] = "claim"
  /\ state \in Claimable
  /\ lock = Free
  /\ lock' = w
  /\ seenError' = [seenError EXCEPT ![w] = error]
  /\ Enter(w)
  /\ Goto(w, "claimed")
  /\ UNCHANGED <<submission, row, broker, key, attempts, bucket, outbox,
                 reads, faults>>

KeyOfJob == 1
FreshKey == attempts + 1    \* job.id and time.monotonic_ns()

(* EXECUTING is committed, which releases the lock, and the attempt gets   *)
(* its file key.                                                           *)
CommitExecuting(w) ==
  /\ pc[w] = "claimed"
  /\ state' = "executing"
  /\ lock' = Unlocked(w)
  /\ key' = [key EXCEPT ![w] = FreshKey]
  /\ attempts' = attempts + 1
  /\ Goto(w, "request")
  /\ UNCHANGED <<submission, error, audio, broker, seenError, bucket, outbox,
                 reads, faults, overlapped>>

(* Back to PENDING with a message.  An UPDATE waits for the row lock.  The *)
(* session writes an attribute only when it differs from what it loaded,   *)
(* so a message like the one already there is not written.                 *)
CommitPending(w) ==
  /\ lock = Free
  /\ state' = "pending"
  /\ error' \in {TRUE} \cup (IF seenError[w] THEN {error} ELSE {})
  /\ UNCHANGED audio

(* A status other than 200, or httpx.RequestError at any point of the      *)
(* stream: S3 keeps nothing of an upload whose source failed.              *)
StreamFails(w) ==
  /\ pc[w] \in {"request", "upload"}
  /\ Fault
  /\ CommitPending(w)
  /\ Goto(w, "retry")
  /\ UNCHANGED <<submission, lock, broker, session, bucket, outbox, reads,
                 overlapped>>

Respond(w) ==
  /\ pc[w] = "request"
  /\ Goto(w, "upload")
  /\ UNCHANGED <<submission, row, lock, broker, session, bucket, outbox, reads,
                 faults, overlapped>>

Upload(w) ==
  /\ pc[w] = "upload"
  /\ stored' = stored \cup {key[w]}
  /\ Goto(w, "publish")
  /\ UNCHANGED <<submission, row, lock, broker, session, public, outbox, reads,
                 faults, overlapped>>

(* get_object_attributes, then put_object_acl with public-read.            *)
Publish(w) ==
  /\ pc[w] = "publish"
  /\ public' = public \cup {key[w]}
  /\ Goto(w, "finish")
  /\ UNCHANGED <<submission, row, lock, broker, session, stored, outbox, reads,
                 faults, overlapped>>

(* ClientError: PENDING, then an attempt to delete what was uploaded.      *)
StoreFails(w) ==
  /\ pc[w] \in {"upload", "publish"}
  /\ Fault
  /\ CommitPending(w)
  /\ Goto(w, "cleanup")
  /\ UNCHANGED <<submission, lock, broker, session, bucket, outbox, reads,
                 overlapped>>

Delete(w) ==
  /\ pc[w] = "cleanup"
  /\ stored' = stored \ {key[w]}
  /\ public' = public \ {key[w]}
  /\ Goto(w, "retry")
  /\ UNCHANGED <<submission, row, lock, broker, session, outbox, reads, faults,
                 overlapped>>

(* The failure of delete_object is only logged.                            *)
DeleteFails(w) ==
  /\ pc[w] = "cleanup"
  /\ Fault
  /\ Goto(w, "retry")
  /\ UNCHANGED <<submission, row, lock, broker, session, bucket, outbox, reads,
                 overlapped>>

ErrorKept(w) == error
ErrorCleared(w) == IF seenError[w] THEN FALSE ELSE error    \* job.error = None

(* SUCCESS and audio_url are committed together.                           *)
Finish(w) ==
  /\ pc[w] = "finish"
  /\ lock = Free
  /\ state' = "success"
  /\ audio' = key[w]
  /\ error' = ErrorCleared(w)
  /\ Goto(w, "announce")
  /\ UNCHANGED <<submission, lock, broker, session, bucket, outbox, reads,
                 faults, overlapped>>

-----------------------------------------------------------------------------
(* The rest of synthesize_audio.                                           *)

(* send_webhook.delay                                                      *)
Announce(w) ==
  /\ pc[w] = "announce"
  /\ webhook' = TRUE
  /\ Goto(w, "ack")
  /\ UNCHANGED <<submission, row, lock, broker, session, bucket, refund, reads,
                 faults, overlapped>>

(* It raises: the handler of any other exception takes over, but           *)
(* mark_job_failed will see SUCCESS in this session and leave it.          *)
AnnounceFails(w) ==
  /\ pc[w] = "announce"
  /\ Fault
  /\ Goto(w, "refund only")
  /\ UNCHANGED <<submission, row, lock, broker, session, bucket, outbox, reads,
                 overlapped>>

(* An exception that is neither RetryableError nor turned into one: of the *)
(* database, of S3 (unless a ClientError), of the code.  A commit may have *)
(* taken effect though it raised: of EXECUTING ("request"), of PENDING, of *)
(* SUCCESS ("announce").                                                   *)
Unexpected(w) ==
  /\ pc[w] \in {"claim", "claimed", "request", "upload", "publish", "finish",
                "announce"}
  /\ Fault
  /\ \/ UNCHANGED row
     \/ pc[w] \in {"request", "upload", "publish"} /\ CommitPending(w)
  /\ lock' = Unlocked(w)
  /\ Enter(w)
  /\ Goto(w, "refund")
  /\ UNCHANGED <<submission, broker, session, bucket, outbox, reads>>

(* refund_tts_job.delay, before the row is marked.                         *)
SendRefund(w) ==
  /\ pc[w] \in {"refund", "refund only"}
  /\ refund' = TRUE
  /\ Goto(w, IF pc[w] = "refund" THEN "mark" ELSE "ack")
  /\ UNCHANGED <<submission, row, lock, broker, session, bucket, webhook, reads,
                 faults, overlapped>>

MarkedAnyway == "mark"
RetriedFirst == "retry"

(* It raises: try the whole task again, the row is not FAILURE yet.        *)
SendRefundFails(w) ==
  /\ pc[w] \in {"refund", "refund only"}
  /\ Fault
  /\ Goto(w, RetriedFirst)
  /\ UNCHANGED <<submission, row, lock, broker, session, bucket, outbox, reads,
                 overlapped>>

(* mark_job_failed reads the row without locking it ...                    *)
ReadMark(w) ==
  /\ pc[w] = "mark"
  /\ Goto(w, IF state \in Eligible THEN "write" ELSE "ack")
  /\ UNCHANGED <<submission, row, lock, broker, session, bucket, outbox, reads,
                 faults, overlapped>>

(* ... and writes what it decided from that read.                          *)
WriteMark(w) ==
  /\ pc[w] = "write"
  /\ lock = Free
  /\ state' = "failure"
  /\ error' = TRUE
  /\ Goto(w, "ack")
  /\ UNCHANGED <<submission, audio, lock, broker, session, bucket, outbox,
                 reads, faults, overlapped>>

(* An exception while marking is only logged.                              *)
MarkFails(w) ==
  /\ pc[w] \in {"mark", "write"}
  /\ Fault
  /\ Goto(w, "ack")
  /\ UNCHANGED <<submission, row, lock, broker, session, bucket, outbox, reads,
                 overlapped>>

-----------------------------------------------------------------------------
Work(w) ==
  \/ ClaimLocked(w) \/ ClaimNothing(w) \/ Claim(w) \/ CommitExecuting(w)
  \/ Respond(w) \/ Upload(w) \/ Publish(w) \/ Delete(w) \/ Finish(w)
  \/ Announce(w) \/ SendRefund(w) \/ ReadMark(w) \/ WriteMark(w)
  \/ Retry(w) \/ Ack(w)

Disturb(w) ==
  \/ Redeliver(w) \/ LoseWorker(w) \/ StreamFails(w) \/ StoreFails(w)
  \/ DeleteFails(w) \/ AnnounceFails(w) \/ Unexpected(w)
  \/ SendRefundFails(w) \/ MarkFails(w)

(* The submission is over and no message or worker is left.                *)
AllQuiet ==
  /\ submission \in {"committed", "rolled back"}
  /\ queue = 0
  /\ \A w \in Workers : pc[w] = "idle"

Quiescent == AllQuiet /\ lock = Free /\ UNCHANGED vars

Next ==
  \/ Enqueue \/ CommitSubmit \/ RollbackSubmit \/ ReadResult \/ EndRead
  \/ \E w \in Workers : Deliver(w) \/ Work(w) \/ Disturb(w)
  \/ Quiescent

Spec == Init /\ [][Next]_vars

(* Workers consume while there are messages and finish what they started,  *)
(* requests end.  That failures stop at some point is the bound MaxFaults. *)
Fairness ==
  /\ WF_vars(EndRead)
  /\ WF_vars(\E w \in Workers : Deliver(w))
  /\ \A w \in Workers : WF_vars(Work(w))

FairSpec == Spec /\ Fairness

-----------------------------------------------------------------------------
Labels ==
  {"idle", "claim", "claimed", "request", "upload", "publish", "cleanup",
   "finish", "announce", "refund", "refund only", "mark", "write", "retry",
   "ack"}

(* Type invariant.  Besides the types: a worker has the row lock only      *)
(* while it claims the job, not while it waits for the audio               *)
(* (tts.py lines 166-168), and no way out of a claim keeps it.             *)
TypeOK ==
  /\ submission \in {"open", "enqueued", "committed", "rolled back"}
  /\ state \in {"none"} \cup Eligible \cup Terminal
  /\ error \in BOOLEAN
  /\ audio \in Nat
  /\ lock \in Workers \cup {Free, Api}
  /\ \A w \in Workers : lock = w => pc[w] = "claimed"
  /\ queue \in Nat
  /\ pc \in [Workers -> Labels]
  /\ held \in [Workers -> BOOLEAN]
  /\ key \in [Workers -> Nat]
  /\ seenError \in [Workers -> BOOLEAN]
  /\ attempts \in Nat
  /\ stored \subseteq Nat
  /\ public \subseteq Nat
  /\ refund \in BOOLEAN /\ webhook \in BOOLEAN
  /\ reads \in 0..MaxReads
  /\ faults \in 0..MaxFaults
  /\ overlapped \in BOOLEAN

(* What clients are told can be fetched: whenever the row says SUCCESS or  *)
(* carries an audio_url, or a webhook has been queued, the object of that  *)
(* url is in the bucket and public, though other deliveries of the same    *)
(* job may be failing and deleting what they uploaded (util.py lines       *)
(* 133-158).                                                               *)
AudioNeverDangles ==
  (state = "success" \/ audio # NoFile \/ webhook) => audio \in public

(* A job that is marked FAILURE has its refund queued, whatever failed on  *)
(* the way (tasks.py lines 45-47 and 131-137).                             *)
FailureIsRefunded == state = "failure" => refund

(* Unless two deliveries ran at the same time, SUCCESS and FAILURE are     *)
(* final, across retries, redeliveries and lost workers (jobs.py lines     *)
(* 42-43, mark_job_failed).                                                *)
TerminalIsFinal ==
  [][(state \in Terminal /\ ~overlapped) => (state' = state)]_vars

(* Unless two deliveries ran at the same time, a successful job shows no   *)
(* message of an earlier, failed attempt (util.py line 157).               *)
SuccessShowsNoError == (state = "success" /\ ~overlapped) => ~error

(* The last copy of the message of an unfinished job is given up by no     *)
(* failure, retry, redelivery or lost worker, but only once the job is     *)
(* terminal or its refund is queued: it does not stay PENDING for ever     *)
(* (tasks.py lines 26-29).                                                 *)
Carried ==
  \/ queue > 0
  \/ \E w \in Workers : held[w] /\ pc[w] \notin {"idle", "announce", "ack"}

SynthesisNotDropped ==
  [][(state \in Eligible /\ Carried) =>
       (state' \in Terminal \/ refund' \/ Carried')]_vars

(* What the pipeline promises about a job, as one abstract specification,  *)
(* to all who read the row, fetch the audio, pay the refund or await the   *)
(* callback (tasks.py lines 95-146, util.py lines 51-211).                 *)
Contract == INSTANCE JobContract WITH contested <- overlapped

ImplementsContract == Contract!Spec

(* A job whose row is visible while its message is queued is not dropped:  *)
(* through failures, locked rows and lost workers it reaches a terminal    *)
(* state, or its refund is queued (tasks.py lines 26-29, util.py lines     *)
(* 55-57).                                                                 *)
QueuedJobsSettle ==
  (queue > 0 /\ state \in Eligible) ~> (state \in Terminal \/ refund)

(* jobs.py lines 49-52: redelivery may pick up the job of a dead worker,   *)
(* but the row lock keeps two live workers from the same row.  The lock is *)
(* gone once EXECUTING is committed, so it does not.                       *)
NoCollision ==
  \A v, w \in Workers :
    v # w => ~(pc[v] = "upload" /\ pc[w] = "upload")

(* tasks.py lines 26-28: a synthesis is never dropped.  It is when the     *)
(* message overtakes the commit of the submission.                         *)
SubmittedJobsAreWorkedOn == (AllQuiet /\ state = "created") => refund

(* tasks.py lines 24-25, README.md line 14: clients receive completion by  *)
(* webhook.  A worker lost after it committed SUCCESS has not queued it    *)
(* and nobody else will.                                                   *)
SuccessIsAnnounced == (AllQuiet /\ state = "success") => webhook
=============================================================================
