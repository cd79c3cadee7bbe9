-------------------------------- MODULE Quota --------------------------------
(***************************************************************************)
(* The quota accounting of MiniTTS: POST /v1/tts charges a user for a job  *)
(* (api/app/routers/v1/tts.py) and the tts.refund Celery task pays the     *)
(* charge back (celeryz/src/celeryz/util.py, process_refund).              *)
(*                                                                         *)
(* Both run as Postgres transactions in READ COMMITTED.  A row written by  *)
(* an open transaction is invisible to the others until it commits, so a   *)
(* transaction's writes are applied by its commit action; what the others  *)
(* do notice earlier is the row locks it holds, kept in userLock,          *)
(* eventLock and jobLock.  A session also has an identity map: with        *)
(* expire_on_commit off, a row object once loaded keeps the attributes it  *)
(* was loaded with, and a later SELECT ... FOR UPDATE that returns the     *)
(* same row locks it but does not refresh the object.  cached is that      *)
(* object's quota_tokens_remaining.                                        *)
(*                                                                         *)
(* A request creates at most one job, so a job is named by its request.    *)
(***************************************************************************)
EXTENDS Integers, FiniteSets, Functions

CONSTANTS
  Users,          \* usernames
  Requests,       \* POST /v1/tts calls
  UserOf,         \* UserOf[r]: the username request r authenticates with
  Lengths,        \* lengths of stripped texts that pass validation
  InitialQuota,   \* quota_tokens_remaining of a new user
  RefundWorkers,  \* concurrent executions of refund_tts_job
  MaxCopies,      \* bound: copies of one job's tts.refund message
  Other,          \* a transaction of another endpoint or task on a jobs row
  Free            \* no transaction holds the lock

ASSUME QuotaAssumption ==
  /\ UserOf \in [Requests -> Users]
  /\ Lengths \subseteq Nat \ {0, 1}
  /\ InitialQuota \in Nat
  /\ MaxCopies \in Nat \ {0}
  /\ Requests \cap RefundWorkers = {}
  /\ {Free, Other} \cap (Requests \cup RefundWorkers) = {}
  /\ Free # Other

(* Any span of time holds a finite number of requests; sums over a user's  *)
(* jobs mean nothing otherwise.                                            *)
ASSUME RequestsFinite == IsFiniteSet(Requests)

Sessions == Requests \cup RefundWorkers

VARIABLES
  known,        \* usernames with a committed users row
  balance,      \* balance[u]: committed quota_tokens_remaining
  usage,        \* usage[j]: amount of the committed USAGE row of job j, or 0
  refunds,      \* refunds[j]: sum of the committed REFUND rows of job j
  userLock,     \* userLock[u]: session holding the users row lock
  eventLock,    \* eventLock[j]: session holding the lock of j's USAGE row
  jobLock,      \* jobLock[j]: who has the row of job j locked
  pc,           \* pc[s]: where session s is
  cached,       \* cached[s]: balance in the identity map of session s
  chars,        \* chars[r]: len(payload.text)
  task,         \* task[f]: the job whose refund message f is executing
  sent,         \* jobs whose tts.synthesize message reached the broker
  queue,        \* queue[j]: ready copies of j's tts.refund message
  stale         \* history: users for whom an outdated balance was written back

vars == <<known, balance, usage, refunds, userLock, eventLock, jobLock, pc, cached,
          chars, task, sent, queue, stale>>

rows  == <<known, balance, usage, refunds>>
locks == <<userLock, eventLock, jobLock>>

Jobs == {j \in Requests : usage[j] > 0}    \* jobs with a committed row

Goto(s, label) == pc' = [pc EXCEPT ![s] = label]

KeptLocked(lock, s) == lock
Released(lock, s) == [x \in DOMAIN lock |-> IF lock[x] = s THEN Free ELSE lock[x]]

(* The transaction of session s ends, by a commit or a rollback: its row   *)
(* locks go.  At the end of a request or of a task the session is closed   *)
(* and its identity map goes as well.                                      *)
Unlock(s) ==
  /\ userLock' = Released(userLock, s)
  /\ eventLock' = Released(eventLock, s)
  /\ jobLock' = Released(jobLock, s)

Close(s, label) ==
  /\ Unlock(s)
  /\ cached' = [cached EXCEPT ![s] = 0]
  /\ Goto(s, label)

Init ==
  /\ known = {}
  /\ balance = [u \in Users |-> 0]
  /\ usage = [j \in Requests |-> 0]
  /\ refunds = [j \in Requests |-> 0]
  /\ userLock = [u \in Users |-> Free]
  /\ eventLock = [j \in Requests |-> Free]
  /\ jobLock = [j \in Requests |-> Free]
  /\ pc = [s \in Sessions |-> IF s \in Requests THEN "new" ELSE "idle"]
  /\ cached = [s \in Sessions |-> 0]
  /\ chars = [r \in Requests |-> 0]
  /\ task = [f \in RefundWorkers |-> Free]
  /\ sent = {}
  /\ queue = [j \in Requests |-> 0]
  /\ stale = {}

-----------------------------------------------------------------------------
(* POST /v1/tts.  One database session serves authenticate and submit.     *)

(* get_or_create_user: INSERT ... ON CONFLICT DO NOTHING RETURNING.  An    *)
(* uncommitted insert of the same name makes this one wait; a committed    *)
(* row makes it a no-op.                                                   *)
Authenticate(r) ==
  /\ pc[r] = "new"
  /\ \E n \in Lengths : chars' = [chars EXCEPT ![r] = n]
  /\ \/ /\ UserOf[r] \notin known
        /\ userLock[UserOf[r]] = Free
        /\ userLock' = [userLock EXCEPT ![UserOf[r]] = r]
        /\ cached' = [cached EXCEPT ![r] = InitialQuota]
        /\ Goto(r, "welcome")
     \/ /\ UserOf[r] \in known
        /\ Goto(r, "select")
        /\ UNCHANGED <<userLock, cached>>
  /\ UNCHANGED <<rows, eventLock, jobLock, task, sent, queue, stale>>

(* The plain SELECT that follows a no-op insert.                           *)
LoadUser(r) ==
  /\ pc[r] = "select"
  /\ cached' = [cached EXCEPT ![r] = balance[UserOf[r]]]
  /\ Goto(r, "lock")
  /\ UNCHANGED <<rows, locks, chars, task, sent, queue, stale>>

(* authenticate commits, publishing the row of a new user.                 *)
CommitUser(r) ==
  /\ pc[r] = "welcome"
  /\ known' = known \cup {UserOf[r]}
  /\ balance' = [balance EXCEPT ![UserOf[r]] = InitialQuota]
  /\ Unlock(r)
  /\ Goto(r, "lock")
  /\ UNCHANGED <<usage, refunds, cached, chars, task, sent,
                 queue, stale>>

(* lock_user: SELECT ... FOR UPDATE.  It waits for the lock and returns    *)
(* the row, but the session already holds that User object, whose          *)
(* attributes the query does not overwrite: cached stays as it was.        *)
LockUser(r) ==
  /\ pc[r] = "lock"
  /\ userLock[UserOf[r]] = Free
  /\ userLock' = [userLock EXCEPT ![UserOf[r]] = r]
  /\ Goto(r, "check")
  /\ UNCHANGED <<rows, eventLock, jobLock, cached, chars, task, sent, queue,
                 stale>>

AffordableOffByOne(r) == cached[r] + 1 >= chars[r]
Affordable(r) == cached[r] >= chars[r]

(* 402: the HTTPException unwinds get_pg_session, which rolls back.        *)
Refuse(r) ==
  /\ pc[r] = "check"
  /\ ~Affordable(r)
  /\ Close(r, "refused")
  /\ UNCHANGED <<rows, chars, task, sent, queue, stale>>

(* Deduct, insert the job and its USAGE event, flush.  Nothing is visible  *)
(* to other sessions yet.                                                  *)
Reserve(r) ==
  /\ pc[r] = "check"
  /\ Affordable(r)
  /\ Goto(r, "enqueue")
  /\ UNCHANGED <<rows, locks, cached, chars, task, sent, queue, stale>>

EnqueueSkipped(r) ==
  /\ pc[r] = "enqueue"
  /\ Goto(r, "commit")
  /\ UNCHANGED <<rows, locks, cached, chars, task, sent, queue, stale>>

(* celery.send_task, before the commit.                                    *)
Enqueue(r) ==
  /\ pc[r] = "enqueue"
  /\ sent' = sent \cup {r}
  /\ Goto(r, "commit")
  /\ UNCHANGED <<rows, locks, cached, chars, task, queue, stale>>

(* send_task raises: 503 and rollback.  The broker may have taken the      *)
(* message all the same.                                                   *)
EnqueueFails(r) ==
  /\ pc[r] = "enqueue"
  /\ sent' \in {sent, sent \cup {r}}
  /\ Close(r, "failed")
  /\ UNCHANGED <<rows, chars, task, queue, stale>>

RecordedNegative(r) == - chars[r]
Recorded(r) == chars[r]    \* QuotaUsageEvent.amount of the USAGE row

(* session.commit: deduction, job and event become visible together.  The  *)
(* new balance is the literal computed from the cached one.                *)
CommitSubmit(r) ==
  /\ pc[r] = "commit"
  /\ balance' = [balance EXCEPT ![UserOf[r]] = cached[r] - chars[r]]
  /\ usage' = [usage EXCEPT ![r] = Recorded(r)]
  /\ stale' = IF cached[r] = balance[UserOf[r]] THEN stale
                                                ELSE stale \cup {UserOf[r]}
  /\ Close(r, "accepted")
  /\ UNCHANGED <<known, refunds, chars, task, sent, queue>>

(* A database error or the death of the API process at any await: the      *)
(* open transaction is rolled back.                                        *)
Abort(r) ==
  /\ pc[r] \in {"welcome", "select", "lock", "check", "enqueue", "commit"}
  /\ Close(r, "failed")
  /\ UNCHANGED <<rows, chars, task, sent, queue, stale>>

-----------------------------------------------------------------------------
(* The tts.refund task.                                                    *)

(* Copies of j's refund message: ready, or with a worker that has not      *)
(* acknowledged it.                                                        *)
Copies(j) ==
  queue[j] + Cardinality({f \in RefundWorkers : task[f] = j})

(* synthesize_audio gives up on a job and queues its refund.  It also does *)
(* so when its look for the row of a job that is not visible fails, and a  *)
(* redelivered tts.synthesize message can make it do so again.  A broker   *)
(* that delivers a refund message twice has the same effect.               *)
SynthesisFails(j) ==
  /\ j \in sent
  /\ Copies(j) < MaxCopies
  /\ queue' = [queue EXCEPT ![j] = @ + 1]
  /\ UNCHANGED <<rows, locks, pc, cached, chars, task, sent, stale>>

TakeRefund(f, j) ==
  /\ pc[f] = "idle"
  /\ queue[j] > 0
  /\ queue' = [queue EXCEPT ![j] = @ - 1]
  /\ task' = [task EXCEPT ![f] = j]
  /\ Goto(f, "event")
  /\ UNCHANGED <<rows, locks, cached, chars, sent, stale>>

(* No USAGE row with that id: the submission was rolled back or has not    *)
(* committed yet.  The task logs it and returns.                           *)
NoEvent(f, j) ==
  /\ pc[f] = "event"
  /\ task[f] = j
  /\ j \notin Jobs
  /\ Close(f, "ack")
  /\ UNCHANGED <<rows, chars, task, sent, queue, stale>>

EventUnlocked(j) == TRUE
EventAvailable(j) == eventLock[j] = Free

(* SELECT the USAGE event FOR UPDATE.                                      *)
LockEvent(f, j) ==
  /\ pc[f] = "event"
  /\ task[f] = j
  /\ j \in Jobs
  /\ EventAvailable(j)
  /\ eventLock' = [eventLock EXCEPT ![j] = f]
  /\ Goto(f, "existing")
  /\ UNCHANGED <<rows, userLock, jobLock, cached, chars, task, sent, queue,
                 stale>>

NeverRefunded(j) == FALSE
AlreadyRefunded(j) == refunds[j] > 0

(* A REFUND row exists: return; closing the session drops the lock.        *)
SkipRefund(f, j) ==
  /\ pc[f] = "existing"
  /\ task[f] = j
  /\ AlreadyRefunded(j)
  /\ Close(f, "ack")
  /\ UNCHANGED <<rows, chars, task, sent, queue, stale>>

(* There is none: go on to the owner.                                      *)
CheckRefund(f, j) ==
  /\ pc[f] = "existing"
  /\ task[f] = j
  /\ ~AlreadyRefunded(j)
  /\ Goto(f, "owner")
  /\ UNCHANGED <<rows, locks, cached, chars, task, sent, queue, stale>>

OwnerUnlocked(u) == TRUE
OwnerAvailable(u) == userLock[u] = Free

(* SELECT the user FOR UPDATE.  This session loads the row for the first   *)
(* time, so the balance it computes with is the current one.               *)
LockOwner(f, j) ==
  /\ pc[f] = "owner"
  /\ task[f] = j
  /\ OwnerAvailable(UserOf[j])
  /\ userLock' = [userLock EXCEPT ![UserOf[j]] = f]
  /\ cached' = [cached EXCEPT ![f] = balance[UserOf[j]]]
  /\ Goto(f, "credit")
  /\ UNCHANGED <<rows, eventLock, jobLock, chars, task, sent, queue, stale>>

CreditForgotten(f, j) == balance
Credited(f, j) == [balance EXCEPT ![UserOf[j]] = cached[f] + usage[j]]

JobAvailable(j) == jobLock[j] = Free

(* session.commit flushes first: the credit, then the REFUND row, whose    *)
(* job_id refers to jobs.  For the sake of that key Postgres takes FOR KEY *)
(* SHARE on the job's row, and waits while anyone has it FOR UPDATE.       *)
InsertRefund(f, j) ==
  /\ pc[f] = "credit"
  /\ task[f] = j
  /\ JobAvailable(j)
  /\ jobLock' = [jobLock EXCEPT ![j] = f]
  /\ Goto(f, "settle")
  /\ UNCHANGED <<rows, userLock, eventLock, cached, chars, task, sent, queue,
                 stale>>

(* Then it commits: row and credit become visible together.                *)
CommitRefund(f, j) ==
  /\ pc[f] = "settle"
  /\ task[f] = j
  /\ balance' = Credited(f, j)
  /\ refunds' = [refunds EXCEPT ![j] = @ + usage[j]]
  /\ Close(f, "ack")
  /\ UNCHANGED <<known, usage, chars, task, sent, queue, stale>>

(* process_refund raises.  The transaction is rolled back and self.retry   *)
(* publishes the task again; acknowledging the old message comes after.    *)
RetryRefund(f) ==
  /\ pc[f] \in {"event", "existing", "owner", "credit", "settle"}
  /\ queue' = [queue EXCEPT ![task[f]] = @ + 1]
  /\ Close(f, "ack")
  /\ UNCHANGED <<rows, chars, task, sent, stale>>

AckedOnReceipt(f) == queue
AckedLate(f) == [queue EXCEPT ![task[f]] = @ + 1]

(* The worker dies.  Its transaction is rolled back, and the broker        *)
(* delivers the message it had not acknowledged to another one.  Duplicates *)
(* that a death after a retry leaves behind are bounded by MaxCopies.      *)
LoseWorker(f) ==
  /\ pc[f] # "idle"
  /\ pc[f] = "ack" => Copies(task[f]) <= MaxCopies
  /\ queue' = AckedLate(f)
  /\ Close(f, "idle")
  /\ task' = [task EXCEPT ![f] = Free]
  /\ UNCHANGED <<rows, chars, sent, stale>>

AckRefund(f) ==
  /\ pc[f] = "ack"
  /\ Goto(f, "idle")
  /\ task' = [task EXCEPT ![f] = Free]
  /\ UNCHANGED <<rows, locks, cached, chars, sent, queue, stale>>

-----------------------------------------------------------------------------
(* The jobs row elsewhere: a result request, the claim of a synthesis and  *)
(* the count of a webhook attempt take it FOR UPDATE, with NOWAIT or SKIP  *)
(* LOCKED, so that they do not wait for it, and wait for no row after it.  *)
LockJob(j) ==
  /\ j \in Jobs
  /\ JobAvailable(j)
  /\ jobLock' = [jobLock EXCEPT ![j] = Other]
  /\ UNCHANGED <<rows, userLock, eventLock, pc, cached, chars, task, sent,
                 queue, stale>>

UnlockJob(j) ==
  /\ jobLock[j] = Other
  /\ jobLock' = [jobLock EXCEPT ![j] = Free]
  /\ UNCHANGED <<rows, userLock, eventLock, pc, cached, chars, task, sent,
                 queue, stale>>

-----------------------------------------------------------------------------
Submit(r) ==
  \/ Authenticate(r) \/ LoadUser(r) \/ CommitUser(r) \/ LockUser(r)
  \/ Refuse(r) \/ Reserve(r) \/ Enqueue(r) \/ CommitSubmit(r)

Refund(f, j) ==
  \/ NoEvent(f, j) \/ LockEvent(f, j) \/ SkipRefund(f, j) \/ CheckRefund(f, j)
  \/ LockOwner(f, j) \/ InsertRefund(f, j) \/ CommitRefund(f, j)

Work(f) == AckRefund(f) \/ \E j \in Requests : Refund(f, j)

Disturb(f) == RetryRefund(f) \/ LoseWorker(f)

(* Every request was answered and no refund is under way or due.           *)
Quiescent ==
  /\ \A r \in Requests : pc[r] \in {"accepted", "refused", "failed"}
  /\ \A f \in RefundWorkers : pc[f] = "idle"
  /\ \A j \in Requests : queue[j] = 0
  /\ UNCHANGED vars

Next ==
  \/ \E r \in Requests : Submit(r) \/ EnqueueFails(r) \/ Abort(r)
  \/ \E j \in Requests : SynthesisFails(j) \/ LockJob(j) \/ UnlockJob(j)
  \/ \E f \in RefundWorkers :
        \/ \E j \in Requests : TakeRefund(f, j)
        \/ Work(f)
        \/ Disturb(f)
  \/ Quiescent

Spec == Init /\ [][Next]_vars

(* Transactions end: a request does not stay suspended for ever with a row *)
(* locked, and who waits for a jobs row that is free again and again gets  *)
(* it.  Refund workers finish what they started, and the broker's queue is *)
(* first in, first out, so no job's message waits for ever while others    *)
(* are delivered.  The failures of refund tasks and of their workers, any  *)
(* number of them, stop at some point.                                     *)
Fairness ==
  /\ \A r \in Requests : WF_vars(Submit(r))
  /\ \A j \in Requests : WF_vars(UnlockJob(j))
  /\ \A f \in RefundWorkers :
        /\ WF_vars(Work(f))
        /\ SF_vars(\E j \in Requests : InsertRefund(f, j))
  /\ \A j \in Requests : SF_vars(\E f \in RefundWorkers : TakeRefund(f, j))
  /\ <>[][\A f \in RefundWorkers : ~Disturb(f)]_vars

FairSpec == Spec /\ Fairness

-----------------------------------------------------------------------------
(* Type invariant.  It is not only about types: every amount in the ledger *)
(* is positive, which models.py demands of quota_usage_events (lines 43    *)
(* and 51).                                                                *)
TypeOK ==
  /\ known \subseteq Users
  /\ balance \in [Users -> Int]
  /\ usage \in [Requests -> Lengths \cup {0}]
  /\ refunds \in [Requests -> Nat]
  /\ userLock \in [Users -> Sessions \cup {Free}]
  /\ eventLock \in [Requests -> RefundWorkers \cup {Free}]
  /\ jobLock \in [Requests -> RefundWorkers \cup {Other, Free}]
  /\ pc \in [Sessions -> {"new", "welcome", "select", "lock", "check",
                          "enqueue", "commit", "accepted", "refused", "failed",
                          "idle", "event", "existing", "owner", "credit",
                          "settle", "ack"}]
  /\ cached \in [Sessions -> Int]
  /\ chars \in [Requests -> Lengths \cup {0}]
  /\ task \in [RefundWorkers -> Requests \cup {Free}]
  /\ sent \subseteq Requests
  /\ queue \in [Requests -> Nat]
  /\ stale \subseteq Users

(* A user's committed quota never goes below zero, even when the balance a *)
(* submission worked with was outdated: the 402 check in submit and the    *)
(* deduction use the same number.                                          *)
NeverNegative == \A u \in Users : balance[u] >= 0

(* However many refund tasks run for a job, at once or one after another,  *)
(* and wherever they are interrupted, its owner is credited at most once   *)
(* and with what the job was charged (process_refund's lock on the USAGE   *)
(* event, util.py lines 216-218).                                          *)
AtMostOneRefund == \A j \in Requests : refunds[j] \in {0, usage[j]}

(* A charged job that anyone can see has its synthesis task at the broker, *)
(* whatever happened to the request (tts.py lines 126-128: enqueue before  *)
(* commit).                                                                *)
EnqueuedBeforeVisible == \A j \in Jobs : j \in sent

(* A refund adds to the owner's committed balance exactly what it records, *)
(* whoever else wrote that balance in the meantime, and touches no other   *)
(* user's (process_refund, lines 237-249).                                 *)
RefundsExact ==
  [][\A j \in Requests :
        refunds'[j] # refunds[j] =>
          balance' = [balance EXCEPT ![UserOf[j]] = @ + refunds'[j] - refunds[j]]
    ]_vars

(* The ledger events are what the user table says: a user for whom no      *)
(* submission ever committed an outdated balance has the initial quota     *)
(* minus every charge that was not refunded.                               *)
Outstanding(u) ==
  SumFunctionOnSet([j \in Requests |-> usage[j] - refunds[j]],
                   {j \in Requests : UserOf[j] = u})

LedgerBalanced ==
  \A u \in known \ stale : balance[u] = InitialQuota - Outstanding(u)

(* Requests and refund tasks never wait for each other in a circle: rows   *)
(* are locked in the order USAGE event, users, jobs, and whoever waits for *)
(* a row has only rows of earlier kinds (tts.py lines 92-95, util.py lines *)
(* 216-249).  Of the statements that wait, "event" is before the one on a  *)
(* USAGE event, "new", "lock" and "owner" on a user, "credit" on a job.    *)
Has(lock, s) == \E x \in DOMAIN lock : lock[x] = s

LocksInOrder ==
  \A s \in Sessions :
    /\ pc[s] = "event" => ~Has(eventLock, s)
    /\ pc[s] \in {"event", "new", "lock", "owner"} => ~Has(userLock, s)
    /\ pc[s] \in {"event", "new", "lock", "owner", "credit"} => ~Has(jobLock, s)

(* The last copy of a charged job's refund message is given up by no       *)
(* failure, retry or lost worker, but only once its refund is paid         *)
(* (tasks.py lines 62-74).                                                 *)
Carried(j) ==
  \/ queue[j] > 0
  \/ \E f \in RefundWorkers :
        task[f] = j /\ pc[f] \in {"event", "existing", "owner", "credit", "settle"}

RefundsNotDropped ==
  [][\A j \in Requests :
        usage[j] > 0 /\ Carried(j) => refunds'[j] > 0 \/ Carried(j)']_vars

(* The quota_usage_events table implements the abstract ledger.            *)
AbstractLedger == INSTANCE Ledger
  WITH Jobs <- Requests, Amounts <- Lengths, charged <- usage, credited <- refunds

ImplementsLedger == AbstractLedger!Spec

(* A refund that is queued for a charged job is paid, through failures of  *)
(* the task and of its worker ("Refunds must not be lost", tasks.py line   *)
(* 71).                                                                    *)
RefundsDelivered ==
  \A j \in Requests :
    (queue[j] > 0 /\ usage[j] > 0) ~> (refunds[j] > 0)

(* tts.py lines 92-94: with the lock, no two requests of a user pass the   *)
(* check on the same balance, so that together they never spend more than  *)
(* the user has.  The code does not keep this promise.                     *)
NoOverspend == \A u \in Users : Outstanding(u) <= InitialQuota
=============================================================================
