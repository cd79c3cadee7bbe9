------------------------------- MODULE Webhook -------------------------------
(***************************************************************************)
(* Telling a client that its job is done: the send_webhook Celery task     *)
(* (celeryz/src/celeryz/tasks.py) and post_job_to_webhook (util.py), for   *)
(* one job whose row exists.                                               *)
(*                                                                         *)
(* The task counts the attempt and commits, which gives up the row lock,   *)
(* and then POSTs.  Any worker may execute any copy of the message, also   *)
(* two at once: synthesize_audio may have queued it twice, and the broker  *)
(* redelivers what is not acknowledged.                                    *)
(***************************************************************************)
EXTENDS Naturals, FiniteSets

CONSTANTS
  Workers,      \* worker processes
  Free,         \* nobody holds the row lock
  Api,          \* GET /v1/{job_id}/result holds the row lock
  MaxMessages,  \* bound: messages queued by synthesize_audio
  MaxReads,     \* bound: number of result requests
  MaxPosts,     \* bound: POSTs after which the client accepts every one
  MaxFaults     \* bound: database errors, lost workers, duplicated deliveries

ASSUME WebhookAssumption ==
  /\ IsFiniteSet(Workers)
  /\ Free \notin Workers /\ Api \notin Workers /\ Free # Api
  /\ MaxMessages \in Nat /\ MaxReads \in Nat
  /\ MaxPosts \in Nat /\ MaxFaults \in Nat

VARIABLES
  messages,   \* send_webhook messages queued by synthesize_audio
  queue,      \* ready copies of them
  pc,         \* pc[w]: where worker w is in send_webhook
  held,       \* held[w]: w's copy of the message is still its own
  lock,       \* holder of the row lock
  attempts,   \* jobs.webhook_attempts
  loaded,     \* loaded[w]: webhook_attempts as w's session loaded it
  posts,      \* POSTs started
  accepted,   \* the client answered a POST with 2xx
  reads, faults

broker == <<messages, queue, held>>
row    == <<attempts, lock>>
client == <<posts, accepted>>
bounds == <<reads, faults>>
vars   == <<broker, row, client, bounds, pc, loaded>>

Goto(w, label) == pc' = [pc EXCEPT ![w] = label]
Fault == faults < MaxFaults /\ faults' = faults + 1

Init ==
  /\ messages = 0 /\ queue = 0
  /\ pc = [w \in Workers |-> "idle"]
  /\ held = [w \in Workers |-> FALSE]
  /\ lock = Free
  /\ attempts = 0
  /\ loaded = [w \in Workers |-> 0]
  /\ posts = 0 /\ accepted = FALSE
  /\ reads = 0 /\ faults = 0

-----------------------------------------------------------------------------
(* The surroundings: other tasks, API requests, the broker.                *)

(* send_webhook.delay in synthesize_audio.                                 *)
Announce ==
  /\ messages < MaxMessages
  /\ messages' = messages + 1
  /\ queue' = queue + 1
  /\ UNCHANGED <<held, row, client, bounds, pc, loaded>>

ReadResult ==
  /\ reads < MaxReads
  /\ lock = Free
  /\ lock' = Api
  /\ reads' = reads + 1
  /\ UNCHANGED <<broker, attempts, client, faults, pc, loaded>>

EndRead ==
  /\ lock = Api
  /\ lock' = Free
  /\ UNCHANGED <<broker, attempts, client, bounds, pc, loaded>>

Deliver(w) ==
  /\ pc[w] = "idle"
  /\ queue > 0
  /\ queue' = queue - 1
  /\ held' = [held EXCEPT ![w] = TRUE]
  /\ Goto(w, "select")
  /\ UNCHANGED <<messages, row, client, bounds, loaded>>

(* The broker gives up on w and delivers the message again; w works on.    *)
Redeliver(w) ==
  /\ held[w]
  /\ Fault
  /\ queue' = queue + 1
  /\ held' = [held EXCEPT ![w] = FALSE]
  /\ UNCHANGED <<messages, row, client, reads, pc, loaded>>

StillLocked(w) == lock
Unlocked(w) == IF lock = w THEN Free ELSE lock    \* w's transaction ends

AckedOnReceipt(w) == queue
AckedLate(w) == IF held[w] THEN queue + 1 ELSE queue

(* w dies, at any point: also between the commit and the POST, or after a  *)
(* POST that it did not see answered.                                      *)
LoseWorker(w) ==
  /\ pc[w] # "idle"
  /\ Fault
  /\ queue' = AckedLate(w)
  /\ held' = [held EXCEPT ![w] = FALSE]
  /\ lock' = Unlocked(w)
  /\ Goto(w, "idle")
  /\ UNCHANGED <<messages, attempts, client, reads, loaded>>

(* self.retry: publish the task again, then end this execution.            *)
Retry(w) ==
  /\ pc[w] = "retry"
  /\ queue' = queue + 1
  /\ Goto(w, "ack")
  /\ UNCHANGED <<messages, held, row, client, bounds, loaded>>

Ack(w) ==
  /\ pc[w] = "ack"
  /\ held' = [held EXCEPT ![w] = FALSE]
  /\ Goto(w, "idle")
  /\ UNCHANGED <<messages, queue, row, client, bounds, loaded>>

-----------------------------------------------------------------------------
(* post_job_to_webhook.                                                    *)

(* What send_webhook does with a FatalError and with any other exception.  *)
Dropped == "ack"
Retried == "retry"

(* FOR UPDATE SKIP LOCKED: a locked row looks like a missing one and       *)
(* raises FatalError.                                                      *)
SkipLocked(w) ==
  /\ pc[w] = "select"
  /\ lock # Free
  /\ Goto(w, Retried)
  /\ UNCHANGED <<broker, row, client, bounds, loaded>>

Unguarded == TRUE
Unlockable == lock = Free

LoadJob(w) ==
  /\ pc[w] = "select"
  /\ Unlockable
  /\ lock' = w
  /\ loaded' = [loaded EXCEPT ![w] = attempts]
  /\ Goto(w, "count")
  /\ UNCHANGED <<broker, attempts, client, bounds>>

(* webhook_attempts += 1 and commit.                                       *)
CountAttempt(w) ==
  /\ pc[w] = "count"
  /\ attempts' = loaded[w] + 1
  /\ lock' = Unlocked(w)
  /\ Goto(w, "post")
  /\ UNCHANGED <<broker, client, bounds, loaded>>

(* The SELECT or the commit raises: rollback and retry.  The commit may    *)
(* have taken effect though it raised.                                     *)
DatabaseFails(w) ==
  /\ pc[w] \in {"select", "count"}
  /\ Fault
  /\ attempts' \in {attempts} \cup (IF pc[w] = "count" THEN {loaded[w] + 1} ELSE {})
  /\ lock' = Unlocked(w)
  /\ Goto(w, "retry")
  /\ UNCHANGED <<broker, client, reads, loaded>>

PostAccepted(w) ==
  /\ pc[w] = "post"
  /\ posts' = posts + 1
  /\ accepted' = TRUE
  /\ Goto(w, "ack")
  /\ UNCHANGED <<broker, row, bounds, loaded>>

(* httpx.RequestError, 5xx, 408 or 429: RetryableError.  The client may    *)
(* have received the POST all the same.                                    *)
PostFails(w) ==
  /\ pc[w] = "post"
  /\ posts < MaxPosts
  /\ posts' = posts + 1
  /\ Goto(w, "retry")
  /\ UNCHANGED <<broker, row, accepted, bounds, loaded>>

(* Another 4xx: FatalError.                                                *)
PostRefused(w) ==
  /\ pc[w] = "post"
  /\ posts < MaxPosts
  /\ posts' = posts + 1
  /\ Goto(w, Retried)
  /\ UNCHANGED <<broker, row, accepted, bounds, loaded>>

-----------------------------------------------------------------------------
Work(w) ==
  \/ SkipLocked(w) \/ LoadJob(w) \/ CountAttempt(w)
  \/ PostAccepted(w) \/ PostFails(w) \/ PostRefused(w)
  \/ Retry(w) \/ Ack(w)

Disturb(w) == Redeliver(w) \/ LoseWorker(w) \/ DatabaseFails(w)

AllQuiet == queue = 0 /\ \A w \in Workers : pc[w] = "idle"

Quiescent == AllQuiet /\ messages > 0 /\ lock = Free /\ UNCHANGED vars

Next ==
  \/ Announce \/ ReadResult \/ EndRead
  \/ \E w \in Workers : Deliver(w) \/ Work(w) \/ Disturb(w)
  \/ Quiescent

Spec == Init /\ [][Next]_vars

(* Workers consume while there are messages and finish what they started,  *)
(* requests end.  That the client accepts some POST is the bound MaxPosts. *)
Fairness ==
  /\ WF_vars(EndRead)
  /\ WF_vars(\E w \in Workers : Deliver(w))
  /\ \A w \in Workers : WF_vars(Work(w))

FairSpec == Spec /\ Fairness

-----------------------------------------------------------------------------
(* Type invariant.  Besides the types: a worker has the row lock only      *)
(* until it has counted the attempt, never while it waits for the client.  *)
TypeOK ==
  /\ messages \in 0..MaxMessages
  /\ queue \in Nat
  /\ pc \in [Workers -> {"idle", "select", "count", "post", "retry", "ack"}]
  /\ held \in [Workers -> BOOLEAN]
  /\ lock \in Workers \cup {Free, Api}
  /\ \A w \in Workers : lock = w => pc[w] = "count"
  /\ attempts \in Nat
  /\ loaded \in [Workers -> Nat]
  /\ posts \in Nat
  /\ accepted \in BOOLEAN
  /\ reads \in 0..MaxReads
  /\ faults \in 0..MaxFaults

(* Every attempt that was counted is a POST made, a POST being made, or    *)
(* lost to a fault, and no POST goes uncounted, however many deliveries    *)
(* run at once and wherever workers are lost (util.py lines 170-175).      *)
Posting == {w \in Workers : pc[w] = "post"}

AttemptsCovered ==
  \E lost \in 0..faults : attempts = posts + Cardinality(Posting) + lost

(* When nothing is left in the broker or with a worker, the client has     *)
(* accepted a POST: no path, also none that raises FatalError, drops the   *)
(* last copy of the message (tasks.py lines 24-25 and 88-92).              *)
NeverDropped == (AllQuiet /\ messages > 0) => accepted

(* A queued webhook is accepted in the end, through locked rows, failing   *)
(* databases, refusals and lost workers.                                   *)
AcceptedInTheEnd == (queue > 0) ~> accepted
=============================================================================
