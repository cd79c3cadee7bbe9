------------------------------ MODULE ClientView ------------------------------
(***************************************************************************)
(* What the client of a job gets to see: the answers of                    *)
(* GET /v1/tts/{job_id}/status and GET /v1/tts/{job_id}/result             *)
(* (api/app/routers/v1/tts.py) and the callback, while Pipeline runs.      *)
(*                                                                         *)
(* The status comes from two places, the row and the result that Celery    *)
(* keeps for the task, whose id is the job's: SUCCESS when an execution    *)
(* returned, RETRY when it retried.  An execution stores its result after  *)
(* its body has ended and before its message is acknowledged.  Celery does *)
(* not overwrite SUCCESS, stores no result of an execution whose worker is *)
(* lost, and is taken not to forget results while clients poll.            *)
(***************************************************************************)
EXTENDS Pipeline

VARIABLES
  result,    \* the stored result: "none", "retry" or "success"
  outcome,   \* outcome[w]: what w has still to store
  request,   \* a client's request: "idle", "checked" or "locked"
  seen,      \* the job as that request's session loaded it
  given      \* history: file keys in answers and callbacks

client == <<request, seen, given>>
view == <<result, outcome, client>>
viewVars == <<vars, view>>

NotLoaded == [state |-> "none", audio |-> NoFile]

Keys(k) == {k} \ {NoFile}

ViewInit ==
  /\ Init
  /\ result = "none"
  /\ outcome = [w \in Workers |-> "none"]
  /\ request = "idle"
  /\ seen = NotLoaded
  /\ given = {}

-----------------------------------------------------------------------------
(* The task and its result.                                                *)

OutcomeKept(w) ==
  IF pc'[w] # "ack" THEN outcome[w]
  ELSE IF pc[w] = "retry" THEN "retry" ELSE "success"

(* What w has to store after a step that takes it to pc'[w].               *)
OutcomeAfter(w) ==
  IF pc'[w] # "ack" THEN "none"
  ELSE IF pc[w] = "retry" THEN "retry"
  ELSE IF pc[w] # "ack" THEN "success"
  ELSE outcome[w]

Reported(w) == pc[w] = "ack" => outcome[w] = "none"

(* A step of Pipeline, with what Celery makes of it.  The message is       *)
(* acknowledged after the result is stored.                                *)
TaskStep(w) ==
  /\ Deliver(w) \/ (Work(w) /\ Reported(w)) \/ Disturb(w)
  /\ outcome' = [v \in Workers |-> OutcomeAfter(v)]
  /\ UNCHANGED <<result, client>>

Overwritten(w) == outcome[w]
Stored(w) == IF result = "success" THEN result ELSE outcome[w]

Report(w) ==
  /\ pc[w] = "ack"
  /\ outcome[w] # "none"
  /\ result' = Stored(w)
  /\ outcome' = [outcome EXCEPT ![w] = "none"]
  /\ UNCHANGED <<vars, client>>

Submission ==
  /\ Enqueue \/ CommitSubmit \/ RollbackSubmit
  /\ UNCHANGED view

-----------------------------------------------------------------------------
(* The client's requests.                                                  *)

(* The request is over, and its session with it.                           *)
Close ==
  /\ request' = "idle"
  /\ seen' = NotLoaded

(* Both endpoints load the job without a lock, to see whose it is.         *)
CheckOwner ==
  /\ request = "idle"
  /\ state # "none"
  /\ request' = "checked"
  /\ seen' = [state |-> state, audio |-> audio]
  /\ UNCHANGED <<vars, result, outcome, given>>

(* get_job_status_from_celery: the task's result, else the row.            *)
Status == IF result = "none" THEN seen.state ELSE result

AnswerStatus ==
  /\ request = "checked"
  /\ Close
  /\ UNCHANGED <<vars, result, outcome, given>>

(* get_job_result: get_job_safe locks the row, or the answer is 423.       *)
LockResult ==
  /\ request = "checked"
  /\ ReadResult
  /\ request' = "locked"
  /\ UNCHANGED <<result, outcome, seen, given>>

(* A query that fails is answered alike; like AnswerStatus it only ends    *)
(* the request.                                                            *)
RefuseLocked ==
  /\ request = "checked"
  /\ lock # Free
  /\ Close
  /\ UNCHANGED <<vars, result, outcome, given>>

(* The locked query finds the job in the session and returns that object,  *)
(* as it was loaded before the lock.                                       *)
AnswerResult ==
  /\ request = "locked"
  /\ EndRead
  /\ Close
  /\ given' = given \cup Keys(seen.audio)
  /\ UNCHANGED <<result, outcome>>

(* send_webhook posts the row, which it loads with a lock.                 *)
Callback ==
  /\ webhook
  /\ lock = Free
  /\ given' = given \cup Keys(audio)
  /\ UNCHANGED <<vars, result, outcome, request, seen>>

-----------------------------------------------------------------------------
Requests ==
  CheckOwner \/ AnswerStatus \/ LockResult \/ RefuseLocked \/ AnswerResult

ViewNext ==
  \/ \E w \in Workers : TaskStep(w) \/ Report(w)
  \/ Submission \/ Requests \/ Callback
  \/ Quiescent /\ UNCHANGED view

ViewSpec == ViewInit /\ [][ViewNext]_viewVars

(* As in Pipeline; a worker also stores the result of what it executed.    *)
ViewFairness ==
  /\ WF_viewVars(AnswerResult)
  /\ WF_viewVars(\E w \in Workers : TaskStep(w) /\ Deliver(w))
  /\ \A w \in Workers : WF_viewVars((TaskStep(w) /\ Work(w)) \/ Report(w))

ViewFairSpec == ViewSpec /\ ViewFairness

-----------------------------------------------------------------------------
(* Type invariant.  Besides the types: a result is left to be stored only  *)
(* between the end of an execution and its acknowledgement, and the        *)
(* endpoint has the row lock exactly while it answers.                     *)
ViewTypeOK ==
  /\ result \in {"none", "retry", "success"}
  /\ outcome \in [Workers -> {"none", "retry", "success"}]
  /\ request \in {"idle", "checked", "locked"}
  /\ seen \in [state : {"none"} \cup Eligible \cup Terminal, audio : Nat]
  /\ given \subseteq Nat
  /\ \A w \in Workers : outcome[w] # "none" => pc[w] = "ack"
  /\ lock = Api <=> request = "locked"

(* Whatever a client was given stays public, also when the answer was      *)
(* outdated, when another delivery replaces the audio_url later, and when  *)
(* deliveries fail and delete what they uploaded (tts.py lines 196-208,    *)
(* util.py lines 131-143).                                                 *)
GivenAudioStays == given \subseteq public

(* While the task of a job has not returned, a message or a worker is left *)
(* that will make it do so, whatever is redelivered or lost: a job that    *)
(* was submitted is never at rest with the status "retry" or with none     *)
(* from Celery (tasks.py lines 18-31, main.py lines 59-62).                *)
WorkUntilReported ==
  (AllQuiet /\ submission = "committed") => result = "success"

(* Unless two deliveries ran at the same time, the callback says SUCCESS,  *)
(* however late it is made (tasks.py line 119, util.py line 177).          *)
CallbackSaysSuccess == (webhook /\ ~overlapped) => state = "success"

(* The task of a queued job returns in the end, and no execution that      *)
(* comes late, of a worker that was given up, hides it (tts.py lines       *)
(* 175-177).                                                               *)
ReportedInTheEnd == (queue > 0) ~> [](result = "success")

(* README.md line 45: the status is the current state of the job.  A task  *)
(* that marked its job FAILURE, or found no row, has returned normally.    *)
ReportedSuccessIsSuccess ==
  (request = "checked" /\ Status = "success") => state = "success"
=============================================================================
