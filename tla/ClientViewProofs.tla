--------------------------- MODULE ClientViewProofs ---------------------------
(***************************************************************************)
(* Proofs about ClientView.  Its steps are steps of Pipeline, so that the  *)
(* invariant of PipelineProofs holds in it; what a client sees is added.   *)
(***************************************************************************)
EXTENDS ClientView, PipelineProofs

(* The key k was in a row: no worker will delete it.                       *)
Handed(k) ==
  /\ k \in public
  /\ k \in 1..attempts
  /\ \A w \in Workers : Keyed(w) => key[w] # k

HandedInv ==
  /\ \A k \in given : Handed(k)
  /\ seen.audio # NoFile => Handed(seen.audio)

(* w has the message, and its execution will store SUCCESS, retry or be    *)
(* lost, which puts a message back.                                        *)
Carries(w) ==
  /\ held[w]
  /\ \/ pc[w] \notin {"idle", "ack"}
     \/ pc[w] = "ack" /\ outcome[w] = "success"

CarriedInv ==
  submission \in {"enqueued", "committed"} /\ result # "success" =>
    queue > 0 \/ \E w \in Workers : Carries(w)

(* Without an overlap, nobody touches the row after SUCCESS.               *)
AnnouncedInv ==
  ~overlapped /\ (webhook \/ \E w \in Workers : pc[w] = "announce") =>
    state = "success"

ViewInv == IInv /\ ViewTypeOK /\ HandedInv /\ CarriedInv /\ AnnouncedInv

-----------------------------------------------------------------------------
(* A step of the view is a step of Pipeline, or leaves Pipeline alone.     *)
LEMMA StepSimulation == [ViewNext]_viewVars => [Next]_vars
<1> SUFFICES ASSUME [ViewNext]_viewVars PROVE [Next]_vars
  OBVIOUS
<1>1. ASSUME NEW w \in Workers, TaskStep(w) PROVE Next
  BY <1>1 DEF TaskStep, Next
<1>2. ASSUME NEW w \in Workers, Report(w) PROVE UNCHANGED vars
  BY <1>2 DEF Report
<1>3. Submission => Next
  BY DEF Submission, Next
<1>4. Requests => Next \/ UNCHANGED vars
  BY DEF Requests, CheckOwner, AnswerStatus, LockResult, RefuseLocked,
     AnswerResult, Next
<1>5. Callback => UNCHANGED vars
  BY DEF Callback
<1>6. UNCHANGED viewVars => UNCHANGED vars
  BY DEF viewVars
<1> QED
  BY <1>1, <1>2, <1>3, <1>4, <1>5, <1>6 DEF ViewNext, Next

(* What a step of Pipeline may do to the files.                            *)
FilesKept ==
  /\ public \subseteq public'
  /\ UNCHANGED <<attempts, key>>
  /\ \A v \in Workers : Keyed(v)' => Keyed(v)

(* Only a claim hands out a key, only a cleanup takes a file away.         *)
LEMMA FileFrame ==
  TypeOK /\ [Next]_vars =>
    \/ FilesKept
    \/ \E w \in Workers : CommitExecuting(w) \/ Delete(w)
<1> DEFINE G == FilesKept \/ \E u \in Workers : CommitExecuting(u) \/ Delete(u)
<1>0. SUFFICES ASSUME TypeOK, [Next]_vars PROVE G
  OBVIOUS
<1>a. pc \in [Workers -> Labels]
  BY <1>0 DEF TypeOK
<1> USE <1>a DEF FilesKept, Keyed, row, broker, session, bucket, outbox
<1>1. CASE Enqueue
  BY <1>1 DEF Enqueue
<1>2. CASE CommitSubmit
  BY <1>2 DEF CommitSubmit
<1>3. CASE RollbackSubmit
  BY <1>3 DEF RollbackSubmit
<1>4. CASE ReadResult
  BY <1>4 DEF ReadResult
<1>5. CASE EndRead
  BY <1>5 DEF EndRead
<1>6. ASSUME NEW w \in Workers, Deliver(w) PROVE G
  BY <1>6 DEF Deliver, Goto
<1>7. ASSUME NEW w \in Workers, Work(w) PROVE G
  <2>1. CASE ClaimLocked(w)
    BY <2>1 DEF ClaimLocked, Fault, Goto, RetriedWhenLocked
  <2>2. CASE ClaimNothing(w)
    BY <2>2 DEF ClaimNothing, Goto, Claimable
  <2>3. CASE Claim(w)
    BY <2>3 DEF Claim, Goto, Claimable, Enter
  <2>4. CASE CommitExecuting(w)
    BY <2>4
  <2>5. CASE Respond(w)
    BY <2>5 DEF Respond, Goto
  <2>6. CASE Upload(w)
    BY <2>6 DEF Upload, Goto
  <2>7. CASE Publish(w)
    BY <2>7 DEF Publish, Goto
  <2>8. CASE Delete(w)
    BY <2>8
  <2>9. CASE Finish(w)
    BY <2>9 DEF Finish, Goto, ErrorCleared
  <2>10. CASE Announce(w)
    BY <2>10 DEF Announce, Goto
  <2>11. CASE SendRefund(w)
    BY <2>11 DEF SendRefund, Goto
  <2>12. CASE ReadMark(w)
    BY <2>12 DEF ReadMark, Goto
  <2>13. CASE WriteMark(w)
    BY <2>13 DEF WriteMark, Goto
  <2>14. CASE Retry(w)
    BY <2>14 DEF Retry, Goto
  <2>15. CASE Ack(w)
    BY <2>15 DEF Ack, Goto
  <2> QED
    BY <1>7, <2>1, <2>2, <2>3, <2>4, <2>5, <2>6, <2>7, <2>8, <2>9, <2>10, <2>11, <2>12, <2>13, <2>14, <2>15 DEF Work
<1>8. ASSUME NEW w \in Workers, Disturb(w) PROVE G
  <2>1. CASE Redeliver(w)
    BY <2>1 DEF Redeliver, Fault, Goto
  <2>2. CASE LoseWorker(w)
    BY <2>2 DEF LoseWorker, Fault, Goto, AckedLate, Unlocked
  <2>3. CASE StreamFails(w)
    BY <2>3 DEF StreamFails, Fault, Goto, CommitPending
  <2>4. CASE StoreFails(w)
    BY <2>4 DEF StoreFails, Fault, Goto, CommitPending
  <2>5. CASE DeleteFails(w)
    BY <2>5 DEF DeleteFails, Fault, Goto
  <2>6. CASE AnnounceFails(w)
    BY <2>6 DEF AnnounceFails, Fault, Goto
  <2>7. CASE Unexpected(w)
    BY <2>7 DEF Unexpected, Fault, Goto, Enter, Unlocked, CommitPending
  <2>8. CASE SendRefundFails(w)
    BY <2>8 DEF SendRefundFails, Fault, Goto, RetriedFirst
  <2>9. CASE MarkFails(w)
    BY <2>9 DEF MarkFails, Fault, Goto
  <2> QED
    BY <1>8, <2>1, <2>2, <2>3, <2>4, <2>5, <2>6, <2>7, <2>8, <2>9 DEF Disturb
<1>9. CASE UNCHANGED vars
  BY <1>9 DEF vars
<1> QED
  BY <1>0, <1>1, <1>2, <1>3, <1>4, <1>5, <1>6, <1>7, <1>8, <1>9 DEF Next, Quiescent

(* What a step of w does to the messages and to the other workers.         *)
Passes(w) ==
  /\ submission' = submission
  /\ \A v \in Workers \ {w} : pc'[v] = pc[v] /\ held'[v] = held[v]
  /\ queue > 0 => queue' > 0 \/ pc[w] = "idle"
  /\ pc[w] = "idle" => held'[w] /\ pc'[w] = "claim"
  /\ held[w] /\ pc[w] # "idle" =>
        \/ queue' > 0
        \/ Ack(w)
        \/ held'[w] /\ pc'[w] # "idle" /\ pc[w] \notin {"ack", "retry"}

(* A message that is taken, given up or retried stays somewhere.           *)
LEMMA MessageFrame ==
  ASSUME TypeOK, NEW w \in Workers, Deliver(w) \/ Work(w) \/ Disturb(w)
  PROVE  Passes(w)
<1>0. /\ pc \in [Workers -> Labels] /\ held \in [Workers -> BOOLEAN]
      /\ queue \in Nat
  BY DEF TypeOK
<1> USE <1>0 DEF Passes, broker
<1>1. CASE Deliver(w)
  BY <1>1 DEF Deliver, Goto
<1>2. CASE Work(w)
  <2>1. CASE ClaimLocked(w)
    BY <2>1 DEF ClaimLocked, Fault, Goto, RetriedWhenLocked
  <2>2. CASE ClaimNothing(w)
    BY <2>2 DEF ClaimNothing, Goto, Claimable
  <2>3. CASE Claim(w)
    BY <2>3 DEF Claim, Goto, Claimable, Enter
  <2>4. CASE CommitExecuting(w)
    BY <2>4 DEF CommitExecuting, Goto, Unlocked
  <2>5. CASE Respond(w)
    BY <2>5 DEF Respond, Goto
  <2>6. CASE Upload(w)
    BY <2>6 DEF Upload, Goto
  <2>7. CASE Publish(w)
    BY <2>7 DEF Publish, Goto
  <2>8. CASE Delete(w)
    BY <2>8 DEF Delete, Goto
  <2>9. CASE Finish(w)
    BY <2>9 DEF Finish, Goto
  <2>10. CASE Announce(w)
    BY <2>10 DEF Announce, Goto
  <2>11. CASE SendRefund(w)
    BY <2>11 DEF SendRefund, Goto
  <2>12. CASE ReadMark(w)
    BY <2>12 DEF ReadMark, Goto
  <2>13. CASE WriteMark(w)
    BY <2>13 DEF WriteMark, Goto
  <2>14. CASE Retry(w)
    BY <2>14 DEF Retry, Goto
  <2>15. CASE Ack(w)
    BY <2>15 DEF Ack, Goto
  <2> QED
    BY <1>2, <2>1, <2>2, <2>3, <2>4, <2>5, <2>6, <2>7, <2>8, <2>9, <2>10, <2>11, <2>12, <2>13, <2>14, <2>15 DEF Work
<1>3. CASE Disturb(w)
  <2>1. CASE Redeliver(w)
    BY <2>1 DEF Redeliver, Fault, Goto
  <2>2. CASE LoseWorker(w)
    BY <2>2 DEF LoseWorker, Fault, Goto, AckedLate, Unlocked
  <2>3. CASE StreamFails(w)
    BY <2>3 DEF StreamFails, Fault, Goto, CommitPending
  <2>4. CASE StoreFails(w)
    BY <2>4 DEF StoreFails, Fault, Goto, CommitPending
  <2>5. CASE DeleteFails(w)
    BY <2>5 DEF DeleteFails, Fault, Goto
  <2>6. CASE AnnounceFails(w)
    BY <2>6 DEF AnnounceFails, Fault, Goto
  <2>7. CASE Unexpected(w)
    BY <2>7 DEF Unexpected, Fault, Goto, Enter, Unlocked, CommitPending
  <2>8. CASE SendRefundFails(w)
    BY <2>8 DEF SendRefundFails, Fault, Goto, RetriedFirst
  <2>9. CASE MarkFails(w)
    BY <2>9 DEF MarkFails, Fault, Goto
  <2> QED
    BY <1>3, <2>1, <2>2, <2>3, <2>4, <2>5, <2>6, <2>7, <2>8, <2>9 DEF Disturb
<1> QED
  BY <1>0, <1>1, <1>2, <1>3

(* What a step of w does to the row and the messages it leads to.          *)
Announces(w) ==
  /\ lock' = Api <=> lock = Api
  /\ overlapped => overlapped'
  /\ webhook' => webhook \/ pc[w] = "announce"
  /\ \A v \in Workers :
        pc'[v] = "announce" => pc[v] = "announce" \/ state' = "success"

(* SUCCESS comes before the callback, and no worker holds the lock of a    *)
(* request.                                                                *)
LEMMA RowFrame ==
  ASSUME TypeOK, NEW w \in Workers, Deliver(w) \/ Work(w) \/ Disturb(w)
  PROVE  Announces(w)
<1>0. /\ pc \in [Workers -> Labels] /\ overlapped \in BOOLEAN
      /\ webhook \in BOOLEAN /\ w # Api /\ Free # Api
  BY PipelineAssumption DEF TypeOK
<1> USE <1>0 DEF Announces, row, outbox
<1>1. CASE Deliver(w)
  BY <1>1 DEF Deliver, Goto
<1>2. CASE Work(w)
  <2>1. CASE ClaimLocked(w)
    BY <2>1 DEF ClaimLocked, Fault, Goto, RetriedWhenLocked
  <2>2. CASE ClaimNothing(w)
    BY <2>2 DEF ClaimNothing, Goto, Claimable
  <2>3. CASE Claim(w)
    BY <2>3 DEF Claim, Goto, Claimable, Enter
  <2>4. CASE CommitExecuting(w)
    BY <2>4 DEF CommitExecuting, Goto, Unlocked
  <2>5. CASE Respond(w)
    BY <2>5 DEF Respond, Goto
  <2>6. CASE Upload(w)
    BY <2>6 DEF Upload, Goto
  <2>7. CASE Publish(w)
    BY <2>7 DEF Publish, Goto
  <2>8. CASE Delete(w)
    BY <2>8 DEF Delete, Goto
  <2>9. CASE Finish(w)
    BY <2>9 DEF Finish, Goto
  <2>10. CASE Announce(w)
    BY <2>10 DEF Announce, Goto
  <2>11. CASE SendRefund(w)
    BY <2>11 DEF SendRefund, Goto
  <2>12. CASE ReadMark(w)
    BY <2>12 DEF ReadMark, Goto
  <2>13. CASE WriteMark(w)
    BY <2>13 DEF WriteMark, Goto
  <2>14. CASE Retry(w)
    BY <2>14 DEF Retry, Goto
  <2>15. CASE Ack(w)
    BY <2>15 DEF Ack, Goto
  <2> QED
    BY <1>2, <2>1, <2>2, <2>3, <2>4, <2>5, <2>6, <2>7, <2>8, <2>9, <2>10, <2>11, <2>12, <2>13, <2>14, <2>15 DEF Work
<1>3. CASE Disturb(w)
  <2>1. CASE Redeliver(w)
    BY <2>1 DEF Redeliver, Fault, Goto
  <2>2. CASE LoseWorker(w)
    BY <2>2 DEF LoseWorker, Fault, Goto, AckedLate, Unlocked
  <2>3. CASE StreamFails(w)
    BY <2>3 DEF StreamFails, Fault, Goto, CommitPending
  <2>4. CASE StoreFails(w)
    BY <2>4 DEF StoreFails, Fault, Goto, CommitPending
  <2>5. CASE DeleteFails(w)
    BY <2>5 DEF DeleteFails, Fault, Goto
  <2>6. CASE AnnounceFails(w)
    BY <2>6 DEF AnnounceFails, Fault, Goto
  <2>7. CASE Unexpected(w)
    BY <2>7 DEF Unexpected, Fault, Goto, Enter, Unlocked, CommitPending
  <2>8. CASE SendRefundFails(w)
    BY <2>8 DEF SendRefundFails, Fault, Goto, RetriedFirst
  <2>9. CASE MarkFails(w)
    BY <2>9 DEF MarkFails, Fault, Goto
  <2> QED
    BY <1>3, <2>1, <2>2, <2>3, <2>4, <2>5, <2>6, <2>7, <2>8, <2>9 DEF Disturb
<1> QED
  BY <1>0, <1>1, <1>2, <1>3

-----------------------------------------------------------------------------
(* A file that was in a row stays out of every worker's reach.             *)
LEMMA HandedStep ==
  ASSUME IInv, [Next]_vars, NEW k, Handed(k)
  PROVE  Handed(k)'
<1>0. /\ TypeOK /\ KeyInv
      /\ attempts \in Nat /\ key \in [Workers -> Nat]
      /\ pc \in [Workers -> Labels]
  BY DEF IInv, TypeOK
<1>1. CASE FilesKept
  BY <1>1 DEF FilesKept, Handed
<1>2. ASSUME NEW w \in Workers, CommitExecuting(w) PROVE Handed(k)'
  <2>1. /\ key' = [key EXCEPT ![w] = attempts + 1]
        /\ attempts' = attempts + 1
        /\ pc' = [pc EXCEPT ![w] = "request"]
        /\ public' = public
    BY <1>2 DEF CommitExecuting, FreshKey, Goto, bucket
  <2>2. k \in 1..attempts' /\ k # attempts + 1
    BY <1>0, <2>1 DEF Handed
  <2>3. ASSUME NEW v \in Workers, Keyed(v)' PROVE key'[v] # k
    BY <1>0, <2>1, <2>2, <2>3 DEF Handed, Keyed
  <2> QED
    BY <2>1, <2>2, <2>3 DEF Handed
<1>3. ASSUME NEW w \in Workers, Delete(w) PROVE Handed(k)'
  <2>1. /\ pc[w] = "cleanup" /\ pc' = [pc EXCEPT ![w] = "retry"]
        /\ public' = public \ {key[w]}
        /\ UNCHANGED <<key, attempts>>
    BY <1>3 DEF Delete, Goto, session
  <2>2. key[w] # k
    BY <2>1 DEF Handed, Keyed
  <2>3. ASSUME NEW v \in Workers, Keyed(v)' PROVE Keyed(v)
    BY <1>0, <2>1, <2>3 DEF Keyed
  <2> QED
    BY <2>1, <2>2, <2>3 DEF Handed
<1> QED
  BY <1>0, <1>1, <1>2, <1>3, FileFrame

(* The file of the row is such a file.                                     *)
LEMMA RowHanded ==
  ASSUME IInv, audio # NoFile
  PROVE  Handed(audio)
<1>1. audio \in 0..attempts /\ attempts \in Nat /\ KeyInv
  BY DEF IInv, KeyInv, TypeOK
<1>2. audio \in 1..attempts
  BY <1>1 DEF NoFile
<1> QED
  BY <1>1, <1>2 DEF Handed, KeyInv

(* Clients are given files that they, or their requests, read in the row.  *)
LEMMA GivenFrame ==
  ASSUME [ViewNext]_viewVars
  PROVE  /\ \A k \in given' :
              k \in given \/ (k \in {seen.audio, audio} /\ k # NoFile)
         /\ seen'.audio \in {seen.audio, audio, NoFile}
<1>1. ASSUME NEW w \in Workers, TaskStep(w) \/ Report(w)
      PROVE  UNCHANGED client
  BY <1>1 DEF TaskStep, Report
<1>2. CASE Submission
  BY <1>2 DEF Submission, view, client
<1>3. CASE Requests
  BY <1>3 DEF Requests, CheckOwner, AnswerStatus, LockResult, RefuseLocked,
     AnswerResult, Close, NotLoaded, Keys
<1>4. CASE Callback
  BY <1>4 DEF Callback, Keys
<1>5. CASE UNCHANGED view
  BY <1>5 DEF view, client
<1> QED
  BY <1>1, <1>2, <1>3, <1>4, <1>5 DEF ViewNext, viewVars, view, client

(* What clients were given stays out of the workers' reach.                *)
LEMMA GivenStep ==
  ASSUME IInv, HandedInv, [ViewNext]_viewVars
  PROVE  HandedInv'
<1>1. [Next]_vars
  BY StepSimulation
<1>2. ASSUME NEW k, k \in given \/ (k \in {seen.audio, audio} /\ k # NoFile)
      PROVE  Handed(k)'
  BY <1>1, <1>2, HandedStep, RowHanded DEF HandedInv
<1>3. \A k \in given' : Handed(k)'
  BY <1>2, GivenFrame
<1>4. seen'.audio # NoFile => seen'.audio \in {seen.audio, audio}
  BY GivenFrame
<1>5. ASSUME seen'.audio # NoFile PROVE Handed(seen.audio)'
  <2>1. PICK k : k = seen'.audio
    OBVIOUS
  <2>2. Handed(k)'
    BY <1>2, <1>4, <1>5, <2>1
  <2> QED
    BY <2>1, <2>2 DEF Handed
<1> QED
  BY <1>3, <1>5 DEF HandedInv

-----------------------------------------------------------------------------
(* No request has the lock after a submission's step.                      *)
LEMMA SubmissionFrame ==
  ASSUME Submission
  PROVE  UNCHANGED <<view, lock, held, pc, webhook, overlapped>>
BY DEF Submission, Enqueue, CommitSubmit, RollbackSubmit, broker, outbox

(* What the requests do to the variables they share with the task.         *)
LEMMA RequestFrame ==
  ASSUME Requests
  PROVE  /\ UNCHANGED <<submission, row, broker, pc, webhook, overlapped,
                         result, outcome>>
         /\ \/ UNCHANGED lock /\ request # "locked" /\ request' # "locked"
            \/ lock' = Api /\ request' = "locked"
            \/ lock' = Free /\ request' = "idle"
BY DEF Requests, CheckOwner, AnswerStatus, LockResult, RefuseLocked,
   AnswerResult, Close, ReadResult, EndRead, vars, outbox

(* Every step keeps the variables of the view in their ranges.             *)
LEMMA ViewTypeStep ==
  ASSUME IInv, ViewTypeOK, [ViewNext]_viewVars
  PROVE  ViewTypeOK'
<1>0. TypeOK /\ Free # Api
  BY PipelineAssumption DEF IInv
<1>1. /\ seen' \in [state : {"none"} \cup Eligible \cup Terminal, audio : Nat]
      /\ request' \in {"idle", "checked", "locked"}
  <2>1. CASE UNCHANGED client
    BY <2>1 DEF client, ViewTypeOK
  <2>2. CASE Requests
    <3>1. /\ seen' \in {seen, NotLoaded, [state |-> state, audio |-> audio]}
          /\ request' \in {"idle", "checked", "locked"}
      BY <2>2 DEF Requests, CheckOwner, AnswerStatus, LockResult,
         RefuseLocked, AnswerResult, Close
    <3>2. state \in {"none"} \cup Eligible \cup Terminal /\ audio \in Nat
      BY <1>0 DEF TypeOK
    <3> QED
      BY <3>1, <3>2 DEF NotLoaded, NoFile, ViewTypeOK
  <2>3. CASE Callback
    BY <2>3 DEF Callback, ViewTypeOK
  <2> QED
    BY <2>1, <2>2, <2>3 DEF ViewNext, TaskStep, Report, Submission, view,
       viewVars, client
<1>2. given' \subseteq Nat
  BY <1>0, GivenFrame DEF ViewTypeOK, TypeOK
<1>3. ASSUME NEW w \in Workers, TaskStep(w)
      PROVE  /\ result' = result
             /\ outcome' \in [Workers -> {"none", "retry", "success"}]
             /\ \A v \in Workers : outcome'[v] # "none" => pc'[v] = "ack"
             /\ lock' = Api <=> request' = "locked"
  <2>1. lock' = Api <=> lock = Api
    BY <1>0, <1>3, RowFrame DEF TaskStep, Announces
  <2>2. \A v \in Workers : OutcomeAfter(v) \in {"none", "retry", "success"}
    BY DEF ViewTypeOK, OutcomeAfter
  <2>3. \A v \in Workers : OutcomeAfter(v) # "none" => pc'[v] = "ack"
    BY DEF OutcomeAfter
  <2> QED
    BY <1>3, <2>1, <2>2, <2>3 DEF TaskStep, client, ViewTypeOK
<1>4. ASSUME NEW w \in Workers, Report(w)
      PROVE  /\ result' \in {"none", "retry", "success"}
             /\ outcome' \in [Workers -> {"none", "retry", "success"}]
             /\ \A v \in Workers : outcome'[v] # "none" => pc'[v] = "ack"
             /\ lock' = Api <=> request' = "locked"
  BY <1>4 DEF Report, Stored, client, vars, ViewTypeOK
<1>5. ASSUME Submission \/ Requests \/ Callback \/ UNCHANGED <<view, lock, pc>>
      PROVE  UNCHANGED <<result, outcome, pc>>
  BY <1>5, SubmissionFrame, RequestFrame DEF Callback, view, vars
<1>6. ASSUME Submission \/ Requests \/ Callback \/ UNCHANGED <<view, lock, pc>>
      PROVE  lock' = Api <=> request' = "locked"
  BY <1>0, <1>6, SubmissionFrame, RequestFrame
     DEF Callback, view, vars, client, ViewTypeOK
<1> QED
  <2>1. ASSUME Submission \/ Requests \/ Callback \/ UNCHANGED <<view, lock, pc>>
        PROVE  ViewTypeOK'
    BY <1>1, <1>2, <1>5, <1>6, <2>1 DEF ViewTypeOK
  <2>2. ASSUME NEW w \in Workers, TaskStep(w) \/ Report(w)
        PROVE  ViewTypeOK'
    BY <1>1, <1>2, <1>3, <1>4, <2>2 DEF ViewTypeOK
  <2> QED
    BY <2>1, <2>2 DEF ViewNext, Quiescent, viewVars, vars

-----------------------------------------------------------------------------
(* A step of a task leaves a message or a worker that carries one.         *)
LEMMA CarriedByTask ==
  ASSUME IInv, ViewTypeOK, CarriedInv, NEW w \in Workers, TaskStep(w),
         submission' \in {"enqueued", "committed"}, result' # "success"
  PROVE  queue' > 0 \/ \E v \in Workers : Carries(v)'
<1>1. /\ Deliver(w) \/ (Work(w) /\ Reported(w)) \/ Disturb(w)
      /\ \A v \in Workers : outcome'[v] = OutcomeAfter(v)
      /\ result' = result
  BY DEF TaskStep
<1>2. Passes(w)
  BY <1>1, MessageFrame DEF IInv
<1>3. queue > 0 \/ \E v \in Workers : Carries(v)
  BY <1>1, <1>2 DEF CarriedInv, Passes
<1>4. CASE queue > 0
  BY <1>1, <1>2, <1>4 DEF Passes, Carries
<1>5. ASSUME NEW v \in Workers, v # w, Carries(v) PROVE Carries(v)'
  <2>1. pc'[v] = pc[v] /\ held'[v] = held[v]
    BY <1>2, <1>5 DEF Passes
  <2>2. pc[v] = "ack" => outcome'[v] = outcome[v]
    BY <1>1, <2>1 DEF OutcomeAfter
  <2> QED
    BY <1>5, <2>1, <2>2 DEF Carries
<1>6. CASE Carries(w)
  <2>1. \/ queue' > 0
        \/ Ack(w)
        \/ held'[w] /\ pc'[w] # "idle" /\ pc[w] \notin {"ack", "retry"}
    BY <1>2, <1>6 DEF Passes, Carries
  <2>2. ASSUME Ack(w), ~(queue' > 0) PROVE FALSE
    <3>1. pc[w] = "ack" /\ outcome[w] = "success" /\ held[w]
      BY <1>6, <2>2 DEF Ack, Carries
    <3>2. ~Deliver(w) /\ ~Reported(w)
      BY <3>1 DEF Deliver, Reported
    <3>3. pc'[w] = "idle" /\ queue \in Nat
      BY <2>2 DEF Ack, Goto, IInv, TypeOK
    <3>4. ~Redeliver(w) /\ ~LoseWorker(w)
      BY <2>2, <3>1, <3>3 DEF Redeliver, LoseWorker, AckedLate
    <3>5. ~Disturb(w)
      BY <3>1, <3>4 DEF Disturb, StreamFails, StoreFails, DeleteFails,
         AnnounceFails, Unexpected, SendRefundFails, MarkFails
    <3> QED
      BY <1>1, <3>2, <3>5
  <2>3. ASSUME held'[w], pc'[w] # "idle", pc[w] \notin {"ack", "retry"}
        PROVE  Carries(w)'
    BY <1>1, <2>3 DEF OutcomeAfter, Carries
  <2> QED
    BY <2>1, <2>2, <2>3
<1> QED
  BY <1>3, <1>4, <1>5, <1>6

(* A task that has not returned is carried on.                             *)
LEMMA CarriedStep ==
  ASSUME IInv, ViewTypeOK, CarriedInv, [ViewNext]_viewVars
  PROVE  CarriedInv'
<1>1. ASSUME NEW w \in Workers, TaskStep(w) PROVE CarriedInv'
  BY <1>1, CarriedByTask DEF CarriedInv
<1>2. ASSUME NEW w \in Workers, Report(w) PROVE CarriedInv'
  <2>1. /\ UNCHANGED <<submission, queue, held, pc>>
        /\ result' = Stored(w) /\ outcome' = [outcome EXCEPT ![w] = "none"]
    BY <1>2 DEF Report, vars, broker
  <2>2. outcome[w] = "success" => result' = "success"
    BY <2>1 DEF Stored
  <2>3. result = "success" => result' = "success"
    BY <2>1 DEF Stored
  <2>4. ASSUME NEW v \in Workers, Carries(v), result' # "success"
        PROVE  Carries(v)'
    BY <2>1, <2>2, <2>4 DEF Carries, ViewTypeOK
  <2> QED
    BY <2>1, <2>3, <2>4 DEF CarriedInv
<1>3. CASE Submission
  <2>1. UNCHANGED <<result, outcome, held, pc>> /\ queue \in Nat
    BY <1>3, SubmissionFrame DEF view, IInv, TypeOK
  <2>2. CASE Enqueue
    BY <2>1, <2>2 DEF Enqueue, CarriedInv
  <2>3. CASE CommitSubmit
    BY <2>1, <2>3 DEF CommitSubmit, CarriedInv, Carries, broker
  <2>4. CASE RollbackSubmit
    BY <2>4 DEF RollbackSubmit, CarriedInv
  <2> QED
    BY <1>3, <2>2, <2>3, <2>4 DEF Submission
<1>4. ASSUME UNCHANGED <<submission, queue, held, pc, result, outcome>>
      PROVE  CarriedInv'
  BY <1>4 DEF CarriedInv, Carries
<1> QED
  BY <1>1, <1>2, <1>3, <1>4, RequestFrame
     DEF ViewNext, Callback, Quiescent, viewVars, vars, broker, view

(* No callback before SUCCESS, and no change of it after the callback.     *)
LEMMA AnnouncedStep ==
  ASSUME IInv, AnnouncedInv, [ViewNext]_viewVars
  PROVE  AnnouncedInv'
<1>1. [Next]_vars
  BY StepSimulation
<1>2. ASSUME NEW w \in Workers, TaskStep(w) PROVE AnnouncedInv'
  <2>1. Announces(w)
    BY <1>2, RowFrame DEF TaskStep, IInv
  <2> SUFFICES ASSUME ~overlapped',
                      webhook' \/ \E v \in Workers : pc'[v] = "announce",
                      state' # "success"
               PROVE  FALSE
    BY DEF AnnouncedInv
  <2>2. /\ ~overlapped
        /\ webhook \/ \E v \in Workers : pc[v] = "announce"
    BY <2>1 DEF Announces
  <2>3. state = "success" /\ state \in Terminal
    BY <2>2 DEF AnnouncedInv, Terminal
  <2> QED
    BY <1>1, <2>2, <2>3, FinalStep
<1>3. CASE Submission
  <2>1. UNCHANGED <<pc, webhook, overlapped>>
    BY <1>3, SubmissionFrame
  <2>2. ASSUME ~overlapped, state = "success" PROVE state' = "success"
    BY <1>1, <2>2, FinalStep DEF Terminal
  <2> QED
    BY <2>1, <2>2 DEF AnnouncedInv
<1>4. ASSUME UNCHANGED <<state, pc, webhook, overlapped>>
      PROVE  AnnouncedInv'
  BY <1>4 DEF AnnouncedInv
<1> QED
  BY <1>2, <1>3, <1>4, RequestFrame
     DEF ViewNext, Report, Callback, Quiescent, viewVars, vars, row, outbox

-----------------------------------------------------------------------------
(* ClientView implements Pipeline: all that PipelineProofs shows of a job  *)
(* holds while clients ask about it.                                       *)
THEOREM ImplementsPipeline == ViewSpec => Spec
<1>1. ViewInit => Init
  BY DEF ViewInit
<1> QED
  BY <1>1, StepSimulation, PTL DEF ViewSpec, Spec

(* The invariant holds initially.                                          *)
LEMMA ViewInitHolds == ViewInit => ViewInv
<1> SUFFICES ASSUME ViewInit PROVE ViewInv
  OBVIOUS
<1>1. Init /\ IInv
  BY InitHolds DEF ViewInit
<1>2. ViewTypeOK
  BY <1>1, PipelineAssumption DEF ViewInit, Init, ViewTypeOK, NotLoaded, NoFile
<1>3. HandedInv
  BY DEF ViewInit, HandedInv, NotLoaded
<1>4. CarriedInv /\ AnnouncedInv
  BY <1>1 DEF Init, CarriedInv, AnnouncedInv
<1> QED
  BY <1>1, <1>2, <1>3, <1>4 DEF ViewInv

(* The invariant holds in every reachable state.                           *)
THEOREM ViewInvariance == ViewSpec => []ViewInv
<1>1. ViewInit => ViewInv
  BY ViewInitHolds
<1>2. ViewInv /\ [ViewNext]_viewVars => ViewInv'
  <2>1. IInv /\ [Next]_vars => IInv'
    BY TypeStep, KeyStep, RefundStep, SoloStep, RowStep DEF IInv
  <2> QED
    BY <2>1, StepSimulation, GivenStep, ViewTypeStep, CarriedStep,
       AnnouncedStep DEF ViewInv
<1> QED
  BY <1>1, <1>2, PTL DEF ViewSpec

(* The view is type-correct; in particular a request has the row lock only *)
(* while it answers.                                                       *)
THEOREM ViewTypeCorrect == ViewSpec => []ViewTypeOK
<1>1. ViewInv => ViewTypeOK
  BY DEF ViewInv
<1> QED
  BY <1>1, ViewInvariance, PTL

(* No client loses the audio it was given, through any number of failing   *)
(* deliveries and outdated answers.                                        *)
THEOREM AudioStaysWithClients == ViewSpec => []GivenAudioStays
<1>1. ViewInv => GivenAudioStays
  BY DEF ViewInv, HandedInv, Handed, GivenAudioStays
<1> QED
  BY <1>1, ViewInvariance, PTL

(* No job comes to rest before its task has returned, for any number of    *)
(* retries, redeliveries and lost workers.                                 *)
THEOREM NothingRestsUnreported == ViewSpec => []WorkUntilReported
<1>1. ViewInv => WorkUntilReported
  <2> SUFFICES ASSUME ViewInv, AllQuiet, submission = "committed"
               PROVE  result = "success"
    BY DEF WorkUntilReported
  <2>1. queue = 0 /\ \A w \in Workers : ~Carries(w)
    BY DEF AllQuiet, Carries
  <2> QED
    BY <2>1 DEF ViewInv, CarriedInv
<1> QED
  BY <1>1, ViewInvariance, PTL

(* Without overlapping deliveries the callback reports SUCCESS.            *)
THEOREM CallbackIsTrue == ViewSpec => []CallbackSaysSuccess
<1>1. ViewInv => CallbackSaysSuccess
  BY DEF ViewInv, AnnouncedInv, CallbackSaysSuccess
<1> QED
  BY <1>1, ViewInvariance, PTL
=============================================================================
