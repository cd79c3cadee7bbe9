----------------------------- MODULE QuotaProofs -----------------------------
(***************************************************************************)
(* Proofs about Quota, for any set of users, requests and workers.         *)
(***************************************************************************)
EXTENDS Quota, Sums, TLAPS

(* Where the code relies on a row lock, it holds that lock.                *)
LockInv ==
  /\ \A r \in Requests :
        pc[r] \in {"welcome", "check", "enqueue", "commit"} =>
          userLock[UserOf[r]] = r
  /\ \A f \in RefundWorkers :
        /\ pc[f] # "idle" => task[f] \in Requests
        /\ pc[f] \in {"existing", "owner", "credit", "settle"} =>
             eventLock[task[f]] = f
        /\ pc[f] \in {"credit", "settle"} => userLock[UserOf[task[f]]] = f

(* What a session knows about a job between two of its statements.         *)
JobInv ==
  /\ \A r \in Requests :
        /\ pc[r] # "new" => chars[r] \in Lengths
        /\ pc[r] # "accepted" => usage[r] = 0
        /\ pc[r] = "commit" => r \in sent
        /\ usage[r] > 0 => r \in sent
        /\ refunds[r] \in {0, usage[r]}
  /\ \A f \in RefundWorkers :
        /\ pc[f] \in {"existing", "owner", "credit", "settle"} =>
             usage[task[f]] > 0
        /\ pc[f] \in {"owner", "credit", "settle"} => refunds[task[f]] = 0

(* What a session knows about a balance.                                   *)
BalanceInv ==
  /\ \A u \in Users : balance[u] >= 0
  /\ \A r \in Requests :
        pc[r] \in {"enqueue", "commit"} => cached[r] >= chars[r]
  /\ \A f \in RefundWorkers :
        pc[f] \in {"credit", "settle"} => cached[f] = balance[UserOf[task[f]]]

IInv == TypeOK /\ LockInv /\ JobInv /\ BalanceInv

-----------------------------------------------------------------------------
(* The end of a session's transaction frees its locks and changes no lock  *)
(* that another session holds.                                             *)
LEMMA UnlockFacts ==
  ASSUME TypeOK, NEW s, Unlock(s)
  PROVE  /\ userLock' \in [Users -> Sessions \cup {Free}]
         /\ eventLock' \in [Requests -> RefundWorkers \cup {Free}]
         /\ jobLock' \in [Requests -> RefundWorkers \cup {Other, Free}]
         /\ \A u \in Users : userLock[u] # s => userLock'[u] = userLock[u]
         /\ \A j \in Requests : eventLock[j] # s => eventLock'[j] = eventLock[j]
  BY DEF Unlock, Released, TypeOK

(* The amounts the actions calculate with are numbers.                     *)
LEMMA AmountFacts ==
  ASSUME TypeOK, NEW j \in Requests
  PROVE  /\ UserOf[j] \in Users
         /\ usage[j] \in Nat
         /\ chars[j] \in Nat
<1>1. Lengths \subseteq Nat
  BY QuotaAssumption
<1>2. Lengths \cup {0} \subseteq Nat
  BY <1>1
<1>3. usage[j] \in Lengths \cup {0} /\ chars[j] \in Lengths \cup {0}
  BY DEF TypeOK
<1>4. usage[j] \in Nat /\ chars[j] \in Nat
  BY <1>2, <1>3
<1>5. UserOf[j] \in Users
  BY QuotaAssumption
<1> QED
  BY <1>4, <1>5

(* One more copy of a message.                                             *)
LEMMA OneMore ==
  ASSUME NEW q \in [Requests -> Nat], NEW t
  PROVE  [q EXCEPT ![t] = @ + 1] \in [Requests -> Nat]
<1> DEFINE more == [q EXCEPT ![t] = @ + 1]
<1>1. ASSUME NEW x \in Requests PROVE more[x] \in Nat
  <2>1. CASE x = t
    BY <2>1
  <2>2. CASE x # t
    BY <2>2
  <2> QED
    BY <2>1, <2>2
<1>2. more = [x \in Requests |-> more[x]]
  OBVIOUS
<1> QED
  BY <1>1, <1>2

(* The initial state satisfies the invariant.                              *)
LEMMA InitHolds == Init => IInv
  BY QuotaAssumption
  DEF Init, IInv, TypeOK, LockInv, JobInv, BalanceInv, Sessions

(* Type correctness is preserved by every action.                          *)
LEMMA TypeStep == TypeOK /\ [Next]_vars => TypeOK'
<1>0. SUFFICES ASSUME TypeOK, [Next]_vars PROVE TypeOK'
  OBVIOUS
<1> USE <1>0, QuotaAssumption DEF TypeOK, Sessions, rows, locks
<1>r. ASSUME NEW r \in Requests, Submit(r) PROVE TypeOK'
  <2> UserOf[r] \in Users
    OBVIOUS
  <2>1. CASE Authenticate(r)
    BY <2>1 DEF Authenticate, Goto
  <2>2. CASE LoadUser(r)
    BY <2>2 DEF LoadUser, Goto
  <2>3. CASE CommitUser(r)
    <3>1. balance' \in [Users -> Int]
      BY <2>3 DEF CommitUser
    <3> QED
      BY <2>3, <3>1, UnlockFacts DEF CommitUser, Goto
  <2>4. CASE LockUser(r)
    BY <2>4 DEF LockUser, Goto
  <2>5. CASE Refuse(r)
    BY <2>5, UnlockFacts DEF Refuse, Close, Goto
  <2>6. CASE Reserve(r)
    BY <2>6 DEF Reserve, Goto
  <2>7. CASE Enqueue(r)
    BY <2>7 DEF Enqueue, Goto
  <2>8. CASE CommitSubmit(r)
    <3>1. Unlock(r)
      BY <2>8 DEF CommitSubmit, Close
    <3>2. balance' \in [Users -> Int]
      BY <2>8, AmountFacts DEF CommitSubmit
    <3>3. usage' \in [Requests -> Lengths \cup {0}]
      BY <2>8 DEF CommitSubmit, Recorded
    <3> QED
      BY <2>8, <3>1, <3>2, <3>3, UnlockFacts DEF CommitSubmit, Close, Goto
  <2> QED
    BY <1>r, <2>1, <2>2, <2>3, <2>4, <2>5, <2>6, <2>7, <2>8 DEF Submit
<1>1. ASSUME NEW r \in Requests, EnqueueFails(r) PROVE TypeOK'
  BY <1>1, UnlockFacts DEF EnqueueFails, Close, Goto
<1>2. ASSUME NEW r \in Requests, Abort(r) PROVE TypeOK'
  BY <1>2, UnlockFacts DEF Abort, Close, Goto
<1>3. ASSUME NEW j \in Requests, SynthesisFails(j) PROVE TypeOK'
  BY <1>3 DEF SynthesisFails
<1>j. ASSUME NEW j \in Requests, LockJob(j) \/ UnlockJob(j) PROVE TypeOK'
  BY <1>j DEF LockJob, UnlockJob
<1>t. ASSUME NEW f \in RefundWorkers, NEW j \in Requests, TakeRefund(f, j) PROVE TypeOK'
  BY <1>t DEF TakeRefund, Goto
<1>f. ASSUME NEW f \in RefundWorkers, NEW j \in Requests, Refund(f, j) PROVE TypeOK'
  <2> UserOf[j] \in Users
    OBVIOUS
  <2>1. CASE NoEvent(f, j)
    BY <2>1, UnlockFacts DEF NoEvent, Close, Goto
  <2>2. CASE LockEvent(f, j)
    BY <2>2 DEF LockEvent, Goto
  <2>3. CASE SkipRefund(f, j)
    BY <2>3, UnlockFacts DEF SkipRefund, Close, Goto
  <2>4. CASE CheckRefund(f, j)
    BY <2>4 DEF CheckRefund, Goto
  <2>5. CASE LockOwner(f, j)
    BY <2>5 DEF LockOwner, Goto
  <2>i. CASE InsertRefund(f, j)
    BY <2>i DEF InsertRefund, JobAvailable, Goto
  <2>6. CASE CommitRefund(f, j)
    <3>1. Unlock(f)
      BY <2>6 DEF CommitRefund, Close
    <3>2. usage[j] \in Nat
      BY AmountFacts
    <3>3. balance' \in [Users -> Int] /\ refunds' \in [Requests -> Nat]
      BY <2>6, <3>2 DEF CommitRefund, Credited
    <3> QED
      BY <2>6, <3>1, <3>3, UnlockFacts DEF CommitRefund, Close, Goto
  <2> QED
    BY <1>f, <2>1, <2>2, <2>3, <2>4, <2>5, <2>i, <2>6 DEF Refund
<1>4. ASSUME NEW f \in RefundWorkers, RetryRefund(f) PROVE TypeOK'
  <2>1. Unlock(f)
    BY <1>4 DEF RetryRefund, Close
  <2>2. queue' \in [Requests -> Nat]
    BY <1>4, OneMore DEF RetryRefund
  <2> QED
    BY <1>4, <2>1, <2>2, UnlockFacts DEF RetryRefund, Close, Goto
<1>5. ASSUME NEW f \in RefundWorkers, LoseWorker(f) PROVE TypeOK'
  <2>1. Unlock(f)
    BY <1>5 DEF LoseWorker, Close
  <2>2. queue' \in [Requests -> Nat]
    BY <1>5, OneMore DEF LoseWorker, AckedLate
  <2> QED
    BY <1>5, <2>1, <2>2, UnlockFacts DEF LoseWorker, Close, Goto
<1>6. ASSUME NEW f \in RefundWorkers, AckRefund(f) PROVE TypeOK'
  BY <1>6 DEF AckRefund, Goto
<1>7. CASE UNCHANGED vars
  BY <1>7 DEF vars
<1> QED
  BY <1>r, <1>1, <1>2, <1>3, <1>j, <1>t, <1>f, <1>4, <1>5, <1>6, <1>7
  DEF Next, Quiescent, Work, Disturb

(* A session keeps the locks it relies on until its transaction ends: no   *)
(* other session can take or free them.                                    *)
LEMMA LockStep == TypeOK /\ LockInv /\ [Next]_vars => LockInv'
<1>0. SUFFICES ASSUME TypeOK, LockInv, [Next]_vars PROVE LockInv'
  OBVIOUS
<1> USE <1>0, QuotaAssumption DEF TypeOK, LockInv, Sessions, rows, locks
<1>r. ASSUME NEW r \in Requests, Submit(r) PROVE LockInv'
  <2>1. CASE Authenticate(r)
    BY <2>1, UnlockFacts DEF Authenticate, Goto
  <2>2. CASE LoadUser(r)
    BY <2>2, UnlockFacts DEF LoadUser, Goto
  <2>3. CASE CommitUser(r)
    BY <2>3, UnlockFacts DEF CommitUser, Goto
  <2>4. CASE LockUser(r)
    BY <2>4, UnlockFacts DEF LockUser, Goto
  <2>5. CASE Refuse(r)
    BY <2>5, UnlockFacts DEF Refuse, Close, Goto
  <2>6. CASE Reserve(r)
    BY <2>6, UnlockFacts DEF Reserve, Goto
  <2>7. CASE Enqueue(r)
    BY <2>7, UnlockFacts DEF Enqueue, Goto
  <2>8. CASE CommitSubmit(r)
    BY <2>8, UnlockFacts DEF CommitSubmit, Close, Goto
  <2> QED
    BY <1>r, <2>1, <2>2, <2>3, <2>4, <2>5, <2>6, <2>7, <2>8 DEF Submit
<1>1. ASSUME NEW r \in Requests, EnqueueFails(r) PROVE LockInv'
  BY <1>1, UnlockFacts DEF EnqueueFails, Close, Goto
<1>2. ASSUME NEW r \in Requests, Abort(r) PROVE LockInv'
  BY <1>2, UnlockFacts DEF Abort, Close, Goto
<1>3. ASSUME NEW j \in Requests, SynthesisFails(j) PROVE LockInv'
  BY <1>3 DEF SynthesisFails
<1>j. ASSUME NEW j \in Requests, LockJob(j) \/ UnlockJob(j) PROVE LockInv'
  BY <1>j DEF LockJob, UnlockJob
<1>t. ASSUME NEW f \in RefundWorkers, NEW j \in Requests, TakeRefund(f, j) PROVE LockInv'
  BY <1>t, UnlockFacts DEF TakeRefund, Goto
<1>f. ASSUME NEW f \in RefundWorkers, NEW j \in Requests, Refund(f, j) PROVE LockInv'
  <2>1. CASE NoEvent(f, j)
    BY <2>1, UnlockFacts DEF NoEvent, Close, Goto
  <2>2. CASE LockEvent(f, j)
    BY <2>2, UnlockFacts DEF LockEvent, EventAvailable, Goto
  <2>3. CASE SkipRefund(f, j)
    BY <2>3, UnlockFacts DEF SkipRefund, Close, Goto
  <2>4. CASE CheckRefund(f, j)
    BY <2>4, UnlockFacts DEF CheckRefund, Goto
  <2>5. CASE LockOwner(f, j)
    BY <2>5, UnlockFacts DEF LockOwner, OwnerAvailable, Goto
  <2>i. CASE InsertRefund(f, j)
    BY <2>i DEF InsertRefund, JobAvailable, Goto
  <2>6. CASE CommitRefund(f, j)
    BY <2>6, UnlockFacts DEF CommitRefund, Close, Goto
  <2> QED
    BY <1>f, <2>1, <2>2, <2>3, <2>4, <2>5, <2>i, <2>6 DEF Refund
<1>4. ASSUME NEW f \in RefundWorkers, RetryRefund(f) PROVE LockInv'
  BY <1>4, UnlockFacts DEF RetryRefund, Close, Goto
<1>5. ASSUME NEW f \in RefundWorkers, LoseWorker(f) PROVE LockInv'
  BY <1>5, UnlockFacts DEF LoseWorker, Close, Goto
<1>6. ASSUME NEW f \in RefundWorkers, AckRefund(f) PROVE LockInv'
  BY <1>6, UnlockFacts DEF AckRefund, Goto
<1>7. CASE UNCHANGED vars
  BY <1>7 DEF vars
<1> QED
  BY <1>0, <1>r, <1>1, <1>2, <1>3, <1>j, <1>t, <1>f, <1>4, <1>5, <1>6, <1>7
  DEF Next, Quiescent, Work, Disturb

(* A job is charged once, and while one refund task is past its check no   *)
(* other one can credit the same job.                                      *)
LEMMA JobStep == TypeOK /\ LockInv /\ JobInv /\ [Next]_vars => JobInv'
<1>0. SUFFICES ASSUME TypeOK, LockInv, JobInv, [Next]_vars PROVE JobInv'
  OBVIOUS
<1> USE <1>0, QuotaAssumption DEF TypeOK, LockInv, JobInv, Sessions, rows, locks
<1>r. ASSUME NEW r \in Requests, Submit(r) PROVE JobInv'
  <2>1. CASE Authenticate(r)
    BY <2>1, UnlockFacts DEF Authenticate, Goto
  <2>2. CASE LoadUser(r)
    BY <2>2, UnlockFacts DEF LoadUser, Goto
  <2>3. CASE CommitUser(r)
    BY <2>3, UnlockFacts DEF CommitUser, Goto
  <2>4. CASE LockUser(r)
    BY <2>4, UnlockFacts DEF LockUser, Goto
  <2>5. CASE Refuse(r)
    BY <2>5, UnlockFacts DEF Refuse, Close, Goto
  <2>6. CASE Reserve(r)
    BY <2>6, UnlockFacts DEF Reserve, Goto
  <2>7. CASE Enqueue(r)
    BY <2>7, UnlockFacts DEF Enqueue, Goto
  <2>8. CASE CommitSubmit(r)
    BY <2>8, UnlockFacts DEF CommitSubmit, Recorded, Close, Goto
  <2> QED
    BY <1>r, <2>1, <2>2, <2>3, <2>4, <2>5, <2>6, <2>7, <2>8 DEF Submit
<1>1. ASSUME NEW r \in Requests, EnqueueFails(r) PROVE JobInv'
  BY <1>1, UnlockFacts DEF EnqueueFails, Close, Goto
<1>2. ASSUME NEW r \in Requests, Abort(r) PROVE JobInv'
  BY <1>2, UnlockFacts DEF Abort, Close, Goto
<1>3. ASSUME NEW j \in Requests, SynthesisFails(j) PROVE JobInv'
  BY <1>3 DEF SynthesisFails
<1>j. ASSUME NEW j \in Requests, LockJob(j) \/ UnlockJob(j) PROVE JobInv'
  BY <1>j DEF LockJob, UnlockJob
<1>t. ASSUME NEW f \in RefundWorkers, NEW j \in Requests, TakeRefund(f, j) PROVE JobInv'
  BY <1>t, UnlockFacts DEF TakeRefund, Goto
<1>f. ASSUME NEW f \in RefundWorkers, NEW j \in Requests, Refund(f, j) PROVE JobInv'
  <2>1. CASE NoEvent(f, j)
    BY <2>1, UnlockFacts DEF NoEvent, Close, Goto
  <2>2. CASE LockEvent(f, j)
    BY <2>2, UnlockFacts DEF LockEvent, Jobs, Goto
  <2>3. CASE SkipRefund(f, j)
    BY <2>3, UnlockFacts DEF SkipRefund, Close, Goto
  <2>4. CASE CheckRefund(f, j)
    BY <2>4, UnlockFacts DEF CheckRefund, AlreadyRefunded, Goto
  <2>5. CASE LockOwner(f, j)
    BY <2>5, UnlockFacts DEF LockOwner, Goto
  <2>i. CASE InsertRefund(f, j)
    BY <2>i DEF InsertRefund, JobAvailable, Goto
  <2>6. CASE CommitRefund(f, j)
    <3>1. /\ pc[f] = "settle" /\ task[f] = j
          /\ pc' = [pc EXCEPT ![f] = "ack"]
          /\ refunds' = [refunds EXCEPT ![j] = @ + usage[j]]
          /\ UNCHANGED <<usage, chars, task, sent>>
      BY <2>6 DEF CommitRefund, Close, Goto
    <3>2. refunds[j] = 0 /\ usage[j] \in Nat /\ eventLock[j] = f
      BY <3>1, AmountFacts
    <3>3. refunds'[j] = usage[j]
      BY <3>1, <3>2
    <3>4. ASSUME NEW r \in Requests PROVE refunds'[r] \in {0, usage'[r]}
      BY <3>1, <3>3
    <3>5. ASSUME NEW g \in RefundWorkers, pc'[g] \in {"owner", "credit", "settle"}
          PROVE  refunds'[task'[g]] = 0
      <4>1. g # f /\ pc[g] \in {"owner", "credit", "settle"}
        BY <3>1, <3>5
      <4>2. task[g] # j /\ task[g] \in Requests
        BY <3>2, <4>1
      <4> QED
        BY <3>1, <4>1, <4>2
    <3> QED
      BY <3>1, <3>4, <3>5
  <2> QED
    BY <1>f, <2>1, <2>2, <2>3, <2>4, <2>5, <2>i, <2>6 DEF Refund
<1>4. ASSUME NEW f \in RefundWorkers, RetryRefund(f) PROVE JobInv'
  BY <1>4, UnlockFacts DEF RetryRefund, Close, Goto
<1>5. ASSUME NEW f \in RefundWorkers, LoseWorker(f) PROVE JobInv'
  BY <1>5, UnlockFacts DEF LoseWorker, Close, Goto
<1>6. ASSUME NEW f \in RefundWorkers, AckRefund(f) PROVE JobInv'
  BY <1>6, UnlockFacts DEF AckRefund, Goto
<1>7. CASE UNCHANGED vars
  BY <1>7 DEF vars
<1> QED
  BY <1>0, <1>r, <1>1, <1>2, <1>3, <1>j, <1>t, <1>f, <1>4, <1>5, <1>6, <1>7
  DEF Next, Quiescent, Work, Disturb

(* Only the holder of a user's row lock changes that user's balance.       *)
LEMMA BalanceStep == IInv /\ [Next]_vars => BalanceInv'
<1>0. SUFFICES ASSUME TypeOK, LockInv, JobInv, BalanceInv, [Next]_vars PROVE BalanceInv'
  BY DEF IInv
<1> USE <1>0, QuotaAssumption, AmountFacts DEF TypeOK, LockInv, JobInv, BalanceInv, Sessions, rows, locks
<1>r. ASSUME NEW r \in Requests, Submit(r) PROVE BalanceInv'
  <2>1. CASE Authenticate(r)
    BY <2>1, UnlockFacts DEF Authenticate, Goto
  <2>2. CASE LoadUser(r)
    BY <2>2, UnlockFacts DEF LoadUser, Goto
  <2>3. CASE CommitUser(r)
    BY <2>3, UnlockFacts DEF CommitUser, Goto
  <2>4. CASE LockUser(r)
    BY <2>4, UnlockFacts DEF LockUser, Goto
  <2>5. CASE Refuse(r)
    BY <2>5, UnlockFacts DEF Refuse, Close, Goto
  <2>6. CASE Reserve(r)
    BY <2>6, UnlockFacts DEF Reserve, Affordable, Goto
  <2>7. CASE Enqueue(r)
    BY <2>7, UnlockFacts DEF Enqueue, Goto
  <2>8. CASE CommitSubmit(r)
    BY <2>8, UnlockFacts DEF CommitSubmit, Close, Goto
  <2> QED
    BY <1>r, <2>1, <2>2, <2>3, <2>4, <2>5, <2>6, <2>7, <2>8 DEF Submit
<1>1. ASSUME NEW r \in Requests, EnqueueFails(r) PROVE BalanceInv'
  BY <1>1, UnlockFacts DEF EnqueueFails, Close, Goto
<1>2. ASSUME NEW r \in Requests, Abort(r) PROVE BalanceInv'
  BY <1>2, UnlockFacts DEF Abort, Close, Goto
<1>3. ASSUME NEW j \in Requests, SynthesisFails(j) PROVE BalanceInv'
  BY <1>3 DEF SynthesisFails
<1>j. ASSUME NEW j \in Requests, LockJob(j) \/ UnlockJob(j) PROVE BalanceInv'
  BY <1>j DEF LockJob, UnlockJob
<1>t. ASSUME NEW f \in RefundWorkers, NEW j \in Requests, TakeRefund(f, j) PROVE BalanceInv'
  BY <1>t, UnlockFacts DEF TakeRefund, Goto
<1>f. ASSUME NEW f \in RefundWorkers, NEW j \in Requests, Refund(f, j) PROVE BalanceInv'
  <2>1. CASE NoEvent(f, j)
    BY <2>1, UnlockFacts DEF NoEvent, Close, Goto
  <2>2. CASE LockEvent(f, j)
    BY <2>2, UnlockFacts DEF LockEvent, Goto
  <2>3. CASE SkipRefund(f, j)
    BY <2>3, UnlockFacts DEF SkipRefund, Close, Goto
  <2>4. CASE CheckRefund(f, j)
    BY <2>4, UnlockFacts DEF CheckRefund, Goto
  <2>5. CASE LockOwner(f, j)
    BY <2>5, UnlockFacts DEF LockOwner, Goto
  <2>i. CASE InsertRefund(f, j)
    BY <2>i DEF InsertRefund, JobAvailable, Goto
  <2>6. CASE CommitRefund(f, j)
    BY <2>6, UnlockFacts DEF CommitRefund, Credited, Close, Goto
  <2> QED
    BY <1>f, <2>1, <2>2, <2>3, <2>4, <2>5, <2>i, <2>6 DEF Refund
<1>4. ASSUME NEW f \in RefundWorkers, RetryRefund(f) PROVE BalanceInv'
  BY <1>4, UnlockFacts DEF RetryRefund, Close, Goto
<1>5. ASSUME NEW f \in RefundWorkers, LoseWorker(f) PROVE BalanceInv'
  BY <1>5, UnlockFacts DEF LoseWorker, Close, Goto
<1>6. ASSUME NEW f \in RefundWorkers, AckRefund(f) PROVE BalanceInv'
  BY <1>6, UnlockFacts DEF AckRefund, Goto
<1>7. CASE UNCHANGED vars
  BY <1>7 DEF vars
<1> QED
  BY <1>0, <1>r, <1>1, <1>2, <1>3, <1>j, <1>t, <1>f, <1>4, <1>5, <1>6, <1>7
  DEF Next, Quiescent, Work, Disturb

-----------------------------------------------------------------------------
(* Quota is type-correct, for any users, requests, workers and amounts.    *)
THEOREM TypeCorrect == Spec => []TypeOK
  BY InitHolds, TypeStep, PTL DEF Spec, IInv

(* The inductive invariant holds in every reachable state.                 *)
THEOREM Invariance == Spec => []IInv
<1>1. Init => IInv
  BY InitHolds
<1>2. IInv /\ [Next]_vars => IInv'
  BY TypeStep, LockStep, JobStep, BalanceStep DEF IInv
<1> QED
  BY <1>1, <1>2, PTL DEF Spec

(* No committed balance is negative, though submissions may work with      *)
(* outdated balances.                                                      *)
THEOREM QuotaNeverNegative == Spec => []NeverNegative
<1>1. IInv => NeverNegative
  BY DEF IInv, BalanceInv, NeverNegative
<1> QED
  BY <1>1, Invariance, PTL

(* However many refund tasks run, a job is refunded at most once, and with *)
(* the amount it was charged.                                              *)
THEOREM RefundedAtMostOnce == Spec => []AtMostOneRefund
<1>1. IInv => AtMostOneRefund
  BY DEF IInv, JobInv, AtMostOneRefund
<1> QED
  BY <1>1, Invariance, PTL

(* A visible job has been sent to the broker.                              *)
THEOREM VisibleJobsWereEnqueued == Spec => []EnqueuedBeforeVisible
<1>1. IInv => EnqueuedBeforeVisible
  BY DEF IInv, JobInv, EnqueuedBeforeVisible, Jobs
<1> QED
  BY <1>1, Invariance, PTL

-----------------------------------------------------------------------------
(* The two steps that change the ledger; every other one leaves it alone.  *)
LEMMA LedgerSteps ==
  ASSUME Next
  PROVE  \/ UNCHANGED <<usage, refunds>>
         \/ \E r \in Requests : CommitSubmit(r)
         \/ \E f \in RefundWorkers, j \in Requests : CommitRefund(f, j)
  BY DEF Next, Quiescent, vars, Submit, Refund, rows, Authenticate, LoadUser,
         CommitUser, LockUser, Refuse, Reserve, Enqueue, EnqueueFails, Abort,
         SynthesisFails, LockJob, UnlockJob, TakeRefund, NoEvent, LockEvent,
         SkipRefund, CheckRefund, LockOwner, InsertRefund, RetryRefund, LoseWorker, AckRefund, Work, Disturb

(* When a refund commits, its session holds the current balance.           *)
LEMMA RefundFacts ==
  ASSUME IInv, NEW f \in RefundWorkers, NEW j \in Requests, CommitRefund(f, j)
  PROVE  /\ usage[j] \in Nat \ {0}
         /\ refunds[j] = 0
         /\ refunds' = [refunds EXCEPT ![j] = usage[j]]
         /\ balance' = [balance EXCEPT ![UserOf[j]] = @ + usage[j]]
         /\ usage' = usage
<1>1. pc[f] = "settle" /\ task[f] = j
  BY DEF CommitRefund
<1>2. usage[j] > 0 /\ refunds[j] = 0
  BY <1>1 DEF IInv, JobInv
<1>3. cached[f] = balance[UserOf[j]]
  BY <1>1 DEF IInv, BalanceInv
<1>4. usage[j] \in Nat
  BY AmountFacts DEF IInv
<1>5. refunds' = [refunds EXCEPT ![j] = usage[j]]
  <2>1. refunds' = [refunds EXCEPT ![j] = refunds[j] + usage[j]]
    BY DEF CommitRefund
  <2>2. refunds[j] + usage[j] = usage[j]
    BY <1>2, <1>4
  <2> QED
    BY <2>1, <2>2
<1>6. balance' = [balance EXCEPT ![UserOf[j]] = balance[UserOf[j]] + usage[j]]
  BY <1>3 DEF CommitRefund, Credited
<1>7. usage' = usage
  BY DEF CommitRefund
<1>8. usage[j] \in Nat \ {0}
  BY <1>2, <1>4
<1> QED
  BY <1>2, <1>5, <1>6, <1>7, <1>8

(* A refund changes one balance, by exactly the amount it records.         *)
THEOREM RefundsChangeBalanceExactly == Spec => RefundsExact
<1> DEFINE Exact ==
      \A j \in Requests :
        refunds'[j] # refunds[j] =>
          balance' = [balance EXCEPT ![UserOf[j]] = @ + refunds'[j] - refunds[j]]
<1>1. ASSUME IInv, Next PROVE Exact
  <2>1. CASE UNCHANGED <<usage, refunds>>
    BY <2>1
  <2>2. CASE \E r \in Requests : CommitSubmit(r)
    BY <2>2 DEF CommitSubmit
  <2>3. ASSUME NEW f \in RefundWorkers, NEW j \in Requests, CommitRefund(f, j)
        PROVE  Exact
    <3>1. SUFFICES ASSUME NEW k \in Requests, refunds'[k] # refunds[k]
                   PROVE  balance' = [balance EXCEPT ![UserOf[k]] =
                                        @ + refunds'[k] - refunds[k]]
      OBVIOUS
    <3>2. k = j
      BY <1>1, <2>3, <3>1, RefundFacts DEF IInv, TypeOK
    <3>3. refunds'[j] = usage[j] /\ refunds[j] = 0
      BY <1>1, <2>3, RefundFacts DEF IInv, TypeOK
    <3>4. balance[UserOf[j]] \in Int /\ usage[j] \in Nat
      BY <1>1, AmountFacts DEF IInv, TypeOK
    <3>5. balance' = [balance EXCEPT ![UserOf[j]] = balance[UserOf[j]] + usage[j]]
      BY <1>1, <2>3, RefundFacts
    <3>6. balance[UserOf[j]] + refunds'[j] - refunds[j]
            = balance[UserOf[j]] + usage[j]
      BY <3>3, <3>4
    <3> QED
      BY <3>2, <3>5, <3>6
  <2> QED
    BY <1>1, <2>1, <2>2, <2>3, LedgerSteps
<1>2. IInv /\ [Next]_vars => [Exact]_vars
  BY <1>1
<1> QED
  BY <1>2, Invariance, PTL DEF Spec, RefundsExact

(* The transactions on quota_usage_events implement the abstract ledger.   *)
THEOREM QuotaImplementsLedger == Spec => ImplementsLedger
<1>1. Init => AbstractLedger!Init
  BY DEF Init, AbstractLedger!Init
<1>2. ASSUME IInv, Next
      PROVE  AbstractLedger!Next \/ UNCHANGED AbstractLedger!ledgerVars
  <2>1. CASE UNCHANGED <<usage, refunds>>
    BY <2>1 DEF AbstractLedger!ledgerVars
  <2>2. ASSUME NEW r \in Requests, CommitSubmit(r)
        PROVE  AbstractLedger!Charge(r)
    <3>1. usage[r] = 0 /\ chars[r] \in Lengths
      BY <1>2, <2>2 DEF IInv, JobInv, CommitSubmit
    <3> QED
      BY <2>2, <3>1 DEF AbstractLedger!Charge, CommitSubmit, Recorded
  <2>3. ASSUME NEW f \in RefundWorkers, NEW j \in Requests, CommitRefund(f, j)
        PROVE  AbstractLedger!Credit(j)
    BY <1>2, <2>3, RefundFacts DEF AbstractLedger!Credit
  <2> QED
    BY <1>2, <2>1, <2>2, <2>3, LedgerSteps DEF AbstractLedger!Next
<1>3. UNCHANGED vars => UNCHANGED AbstractLedger!ledgerVars
  BY DEF vars, AbstractLedger!ledgerVars
<1>4. IInv /\ [Next]_vars => [AbstractLedger!Next]_(AbstractLedger!ledgerVars)
  BY <1>2, <1>3
<1> QED
  BY <1>1, <1>4, Invariance, PTL DEF Spec, ImplementsLedger, AbstractLedger!Spec

-----------------------------------------------------------------------------
(* Who has a lock at the end of its transaction has none after it, and     *)
(* takes none from the others.                                             *)
LEMMA UnlockFrees ==
  ASSUME TypeOK, NEW s \in Sessions, Unlock(s)
  PROVE  /\ \A u \in Users : userLock'[u] = IF userLock[u] = s THEN Free ELSE userLock[u]
         /\ \A j \in Requests : eventLock'[j] = IF eventLock[j] = s THEN Free ELSE eventLock[j]
         /\ \A j \in Requests : jobLock'[j] = IF jobLock[j] = s THEN Free ELSE jobLock[j]
  BY DEF Unlock, Released, TypeOK

(* Where the holder of a row lock can be: never before a statement that    *)
(* waits for a row of the same kind or of an earlier one.                  *)
HoldersInv ==
  /\ \A u \in Users : userLock[u] # Free =>
        pc[userLock[u]] \in {"welcome", "check", "enqueue", "commit", "credit",
                            "settle"}
  /\ \A j \in Requests : eventLock[j] # Free =>
        pc[eventLock[j]] \in {"existing", "owner", "credit", "settle"}
  /\ \A j \in Requests : jobLock[j] \in RefundWorkers =>
        pc[jobLock[j]] = "settle"

(* A session that comes to wait for a row, or to its end, gave up the row  *)
(* locks that the order of locking forbids it to keep.                     *)
LEMMA HolderStep == TypeOK /\ HoldersInv /\ [Next]_vars => HoldersInv'
<1>0. SUFFICES ASSUME TypeOK, HoldersInv, [Next]_vars PROVE HoldersInv'
  OBVIOUS
<1> USE <1>0, QuotaAssumption, UnlockFrees DEF TypeOK, HoldersInv, Sessions, rows, locks
<1>r. ASSUME NEW r \in Requests, Submit(r) PROVE HoldersInv'
  <2>1. CASE Authenticate(r)
    BY <2>1 DEF Authenticate, Goto
  <2>2. CASE LoadUser(r)
    BY <2>2 DEF LoadUser, Goto
  <2>3. CASE CommitUser(r)
    BY <2>3 DEF CommitUser, Goto
  <2>4. CASE LockUser(r)
    BY <2>4 DEF LockUser, Goto
  <2>5. CASE Refuse(r)
    BY <2>5 DEF Refuse, Close, Goto
  <2>6. CASE Reserve(r)
    BY <2>6 DEF Reserve, Goto
  <2>7. CASE Enqueue(r)
    BY <2>7 DEF Enqueue, Goto
  <2>8. CASE CommitSubmit(r)
    BY <2>8 DEF CommitSubmit, Close, Goto
  <2> QED
    BY <1>r, <2>1, <2>2, <2>3, <2>4, <2>5, <2>6, <2>7, <2>8 DEF Submit
<1>1. ASSUME NEW r \in Requests, EnqueueFails(r) \/ Abort(r) PROVE HoldersInv'
  BY <1>1 DEF EnqueueFails, Abort, Close, Goto
<1>2. ASSUME NEW j \in Requests, SynthesisFails(j) PROVE HoldersInv'
  BY <1>2 DEF SynthesisFails
<1>j. ASSUME NEW j \in Requests, LockJob(j) \/ UnlockJob(j) PROVE HoldersInv'
  BY <1>j DEF LockJob, UnlockJob
<1>3. ASSUME NEW f \in RefundWorkers, NEW j \in Requests, TakeRefund(f, j)
      PROVE  HoldersInv'
  BY <1>3 DEF TakeRefund, Goto
<1>4. ASSUME NEW f \in RefundWorkers, NEW j \in Requests, Refund(f, j)
      PROVE  HoldersInv'
  <2>1. CASE NoEvent(f, j)
    BY <2>1 DEF NoEvent, Close, Goto
  <2>2. CASE LockEvent(f, j)
    BY <2>2 DEF LockEvent, Goto
  <2>3. CASE SkipRefund(f, j)
    BY <2>3 DEF SkipRefund, Close, Goto
  <2>4. CASE CheckRefund(f, j)
    BY <2>4 DEF CheckRefund, Goto
  <2>5. CASE LockOwner(f, j)
    BY <2>5 DEF LockOwner, Goto
  <2>i. CASE InsertRefund(f, j)
    BY <2>i DEF InsertRefund, JobAvailable, Goto
  <2>6. CASE CommitRefund(f, j)
    BY <2>6 DEF CommitRefund, Close, Goto
  <2> QED
    BY <1>4, <2>1, <2>2, <2>3, <2>4, <2>5, <2>i, <2>6 DEF Refund
<1>5. ASSUME NEW f \in RefundWorkers, RetryRefund(f) PROVE HoldersInv'
  BY <1>5 DEF RetryRefund, Close, Goto
<1>6. ASSUME NEW f \in RefundWorkers, LoseWorker(f) PROVE HoldersInv'
  BY <1>6 DEF LoseWorker, Close, Goto
<1>7. ASSUME NEW f \in RefundWorkers, AckRefund(f) PROVE HoldersInv'
  BY <1>7 DEF AckRefund, Goto
<1>8. CASE UNCHANGED vars
  BY <1>8 DEF vars
<1> QED
  BY <1>0, <1>r, <1>1, <1>2, <1>j, <1>3, <1>4, <1>5, <1>6, <1>7, <1>8
  DEF Next, Quiescent, Work, Disturb

(* Rows are locked in the order USAGE event, user, job by all who lock     *)
(* more than one, in every reachable state (tts.py lines 92-95, util.py    *)
(* lines 216-249).                                                         *)
THEOREM LocksAreOrdered == Spec => []LocksInOrder
<1>1. Init => HoldersInv
  BY QuotaAssumption DEF Init, HoldersInv
<1>2. TypeOK /\ HoldersInv /\ [Next]_vars => HoldersInv'
  BY HolderStep
<1>3. TypeOK /\ HoldersInv => LocksInOrder
  <2>1. SUFFICES ASSUME TypeOK, HoldersInv, NEW s \in Sessions
                 PROVE  /\ pc[s] = "event" => ~Has(eventLock, s)
                        /\ pc[s] \in {"event", "new", "lock", "owner"} =>
                             ~Has(userLock, s)
                        /\ pc[s] \in {"event", "new", "lock", "owner", "credit"} =>
                             ~Has(jobLock, s)
    BY DEF LocksInOrder
  <2>2. s # Free /\ s # Other
    BY QuotaAssumption DEF Sessions
  <2>3. pc[s] = "event" => ~Has(eventLock, s)
    BY <2>1, <2>2 DEF Has, HoldersInv, TypeOK
  <2>4. pc[s] \in {"event", "new", "lock", "owner"} => ~Has(userLock, s)
    BY <2>1, <2>2 DEF Has, HoldersInv, TypeOK
  <2>5. pc[s] \in {"event", "new", "lock", "owner", "credit"} => ~Has(jobLock, s)
    <3>1. ASSUME NEW j \in Requests, jobLock[j] = s PROVE pc[s] = "settle"
      BY <2>1, <2>2, <3>1 DEF HoldersInv, TypeOK
    <3> QED
      BY <2>1, <3>1 DEF Has, TypeOK
  <2> QED
    BY <2>3, <2>4, <2>5
<1> QED
  BY <1>1, <1>2, <1>3, TypeCorrect, PTL DEF Spec

(* The kind of row that a session waits for, 0 when it waits for none.     *)
Awaited(s) ==
  IF pc[s] = "event" THEN 1
  ELSE IF pc[s] \in {"new", "lock", "owner"} THEN 2
  ELSE IF pc[s] = "credit" THEN 3
  ELSE 0

(* Session s may be waiting because t has a row locked.                    *)
Behind(s, t) ==
  \/ Awaited(s) = 1 /\ Has(eventLock, t)
  \/ Awaited(s) = 2 /\ Has(userLock, t)
  \/ Awaited(s) = 3 /\ Has(jobLock, t)

(* Along a chain of sessions that wait for each other the kinds increase:  *)
(* a chain ends after three of them, so none closes to a circle.  Who has  *)
(* a jobs row on behalf of another endpoint or task waits for nothing.     *)
ChainsEnd ==
  \A s, t \in Sessions : Behind(s, t) /\ Awaited(t) # 0 => Awaited(s) < Awaited(t)

(* Requests and refunds never wait for each other in a circle, whatever    *)
(* jobs rows others have locked (tts.py lines 92-95, util.py lines         *)
(* 216-249).                                                               *)
THEOREM NobodyWaitsInACircle == Spec => []ChainsEnd
<1>1. LocksInOrder => ChainsEnd
  <2>1. SUFFICES ASSUME LocksInOrder, NEW s \in Sessions, NEW t \in Sessions,
                        Behind(s, t), Awaited(t) # 0
                 PROVE  Awaited(s) < Awaited(t)
    BY DEF ChainsEnd
  <2>2. /\ Awaited(t) = 1 => ~Has(eventLock, t)
        /\ Awaited(t) \in {1, 2} => ~Has(userLock, t)
        /\ Awaited(t) \in {1, 2, 3} => ~Has(jobLock, t)
    BY <2>1 DEF LocksInOrder, Awaited
  <2>3. Awaited(t) \in {1, 2, 3}
    BY <2>1 DEF Awaited
  <2> QED
    BY <2>1, <2>2, <2>3 DEF Behind
<1> QED
  BY <1>1, LocksAreOrdered, PTL

-----------------------------------------------------------------------------
(* The balance sheet.  Which sessions know that their user has a row, and  *)
(* that only users with a row are ever charged.                            *)
KnownInv ==
  \A r \in Requests :
    /\ pc[r] \in {"select", "lock", "check", "enqueue", "commit", "accepted"} =>
         UserOf[r] \in known
    /\ pc[r] = "welcome" => UserOf[r] \notin known
    /\ usage[r] > 0 => UserOf[r] \in known

(* Only CommitUser makes a user known, and it holds the lock of the row it *)
(* inserted: no other request is about to insert the same row.             *)
LEMMA KnownStep == IInv /\ KnownInv /\ [Next]_vars => KnownInv'
<1>0. SUFFICES ASSUME TypeOK, LockInv, JobInv, KnownInv, [Next]_vars PROVE KnownInv'
  BY DEF IInv
<1> USE <1>0, QuotaAssumption DEF TypeOK, LockInv, JobInv, KnownInv, Sessions, rows, locks
<1>r. ASSUME NEW r \in Requests, Submit(r) PROVE KnownInv'
  <2>1. CASE Authenticate(r)
    BY <2>1 DEF Authenticate, Goto
  <2>2. CASE LoadUser(r)
    BY <2>2 DEF LoadUser, Goto
  <2>3. CASE CommitUser(r)
    BY <2>3 DEF CommitUser, Goto
  <2>4. CASE LockUser(r)
    BY <2>4 DEF LockUser, Goto
  <2>5. CASE Refuse(r)
    BY <2>5 DEF Refuse, Close, Goto
  <2>6. CASE Reserve(r)
    BY <2>6 DEF Reserve, Goto
  <2>7. CASE Enqueue(r)
    BY <2>7 DEF Enqueue, Goto
  <2>8. CASE CommitSubmit(r)
    BY <2>8 DEF CommitSubmit, Close, Goto
  <2> QED
    BY <1>r, <2>1, <2>2, <2>3, <2>4, <2>5, <2>6, <2>7, <2>8 DEF Submit
<1>1. ASSUME NEW r \in Requests, EnqueueFails(r) \/ Abort(r) PROVE KnownInv'
  BY <1>1 DEF EnqueueFails, Abort, Close, Goto
<1>2. ASSUME NEW j \in Requests, SynthesisFails(j) PROVE KnownInv'
  BY <1>2 DEF SynthesisFails
<1>j. ASSUME NEW j \in Requests, LockJob(j) \/ UnlockJob(j) PROVE KnownInv'
  BY <1>j DEF LockJob, UnlockJob
<1>3. ASSUME NEW f \in RefundWorkers, NEW j \in Requests, TakeRefund(f, j) PROVE KnownInv'
  BY <1>3 DEF TakeRefund, Goto
<1>4. ASSUME NEW f \in RefundWorkers, NEW j \in Requests, Refund(f, j) PROVE KnownInv'
  BY <1>4 DEF Refund, NoEvent, LockEvent, SkipRefund, CheckRefund, LockOwner,
              InsertRefund, CommitRefund, Close, Goto
<1>5. ASSUME NEW f \in RefundWorkers, Disturb(f) \/ AckRefund(f) PROVE KnownInv'
  BY <1>5 DEF Disturb, RetryRefund, LoseWorker, AckRefund, Close, Goto
<1>6. CASE UNCHANGED vars
  BY <1>6 DEF vars
<1> QED
  BY <1>0, <1>r, <1>1, <1>2, <1>j, <1>3, <1>4, <1>5, <1>6 DEF Next, Quiescent, Work

(* What becomes of a user's outstanding amount when the rows of one job    *)
(* change at most.                                                         *)
LEMMA OutstandingChange ==
  ASSUME IInv, TypeOK', NEW j \in Requests, NEW u \in Users,
         \A k \in Requests \ {j} : usage'[k] = usage[k] /\ refunds'[k] = refunds[k]
  PROVE  /\ Outstanding(u) \in Int
         /\ UserOf[j] # u => Outstanding(u)' = Outstanding(u)
         /\ UserOf[j] = u => Outstanding(u)' =
              Outstanding(u) + ((usage'[j] - refunds'[j]) - (usage[j] - refunds[j]))
<1> DEFINE net == [k \in Requests |-> usage[k] - refunds[k]]
<1> DEFINE new == [k \in Requests |-> usage'[k] - refunds'[k]]
<1> DEFINE mine == {k \in Requests : UserOf[k] = u}
<1>1. IsFiniteSet(mine)
  BY RequestsFinite, FS_Subset
<1>2. ASSUME NEW k \in Requests
      PROVE  usage[k] \in Int /\ refunds[k] \in Int /\ usage'[k] \in Int /\ refunds'[k] \in Int
  <2>1. Lengths \cup {0} \subseteq Nat
    BY QuotaAssumption
  <2>2. /\ usage[k] \in Lengths \cup {0} /\ usage'[k] \in Lengths \cup {0}
        /\ refunds[k] \in Nat /\ refunds'[k] \in Nat
    BY DEF IInv, TypeOK
  <2> QED
    BY <2>1, <2>2
<1>3. \A k \in mine : net[k] \in Int /\ new[k] \in Int
  BY <1>2
<1>4. \A k \in mine \ {j} : new[k] = net[k]
  OBVIOUS
<1> HIDE DEF net, new, mine
<1>5. /\ SumFunctionOnSet(net, mine) \in Int
      /\ SumFunctionOnSet(new, mine) =
           SumFunctionOnSet(net, mine) + IF j \in mine THEN new[j] - net[j] ELSE 0
  BY <1>1, <1>3, <1>4, SumOfChanged
<1>6. Outstanding(u) = SumFunctionOnSet(net, mine)
  BY DEF Outstanding, net, mine
<1>7. Outstanding(u)' = SumFunctionOnSet(new, mine)
  BY DEF Outstanding, new, mine
<1>8. (j \in mine <=> UserOf[j] = u) /\ net[j] = usage[j] - refunds[j]
        /\ new[j] = usage'[j] - refunds'[j]
  BY DEF net, new, mine
<1>9. UserOf[j] # u => Outstanding(u)' = Outstanding(u)
  BY <1>5, <1>6, <1>7, <1>8
<1> QED
  BY <1>5, <1>6, <1>7, <1>8, <1>9

(* What is outstanding is a whole number, of characters.                   *)
LEMMA OutstandingIsInt ==
  ASSUME IInv, NEW u \in Users
  PROVE  Outstanding(u) \in Int
<1> DEFINE net == [k \in Requests |-> usage[k] - refunds[k]]
<1> DEFINE mine == {k \in Requests : UserOf[k] = u}
<1>1. IsFiniteSet(mine)
  BY RequestsFinite, FS_Subset
<1>2. ASSUME NEW k \in Requests PROVE usage[k] - refunds[k] \in Int
  <2>1. usage[k] \in Nat /\ refunds[k] \in Nat
    BY AmountFacts DEF IInv, TypeOK
  <2> QED
    BY <2>1
<1>3. \A k \in mine : net[k] \in Int
  BY <1>2
<1> HIDE DEF net, mine
<1>4. SumFunctionOnSet(net, mine) \in Int
  BY <1>1, <1>3, SumOfChanged
<1> QED
  BY <1>4 DEF Outstanding, net, mine

(* A user nobody charged owes nothing.                                     *)
LEMMA NothingOutstanding ==
  ASSUME IInv, NEW u \in Users,
         \A k \in Requests : UserOf[k] = u => usage[k] = 0
  PROVE  Outstanding(u) = 0
<1> DEFINE net == [k \in Requests |-> usage[k] - refunds[k]]
<1> DEFINE mine == {k \in Requests : UserOf[k] = u}
<1>1. IsFiniteSet(mine)
  BY RequestsFinite, FS_Subset
<1>2. \A k \in mine : usage[k] = 0 /\ refunds[k] = 0
  BY DEF IInv, JobInv
<1>3. \A k \in mine : net[k] = 0
  BY <1>2
<1> HIDE DEF net, mine
<1>4. SumFunctionOnSet(net, mine) = 0
  BY <1>1, <1>3, SumOfZeros
<1> QED
  BY <1>4 DEF Outstanding, net, mine

(* The three commits that write to the books.                              *)
LEMMA BookSteps ==
  ASSUME Next
  PROVE  \/ UNCHANGED <<known, balance, usage, refunds, stale>>
         \/ \E r \in Requests : CommitUser(r)
         \/ \E r \in Requests : CommitSubmit(r)
         \/ \E f \in RefundWorkers, j \in Requests : CommitRefund(f, j)
  BY DEF Next, Quiescent, vars, Submit, Refund, rows, Authenticate, LoadUser,
         CommitUser, LockUser, Refuse, Reserve, Enqueue, EnqueueFails, Abort,
         SynthesisFails, LockJob, UnlockJob, TakeRefund, NoEvent, LockEvent,
         SkipRefund, CheckRefund, LockOwner, InsertRefund, RetryRefund, LoseWorker, AckRefund, Work, Disturb

(* Each of them keeps the books balanced.                                  *)
LEMMA BalanceSheetStep ==
  IInv /\ TypeOK' /\ KnownInv /\ LedgerBalanced /\ [Next]_vars => LedgerBalanced'
<1>0. SUFFICES ASSUME IInv, TypeOK', KnownInv, LedgerBalanced, [Next]_vars,
                      NEW u \in Users, u \in known', u \notin stale'
               PROVE  balance'[u] = InitialQuota - Outstanding(u)'
  BY DEF LedgerBalanced, TypeOK
<1>i. InitialQuota \in Int /\ balance[u] \in Int
  BY <1>0, QuotaAssumption DEF IInv, TypeOK
<1>1. CASE UNCHANGED <<known, balance, usage, refunds, stale>>
  <2>1. Outstanding(u)' = Outstanding(u)
    BY <1>1 DEF Outstanding
  <2> QED
    BY <1>0, <1>1, <2>1 DEF LedgerBalanced
<1>2. ASSUME NEW r \in Requests, CommitUser(r)
      PROVE  balance'[u] = InitialQuota - Outstanding(u)'
  <2>1. Outstanding(u)' = Outstanding(u)
    BY <1>2 DEF CommitUser, Outstanding
  <2>2. /\ balance' = [balance EXCEPT ![UserOf[r]] = InitialQuota]
        /\ known' = known \cup {UserOf[r]} /\ stale' = stale
    BY <1>2 DEF CommitUser
  <2>3. CASE u = UserOf[r]
    <3>1. u \notin known
      BY <1>0, <1>2, <2>3 DEF CommitUser, KnownInv
    <3>2. \A k \in Requests : UserOf[k] = u => usage[k] = 0
      BY <1>0, <3>1, AmountFacts DEF IInv, KnownInv
    <3>3. Outstanding(u) = 0
      BY <1>0, <3>2, NothingOutstanding
    <3>4. balance'[u] = InitialQuota
      BY <1>0, <2>2, <2>3 DEF IInv, TypeOK
    <3> QED
      BY <1>i, <2>1, <3>3, <3>4
  <2>4. CASE u # UserOf[r]
    <3>1. u \in known \ stale /\ balance'[u] = balance[u]
      BY <1>0, <2>2, <2>4 DEF IInv, TypeOK
    <3> QED
      BY <1>0, <2>1, <3>1 DEF LedgerBalanced
  <2> QED
    BY <2>3, <2>4
<1>3. ASSUME NEW r \in Requests, CommitSubmit(r)
      PROVE  balance'[u] = InitialQuota - Outstanding(u)'
  <2>1. /\ balance' = [balance EXCEPT ![UserOf[r]] = cached[r] - chars[r]]
        /\ usage' = [usage EXCEPT ![r] = chars[r]]
        /\ refunds' = refunds /\ known' = known
        /\ stale \subseteq stale'
        /\ cached[r] # balance[UserOf[r]] => UserOf[r] \in stale'
    BY <1>3 DEF CommitSubmit, Recorded
  <2>2. u \in known \ stale
    BY <1>0, <2>1
  <2>3. balance[u] = InitialQuota - Outstanding(u)
    BY <1>0, <2>2 DEF LedgerBalanced
  <2>4. \A k \in Requests \ {r} : usage'[k] = usage[k] /\ refunds'[k] = refunds[k]
    BY <1>0, <2>1 DEF IInv, TypeOK
  <2>5. /\ usage[r] = 0 /\ refunds[r] = 0 /\ refunds'[r] = 0
        /\ usage'[r] = chars[r] /\ chars[r] \in Nat
    BY <1>0, <1>3, <2>1, AmountFacts DEF IInv, JobInv, TypeOK, CommitSubmit
  <2>6. CASE u = UserOf[r]
    <3>1. Outstanding(u) \in Int
          /\ Outstanding(u)' = Outstanding(u) + ((usage'[r] - refunds'[r]) - (usage[r] - refunds[r]))
      BY <1>0, <2>4, <2>6, OutstandingChange
    <3>2. balance'[u] = balance[u] - chars[r]
      BY <1>0, <2>1, <2>6 DEF IInv, TypeOK
    <3> HIDE <1>0
    <3> QED
      BY <1>i, <2>3, <2>5, <3>1, <3>2
  <2>7. CASE u # UserOf[r]
    <3>1. Outstanding(u)' = Outstanding(u)
      BY <1>0, <2>4, <2>7, OutstandingChange
    <3>2. balance'[u] = balance[u]
      BY <1>0, <2>1, <2>7 DEF IInv, TypeOK
    <3> QED
      BY <2>3, <3>1, <3>2
  <2> QED
    BY <2>6, <2>7
<1>4. ASSUME NEW f \in RefundWorkers, NEW j \in Requests, CommitRefund(f, j)
      PROVE  balance'[u] = InitialQuota - Outstanding(u)'
  <2>1. /\ usage[j] \in Nat \ {0} /\ refunds[j] = 0
        /\ refunds' = [refunds EXCEPT ![j] = usage[j]]
        /\ balance' = [balance EXCEPT ![UserOf[j]] = @ + usage[j]]
        /\ usage' = usage
    BY <1>0, <1>4, RefundFacts
  <2>2. u \in known \ stale
    BY <1>0, <1>4 DEF CommitRefund
  <2>3. balance[u] = InitialQuota - Outstanding(u)
    BY <1>0, <2>2 DEF LedgerBalanced
  <2>4. \A k \in Requests \ {j} : usage'[k] = usage[k] /\ refunds'[k] = refunds[k]
    BY <1>0, <2>1 DEF IInv, TypeOK
  <2>5. refunds'[j] = usage[j] /\ usage'[j] = usage[j]
    BY <1>0, <2>1 DEF IInv, TypeOK
  <2>6. CASE u = UserOf[j]
    <3>1. Outstanding(u) \in Int
          /\ Outstanding(u)' = Outstanding(u) + ((usage'[j] - refunds'[j]) - (usage[j] - refunds[j]))
      BY <1>0, <2>4, <2>6, OutstandingChange
    <3>2. balance'[u] = balance[u] + usage[j]
      BY <1>0, <2>1, <2>6 DEF IInv, TypeOK
    <3> HIDE <1>0
    <3> QED
      BY <1>i, <2>1, <2>3, <2>5, <3>1, <3>2
  <2>7. CASE u # UserOf[j]
    <3>1. Outstanding(u)' = Outstanding(u)
      BY <1>0, <2>4, <2>7, OutstandingChange
    <3>2. balance'[u] = balance[u]
      BY <1>0, <2>1, <2>7 DEF IInv, TypeOK
    <3> QED
      BY <2>3, <3>1, <3>2
  <2> QED
    BY <2>6, <2>7
<1>5. CASE UNCHANGED vars
  <2>1. UNCHANGED <<known, balance, usage, refunds, stale>>
    BY <1>5 DEF vars
  <2> QED
    BY <1>1, <2>1
<1> QED
  BY <1>0, <1>1, <1>2, <1>3, <1>4, <1>5, BookSteps

(* For any number of users, requests and workers: the committed balance of *)
(* a user whom no outdated balance was written back for is the initial     *)
(* quota minus what the events say is outstanding.                         *)
THEOREM BooksBalance == Spec => []LedgerBalanced
<1>1. Init => KnownInv /\ LedgerBalanced
  BY QuotaAssumption DEF Init, KnownInv, LedgerBalanced, Sessions
<1>2. IInv /\ KnownInv /\ LedgerBalanced /\ [Next]_vars => KnownInv' /\ LedgerBalanced'
  BY TypeStep, KnownStep, BalanceSheetStep DEF IInv
<1> QED
  BY <1>1, <1>2, Invariance, PTL DEF Spec

(* No overspending but by outdated balances: the charges of a user whom no *)
(* submission wrote such a balance back for, less what was refunded, stay  *)
(* within the initial quota.                                               *)
OverspendIsStale == \A u \in Users \ stale : Outstanding(u) <= InitialQuota

THEOREM OnlyStaleBalancesOverspend == Spec => []OverspendIsStale
<1>1. Init => KnownInv
  BY QuotaAssumption DEF Init, KnownInv, Sessions
<1>2. IInv /\ KnownInv /\ [Next]_vars => KnownInv'
  BY KnownStep
<1>3. IInv /\ KnownInv /\ LedgerBalanced => OverspendIsStale
  <2>1. SUFFICES ASSUME IInv, KnownInv, LedgerBalanced, NEW u \in Users, u \notin stale
                 PROVE  Outstanding(u) <= InitialQuota
    BY DEF OverspendIsStale
  <2>2. CASE u \in known
    <3>1. balance[u] = InitialQuota - Outstanding(u) /\ balance[u] >= 0
      BY <2>1, <2>2 DEF LedgerBalanced, IInv, BalanceInv
    <3>2. Outstanding(u) \in Int
      BY <2>1, OutstandingIsInt
    <3>3. InitialQuota \in Int
      BY QuotaAssumption
    <3> HIDE <2>1
    <3> QED
      BY <3>1, <3>2, <3>3
  <2>3. CASE u \notin known
    <3>1. \A k \in Requests : UserOf[k] = u => usage[k] = 0
      BY <2>1, <2>3, AmountFacts DEF IInv, KnownInv
    <3>2. Outstanding(u) = 0
      BY <2>1, <3>1, NothingOutstanding
    <3> QED
      BY <3>2, QuotaAssumption
  <2> QED
    BY <2>2, <2>3
<1> QED
  BY <1>1, <1>2, <1>3, BooksBalance, Invariance, PTL DEF Spec

-----------------------------------------------------------------------------
(* A worker that has a refund message and has not decided what to do.      *)
Undecided(f) == pc[f] \in {"event", "existing", "owner", "credit", "settle"}

(* What carries a message goes on to carry it through a step of a session  *)
(* that does not carry it.                                                 *)
LEMMA StillCarried ==
  ASSUME NEW j \in Requests, NEW s, Carried(j),
         queue[j] \in Nat, queue'[j] \in Nat, queue'[j] >= queue[j],
         \A g \in RefundWorkers \ {s} : task'[g] = task[g] /\ pc'[g] = pc[g],
         s \in RefundWorkers => ~(task[s] = j /\ Undecided(s))
  PROVE  Carried(j)'
<1>1. CASE queue[j] > 0
  BY <1>1 DEF Carried
<1>2. CASE \E f \in RefundWorkers : task[f] = j /\ Undecided(f)
  <2>1. PICK f \in RefundWorkers : task[f] = j /\ Undecided(f)
    BY <1>2
  <2>2. f # s
    BY <2>1
  <2>3. task'[f] = j /\ pc'[f] \in {"event", "existing", "owner", "credit", "settle"}
    BY <2>1, <2>2 DEF Undecided
  <2> QED
    BY <2>3 DEF Carried
<1> QED
  BY <1>1, <1>2 DEF Carried, Undecided

(* A submission touches no refund message and no refund worker.            *)
LEMMA SubmissionsCarryNothing ==
  ASSUME TypeOK, NEW r \in Requests, Submit(r) \/ EnqueueFails(r) \/ Abort(r)
  PROVE  /\ queue' = queue /\ task' = task
         /\ \A g \in RefundWorkers : pc'[g] = pc[g]
<1>1. r \notin RefundWorkers /\ DOMAIN pc = Sessions
  BY QuotaAssumption DEF TypeOK
<1>2. queue' = queue /\ task' = task
  BY DEF Submit, Authenticate, LoadUser, CommitUser, LockUser, Refuse, Reserve,
         Enqueue, CommitSubmit, EnqueueFails, Abort
<1>3. \E label : pc' = [pc EXCEPT ![r] = label]
  BY DEF Submit, Authenticate, LoadUser, CommitUser, LockUser, Refuse, Reserve,
         Enqueue, CommitSubmit, EnqueueFails, Abort, Close, Goto
<1>4. RefundWorkers \subseteq Sessions
  BY DEF Sessions
<1> QED
  BY <1>1, <1>2, <1>3, <1>4

(* No step of a refund worker loses the message of a charged job that is   *)
(* not refunded by that step.                                              *)
LEMMA WorkersCarry ==
  ASSUME TypeOK, TypeOK', LockInv, NEW j \in Requests, usage[j] > 0, Carried(j),
         NEW f \in RefundWorkers,
         (\E k \in Requests : TakeRefund(f, k)) \/ Work(f) \/ Disturb(f)
  PROVE  refunds'[j] > 0 \/ Carried(j)'
<1>1. /\ queue \in [Requests -> Nat] /\ queue' \in [Requests -> Nat]
      /\ task \in [RefundWorkers -> Requests \cup {Free}]
      /\ refunds[j] \in Nat /\ usage[j] \in Nat
      /\ f \in Sessions /\ DOMAIN pc = Sessions /\ RefundWorkers \subseteq Sessions
  BY AmountFacts DEF TypeOK, Sessions
<1>2. pc[f] # "idle" => task[f] \in Requests
  BY DEF LockInv
<1>3. ASSUME NEW label, pc' = [pc EXCEPT ![f] = label]
      PROVE  pc'[f] = label /\ \A g \in RefundWorkers \ {f} : pc'[g] = pc[g]
  BY <1>1, <1>3
<1>4. ASSUME NEW k \in Requests, TakeRefund(f, k) PROVE Carried(j)'
  <2>1. /\ pc[f] = "idle" /\ pc' = [pc EXCEPT ![f] = "event"]
        /\ task' = [task EXCEPT ![f] = k]
        /\ queue' = [queue EXCEPT ![k] = queue[k] - 1]
    BY <1>4 DEF TakeRefund, Goto
  <2>2. CASE k = j
    <3>1. task'[f] = j /\ pc'[f] = "event"
      BY <1>1, <2>1, <2>2
    <3> QED
      BY <3>1 DEF Carried
  <2>3. CASE k # j
    <3>1. queue'[j] = queue[j]
      BY <1>1, <2>1, <2>3
    <3>2. ~Undecided(f)
      BY <2>1 DEF Undecided
    <3>3. \A g \in RefundWorkers \ {f} : task'[g] = task[g] /\ pc'[g] = pc[g]
      BY <1>1, <1>3, <2>1
    <3> QED
      BY <1>1, <3>1, <3>2, <3>3, StillCarried
  <2> QED
    BY <2>2, <2>3
<1>5. ASSUME NEW k \in Requests, Refund(f, k)
      PROVE  refunds'[j] > 0 \/ Carried(j)'
  <2>1. /\ task[f] = k /\ queue' = queue /\ task' = task
        /\ \E label : pc' = [pc EXCEPT ![f] = label]
    BY <1>5 DEF Refund, NoEvent, LockEvent, SkipRefund, CheckRefund, LockOwner,
                InsertRefund, CommitRefund, Close, Goto
  <2>2. CASE k # j
    <3>1. \A g \in RefundWorkers \ {f} : task'[g] = task[g] /\ pc'[g] = pc[g]
      BY <1>3, <2>1
    <3> QED
      BY <1>1, <2>1, <2>2, <3>1, StillCarried
  <2>3. CASE k = j /\ CommitRefund(f, k)
    <3>1. refunds' = [refunds EXCEPT ![j] = refunds[j] + usage[j]]
      BY <2>3 DEF CommitRefund
    <3>2. refunds'[j] = refunds[j] + usage[j]
      BY <3>1 DEF TypeOK
    <3> QED
      BY <1>1, <3>2
  <2>4. CASE k = j /\ SkipRefund(f, k)
    BY <2>4 DEF SkipRefund, AlreadyRefunded, rows
  <2>5. CASE k = j /\ NoEvent(f, k)
    BY <2>5 DEF NoEvent, Jobs
  <2>6. CASE k = j /\ (LockEvent(f, k) \/ CheckRefund(f, k) \/ LockOwner(f, k)
                         \/ InsertRefund(f, k))
    <3>1. \E label \in {"existing", "owner", "credit", "settle"} :
            pc' = [pc EXCEPT ![f] = label]
      BY <2>6 DEF LockEvent, CheckRefund, LockOwner, InsertRefund, Goto
    <3>2. task'[f] = j /\ pc'[f] \in {"existing", "owner", "credit", "settle"}
      BY <1>3, <2>1, <2>6, <3>1
    <3> QED
      BY <3>2 DEF Carried
  <2> QED
    BY <1>5, <2>2, <2>3, <2>4, <2>5, <2>6 DEF Refund
<1>6. CASE AckRefund(f)
  <2>1. /\ pc[f] = "ack" /\ pc' = [pc EXCEPT ![f] = "idle"]
        /\ task' = [task EXCEPT ![f] = Free] /\ queue' = queue
    BY <1>6 DEF AckRefund, Goto
  <2>2. \A g \in RefundWorkers \ {f} : task'[g] = task[g] /\ pc'[g] = pc[g]
    BY <1>1, <1>3, <2>1
  <2>3. ~Undecided(f)
    BY <2>1 DEF Undecided
  <2> QED
    BY <1>1, <2>1, <2>2, <2>3, StillCarried
<1>7. CASE RetryRefund(f) \/ LoseWorker(f)
  <2>1. /\ pc[f] # "idle"
        /\ queue' = [queue EXCEPT ![task[f]] = queue[task[f]] + 1]
        /\ \E label : pc' = [pc EXCEPT ![f] = label]
        /\ task' = task \/ task' = [task EXCEPT ![f] = Free]
    BY <1>7 DEF RetryRefund, LoseWorker, AckedLate, Close, Goto
  <2>2. CASE task[f] = j
    <3>1. queue'[j] = queue[j] + 1
      BY <1>1, <2>1, <2>2
    <3> QED
      BY <1>1, <3>1 DEF Carried
  <2>3. CASE task[f] # j
    <3>1. queue'[j] = queue[j]
      BY <1>1, <1>2, <2>1, <2>3
    <3>2. \A g \in RefundWorkers \ {f} : task'[g] = task[g] /\ pc'[g] = pc[g]
      BY <1>1, <1>3, <2>1
    <3> QED
      BY <1>1, <2>3, <3>1, <3>2, StillCarried
  <2> QED
    BY <2>2, <2>3
<1> QED
  BY <1>4, <1>5, <1>6, <1>7 DEF Work, Disturb

(* The safety half of "refunds must not be lost": as long as a job that    *)
(* was charged is not paid back, a refund message that exists for it goes  *)
(* on to exist, whatever fails, is retried or is lost.                     *)
THEOREM RefundsAreNotDropped == Spec => RefundsNotDropped
<1> DEFINE Kept == \A j \in Requests :
      usage[j] > 0 /\ Carried(j) => refunds'[j] > 0 \/ Carried(j)'
<1>1. ASSUME IInv, IInv', Next, NEW j \in Requests, usage[j] > 0, Carried(j)
      PROVE  refunds'[j] > 0 \/ Carried(j)'
  <2>1. TypeOK /\ TypeOK' /\ LockInv /\ queue[j] \in Nat /\ queue'[j] \in Nat
    BY <1>1 DEF IInv, TypeOK
  <2>2. ASSUME NEW r \in Requests, Submit(r) \/ EnqueueFails(r) \/ Abort(r)
        PROVE  Carried(j)'
    <3>1. /\ queue' = queue /\ task' = task
          /\ \A g \in RefundWorkers : pc'[g] = pc[g]
      BY <2>1, <2>2, SubmissionsCarryNothing
    <3>2. r \notin RefundWorkers
      BY QuotaAssumption
    <3> QED
      BY <1>1, <2>1, <3>1, <3>2, StillCarried
  <2>3. ASSUME NEW k \in Requests, SynthesisFails(k) PROVE Carried(j)'
    <3>1. queue' = [queue EXCEPT ![k] = queue[k] + 1] /\ task' = task /\ pc' = pc
      BY <2>3 DEF SynthesisFails
    <3>2. queue'[j] >= queue[j]
      BY <2>1, <3>1 DEF TypeOK
    <3>3. Free \notin RefundWorkers
      BY QuotaAssumption
    <3> QED
      BY <1>1, <2>1, <3>1, <3>2, <3>3, StillCarried
  <2>4. ASSUME NEW f \in RefundWorkers,
               (\E k \in Requests : TakeRefund(f, k)) \/ Work(f) \/ Disturb(f)
        PROVE  refunds'[j] > 0 \/ Carried(j)'
    BY <1>1, <2>1, <2>4, WorkersCarry
  <2>5. CASE Quiescent \/ \E k \in Requests : LockJob(k) \/ UnlockJob(k)
    <3>1. queue' = queue /\ task' = task /\ pc' = pc
      BY <2>5 DEF Quiescent, vars, LockJob, UnlockJob
    <3> QED
      BY <1>1, <3>1 DEF Carried
  <2> QED
    BY <1>1, <2>2, <2>3, <2>4, <2>5 DEF Next
<1>2. IInv /\ IInv' /\ [Next]_vars => [Kept]_vars
  BY <1>1
<1> QED
  BY <1>2, Invariance, PTL DEF Spec, RefundsNotDropped

-----------------------------------------------------------------------------
(* Amounts of the abstract ledger.                                         *)
LedgerInv ==
  /\ usage \in [Requests -> Nat]
  /\ refunds \in [Requests -> Nat]
  /\ AtMostOneRefund

(* Who knows only the abstract ledger knows that a job is paid back at     *)
(* most once, with what it was charged, and that a charge never changes.   *)
THEOREM LedgerIsEnough ==
  AbstractLedger!Spec =>
    /\ []AtMostOneRefund
    /\ [][\A j \in Requests : usage[j] > 0 => usage'[j] = usage[j]]_usage
<1> DEFINE Kept == \A j \in Requests : usage[j] > 0 => usage'[j] = usage[j]
<1>1. AbstractLedger!Init => LedgerInv
  BY DEF AbstractLedger!Init, LedgerInv, AtMostOneRefund
<1>2. LedgerInv /\ [AbstractLedger!Next]_(AbstractLedger!ledgerVars)
        => LedgerInv' /\ Kept
  <2>0. SUFFICES ASSUME LedgerInv,
                        [AbstractLedger!Next]_(AbstractLedger!ledgerVars)
                 PROVE  LedgerInv' /\ Kept
    OBVIOUS
  <2>1. ASSUME NEW j \in Requests, AbstractLedger!Charge(j)
        PROVE  LedgerInv' /\ Kept
    <3>1. PICK n \in Lengths : usage' = [usage EXCEPT ![j] = n]
      BY <2>1 DEF AbstractLedger!Charge
    <3>2. n \in Nat /\ usage[j] = 0 /\ refunds' = refunds
      BY <2>1, QuotaAssumption DEF AbstractLedger!Charge
    <3> QED
      BY <2>0, <3>1, <3>2 DEF LedgerInv, AtMostOneRefund
  <2>2. ASSUME NEW j \in Requests, AbstractLedger!Credit(j)
        PROVE  LedgerInv' /\ Kept
    <3>1. usage' = usage /\ refunds' = [refunds EXCEPT ![j] = usage[j]]
      BY <2>2 DEF AbstractLedger!Credit
    <3> QED
      BY <2>0, <3>1 DEF LedgerInv, AtMostOneRefund
  <2>3. CASE UNCHANGED AbstractLedger!ledgerVars
    BY <2>0, <2>3 DEF AbstractLedger!ledgerVars, LedgerInv, AtMostOneRefund
  <2> QED
    BY <2>0, <2>1, <2>2, <2>3 DEF AbstractLedger!Next
<1>3. LedgerInv => AtMostOneRefund
  BY DEF LedgerInv
<1>4. LedgerInv /\ [AbstractLedger!Next]_(AbstractLedger!ledgerVars) => [Kept]_usage
  BY <1>2
<1> QED
  BY <1>1, <1>2, <1>3, <1>4, PTL DEF AbstractLedger!Spec
=============================================================================
