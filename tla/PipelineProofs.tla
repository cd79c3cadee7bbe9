--------------------------- MODULE PipelineProofs ---------------------------
(***************************************************************************)
(* Proofs about Pipeline, for any number of workers and any bounds on      *)
(* faults and reads.                                                       *)
(***************************************************************************)
EXTENDS Pipeline, TLAPS

(* w has a file key that no row refers to yet.                             *)
Keyed(w) == pc[w] \in {"request", "upload", "publish", "finish", "cleanup"}

(* Every attempt works on an object of its own, and the object a client    *)
(* may have been told about is nobody's.                                   *)
KeyInv ==
  /\ audio \in 0..attempts
  /\ audio # NoFile => audio \in public
  /\ state = "success" \/ webhook => audio # NoFile
  /\ \A w \in Workers :
        /\ pc[w] = "announce" => audio # NoFile
        /\ Keyed(w) => key[w] \in 1..attempts /\ key[w] # audio
        /\ pc[w] = "finish" => key[w] \in public
  /\ \A v, w \in Workers : v # w /\ Keyed(v) /\ Keyed(w) => key[v] # key[w]

(* The refund is sent before the row is marked.                            *)
RefundInv ==
  /\ state = "failure" => refund
  /\ \A w \in Workers : pc[w] \in {"mark", "write"} => refund

(* While no two deliveries have overlapped, the worker that processes the  *)
(* job knows its row.                                                      *)
SoloInv ==
  ~overlapped =>
    /\ \A v, w \in Workers : v # w => ~(Processing(v) /\ Processing(w))
    /\ \A w \in Workers :
         /\ pc[w] \in {"claimed", "request", "upload", "publish", "finish",
                       "write"} => state \in Eligible
         /\ pc[w] \in {"claimed", "request", "upload", "publish", "finish"} =>
              (error => seenError[w])
    /\ state = "success" => ~error

(* A worker that writes to the row has seen it, so it has been committed.  *)
RowInv ==
  /\ submission # "committed" => state = "none"
  /\ \A w \in Workers :
        pc[w] \in {"claimed", "request", "upload", "publish", "finish",
                   "write"} => submission = "committed"

IInv == TypeOK /\ KeyInv /\ RefundInv /\ SoloInv /\ RowInv

(* TypeOK in two parts: the numbers, and everything else.                  *)
Counts ==
  /\ audio \in Nat /\ queue \in Nat /\ attempts \in Nat
  /\ key \in [Workers -> Nat]
  /\ stored \subseteq Nat /\ public \subseteq Nat
  /\ reads \in 0..MaxReads /\ faults \in 0..MaxFaults

Flags ==
  /\ submission \in {"open", "enqueued", "committed", "rolled back"}
  /\ state \in {"none"} \cup Eligible \cup Terminal
  /\ lock \in Workers \cup {Free, Api}
  /\ \A w \in Workers : lock = w => pc[w] = "claimed"
  /\ pc \in [Workers -> Labels]
  /\ error \in BOOLEAN /\ refund \in BOOLEAN
  /\ webhook \in BOOLEAN /\ overlapped \in BOOLEAN
  /\ held \in [Workers -> BOOLEAN] /\ seenError \in [Workers -> BOOLEAN]

(* The two parts together are the type invariant.                          *)
LEMMA TypeParts == TypeOK <=> Counts /\ Flags
  BY Zenon DEF TypeOK, Counts, Flags

-----------------------------------------------------------------------------
(* The initial state satisfies the invariant.                              *)
LEMMA InitHolds == Init => IInv
<1> SUFFICES ASSUME Init PROVE IInv
  OBVIOUS
<1>1. Counts
  BY PipelineAssumption DEF Init, Counts, NoFile
<1>2. Flags
  BY PipelineAssumption DEF Init, Flags, Labels
<1>3. KeyInv
  BY DEF Init, KeyInv, Keyed, NoFile
<1>4. RefundInv /\ SoloInv /\ RowInv
  BY DEF Init, RefundInv, SoloInv, RowInv, Processing
<1> QED
  BY <1>1, <1>2, <1>3, <1>4, TypeParts DEF IInv

(* An injected failure stays within its bound.                             *)
LEMMA FaultFacts ==
  ASSUME Counts, Fault
  PROVE  faults' \in 0..MaxFaults
  BY PipelineAssumption DEF Counts, Fault

(* Every action keeps the numbers in their ranges.                         *)
LEMMA CountStep == Counts /\ [Next]_vars => Counts'
<1>0. SUFFICES ASSUME Counts, [Next]_vars PROVE Counts'
  OBVIOUS
<1> USE <1>0, PipelineAssumption DEF Counts, row, broker, session, bucket, outbox
<1>1. CASE Enqueue
  BY <1>1 DEF Enqueue
<1>2. CASE CommitSubmit
  BY <1>2 DEF CommitSubmit
<1>3. CASE RollbackSubmit
  BY <1>3 DEF RollbackSubmit
<1>4. CASE ReadResult
  BY <1>4 DEF ReadResult
<1>5. CASE EndRead
  BY <1>5 DEF EndRead
<1>6. ASSUME NEW w \in Workers, Deliver(w) PROVE Counts'
  BY <1>6 DEF Deliver, Goto
<1>7. ASSUME NEW w \in Workers, Work(w) PROVE Counts'
  <2>1. CASE ClaimLocked(w)
    BY <2>1 DEF ClaimLocked, Fault, RetriedWhenLocked, Goto
  <2>2. CASE ClaimNothing(w)
    BY <2>2 DEF ClaimNothing, Claimable, Goto
  <2>3. CASE Claim(w)
    BY <2>3 DEF Claim, Claimable, Enter, Goto
  <2>4. CASE CommitExecuting(w)
    BY <2>4 DEF CommitExecuting, FreshKey, Unlocked, Goto
  <2>5. CASE Respond(w)
    BY <2>5 DEF Respond, Goto
  <2>6. CASE Upload(w)
    BY <2>6 DEF Upload, Goto
  <2>7. CASE Publish(w)
    BY <2>7 DEF Publish, Goto
  <2>8. CASE Delete(w)
    BY <2>8 DEF Delete, Goto
  <2>9. CASE Finish(w)
    BY <2>9 DEF Finish, ErrorCleared, Goto
  <2>10. CASE Announce(w)
    BY <2>10 DEF Announce, Goto
  <2>11. CASE SendRefund(w)
    BY <2>11 DEF SendRefund, Goto
  <2>12. CASE ReadMark(w)
    BY <2>12 DEF ReadMark, Goto
  <2>13. CASE WriteMark(w)
    BY <2>13 DEF WriteMark, Goto
  <2>14. CASE Retry(w)
    BY <2>14 DEF Retry, Goto
  <2>15. CASE Ack(w)
    BY <2>15 DEF Ack, Goto
  <2> QED
    BY <1>7, <2>1, <2>2, <2>3, <2>4, <2>5, <2>6, <2>7, <2>8, <2>9, <2>10, <2>11, <2>12, <2>13, <2>14, <2>15 DEF Work
<1>8. ASSUME NEW w \in Workers, Disturb(w) PROVE Counts'
  <2>1. CASE Redeliver(w)
    BY <2>1, FaultFacts DEF Redeliver, Goto
  <2>2. CASE LoseWorker(w)
    BY <2>2, FaultFacts DEF LoseWorker, AckedLate, Unlocked, Goto
  <2>3. CASE StreamFails(w)
    BY <2>3, FaultFacts DEF StreamFails, CommitPending, Goto
  <2>4. CASE StoreFails(w)
    BY <2>4, FaultFacts DEF StoreFails, CommitPending, Goto
  <2>5. CASE DeleteFails(w)
    BY <2>5, FaultFacts DEF DeleteFails, Goto
  <2>6. CASE AnnounceFails(w)
    BY <2>6, FaultFacts DEF AnnounceFails, Goto
  <2>7. CASE Unexpected(w)
    BY <2>7, FaultFacts DEF Unexpected, Enter, Unlocked, CommitPending, Goto
  <2>8. CASE SendRefundFails(w)
    BY <2>8, FaultFacts DEF SendRefundFails, RetriedFirst, Goto
  <2>9. CASE MarkFails(w)
    BY <2>9, FaultFacts DEF MarkFails, Goto
  <2> QED
    BY <1>8, <2>1, <2>2, <2>3, <2>4, <2>5, <2>6, <2>7, <2>8, <2>9 DEF Disturb
<1>9. CASE UNCHANGED vars
  BY <1>9 DEF vars
<1> QED
  BY <1>0, <1>1, <1>2, <1>3, <1>4, <1>5, <1>6, <1>7, <1>8, <1>9 DEF Next, Quiescent

(* Every action keeps the other variables in their ranges.                 *)
LEMMA FlagStep == Flags /\ [Next]_vars => Flags'
<1>0. SUFFICES ASSUME Flags, [Next]_vars PROVE Flags'
  OBVIOUS
<1> USE <1>0, PipelineAssumption DEF Flags, Labels, Eligible, Terminal, row, broker, session, bucket, outbox
<1>1. CASE Enqueue
  BY <1>1 DEF Enqueue
<1>2. CASE CommitSubmit
  BY <1>2 DEF CommitSubmit
<1>3. CASE RollbackSubmit
  BY <1>3 DEF RollbackSubmit
<1>4. CASE ReadResult
  BY <1>4 DEF ReadResult
<1>5. CASE EndRead
  BY <1>5 DEF EndRead
<1>6. ASSUME NEW w \in Workers, Deliver(w) PROVE Flags'
  BY <1>6 DEF Deliver, Goto
<1>7. ASSUME NEW w \in Workers, Work(w) PROVE Flags'
  <2>1. CASE ClaimLocked(w)
    BY <2>1 DEF ClaimLocked, Fault, RetriedWhenLocked, Goto
  <2>2. CASE ClaimNothing(w)
    BY <2>2 DEF ClaimNothing, Claimable, Goto
  <2>3. CASE Claim(w)
    BY <2>3 DEF Claim, Claimable, Enter, Goto
  <2>4. CASE CommitExecuting(w)
    BY <2>4 DEF CommitExecuting, FreshKey, Unlocked, Goto
  <2>5. CASE Respond(w)
    BY <2>5 DEF Respond, Goto
  <2>6. CASE Upload(w)
    BY <2>6 DEF Upload, Goto
  <2>7. CASE Publish(w)
    BY <2>7 DEF Publish, Goto
  <2>8. CASE Delete(w)
    BY <2>8 DEF Delete, Goto
  <2>9. CASE Finish(w)
    BY <2>9 DEF Finish, ErrorCleared, Goto
  <2>10. CASE Announce(w)
    BY <2>10 DEF Announce, Goto
  <2>11. CASE SendRefund(w)
    BY <2>11 DEF SendRefund, Goto
  <2>12. CASE ReadMark(w)
    BY <2>12 DEF ReadMark, Goto
  <2>13. CASE WriteMark(w)
    BY <2>13 DEF WriteMark, Goto
  <2>14. CASE Retry(w)
    BY <2>14 DEF Retry, Goto
  <2>15. CASE Ack(w)
    BY <2>15 DEF Ack, Goto
  <2> QED
    BY <1>7, <2>1, <2>2, <2>3, <2>4, <2>5, <2>6, <2>7, <2>8, <2>9, <2>10, <2>11, <2>12, <2>13, <2>14, <2>15 DEF Work
<1>8. ASSUME NEW w \in Workers, Disturb(w) PROVE Flags'
  <2>1. CASE Redeliver(w)
    BY <2>1 DEF Redeliver, Fault, Goto
  <2>2. CASE LoseWorker(w)
    BY <2>2 DEF LoseWorker, Fault, AckedLate, Unlocked, Goto
  <2>3. CASE StreamFails(w)
    BY <2>3 DEF StreamFails, Fault, CommitPending, Goto
  <2>4. CASE StoreFails(w)
    BY <2>4 DEF StoreFails, Fault, CommitPending, Goto
  <2>5. CASE DeleteFails(w)
    BY <2>5 DEF DeleteFails, Fault, Goto
  <2>6. CASE AnnounceFails(w)
    BY <2>6 DEF AnnounceFails, Fault, Goto
  <2>7. CASE Unexpected(w)
    BY <2>7 DEF Unexpected, Fault, Enter, Unlocked, CommitPending, Goto
  <2>8. CASE SendRefundFails(w)
    BY <2>8 DEF SendRefundFails, Fault, RetriedFirst, Goto
  <2>9. CASE MarkFails(w)
    BY <2>9 DEF MarkFails, Fault, Goto
  <2> QED
    BY <1>8, <2>1, <2>2, <2>3, <2>4, <2>5, <2>6, <2>7, <2>8, <2>9 DEF Disturb
<1>9. CASE UNCHANGED vars
  BY <1>9 DEF vars
<1> QED
  BY <1>0, <1>1, <1>2, <1>3, <1>4, <1>5, <1>6, <1>7, <1>8, <1>9 DEF Next, Quiescent

(* Every action preserves the type invariant.                              *)
LEMMA TypeStep == TypeOK /\ [Next]_vars => TypeOK'
<1>1. Counts' /\ Flags' => TypeOK'
  BY Zenon DEF TypeOK, Counts, Flags
<1> QED
  BY <1>1, TypeParts, CountStep, FlagStep

(* The next file key is a new one.                                         *)
LEMMA NextKey ==
  ASSUME NEW n \in Nat
  PROVE  /\ n + 1 \in 1..(n + 1)
         /\ n + 1 \notin 0..n
         /\ 1..n \subseteq 1..(n + 1)
         /\ 0..n \subseteq 0..(n + 1)
         /\ 1..n \subseteq (0..n) \ {0}
  OBVIOUS

(* A claim hands out a key that no row and no other attempt has.           *)
LEMMA CommitKeyStep ==
  ASSUME TypeOK, KeyInv, NEW w \in Workers, CommitExecuting(w)
  PROVE  KeyInv'
<1>1. /\ pc[w] = "claimed" /\ pc' = [pc EXCEPT ![w] = "request"]
      /\ key' = [key EXCEPT ![w] = attempts + 1]
      /\ attempts' = attempts + 1
      /\ state' = "executing"
      /\ UNCHANGED <<audio, public, webhook>>
  BY DEF CommitExecuting, FreshKey, Unlocked, Goto, bucket, outbox
<1>2. attempts \in Nat /\ key \in [Workers -> Nat] /\ pc \in [Workers -> Labels]
  BY Zenon DEF TypeOK
<1>3. /\ attempts' \in 1..attempts' /\ attempts' \notin 0..attempts
      /\ 1..attempts \subseteq 1..attempts'
      /\ 0..attempts \subseteq 0..attempts'
      /\ 1..attempts \subseteq 0..attempts
  BY Zenon, <1>1, <1>2, NextKey
<1>4. key'[w] = attempts' /\ pc'[w] = "request"
  BY <1>1, <1>2
<1>5. ASSUME NEW v \in Workers, v # w
      PROVE  pc'[v] = pc[v] /\ key'[v] = key[v]
  BY <1>1, <1>2, <1>5
<1>6. /\ audio \in 0..attempts
      /\ audio # NoFile => audio \in public
      /\ state = "success" \/ webhook => audio # NoFile
  BY DEF KeyInv
<1>7. ASSUME NEW v \in Workers, v # w, Keyed(v)'
      PROVE  Keyed(v) /\ key'[v] \in 1..attempts /\ key'[v] # audio
  BY <1>5, <1>7 DEF KeyInv, Keyed
<1>8. ASSUME NEW v \in Workers
      PROVE  /\ pc'[v] = "announce" => audio' # NoFile
             /\ Keyed(v)' => key'[v] \in 1..attempts' /\ key'[v] # audio'
             /\ pc'[v] = "finish" => key'[v] \in public'
  <2>1. CASE v = w
    BY <1>1, <1>3, <1>4, <1>6, <2>1
  <2>2. CASE v # w
    BY <1>1, <1>3, <1>5, <1>7, <2>2 DEF KeyInv
  <2> QED
    BY <2>1, <2>2
<1>9. ASSUME NEW u \in Workers, NEW v \in Workers, u # v, Keyed(u)', Keyed(v)'
      PROVE  key'[u] # key'[v]
  <2>1. CASE u = w
    BY <1>3, <1>4, <1>7, <1>9, <2>1
  <2>2. CASE v = w
    BY <1>3, <1>4, <1>7, <1>9, <2>2
  <2>3. CASE u # w /\ v # w
    BY <1>5, <1>7, <1>9, <2>3 DEF KeyInv
  <2> QED
    BY <2>1, <2>2, <2>3
<1>10. /\ audio' \in 0..attempts'
       /\ audio' # NoFile => audio' \in public'
       /\ state' = "success" \/ webhook' => audio' # NoFile
  BY <1>1, <1>3, <1>6
<1> QED
  BY Zenon, <1>8, <1>9, <1>10 DEF KeyInv

(* Success gives the worker's own object, which is public, to the row.     *)
LEMMA FinishKeyStep ==
  ASSUME TypeOK, KeyInv, NEW w \in Workers, Finish(w)
  PROVE  KeyInv'
<1>1. /\ pc[w] = "finish" /\ pc' = [pc EXCEPT ![w] = "announce"]
      /\ audio' = key[w]
      /\ UNCHANGED <<key, attempts, public, webhook>>
  BY DEF Finish, Goto, session, bucket, outbox
<1>2. attempts \in Nat /\ pc \in [Workers -> Labels]
  BY Zenon DEF TypeOK
<1>3. key[w] \in 1..attempts /\ key[w] \in public
  BY <1>1 DEF KeyInv, Keyed
<1>4. 1..attempts \subseteq (0..attempts) \ {0}
  BY Zenon, <1>2, NextKey
<1>5. audio' \in 0..attempts' /\ audio' # NoFile /\ audio' \in public'
  BY <1>1, <1>3, <1>4 DEF NoFile
<1>6. ASSUME NEW v \in Workers, Keyed(v)'
      PROVE  /\ v # w /\ Keyed(v) /\ key'[v] = key[v] /\ pc'[v] = pc[v]
             /\ key'[v] \in 1..attempts' /\ key'[v] # audio'
  <2>1. v # w /\ pc'[v] = pc[v]
    BY <1>1, <1>2, <1>6 DEF Keyed
  <2>2. Keyed(v) /\ Keyed(w)
    BY <1>1, <1>6, <2>1 DEF Keyed
  <2> QED
    BY <1>1, <2>1, <2>2 DEF KeyInv
<1>7. ASSUME NEW v \in Workers
      PROVE  /\ pc'[v] = "announce" => audio' # NoFile
             /\ Keyed(v)' => key'[v] \in 1..attempts' /\ key'[v] # audio'
             /\ pc'[v] = "finish" => key'[v] \in public'
  BY <1>1, <1>5, <1>6 DEF KeyInv, Keyed
<1>8. ASSUME NEW u \in Workers, NEW v \in Workers, u # v, Keyed(u)', Keyed(v)'
      PROVE  key'[u] # key'[v]
  BY <1>6, <1>8 DEF KeyInv
<1> QED
  BY Zenon, <1>5, <1>7, <1>8 DEF KeyInv

(* No attempt touches the object of another one or of the row.              *)
LEMMA KeyStep == TypeOK /\ KeyInv /\ [Next]_vars => KeyInv'
<1>0. SUFFICES ASSUME TypeOK, KeyInv, [Next]_vars PROVE KeyInv'
  BY DEF IInv
<1> USE <1>0, PipelineAssumption DEF TypeOK, KeyInv, Keyed, NoFile, Eligible, Terminal, row, broker, session, bucket, outbox
<1>1. CASE Enqueue
  BY <1>1 DEF Enqueue
<1>2. CASE CommitSubmit
  BY <1>2 DEF CommitSubmit
<1>3. CASE RollbackSubmit
  BY <1>3 DEF RollbackSubmit
<1>4. CASE ReadResult
  BY <1>4 DEF ReadResult
<1>5. CASE EndRead
  BY <1>5 DEF EndRead
<1>6. ASSUME NEW w \in Workers, Deliver(w) PROVE KeyInv'
  BY <1>6 DEF Deliver, Goto
<1>7. ASSUME NEW w \in Workers, Work(w) PROVE KeyInv'
  <2>1. CASE ClaimLocked(w)
    BY <2>1 DEF ClaimLocked, Fault, RetriedWhenLocked, Goto
  <2>2. CASE ClaimNothing(w)
    BY <2>2 DEF ClaimNothing, Claimable, Goto
  <2>3. CASE Claim(w)
    BY <2>3 DEF Claim, Claimable, Enter, Goto
  <2>4. CASE CommitExecuting(w)
    BY Zenon, <1>0, <1>7, <2>4, CommitKeyStep
  <2>5. CASE Respond(w)
    BY <2>5 DEF Respond, Goto
  <2>6. CASE Upload(w)
    BY <2>6 DEF Upload, Goto
  <2>7. CASE Publish(w)
    BY <2>7 DEF Publish, Goto
  <2>8. CASE Delete(w)
    BY <2>8 DEF Delete, Goto
  <2>9. CASE Finish(w)
    BY Zenon, <1>0, <1>7, <2>9, FinishKeyStep
  <2>10. CASE Announce(w)
    BY <2>10 DEF Announce, Goto
  <2>11. CASE SendRefund(w)
    BY <2>11 DEF SendRefund, Goto
  <2>12. CASE ReadMark(w)
    BY <2>12 DEF ReadMark, Goto
  <2>13. CASE WriteMark(w)
    BY <2>13 DEF WriteMark, Goto
  <2>14. CASE Retry(w)
    BY <2>14 DEF Retry, Goto
  <2>15. CASE Ack(w)
    BY <2>15 DEF Ack, Goto
  <2> QED
    BY <1>7, <2>1, <2>2, <2>3, <2>4, <2>5, <2>6, <2>7, <2>8, <2>9, <2>10, <2>11, <2>12, <2>13, <2>14, <2>15 DEF Work
<1>8. ASSUME NEW w \in Workers, Disturb(w) PROVE KeyInv'
  <2>1. CASE Redeliver(w)
    BY <2>1 DEF Redeliver, Fault, Goto
  <2>2. CASE LoseWorker(w)
    BY <2>2 DEF LoseWorker, Fault, AckedLate, Unlocked, Goto
  <2>3. CASE StreamFails(w)
    BY <2>3 DEF StreamFails, Fault, CommitPending, Goto
  <2>4. CASE StoreFails(w)
    BY <2>4 DEF StoreFails, Fault, CommitPending, Goto
  <2>5. CASE DeleteFails(w)
    BY <2>5 DEF DeleteFails, Fault, Goto
  <2>6. CASE AnnounceFails(w)
    BY <2>6 DEF AnnounceFails, Fault, Goto
  <2>7. CASE Unexpected(w)
    BY <2>7 DEF Unexpected, Fault, Enter, Unlocked, CommitPending, Goto
  <2>8. CASE SendRefundFails(w)
    BY <2>8 DEF SendRefundFails, Fault, RetriedFirst, Goto
  <2>9. CASE MarkFails(w)
    BY <2>9 DEF MarkFails, Fault, Goto
  <2> QED
    BY <1>8, <2>1, <2>2, <2>3, <2>4, <2>5, <2>6, <2>7, <2>8, <2>9 DEF Disturb
<1>9. CASE UNCHANGED vars
  BY <1>9 DEF vars
<1> QED
  BY <1>0, <1>1, <1>2, <1>3, <1>4, <1>5, <1>6, <1>7, <1>8, <1>9 DEF Next, Quiescent

(* Only a worker that has sent the refund marks the row.                    *)
LEMMA RefundStep == TypeOK /\ RefundInv /\ [Next]_vars => RefundInv'
<1>0. SUFFICES ASSUME TypeOK, RefundInv, [Next]_vars PROVE RefundInv'
  BY DEF IInv
<1> USE <1>0, PipelineAssumption DEF TypeOK, RefundInv, row, broker, session, bucket, outbox
<1>1. CASE Enqueue
  BY <1>1 DEF Enqueue
<1>2. CASE CommitSubmit
  BY <1>2 DEF CommitSubmit
<1>3. CASE RollbackSubmit
  BY <1>3 DEF RollbackSubmit
<1>4. CASE ReadResult
  BY <1>4 DEF ReadResult
<1>5. CASE EndRead
  BY <1>5 DEF EndRead
<1>6. ASSUME NEW w \in Workers, Deliver(w) PROVE RefundInv'
  BY <1>6 DEF Deliver, Goto
<1>7. ASSUME NEW w \in Workers, Work(w) PROVE RefundInv'
  <2>1. CASE ClaimLocked(w)
    BY <2>1 DEF ClaimLocked, Fault, RetriedWhenLocked, Goto
  <2>2. CASE ClaimNothing(w)
    BY <2>2 DEF ClaimNothing, Claimable, Goto
  <2>3. CASE Claim(w)
    BY <2>3 DEF Claim, Claimable, Enter, Goto
  <2>4. CASE CommitExecuting(w)
    BY <2>4 DEF CommitExecuting, FreshKey, Unlocked, Goto
  <2>5. CASE Respond(w)
    BY <2>5 DEF Respond, Goto
  <2>6. CASE Upload(w)
    BY <2>6 DEF Upload, Goto
  <2>7. CASE Publish(w)
    BY <2>7 DEF Publish, Goto
  <2>8. CASE Delete(w)
    BY <2>8 DEF Delete, Goto
  <2>9. CASE Finish(w)
    BY <2>9 DEF Finish, ErrorCleared, Goto
  <2>10. CASE Announce(w)
    BY <2>10 DEF Announce, Goto
  <2>11. CASE SendRefund(w)
    BY <2>11 DEF SendRefund, Goto
  <2>12. CASE ReadMark(w)
    BY <2>12 DEF ReadMark, Goto
  <2>13. CASE WriteMark(w)
    BY <2>13 DEF WriteMark, Goto
  <2>14. CASE Retry(w)
    BY <2>14 DEF Retry, Goto
  <2>15. CASE Ack(w)
    BY <2>15 DEF Ack, Goto
  <2> QED
    BY <1>7, <2>1, <2>2, <2>3, <2>4, <2>5, <2>6, <2>7, <2>8, <2>9, <2>10, <2>11, <2>12, <2>13, <2>14, <2>15 DEF Work
<1>8. ASSUME NEW w \in Workers, Disturb(w) PROVE RefundInv'
  <2>1. CASE Redeliver(w)
    BY <2>1 DEF Redeliver, Fault, Goto
  <2>2. CASE LoseWorker(w)
    BY <2>2 DEF LoseWorker, Fault, AckedLate, Unlocked, Goto
  <2>3. CASE StreamFails(w)
    BY <2>3 DEF StreamFails, Fault, CommitPending, Goto
  <2>4. CASE StoreFails(w)
    BY <2>4 DEF StoreFails, Fault, CommitPending, Goto
  <2>5. CASE DeleteFails(w)
    BY <2>5 DEF DeleteFails, Fault, Goto
  <2>6. CASE AnnounceFails(w)
    BY <2>6 DEF AnnounceFails, Fault, Goto
  <2>7. CASE Unexpected(w)
    BY <2>7 DEF Unexpected, Fault, Enter, Unlocked, CommitPending, Goto
  <2>8. CASE SendRefundFails(w)
    BY <2>8 DEF SendRefundFails, Fault, RetriedFirst, Goto
  <2>9. CASE MarkFails(w)
    BY <2>9 DEF MarkFails, Fault, Goto
  <2> QED
    BY <1>8, <2>1, <2>2, <2>3, <2>4, <2>5, <2>6, <2>7, <2>8, <2>9 DEF Disturb
<1>9. CASE UNCHANGED vars
  BY <1>9 DEF vars
<1> QED
  BY <1>0, <1>1, <1>2, <1>3, <1>4, <1>5, <1>6, <1>7, <1>8, <1>9 DEF Next, Quiescent

(* Without an overlap only one worker changes the row.                      *)
LEMMA SoloStep == TypeOK /\ SoloInv /\ [Next]_vars => SoloInv'
<1>0. SUFFICES ASSUME TypeOK, SoloInv, [Next]_vars PROVE SoloInv'
  BY DEF IInv
<1> USE <1>0, PipelineAssumption DEF TypeOK, SoloInv, Processing, Eligible, row, broker, session, bucket, outbox
<1>1. CASE Enqueue
  BY <1>1 DEF Enqueue
<1>2. CASE CommitSubmit
  BY <1>2 DEF CommitSubmit
<1>3. CASE RollbackSubmit
  BY <1>3 DEF RollbackSubmit
<1>4. CASE ReadResult
  BY <1>4 DEF ReadResult
<1>5. CASE EndRead
  BY <1>5 DEF EndRead
<1>6. ASSUME NEW w \in Workers, Deliver(w) PROVE SoloInv'
  BY <1>6 DEF Deliver, Goto
<1>7. ASSUME NEW w \in Workers, Work(w) PROVE SoloInv'
  <2>1. CASE ClaimLocked(w)
    BY <2>1 DEF ClaimLocked, Fault, RetriedWhenLocked, Goto
  <2>2. CASE ClaimNothing(w)
    BY <2>2 DEF ClaimNothing, Claimable, Goto
  <2>3. CASE Claim(w)
    BY <2>3 DEF Claim, Claimable, Enter, Goto
  <2>4. CASE CommitExecuting(w)
    BY <2>4 DEF CommitExecuting, FreshKey, Unlocked, Goto
  <2>5. CASE Respond(w)
    BY <2>5 DEF Respond, Goto
  <2>6. CASE Upload(w)
    BY <2>6 DEF Upload, Goto
  <2>7. CASE Publish(w)
    BY <2>7 DEF Publish, Goto
  <2>8. CASE Delete(w)
    BY <2>8 DEF Delete, Goto
  <2>9. CASE Finish(w)
    BY <2>9 DEF Finish, ErrorCleared, Goto
  <2>10. CASE Announce(w)
    BY <2>10 DEF Announce, Goto
  <2>11. CASE SendRefund(w)
    BY <2>11 DEF SendRefund, Goto
  <2>12. CASE ReadMark(w)
    BY <2>12 DEF ReadMark, Goto
  <2>13. CASE WriteMark(w)
    BY <2>13 DEF WriteMark, Goto
  <2>14. CASE Retry(w)
    BY <2>14 DEF Retry, Goto
  <2>15. CASE Ack(w)
    BY <2>15 DEF Ack, Goto
  <2> QED
    BY <1>7, <2>1, <2>2, <2>3, <2>4, <2>5, <2>6, <2>7, <2>8, <2>9, <2>10, <2>11, <2>12, <2>13, <2>14, <2>15 DEF Work
<1>8. ASSUME NEW w \in Workers, Disturb(w) PROVE SoloInv'
  <2>1. CASE Redeliver(w)
    BY <2>1 DEF Redeliver, Fault, Goto
  <2>2. CASE LoseWorker(w)
    BY <2>2 DEF LoseWorker, Fault, AckedLate, Unlocked, Goto
  <2>3. CASE StreamFails(w)
    BY <2>3 DEF StreamFails, Fault, CommitPending, Goto
  <2>4. CASE StoreFails(w)
    BY <2>4 DEF StoreFails, Fault, CommitPending, Goto
  <2>5. CASE DeleteFails(w)
    BY <2>5 DEF DeleteFails, Fault, Goto
  <2>6. CASE AnnounceFails(w)
    BY <2>6 DEF AnnounceFails, Fault, Goto
  <2>7. CASE Unexpected(w)
    BY <2>7 DEF Unexpected, Fault, Enter, Unlocked, CommitPending, Goto
  <2>8. CASE SendRefundFails(w)
    BY <2>8 DEF SendRefundFails, Fault, RetriedFirst, Goto
  <2>9. CASE MarkFails(w)
    BY <2>9 DEF MarkFails, Fault, Goto
  <2> QED
    BY <1>8, <2>1, <2>2, <2>3, <2>4, <2>5, <2>6, <2>7, <2>8, <2>9 DEF Disturb
<1>9. CASE UNCHANGED vars
  BY <1>9 DEF vars
<1> QED
  BY <1>0, <1>1, <1>2, <1>3, <1>4, <1>5, <1>6, <1>7, <1>8, <1>9 DEF Next, Quiescent

(* The row is only written once it is there.                                *)
LEMMA RowStep == TypeOK /\ RowInv /\ [Next]_vars => RowInv'
<1>0. SUFFICES ASSUME TypeOK, RowInv, [Next]_vars PROVE RowInv'
  BY DEF IInv
<1> USE <1>0, PipelineAssumption DEF TypeOK, RowInv, Eligible, row, broker, session, bucket, outbox
<1>1. CASE Enqueue
  BY <1>1 DEF Enqueue
<1>2. CASE CommitSubmit
  BY <1>2 DEF CommitSubmit
<1>3. CASE RollbackSubmit
  BY <1>3 DEF RollbackSubmit
<1>4. CASE ReadResult
  BY <1>4 DEF ReadResult
<1>5. CASE EndRead
  BY <1>5 DEF EndRead
<1>6. ASSUME NEW w \in Workers, Deliver(w) PROVE RowInv'
  BY <1>6 DEF Deliver, Goto
<1>7. ASSUME NEW w \in Workers, Work(w) PROVE RowInv'
  <2>1. CASE ClaimLocked(w)
    BY <2>1 DEF ClaimLocked, Fault, RetriedWhenLocked, Goto
  <2>2. CASE ClaimNothing(w)
    BY <2>2 DEF ClaimNothing, Claimable, Goto
  <2>3. CASE Claim(w)
    BY <2>3 DEF Claim, Claimable, Enter, Goto
  <2>4. CASE CommitExecuting(w)
    BY <2>4 DEF CommitExecuting, FreshKey, Unlocked, Goto
  <2>5. CASE Respond(w)
    BY <2>5 DEF Respond, Goto
  <2>6. CASE Upload(w)
    BY <2>6 DEF Upload, Goto
  <2>7. CASE Publish(w)
    BY <2>7 DEF Publish, Goto
  <2>8. CASE Delete(w)
    BY <2>8 DEF Delete, Goto
  <2>9. CASE Finish(w)
    BY <2>9 DEF Finish, ErrorCleared, Goto
  <2>10. CASE Announce(w)
    BY <2>10 DEF Announce, Goto
  <2>11. CASE SendRefund(w)
    BY <2>11 DEF SendRefund, Goto
  <2>12. CASE ReadMark(w)
    BY <2>12 DEF ReadMark, Goto
  <2>13. CASE WriteMark(w)
    BY <2>13 DEF WriteMark, Goto
  <2>14. CASE Retry(w)
    BY <2>14 DEF Retry, Goto
  <2>15. CASE Ack(w)
    BY <2>15 DEF Ack, Goto
  <2> QED
    BY <1>7, <2>1, <2>2, <2>3, <2>4, <2>5, <2>6, <2>7, <2>8, <2>9, <2>10, <2>11, <2>12, <2>13, <2>14, <2>15 DEF Work
<1>8. ASSUME NEW w \in Workers, Disturb(w) PROVE RowInv'
  <2>1. CASE Redeliver(w)
    BY <2>1 DEF Redeliver, Fault, Goto
  <2>2. CASE LoseWorker(w)
    BY <2>2 DEF LoseWorker, Fault, AckedLate, Unlocked, Goto
  <2>3. CASE StreamFails(w)
    BY <2>3 DEF StreamFails, Fault, CommitPending, Goto
  <2>4. CASE StoreFails(w)
    BY <2>4 DEF StoreFails, Fault, CommitPending, Goto
  <2>5. CASE DeleteFails(w)
    BY <2>5 DEF DeleteFails, Fault, Goto
  <2>6. CASE AnnounceFails(w)
    BY <2>6 DEF AnnounceFails, Fault, Goto
  <2>7. CASE Unexpected(w)
    BY <2>7 DEF Unexpected, Fault, Enter, Unlocked, CommitPending, Goto
  <2>8. CASE SendRefundFails(w)
    BY <2>8 DEF SendRefundFails, Fault, RetriedFirst, Goto
  <2>9. CASE MarkFails(w)
    BY <2>9 DEF MarkFails, Fault, Goto
  <2> QED
    BY <1>8, <2>1, <2>2, <2>3, <2>4, <2>5, <2>6, <2>7, <2>8, <2>9 DEF Disturb
<1>9. CASE UNCHANGED vars
  BY <1>9 DEF vars
<1> QED
  BY <1>0, <1>1, <1>2, <1>3, <1>4, <1>5, <1>6, <1>7, <1>8, <1>9 DEF Next, Quiescent

-----------------------------------------------------------------------------
(* Pipeline is type-correct, for any number of workers and faults.         *)
THEOREM TypeCorrect == Spec => []TypeOK
  BY InitHolds, TypeStep, PTL DEF Spec, IInv

(* The inductive invariant holds in every reachable state.                 *)
THEOREM Invariance == Spec => []IInv
<1>1. Init => IInv
  BY InitHolds
<1>2. IInv /\ [Next]_vars => IInv'
  BY TypeStep, KeyStep, RefundStep, SoloStep, RowStep DEF IInv
<1> QED
  BY <1>1, <1>2, PTL DEF Spec

(* The audio clients are told about is in the bucket and public, whatever  *)
(* other deliveries of the job do.                                         *)
THEOREM AudioIsServed == Spec => []AudioNeverDangles
<1>1. IInv => AudioNeverDangles
  BY DEF IInv, KeyInv, AudioNeverDangles
<1> QED
  BY <1>1, Invariance, PTL

(* No job is FAILURE before its refund is queued.                          *)
THEOREM FailuresAreRefunded == Spec => []FailureIsRefunded
<1>1. IInv => FailureIsRefunded
  BY DEF IInv, RefundInv, FailureIsRefunded
<1> QED
  BY <1>1, Invariance, PTL

(* Without overlapping deliveries a successful job carries no message of   *)
(* an earlier attempt.                                                     *)
THEOREM SuccessIsClean == Spec => []SuccessShowsNoError
<1>1. IInv => SuccessShowsNoError
  BY DEF IInv, SoloInv, SuccessShowsNoError
<1> QED
  BY <1>1, Invariance, PTL

(* The commit of PENDING raised though it took effect.                     *)
PendingThenFails(w) ==
  pc[w] \in {"request", "upload", "publish"} /\ Unexpected(w)

(* Only these steps write to jobs.state.                                   *)
LEMMA StateWriters ==
  ASSUME [Next]_vars, state' # state
  PROVE  \/ CommitSubmit
         \/ \E w \in Workers :
              \/ CommitExecuting(w) \/ Finish(w) \/ WriteMark(w)
              \/ StreamFails(w) \/ StoreFails(w) \/ PendingThenFails(w)
<1> USE DEF row
<1>1. ASSUME NEW w \in Workers, Work(w)
      PROVE  CommitExecuting(w) \/ Finish(w) \/ WriteMark(w)
  BY <1>1 DEF Work, ClaimLocked, ClaimNothing, Claim, Respond, Upload, Publish,
     Delete, Announce, SendRefund, ReadMark, Retry, Ack
<1>2. ASSUME NEW w \in Workers, Disturb(w)
      PROVE  StreamFails(w) \/ StoreFails(w) \/ PendingThenFails(w)
  BY <1>2 DEF PendingThenFails, Disturb, Redeliver, LoseWorker, DeleteFails, AnnounceFails,
     Unexpected, SendRefundFails, MarkFails
<1> QED
  BY <1>1, <1>2 DEF Next, vars, Enqueue, RollbackSubmit, ReadResult, EndRead,
     Deliver, Quiescent

(* While no two deliveries have overlapped, nobody leaves SUCCESS or        *)
(* FAILURE.                                                                *)
LEMMA FinalStep ==
  ASSUME IInv, [Next]_vars, state \in Terminal, ~overlapped
  PROVE  state' = state
<1> SUFFICES ASSUME state' # state PROVE FALSE
  OBVIOUS
<1>1. state \notin Eligible /\ state # "none"
  BY DEF Terminal, Eligible
<1>2. CASE CommitSubmit
  BY <1>1, <1>2 DEF IInv, RowInv, CommitSubmit
<1>3. ASSUME NEW w \in Workers,
             pc[w] \in {"claimed", "request", "upload", "publish", "finish",
                        "write"}
      PROVE  FALSE
  BY <1>1, <1>3 DEF IInv, SoloInv
<1> QED
  BY <1>2, <1>3, StateWriters DEF CommitExecuting, Finish, WriteMark,
     StreamFails, StoreFails, PendingThenFails

(* Without overlapping deliveries SUCCESS and FAILURE are final, whatever  *)
(* is retried, redelivered or lost.                                        *)
THEOREM TerminalStaysFinal == Spec => TerminalIsFinal
<1>1. IInv /\ [Next]_vars =>
        [(state \in Terminal /\ ~overlapped) => (state' = state)]_vars
  BY FinalStep
<1> QED
  BY <1>1, Invariance, PTL DEF Spec, TerminalIsFinal

-----------------------------------------------------------------------------
(* Steps that nobody sees who relies on the contract.                      *)
LEMMA ContractStutter ==
  ASSUME NEW w \in Workers,
         \/ Deliver(w) \/ ClaimLocked(w) \/ ClaimNothing(w) \/ Respond(w)
         \/ Upload(w) \/ ReadMark(w) \/ Retry(w) \/ Ack(w)
         \/ Redeliver(w) \/ LoseWorker(w) \/ DeleteFails(w)
         \/ AnnounceFails(w) \/ SendRefundFails(w) \/ MarkFails(w)
  PROVE  UNCHANGED Contract!jobVars
BY DEF Contract!jobVars, row, bucket, outbox, Deliver, ClaimLocked,
   ClaimNothing, Respond, Upload, ReadMark, Retry, Ack, Redeliver, LoseWorker,
   DeleteFails, AnnounceFails, SendRefundFails, MarkFails

(* Entering may contest the job, and never ends that.                      *)
LEMMA EnterContests ==
  ASSUME overlapped \in BOOLEAN, NEW w \in Workers, Enter(w)
  PROVE  overlapped' \in {overlapped, TRUE}
<1>1. CASE overlapped \/ \E v \in Workers \ {w} : Processing(v)
  BY Zenon, <1>1 DEF Enter
<1>2. CASE ~(overlapped \/ \E v \in Workers \ {w} : Processing(v))
  <2>1. overlapped = FALSE
    BY <1>2
  <2>2. overlapped' = FALSE
    BY Zenon, <1>2 DEF Enter
  <2> QED
    BY <2>1, <2>2
<1> QED
  BY Zenon, <1>1, <1>2

(* Who writes PENDING or EXECUTING finds a job that may be edited.         *)
LEMMA MayEdit ==
  ASSUME IInv, NEW w \in Workers,
         pc[w] \in {"claimed", "request", "upload", "publish", "finish", "write"}
  PROVE  Contract!Editable
BY DEF IInv, SoloInv, Eligible, Contract!Editable, Contract!Unfinished

(* A step of a worker is a step of the contract, or nobody's.              *)
LEMMA ContractByWorker ==
  ASSUME IInv, NEW w \in Workers, Deliver(w) \/ Work(w) \/ Disturb(w)
  PROVE  Contract!Next \/ UNCHANGED Contract!jobVars
<1>0. TypeOK /\ KeyInv /\ RefundInv /\ overlapped \in BOOLEAN
  BY DEF IInv, TypeOK
<1>1. CASE Claim(w)
  <2>1. /\ overlapped' \in {overlapped, TRUE}
        /\ UNCHANGED <<state, audio, public, refund, webhook>>
    BY <1>0, <1>1, EnterContests DEF Claim, row, bucket, outbox
  <2> QED
    BY <2>1 DEF Contract!Next, Contract!Contest, Contract!jobVars
<1>2. ASSUME pc[w] \in {"claimed", "request", "upload", "publish"},
             state' \in {"pending", "executing"},
             overlapped' \in {overlapped, TRUE},
             UNCHANGED <<audio, public, refund, webhook>>
      PROVE  Contract!Next
  BY <1>2, MayEdit DEF Contract!Next, Contract!Attempt
<1>3. CASE CommitExecuting(w)
  BY <1>2, <1>3 DEF CommitExecuting, bucket, outbox
<1>4. CASE StreamFails(w) \/ StoreFails(w)
  BY <1>2, <1>4 DEF StreamFails, StoreFails, CommitPending, bucket, outbox
<1>5. CASE Unexpected(w)
  <2>1. /\ overlapped' \in {overlapped, TRUE}
        /\ UNCHANGED <<public, refund, webhook>>
    BY <1>0, <1>5, EnterContests DEF Unexpected, bucket, outbox
  <2>2. CASE UNCHANGED row
    BY <2>1, <2>2 DEF row, Contract!Next, Contract!Contest, Contract!jobVars
  <2>3. CASE pc[w] \in {"request", "upload", "publish"} /\ CommitPending(w)
    BY <1>2, <2>1, <2>3 DEF CommitPending
  <2> QED
    BY <1>5, <2>2, <2>3 DEF Unexpected
<1>6. CASE Publish(w)
  BY <1>6 DEF Publish, row, outbox, Contract!Next, Contract!Publish
<1>7. CASE Delete(w)
  <2>1. key[w] # audio
    BY <1>0, <1>7 DEF Delete, KeyInv, Keyed
  <2> QED
    BY <1>7, <2>1 DEF Delete, row, outbox, Contract!Next, Contract!Withdraw
<1>8. CASE Finish(w)
  <2>1. key[w] \in public /\ key[w] \in 1..attempts /\ key[w] # audio
    BY <1>0, <1>8 DEF Finish, KeyInv, Keyed
  <2>2. key[w] # 0
    <3>1. attempts \in Nat
      BY <1>0 DEF TypeOK
    <3> QED
      BY <2>1, <3>1
  <2>3. Contract!Editable
    BY <1>8, MayEdit DEF Finish
  <2> QED
    BY <1>8, <2>1, <2>2, <2>3
       DEF Finish, bucket, outbox, Contract!Next, Contract!Succeed
<1>9. CASE Announce(w)
  BY <1>0, <1>9 DEF Announce, KeyInv, NoFile, row, bucket, Contract!Next,
     Contract!Announce
<1>10. CASE SendRefund(w)
  BY <1>10 DEF SendRefund, row, bucket, Contract!Next, Contract!Refund
<1>11. CASE WriteMark(w)
  <2>1. refund /\ Contract!Editable
    BY <1>0, <1>11, MayEdit DEF WriteMark, RefundInv
  <2> QED
    BY <1>11, <2>1 DEF WriteMark, bucket, outbox, Contract!Next, Contract!Fail
<1> QED
  BY ContractStutter, <1>1, <1>3, <1>4, <1>5, <1>6, <1>7, <1>8, <1>9, <1>10,
     <1>11 DEF Work, Disturb

(* Pipeline keeps the contract of a job, for any number of workers,        *)
(* failures, redeliveries and lost workers.                                *)
THEOREM PipelineImplementsContract == Spec => ImplementsContract
<1>1. Init => Contract!Init
  BY DEF Init, NoFile, Contract!Init
<1>2. ASSUME IInv, [Next]_vars
      PROVE  [Contract!Next]_(Contract!jobVars)
  <2>1. CASE CommitSubmit
    <3>1. state = "none"
      BY <1>2, <2>1 DEF IInv, RowInv, CommitSubmit
    <3> QED
      BY <2>1, <3>1 DEF CommitSubmit, bucket, outbox, Contract!Next,
         Contract!Submit
  <2>2. CASE \/ RollbackSubmit \/ Enqueue \/ ReadResult \/ EndRead
             \/ UNCHANGED vars
    BY <2>2 DEF RollbackSubmit, Enqueue, ReadResult, EndRead, vars, row,
       bucket, outbox, Contract!jobVars
  <2> QED
    BY <1>2, <2>1, <2>2, ContractByWorker DEF Next, Quiescent
<1> QED
  BY <1>1, <1>2, Invariance, PTL
     DEF Spec, ImplementsContract, Contract!Spec

-----------------------------------------------------------------------------
(* w owns a copy of the message and will not simply acknowledge it.        *)
Keeps(w) == held[w] /\ pc[w] \notin {"idle", "announce", "ack"}

(* A step of w carries the message on if it puts none of the ready copies  *)
(* away and w keeps its own or gives it back.                              *)
LEMMA StillCarried ==
  ASSUME NEW w, Carried, queue > 0 => queue' > 0,
         \A v \in Workers \ {w} : held'[v] = held[v] /\ pc'[v] = pc[v],
         w \in Workers /\ Keeps(w) => Keeps(w)' \/ queue' > 0
  PROVE  Carried'
<1>1. CASE queue > 0
  BY <1>1 DEF Carried
<1>2. ASSUME NEW v \in Workers, Keeps(v) PROVE Carried'
  <2>1. CASE v = w
    BY <1>2, <2>1 DEF Carried, Keeps
  <2>2. CASE v # w
    <3>1. Keeps(v)'
      BY <1>2, <2>2 DEF Keeps
    <3> QED
      BY <3>1 DEF Carried, Keeps
  <2> QED
    BY <2>1, <2>2
<1> QED
  BY <1>1, <1>2 DEF Carried, Keeps

(* The steps by which a worker goes on, or goes on to fail or to retry.    *)
GoesOn(w) ==
  \/ ClaimLocked(w) \/ Claim(w) \/ CommitExecuting(w) \/ Respond(w)
  \/ Upload(w) \/ Publish(w) \/ Delete(w)
  \/ StreamFails(w) \/ StoreFails(w) \/ DeleteFails(w) \/ AnnounceFails(w)
  \/ Unexpected(w) \/ SendRefundFails(w)

LEMMA GoingOn ==
  ASSUME NEW w \in Workers, GoesOn(w)
  PROVE  /\ queue' = queue /\ held' = held
         /\ \E label \in {"claimed", "request", "upload", "publish", "finish",
                          "cleanup", "retry", "refund", "refund only"} :
              pc' = [pc EXCEPT ![w] = label]
<1> USE DEF GoesOn, broker, Goto
<1>1. CASE ClaimLocked(w) \/ Claim(w) \/ CommitExecuting(w) \/ Respond(w)
             \/ Upload(w) \/ Publish(w) \/ Delete(w)
  BY <1>1 DEF ClaimLocked, RetriedWhenLocked, Claim, CommitExecuting, Respond,
              Upload, Publish, Delete
<1>2. CASE StreamFails(w) \/ StoreFails(w) \/ DeleteFails(w) \/ AnnounceFails(w)
             \/ Unexpected(w) \/ SendRefundFails(w)
  BY <1>2 DEF StreamFails, StoreFails, DeleteFails, AnnounceFails, Unexpected,
              SendRefundFails, RetriedFirst
<1> QED
  BY <1>1, <1>2

(* No step of a worker loses the message of a job that is unfinished, and  *)
(* that it does not finish or refund.                                      *)
LEMMA WorkersCarry ==
  ASSUME Counts, Counts', Flags, RefundInv, state \in Eligible, Carried,
         NEW w \in Workers, Deliver(w) \/ Work(w) \/ Disturb(w)
  PROVE  state' \in Terminal \/ refund' \/ Carried'
<1>1. /\ queue \in Nat /\ queue' \in Nat
      /\ DOMAIN pc = Workers /\ DOMAIN held = Workers
      /\ held[w] \in BOOLEAN
  BY DEF Counts, Flags
<1>2. ASSUME NEW label, pc' = [pc EXCEPT ![w] = label]
      PROVE  pc'[w] = label /\ \A v \in Workers \ {w} : pc'[v] = pc[v]
  BY <1>1, <1>2
<1>3. ASSUME NEW own, held' = [held EXCEPT ![w] = own]
      PROVE  held'[w] = own /\ \A v \in Workers \ {w} : held'[v] = held[v]
  BY <1>1, <1>3
<1>4. CASE Deliver(w)
  <2>1. held'[w] = TRUE /\ pc'[w] = "claim"
    BY <1>1, <1>4 DEF Deliver, Goto
  <2> QED
    BY <2>1 DEF Carried
<1>5. CASE GoesOn(w)
  <2>1. PICK label \in {"claimed", "request", "upload", "publish", "finish",
                        "cleanup", "retry", "refund", "refund only"} :
          pc' = [pc EXCEPT ![w] = label]
    BY <1>5, GoingOn
  <2>2. queue' = queue /\ held' = held
    BY <1>5, GoingOn
  <2>3. Keeps(w) => Keeps(w)'
    BY <1>2, <2>1, <2>2 DEF Keeps
  <2>4. \A v \in Workers \ {w} : held'[v] = held[v] /\ pc'[v] = pc[v]
    BY <1>2, <2>1, <2>2
  <2>5. queue > 0 => queue' > 0
    BY <2>2
  <2>6. Carried'
    BY <2>3, <2>4, <2>5, StillCarried, Zenon
  <2> QED
    BY <2>6
<1>6. CASE ClaimNothing(w)
  BY <1>6 DEF ClaimNothing, Claimable
<1>7. CASE Finish(w) \/ WriteMark(w)
  BY <1>7 DEF Finish, WriteMark, Terminal
<1>8. CASE SendRefund(w)
  BY <1>8 DEF SendRefund
<1>9. CASE ReadMark(w) \/ MarkFails(w)
  BY <1>9 DEF ReadMark, MarkFails, RefundInv, outbox
<1>10. CASE Announce(w)
  <2>1. pc[w] = "announce" /\ pc' = [pc EXCEPT ![w] = "ack"]
        /\ held' = held /\ queue' = queue
    BY <1>10 DEF Announce, Goto, broker
  <2>2. \A v \in Workers \ {w} : held'[v] = held[v] /\ pc'[v] = pc[v]
    BY <1>2, <2>1
  <2>3. Carried'
    BY <1>1, <2>1, <2>2, StillCarried DEF Keeps
  <2> QED
    BY <2>3
<1>11. CASE Ack(w)
  <2>1. pc[w] = "ack" /\ pc' = [pc EXCEPT ![w] = "idle"]
        /\ held' = [held EXCEPT ![w] = FALSE] /\ queue' = queue
    BY <1>11 DEF Ack, Goto
  <2>2. \A v \in Workers \ {w} : held'[v] = held[v] /\ pc'[v] = pc[v]
    BY <1>2, <1>3, <2>1
  <2>3. ~Keeps(w)
    BY <2>1 DEF Keeps
  <2>4. queue > 0 => queue' > 0
    BY <2>1
  <2>5. Carried'
    BY <2>2, <2>3, <2>4, StillCarried, Zenon
  <2> QED
    BY <2>5
<1>12. CASE Retry(w) \/ Redeliver(w)
  <2>1. queue' = queue + 1
    BY <1>12 DEF Retry, Redeliver
  <2> QED
    BY <1>1, <2>1 DEF Carried
<1>13. CASE LoseWorker(w)
  <2>1. /\ queue' = IF held[w] THEN queue + 1 ELSE queue
        /\ held' = [held EXCEPT ![w] = FALSE]
        /\ pc' = [pc EXCEPT ![w] = "idle"]
    BY <1>13 DEF LoseWorker, AckedLate, Goto
  <2>2. CASE held[w]
    BY <1>1, <2>1, <2>2 DEF Carried
  <2>3. CASE ~held[w]
    <3>1. \A v \in Workers \ {w} : held'[v] = held[v] /\ pc'[v] = pc[v]
      BY <1>2, <1>3, <2>1
    <3>2. queue' = queue
      BY <2>1, <2>3
    <3>3. Carried'
      BY <1>1, <2>3, <3>1, <3>2, StillCarried DEF Keeps
    <3> QED
      BY <3>3
  <2> QED
    BY <2>2, <2>3
<1> QED
  BY <1>4, <1>5, <1>6, <1>7, <1>8, <1>9, <1>10, <1>11, <1>12, <1>13
  DEF Work, Disturb, GoesOn

(* The safety half of "a dropped synthesis leaves the job in PENDING for   *)
(* ever": as long as a job is unfinished and not to be refunded, a message *)
(* that exists for it goes on to exist, whatever fails, is retried, is     *)
(* delivered twice or is lost.                                             *)
THEOREM SynthesisIsNotDropped == Spec => SynthesisNotDropped
<1>1. ASSUME IInv, IInv', [Next]_vars, state \in Eligible, Carried
      PROVE  state' \in Terminal \/ refund' \/ Carried'
  <2>1. Counts /\ Flags /\ RefundInv /\ TypeOK'
    BY <1>1, TypeParts DEF IInv
  <2>2. Counts'
    BY <2>1 DEF TypeOK, Counts
  <2>3. ASSUME NEW w \in Workers, Deliver(w) \/ Work(w) \/ Disturb(w)
        PROVE  state' \in Terminal \/ refund' \/ Carried'
    BY <1>1, <2>1, <2>2, <2>3, WorkersCarry
  <2>4. CASE Enqueue
    <3>1. queue' = queue + 1
      BY <2>4 DEF Enqueue
    <3> QED
      BY <2>1, <3>1 DEF Counts, Carried
  <2>5. CASE CommitSubmit \/ RollbackSubmit \/ ReadResult \/ EndRead \/ UNCHANGED vars
    <3>1. queue' = queue /\ held' = held /\ pc' = pc
      BY <2>5 DEF CommitSubmit, RollbackSubmit, ReadResult, EndRead, vars, broker
    <3>2. Carried'
      BY <1>1, <3>1 DEF Carried
    <3> QED
      BY <3>2
  <2> QED
    BY <1>1, <2>3, <2>4, <2>5 DEF Next, Quiescent
<1>2. IInv /\ IInv' /\ [Next]_vars =>
        [(state \in Eligible /\ Carried) =>
           (state' \in Terminal \/ refund' \/ Carried')]_vars
  BY <1>1
<1> QED
  BY <1>2, Invariance, PTL DEF Spec, SynthesisNotDropped

-----------------------------------------------------------------------------
(* What the contract alone says about the file.                            *)
FileInv ==
  /\ audio # NoFile => audio \in public
  /\ state = "success" \/ webhook => audio # NoFile
  /\ state = "failure" => refund

(* Who knows only the contract knows that what clients are told about can  *)
(* be fetched, that FAILURE is refunded, and that both ends are final      *)
(* unless the job was contested: JobContract is not too weak to rely on.   *)
THEOREM ContractIsEnough ==
  Contract!Spec => [](AudioNeverDangles /\ FailureIsRefunded) /\ TerminalIsFinal
<1>1. Contract!Init => FileInv
  BY DEF Contract!Init, FileInv, NoFile
<1>2. FileInv /\ [Contract!Next]_(Contract!jobVars) => FileInv'
  <2>0. SUFFICES ASSUME FileInv, [Contract!Next]_(Contract!jobVars) PROVE FileInv'
    OBVIOUS
  <2> USE <2>0 DEF FileInv
  <2>1. CASE Contract!Submit \/ Contract!Contest \/ Contract!Attempt
    <3>1. audio' = audio /\ public' = public /\ webhook' = webhook
      BY <2>1 DEF Contract!Submit, Contract!Contest, Contract!Attempt
    <3>2. refund' = refund
      BY <2>1 DEF Contract!Submit, Contract!Contest, Contract!Attempt
    <3>3. state' = state \/ state' \notin {"success", "failure"}
      BY <2>1 DEF Contract!Submit, Contract!Contest, Contract!Attempt
    <3> QED
      BY <3>1, <3>2, <3>3, ZenonT(30)
  <2>2. CASE Contract!Publish \/ Contract!Withdraw
    BY <2>2 DEF Contract!Publish, Contract!Withdraw, NoFile
  <2>3. CASE Contract!Succeed
    BY <2>3 DEF Contract!Succeed, NoFile
  <2>4. CASE Contract!Refund \/ Contract!Fail \/ Contract!Announce
    BY <2>4 DEF Contract!Refund, Contract!Fail, Contract!Announce, NoFile
  <2>5. CASE UNCHANGED Contract!jobVars
    BY <2>5 DEF Contract!jobVars
  <2> QED
    BY <2>1, <2>2, <2>3, <2>4, <2>5 DEF Contract!Next
<1>3. FileInv => AudioNeverDangles /\ FailureIsRefunded
  BY DEF FileInv, AudioNeverDangles, FailureIsRefunded
<1>4. [Contract!Next]_(Contract!jobVars) =>
        [(state \in Terminal /\ ~overlapped) => (state' = state)]_vars
  BY DEF Terminal, Contract!Next, Contract!jobVars, Contract!Submit,
     Contract!Contest, Contract!Attempt, Contract!Publish, Contract!Withdraw,
     Contract!Succeed, Contract!Refund, Contract!Fail, Contract!Announce,
     Contract!Editable, Contract!Unfinished
<1> QED
  BY <1>1, <1>2, <1>3, <1>4, PTL DEF Contract!Spec, TerminalIsFinal
=============================================================================
