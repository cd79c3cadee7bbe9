---------------------------- MODULE SopranoProofs ----------------------------
(***************************************************************************)
(* Proofs about Soprano, for any set of requests and any bound on chunks.  *)
(***************************************************************************)
EXTENDS Soprano, SequenceTheorems, TLAPS

(* The waiters are waiting, each of them once.                             *)
QueueInv ==
  /\ \A i \in 1..Len(waiters) : pc[waiters[i]] = "waiting"
  /\ \A i, j \in 1..Len(waiters) : waiters[i] = waiters[j] => i = j

(* A thread runs for a request that awaits it or for one that is gone.     *)
ThreadInv == \A r \in thread : pc[r] \in {"compute", "gone"}

(* What was yielded, at each place.                                        *)
SentInv ==
  \A r \in Requests :
    /\ pc[r] \in {"yield", "compute"} => sent[r] \in 1..(1 + total[r])
    /\ pc[r] = "complete" => sent[r] = 1 + total[r]

IInv == TypeOK /\ QueueInv /\ ThreadInv /\ SentInv

-----------------------------------------------------------------------------
(* A sequence without its i-th element.                                    *)
LEMMA RemoveFacts ==
  ASSUME NEW S, NEW s \in Seq(S), NEW i \in 1..Len(s)
  PROVE  /\ RemoveAt(s, i) \in Seq(S)
         /\ Len(RemoveAt(s, i)) = Len(s) - 1
         /\ \A j \in 1..(Len(s) - 1) :
              RemoveAt(s, i)[j] = IF j < i THEN s[j] ELSE s[j + 1]
<1> DEFINE a == SubSeq(s, 1, i - 1)
           b == SubSeq(s, i + 1, Len(s))
<1>0. Len(s) \in Nat /\ i \in Nat
  OBVIOUS
<1>1. /\ a \in Seq(S) /\ Len(a) = i - 1
      /\ \A j \in 1..(i - 1) : a[j] = s[j]
  <2>1. \A j \in 1..(i - 1) : s[j] \in S
    BY <1>0
  <2> QED
    BY <1>0, <2>1, SubSeqProperties
<1>2. /\ b \in Seq(S) /\ Len(b) = Len(s) - i
      /\ \A j \in 1..(Len(s) - i) : b[j] = s[i + j]
  <2>1. \A j \in (i + 1)..Len(s) : s[j] \in S
    BY <1>0
  <2> QED
    BY <1>0, <2>1, SubSeqProperties
<1>3. RemoveAt(s, i) = a \o b
  BY DEF RemoveAt
<1> HIDE DEF a, b
<1>4. /\ a \o b \in Seq(S)
      /\ Len(a \o b) = Len(a) + Len(b)
      /\ \A j \in 1..(Len(a) + Len(b)) :
           (a \o b)[j] = IF j <= Len(a) THEN a[j] ELSE b[j - Len(a)]
  BY <1>1, <1>2, ConcatProperties
<1>5. ASSUME NEW j \in 1..(Len(s) - 1)
      PROVE  (a \o b)[j] = IF j < i THEN s[j] ELSE s[j + 1]
  <2>1. j \in 1..(Len(a) + Len(b))
    BY <1>0, <1>1, <1>2
  <2>2. CASE j < i
    BY <1>0, <1>1, <1>4, <2>1, <2>2
  <2>3. CASE ~(j < i)
    <3>1. (a \o b)[j] = b[j - (i - 1)]
      BY <1>0, <1>1, <1>4, <2>1, <2>3
    <3>2. j - (i - 1) \in 1..(Len(s) - i) /\ i + (j - (i - 1)) = j + 1
      BY <1>0, <2>3
    <3> QED
      BY <1>2, <2>3, <3>1, <3>2
  <2> QED
    BY <2>2, <2>3
<1> QED
  BY <1>0, <1>1, <1>2, <1>3, <1>4, <1>5

(* What leaving the block does: to the request, to the first waiter, and   *)
(* to no other request.                                                    *)
LEMMA ExitFacts ==
  ASSUME TypeOK, QueueInv, NEW r \in Requests, pc[r] \in Inside,
         NEW label \in Over, Exit(r, label)
  PROVE  /\ pc' \in [Requests -> {"new", "waiting"} \cup Inside \cup Over]
         /\ permit' \in Requests \cup {Free}
         /\ \A q \in Requests : permit' = q <=> pc'[q] \in Inside
         /\ waiters' \in Seq(Requests)
         /\ QueueInv'
         /\ pc'[r] = label
         /\ \A q \in Requests \ {r} :
              pc'[q] = pc[q] \/ (pc[q] = "waiting" /\ pc'[q] = "granted")
<1> DEFINE Labels == {"new", "waiting"} \cup Inside \cup Over
<1>a. /\ pc \in [Requests -> Labels]
      /\ \A q \in Requests : permit = q <=> pc[q] \in Inside
      /\ waiters \in Seq(Requests)
      /\ label \in Labels /\ label \notin Inside /\ label # "waiting"
  BY DEF TypeOK, Inside, Over
<1>b. /\ "granted" \in Labels /\ "granted" \in Inside /\ "granted" # "waiting"
      /\ "waiting" \notin Inside
  BY DEF Inside
<1>c. \A q \in Requests \ {r} : pc[q] \notin Inside
  BY <1>a
<1> HIDE DEF Labels
<1>1. CASE waiters = <<>>
  <2>1. permit' = Free /\ waiters' = <<>> /\ pc' = [pc EXCEPT ![r] = label]
    BY <1>1 DEF Exit, Goto
  <2>2. pc'[r] = label /\ \A q \in Requests \ {r} : pc'[q] = pc[q]
    BY <1>a, <2>1
  <2>3. pc' \in [Requests -> Labels]
    BY <1>a, <2>1
  <2>4. \A q \in Requests : pc'[q] \notin Inside
    BY <1>a, <1>c, <2>2
  <2>5. \A q \in Requests : permit' # q
    BY <2>1, SopranoAssumption
  <2>6. QueueInv' /\ waiters' \in Seq(Requests)
    BY <2>1 DEF QueueInv
  <2>7. \A q \in Requests : permit' = q <=> pc'[q] \in Inside
    BY <2>4, <2>5
  <2>8. permit' \in Requests \cup {Free}
    BY <2>1
  <2> QED
    BY <2>2, <2>3, <2>6, <2>7, <2>8 DEF Labels
<1>2. CASE waiters # <<>>
  <2> DEFINE h == Head(waiters)
  <2>1. /\ h \in Requests /\ h = waiters[1] /\ Len(waiters) \in Nat \ {0}
        /\ Tail(waiters) \in Seq(Requests)
        /\ Len(Tail(waiters)) = Len(waiters) - 1
        /\ \A i \in 1..(Len(waiters) - 1) : Tail(waiters)[i] = waiters[i + 1]
    BY <1>2, <1>a, HeadTailProperties
  <2>2. pc[h] = "waiting" /\ h # r
    BY <1>b, <2>1 DEF QueueInv
  <2>3. /\ permit' = h
        /\ waiters' = Tail(waiters)
        /\ pc' = [pc EXCEPT ![r] = label, ![h] = "granted"]
    BY <1>2 DEF Exit
  <2> HIDE DEF h
  <2>4. pc' \in [Requests -> Labels]
    BY <1>a, <1>b, <2>1, <2>3
  <2>5. /\ pc'[r] = label /\ pc'[h] = "granted"
        /\ \A q \in Requests \ {r, h} : pc'[q] = pc[q]
    BY <1>a, <2>1, <2>2, <2>3
  <2>6. ASSUME NEW q \in Requests PROVE permit' = q <=> pc'[q] \in Inside
    <3>1. CASE q = h
      BY <1>b, <2>3, <2>5, <3>1
    <3>2. CASE q = r
      BY <1>a, <2>2, <2>3, <2>5, <3>2
    <3>3. CASE q \notin {r, h}
      BY <1>c, <2>3, <2>5, <3>3
    <3> QED
      BY <3>1, <3>2, <3>3
  <2>7. QueueInv'
    <3>1. ASSUME NEW i \in 1..Len(waiters')
          PROVE  /\ i + 1 \in 1..Len(waiters)
                 /\ waiters'[i] = waiters[i + 1]
                 /\ waiters[i + 1] \in Requests \ {r, h}
                 /\ pc[waiters[i + 1]] = "waiting"
      <4>1. waiters'[i] = waiters[i + 1] /\ i + 1 \in 1..Len(waiters)
        BY <2>1, <2>3
      <4>2. waiters[i + 1] # h
        <5>1. 1 \in 1..Len(waiters) /\ i + 1 # 1
          BY <2>1, <4>1
        <5> QED
          BY <2>1, <4>1, <5>1 DEF QueueInv
      <4>3. pc[waiters[i + 1]] = "waiting" /\ waiters[i + 1] \in Requests
        BY <1>a, <4>1 DEF QueueInv
      <4>4. waiters[i + 1] # r
        BY <1>b, <4>3
      <4> QED
        BY <4>1, <4>2, <4>3, <4>4
    <3>2. \A i \in 1..Len(waiters') : pc'[waiters'[i]] = "waiting"
      BY <2>5, <3>1
    <3>3. ASSUME NEW i \in 1..Len(waiters'), NEW j \in 1..Len(waiters'),
                 waiters'[i] = waiters'[j]
          PROVE  i = j
      <4>1. waiters[i + 1] = waiters[j + 1]
        BY <3>1, <3>3
      <4>2. i + 1 = j + 1
        BY <3>1, <4>1 DEF QueueInv
      <4> QED
        BY <4>2
    <3> QED
      BY <3>2, <3>3 DEF QueueInv
  <2>8. ASSUME NEW q \in Requests \ {r}
        PROVE  pc'[q] = pc[q] \/ (pc[q] = "waiting" /\ pc'[q] = "granted")
    <3>1. CASE q = h
      BY <2>2, <2>5, <3>1
    <3>2. CASE q # h
      BY <2>5, <3>2
    <3> QED
      BY <3>1, <3>2
  <2>9. permit' \in Requests \cup {Free} /\ waiters' \in Seq(Requests)
    BY <2>1, <2>3
  <2> QED
    BY <2>4, <2>5, <2>6, <2>7, <2>8, <2>9 DEF Labels
<1> QED
  BY <1>1, <1>2

(* The initial state satisfies the invariant.                              *)
LEMMA InitHolds == Init => IInv
  BY SopranoAssumption
  DEF Init, IInv, TypeOK, QueueInv, ThreadInv, SentInv, Inside, Over

(* The queue of waiters after one joins it and after one leaves it.        *)
LEMMA WaitQueue ==
  ASSUME TypeOK, QueueInv, NEW r \in Requests, Wait(r)
  PROVE  waiters' \in Seq(Requests) /\ QueueInv'
<1>1. /\ pc \in [Requests -> {"new", "waiting"} \cup Inside \cup Over]
      /\ waiters \in Seq(Requests) /\ Len(waiters) \in Nat
  BY DEF TypeOK
<1>2. pc[r] = "new" /\ pc' = [pc EXCEPT ![r] = "waiting"]
      /\ waiters' = Append(waiters, r)
  BY DEF Wait, Goto
<1>3. /\ waiters' \in Seq(Requests) /\ Len(waiters') = Len(waiters) + 1
      /\ waiters'[Len(waiters) + 1] = r
      /\ \A i \in 1..Len(waiters) : waiters'[i] = waiters[i]
  BY <1>1, <1>2, AppendProperties
<1>4. \A i \in 1..Len(waiters) : waiters[i] # r /\ waiters[i] \in Requests
  BY <1>1, <1>2 DEF QueueInv
<1>5. \A i \in 1..Len(waiters') : i \in 1..Len(waiters) \/ i = Len(waiters) + 1
  BY <1>1, <1>3
<1>6. ASSUME NEW i \in 1..Len(waiters') PROVE pc'[waiters'[i]] = "waiting"
  <2>1. CASE i \in 1..Len(waiters)
    BY <1>1, <1>2, <1>3, <1>4, <2>1 DEF QueueInv
  <2>2. CASE i = Len(waiters) + 1
    BY <1>1, <1>2, <1>3, <2>2
  <2> QED
    BY <1>5, <2>1, <2>2
<1>7. ASSUME NEW i \in 1..Len(waiters'), NEW j \in 1..Len(waiters'),
             waiters'[i] = waiters'[j]
      PROVE  i = j
  <2>1. CASE i \in 1..Len(waiters) /\ j \in 1..Len(waiters)
    BY <1>3, <1>7, <2>1 DEF QueueInv
  <2>2. CASE i = Len(waiters) + 1 \/ j = Len(waiters) + 1
    BY <1>3, <1>4, <1>5, <1>7, <2>2
  <2> QED
    BY <1>5, <2>1, <2>2
<1> QED
  BY <1>3, <1>6, <1>7 DEF QueueInv

LEMMA LeaveQueue ==
  ASSUME TypeOK, QueueInv, NEW r \in Requests, CancelWaiting(r)
  PROVE  waiters' \in Seq(Requests) /\ QueueInv'
<1>1. /\ pc \in [Requests -> {"new", "waiting"} \cup Inside \cup Over]
      /\ waiters \in Seq(Requests) /\ Len(waiters) \in Nat
  BY DEF TypeOK
<1>2. pc' = [pc EXCEPT ![r] = "gone"]
  BY DEF CancelWaiting, Goto
<1>3. PICK i \in 1..Len(waiters) :
        waiters[i] = r /\ waiters' = RemoveAt(waiters, i)
  BY DEF CancelWaiting
<1>4. /\ waiters' \in Seq(Requests) /\ Len(waiters') = Len(waiters) - 1
      /\ \A k \in 1..(Len(waiters) - 1) :
           waiters'[k] = IF k < i THEN waiters[k] ELSE waiters[k + 1]
  BY <1>1, <1>3, RemoveFacts
<1> DEFINE from(k) == IF k < i THEN k ELSE k + 1
<1>5. ASSUME NEW k \in 1..Len(waiters')
      PROVE  /\ from(k) \in 1..Len(waiters) /\ from(k) # i
             /\ waiters'[k] = waiters[from(k)]
  BY <1>1, <1>4
<1>6. \A k, m \in 1..Len(waiters') : from(k) = from(m) => k = m
  BY <1>1, <1>4
<1> HIDE DEF from
<1>7. ASSUME NEW k \in 1..Len(waiters') PROVE pc'[waiters'[k]] = "waiting"
  <2>1. waiters[from(k)] # r
    BY <1>3, <1>5 DEF QueueInv
  <2>2. pc[waiters[from(k)]] = "waiting"
    BY <1>5 DEF QueueInv
  <2>3. waiters[from(k)] \in Requests
    BY <1>1, <1>5
  <2> QED
    BY <1>1, <1>2, <1>5, <2>1, <2>2, <2>3
<1>8. ASSUME NEW k \in 1..Len(waiters'), NEW m \in 1..Len(waiters'),
             waiters'[k] = waiters'[m]
      PROVE  k = m
  <2>1. from(k) = from(m)
    BY <1>5, <1>8 DEF QueueInv
  <2> QED
    BY <1>6, <2>1
<1> QED
  BY <1>4, <1>7, <1>8 DEF QueueInv

(* Every action preserves the invariant.                                   *)
LEMMA InvStep == IInv /\ [Next]_vars => IInv'
<1>0. SUFFICES ASSUME TypeOK, QueueInv, ThreadInv, SentInv, [Next]_vars PROVE IInv'
  BY DEF IInv
<1> USE <1>0, SopranoAssumption
        DEF IInv, TypeOK, QueueInv, ThreadInv, SentInv, Inside, Over
<1>1. ASSUME NEW r \in Requests, Reject(r) PROVE IInv'
  BY <1>1 DEF Reject, Goto
<1>2. ASSUME NEW r \in Requests, Enter(r) PROVE IInv'
  BY <1>2 DEF Enter, Available, Goto
<1>3. ASSUME NEW r \in Requests, Wait(r) PROVE IInv'
  <2>1. QueueInv' /\ waiters' \in Seq(Requests)
    BY <1>3, WaitQueue
  <2>2. TypeOK'
    BY <1>3, <2>1 DEF Wait, Goto
  <2>3. ThreadInv' /\ SentInv'
    BY <1>3 DEF Wait, Goto
  <2> QED
    BY <2>1, <2>2, <2>3
<1>4. ASSUME NEW r \in Requests, YieldHeader(r) PROVE IInv'
  BY <1>4 DEF YieldHeader, Goto
<1>5. ASSUME NEW r \in Requests, Compute(r) PROVE IInv'
  BY <1>5 DEF Compute, Goto
<1>6. ASSUME NEW r \in Requests, YieldChunk(r) PROVE IInv'
  <2>1. sent[r] # 1 + total[r] /\ sent'[r] = sent[r] + 1
    BY <1>6 DEF YieldChunk, Exhausted
  <2>2. sent[r] \in 1..(1 + total[r]) /\ total[r] \in 0..MaxChunks
    BY <1>6 DEF YieldChunk
  <2>3. sent'[r] \in 1..(1 + total[r]) /\ sent'[r] \in 0..(1 + MaxChunks)
    BY <2>1, <2>2
  <2>4. TypeOK'
    BY <1>6, <2>3 DEF YieldChunk, Goto
  <2>5. QueueInv' /\ ThreadInv'
    BY <1>6 DEF YieldChunk, Goto
  <2>6. SentInv'
    BY <1>6, <2>3 DEF YieldChunk, Goto
  <2> QED
    BY <2>4, <2>5, <2>6
<1>7. ASSUME NEW r \in Requests, Finish(r) PROVE IInv'
  BY <1>7, ExitFacts DEF Finish, Exhausted
<1>8. ASSUME NEW r \in Requests, InferenceFails(r) PROVE IInv'
  BY <1>8, ExitFacts DEF InferenceFails, FailureUnwinds
<1>9. ASSUME NEW r \in Requests, CancelWaiting(r) PROVE IInv'
  <2>1. QueueInv' /\ waiters' \in Seq(Requests)
    BY <1>9, LeaveQueue
  <2>2. TypeOK'
    BY <1>9, <2>1 DEF CancelWaiting, Goto
  <2>3. ThreadInv' /\ SentInv'
    BY <1>9 DEF CancelWaiting, Goto
  <2> QED
    BY <2>1, <2>2, <2>3
<1>10. ASSUME NEW r \in Requests, CancelRunning(r) PROVE IInv'
  BY <1>10, ExitFacts DEF CancelRunning, Interrupted
<1>11. ASSUME NEW r \in Requests, CancelSending(r) PROVE IInv'
  <2>1. TypeOK'
    BY <1>11 DEF CancelSending, Goto
  <2>2. QueueInv' /\ ThreadInv' /\ SentInv'
    BY <1>11 DEF CancelSending, Goto
  <2> QED
    BY <2>1, <2>2
<1>12. ASSUME NEW r \in Requests, Finalise(r) PROVE IInv'
  BY <1>12, ExitFacts DEF Finalise
<1>13. ASSUME NEW r \in Requests, Discard(r) PROVE IInv'
  BY <1>13 DEF Discard
<1>14. CASE UNCHANGED vars
  BY <1>14 DEF vars
<1> QED
  BY <1>0, <1>1, <1>2, <1>3, <1>4, <1>5, <1>6, <1>7, <1>8, <1>9, <1>10, <1>11,
     <1>12, <1>13, <1>14 DEF Next, Serve, Disconnect, Quiescent

-----------------------------------------------------------------------------
(* The inductive invariant holds in every reachable state.                 *)
THEOREM Invariance == Spec => []IInv
  BY InitHolds, InvStep, PTL DEF Spec

(* Type correctness, and the permit is with the one request in the block.  *)
THEOREM TypeCorrect == Spec => []TypeOK
<1>1. IInv => TypeOK
  BY DEF IInv
<1> QED
  BY <1>1, Invariance, PTL

(* A response that ends properly carried the whole audio.                  *)
THEOREM CompleteIsWhole == Spec => []NoSilentTruncation
<1>1. IInv => NoSilentTruncation
  BY DEF IInv, SentInv, NoSilentTruncation
<1> QED
  BY <1>1, Invariance, PTL

(* Two inferences overlap only when one of them is for a client that left. *)
THEOREM OnlyStraysOverlap == Spec => []OverlapsAreStray
<1>1. IInv => OverlapsAreStray
  BY DEF IInv, TypeOK, ThreadInv, OverlapsAreStray, Inside
<1> QED
  BY <1>1, Invariance, PTL

-----------------------------------------------------------------------------
(* How far a request is from its end, at each place.                       *)
LEMMA StepsFacts ==
  ASSUME TypeOK, NEW r \in Requests
  PROVE  /\ StepsLeft(r) \in Int
         /\ pc[r] = "new" => StepsLeft(r) = 2 * MaxChunks + 6
         /\ pc[r] = "waiting" => StepsLeft(r) = 2 * total[r] + 5
         /\ pc[r] = "granted" => StepsLeft(r) = 2 * total[r] + 4
         /\ pc[r] = "yield" => StepsLeft(r) = 2 * (1 + total[r] - sent[r]) + 3
         /\ pc[r] = "compute" => StepsLeft(r) = 2 * (1 + total[r] - sent[r]) + 2
         /\ pc[r] = "orphan" => StepsLeft(r) = 1
         /\ pc[r] \in Over => StepsLeft(r) = IF r \in thread THEN 1 ELSE 0
<1>1. /\ pc[r] \in {"new", "waiting"} \cup Inside \cup Over
      /\ total[r] \in Int /\ sent[r] \in Int /\ MaxChunks \in Int
  BY SopranoAssumption DEF TypeOK
<1> DEFINE far == 2 * MaxChunks + 6
           todo == 2 * total[r]
           left == 2 * (1 + total[r] - sent[r])
<1>2. far \in Int /\ todo \in Int /\ left \in Int
  BY <1>1
<1>3. StepsLeft(r) =
        IF pc[r] = "new" THEN far
        ELSE IF pc[r] = "waiting" THEN todo + 5
        ELSE IF pc[r] = "granted" THEN todo + 4
        ELSE IF pc[r] = "yield"   THEN left + 3
        ELSE IF pc[r] = "compute" THEN left + 2
        ELSE IF pc[r] = "orphan" \/ r \in thread THEN 1
        ELSE 0
  BY Zenon DEF StepsLeft, ChunksLeft
<1> HIDE DEF far, todo, left
<1>4. StepsLeft(r) \in Int
  BY <1>2, <1>3
<1>5. /\ pc[r] = "new" => StepsLeft(r) = far
      /\ pc[r] = "waiting" => StepsLeft(r) = todo + 5
      /\ pc[r] = "granted" => StepsLeft(r) = todo + 4
      /\ pc[r] = "yield" => StepsLeft(r) = left + 3
      /\ pc[r] = "compute" => StepsLeft(r) = left + 2
      /\ pc[r] = "orphan" => StepsLeft(r) = 1
      /\ pc[r] \in Over => StepsLeft(r) = IF r \in thread THEN 1 ELSE 0
  BY <1>3 DEF Over
<1> QED
  BY <1>4, <1>5 DEF far, todo, left

LEMMA NextStepsFacts ==
  ASSUME TypeOK', NEW r \in Requests
  PROVE  /\ StepsLeft(r)' \in Int
         /\ pc'[r] = "new" => StepsLeft(r)' = 2 * MaxChunks + 6
         /\ pc'[r] = "waiting" => StepsLeft(r)' = 2 * total'[r] + 5
         /\ pc'[r] = "granted" => StepsLeft(r)' = 2 * total'[r] + 4
         /\ pc'[r] = "yield" => StepsLeft(r)' = 2 * (1 + total'[r] - sent'[r]) + 3
         /\ pc'[r] = "compute" => StepsLeft(r)' = 2 * (1 + total'[r] - sent'[r]) + 2
         /\ pc'[r] = "orphan" => StepsLeft(r)' = 1
         /\ pc'[r] \in Over => StepsLeft(r)' = IF r \in thread' THEN 1 ELSE 0
<1>1. /\ pc'[r] \in {"new", "waiting"} \cup Inside \cup Over
      /\ total'[r] \in Int /\ sent'[r] \in Int /\ MaxChunks \in Int
  BY SopranoAssumption DEF TypeOK
<1> DEFINE far == 2 * MaxChunks + 6
           todo == 2 * total'[r]
           left == 2 * (1 + total'[r] - sent'[r])
<1>2. far \in Int /\ todo \in Int /\ left \in Int
  BY <1>1
<1>3. StepsLeft(r)' =
        IF pc'[r] = "new" THEN far
        ELSE IF pc'[r] = "waiting" THEN todo + 5
        ELSE IF pc'[r] = "granted" THEN todo + 4
        ELSE IF pc'[r] = "yield"   THEN left + 3
        ELSE IF pc'[r] = "compute" THEN left + 2
        ELSE IF pc'[r] = "orphan" \/ r \in thread' THEN 1
        ELSE 0
  BY Zenon DEF StepsLeft, ChunksLeft
<1> HIDE DEF far, todo, left
<1>4. StepsLeft(r)' \in Int
  BY <1>2, <1>3
<1>5. /\ pc'[r] = "new" => StepsLeft(r)' = far
      /\ pc'[r] = "waiting" => StepsLeft(r)' = todo + 5
      /\ pc'[r] = "granted" => StepsLeft(r)' = todo + 4
      /\ pc'[r] = "yield" => StepsLeft(r)' = left + 3
      /\ pc'[r] = "compute" => StepsLeft(r)' = left + 2
      /\ pc'[r] = "orphan" => StepsLeft(r)' = 1
      /\ pc'[r] \in Over => StepsLeft(r)' = IF r \in thread' THEN 1 ELSE 0
  BY <1>3 DEF Over
<1> QED
  BY <1>4, <1>5 DEF far, todo, left

(* A step of another request leaves q where it is, or grants it the permit *)
(* it waits for.                                                           *)
NotSetBack(q) ==
  /\ pc'[q] = pc[q] \/ (pc[q] = "waiting" /\ pc'[q] = "granted")
  /\ total'[q] = total[q]
  /\ sent'[q] = sent[q]
  /\ q \in thread' <=> q \in thread

LEMMA OthersAreNotSetBack ==
  ASSUME TypeOK, TypeOK', NEW q \in Requests, NotSetBack(q)
  PROVE  StepsLeft(q)' <= StepsLeft(q)
<1>1. CASE pc'[q] = pc[q]
  <2>1. StepsLeft(q)' = StepsLeft(q)
    BY <1>1 DEF NotSetBack, StepsLeft, ChunksLeft
  <2> QED
    BY <2>1, StepsFacts
<1>2. CASE pc[q] = "waiting" /\ pc'[q] = "granted"
  <2>1. total[q] \in Int /\ total'[q] = total[q]
    BY SopranoAssumption DEF TypeOK, NotSetBack
  <2> QED
    BY <1>2, <2>1, StepsFacts, NextStepsFacts
<1> QED
  BY <1>1, <1>2 DEF NotSetBack

(* What a step of r alone changes, by the way the step ends.               *)
LEMMA ExitSetsNobodyBack ==
  ASSUME TypeOK, QueueInv, NEW r \in Requests, pc[r] \in Inside,
         NEW label \in Over, Exit(r, label),
         thread' \in {thread, thread \ {r}}, UNCHANGED <<total, sent>>
  PROVE  \A q \in Requests \ {r} : NotSetBack(q)
  BY ExitFacts DEF NotSetBack

(* Every step of a request brings it nearer to its end, and no other       *)
(* request farther from its own.                                           *)
Advances(r) ==
  /\ StepsLeft(r)' < StepsLeft(r)
  /\ \A q \in Requests \ {r} : NotSetBack(q)

LEMMA RequestAdvances ==
  ASSUME IInv, IInv', NEW r \in Requests,
         \/ Reject(r) \/ Enter(r) \/ Wait(r)
         \/ Serve(r) \/ InferenceFails(r) \/ Disconnect(r)
  PROVE  Advances(r)
<1>a. TypeOK /\ TypeOK' /\ QueueInv /\ ThreadInv /\ SentInv
  BY DEF IInv
<1>b. /\ pc \in [Requests -> {"new", "waiting"} \cup Inside \cup Over]
      /\ total \in [Requests -> 0..MaxChunks]
      /\ sent \in [Requests -> 0..(1 + MaxChunks)]
      /\ MaxChunks \in Nat
  BY <1>a, SopranoAssumption DEF TypeOK
<1>c. total[r] \in Nat /\ sent[r] \in Nat /\ total[r] <= MaxChunks
  BY <1>b
<1>d. /\ pc[r] = "compute" => StepsLeft(r) >= 2
      /\ pc[r] = "yield" => StepsLeft(r) >= 3
      /\ pc[r] \in {"waiting", "granted", "new"} => StepsLeft(r) >= 4
  BY <1>a, <1>b, <1>c, StepsFacts DEF SentInv
<1>e. pc'[r] \in Over => StepsLeft(r)' = IF r \in thread' THEN 1 ELSE 0
  BY <1>a, NextStepsFacts
<1>f. r \in thread => pc[r] \in {"compute", "gone"}
  BY <1>a DEF ThreadInv
<1>1. CASE Reject(r)
  <2>1. pc[r] = "new" /\ pc'[r] \in Over
    BY <1>1, <1>b DEF Reject, Goto, Over
  <2>2. \A q \in Requests \ {r} : NotSetBack(q)
    BY <1>1, <1>b DEF Reject, Goto, NotSetBack
  <2> QED
    BY <1>a, <1>d, <1>e, <2>1, <2>2, StepsFacts DEF Advances
<1>2. CASE Enter(r)
  <2>1. pc[r] = "new" /\ pc'[r] = "granted" /\ total'[r] \in 0..MaxChunks
    BY <1>2, <1>b DEF Enter, Goto
  <2>2. \A q \in Requests \ {r} : NotSetBack(q)
    BY <1>2, <1>b DEF Enter, Goto, NotSetBack
  <2> QED
    BY <1>a, <1>b, <2>1, <2>2, StepsFacts, NextStepsFacts DEF Advances
<1>3. CASE Wait(r)
  <2>1. pc[r] = "new" /\ pc'[r] = "waiting" /\ total'[r] \in 0..MaxChunks
    BY <1>3, <1>b DEF Wait, Goto
  <2>2. \A q \in Requests \ {r} : NotSetBack(q)
    BY <1>3, <1>b DEF Wait, Goto, NotSetBack
  <2> QED
    BY <1>a, <1>b, <2>1, <2>2, StepsFacts, NextStepsFacts DEF Advances
<1>4. CASE YieldHeader(r)
  <2>1. /\ pc[r] = "granted" /\ pc'[r] = "yield"
        /\ total'[r] = total[r] /\ sent'[r] = 1
    BY <1>4, <1>b DEF YieldHeader, Goto
  <2>2. \A q \in Requests \ {r} : NotSetBack(q)
    BY <1>4, <1>b DEF YieldHeader, Goto, NotSetBack
  <2> QED
    BY <1>a, <1>c, <2>1, <2>2, StepsFacts, NextStepsFacts DEF Advances
<1>5. CASE Compute(r)
  <2>1. /\ pc[r] = "yield" /\ pc'[r] = "compute"
        /\ total'[r] = total[r] /\ sent'[r] = sent[r]
    BY <1>5, <1>b DEF Compute, Goto
  <2>2. \A q \in Requests \ {r} : NotSetBack(q)
    BY <1>5, <1>b DEF Compute, Goto, NotSetBack
  <2> QED
    BY <1>a, <1>c, <2>1, <2>2, StepsFacts, NextStepsFacts DEF Advances
<1>6. CASE YieldChunk(r)
  <2>1. /\ pc[r] = "compute" /\ pc'[r] = "yield"
        /\ total'[r] = total[r] /\ sent'[r] = sent[r] + 1
    BY <1>6, <1>b DEF YieldChunk, Goto
  <2>2. \A q \in Requests \ {r} : NotSetBack(q)
    BY <1>6, <1>b DEF YieldChunk, Goto, NotSetBack
  <2> QED
    BY <1>a, <1>c, <2>1, <2>2, StepsFacts, NextStepsFacts DEF Advances
<1>7. CASE Finish(r)
  <2>1. /\ pc[r] = "compute" /\ Exit(r, "complete")
        /\ thread' = thread \ {r} /\ UNCHANGED <<total, sent>>
    BY <1>7 DEF Finish
  <2>2. pc'[r] \in Over /\ \A q \in Requests \ {r} : NotSetBack(q)
    BY <1>a, <2>1, ExitFacts, ExitSetsNobodyBack DEF Inside, Over
  <2> QED
    BY <1>a, <1>d, <1>e, <2>1, <2>2, StepsFacts DEF Advances
<1>8. CASE InferenceFails(r)
  <2>1. /\ pc[r] = "compute" /\ Exit(r, "failed")
        /\ thread' = thread \ {r} /\ UNCHANGED <<total, sent>>
    BY <1>8 DEF InferenceFails, FailureUnwinds
  <2>2. pc'[r] \in Over /\ \A q \in Requests \ {r} : NotSetBack(q)
    BY <1>a, <2>1, ExitFacts, ExitSetsNobodyBack DEF Inside, Over
  <2> QED
    BY <1>a, <1>d, <1>e, <2>1, <2>2, StepsFacts DEF Advances
<1>9. CASE CancelWaiting(r)
  <2>1. pc[r] = "waiting" /\ pc'[r] \in Over
    BY <1>9, <1>b DEF CancelWaiting, Goto, Over
  <2>2. \A q \in Requests \ {r} : NotSetBack(q)
    BY <1>9, <1>b DEF CancelWaiting, Goto, NotSetBack
  <2> QED
    BY <1>a, <1>d, <1>e, <2>1, <2>2, StepsFacts DEF Advances
<1>10. CASE CancelRunning(r)
  <2>1. /\ pc[r] \in {"granted", "compute"} /\ Exit(r, "gone")
        /\ thread' = thread /\ UNCHANGED <<total, sent>>
    BY <1>10 DEF CancelRunning, Interrupted
  <2>2. pc'[r] \in Over /\ \A q \in Requests \ {r} : NotSetBack(q)
    BY <1>a, <2>1, ExitFacts, ExitSetsNobodyBack DEF Inside, Over
  <2> QED
    BY <1>a, <1>d, <1>e, <2>1, <2>2, StepsFacts DEF Advances
<1>11. CASE CancelSending(r)
  <2>1. pc[r] = "yield" /\ pc'[r] = "orphan"
    BY <1>11, <1>b DEF CancelSending, Goto
  <2>2. \A q \in Requests \ {r} : NotSetBack(q)
    BY <1>11, <1>b DEF CancelSending, Goto, NotSetBack
  <2> QED
    BY <1>a, <1>d, <2>1, <2>2, StepsFacts, NextStepsFacts DEF Advances
<1>12. CASE Finalise(r)
  <2>1. /\ pc[r] = "orphan" /\ Exit(r, "gone")
        /\ thread' = thread /\ UNCHANGED <<total, sent>>
    BY <1>12 DEF Finalise
  <2>2. pc'[r] \in Over /\ \A q \in Requests \ {r} : NotSetBack(q)
    BY <1>a, <2>1, ExitFacts, ExitSetsNobodyBack DEF Inside, Over
  <2> QED
    BY <1>a, <1>e, <1>f, <2>1, <2>2, StepsFacts DEF Advances
<1>13. CASE Discard(r)
  <2>1. pc[r] \in Over /\ pc'[r] \in Over /\ r \in thread /\ r \notin thread'
    BY <1>13 DEF Discard, Over
  <2>2. \A q \in Requests \ {r} : NotSetBack(q)
    BY <1>13 DEF Discard, NotSetBack
  <2> QED
    BY <1>a, <1>e, <2>1, <2>2, StepsFacts DEF Advances
<1> QED
  BY <1>1, <1>2, <1>3, <1>4, <1>5, <1>6, <1>7, <1>8, <1>9, <1>10, <1>11, <1>12,
     <1>13 DEF Serve, Disconnect

(* No step brings a request farther from its end, and every step that      *)
(* changes anything brings one nearer: requests cannot go on for ever,     *)
(* whatever fails and whoever goes away, for any number of requests and    *)
(* chunks (endpoint.py lines 110-147).                                     *)
THEOREM RequestsAdvance == Spec => EveryStepAdvances
<1>1. ASSUME IInv, IInv', [Next]_vars
      PROVE  [/\ \A r \in Requests : StepsLeft(r)' <= StepsLeft(r)
              /\ \E r \in Requests : StepsLeft(r)' < StepsLeft(r)]_vars
  <2>1. CASE UNCHANGED vars
    BY <2>1
  <2>2. ASSUME NEW r \in Requests,
               \/ Reject(r) \/ Enter(r) \/ Wait(r)
               \/ Serve(r) \/ InferenceFails(r) \/ Disconnect(r)
        PROVE  /\ \A q \in Requests : StepsLeft(q)' <= StepsLeft(q)
               /\ \E q \in Requests : StepsLeft(q)' < StepsLeft(q)
    <3>1. StepsLeft(r)' < StepsLeft(r)
      BY <1>1, <2>2, RequestAdvances DEF Advances
    <3>2. \A q \in Requests \ {r} : NotSetBack(q)
      BY <1>1, <2>2, RequestAdvances DEF Advances
    <3>3. TypeOK /\ TypeOK'
      BY <1>1 DEF IInv
    <3>4. \A q \in Requests \ {r} : StepsLeft(q)' <= StepsLeft(q)
      BY <3>2, <3>3, OthersAreNotSetBack
    <3>5. StepsLeft(r)' \in Int /\ StepsLeft(r) \in Int
      BY <3>3, StepsFacts, NextStepsFacts
    <3>6. StepsLeft(r)' <= StepsLeft(r)
      BY <3>1, <3>5
    <3> QED
      BY <3>1, <3>4, <3>6
  <2> QED
    BY <1>1, <2>1, <2>2 DEF Next, Quiescent
<1> QED
  BY <1>1, Invariance, PTL DEF Spec, EveryStepAdvances

-----------------------------------------------------------------------------
(* Nobody waits for a permit that is free.                                 *)
FreeInv == permit = Free => waiters = <<>>

(* Exit keeps the permit with somebody as long as somebody waits.          *)
LEMMA ExitKeepsBusy ==
  ASSUME TypeOK, NEW r, NEW label, Exit(r, label)
  PROVE  FreeInv'
<1>1. CASE waiters = <<>>
  BY <1>1 DEF Exit, FreeInv
<1>2. CASE waiters # <<>>
  <2>1. Head(waiters) \in Requests
    BY <1>2, HeadTailProperties DEF TypeOK
  <2> QED
    BY <1>2, <2>1, SopranoAssumption DEF Exit, FreeInv
<1> QED
  BY <1>1, <1>2

LEMMA FreeStep == TypeOK /\ FreeInv /\ [Next]_vars => FreeInv'
<1>0. SUFFICES ASSUME TypeOK, FreeInv, [Next]_vars PROVE FreeInv'
  OBVIOUS
<1>1. ASSUME NEW r \in Requests,
             \/ Reject(r) \/ YieldHeader(r) \/ Compute(r) \/ YieldChunk(r)
             \/ CancelSending(r) \/ Discard(r)
      PROVE  FreeInv'
  BY <1>0, <1>1
  DEF Reject, YieldHeader, Compute, YieldChunk, CancelSending, Discard, FreeInv
<1>2. ASSUME NEW r \in Requests, Enter(r) PROVE FreeInv'
  BY <1>2, SopranoAssumption DEF Enter, FreeInv
<1>3. ASSUME NEW r \in Requests, Wait(r) PROVE FreeInv'
  BY <1>3 DEF Wait, Available, FreeInv
<1>4. ASSUME NEW r \in Requests,
             Finish(r) \/ InferenceFails(r) \/ CancelRunning(r) \/ Finalise(r)
      PROVE  FreeInv'
  BY <1>0, <1>4, ExitKeepsBusy
  DEF Finish, InferenceFails, FailureUnwinds, CancelRunning, Interrupted, Finalise
<1>5. ASSUME NEW r \in Requests, CancelWaiting(r) PROVE FreeInv'
  <2>1. permit # Free
    <3>1. waiters = <<>> => Len(waiters) = 0
      OBVIOUS
    <3>2. Len(waiters) # 0
      BY <1>5 DEF CancelWaiting
    <3> QED
      BY <1>0, <3>1, <3>2 DEF FreeInv
  <2> QED
    BY <1>5, <2>1 DEF CancelWaiting, FreeInv
<1>6. CASE UNCHANGED vars
  BY <1>0, <1>6 DEF vars, FreeInv
<1> QED
  BY <1>0, <1>1, <1>2, <1>3, <1>4, <1>5, <1>6 DEF Next, Serve, Disconnect, Quiescent

(* A sequence with an element before it.                                   *)
LEMMA ConsFacts ==
  ASSUME NEW S, NEW s \in Seq(S), NEW e \in S
  PROVE  /\ Cons(e, s) \in Seq(S)
         /\ Len(Cons(e, s)) = Len(s) + 1
         /\ Cons(e, s)[1] = e
         /\ \A i \in 1..Len(s) : Cons(e, s)[i + 1] = s[i]
<1>1. <<e>> \in Seq(S) /\ Len(<<e>>) = 1 /\ <<e>>[1] = e /\ Len(s) \in Nat
  OBVIOUS
<1>2. Cons(e, s) = <<e>> \o s
  BY DEF Cons
<1> DEFINE one == <<e>>
<1>3. one \in Seq(S) /\ Len(one) = 1 /\ one[1] = e
  BY <1>1
<1> HIDE DEF one
<1>4. /\ one \o s \in Seq(S) /\ Len(one \o s) = Len(one) + Len(s)
      /\ \A i \in 1..(Len(one) + Len(s)) :
           (one \o s)[i] = IF i <= Len(one) THEN one[i] ELSE s[i - Len(one)]
  BY <1>3, ConcatProperties
<1>5. Cons(e, s) = one \o s
  BY <1>2 DEF one
<1> QED
  BY <1>1, <1>3, <1>4, <1>5

(* How taking the first element away, taking another one away, and adding  *)
(* one at the end look with an element before them.                        *)
LEMMA RemoveFirstOfCons ==
  ASSUME NEW S, NEW s \in Seq(S), NEW e \in S
  PROVE  RemoveAt(Cons(e, s), 1) = s
<1>1. /\ Cons(e, s) \in Seq(S) /\ Len(Cons(e, s)) = Len(s) + 1
      /\ \A i \in 1..Len(s) : Cons(e, s)[i + 1] = s[i]
  BY ConsFacts
<1> DEFINE c == Cons(e, s)
<1> HIDE DEF c
<1>2. Len(s) \in Nat /\ 1 \in 1..Len(c)
  BY <1>1 DEF c
<1>3. /\ RemoveAt(c, 1) \in Seq(S) /\ Len(RemoveAt(c, 1)) = Len(c) - 1
      /\ \A j \in 1..(Len(c) - 1) :
           RemoveAt(c, 1)[j] = IF j < 1 THEN c[j] ELSE c[j + 1]
  BY <1>1, <1>2, RemoveFacts DEF c
<1>4. Len(RemoveAt(c, 1)) = Len(s)
      /\ \A j \in 1..Len(s) : RemoveAt(c, 1)[j] = s[j]
  BY <1>1, <1>2, <1>3 DEF c
<1> QED
  BY <1>3, <1>4, SeqEqual DEF c

LEMMA RemoveLaterOfCons ==
  ASSUME NEW S, NEW s \in Seq(S), NEW e \in S, NEW i \in 1..Len(s)
  PROVE  RemoveAt(Cons(e, s), i + 1) = Cons(e, RemoveAt(s, i))
<1>0. Len(s) \in Nat /\ i \in Nat
  OBVIOUS
<1> DEFINE c == Cons(e, s)
           d == RemoveAt(s, i)
           x == RemoveAt(c, i + 1)
           y == Cons(e, d)
<1>1. /\ c \in Seq(S) /\ Len(c) = Len(s) + 1 /\ c[1] = e
      /\ \A k \in 1..Len(s) : c[k + 1] = s[k]
  BY ConsFacts
<1>2. /\ d \in Seq(S) /\ Len(d) = Len(s) - 1
      /\ \A j \in 1..(Len(s) - 1) : d[j] = IF j < i THEN s[j] ELSE s[j + 1]
  BY RemoveFacts
<1> HIDE DEF c, d
<1>3. i + 1 \in 1..Len(c)
  BY <1>0, <1>1
<1>4. /\ x \in Seq(S) /\ Len(x) = Len(c) - 1
      /\ \A j \in 1..(Len(c) - 1) : x[j] = IF j < i + 1 THEN c[j] ELSE c[j + 1]
  BY <1>1, <1>3, RemoveFacts
<1>5. /\ y \in Seq(S) /\ Len(y) = Len(d) + 1 /\ y[1] = e
      /\ \A k \in 1..Len(d) : y[k + 1] = d[k]
  <2>1. d \in Seq(S)
    BY <1>2
  <2> QED
    BY <2>1, ConsFacts
<1> HIDE DEF x, y
<1>6. Len(x) = Len(s) /\ Len(y) = Len(s)
  BY <1>0, <1>1, <1>2, <1>4, <1>5
<1>7. ASSUME NEW j \in 1..Len(s) PROVE x[j] = y[j]
  <2>1. CASE j = 1
    BY <1>0, <1>1, <1>4, <1>5, <2>1
  <2>2. CASE j # 1
    <3>1. j - 1 \in 1..(Len(s) - 1) /\ (j - 1) + 1 = j /\ j \in Nat
      BY <1>0, <2>2
    <3>2. y[j] = d[j - 1]
      BY <1>2, <1>5, <3>1
    <3>3. CASE j < i + 1
      <4>1. j - 1 \in 1..Len(s) /\ j - 1 < i /\ j \in 1..(Len(c) - 1)
        BY <1>0, <1>1, <3>1, <3>3
      <4>2. x[j] = c[j] /\ c[j] = s[j - 1]
        BY <1>1, <1>4, <3>1, <3>3, <4>1
      <4>3. d[j - 1] = s[j - 1]
        BY <1>2, <3>1, <4>1
      <4> QED
        BY <3>2, <4>2, <4>3
    <3>4. CASE ~(j < i + 1)
      <4>1. ~(j - 1 < i) /\ j \in 1..(Len(c) - 1)
        BY <1>0, <1>1, <3>1, <3>4
      <4>2. x[j] = c[j + 1] /\ c[j + 1] = s[j]
        BY <1>1, <1>4, <3>4, <4>1
      <4>3. d[j - 1] = s[j]
        BY <1>2, <3>1, <4>1
      <4> QED
        BY <3>2, <4>2, <4>3
    <3> QED
      BY <3>3, <3>4
  <2> QED
    BY <2>1, <2>2
<1>8. x = y
  BY <1>4, <1>5, <1>6, <1>7, SeqEqual
<1> QED
  BY <1>8 DEF x, y, c, d

LEMMA AppendToCons ==
  ASSUME NEW S, NEW s \in Seq(S), NEW e \in S, NEW a \in S
  PROVE  Append(Cons(e, s), a) = Cons(e, Append(s, a))
<1>1. <<e>> \in Seq(S) /\ <<a>> \in Seq(S)
  OBVIOUS
<1>2. Append(Cons(e, s), a) = Cons(e, s) \o <<a>>
  BY ConsFacts, AppendIsConcat
<1>3. Append(s, a) = s \o <<a>>
  BY AppendIsConcat
<1>4. (<<e>> \o s) \o <<a>> = <<e>> \o (s \o <<a>>)
  BY <1>1, ConcatAssociative
<1> QED
  BY <1>2, <1>3, <1>4 DEF Cons

(* The line of Soprano, with the permit free and with the permit taken.    *)
LEMMA LineFacts ==
  ASSUME TypeOK, FreeInv
  PROVE  /\ permit = Free => Line = <<>>
         /\ permit # Free => permit \in Requests /\ Line = Cons(permit, waiters)
  BY DEF TypeOK, FreeInv, Line

LEMMA NextLineFacts ==
  ASSUME TypeOK', FreeInv'
  PROVE  /\ permit' = Free => Line' = <<>>
         /\ permit' # Free => permit' \in Requests /\ Line' = Cons(permit', waiters')
  BY DEF TypeOK, FreeInv, Line

(* The steps that leave the permit and its waiters alone.                  *)
LEMMA LineStays ==
  ASSUME UNCHANGED <<permit, waiters>>
  PROVE  Line' = Line
  BY DEF Line

(* A request that arrives joins the end of the line.                       *)
LEMMA EnterArrives ==
  ASSUME TypeOK, FreeInv, TypeOK', FreeInv', NEW r \in Requests, Enter(r)
  PROVE  Fifo!Arrive(r)
<1>1. permit = Free /\ permit' = r /\ waiters' = waiters
  BY DEF Enter, Available
<1>2. Line = <<>> /\ waiters' = <<>>
  BY <1>1, LineFacts DEF FreeInv
<1>3. Line' = Cons(r, <<>>)
  BY <1>1, <1>2, SopranoAssumption, NextLineFacts
<1>4. Cons(r, <<>>) = Append(<<>>, r)
  BY DEF Cons
<1>5. \A i \in DOMAIN Line : Line[i] # r
  BY <1>2
<1> QED
  BY <1>2, <1>3, <1>4, <1>5 DEF Fifo!Arrive

LEMMA WaitArrives ==
  ASSUME TypeOK, QueueInv, FreeInv, TypeOK', FreeInv', NEW r \in Requests, Wait(r)
  PROVE  Fifo!Arrive(r)
<1>1. permit # Free /\ permit' = permit /\ waiters' = Append(waiters, r)
      /\ pc[r] = "new"
  BY DEF Wait, Available
<1>2. waiters \in Seq(Requests) /\ Len(waiters) \in Nat /\ permit \in Requests
  BY <1>1, LineFacts DEF TypeOK
<1>3. Line = Cons(permit, waiters) /\ Line' = Cons(permit, Append(waiters, r))
  BY <1>1, LineFacts, NextLineFacts
<1>4. Line' = Append(Line, r)
  BY <1>2, <1>3, AppendToCons
<1>5. /\ Line \in Seq(Requests) /\ Len(Line) = Len(waiters) + 1
      /\ Line[1] = permit
      /\ \A i \in 1..Len(waiters) : Line[i + 1] = waiters[i]
  <2>1. waiters \in Seq(Requests) /\ permit \in Requests
    BY <1>2
  <2>2. Line = Cons(permit, waiters)
    BY <1>3
  <2> QED
    BY <2>1, <2>2, ConsFacts
<1>6. ASSUME NEW i \in DOMAIN Line PROVE Line[i] # r
  <2>1. i \in 1..(Len(waiters) + 1)
    BY <1>5
  <2>2. CASE i = 1
    <3>1. pc[permit] \in Inside
      BY <1>2 DEF TypeOK
    <3> QED
      BY <1>1, <1>5, <2>2, <3>1 DEF Inside
  <2>3. CASE i # 1
    <3>1. i - 1 \in 1..Len(waiters) /\ (i - 1) + 1 = i
      BY <1>2, <2>1, <2>3
    <3>2. pc[waiters[i - 1]] = "waiting" /\ Line[i] = waiters[i - 1]
      BY <1>5, <3>1 DEF QueueInv
    <3> QED
      BY <1>1, <3>2
  <2> QED
    BY <2>2, <2>3
<1> QED
  BY <1>4, <1>6 DEF Fifo!Arrive

(* Whoever has the permit and gives it up leaves the head of the line.     *)
LEMMA ExitLeaves ==
  ASSUME TypeOK, QueueInv, FreeInv, TypeOK', FreeInv',
         NEW r \in Requests, pc[r] \in Inside, NEW label, Exit(r, label)
  PROVE  Fifo!Leave
<1>1. permit = r /\ waiters \in Seq(Requests)
  BY DEF TypeOK
<1>2. Line = Cons(r, waiters)
  BY <1>1, SopranoAssumption, LineFacts
<1>3. Line' = waiters
  <2>1. CASE waiters = <<>>
    <3>1. permit' = Free
      BY <2>1 DEF Exit
    <3> QED
      BY <2>1, <3>1, NextLineFacts
  <2>2. CASE waiters # <<>>
    <3>1. permit' = Head(waiters) /\ waiters' = Tail(waiters)
      BY <2>2 DEF Exit
    <3>2. Head(waiters) \in Requests /\ waiters = Cons(Head(waiters), Tail(waiters))
      BY <1>1, <2>2 DEF Cons
    <3>3. Line' = Cons(permit', waiters')
      BY <3>1, <3>2, SopranoAssumption, NextLineFacts
    <3> QED
      BY <3>1, <3>2, <3>3
  <2> QED
    BY <2>1, <2>2
<1>4. Line' = RemoveAt(Line, 1)
  BY <1>1, <1>2, <1>3, RemoveFirstOfCons
<1>5. 1 \in DOMAIN Line
  <2>1. Line \in Seq(Requests) /\ Len(Line) = Len(waiters) + 1
    BY <1>1, <1>2, ConsFacts
  <2> QED
    BY <1>1, <2>1
<1> QED
  BY <1>4, <1>5 DEF Fifo!Leave, Fifo!RemoveAt, RemoveAt

(* A waiter that goes away leaves the line from where it stands.           *)
LEMMA CancelLeaves ==
  ASSUME TypeOK, FreeInv, TypeOK', FreeInv',
         NEW r \in Requests, CancelWaiting(r)
  PROVE  Fifo!Leave
<1>1. PICK i \in 1..Len(waiters) : waiters' = RemoveAt(waiters, i)
  BY DEF CancelWaiting
<1>2. waiters \in Seq(Requests) /\ Len(waiters) \in Nat /\ permit' = permit
  BY DEF TypeOK, CancelWaiting
<1>3. permit # Free
  BY <1>1, <1>2 DEF FreeInv
<1>4. /\ permit \in Requests
      /\ Line = Cons(permit, waiters)
      /\ Line' = Cons(permit, RemoveAt(waiters, i))
  BY <1>1, <1>2, <1>3, LineFacts, NextLineFacts
<1>5. Line' = RemoveAt(Line, i + 1)
  BY <1>2, <1>4, RemoveLaterOfCons
<1>6. i + 1 \in DOMAIN Line
  <2>1. Line \in Seq(Requests) /\ Len(Line) = Len(waiters) + 1
    BY <1>2, <1>4, ConsFacts
  <2> QED
    BY <1>2, <2>1
<1> QED
  BY <1>5, <1>6 DEF Fifo!Leave, Fifo!RemoveAt, RemoveAt

(* Every step of Soprano is a step of FifoPermit or leaves the line alone. *)
LEMMA FifoStep ==
  IInv /\ IInv' /\ FreeInv /\ FreeInv' /\ [Next]_vars => [Fifo!Next]_Line
<1>0. SUFFICES ASSUME TypeOK, QueueInv, TypeOK', FreeInv, FreeInv', [Next]_vars
               PROVE  [Fifo!Next]_Line
  BY DEF IInv
<1>1. ASSUME NEW r \in Requests,
             \/ Reject(r) \/ YieldHeader(r) \/ Compute(r) \/ YieldChunk(r)
             \/ CancelSending(r) \/ Discard(r)
      PROVE  Line' = Line
  BY <1>1, LineStays
  DEF Reject, YieldHeader, Compute, YieldChunk, CancelSending, Discard
<1>2. ASSUME NEW r \in Requests, Enter(r) \/ Wait(r)
      PROVE  Fifo!Next
  BY <1>0, <1>2, EnterArrives, WaitArrives DEF Fifo!Next
<1>3. ASSUME NEW r \in Requests, Finish(r) \/ InferenceFails(r)
      PROVE  Fifo!Next
  <2>1. pc[r] \in Inside /\ (Exit(r, "complete") \/ Exit(r, "failed"))
    BY <1>3 DEF Finish, InferenceFails, FailureUnwinds, Inside
  <2> QED
    BY <1>0, <2>1, ExitLeaves DEF Fifo!Next
<1>4. ASSUME NEW r \in Requests, CancelRunning(r) \/ Finalise(r)
      PROVE  Fifo!Next
  <2>1. pc[r] \in Inside /\ Exit(r, "gone")
    BY <1>4 DEF CancelRunning, Interrupted, Finalise, Inside
  <2> QED
    BY <1>0, <2>1, ExitLeaves DEF Fifo!Next
<1>5. ASSUME NEW r \in Requests, CancelWaiting(r)
      PROVE  Fifo!Next
  BY <1>0, <1>5, CancelLeaves DEF Fifo!Next
<1>6. CASE UNCHANGED vars
  BY <1>6, LineStays DEF vars
<1> QED
  BY <1>0, <1>1, <1>2, <1>3, <1>4, <1>5, <1>6 DEF Next, Serve, Disconnect, Quiescent

(* The permit serves requests in the order in which they arrive: whatever  *)
(* fails, disconnects or is cancelled, nobody overtakes a request in the   *)
(* line, nobody is dropped from it, and a free permit means that the line  *)
(* is empty (endpoint.py lines 87-89 and 110).                             *)
THEOREM PermitIsFifo == Spec => ImplementsFifo
<1>1. Init => FreeInv /\ Fifo!Init
  BY DEF Init, FreeInv, Fifo!Init, Line
<1>2. IInv => TypeOK
  BY DEF IInv
<1>3. Spec => []FreeInv
  <2>1. IInv /\ FreeInv /\ [Next]_vars => FreeInv'
    BY <1>2, FreeStep
  <2> QED
    BY <1>1, <2>1, Invariance, PTL DEF Spec
<1> QED
  BY <1>1, <1>3, FifoStep, Invariance, PTL DEF Spec, ImplementsFifo, Fifo!Spec
=============================================================================
