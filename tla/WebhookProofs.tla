---------------------------- MODULE WebhookProofs ----------------------------
(***************************************************************************)
(* Proofs about Webhook, for any finite set of workers and any bounds on   *)
(* messages, reads, posts and faults.                                      *)
(***************************************************************************)
EXTENDS Webhook, FiniteSetTheorems, TLAPS

(* TypeOK in two parts: the numbers, and everything else.                  *)
Counts ==
  /\ messages \in 0..MaxMessages
  /\ queue \in Nat /\ attempts \in Nat /\ posts \in Nat
  /\ loaded \in [Workers -> Nat]
  /\ reads \in 0..MaxReads /\ faults \in 0..MaxFaults

Flags ==
  /\ pc \in [Workers -> {"idle", "select", "count", "post", "retry", "ack"}]
  /\ held \in [Workers -> BOOLEAN]
  /\ lock \in Workers \cup {Free, Api}
  /\ \A w \in Workers : lock = w => pc[w] = "count"
  /\ accepted \in BOOLEAN

(* A worker about to count an attempt has locked the row and knows it.     *)
CountInv ==
  \A w \in Workers : pc[w] = "count" => lock = w /\ loaded[w] = attempts

(* Until the client has accepted a POST, a copy of the message is in the   *)
(* broker, ready or with a worker that has not decided to acknowledge it.  *)
Undecided(w) == held[w] /\ pc[w] \in {"select", "count", "post", "retry"}

CopyInv ==
  /\ \A w \in Workers : held[w] => pc[w] # "idle"
  /\ messages > 0 /\ ~accepted => queue > 0 \/ \E w \in Workers : Undecided(w)

IInv == TypeOK /\ CountInv /\ CopyInv /\ AttemptsCovered

(* The two parts together are the type invariant.                          *)
LEMMA TypeParts == TypeOK <=> Counts /\ Flags
  BY Zenon DEF TypeOK, Counts, Flags

(* The initial state satisfies the invariant.                              *)
LEMMA InitHolds == Init => IInv
<1> SUFFICES ASSUME Init PROVE IInv
  OBVIOUS
<1>1. Counts
  BY WebhookAssumption DEF Init, Counts
<1>2. Flags
  BY WebhookAssumption DEF Init, Flags
<1>3. CountInv /\ CopyInv
  BY DEF Init, CountInv, CopyInv
<1>4. Posting = {}
  BY DEF Init, Posting
<1>5. AttemptsCovered
  <2>1. attempts = posts + Cardinality(Posting) + 0
    BY <1>4, FS_EmptySet DEF Init
  <2> QED
    BY <2>1 DEF Init, AttemptsCovered
<1> QED
  BY <1>1, <1>2, <1>3, <1>5, TypeParts DEF IInv

(* An injected failure stays within its bound.                             *)
LEMMA FaultFacts ==
  ASSUME Counts, Fault
  PROVE  faults' \in 0..MaxFaults
  BY WebhookAssumption DEF Counts, Fault

(* Every action keeps the numbers in their ranges.                         *)
LEMMA CountsStep == Counts /\ [Next]_vars => Counts'
<1>0. SUFFICES ASSUME Counts, [Next]_vars PROVE Counts'
  OBVIOUS
<1> USE <1>0, WebhookAssumption DEF Counts, broker, row, client, bounds
<1>1. CASE Announce
  BY <1>1 DEF Announce
<1>2. CASE ReadResult
  BY <1>2 DEF ReadResult
<1>3. CASE EndRead
  BY <1>3 DEF EndRead
<1>4. ASSUME NEW w \in Workers, Deliver(w) PROVE Counts'
  BY <1>4 DEF Deliver, Goto
<1>5. ASSUME NEW w \in Workers, Work(w) PROVE Counts'
  <2>1. CASE SkipLocked(w)
    BY <2>1 DEF SkipLocked, Retried, Goto
  <2>2. CASE LoadJob(w)
    BY <2>2 DEF LoadJob, Unlockable, Goto
  <2>3. CASE CountAttempt(w)
    BY <2>3 DEF CountAttempt, Unlocked, Goto
  <2>4. CASE PostAccepted(w)
    BY <2>4 DEF PostAccepted, Goto
  <2>5. CASE PostFails(w)
    BY <2>5 DEF PostFails, Goto
  <2>6. CASE PostRefused(w)
    BY <2>6 DEF PostRefused, Retried, Goto
  <2>7. CASE Retry(w)
    BY <2>7 DEF Retry, Goto
  <2>8. CASE Ack(w)
    BY <2>8 DEF Ack, Goto
  <2> QED
    BY <1>5, <2>1, <2>2, <2>3, <2>4, <2>5, <2>6, <2>7, <2>8 DEF Work
<1>6. ASSUME NEW w \in Workers, Disturb(w) PROVE Counts'
  <2>1. CASE Redeliver(w)
    BY <2>1, FaultFacts DEF Redeliver, Goto
  <2>2. CASE LoseWorker(w)
    BY <2>2, FaultFacts DEF LoseWorker, AckedLate, Unlocked, Goto
  <2>3. CASE DatabaseFails(w)
    BY <2>3, FaultFacts DEF DatabaseFails, Unlocked, Goto
  <2> QED
    BY <1>6, <2>1, <2>2, <2>3 DEF Disturb
<1>7. CASE UNCHANGED vars
  BY <1>7 DEF vars
<1> QED
  BY <1>0, <1>1, <1>2, <1>3, <1>4, <1>5, <1>6, <1>7 DEF Next, Quiescent

(* Every action keeps the other variables in their ranges.                 *)
LEMMA FlagsStep == Flags /\ [Next]_vars => Flags'
<1>0. SUFFICES ASSUME Flags, [Next]_vars PROVE Flags'
  OBVIOUS
<1> USE <1>0, WebhookAssumption DEF Flags, broker, row, client, bounds
<1>1. CASE Announce
  BY <1>1 DEF Announce
<1>2. CASE ReadResult
  BY <1>2 DEF ReadResult
<1>3. CASE EndRead
  BY <1>3 DEF EndRead
<1>4. ASSUME NEW w \in Workers, Deliver(w) PROVE Flags'
  BY <1>4 DEF Deliver, Goto
<1>5. ASSUME NEW w \in Workers, Work(w) PROVE Flags'
  <2>1. CASE SkipLocked(w)
    BY <2>1 DEF SkipLocked, Retried, Goto
  <2>2. CASE LoadJob(w)
    BY <2>2 DEF LoadJob, Unlockable, Goto
  <2>3. CASE CountAttempt(w)
    BY <2>3 DEF CountAttempt, Unlocked, Goto
  <2>4. CASE PostAccepted(w)
    BY <2>4 DEF PostAccepted, Goto
  <2>5. CASE PostFails(w)
    BY <2>5 DEF PostFails, Goto
  <2>6. CASE PostRefused(w)
    BY <2>6 DEF PostRefused, Retried, Goto
  <2>7. CASE Retry(w)
    BY <2>7 DEF Retry, Goto
  <2>8. CASE Ack(w)
    BY <2>8 DEF Ack, Goto
  <2> QED
    BY <1>5, <2>1, <2>2, <2>3, <2>4, <2>5, <2>6, <2>7, <2>8 DEF Work
<1>6. ASSUME NEW w \in Workers, Disturb(w) PROVE Flags'
  <2>1. CASE Redeliver(w)
    BY <2>1 DEF Redeliver, Goto, Fault
  <2>2. CASE LoseWorker(w)
    BY <2>2 DEF LoseWorker, AckedLate, Unlocked, Goto, Fault
  <2>3. CASE DatabaseFails(w)
    BY <2>3 DEF DatabaseFails, Unlocked, Goto, Fault
  <2> QED
    BY <1>6, <2>1, <2>2, <2>3 DEF Disturb
<1>7. CASE UNCHANGED vars
  BY <1>7 DEF vars
<1> QED
  BY <1>0, <1>1, <1>2, <1>3, <1>4, <1>5, <1>6, <1>7 DEF Next, Quiescent

(* Every action preserves the type invariant.                              *)
LEMMA TypeStep == TypeOK /\ [Next]_vars => TypeOK'
<1>1. Counts' /\ Flags' => TypeOK'
  BY Zenon DEF TypeOK, Counts, Flags
<1> QED
  BY <1>1, TypeParts, CountsStep, FlagsStep

(* The row lock keeps what a worker loaded current until it has counted.   *)
LEMMA CountStep == Counts /\ Flags /\ CountInv /\ [Next]_vars => CountInv'
<1>0. SUFFICES ASSUME Counts, Flags, CountInv, [Next]_vars PROVE CountInv'
  OBVIOUS
<1> USE <1>0, WebhookAssumption DEF Counts, Flags, CountInv, broker, row, client, bounds
<1>1. CASE Announce
  BY <1>1 DEF Announce
<1>2. CASE ReadResult
  BY <1>2 DEF ReadResult
<1>3. CASE EndRead
  BY <1>3 DEF EndRead
<1>4. ASSUME NEW w \in Workers, Deliver(w) PROVE CountInv'
  BY <1>4 DEF Deliver, Goto
<1>5. ASSUME NEW w \in Workers, Work(w) PROVE CountInv'
  <2>1. CASE SkipLocked(w)
    BY <2>1 DEF SkipLocked, Retried, Goto
  <2>2. CASE LoadJob(w)
    BY <2>2 DEF LoadJob, Unlockable, Goto
  <2>3. CASE CountAttempt(w)
    BY <2>3 DEF CountAttempt, Unlocked, Goto
  <2>4. CASE PostAccepted(w)
    BY <2>4 DEF PostAccepted, Goto
  <2>5. CASE PostFails(w)
    BY <2>5 DEF PostFails, Goto
  <2>6. CASE PostRefused(w)
    BY <2>6 DEF PostRefused, Retried, Goto
  <2>7. CASE Retry(w)
    BY <2>7 DEF Retry, Goto
  <2>8. CASE Ack(w)
    BY <2>8 DEF Ack, Goto
  <2> QED
    BY <1>5, <2>1, <2>2, <2>3, <2>4, <2>5, <2>6, <2>7, <2>8 DEF Work
<1>6. ASSUME NEW w \in Workers, Disturb(w) PROVE CountInv'
  <2>1. CASE Redeliver(w)
    BY <2>1 DEF Redeliver, Goto, Fault
  <2>2. CASE LoseWorker(w)
    BY <2>2 DEF LoseWorker, AckedLate, Unlocked, Goto, Fault
  <2>3. CASE DatabaseFails(w)
    BY <2>3 DEF DatabaseFails, Unlocked, Goto, Fault
  <2> QED
    BY <1>6, <2>1, <2>2, <2>3 DEF Disturb
<1>7. CASE UNCHANGED vars
  BY <1>7 DEF vars
<1> QED
  BY <1>0, <1>1, <1>2, <1>3, <1>4, <1>5, <1>6, <1>7 DEF Next, Quiescent

(* Only an accepted POST takes the last copy of the message away.          *)
LEMMA CopyStep == Counts /\ Flags /\ CopyInv /\ [Next]_vars => CopyInv'
<1>0. SUFFICES ASSUME Counts, Flags, CopyInv, [Next]_vars PROVE CopyInv'
  OBVIOUS
<1> USE <1>0, WebhookAssumption DEF Counts, Flags, CopyInv, Undecided, broker, row, client, bounds
<1>1. CASE Announce
  BY <1>1 DEF Announce
<1>2. CASE ReadResult
  BY <1>2 DEF ReadResult
<1>3. CASE EndRead
  BY <1>3 DEF EndRead
<1>4. ASSUME NEW w \in Workers, Deliver(w) PROVE CopyInv'
  BY <1>4 DEF Deliver, Goto
<1>5. ASSUME NEW w \in Workers, Work(w) PROVE CopyInv'
  <2>1. CASE SkipLocked(w)
    BY <2>1 DEF SkipLocked, Retried, Goto
  <2>2. CASE LoadJob(w)
    BY <2>2 DEF LoadJob, Unlockable, Goto
  <2>3. CASE CountAttempt(w)
    BY <2>3 DEF CountAttempt, Unlocked, Goto
  <2>4. CASE PostAccepted(w)
    BY <2>4 DEF PostAccepted, Goto
  <2>5. CASE PostFails(w)
    BY <2>5 DEF PostFails, Goto
  <2>6. CASE PostRefused(w)
    BY <2>6 DEF PostRefused, Retried, Goto
  <2>7. CASE Retry(w)
    BY <2>7 DEF Retry, Goto
  <2>8. CASE Ack(w)
    BY <2>8 DEF Ack, Goto
  <2> QED
    BY <1>5, <2>1, <2>2, <2>3, <2>4, <2>5, <2>6, <2>7, <2>8 DEF Work
<1>6. ASSUME NEW w \in Workers, Disturb(w) PROVE CopyInv'
  <2>1. CASE Redeliver(w)
    BY <2>1 DEF Redeliver, Goto, Fault
  <2>2. CASE LoseWorker(w)
    BY <2>2 DEF LoseWorker, AckedLate, Unlocked, Goto, Fault
  <2>3. CASE DatabaseFails(w)
    BY <2>3 DEF DatabaseFails, Unlocked, Goto, Fault
  <2> QED
    BY <1>6, <2>1, <2>2, <2>3 DEF Disturb
<1>7. CASE UNCHANGED vars
  BY <1>7 DEF vars
<1> QED
  BY <1>0, <1>1, <1>2, <1>3, <1>4, <1>5, <1>6, <1>7 DEF Next, Quiescent

(* The number of POSTs being made is a natural number.                     *)
LEMMA PostingFinite ==
  /\ IsFiniteSet(Posting) /\ Cardinality(Posting) \in Nat
  /\ IsFiniteSet(Posting') /\ Cardinality(Posting') \in Nat
<1>1. Posting \subseteq Workers /\ Posting' \subseteq Workers
  BY DEF Posting
<1> QED
  BY <1>1, WebhookAssumption, FS_Subset, FS_CardinalityType

(* What a step without an attempt and without a POST does to the count:    *)
(* nothing, unless a fault loses a POST or the count of one.               *)
NothingCounted == Posting' = Posting /\ attempts' = attempts /\ faults' = faults

LostOne ==
  /\ faults' = faults + 1
  /\ \/ Posting' = Posting /\ attempts' \in {attempts, attempts + 1}
     \/ attempts' = attempts /\ \E w \in Posting : Posting' = Posting \ {w}

LEMMA OtherSteps ==
  ASSUME Counts, Flags, CountInv, [Next]_vars,
         ~ \E w \in Workers : CountAttempt(w) \/ PostAccepted(w)
                                 \/ PostFails(w) \/ PostRefused(w)
  PROVE  posts' = posts /\ (NothingCounted \/ LostOne)
<1> USE DEF Counts, Flags, CountInv, Posting, broker, row, client, bounds, Goto
<1>1. CASE Announce \/ ReadResult \/ EndRead \/ UNCHANGED vars
  BY <1>1 DEF Announce, ReadResult, EndRead, vars, NothingCounted
<1>2. ASSUME NEW w \in Workers, Deliver(w) \/ Work(w)
      PROVE  posts' = posts /\ NothingCounted
  BY <1>2 DEF Deliver, Work, SkipLocked, LoadJob, Retry, Ack, Retried, NothingCounted
<1>3. ASSUME NEW w \in Workers, Disturb(w)
      PROVE  posts' = posts /\ LostOne
  <2>1. CASE Redeliver(w)
    BY <2>1 DEF Redeliver, LostOne, Fault
  <2>2. CASE LoseWorker(w)
    <3>1. /\ posts' = posts /\ attempts' = attempts /\ faults' = faults + 1
          /\ pc' = [pc EXCEPT ![w] = "idle"]
      BY <2>2 DEF LoseWorker, Fault
    <3>2. CASE w \in Posting
      <4>1. Posting' = Posting \ {w}
        BY <3>1, <3>2
      <4> QED
        BY <3>1, <3>2, <4>1 DEF LostOne
    <3>3. CASE w \notin Posting
      <4>1. Posting' = Posting
        BY <3>1, <3>3
      <4> QED
        BY <3>1, <4>1 DEF LostOne
    <3> QED
      BY <3>2, <3>3
  <2>3. CASE DatabaseFails(w)
    <3>1. pc[w] = "count" => loaded[w] = attempts
      BY <1>3 DEF CountInv
    <3>2. attempts' \in {attempts, attempts + 1} /\ posts' = posts
          /\ faults' = faults + 1
      BY <2>3, <3>1 DEF DatabaseFails, Fault
    <3>3. Posting' = Posting
      BY <2>3 DEF DatabaseFails
    <3> QED
      BY <3>2, <3>3 DEF LostOne
  <2> QED
    BY <1>3, <2>1, <2>2, <2>3 DEF Disturb
<1> QED
  BY <1>1, <1>2, <1>3 DEF Next, Quiescent

(* A POST is counted before it is made, and only a fault can come between. *)
LEMMA CoverStep ==
  Counts /\ Flags /\ CountInv /\ AttemptsCovered /\ [Next]_vars => AttemptsCovered'
<1>0. SUFFICES ASSUME Counts, Flags, CountInv, AttemptsCovered, [Next]_vars
               PROVE  AttemptsCovered'
  OBVIOUS
<1>1. PICK lost \in 0..faults : attempts = posts + Cardinality(Posting) + lost
  BY <1>0 DEF AttemptsCovered
<1>2. attempts \in Nat /\ posts \in Nat /\ faults \in Nat /\ lost \in Nat
  BY <1>0, <1>1 DEF Counts
<1>3. ASSUME NEW w \in Workers, CountAttempt(w) PROVE AttemptsCovered'
  <2>1. w \notin Posting /\ Posting' = Posting \cup {w}
    BY <1>0, <1>3 DEF CountAttempt, Posting, Flags, Goto
  <2>2. attempts' = attempts + 1 /\ posts' = posts /\ faults' = faults
    BY <1>0, <1>3 DEF CountAttempt, CountInv, client, bounds
  <2>3. Cardinality(Posting') = Cardinality(Posting) + 1
    BY <2>1, PostingFinite, FS_AddElement
  <2>4. attempts' = posts' + Cardinality(Posting') + lost
    BY <1>1, <1>2, <2>2, <2>3, PostingFinite
  <2> QED
    BY <2>2, <2>4 DEF AttemptsCovered
<1>4. ASSUME NEW w \in Workers, PostAccepted(w) \/ PostFails(w) \/ PostRefused(w)
      PROVE  AttemptsCovered'
  <2>1. w \in Posting /\ Posting' = Posting \ {w}
    BY <1>0, <1>4 DEF PostAccepted, PostFails, PostRefused, Posting, Flags, Goto, Retried
  <2>2. attempts' = attempts /\ posts' = posts + 1 /\ faults' = faults
    BY <1>4 DEF PostAccepted, PostFails, PostRefused, row, bounds
  <2>3. Cardinality(Posting') = Cardinality(Posting) - 1
    BY <2>1, PostingFinite, FS_RemoveElement
  <2>4. attempts' = posts' + Cardinality(Posting') + lost
    BY <1>1, <1>2, <2>2, <2>3, PostingFinite
  <2> QED
    BY <2>2, <2>4 DEF AttemptsCovered
<1>5. CASE ~ \E w \in Workers : CountAttempt(w) \/ PostAccepted(w)
                                   \/ PostFails(w) \/ PostRefused(w)
  <2>1. posts' = posts /\ (NothingCounted \/ LostOne)
    BY <1>0, <1>5, OtherSteps
  <2>2. CASE NothingCounted
    BY <1>1, <2>1, <2>2 DEF NothingCounted, AttemptsCovered
  <2>3. CASE LostOne
    <3>1. lost + 1 \in 0..faults'
      BY <1>1, <1>2, <2>3 DEF LostOne
    <3>2. lost \in 0..faults'
      BY <1>1, <1>2, <2>3 DEF LostOne
    <3>3. CASE Posting' = Posting /\ attempts' = attempts
      BY <1>1, <2>1, <3>2, <3>3 DEF AttemptsCovered
    <3>4. CASE Posting' = Posting /\ attempts' = attempts + 1
      <4>1. attempts' = posts' + Cardinality(Posting') + (lost + 1)
        BY <1>1, <1>2, <2>1, <3>4, PostingFinite
      <4> QED
        BY <3>1, <4>1 DEF AttemptsCovered
    <3>5. ASSUME NEW w \in Posting, Posting' = Posting \ {w}, attempts' = attempts
          PROVE  AttemptsCovered'
      <4>1. Cardinality(Posting') = Cardinality(Posting) - 1
        BY <3>5, PostingFinite, FS_RemoveElement
      <4>2. attempts' = posts' + Cardinality(Posting') + (lost + 1)
        BY <1>1, <1>2, <2>1, <3>5, <4>1, PostingFinite
      <4> QED
        BY <3>1, <4>2 DEF AttemptsCovered
    <3> QED
      BY <2>3, <3>3, <3>4, <3>5 DEF LostOne
  <2> QED
    BY <2>1, <2>2, <2>3
<1> QED
  BY <1>3, <1>4, <1>5

-----------------------------------------------------------------------------
(* Webhook is type-correct, for any number of workers and any bounds.      *)
THEOREM TypeCorrect == Spec => []TypeOK
  BY InitHolds, TypeStep, PTL DEF Spec, IInv

(* The inductive invariant holds in every reachable state.                 *)
THEOREM Invariance == Spec => []IInv
<1>1. Init => IInv
  BY InitHolds
<1>2. IInv /\ [Next]_vars => IInv'
  BY TypeStep, CountStep, CopyStep, CoverStep, TypeParts DEF IInv
<1> QED
  BY <1>1, <1>2, PTL DEF Spec

(* webhook_attempts counts every POST, whatever runs at once, and nothing  *)
(* else but what faults lost.                                              *)
THEOREM PostsAreCounted == Spec => []AttemptsCovered
<1>1. IInv => AttemptsCovered
  BY DEF IInv
<1> QED
  BY <1>1, Invariance, PTL

(* The last copy of a send_webhook message is given up only once a POST    *)
(* was accepted.                                                           *)
THEOREM WebhookIsNotDropped == Spec => []NeverDropped
<1>1. IInv => NeverDropped
  BY DEF IInv, CopyInv, Undecided, NeverDropped, AllQuiet
<1> QED
  BY <1>1, Invariance, PTL
=============================================================================
