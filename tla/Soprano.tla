------------------------------- MODULE Soprano -------------------------------
(***************************************************************************)
(* The inference server (soprano/endpoint.py): stream_speech, a Semaphore  *)
(* with one permit, the thread that computes the next chunk of audio, and  *)
(* clients that go away.                                                   *)
(*                                                                         *)
(* One process with one event loop serves all requests.  The body of a     *)
(* response is an asynchronous generator, which the server cancels when    *)
(* the client disconnects.  A cancelled await of asyncio.to_thread ends at *)
(* once; the thread it started does not.  The thread pool is never         *)
(* exhausted here.                                                         *)
(***************************************************************************)
EXTENDS Naturals, SequencesExt

CONSTANTS
  Requests,   \* requests to POST /v1/audio/speech/stream
  MaxChunks,  \* bound: chunks of audio that a text makes
  Free        \* the permit of stream_speech_semaphore is not taken

ASSUME SopranoAssumption == MaxChunks \in Nat /\ Free \notin Requests

VARIABLES
  pc,       \* pc[r]: where the generator of r's response is
  permit,   \* request that has the permit
  waiters,  \* requests in semaphore.acquire, in order of arrival
  thread,   \* requests for which a thread is executing next(generator)
  total,    \* total[r]: chunks that r's text makes
  sent      \* sent[r]: pieces yielded to the client, the WAV header included

vars == <<pc, permit, waiters, thread, total, sent>>

Goto(r, label) == pc' = [pc EXCEPT ![r] = label]

Init ==
  /\ pc = [r \in Requests |-> "new"]
  /\ permit = Free
  /\ waiters = <<>>
  /\ thread = {}
  /\ total = [r \in Requests |-> 0]
  /\ sent = [r \in Requests |-> 0]

(* The end of "async with": the permit goes to the first waiter.           *)
Exit(r, label) ==
  \/ /\ waiters = <<>>
     /\ permit' = Free
     /\ Goto(r, label)
     /\ UNCHANGED waiters
  \/ /\ waiters # <<>>
     /\ permit' = Head(waiters)
     /\ waiters' = Tail(waiters)
     /\ pc' = [pc EXCEPT ![r] = label, ![Head(waiters)] = "granted"]

-----------------------------------------------------------------------------
(* Nothing is left of the text: HTTPException.                             *)
Reject(r) ==
  /\ pc[r] = "new"
  /\ Goto(r, "failed")
  /\ UNCHANGED <<permit, waiters, thread, total, sent>>

Unguarded == TRUE
Available == permit = Free

Enter(r) ==
  /\ pc[r] = "new"
  /\ \E n \in 0..MaxChunks : total' = [total EXCEPT ![r] = n]
  /\ Available
  /\ permit' = r
  /\ Goto(r, "granted")
  /\ UNCHANGED <<waiters, thread, sent>>

Wait(r) ==
  /\ pc[r] = "new"
  /\ \E n \in 0..MaxChunks : total' = [total EXCEPT ![r] = n]
  /\ ~Available
  /\ waiters' = Append(waiters, r)
  /\ Goto(r, "waiting")
  /\ UNCHANGED <<permit, thread, sent>>

YieldHeader(r) ==
  /\ pc[r] = "granted"
  /\ sent' = [sent EXCEPT ![r] = 1]
  /\ Goto(r, "yield")
  /\ UNCHANGED <<permit, waiters, thread, total>>

(* The piece went out.  Await asyncio.to_thread(_next_chunk).              *)
Compute(r) ==
  /\ pc[r] = "yield"
  /\ thread' = thread \cup {r}
  /\ Goto(r, "compute")
  /\ UNCHANGED <<permit, waiters, total, sent>>

Exhausted(r) == sent[r] = 1 + total[r]

YieldChunk(r) ==
  /\ pc[r] = "compute"
  /\ ~Exhausted(r)
  /\ thread' = thread \ {r}
  /\ sent' = [sent EXCEPT ![r] = @ + 1]
  /\ Goto(r, "yield")
  /\ UNCHANGED <<permit, waiters, total>>

(* StopIteration: the response ends as it should.                          *)
Finish(r) ==
  /\ pc[r] = "compute"
  /\ Exhausted(r)
  /\ thread' = thread \ {r}
  /\ Exit(r, "complete")
  /\ UNCHANGED <<total, sent>>

FailureEnds(r)    == Exit(r, "complete")
FailureHolds(r)   == Goto(r, "failed") /\ UNCHANGED <<permit, waiters>>
FailureUnwinds(r) == Exit(r, "failed")

(* The model raises, _next_chunk makes it an HTTPException.  The response  *)
(* has begun, so the client sees a 200 that breaks off.                    *)
InferenceFails(r) ==
  /\ pc[r] = "compute"
  /\ thread' = thread \ {r}
  /\ FailureUnwinds(r)
  /\ UNCHANGED <<total, sent>>

-----------------------------------------------------------------------------
(* The client goes away.                                                   *)

CancelWaiting(r) ==
  /\ pc[r] = "waiting"
  /\ \E i \in 1..Len(waiters) :
        waiters[i] = r /\ waiters' = RemoveAt(waiters, i)
  /\ Goto(r, "gone")
  /\ UNCHANGED <<permit, thread, total, sent>>

InterruptedResumes(r) == Goto(r, "yield") /\ UNCHANGED <<permit, waiters>>
InterruptedHolding(r) == Goto(r, "gone") /\ UNCHANGED <<permit, waiters>>
Interrupted(r) == Exit(r, "gone")

(* CancelledError inside "async with", at acquire, when the permit was     *)
(* granted already, or at to_thread, whose thread goes on.                 *)
CancelRunning(r) ==
  /\ pc[r] \in {"granted", "compute"}
  /\ Interrupted(r)
  /\ UNCHANGED <<thread, total, sent>>

(* While a piece is being sent it is not the generator that is awaiting:   *)
(* it stays suspended, with the permit, until it is finalised.             *)
CancelSending(r) ==
  /\ pc[r] = "yield"
  /\ Goto(r, "orphan")
  /\ UNCHANGED <<permit, waiters, thread, total, sent>>

Finalise(r) ==
  /\ pc[r] = "orphan"
  /\ Exit(r, "gone")
  /\ UNCHANGED <<thread, total, sent>>

(* The thread of a cancelled request ends; nobody wants its chunk.         *)
Discard(r) ==
  /\ r \in thread
  /\ pc[r] = "gone"
  /\ thread' = thread \ {r}
  /\ UNCHANGED <<pc, permit, waiters, total, sent>>

-----------------------------------------------------------------------------
Serve(r) ==
  \/ YieldHeader(r) \/ Compute(r) \/ YieldChunk(r) \/ Finish(r)
  \/ Finalise(r) \/ Discard(r)

Disconnect(r) == CancelWaiting(r) \/ CancelRunning(r) \/ CancelSending(r)

Over == {"complete", "failed", "gone"}

Quiescent ==
  /\ \A r \in Requests : pc[r] \in Over
  /\ thread = {}
  /\ UNCHANGED vars

Next ==
  \/ \E r \in Requests :
        \/ Reject(r) \/ Enter(r) \/ Wait(r)
        \/ Serve(r) \/ InferenceFails(r) \/ Disconnect(r)
  \/ Quiescent

Spec == Init /\ [][Next]_vars

(* The event loop runs what is ready, the model computes each chunk in a   *)
(* finite time, and a client reads what it is sent or goes away.           *)
Fairness == \A r \in Requests : WF_vars(Serve(r))

FairSpec == Spec /\ Fairness

-----------------------------------------------------------------------------
Inside == {"granted", "yield", "compute", "orphan"}    \* in "async with"

(* Type invariant.  Besides the types: the permit is with the one request  *)
(* that is inside the block.                                               *)
TypeOK ==
  /\ pc \in [Requests -> {"new", "waiting"} \cup Inside \cup Over]
  /\ permit \in Requests \cup {Free}
  /\ \A r \in Requests : permit = r <=> pc[r] \in Inside
  /\ waiters \in Seq(Requests)
  /\ thread \subseteq Requests
  /\ total \in [Requests -> 0..MaxChunks]
  /\ sent \in [Requests -> 0..(1 + MaxChunks)]

(* A response that ends properly carried the header and every chunk: the   *)
(* worker, which reports SUCCESS for it, never stores a truncated file     *)
(* (endpoint.py lines 138-143).                                            *)
NoSilentTruncation ==
  \A r \in Requests : pc[r] = "complete" => sent[r] = 1 + total[r]

(* Of two inferences at the same time, at most one is for a client that is *)
(* still there.                                                            *)
OverlapsAreStray ==
  \A r, q \in thread : r # q => "gone" \in {pc[r], pc[q]}

(* Requests are served in order of arrival, nobody overtakes a request     *)
(* that waits or is left without the permit that came free, whoever fails, *)
(* disconnects or leaves the queue (endpoint.py lines 87-88 and 110).      *)
Line == IF permit = Free THEN waiters ELSE Cons(permit, waiters)

Fifo == INSTANCE FifoPermit WITH Clients <- Requests, line <- Line

ImplementsFifo == Fifo!Spec

(* No step brings a request farther from its end, and every step brings    *)
(* one nearer: after its arrival a request makes at most 2 * MaxChunks + 6 *)
(* steps, its stray thread included, whatever the others do (endpoint.py   *)
(* lines 110-147).                                                         *)
ChunksLeft(r) == 1 + total[r] - sent[r]

StepsLeft(r) ==
  IF pc[r] = "new" THEN 2 * MaxChunks + 6
  ELSE IF pc[r] = "waiting" THEN 2 * total[r] + 5
  ELSE IF pc[r] = "granted" THEN 2 * total[r] + 4
  ELSE IF pc[r] = "yield"   THEN 2 * ChunksLeft(r) + 3
  ELSE IF pc[r] = "compute" THEN 2 * ChunksLeft(r) + 2
  ELSE IF pc[r] = "orphan" \/ r \in thread THEN 1
  ELSE 0

EveryStepAdvances ==
  [][/\ \A r \in Requests : StepsLeft(r)' <= StepsLeft(r)
     /\ \E r \in Requests : StepsLeft(r)' < StepsLeft(r)]_vars

(* Whoever waits for the permit or has it gets to an end: no way out of    *)
(* the block keeps the permit.                                             *)
RequestsEnd ==
  \A r \in Requests : (pc[r] \in {"waiting"} \cup Inside) ~> (pc[r] \in Over)

(* endpoint.py lines 87-88: one request at a time, so the model instance   *)
(* is not time-sliced across concurrent generators.  A client that goes    *)
(* away while a chunk is computed lets the next request in.                *)
OneInference == \A r, q \in thread : r = q
=============================================================================
