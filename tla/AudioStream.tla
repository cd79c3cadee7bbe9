----------------------------- MODULE AudioStream -----------------------------
(***************************************************************************)
(* The audio of one attempt on its way through the worker: the pieces that *)
(* httpx yields, HttpxStreamWrapper.read (celeryz/src/celeryz/util.py),    *)
(* and the upload that reads from it, boto3's for a file of unknown size:  *)
(* it reads Threshold bytes first; if there are fewer, it puts the object  *)
(* in one request, else in parts of PartSize bytes, until it reads an      *)
(* empty part.  It is Pipeline's Respond to Upload, seen from inside.      *)
(*                                                                         *)
(* The stream is the sequence 1, ..., n of its bytes' positions, so that a *)
(* lost, repeated or displaced byte shows.                                 *)
(***************************************************************************)
EXTENDS Integers, Sequences

CONSTANTS
  MaxLength,   \* bound: bytes of audio
  ChunkSize,   \* of iter_bytes; every piece but the last has it
  Threshold,   \* bytes that make the upload a multipart one
  PartSize     \* of every part of the object but the last

ASSUME AudioStreamAssumption ==
  /\ MaxLength \in Nat
  /\ ChunkSize \in Nat \ {0}
  /\ Threshold \in Nat \ {0}
  /\ PartSize \in Nat \ {0}

VARIABLES
  audio,     \* what the inference server sends
  wire,      \* the part of it that the iterator has not yielded
  source,    \* the iterator: "open", "exhausted" or "broken"
  buffer,    \* HttpxStreamWrapper._buffer
  stage,     \* where the upload is
  initial,   \* bytes read to find out the kind of upload, not yet in a part
  object,    \* the bytes of the parts made so far
  sizes      \* sizes of these parts

wrapper == <<wire, source, buffer>>
upload  == <<stage, initial, object, sizes>>
vars == <<audio, wrapper, upload>>

Smaller(m, n) == IF m < n THEN m ELSE n
Larger(m, n) == IF m < n THEN n ELSE m

Prefix(s, n) == SubSeq(s, 1, Smaller(n, Len(s)))
Rest(s, n) == SubSeq(s, Smaller(n, Len(s)) + 1, Len(s))

Init ==
  /\ \E n \in 0..MaxLength : audio = [i \in 1..n |-> i]
  /\ wire = audio /\ source = "open" /\ buffer = <<>>
  /\ stage = "probe"
  /\ initial = <<>> /\ object = <<>> /\ sizes = <<>>

-----------------------------------------------------------------------------
(* HttpxStreamWrapper.read(size).                                          *)

FromInitial == stage = "parts" /\ PartSize <= Len(initial)
Sized == stage = "probe" \/ (stage = "parts" /\ ~FromInitial)
Size == IF stage = "probe" THEN Threshold ELSE PartSize - Len(initial)

ShortOnce == buffer = <<>>    \* an if in place of the while
AlmostShort == Len(buffer) < Size - 1
StillShort == Len(buffer) < Size

(* The loop calls next(): the iterator yields ...                          *)
Yield ==
  /\ Sized
  /\ StillShort
  /\ source = "open"
  /\ wire # <<>>
  /\ buffer' = buffer \o Prefix(wire, ChunkSize)
  /\ wire' = Rest(wire, ChunkSize)
  /\ UNCHANGED <<audio, source, upload>>

ForgottenEnd == "open"
NoticedEnd == "exhausted"    \* break

(* ... or the response has ended properly: StopIteration.                  *)
Stop ==
  /\ Sized
  /\ StillShort
  /\ source = "open"
  /\ wire = <<>>
  /\ source' = NoticedEnd
  /\ UNCHANGED <<audio, wire, buffer, upload>>

Swallowed == stage
Unwinds == "aborted"

(* ... or it breaks off.  The exception ends the iterator, so that another *)
(* read would find the end of the stream, and the read; the upload removes *)
(* the parts it has made.                                                  *)
Break ==
  /\ Sized
  /\ StillShort
  /\ source = "open"
  /\ source' = "broken"
  /\ stage' = Unwinds
  /\ UNCHANGED <<audio, wire, buffer, initial, object, sizes>>

ReadEnds == Sized /\ (~StillShort \/ source # "open")
Result == Prefix(buffer, Size)

KeptWhole(n) == buffer
Cleared(n) == <<>>
Consumed(n) == Rest(buffer, n)

(* The upload reads a first time.                                          *)
Probe ==
  /\ stage = "probe"
  /\ ReadEnds
  /\ initial' = Result
  /\ buffer' = Consumed(Size)
  /\ stage' = IF Len(Result) < Threshold THEN "rest" ELSE "parts"
  /\ UNCHANGED <<audio, wire, source, object, sizes>>

(* read(): all that is left.  It does not clear the buffer.                *)
PutObject ==
  /\ stage = "rest"
  /\ object' = initial \o (buffer \o wire)
  /\ sizes' = <<Len(object')>>
  /\ initial' = <<>>
  /\ wire' = <<>>
  /\ source' = IF source = "open" THEN "exhausted" ELSE source
  /\ stage' = "sending"
  /\ UNCHANGED <<audio, buffer>>

AddPart(bytes) ==
  /\ object' = object \o bytes
  /\ sizes' = Append(sizes, Len(bytes))

(* Parts that the first read already covers.                               *)
PartOfInitial ==
  /\ FromInitial
  /\ AddPart(Prefix(initial, PartSize))
  /\ initial' = Rest(initial, PartSize)
  /\ UNCHANGED <<audio, wrapper, stage>>

Part == initial \o Result

PartFromSource ==
  /\ stage = "parts"
  /\ ReadEnds
  /\ Part # <<>>
  /\ AddPart(Part)
  /\ initial' = <<>>
  /\ buffer' = Consumed(Size)
  /\ UNCHANGED <<audio, wire, source, stage>>

NoMoreParts ==
  /\ stage = "parts"
  /\ ReadEnds
  /\ Part = <<>>
  /\ stage' = "sending"
  /\ UNCHANGED <<audio, wrapper, initial, object, sizes>>

(* Every request of the upload has been answered.                          *)
Complete ==
  /\ stage = "sending"
  /\ stage' = "stored"
  /\ UNCHANGED <<audio, wrapper, initial, object, sizes>>

(* A request fails, or the worker stops: nothing is stored.  Parts are     *)
(* sent while others are read.                                             *)
Fail ==
  /\ stage \in {"probe", "rest", "parts", "sending"}
  /\ stage' = "aborted"
  /\ UNCHANGED <<audio, wrapper, initial, object, sizes>>

-----------------------------------------------------------------------------
Over == stage \in {"stored", "aborted"} /\ UNCHANGED vars

Read == Yield \/ Stop

Put ==
  \/ Probe \/ PutObject
  \/ PartOfInitial \/ PartFromSource \/ NoMoreParts
  \/ Complete

Next == Read \/ Break \/ Put \/ Fail \/ Over

Spec == Init /\ [][Next]_vars

(* The inference server goes on until it ends or breaks off (Soprano's     *)
(* RequestsEnd), and so does the upload.                                   *)
Fairness == WF_vars(Read \/ Put)

FairSpec == Spec /\ Fairness

-----------------------------------------------------------------------------
Stages == {"probe", "rest", "parts", "sending", "stored", "aborted"}

(* Type invariant.  Besides the types: read() without a size, which leaves *)
(* the buffer as it is, finds nothing in it (util.py lines 28-29), and no  *)
(* read asks for nothing, which would look like the end of the stream.     *)
TypeOK ==
  /\ audio \in Seq(Nat) /\ wire \in Seq(Nat)
  /\ source \in {"open", "exhausted", "broken"}
  /\ buffer \in Seq(Nat)
  /\ stage \in Stages
  /\ initial \in Seq(Nat) /\ object \in Seq(Nat)
  /\ sizes \in Seq(Nat)
  /\ stage = "rest" => buffer = <<>>
  /\ Sized => Size > 0

(* The reads of the stream are the stream: what is in parts, read ahead,   *)
(* buffered and still to come is the audio, in order and once              *)
(* (util.py lines 27-37).                                                  *)
ReadsAreTheStream ==
  object \o (initial \o (buffer \o wire)) = audio

(* What is stored under the file key is all the audio, and the server      *)
(* ended it properly: a response that breaks off, or a wrapper that ends   *)
(* too soon, does not leave a shorter recording that would be published    *)
(* (util.py lines 31-34, 113-122).                                         *)
StoredIsWhole ==
  stage = "stored" => object = audio /\ source = "exhausted"

(* However the sizes of pieces and parts relate, no part but the last is   *)
(* short, which S3 would refuse (util.py lines 30-34: while, not if).      *)
PartsAreFull ==
  \A i \in 1..Len(sizes) : i < Len(sizes) => sizes[i] = PartSize

(* util.py lines 117-119: the whole recording is never in memory.  What is *)
(* buffered and what goes into one request is bounded by the sizes of      *)
(* parts and pieces, not by the length of the audio.                       *)
MemoryIsBounded ==
  /\ Len(initial) + Len(buffer) < Larger(Threshold, PartSize) + ChunkSize
  /\ \A i \in 1..Len(sizes) : sizes[i] <= Larger(Threshold, PartSize)

(* However the sizes relate, no read and no part leaves everything as far  *)
(* from the end as it was: of n bytes the upload makes 2 * n + 4 steps at  *)
(* most, then it has stored them or given up (util.py lines 27-37).        *)
StagesLeft ==
  [probe |-> 3, rest |-> 2, parts |-> 2, sending |-> 1, stored |-> 0,
   aborted |-> 0]

Remaining ==
  2 * Len(wire) + Len(buffer) + Len(initial)
    + (IF source = "open" THEN 1 ELSE 0) + StagesLeft[stage]

EveryStepAdvances == [][Remaining' < Remaining]_vars

(* A read does not go on after the stream has ended: the upload ends.      *)
UploadEnds == <>(stage \in {"stored", "aborted"})
=============================================================================
