-------------------------- MODULE AudioStreamProofs --------------------------
(***************************************************************************)
(* Proofs about AudioStream, for recordings of any length and any sizes of *)
(* pieces, parts and threshold.                                            *)
(***************************************************************************)
EXTENDS AudioStream, SequenceTheorems, TLAPS

Typed ==
  /\ audio \in Seq(Nat) /\ wire \in Seq(Nat)
  /\ source \in {"open", "exhausted", "broken"}
  /\ buffer \in Seq(Nat)
  /\ stage \in Stages
  /\ initial \in Seq(Nat) /\ object \in Seq(Nat)
  /\ sizes \in Seq(Nat)

(* Where the upload is tells what it has, and how the stream is.           *)
StageInv ==
  /\ source = "exhausted" => wire = <<>>
  /\ source = "broken" => stage = "aborted"
  /\ stage = "probe" => initial = <<>> /\ object = <<>> /\ sizes = <<>>
  /\ stage = "rest" =>
       /\ source = "exhausted" /\ buffer = <<>>
       /\ object = <<>> /\ sizes = <<>> /\ Len(initial) < Threshold
  /\ stage \in {"sending", "stored"} =>
       source = "exhausted" /\ buffer = <<>> /\ initial = <<>>

(* A short part was read at the end of the stream, so there is no other.   *)
PartInv ==
  /\ PartsAreFull
  /\ stage = "parts" =>
       \/ \A i \in 1..Len(sizes) : sizes[i] = PartSize
       \/ source = "exhausted" /\ buffer = <<>> /\ initial = <<>>

(* The buffer holds less than a read asks for and one piece.               *)
MemoryInv ==
  /\ MemoryIsBounded
  /\ Len(initial) <= Threshold
  /\ stage = "probe" => Len(buffer) < Threshold + ChunkSize
  /\ stage = "parts" =>
       \/ Len(buffer) < ChunkSize
       \/ Len(initial) + Len(buffer) < PartSize + ChunkSize

IInv == Typed /\ StageInv /\ ReadsAreTheStream /\ PartInv /\ MemoryInv

-----------------------------------------------------------------------------
(* A sequence is its prefix and the rest of it.                            *)
LEMMA SplitFacts ==
  ASSUME NEW s \in Seq(Nat), NEW n \in Nat
  PROVE  /\ Prefix(s, n) \in Seq(Nat) /\ Rest(s, n) \in Seq(Nat)
         /\ Len(Prefix(s, n)) = Smaller(n, Len(s))
         /\ Len(Rest(s, n)) = Len(s) - Smaller(n, Len(s))
         /\ Prefix(s, n) \o Rest(s, n) = s
<1> DEFINE k == Smaller(n, Len(s))
<1>1. k \in 0..Len(s)
  BY DEF Smaller
<1>2. \A i \in 1..Len(s) : s[i] \in Nat
  BY ElementOfSeq
<1>3. /\ SubSeq(s, 1, k) \in Seq(Nat) /\ Len(SubSeq(s, 1, k)) = k
      /\ SubSeq(s, k + 1, Len(s)) \in Seq(Nat)
      /\ Len(SubSeq(s, k + 1, Len(s))) = Len(s) - k
  <2>1. k \in Int /\ 1 \in Int /\ k + 1 \in Int /\ Len(s) \in Int
    BY <1>1
  <2>2. \A i \in 1..k : s[i] \in Nat
    BY <1>1, <1>2
  <2>3. \A i \in (k + 1)..Len(s) : s[i] \in Nat
    BY <1>1, <1>2
  <2> HIDE DEF k
  <2>4. /\ SubSeq(s, 1, k) \in Seq(Nat)
        /\ Len(SubSeq(s, 1, k)) = IF 1 <= k THEN k - 1 + 1 ELSE 0
    BY <2>1, <2>2, SubSeqProperties
  <2>5. /\ SubSeq(s, k + 1, Len(s)) \in Seq(Nat)
        /\ Len(SubSeq(s, k + 1, Len(s)))
             = IF k + 1 <= Len(s) THEN Len(s) - (k + 1) + 1 ELSE 0
    BY <2>1, <2>3, SubSeqProperties
  <2> QED
    BY <1>1, <2>4, <2>5
<1>4. SubSeq(s, 1, k) \o SubSeq(s, k + 1, Len(s)) = SubSeq(s, 1, Len(s))
  <2>1. /\ 1 \in 1..(Len(s) + 1) /\ k \in (1 - 1)..Len(s)
        /\ Len(s) \in k..Len(s)
    BY <1>1
  <2> HIDE DEF k
  <2> QED
    BY <2>1, ConcatAdjacentSubSeq
<1>5. SubSeq(s, 1, Len(s)) = s
  BY SubSeqFull
<1> QED
  BY <1>3, <1>4, <1>5 DEF Prefix, Rest

(* Nothing is left after a prefix that is long enough, and an empty prefix *)
(* of more than nothing was taken from nothing.                            *)
LEMMA ShortFacts ==
  ASSUME NEW s \in Seq(Nat), NEW n \in Nat \ {0}
  PROVE  /\ Len(s) <= n => Rest(s, n) = <<>> /\ Prefix(s, n) = s
         /\ Prefix(s, n) = <<>> => s = <<>>
<1>1. /\ Prefix(s, n) \in Seq(Nat) /\ Rest(s, n) \in Seq(Nat)
      /\ Len(Prefix(s, n)) = Smaller(n, Len(s))
      /\ Len(Rest(s, n)) = Len(s) - Smaller(n, Len(s))
      /\ Prefix(s, n) \o Rest(s, n) = s
  BY SplitFacts
<1>2. Len(s) \in Nat
  BY LenProperties
<1>3. ASSUME Len(s) <= n
      PROVE  Rest(s, n) = <<>> /\ Prefix(s, n) = s
  <2>1. Len(Rest(s, n)) = 0
    BY <1>1, <1>2, <1>3 DEF Smaller
  <2>2. Rest(s, n) = <<>>
    BY <1>1, <2>1, EmptySeq
  <2> QED
    BY <1>1, <2>2, ConcatEmptySeq
<1>4. ASSUME Prefix(s, n) = <<>>
      PROVE  s = <<>>
  <2>1. Smaller(n, Len(s)) = 0
    BY <1>1, <1>4, EmptySeq
  <2>2. Len(s) = 0
    BY <1>2, <2>1 DEF Smaller
  <2> QED
    BY <2>2, EmptySeq
<1> QED
  BY <1>3, <1>4

(* A sized read asks for at least one byte.                                *)
LEMMA SizeFacts ==
  ASSUME Typed
  PROVE  Sized => Size \in Nat \ {0}
<1>1. Len(initial) \in Nat
  BY LenProperties DEF Typed
<1> QED
  BY <1>1, AudioStreamAssumption DEF Sized, Size, FromInitial

(* The initial state satisfies the invariant.                              *)
LEMMA InitHolds == Init => IInv
<1> SUFFICES ASSUME Init PROVE IInv
  OBVIOUS
<1>1. PICK n \in 0..MaxLength : audio = [i \in 1..n |-> i]
  BY DEF Init
<1>2. audio \in Seq(Nat)
  <2>1. n \in Nat
    BY AudioStreamAssumption
  <2>2. \A i \in 1..n : i \in Nat
    BY <2>1
  <2> QED
    BY <1>1, <2>1, <2>2, IsASeq
<1>3. <<>> \in Seq(Nat) /\ Len(<<>>) = 0
  BY EmptySeq
<1>4. Typed
  BY <1>2, <1>3 DEF Init, Typed, Stages
<1>5. StageInv
  BY DEF Init, StageInv
<1>6. ReadsAreTheStream
  BY <1>2, ConcatEmptySeq DEF Init, ReadsAreTheStream
<1>7. PartInv
  BY <1>3 DEF Init, PartInv, PartsAreFull
<1>8. MemoryInv
  BY <1>3, AudioStreamAssumption DEF Init, MemoryInv, MemoryIsBounded, Larger
<1> QED
  BY <1>4, <1>5, <1>6, <1>7, <1>8 DEF IInv

-----------------------------------------------------------------------------
(* Every action keeps the variables in their types.                        *)
LEMMA TypedStep == Typed /\ [Next]_vars => Typed'
<1> SUFFICES ASSUME Typed, [Next]_vars PROVE Typed'
  OBVIOUS
<1> USE DEF wrapper, upload
<1>1. CASE Yield
  <2>1. Prefix(wire, ChunkSize) \in Seq(Nat) /\ Rest(wire, ChunkSize) \in Seq(Nat)
    BY SplitFacts, AudioStreamAssumption DEF Typed
  <2>2. buffer \o Prefix(wire, ChunkSize) \in Seq(Nat)
    BY <2>1, ConcatProperties DEF Typed
  <2> QED
    BY <1>1, <2>1, <2>2 DEF Typed, Yield
<1>2. CASE Stop
  BY <1>2 DEF Typed, Stop, NoticedEnd
<1>3. CASE Break
  BY <1>3 DEF Typed, Break, Unwinds, Stages
<1>4. CASE Probe
  <2>1. Size \in Nat
    BY <1>4, SizeFacts DEF Probe, Sized
  <2>2. Prefix(buffer, Size) \in Seq(Nat) /\ Rest(buffer, Size) \in Seq(Nat)
    BY <2>1, SplitFacts DEF Typed
  <2> QED
    BY <1>4, <2>2 DEF Typed, Probe, Result, Consumed, Stages
<1>5. CASE PutObject
  <2>1. buffer \o wire \in Seq(Nat)
    BY ConcatProperties DEF Typed
  <2>2. initial \o (buffer \o wire) \in Seq(Nat)
    BY <2>1, ConcatProperties DEF Typed
  <2>3. Len(object') \in Nat /\ object' \in Seq(Nat)
    BY <1>5, <2>2, LenProperties DEF PutObject
  <2>4. <<Len(object')>> \in Seq(Nat) /\ <<>> \in Seq(Nat)
    BY <2>3
  <2> QED
    BY <1>5, <2>3, <2>4 DEF Typed, PutObject, Stages
<1>6. ASSUME NEW bytes \in Seq(Nat), AddPart(bytes)
      PROVE  object' \in Seq(Nat) /\ sizes' \in Seq(Nat)
  <2>1. Len(bytes) \in Nat
    BY <1>6, LenProperties
  <2>2. object \o bytes \in Seq(Nat) /\ Append(sizes, Len(bytes)) \in Seq(Nat)
    BY <1>6, <2>1, ConcatProperties, AppendProperties DEF Typed
  <2> QED
    BY <1>6, <2>2 DEF AddPart
<1>7. CASE PartOfInitial
  <2>1. Prefix(initial, PartSize) \in Seq(Nat) /\ Rest(initial, PartSize) \in Seq(Nat)
    BY SplitFacts, AudioStreamAssumption DEF Typed
  <2> QED
    BY <1>6, <1>7, <2>1 DEF Typed, PartOfInitial
<1>8. CASE PartFromSource
  <2>1. Size \in Nat
    BY <1>8, SizeFacts DEF PartFromSource, ReadEnds
  <2>2. Prefix(buffer, Size) \in Seq(Nat) /\ Rest(buffer, Size) \in Seq(Nat)
    BY <2>1, SplitFacts DEF Typed
  <2>3. Part \in Seq(Nat) /\ <<>> \in Seq(Nat)
    BY <2>2, ConcatProperties DEF Typed, Part, Result
  <2> QED
    BY <1>6, <1>8, <2>2, <2>3 DEF Typed, PartFromSource, Consumed
<1>9. CASE NoMoreParts
  BY <1>9 DEF Typed, NoMoreParts, Stages
<1>10. CASE Complete
  BY <1>10 DEF Typed, Complete, Stages
<1>11. CASE Fail
  BY <1>11 DEF Typed, Fail, Stages
<1>12. CASE UNCHANGED vars
  BY <1>12 DEF Typed, vars
<1> QED
  BY <1>1, <1>2, <1>3, <1>4, <1>5, <1>7, <1>8, <1>9, <1>10, <1>11, <1>12
     DEF Next, Read, Put, Over

(* What a sized read returns, and what it leaves.                          *)
LEMMA ReadFacts ==
  ASSUME Typed, Sized
  PROVE  /\ Size \in Nat \ {0}
         /\ Result \in Seq(Nat) /\ Consumed(Size) \in Seq(Nat)
         /\ Result \o Consumed(Size) = buffer
         /\ ReadEnds /\ source = "open" => Len(Result) = Size
         /\ Len(Result) < Size => Consumed(Size) = <<>> /\ Result = buffer
         /\ Result = <<>> => buffer = <<>>
         /\ Len(Consumed(Size)) = Len(buffer) - Len(Result)
         /\ Len(Result) = Smaller(Size, Len(buffer))
<1>1. Size \in Nat \ {0}
  BY SizeFacts
<1>2. buffer \in Seq(Nat) /\ Len(buffer) \in Nat
  BY LenProperties DEF Typed
<1>3. /\ Prefix(buffer, Size) \in Seq(Nat) /\ Rest(buffer, Size) \in Seq(Nat)
      /\ Len(Prefix(buffer, Size)) = Smaller(Size, Len(buffer))
      /\ Len(Rest(buffer, Size)) = Len(buffer) - Smaller(Size, Len(buffer))
      /\ Prefix(buffer, Size) \o Rest(buffer, Size) = buffer
  BY <1>1, <1>2, SplitFacts
<1>4. /\ Len(buffer) <= Size =>
           Rest(buffer, Size) = <<>> /\ Prefix(buffer, Size) = buffer
      /\ Prefix(buffer, Size) = <<>> => buffer = <<>>
  BY <1>1, <1>2, ShortFacts
<1>5. ReadEnds /\ source = "open" => Len(buffer) >= Size
  BY <1>1, <1>2 DEF ReadEnds, StillShort
<1>6. /\ Len(buffer) >= Size => Smaller(Size, Len(buffer)) = Size
      /\ Smaller(Size, Len(buffer)) < Size => Len(buffer) <= Size
  BY <1>1, <1>2 DEF Smaller
<1> QED
  BY <1>1, <1>3, <1>4, <1>5, <1>6 DEF Result, Consumed

(* Every action keeps what the stage tells.                                *)
LEMMA StageStep == Typed /\ StageInv /\ [Next]_vars => StageInv'
<1> SUFFICES ASSUME Typed, StageInv, [Next]_vars PROVE StageInv'
  OBVIOUS
<1> USE DEF wrapper, upload
<1>1. CASE Yield
  BY <1>1 DEF StageInv, Yield, Sized
<1>2. CASE Stop
  BY <1>2 DEF StageInv, Stop, NoticedEnd, Sized
<1>3. CASE Break
  BY <1>3 DEF StageInv, Break, Unwinds
<1>4. CASE Probe
  <2>1. Sized /\ Size = Threshold
    BY <1>4 DEF Probe, Sized, Size
  <2>2. /\ ReadEnds /\ source = "open" => Len(Result) = Size
        /\ Len(Result) < Size => Consumed(Size) = <<>>
        /\ Size \in Nat \ {0}
    BY <2>1, ReadFacts
  <2>3. source # "broken" /\ object = <<>> /\ sizes = <<>>
    BY <1>4 DEF StageInv, Probe
  <2>4. source = "open" => ~(Len(Result) < Size)
    BY <1>4, <2>2 DEF Probe
  <2>5. Len(Result) < Threshold => source = "exhausted"
    BY <2>1, <2>3, <2>4 DEF Typed
  <2> QED
    BY <1>4, <2>1, <2>2, <2>3, <2>5 DEF StageInv, Probe
<1>5. CASE PutObject
  BY <1>5 DEF StageInv, PutObject
<1>6. CASE PartOfInitial
  BY <1>6 DEF StageInv, PartOfInitial, FromInitial
<1>7. CASE PartFromSource
  BY <1>7 DEF StageInv, PartFromSource
<1>8. CASE NoMoreParts
  <2>1. Sized /\ ReadEnds /\ initial \o Result = <<>>
    BY <1>8 DEF NoMoreParts, ReadEnds, Part
  <2>2. /\ Size \in Nat \ {0} /\ Result \in Seq(Nat)
        /\ ReadEnds /\ source = "open" => Len(Result) = Size
        /\ Result = <<>> => buffer = <<>>
    BY <2>1, ReadFacts
  <2>3. initial = <<>> /\ Result = <<>>
    BY <2>1, <2>2, ConcatEqualIffEmpty DEF Typed
  <2>4. source # "open"
    BY <2>1, <2>2, <2>3, EmptySeq
  <2> QED
    BY <1>8, <2>2, <2>3, <2>4 DEF StageInv, NoMoreParts, Typed
<1>9. CASE Complete
  BY <1>9 DEF StageInv, Complete
<1>10. CASE Fail
  BY <1>10 DEF StageInv, Fail
<1>11. CASE UNCHANGED vars
  BY <1>11 DEF StageInv, vars
<1> QED
  BY <1>1, <1>2, <1>3, <1>4, <1>5, <1>6, <1>7, <1>8, <1>9, <1>10, <1>11
     DEF Next, Read, Put, Over

(* Concatenation by a name, which keeps the provers from unfolding it.     *)
Cat(s, t) == s \o t

(* A cut may be moved.                                                     *)
LEMMA CatFacts ==
  /\ \A s, t \in Seq(Nat) : Cat(s, t) \in Seq(Nat)
  /\ \A s, t, u \in Seq(Nat) : Cat(Cat(s, t), u) = Cat(s, Cat(t, u))
  /\ \A s \in Seq(Nat) : Cat(<<>>, s) = s /\ Cat(s, <<>>) = s
  /\ <<>> \in Seq(Nat)
<1>1. ASSUME NEW s \in Seq(Nat), NEW t \in Seq(Nat)
      PROVE  Cat(s, t) \in Seq(Nat)
  BY <1>1, ConcatProperties DEF Cat
<1>2. ASSUME NEW s \in Seq(Nat), NEW t \in Seq(Nat), NEW u \in Seq(Nat)
      PROVE  Cat(Cat(s, t), u) = Cat(s, Cat(t, u))
  BY <1>2, ConcatAssociative DEF Cat
<1>3. ASSUME NEW s \in Seq(Nat)
      PROVE  Cat(<<>>, s) = s /\ Cat(s, <<>>) = s
  BY <1>3, ConcatEmptySeq DEF Cat
<1>4. <<>> \in Seq(Nat)
  BY EmptySeq
<1> QED
  BY Zenon, <1>1, <1>2, <1>3, <1>4

(* Every action moves bytes from the front of one place to the end of the  *)
(* one before.                                                             *)
LEMMA StreamStep ==
  Typed /\ StageInv /\ ReadsAreTheStream /\ [Next]_vars => ReadsAreTheStream'
<1> SUFFICES ASSUME Typed, StageInv, ReadsAreTheStream, [Next]_vars
             PROVE  ReadsAreTheStream'
  OBVIOUS
<1>a. /\ wire \in Seq(Nat) /\ buffer \in Seq(Nat)
      /\ initial \in Seq(Nat) /\ object \in Seq(Nat)
  BY DEF Typed
<1>b. Cat(object, Cat(initial, Cat(buffer, wire))) = audio
  BY DEF Cat, ReadsAreTheStream
<1> SUFFICES Cat(object', Cat(initial', Cat(buffer', wire'))) = audio'
  BY DEF Cat, ReadsAreTheStream
<1>c. Cat(buffer, wire) \in Seq(Nat)
  BY Zenon, <1>a, CatFacts
<1>1. CASE Yield
  <2>1. PICK p, r \in Seq(Nat) :
          /\ Cat(p, r) = wire
          /\ buffer' = Cat(buffer, p) /\ wire' = r
          /\ UNCHANGED <<audio, initial, object>>
    BY <1>1, <1>a, SplitFacts, AudioStreamAssumption DEF Yield, Cat, upload
  <2>2. Cat(Cat(buffer, p), r) = Cat(buffer, wire)
    BY <1>a, <2>1, CatFacts
  <2> QED
    BY Zenon, <1>b, <2>1, <2>2
<1>2. CASE Stop \/ Break \/ NoMoreParts \/ Complete \/ Fail \/ UNCHANGED vars
  <2>1. UNCHANGED <<audio, wire, buffer, initial, object>>
    BY <1>2 DEF Stop, Break, NoMoreParts, Complete, Fail, vars, wrapper, upload
  <2> QED
    BY Zenon, <1>b, <2>1
<1>3. CASE Probe
  <2>1. PICK p, r \in Seq(Nat) :
          /\ Cat(p, r) = buffer
          /\ initial' = p /\ buffer' = r
          /\ UNCHANGED <<audio, wire, object>>
    BY <1>3, ReadFacts DEF Probe, Sized, Cat
  <2>2. initial = <<>>
    BY <1>3 DEF StageInv, Probe
  <2>3. Cat(p, Cat(r, wire)) = Cat(buffer, wire)
    BY <1>a, <2>1, CatFacts
  <2>4. Cat(initial, Cat(buffer, wire)) = Cat(buffer, wire)
    BY Zenon, <1>c, <2>2, CatFacts
  <2> QED
    BY Zenon, <1>b, <2>1, <2>3, <2>4
<1>4. CASE PutObject
  <2>1. object = <<>> /\ buffer = <<>>
    BY <1>4 DEF StageInv, PutObject
  <2>2. /\ object' = Cat(initial, Cat(buffer, wire))
        /\ initial' = <<>> /\ wire' = <<>> /\ buffer' = <<>>
        /\ audio' = audio
    BY <1>4, <2>1 DEF PutObject, Cat
  <2>3. object' = audio /\ audio \in Seq(Nat)
    BY Zenon, <1>a, <1>b, <1>c, <2>1, <2>2, CatFacts
  <2>4. Cat(<<>>, <<>>) = <<>>
    BY Zenon, CatFacts
  <2>5. Cat(audio, <<>>) = audio
    BY Zenon, <2>3, CatFacts
  <2> QED
    BY Zenon, <2>2, <2>3, <2>4, <2>5
<1>5. CASE PartOfInitial
  <2>1. PICK p, r \in Seq(Nat) :
          /\ Cat(p, r) = initial
          /\ object' = Cat(object, p) /\ initial' = r
          /\ UNCHANGED <<audio, buffer, wire>>
    BY <1>5, <1>a, SplitFacts, AudioStreamAssumption
       DEF PartOfInitial, AddPart, Cat, wrapper
  <2>2. Cat(r, Cat(buffer, wire)) \in Seq(Nat)
    BY Zenon, <1>c, <2>1, CatFacts
  <2>3. Cat(p, Cat(r, Cat(buffer, wire))) = Cat(initial, Cat(buffer, wire))
    BY Zenon, <1>c, <2>1, CatFacts
  <2>4. Cat(Cat(object, p), Cat(r, Cat(buffer, wire)))
          = Cat(object, Cat(p, Cat(r, Cat(buffer, wire))))
    BY <1>a, <2>1, <2>2, CatFacts
  <2> QED
    BY Zenon, <1>b, <2>1, <2>3, <2>4
<1>6. CASE PartFromSource
  <2>1. PICK p, r \in Seq(Nat) :
          /\ Cat(p, r) = buffer
          /\ object' = Cat(object, Cat(initial, p))
          /\ initial' = <<>> /\ buffer' = r
          /\ UNCHANGED <<audio, wire>>
    BY <1>6, ReadFacts DEF PartFromSource, ReadEnds, AddPart, Part, Cat
  <2>2. Cat(r, wire) \in Seq(Nat) /\ Cat(initial, p) \in Seq(Nat)
    BY Zenon, <1>a, <2>1, CatFacts
  <2>3. Cat(p, Cat(r, wire)) = Cat(buffer, wire)
    BY <1>a, <2>1, CatFacts
  <2>4. Cat(Cat(initial, p), Cat(r, wire)) = Cat(initial, Cat(buffer, wire))
    BY <1>a, <2>1, <2>2, <2>3, CatFacts
  <2>5. Cat(Cat(object, Cat(initial, p)), Cat(r, wire))
          = Cat(object, Cat(Cat(initial, p), Cat(r, wire)))
    BY <1>a, <2>2, CatFacts
  <2>6. Cat(<<>>, Cat(r, wire)) = Cat(r, wire)
    BY Zenon, <2>2, CatFacts
  <2> QED
    BY Zenon, <1>b, <2>1, <2>4, <2>5, <2>6
<1> QED
  BY <1>1, <1>2, <1>3, <1>4, <1>5, <1>6 DEF Next, Read, Put, Over

(* A part that is made is full, or it is the last.                         *)
LEMMA AppendFacts ==
  ASSUME Typed, NEW n \in Nat, sizes' = Append(sizes, n)
  PROVE  /\ Len(sizes) \in Nat /\ Len(sizes') = Len(sizes) + 1
         /\ \A i \in 1..Len(sizes) : sizes'[i] = sizes[i]
         /\ sizes'[Len(sizes) + 1] = n
  BY AppendProperties, LenProperties DEF Typed

(* No action makes a short part unless the stream has ended.               *)
LEMMA PartStep ==
  Typed /\ StageInv /\ PartInv /\ [Next]_vars => PartInv'
<1> SUFFICES ASSUME Typed, StageInv, PartInv, [Next]_vars PROVE PartInv'
  OBVIOUS
<1> USE DEF wrapper, upload
<1>0. /\ Len(initial) \in Nat /\ Len(buffer) \in Nat /\ PartSize \in Nat \ {0}
      /\ Len(sizes) \in Nat
  BY LenProperties, AudioStreamAssumption DEF Typed
<1>1. CASE Yield
  BY <1>1 DEF PartInv, PartsAreFull, Yield
<1>2. CASE Stop
  BY <1>2 DEF PartInv, PartsAreFull, Stop, NoticedEnd
<1>3. CASE Break
  BY <1>3 DEF PartInv, PartsAreFull, Break, Unwinds
<1>4. CASE Probe
  <2>1. sizes' = <<>>
    BY <1>4 DEF Probe, StageInv
  <2> QED
    BY <2>1, EmptySeq DEF PartInv, PartsAreFull
<1>5. CASE PutObject
  BY <1>5 DEF PartInv, PartsAreFull, PutObject
<1>6. CASE PartOfInitial
  <2>1. Len(Prefix(initial, PartSize)) = PartSize
    BY <1>0, <1>6, SplitFacts DEF PartOfInitial, FromInitial, Typed, Smaller
  <2>2. sizes' = Append(sizes, PartSize)
    BY <1>6, <2>1 DEF PartOfInitial, AddPart
  <2>3. stage = "parts" /\ initial # <<>>
    BY <1>0, <1>6, EmptySeq DEF PartOfInitial, FromInitial
  <2>4. \A i \in 1..Len(sizes) : sizes[i] = PartSize
    BY <2>3 DEF PartInv
  <2>5. \A i \in 1..Len(sizes') : sizes'[i] = PartSize
    BY <1>0, <2>2, <2>4, AppendFacts
  <2> QED
    BY <2>5 DEF PartInv, PartsAreFull
<1>7. CASE PartFromSource
  <2>1. Sized /\ ReadEnds /\ Part # <<>> /\ stage = "parts" /\ stage' = "parts"
    BY <1>7 DEF PartFromSource, ReadEnds
  <2>2. /\ Size \in Nat \ {0} /\ Result \in Seq(Nat)
        /\ source = "open" => Len(Result) = Size
        /\ Len(Result) < Size => Consumed(Size) = <<>>
        /\ Result = <<>> \/ buffer # <<>>
        /\ Len(Result) = Smaller(Size, Len(buffer))
        /\ Size = PartSize - Len(initial)
    BY <2>1, ReadFacts, EmptySeq, LenProperties DEF Size, Typed, Smaller
  <2>3. /\ Len(Part) = Len(initial) + Len(Result) /\ Part \in Seq(Nat)
        /\ Len(Result) \in Nat
    BY <2>2, ConcatProperties, LenProperties DEF Part, Typed
  <2>4. sizes' = Append(sizes, Len(Part)) /\ Len(Part) \in Nat
    BY <1>7, <2>3, LenProperties DEF PartFromSource, AddPart
  <2>5. \A i \in 1..Len(sizes) : sizes[i] = PartSize
    <3>1. ~(buffer = <<>> /\ initial = <<>>)
      <4>1. SUFFICES ASSUME buffer = <<>>, initial = <<>> PROVE FALSE
        OBVIOUS
      <4>2. Result = <<>>
        BY <2>2, <4>1
      <4> QED
        BY <2>1, <4>1, <4>2, EmptySeq, ConcatEmptySeq DEF Part
    <3> QED
      BY <2>1, <3>1 DEF PartInv
  <2>6. PartsAreFull'
    BY <1>0, <2>4, <2>5, AppendFacts DEF PartsAreFull
  <2>7. CASE Len(Part) = PartSize
    <3>1. \A i \in 1..Len(sizes') : sizes'[i] = PartSize
      BY <1>0, <2>4, <2>5, <2>7, AppendFacts
    <3> QED
      BY <2>6, <3>1 DEF PartInv
  <2>8. CASE Len(Part) # PartSize
    <3>1. Len(Result) < Size
      BY <1>0, <2>2, <2>3, <2>8 DEF Smaller
    <3>2. source # "open" /\ source # "broken"
      BY <2>1, <2>2, <3>1 DEF StageInv
    <3> QED
      BY <1>7, <2>2, <2>6, <3>1, <3>2 DEF PartInv, PartFromSource, Typed
  <2> QED
    BY <2>7, <2>8
<1>8. CASE NoMoreParts \/ Complete \/ Fail
  BY <1>8 DEF PartInv, PartsAreFull, NoMoreParts, Complete, Fail
<1>9. CASE UNCHANGED vars
  BY <1>9 DEF PartInv, PartsAreFull, vars
<1> QED
  BY <1>1, <1>2, <1>3, <1>4, <1>5, <1>6, <1>7, <1>8, <1>9
     DEF Next, Read, Put, Over

(* No action buffers more than a read and a piece, and no part is larger   *)
(* than what is read for it.                                               *)
LEMMA MemoryStep ==
  Typed /\ StageInv /\ MemoryInv /\ [Next]_vars => MemoryInv'
<1> SUFFICES ASSUME Typed, StageInv, MemoryInv, [Next]_vars PROVE MemoryInv'
  OBVIOUS
<1> USE DEF wrapper, upload
<1> DEFINE M == Larger(Threshold, PartSize)
<1>0. /\ Len(initial) \in Nat /\ Len(buffer) \in Nat /\ Len(wire) \in Nat
      /\ Len(sizes) \in Nat
      /\ ChunkSize \in Nat \ {0} /\ PartSize \in Nat \ {0}
      /\ Threshold \in Nat \ {0}
      /\ M \in Nat /\ M >= Threshold /\ M >= PartSize
  BY LenProperties, AudioStreamAssumption DEF Typed, Larger
<1>a. /\ Len(initial) + Len(buffer) < M + ChunkSize
      /\ \A i \in 1..Len(sizes) : sizes[i] <= M
      /\ Len(initial) <= Threshold
  BY DEF MemoryInv, MemoryIsBounded
<1> HIDE DEF M
<1>b. ASSUME NEW n \in Nat, n <= M, sizes' = Append(sizes, n)
      PROVE  \A i \in 1..Len(sizes') : sizes'[i] <= M
  <2>1. /\ Len(sizes') = Len(sizes) + 1
        /\ \A i \in 1..Len(sizes) : sizes'[i] = sizes[i]
        /\ sizes'[Len(sizes) + 1] = n
    BY <1>b, AppendFacts
  <2> QED
    BY <1>0, <1>a, <1>b, <2>1
<1>c. SUFFICES /\ Len(initial') + Len(buffer') < M + ChunkSize
               /\ \A i \in 1..Len(sizes') : sizes'[i] <= M
               /\ Len(initial') <= Threshold
               /\ stage' = "probe" => Len(buffer') < Threshold + ChunkSize
               /\ stage' = "parts" =>
                    \/ Len(buffer') < ChunkSize
                    \/ Len(initial') + Len(buffer') < PartSize + ChunkSize
  BY DEF MemoryInv, MemoryIsBounded, M
<1>1. CASE Yield
  <2>1. /\ Prefix(wire, ChunkSize) \in Seq(Nat)
        /\ Len(Prefix(wire, ChunkSize)) <= ChunkSize
        /\ Len(Prefix(wire, ChunkSize)) \in Nat
    BY <1>0, SplitFacts, LenProperties DEF Typed, Smaller
  <2>2. Len(buffer') = Len(buffer) + Len(Prefix(wire, ChunkSize))
    BY <1>1, <2>1, ConcatProperties DEF Yield, Typed
  <2>3. Size \in Nat \ {0} /\ Len(buffer) < Size
    BY <1>1, ReadFacts DEF Yield, StillShort
  <2>4. UNCHANGED <<stage, initial, sizes>>
    BY <1>1 DEF Yield
  <2>5. CASE stage = "probe"
    <3>1. Size = Threshold /\ initial = <<>>
      BY <2>5 DEF Size, StageInv
    <3>2. Len(initial) = 0
      BY <3>1, EmptySeq
    <3> QED
      BY <1>0, <1>a, <2>1, <2>2, <2>3, <2>4, <2>5, <3>1, <3>2
  <2>6. CASE stage = "parts"
    <3>1. Size = PartSize - Len(initial)
      BY <2>6 DEF Size
    <3> QED
      BY <1>0, <1>a, <2>1, <2>2, <2>3, <2>4, <2>6, <3>1
  <2> QED
    BY <1>1, <2>5, <2>6 DEF Yield, Sized
<1>2. CASE Stop \/ Break \/ NoMoreParts \/ Complete \/ Fail \/ UNCHANGED vars
  <2>1. /\ UNCHANGED <<buffer, initial, sizes>>
        /\ stage' = stage \/ stage' \in {"aborted", "sending", "stored"}
    BY <1>2 DEF Stop, Break, Unwinds, NoMoreParts, Complete, Fail, vars
  <2> QED
    BY <1>a, <2>1 DEF MemoryInv
<1>3. CASE Probe
  <2>1. Sized /\ Size = Threshold /\ stage = "probe"
    BY <1>3 DEF Probe, Sized, Size
  <2>2. /\ Len(Consumed(Size)) = Len(buffer) - Len(Result)
        /\ Len(Result) = Smaller(Size, Len(buffer))
    BY <2>1, ReadFacts
  <2>3. /\ initial' = Result /\ buffer' = Consumed(Size) /\ sizes' = sizes
        /\ stage' \in {"rest", "parts"}
    BY <1>3 DEF Probe
  <2>4. Len(buffer) < Threshold + ChunkSize
    BY <2>1 DEF MemoryInv
  <2>5. Len(Result) <= Threshold /\ Len(buffer') < ChunkSize
    BY <1>0, <2>1, <2>2, <2>3, <2>4 DEF Smaller
  <2>6. Len(initial') + Len(buffer') = Len(buffer)
    BY <1>0, <2>2, <2>3 DEF Smaller
  <2> QED
    BY <1>0, <1>a, <2>3, <2>4, <2>5, <2>6
<1>4. CASE PutObject
  <2>1. /\ source = "exhausted" /\ wire = <<>> /\ buffer = <<>>
        /\ Len(initial) < Threshold
    BY <1>4 DEF PutObject, StageInv
  <2>2. initial \o (buffer \o wire) = initial
    BY <2>1, ConcatEmptySeq, EmptySeq DEF Typed
  <2>3. /\ sizes' = <<Len(initial)>> /\ initial' = <<>> /\ buffer' = <<>>
        /\ stage' = "sending"
    BY <1>4, <2>1, <2>2 DEF PutObject
  <2>4. Len(initial') = 0 /\ Len(buffer') = 0
    BY <2>3, EmptySeq
  <2>5. \A i \in 1..Len(sizes') : sizes'[i] = Len(initial)
    BY <2>3
  <2> QED
    BY <1>0, <2>1, <2>3, <2>4, <2>5
<1>5. CASE PartOfInitial
  <2>1. /\ Len(Prefix(initial, PartSize)) = PartSize
        /\ Len(Rest(initial, PartSize)) = Len(initial) - PartSize
    <3>1. initial \in Seq(Nat) /\ PartSize <= Len(initial)
      BY <1>5 DEF PartOfInitial, FromInitial, Typed
    <3>2. Smaller(PartSize, Len(initial)) = PartSize
      BY <1>0, <3>1 DEF Smaller
    <3> QED
      BY <1>0, <3>1, <3>2, SplitFacts
  <2>2. /\ sizes' = Append(sizes, PartSize) /\ buffer' = buffer
        /\ initial' = Rest(initial, PartSize)
        /\ stage = "parts" /\ stage' = "parts" /\ PartSize <= Len(initial)
    BY <1>5, <2>1 DEF PartOfInitial, FromInitial, AddPart
  <2>3. Len(buffer) < ChunkSize
    BY <1>0, <2>2 DEF MemoryInv
  <2> QED
    BY <1>0, <1>a, <1>b, <2>1, <2>2, <2>3
<1>6. CASE PartFromSource
  <2>1. Sized /\ stage = "parts" /\ Size = PartSize - Len(initial)
    BY <1>6 DEF PartFromSource, ReadEnds, Size
  <2>2. /\ Size \in Nat \ {0} /\ Result \in Seq(Nat)
        /\ Len(Consumed(Size)) = Len(buffer) - Len(Result)
        /\ Len(Result) = Smaller(Size, Len(buffer))
    BY <2>1, ReadFacts
  <2>3. Len(Part) = Len(initial) + Len(Result) /\ Len(Result) \in Nat
    BY <2>2, ConcatProperties, LenProperties DEF Part, Typed
  <2>4. Len(Part) \in Nat /\ Len(Part) <= M
    BY <1>0, <2>1, <2>2, <2>3 DEF Smaller
  <2>5. /\ sizes' = Append(sizes, Len(Part))
        /\ initial' = <<>> /\ buffer' = Consumed(Size) /\ stage' = "parts"
    BY <1>6 DEF PartFromSource, AddPart
  <2>6. Len(initial') = 0
    BY <2>5, EmptySeq
  <2>7. Len(buffer') < ChunkSize
    <3>1. \/ Len(buffer) < ChunkSize
          \/ Len(initial) + Len(buffer) < PartSize + ChunkSize
      BY <2>1 DEF MemoryInv
    <3>2. CASE Size < Len(buffer)
      <4>1. Len(buffer') = Len(buffer) - Size
        BY <2>2, <2>5, <3>2 DEF Smaller
      <4> QED
        BY <1>0, <2>1, <2>2, <3>1, <4>1
    <3>3. CASE ~(Size < Len(buffer))
      <4>1. Len(buffer') = Len(buffer) - Len(buffer)
        BY <2>2, <2>5, <3>3 DEF Smaller
      <4> QED
        BY <1>0, <4>1
    <3> QED
      BY <3>2, <3>3
  <2>8. \A i \in 1..Len(sizes') : sizes'[i] <= M
    BY <1>b, <2>4, <2>5
  <2>9. Len(buffer') \in Nat
    BY <1>0, <2>2, <2>5 DEF Smaller
  <2> QED
    BY <1>0, <2>5, <2>6, <2>7, <2>8, <2>9
<1> QED
  BY <1>1, <1>2, <1>3, <1>4, <1>5, <1>6 DEF Next, Read, Put, Over

-----------------------------------------------------------------------------
(* The inductive invariant holds in every reachable state.                 *)
THEOREM Invariance == Spec => []IInv
<1>1. Init => IInv
  BY InitHolds
<1>2. IInv /\ [Next]_vars => IInv'
  BY TypedStep, StageStep, StreamStep, PartStep, MemoryStep DEF IInv
<1> QED
  BY <1>1, <1>2, PTL DEF Spec

(* AudioStream is type-correct, read() without a size finds an empty       *)
(* buffer, and no read asks for nothing.                                   *)
THEOREM TypeCorrect == Spec => []TypeOK
<1>1. IInv => TypeOK
  <2> SUFFICES ASSUME IInv PROVE TypeOK
    OBVIOUS
  <2>1. Typed /\ StageInv
    BY DEF IInv
  <2>2. Sized => Size > 0
    BY <2>1, SizeFacts
  <2> QED
    BY <2>1, <2>2 DEF TypeOK, Typed, StageInv
<1> QED
  BY <1>1, Invariance, PTL

(* What the upload has read and what is still to come is the audio.        *)
THEOREM StreamIsIntact == Spec => []ReadsAreTheStream
<1>1. IInv => ReadsAreTheStream
  BY DEF IInv
<1> QED
  BY <1>1, Invariance, PTL

(* An object is stored only when it is the whole recording and the server  *)
(* has ended it.                                                           *)
THEOREM NothingCutIsStored == Spec => []StoredIsWhole
<1>1. IInv => StoredIsWhole
  <2> SUFFICES ASSUME IInv, stage = "stored" PROVE StoredIsWhole
    BY DEF StoredIsWhole
  <2>1. /\ source = "exhausted" /\ wire = <<>> /\ buffer = <<>>
        /\ initial = <<>>
    BY DEF IInv, StageInv
  <2>2. object \in Seq(Nat) /\ object \o (initial \o (buffer \o wire)) = audio
    BY DEF IInv, Typed, ReadsAreTheStream
  <2> QED
    BY <2>1, <2>2, ConcatEmptySeq, EmptySeq DEF StoredIsWhole
<1> QED
  BY <1>1, Invariance, PTL

(* All parts but the last are full, whatever the sizes.                    *)
THEOREM NoShortParts == Spec => []PartsAreFull
<1>1. IInv => PartsAreFull
  BY DEF IInv, PartInv
<1> QED
  BY <1>1, Invariance, PTL

(* The memory an upload takes does not grow with the recording.            *)
THEOREM BoundedMemory == Spec => []MemoryIsBounded
<1>1. IInv => MemoryIsBounded
  BY DEF IInv, MemoryInv
<1> QED
  BY <1>1, Invariance, PTL

-----------------------------------------------------------------------------
(* What is left to do is a number, and the lengths in it are numbers.      *)
LEMMA RemainingFacts ==
  ASSUME Typed
  PROVE  /\ Len(wire) \in Nat /\ Len(buffer) \in Nat /\ Len(initial) \in Nat
         /\ StagesLeft[stage] \in 0..3
         /\ Remaining \in Nat
<1>1. Len(wire) \in Nat /\ Len(buffer) \in Nat /\ Len(initial) \in Nat
  BY LenProperties DEF Typed
<1>2. StagesLeft[stage] \in 0..3
  BY DEF Typed, Stages, StagesLeft
<1> QED
  BY <1>1, <1>2 DEF Remaining

LEMMA NextRemainingFacts ==
  ASSUME Typed'
  PROVE  /\ Len(wire') \in Nat /\ Len(buffer') \in Nat /\ Len(initial') \in Nat
         /\ StagesLeft[stage'] \in 0..3
         /\ Remaining' \in Nat
<1>1. Len(wire') \in Nat /\ Len(buffer') \in Nat /\ Len(initial') \in Nat
  BY LenProperties DEF Typed
<1>2. StagesLeft[stage'] \in 0..3
  BY DEF Typed, Stages, StagesLeft
<1> QED
  BY <1>1, <1>2 DEF Remaining

(* The steps of the iterator and of the upload, each with what it brings   *)
(* nearer to the end.                                                      *)
LEMMA StepAdvances ==
  ASSUME IInv, Typed', Next, ~ UNCHANGED vars
  PROVE  Remaining' < Remaining
<1> USE DEF wrapper, upload
<1>t. Typed
  BY DEF IInv
<1>n. /\ Len(wire) \in Nat /\ Len(buffer) \in Nat /\ Len(initial) \in Nat
      /\ StagesLeft[stage] \in 0..3
  BY <1>t, RemainingFacts
<1>p. /\ Len(wire') \in Nat /\ Len(buffer') \in Nat /\ Len(initial') \in Nat
      /\ StagesLeft[stage'] \in 0..3
  BY NextRemainingFacts
<1>e. Len(<<>>) = 0
  BY EmptySeq
(* The stage is left for a later one, and no byte goes back.               *)
<1>s. ASSUME StagesLeft[stage'] < StagesLeft[stage],
             2 * Len(wire') + Len(buffer') + Len(initial')
               <= 2 * Len(wire) + Len(buffer) + Len(initial),
             source' = "open" => source = "open"
      PROVE  Remaining' < Remaining
  <2> DEFINE o == IF source = "open" THEN 1 ELSE 0
             p == IF source' = "open" THEN 1 ELSE 0
             m == 2 * Len(wire) + Len(buffer) + Len(initial)
             n == 2 * Len(wire') + Len(buffer') + Len(initial')
  <2>1. o \in Int /\ p \in Int /\ p <= o
    BY <1>s
  <2>2. m \in Int /\ n \in Int /\ n <= m
    BY <1>n, <1>p, <1>s
  <2>3. Remaining = m + o + StagesLeft[stage]
        /\ Remaining' = n + p + StagesLeft[stage']
    BY DEF Remaining
  <2>4. StagesLeft[stage] \in Int /\ StagesLeft[stage'] \in Int
    BY <1>n, <1>p
  <2> HIDE DEF o, p, m, n
  <2> QED
    BY <1>s, <2>1, <2>2, <2>3, <2>4
(* The stage stays, and some bytes go on.                                  *)
<1>b. ASSUME stage' = stage, source' = source,
             2 * Len(wire') + Len(buffer') + Len(initial')
               < 2 * Len(wire) + Len(buffer) + Len(initial)
      PROVE  Remaining' < Remaining
  BY <1>n, <1>p, <1>b DEF Remaining
<1>1. CASE Yield
  <2>1. wire \in Seq(Nat) /\ wire # <<>> /\ ChunkSize \in Nat \ {0}
    BY <1>1, <1>t, AudioStreamAssumption DEF Typed, Yield
  <2>2. /\ Prefix(wire, ChunkSize) \in Seq(Nat)
        /\ Len(Prefix(wire, ChunkSize)) = Smaller(ChunkSize, Len(wire))
        /\ Len(wire') = Len(wire) - Smaller(ChunkSize, Len(wire))
    BY <1>1, <2>1, SplitFacts DEF Yield
  <2>3. Smaller(ChunkSize, Len(wire)) \in Nat \ {0}
    <3>1. Len(wire) # 0
      BY <2>1, EmptySeq
    <3> QED
      BY <1>n, <2>1, <3>1 DEF Smaller
  <2>4. Len(buffer') = Len(buffer) + Smaller(ChunkSize, Len(wire))
    BY <1>1, <1>t, <2>2, ConcatProperties DEF Typed, Yield
  <2>5. 2 * Len(wire') + Len(buffer') + Len(initial')
          < 2 * Len(wire) + Len(buffer) + Len(initial)
    <3> DEFINE k == Smaller(ChunkSize, Len(wire))
    <3>1. initial' = initial
      BY <1>1 DEF Yield
    <3>2. k \in Nat \ {0} /\ Len(wire') = Len(wire) - k /\ Len(buffer') = Len(buffer) + k
      BY <2>2, <2>3, <2>4
    <3> HIDE DEF k
    <3> QED
      BY <1>n, <3>1, <3>2
  <2> QED
    BY <1>1, <1>b, <2>5 DEF Yield
<1>2. CASE Stop
  BY <1>2, <1>n DEF Stop, NoticedEnd, Remaining
<1>3. CASE Break
  <2>1. stage \in {"probe", "parts"} /\ stage' = "aborted" /\ source' = "broken"
    BY <1>3 DEF Break, Unwinds, Sized
  <2>2. StagesLeft[stage'] < StagesLeft[stage]
    BY <2>1 DEF StagesLeft
  <2>3. wire' = wire /\ buffer' = buffer /\ initial' = initial
    BY <1>3 DEF Break
  <2> QED
    BY <1>s, <1>n, <2>1, <2>2, <2>3
<1>4. CASE Probe
  <2>1. Sized /\ stage = "probe" /\ initial = <<>>
    BY <1>4 DEF Probe, Sized, IInv, StageInv
  <2>2. /\ Len(Consumed(Size)) = Len(buffer) - Len(Result)
        /\ Len(Result) \in Nat
    BY <1>t, <2>1, ReadFacts, LenProperties
  <2>3. Len(buffer') + Len(initial') = Len(buffer) + Len(initial)
    BY <1>4, <1>e, <1>n, <2>1, <2>2 DEF Probe
  <2>4. stage' \in {"rest", "parts"} /\ source' = source /\ wire' = wire
    BY <1>4 DEF Probe
  <2>5. StagesLeft[stage'] < StagesLeft[stage]
    BY <2>1, <2>4 DEF StagesLeft
  <2>6. 2 * Len(wire') + Len(buffer') + Len(initial')
          <= 2 * Len(wire) + Len(buffer) + Len(initial)
    BY <1>n, <1>p, <2>3, <2>4
  <2> QED
    BY <1>s, <2>4, <2>5, <2>6
<1>5. CASE PutObject
  <2>1. /\ stage = "rest" /\ stage' = "sending" /\ initial' = <<>> /\ wire' = <<>>
        /\ buffer' = buffer /\ source' # "open"
    BY <1>5 DEF PutObject
  <2>2. StagesLeft[stage'] < StagesLeft[stage]
    BY <2>1 DEF StagesLeft
  <2> QED
    BY <1>s, <1>n, <1>e, <2>1, <2>2
<1>6. CASE PartOfInitial
  <2>1. initial \in Seq(Nat) /\ PartSize \in Nat \ {0} /\ PartSize <= Len(initial)
    BY <1>6, <1>t, AudioStreamAssumption DEF Typed, PartOfInitial, FromInitial
  <2>2. Len(initial') = Len(initial) - Smaller(PartSize, Len(initial))
    BY <1>6, <2>1, SplitFacts DEF PartOfInitial
  <2>3. Len(initial') < Len(initial)
    BY <1>n, <2>1, <2>2 DEF Smaller
  <2>4. wire' = wire /\ buffer' = buffer /\ stage' = stage /\ source' = source
    BY <1>6 DEF PartOfInitial
  <2> QED
    BY <1>b, <1>n, <1>p, <2>3, <2>4
<1>7. CASE PartFromSource
  <2>1. /\ Sized /\ Part # <<>> /\ initial' = <<>> /\ buffer' = Consumed(Size)
        /\ wire' = wire /\ stage' = stage /\ source' = source
    BY <1>7 DEF PartFromSource, ReadEnds
  <2>2. /\ Len(Consumed(Size)) = Len(buffer) - Len(Result)
        /\ Result \in Seq(Nat) /\ Len(Result) \in Nat
    BY <1>t, <2>1, ReadFacts, LenProperties
  <2>3. Len(Part) = Len(initial) + Len(Result) /\ Part \in Seq(Nat)
    BY <1>t, <2>2, ConcatProperties DEF Typed, Part
  <2>4. Len(Part) # 0
    BY <2>1, <2>3, EmptySeq
  <2>5. 2 * Len(wire') + Len(buffer') + Len(initial')
          < 2 * Len(wire) + Len(buffer) + Len(initial)
    BY <1>n, <1>e, <2>1, <2>2, <2>3, <2>4
  <2> QED
    BY <1>b, <2>1, <2>5
<1>8. CASE NoMoreParts \/ Complete \/ Fail
  <2>1. \/ stage' = "sending" /\ stage = "parts"
        \/ stage' = "stored" /\ stage = "sending"
        \/ stage' = "aborted" /\ stage \in {"probe", "rest", "parts", "sending"}
    BY <1>8 DEF NoMoreParts, Complete, Fail
  <2>2. StagesLeft[stage'] < StagesLeft[stage]
    BY <2>1 DEF StagesLeft
  <2>3. wire' = wire /\ buffer' = buffer /\ initial' = initial /\ source' = source
    BY <1>8 DEF NoMoreParts, Complete, Fail
  <2> QED
    BY <1>s, <1>n, <2>2, <2>3
<1>9. CASE Over
  BY <1>9 DEF Over
<1> QED
  BY <1>1, <1>2, <1>3, <1>4, <1>5, <1>6, <1>7, <1>8, <1>9 DEF Next, Read, Put

(* Every step of an upload, of any recording and with any sizes, brings it *)
(* nearer to its end.                                                      *)
THEOREM UploadAdvances == Spec => EveryStepAdvances
<1>1. IInv /\ IInv' /\ [Next]_vars => [Remaining' < Remaining]_vars
  BY StepAdvances DEF IInv
<1> QED
  BY <1>1, Invariance, PTL DEF Spec, EveryStepAdvances

(* What is left to do is never below nothing and never more than it was at *)
(* the start, so that an upload of n bytes makes at most 2 * n + 4 steps.  *)
RemainingIsBounded == Remaining \in 0..(2 * Len(audio) + 4)

THEOREM UploadIsShort == Spec => []RemainingIsBounded
<1>1. Init => RemainingIsBounded
  <2> SUFFICES ASSUME Init PROVE RemainingIsBounded
    OBVIOUS
  <2>1. IInv
    BY InitHolds
  <2>2. Len(<<>>) = 0
    BY EmptySeq
  <2>3. Remaining = 2 * Len(audio) + 0 + 0 + 1 + 3
    BY <2>2 DEF Init, Remaining, StagesLeft
  <2>4. Len(audio) \in Nat
    BY <2>1, LenProperties DEF IInv, Typed
  <2> QED
    BY <2>3, <2>4 DEF RemainingIsBounded
<1>2. RemainingIsBounded /\ IInv /\ IInv' /\ [Next]_vars => RemainingIsBounded'
  <2> SUFFICES ASSUME RemainingIsBounded, IInv, IInv', [Next]_vars
               PROVE  RemainingIsBounded'
    OBVIOUS
  <2>1. CASE UNCHANGED vars
    BY <2>1 DEF vars, wrapper, upload, RemainingIsBounded, Remaining
  <2>2. CASE Next /\ ~ UNCHANGED vars
    <3>1. Remaining' < Remaining
      BY <2>2, StepAdvances DEF IInv
    <3>2. Remaining \in Nat /\ Remaining' \in Nat /\ Len(audio) \in Nat
      <4>1. Typed /\ Typed'
        BY DEF IInv
      <4>2. Remaining \in Nat
        BY <4>1, RemainingFacts
      <4>3. Remaining' \in Nat
        BY <4>1, NextRemainingFacts
      <4> QED
        BY <4>1, <4>2, <4>3, LenProperties DEF Typed
    <3>3. audio' = audio
      BY <2>2 DEF Next, Read, Put, Over, Yield, Stop, Break, Probe, PutObject,
                  PartOfInitial, PartFromSource, NoMoreParts, Complete, Fail
    <3> QED
      BY <3>1, <3>2, <3>3 DEF RemainingIsBounded
  <2> QED
    BY <2>1, <2>2
<1> QED
  BY <1>1, <1>2, Invariance, PTL DEF Spec
=============================================================================
