----------------------------- MODULE FifoPermit -----------------------------
(***************************************************************************)
(* What a semaphore with one permit promises to those who ask for it: they *)
(* are served in the order in which they asked, nobody is forgotten, and   *)
(* whoever leaves, served or not, changes nothing for the others.          *)
(*                                                                         *)
(* Soprano.tla is the detailed specification that implements this one.     *)
(***************************************************************************)
EXTENDS SequencesExt

CONSTANT Clients

VARIABLE line    \* clients in order of arrival; the first has the permit

Init == line = <<>>

Arrive(c) ==
  /\ \A i \in DOMAIN line : line[i] # c
  /\ line' = Append(line, c)

Leave == \E i \in DOMAIN line : line' = RemoveAt(line, i)

Next == Leave \/ \E c \in Clients : Arrive(c)

Spec == Init /\ [][Next]_line
=============================================================================
