----------------------------- MODULE JobContract -----------------------------
(***************************************************************************)
(* What the pipeline promises about one job to those who read its row,     *)
(* fetch its audio, pay its refund or wait for its callback, whatever is   *)
(* retried, redelivered or lost:                                           *)
(*   - the row names a file only once it is public, and the named file is  *)
(*     never withdrawn;                                                    *)
(*   - FAILURE comes after the refund, the callback after a file;          *)
(*   - SUCCESS and FAILURE are final until the job is contested, that is,  *)
(*     until two deliveries of it were processed at the same time.         *)
(*                                                                         *)
(* Pipeline.tla is the detailed specification that implements this one.    *)
(***************************************************************************)
VARIABLES
  state,      \* of the job, "none" before it was submitted
  audio,      \* the file the row names, 0 when there is none
  public,     \* the files that anyone may fetch
  refund,     \* a refund was ordered
  webhook,    \* the callback was ordered
  contested

jobVars == <<state, audio, public, refund, webhook, contested>>

Unfinished == {"created", "pending", "executing"}
Editable == state \in Unfinished \/ contested

Init ==
  /\ state = "none" /\ audio = 0 /\ public = {}
  /\ refund = FALSE /\ webhook = FALSE /\ contested = FALSE

Submit ==
  /\ state = "none"
  /\ state' = "created"
  /\ UNCHANGED <<audio, public, refund, webhook, contested>>

(* A delivery meets another one that is still at work.                     *)
Contest ==
  /\ contested' = TRUE
  /\ UNCHANGED <<state, audio, public, refund, webhook>>

(* An attempt begins or fails.                                             *)
Attempt ==
  /\ Editable
  /\ state' \in {"pending", "executing"}
  /\ contested' \in {contested, TRUE}
  /\ UNCHANGED <<audio, public, refund, webhook>>

Publish ==
  /\ public \subseteq public'
  /\ UNCHANGED <<state, audio, refund, webhook, contested>>

(* Files that the row does not name may go.                                *)
Withdraw ==
  /\ public' \subseteq public
  /\ audio \notin public \ public'
  /\ UNCHANGED <<state, audio, refund, webhook, contested>>

Succeed ==
  /\ Editable
  /\ state' = "success"
  /\ audio' \in public \ {0, audio}
  /\ UNCHANGED <<public, refund, webhook, contested>>

Refund ==
  /\ refund' = TRUE
  /\ UNCHANGED <<state, audio, public, webhook, contested>>

Fail ==
  /\ Editable
  /\ refund
  /\ state' = "failure"
  /\ UNCHANGED <<audio, public, refund, webhook, contested>>

Announce ==
  /\ audio # 0
  /\ webhook' = TRUE
  /\ UNCHANGED <<state, audio, public, refund, contested>>

Next ==
  \/ Submit \/ Contest \/ Attempt \/ Publish \/ Withdraw
  \/ Succeed \/ Refund \/ Fail \/ Announce

Spec == Init /\ [][Next]_jobVars
=============================================================================
