------------------------------- MODULE Ledger -------------------------------
(***************************************************************************)
(* What the quota_usage_events table promises, whatever interleaving of    *)
(* requests, refund tasks, retries and crashes produced it: a job is       *)
(* charged at most once, and it is credited at most once, after it was     *)
(* charged and with exactly the amount it was charged.                     *)
(*                                                                         *)
(* Quota.tla is the detailed specification that implements this one.       *)
(***************************************************************************)
EXTENDS Naturals

CONSTANTS
  Jobs,      \* the jobs that may ever be submitted
  Amounts    \* the amounts a job may be charged, in characters

VARIABLES
  charged,   \* charged[j]: sum of the USAGE rows of job j, 0 when there is none
  credited   \* credited[j]: sum of the REFUND rows of job j, 0 when there is none

ledgerVars == <<charged, credited>>

Init ==
  /\ charged = [j \in Jobs |-> 0]
  /\ credited = [j \in Jobs |-> 0]

(* A submission is accepted.                                               *)
Charge(j) ==
  /\ charged[j] = 0
  /\ \E n \in Amounts : charged' = [charged EXCEPT ![j] = n]
  /\ UNCHANGED credited

(* The job failed for good and its owner is paid back.                     *)
Credit(j) ==
  /\ charged[j] > 0
  /\ credited[j] = 0
  /\ credited' = [credited EXCEPT ![j] = charged[j]]
  /\ UNCHANGED charged

Next == \E j \in Jobs : Charge(j) \/ Credit(j)

Spec == Init /\ [][Next]_ledgerVars
=============================================================================
