------------------------------- MODULE MCQuota -------------------------------
(***************************************************************************)
(* TLC instance of Quota: one user with two requests, each for 2 or 3      *)
(* characters out of an initial quota of 4, and two refund workers.  Two   *)
(* long texts do not both fit, a refund makes room for a text that would   *)
(* not, and two refund tasks can run for the same job or for two jobs of   *)
(* the same user.                                                          *)
(***************************************************************************)
EXTENDS Quota, TLC

CONSTANTS alice, r1, r2

MCUserOf == (r1 :> alice) @@ (r2 :> alice)
=============================================================================
