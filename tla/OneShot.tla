------------------------------- MODULE OneShot -------------------------------
(***************************************************************************)
(* What `executions` promises about a request id: it is claimed once, its  *)
(* connector runs at most once and only under the claim, and its outcome   *)
(* is recorded once and agrees with what happened.  A claim whose owner    *)
(* stopped stays running for good: nothing may take it over.               *)
(***************************************************************************)
EXTENDS Naturals

CONSTANT RequestId

VARIABLES
  executions,  (* the row of each request id                                *)
  invoked      (* how often its connector ran                               *)

oneShotVars == <<executions, invoked>>

OneShotInit ==
  /\ executions = [r \in RequestId |-> "none"]
  /\ invoked = [r \in RequestId |-> 0]

Claim(r) ==
  /\ executions[r] = "none"
  /\ executions' = [executions EXCEPT ![r] = "running"]
  /\ UNCHANGED invoked

Run(r) ==
  /\ executions[r] = "running" /\ invoked[r] = 0
  /\ invoked' = [invoked EXCEPT ![r] = 1]
  /\ UNCHANGED executions

(* A success or a held-back output needs a connector that ran, a refused    *)
(* budget one that did not; a failure may come from either side of the call.*)
Record(r, outcome) ==
  /\ executions[r] = "running"
  /\ outcome \in {"succeeded", "output_blocked"} => invoked[r] = 1
  /\ outcome = "egress_budget_exceeded" => invoked[r] = 0
  /\ executions' = [executions EXCEPT ![r] = outcome]
  /\ UNCHANGED invoked

OneShotNext ==
  \E r \in RequestId :
    \/ Claim(r) \/ Run(r)
    \/ \E outcome \in {"succeeded", "output_blocked", "failed",
                       "egress_budget_exceeded"} : Record(r, outcome)

OneShotSpec == OneShotInit /\ [][OneShotNext]_oneShotVars

=============================================================================
