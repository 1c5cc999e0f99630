------------------------------ MODULE MCGateway ------------------------------
(* Instances of Gateway for TLC.  All calls belong to one agent and one     *)
(* trace: lookup reads sensitive data, post and mail send data out, mail    *)
(* through a tool with a smaller budget.                                    *)
EXTENDS Gateway, TLC

CONSTANTS a1, lookup, post, mail

Owners == [t \in Token |-> a1]
Agents == [c \in Call |-> a1]
ToolOf(c) == IF c = lookup THEN "crm" ELSE IF c = mail THEN "mailer" ELSE "forum"
Tools == [c \in Call |-> ToolOf(c)]
ToolNames == {"crm"} \cup {ToolOf(c) : c \in Call}
Traces == [c \in Call |-> "trace"]
Requests == [c \in Call |-> IF c = lookup THEN 1 ELSE IF c = mail THEN 2 ELSE 3]
Reads == Call \cap {lookup}
Egresses == Call \ {lookup}
Singles == [t \in Tool |-> 2]
Hourlies == [t \in Tool |-> IF t = "mailer" THEN 2 ELSE 3]
Sizes == [c \in Call |-> IF c = lookup THEN 0 ELSE 2]

ThreadSymmetry == Permutations(Handler) \cup Permutations(Admin)
                    \cup Permutations(Approval)

(* Views of the state that leave out what neither the guards of Gateway nor *)
(* the properties of the run look at: counters and ghosts, which approval   *)
(* row of the reusable ones a row is, how a finished execution ended.       *)
UsedApprovals ==
  [p \in Approval |-> IF p \in Reusable THEN {} ELSE {approvals[p]}]

Claimed == {r \in RequestId : executions[r] # "none"}
Running == {r \in RequestId : executions[r] = "running"}

CommonView == <<containments, quarantined, tokens, agentStatus, response,
                admin, mode, work, UsedApprovals, ledger, sensitive>>

ExecutionView == <<CommonView, Claimed, Running, invoked>>
SequenceView == <<CommonView, Claimed, returned>>
BlockedView == <<CommonView, Claimed, barred>>

=============================================================================
