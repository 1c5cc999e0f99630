------------------------------- MODULE Gateway -------------------------------
(***************************************************************************)
(* GatewayService: what one tool call goes through from its submission to  *)
(* the connector, directly (execute) or later, on a reviewer's approval    *)
(* (execute_approved).  A step of a handler is one transaction of the      *)
(* store or one call of the connector, so that other handlers, reviewers,  *)
(* administrators and the passing of time come between any two of them.    *)
(* The policy engine's verdict is a free choice: it depends on provenance, *)
(* taint and MCP state that may differ at every evaluation.                *)
(***************************************************************************)
EXTENDS Containment, FiniteSetsExt

CONSTANTS
  Call,          (* tool calls agents submit, any number of times           *)
  Approval,      (* approval ids; bound on the approvals in use at a time   *)
  CallAgent,     (* the agent, tool, trace and request id of each call      *)
  CallTool,
  CallTrace,
  CallRequest,
  SensitiveRead, (* calls of tools in category sensitive_read               *)
  Egress,        (* calls of egress tools                                   *)
  Bytes,         (* canonical size of each call's arguments                 *)
  SingleLimit,   (* max_egress_bytes of each tool                           *)
  HourlyLimit,   (* hourly_egress_bytes of each tool                        *)
  ModesUsed,     (* enforcement modes the deployment runs in, in turn       *)
  NoApproval

RequestId == {CallRequest[c] : c \in Call}

(* Traces belong to an agent: two agents may give theirs the same name.     *)
TraceOf(c) == <<CallAgent[c], CallTrace[c]>>
Trace == {TraceOf(c) : c \in Call}

ASSUME GatewayAssumption ==
  /\ Call # {} /\ IsFiniteSet(Call)
  /\ CallAgent \in [Call -> Agent]
  /\ CallTool \in [Call -> Tool]
  /\ SensitiveRead \subseteq Call /\ Egress \subseteq Call
  /\ Bytes \in [Call -> Nat]
  /\ SingleLimit \in [Tool -> Nat] /\ HourlyLimit \in [Tool -> Nat]
  /\ ModesUsed \subseteq {"observe", "warn", "enforce"} /\ ModesUsed # {}
  /\ NoApproval \notin Approval

VARIABLES
  mode,        (* enforcement_mode of the running service                   *)
  work,        (* what each gateway thread is doing                         *)
  approvals,   (* `approvals_v2`                                            *)
  executions,  (* `executions`: one row at most for each request id         *)
  ledger,      (* `egress_events` of the last hour, by the call charged     *)
  sensitive,   (* traces with a sensitive_read in `action_events`           *)
  invoked,     (* ghost: times a connector ran for each request id (to 2)   *)
  returned,    (* ghost: traces of `sensitive` in which an agent also got   *)
               (* the result of an evaluated sensitive read                 *)
  barred       (* ghost: why each thread's agent has been blocked ever      *)
               (* since the thread began                                    *)

serviceVars == <<mode, approvals, executions, ledger, sensitive, invoked,
                 returned>>
vars == <<containmentVars, serviceVars, work, barred>>

Decision == {"none", "allow", "require_approval", "deny", "deny_uncounted"}
Outcome == {"succeeded", "output_blocked", "failed"}
Authorized == {"claim", "reserve", "overbudget", "invoke", "finish", "lineage"}
Pc == {"idle", "containment", "quarantine", "row", "policy", "budget",
       "sequence", "approve", "finalize", "responding", "recheck",
       "recheckrow", "reevaluate", "consume"} \cup Authorized
Work == [pc: Pc, call: Call, approval: Approval \cup {NoApproval},
         decision: Decision, outcome: Outcome, informed: BOOLEAN]
ApprovalRow == [call: Call,
                status: {"none", "pending", "approved", "rejected",
                         "consumed"},
                expired: BOOLEAN]
ExecutionStatus == {"none", "running", "egress_budget_exceeded"} \cup Outcome
Cause == {"row", "containment", "restriction"}

AnyCall == CHOOSE c \in Call : TRUE
Idle == [pc |-> "idle", call |-> AnyCall, approval |-> NoApproval,
         decision |-> "none", outcome |-> "failed", informed |-> FALSE]

Busy(h) == work[h].pc # "idle"
AgentOf(h) == CallAgent[work[h].call]
RequestOf(h) == CallRequest[work[h].call]
SpentThrough(a, tools) ==
  MapThenSumSet(LAMBDA c : Bytes[c],
                {c \in ledger : CallAgent[c] = a /\ CallTool[c] \in tools})

(* sum_agent_egress: whatever tool the bytes were charged for.              *)
Spent(a) == SpentThrough(a, Tool)

Goto(h, pc) == work' = [work EXCEPT ![h].pc = pc]
Return(h) == work' = [work EXCEPT ![h] = Idle]
Decide(h, d, pc) ==
  work' = [work EXCEPT ![h].decision = d, ![h].pc = pc]

-----------------------------------------------------------------------------
(* execute, first half: evaluate.                                           *)

(* Approval ids nobody will use again.  A new approval takes one of them,   *)
(* and where all are in use its creation waits: a bound of the instance.    *)
Reusable ==
  {p \in Approval :
     /\ \/ approvals[p].status \in {"none", "rejected", "consumed"}
        \/ approvals[p].expired
     /\ \A h \in Handler : work[h].approval # p}

Evaluating == {h \in Handler : Busy(h) /\ work[h].approval = NoApproval}

(* require_agent accepts the token, then the call is evaluated.             *)
Submit(h, c) ==
  /\ ~Busy(h)
  /\ \E t \in Token : TokenOwner[t] = CallAgent[c] /\ TokenActive(t)
  /\ work' = [work EXCEPT ![h] =
       [Idle EXCEPT !.pc = "containment", !.call = c,
                    !.informed = TraceOf(c) \in returned]]
  /\ UNCHANGED <<containmentVars, serviceVars>>

(* Mutant: a restriction is only consulted for an agent with a quarantine   *)
(* row.                                                                     *)
ReadContainmentUnrestricted(h) ==
  /\ work[h].pc = "containment"
  /\ IF Blocking(Active(AgentOf(h)).mode)
       THEN Decide(h, "deny_uncounted", "finalize")
       ELSE Goto(h, "quarantine")
  /\ UNCHANGED <<containmentVars, serviceVars>>

ReadContainment(h) ==
  /\ work[h].pc = "containment"
  /\ \/ /\ Blocking(Active(AgentOf(h)).mode)
        /\ Decide(h, "deny_uncounted", "finalize")
     \/ /\ RestrictedAway(AgentOf(h), CallTool[work[h].call])
        /\ Decide(h, "deny", "finalize")
     \/ /\ ~Blocking(Active(AgentOf(h)).mode)
        /\ ~RestrictedAway(AgentOf(h), CallTool[work[h].call])
        /\ Goto(h, "quarantine")
  /\ UNCHANGED <<containmentVars, serviceVars>>

(* is_quarantined reads the newest containment and then the quarantine row, *)
(* in two transactions.                                                     *)
ReadQuarantine(h) ==
  /\ work[h].pc = "quarantine"
  /\ IF Blocking(Active(AgentOf(h)).mode)
       THEN Decide(h, "deny_uncounted", "finalize")
       ELSE Goto(h, "row")
  /\ UNCHANGED <<containmentVars, serviceVars>>

(* Mutant: the newest containment alone decides.                            *)
IgnoreRow(h) ==
  /\ work[h].pc = "row"
  /\ Goto(h, "policy")
  /\ UNCHANGED <<containmentVars, serviceVars>>

ReadRow(h) ==
  /\ work[h].pc = "row"
  /\ IF quarantined[AgentOf(h)]
       THEN Decide(h, "deny_uncounted", "finalize")
       ELSE Goto(h, "policy")
  /\ UNCHANGED <<containmentVars, serviceVars>>

(* Where a call that was not denied goes once its decision is final.        *)
Route(d) ==
  IF d = "require_approval" /\ mode # "observe" THEN "approve" ELSE "finalize"

(* Rate limit, provenance, policy, MCP integrity and argument validation.   *)
(* A rate-limited or low-risk denial is not counted as a violation.         *)
EvaluatePolicy(h) ==
  /\ work[h].pc = "policy"
  /\ \E d \in Decision \ {"none"} :
       IF d \in {"allow", "require_approval"}
       THEN Decide(h, d, IF work[h].call \in Egress /\ mode # "observe"
                         THEN "budget" ELSE Route(d))
       ELSE Decide(h, d, "finalize")
  /\ UNCHANGED <<containmentVars, serviceVars>>

(* The budget read here is advisory; reserve_egress decides.  The limits    *)
(* are those of the called tool, the bytes those of all tools of its agent. *)
CheckBudget(h) ==
  LET c == work[h].call  tool == CallTool[work[h].call] IN
  /\ work[h].pc = "budget"
  /\ IF \/ Bytes[c] > SingleLimit[tool]
        \/ Spent(CallAgent[c]) + Bytes[c] > HourlyLimit[tool]
       THEN Decide(h, "deny", "finalize")
       ELSE Goto(h, "sequence")
  /\ UNCHANGED <<containmentVars, serviceVars>>

CheckSequence(h) ==
  LET d == IF TraceOf(work[h].call) \in sensitive
           THEN "require_approval" ELSE work[h].decision IN
  /\ work[h].pc = "sequence"
  /\ Decide(h, d, Route(d))
  /\ UNCHANGED <<containmentVars, serviceVars>>

CreateApproval(h) ==
  /\ work[h].pc = "approve"
  /\ \E p \in Reusable :
       approvals' = [approvals EXCEPT ![p] =
         [call |-> work[h].call, status |-> "pending", expired |-> FALSE]]
  /\ Goto(h, "finalize")
  /\ UNCHANGED <<containmentVars, mode, executions, ledger, sensitive,
                 invoked, returned>>

-----------------------------------------------------------------------------
(* _finalize records the action, answers a high-risk denial (Containment)   *)
(* and hands the decision back to execute.                                  *)

(* Mutant: the action is not recorded.                                      *)
FinalizeUnrecorded(h) ==
  LET c == work[h].call IN
  /\ work[h].pc = "finalize"
  /\ IF work[h].decision = "deny" /\ mode # "observe"
       THEN Goto(h, "responding") /\ StartResponse(h, CallAgent[c])
       ELSE /\ UNCHANGED containmentVars
            /\ IF work[h].decision = "allow" /\ mode # "observe"
                 THEN Goto(h, "claim") ELSE Return(h)
  /\ UNCHANGED <<mode, approvals, executions, ledger, sensitive, invoked,
                 returned>>

Finalize(h) ==
  LET c == work[h].call IN
  /\ work[h].pc = "finalize"
  /\ sensitive' = IF c \in SensitiveRead
                  THEN sensitive \cup {TraceOf(c)} ELSE sensitive
  /\ IF work[h].decision = "deny" /\ mode # "observe"
       THEN Goto(h, "responding") /\ StartResponse(h, CallAgent[c])
       ELSE /\ UNCHANGED containmentVars
            /\ IF work[h].decision = "allow" /\ mode # "observe"
                 THEN Goto(h, "claim") ELSE Return(h)
  /\ UNCHANGED <<mode, approvals, executions, ledger, invoked, returned>>

Responded(h) ==
  /\ work[h].pc = "responding"
  /\ FinishResponse(h)
  /\ Return(h)
  /\ UNCHANGED serviceVars

-----------------------------------------------------------------------------
(* Reviewers, and execute_approved up to the one-time execution claim.      *)

ResolveApproval(p, verdict) ==
  /\ approvals[p].status = "pending" /\ ~approvals[p].expired
  /\ approvals' = [approvals EXCEPT ![p].status = verdict]
  /\ UNCHANGED <<containmentVars, mode, executions, ledger, sensitive,
                 invoked, returned, work>>

Usable(p) == approvals[p].status = "approved" /\ ~approvals[p].expired

BeginApproved(h, p) ==
  /\ ~Busy(h)
  /\ Usable(p)
  /\ work' = [work EXCEPT ![h] =
       [Idle EXCEPT !.pc = "recheck", !.call = approvals[p].call,
                    !.approval = p]]
  /\ UNCHANGED <<containmentVars, serviceVars>>

RecheckQuarantine(h) ==
  /\ work[h].pc = "recheck"
  /\ IF Blocking(Active(AgentOf(h)).mode) THEN Return(h)
                                         ELSE Goto(h, "recheckrow")
  /\ UNCHANGED <<containmentVars, serviceVars>>

RecheckRow(h) ==
  /\ work[h].pc = "recheckrow"
  /\ IF quarantined[AgentOf(h)] THEN Return(h) ELSE Goto(h, "reevaluate")
  /\ UNCHANGED <<containmentVars, serviceVars>>

(* Provenance, policy and MCP integrity of today: a denial ends it.         *)
Reevaluate(h) ==
  /\ work[h].pc = "reevaluate"
  /\ Return(h) \/ Goto(h, "consume")
  /\ UNCHANGED <<containmentVars, serviceVars>>

(* Mutant: the status is not checked again in the consuming transaction.    *)
ConsumeUnchecked(h) ==
  /\ work[h].pc = "consume"
  /\ approvals' = [approvals EXCEPT ![work[h].approval].status = "consumed"]
  /\ Goto(h, "claim")
  /\ UNCHANGED <<containmentVars, mode, executions, ledger, sensitive,
                 invoked, returned>>

ConsumeApproval(h) ==
  LET p == work[h].approval IN
  /\ work[h].pc = "consume"
  /\ IF Usable(p)
       THEN /\ approvals' = [approvals EXCEPT ![p].status = "consumed"]
            /\ Goto(h, "claim")
       ELSE Return(h) /\ UNCHANGED approvals
  /\ UNCHANGED <<containmentVars, mode, executions, ledger, sensitive,
                 invoked, returned>>

-----------------------------------------------------------------------------
(* _execute_authorized.                                                     *)

(* Mutant: a failed or abandoned execution may be claimed again.            *)
ClaimAgain(h) ==
  /\ work[h].pc = "claim"
  /\ IF executions[RequestOf(h)] \in {"none", "running", "failed"}
       THEN /\ executions' = [executions EXCEPT ![RequestOf(h)] = "running"]
            /\ Goto(h, IF work[h].call \in Egress THEN "reserve" ELSE "invoke")
       ELSE Return(h) /\ UNCHANGED executions
  /\ UNCHANGED <<containmentVars, mode, approvals, ledger, sensitive, invoked,
                 returned>>

(* The primary key on request_id lets one claim through.                    *)
ClaimExecution(h) ==
  /\ work[h].pc = "claim"
  /\ IF executions[RequestOf(h)] = "none"
       THEN /\ executions' = [executions EXCEPT ![RequestOf(h)] = "running"]
            /\ Goto(h, IF work[h].call \in Egress THEN "reserve" ELSE "invoke")
       ELSE Return(h) /\ UNCHANGED executions
  /\ UNCHANGED <<containmentVars, mode, approvals, ledger, sensitive, invoked,
                 returned>>

(* Mutant: a budget is charged with the bytes of its own tool only.         *)
ReserveOwnTool(h) ==
  LET c == work[h].call IN
  /\ work[h].pc = "reserve"
  /\ IF SpentThrough(CallAgent[c], {CallTool[c]}) + Bytes[c] > HourlyLimit[CallTool[c]]
       THEN Goto(h, "overbudget") /\ UNCHANGED ledger
       ELSE Goto(h, "invoke") /\ ledger' = ledger \cup {c}
  /\ UNCHANGED <<containmentVars, mode, approvals, executions, sensitive,
                 invoked, returned>>

ReserveEgress(h) ==
  LET c == work[h].call IN
  /\ work[h].pc = "reserve"
  /\ IF Spent(CallAgent[c]) + Bytes[c] > HourlyLimit[CallTool[c]]
       THEN Goto(h, "overbudget") /\ UNCHANGED ledger
       ELSE Goto(h, "invoke") /\ ledger' = ledger \cup {c}
  /\ UNCHANGED <<containmentVars, mode, approvals, executions, sensitive,
                 invoked, returned>>

(* Mutant: a call over budget is recorded and executed nevertheless.        *)
RecordOverBudgetAndRun(h) ==
  /\ work[h].pc = "overbudget"
  /\ executions' =
       [executions EXCEPT ![RequestOf(h)] = "egress_budget_exceeded"]
  /\ Goto(h, "invoke")
  /\ UNCHANGED <<containmentVars, mode, approvals, ledger, sensitive, invoked,
                 returned>>

FinishOverBudget(h) ==
  /\ work[h].pc = "overbudget"
  /\ executions' =
       [executions EXCEPT ![RequestOf(h)] = "egress_budget_exceeded"]
  /\ Return(h)
  /\ UNCHANGED <<containmentVars, mode, approvals, ledger, sensitive, invoked,
                 returned>>

(* executor.execute: arguments that no longer validate never reach the      *)
(* connector; otherwise it runs and succeeds, fails, or its output is held  *)
(* back.                                                                    *)
InvokeConnector(h) ==
  /\ work[h].pc = "invoke"
  /\ \E o \in Outcome :
       /\ work' = [work EXCEPT ![h].pc = "finish", ![h].outcome = o]
       /\ \/ invoked' = [invoked EXCEPT ![RequestOf(h)] =
                           IF @ < 2 THEN @ + 1 ELSE @]
          \/ o = "failed" /\ UNCHANGED invoked
  /\ UNCHANGED <<containmentVars, mode, approvals, executions, ledger,
                 sensitive, returned>>

(* Mutant: the decision is written where the outcome belongs.               *)
FinishWithDecision(h) ==
  /\ work[h].pc = "finish"
  /\ executions' = [executions EXCEPT ![RequestOf(h)] = work[h].decision]
  /\ IF work[h].outcome = "succeeded" THEN Goto(h, "lineage") ELSE Return(h)
  /\ UNCHANGED <<containmentVars, mode, approvals, ledger, sensitive, invoked,
                 returned>>

FinishExecution(h) ==
  /\ work[h].pc = "finish"
  /\ executions' = [executions EXCEPT ![RequestOf(h)] = work[h].outcome]
  /\ IF work[h].outcome = "succeeded" THEN Goto(h, "lineage") ELSE Return(h)
  /\ UNCHANGED <<containmentVars, mode, approvals, ledger, sensitive, invoked,
                 returned>>

(* The result goes back to the agent once its lineage is recorded; a        *)
(* provenance token that expired meanwhile makes the request fail instead.  *)
RecordLineage(h) ==
  LET c == work[h].call IN
  /\ work[h].pc = "lineage"
  /\ Return(h)
  /\ \/ returned' = IF c \in SensitiveRead /\ work[h].approval = NoApproval
                    THEN returned \cup {TraceOf(c)} ELSE returned
     \/ UNCHANGED returned
  /\ UNCHANGED <<containmentVars, mode, approvals, executions, ledger,
                 sensitive, invoked>>

-----------------------------------------------------------------------------
(* Failures, redeployment and time.                                         *)

(* The thread stops where it is: an error of the database or the process.   *)
Abort(h) ==
  /\ MayFail
  /\ Busy(h)
  /\ Return(h)
  /\ \/ response[h].step = "idle" /\ UNCHANGED containmentVars
     \/ AbortResponse(h)
     \/ FinishResponse(h)
  /\ UNCHANGED serviceVars

(* A drained service comes back in another mode.                            *)
Redeploy(m) ==
  /\ \A h \in Handler : ~Busy(h)
  /\ m # mode
  /\ mode' = m
  /\ UNCHANGED <<containmentVars, approvals, executions, ledger, sensitive,
                 invoked, returned, work>>

ExpireApproval(p) ==
  /\ approvals[p].status \in {"pending", "approved"} /\ ~approvals[p].expired
  /\ approvals' = [approvals EXCEPT ![p].expired = TRUE]
  /\ UNCHANGED <<containmentVars, mode, executions, ledger, sensitive,
                 invoked, returned, work>>

AgeEgress(c) ==
  /\ c \in ledger
  /\ ledger' = ledger \ {c}
  /\ UNCHANGED <<containmentVars, mode, approvals, executions, sensitive,
                 invoked, returned, work>>

(* 900 seconds after the last sensitive read of the trace was recorded; an  *)
(* evaluated read takes less than that from its record to its result.       *)
AgeSequence(t) ==
  /\ t \in sensitive
  /\ \A h \in Evaluating : work[h].call \in SensitiveRead
                            => TraceOf(work[h].call) # t
  /\ sensitive' = sensitive \ {t}
  /\ returned' = returned \ {t}
  /\ work' = [h \in Handler |->
       IF TraceOf(work[h].call) = t
       THEN [work[h] EXCEPT !.informed = FALSE] ELSE work[h]]
  /\ UNCHANGED <<containmentVars, mode, approvals, executions, ledger,
                 invoked>>

-----------------------------------------------------------------------------

Init ==
  /\ ContainmentInit
  /\ mode \in ModesUsed
  /\ work = [h \in Handler |-> Idle]
  /\ approvals = [p \in Approval |->
       [call |-> AnyCall, status |-> "none", expired |-> FALSE]]
  /\ executions = [r \in RequestId |-> "none"]
  /\ ledger = {}
  /\ sensitive = {}
  /\ invoked = [r \in RequestId |-> 0]
  /\ returned = {}
  /\ barred = [h \in Handler |-> {}]

(* What the running thread h does next, by itself.                          *)
Step(h) ==
  \/ ReadContainment(h) \/ ReadQuarantine(h) \/ ReadRow(h)
  \/ EvaluatePolicy(h) \/ CheckBudget(h) \/ CheckSequence(h)
  \/ CreateApproval(h) \/ Finalize(h) \/ Responded(h)
  \/ ResponseStep(h) /\ UNCHANGED <<serviceVars, work>>
  \/ RecheckQuarantine(h) \/ RecheckRow(h) \/ Reevaluate(h)
  \/ ConsumeApproval(h)
  \/ ClaimExecution(h) \/ ReserveEgress(h) \/ FinishOverBudget(h)
  \/ InvokeConnector(h) \/ FinishExecution(h) \/ RecordLineage(h)

Reviewer ==
  \E p \in Approval :
    \/ ExpireApproval(p)
    \/ \E verdict \in {"approved", "rejected"} : ResolveApproval(p, verdict)

Operator ==
  \/ \E x \in Admin : /\ AdminStart(x) \/ AdminStep(x) \/ AbortAdmin(x)
                      /\ UNCHANGED <<serviceVars, work>>
  \/ \E m \in ModesUsed : Redeploy(m)

Time ==
  \/ Expiry /\ UNCHANGED <<serviceVars, work>>
  \/ \E c \in Call : AgeEgress(c)
  \/ \E t \in Trace : AgeSequence(t)

Action ==
  \/ \E h \in Handler : \/ \E c \in Call : Submit(h, c)
                        \/ \E p \in Approval : BeginApproved(h, p)
                        \/ Step(h)
                        \/ Abort(h)
  \/ Reviewer \/ Operator \/ Time

(* The reasons for which the given call's agent is blocked now.             *)
Causes(c) ==
  {k \in Cause :
     \/ k = "row" /\ quarantined[CallAgent[c]]
     \/ k = "containment" /\ Blocking(Active(CallAgent[c]).mode)
     \/ k = "restriction" /\ RestrictedAway(CallAgent[c], CallTool[c])}

(* A cause stays in barred[h] as long as it lasts.                          *)
TrackBarred ==
  barred' = [h \in Handler |->
    {k \in IF Busy(h) THEN barred[h] ELSE Cause :
       /\ work'[h].pc # "idle"
       /\ \E c \in Call : work'[h].call = c /\ k \in Causes(c)'}]

Next == Action /\ TrackBarred

Spec == Init /\ [][Next]_vars

-----------------------------------------------------------------------------
(* Properties.                                                              *)

(* Every table and every thread's state holds the values the code uses.     *)
TypeOK ==
  /\ ContainmentTypeOK
  /\ mode \in ModesUsed
  /\ work \in [Handler -> Work]
  /\ approvals \in [Approval -> ApprovalRow]
  /\ executions \in [RequestId -> ExecutionStatus]
  /\ ledger \subseteq Egress
  /\ sensitive \subseteq Trace
  /\ invoked \in [RequestId -> 0 .. 2]
  /\ returned \subseteq Trace
  /\ barred \in [Handler -> SUBSET Cause]

(* However often a call is submitted, approved, executed and retried, and   *)
(* wherever a thread stops, the connector runs at most once for a request.  *)
AtMostOnce == \A r \in RequestId : invoked[r] <= 1

(* An approval carries one execution: two threads that began on the same    *)
(* approval do not both get past its consumption, and what is being         *)
(* executed on an approval is the call that the reviewer saw.               *)
ApprovalSpentOnce ==
  \A h \in Handler :
    work[h].pc \in Authorized /\ work[h].approval # NoApproval =>
      /\ approvals[work[h].approval].status = "consumed"
      /\ approvals[work[h].approval].call = work[h].call
      /\ \A g \in Handler \ {h} :
           work[g].pc \in Authorized => work[g].approval # work[h].approval

(* What an agent sent out in the last hour through the tools whose hourly   *)
(* budget is no larger than a given tool's stays within that tool's budget, *)
(* although evaluation checks it long before a call is charged and calls of *)
(* other tools come between.  So a tool never sends more than its budget,   *)
(* nor all tools together more than the largest one.  The agent's total may *)
(* exceed the budget of a tool, through one that has a larger budget.       *)
Cheaper(t) == {u \in Tool : HourlyLimit[u] <= HourlyLimit[t]}

EgressBudget ==
  \A a \in Agent, t \in Tool : SpentThrough(a, Cheaper(t)) <= HourlyLimit[t]

(* An agent that got the result of an evaluated sensitive read in a trace   *)
(* cannot then send data out in that trace on the policy's word alone,      *)
(* whatever runs at the same time.                                          *)
SensitiveReadThenEgress ==
  \A h \in Handler :
    /\ work[h].pc \in Authorized
    /\ work[h].call \in Egress
    /\ work[h].approval = NoApproval
    => ~work[h].informed

(* A call that begins while its agent is blocked, by the quarantine row or  *)
(* by the containment in force, and for as long as that lasts, is not       *)
(* executed: neither directly nor on an approval.                           *)
BlockedNeverRuns ==
  \A h \in Handler :
    work[h].pc \in Authorized => barred[h] \cap {"row", "containment"} = {}

(* The same of a restriction that does not name the tool, for calls that    *)
(* are evaluated.                                                           *)
RestrictedNeverEvaluates ==
  \A h \in Handler :
    work[h].pc \in Authorized /\ work[h].approval = NoApproval
      => "restriction" \notin barred[h]

(* restrict allows only the named tools, on whatever path.                  *)
RestrictedNeverRuns ==
  \A h \in Handler : work[h].pc \in Authorized => "restriction" \notin barred[h]

(* The execution rows and the connector calls are those of OneShot: claimed *)
(* once, run at most once under the claim, and an outcome that tells the    *)
(* truth and never changes.                                                 *)
Promise == INSTANCE OneShot

ExecutesOneShot == Promise!OneShotSpec

=============================================================================
