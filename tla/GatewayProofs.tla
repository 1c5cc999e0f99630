---------------------------- MODULE GatewayProofs ----------------------------
(***************************************************************************)
(* What holds of Gateway for every number of agents, threads, calls,       *)
(* approvals and administrators, every policy verdict and every budget:    *)
(* its containment part is Containment, a request is executed as OneShot   *)
(* says, an approval carries one execution of the call reviewed, blocked   *)
(* agents wait, a sensitive read holds egress, and budgets are kept.       *)
(***************************************************************************)
EXTENDS Gateway, ContainmentProofs, WellFoundedInduction, FiniteSetTheorems

-----------------------------------------------------------------------------
(* The containment part.                                                    *)

(* What a thread of the gateway does to the tables of Containment is a step *)
(* of the response, or nothing.                                             *)
LEMMA StepContains ==
  ASSUME work \in [Handler -> Work], NEW h \in Handler, Step(h)
  PROVE  \/ UNCHANGED containmentVars
         \/ ResponseStep(h) \/ FinishResponse(h)
         \/ \E a \in Agent : StartResponse(h, a)
<1>1. CASE Finalize(h)
  <2>1. CallAgent[work[h].call] \in Agent
    BY GatewayAssumption DEF Work
  <2>2. \/ UNCHANGED containmentVars
        \/ StartResponse(h, CallAgent[work[h].call])
    BY <1>1, Zenon DEF Finalize
  <2> QED BY <2>1, <2>2
<1>2. CASE Responded(h)
  BY <1>2 DEF Responded
<1>3. CASE ReadContainment(h) \/ ReadQuarantine(h) \/ ReadRow(h)
             \/ EvaluatePolicy(h) \/ CheckBudget(h) \/ CheckSequence(h)
             \/ CreateApproval(h)
  BY <1>3 DEF ReadContainment, ReadQuarantine, ReadRow, EvaluatePolicy,
              CheckBudget, CheckSequence, CreateApproval
<1>4. CASE RecheckQuarantine(h) \/ RecheckRow(h) \/ Reevaluate(h)
             \/ ConsumeApproval(h)
  BY <1>4 DEF RecheckQuarantine, RecheckRow, Reevaluate, ConsumeApproval
<1>5. CASE ClaimExecution(h) \/ ReserveEgress(h) \/ FinishOverBudget(h)
             \/ InvokeConnector(h) \/ FinishExecution(h) \/ RecordLineage(h)
  BY <1>5 DEF ClaimExecution, ReserveEgress, FinishOverBudget,
              InvokeConnector, FinishExecution, RecordLineage
<1> QED BY <1>1, <1>2, <1>3, <1>4, <1>5 DEF Step

(* Every step of the gateway is one of Containment, or leaves it alone.     *)
LEMMA ActionContains ==
  ASSUME work \in [Handler -> Work], Action
  PROVE  [ContainmentNext]_containmentVars
<1>1. ASSUME NEW h \in Handler, NEW c \in Call, Submit(h, c)
      PROVE  UNCHANGED containmentVars
  BY <1>1 DEF Submit
<1>2. ASSUME NEW h \in Handler, NEW p \in Approval, BeginApproved(h, p)
      PROVE  UNCHANGED containmentVars
  BY <1>2 DEF BeginApproved
<1>3. ASSUME NEW h \in Handler, Step(h)
      PROVE  [ContainmentNext]_containmentVars
  BY <1>3, StepContains DEF ContainmentNext
<1>4. ASSUME NEW h \in Handler, Abort(h)
      PROVE  [ContainmentNext]_containmentVars
  BY <1>4 DEF Abort, ContainmentNext
<1>5. CASE Reviewer
  BY <1>5 DEF Reviewer, ExpireApproval, ResolveApproval
<1>6. CASE Operator
  BY <1>6 DEF Operator, Redeploy, ContainmentNext
<1>7. CASE Time
  BY <1>7 DEF Time, AgeEgress, AgeSequence, ContainmentNext
<1> QED BY <1>1, <1>2, <1>3, <1>4, <1>5, <1>6, <1>7 DEF Action

-----------------------------------------------------------------------------
(* Types.                                                                   *)

LEMMA IdleTyped == Idle \in Work /\ AnyCall \in Call
<1>1. AnyCall \in Call
  BY GatewayAssumption DEF AnyCall
<1> QED BY <1>1 DEF Idle, Work, Pc, Authorized, Decision, Outcome

(* The three ways in which a thread goes on.                                *)
LEMMA MovesTyped ==
  ASSUME work \in [Handler -> Work], NEW h \in Handler
  PROVE  /\ \A pc \in Pc : Goto(h, pc) => work' \in [Handler -> Work]
         /\ Return(h) => work' \in [Handler -> Work]
         /\ \A d \in Decision, pc \in Pc :
              Decide(h, d, pc) => work' \in [Handler -> Work]
<1>1. ASSUME NEW pc \in Pc, Goto(h, pc) PROVE work' \in [Handler -> Work]
  BY <1>1 DEF Goto, Work
<1>2. ASSUME Return(h) PROVE work' \in [Handler -> Work]
  BY <1>2, IdleTyped DEF Return
<1>3. ASSUME NEW d \in Decision, NEW pc \in Pc, Decide(h, d, pc)
      PROVE  work' \in [Handler -> Work]
  BY <1>3 DEF Decide, Work
<1> QED BY <1>1, <1>2, <1>3

(* A thread stays in a place of the code.                                   *)
LEMMA WorkTypedStep ==
  ASSUME work \in [Handler -> Work], NEW h \in Handler, Step(h)
  PROVE  work' \in [Handler -> Work]
<1>1. \A d : Route(d) \in Pc
  BY DEF Route, Pc
<1>2. {"idle", "quarantine", "row", "policy", "budget", "sequence", "approve",
       "finalize", "responding", "recheckrow", "reevaluate", "consume",
       "claim", "reserve", "overbudget", "invoke", "finish", "lineage"}
        \subseteq Pc
  BY DEF Pc, Authorized
<1>3. {"none", "allow", "require_approval", "deny", "deny_uncounted"}
        \subseteq Decision
  BY DEF Decision
<1>4. CASE ReadContainment(h)
  BY <1>2, <1>3, <1>4, MovesTyped DEF ReadContainment
<1>5. CASE ReadQuarantine(h) \/ ReadRow(h)
  BY <1>2, <1>3, <1>5, MovesTyped DEF ReadQuarantine, ReadRow
<1>6. CASE EvaluatePolicy(h)
  BY <1>1, <1>2, <1>6, MovesTyped DEF EvaluatePolicy
<1>7. CASE CheckBudget(h)
  BY <1>2, <1>3, <1>7, MovesTyped DEF CheckBudget
<1>8. CASE CheckSequence(h)
  <2>1. work[h].decision \in Decision
    BY DEF Work
  <2> QED BY <1>1, <1>3, <1>8, <2>1, MovesTyped DEF CheckSequence
<1>9. CASE CreateApproval(h)
  BY <1>2, <1>9, MovesTyped DEF CreateApproval
<1>10. CASE Finalize(h)
  BY <1>2, <1>10, MovesTyped DEF Finalize
<1>11. CASE Responded(h)
  BY <1>11, MovesTyped DEF Responded
<1>12. CASE RecheckQuarantine(h) \/ RecheckRow(h) \/ Reevaluate(h)
              \/ ConsumeApproval(h)
  BY <1>2, <1>12, MovesTyped
     DEF RecheckQuarantine, RecheckRow, Reevaluate, ConsumeApproval
<1>13. CASE ClaimExecution(h)
  BY <1>2, <1>13, MovesTyped DEF ClaimExecution
<1>14. CASE ReserveEgress(h) \/ FinishOverBudget(h)
  BY <1>2, <1>14, MovesTyped DEF ReserveEgress, FinishOverBudget
<1>15. CASE InvokeConnector(h)
  <2>1. PICK o \in Outcome :
          work' = [work EXCEPT ![h].pc = "finish", ![h].outcome = o]
    BY <1>15 DEF InvokeConnector
  <2>2. "finish" \in Pc
    BY <1>2
  <2> QED BY <2>1, <2>2 DEF Work
<1>16. CASE FinishExecution(h) \/ RecordLineage(h)
  BY <1>2, <1>16, MovesTyped DEF FinishExecution, RecordLineage
<1>17. CASE ResponseStep(h) /\ UNCHANGED <<serviceVars, work>>
  BY <1>17
<1> QED
  BY <1>4, <1>5, <1>6, <1>7, <1>8, <1>9, <1>10, <1>11, <1>12, <1>13, <1>14,
     <1>15, <1>16, <1>17
     DEF Step

ServiceTyped ==
  /\ mode \in ModesUsed
  /\ approvals \in [Approval -> ApprovalRow]
  /\ executions \in [RequestId -> ExecutionStatus]
  /\ ledger \subseteq Egress
  /\ sensitive \subseteq Trace
  /\ invoked \in [RequestId -> 0 .. 2]
  /\ returned \subseteq Trace

(* Only egress calls come to the reservation.                               *)
ReserveIsEgress ==
  \A h \in Handler : work[h].pc = "reserve" => work[h].call \in Egress

(* What a thread's call refers to exists.                                   *)
LEMMA CallTyped ==
  ASSUME work \in [Handler -> Work], NEW h \in Handler
  PROVE  /\ work[h].call \in Call
         /\ AgentOf(h) \in Agent
         /\ RequestOf(h) \in RequestId
         /\ TraceOf(work[h].call) \in Trace
<1>1. work[h].call \in Call
  BY DEF Work
<1> QED BY <1>1, GatewayAssumption DEF AgentOf, RequestOf, RequestId, Trace

LEMMA ServiceTypedStep ==
  ASSUME work \in [Handler -> Work], ServiceTyped, ReserveIsEgress,
         NEW h \in Handler, Step(h)
  PROVE  ServiceTyped'
<1> USE CallTyped DEF ServiceTyped, serviceVars
<1>1. CASE ReadContainment(h) \/ ReadQuarantine(h) \/ ReadRow(h)
             \/ EvaluatePolicy(h) \/ CheckBudget(h) \/ CheckSequence(h)
             \/ Responded(h) \/ RecheckQuarantine(h) \/ RecheckRow(h)
             \/ Reevaluate(h)
  BY <1>1 DEF ReadContainment, ReadQuarantine, ReadRow, EvaluatePolicy,
              CheckBudget, CheckSequence, Responded, RecheckQuarantine,
              RecheckRow, Reevaluate
<1>2. CASE CreateApproval(h)
  <2>1. [call |-> work[h].call, status |-> "pending", expired |-> FALSE]
          \in ApprovalRow
    BY DEF ApprovalRow
  <2>2. approvals' \in [Approval -> ApprovalRow]
    BY <1>2, <2>1 DEF CreateApproval
  <2> QED BY <1>2, <2>2 DEF CreateApproval
<1>3. CASE Finalize(h)
  <2>1. sensitive' \subseteq Trace
    BY <1>3 DEF Finalize
  <2> QED BY <1>3, <2>1 DEF Finalize
<1>4. CASE ConsumeApproval(h)
  <2>1. approvals' \in [Approval -> ApprovalRow]
    BY <1>4 DEF ConsumeApproval, ApprovalRow
  <2> QED BY <1>4, <2>1 DEF ConsumeApproval
<1>5. CASE ClaimExecution(h)
  <2>1. executions' \in [RequestId -> ExecutionStatus]
    BY <1>5 DEF ClaimExecution, ExecutionStatus
  <2> QED BY <1>5, <2>1 DEF ClaimExecution
<1>6. CASE ReserveEgress(h)
  <2>1. ledger' \subseteq Egress
    BY <1>6 DEF ReserveEgress, ReserveIsEgress
  <2> QED BY <1>6, <2>1 DEF ReserveEgress
<1>7. CASE FinishOverBudget(h)
  BY <1>7 DEF FinishOverBudget, ExecutionStatus
<1>8. CASE InvokeConnector(h)
  <2>1. invoked' \in [RequestId -> 0 .. 2]
    BY <1>8 DEF InvokeConnector
  <2> QED BY <1>8, <2>1 DEF InvokeConnector
<1>9. CASE FinishExecution(h)
  <2>1. work[h].outcome \in Outcome
    BY DEF Work
  <2>2. executions' \in [RequestId -> ExecutionStatus]
    BY <1>9, <2>1 DEF FinishExecution, ExecutionStatus
  <2> QED BY <1>9, <2>2 DEF FinishExecution
<1>10. CASE RecordLineage(h)
  <2>1. returned' \subseteq Trace
    BY <1>10 DEF RecordLineage
  <2> QED BY <1>10, <2>1 DEF RecordLineage
<1>11. CASE ResponseStep(h) /\ UNCHANGED <<serviceVars, work>>
  BY <1>11
<1> QED
  BY <1>1, <1>2, <1>3, <1>4, <1>5, <1>6, <1>7, <1>8, <1>9, <1>10, <1>11
     DEF Step

-----------------------------------------------------------------------------
(* Where a thread goes.                                                     *)

Evaluation == {"containment", "quarantine", "row", "policy", "budget",
               "sequence", "approve", "finalize", "responding"}
Recheck == {"recheck", "recheckrow", "reevaluate", "consume"}

KeepsCall(h) ==
  /\ work'[h].call = work[h].call
  /\ work'[h].approval = work[h].approval

(* A thread that goes on stays in the evaluation or the recheck, or comes   *)
(* from one of them to the claim, or stays in the execution.                *)
LEMMA Places ==
  ASSUME work \in [Handler -> Work], NEW h \in Handler, Step(h)
  PROVE  \/ UNCHANGED work
         \/ Return(h)
         \/ /\ \A g \in Handler \ {h} : work'[g] = work[g]
            /\ KeepsCall(h)
            /\ \/ /\ work[h].pc \in Evaluation
                  /\ work'[h].pc \in Evaluation \cup {"claim"}
               \/ work[h].pc \in Recheck /\ work'[h].pc \in Recheck
               \/ work'[h].pc = "claim" /\ ConsumeApproval(h)
               \/ work[h].pc \in Authorized /\ work'[h].pc \in Authorized
<1> DEFINE Alone == \A g \in Handler \ {h} : work'[g] = work[g]
<1>1. ASSUME NEW pc, Goto(h, pc)
      PROVE  Alone /\ KeepsCall(h) /\ work'[h].pc = pc
  BY <1>1 DEF Goto, KeepsCall, Work
<1>2. ASSUME NEW d, NEW pc, Decide(h, d, pc)
      PROVE  Alone /\ KeepsCall(h) /\ work'[h].pc = pc
  BY <1>2 DEF Decide, KeepsCall, Work
<1>3. \A d : Route(d) \in Evaluation
  BY DEF Route, Evaluation
<1> HIDE DEF Alone
<1>4. CASE ReadContainment(h) \/ ReadQuarantine(h) \/ ReadRow(h)
             \/ CheckBudget(h)
  BY <1>1, <1>2, <1>4
     DEF ReadContainment, ReadQuarantine, ReadRow, CheckBudget, Evaluation,
         Alone
<1>5. CASE EvaluatePolicy(h) \/ CheckSequence(h)
  BY <1>1, <1>2, <1>3, <1>5 DEF EvaluatePolicy, CheckSequence, Evaluation,
         Alone
<1>6. CASE CreateApproval(h) \/ Finalize(h) \/ Responded(h)
  BY <1>1, <1>6 DEF CreateApproval, Finalize, Responded, Evaluation, Alone
<1>7. CASE RecheckQuarantine(h) \/ RecheckRow(h) \/ Reevaluate(h)
  BY <1>1, <1>7 DEF RecheckQuarantine, RecheckRow, Reevaluate, Recheck, Alone
<1>8. CASE ConsumeApproval(h)
  BY <1>1, <1>8 DEF ConsumeApproval, Alone
<1>9. CASE ClaimExecution(h) \/ ReserveEgress(h) \/ FinishOverBudget(h)
             \/ FinishExecution(h) \/ RecordLineage(h)
  BY <1>1, <1>9 DEF ClaimExecution, ReserveEgress, FinishOverBudget,
              FinishExecution, RecordLineage, Authorized, Alone
<1>10. CASE InvokeConnector(h)
  <2>1. PICK o \in Outcome :
          work' = [work EXCEPT ![h].pc = "finish", ![h].outcome = o]
    BY <1>10 DEF InvokeConnector
  <2> QED BY <1>10, <2>1 DEF InvokeConnector, Authorized, KeepsCall, Work
<1>11. CASE ResponseStep(h) /\ UNCHANGED <<serviceVars, work>>
  BY <1>11
<1> QED
  BY <1>4, <1>5, <1>6, <1>7, <1>8, <1>9, <1>10, <1>11 DEF Step

(* What a thread holds, for the invariants below.                           *)
Same(g) ==
  /\ work'[g].pc = work[g].pc /\ work'[g].call = work[g].call
  /\ work'[g].approval = work[g].approval
  /\ work'[g].decision = work[g].decision
  /\ work'[g].outcome = work[g].outcome

(* Reviewers, administrators and time move no thread, run no connector and  *)
(* write no execution; and they keep the other tables to their types.       *)
LEMMA OutsideFrame ==
  ASSUME work \in [Handler -> Work], ServiceTyped, Reviewer \/ Operator \/ Time
  PROVE  /\ work' \in [Handler -> Work]
         /\ ServiceTyped'
         /\ \A g \in Handler : Same(g)
         /\ UNCHANGED <<executions, invoked>>
<1> USE DEF ServiceTyped, serviceVars, Same
<1>1. ASSUME NEW p \in Approval,
             \/ ExpireApproval(p)
             \/ \E v \in {"approved", "rejected"} : ResolveApproval(p, v)
      PROVE  /\ approvals' \in [Approval -> ApprovalRow]
             /\ UNCHANGED <<work, mode, executions, ledger, sensitive, invoked,
                            returned>>
  <2>1. CASE ExpireApproval(p)
    BY <2>1 DEF ExpireApproval, ApprovalRow
  <2>2. CASE \E v \in {"approved", "rejected"} : ResolveApproval(p, v)
    BY <2>2 DEF ResolveApproval, ApprovalRow
  <2> QED BY <1>1, <2>1, <2>2
<1>2. CASE Reviewer
  BY <1>1, <1>2 DEF Reviewer
<1>3. CASE Operator
  BY <1>3 DEF Operator, Redeploy
<1>4. ASSUME NEW c \in Call, AgeEgress(c)
      PROVE  /\ ledger' \subseteq Egress
             /\ UNCHANGED <<work, mode, approvals, executions, sensitive,
                            invoked, returned>>
  BY <1>4 DEF AgeEgress
<1>5. ASSUME NEW t \in Trace, AgeSequence(t)
      PROVE  /\ work' \in [Handler -> Work]
             /\ \A g \in Handler : Same(g)
             /\ sensitive' \subseteq Trace /\ returned' \subseteq Trace
             /\ UNCHANGED <<mode, approvals, executions, ledger, invoked>>
  <2>1. work' = [g \in Handler |->
          IF TraceOf(work[g].call) = t
          THEN [work[g] EXCEPT !.informed = FALSE] ELSE work[g]]
    BY <1>5 DEF AgeSequence
  <2>2. ASSUME NEW g \in Handler PROVE work'[g] \in Work /\ Same(g)
    BY <2>1 DEF Work
  <2>3. work' \in [Handler -> Work]
    BY <2>1, <2>2
  <2> QED BY <1>5, <2>2, <2>3 DEF AgeSequence
<1>6. CASE Time
  BY <1>4, <1>5, <1>6 DEF Time
<1> QED BY <1>2, <1>3, <1>6

(* Taking up a call and giving it up.                                       *)
LEMMA EdgeFrame ==
  ASSUME work \in [Handler -> Work], ServiceTyped, NEW h \in Handler,
         \/ \E c \in Call : Submit(h, c)
         \/ \E p \in Approval : BeginApproved(h, p)
         \/ Abort(h)
  PROVE  /\ work' \in [Handler -> Work]
         /\ \A g \in Handler \ {h} : work'[g] = work[g]
         /\ \/ /\ work'[h].pc \in {"idle", "containment"}
               /\ work'[h].approval = NoApproval
            \/ \E p \in Approval :
                 /\ work'[h].pc = "recheck"
                 /\ work'[h].approval = p
                 /\ work'[h].call = approvals[p].call
         /\ UNCHANGED serviceVars
<1>1. ASSUME NEW c \in Call, Submit(h, c)
      PROVE  /\ work' \in [Handler -> Work]
             /\ \A g \in Handler \ {h} : work'[g] = work[g]
             /\ work'[h].pc = "containment"
             /\ work'[h].approval = NoApproval
             /\ UNCHANGED serviceVars
  <2> DEFINE w == [Idle EXCEPT !.pc = "containment", !.call = c,
                     !.informed = TraceOf(c) \in returned]
  <2>1. w \in Work /\ w.pc = "containment" /\ w.approval = NoApproval
    <3> DEFINE b == TraceOf(c) \in returned
    <3>1. b \in BOOLEAN
      OBVIOUS
    <3> HIDE DEF b
    <3>2. /\ [Idle EXCEPT !.pc = "containment", !.call = c, !.informed = b]
               \in Work
          /\ w.pc = "containment" /\ w.approval = NoApproval
      BY <3>1, IdleTyped DEF Work, Idle, Pc
    <3> QED BY <3>2 DEF b
  <2>2. work' = [work EXCEPT ![h] = w] /\ UNCHANGED serviceVars
    BY <1>1 DEF Submit
  <2> HIDE DEF w
  <2> QED BY <2>1, <2>2
<1>2. ASSUME NEW p \in Approval, BeginApproved(h, p)
      PROVE  /\ work' \in [Handler -> Work]
             /\ \A g \in Handler \ {h} : work'[g] = work[g]
             /\ work'[h].pc = "recheck" /\ work'[h].approval = p
             /\ work'[h].call = approvals[p].call
             /\ UNCHANGED serviceVars
  <2> DEFINE w == [Idle EXCEPT !.pc = "recheck", !.call = approvals[p].call,
                               !.approval = p]
  <2>1. approvals[p].call \in Call
    BY DEF ServiceTyped, ApprovalRow
  <2>2. /\ w \in Work /\ w.pc = "recheck" /\ w.approval = p
        /\ w.call = approvals[p].call
    BY <2>1, IdleTyped DEF Work, Idle, Pc
  <2>3. work' = [work EXCEPT ![h] = w] /\ UNCHANGED serviceVars
    BY <1>2 DEF BeginApproved
  <2> HIDE DEF w
  <2> QED BY <2>2, <2>3
<1>3. CASE Abort(h)
  <2>1. work' = [work EXCEPT ![h] = Idle] /\ UNCHANGED serviceVars
    BY <1>3 DEF Abort, Return
  <2>2. Idle.pc = "idle" /\ Idle.approval = NoApproval
    BY DEF Idle
  <2> QED BY <2>1, <2>2, IdleTyped
<1> QED BY <1>1, <1>2, <1>3

-----------------------------------------------------------------------------
(* The inductive invariant.                                                 *)

(* A thread between claim and outcome holds the row of its request, alone.  *)
Holding == {"reserve", "overbudget", "invoke", "finish"}

ClaimHeld ==
  \A h \in Handler :
    work[h].pc \in Holding =>
      /\ executions[RequestOf(h)] = "running"
      /\ \A g \in Handler \ {h} :
           work[g].pc \in Holding => RequestOf(g) # RequestOf(h)

(* The connector ran exactly for what is past the invocation.               *)
RunsCounted ==
  /\ \A h \in Handler :
       /\ work[h].pc \in {"reserve", "overbudget", "invoke"}
            => invoked[RequestOf(h)] = 0
       /\ work[h].pc = "finish" /\ work[h].outcome # "failed"
            => invoked[RequestOf(h)] = 1
  /\ \A r \in RequestId :
       /\ executions[r] = "none" => invoked[r] = 0
       /\ invoked[r] <= 1

(* An evaluated call has no approval; one that is executed on an approval   *)
(* is the call of that approval, which is consumed by this thread alone.    *)
ApprovalHeld ==
  \A h \in Handler :
    /\ work[h].pc \in Evaluation => work[h].approval = NoApproval
    /\ work[h].approval # NoApproval =>
         approvals[work[h].approval].call = work[h].call

GatewayInv ==
  /\ work \in [Handler -> Work]
  /\ ServiceTyped
  /\ ReserveIsEgress
  /\ ClaimHeld
  /\ RunsCounted
  /\ ApprovalHeld
  /\ ApprovalSpentOnce

LEMMA GatewayInvInit == Init => GatewayInv
<1> SUFFICES ASSUME Init PROVE GatewayInv
  OBVIOUS
<1>1. work \in [Handler -> Work]
  BY IdleTyped DEF Init
<1>2. [call |-> AnyCall, status |-> "none", expired |-> FALSE] \in ApprovalRow
  BY IdleTyped DEF ApprovalRow
<1>3. ServiceTyped
  BY <1>2 DEF Init, ServiceTyped, ExecutionStatus
<1>4. \A h \in Handler : work[h].pc = "idle" /\ work[h].approval = NoApproval
  BY DEF Init, Idle
<1>5. ReserveIsEgress /\ ClaimHeld /\ ApprovalHeld /\ ApprovalSpentOnce
  BY <1>4 DEF ReserveIsEgress, ClaimHeld, ApprovalHeld, ApprovalSpentOnce,
              Holding, Evaluation, Authorized
<1>6. RunsCounted
  BY <1>4 DEF RunsCounted, Init
<1> QED BY <1>1, <1>3, <1>5, <1>6 DEF GatewayInv

(* Steps that neither write an execution nor run a connector, and bring no  *)
(* thread to the execution's critical part, keep the execution's invariant. *)
LEMMA QuietExecution ==
  ASSUME ClaimHeld, RunsCounted, UNCHANGED <<executions, invoked>>,
         \A g \in Handler : Same(g) \/ work'[g].pc \notin Holding
  PROVE  ClaimHeld' /\ RunsCounted'
<1>1. \A g \in Handler : work'[g].pc \in Holding => Same(g)
  OBVIOUS
<1>2. \A g \in Handler : Same(g) => RequestOf(g)' = RequestOf(g)
  BY DEF Same, RequestOf
<1>3. ClaimHeld'
  BY <1>1, <1>2 DEF ClaimHeld, Same
<1>4. RunsCounted'
  BY <1>1, <1>2 DEF RunsCounted, Same, Holding
<1> QED BY <1>3, <1>4

(* The steps of a thread that do so.                                        *)
LEMMA QuietSteps ==
  ASSUME work \in [Handler -> Work], NEW h \in Handler, Step(h),
         ~ClaimExecution(h), ~ReserveEgress(h), ~FinishOverBudget(h),
         ~InvokeConnector(h), ~FinishExecution(h)
  PROVE  /\ UNCHANGED <<executions, invoked>>
         /\ \A g \in Handler : Same(g) \/ work'[g].pc \notin Holding
<1> USE DEF serviceVars
<1>1. CASE ResponseStep(h) /\ UNCHANGED <<serviceVars, work>>
  BY <1>1 DEF Same
<1>2. CASE ReadContainment(h) \/ ReadQuarantine(h) \/ ReadRow(h)
             \/ EvaluatePolicy(h) \/ CheckBudget(h) \/ CheckSequence(h)
             \/ CreateApproval(h) \/ Finalize(h) \/ Responded(h)
             \/ RecheckQuarantine(h) \/ RecheckRow(h) \/ Reevaluate(h)
             \/ ConsumeApproval(h) \/ RecordLineage(h)
  <2>1. UNCHANGED <<executions, invoked>>
    BY <1>2 DEF ReadContainment, ReadQuarantine, ReadRow, EvaluatePolicy,
                CheckBudget, CheckSequence, CreateApproval, Finalize,
                Responded, RecheckQuarantine, RecheckRow, Reevaluate,
                ConsumeApproval, RecordLineage
  <2>2. work[h].pc \notin Holding
    BY <1>2 DEF ReadContainment, ReadQuarantine, ReadRow, EvaluatePolicy,
                CheckBudget, CheckSequence, CreateApproval, Finalize,
                Responded, RecheckQuarantine, RecheckRow, Reevaluate,
                ConsumeApproval, RecordLineage, Holding
  <2>3. CASE RecordLineage(h)
    BY <2>1, <2>3 DEF RecordLineage, Return, Idle, Holding, Same
  <2>4. CASE ~RecordLineage(h)
    <3>1. work[h].pc \notin Authorized
      BY <1>2, <2>4
         DEF ReadContainment, ReadQuarantine, ReadRow, EvaluatePolicy,
             CheckBudget, CheckSequence, CreateApproval, Finalize, Responded,
             RecheckQuarantine, RecheckRow, Reevaluate, ConsumeApproval,
             Authorized
    <3>2. CASE UNCHANGED work
      BY <2>1, <3>2 DEF Same
    <3>3. CASE Return(h)
      BY <2>1, <3>3 DEF Return, Idle, Holding, Same
    <3>4. CASE /\ \A g \in Handler \ {h} : work'[g] = work[g]
               /\ work'[h].pc \in Evaluation \cup Recheck \cup {"claim"}
      BY <2>1, <3>4 DEF Evaluation, Recheck, Holding, Same
    <3> QED BY <3>1, <3>2, <3>3, <3>4, Places
  <2> QED BY <2>3, <2>4
<1> QED BY <1>1, <1>2 DEF Step

(* The five steps of a thread that matter to its execution.                 *)
LEMMA ExecutionSteps ==
  ASSUME work \in [Handler -> Work], ServiceTyped, ClaimHeld, RunsCounted,
         NEW h \in Handler,
         \/ ClaimExecution(h) \/ ReserveEgress(h) \/ FinishOverBudget(h)
         \/ InvokeConnector(h) \/ FinishExecution(h)
  PROVE  ClaimHeld' /\ RunsCounted'
<1> DEFINE r == RequestOf(h)
<1>1. r \in RequestId
  BY CallTyped
<1>2. \A g \in Handler : RequestOf(g) \in RequestId
  BY CallTyped
<1>3. /\ executions \in [RequestId -> ExecutionStatus]
      /\ invoked \in [RequestId -> 0 .. 2]
  BY DEF ServiceTyped
<1>4. Idle.pc \notin Holding
  BY DEF Idle, Holding
<1>5. ASSUME \A g \in Handler \ {h} : work'[g] = work[g]
      PROVE  \A g \in Handler \ {h} : /\ work'[g].pc = work[g].pc
                                      /\ work'[g].outcome = work[g].outcome
                                      /\ RequestOf(g)' = RequestOf(g)
  BY <1>5 DEF RequestOf
<1>6. CASE ClaimExecution(h)
  <2>1. CASE executions[r] = "none"
    <3>1. /\ executions' = [executions EXCEPT ![r] = "running"]
          /\ UNCHANGED invoked
          /\ \E pc \in {"reserve", "invoke"} :
               work' = [work EXCEPT ![h].pc = pc]
      BY <1>6, <2>1 DEF ClaimExecution, Goto
    <3>2. /\ \A g \in Handler \ {h} : work'[g] = work[g]
          /\ work'[h].pc \in {"reserve", "invoke"}
          /\ RequestOf(h)' = r
      BY <3>1 DEF RequestOf, Work
    <3>3. \A g \in Handler \ {h} : work[g].pc \in Holding => RequestOf(g) # r
      BY <2>1 DEF ClaimHeld
    <3>4. ClaimHeld'
      <4> HIDE DEF r
      <4> QED BY <1>1, <1>2, <1>3, <1>5, <3>1, <3>2, <3>3
              DEF ClaimHeld, Holding
    <3>5. invoked[r] = 0
      BY <1>1, <2>1 DEF RunsCounted
    <3>6. RunsCounted'
      <4> HIDE DEF r
      <4> QED BY <1>1, <1>2, <1>3, <1>5, <3>1, <3>2, <3>5 DEF RunsCounted
    <3> QED BY <3>4, <3>6
  <2>2. CASE executions[r] # "none"
    <3>1. UNCHANGED <<executions, invoked>> /\ Return(h)
      BY <1>6, <2>2 DEF ClaimExecution
    <3>2. \A g \in Handler : Same(g) \/ work'[g].pc \notin Holding
      BY <1>4, <3>1 DEF Return, Same
    <3> QED BY <3>1, <3>2, QuietExecution
  <2> QED BY <2>1, <2>2
<1>7. CASE ReserveEgress(h)
  <2>1. /\ work[h].pc = "reserve"
        /\ UNCHANGED <<executions, invoked>>
        /\ \E pc \in {"overbudget", "invoke"} :
             work' = [work EXCEPT ![h].pc = pc]
    BY <1>7 DEF ReserveEgress, Goto
  <2>2. /\ \A g \in Handler \ {h} : work'[g] = work[g]
        /\ work'[h].pc \in {"overbudget", "invoke"}
        /\ RequestOf(h)' = r
    BY <2>1 DEF RequestOf, Work
  <2> HIDE DEF r
  <2>3. ClaimHeld'
    BY <1>5, <2>1, <2>2 DEF ClaimHeld, Holding, r
  <2>4. RunsCounted'
    BY <1>5, <2>1, <2>2 DEF RunsCounted, r
  <2> QED BY <2>3, <2>4
<1>8. CASE FinishOverBudget(h) \/ FinishExecution(h)
  <2>1. /\ work[h].pc \in {"overbudget", "finish"}
        /\ \E o \in Outcome \cup {"egress_budget_exceeded"} :
             executions' = [executions EXCEPT ![r] = o]
        /\ UNCHANGED invoked
        /\ Return(h) \/ Goto(h, "lineage")
    BY <1>8 DEF FinishOverBudget, FinishExecution, Work
  <2>2. /\ \A g \in Handler \ {h} : work'[g] = work[g]
        /\ work'[h].pc \in {"idle", "lineage"}
    BY <2>1 DEF Return, Goto, Idle, Work
  <2>3. \A g \in Handler \ {h} : work[g].pc \in Holding => RequestOf(g) # r
    BY <2>1 DEF ClaimHeld, Holding
  <2>4. PICK o \in Outcome \cup {"egress_budget_exceeded"} :
          executions' = [executions EXCEPT ![r] = o]
    BY <2>1
  <2>5. o # "none"
    BY DEF Outcome
  <2> HIDE DEF r
  <2>6. ClaimHeld'
    BY <1>1, <1>2, <1>3, <1>5, <2>2, <2>3, <2>4 DEF ClaimHeld, Holding
  <2>7. RunsCounted'
    BY <1>1, <1>2, <1>3, <1>5, <2>1, <2>2, <2>4, <2>5 DEF RunsCounted
  <2> QED BY <2>6, <2>7
<1>9. CASE InvokeConnector(h)
  <2>1. PICK o \in Outcome :
          /\ work' = [work EXCEPT ![h].pc = "finish", ![h].outcome = o]
          /\ \/ invoked' = [invoked EXCEPT ![r] = IF @ < 2 THEN @ + 1 ELSE @]
             \/ o = "failed" /\ UNCHANGED invoked
    BY <1>9 DEF InvokeConnector
  <2>2. work[h].pc = "invoke" /\ UNCHANGED executions
    BY <1>9 DEF InvokeConnector
  <2>3. /\ \A g \in Handler \ {h} : work'[g] = work[g]
        /\ work'[h].pc = "finish" /\ work'[h].outcome = o
        /\ RequestOf(h)' = r
    BY <2>1 DEF RequestOf, Work
  <2>4. /\ invoked[r] = 0 /\ executions[r] = "running"
        /\ \A g \in Handler \ {h} : work[g].pc \in Holding
                                      => RequestOf(g) # r
    BY <2>2 DEF RunsCounted, ClaimHeld, Holding
  <2> HIDE DEF r
  <2>5. ClaimHeld'
    BY <1>5, <2>2, <2>3, <2>4 DEF ClaimHeld, Holding
  <2>6. /\ \A q \in RequestId \ {r} : invoked'[q] = invoked[q]
        /\ invoked'[r] = 1 \/ (o = "failed" /\ invoked'[r] = 0)
    <3>1. CASE o = "failed" /\ UNCHANGED invoked
      BY <2>4, <3>1
    <3>2. CASE invoked' = [invoked EXCEPT ![r] = IF @ < 2 THEN @ + 1 ELSE @]
      <4>1. (IF invoked[r] < 2 THEN invoked[r] + 1 ELSE invoked[r]) = 1
        BY <2>4
      <4>2. invoked' = [invoked EXCEPT ![r] = 1]
        BY <3>2, <4>1, Zenon
      <4> QED BY <1>1, <1>3, <4>2
    <3> QED BY <2>1, <3>1, <3>2
  <2>7. RunsCounted'
    BY <1>1, <1>2, <1>5, <2>2, <2>3, <2>4, <2>6 DEF RunsCounted, Holding
  <2> QED BY <2>5, <2>7
<1> QED BY <1>6, <1>7, <1>8, <1>9

(* A thread never puts a call that is not an egress call to the reservation.*)
LEMMA ReserveStep ==
  ASSUME work \in [Handler -> Work], ReserveIsEgress,
         NEW h \in Handler, Step(h), work'[h].pc = "reserve"
  PROVE  work'[h].call \in Egress
<1>1. CASE UNCHANGED work
  BY <1>1 DEF ReserveIsEgress
<1>2. CASE Return(h)
  BY <1>2 DEF Return, Idle
<1>3. CASE /\ KeepsCall(h)
           /\ work[h].pc \in Authorized /\ work'[h].pc \in Authorized
           /\ ~UNCHANGED work /\ ~Return(h)
  <2>1. \/ ClaimExecution(h) \/ ReserveEgress(h) \/ FinishOverBudget(h)
        \/ InvokeConnector(h) \/ FinishExecution(h) \/ RecordLineage(h)
    BY <1>3
       DEF Step, ReadContainment, ReadQuarantine, ReadRow, EvaluatePolicy,
           CheckBudget, CheckSequence, CreateApproval, Finalize, Responded,
           RecheckQuarantine, RecheckRow, Reevaluate, ConsumeApproval,
           Authorized
  <2>2. \A pc : Goto(h, pc) => pc = "reserve"
    BY DEF Goto, Work
  <2>3. CASE ClaimExecution(h)
    BY <1>3, <2>2, <2>3 DEF ClaimExecution, KeepsCall
  <2>4. CASE InvokeConnector(h)
    BY <2>4 DEF InvokeConnector, Work
  <2> QED BY <1>3, <2>1, <2>2, <2>3, <2>4
          DEF ReserveEgress, FinishOverBudget, FinishExecution, RecordLineage
<1> QED BY <1>1, <1>2, <1>3, Places DEF Evaluation, Recheck

(* Types, and what comes to the reservation, for the whole gateway.         *)
LEMMA TypesStep ==
  ASSUME work \in [Handler -> Work], ServiceTyped, ReserveIsEgress, Action
  PROVE  work' \in [Handler -> Work] /\ ServiceTyped' /\ ReserveIsEgress'
<1>1. ASSUME NEW h \in Handler, Step(h)
      PROVE  work' \in [Handler -> Work] /\ ServiceTyped' /\ ReserveIsEgress'
  <2>1. \A g \in Handler \ {h} : work'[g] = work[g]
    BY <1>1, Places DEF Return
  <2> QED BY <1>1, <2>1, WorkTypedStep, ServiceTypedStep, ReserveStep
          DEF ReserveIsEgress
<1>2. ASSUME NEW h \in Handler,
             \/ \E c \in Call : Submit(h, c)
             \/ \E p \in Approval : BeginApproved(h, p)
             \/ Abort(h)
      PROVE  work' \in [Handler -> Work] /\ ServiceTyped' /\ ReserveIsEgress'
  BY <1>2, EdgeFrame DEF ReserveIsEgress, ServiceTyped, serviceVars
<1>3. CASE Reviewer \/ Operator \/ Time
  BY <1>3, OutsideFrame DEF ReserveIsEgress, Same
<1> QED BY <1>1, <1>2, <1>3 DEF Action

(* The rows of executions and the connector calls stay in step.             *)
LEMMA ExecutionStep ==
  ASSUME work \in [Handler -> Work], ServiceTyped, ClaimHeld, RunsCounted,
         Action
  PROVE  ClaimHeld' /\ RunsCounted'
<1>1. ASSUME NEW h \in Handler, Step(h)
      PROVE  ClaimHeld' /\ RunsCounted'
  BY <1>1, ExecutionSteps, QuietSteps, QuietExecution
<1>2. ASSUME NEW h \in Handler,
             \/ \E c \in Call : Submit(h, c)
             \/ \E p \in Approval : BeginApproved(h, p)
             \/ Abort(h)
      PROVE  ClaimHeld' /\ RunsCounted'
  <2>1. UNCHANGED <<executions, invoked>>
    BY <1>2, EdgeFrame DEF serviceVars
  <2>2. \A g \in Handler : Same(g) \/ work'[g].pc \notin Holding
    BY <1>2, EdgeFrame DEF Same, Holding
  <2> QED BY <2>1, <2>2, QuietExecution
<1>3. CASE Reviewer \/ Operator \/ Time
  BY <1>3, OutsideFrame, QuietExecution
<1> QED BY <1>1, <1>2, <1>3 DEF Action

-----------------------------------------------------------------------------
(* Approvals.                                                               *)

(* An approval keeps its call, and once consumed stays so.                  *)
Kept(p) ==
  /\ approvals'[p].call = approvals[p].call
  /\ approvals[p].status = "consumed" => approvals'[p].status = "consumed"

Unheld(p) == \A g \in Handler : work[g].approval # p

(* How a thread may go on without disturbing what is said of approvals.     *)
GoesOn(g) ==
  \/ work'[g].approval = NoApproval
  \/ /\ KeepsCall(g)
     /\ work'[g].pc \in Evaluation => work[g].pc \in Evaluation
     /\ work'[g].pc \in Authorized => work[g].pc \in Authorized \cup Evaluation
  \/ /\ work'[g].pc \notin Evaluation \cup Authorized
     /\ approvals'[work'[g].approval].call = work'[g].call

LEMMA QuietApprovals ==
  ASSUME work \in [Handler -> Work], ApprovalHeld, ApprovalSpentOnce,
         \A p \in Approval : Kept(p) \/ Unheld(p),
         \A g \in Handler : GoesOn(g)
  PROVE  /\ \A g \in Handler : work'[g].pc \in Evaluation
                                 => work'[g].approval = NoApproval
         /\ \A g \in Handler : work'[g].approval # NoApproval =>
              approvals'[work'[g].approval].call = work'[g].call
         /\ ApprovalSpentOnce'
<1>1. ASSUME NEW g \in Handler, work'[g].pc \in Evaluation
      PROVE  work'[g].approval = NoApproval
  BY <1>1 DEF GoesOn, KeepsCall, ApprovalHeld
<1>2. \A g \in Handler :
        work[g].approval # NoApproval => Kept(work[g].approval)
  BY DEF Unheld, Work
<1>3. ASSUME NEW g \in Handler, work'[g].approval # NoApproval
      PROVE  approvals'[work'[g].approval].call = work'[g].call
  BY <1>2, <1>3 DEF GoesOn, KeepsCall, Kept, ApprovalHeld
<1>4. ASSUME NEW g \in Handler, work'[g].approval # NoApproval,
             work'[g].pc \in Authorized
      PROVE  work[g].pc \in Authorized /\ KeepsCall(g)
  BY <1>4 DEF GoesOn, KeepsCall, ApprovalHeld
<1>5. ApprovalSpentOnce'
  <2> SUFFICES ASSUME NEW h \in Handler, work'[h].pc \in Authorized,
                      work'[h].approval # NoApproval
               PROVE  /\ approvals'[work'[h].approval].status = "consumed"
                      /\ approvals'[work'[h].approval].call = work'[h].call
                      /\ \A g \in Handler \ {h} :
                           work'[g].pc \in Authorized
                             => work'[g].approval # work'[h].approval
    BY DEF ApprovalSpentOnce
  <2>1. /\ work[h].pc \in Authorized /\ KeepsCall(h)
        /\ Kept(work[h].approval)
    BY <1>2, <1>4 DEF KeepsCall
  <2>2. /\ approvals'[work'[h].approval].status = "consumed"
        /\ approvals'[work'[h].approval].call = work'[h].call
    BY <1>3, <2>1 DEF ApprovalSpentOnce, Kept, KeepsCall
  <2>3. ASSUME NEW g \in Handler \ {h}, work'[g].pc \in Authorized,
               work'[g].approval = work'[h].approval
        PROVE  FALSE
    <3>1. work[g].pc \in Authorized /\ work[g].approval = work[h].approval
      BY <1>4, <2>1, <2>3 DEF KeepsCall
    <3> QED BY <2>1, <3>1 DEF ApprovalSpentOnce, KeepsCall
  <2> QED BY <2>2, <2>3
<1> QED BY <1>1, <1>3, <1>5

(* A new approval takes an id no thread holds; the rest keep what is there. *)
LEMMA ApprovalsKept ==
  ASSUME work \in [Handler -> Work], ServiceTyped,
         \/ \E h \in Handler : Step(h)
         \/ Reviewer \/ Operator \/ Time
  PROVE  \A p \in Approval : Kept(p) \/ Unheld(p)
<1> USE DEF ServiceTyped, ApprovalRow, Kept, serviceVars
<1>1. CASE UNCHANGED approvals
  BY <1>1
<1>2. ASSUME NEW h \in Handler, CreateApproval(h)
      PROVE  \A p \in Approval : Kept(p) \/ Unheld(p)
  <2>1. PICK p \in Reusable :
          approvals' = [approvals EXCEPT ![p] =
            [call |-> work[h].call, status |-> "pending", expired |-> FALSE]]
    BY <1>2 DEF CreateApproval
  <2>2. Unheld(p)
    BY DEF Reusable, Unheld
  <2> QED BY <2>1, <2>2
<1>3. ASSUME NEW h \in Handler, ConsumeApproval(h)
      PROVE  \A p \in Approval : Kept(p)
  BY <1>3 DEF ConsumeApproval
<1>4. ASSUME NEW h \in Handler, Step(h), ~CreateApproval(h),
             ~ConsumeApproval(h)
      PROVE  UNCHANGED approvals
  BY <1>4
     DEF Step, ReadContainment, ReadQuarantine, ReadRow, EvaluatePolicy,
         CheckBudget, CheckSequence, Finalize, Responded, RecheckQuarantine,
         RecheckRow, Reevaluate, ClaimExecution, ReserveEgress,
         FinishOverBudget, InvokeConnector, FinishExecution, RecordLineage
<1>5. CASE Reviewer
  <2>1. ASSUME NEW p \in Approval, ExpireApproval(p)
        PROVE  \A q \in Approval : Kept(q)
    BY <2>1 DEF ExpireApproval
  <2>2. ASSUME NEW p \in Approval, NEW v, ResolveApproval(p, v)
        PROVE  \A q \in Approval : Kept(q)
    BY <2>2 DEF ResolveApproval
  <2> QED BY <1>5, <2>1, <2>2 DEF Reviewer
<1>6. CASE Operator \/ Time
  BY <1>1, <1>6 DEF Operator, Redeploy, Time, AgeEgress, AgeSequence
<1> QED BY <1>1, <1>2, <1>3, <1>4, <1>5, <1>6

(* The one step in which a thread comes to execute on an approval.          *)
LEMMA ConsumeStep ==
  ASSUME work \in [Handler -> Work], ServiceTyped, ApprovalHeld,
         ApprovalSpentOnce, NEW h \in Handler, ConsumeApproval(h),
         Usable(work[h].approval)
  PROVE  ApprovalHeld' /\ ApprovalSpentOnce'
<1> DEFINE p == work[h].approval
<1>1. /\ work' = [work EXCEPT ![h].pc = "claim"]
      /\ approvals' = [approvals EXCEPT ![p].status = "consumed"]
  BY DEF ConsumeApproval, Goto
<1>2. /\ \A g \in Handler \ {h} : work'[g] = work[g]
      /\ KeepsCall(h) /\ work'[h].pc = "claim"
  BY <1>1 DEF KeepsCall, Work
<1>3. \A q \in Approval : Kept(q) /\ (q = p => approvals'[q].status = "consumed")
  BY <1>1 DEF Kept, ServiceTyped, ApprovalRow
<1>4. \A g \in Handler : work[g].approval # NoApproval
                           => work[g].approval \in Approval
  BY DEF Work
<1>5. ApprovalHeld'
  BY <1>2, <1>3, <1>4 DEF ApprovalHeld, KeepsCall, Kept, Evaluation
<1>6. \A g \in Handler : work[g].pc \in Authorized => work[g].approval # p
                                                    \/ p = NoApproval
  BY DEF ApprovalSpentOnce, Usable
<1> HIDE DEF p
<1>7. work'[h].approval = p
  BY <1>2 DEF KeepsCall, p
<1>8. ASSUME NEW g \in Handler, work'[g].pc \in Authorized,
             work'[g].approval # NoApproval
      PROVE  /\ approvals'[work'[g].approval].status = "consumed"
             /\ approvals'[work'[g].approval].call = work'[g].call
             /\ \A k \in Handler \ {g} : work'[k].pc \in Authorized
                                 => work'[k].approval # work'[g].approval
  <2>1. approvals'[work'[g].approval].call = work'[g].call
    BY <1>5, <1>8 DEF ApprovalHeld
  <2>2. CASE g = h
    BY <1>2, <1>3, <1>4, <1>6, <1>7, <1>8, <2>1, <2>2 DEF p
  <2>3. CASE g # h
    <3>1. work'[g] = work[g]
      BY <1>2, <2>3
    <3>2. approvals'[work'[g].approval].status = "consumed"
      BY <1>3, <1>4, <1>8, <3>1 DEF ApprovalSpentOnce, Kept
    <3>3. work[g].approval # p
      BY <1>6, <1>8, <3>1
    <3> QED BY <1>2, <1>7, <1>8, <2>1, <3>1, <3>2, <3>3 DEF ApprovalSpentOnce
  <2> QED BY <2>2, <2>3
<1> QED BY <1>5, <1>8 DEF ApprovalSpentOnce

(* What is executed on an approval stays what was reviewed, and once.       *)
LEMMA ApprovalStep ==
  ASSUME work \in [Handler -> Work], ServiceTyped, ApprovalHeld,
         ApprovalSpentOnce, Action
  PROVE  ApprovalHeld' /\ ApprovalSpentOnce'
<1>1. ASSUME \A p \in Approval : Kept(p) \/ Unheld(p),
             \A g \in Handler : GoesOn(g)
      PROVE  ApprovalHeld' /\ ApprovalSpentOnce'
  BY <1>1, QuietApprovals DEF ApprovalHeld
<1>2. ASSUME NEW h \in Handler, Step(h)
      PROVE  ApprovalHeld' /\ ApprovalSpentOnce'
  <2>1. CASE ConsumeApproval(h) /\ Usable(work[h].approval)
    BY <2>1, ConsumeStep
  <2>2. CASE ~(ConsumeApproval(h) /\ Usable(work[h].approval))
    <3>1. ASSUME ConsumeApproval(h) PROVE Return(h)
      BY <2>2, <3>1 DEF ConsumeApproval
    <3>2. \A g \in Handler : GoesOn(g)
      <4>1. CASE UNCHANGED work
        BY <4>1 DEF GoesOn, KeepsCall
      <4>2. CASE Return(h)
        <5>1. work'[h].approval = NoApproval
          BY <4>2 DEF Return, Idle
        <5>2. \A g \in Handler \ {h} : work'[g] = work[g]
          BY <4>2 DEF Return
        <5> QED BY <5>1, <5>2 DEF GoesOn, KeepsCall
      <4>3. CASE /\ \A g \in Handler \ {h} : work'[g] = work[g]
                 /\ KeepsCall(h)
                 /\ \/ /\ work[h].pc \in Evaluation
                       /\ work'[h].pc \in Evaluation \cup {"claim"}
                    \/ work[h].pc \in Recheck /\ work'[h].pc \in Recheck
                    \/ work[h].pc \in Authorized /\ work'[h].pc \in Authorized
        <5>1. /\ work'[h].pc \in Evaluation => work[h].pc \in Evaluation
              /\ work'[h].pc \in Authorized
                   => work[h].pc \in Authorized \cup Evaluation
          BY <4>3 DEF Evaluation, Recheck, Authorized
        <5> QED BY <4>3, <5>1 DEF GoesOn, KeepsCall
      <4> QED BY <1>2, <3>1, <4>1, <4>2, <4>3, Places
    <3> QED BY <1>1, <1>2, <3>2, ApprovalsKept
  <2> QED BY <2>1, <2>2
<1>3. ASSUME NEW h \in Handler,
             \/ \E c \in Call : Submit(h, c)
             \/ \E p \in Approval : BeginApproved(h, p)
             \/ Abort(h)
      PROVE  ApprovalHeld' /\ ApprovalSpentOnce'
  <2>1. UNCHANGED approvals /\ \A g \in Handler \ {h} : work'[g] = work[g]
    BY <1>3, EdgeFrame DEF serviceVars
  <2>2. \A p \in Approval : Kept(p)
    BY <2>1 DEF Kept
  <2>3. GoesOn(h)
    BY <1>3, <2>1, EdgeFrame DEF GoesOn, Evaluation, Authorized
  <2>4. \A g \in Handler \ {h} : GoesOn(g)
    BY <2>1 DEF GoesOn, KeepsCall
  <2> QED BY <1>1, <2>2, <2>3, <2>4
<1>4. CASE Reviewer \/ Operator \/ Time
  <2>1. \A g \in Handler : GoesOn(g)
    BY <1>4, OutsideFrame DEF Same, GoesOn, KeepsCall
  <2> QED BY <1>1, <1>4, <2>1, ApprovalsKept
<1> QED BY <1>2, <1>3, <1>4 DEF Action

LEMMA GatewayInvStep == GatewayInv /\ [Next]_vars => GatewayInv'
<1> SUFFICES ASSUME GatewayInv, [Next]_vars PROVE GatewayInv'
  OBVIOUS
<1> USE DEF GatewayInv
<1>1. CASE Action
  BY <1>1, TypesStep, ExecutionStep, ApprovalStep
<1>2. CASE UNCHANGED vars
  <2> USE <1>2 DEF vars, serviceVars
  <2>1. ServiceTyped'
    BY DEF ServiceTyped
  <2>2. ReserveIsEgress' /\ ApprovalHeld' /\ ApprovalSpentOnce'
    BY DEF ReserveIsEgress, ApprovalHeld, ApprovalSpentOnce
  <2>3. ClaimHeld' /\ RunsCounted'
    BY QuietExecution DEF Same
  <2> QED BY <2>1, <2>2, <2>3
<1> QED BY <1>1, <1>2 DEF Next

LEMMA GatewayInvariant == Spec => []GatewayInv
  BY GatewayInvInit, GatewayInvStep, PTL DEF Spec

-----------------------------------------------------------------------------
(* Blocked agents.                                                          *)

(* Places an evaluated call reaches once its agent was found neither        *)
(* contained nor quarantined.                                               *)
Cleared(h) ==
  /\ work[h].approval = NoApproval
  /\ \/ work[h].pc \in {"policy", "budget", "sequence", "approve"}
     \/ work[h].pc = "finalize" /\ work[h].decision = "allow"
     \/ work[h].pc \in Authorized

(* What each check rules out stays ruled out: a cause that was absent once  *)
(* during the call is not in barred any more.                               *)
Screened(h) ==
  /\ work[h].pc \in {"quarantine", "row"} \/ Cleared(h)
       => barred[h] \cap {"containment", "restriction"} = {}
  /\ Cleared(h) => "row" \notin barred[h]
  /\ work[h].pc \in {"recheckrow", "reevaluate", "consume"} \cup Authorized
       => "containment" \notin barred[h]
  /\ work[h].pc \in {"reevaluate", "consume"} \cup Authorized
       => "row" \notin barred[h]
  /\ work[h].pc \in Recheck => work[h].approval # NoApproval

LEMMA BarredStep ==
  ASSUME TrackBarred, NEW g \in Handler
  PROVE  /\ Busy(g) => barred'[g] \subseteq barred[g]
         /\ \A k \in barred'[g] :
              \E c \in Call : work'[g].call = c /\ k \in Causes(c)'
  BY DEF TrackBarred

(* Going on from one place to the next.                                     *)
LEMMA Going ==
  ASSUME work \in [Handler -> Work], NEW h \in Handler
  PROVE  /\ \A pc : Goto(h, pc) => /\ KeepsCall(h)
                                   /\ work'[h].pc = pc
                                   /\ work'[h].decision = work[h].decision
         /\ \A d, pc : Decide(h, d, pc) => /\ KeepsCall(h)
                                           /\ work'[h].pc = pc
                                           /\ work'[h].decision = d
         /\ Return(h) => work'[h].pc = "idle"
  BY DEF Goto, Decide, Return, KeepsCall, Work, Idle

(* A thread that stays where it is, or is not serving a call.               *)
LEMMA ScreenedStays ==
  ASSUME NEW g \in Handler, Screened(g), TrackBarred,
         Same(g) \/ work'[g].pc = "idle"
  PROVE  Screened(g)'
<1>1. CASE work'[g].pc = "idle"
  BY <1>1 DEF Screened, Cleared, Authorized, Recheck
<1>2. CASE Same(g) /\ work'[g].pc # "idle"
  <2>1. barred'[g] \subseteq barred[g]
    BY <1>2, BarredStep DEF Same, Busy
  <2> QED BY <1>2, <2>1 DEF Screened, Cleared, Same
<1> QED BY <1>1, <1>2

(* The step of a thread.                                                    *)
LEMMA ScreenedStep ==
  ASSUME work \in [Handler -> Work], ApprovalHeld, TrackBarred,
         NEW h \in Handler, Step(h), Screened(h)
  PROVE  Screened(h)'
<1>1. ASSUME Busy(h) PROVE barred'[h] \subseteq barred[h]
  BY <1>1, BarredStep
<1>2. ASSUME Return(h) PROVE Screened(h)'
  BY <1>2, Going, ScreenedStays
<1>3. CASE ReadContainment(h)
  <2>1. CASE Goto(h, "quarantine") /\ ~Blocking(Active(AgentOf(h)).mode)
             /\ ~RestrictedAway(AgentOf(h), CallTool[work[h].call])
    <3>1. work'[h].call = work[h].call /\ work'[h].pc = "quarantine"
      BY <2>1, Going DEF KeepsCall
    <3>2. UNCHANGED containments
      BY <1>3 DEF ReadContainment, containmentVars, storeVars
    <3>3. ASSUME NEW c, c = work[h].call
          PROVE  {"containment", "restriction"} \cap Causes(c)' = {}
      <4>1. /\ ~Blocking(Active(CallAgent[c]).mode)'
            /\ ~RestrictedAway(CallAgent[c], CallTool[c])'
        BY <2>1, <3>2, <3>3
           DEF AgentOf, RestrictedAway, Active, Live, Blocking
      <4> QED BY <4>1 DEF Causes
    <3>4. barred'[h] \cap {"containment", "restriction"} = {}
      BY <3>1, <3>3, BarredStep
    <3> QED BY <3>1, <3>4 DEF Screened, Cleared, Authorized, Recheck
  <2>2. CASE Decide(h, "deny", "finalize")
             \/ Decide(h, "deny_uncounted", "finalize")
    BY <2>2, Going DEF Screened, Cleared, Authorized, Recheck
  <2> QED BY <1>3, <2>1, <2>2 DEF ReadContainment
<1>4. CASE ReadQuarantine(h)
  <2>1. work[h].pc = "quarantine"
    BY <1>4 DEF ReadQuarantine
  <2>2. CASE Goto(h, "row")
    BY <1>1, <2>1, <2>2, Going
       DEF Busy, Screened, Cleared, Authorized, Recheck
  <2>3. CASE Decide(h, "deny_uncounted", "finalize")
    BY <2>3, Going DEF Screened, Cleared, Authorized, Recheck
  <2> QED BY <1>4, <2>2, <2>3 DEF ReadQuarantine
<1>5. CASE ReadRow(h)
  <2>1. work[h].pc = "row"
    BY <1>5 DEF ReadRow
  <2>2. CASE Goto(h, "policy") /\ ~quarantined[AgentOf(h)]
    <3>1. work'[h].call = work[h].call /\ work'[h].pc = "policy"
      BY <2>2, Going DEF KeepsCall
    <3>2. UNCHANGED quarantined
      BY <1>5 DEF ReadRow, containmentVars, storeVars
    <3>3. \A c : c = work[h].call => "row" \notin Causes(c)'
      BY <2>2, <3>2 DEF Causes, AgentOf
    <3>4. "row" \notin barred'[h]
      BY <3>1, <3>3, BarredStep
    <3> QED BY <1>1, <2>1, <3>1, <3>4
            DEF Busy, Screened, Cleared, Authorized, Recheck
  <2>3. CASE Decide(h, "deny_uncounted", "finalize")
    BY <2>3, Going DEF Screened, Cleared, Authorized, Recheck
  <2> QED BY <1>5, <2>2, <2>3 DEF ReadRow
<1>6. CASE \/ EvaluatePolicy(h) \/ CheckBudget(h) \/ CheckSequence(h)
           \/ CreateApproval(h)
  <2>1. work[h].pc \in {"policy", "budget", "sequence", "approve"}
    BY <1>6 DEF EvaluatePolicy, CheckBudget, CheckSequence, CreateApproval
  <2>2. /\ KeepsCall(h)
        /\ work'[h].pc \in {"budget", "sequence", "approve", "finalize"}
    BY <1>6, Going DEF EvaluatePolicy, CheckBudget, CheckSequence,
                       CreateApproval, Route
  <2>3. work[h].approval = NoApproval
    BY <2>1 DEF ApprovalHeld, Evaluation
  <2> QED BY <1>1, <2>1, <2>2, <2>3
          DEF Busy, KeepsCall, Screened, Cleared, Authorized, Recheck
<1>7. CASE Finalize(h)
  <2>1. work[h].pc = "finalize" /\ work[h].approval = NoApproval
    BY <1>7 DEF Finalize, ApprovalHeld, Evaluation
  <2>2. CASE Goto(h, "responding")
    BY <2>2, Going DEF Screened, Cleared, Authorized, Recheck
  <2>3. CASE Goto(h, "claim") /\ work[h].decision = "allow"
    BY <1>1, <2>1, <2>3, Going
       DEF Busy, KeepsCall, Screened, Cleared, Authorized, Recheck
  <2> QED BY <1>2, <1>7, <2>2, <2>3 DEF Finalize
<1>8. CASE Responded(h) \/ RecordLineage(h) \/ FinishOverBudget(h)
  BY <1>2, <1>8 DEF Responded, RecordLineage, FinishOverBudget
<1>9. CASE ResponseStep(h) /\ UNCHANGED <<serviceVars, work>>
  BY <1>9, ScreenedStays DEF Same
<1>10. CASE RecheckQuarantine(h)
  <2>1. CASE Goto(h, "recheckrow") /\ ~Blocking(Active(AgentOf(h)).mode)
    <3>1. KeepsCall(h) /\ work'[h].pc = "recheckrow"
      BY <2>1, Going
    <3>2. UNCHANGED containments /\ work[h].pc = "recheck"
      BY <1>10 DEF RecheckQuarantine, containmentVars, storeVars
    <3>3. \A c : c = work[h].call => "containment" \notin Causes(c)'
      BY <2>1, <3>2 DEF Causes, AgentOf, Active, Live
    <3>4. "containment" \notin barred'[h]
      BY <3>1, <3>3, BarredStep DEF KeepsCall
    <3> QED BY <3>1, <3>2, <3>4
            DEF KeepsCall, Screened, Cleared, Authorized, Recheck
  <2> QED BY <1>2, <1>10, <2>1 DEF RecheckQuarantine
<1>11. CASE RecheckRow(h)
  <2>1. CASE Goto(h, "reevaluate") /\ ~quarantined[AgentOf(h)]
    <3>1. KeepsCall(h) /\ work'[h].pc = "reevaluate"
      BY <2>1, Going
    <3>2. UNCHANGED quarantined /\ work[h].pc = "recheckrow"
      BY <1>11 DEF RecheckRow, containmentVars, storeVars
    <3>3. \A c : c = work[h].call => "row" \notin Causes(c)'
      BY <2>1, <3>2 DEF Causes, AgentOf
    <3>4. "row" \notin barred'[h]
      BY <3>1, <3>3, BarredStep DEF KeepsCall
    <3> QED BY <1>1, <3>1, <3>2, <3>4
            DEF Busy, KeepsCall, Screened, Cleared, Authorized, Recheck
  <2> QED BY <1>2, <1>11, <2>1 DEF RecheckRow
<1>12. CASE Reevaluate(h) \/ ConsumeApproval(h)
  <2>1. work[h].pc \in {"reevaluate", "consume"}
    BY <1>12 DEF Reevaluate, ConsumeApproval
  <2>2. CASE Goto(h, "consume") \/ Goto(h, "claim")
    BY <1>1, <2>1, <2>2, Going
       DEF Busy, KeepsCall, Screened, Cleared, Authorized, Recheck
  <2> QED BY <1>2, <1>12, <2>2 DEF Reevaluate, ConsumeApproval
<1>13. CASE \/ ClaimExecution(h) \/ ReserveEgress(h) \/ InvokeConnector(h)
            \/ FinishExecution(h)
  <2>1. work[h].pc \in Authorized
    BY <1>13 DEF ClaimExecution, ReserveEgress, InvokeConnector,
                 FinishExecution, Authorized
  <2>2. CASE KeepsCall(h) /\ work'[h].pc \in Authorized
    BY <1>1, <2>1, <2>2
       DEF Busy, KeepsCall, Screened, Cleared, Authorized, Recheck
  <2>3. work[h].pc \notin Evaluation \cup Recheck /\ ~ConsumeApproval(h)
    BY <2>1 DEF Authorized, Evaluation, Recheck, ConsumeApproval
  <2>4. CASE UNCHANGED work
    BY <2>4, ScreenedStays DEF Same
  <2> QED BY <1>2, <2>2, <2>3, <2>4, Places
<1> QED
  BY <1>3, <1>4, <1>5, <1>6, <1>7, <1>8, <1>9, <1>10, <1>11, <1>12, <1>13
     DEF Step

AllScreened == \A h \in Handler : Screened(h)

LEMMA AllScreenedStep ==
  GatewayInv /\ AllScreened /\ [Next]_vars => AllScreened'
<1> SUFFICES ASSUME GatewayInv, AllScreened, [Next]_vars, NEW g \in Handler
             PROVE  Screened(g)'
  BY DEF AllScreened
<1>1. Screened(g) /\ work \in [Handler -> Work] /\ ServiceTyped /\ ApprovalHeld
  BY DEF AllScreened, GatewayInv
<1>2. CASE UNCHANGED vars
  BY <1>1, <1>2 DEF vars, Screened, Cleared
<1>3. ASSUME NEW h \in Handler, Step(h), TrackBarred
      PROVE  Screened(g)'
  <2>1. CASE g = h
    BY <1>1, <1>3, <2>1, ScreenedStep
  <2>2. CASE g # h
    <3>1. work'[g] = work[g]
      BY <1>1, <1>3, <2>2, Places DEF Return
    <3> QED BY <1>1, <1>3, <3>1, ScreenedStays DEF Same
  <2> QED BY <2>1, <2>2
<1>4. ASSUME NEW h \in Handler, TrackBarred,
             \/ \E c \in Call : Submit(h, c)
             \/ \E p \in Approval : BeginApproved(h, p)
             \/ Abort(h)
      PROVE  Screened(g)'
  <2>1. CASE g # h
    <3>1. work'[g] = work[g]
      BY <1>1, <1>4, <2>1, EdgeFrame
    <3> QED BY <1>1, <1>4, <3>1, ScreenedStays DEF Same
  <2>2. CASE g = h
    <3>1. \/ work'[g].pc \in {"idle", "containment"}
          \/ work'[g].pc = "recheck" /\ work'[g].approval \in Approval
      BY <1>1, <1>4, <2>2, EdgeFrame
    <3> QED BY <3>1, GatewayAssumption
            DEF Screened, Cleared, Authorized, Recheck
  <2> QED BY <2>1, <2>2
<1>5. CASE (Reviewer \/ Operator \/ Time) /\ TrackBarred
  BY <1>1, <1>5, OutsideFrame, ScreenedStays
<1> QED BY <1>2, <1>3, <1>4, <1>5 DEF Next, Action

LEMMA Screening == Spec => []AllScreened
<1>1. Init => AllScreened
  BY DEF Init, Idle, AllScreened, Screened, Cleared, Authorized, Recheck
<1> QED BY <1>1, AllScreenedStep, GatewayInvariant, PTL DEF Spec

-----------------------------------------------------------------------------
(* Sensitive reads and egress.                                              *)

(* What the rows s and the mode m of the service mean for a thread's call w.*)
(* An agent that has a result has its row, until both lapse together; a     *)
(* read that is under way has its row; and an informed egress call that the *)
(* policy allowed is only simulated.                                        *)
Warned(w, s, m) ==
  /\ w.informed => TraceOf(w.call) \in s
  /\ w.pc \in Authorized /\ w.call \in SensitiveRead /\ w.approval = NoApproval
       => TraceOf(w.call) \in s
  /\ w.pc \in {"approve", "finalize"} /\ w.decision = "allow"
       /\ w.call \in Egress /\ w.informed => m = "observe"
  /\ w.pc \in Authorized /\ w.call \in Egress /\ w.approval = NoApproval
       => ~w.informed

SequenceInv ==
  /\ returned \subseteq sensitive
  /\ \A h \in Handler : Warned(work[h], sensitive, mode)

(* A thread that goes on keeps its call and what it was told.               *)
Advances(w, v, pc, d) ==
  /\ v.pc = pc /\ v.decision = d /\ v.call = w.call
  /\ v.approval = w.approval /\ v.informed = w.informed

LEMMA Advancing ==
  ASSUME NEW w \in Work, NEW d, NEW pc, NEW v,
         \/ v = [w EXCEPT !.pc = pc] /\ d = w.decision
         \/ v = [w EXCEPT !.decision = d, !.pc = pc]
  PROVE  Advances(w, v, pc, d)
<1>1. "pc" # "informed" /\ "decision" # "informed" /\ "informed" \in DOMAIN w
  BY DEF Work
<1>2. v.informed = w.informed
  <2>1. CASE v = [w EXCEPT !.pc = pc]
    BY <1>1, <2>1, Zenon
  <2>2. CASE v = [w EXCEPT !.decision = d, !.pc = pc]
    <3>1. DOMAIN [w EXCEPT !.decision = d] = DOMAIN w
      BY Zenon
    <3>2. [w EXCEPT !.decision = d].informed = w.informed
      BY <1>1, Zenon
    <3> QED BY <1>1, <2>2, <3>1, <3>2, Zenon
  <2> QED BY <2>1, <2>2
<1>3. v.pc = pc /\ v.decision = d /\ v.call = w.call /\ v.approval = w.approval
  <2>1. CASE v = [w EXCEPT !.pc = pc] /\ d = w.decision
    BY <2>1 DEF Work
  <2>2. CASE v = [w EXCEPT !.decision = d, !.pc = pc]
    BY <2>2 DEF Work
  <2> QED BY <2>1, <2>2
<1> QED
  BY <1>2, <1>3 DEF Advances

(* It stays warned, wherever it goes but to the execution.                  *)
LEMMA WarnedGoesOn ==
  ASSUME NEW w \in Work, NEW s, NEW m, Warned(w, s, m),
         NEW d, NEW pc, pc \notin Authorized,
         pc \in {"approve", "finalize"} /\ d = "allow"
           => w.call \notin Egress \/ ~w.informed \/ m = "observe",
         NEW v,
         \/ v = [w EXCEPT !.pc = pc] /\ d = w.decision
         \/ v = [w EXCEPT !.decision = d, !.pc = pc]
  PROVE  Warned(v, s, m)
<1>1. Advances(w, v, pc, d)
  BY Advancing
<1> QED
  BY <1>1 DEF Advances, Warned

(* More rows warn no less.                                                  *)
LEMMA MoreRowsWarn ==
  ASSUME NEW w, NEW s, NEW m, Warned(w, s, m), NEW more, s \subseteq more
  PROVE  Warned(w, more, m)
  BY DEF Warned

(* The thread that takes a step, and what it does to the rows and results.  *)
LEMMA WarnedStep ==
  ASSUME work \in [Handler -> Work], ServiceTyped, ApprovalHeld, SequenceInv,
         AllScreened, NEW h \in Handler, Step(h)
  PROVE  /\ Warned(work'[h], sensitive', mode)
         /\ mode' = mode /\ sensitive \subseteq sensitive'
         /\ returned' \subseteq sensitive'
<1> DEFINE w == work[h]
           Tables == /\ mode' = mode /\ sensitive \subseteq sensitive'
                     /\ returned' \subseteq sensitive'
<1>1. /\ w \in Work /\ Warned(w, sensitive, mode) /\ returned \subseteq sensitive
      /\ w.pc \in Evaluation => w.approval = NoApproval
  BY DEF SequenceInv, ApprovalHeld
<1>19. w.pc \in Recheck => w.approval # NoApproval
  BY DEF AllScreened, Screened
<1>2. ASSUME NEW s, NEW m, Return(h) PROVE Warned(work'[h], s, m)
  BY <1>2 DEF Return, Idle, Warned, Authorized
<1>3. ASSUME NEW pc, Goto(h, pc) PROVE work'[h] = [w EXCEPT !.pc = pc]
  BY <1>3 DEF Goto
<1>4. ASSUME NEW d, NEW pc, Decide(h, d, pc)
      PROVE  work'[h] = [w EXCEPT !.decision = d, !.pc = pc]
  BY <1>4 DEF Decide
<1>5. ASSUME NEW pc, pc \notin Authorized \cup {"approve", "finalize"}, Goto(h, pc)
      PROVE  Warned(work'[h], sensitive, mode)
  BY <1>1, <1>3, <1>5, WarnedGoesOn
<1>6. ASSUME NEW d, NEW pc, pc \notin Authorized, Decide(h, d, pc),
             d = "allow" => \/ pc \notin {"approve", "finalize"}
                            \/ w.call \notin Egress \/ mode = "observe"
      PROVE  Warned(work'[h], sensitive, mode)
  <2>1. pc \in {"approve", "finalize"} /\ d = "allow"
          => w.call \notin Egress \/ ~w.informed \/ mode = "observe"
    BY <1>6
  <2>2. work'[h] = [w EXCEPT !.decision = d, !.pc = pc]
    BY <1>4, <1>6
  <2> HIDE DEF w
  <2> QED BY <1>1, <1>6, <2>1, <2>2, WarnedGoesOn
<1>7. \A d : Route(d) \notin Authorized
  BY DEF Route, Authorized
<1>17. ASSUME Warned(work'[h], sensitive, mode), Tables
       PROVE  Warned(work'[h], sensitive', mode)
  BY <1>17, MoreRowsWarn
<1> HIDE DEF w, Tables
<1>8. CASE ReadContainment(h) \/ ReadQuarantine(h) \/ ReadRow(h)
  <2>1. Tables
    BY <1>1, <1>8 DEF Tables, ReadContainment, ReadQuarantine, ReadRow, serviceVars
  <2> QED
    BY <1>5, <1>6, <1>8, <1>17, <2>1
       DEF ReadContainment, ReadQuarantine, ReadRow, Authorized, Tables
<1>9. CASE EvaluatePolicy(h)
  <2>1. Tables
    BY <1>1, <1>9 DEF Tables, EvaluatePolicy, serviceVars
  <2>2. ASSUME NEW d, d \in {"allow", "require_approval"}
        PROVE  LET pc == IF w.call \in Egress /\ mode # "observe"
                         THEN "budget" ELSE Route(d)
               IN  /\ pc \notin Authorized
                   /\ \/ pc \notin {"approve", "finalize"}
                      \/ w.call \notin Egress \/ mode = "observe"
    BY <1>7 DEF Authorized
  <2> QED
    BY <1>6, <1>9, <1>17, <2>1, <2>2 DEF EvaluatePolicy, Authorized, w, Tables
<1>10. CASE CheckBudget(h)
  <2>1. Tables
    BY <1>1, <1>10 DEF Tables, CheckBudget, serviceVars
  <2> QED
    BY <1>5, <1>6, <1>10, <1>17, <2>1 DEF CheckBudget, Authorized, Tables
<1>11. CASE CheckSequence(h)
  <2>1. Tables
    BY <1>1, <1>11 DEF Tables, CheckSequence, serviceVars
  <2>2. PICK d \in {"require_approval", w.decision} :
          /\ Decide(h, d, Route(d))
          /\ TraceOf(w.call) \in sensitive => d = "require_approval"
    BY <1>11 DEF CheckSequence, w
  <2>3. Warned([w EXCEPT !.decision = d, !.pc = Route(d)], sensitive, mode)
    <3>1. d = "allow" => ~w.informed
      BY <1>1, <2>2 DEF Warned
    <3> QED BY <1>1, <1>7, <2>2, <3>1, WarnedGoesOn
  <2> QED BY <1>4, <1>17, <2>1, <2>2, <2>3 DEF Tables
<1>12. CASE CreateApproval(h)
  <2>1. Tables
    BY <1>1, <1>12 DEF Tables, CreateApproval
  <2>2. w.pc = "approve" /\ work'[h] = [w EXCEPT !.pc = "finalize"]
    BY <1>3, <1>12 DEF CreateApproval, w
  <2>3. Warned(work'[h], sensitive, mode)
    <3>1. w.decision = "allow" => w.call \notin Egress \/ ~w.informed \/ mode = "observe"
      BY <1>1, <2>2 DEF Warned
    <3> QED BY <1>1, <2>2, <3>1, WarnedGoesOn DEF Authorized
  <2> QED BY <1>17, <2>1, <2>3 DEF Tables
<1>13. CASE Finalize(h)
  <2>1. Tables
    BY <1>1, <1>13 DEF Tables, Finalize
  <2>2. CASE Goto(h, "responding")
    BY <1>5, <1>17, <2>1, <2>2 DEF Authorized, Tables
  <2>3. CASE Goto(h, "claim") /\ w.decision = "allow" /\ mode # "observe"
    <3>1. /\ w.pc = "finalize"
          /\ w.call \in SensitiveRead => TraceOf(w.call) \in sensitive'
      BY <1>13 DEF Finalize, w
    <3>2. work'[h] = [w EXCEPT !.pc = "claim"]
      BY <1>3, <2>3
    <3>3. Warned(work'[h], sensitive', mode)
      <4>1. Advances(w, work'[h], "claim", w.decision)
        BY <1>1, <3>2, Advancing
      <4>2. w.call \in Egress => ~w.informed
        BY <1>1, <2>3, <3>1 DEF Warned
      <4>3. w.informed => TraceOf(w.call) \in sensitive'
        BY <1>1, <2>1 DEF Warned, Tables
      <4> QED BY <3>1, <4>1, <4>2, <4>3 DEF Advances, Warned
    <3> QED BY <2>1, <3>3 DEF Tables
  <2> QED BY <1>2, <1>13, <2>1, <2>2, <2>3 DEF Finalize, w, Tables
<1>14. CASE Responded(h) \/ RecordLineage(h) \/ FinishOverBudget(h)
  <2>1. Tables
    <3>1. CASE Responded(h) \/ FinishOverBudget(h)
      BY <1>1, <3>1 DEF Tables, Responded, FinishOverBudget, serviceVars
    <3>2. CASE RecordLineage(h)
      <4>1. w.pc \in Authorized
        BY <3>2 DEF RecordLineage, Authorized, w
      <4>2. w.call \in SensitiveRead /\ w.approval = NoApproval
              => TraceOf(w.call) \in sensitive
        BY <1>1, <4>1 DEF Warned
      <4> QED BY <1>1, <3>2, <4>2 DEF Tables, RecordLineage, w
    <3> QED BY <1>14, <3>1, <3>2
  <2> QED BY <1>2, <1>14, <2>1 DEF Responded, RecordLineage, FinishOverBudget, Tables
<1>15. CASE ResponseStep(h) /\ UNCHANGED <<serviceVars, work>>
  BY <1>1, <1>15 DEF serviceVars, w
<1>16. CASE RecheckQuarantine(h) \/ RecheckRow(h) \/ Reevaluate(h)
  <2>1. Tables
    BY <1>1, <1>16 DEF Tables, RecheckQuarantine, RecheckRow, Reevaluate, serviceVars
  <2> QED
    BY <1>2, <1>5, <1>16, <1>17, <2>1
       DEF RecheckQuarantine, RecheckRow, Reevaluate, Authorized, Tables
<1>18. CASE ConsumeApproval(h) \/ ClaimExecution(h) \/ ReserveEgress(h)
             \/ InvokeConnector(h) \/ FinishExecution(h)
  <2>1. Tables
    BY <1>1, <1>18
       DEF Tables, ConsumeApproval, ClaimExecution, ReserveEgress, InvokeConnector,
           FinishExecution
  <2>2. \/ w.pc \in Authorized
        \/ w.pc \in Recheck /\ w.approval # NoApproval
    BY <1>1, <1>18, <1>19
       DEF ConsumeApproval, ClaimExecution, ReserveEgress, InvokeConnector,
           FinishExecution, Authorized, Recheck, w
  <2>3. ASSUME NEW v, NEW pc, NEW d, Advances(w, v, pc, d),
               pc \notin {"approve", "finalize"}
        PROVE  Warned(v, sensitive, mode)
    BY <1>1, <2>2, <2>3 DEF Advances, Warned
  <2>4. ASSUME NEW pc, pc \notin {"approve", "finalize"}, Goto(h, pc)
        PROVE  Warned(work'[h], sensitive, mode)
    <3>1. Advances(w, work'[h], pc, w.decision)
      BY <1>1, <1>3, <2>4, Advancing
    <3> QED BY <2>3, <2>4, <3>1
  <2>5. CASE InvokeConnector(h)
    <3>1. PICK o \in Outcome :
            work' = [work EXCEPT ![h].pc = "finish", ![h].outcome = o]
      BY <2>5 DEF InvokeConnector
    <3> DEFINE v == [w EXCEPT !.pc = "finish"]
    <3>2. work'[h] = [v EXCEPT !.outcome = o]
      BY <3>1 DEF w
    <3>3. Advances(w, v, "finish", w.decision)
      BY <1>1, Advancing
    <3>4. v \in Work
      BY <1>1 DEF Work, Pc, Authorized
    <3>5. Advances(v, work'[h], "finish", w.decision)
      <4> HIDE DEF v
      <4>1. "outcome" # "informed" /\ "informed" \in DOMAIN v
        BY <3>4 DEF Work
      <4>2. work'[h].informed = v.informed
        BY <3>2, <4>1, Zenon
      <4>3. /\ work'[h].pc = v.pc /\ work'[h].decision = v.decision
            /\ work'[h].call = v.call /\ work'[h].approval = v.approval
        BY <3>2, <3>4 DEF Work
      <4> QED BY <3>3, <4>2, <4>3 DEF Advances
    <3>6. Advances(w, work'[h], "finish", w.decision)
      BY <3>3, <3>5 DEF Advances
    <3> QED BY <1>17, <2>1, <2>3, <3>6 DEF Tables
  <2>6. CASE Goto(h, "claim") \/ Goto(h, "reserve") \/ Goto(h, "invoke")
               \/ Goto(h, "overbudget") \/ Goto(h, "lineage")
    BY <1>17, <2>1, <2>4, <2>6 DEF Tables
  <2> QED
    BY <1>2, <1>18, <2>1, <2>5, <2>6
       DEF ConsumeApproval, ClaimExecution, ReserveEgress, FinishExecution, Tables
<1> QED
  BY <1>8, <1>9, <1>10, <1>11, <1>12, <1>13, <1>14, <1>15, <1>16, <1>18 DEF Step, Tables, w

(* Time, redeployments and everybody else.                                  *)
LEMMA WarnedOutside ==
  ASSUME work \in [Handler -> Work], SequenceInv, Reviewer \/ Operator \/ Time
  PROVE  SequenceInv'
<1>1. CASE UNCHANGED <<work, mode, sensitive, returned>>
  BY <1>1 DEF SequenceInv
<1>2. ASSUME NEW t \in Trace, AgeSequence(t) PROVE SequenceInv'
  <2>1. /\ sensitive' = sensitive \ {t} /\ returned' = returned \ {t} /\ mode' = mode
        /\ work' = [h \in Handler |->
             IF TraceOf(work[h].call) = t
             THEN [work[h] EXCEPT !.informed = FALSE] ELSE work[h]]
        /\ \A h \in Evaluating :
             work[h].call \in SensitiveRead => TraceOf(work[h].call) # t
    BY <1>2 DEF AgeSequence
  <2>2. ASSUME NEW h \in Handler PROVE Warned(work'[h], sensitive', mode')
    <3> DEFINE w == work[h]
               v == [w EXCEPT !.informed = FALSE]
    <3>1. w \in Work /\ Warned(w, sensitive, mode)
      BY DEF SequenceInv
    <3>2. w.pc \in Authorized /\ w.call \in SensitiveRead /\ w.approval = NoApproval
            => TraceOf(w.call) # t
      BY <2>1 DEF Evaluating, Busy, Authorized
    <3>3. work'[h] = IF TraceOf(w.call) = t THEN v ELSE w
      BY <2>1
    <3>4. v.pc = w.pc /\ v.call = w.call /\ v.approval = w.approval /\ ~v.informed
      BY <3>1 DEF Work
    <3> HIDE DEF w, v
    <3>5. CASE TraceOf(w.call) = t
      BY <2>1, <3>2, <3>3, <3>4, <3>5 DEF Warned
    <3>6. CASE TraceOf(w.call) # t
      <4>1. Warned(w, sensitive', mode')
        BY <2>1, <3>1, <3>6 DEF Warned
      <4> QED BY <3>3, <3>6, <4>1
    <3> QED BY <3>5, <3>6
  <2> QED BY <2>1, <2>2 DEF SequenceInv
<1>3. ASSUME NEW m \in ModesUsed, Redeploy(m) PROVE SequenceInv'
  <2>1. /\ \A h \in Handler : work[h].pc = "idle"
        /\ UNCHANGED <<sensitive, returned, work>>
    BY <1>3 DEF Redeploy, Busy
  <2>2. \A h \in Handler : Warned(work[h], sensitive, mode')
    BY <2>1 DEF SequenceInv, Warned, Authorized
  <2> QED BY <2>1, <2>2 DEF SequenceInv
<1>4. CASE Reviewer
  BY <1>1, <1>4 DEF Reviewer, ExpireApproval, ResolveApproval
<1>5. CASE Operator
  BY <1>1, <1>3, <1>5 DEF Operator, serviceVars
<1>6. CASE Time
  BY <1>1, <1>2, <1>6 DEF Time, serviceVars, AgeEgress
<1> QED
  BY <1>4, <1>5, <1>6

(* A call that is taken up or given up.                                     *)
LEMMA WarnedEdge ==
  ASSUME SequenceInv, NEW h \in Handler, work \in [Handler -> Work],
         \/ \E c \in Call : Submit(h, c)
         \/ \E p \in Approval : BeginApproved(h, p)
         \/ Abort(h)
  PROVE  UNCHANGED serviceVars /\ Warned(work'[h], sensitive, mode)
<1>1. ASSUME NEW c \in Call, Submit(h, c)
      PROVE  UNCHANGED serviceVars /\ Warned(work'[h], sensitive, mode)
  <2> DEFINE informed == TraceOf(c) \in returned
             v == [Idle EXCEPT !.pc = "containment", !.call = c, !.informed = informed]
  <2>1. work'[h] = v /\ UNCHANGED serviceVars
    BY <1>1 DEF Submit
  <2>2. v.pc = "containment" /\ v.call = c
    BY DEF Idle
  <2>3. v.informed = informed
    BY Zenon DEF Idle
  <2>4. informed => TraceOf(c) \in sensitive
    BY DEF SequenceInv
  <2> HIDE DEF v, informed
  <2> QED BY <2>1, <2>2, <2>3, <2>4 DEF Warned, Authorized
<1>2. ASSUME NEW p \in Approval, BeginApproved(h, p)
      PROVE  UNCHANGED serviceVars /\ Warned(work'[h], sensitive, mode)
  <2>1. /\ work'[h] = [Idle EXCEPT !.pc = "recheck", !.call = approvals[p].call,
                                   !.approval = p]
        /\ UNCHANGED serviceVars
    BY <1>2 DEF BeginApproved
  <2>2. work'[h].pc = "recheck" /\ ~work'[h].informed
    BY <2>1 DEF Idle
  <2> QED BY <2>1, <2>2 DEF Warned, Authorized
<1>3. CASE Abort(h)
  BY <1>3 DEF Abort, Return, Idle, Warned, Authorized
<1> QED
  BY <1>1, <1>2, <1>3

LEMMA SequenceStep ==
  GatewayInv /\ AllScreened /\ SequenceInv /\ [Next]_vars => SequenceInv'
<1> SUFFICES ASSUME GatewayInv, AllScreened, SequenceInv, [Next]_vars
             PROVE  SequenceInv'
  OBVIOUS
<1>1. work \in [Handler -> Work] /\ ServiceTyped /\ ApprovalHeld
  BY DEF GatewayInv
<1>2. CASE UNCHANGED vars
  BY <1>2 DEF vars, serviceVars, SequenceInv
<1>3. ASSUME NEW h \in Handler, Step(h) PROVE SequenceInv'
  <2>1. /\ Warned(work'[h], sensitive', mode)
        /\ mode' = mode /\ sensitive \subseteq sensitive'
        /\ returned' \subseteq sensitive'
    BY <1>1, <1>3, WarnedStep
  <2>2. ASSUME NEW g \in Handler, g # h PROVE Warned(work'[g], sensitive', mode)
    <3>1. work'[g] = work[g]
      BY <1>1, <1>3, <2>2, Places DEF Return
    <3>2. Warned(work[g], sensitive, mode)
      BY DEF SequenceInv
    <3> QED BY <2>1, <3>1, <3>2, MoreRowsWarn
  <2> QED BY <2>1, <2>2 DEF SequenceInv
<1>4. ASSUME NEW h \in Handler,
             \/ \E c \in Call : Submit(h, c)
             \/ \E p \in Approval : BeginApproved(h, p)
             \/ Abort(h)
      PROVE  SequenceInv'
  <2>1. UNCHANGED serviceVars /\ Warned(work'[h], sensitive, mode)
    BY <1>1, <1>4, WarnedEdge
  <2>2. \A g \in Handler \ {h} : work'[g] = work[g]
    BY <1>1, <1>4, EdgeFrame
  <2> QED BY <2>1, <2>2 DEF SequenceInv, serviceVars
<1>5. CASE Reviewer \/ Operator \/ Time
  BY <1>1, <1>5, WarnedOutside
<1> QED
  BY <1>2, <1>3, <1>4, <1>5 DEF Next, Action

LEMMA SequenceInvariant == Spec => []SequenceInv
<1>1. Init => SequenceInv
  BY DEF Init, Idle, SequenceInv, Warned, Authorized
<1> QED
  BY <1>1, SequenceStep, GatewayInvariant, Screening, PTL DEF Spec

-----------------------------------------------------------------------------
(* Sums.  What follows is what induction over finite sets says of           *)
(* MapThenSumSet, with the least counterexample in place of the induction   *)
(* theorems.                                                                *)

LEMMA LeastNumber ==
  ASSUME NEW S, S \subseteq Nat, S # {}
  PROVE  \E x \in S : \A y \in S : x <= y
<1> DEFINE R == {xy \in Nat \X Nat : xy[1] < xy[2]}
<1>1. IsWellFoundedOn(R, Nat)
  BY NatLessThanWellFounded DEF OpToRel
<1> HIDE DEF R
<1>2. PICK x \in S : \A y \in S : ~(<<y, x>> \in R)
  BY <1>1, WFMin
<1>3. \A y \in S : ~(y < x)
  BY <1>2 DEF R
<1> QED
  BY <1>3

(* The total size of the calls of a set                                     *)
Size(s) == MapThenSumSet(LAMBDA c : Bytes[c], s)

Chosen(s) == CHOOSE c \in s : TRUE

(* A function that adds the sizes of the sets of a family up                *)
AddsUp(g, family) ==
  g = [s \in family |-> IF s = {} THEN 0 ELSE Bytes[Chosen(s)] + g[s \ {Chosen(s)}]]

UpTo(T, k) == {s \in SUBSET T : Cardinality(s) <= k}

(* Sets of calls are finite, and taking an element away makes them smaller. *)
LEMMA FewerCalls ==
  ASSUME NEW s, s \subseteq Call
  PROVE  /\ IsFiniteSet(s) /\ Cardinality(s) \in Nat
         /\ Cardinality(s) = 0 <=> s = {}
         /\ \A c \in s : /\ Bytes[c] \in Nat
                         /\ Cardinality(s \ {c}) = Cardinality(s) - 1
         /\ s # {} => Chosen(s) \in s
<1>1. IsFiniteSet(s)
  BY FS_Subset, GatewayAssumption
<1>2. Cardinality(s) \in Nat /\ (Cardinality(s) = 0 <=> s = {})
  BY <1>1, FS_CardinalityType, FS_EmptySet
<1>3. \A c \in s : Cardinality(s \ {c}) = Cardinality(s) - 1
  BY <1>1, FS_RemoveElement
<1> QED
  BY <1>1, <1>2, <1>3, GatewayAssumption DEF Chosen

(* There is such a function for every family of small sets, and so for all. *)
LEMMA SmallSums ==
  ASSUME NEW T, T \subseteq Call, NEW n \in Nat
  PROVE  \E g \in [UpTo(T, n) -> Nat] : AddsUp(g, UpTo(T, n))
<1> DEFINE Adds(k) == \E g \in [UpTo(T, k) -> Nat] : AddsUp(g, UpTo(T, k))
           Bad == {k \in Nat : ~Adds(k)}
<1>1. Adds(0)
  <2>1. UpTo(T, 0) = {{}}
    <3>1. \A s \in SUBSET T : Cardinality(s) <= 0 <=> s = {}
      BY FewerCalls
    <3> QED BY <3>1 DEF UpTo
  <2>2. PICK g : g = [s \in UpTo(T, 0) |-> 0]
    OBVIOUS
  <2>3. AddsUp(g, UpTo(T, 0)) /\ g \in [UpTo(T, 0) -> Nat]
    BY <2>1, <2>2 DEF AddsUp
  <2> QED BY <2>3
<1>2. ASSUME NEW k \in Nat, Adds(k) PROVE Adds(k + 1)
  <2>1. PICK g \in [UpTo(T, k) -> Nat] : AddsUp(g, UpTo(T, k))
    BY <1>2
  <2> DEFINE h == [s \in UpTo(T, k + 1) |->
                     IF s = {} THEN 0 ELSE Bytes[Chosen(s)] + g[s \ {Chosen(s)}]]
  <2>2. \A s \in UpTo(T, k) : s \in UpTo(T, k + 1) /\ h[s] = g[s]
    <3>1. UpTo(T, k) \subseteq UpTo(T, k + 1)
      BY FewerCalls DEF UpTo
    <3> QED BY <2>1, <3>1 DEF AddsUp
  <2>3. \A s \in UpTo(T, k + 1) :
          s # {} => s \ {Chosen(s)} \in UpTo(T, k) /\ Bytes[Chosen(s)] \in Nat
    <3> SUFFICES ASSUME NEW s \in UpTo(T, k + 1), s # {}
                 PROVE  s \ {Chosen(s)} \in UpTo(T, k) /\ Bytes[Chosen(s)] \in Nat
      OBVIOUS
    <3>1. s \subseteq T /\ s \subseteq Call /\ Cardinality(s) <= k + 1
      BY DEF UpTo
    <3>2. /\ Chosen(s) \in s /\ Bytes[Chosen(s)] \in Nat
          /\ Cardinality(s \ {Chosen(s)}) = Cardinality(s) - 1
          /\ Cardinality(s) \in Nat
      BY <3>1, FewerCalls
    <3>3. Cardinality(s \ {Chosen(s)}) <= k
      BY <3>1, <3>2
    <3> QED BY <3>1, <3>2, <3>3 DEF UpTo
  <2>4. h \in [UpTo(T, k + 1) -> Nat]
    BY <2>3
  <2>5. \A s \in UpTo(T, k + 1) :
          h[s] = IF s = {} THEN 0 ELSE Bytes[Chosen(s)] + h[s \ {Chosen(s)}]
    BY <2>2, <2>3
  <2>6. AddsUp(h, UpTo(T, k + 1))
    <3>1. DOMAIN h = UpTo(T, k + 1) /\ h = [s \in UpTo(T, k + 1) |-> h[s]]
      OBVIOUS
    <3> HIDE DEF h
    <3> QED BY <2>5, <3>1 DEF AddsUp
  <2> QED BY <2>4, <2>6
<1> HIDE DEF Adds
<1>3. Bad = {}
  <2> SUFFICES ASSUME Bad # {} PROVE FALSE
    OBVIOUS
  <2>1. PICK k \in Bad : \A j \in Bad : k <= j
    BY LeastNumber
  <2>2. k # 0
    BY <1>1, <2>1
  <2>3. k - 1 \in Nat /\ ~(k <= k - 1)
    BY <2>1, <2>2
  <2>4. Adds(k - 1)
    BY <2>1, <2>3
  <2>5. Adds((k - 1) + 1)
    BY <1>2, <2>3, <2>4
  <2> QED BY <2>1, <2>3, <2>5
<1> QED
  BY <1>3 DEF Adds

LEMMA AllSums ==
  ASSUME NEW T, T \subseteq Call
  PROVE  \E g \in [SUBSET T -> Nat] : AddsUp(g, SUBSET T)
<1>1. PICK n \in Nat : n = Cardinality(T)
  BY FewerCalls
<1>2. UpTo(T, n) = SUBSET T
  <2>1. \A s \in SUBSET T : Cardinality(s) <= n
    BY <1>1, FewerCalls, FS_Subset
  <2> QED BY <2>1 DEF UpTo
<1>3. \E g \in [UpTo(T, n) -> Nat] : AddsUp(g, UpTo(T, n))
  BY SmallSums
<1> QED
  BY <1>2, <1>3

(* The smallest of some sets of calls                                       *)
LEMMA SmallestSet ==
  ASSUME NEW family, family \subseteq SUBSET Call, family # {}
  PROVE  \E s \in family : \A t \in family : Cardinality(s) <= Cardinality(t)
<1> DEFINE Sizes == {Cardinality(s) : s \in family}
<1>1. Sizes \subseteq Nat /\ Sizes # {}
  BY FewerCalls
<1>2. PICK n \in Sizes : \A m \in Sizes : n <= m
  BY <1>1, LeastNumber
<1> QED
  BY <1>2

(* What a set adds up to does not depend on the family it is taken from.    *)
Sums(g, T) == AddsUp(g, SUBSET T)

LEMMA SumsAgree ==
  ASSUME NEW S, S \subseteq Call, NEW T, T \subseteq Call,
         NEW g, Sums(g, S), NEW h, Sums(h, T)
  PROVE  \A s : s \subseteq S /\ s \subseteq T => g[s] = h[s]
<1> DEFINE Bad == {s \in SUBSET S : s \subseteq T /\ g[s] # h[s]}
<1> SUFFICES ASSUME Bad # {} PROVE FALSE
  OBVIOUS
<1>1. PICK s \in Bad : \A t \in Bad : Cardinality(s) <= Cardinality(t)
  BY SmallestSet
<1>2. s \subseteq S /\ s \subseteq T /\ g[s] # h[s]
  BY <1>1
<1>3. /\ g[s] = IF s = {} THEN 0 ELSE Bytes[Chosen(s)] + g[s \ {Chosen(s)}]
      /\ h[s] = IF s = {} THEN 0 ELSE Bytes[Chosen(s)] + h[s \ {Chosen(s)}]
  BY <1>2 DEF AddsUp, Sums
<1>4. s # {}
  BY <1>2, <1>3
<1>5. s \ {Chosen(s)} \in Bad
  BY <1>2, <1>3, <1>4
<1>6. /\ Cardinality(s \ {Chosen(s)}) = Cardinality(s) - 1 /\ Cardinality(s) \in Nat
  BY <1>2, <1>4, FewerCalls
<1> QED
  BY <1>1, <1>5, <1>6

(* MapThenSumSet takes one element after the other.                         *)
LEMMA SizeAdds ==
  ASSUME NEW T, T \subseteq Call
  PROVE  /\ Size(T) \in Nat
         /\ Size(T) = IF T = {} THEN 0 ELSE Bytes[Chosen(T)] + Size(T \ {Chosen(T)})
<1> DEFINE Sum(S) == CHOOSE g : Sums(g, S)
<1>1. ASSUME NEW S, S \subseteq Call
      PROVE  Sums(Sum(S), S) /\ Size(S) = Sum(S)[S]
  <2>1. Size(S) = Sum(S)[S]
    BY DEF Size, MapThenSumSet, MapThenFoldSet, Sums, AddsUp, Chosen
  <2>2. \E g : Sums(g, S)
    BY <1>1, AllSums DEF Sums
  <2> QED BY <2>1, <2>2
<1>2. PICK g \in [SUBSET T -> Nat] : Sums(g, T)
  BY AllSums DEF Sums
<1>3. ASSUME NEW S, S \subseteq T PROVE Size(S) = g[S]
  <2>1. S \subseteq Call
    BY <1>3
  <2>2. PICK f : Sums(f, S) /\ Size(S) = f[S]
    BY <1>1, <2>1
  <2> HIDE DEF Sum
  <2>3. \A s : s \subseteq S /\ s \subseteq T => f[s] = g[s]
    BY <1>2, <2>1, <2>2, SumsAgree
  <2> QED BY <1>3, <2>2, <2>3
<1>4. g[T] = IF T = {} THEN 0 ELSE Bytes[Chosen(T)] + g[T \ {Chosen(T)}]
  BY <1>2 DEF Sums, AddsUp
<1> QED
  BY <1>2, <1>3, <1>4

(* and in any order.                                                        *)
LEMMA SizeOfOne ==
  ASSUME NEW T, T \subseteq Call, NEW c \in T
  PROVE  Size(T) = Bytes[c] + Size(T \ {c})
<1> DEFINE Good(S) == \A d \in S : Size(S) = Bytes[d] + Size(S \ {d})
           Bad == {S \in SUBSET Call : ~Good(S)}
<1> SUFFICES ASSUME Bad # {} PROVE FALSE
  OBVIOUS
<1>1. PICK S \in Bad : \A t \in Bad : Cardinality(S) <= Cardinality(t)
  BY SmallestSet
<1>2. PICK d \in S : Size(S) # Bytes[d] + Size(S \ {d})
  BY <1>1
<1> DEFINE e == Chosen(S)
<1>3. S \subseteq Call /\ S # {} /\ e \in S /\ Cardinality(S) \in Nat
  BY <1>1, <1>2, FewerCalls
<1>4. ASSUME NEW x \in S PROVE Good(S \ {x})
  <2>1. Cardinality(S \ {x}) = Cardinality(S) - 1 /\ S \ {x} \in SUBSET Call
    BY <1>3, FewerCalls
  <2>2. ~(Cardinality(S) <= Cardinality(S \ {x}))
    BY <1>3, <2>1
  <2> QED BY <1>1, <2>1, <2>2
<1>5. Size(S) = Bytes[e] + Size(S \ {e})
  BY <1>3, SizeAdds
<1> HIDE DEF e
<1>6. d # e
  BY <1>2, <1>5
<1>7. /\ Size(S \ {e}) = Bytes[d] + Size((S \ {e}) \ {d})
      /\ Size(S \ {d}) = Bytes[e] + Size((S \ {d}) \ {e})
  BY <1>3, <1>4, <1>6
<1>8. Size((S \ {e}) \ {d}) = Size((S \ {d}) \ {e})
  <2>1. (S \ {e}) \ {d} = (S \ {d}) \ {e}
    OBVIOUS
  <2> QED BY <2>1
<1>9. /\ Bytes[d] \in Nat /\ Bytes[e] \in Nat /\ Size((S \ {d}) \ {e}) \in Nat
  BY <1>3, SizeAdds, GatewayAssumption
<1> HIDE DEF Good, Bad
<1> QED
  BY <1>2, <1>5, <1>7, <1>8, <1>9

(* Fewer calls are no larger.                                               *)
LEMMA SizeOfPart ==
  ASSUME NEW T, T \subseteq Call, NEW R, R \subseteq T
  PROVE  Size(R) <= Size(T)
<1> DEFINE Good(S) == \A r \in SUBSET S : Size(r) <= Size(S)
           Bad == {S \in SUBSET Call : ~Good(S)}
<1> SUFFICES ASSUME Bad # {} PROVE FALSE
  OBVIOUS
<1>1. PICK S \in Bad : \A t \in Bad : Cardinality(S) <= Cardinality(t)
  BY SmallestSet
<1>2. PICK r \in SUBSET S : ~(Size(r) <= Size(S))
  BY <1>1
<1>3. r \subseteq Call /\ S \subseteq Call /\ Size(r) \in Nat /\ Size(S) \in Nat
  BY <1>1, SizeAdds
<1>4. PICK c \in S : c \notin r
  BY <1>2, <1>3
<1>5. /\ Cardinality(S) \in Nat /\ Cardinality(S \ {c}) = Cardinality(S) - 1
      /\ S \ {c} \in SUBSET Call
  BY <1>3, FewerCalls
<1>6. ~(Cardinality(S) <= Cardinality(S \ {c}))
  BY <1>5
<1>7. Good(S \ {c})
  BY <1>1, <1>5, <1>6
<1>8. Size(r) <= Size(S \ {c})
  BY <1>4, <1>7
<1>9. Size(S) = Bytes[c] + Size(S \ {c}) /\ Bytes[c] \in Nat /\ Size(S \ {c}) \in Nat
  BY <1>3, <1>5, SizeOfOne, SizeAdds, GatewayAssumption
<1> HIDE DEF Good, Bad
<1> QED
  BY <1>2, <1>3, <1>8, <1>9

(* What an agent is charged for through some tools, and what one more and   *)
(* one fewer call mean.                                                     *)
Charged(a, tools, calls) ==
  {c \in calls : CallAgent[c] = a /\ CallTool[c] \in tools}

LEMMA ChargedCalls ==
  ASSUME NEW calls, calls \subseteq Call, NEW a, NEW tools, NEW c \in Call
  PROVE  /\ Size(Charged(a, tools, calls)) \in Nat
         /\ Size(Charged(a, tools, calls \cup {c}))
              <= Size(Charged(a, tools, calls)) + Bytes[c]
         /\ CallAgent[c] # a \/ CallTool[c] \notin tools
              => Charged(a, tools, calls \cup {c}) = Charged(a, tools, calls)
         /\ Size(Charged(a, tools, calls \ {c})) <= Size(Charged(a, tools, calls))
<1> DEFINE some == Charged(a, tools, calls)
           more == Charged(a, tools, calls \cup {c})
           fewer == Charged(a, tools, calls \ {c})
<1>1. some \subseteq Call /\ more \subseteq Call /\ fewer \subseteq some
  BY DEF Charged
<1>2. /\ Size(some) \in Nat /\ Size(more) \in Nat /\ Size(fewer) \in Nat
      /\ Bytes[c] \in Nat
  BY <1>1, SizeAdds, GatewayAssumption
<1>3. CallAgent[c] # a \/ CallTool[c] \notin tools => more = some
  BY DEF Charged
<1>4. Size(more) <= Size(some) + Bytes[c]
  <2>1. CASE c \in more
    <3>1. Size(more) = Bytes[c] + Size(more \ {c}) /\ Size(more \ {c}) \in Nat
      BY <1>1, <2>1, SizeOfOne, SizeAdds
    <3>2. more \ {c} \subseteq some
      BY DEF Charged
    <3>3. Size(more \ {c}) <= Size(some)
      BY <1>1, <3>2, SizeOfPart
    <3> HIDE DEF some, more
    <3> QED BY <1>2, <3>1, <3>3
  <2>2. CASE c \notin more
    <3>1. more = some
      BY <2>2 DEF Charged
    <3> HIDE DEF some, more
    <3> QED BY <1>2, <3>1
  <2> QED BY <2>1, <2>2
<1>5. Size(fewer) <= Size(some)
  BY <1>1, SizeOfPart
<1> QED
  BY <1>2, <1>3, <1>4, <1>5

LEMMA SpentIsSize ==
  /\ \A a, tools : SpentThrough(a, tools) = Size(Charged(a, tools, ledger))
  /\ \A a : Spent(a) = Size(Charged(a, Tool, ledger))
  BY DEF Spent, SpentThrough, Size, Charged

(* What goes through some tools is part of what goes through all.           *)
LEMMA SpentThroughSome ==
  ASSUME ledger \subseteq Call, NEW a, NEW tools \in SUBSET Tool
  PROVE  Size(Charged(a, tools, ledger)) <= Spent(a)
<1>1. /\ Charged(a, tools, ledger) \subseteq Charged(a, Tool, ledger)
      /\ Charged(a, Tool, ledger) \subseteq Call
  BY DEF Charged
<1> QED
  BY <1>1, SizeOfPart, SpentIsSize

(* The step that charges looks at the sum in the same transaction.          *)
LEMMA BudgetStep ==
  GatewayInv /\ EgressBudget /\ [Next]_vars => EgressBudget'
<1> SUFFICES ASSUME GatewayInv, EgressBudget, [Next]_vars,
                    NEW a \in Agent, NEW t \in Tool
             PROVE  Size(Charged(a, Cheaper(t), ledger')) <= HourlyLimit[t]
  <2>1. (\A a, tools : SpentThrough(a, tools) = Size(Charged(a, tools, ledger)))'
    BY SpentIsSize, PTL
  <2> QED BY <2>1 DEF EgressBudget
<1> DEFINE InBudget(calls) == Size(Charged(a, Cheaper(t), calls)) <= HourlyLimit[t]
<1>1. /\ ledger \subseteq Call /\ work \in [Handler -> Work]
      /\ HourlyLimit \in [Tool -> Nat] /\ HourlyLimit[t] \in Nat
      /\ Cheaper(t) \in SUBSET Tool
      /\ InBudget(ledger)
  BY SpentIsSize, GatewayAssumption DEF GatewayInv, ServiceTyped, EgressBudget, Cheaper
<1>3. CASE ledger' = ledger
  BY <1>1, <1>3
<1>4. ASSUME NEW h \in Handler, ReserveEgress(h) PROVE InBudget(ledger')
  <2>1. PICK c \in Call : c = work[h].call
    BY <1>1 DEF Work
  <2> DEFINE u == CallTool[c]
  <2>2. CASE ledger' = ledger \cup {c} /\ Spent(CallAgent[c]) + Bytes[c] <= HourlyLimit[u]
    <3>1. CASE CallAgent[c] = a /\ u \in Cheaper(t)
      <4>1. PICK more \in SUBSET Call : more = ledger \cup {c}
        BY <1>1
      <4>2. /\ Size(Charged(a, Cheaper(t), more))
                 <= Size(Charged(a, Cheaper(t), ledger)) + Bytes[c]
            /\ Size(Charged(a, Cheaper(t), ledger)) \in Nat
        BY <1>1, <4>1, ChargedCalls
      <4>3. Size(Charged(a, Cheaper(t), more)) \in Nat
        BY <4>1, ChargedCalls
      <4>4. Size(Charged(a, Cheaper(t), ledger)) <= Spent(a)
        BY <1>1, SpentThroughSome
      <4>5. /\ Bytes[c] \in Nat /\ Spent(a) \in Nat
            /\ HourlyLimit[u] \in Nat /\ HourlyLimit[u] <= HourlyLimit[t]
        BY <1>1, <3>1, ChargedCalls, SpentIsSize, GatewayAssumption DEF Cheaper
      <4> HIDE DEF u
      <4> QED BY <1>1, <2>2, <3>1, <4>1, <4>2, <4>3, <4>4, <4>5
    <3>2. CASE CallAgent[c] # a \/ u \notin Cheaper(t)
      BY <1>1, <2>2, <3>2, ChargedCalls
    <3> QED BY <3>1, <3>2
  <2>3. Spent(CallAgent[c]) + Bytes[c] \in Nat /\ HourlyLimit[u] \in Nat
    <3>1. Spent(CallAgent[c]) \in Nat
      BY <1>1, ChargedCalls, SpentIsSize
    <3> QED BY <1>1, <3>1, GatewayAssumption
  <2> QED BY <1>1, <1>3, <1>4, <2>1, <2>2, <2>3 DEF ReserveEgress
<1>5. ASSUME NEW c \in Call, AgeEgress(c) PROVE InBudget(ledger')
  <2>1. PICK fewer \in SUBSET Call : fewer = ledger \ {c}
    BY <1>1
  <2>2. /\ Size(Charged(a, Cheaper(t), fewer)) <= Size(Charged(a, Cheaper(t), ledger))
        /\ Size(Charged(a, Cheaper(t), ledger)) \in Nat
        /\ Size(Charged(a, Cheaper(t), fewer)) \in Nat
    BY <1>1, <2>1, ChargedCalls
  <2>3. ledger' = fewer
    BY <1>5, <2>1 DEF AgeEgress
  <2> QED BY <1>1, <2>2, <2>3
<1>6. ASSUME NEW h \in Handler, Step(h)
      PROVE  ledger' = ledger \/ ReserveEgress(h)
  BY <1>6
     DEF Step, ReadContainment, ReadQuarantine, ReadRow, EvaluatePolicy, CheckBudget,
         CheckSequence, CreateApproval, Finalize, Responded, RecheckQuarantine,
         RecheckRow, Reevaluate, ConsumeApproval, ClaimExecution, FinishOverBudget,
         InvokeConnector, FinishExecution, RecordLineage, serviceVars
<1>7. CASE UNCHANGED vars
  BY <1>3, <1>7 DEF vars, serviceVars
<1>8. CASE Reviewer \/ Operator
  BY <1>3, <1>8 DEF Reviewer, ExpireApproval, ResolveApproval, Operator, Redeploy,
                    serviceVars
<1>9. CASE Time
  BY <1>3, <1>5, <1>9 DEF Time, AgeSequence, serviceVars
<1>10. ASSUME NEW h \in Handler,
              \/ \E c \in Call : Submit(h, c)
              \/ \E p \in Approval : BeginApproved(h, p)
              \/ Abort(h)
       PROVE  InBudget(ledger')
  BY <1>3, <1>10 DEF Submit, BeginApproved, Abort, serviceVars
<1>11. ASSUME NEW h \in Handler, Step(h)
       PROVE  InBudget(ledger')
  BY <1>3, <1>4, <1>6, <1>11
<1> QED
  BY <1>7, <1>8, <1>9, <1>10, <1>11 DEF Next, Action

-----------------------------------------------------------------------------
(* The properties.                                                          *)

(* The gateway's service, reviewers and clock touch agents, containments,   *)
(* incidents and tokens only as Containment says: every theorem about       *)
(* Containment holds of the gateway.                                        *)
THEOREM ContainmentRefined == Spec => ContainmentSpec
<1>1. Init => ContainmentInit
  BY DEF Init
<1>2. GatewayInv /\ [Next]_vars => [ContainmentNext]_containmentVars
  BY ActionContains DEF GatewayInv, Next, vars
<1> QED BY <1>1, <1>2, GatewayInvariant, PTL DEF Spec, ContainmentSpec

(* Every table and every thread's state holds the values the code uses.     *)
THEOREM GatewayTyped == Spec => []TypeOK
<1> DEFINE BarredTyped == barred \in [Handler -> SUBSET Cause]
<1>1. Init => BarredTyped
  BY DEF Init
<1>2. BarredTyped /\ [Next]_vars => BarredTyped'
  <2> SUFFICES ASSUME BarredTyped, [Next]_vars PROVE BarredTyped'
    OBVIOUS
  <2>1. CASE TrackBarred
    BY <2>1 DEF TrackBarred
  <2>2. CASE UNCHANGED vars
    BY <2>2 DEF vars
  <2> QED BY <2>1, <2>2 DEF Next
<1>3. Spec => []BarredTyped
  <2> HIDE DEF BarredTyped
  <2> QED BY <1>1, <1>2, PTL DEF Spec
<1>4. ContainmentTypeOK /\ GatewayInv /\ BarredTyped => TypeOK
  BY DEF GatewayInv, ServiceTyped, TypeOK
<1> HIDE DEF BarredTyped
<1> QED BY <1>3, <1>4, ContainmentRefined, ContainmentTyped, GatewayInvariant,
          PTL

(* The connector runs at most once for a request, whatever is submitted     *)
(* again, approved, aborted or retried.                                     *)
THEOREM ConnectorRunsOnce == Spec => []AtMostOnce
<1>1. GatewayInv => AtMostOnce
  BY DEF GatewayInv, RunsCounted, AtMostOnce
<1> QED BY <1>1, GatewayInvariant, PTL

(* Of the threads that begin on an approval one executes, and it executes   *)
(* the call that was approved.                                              *)
THEOREM OneApprovalOneExecution == Spec => []ApprovalSpentOnce
<1>1. GatewayInv => ApprovalSpentOnce
  BY DEF GatewayInv
<1> QED BY <1>1, GatewayInvariant, PTL

(* A call of an agent that is blocked from the beginning of the call on is  *)
(* never executed, directly or on an approval, however the blocking row and *)
(* containment change places with others meanwhile.                         *)
THEOREM BlockedAgentsWait == Spec => []BlockedNeverRuns
<1>1. AllScreened => BlockedNeverRuns
  BY DEF AllScreened, Screened, BlockedNeverRuns
<1> QED BY <1>1, Screening, PTL

(* A call to a tool that a restriction excludes from the beginning of the   *)
(* call on is never executed by the evaluation path.                        *)
THEOREM RestrictedToolsWait == Spec => []RestrictedNeverEvaluates
<1>1. AllScreened => RestrictedNeverEvaluates
  BY DEF AllScreened, Screened, Cleared, RestrictedNeverEvaluates
<1> QED BY <1>1, Screening, PTL

(* An agent that got the result of an evaluated sensitive read in a trace   *)
(* cannot send data out in that trace on the word of the policy alone,      *)
(* whatever runs at the same time.                                          *)
THEOREM ReadsHoldEgress == Spec => []SensitiveReadThenEgress
<1>1. SequenceInv => SensitiveReadThenEgress
  BY DEF SequenceInv, Warned, SensitiveReadThenEgress
<1> QED
  BY <1>1, SequenceInvariant, PTL

(* What an agent sent out in the last hour through the tools whose budget   *)
(* is no larger than a given tool's stays within that tool's budget, for    *)
(* all budgets and sizes, any number of agents, tools, calls and threads    *)
(* that pass the advisory check together.                                   *)
THEOREM BudgetIsKept == Spec => []EgressBudget
<1>1. Init => EgressBudget
  <2> SUFFICES ASSUME Init, NEW a \in Agent, NEW t \in Tool
               PROVE  SpentThrough(a, Cheaper(t)) <= HourlyLimit[t]
    BY DEF EgressBudget
  <2>1. Charged(a, Cheaper(t), ledger) = {}
    BY DEF Init, Charged
  <2>2. Size({}) = 0
    BY SizeAdds
  <2>3. HourlyLimit[t] \in Nat /\ SpentThrough(a, Cheaper(t)) = 0
    BY <2>1, <2>2, SpentIsSize, GatewayAssumption
  <2> QED BY <2>3
<1> QED
  BY <1>1, BudgetStep, GatewayInvariant, PTL DEF Spec

-----------------------------------------------------------------------------
(* The execution of a request is that of OneShot.                           *)

(* A step of a thread is a claim, a run, a record or nothing to OneShot.    *)
LEMMA StepIsOneShot ==
  ASSUME GatewayInv, NEW h \in Handler, Step(h)
  PROVE  [Promise!OneShotNext]_<<executions, invoked>>
<1> DEFINE r == RequestOf(h)
<1>1. r \in RequestId
  BY CallTyped DEF GatewayInv
<1>2. CASE ClaimExecution(h)
  <2>1. CASE executions[r] = "none"
    <3>1. Promise!Claim(r)
      BY <1>2, <2>1 DEF ClaimExecution, Promise!Claim
    <3> QED BY <1>1, <3>1 DEF Promise!OneShotNext
  <2>2. CASE executions[r] # "none"
    BY <1>2, <2>2 DEF ClaimExecution
  <2> QED BY <2>1, <2>2
<1>3. CASE InvokeConnector(h)
  <2>1. invoked[r] = 0 /\ executions[r] = "running"
    BY <1>3 DEF InvokeConnector, GatewayInv, RunsCounted, ClaimHeld, Holding
  <2>2. CASE invoked' = [invoked EXCEPT ![r] = IF @ < 2 THEN @ + 1 ELSE @]
    <3>1. (IF invoked[r] < 2 THEN invoked[r] + 1 ELSE invoked[r]) = 1
      BY <2>1
    <3>2. invoked' = [invoked EXCEPT ![r] = 1]
      BY <2>2, <3>1, Zenon
    <3>3. Promise!Run(r)
      BY <1>3, <2>1, <3>2 DEF InvokeConnector, Promise!Run
    <3> QED BY <1>1, <3>3 DEF Promise!OneShotNext
  <2>3. CASE UNCHANGED invoked
    BY <1>3, <2>3 DEF InvokeConnector
  <2> QED BY <1>3, <2>2, <2>3 DEF InvokeConnector
<1>4. CASE FinishOverBudget(h)
  <2>1. invoked[r] = 0 /\ executions[r] = "running"
    BY <1>4 DEF FinishOverBudget, GatewayInv, RunsCounted, ClaimHeld, Holding
  <2>2. Promise!Record(r, "egress_budget_exceeded")
    BY <1>4, <2>1 DEF FinishOverBudget, Promise!Record
  <2> QED BY <1>1, <2>2 DEF Promise!OneShotNext
<1>5. CASE FinishExecution(h)
  <2> DEFINE o == work[h].outcome
  <2>1. o \in {"succeeded", "output_blocked", "failed"}
    BY DEF GatewayInv, Work, Outcome
  <2>2. executions[r] = "running" /\ (o # "failed" => invoked[r] = 1)
    BY <1>5 DEF FinishExecution, GatewayInv, RunsCounted, ClaimHeld, Holding
  <2>3. executions' = [executions EXCEPT ![r] = o] /\ UNCHANGED invoked
    BY <1>5 DEF FinishExecution
  <2> HIDE DEF o, r
  <2>4. Promise!Record(r, o)
    BY <2>1, <2>2, <2>3 DEF Promise!Record
  <2> QED BY <1>1, <2>1, <2>4 DEF Promise!OneShotNext
<1>6. CASE ReserveEgress(h)
  BY <1>6 DEF ReserveEgress
<1>7. CASE /\ ~ClaimExecution(h) /\ ~ReserveEgress(h) /\ ~FinishOverBudget(h)
           /\ ~InvokeConnector(h) /\ ~FinishExecution(h)
  BY <1>7, QuietSteps DEF GatewayInv
<1> QED BY <1>2, <1>3, <1>4, <1>5, <1>6, <1>7

(* The gateway's executions refine OneShot: claimed once, run once under    *)
(* the claim, recorded once and truthfully.                                 *)
THEOREM OneShotRefined == Spec => ExecutesOneShot
<1>1. Init => Promise!OneShotInit
  BY DEF Init, Promise!OneShotInit
<1>2. GatewayInv /\ [Next]_vars => [Promise!OneShotNext]_(Promise!oneShotVars)
  <2> SUFFICES ASSUME GatewayInv, [Next]_vars
               PROVE  [Promise!OneShotNext]_<<executions, invoked>>
    BY DEF Promise!oneShotVars
  <2>1. ASSUME NEW h \in Handler,
               \/ \E c \in Call : Submit(h, c)
               \/ \E p \in Approval : BeginApproved(h, p)
               \/ Abort(h)
        PROVE  UNCHANGED <<executions, invoked>>
    BY <2>1, EdgeFrame DEF GatewayInv, serviceVars
  <2>2. CASE Reviewer \/ Operator \/ Time
    BY <2>2, OutsideFrame DEF GatewayInv
  <2>3. CASE UNCHANGED vars
    BY <2>3 DEF vars, serviceVars
  <2> QED BY <2>1, <2>2, <2>3, StepIsOneShot DEF Next, Action
<1> QED BY <1>1, <1>2, GatewayInvariant, PTL
        DEF Spec, ExecutesOneShot, Promise!OneShotSpec

=============================================================================
