---------------------------- MODULE PolicyEngine ----------------------------
(***************************************************************************)
(* The policy engine's verdict on a call of one tool, and the life of such  *)
(* calls around it: evaluated, held for a reviewer, judged again when the   *)
(* approval is executed, while the server's memory of the agent's taint     *)
(* grows and the service is redeployed with another policy.  Trust and      *)
(* classification are the ranks of taint.py, 0 the best.  An action is one  *)
(* evaluation; the checks around the engine (MCP integrity, budgets, the    *)
(* one-time execution) only refuse more, and belong to other modules.       *)
(***************************************************************************)
EXTENDS Integers, Sequences, FiniteSetsExt

CONSTANTS
  Agent, Scope, Argument, Label, Pointer,
  Secret,     (* arguments in which the scanner finds a secret              *)
  MaxLevel,   (* rank of the highest classification                         *)
  Tools,      (* what policies say of the tool                              *)
  Redeployed, (* those of them that may replace another                     *)
  Calls,      (* the calls that are made                                    *)
  Rows,       (* taint of the lineage rows that are recorded                *)
  Slot,       (* calls in hand                                              *)
  None        (* the policy has no such tool; there are no rows             *)

Trusted == 0
Mixed == 1
Untrusted == 2

Decision == {"allow", "require_approval", "deny"}
Violation == {"require_approval", "deny"}

Leaf == [trust: Trusted..Untrusted, level: 0..MaxLevel, labels: SUBSET Label]
Context == [trust: Trusted..Untrusted, level: 0..MaxLevel, labels: SUBSET Label,
            signals: BOOLEAN]

(* A field rule without a maximum has MaxLevel, one without labels {}.      *)
FieldRule ==
  [pointer: Pointer, provenance: BOOLEAN, labels: SUBSET Label,
   untrusted: BOOLEAN, max: 0..MaxLevel, action: Violation]

(* `refused`: arguments with too long a string or a blocked pattern.        *)
Tool ==
  [agents: SUBSET Agent, scopes: SUBSET Scope, refused: SUBSET Argument,
   sensitive: BOOLEAN, provenance: BOOLEAN, fields: Seq(FieldRule),
   labels: SUBSET Label, max: 0..MaxLevel, over: Violation,
   egress: BOOLEAN, dlp: Violation, effect: Decision]

(* What a call shows: verified tokens, and of the leaves its arguments are  *)
(* bound to those that belong to each governed field.                       *)
Call ==
  [agent: Agent, scopes: SUBSET Scope, argument: Argument,
   shown: SUBSET Context, bound: [Pointer -> SUBSET Leaf]]

ASSUME PolicyAssumption ==
  /\ MaxLevel \in Nat
  /\ None \notin Tool /\ Tools \subseteq Tool \cup {None} /\ Redeployed \subseteq Tools
  /\ Calls \subseteq Call
  /\ None \notin Leaf /\ Rows \subseteq Leaf
  /\ Secret \subseteq Argument

VARIABLES
  policy,   (* what the running service's policy says of the tool           *)
  memory,   (* the summary of the trace's lineage rows, or None (the rows   *)
            (* of other traces count alike, but leave the window again:     *)
            (* Lineage has them)                                            *)
  slot      (* each call in hand: where it is and what it was judged by     *)

policyVars == <<policy, memory, slot>>

-----------------------------------------------------------------------------
(* Contexts.                                                                *)

(* Mutant: the summary is as trusted as its most trusted row.               *)
JoinedTrusting(m, row) ==
  IF m = None THEN row
  ELSE [trust |-> Min({m.trust, row.trust}), level |-> Max({m.level, row.level}),
        labels |-> m.labels \cup row.labels]

(* least_trusted, highest_classification and the union of the labels        *)
Joined(m, row) ==
  IF m = None THEN row
  ELSE [trust |-> Max({m.trust, row.trust}), level |-> Max({m.level, row.level}),
        labels |-> m.labels \cup row.labels]

(* A summary has no signals: they do not outlive their token.               *)
Summary(m) ==
  IF m = None THEN {}
  ELSE {[trust |-> m.trust, level |-> m.level, labels |-> m.labels, signals |-> FALSE]}

Contexts(c, m) == c.shown \cup Summary(m)

-----------------------------------------------------------------------------
(* The verdict: the first check that is broken decides.                     *)

Deny(broken) == [broken |-> broken, says |-> "deny"]
Break(broken, action) == [broken |-> broken, says |-> action]

(* Mutant: a field without bindings is not judged by the whole provenance.  *)
JudgedByBindings(rule, c, contexts) == c.bound[rule.pointer]

(* A field is judged by its bindings where it has any.                      *)
Judged(rule, c, contexts) ==
  IF c.bound[rule.pointer] # {} THEN c.bound[rule.pointer] ELSE contexts

FieldChecks(rule, c, contexts) ==
  LET judged == Judged(rule, c, contexts) IN
  << Deny(rule.provenance /\ judged = {}),
     Break(\E x \in judged : x.labels \cap rule.labels # {}, rule.action),
     Deny(rule.untrusted /\ \E x \in judged : x.trust = Untrusted),
     Break(\E x \in judged : x.level > rule.max, rule.action) >>

CallChecks(tool, c, contexts) ==
  << Deny(c.agent \notin tool.agents),
     Deny(~(tool.scopes \subseteq c.scopes)),
     Deny(c.argument \in tool.refused),
     Deny(tool.provenance /\ contexts = {} /\ \A p \in Pointer : c.bound[p] = {}),
     Deny(tool.sensitive /\ \E x \in contexts : x.trust = Untrusted),
     Deny(tool.sensitive /\ \E x \in contexts : x.signals) >>

FlowChecks(tool, c, contexts) ==
  << Deny(\E x \in contexts : x.labels \cap tool.labels # {}),
     Break(\E x \in contexts : x.level > tool.max, tool.over),
     Break(tool.egress /\ c.argument \in Secret, tool.dlp) >>

Broken(checks) == {i \in DOMAIN checks : checks[i].broken}

First(checks, otherwise) ==
  IF Broken(checks) = {} THEN otherwise ELSE checks[Min(Broken(checks))].says

(* Of the fields the first with a broken check.                             *)
FieldVerdict(tool, c, contexts, otherwise) ==
  LET checks == [i \in DOMAIN tool.fields |-> FieldChecks(tool.fields[i], c, contexts)]
      failing == {i \in DOMAIN checks : Broken(checks[i]) # {}}
  IN IF failing = {} THEN otherwise ELSE First(checks[Min(failing)], otherwise)

Effect(tool, contexts) ==
  IF tool.sensitive /\ \E x \in contexts : x.trust = Mixed
  THEN "require_approval" ELSE tool.effect

Verdict(tool, c, contexts) ==
  IF tool = None THEN "deny"
  ELSE First(CallChecks(tool, c, contexts),
             FieldVerdict(tool, c, contexts,
                          First(FlowChecks(tool, c, contexts), Effect(tool, contexts))))

-----------------------------------------------------------------------------
Idle == [at |-> "idle"]

(* What is in hand of a call: its last verdict and what that was given by.  *)
InHand(at, c) ==
  [at |-> at, call |-> c, tool |-> policy, contexts |-> Contexts(c, memory)]

(* evaluate: an allowed call goes on to its execution and is not judged     *)
(* again; one that needs an approval is held.                               *)
Evaluate(s, c) ==
  LET verdict == Verdict(policy, c, Contexts(c, memory)) IN
  /\ slot[s].at = "idle"
  /\ slot' = [slot EXCEPT ![s] =
       InHand(CASE verdict = "allow" -> "ran"
                [] verdict = "require_approval" -> "held"
                [] verdict = "deny" -> "denied", c)]
  /\ UNCHANGED <<policy, memory>>

Approve(s) ==
  /\ slot[s].at = "held"
  /\ slot' = [slot EXCEPT ![s].at = "approved"]
  /\ UNCHANGED <<policy, memory>>

(* execute_approved: only a denial stops it, and the approval stays.        *)
ExecuteApproved(s) ==
  LET c == slot[s].call IN
  /\ slot[s].at = "approved"
  /\ Verdict(policy, c, Contexts(c, memory)) # "deny"
  /\ slot' = [slot EXCEPT ![s] = InHand("reviewed", c)]
  /\ UNCHANGED <<policy, memory>>

(* The call is over, was refused, its approval was rejected or expired.     *)
Leave(s) ==
  /\ slot[s].at # "idle"
  /\ slot' = [slot EXCEPT ![s] = Idle]
  /\ UNCHANGED <<policy, memory>>

(* A row of the trace is recorded; none is ever deleted.                    *)
RecordRow(row) ==
  /\ memory' = Joined(memory, row)
  /\ UNCHANGED <<policy, slot>>

(* The service comes back with another policy; approvals outlive it.        *)
Redeploy(tool) ==
  /\ tool # policy
  /\ policy' = tool
  /\ slot' = [s \in Slot |->
                IF slot[s].at \in {"held", "approved"} THEN slot[s] ELSE Idle]
  /\ UNCHANGED memory

PolicyInit ==
  /\ policy \in Tools
  /\ memory = None
  /\ slot = [s \in Slot |-> Idle]

PolicyNext ==
  \/ \E s \in Slot : \/ \E c \in Calls : Evaluate(s, c)
                     \/ Approve(s) \/ ExecuteApproved(s) \/ Leave(s)
  \/ \E row \in Rows : RecordRow(row)
  \/ \E tool \in Redeployed : Redeploy(tool)

PolicySpec == PolicyInit /\ [][PolicyNext]_policyVars

-----------------------------------------------------------------------------
(* What no reviewer can give leave for: who may use the tool, with which    *)
(* arguments, from what a sensitive tool may be reached, and what the       *)
(* fields' rules refuse outright.                                           *)
WithinLimits(tool, c, contexts) ==
  /\ c.agent \in tool.agents /\ tool.scopes \subseteq c.scopes
  /\ c.argument \notin tool.refused
  /\ tool.provenance => contexts # {} \/ \E p \in Pointer : c.bound[p] # {}
  /\ tool.sensitive => \A x \in contexts : x.trust < Untrusted /\ ~x.signals

Fits(x, labels, max) == x.labels \cap labels = {} /\ x.level <= max

(* What the taint of a call must satisfy, whole and field by field.         *)
WithinFlow(tool, c, contexts) ==
  /\ \A x \in contexts : Fits(x, tool.labels, tool.max)
  /\ \A i \in DOMAIN tool.fields :
       LET rule == tool.fields[i]
           judged == IF c.bound[rule.pointer] = {} THEN contexts ELSE c.bound[rule.pointer]
       IN /\ rule.provenance => judged # {}
          /\ \A x \in judged : /\ Fits(x, rule.labels, rule.max)
                               /\ rule.untrusted => x.trust < Untrusted

KeepsSecrets(tool, c) == tool.egress => c.argument \notin Secret

(* The policy asks a reviewer about taint, wherever one of its rules could  *)
(* have refused.                                                            *)
AsksAboutTaint(tool) ==
  \/ tool.over = "require_approval" \/ tool.dlp = "require_approval"
  \/ \E i \in DOMAIN tool.fields : tool.fields[i].action = "require_approval"

(* A call that was executed without a reviewer satisfied every rule the     *)
(* policy then had, with all the taint that had been recorded when it was   *)
(* evaluated.  One that a reviewer approved satisfied, when it was executed *)
(* and not only when it was approved, the limits no reviewer can lift - and *)
(* every rule, if the policy never asks a reviewer about taint; then it is  *)
(* of a tool with effect deny only when mixed trust held it (evaluate,      *)
(* _evaluate_field_policies, execute_approved).                             *)
RunsWithinPolicy ==
  \A s \in Slot : slot[s].at \in {"ran", "reviewed"} =>
    LET tool == slot[s].tool  c == slot[s].call  contexts == slot[s].contexts
    IN /\ tool # None
       /\ WithinLimits(tool, c, contexts)
       /\ slot[s].at = "ran" \/ ~AsksAboutTaint(tool) =>
            WithinFlow(tool, c, contexts) /\ KeepsSecrets(tool, c)
       /\ slot[s].at = "ran" => tool.effect = "allow"
       /\ slot[s].at = "reviewed" /\ ~AsksAboutTaint(tool) /\ tool.effect = "deny" =>
            tool.sensitive /\ \E x \in contexts : x.trust = Mixed

(* An agent gets nothing by repeating a call that was denied or held after  *)
(* it has taken in more data: with the same tokens, at least one context    *)
(* and the same policy it is not allowed, however clean what it takes in.   *)
(* A mean of old and new taint instead of their worst would break it, and   *)
(* so would a check that more data switches off (evaluate, trace_summary).  *)
TaintNeverPardons ==
  \A s \in Slot : slot[s].at \in {"denied", "held", "approved"} =>
    LET c == slot[s].call IN
    slot[s].tool = policy /\ slot[s].contexts # {} =>
      Verdict(policy, c, Contexts(c, memory)) # "allow"
=============================================================================
