---------------------------- MODULE PolicyProofs ----------------------------
(***************************************************************************)
(* What is proved of the policy engine for every policy, every call and     *)
(* every number of calls in hand: what is executed satisfies the policy,    *)
(* and no call that was not allowed is allowed for what its agent took in.  *)
(***************************************************************************)
EXTENDS PolicyEngine, WellFoundedInduction, TLAPS

USE PolicyAssumption DEF Trusted, Mixed, Untrusted

-----------------------------------------------------------------------------
(* Numbers.                                                                 *)

LEMMA LeastNumber ==
  ASSUME NEW S, S \subseteq Nat, S # {}
  PROVE  Min(S) \in S /\ \A y \in S : Min(S) <= y
<1> DEFINE R == {xy \in Nat \X Nat : xy[1] < xy[2]}
<1>1. IsWellFoundedOn(R, Nat)
  BY NatLessThanWellFounded DEF OpToRel
<1> HIDE DEF R
<1>2. PICK x \in S : \A y \in S : ~(<<y, x>> \in R)
  BY <1>1, WFMin
<1>3. \A y \in S : ~(y < x)
  BY <1>2 DEF R
<1>4. \A y \in S : x <= y
  BY <1>3
<1> QED
  BY <1>4 DEF Min

LEMMA MaxOfTwo ==
  ASSUME NEW a \in Int, NEW b \in Int
  PROVE  Max({a, b}) \in {a, b} /\ Max({a, b}) >= a /\ Max({a, b}) >= b
<1>1. \E x \in {a, b} : \A y \in {a, b} : x >= y
  <2>1. CASE a >= b
    BY <2>1
  <2>2. CASE b >= a
    BY <2>2
  <2> QED BY <2>1, <2>2
<1>2. /\ Max({a, b}) \in {a, b}
      /\ \A y \in {a, b} : Max({a, b}) >= y
  BY <1>1 DEF Max
<1> QED
  BY <1>2

-----------------------------------------------------------------------------
(* The verdict.                                                             *)

(* The first broken check decides, and nothing else when none is broken.    *)
LEMMA FirstDecides ==
  ASSUME NEW checks, DOMAIN checks \subseteq Nat, NEW otherwise
  PROVE  \/ Broken(checks) = {} /\ First(checks, otherwise) = otherwise
         \/ \E i \in Broken(checks) : First(checks, otherwise) = checks[i].says
<1>1. CASE Broken(checks) = {}
  BY <1>1 DEF First
<1>2. CASE Broken(checks) # {}
  <2>1. Broken(checks) \subseteq Nat
    BY DEF Broken
  <2>2. Min(Broken(checks)) \in Broken(checks)
    BY <1>2, <2>1, LeastNumber
  <2> QED BY <1>2, <2>2 DEF First
<1> QED
  BY <1>1, <1>2

LEMMA BreakParts ==
  /\ \A b : Deny(b).says = "deny" /\ Deny(b).broken = b
  /\ \A b, a : Break(b, a).says = a
  /\ \A b, a : Break(b, a).broken = b
  BY DEF Deny, Break

(* The checks of the call only ever deny.                                   *)
LEMMA CallChecksDeny ==
  ASSUME NEW tool \in Tool, NEW c \in Call, NEW contexts \in SUBSET Context
  PROVE  /\ DOMAIN CallChecks(tool, c, contexts) \subseteq Nat
         /\ \A i \in Broken(CallChecks(tool, c, contexts)) :
              CallChecks(tool, c, contexts)[i].says = "deny"
         /\ Broken(CallChecks(tool, c, contexts)) = {} <=>
              WithinLimits(tool, c, contexts)
<1> DEFINE checks == CallChecks(tool, c, contexts)
<1>1. DOMAIN checks = 1..6
  BY DEF CallChecks
<1>2. /\ checks[1] = Deny(c.agent \notin tool.agents)
      /\ checks[2] = Deny(~(tool.scopes \subseteq c.scopes))
      /\ checks[3] = Deny(c.argument \in tool.refused)
      /\ checks[4] = Deny(tool.provenance /\ contexts = {} /\ \A p \in Pointer : c.bound[p] = {})
      /\ checks[5] = Deny(tool.sensitive /\ \E x \in contexts : x.trust = Untrusted)
      /\ checks[6] = Deny(tool.sensitive /\ \E x \in contexts : x.signals)
  BY DEF CallChecks
<1> HIDE DEF checks
<1>4. \A i \in 1..6 : i \in {1, 2, 3, 4, 5, 6}
  OBVIOUS
<1>5. \A i \in 1..6 : checks[i].says = "deny"
  BY <1>2, <1>4, BreakParts
<1>6. Broken(checks) = {} <=> \A i \in {1, 2, 3, 4, 5, 6} : ~checks[i].broken
  BY <1>1, <1>4 DEF Broken
<1>7. \A x \in contexts : x.trust = Untrusted <=> ~(x.trust < Untrusted)
  BY DEF Context
<1>8. /\ checks[1].broken <=> c.agent \notin tool.agents
      /\ checks[2].broken <=> ~(tool.scopes \subseteq c.scopes)
      /\ checks[3].broken <=> c.argument \in tool.refused
      /\ checks[4].broken <=> (tool.provenance /\ contexts = {} /\ \A p \in Pointer : c.bound[p] = {})
      /\ checks[5].broken <=> (tool.sensitive /\ \E x \in contexts : x.trust = Untrusted)
      /\ checks[6].broken <=> (tool.sensitive /\ \E x \in contexts : x.signals)
  <2>1. checks[1].broken <=> c.agent \notin tool.agents
    <3> DEFINE b == c.agent \notin tool.agents
    <3>1. checks[1] = Deny(b)
      BY <1>2
    <3> HIDE DEF b
    <3>2. checks[1].broken = b
      BY <3>1, BreakParts
    <3> QED BY <3>2 DEF b
  <2>2. checks[2].broken <=> ~(tool.scopes \subseteq c.scopes)
    <3> DEFINE b == ~(tool.scopes \subseteq c.scopes)
    <3>1. checks[2] = Deny(b)
      BY <1>2
    <3> HIDE DEF b
    <3>2. checks[2].broken = b
      BY <3>1, BreakParts
    <3> QED BY <3>2 DEF b
  <2>3. checks[3].broken <=> c.argument \in tool.refused
    <3> DEFINE b == c.argument \in tool.refused
    <3>1. checks[3] = Deny(b)
      BY <1>2
    <3> HIDE DEF b
    <3>2. checks[3].broken = b
      BY <3>1, BreakParts
    <3> QED BY <3>2 DEF b
  <2>4. checks[4].broken <=> (tool.provenance /\ contexts = {} /\ \A p \in Pointer : c.bound[p] = {})
    <3> DEFINE b == (tool.provenance /\ contexts = {} /\ \A p \in Pointer : c.bound[p] = {})
    <3>1. checks[4] = Deny(b)
      BY <1>2
    <3> HIDE DEF b
    <3>2. checks[4].broken = b
      BY <3>1, BreakParts
    <3> QED BY <3>2 DEF b
  <2>5. checks[5].broken <=> (tool.sensitive /\ \E x \in contexts : x.trust = Untrusted)
    <3> DEFINE b == (tool.sensitive /\ \E x \in contexts : x.trust = Untrusted)
    <3>1. checks[5] = Deny(b)
      BY <1>2
    <3> HIDE DEF b
    <3>2. checks[5].broken = b
      BY <3>1, BreakParts
    <3> QED BY <3>2 DEF b
  <2>6. checks[6].broken <=> (tool.sensitive /\ \E x \in contexts : x.signals)
    <3> DEFINE b == (tool.sensitive /\ \E x \in contexts : x.signals)
    <3>1. checks[6] = Deny(b)
      BY <1>2
    <3> HIDE DEF b
    <3>2. checks[6].broken = b
      BY <3>1, BreakParts
    <3> QED BY <3>2 DEF b
  <2> QED BY <2>1, <2>2, <2>3, <2>4, <2>5, <2>6
<1>9. Broken(checks) = {} <=> WithinLimits(tool, c, contexts)
  BY <1>6, <1>7, <1>8 DEF WithinLimits
<1> QED
  BY <1>1, <1>5, <1>9 DEF checks, Broken

(* What a rule asks of the contexts its field is judged by.                 *)
FieldFits(rule, c, contexts) ==
  /\ rule.provenance => Judged(rule, c, contexts) # {}
  /\ \A x \in Judged(rule, c, contexts) :
       /\ Fits(x, rule.labels, rule.max)
       /\ rule.untrusted => x.trust < Untrusted

LEMMA JudgedTyped ==
  ASSUME NEW rule \in FieldRule, NEW c \in Call, NEW contexts \in SUBSET Context,
         NEW x \in Judged(rule, c, contexts)
  PROVE  x.trust \in Trusted..Untrusted /\ x.level \in 0..MaxLevel
<1>1. rule.pointer \in Pointer /\ c.bound \in [Pointer -> SUBSET Leaf]
  BY DEF FieldRule, Call
<1>2. x \in Leaf \/ x \in Context
  BY <1>1 DEF Judged
<1> QED
  BY <1>2 DEF Leaf, Context

LEMMA FieldChecksSay ==
  ASSUME NEW rule \in FieldRule, NEW c \in Call, NEW contexts \in SUBSET Context
  PROVE  /\ DOMAIN FieldChecks(rule, c, contexts) \subseteq Nat
         /\ \A i \in Broken(FieldChecks(rule, c, contexts)) :
              FieldChecks(rule, c, contexts)[i].says \in {"deny", rule.action}
         /\ Broken(FieldChecks(rule, c, contexts)) = {} <=>
              FieldFits(rule, c, contexts)
<1> DEFINE checks == FieldChecks(rule, c, contexts)
           judged == Judged(rule, c, contexts)
<1>1. DOMAIN checks = 1..4
  BY DEF FieldChecks
<1>2. /\ checks[1] = Deny(rule.provenance /\ judged = {})
      /\ checks[2] = Break(\E x \in judged : x.labels \cap rule.labels # {}, rule.action)
      /\ checks[3] = Deny(rule.untrusted /\ \E x \in judged : x.trust = Untrusted)
      /\ checks[4] = Break(\E x \in judged : x.level > rule.max, rule.action)
  BY DEF FieldChecks
<1>3. \A x \in judged : x.trust \in Trusted..Untrusted /\ x.level \in 0..MaxLevel
  BY JudgedTyped
<1> HIDE DEF checks, judged
<1>4. /\ checks[1].says = "deny" /\ checks[2].says = rule.action
      /\ checks[3].says = "deny" /\ checks[4].says = rule.action
  BY <1>2 DEF Deny, Break
<1>5. \A i \in 1..4 : i \in {1, 2, 3, 4}
  OBVIOUS
<1>6. \A i \in 1..4 : checks[i].says \in {"deny", rule.action}
  BY <1>4, <1>5
<1>7. Broken(checks) = {} <=> \A i \in {1, 2, 3, 4} : ~checks[i].broken
  BY <1>1, <1>5 DEF Broken
<1>8. /\ checks[1].broken <=> (rule.provenance /\ judged = {})
      /\ checks[2].broken <=> \E x \in judged : x.labels \cap rule.labels # {}
      /\ checks[3].broken <=> (rule.untrusted /\ \E x \in judged : x.trust = Untrusted)
      /\ checks[4].broken <=> \E x \in judged : x.level > rule.max
  <2>1. checks[1].broken <=> (rule.provenance /\ judged = {})
    BY <1>2, BreakParts
  <2>2. checks[2].broken <=> \E x \in judged : x.labels \cap rule.labels # {}
    <3> DEFINE b == \E x \in judged : x.labels \cap rule.labels # {}
    <3>1. checks[2] = Break(b, rule.action)
      BY <1>2
    <3> HIDE DEF b
    <3>2. checks[2].broken = b
      BY <3>1, BreakParts
    <3> QED BY <3>2 DEF b
  <2>3. checks[3].broken <=> (rule.untrusted /\ \E x \in judged : x.trust = Untrusted)
    BY <1>2, BreakParts
  <2>4. checks[4].broken <=> \E x \in judged : x.level > rule.max
    <3> DEFINE b == \E x \in judged : x.level > rule.max
    <3>1. checks[4] = Break(b, rule.action)
      BY <1>2
    <3> HIDE DEF b
    <3>2. checks[4].broken = b
      BY <3>1, BreakParts
    <3> QED BY <3>2 DEF b
  <2> QED BY <2>1, <2>2, <2>3, <2>4
<1>9. /\ \A x \in judged : x.trust = Untrusted <=> ~(x.trust < Untrusted)
      /\ \A x \in judged : x.level > rule.max <=> ~(x.level <= rule.max)
  BY <1>3 DEF FieldRule
<1>10. Broken(checks) = {} <=>
         /\ rule.provenance => judged # {}
         /\ \A x \in judged : /\ Fits(x, rule.labels, rule.max)
                              /\ rule.untrusted => x.trust < Untrusted
  BY <1>7, <1>8, <1>9 DEF Fits
<1> QED
  BY <1>1, <1>6, <1>10 DEF checks, judged, Broken, FieldFits

LEMMA FlowChecksSay ==
  ASSUME NEW tool \in Tool, NEW c \in Call, NEW contexts \in SUBSET Context
  PROVE  /\ DOMAIN FlowChecks(tool, c, contexts) \subseteq Nat
         /\ \A i \in Broken(FlowChecks(tool, c, contexts)) :
              FlowChecks(tool, c, contexts)[i].says \in {"deny", tool.over, tool.dlp}
         /\ Broken(FlowChecks(tool, c, contexts)) = {} <=>
              /\ \A x \in contexts : Fits(x, tool.labels, tool.max)
              /\ KeepsSecrets(tool, c)
<1> DEFINE checks == FlowChecks(tool, c, contexts)
<1>1. DOMAIN checks = 1..3
  BY DEF FlowChecks
<1>2. /\ checks[1] = Deny(\E x \in contexts : x.labels \cap tool.labels # {})
      /\ checks[2] = Break(\E x \in contexts : x.level > tool.max, tool.over)
      /\ checks[3] = Break(tool.egress /\ c.argument \in Secret, tool.dlp)
  BY DEF FlowChecks
<1> HIDE DEF checks
<1>3. /\ checks[1].says = "deny" /\ checks[2].says = tool.over
      /\ checks[3].says = tool.dlp
  BY <1>2 DEF Deny, Break
<1>4. \A i \in 1..3 : i \in {1, 2, 3}
  OBVIOUS
<1>5. \A i \in 1..3 : checks[i].says \in {"deny", tool.over, tool.dlp}
  BY <1>3, <1>4
<1>6. Broken(checks) = {} <=> \A i \in {1, 2, 3} : ~checks[i].broken
  BY <1>1, <1>4 DEF Broken
<1>7. /\ checks[1].broken <=> \E x \in contexts : x.labels \cap tool.labels # {}
      /\ checks[2].broken <=> \E x \in contexts : x.level > tool.max
      /\ checks[3].broken <=> (tool.egress /\ c.argument \in Secret)
  <2>1. checks[1].broken <=> \E x \in contexts : x.labels \cap tool.labels # {}
    BY <1>2, BreakParts
  <2>2. checks[2].broken <=> \E x \in contexts : x.level > tool.max
    <3> DEFINE b == \E x \in contexts : x.level > tool.max
    <3>1. checks[2] = Break(b, tool.over)
      BY <1>2
    <3> HIDE DEF b
    <3>2. checks[2].broken = b
      BY <3>1, BreakParts
    <3> QED BY <3>2 DEF b
  <2>3. checks[3].broken <=> (tool.egress /\ c.argument \in Secret)
    <3> DEFINE b == (tool.egress /\ c.argument \in Secret)
    <3>1. checks[3] = Break(b, tool.dlp)
      BY <1>2
    <3> HIDE DEF b
    <3>2. checks[3].broken = b
      BY <3>1, BreakParts
    <3> QED BY <3>2 DEF b
  <2> QED BY <2>1, <2>2, <2>3
<1>8. \A x \in contexts : x.level > tool.max <=> ~(x.level <= tool.max)
  BY DEF Context, Tool
<1>9. Broken(checks) = {} <=> /\ \A x \in contexts : Fits(x, tool.labels, tool.max)
                             /\ KeepsSecrets(tool, c)
  BY <1>6, <1>7, <1>8 DEF Fits, KeepsSecrets
<1> QED
  BY <1>1, <1>5, <1>9 DEF checks, Broken

(* The fields: the first failing one decides, as one of its rules says.     *)
LEMMA FieldsDecide ==
  ASSUME NEW tool \in Tool, NEW c \in Call, NEW contexts \in SUBSET Context,
         NEW otherwise
  PROVE  \/ /\ \A i \in DOMAIN tool.fields : FieldFits(tool.fields[i], c, contexts)
            /\ FieldVerdict(tool, c, contexts, otherwise) = otherwise
         \/ \E i \in DOMAIN tool.fields :
              /\ ~FieldFits(tool.fields[i], c, contexts)
              /\ FieldVerdict(tool, c, contexts, otherwise)
                   \in {"deny", tool.fields[i].action}
<1> DEFINE checks == [i \in DOMAIN tool.fields |-> FieldChecks(tool.fields[i], c, contexts)]
           failing == {i \in DOMAIN checks : Broken(checks[i]) # {}}
<1>1. /\ DOMAIN tool.fields \subseteq Nat
      /\ \A i \in DOMAIN tool.fields : tool.fields[i] \in FieldRule
  BY DEF Tool
<1>2. \A i \in DOMAIN tool.fields :
        Broken(checks[i]) = {} <=> FieldFits(tool.fields[i], c, contexts)
  BY <1>1, FieldChecksSay
<1>3. FieldVerdict(tool, c, contexts, otherwise) =
        IF failing = {} THEN otherwise ELSE First(checks[Min(failing)], otherwise)
  BY DEF FieldVerdict
<1>4. CASE failing = {}
  BY <1>2, <1>3, <1>4
<1>5. CASE failing # {}
  <2>1. PICK i \in failing : i = Min(failing)
    BY <1>1, <1>5, LeastNumber
  <2>2. /\ DOMAIN checks[i] \subseteq Nat
        /\ \A k \in Broken(checks[i]) : checks[i][k].says \in {"deny", tool.fields[i].action}
    BY <1>1, FieldChecksSay
  <2>3. First(checks[i], otherwise) \in {"deny", tool.fields[i].action}
    BY <2>2, FirstDecides
  <2> QED BY <1>2, <1>3, <1>5, <2>1, <2>3
<1> QED
  BY <1>4, <1>5

(* The verdict is a denial that nobody can lift, what a rule about taint    *)
(* says, or the effect of the tool.                                         *)
LEMMA VerdictCases ==
  ASSUME NEW tool \in Tool, NEW c \in Call, NEW contexts \in SUBSET Context
  PROVE  \/ ~WithinLimits(tool, c, contexts) /\ Verdict(tool, c, contexts) = "deny"
         \/ /\ WithinLimits(tool, c, contexts)
            /\ ~(WithinFlow(tool, c, contexts) /\ KeepsSecrets(tool, c))
            /\ Verdict(tool, c, contexts) \in Violation
            /\ ~AsksAboutTaint(tool) => Verdict(tool, c, contexts) = "deny"
         \/ /\ WithinLimits(tool, c, contexts)
            /\ WithinFlow(tool, c, contexts) /\ KeepsSecrets(tool, c)
            /\ Verdict(tool, c, contexts) = Effect(tool, contexts)
<1> DEFINE flow == First(FlowChecks(tool, c, contexts), Effect(tool, contexts))
           fields == FieldVerdict(tool, c, contexts, flow)
<1>1. Verdict(tool, c, contexts) = First(CallChecks(tool, c, contexts), fields)
  BY DEF Verdict
<1>2. \A i \in DOMAIN tool.fields : tool.fields[i].action \in Violation
  <2>1. tool.fields \in Seq(FieldRule)
    BY DEF Tool
  <2>2. \A i \in DOMAIN tool.fields : tool.fields[i] \in FieldRule
    BY <2>1
  <2> QED BY <2>2 DEF FieldRule
<1>3. tool.over \in Violation /\ tool.dlp \in Violation
  BY DEF Tool
<1>4. WithinFlow(tool, c, contexts) <=>
        /\ \A x \in contexts : Fits(x, tool.labels, tool.max)
        /\ \A i \in DOMAIN tool.fields : FieldFits(tool.fields[i], c, contexts)
  BY DEF WithinFlow, FieldFits, Judged
<1> HIDE DEF flow
<1>5. \/ /\ \A x \in contexts : Fits(x, tool.labels, tool.max)
         /\ KeepsSecrets(tool, c)
         /\ flow = Effect(tool, contexts)
      \/ /\ ~(/\ \A x \in contexts : Fits(x, tool.labels, tool.max)
             /\ KeepsSecrets(tool, c))
         /\ flow \in {"deny", tool.over, tool.dlp}
  BY FlowChecksSay, FirstDecides DEF flow
<1>6. \/ /\ \A i \in DOMAIN tool.fields : FieldFits(tool.fields[i], c, contexts)
         /\ fields = flow
      \/ \E i \in DOMAIN tool.fields :
           /\ ~FieldFits(tool.fields[i], c, contexts)
           /\ fields \in {"deny", tool.fields[i].action}
  BY FieldsDecide
<1> HIDE DEF fields
<1>7. \/ ~WithinLimits(tool, c, contexts) /\ Verdict(tool, c, contexts) = "deny"
      \/ WithinLimits(tool, c, contexts) /\ Verdict(tool, c, contexts) = fields
  BY <1>1, CallChecksDeny, FirstDecides
<1>8. CASE Verdict(tool, c, contexts) = fields /\ WithinLimits(tool, c, contexts)
  BY <1>2, <1>3, <1>4, <1>5, <1>6, <1>8 DEF Violation, AsksAboutTaint
<1> QED
  BY <1>7, <1>8

LEMMA VerdictIsDecision ==
  ASSUME NEW tool \in Tool \cup {None}, NEW c \in Call, NEW contexts \in SUBSET Context
  PROVE  Verdict(tool, c, contexts) \in Decision
<1>1. CASE tool = None
  BY <1>1 DEF Verdict, Decision
<1>2. CASE tool \in Tool
  BY <1>2, VerdictCases DEF Violation, Decision, Effect, Tool
<1> QED
  BY <1>1, <1>2

-----------------------------------------------------------------------------
(* Taint only grows.                                                        *)

(* Of everything in `old` there is something as bad in `new`.               *)
Covered(old, new) ==
  \A x \in old : \E y \in new :
    /\ y.trust >= x.trust /\ y.level >= x.level /\ x.labels \subseteq y.labels
    /\ x.signals => y.signals

(* What is refused for some contexts is refused for worse ones.             *)
LEMMA WorseIsRefused ==
  ASSUME NEW tool \in Tool \cup {None}, NEW c \in Call,
         NEW old \in SUBSET Context, NEW new \in SUBSET Context,
         Covered(old, new), old # {}, Verdict(tool, c, new) = "allow"
  PROVE  Verdict(tool, c, old) = "allow"
<1>1. tool \in Tool
  BY DEF Verdict
<1>2. /\ WithinLimits(tool, c, new) /\ WithinFlow(tool, c, new)
      /\ KeepsSecrets(tool, c) /\ Effect(tool, new) = "allow"
  BY <1>1, VerdictCases DEF Violation
<1>3. \A x \in Context : /\ x.trust \in Trusted..Untrusted /\ x.level \in 0..MaxLevel
                         /\ x.signals \in BOOLEAN
  BY DEF Context
<1>4. WithinLimits(tool, c, old)
  <2>1. tool.sensitive => \A x \in old : x.trust < Untrusted /\ ~x.signals
    BY <1>2, <1>3 DEF WithinLimits, Covered
  <2> QED BY <1>2, <2>1 DEF WithinLimits
<1>5. ASSUME NEW labels, NEW max \in Nat, \A y \in new : Fits(y, labels, max)
      PROVE  \A x \in old : Fits(x, labels, max)
  BY <1>3, <1>5 DEF Fits, Covered
<1>6. WithinFlow(tool, c, old)
  <2>1. \A x \in old : Fits(x, tool.labels, tool.max)
    BY <1>1, <1>2, <1>5 DEF WithinFlow, Tool
  <2>2. ASSUME NEW i \in DOMAIN tool.fields
        PROVE  FieldFits(tool.fields[i], c, old)
    <3> DEFINE rule == tool.fields[i]
    <3>1. rule \in FieldRule
      BY <1>1 DEF Tool
    <3>2. FieldFits(rule, c, new)
      BY <1>2 DEF WithinFlow, FieldFits, Judged
    <3> HIDE DEF rule
    <3> SUFFICES FieldFits(rule, c, old)
      BY DEF rule
    <3>3. CASE c.bound[rule.pointer] # {}
      BY <3>2, <3>3 DEF FieldFits, Judged
    <3>4. CASE c.bound[rule.pointer] = {}
      <4>1. \A x \in old : Fits(x, rule.labels, rule.max)
        BY <1>5, <3>1, <3>2, <3>4 DEF FieldFits, Judged, FieldRule
      <4>2. rule.untrusted => \A x \in old : x.trust < Untrusted
        BY <1>3, <3>2, <3>4 DEF FieldFits, Judged, Covered
      <4> QED BY <3>4, <4>1, <4>2 DEF FieldFits, Judged
    <3> QED BY <3>3, <3>4
  <2> QED BY <2>1, <2>2 DEF WithinFlow, FieldFits, Judged
<1>7. Effect(tool, old) = "allow"
  <2>1. tool.effect = "allow"
    BY <1>2 DEF Effect
  <2>2. ASSUME tool.sensitive, NEW x \in old, x.trust = Mixed PROVE FALSE
    <3>1. PICK y \in new : y.trust >= x.trust
      BY DEF Covered
    <3>2. y.trust # Mixed /\ y.trust < Untrusted
      BY <1>2, <2>2 DEF Effect, WithinLimits
    <3> QED BY <1>3, <2>2, <3>1, <3>2
  <2> QED BY <2>1, <2>2 DEF Effect
<1> QED
  BY <1>1, <1>2, <1>4, <1>6, <1>7, VerdictCases

(* Another row makes no summary better.                                     *)
LEMMA JoinedIsWorse ==
  ASSUME NEW m \in Leaf \cup {None}, NEW row \in Leaf
  PROVE  /\ Joined(m, row) \in Leaf
         /\ Covered(Summary(m), Summary(Joined(m, row)))
<1>1. CASE m = None
  BY <1>1 DEF Joined, Covered, Summary
<1>2. CASE m # None
  <2> DEFINE t == Max({m.trust, row.trust})  l == Max({m.level, row.level})
             labels == m.labels \cup row.labels
  <2>1. m \in Leaf
    BY <1>2
  <2>2. t \in Trusted..Untrusted /\ t >= m.trust /\ l \in 0..MaxLevel /\ l >= m.level
    <3>1. /\ m.trust \in Trusted..Untrusted /\ row.trust \in Trusted..Untrusted
          /\ m.level \in 0..MaxLevel /\ row.level \in 0..MaxLevel
      BY <2>1 DEF Leaf
    <3>2. \A a, b \in Int : Max({a, b}) \in {a, b} /\ Max({a, b}) >= a
      BY MaxOfTwo
    <3>3. m.trust \in Int /\ row.trust \in Int /\ m.level \in Int /\ row.level \in Int
      BY <3>1
    <3>4. t \in {m.trust, row.trust} /\ t >= m.trust
      BY <3>2, <3>3, Zenon
    <3>5. l \in {m.level, row.level} /\ l >= m.level
      BY <3>2, <3>3, Zenon
    <3> HIDE DEF t, l
    <3> QED BY <3>1, <3>4, <3>5
  <2>3. labels \in SUBSET Label
    BY <2>1 DEF Leaf
  <2>4. Joined(m, row) = [trust |-> t, level |-> l, labels |-> labels]
    BY <1>2 DEF Joined
  <2>5. m.labels \subseteq labels
    OBVIOUS
  <2> HIDE DEF t, l, labels
  <2>6. Joined(m, row) \in Leaf
    BY <2>2, <2>3, <2>4 DEF Leaf
  <2>7. /\ Summary(m) = {[trust |-> m.trust, level |-> m.level,
                          labels |-> m.labels, signals |-> FALSE]}
        /\ Summary(Joined(m, row)) = {[trust |-> t, level |-> l,
                                       labels |-> labels, signals |-> FALSE]}
    BY <1>2, <2>4, <2>6 DEF Summary
  <2>8. Covered(Summary(m), Summary(Joined(m, row)))
    BY <2>2, <2>5, <2>7 DEF Covered
  <2> QED BY <2>6, <2>8
<1> QED
  BY <1>1, <1>2

LEMMA RowsOnlyWorsen ==
  ASSUME NEW m \in Leaf \cup {None}, NEW row \in Leaf, NEW c \in Call
  PROVE  Covered(Contexts(c, m), Contexts(c, Joined(m, row)))
<1>1. \A x \in c.shown : x.trust \in Nat /\ x.level \in Nat
  BY DEF Call, Context
<1>2. Covered(c.shown, c.shown)
  BY <1>1 DEF Covered
<1> QED
  BY <1>2, JoinedIsWorse DEF Covered, Contexts

-----------------------------------------------------------------------------
(* The invariant.                                                           *)

Judgement ==
  [at: {"ran", "held", "approved", "reviewed", "denied"}, call: Calls,
   tool: Tools, contexts: SUBSET Context]

PolicyTyped ==
  /\ policy \in Tools
  /\ memory \in Leaf \cup {None}
  /\ slot \in [Slot -> {Idle} \cup Judgement]

(* A call that was not allowed was so by what it was judged by, and the     *)
(* memory of its agent has not become better since.                         *)
StillRefused(j, m) ==
  j.at \in {"denied", "held", "approved"} =>
    /\ Verdict(j.tool, j.call, j.contexts) # "allow"
    /\ Covered(j.contexts, Contexts(j.call, m))

PolicyInv ==
  /\ PolicyTyped
  /\ RunsWithinPolicy
  /\ \A s \in Slot : StillRefused(slot[s], memory)

LEMMA ContextsTyped ==
  ASSUME NEW c \in Call, NEW m \in Leaf \cup {None}
  PROVE  Contexts(c, m) \in SUBSET Context
<1>1. CASE m = None
  BY <1>1 DEF Contexts, Summary, Call
<1>2. CASE m \in Leaf
  <2>1. [trust |-> m.trust, level |-> m.level, labels |-> m.labels, signals |-> FALSE]
          \in Context
    BY <1>2 DEF Leaf, Context
  <2> QED BY <2>1 DEF Contexts, Summary, Call
<1> QED
  BY <1>1, <1>2

LEMMA CoveredByItself ==
  ASSUME NEW contexts \in SUBSET Context
  PROVE  Covered(contexts, contexts)
<1>1. \A x \in contexts : x.trust \in Nat /\ x.level \in Nat
  BY DEF Context
<1> QED
  BY <1>1 DEF Covered

LEMMA CoveredTransitive ==
  ASSUME NEW a \in SUBSET Context, NEW b \in SUBSET Context,
         NEW d \in SUBSET Context, Covered(a, b), Covered(b, d)
  PROVE  Covered(a, d)
<1>1. \A x \in a \cup b \cup d : x.trust \in Nat /\ x.level \in Nat
  BY DEF Context
<1> SUFFICES ASSUME NEW x \in a
             PROVE  \E z \in d : /\ z.trust >= x.trust /\ z.level >= x.level
                                 /\ x.labels \subseteq z.labels
                                 /\ x.signals => z.signals
  BY DEF Covered
<1>2. PICK y \in b : /\ y.trust >= x.trust /\ y.level >= x.level
                     /\ x.labels \subseteq y.labels
                     /\ x.signals => y.signals
  BY DEF Covered
<1>3. PICK z \in d : /\ z.trust >= y.trust /\ z.level >= y.level
                     /\ y.labels \subseteq z.labels
                     /\ y.signals => z.signals
  BY DEF Covered
<1>4. z.trust >= x.trust /\ z.level >= x.level
  BY <1>1, <1>2, <1>3
<1>5. x.labels \subseteq z.labels /\ (x.signals => z.signals)
  BY <1>2, <1>3
<1> QED
  BY <1>3, <1>4, <1>5

(* What a judgement that is executed shows of the policy it was given by.   *)
RunsWithin(j) ==
  j.at \in {"ran", "reviewed"} =>
    /\ j.tool # None
    /\ WithinLimits(j.tool, j.call, j.contexts)
    /\ j.at = "ran" \/ ~AsksAboutTaint(j.tool) =>
         WithinFlow(j.tool, j.call, j.contexts) /\ KeepsSecrets(j.tool, j.call)
    /\ j.at = "ran" => j.tool.effect = "allow"
    /\ j.at = "reviewed" /\ ~AsksAboutTaint(j.tool) /\ j.tool.effect = "deny" =>
         j.tool.sensitive /\ \E x \in j.contexts : x.trust = Mixed

LEMMA EverySlotRunsWithin ==
  /\ RunsWithinPolicy <=> \A s \in Slot : RunsWithin(slot[s])
  /\ RunsWithinPolicy' <=> \A s \in Slot : RunsWithin(slot'[s])
<1>1. \A j : RunsWithin(j) <=>
        (j.at \in {"ran", "reviewed"} =>
           /\ j.tool # None
           /\ WithinLimits(j.tool, j.call, j.contexts)
           /\ j.at = "ran" \/ ~AsksAboutTaint(j.tool) =>
                WithinFlow(j.tool, j.call, j.contexts) /\ KeepsSecrets(j.tool, j.call)
           /\ j.at = "ran" => j.tool.effect = "allow"
           /\ j.at = "reviewed" /\ ~AsksAboutTaint(j.tool) /\ j.tool.effect = "deny" =>
                j.tool.sensitive /\ \E x \in j.contexts : x.trust = Mixed)
  BY Zenon DEF RunsWithin
<1> QED
  BY <1>1 DEF RunsWithinPolicy

-----------------------------------------------------------------------------
(* Its steps.                                                               *)

LEMMA PolicyInvInit == PolicyInit => PolicyInv
<1> SUFFICES ASSUME PolicyInit PROVE PolicyInv
  OBVIOUS
<1>1. \A s \in Slot : slot[s].at = "idle"
  BY DEF PolicyInit, Idle
<1> QED
  BY <1>1 DEF PolicyInit, PolicyInv, PolicyTyped, RunsWithinPolicy, StillRefused

(* A judgement given by the policy and the memory as they are.              *)
LEMMA NowJudged ==
  ASSUME PolicyTyped, NEW c \in Calls, NEW at \in {"ran", "held", "reviewed", "denied"},
         LET verdict == Verdict(policy, c, Contexts(c, memory)) IN
           /\ at = "ran" => verdict = "allow"
           /\ at = "reviewed" => verdict # "deny"
           /\ at \in {"held", "denied"} => verdict # "allow"
  PROVE  /\ InHand(at, c) \in Judgement
         /\ RunsWithin(InHand(at, c))
         /\ StillRefused(InHand(at, c), memory)
<1> DEFINE contexts == Contexts(c, memory)  j == InHand(at, c)
<1>1. /\ c \in Call /\ policy \in Tools /\ policy \in Tool \cup {None}
      /\ contexts \in SUBSET Context
  BY ContextsTyped DEF PolicyTyped
<1>2. j = [at |-> at, call |-> c, tool |-> policy, contexts |-> contexts]
  BY DEF InHand
<1> HIDE DEF contexts, j
<1>3. j \in Judgement
  BY <1>1, <1>2 DEF Judgement
<1>4. j.at = at /\ j.call = c /\ j.tool = policy /\ j.contexts = contexts
  BY <1>2
<1>5. RunsWithin(j)
  <2> SUFFICES ASSUME at \in {"ran", "reviewed"} PROVE RunsWithin(j)
    BY <1>4 DEF RunsWithin
  <2>1. Verdict(policy, c, contexts) # "deny"
    BY DEF contexts
  <2>2. policy \in Tool
    BY <1>1, <2>1 DEF Verdict
  <2>3. at = "ran" => Verdict(policy, c, contexts) = "allow"
    BY DEF contexts
  <2>4. WithinLimits(policy, c, contexts)
    BY <1>1, <2>1, <2>2, VerdictCases
  <2>5. at = "ran" \/ ~AsksAboutTaint(policy) =>
          /\ WithinFlow(policy, c, contexts) /\ KeepsSecrets(policy, c)
          /\ Verdict(policy, c, contexts) = Effect(policy, contexts)
    BY <1>1, <2>1, <2>2, <2>3, VerdictCases DEF Violation
  <2>6. at = "ran" => policy.effect = "allow"
    BY <2>3, <2>5 DEF Effect
  <2>7. ~AsksAboutTaint(policy) /\ policy.effect = "deny" =>
          policy.sensitive /\ \E x \in contexts : x.trust = Mixed
    BY <2>1, <2>5 DEF Effect
  <2> QED BY <1>1, <1>4, <2>2, <2>4, <2>5, <2>6, <2>7 DEF RunsWithin
<1>6. StillRefused(j, memory)
  <2>1. at \in {"held", "denied"} => Verdict(policy, c, contexts) # "allow"
    BY DEF contexts
  <2>2. Covered(contexts, Contexts(c, memory))
    BY <1>1, CoveredByItself DEF contexts
  <2> QED BY <1>4, <2>1, <2>2 DEF StillRefused
<1> QED
  BY <1>3, <1>5, <1>6 DEF j

(* One call in hand becomes another judgement, or none.                     *)
LEMMA SlotStep ==
  ASSUME PolicyInv, UNCHANGED <<policy, memory>>, NEW s \in Slot, NEW j,
         slot' = [slot EXCEPT ![s] = j], j \in Judgement \cup {Idle},
         RunsWithin(j), StillRefused(j, memory)
  PROVE  PolicyInv'
<1>1. \A r \in Slot : slot'[r] = IF r = s THEN j ELSE slot[r]
  BY DEF PolicyInv, PolicyTyped
<1>2. PolicyTyped'
  BY DEF PolicyInv, PolicyTyped
<1>3. \A r \in Slot : RunsWithin(slot'[r]) /\ StillRefused(slot'[r], memory)
  BY <1>1, EverySlotRunsWithin DEF PolicyInv
<1>4. \A r \in Slot : StillRefused(slot'[r], memory')
  BY <1>3
<1>5. RunsWithinPolicy'
  BY <1>3, EverySlotRunsWithin
<1> QED
  BY <1>2, <1>4, <1>5 DEF PolicyInv

LEMMA PolicyInvStep == PolicyInv /\ [PolicyNext]_policyVars => PolicyInv'
<1> SUFFICES ASSUME PolicyInv, [PolicyNext]_policyVars PROVE PolicyInv'
  OBVIOUS
<1>0. PolicyTyped /\ \A s \in Slot : /\ slot[s] \in {Idle} \cup Judgement
                                    /\ StillRefused(slot[s], memory)
                                    /\ RunsWithin(slot[s])
  BY EverySlotRunsWithin DEF PolicyInv, PolicyTyped
<1>1. ASSUME NEW s \in Slot, NEW c \in Calls, Evaluate(s, c) PROVE PolicyInv'
  <2> DEFINE verdict == Verdict(policy, c, Contexts(c, memory))
             at == CASE verdict = "allow" -> "ran"
                     [] verdict = "require_approval" -> "held"
                     [] verdict = "deny" -> "denied"
  <2>1. verdict \in Decision
    BY <1>0, ContextsTyped, VerdictIsDecision DEF PolicyTyped
  <2>2. /\ slot' = [slot EXCEPT ![s] = InHand(at, c)]
        /\ UNCHANGED <<policy, memory>>
    BY <1>1 DEF Evaluate
  <2> HIDE DEF verdict
  <2>3. /\ at \in {"ran", "held", "denied"}
        /\ at = "ran" => verdict = "allow"
        /\ at \in {"held", "denied"} => verdict # "allow"
    BY <2>1 DEF Decision
  <2> HIDE DEF at
  <2>4. /\ InHand(at, c) \in Judgement /\ RunsWithin(InHand(at, c))
        /\ StillRefused(InHand(at, c), memory)
    BY <1>0, <2>3, NowJudged DEF verdict
  <2> QED BY <2>2, <2>4, SlotStep
<1>2. ASSUME NEW s \in Slot, Approve(s) PROVE PolicyInv'
  <2> DEFINE j == [slot[s] EXCEPT !.at = "approved"]
  <2>1. slot[s] \in Judgement /\ slot[s].at = "held"
    BY <1>0, <1>2 DEF Approve, Idle
  <2>2. /\ slot' = [slot EXCEPT ![s] = j]
        /\ UNCHANGED <<policy, memory>>
    BY <1>2 DEF Approve
  <2>3. /\ j \in Judgement /\ j.at = "approved" /\ j.call = slot[s].call
        /\ j.tool = slot[s].tool /\ j.contexts = slot[s].contexts
    BY <2>1 DEF Judgement
  <2> HIDE DEF j
  <2>4. RunsWithin(j) /\ StillRefused(j, memory)
    BY <1>0, <2>1, <2>3 DEF RunsWithin, StillRefused
  <2> QED BY <2>2, <2>3, <2>4, SlotStep
<1>3. ASSUME NEW s \in Slot, ExecuteApproved(s) PROVE PolicyInv'
  <2> DEFINE c == slot[s].call
  <2>1. c \in Calls
    BY <1>0, <1>3 DEF ExecuteApproved, Idle, Judgement
  <2>2. /\ slot' = [slot EXCEPT ![s] = InHand("reviewed", c)]
        /\ Verdict(policy, c, Contexts(c, memory)) # "deny"
        /\ UNCHANGED <<policy, memory>>
    BY <1>3 DEF ExecuteApproved
  <2> HIDE DEF c
  <2>3. /\ InHand("reviewed", c) \in Judgement /\ RunsWithin(InHand("reviewed", c))
        /\ StillRefused(InHand("reviewed", c), memory)
    BY <1>0, <2>1, <2>2, NowJudged
  <2> QED BY <2>2, <2>3, SlotStep
<1>4. ASSUME NEW s \in Slot, Leave(s) PROVE PolicyInv'
  <2>1. RunsWithin(Idle) /\ StillRefused(Idle, memory)
    BY DEF RunsWithin, StillRefused, Idle
  <2> QED BY <1>4, <2>1, SlotStep DEF Leave
<1>5. ASSUME NEW row \in Rows, RecordRow(row) PROVE PolicyInv'
  <2>1. memory' = Joined(memory, row) /\ policy' = policy /\ slot' = slot
    BY <1>5 DEF RecordRow
  <2>2. row \in Leaf /\ memory' \in Leaf
    BY <1>0, <2>1, JoinedIsWorse DEF PolicyTyped
  <2>3. ASSUME NEW s \in Slot PROVE StillRefused(slot[s], memory')
    <3> DEFINE j == slot[s]
    <3> SUFFICES ASSUME j.at \in {"denied", "held", "approved"}
                 PROVE  Covered(j.contexts, Contexts(j.call, memory'))
      BY <1>0 DEF StillRefused
    <3>1. j.call \in Call /\ j.contexts \in SUBSET Context
      BY <1>0 DEF Idle, Judgement
    <3>2. Covered(Contexts(j.call, memory), Contexts(j.call, memory'))
      BY <1>0, <2>1, <2>2, <3>1, RowsOnlyWorsen DEF PolicyTyped
    <3>3. Covered(j.contexts, Contexts(j.call, memory))
      BY <1>0 DEF StillRefused
    <3>4. /\ Contexts(j.call, memory) \in SUBSET Context
          /\ Contexts(j.call, memory') \in SUBSET Context
      BY <1>0, <2>2, <3>1, ContextsTyped DEF PolicyTyped
    <3> HIDE DEF j
    <3> QED BY <3>1, <3>2, <3>3, <3>4, CoveredTransitive
  <2>4. RunsWithinPolicy'
    BY <1>0, <2>1, EverySlotRunsWithin
  <2>5. PolicyTyped'
    BY <1>0, <2>1, <2>2 DEF PolicyTyped
  <2> QED BY <2>1, <2>3, <2>4, <2>5 DEF PolicyInv
<1>6. ASSUME NEW tool \in Redeployed, Redeploy(tool) PROVE PolicyInv'
  <2>1. /\ \A s \in Slot : slot'[s] = slot[s] \/ slot'[s] = Idle
        /\ policy' \in Tools /\ memory' = memory
    BY <1>6 DEF Redeploy
  <2>2. slot' \in [Slot -> {Idle} \cup Judgement]
    BY <1>0, <1>6 DEF Redeploy
  <2>3. RunsWithin(Idle) /\ StillRefused(Idle, memory)
    BY DEF RunsWithin, StillRefused, Idle
  <2>4. \A s \in Slot : RunsWithin(slot'[s]) /\ StillRefused(slot'[s], memory)
    BY <1>0, <2>1, <2>3
  <2> QED
    BY <1>0, <2>1, <2>2, <2>4, EverySlotRunsWithin DEF PolicyInv, PolicyTyped
<1>7. CASE UNCHANGED policyVars
  BY <1>0, <1>7, EverySlotRunsWithin DEF policyVars, PolicyInv, PolicyTyped
<1> QED
  BY <1>1, <1>2, <1>3, <1>4, <1>5, <1>6, <1>7 DEF PolicyNext

LEMMA PolicyInvariant == PolicySpec => []PolicyInv
  BY PolicyInvInit, PolicyInvStep, PTL DEF PolicySpec

-----------------------------------------------------------------------------
(* What holds of every behaviour.                                           *)

(* THEOREM: a call that ran without a reviewer satisfied every rule of the  *)
(* policy with all the taint recorded by then, and one that a reviewer      *)
(* approved satisfied, when it was executed, what no reviewer can lift.     *)
THEOREM RunsAreWithinPolicy == PolicySpec => []RunsWithinPolicy
<1>1. PolicyInv => RunsWithinPolicy
  BY DEF PolicyInv
<1> QED
  BY <1>1, PolicyInvariant, PTL

(* THEOREM: whatever an agent takes in after a call was denied or held, the *)
(* same call is not allowed by the same policy.                             *)
THEOREM TaintDoesNotPardon == PolicySpec => []TaintNeverPardons
<1>1. PolicyInv => TaintNeverPardons
  <2> SUFFICES ASSUME PolicyInv, NEW s \in Slot,
                      slot[s].at \in {"denied", "held", "approved"},
                      slot[s].tool = policy, slot[s].contexts # {}
               PROVE  Verdict(policy, slot[s].call, Contexts(slot[s].call, memory)) # "allow"
    BY DEF TaintNeverPardons
  <2> DEFINE j == slot[s]
  <2>1. StillRefused(j, memory) /\ j \in Judgement
    BY DEF PolicyInv, PolicyTyped, Idle
  <2>2. /\ j.call \in Call /\ j.tool \in Tool \cup {None}
        /\ j.contexts \in SUBSET Context /\ memory \in Leaf \cup {None}
    BY <2>1 DEF Judgement, PolicyInv, PolicyTyped
  <2>3. Contexts(j.call, memory) \in SUBSET Context
    BY <2>2, ContextsTyped
  <2> HIDE DEF j
  <2>4. j.at \in {"denied", "held", "approved"} /\ j.tool = policy /\ j.contexts # {}
    BY DEF j
  <2>5. /\ Verdict(j.tool, j.call, j.contexts) # "allow"
        /\ Covered(j.contexts, Contexts(j.call, memory))
    BY <2>1, <2>4 DEF StillRefused
  <2>6. Verdict(j.tool, j.call, Contexts(j.call, memory)) # "allow"
    BY <2>2, <2>3, <2>4, <2>5, WorseIsRefused
  <2> QED BY <2>4, <2>6 DEF j
<1> QED
  BY <1>1, PolicyInvariant, PTL
=============================================================================
