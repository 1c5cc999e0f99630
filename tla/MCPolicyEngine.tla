--------------------------- MODULE MCPolicyEngine ---------------------------
(* An instance of PolicyEngine for TLC: a sensitive tool that sends, one    *)
(* governed field, one label, two levels.                                   *)
EXTENDS PolicyEngine

CONSTANTS a1, s1, text, key, pii, body

Unruled ==
  [agents |-> {a1}, scopes |-> {s1}, refused |-> {}, sensitive |-> FALSE,
   provenance |-> FALSE, fields |-> <<>>, labels |-> {}, max |-> MaxLevel,
   over |-> "deny", egress |-> TRUE, dlp |-> "deny", effect |-> "allow"]

Lenient ==
  [pointer |-> body, provenance |-> FALSE, labels |-> {}, untrusted |-> FALSE,
   max |-> MaxLevel, action |-> "deny"]

FieldRules ==
  {<<>>, <<[Lenient EXCEPT !.provenance = TRUE, !.untrusted = TRUE]>>}
    \cup {<<[Lenient EXCEPT !.labels = {pii}, !.action = action]>> : action \in Violation}
    \cup {<<[Lenient EXCEPT !.max = 0, !.action = action]>> : action \in Violation}

(* Rules of the whole tool, and what else it asks.                          *)
ToolRules ==
  {Unruled, [Unruled EXCEPT !.labels = {pii}]}
    \cup {[Unruled EXCEPT !.max = 0, !.over = action] : action \in Violation}

Kinds == BOOLEAN \X Decision

NoAgent == [Unruled EXCEPT !.agents = {}]
Refusing == [Unruled EXCEPT !.refused = {key}]
AsksOfSecrets == [Unruled EXCEPT !.scopes = {}, !.dlp = "require_approval"]

(* Every field rule with every rule of the tool and every kind of tool, and *)
(* what the other rules refuse.                                             *)
Policies ==
  {None, NoAgent, Refusing, AsksOfSecrets}
  \cup {[tool EXCEPT !.sensitive = kind[1], !.provenance = kind[1],
                     !.effect = kind[2], !.fields = fields] :
          tool \in ToolRules, kind \in Kinds, fields \in FieldRules}

(* What may replace another policy: nothing, no rule, a refusal.            *)
Replacements == {None, Unruled, Refusing}

Tokens ==
  {[trust |-> Trusted, level |-> 0, labels |-> {}, signals |-> FALSE],
   [trust |-> Mixed, level |-> 0, labels |-> {}, signals |-> FALSE],
   [trust |-> Trusted, level |-> 1, labels |-> {pii}, signals |-> FALSE],
   [trust |-> Trusted, level |-> 0, labels |-> {}, signals |-> TRUE]}

Leaves ==
  {[trust |-> Trusted, level |-> 0, labels |-> {}],
   [trust |-> Untrusted, level |-> 1, labels |-> {pii}]}

Made ==
  [agent: {a1}, scopes: {{s1}}, argument: {text},
   shown: {{}} \cup {{x} : x \in Tokens},
   bound: [{body} -> {{}} \cup {{x} : x \in Leaves}]]
  \cup [agent: {a1}, scopes: {{}, {s1}}, argument: {key}, shown: {{}},
        bound: [{body} -> {{}}]]

Recorded ==
  {[trust |-> Trusted, level |-> 0, labels |-> {}],
   [trust |-> Mixed, level |-> 0, labels |-> {}],
   [trust |-> Untrusted, level |-> 0, labels |-> {}],
   [trust |-> Trusted, level |-> 1, labels |-> {}],
   [trust |-> Trusted, level |-> 0, labels |-> {pii}]}
=============================================================================
