------------------------------ MODULE MCLineage ------------------------------
(* Lineage with a tool that reads and a tool that sends.                    *)
EXTENDS Lineage, TLC

CONSTANTS pii, read, send

Rules == [tool \in {read, send} |-> IF tool = send THEN {pii} ELSE {}]

(* Tainted text, of a trace and of none, and a value of no trace that is    *)
(* clean at the top level and has a tainted leaf.                           *)
Attestations ==
  [trace: Trace \cup {NoTrace}, digest: Content, taint: {{pii}}, fields: {<<>>}] \cup
  [trace: {NoTrace}, digest: Content, taint: {{}}, fields: [Leaf -> {{pii}}]]

LineageSymmetry ==
  Permutations(Thread) \cup Permutations(Trace) \cup Permutations(Content)

(* What of a call still matters: for the decision its tool and its          *)
(* bindings, for the output what its tokens carry.                          *)
CallView(t) ==
  LET c == call[t]
      top == TopTaint(c.whole)
      parents == {TopTaint(E) : E \in FieldParents(c)}
  IN CASE pc[t] = "idle" -> <<>>
       [] pc[t] = "evaluate" ->
            <<c.trace, top, parents, c.tool, c.bound = {}, LeafTaint(c.bound), seen[t]>>
       [] pc[t] = "run" -> <<c.trace, top, parents, c.tool>>
       [] pc[t] = "derive" -> <<c.trace, top, parents, out[t] \cup seen[t]>>
       [] OTHER -> <<c.trace, top, out[t]>>

LineageView ==
  <<tokens, lineage, recent, given, pc, knew, [t \in Thread |-> CallView(t)]>>
=============================================================================
