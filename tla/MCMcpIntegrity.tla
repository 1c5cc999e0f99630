--------------------------- MODULE MCMcpIntegrity ---------------------------
(* Instances of McpIntegrity for TLC.                                       *)
EXTENDS McpIntegrity, TLC

CONSTANTS s1, s2, n1, good, other, odd, bad

One(n, d) == <<[name |-> n, def |-> d]>>

Clean == Def \ (Hostile \cup Suspect)

(* The definitions on their own, and a manifest that names a tool twice,    *)
(* the first time with a hostile definition.                                *)
Presented ==
  [s \in Server |-> {One(n1, d) : d \in Def \ Hostile}
     \cup {One(n1, h) \o One(n1, d) : h \in Hostile, d \in Clean}]

McpSymmetry == Permutations(Server)
                 \cup Permutations(Clean)

(* A view that leaves out what no later step and no property reads: of an   *)
(* inspection that is past its readings all but what it makes of them, the  *)
(* ghosts of a task that is not going to call, who put a definition there   *)
(* that needs nobody, which clean schema a tool has; and a blocked tool is  *)
(* as good as one that was not observed.                                    *)
Reading(c) ==
  CASE task[c].pc \in {"baseline", "register"} -> <<>>
    [] task[c].pc = "owners" -> <<Found(c) \in Hostile, task[c].base>>
    [] task[c].pc = "observe" -> <<StatusOf(c), Upserts(c)>>
    [] task[c].pc = "upsert" -> <<Upserts(c)>>

MayCall(c) == task[c].route = "sync" /\ task[c].clean

TaskView(c) ==
  CASE task[c].pc = "idle" -> <<>>
    [] task[c].pc \in {"evaluate", "call"} ->
         <<task[c].pc, task[c].route, task[c].server, task[c].tool,
           task[c].route = "approved" \/ (task[c].vetted /\ task[c].alone)>>
    [] OTHER ->
         <<task[c].pc, task[c].route = "accept", task[c].server,
           IF task[c].pc = "register" THEN <<>> ELSE task[c].manifest, At(c),
           Reading(c), MayCall(c),
           IF MayCall(c) THEN <<task[c].vetted, task[c].alone>> ELSE <<>>>>

McpView ==
  <<baseline,
    [s \in Server |-> [n \in Name |->
       <<schema[s][n] = NoDef, schema[s][n] \in Hostile \cup Suspect>>]],
    [s \in Server |-> [n \in Name |->
       baseline[s][n] \in Suspect /\ accepted[s][n]]],
    [s \in Server |-> [n \in Name |->
       IF observation[s][n] = "blocked" THEN "none" ELSE observation[s][n]]],
    [c \in Thread |-> TaskView(c)]>>

=============================================================================
