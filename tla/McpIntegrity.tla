---------------------------- MODULE McpIntegrity ----------------------------
(***************************************************************************)
(* Tool definitions of MCP servers: the accepted baseline of each tool, the *)
(* last observation of it, the schema the running gateway validates with,  *)
(* and the inspections and calls that read and write them.  An upstream    *)
(* may answer with any manifest at any time.  An action is one transaction *)
(* of the store, one exchange with an upstream, or one step on the         *)
(* gateway's memory.                                                       *)
(***************************************************************************)
EXTENDS Naturals, Sequences

CONSTANTS
  Server,    (* configured MCP servers                                     *)
  Name,      (* names of tools                                             *)
  Def,       (* definitions: description and schema                        *)
  Hostile,   (* instruction-shaped or hidden-control ones (critical)       *)
  Suspect,   (* those with a credential-like field (high)                  *)
  Manifests, (* of each server: what it or a reviewer may present          *)
  Request,   (* requests of agents in flight                               *)
  Reviewer,  (* inspections by reviewers in flight                         *)
  NoDef

Entry == [name: Name, def: Def]

ASSUME McpAssumption ==
  /\ Hostile \subseteq Def /\ Suspect \subseteq Def
  /\ Manifests \in [Server -> SUBSET (Seq(Entry) \ {<<>>})]
  /\ NoDef \notin Def

VARIABLES
  baseline,     (* `mcp_tool_baselines`: the accepted digest                *)
  observation,  (* `mcp_tool_observations`: status, "none" when there is no *)
                (* row or it is older than mcp_observation_ttl_seconds      *)
  schema,       (* ToolRegistry._tools and the runtime policy               *)
  task,         (* what each thread is doing                                *)
  accepted      (* ghost: whether a reviewer's acceptance put the baseline  *)
                (* there that is there now                                  *)

mcpVars == <<baseline, observation, schema, task, accepted>>

Thread == Request \cup Reviewer

Status == {"none", "blocked", "review", "trusted"}

Idle == [pc |-> "idle"]
Inspecting ==
  [pc: {"baseline", "owners", "observe", "upsert", "register"},
   route: {"sync", "inspect", "accept"}, server: Server, manifest: UNION {Manifests[s] : s \in Server},
   at: Nat, base: Def \cup {NoDef}, collides: BOOLEAN, clean: BOOLEAN,
   vetted: SUBSET Nat, alone: SUBSET Nat]
Calling ==
  [pc: {"evaluate", "call"}, route: {"sync"}, server: Server, tool: Name,
   vetted: BOOLEAN, alone: BOOLEAN]
CallingApproved ==
  [pc: {"evaluate", "call"}, route: {"approved"}, server: Server, tool: Name]

At(c) == task[c].at
Tool(c) == task[c].manifest[At(c)].name
Found(c) == task[c].manifest[At(c)].def

Goto(c, pc) == task' = [task EXCEPT ![c].pc = pc]
Finish(c) == task' = [task EXCEPT ![c] = Idle]

Owns(s, n) == baseline[s][n] # NoDef
OwnedElsewhere(s, n) == \E o \in Server \ {s} : Owns(o, n)

-----------------------------------------------------------------------------
(* Beginnings: an agent's request at /mcp/upstream/<server>, which          *)
(* discovers; a reviewer's inspection, which may accept; the execution of   *)
(* an approved call, which does neither.                                    *)

(* Ghosts of a task: the places of its manifest whose definition has been   *)
(* the baseline at some time since it began (vetted), and those whose name  *)
(* no other server owned when it began (alone).                             *)
Inspection(route, s, m) ==
  [pc |-> "baseline", route |-> route, server |-> s, manifest |-> m, at |-> 1,
   base |-> NoDef, collides |-> FALSE, clean |-> TRUE,
   vetted |-> {i \in DOMAIN m : baseline[s][m[i].name] = m[i].def},
   alone |-> {i \in DOMAIN m : ~OwnedElsewhere(s, m[i].name)}]

(* Discovery ends here for an agent that is not authorized, or when a page  *)
(* is invalid: the thread is idle as before.                                *)
Discover(c, s, m) ==
  /\ task[c].pc = "idle"
  /\ task' = [task EXCEPT ![c] = Inspection("sync", s, m)]
  /\ UNCHANGED <<baseline, observation, schema, accepted>>

InspectServer(c, s, m, accept) ==
  /\ task[c].pc = "idle"
  /\ task' = [task EXCEPT ![c] =
                Inspection(IF accept THEN "accept" ELSE "inspect", s, m)]
  /\ UNCHANGED <<baseline, observation, schema, accepted>>

ExecuteApproved(c, s, n) ==
  /\ task[c].pc = "idle"
  /\ task' = [task EXCEPT ![c] = [pc |-> "evaluate", route |-> "approved",
                                  server |-> s, tool |-> n]]
  /\ UNCHANGED <<baseline, observation, schema, accepted>>

-----------------------------------------------------------------------------
(* inspect_manifest, for one tool of the manifest after the other.          *)

ReadBaseline(c) ==
  /\ task[c].pc = "baseline"
  /\ task' = [task EXCEPT ![c].pc = "owners",
                          ![c].base = baseline[task[c].server][Tool(c)]]
  /\ UNCHANGED <<baseline, observation, schema, accepted>>

(* Mutant: the servers that own the name are not asked for.                 *)
ReadNoOwners(c) ==
  /\ task[c].pc = "owners"
  /\ task' = [task EXCEPT ![c].pc = "observe", ![c].collides = FALSE]
  /\ UNCHANGED <<baseline, observation, schema, accepted>>

ReadOwners(c) ==
  /\ task[c].pc = "owners"
  /\ task' = [task EXCEPT ![c].pc = "observe",
                ![c].collides = OwnedElsewhere(task[c].server, Tool(c))]
  /\ UNCHANGED <<baseline, observation, schema, accepted>>

Twice(c) == \E i \in DOMAIN task[c].manifest :
              i # At(c) /\ task[c].manifest[i].name = Tool(c)

Changed(c) == task[c].base \notin {NoDef, Found(c)}

Blocking(c) ==
  \/ Found(c) \in Hostile
  \/ Twice(c)
  \/ Changed(c) /\ task[c].route # "accept"

Noteworthy(c) ==
  \/ Found(c) \in Hostile \cup Suspect
  \/ Twice(c) \/ Changed(c) \/ task[c].collides

StatusOf(c) ==
  IF Blocking(c) THEN "blocked" ELSE IF Noteworthy(c) THEN "review" ELSE "trusted"

RecordObservation(c) ==
  /\ task[c].pc = "observe"
  /\ observation' = [observation EXCEPT ![task[c].server][Tool(c)] = StatusOf(c)]
  /\ task' = [task EXCEPT ![c].pc = "upsert",
                          ![c].clean = @ /\ StatusOf(c) = "trusted"]
  /\ UNCHANGED <<baseline, schema, accepted>>

(* Mutant: a tool under review becomes the baseline as a trusted one does.  *)
UpsertsUnlessBlocked(c) == ~Blocking(c)

(* accept_baseline and not blocked, or first_seen_clean, or unchanged_clean *)
Upserts(c) ==
  \/ task[c].route = "accept" /\ ~Blocking(c)
  \/ ~Noteworthy(c)

(* Mutant: an inspection goes on past the last tool.                        *)
AdvancedPastEnd(t) ==
  IF t.at <= Len(t.manifest)
  THEN [t EXCEPT !.pc = "baseline", !.at = @ + 1, !.base = NoDef, !.collides = FALSE]
  ELSE Idle

(* Mutant: an inspection registers its tools whatever it found.             *)
AdvancedUnclean(t) ==
  IF t.at < Len(t.manifest)
  THEN [t EXCEPT !.pc = "baseline", !.at = @ + 1, !.base = NoDef, !.collides = FALSE]
  ELSE IF t.route = "sync" THEN [t EXCEPT !.pc = "register"]
  ELSE Idle

(* What a task is after its current tool: at the next one, ready to         *)
(* register what it found safe and accepted, or done.  `accepted` of the    *)
(* report needs no look: a trusted tool has a baseline, and no baseline is  *)
(* ever deleted.                                                            *)
Advanced(t) ==
  IF t.at < Len(t.manifest)
  THEN [t EXCEPT !.pc = "baseline", !.at = @ + 1, !.base = NoDef, !.collides = FALSE]
  ELSE IF t.route = "sync" /\ t.clean THEN [t EXCEPT !.pc = "register"]
  ELSE Idle

(* Every inspection of the server sees what this one writes (ghost).        *)
Witness(t, s, n, d) ==
  IF t.pc \in {"idle", "evaluate", "call"} \/ t.server # s THEN t
  ELSE [t EXCEPT !.vetted = @ \cup {i \in DOMAIN t.manifest :
                                      t.manifest[i] = [name |-> n, def |-> d]}]

UpsertBaseline(c) ==
  LET s == task[c].server  n == Tool(c)  d == Found(c) IN
  /\ task[c].pc = "upsert"
  /\ IF Upserts(c)
     THEN /\ baseline' = [baseline EXCEPT ![s][n] = d]
          /\ task' = [u \in Thread |->
                        LET t == Witness(task[u], s, n, d)
                        IN IF u = c THEN Advanced(t) ELSE t]
          /\ accepted' = [accepted EXCEPT ![s][n] =
                            \/ task[c].route = "accept"
                            \/ @ /\ baseline[s][n] = d]
     ELSE /\ task' = [task EXCEPT ![c] = Advanced(@)]
          /\ UNCHANGED <<baseline, accepted>>
  /\ UNCHANGED <<observation, schema>>

-----------------------------------------------------------------------------
(* After the inspection: registration, the gateway's evaluation of a call,  *)
(* the call.  Registration goes once over all tools of the manifest; the    *)
(* request calls one of them, or was a tools/list and is over.              *)

(* register_schema returns early for a tool it knows.                       *)
Registered(t) ==
  [n \in Name |->
     IF schema[t.server][n] = NoDef /\ \E i \in DOMAIN t.manifest : t.manifest[i].name = n
     THEN (CHOOSE e \in {t.manifest[i] : i \in DOMAIN t.manifest} : e.name = n).def
     ELSE schema[t.server][n]]

Register(c) ==
  /\ task[c].pc = "register"
  /\ schema' = [schema EXCEPT ![task[c].server] = Registered(task[c])]
  /\ \/ \E i \in DOMAIN task[c].manifest :
          task' = [task EXCEPT ![c] =
            [pc |-> "evaluate", route |-> "sync", server |-> @.server,
             tool |-> @.manifest[i].name,
             vetted |-> @.vetted = DOMAIN @.manifest,
             alone |-> @.alone = DOMAIN @.manifest]]
     \/ Finish(c)
  /\ UNCHANGED <<baseline, observation, accepted>>

(* Mutant: the observation is not looked at when the call was approved.     *)
PermittedOnceApproved(t) ==
  \/ t.route = "approved"
  \/ schema[t.server][t.tool] # NoDef /\ observation[t.server][t.tool] = "trusted"

(* What _apply_mcp_integrity and the policy's unknown-tool rule leave of a  *)
(* call: a tool under review needs an approval.                             *)
Permitted(t) ==
  /\ schema[t.server][t.tool] # NoDef
  /\ \/ observation[t.server][t.tool] = "trusted"
     \/ observation[t.server][t.tool] = "review" /\ t.route = "approved"

Evaluate(c) ==
  /\ task[c].pc = "evaluate"
  /\ IF Permitted(task[c]) THEN Goto(c, "call") ELSE Finish(c)
  /\ UNCHANGED <<baseline, observation, schema, accepted>>

InvokeUpstream(c) ==
  /\ task[c].pc = "call"
  /\ Finish(c)
  /\ UNCHANGED <<baseline, observation, schema, accepted>>

(* A failing transaction or exchange, a denial for another reason, a call   *)
(* that has to be approved.                                                 *)
Abort(c) ==
  /\ task[c].pc # "idle"
  /\ Finish(c)
  /\ UNCHANGED <<baseline, observation, schema, accepted>>

(* A new process: only the store's tables survive.                          *)
Restart ==
  /\ schema' = [s \in Server |-> [n \in Name |-> NoDef]]
  /\ task' = [c \in Thread |-> Idle]
  /\ UNCHANGED <<baseline, observation, accepted>>

LapseObservation(s, n) ==
  /\ observation[s][n] # "none"
  /\ observation' = [observation EXCEPT ![s][n] = "none"]
  /\ UNCHANGED <<baseline, schema, task, accepted>>

-----------------------------------------------------------------------------
McpInit ==
  /\ baseline = [s \in Server |-> [n \in Name |-> NoDef]]
  /\ observation = [s \in Server |-> [n \in Name |-> "none"]]
  /\ schema = [s \in Server |-> [n \in Name |-> NoDef]]
  /\ task = [c \in Thread |-> Idle]
  /\ accepted = [s \in Server |-> [n \in Name |-> FALSE]]

McpNext ==
  \/ \E c \in Request, s \in Server : \E m \in Manifests[s] : Discover(c, s, m)
  \/ \E c \in Request, s \in Server, n \in Name : ExecuteApproved(c, s, n)
  \/ \E c \in Reviewer, s \in Server, accept \in BOOLEAN :
       \E m \in Manifests[s] : InspectServer(c, s, m, accept)
  \/ \E c \in Thread :
       \/ ReadBaseline(c) \/ ReadOwners(c) \/ RecordObservation(c)
       \/ UpsertBaseline(c) \/ Register(c) \/ Evaluate(c)
       \/ InvokeUpstream(c) \/ Abort(c)
  \/ Restart
  \/ \E s \in Server, n \in Name : LapseObservation(s, n)

McpSpec == McpInit /\ [][McpNext]_mcpVars

-----------------------------------------------------------------------------
(* The types of the tables, of the gateway's memory and of each thread: an  *)
(* inspection stays inside its manifest.                                    *)
McpTypeOK ==
  /\ baseline \in [Server -> [Name -> Def \cup {NoDef}]]
  /\ observation \in [Server -> [Name -> Status]]
  /\ schema \in [Server -> [Name -> Def \cup {NoDef}]]
  /\ task \in [Thread -> {Idle} \cup Inspecting \cup Calling \cup CallingApproved]
  /\ accepted \in [Server -> [Name -> BOOLEAN]]
  /\ \A c \in Thread : task[c] \in Inspecting => At(c) \in DOMAIN task[c].manifest

(* A request that goes on to call an upstream tool has found every tool of  *)
(* the manifest equal to a definition that was the accepted baseline at     *)
(* some time since the request began, whatever other inspections wrote in   *)
(* between: a silent change of any tool of a server stops every call to it, *)
(* also the calls to its other tools, and so does a change a review took    *)
(* back before the request (inspect_manifest, sync_and_register).           *)
WholeManifestVetted ==
  \A c \in Thread : task[c].pc = "call" /\ task[c].route = "sync" => task[c].vetted

(* A request calls nothing of a server one of whose tools another server    *)
(* owned when the request began: the collision may be as old as the two     *)
(* baselines, or may have come about when a reviewer accepted or when two   *)
(* first inspections passed each other (mcp_tool_name_owners).              *)
CollisionBlocksCalls ==
  \A c \in Thread : task[c].pc = "call" /\ task[c].route = "sync" => task[c].alone

(* No sequence of inspections and acceptances, however they interleave,     *)
(* makes a hostile definition the baseline, and a suspect one is there only *)
(* because a reviewer accepted it (the upserts of inspect_manifest).        *)
BaselineIsVetted ==
  \A s \in Server, n \in Name :
    Owns(s, n) => /\ baseline[s][n] \notin Hostile
                  /\ baseline[s][n] \in Suspect => accepted[s][n]

(* Whatever is called, by a request or on an approval, has a schema in this *)
(* process, and one that an inspection found without any finding: an        *)
(* approval that outlives a restart waits for the next refresh, and a       *)
(* definition with a finding is not called although it was accepted.        *)
CallsCleanTool ==
  \A c \in Thread :
    task[c].pc = "call" =>
      schema[task[c].server][task[c].tool] \in Def \ (Hostile \cup Suspect)
=============================================================================
