------------------------- MODULE McpIntegrityProofs -------------------------
(***************************************************************************)
(* What holds of McpIntegrity for every set of servers, names, definitions *)
(* and threads, and for every manifest that a server may present.          *)
(***************************************************************************)
EXTENDS McpIntegrity, TLAPS

-----------------------------------------------------------------------------
(* The inductive invariant.                                                 *)

Task == {Idle} \cup Inspecting \cup Calling \cup CallingApproved

Reading == {"baseline", "owners", "observe", "upsert"}

Clean == Def \ (Hostile \cup Suspect)

(* What an inspection has found of a tool of its manifest that it did not   *)
(* mind.                                                                    *)
Passed(t, i) == /\ i \in t.vetted /\ i \in t.alone
                /\ t.manifest[i].def \in Clean

(* An inspection has no finding about the tool it is at.                    *)
Unremarkable(t) ==
  /\ t.manifest[t.at].def \in Clean
  /\ ~ \E i \in DOMAIN t.manifest :
         i # t.at /\ t.manifest[i].name = t.manifest[t.at].name
  /\ t.base \in {NoDef, t.manifest[t.at].def}
  /\ ~t.collides

(* The ghosts of an inspection name places of its manifest; a name that was *)
(* owned elsewhere when the inspection began still is.                      *)
Witnessed(t, base) ==
  /\ t.vetted \subseteq DOMAIN t.manifest /\ t.alone \subseteq DOMAIN t.manifest
  /\ \A i \in DOMAIN t.manifest \ t.alone :
       \E o \in Server \ {t.server} : base[o][t.manifest[i].name] # NoDef

(* An inspection that is still clean minded no tool it has passed; what it  *)
(* has read of the tool it is at holds of it.                               *)
Sound(t, base) ==
  /\ Witnessed(t, base)
  /\ t.clean => \A i \in 1 .. (t.at - 1) : Passed(t, i)
  /\ t.pc \in {"observe", "upsert"} /\ t.at \notin t.alone => t.collides
  /\ t.pc = "upsert" /\ t.clean => Unremarkable(t)
  /\ t.pc = "register" => \A i \in DOMAIN t.manifest : Passed(t, i)

(* A request that discovered the server for itself evaluates a call only    *)
(* after an inspection that minded nothing, and calls what has a schema.    *)
Founded(t, schemas) ==
  /\ t \in Calling => t.vetted /\ t.alone
  /\ t.pc = "call" => schemas[t.server][t.tool] # NoDef

TasksSound ==
  \A c \in Thread : /\ task[c] \in Inspecting => Sound(task[c], baseline)
                    /\ Founded(task[c], schema)

SchemaClean ==
  \A s \in Server, n \in Name : schema[s][n] \in Clean \cup {NoDef}

McpInv ==
  /\ McpTypeOK
  /\ BaselineIsVetted
  /\ SchemaClean
  /\ TasksSound

-----------------------------------------------------------------------------
(* Types.                                                                   *)

(* A manifest is a non-empty list of definitions under names.               *)
LEMMA ManifestTyped ==
  ASSUME NEW m \in UNION {Manifests[s] : s \in Server}
  PROVE  /\ m \in Seq(Entry) /\ Len(m) \in Nat \ {0}
         /\ DOMAIN m = 1 .. Len(m)
         /\ \A i \in DOMAIN m : m[i].name \in Name /\ m[i].def \in Def
<1>1. m \in Seq(Entry) /\ m # <<>>
  BY McpAssumption
<1>2. Len(m) \in Nat /\ DOMAIN m = 1 .. Len(m) /\ \A i \in DOMAIN m : m[i] \in Entry
  BY <1>1
<1>3. Len(m) # 0
  BY <1>1
<1> QED
  BY <1>1, <1>2, <1>3 DEF Entry

(* The place of a thread tells what it is doing.                            *)
LEMMA TaskKinds ==
  ASSUME NEW t \in Task
  PROVE  /\ t.pc \in Reading \cup {"register"} => t \in Inspecting
         /\ t.pc \in {"evaluate", "call"} => t \in Calling \cup CallingApproved
         /\ t \in Inspecting => t.pc \in Reading \cup {"register"}
         /\ t \in Calling \cup CallingApproved => t.pc \in {"evaluate", "call"}
         /\ t \in Calling => t.route = "sync"
         /\ t \in CallingApproved => t.route = "approved"
         /\ t.pc = "idle" => t = Idle
  BY DEF Task, Idle, Inspecting, Calling, CallingApproved, Reading

(* The tool an inspection is at.                                            *)
LEMMA ToolTyped ==
  ASSUME McpTypeOK, NEW c \in Thread, task[c] \in Inspecting
  PROVE  /\ task[c].server \in Server /\ Tool(c) \in Name /\ Found(c) \in Def
         /\ At(c) \in DOMAIN task[c].manifest
         /\ task[c].manifest \in UNION {Manifests[s] : s \in Server}
<1>1. /\ task[c].server \in Server
      /\ task[c].manifest \in UNION {Manifests[s] : s \in Server}
  BY DEF Inspecting
<1>2. At(c) \in DOMAIN task[c].manifest
  BY DEF McpTypeOK
<1> QED
  BY <1>1, <1>2, ManifestTyped DEF Tool, Found

LEMMA InspectionTyped ==
  ASSUME NEW route \in {"sync", "inspect", "accept"}, NEW s \in Server,
         NEW m \in Manifests[s]
  PROVE  /\ Inspection(route, s, m) \in Inspecting
         /\ Inspection(route, s, m).at \in DOMAIN m
         /\ Inspection(route, s, m).manifest = m
<1>1. m \in UNION {Manifests[o] : o \in Server}
  OBVIOUS
<1>2. DOMAIN m \subseteq Nat /\ 1 \in DOMAIN m
  BY <1>1, ManifestTyped
<1> QED
  BY <1>1, <1>2 DEF Inspection, Inspecting

(* What another inspection writes, and going on to the next tool, leave an  *)
(* inspection one of its own manifest.                                      *)
LEMMA WitnessTyped ==
  ASSUME NEW t \in Task, NEW s \in Server, NEW n \in Name, NEW d \in Def
  PROVE  /\ Witness(t, s, n, d) \in Task
         /\ t \notin Inspecting => Witness(t, s, n, d) = t
         /\ t \in Inspecting => /\ Witness(t, s, n, d) \in Inspecting
                                /\ Witness(t, s, n, d).at = t.at
                                /\ Witness(t, s, n, d).manifest = t.manifest
<1>1. CASE t \in Inspecting
  <2>1. t.manifest \in UNION {Manifests[o] : o \in Server}
    BY <1>1 DEF Inspecting
  <2>2. DOMAIN t.manifest \subseteq Nat
    BY <2>1, ManifestTyped
  <2> DEFINE new == {i \in DOMAIN t.manifest : t.manifest[i] = [name |-> n, def |-> d]}
  <2>3. t.vetted \cup new \subseteq Nat
    BY <1>1, <2>2 DEF Inspecting
  <2> HIDE DEF new
  <2>4. [t EXCEPT !.vetted = t.vetted \cup new] \in Inspecting
    BY <1>1, <2>3 DEF Inspecting
  <2>5. Witness(t, s, n, d) \in {t, [t EXCEPT !.vetted = t.vetted \cup new]}
    BY DEF Witness, new
  <2>6. /\ [t EXCEPT !.vetted = t.vetted \cup new].at = t.at
        /\ [t EXCEPT !.vetted = t.vetted \cup new].manifest = t.manifest
    BY <1>1 DEF Inspecting
  <2> QED BY <1>1, <2>4, <2>5, <2>6 DEF Task
<1>2. CASE t \notin Inspecting
  BY <1>2, TaskKinds DEF Witness, Task, Idle
<1> QED
  BY <1>1, <1>2

LEMMA AdvancedTyped ==
  ASSUME NEW t \in Inspecting, t.at \in DOMAIN t.manifest
  PROVE  /\ Advanced(t) \in Inspecting \cup {Idle}
         /\ Advanced(t) \in Inspecting => /\ Advanced(t).at \in DOMAIN t.manifest
                                          /\ Advanced(t).manifest = t.manifest
<1>1. t.manifest \in UNION {Manifests[o] : o \in Server}
  BY DEF Inspecting
<1>2. Len(t.manifest) \in Nat /\ DOMAIN t.manifest = 1 .. Len(t.manifest)
  BY <1>1, ManifestTyped
<1>3. CASE t.at < Len(t.manifest)
  <2> DEFINE next == [t EXCEPT !.pc = "baseline", !.at = t.at + 1,
                               !.base = NoDef, !.collides = FALSE]
  <2>1. Advanced(t) = next
    BY <1>3 DEF Advanced
  <2>2. t.at + 1 \in DOMAIN t.manifest /\ t.at + 1 \in Nat
    BY <1>2, <1>3
  <2>3. next \in Inspecting
    BY <2>2 DEF Inspecting
  <2>4. next.at = t.at + 1 /\ next.manifest = t.manifest
    BY DEF Inspecting
  <2> QED BY <2>1, <2>2, <2>3, <2>4
<1>4. CASE ~(t.at < Len(t.manifest)) /\ t.route = "sync" /\ t.clean
  <2>1. Advanced(t) = [t EXCEPT !.pc = "register"]
    BY <1>4 DEF Advanced
  <2>2. [t EXCEPT !.pc = "register"] \in Inspecting
    BY DEF Inspecting
  <2>3. /\ [t EXCEPT !.pc = "register"].at = t.at
        /\ [t EXCEPT !.pc = "register"].manifest = t.manifest
    BY DEF Inspecting
  <2> QED BY <2>1, <2>2, <2>3
<1>5. CASE ~(t.at < Len(t.manifest)) /\ ~(t.route = "sync" /\ t.clean)
  <2>1. Advanced(t) = Idle
    BY <1>5 DEF Advanced
  <2>2. Idle \notin Inspecting
    BY DEF Idle, Inspecting
  <2> QED BY <2>1, <2>2
<1> QED
  BY <1>3, <1>4, <1>5

TablesOK ==
  /\ baseline \in [Server -> [Name -> Def \cup {NoDef}]]
  /\ observation \in [Server -> [Name -> Status]]
  /\ schema \in [Server -> [Name -> Def \cup {NoDef}]]
  /\ accepted \in [Server -> [Name -> BOOLEAN]]

TaskOK(t) == t \in Task /\ (t \in Inspecting => t.at \in DOMAIN t.manifest)

LEMMA TypeParts ==
  McpTypeOK <=> /\ TablesOK
                /\ DOMAIN task = Thread /\ task = [c \in Thread |-> task[c]]
                /\ \A c \in Thread : TaskOK(task[c])
<1>1. task \in [Thread -> Task] <=>
        /\ DOMAIN task = Thread /\ task = [c \in Thread |-> task[c]]
        /\ \A c \in Thread : task[c] \in Task
  OBVIOUS
<1> QED
  BY <1>1 DEF McpTypeOK, TablesOK, TaskOK, Task, At

LEMMA TypedTasks ==
  ASSUME TablesOK', task' \in [Thread -> Task], \A u \in Thread : TaskOK(task'[u])
  PROVE  McpTypeOK'
  BY DEF McpTypeOK, TablesOK, TaskOK, Task, At

(* A step that gives one thread another task.                               *)
LEMMA TaskTyped ==
  ASSUME McpTypeOK, NEW c \in Thread, NEW t, TaskOK(t),
         task' = [task EXCEPT ![c] = t], TablesOK'
  PROVE  McpTypeOK'
<1>1. task \in [Thread -> Task] /\ \A u \in Thread : TaskOK(task[u])
  BY TypeParts DEF McpTypeOK, Task
<1>2. task' \in [Thread -> Task] /\ \A u \in Thread : TaskOK(task'[u])
  BY <1>1 DEF TaskOK
<1> QED
  BY <1>2, TypedTasks

(* A step of inspect_manifest that only reads.                              *)
LEMMA ReadTyped ==
  ASSUME McpTypeOK, NEW c \in Thread, task[c] \in Inspecting,
         NEW t \in Inspecting, t.at = At(c), t.manifest = task[c].manifest,
         task' = [task EXCEPT ![c] = t], TablesOK'
  PROVE  McpTypeOK'
<1>1. TaskOK(t)
  BY ToolTyped DEF TaskOK, Task, At
<1> QED
  BY <1>1, TaskTyped

(* Registration gives a tool the schema it has, or one of the manifest's.   *)
LEMMA RegisteredTyped ==
  ASSUME NEW t \in Inspecting, schema[t.server] \in [Name -> Def \cup {NoDef}]
  PROVE  /\ Registered(t) \in [Name -> Def \cup {NoDef}]
         /\ \A n \in Name :
              /\ schema[t.server][n] # NoDef => Registered(t)[n] = schema[t.server][n]
              /\ \/ Registered(t)[n] = schema[t.server][n]
                 \/ \E i \in DOMAIN t.manifest : Registered(t)[n] = t.manifest[i].def
<1>1. t.manifest \in UNION {Manifests[o] : o \in Server}
  BY DEF Inspecting
<1>2. \A i \in DOMAIN t.manifest : t.manifest[i].def \in Def
  BY <1>1, ManifestTyped
<1>3. ASSUME NEW n \in Name, \E i \in DOMAIN t.manifest : t.manifest[i].name = n
      PROVE  \E i \in DOMAIN t.manifest :
               (CHOOSE e \in {t.manifest[j] : j \in DOMAIN t.manifest} : e.name = n)
                 = t.manifest[i]
  <2>1. \E e \in {t.manifest[j] : j \in DOMAIN t.manifest} : e.name = n
    BY <1>3
  <2> QED BY <2>1
<1>4. ASSUME NEW n \in Name
      PROVE  /\ Registered(t)[n] \in Def \cup {NoDef}
             /\ schema[t.server][n] # NoDef => Registered(t)[n] = schema[t.server][n]
             /\ \/ Registered(t)[n] = schema[t.server][n]
                \/ \E i \in DOMAIN t.manifest : Registered(t)[n] = t.manifest[i].def
  <2>1. CASE /\ schema[t.server][n] = NoDef
             /\ \E i \in DOMAIN t.manifest : t.manifest[i].name = n
    <3>1. Registered(t)[n] =
            (CHOOSE e \in {t.manifest[j] : j \in DOMAIN t.manifest} : e.name = n).def
      BY <2>1 DEF Registered
    <3> QED BY <1>2, <1>3, <2>1, <3>1
  <2>2. CASE ~(/\ schema[t.server][n] = NoDef
               /\ \E i \in DOMAIN t.manifest : t.manifest[i].name = n)
    <3>1. Registered(t)[n] = schema[t.server][n]
      BY <2>2 DEF Registered
    <3> QED BY <3>1
  <2> QED BY <2>1, <2>2
<1> QED
  BY <1>4 DEF Registered

LEMMA McpTypeInit == McpInit => McpTypeOK
<1>1. Idle \in Task /\ Idle \notin Inspecting
  BY DEF Task, Idle, Inspecting
<1> QED
  BY <1>1 DEF McpInit, McpTypeOK, Task, Status

(* A table of the store with one entry written.                             *)
LEMMA EntryWritten ==
  ASSUME NEW V, NEW f \in [Server -> [Name -> V]], NEW s \in Server,
         NEW n \in Name, NEW v \in V, NEW g, g = [f EXCEPT ![s][n] = v]
  PROVE  /\ g \in [Server -> [Name -> V]]
         /\ g[s][n] = v
         /\ \A o \in Server, m \in Name : o # s \/ m # n => g[o][m] = f[o][m]
  OBVIOUS

LEMMA McpTypeStep == McpTypeOK /\ [McpNext]_mcpVars => McpTypeOK'
<1> SUFFICES ASSUME McpTypeOK, [McpNext]_mcpVars PROVE McpTypeOK'
  OBVIOUS
<1>0. /\ TablesOK /\ TaskOK(Idle) /\ task \in [Thread -> Task]
      /\ \A c \in Thread : TaskOK(task[c])
  BY TypeParts DEF Task, TaskOK, Idle, Inspecting, McpTypeOK
<1>1. ASSUME NEW c \in Thread, NEW route \in {"sync", "inspect", "accept"},
             NEW s \in Server, NEW m \in Manifests[s],
             task' = [task EXCEPT ![c] = Inspection(route, s, m)],
             UNCHANGED <<baseline, observation, schema, accepted>>
      PROVE  McpTypeOK'
  <2>1. TaskOK(Inspection(route, s, m))
    BY InspectionTyped DEF TaskOK, Task
  <2> QED BY <1>0, <1>1, <2>1, TaskTyped DEF TablesOK
<1>2. ASSUME NEW c \in Request, NEW s \in Server, NEW n \in Name,
             ExecuteApproved(c, s, n)
      PROVE  McpTypeOK'
  <2> DEFINE t == [pc |-> "evaluate", route |-> "approved", server |-> s, tool |-> n]
  <2>1. TaskOK(t)
    BY DEF TaskOK, Task, CallingApproved, Inspecting
  <2>2. c \in Thread /\ task' = [task EXCEPT ![c] = t] /\ TablesOK'
    BY <1>0, <1>2 DEF ExecuteApproved, TablesOK, Thread
  <2> QED BY <2>1, <2>2, TaskTyped
<1>3. ASSUME NEW c \in Thread, ReadBaseline(c) PROVE McpTypeOK'
  <2>1. task[c] \in Inspecting /\ TablesOK'
    BY <1>0, <1>3, TaskKinds DEF ReadBaseline, TablesOK, Reading
  <2>2. baseline[task[c].server][Tool(c)] \in Def \cup {NoDef}
    BY <1>0, <2>1, ToolTyped DEF TablesOK
  <2> DEFINE t == [task[c] EXCEPT !.pc = "owners",
                                  !.base = baseline[task[c].server][Tool(c)]]
  <2>3. t \in Inspecting /\ t.at = At(c) /\ t.manifest = task[c].manifest
    BY <2>1, <2>2 DEF Inspecting, At
  <2>4. task' = [task EXCEPT ![c] = t]
    BY <1>3 DEF ReadBaseline
  <2> HIDE DEF t
  <2> QED BY <2>1, <2>3, <2>4, ReadTyped
<1>4. ASSUME NEW c \in Thread, ReadOwners(c) PROVE McpTypeOK'
  <2>1. task[c] \in Inspecting /\ TablesOK'
    BY <1>0, <1>4, TaskKinds DEF ReadOwners, TablesOK, Reading
  <2>2. OwnedElsewhere(task[c].server, Tool(c)) \in BOOLEAN
    BY DEF OwnedElsewhere
  <2> DEFINE t == [task[c] EXCEPT !.pc = "observe",
                     !.collides = OwnedElsewhere(task[c].server, Tool(c))]
  <2>3. t \in Inspecting /\ t.at = At(c) /\ t.manifest = task[c].manifest
    BY <2>1, <2>2 DEF Inspecting, At
  <2>4. task' = [task EXCEPT ![c] = t]
    BY <1>4 DEF ReadOwners
  <2> HIDE DEF t
  <2> QED BY <2>1, <2>3, <2>4, ReadTyped
<1>5. ASSUME NEW c \in Thread, RecordObservation(c) PROVE McpTypeOK'
  <2>1. task[c] \in Inspecting
    BY <1>0, <1>5, TaskKinds DEF RecordObservation, Reading
  <2>2. StatusOf(c) \in Status
    BY DEF StatusOf, Status
  <2>3. TablesOK'
    BY <1>0, <1>5, <2>1, <2>2, ToolTyped DEF RecordObservation, TablesOK
  <2> DEFINE clean == task[c].clean /\ StatusOf(c) = "trusted"
             t == [task[c] EXCEPT !.pc = "upsert", !.clean = clean]
  <2>4. clean \in BOOLEAN
    OBVIOUS
  <2>5. task' = [task EXCEPT ![c] = t]
    BY <1>5 DEF RecordObservation
  <2> HIDE DEF clean
  <2>6. t \in Inspecting /\ t.at = At(c) /\ t.manifest = task[c].manifest
    BY <2>1, <2>4 DEF Inspecting, At
  <2> HIDE DEF t
  <2> QED BY <2>1, <2>3, <2>5, <2>6, ReadTyped
<1>6. ASSUME NEW c \in Thread, UpsertBaseline(c) PROVE McpTypeOK'
  <2>1. task[c] \in Inspecting
    BY <1>0, <1>6, TaskKinds DEF UpsertBaseline, Reading
  <2> DEFINE s == task[c].server  n == Tool(c)  d == Found(c)
  <2>2. s \in Server /\ n \in Name /\ d \in Def /\ At(c) \in DOMAIN task[c].manifest
    BY <2>1, ToolTyped
  <2>3. CASE Upserts(c)
    <3>1. TablesOK'
      <4>1. baseline' \in [Server -> [Name -> Def \cup {NoDef}]]
        <5>1. baseline' = [baseline EXCEPT ![s][n] = d]
          BY <1>6, <2>3 DEF UpsertBaseline
        <5> HIDE DEF s, n, d
        <5> QED BY <1>0, <2>2, <5>1, EntryWritten DEF TablesOK
      <4>2. (\/ task[c].route = "accept"
             \/ accepted[s][n] /\ baseline[s][n] = d) \in BOOLEAN
        OBVIOUS
      <4>3. accepted' = [accepted EXCEPT ![s][n] =
                           \/ task[c].route = "accept"
                           \/ accepted[s][n] /\ baseline[s][n] = d]
        BY <1>6, <2>3 DEF UpsertBaseline
      <4> HIDE DEF s, n, d
      <4>4. accepted' \in [Server -> [Name -> BOOLEAN]]
        BY <1>0, <2>2, <4>2, <4>3, EntryWritten DEF TablesOK
      <4> QED BY <1>0, <1>6, <4>1, <4>4 DEF UpsertBaseline, TablesOK
    <3>2. task' = [u \in Thread |->
                     IF u = c THEN Advanced(Witness(task[u], s, n, d))
                     ELSE Witness(task[u], s, n, d)]
      BY <1>6, <2>3 DEF UpsertBaseline
    <3> HIDE DEF s, n, d
    <3>3. ASSUME NEW u \in Thread PROVE TaskOK(Witness(task[u], s, n, d))
      BY <1>0, <2>2, WitnessTyped DEF TaskOK
    <3>4. TaskOK(Advanced(Witness(task[c], s, n, d)))
      <4> DEFINE t == Witness(task[c], s, n, d)
      <4>1. t \in Inspecting /\ t.at \in DOMAIN t.manifest
        BY <1>0, <2>1, <2>2, WitnessTyped DEF TaskOK
      <4> HIDE DEF t
      <4>2. Advanced(t) \in Inspecting \cup {Idle}
        BY <4>1, AdvancedTyped
      <4>3. Advanced(t) \in Inspecting => Advanced(t).at \in DOMAIN Advanced(t).manifest
        BY <4>1, AdvancedTyped
      <4>4. TaskOK(Advanced(t))
        BY <4>2, <4>3 DEF TaskOK, Task
      <4> QED BY <4>4 DEF t
    <3>5. \A u \in Thread : TaskOK(task'[u])
      BY <3>2, <3>3, <3>4
    <3>6. task' \in [Thread -> Task]
      BY <3>2, <3>3, <3>4 DEF TaskOK
    <3> QED BY <3>1, <3>5, <3>6, TypedTasks
  <2>4. CASE ~Upserts(c)
    <3>1. TablesOK' /\ task' = [task EXCEPT ![c] = Advanced(task[c])]
      BY <1>0, <1>6, <2>4 DEF UpsertBaseline, TablesOK
    <3>2. TaskOK(Advanced(task[c]))
      BY <1>0, <2>1, <2>2, AdvancedTyped DEF TaskOK, Task
    <3> QED BY <3>1, <3>2, TaskTyped
  <2> QED BY <2>3, <2>4
<1>7. ASSUME NEW c \in Thread, Register(c) PROVE McpTypeOK'
  <2>1. task[c] \in Inspecting
    BY <1>0, <1>7, TaskKinds DEF Register
  <2>2. task[c].server \in Server
        /\ task[c].manifest \in UNION {Manifests[o] : o \in Server}
    BY <2>1, ToolTyped
  <2>3. Registered(task[c]) \in [Name -> Def \cup {NoDef}]
    BY <1>0, <2>1, <2>2, RegisteredTyped DEF TablesOK
  <2>4. TablesOK'
    BY <1>0, <1>7, <2>2, <2>3 DEF Register, TablesOK
  <2>5. ASSUME NEW i \in DOMAIN task[c].manifest
        PROVE  TaskOK([pc |-> "evaluate", route |-> "sync",
                       server |-> task[c].server,
                       tool |-> task[c].manifest[i].name,
                       vetted |-> task[c].vetted = DOMAIN task[c].manifest,
                       alone |-> task[c].alone = DOMAIN task[c].manifest])
    <3>1. task[c].manifest[i].name \in Name
      BY <2>2, <2>5, ManifestTyped
    <3> QED BY <2>2, <3>1 DEF TaskOK, Task, Calling, Inspecting
  <2>6. \E t : TaskOK(t) /\ task' = [task EXCEPT ![c] = t]
    BY <1>0, <1>7, <2>5 DEF Register, Finish
  <2> QED BY <2>4, <2>6, TaskTyped
<1>8. ASSUME NEW c \in Thread, Evaluate(c) PROVE McpTypeOK'
  <2>1. task[c] \in Calling \cup CallingApproved
    BY <1>0, <1>8, TaskKinds DEF Evaluate
  <2>2. TaskOK([task[c] EXCEPT !.pc = "call"])
    BY <2>1 DEF TaskOK, Task, Calling, CallingApproved, Inspecting
  <2>3. \E t : TaskOK(t) /\ task' = [task EXCEPT ![c] = t]
    BY <1>0, <1>8, <2>2 DEF Evaluate, Goto, Finish
  <2> QED BY <1>0, <1>8, <2>3, TaskTyped DEF Evaluate, TablesOK
<1>9. ASSUME NEW c \in Thread, InvokeUpstream(c) \/ Abort(c) PROVE McpTypeOK'
  <2>1. task' = [task EXCEPT ![c] = Idle] /\ TablesOK'
    BY <1>0, <1>9 DEF InvokeUpstream, Abort, Finish, TablesOK
  <2> QED BY <1>0, <2>1, TaskTyped
<1>10. CASE Restart
  <2>1. task' \in [Thread -> Task] /\ \A u \in Thread : TaskOK(task'[u])
    BY <1>0, <1>10 DEF Restart, TaskOK
  <2>2. TablesOK'
    BY <1>0, <1>10 DEF Restart, TablesOK
  <2> QED BY <2>1, <2>2, TypedTasks
<1>11. ASSUME NEW s \in Server, NEW n \in Name, LapseObservation(s, n)
       PROVE  McpTypeOK'
  <2>1. observation' = [observation EXCEPT ![s][n] = "none"]
        /\ UNCHANGED <<baseline, schema, task, accepted>>
    BY <1>11 DEF LapseObservation
  <2>2. "none" \in Status
    BY DEF Status
  <2>3. observation' \in [Server -> [Name -> Status]]
    BY <1>0, <2>1, <2>2 DEF TablesOK
  <2> QED BY <1>0, <2>1, <2>3, TypedTasks DEF TablesOK
<1>12. CASE UNCHANGED mcpVars
  BY <1>12 DEF mcpVars, McpTypeOK, At
<1>13. ASSUME NEW c \in Request, NEW s \in Server, NEW m \in Manifests[s],
              Discover(c, s, m)
       PROVE  McpTypeOK'
  BY <1>1, <1>13 DEF Discover, Thread
<1>14. ASSUME NEW c \in Reviewer, NEW s \in Server, NEW accept \in BOOLEAN,
              NEW m \in Manifests[s], InspectServer(c, s, m, accept)
       PROVE  McpTypeOK'
  BY <1>1, <1>14 DEF InspectServer, Thread
<1> QED
  BY <1>2, <1>3, <1>4, <1>5, <1>6, <1>7, <1>8, <1>9, <1>10, <1>11, <1>12,
    <1>13, <1>14 DEF McpNext

(* THEOREM: the tables and every thread's place always hold the values that *)
(* the code uses, and an inspection stays inside its manifest.              *)
THEOREM McpTypeCorrect == McpSpec => []McpTypeOK
  BY McpTypeInit, McpTypeStep, PTL DEF McpSpec

-----------------------------------------------------------------------------
(* Inspections.                                                             *)

(* The accepted baselines only grow in names that are owned.                *)
Grows(base, later) ==
  \A s \in Server, n \in Name : base[s][n] # NoDef => later[s][n] # NoDef

LEMMA BaselinesGrow ==
  ASSUME McpTypeOK, [McpNext]_mcpVars
  PROVE  Grows(baseline, baseline')
<1>1. ASSUME NEW c \in Thread, UpsertBaseline(c), Upserts(c)
      PROVE  Grows(baseline, baseline')
  <2>1. task[c] \in Inspecting
    BY <1>1, TaskKinds DEF UpsertBaseline, McpTypeOK, Task, Reading
  <2>2. PICK s \in Server, n \in Name, d \in Def :
          s = task[c].server /\ n = Tool(c) /\ d = Found(c)
    BY <2>1, ToolTyped
  <2>3. baseline' = [baseline EXCEPT ![s][n] = d] /\ d # NoDef
    BY <1>1, <2>2, McpAssumption DEF UpsertBaseline
  <2> QED BY <2>3 DEF Grows, McpTypeOK
<1>2. CASE baseline' = baseline
  BY <1>2 DEF Grows
<1> QED
  BY <1>1, <1>2 DEF McpNext, mcpVars, Discover, InspectServer, ExecuteApproved,
    ReadBaseline, ReadOwners, RecordObservation, UpsertBaseline, Register,
    Evaluate, InvokeUpstream, Abort, Restart, LapseObservation

(* What an inspection has found stays true while baselines grow, and when   *)
(* more of its definitions become the baseline.                             *)
LEMMA SoundStays ==
  ASSUME NEW t \in Inspecting, NEW base, NEW later, Grows(base, later),
         Sound(t, base)
  PROVE  Sound(t, later)
<1>1. t.server \in Server /\ t.manifest \in UNION {Manifests[s] : s \in Server}
  BY DEF Inspecting
<1>2. \A i \in DOMAIN t.manifest : t.manifest[i].name \in Name
  BY <1>1, ManifestTyped
<1>3. Witnessed(t, later)
  BY <1>2 DEF Sound, Witnessed, Grows
<1> QED
  BY <1>3 DEF Sound

LEMMA WitnessSound ==
  ASSUME NEW t \in Inspecting, NEW base, Sound(t, base),
         NEW s, NEW n, NEW d
  PROVE  Sound(Witness(t, s, n, d), base)
<1> DEFINE new == {i \in DOMAIN t.manifest : t.manifest[i] = [name |-> n, def |-> d]}
           w == [t EXCEPT !.vetted = t.vetted \cup new]
<1>1. new \subseteq DOMAIN t.manifest
  OBVIOUS
<1>2. Witness(t, s, n, d) \in {t, w}
  BY DEF Witness
<1> HIDE DEF new
<1>3. /\ w.pc = t.pc /\ w.server = t.server /\ w.manifest = t.manifest
      /\ w.at = t.at /\ w.base = t.base /\ w.collides = t.collides
      /\ w.clean = t.clean /\ w.alone = t.alone
      /\ w.vetted = t.vetted \cup new
  BY DEF Inspecting
<1> HIDE DEF w
<1>4. Sound(w, base)
  BY <1>1, <1>3 DEF Sound, Witnessed, Passed, Unremarkable
<1> QED
  BY <1>2, <1>4

(* An inspection goes on from a tool that it did not mind, or is not clean. *)
LEMMA AdvancedSound ==
  ASSUME NEW t \in Inspecting, t.at \in DOMAIN t.manifest, t.pc = "upsert",
         NEW base, Sound(t, base), t.clean => t.at \in t.vetted,
         Advanced(t) \in Inspecting
  PROVE  Sound(Advanced(t), base)
<1>1. t.manifest \in UNION {Manifests[o] : o \in Server}
  BY DEF Inspecting
<1>2. /\ Len(t.manifest) \in Nat /\ DOMAIN t.manifest = 1 .. Len(t.manifest)
      /\ t.at \in Nat
  BY <1>1, ManifestTyped
<1>3. t.clean => Passed(t, t.at)
  BY DEF Sound, Passed, Unremarkable
<1>4. t.clean => \A i \in 1 .. t.at : Passed(t, i)
  BY <1>2, <1>3 DEF Sound
<1>5. CASE t.at < Len(t.manifest)
  <2> DEFINE w == [t EXCEPT !.pc = "baseline", !.at = t.at + 1,
                            !.base = NoDef, !.collides = FALSE]
  <2>1. /\ w.pc = "baseline" /\ w.server = t.server /\ w.manifest = t.manifest
        /\ w.at = t.at + 1 /\ w.clean = t.clean /\ w.alone = t.alone
        /\ w.vetted = t.vetted
    BY DEF Inspecting
  <2>2. Advanced(t) = w
    BY <1>5 DEF Advanced
  <2> HIDE DEF w
  <2>3. (w.at - 1) = t.at
    BY <1>2, <2>1
  <2>4. Sound(w, base)
    BY <1>4, <2>1, <2>3 DEF Sound, Witnessed, Passed
  <2> QED BY <2>2, <2>4
<1>6. CASE ~(t.at < Len(t.manifest)) /\ t.route = "sync" /\ t.clean
  <2> DEFINE w == [t EXCEPT !.pc = "register"]
  <2>1. /\ w.pc = "register" /\ w.server = t.server /\ w.manifest = t.manifest
        /\ w.at = t.at /\ w.clean = t.clean /\ w.alone = t.alone
        /\ w.vetted = t.vetted
    BY DEF Inspecting
  <2>2. Advanced(t) = w
    BY <1>6 DEF Advanced
  <2>3. \A i \in DOMAIN t.manifest : Passed(t, i)
    BY <1>2, <1>4, <1>6
  <2> HIDE DEF w
  <2>4. Sound(w, base)
    BY <2>1, <2>3 DEF Sound, Witnessed, Passed
  <2> QED BY <2>2, <2>4
<1>7. CASE ~(t.at < Len(t.manifest)) /\ ~(t.route = "sync" /\ t.clean)
  <2>1. Advanced(t) = Idle
    BY <1>7 DEF Advanced
  <2> QED BY <2>1 DEF Idle, Inspecting
<1> QED
  BY <1>5, <1>6, <1>7

(* An inspection that begins knows who owns the names of its manifest.      *)
LEMMA InspectionSound ==
  ASSUME McpTypeOK, NEW route, NEW s \in Server, NEW m \in Manifests[s]
  PROVE  Sound(Inspection(route, s, m), baseline)
<1> DEFINE t == Inspection(route, s, m)
<1>1. /\ t.pc = "baseline" /\ t.server = s /\ t.manifest = m /\ t.at = 1
      /\ t.vetted \subseteq DOMAIN m
      /\ t.alone = {i \in DOMAIN m : ~OwnedElsewhere(s, m[i].name)}
  BY DEF Inspection
<1> HIDE DEF t
<1>2. Witnessed(t, baseline)
  BY <1>1 DEF Witnessed, OwnedElsewhere, Owns
<1>3. (t.at - 1) = 0
  BY <1>1
<1>4. Sound(t, baseline)
  BY <1>1, <1>2, <1>3 DEF Sound
<1> QED
  BY <1>4 DEF t

(* A trusted tool is one without a finding, and is accepted.                *)
LEMMA TrustedIsUnremarkable ==
  ASSUME McpTypeOK, NEW c \in Thread, task[c] \in Inspecting
  PROVE  /\ StatusOf(c) = "trusted" => Unremarkable(task[c])
         /\ Unremarkable(task[c]) => Upserts(c)
<1>1. Found(c) \in Def
  BY ToolTyped
<1>2. StatusOf(c) = "trusted" => ~Noteworthy(c)
  BY DEF StatusOf
<1>3. Unremarkable(task[c]) <=> ~Noteworthy(c)
  BY <1>1 DEF Unremarkable, Noteworthy, Clean, Twice, Changed, Found, Tool, At
<1> QED
  BY <1>2, <1>3 DEF Upserts

-----------------------------------------------------------------------------
(* Threads.                                                                 *)

LEMMA TasksSoundInit == McpInit => TasksSound
  BY DEF McpInit, TasksSound, Idle, Inspecting, Calling, Founded

(* A thread that a step leaves where it is.                                 *)
LEMMA ThreadStays ==
  ASSUME McpTypeOK, TasksSound, Grows(baseline, baseline'), NEW c \in Thread,
         task'[c] = task[c],
         \A s \in Server, n \in Name : schema[s][n] # NoDef => schema'[s][n] # NoDef
  PROVE  /\ task'[c] \in Inspecting => Sound(task'[c], baseline')
         /\ Founded(task'[c], schema')
<1>1. task[c] \in Inspecting => Sound(task'[c], baseline')
  BY SoundStays DEF TasksSound
<1>2. Founded(task[c], schema')
  <2>1. task[c] \in Task
    BY DEF McpTypeOK, Task
  <2>2. task[c].pc = "call" => task[c].server \in Server /\ task[c].tool \in Name
    BY <2>1, TaskKinds DEF Calling, CallingApproved
  <2> QED BY <2>2 DEF Founded, TasksSound
<1> QED
  BY <1>1, <1>2

(* A step that gives one thread another task, and writes no baseline.       *)
LEMMA OneThread ==
  ASSUME McpTypeOK, TasksSound, Grows(baseline, baseline'), NEW c \in Thread,
         NEW t, task' = [task EXCEPT ![c] = t],
         t \in Inspecting => Sound(t, baseline'), Founded(t, schema'),
         \A s \in Server, n \in Name : schema[s][n] # NoDef => schema'[s][n] # NoDef
  PROVE  TasksSound'
<1>1. task'[c] = t /\ \A u \in Thread \ {c} : task'[u] = task[u]
  BY DEF McpTypeOK
<1> QED
  BY <1>1, ThreadStays DEF TasksSound

(* An inspection that reads, on a thread of its own.                        *)
LEMMA OneInspection ==
  ASSUME McpTypeOK, TasksSound, NEW c \in Thread, NEW t \in Inspecting,
         task' = [task EXCEPT ![c] = t], baseline' = baseline, schema' = schema,
         Sound(t, baseline)
  PROVE  TasksSound'
<1>1. Founded(t, schema')
  BY DEF Founded, Inspecting, Calling
<1> QED
  BY <1>1, OneThread DEF Grows

LEMMA IdleFounded ==
  ASSUME NEW schemas
  PROVE  Idle \notin Inspecting /\ Founded(Idle, schemas)
  BY DEF Idle, Inspecting, Calling, Founded

LEMMA ReadingSteps ==
  ASSUME McpTypeOK, TasksSound, NEW c \in Thread,
         ReadBaseline(c) \/ ReadOwners(c) \/ RecordObservation(c)
  PROVE  TasksSound'
<1>1. task[c] \in Inspecting
  BY TaskKinds
  DEF ReadBaseline, ReadOwners, RecordObservation, McpTypeOK, Task, Reading
<1>2. Sound(task[c], baseline)
  BY <1>1 DEF TasksSound
<1>3. At(c) \in DOMAIN task[c].manifest /\ task[c].server \in Server
      /\ Tool(c) \in Name
  BY <1>1, ToolTyped
<1>4. CASE ReadBaseline(c)
  <2> DEFINE b == baseline[task[c].server][Tool(c)]
             t == [task[c] EXCEPT !.pc = "owners", !.base = b]
  <2>1. b \in Def \cup {NoDef}
    BY <1>3 DEF McpTypeOK
  <2>2. task' = [task EXCEPT ![c] = t] /\ baseline' = baseline /\ schema' = schema
    BY <1>4 DEF ReadBaseline
  <2> HIDE DEF b
  <2>3. /\ t \in Inspecting
        /\ t.pc = "owners" /\ t.server = task[c].server
        /\ t.manifest = task[c].manifest /\ t.at = task[c].at
        /\ t.clean = task[c].clean /\ t.alone = task[c].alone
        /\ t.vetted = task[c].vetted
    BY <1>1, <2>1 DEF Inspecting
  <2> HIDE DEF t
  <2>4. Sound(t, baseline)
    BY <1>2, <2>3 DEF Sound, Witnessed, Passed
  <2> QED BY <2>2, <2>3, <2>4, OneInspection
<1>5. CASE ReadOwners(c)
  <2> DEFINE b == OwnedElsewhere(task[c].server, Tool(c))
             t == [task[c] EXCEPT !.pc = "observe", !.collides = b]
  <2>1. b \in BOOLEAN
    BY DEF OwnedElsewhere
  <2>2. task' = [task EXCEPT ![c] = t] /\ baseline' = baseline /\ schema' = schema
    BY <1>5 DEF ReadOwners
  <2>3. task[c].at \notin task[c].alone => b
    BY <1>2, <1>3 DEF Sound, Witnessed, OwnedElsewhere, Owns, Tool, At
  <2> HIDE DEF b
  <2>4. /\ t \in Inspecting
        /\ t.pc = "observe" /\ t.server = task[c].server
        /\ t.manifest = task[c].manifest /\ t.at = task[c].at
        /\ t.clean = task[c].clean /\ t.alone = task[c].alone
        /\ t.vetted = task[c].vetted /\ t.collides = b
    BY <1>1, <2>1 DEF Inspecting
  <2> HIDE DEF t
  <2>5. Sound(t, baseline)
    BY <1>2, <2>3, <2>4 DEF Sound, Witnessed, Passed
  <2> QED BY <2>2, <2>4, <2>5, OneInspection
<1>6. CASE RecordObservation(c)
  <2> DEFINE b == task[c].clean /\ StatusOf(c) = "trusted"
             t == [task[c] EXCEPT !.pc = "upsert", !.clean = b]
  <2>1. b \in BOOLEAN /\ (b => task[c].clean /\ Unremarkable(task[c]))
    BY <1>1, TrustedIsUnremarkable
  <2>2. task' = [task EXCEPT ![c] = t] /\ baseline' = baseline /\ schema' = schema
    BY <1>6 DEF RecordObservation
  <2>3. task[c].pc = "observe"
    BY <1>6 DEF RecordObservation
  <2> HIDE DEF b
  <2>4. /\ t \in Inspecting
        /\ t.pc = "upsert" /\ t.server = task[c].server
        /\ t.manifest = task[c].manifest /\ t.at = task[c].at
        /\ t.clean = b /\ t.alone = task[c].alone
        /\ t.vetted = task[c].vetted /\ t.collides = task[c].collides
        /\ t.base = task[c].base
    BY <1>1, <2>1 DEF Inspecting
  <2> HIDE DEF t
  <2>5. Sound(t, baseline)
    BY <1>2, <2>1, <2>3, <2>4 DEF Sound, Witnessed, Passed, Unremarkable
  <2> QED BY <2>2, <2>4, <2>5, OneInspection
<1> QED
  BY <1>4, <1>5, <1>6

(* What an inspection writes vets the tool it is at, in its own ghosts and  *)
(* in those of every other inspection of the server.                        *)
LEMMA UpsertStep ==
  ASSUME McpTypeOK, TasksSound, NEW c \in Thread, UpsertBaseline(c),
         Grows(baseline, baseline')
  PROVE  TasksSound'
<1>1. task[c] \in Inspecting /\ task[c].pc = "upsert"
  BY TaskKinds DEF UpsertBaseline, McpTypeOK, Task, Reading
<1>2. PICK s \in Server, n \in Name, d \in Def :
        s = task[c].server /\ n = Tool(c) /\ d = Found(c)
  BY <1>1, ToolTyped
<1>3. task[c].at \in DOMAIN task[c].manifest
  BY <1>1, ToolTyped DEF At
<1>4. Sound(task[c], baseline') /\ schema' = schema
  BY <1>1, SoundStays DEF TasksSound, UpsertBaseline
<1>5. CASE Upserts(c)
  <2>1. task' = [u \in Thread |->
                   IF u = c THEN Advanced(Witness(task[u], s, n, d))
                   ELSE Witness(task[u], s, n, d)]
    BY <1>2, <1>5 DEF UpsertBaseline
  <2>2. ASSUME NEW u \in Thread, u # c
        PROVE  /\ task'[u] \in Inspecting => Sound(task'[u], baseline')
               /\ Founded(task'[u], schema')
    <3>1. task'[u] = Witness(task[u], s, n, d) /\ task[u] \in Task
      BY <2>1, <2>2 DEF McpTypeOK, Task
    <3>2. CASE task[u] \in Inspecting
      <4>1. task'[u] \in Inspecting
        BY <3>1, <3>2, WitnessTyped
      <4>2. Sound(task[u], baseline')
        BY <3>2, SoundStays DEF TasksSound
      <4>3. Sound(task'[u], baseline')
        BY <3>1, <3>2, <4>2, WitnessSound
      <4>4. Founded(task'[u], schema')
        BY <4>1 DEF Founded, Inspecting, Calling
      <4> QED BY <4>3, <4>4
    <3>3. CASE task[u] \notin Inspecting
      <4>1. task'[u] = task[u]
        BY <3>1, <3>3, WitnessTyped
      <4> QED BY <1>4, <4>1, ThreadStays
    <3> QED BY <3>2, <3>3
  <2> DEFINE w == Witness(task[c], s, n, d)
  <2>3. w = [task[c] EXCEPT !.vetted = task[c].vetted
               \cup {i \in DOMAIN task[c].manifest :
                       task[c].manifest[i] = [name |-> n, def |-> d]}]
    BY <1>1, <1>2 DEF Witness
  <2>4. task[c].manifest[task[c].at] = [name |-> n, def |-> d]
    <3>1. task[c].manifest \in Seq(Entry)
      BY <1>1, ManifestTyped DEF Inspecting
    <3>2. task[c].manifest[task[c].at] \in Entry
      BY <1>3, <3>1
    <3> QED BY <1>2, <3>2 DEF Entry, Tool, Found, At
  <2>5. w.at \in w.vetted /\ w.pc = "upsert"
    BY <1>1, <1>3, <2>3, <2>4 DEF Inspecting
  <2>6. w \in Inspecting /\ w.at \in DOMAIN w.manifest
    BY <1>1, <1>3, WitnessTyped DEF Task
  <2>7. Sound(w, baseline')
    BY <1>1, <1>4, WitnessSound
  <2>8. task'[c] = Advanced(w)
    BY <2>1
  <2> HIDE DEF w
  <2>9. task'[c] \in Inspecting => Sound(task'[c], baseline')
    BY <2>5, <2>6, <2>7, <2>8, AdvancedSound
  <2>10. task'[c] \in Inspecting \cup {Idle}
    BY <2>6, <2>8, AdvancedTyped
  <2>11. Founded(task'[c], schema')
    BY <2>10 DEF Founded, Inspecting, Calling, Idle
  <2> QED BY <2>2, <2>9, <2>11 DEF TasksSound
<1>6. CASE ~Upserts(c)
  <2>1. task' = [task EXCEPT ![c] = Advanced(task[c])]
    BY <1>6 DEF UpsertBaseline
  <2>2. ~task[c].clean
    BY <1>1, <1>6, TrustedIsUnremarkable DEF TasksSound, Sound
  <2>3. Advanced(task[c]) \in Inspecting => Sound(Advanced(task[c]), baseline')
    BY <1>1, <1>3, <1>4, <2>2, AdvancedSound
  <2>4. Advanced(task[c]) \in Inspecting \cup {Idle}
    BY <1>1, <1>3, AdvancedTyped
  <2>5. Founded(Advanced(task[c]), schema')
    BY <2>4 DEF Founded, Inspecting, Calling, Idle
  <2> QED BY <1>4, <2>1, <2>3, <2>5, OneThread
<1> QED
  BY <1>5, <1>6

(* Registration keeps every schema there is; the request that registered    *)
(* goes on with all of its manifest vetted and alone.                       *)
LEMMA RegisterStep ==
  ASSUME McpTypeOK, TasksSound, NEW c \in Thread, Register(c)
  PROVE  /\ TasksSound'
         /\ SchemaClean => SchemaClean'
<1>1. task[c] \in Inspecting /\ task[c].pc = "register"
  BY TaskKinds DEF Register, McpTypeOK, Task
<1>2. PICK s \in Server : s = task[c].server
  BY <1>1, ToolTyped
<1>3. schema' = [schema EXCEPT ![s] = Registered(task[c])] /\ baseline' = baseline
  BY <1>2 DEF Register
<1>4. schema[task[c].server] \in [Name -> Def \cup {NoDef}]
  BY <1>2 DEF McpTypeOK
<1>5. \A i \in DOMAIN task[c].manifest : Passed(task[c], i)
  BY <1>1 DEF TasksSound, Sound
<1>6. \A o \in Server, n \in Name : schema[o][n] # NoDef => schema'[o][n] # NoDef
  BY <1>1, <1>2, <1>3, <1>4, RegisteredTyped DEF McpTypeOK
<1>7. SchemaClean => SchemaClean'
  <2> SUFFICES ASSUME SchemaClean, NEW o \in Server, NEW n \in Name
               PROVE  schema'[o][n] \in Clean \cup {NoDef}
    BY DEF SchemaClean
  <2>1. CASE o = s
    <3>1. \/ schema'[o][n] = schema[o][n]
          \/ \E i \in DOMAIN task[c].manifest :
               schema'[o][n] = task[c].manifest[i].def
      BY <1>1, <1>2, <1>3, <1>4, <2>1, RegisteredTyped DEF McpTypeOK
    <3> QED BY <1>5, <3>1 DEF SchemaClean, Passed
  <2>2. CASE o # s
    BY <1>3, <2>2 DEF SchemaClean, McpTypeOK
  <2> QED BY <2>1, <2>2
<1>8. /\ task[c].vetted = DOMAIN task[c].manifest
      /\ task[c].alone = DOMAIN task[c].manifest
  BY <1>1, <1>5 DEF TasksSound, Sound, Witnessed, Passed
<1>9. CASE Finish(c)
  BY <1>3, <1>6, <1>7, <1>9, IdleFounded, OneThread DEF Finish, Grows
<1>10. ASSUME NEW i \in DOMAIN task[c].manifest,
              task' = [task EXCEPT ![c] =
                [pc |-> "evaluate", route |-> "sync", server |-> task[c].server,
                 tool |-> task[c].manifest[i].name,
                 vetted |-> task[c].vetted = DOMAIN task[c].manifest,
                 alone |-> task[c].alone = DOMAIN task[c].manifest]]
       PROVE  TasksSound'
  <2> DEFINE t == [pc |-> "evaluate", route |-> "sync", server |-> task[c].server,
                   tool |-> task[c].manifest[i].name,
                   vetted |-> task[c].vetted = DOMAIN task[c].manifest,
                   alone |-> task[c].alone = DOMAIN task[c].manifest]
  <2>1. t.vetted /\ t.alone /\ t.pc = "evaluate"
    BY <1>8
  <2>2. t \notin Inspecting
    BY DEF Inspecting
  <2>3. Founded(t, schema') /\ task' = [task EXCEPT ![c] = t]
    BY <1>10, <2>1 DEF Founded
  <2> HIDE DEF t
  <2> QED BY <1>3, <1>6, <2>2, <2>3, OneThread DEF Grows
<1> QED
  BY <1>7, <1>9, <1>10 DEF Register

LEMMA TasksSoundStep ==
  McpTypeOK /\ TasksSound /\ [McpNext]_mcpVars => TasksSound'
<1> SUFFICES ASSUME McpTypeOK, TasksSound, [McpNext]_mcpVars PROVE TasksSound'
  OBVIOUS
<1>0. Grows(baseline, baseline')
  BY BaselinesGrow
<1>1. ASSUME NEW c \in Thread, NEW route \in {"sync", "inspect", "accept"},
             NEW s \in Server, NEW m \in Manifests[s],
             task' = [task EXCEPT ![c] = Inspection(route, s, m)],
             UNCHANGED <<baseline, observation, schema, accepted>>
      PROVE  TasksSound'
  BY <1>1, InspectionSound, InspectionTyped, OneInspection
<1>2. ASSUME NEW c \in Request, NEW s \in Server, NEW m \in Manifests[s],
             Discover(c, s, m)
      PROVE  TasksSound'
  BY <1>1, <1>2 DEF Discover, Thread
<1>3. ASSUME NEW c \in Reviewer, NEW s \in Server, NEW accept \in BOOLEAN,
             NEW m \in Manifests[s], InspectServer(c, s, m, accept)
      PROVE  TasksSound'
  BY <1>1, <1>3 DEF InspectServer, Thread
<1>4. ASSUME NEW c \in Request, NEW s \in Server, NEW n \in Name,
             ExecuteApproved(c, s, n)
      PROVE  TasksSound'
  <2> DEFINE t == [pc |-> "evaluate", route |-> "approved", server |-> s, tool |-> n]
  <2>1. t \notin Inspecting /\ Founded(t, schema')
    BY DEF Inspecting, Calling, Founded
  <2>2. task' = [task EXCEPT ![c] = t] /\ schema' = schema /\ c \in Thread
    BY <1>4 DEF ExecuteApproved, Thread
  <2> HIDE DEF t
  <2> QED BY <1>0, <2>1, <2>2, OneThread
<1>5. ASSUME NEW c \in Thread,
             ReadBaseline(c) \/ ReadOwners(c) \/ RecordObservation(c)
      PROVE  TasksSound'
  BY <1>5, ReadingSteps
<1>6. ASSUME NEW c \in Thread, UpsertBaseline(c) PROVE TasksSound'
  BY <1>0, <1>6, UpsertStep
<1>7. ASSUME NEW c \in Thread, Register(c) PROVE TasksSound'
  BY <1>7, RegisterStep
(* Only a tool that has a schema is permitted.                              *)
<1>8. ASSUME NEW c \in Thread, Evaluate(c) PROVE TasksSound'
  <2>1. task[c] \in Calling \cup CallingApproved
    BY <1>8, TaskKinds DEF Evaluate, McpTypeOK, Task
  <2> DEFINE t == [task[c] EXCEPT !.pc = "call"]
  <2>2. CASE Permitted(task[c])
    <3>1. /\ t \notin Inspecting /\ t.server = task[c].server
          /\ t.tool = task[c].tool
          /\ t \in Calling => task[c] \in Calling /\ t.vetted = task[c].vetted
                              /\ t.alone = task[c].alone
      BY <2>1 DEF Inspecting, Calling, CallingApproved
    <3>2. Founded(t, schema) /\ schema' = schema
      BY <1>8, <2>2, <3>1 DEF Founded, Permitted, TasksSound, Evaluate
    <3>3. task' = [task EXCEPT ![c] = t]
      BY <1>8, <2>2 DEF Evaluate, Goto
    <3> HIDE DEF t
    <3> QED BY <1>0, <3>1, <3>2, <3>3, OneThread
  <2>3. CASE ~Permitted(task[c])
    BY <1>0, <1>8, <2>3, IdleFounded, OneThread DEF Evaluate, Finish
  <2> QED BY <2>2, <2>3
<1>9. ASSUME NEW c \in Thread, InvokeUpstream(c) \/ Abort(c) PROVE TasksSound'
  BY <1>0, <1>9, IdleFounded, OneThread DEF InvokeUpstream, Abort, Finish
<1>10. CASE Restart
  BY <1>10, IdleFounded DEF Restart, TasksSound
<1>11. ASSUME NEW s \in Server, NEW n \in Name, LapseObservation(s, n)
       PROVE  TasksSound'
  BY <1>11 DEF LapseObservation, TasksSound
<1>12. CASE UNCHANGED mcpVars
  BY <1>12 DEF mcpVars, TasksSound
<1> QED
  BY <1>2, <1>3, <1>4, <1>5, <1>6, <1>7, <1>8, <1>9, <1>10, <1>11, <1>12
  DEF McpNext

-----------------------------------------------------------------------------
(* Baselines and schemas.                                                   *)

LEMMA BaselineStep ==
  McpTypeOK /\ BaselineIsVetted /\ [McpNext]_mcpVars => BaselineIsVetted'
<1> SUFFICES ASSUME McpTypeOK, BaselineIsVetted, [McpNext]_mcpVars
             PROVE  BaselineIsVetted'
  OBVIOUS
(* A hostile definition blocks, and a suspect one is noted: only acceptance *)
(* makes it the baseline.                                                   *)
<1>1. ASSUME NEW c \in Thread, UpsertBaseline(c), Upserts(c)
      PROVE  BaselineIsVetted'
  <2>1. task[c] \in Inspecting
    BY <1>1, TaskKinds DEF UpsertBaseline, McpTypeOK, Task, Reading
  <2>2. PICK s \in Server, n \in Name, d \in Def :
          s = task[c].server /\ n = Tool(c) /\ d = Found(c)
    BY <2>1, ToolTyped
  <2> DEFINE b == \/ task[c].route = "accept"
                  \/ accepted[s][n] /\ baseline[s][n] = d
  <2>3. /\ baseline' = [baseline EXCEPT ![s][n] = d]
        /\ accepted' = [accepted EXCEPT ![s][n] = b]
    BY <1>1, <2>2 DEF UpsertBaseline
  <2>4. d \notin Hostile /\ (d \in Suspect => b)
    BY <1>1, <2>2 DEF Upserts, Blocking, Noteworthy
  <2> HIDE DEF b
  <2>5. /\ baseline'[s][n] = d /\ accepted'[s][n] = b
        /\ \A o \in Server, m \in Name : o # s \/ m # n =>
             baseline'[o][m] = baseline[o][m] /\ accepted'[o][m] = accepted[o][m]
    BY <2>3 DEF McpTypeOK
  <2> QED BY <2>4, <2>5 DEF BaselineIsVetted, Owns
<1>2. CASE UNCHANGED <<baseline, accepted>>
  BY <1>2 DEF BaselineIsVetted, Owns
<1> QED
  BY <1>1, <1>2 DEF McpNext, mcpVars, Discover, InspectServer, ExecuteApproved,
    ReadBaseline, ReadOwners, RecordObservation, UpsertBaseline, Register,
    Evaluate, InvokeUpstream, Abort, Restart, LapseObservation

LEMMA SchemaStep ==
  McpTypeOK /\ TasksSound /\ SchemaClean /\ [McpNext]_mcpVars => SchemaClean'
<1> SUFFICES ASSUME McpTypeOK, TasksSound, SchemaClean, [McpNext]_mcpVars
             PROVE  SchemaClean'
  OBVIOUS
<1>1. ASSUME NEW c \in Thread, Register(c) PROVE SchemaClean'
  BY <1>1, RegisterStep
<1>2. CASE Restart
  BY <1>2 DEF Restart, SchemaClean
<1>3. CASE schema' = schema
  BY <1>3 DEF SchemaClean
<1> QED
  BY <1>1, <1>2, <1>3 DEF McpNext, mcpVars, Discover, InspectServer,
    ExecuteApproved, ReadBaseline, ReadOwners, RecordObservation,
    UpsertBaseline, Evaluate, InvokeUpstream, Abort, LapseObservation

-----------------------------------------------------------------------------
(* What holds of every behaviour.                                           *)

LEMMA McpInvInit == McpInit => McpInv
<1> SUFFICES ASSUME McpInit PROVE McpInv
  OBVIOUS
<1>1. BaselineIsVetted /\ SchemaClean
  BY DEF McpInit, BaselineIsVetted, Owns, SchemaClean
<1> QED
  BY <1>1, McpTypeInit, TasksSoundInit DEF McpInv

LEMMA McpInvStep == McpInv /\ [McpNext]_mcpVars => McpInv'
  BY McpTypeStep, BaselineStep, SchemaStep, TasksSoundStep DEF McpInv

LEMMA McpInvariant == McpSpec => []McpInv
  BY McpInvInit, McpInvStep, PTL DEF McpSpec

(* THEOREM: a request calls an upstream tool only when every tool of the    *)
(* manifest that it was shown had a definition that was the baseline at     *)
(* some time since it began, whatever others inspect and accept meanwhile.  *)
THEOREM ManifestsAreVetted == McpSpec => []WholeManifestVetted
<1>1. McpInv => WholeManifestVetted
  <2> SUFFICES ASSUME McpInv, NEW c \in Thread, task[c].pc = "call",
                      task[c].route = "sync"
               PROVE  task[c].vetted
    BY DEF WholeManifestVetted
  <2>1. task[c] \in Calling
    BY TaskKinds DEF McpInv, McpTypeOK, Task
  <2> QED BY <2>1 DEF McpInv, TasksSound, Founded
<1> QED
  BY <1>1, McpInvariant, PTL

(* THEOREM: a request calls nothing of a server one of whose names another  *)
(* server owned when the request began.                                     *)
THEOREM CollisionsBlockCalls == McpSpec => []CollisionBlocksCalls
<1>1. McpInv => CollisionBlocksCalls
  <2> SUFFICES ASSUME McpInv, NEW c \in Thread, task[c].pc = "call",
                      task[c].route = "sync"
               PROVE  task[c].alone
    BY DEF CollisionBlocksCalls
  <2>1. task[c] \in Calling
    BY TaskKinds DEF McpInv, McpTypeOK, Task
  <2> QED BY <2>1 DEF McpInv, TasksSound, Founded
<1> QED
  BY <1>1, McpInvariant, PTL

(* THEOREM: no interleaving of inspections and acceptances makes a hostile  *)
(* definition the baseline, or a suspect one that no reviewer accepted.     *)
THEOREM BaselinesAreVetted == McpSpec => []BaselineIsVetted
<1>1. McpInv => BaselineIsVetted
  BY DEF McpInv
<1> QED
  BY <1>1, McpInvariant, PTL

(* THEOREM: what is called, on a request or on an approval, has a schema in *)
(* this process and a definition without any finding.                       *)
THEOREM CallsAreClean == McpSpec => []CallsCleanTool
<1>1. McpInv => CallsCleanTool
  <2> SUFFICES ASSUME McpInv, NEW c \in Thread, task[c].pc = "call"
               PROVE  schema[task[c].server][task[c].tool]
                        \in Def \ (Hostile \cup Suspect)
    BY DEF CallsCleanTool
  <2>1. task[c] \in Calling \cup CallingApproved
    BY TaskKinds DEF McpInv, McpTypeOK, Task
  <2>2. task[c].server \in Server /\ task[c].tool \in Name
    BY <2>1 DEF Calling, CallingApproved
  <2>3. schema[task[c].server][task[c].tool] # NoDef
    BY DEF McpInv, TasksSound, Founded
  <2> QED BY <2>2, <2>3 DEF McpInv, SchemaClean, Clean
<1> QED
  BY <1>1, McpInvariant, PTL

=============================================================================
