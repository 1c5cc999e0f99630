---------------------------- MODULE WatchProofs ----------------------------
(***************************************************************************)
(* What holds of Watch for every set of agents, tasks and observers, every *)
(* kind of event and all thresholds and budgets.                           *)
(***************************************************************************)
EXTENDS Watch, WellFoundedInduction, FiniteSetTheorems, TLAPS

-----------------------------------------------------------------------------
(* The inductive invariant.                                                 *)

Working == {"insert", "reread", "list", "persist", "audit"}

(* An observer that may still write for a task works for the task's owner.  *)
WorkersOwn ==
  \A c \in Observer :
    thread[c].pc \in Working => Owned(thread[c].agent, thread[c].task)

(* Findings are of tasks.                                                   *)
FindingsOfTasks ==
  \A t \in Task, code \in Code : findings[t][code] # "none" => tasks[t] # None

WatchInv ==
  /\ WatchTypeOK
  /\ WorkersOwn
  /\ EventsBelongToOwner
  /\ FindingsOfTasks
  /\ FindingOnRecord

-----------------------------------------------------------------------------
(* Operators.                                                               *)

(* The detectors find codes, whatever they are shown.                       *)
LEMMA DetectedAreCodes ==
  \A l, row, created, es, now, window :
    Detected(l, row, created, es, now, window) \subseteq Code
<1> SUFFICES ASSUME NEW l, NEW row, NEW created, NEW es, NEW now, NEW window,
                    NEW c \in Detected(l, row, created, es, now, window)
             PROVE  c \in Code
  OBVIOUS
<1> QED
  BY Zenon DEF Detected

(* Every set of numbers has a least one.                                    *)
LEMMA LeastNumber ==
  ASSUME NEW S \in SUBSET Nat, S # {}
  PROVE  \E x \in S : \A y \in S : x <= y
<1> DEFINE R == {xy \in Nat \X Nat : xy[1] < xy[2]}
<1>1. IsWellFoundedOn(R, Nat)
  BY NatLessThanWellFounded DEF OpToRel
<1>2. PICK x \in S : \A y \in S : ~(<<y, x>> \in R)
  BY <1>1, WFMin
<1>3. \A y \in S : ~(y < x)
  BY <1>2
<1> QED
  BY <1>3

(* The first of some findings is one of them.                               *)
LEMMA FirstIsOne ==
  ASSUME NEW S \in SUBSET Code, S # {}
  PROVE  FirstOf(S) \in S
<1> DEFINE I == {i \in DOMAIN Codes : Codes[i] \in S}
<1>1. DOMAIN Codes = 1..9
  BY DEF Codes
<1>2. I # {}
  BY DEF Code
<1>3. PICK i \in I : \A j \in I : i <= j
  BY <1>1, <1>2, LeastNumber
<1>4. \A j \in 1..(i - 1) : Codes[j] \notin S
  BY <1>1, <1>3
<1> QED
  BY <1>3, <1>4 DEF FirstOf

(* What an observer may be doing when it is at a place of its work.         *)
LEMMA DoingParts ==
  ASSUME NEW o \in Doing
  PROVE  /\ o.pc # "idle" => o.task \in Task /\ o.agent \in Agent
         /\ o.pc \in Working => o.route \in Route
         /\ o.pc = "insert" => o.kind \in Kind /\ o.at \in 0..MaxTime
         /\ o.pc \in {"reread", "list"} => o.at \in 0..MaxTime /\ o.place \in Nat
         /\ o.pc = "persist" => /\ o.place \in Nat
                                /\ o.todo \subseteq Code /\ o.todo # {}
         /\ o.pc \in {"persist", "audit"} => o.done \subseteq Code
         /\ o.pc \in Working \cup {"idle", "failing"}
         /\ o.pc = "audit" =>
              /\ o.done # {}
              /\ o = [pc |-> "audit", route |-> o.route, agent |-> o.agent,
                      task |-> o.task, done |-> o.done]
  BY DEF Doing, Idle, Working

LEMMA IdleDoes == Idle \in Doing /\ Idle.pc = "idle"
  BY DEF Idle, Doing

(* An observation that goes on with its findings.                           *)
LEMMA PersistingTyped ==
  ASSUME NEW o, o.route \in Route, o.agent \in Agent, o.task \in Task,
         o.place \in Nat, NEW todo \in SUBSET Code, NEW done \in SUBSET Code
  PROVE  LET p == Persisting(o, todo, done) IN
         /\ p \in Doing
         /\ p.pc \in {"persist", "audit", "idle"}
         /\ p.pc # "idle" => p.task = o.task /\ p.agent = o.agent /\ p.done = done
         /\ p.pc = "persist" => p.place = o.place /\ p.todo = todo
         /\ p.pc = "idle" => done = {}
<1>1. CASE todo # {}
  <2> DEFINE p == [pc |-> "persist", route |-> o.route, agent |-> o.agent,
                   task |-> o.task, place |-> o.place, todo |-> todo, done |-> done]
  <2>1. Persisting(o, todo, done) = p
    BY <1>1 DEF Persisting
  <2>2. p \in Doing
    BY <1>1 DEF Doing
  <2> QED BY <2>1, <2>2
<1>2. CASE todo = {} /\ done # {}
  <2> DEFINE p == [pc |-> "audit", route |-> o.route, agent |-> o.agent,
                   task |-> o.task, done |-> done]
  <2>1. Persisting(o, todo, done) = p
    BY <1>2 DEF Persisting
  <2>2. p \in Doing
    BY <1>2 DEF Doing
  <2> QED BY <2>1, <2>2
<1>3. CASE todo = {} /\ done = {}
  BY <1>3, IdleDoes DEF Persisting
<1> QED
  BY <1>1, <1>2, <1>3

-----------------------------------------------------------------------------
(* Types.                                                                   *)

ThreadsOK ==
  /\ thread \in [Observer -> Doing]
  /\ \A c \in Observer :
       /\ thread[c].pc \in {"reread", "list", "persist"} =>
            thread[c].place \in DOMAIN events[thread[c].task]
       /\ thread[c].pc = "persist" => thread[c].todo \subseteq Code \ thread[c].done

TrailRow ==
  [event: {"created"}, task: Task]
    \cup [event: {"observed", "reviewed"}, task: Task, code: Code]
    \cup [event: {"failed"}, task: Task, agent: Agent]

EventTablesOK ==
  /\ events \in [Task -> Seq(Event)]
  /\ open \in [Task -> SUBSET Nat]
  /\ reviewed \in [Task -> [Code -> Nat]]
  /\ \A t \in Task : /\ open[t] \subseteq DOMAIN events[t]
                    /\ reviewed[t] \in [Code -> 0..Len(events[t])]

OtherTablesOK ==
  /\ clock \in 0..MaxTime
  /\ tasks \in [Task -> TaskRow \cup {None}]
  /\ findings \in [Task -> [Code -> Reviews \cup {"none"}]]
  /\ trail \subseteq TrailRow
  /\ unrecorded \subseteq Task
  /\ upsets \in 0..MaxUpsets

LEMMA TypeParts ==
  /\ WatchTypeOK <=> ThreadsOK /\ EventTablesOK /\ OtherTablesOK
  /\ WatchTypeOK' <=> ThreadsOK' /\ EventTablesOK' /\ OtherTablesOK'
  BY DEF WatchTypeOK, ThreadsOK, EventTablesOK, OtherTablesOK, TrailRow

(* What is well placed for one observer.                                    *)
Placed(o, es) ==
  /\ o.pc \in {"reread", "list", "persist"} => o.place \in DOMAIN es[o.task]
  /\ o.pc = "persist" => o.todo \subseteq Code \ o.done

(* A step that gives one observer something else to do.                     *)
LEMMA ThreadTyped ==
  ASSUME ThreadsOK, NEW c \in Observer, NEW o \in Doing, Placed(o, events'),
         thread' = [thread EXCEPT ![c] = o],
         \A t \in Task : DOMAIN events[t] \subseteq DOMAIN events'[t]
  PROVE  ThreadsOK'
<1>1. \A d \in Observer : thread[d].pc # "idle" => thread[d].task \in Task
  BY DoingParts DEF ThreadsOK
<1>2. \A d \in Observer : thread'[d] = IF d = c THEN o ELSE thread[d]
  BY DEF ThreadsOK
<1>3. thread' \in [Observer -> Doing]
  BY DEF ThreadsOK
<1> QED
  BY <1>1, <1>2, <1>3 DEF ThreadsOK, Placed

LEMMA WatchTypeInit == WatchInit => WatchTypeOK
<1> SUFFICES ASSUME WatchInit PROVE WatchTypeOK
  OBVIOUS
<1>1. ThreadsOK
  BY IdleDoes DEF WatchInit, ThreadsOK
<1>2. EventTablesOK
  BY DEF WatchInit, EventTablesOK
<1>3. OtherTablesOK
  BY WatchAssumption DEF WatchInit, OtherTablesOK
<1> QED
  BY <1>1, <1>2, <1>3, TypeParts

(* The row that a task gets, and whose it is then.                          *)
LEMMA CreatedTyped ==
  ASSUME OtherTablesOK, NEW a \in Agent, NEW t \in Task,
         NEW limits \in {Default, Asked}
  PROVE  /\ Created(a, t, limits) \in [Task -> TaskRow \cup {None}]
         /\ Created(a, t, limits)[t] # None
         /\ \A u \in Task : /\ tasks[u] # None => Created(a, t, limits)[u] = tasks[u]
                            /\ u # t => Created(a, t, limits)[u] = tasks[u]
<1> DEFINE row == [owner |-> a, limits |-> limits, active |-> TRUE,
                   created |-> clock, cost |-> 0]
<1>1. row \in TaskRow
  BY DEF TaskRow, OtherTablesOK
<1>2. Created(a, t, limits) = IF tasks[t] # None THEN tasks
                              ELSE [tasks EXCEPT ![t] = row]
  BY DEF Created
<1> HIDE DEF row
<1> QED
  BY <1>1, <1>2, WatchAssumption DEF OtherTablesOK

(* Time passes up to its bound.                                             *)
LEMMA AdvanceTyped ==
  ASSUME OtherTablesOK, Advance
  PROVE  clock' \in 0..MaxTime
  BY WatchAssumption DEF OtherTablesOK, Advance

LEMMA StartedTyped ==
  ASSUME OtherTablesOK, Advance, NEW route \in Route, NEW a \in Agent,
         NEW t \in Task, NEW k \in Kind, NEW es
  PROVE  Started(route, a, t, k) \in Doing /\ Placed(Started(route, a, t, k), es)
  BY AdvanceTyped DEF Started, Doing, Placed

LEMMA FailingTyped ==
  ASSUME NEW a \in Agent, NEW t \in Task, NEW es
  PROVE  LET o == [pc |-> "failing", task |-> t, agent |-> a]
         IN o \in Doing /\ Placed(o, es)
  BY DEF Doing, Placed

LEMMA IdleTyped ==
  ASSUME NEW es
  PROVE  Idle \in Doing /\ Placed(Idle, es)
  BY DEF Doing, Idle, Placed

(* A new event: the tables grow by one, and the event gets the new place.   *)
LEMMA RecordTyped ==
  ASSUME WatchTypeOK, WorkersOwn, NEW c \in Observer, RecordEvent(c)
  PROVE  /\ WatchTypeOK'
         /\ \E t \in Task, e \in Event :
              /\ t = thread[c].task /\ e.agent = thread[c].agent
              /\ events' = [events EXCEPT ![t] = Append(events[t], e)]
              /\ tasks'[t] \in TaskRow /\ tasks'[t].owner = tasks[t].owner
              /\ \A u \in Task \ {t} : tasks'[u] = tasks[u]
<1>0. ThreadsOK /\ EventTablesOK /\ OtherTablesOK
  BY TypeParts
<1>1. thread[c].pc = "insert" /\ thread[c] \in Doing
  BY <1>0 DEF RecordEvent, ThreadsOK
<1>2. PICK t \in Task, a \in Agent, route \in Route, k \in Kind, at \in 0..MaxTime :
        /\ t = thread[c].task /\ a = thread[c].agent /\ route = thread[c].route
        /\ k = thread[c].kind /\ at = thread[c].at
  BY <1>1, DoingParts DEF Working
<1> DEFINE e == [kind |-> k, agent |-> a, at |-> at]
           n == Len(events[t]) + 1
<1>3. e \in Event /\ e.agent = a
  BY DEF Event
<1>4. events' = [events EXCEPT ![t] = Append(events[t], e)]
  BY <1>2 DEF RecordEvent
<1> HIDE DEF e
<1>5. events[t] \in Seq(Event) /\ n \in Nat /\ n > 0
  BY <1>0 DEF EventTablesOK
<1>6. /\ events' \in [Task -> Seq(Event)]
      /\ Len(events'[t]) = n /\ DOMAIN events'[t] = 1..n
      /\ DOMAIN events[t] = 1..(n - 1) /\ Len(events[t]) = n - 1
      /\ \A u \in Task \ {t} : events'[u] = events[u]
  BY <1>0, <1>3, <1>4, <1>5 DEF EventTablesOK
<1>7. open' = [open EXCEPT ![t] = open[t] \cup {n}] /\ reviewed' = reviewed
  BY <1>2, <1>6 DEF RecordEvent
<1> HIDE DEF n
<1>8. EventTablesOK'
  <2>1. open' \in [Task -> SUBSET Nat]
    BY <1>0, <1>5, <1>7 DEF EventTablesOK
  <2>2. ASSUME NEW u \in Task
        PROVE  /\ open'[u] \subseteq DOMAIN events'[u]
               /\ reviewed'[u] \in [Code -> 0..Len(events'[u])]
    <3>1. CASE u = t
      <4>1. open'[t] \subseteq DOMAIN events'[t]
        BY <1>0, <1>5, <1>6, <1>7 DEF EventTablesOK
      <4>2. 0..Len(events[t]) \subseteq 0..Len(events'[t])
        BY <1>5, <1>6
      <4>3. reviewed[t] \in [Code -> 0..Len(events[t])]
        BY <1>0 DEF EventTablesOK
      <4>4. reviewed[t] \in [Code -> 0..Len(events'[t])]
        BY <4>2, <4>3
      <4> QED BY <1>7, <3>1, <4>1, <4>4
    <3>2. CASE u # t
      BY <1>0, <1>6, <1>7, <3>2 DEF EventTablesOK
    <3> QED BY <3>1, <3>2
  <2> QED BY <1>0, <1>6, <1>7, <2>1, <2>2 DEF EventTablesOK
<1> DEFINE b == tasks[t].active /\ k.type # "end"
           row == [tasks[t] EXCEPT !.cost = tasks[t].cost + k.cost, !.active = b]
<1>9. tasks' = [tasks EXCEPT ![t] = row]
  BY <1>2 DEF RecordEvent
<1>10. row \in TaskRow /\ row.owner = tasks[t].owner
  <2>1. b \in BOOLEAN /\ k.cost \in Nat
    BY DEF Kind
  <2> HIDE DEF b
  <2>2. tasks[t] \in TaskRow
    BY <1>0, <1>1, <1>2 DEF OtherTablesOK, WorkersOwn, Working, Owned
  <2>3. tasks[t].cost + k.cost \in Nat
    BY <2>1, <2>2 DEF TaskRow
  <2>4. \A m \in Nat : /\ [tasks[t] EXCEPT !.cost = m, !.active = b] \in TaskRow
                       /\ [tasks[t] EXCEPT !.cost = m, !.active = b].owner
                            = tasks[t].owner
    BY <2>1, <2>2 DEF TaskRow
  <2> QED BY <2>3, <2>4
<1> HIDE DEF row
<1>11. /\ tasks' \in [Task -> TaskRow \cup {None}] /\ tasks'[t] = row
       /\ \A u \in Task \ {t} : tasks'[u] = tasks[u]
  BY <1>0, <1>9, <1>10 DEF OtherTablesOK
<1>12. OtherTablesOK'
  BY <1>0, <1>11 DEF RecordEvent, OtherTablesOK
<1>13. ThreadsOK'
  <2> DEFINE o == [pc |-> "reread", route |-> route, agent |-> a, task |-> t,
                   at |-> at, place |-> n]
  <2>1. thread' = [thread EXCEPT ![c] = o]
    BY <1>2, <1>6 DEF RecordEvent
  <2>2. o \in Doing
    BY <1>5 DEF Doing
  <2>3. Placed(o, events')
    BY <1>5, <1>6 DEF Placed
  <2>4. \A u \in Task : DOMAIN events[u] \subseteq DOMAIN events'[u]
    BY <1>5, <1>6
  <2> HIDE DEF o
  <2> QED BY <1>0, <2>1, <2>2, <2>3, <2>4, ThreadTyped
<1> QED
  BY <1>2, <1>3, <1>4, <1>8, <1>10, <1>11, <1>12, <1>13, TypeParts

(* What an observer that is not idle and not failing is at.                 *)
LEMMA AtWork ==
  ASSUME WatchTypeOK, NEW c \in Observer
  PROVE  /\ thread[c] \in Doing
         /\ thread[c].pc \in Working =>
              /\ thread[c].task \in Task /\ thread[c].agent \in Agent
              /\ thread[c].route \in Route
         /\ thread[c].pc \in {"list", "persist"} =>
              thread[c].place \in DOMAIN events[thread[c].task]
         /\ thread[c].pc = "persist" => thread[c].todo \subseteq Code \ thread[c].done
<1>1. thread[c] \in Doing
  BY DEF WatchTypeOK
<1> QED
  BY <1>1, DoingParts DEF WatchTypeOK, Working

(* One review more.                                                         *)
LEMMA ReviewedTyped ==
  ASSUME NEW n \in Nat, NEW f \in [Code -> 0..n], NEW m \in 0..n, NEW code
  PROVE  [f EXCEPT ![code] = m] \in [Code -> 0..n]
  OBVIOUS

(* An observation that goes on persisting.                                  *)
LEMMA PersistingStep ==
  ASSUME WatchTypeOK, NEW c \in Observer, thread[c].pc \in {"list", "persist"},
         NEW todo \in SUBSET Code, NEW done \in SUBSET (Code \ todo),
         thread' = [thread EXCEPT ![c] = Persisting(thread[c], todo, done)],
         open' = Closed(thread[c], todo), events' = events
  PROVE  /\ ThreadsOK'
         /\ open' \in [Task -> SUBSET Nat]
         /\ \A t \in Task : open'[t] \subseteq DOMAIN events'[t]
<1> DEFINE o == thread[c]  p == Persisting(thread[c], todo, done)
<1>1. /\ o.task \in Task /\ o.agent \in Agent /\ o.route \in Route
      /\ o.place \in DOMAIN events[o.task]
  BY AtWork DEF Working
<1>2. o.place \in Nat
  BY <1>1 DEF WatchTypeOK
<1>3. done \in SUBSET Code
  OBVIOUS
<1>4. /\ p \in Doing
      /\ p.pc \in {"persist", "audit", "idle"}
      /\ p.pc # "idle" => p.task = o.task /\ p.done = done
      /\ p.pc = "persist" => p.place = o.place /\ p.todo = todo
  BY <1>1, <1>2, <1>3, PersistingTyped
<1>5. Placed(p, events')
  BY <1>1, <1>4 DEF Placed
<1> HIDE DEF p
<1>6. ThreadsOK'
  <2>1. ThreadsOK
    BY TypeParts
  <2> QED BY <1>4, <1>5, <2>1, ThreadTyped DEF p
<1>7. PICK t \in Task, i \in Nat : t = o.task /\ i = o.place
  BY <1>1, <1>2
<1>8. open' = open \/ open' = [open EXCEPT ![t] = open[t] \ {i}]
  BY <1>7 DEF Closed
<1>9. \A u \in Task : open[u] \subseteq DOMAIN events[u] /\ open[u] \subseteq Nat
  BY DEF WatchTypeOK
<1>10. open \in [Task -> SUBSET Nat]
  BY DEF WatchTypeOK
<1> QED
  BY <1>6, <1>8, <1>9, <1>10

LEMMA WatchTypeStep ==
  WatchTypeOK /\ WorkersOwn /\ [WatchNext]_watchVars => WatchTypeOK'
<1> SUFFICES ASSUME WatchTypeOK, WorkersOwn, [WatchNext]_watchVars
             PROVE  WatchTypeOK'
  OBVIOUS
<1>0. ThreadsOK /\ EventTablesOK /\ OtherTablesOK
  BY TypeParts
<1>1. CASE Pass
  <2>1. OtherTablesOK'
    BY <1>0, <1>1, AdvanceTyped DEF Pass, OtherTablesOK
  <2> QED BY <1>0, <1>1, <2>1, TypeParts DEF Pass, ThreadsOK, EventTablesOK
<1>2. ASSUME NEW a \in Agent, NEW t \in Task, CreateTask(a, t) PROVE WatchTypeOK'
  <2>1. tasks' \in [Task -> TaskRow \cup {None}]
    BY <1>0, <1>2, CreatedTyped DEF CreateTask
  <2>2. [event |-> "created", task |-> t] \in TrailRow
    BY DEF TrailRow
  <2>3. OtherTablesOK'
    BY <1>0, <1>2, <2>1, <2>2 DEF CreateTask, OtherTablesOK
  <2> QED BY <1>0, <1>2, <2>3, TypeParts DEF CreateTask, ThreadsOK, EventTablesOK
<1>3. ASSUME NEW c \in Observer, NEW o \in Doing, Placed(o, events'),
             thread' = [thread EXCEPT ![c] = o],
             UNCHANGED <<events, open, reviewed>>, OtherTablesOK'
      PROVE  WatchTypeOK'
  <2>1. ThreadsOK'
    BY <1>0, <1>3, ThreadTyped
  <2>2. EventTablesOK'
    BY <1>0, <1>3 DEF EventTablesOK
  <2> QED BY <1>3, <2>1, <2>2, TypeParts
<1>4. ASSUME NEW c \in Observer, NEW a \in Agent, NEW t \in Task,
             NEW k \in Decisions, ObserveDecision(c, a, t, k)
      PROVE  WatchTypeOK'
  <2>1. tasks' \in [Task -> TaskRow \cup {None}]
    BY <1>0, <1>4, CreatedTyped DEF ObserveDecision
  <2>2. clock' \in 0..MaxTime
    BY <1>0, <1>4, AdvanceTyped DEF ObserveDecision, OtherTablesOK
  <2>3. OtherTablesOK'
    BY <1>0, <1>4, <2>1, <2>2 DEF ObserveDecision, OtherTablesOK
  <2>4. k \in Kind /\ "decision" \in Route
    BY WatchAssumption DEF Route
  <2>5. CASE tasks'[t].owner = a
    BY <1>0, <1>3, <1>4, <2>3, <2>4, <2>5, StartedTyped DEF ObserveDecision
  <2>6. CASE tasks'[t].owner # a
    BY <1>3, <1>4, <2>3, <2>6, FailingTyped DEF ObserveDecision
  <2> QED BY <2>5, <2>6
<1>5. ASSUME NEW c \in Observer, NEW a \in Agent, NEW t \in Task,
             NEW k \in Kind, NEW route \in Route, Observe(route, c, a, t, k)
      PROVE  WatchTypeOK'
  <2>1. OtherTablesOK'
    BY <1>0, <1>5, AdvanceTyped DEF Observe, OtherTablesOK
  <2> QED BY <1>0, <1>3, <1>5, <2>1, StartedTyped DEF Observe
<1>6. ASSUME NEW c \in Observer, RecordEvent(c) PROVE WatchTypeOK'
  BY <1>6, RecordTyped
<1>7. ASSUME NEW c \in Observer, Reread(c) PROVE WatchTypeOK'
  <2>1. thread[c].pc = "reread" /\ thread[c] \in Doing
    BY <1>7, AtWork DEF Reread
  <2>2. PICK t \in Task, a \in Agent, route \in Route, at \in 0..MaxTime, n \in Nat :
          /\ t = thread[c].task /\ a = thread[c].agent /\ route = thread[c].route
          /\ at = thread[c].at /\ n = thread[c].place
    BY <2>1, DoingParts DEF Working
  <2>3. Read(t) \in [cost: Nat, active: BOOLEAN]
    <3>1. tasks[t] \in TaskRow
      BY <1>0, <2>1, <2>2 DEF OtherTablesOK, WorkersOwn, Working, Owned
    <3> QED BY <3>1 DEF Read, TaskRow
  <2> DEFINE now == IF route = "report" THEN at ELSE clock
             o == [pc |-> "list", route |-> route, agent |-> a, task |-> t,
                   at |-> at, place |-> n, row |-> Read(t), now |-> now]
  <2>4. now \in 0..MaxTime
    BY <1>0 DEF OtherTablesOK
  <2>5. thread' = [thread EXCEPT ![c] = o]
    BY <1>7, <2>2 DEF Reread
  <2> HIDE DEF now
  <2>6. o \in Doing
    BY <2>3, <2>4 DEF Doing
  <2>7. n \in DOMAIN events[t]
    BY <1>0, <2>1, <2>2 DEF ThreadsOK
  <2>8. Placed(o, events')
    BY <1>7, <2>7 DEF Placed, Reread
  <2>9. OtherTablesOK' /\ UNCHANGED <<events, open, reviewed>>
    BY <1>0, <1>7 DEF Reread, OtherTablesOK
  <2> HIDE DEF o
  <2> QED BY <1>3, <2>5, <2>6, <2>8, <2>9
<1>8. ASSUME NEW c \in Observer, Analyze(c) PROVE WatchTypeOK'
  <2>1. Listed(thread[c]) \in SUBSET Code
    BY DetectedAreCodes DEF Listed
  <2>2. /\ thread' = [thread EXCEPT ![c] =
                       Persisting(thread[c], Listed(thread[c]), {})]
        /\ open' = Closed(thread[c], Listed(thread[c])) /\ events' = events
        /\ thread[c].pc = "list"
    BY <1>8 DEF Analyze
  <2>3. /\ ThreadsOK' /\ open' \in [Task -> SUBSET Nat]
        /\ \A t \in Task : open'[t] \subseteq DOMAIN events'[t]
    <3> DEFINE todo == Listed(thread[c])
    <3>1. {} \in SUBSET (Code \ todo)
      OBVIOUS
    <3> HIDE DEF todo
    <3> QED BY <2>1, <2>2, <3>1, PersistingStep DEF todo
  <2>4. EventTablesOK' /\ OtherTablesOK'
    BY <1>0, <1>8, <2>3 DEF Analyze, EventTablesOK, OtherTablesOK
  <2> QED BY <2>3, <2>4, TypeParts
<1>9. ASSUME NEW c \in Observer, UpsertFinding(c) PROVE WatchTypeOK'
  <2> DEFINE t == thread[c].task  code == FirstOf(thread[c].todo)
             todo == thread[c].todo \ {code}
             done == (thread[c].done \cup {code}) \cap Code
  <2>1. /\ thread[c].pc = "persist" /\ t \in Task
        /\ thread[c].todo \subseteq Code \ thread[c].done
        /\ thread[c].done \subseteq Code /\ thread[c].todo # {}
    BY <1>9, AtWork, DoingParts DEF UpsertFinding, Working
  <2>2. code \in Code
    BY <2>1, FirstIsOne
  <2> HIDE DEF code
  <2>3. todo \in SUBSET Code /\ done \in SUBSET (Code \ todo)
    BY <2>1
  <2>4. done = thread[c].done \cup {code}
    BY <2>1, <2>2
  <2>5. /\ thread' = [thread EXCEPT ![c] = Persisting(thread[c], todo, done)]
        /\ open' = Closed(thread[c], todo) /\ events' = events
    BY <1>9, <2>4 DEF UpsertFinding, code
  <2> HIDE DEF todo, done
  <2>6. /\ ThreadsOK' /\ open' \in [Task -> SUBSET Nat]
        /\ \A u \in Task : open'[u] \subseteq DOMAIN events'[u]
    BY <2>1, <2>3, <2>5, PersistingStep
  <2>7. /\ findings' = [findings EXCEPT ![t][code] = "open"]
        /\ reviewed' = [reviewed EXCEPT ![t][code] = 0]
        /\ UNCHANGED <<clock, tasks, events, trail, unrecorded, upsets>>
    BY <1>9 DEF UpsertFinding, code
  <2>8. reviewed' \in [Task -> [Code -> Nat]]
    BY <1>0, <2>7 DEF EventTablesOK
  <2>9. \A u \in Task : reviewed'[u] \in [Code -> 0..Len(events'[u])]
    <3>1. ASSUME NEW u \in Task
          PROVE  reviewed'[u] \in {reviewed[u], [reviewed[u] EXCEPT ![code] = 0]}
      BY <1>0, <2>7 DEF EventTablesOK
    <3>2. \A u \in Task : /\ Len(events[u]) \in Nat /\ 0 \in 0..Len(events[u])
                          /\ reviewed[u] \in [Code -> 0..Len(events[u])]
      BY <1>0 DEF EventTablesOK
    <3>3. ASSUME NEW u \in Task
          PROVE  [reviewed[u] EXCEPT ![code] = 0] \in [Code -> 0..Len(events[u])]
      BY <3>2, ReviewedTyped
    <3> QED BY <2>7, <3>1, <3>2, <3>3
  <2>10. findings' \in [Task -> [Code -> Reviews \cup {"none"}]]
    BY <1>0, <2>7 DEF OtherTablesOK, Reviews
  <2> QED
    BY <1>0, <2>6, <2>7, <2>8, <2>9, <2>10, TypeParts
    DEF EventTablesOK, OtherTablesOK
<1>10. ASSUME NEW c \in Observer, AuditFinding(c) PROVE WatchTypeOK'
  <2> DEFINE code == FirstOf(thread[c].done)
  <2>1. thread[c].pc = "audit" /\ thread[c] \in Doing
    BY <1>10, AtWork DEF AuditFinding
  <2>2. PICK t \in Task, a \in Agent, route \in Route, done \in SUBSET Code :
          /\ t = thread[c].task /\ a = thread[c].agent /\ route = thread[c].route
          /\ done = thread[c].done /\ done # {}
    BY <2>1, DoingParts DEF Working
  <2>3. code \in done
    BY <2>2, FirstIsOne
  <2> HIDE DEF code
  <2>4. [event |-> "observed", task |-> t, code |-> code] \in TrailRow
    BY <2>3 DEF TrailRow
  <2>5. OtherTablesOK' /\ UNCHANGED <<events, open, reviewed>>
    BY <1>0, <1>10, <2>2, <2>4 DEF AuditFinding, OtherTablesOK, code
  <2>6. \E o \in Doing : Placed(o, events') /\ thread' = [thread EXCEPT ![c] = o]
    <3>1. CASE done = {code}
      <4>1. thread' = [thread EXCEPT ![c] = Idle]
        BY <1>10, <2>2, <3>1 DEF AuditFinding, code
      <4> QED BY <4>1, IdleTyped
    <3>2. CASE done # {code}
      <4>0. thread' = [thread EXCEPT ![c] =
                         [thread[c] EXCEPT !.done = thread[c].done \ {code}]]
        <5>1. thread' = [thread EXCEPT ![c] =
                 IF thread[c].done = {code} THEN Idle
                 ELSE [thread[c] EXCEPT !.done = thread[c].done \ {code}]]
          BY <1>10 DEF AuditFinding, code
        <5>2. thread[c].done # {code}
          BY <2>2, <3>2
        <5> QED BY <5>1, <5>2
      <4> DEFINE o == [pc |-> "audit", route |-> route, agent |-> a, task |-> t,
                       done |-> done \ {code}]
      <4>1. o \in Doing /\ Placed(o, events')
        BY <2>2, <2>3, <3>2 DEF Doing, Placed
      <4>2. thread[c] = [pc |-> "audit", route |-> route, agent |-> a, task |-> t,
                         done |-> done]
        BY <2>1, <2>2, DoingParts
      <4>3. [thread[c] EXCEPT !.done = thread[c].done \ {code}] = o
        BY <4>2
      <4> HIDE DEF o
      <4> QED BY <4>0, <4>1, <4>3
    <3> QED BY <3>1, <3>2
  <2> QED BY <1>3, <2>5, <2>6
<1>11. ASSUME NEW c \in Observer, Fail(c) PROVE WatchTypeOK'
  <2>1. thread[c].task \in Task /\ thread[c].agent \in Agent
    BY <1>11, AtWork, DoingParts DEF Fail
  <2>2. upsets' \in 0..MaxUpsets
    BY <1>0, <1>11, WatchAssumption DEF Fail, OtherTablesOK
  <2>3. OtherTablesOK' /\ UNCHANGED <<events, open, reviewed>>
    BY <1>0, <1>11, <2>1, <2>2 DEF Fail, OtherTablesOK
  <2> QED BY <1>3, <1>11, <2>1, <2>3, IdleTyped, FailingTyped DEF Fail
<1>12. ASSUME NEW c \in Observer, RecordFailure(c) PROVE WatchTypeOK'
  <2>1. thread[c].task \in Task /\ thread[c].agent \in Agent
    BY <1>12, AtWork, DoingParts DEF RecordFailure
  <2>2. [event |-> "failed", task |-> thread[c].task, agent |-> thread[c].agent]
          \in TrailRow
    BY <2>1 DEF TrailRow
  <2>3. OtherTablesOK' /\ UNCHANGED <<events, open, reviewed>>
    BY <1>0, <1>12, <2>2 DEF RecordFailure, OtherTablesOK
  <2> QED BY <1>3, <1>12, <2>3, IdleTyped DEF RecordFailure
<1>13. ASSUME NEW c \in Observer, Stop(c) PROVE WatchTypeOK'
  <2>1. thread[c].task \in Task
    BY <1>13, AtWork, DoingParts DEF Stop
  <2>2. upsets' \in 0..MaxUpsets
    BY <1>0, <1>13, WatchAssumption DEF Stop, OtherTablesOK
  <2>3. OtherTablesOK' /\ UNCHANGED <<events, open, reviewed>>
    BY <1>0, <1>13, <2>1, <2>2 DEF Stop, OtherTablesOK
  <2> QED BY <1>3, <1>13, <2>3, IdleTyped DEF Stop
<1>14. ASSUME NEW t \in Task, NEW code \in Code, NEW status \in Reviews,
              ReviewFinding(t, code, status)
       PROVE  WatchTypeOK'
  <2>1. /\ findings' = [findings EXCEPT ![t][code] = status]
        /\ reviewed' = [reviewed EXCEPT ![t][code] = Len(events[t])]
        /\ trail' = trail \cup {[event |-> "reviewed", task |-> t, code |-> code]}
        /\ upsets' = upsets + 1 /\ upsets < MaxUpsets
        /\ UNCHANGED <<clock, tasks, events, thread, open, unrecorded>>
    BY <1>14 DEF ReviewFinding
  <2>2. [event |-> "reviewed", task |-> t, code |-> code] \in TrailRow
    BY DEF TrailRow
  <2>3. findings' \in [Task -> [Code -> Reviews \cup {"none"}]]
    BY <1>0, <2>1 DEF OtherTablesOK
  <2>4. OtherTablesOK'
    BY <1>0, <2>1, <2>2, <2>3, WatchAssumption DEF OtherTablesOK
  <2>5. Len(events[t]) \in Nat
    BY <1>0 DEF EventTablesOK
  <2>6. reviewed' \in [Task -> [Code -> Nat]]
    BY <1>0, <2>1, <2>5 DEF EventTablesOK
  <2>7. \A u \in Task : reviewed'[u] \in [Code -> 0..Len(events'[u])]
    BY <1>0, <2>1, <2>5, ReviewedTyped DEF EventTablesOK
  <2>8. EventTablesOK' /\ ThreadsOK'
    BY <1>0, <2>1, <2>6, <2>7 DEF EventTablesOK, ThreadsOK
  <2> QED BY <2>4, <2>8, TypeParts
<1>15. CASE UNCHANGED watchVars
  BY <1>15 DEF watchVars, WatchTypeOK
<1>16. ASSUME NEW c \in Observer, NEW a \in Agent, NEW t \in Task,
              \/ \E k \in Outcomes : ObserveExecution(c, a, t, k)
              \/ \E k \in Reports : Ingest(c, a, t, k)
       PROVE  WatchTypeOK'
  <2>1. Outcomes \subseteq Kind /\ Reports \subseteq Kind
    BY WatchAssumption
  <2>2. {"execution", "report"} \subseteq Route
    BY DEF Route
  <2> QED BY <1>5, <1>16, <2>1, <2>2 DEF ObserveExecution, Ingest
<1> QED
  BY <1>1, <1>2, <1>4, <1>6, <1>7, <1>8, <1>9, <1>10, <1>11, <1>12, <1>13, <1>14,
    <1>15, <1>16 DEF WatchNext

-----------------------------------------------------------------------------
(* Whose a task is.                                                         *)

(* A task is never another agent's than it was.                             *)
OwnerKept ==
  \A t \in Task : tasks[t] # None =>
    tasks'[t] # None /\ tasks'[t].owner = tasks[t].owner

LEMMA OwnersStay ==
  ASSUME WatchTypeOK, WorkersOwn, [WatchNext]_watchVars
  PROVE  OwnerKept
<1>0. OtherTablesOK
  BY TypeParts
<1>1. ASSUME NEW a \in Agent, NEW t \in Task, NEW limits \in {Default, Asked},
             tasks' = Created(a, t, limits)
      PROVE  OwnerKept
  BY <1>0, <1>1, CreatedTyped DEF OwnerKept
<1>2. ASSUME NEW c \in Observer, RecordEvent(c) PROVE OwnerKept
  <2>1. PICK t \in Task :
          /\ tasks'[t] \in TaskRow /\ tasks'[t].owner = tasks[t].owner
          /\ \A u \in Task \ {t} : tasks'[u] = tasks[u]
    BY <1>2, RecordTyped
  <2> QED BY <2>1, WatchAssumption DEF OwnerKept
<1>3. CASE tasks' = tasks
  BY <1>3 DEF OwnerKept
<1> QED
  BY ZenonT(40), <1>1, <1>2, <1>3
  DEF WatchNext, watchVars, Pass, CreateTask, ObserveDecision, ObserveExecution,
    Ingest, Observe, Reread, Analyze, UpsertFinding, AuditFinding, Fail,
    RecordFailure, Stop, ReviewFinding

(* One observer's new work, for the owner of its task.                      *)
LEMMA OwnWork ==
  ASSUME WatchTypeOK, WorkersOwn, OwnerKept, NEW c \in Observer, NEW o,
         thread' = [thread EXCEPT ![c] = o],
         o.pc \in Working =>
           /\ o.task \in Task
           /\ tasks'[o.task] # None /\ tasks'[o.task].owner = o.agent
  PROVE  WorkersOwn'
<1>1. \A d \in Observer : thread'[d] = IF d = c THEN o ELSE thread[d]
  BY DEF WatchTypeOK
<1>2. \A d \in Observer : thread[d].pc \in Working => thread[d].task \in Task
  BY AtWork
<1> QED
  BY <1>1, <1>2 DEF WorkersOwn, Owned, OwnerKept

(* An observation goes on for the same task and agent.                      *)
LEMMA WorkGoesOn ==
  ASSUME WatchTypeOK, WorkersOwn, OwnerKept, NEW c \in Observer, NEW o,
         thread' = [thread EXCEPT ![c] = o], thread[c].pc \in Working,
         o.pc \in Working => o.task = thread[c].task /\ o.agent = thread[c].agent
  PROVE  WorkersOwn'
<1>1. thread[c].task \in Task
  BY AtWork
<1>2. tasks'[thread[c].task] # None /\ tasks'[thread[c].task].owner = thread[c].agent
  BY <1>1 DEF WorkersOwn, Owned, OwnerKept
<1> QED
  BY <1>1, <1>2, OwnWork

LEMMA WorkersOwnStep ==
  WatchTypeOK /\ WorkersOwn /\ [WatchNext]_watchVars => WorkersOwn'
<1> SUFFICES ASSUME WatchTypeOK, WorkersOwn, [WatchNext]_watchVars
             PROVE  WorkersOwn'
  OBVIOUS
<1>0. OwnerKept /\ OtherTablesOK /\ Idle.pc \notin Working
  BY OwnersStay, TypeParts DEF Idle, Working
<1>1. CASE thread' = thread
  BY <1>0, <1>1, AtWork DEF WorkersOwn, Owned, OwnerKept
<1>2. ASSUME NEW c \in Observer, NEW a \in Agent, NEW t \in Task,
             NEW k \in Decisions, ObserveDecision(c, a, t, k)
      PROVE  WorkersOwn'
  <2>1. tasks'[t] # None
    BY <1>0, <1>2, CreatedTyped DEF ObserveDecision
  <2>2. CASE tasks'[t].owner = a
    BY <1>0, <1>2, <2>1, <2>2, OwnWork DEF ObserveDecision, Started
  <2>3. CASE tasks'[t].owner # a
    <3> DEFINE o == [pc |-> "failing", task |-> t, agent |-> a]
    <3>1. thread' = [thread EXCEPT ![c] = o]
      BY <1>2, <2>3 DEF ObserveDecision
    <3>2. o.pc \notin Working
      BY DEF Working
    <3> HIDE DEF o
    <3> QED BY <1>0, <3>1, <3>2, OwnWork
  <2> QED BY <2>2, <2>3
<1>3. ASSUME NEW c \in Observer, NEW a \in Agent, NEW t \in Task, NEW k,
             NEW route, Observe(route, c, a, t, k)
      PROVE  WorkersOwn'
  BY <1>0, <1>3, OwnWork DEF Observe, Started, Owned
<1>4. ASSUME NEW c \in Observer, RecordEvent(c) \/ Reread(c) PROVE WorkersOwn'
  <2>1. thread[c].pc \in Working
    BY <1>4 DEF RecordEvent, Reread, Working
  <2>2. \E o : /\ thread' = [thread EXCEPT ![c] = o]
               /\ o.task = thread[c].task /\ o.agent = thread[c].agent
    BY <1>4 DEF RecordEvent, Reread
  <2> QED BY <1>0, <2>1, <2>2, WorkGoesOn
<1>5. ASSUME NEW c \in Observer, Analyze(c) \/ UpsertFinding(c) PROVE WorkersOwn'
  <2>1. thread[c].pc \in Working
    BY <1>5 DEF Analyze, UpsertFinding, Working
  <2>2. PICK todo, done : thread' = [thread EXCEPT ![c] = Persisting(thread[c], todo, done)]
    BY <1>5 DEF Analyze, UpsertFinding
  <2>3. LET o == Persisting(thread[c], todo, done)
        IN o.pc \in Working => o.task = thread[c].task /\ o.agent = thread[c].agent
    BY <1>0 DEF Persisting
  <2> QED BY <1>0, <2>1, <2>2, <2>3, WorkGoesOn
<1>6. ASSUME NEW c \in Observer, AuditFinding(c) PROVE WorkersOwn'
  <2>1. thread[c].pc \in Working
    BY <1>6 DEF AuditFinding, Working
  <2>2. PICK S : \/ thread' = [thread EXCEPT ![c] = Idle]
                 \/ thread' = [thread EXCEPT ![c] = [thread[c] EXCEPT !.done = S]]
    BY <1>6 DEF AuditFinding
  <2>3. /\ [thread[c] EXCEPT !.done = S].task = thread[c].task
        /\ [thread[c] EXCEPT !.done = S].agent = thread[c].agent
    <3>1. thread[c].pc = "audit" /\ thread[c] \in Doing
      BY <1>6, AtWork DEF AuditFinding
    <3>2. thread[c] = [pc |-> "audit", route |-> thread[c].route,
                       agent |-> thread[c].agent, task |-> thread[c].task,
                       done |-> thread[c].done]
      BY <3>1, DoingParts
    <3> QED BY <3>2
  <2> QED BY <1>0, <2>1, <2>2, <2>3, WorkGoesOn
<1>7. ASSUME NEW c \in Observer, Fail(c) \/ RecordFailure(c) \/ Stop(c)
      PROVE  WorkersOwn'
  <2>1. \E o : thread' = [thread EXCEPT ![c] = o] /\ o.pc \notin Working
    <3>1. [pc |-> "failing", task |-> thread[c].task, agent |-> thread[c].agent].pc
            \notin Working
      BY DEF Working
    <3> QED BY <1>0, <1>7, <3>1 DEF Fail, RecordFailure, Stop
  <2> QED BY <1>0, <2>1, OwnWork
<1> QED
  BY <1>1, <1>2, <1>3, <1>4, <1>5, <1>6, <1>7
  DEF WatchNext, watchVars, Pass, CreateTask, ObserveExecution, Ingest,
    ReviewFinding

(* An event is recorded by an observer that works for the owner.            *)
LEMMA EventsStep ==
  /\ WatchTypeOK /\ WorkersOwn /\ EventsBelongToOwner /\ [WatchNext]_watchVars
  => EventsBelongToOwner'
<1> SUFFICES ASSUME WatchTypeOK, WorkersOwn, EventsBelongToOwner,
                    [WatchNext]_watchVars, NEW t \in Task,
                    NEW i \in DOMAIN events'[t]
             PROVE  Owned(events[t][i].agent, t)'
  BY DEF EventsBelongToOwner
<1>0. OwnerKept
  BY OwnersStay
<1>1. ASSUME NEW c \in Observer, RecordEvent(c)
      PROVE  Owned(events[t][i].agent, t)'
  <2>1. PICK u \in Task, e \in Event :
          /\ u = thread[c].task /\ e.agent = thread[c].agent
          /\ events' = [events EXCEPT ![u] = Append(events[u], e)]
    BY <1>1, RecordTyped
  <2>2. tasks[u] # None /\ tasks[u].owner = e.agent
    BY <1>1, <2>1 DEF RecordEvent, WorkersOwn, Working, Owned
  <2>3. events[t] \in Seq(Event) /\ events[u] \in Seq(Event)
    BY DEF WatchTypeOK
  <2>4. \/ i \in DOMAIN events[t] /\ events'[t][i] = events[t][i]
        \/ u = t /\ events'[t][i] = e
    BY <2>1, <2>3 DEF WatchTypeOK
  <2> QED BY <1>0, <2>2, <2>4 DEF EventsBelongToOwner, Owned, OwnerKept
<1>2. CASE events' = events
  BY <1>0, <1>2 DEF EventsBelongToOwner, Owned, OwnerKept
<1> QED
  BY ZenonT(40), <1>1, <1>2
  DEF WatchNext, watchVars, Pass, CreateTask, ObserveDecision, ObserveExecution,
    Ingest, Observe, Reread, Analyze, UpsertFinding, AuditFinding, Fail,
    RecordFailure, Stop, ReviewFinding

-----------------------------------------------------------------------------
(* Findings and their records.                                              *)

(* An observer is still going to record a finding, or its failure.          *)
WillRecord(o, t, code, a) ==
  /\ o.pc \in {"persist", "audit", "failing"}
  /\ o.task = t /\ o.agent = a
  /\ o.pc = "failing" \/ code \in o.done

(* The trail tells of a finding, or why it does not.                        *)
Told(rows, lost, t, code, a) ==
  \/ [event |-> "observed", task |-> t, code |-> code] \in rows
  \/ [event |-> "failed", task |-> t, agent |-> a] \in rows
  \/ t \in lost

(* It does, or somebody is going to record the finding.                     *)
Recorded(rows, lost, observers, t, code, a) ==
  \/ Told(rows, lost, t, code, a)
  \/ \E d \in Observer : WillRecord(observers[d], t, code, a)

LEMMA OnRecord ==
  /\ FindingOnRecord <=>
       \A t \in Task, code \in Code : findings[t][code] # "none" =>
         Recorded(trail, unrecorded, thread, t, code, tasks[t].owner)
  /\ FindingOnRecord' <=>
       \A t \in Task, code \in Code : findings'[t][code] # "none" =>
         Recorded(trail', unrecorded', thread', t, code, tasks'[t].owner)
<1>1. \A rows, lost, observers, t, code, a :
        Recorded(rows, lost, observers, t, code, a) <=>
          \/ [event |-> "observed", task |-> t, code |-> code] \in rows
          \/ [event |-> "failed", task |-> t, agent |-> a] \in rows
          \/ t \in lost
          \/ \E d \in Observer :
               /\ observers[d].pc \in {"persist", "audit", "failing"}
               /\ observers[d].task = t /\ observers[d].agent = a
               /\ observers[d].pc = "failing" \/ code \in observers[d].done
  BY DEF Recorded, Told, WillRecord
<1> QED
  BY ZenonT(40), <1>1 DEF FindingOnRecord

(* One observer does something else; when it was going to record a finding, *)
(* it still is, or has.                                                     *)
LEMMA RecordStays ==
  ASSUME WatchTypeOK, OwnerKept, FindingsOfTasks, FindingOnRecord,
         NEW c \in Observer, NEW o, thread' = [thread EXCEPT ![c] = o],
         trail \subseteq trail', unrecorded \subseteq unrecorded',
         NEW t \in Task, NEW code \in Code, findings[t][code] # "none",
         NEW a, a = tasks[t].owner,
         WillRecord(thread[c], t, code, a) =>
           WillRecord(o, t, code, a) \/ Told(trail', unrecorded', t, code, a)
  PROVE  Recorded(trail', unrecorded', thread', t, code, tasks'[t].owner)
<1>1. tasks'[t].owner = a
  BY DEF OwnerKept, FindingsOfTasks
<1>2. \A d \in Observer : thread'[d] = IF d = c THEN o ELSE thread[d]
  BY DEF WatchTypeOK
<1>3. CASE Told(trail, unrecorded, t, code, a)
  BY <1>1, <1>3 DEF Told, Recorded
<1>4. CASE \E d \in Observer : WillRecord(thread[d], t, code, a)
  BY <1>1, <1>2, <1>4 DEF Recorded
<1>5. Recorded(trail, unrecorded, thread, t, code, a)
  BY OnRecord
<1> QED
  BY <1>3, <1>4, <1>5 DEF Recorded

LEMMA OnRecordStep ==
  /\ WatchTypeOK /\ WorkersOwn /\ FindingsOfTasks /\ FindingOnRecord
  /\ [WatchNext]_watchVars
  => FindingOnRecord' /\ FindingsOfTasks'
<1> SUFFICES ASSUME WatchTypeOK, WorkersOwn, FindingsOfTasks, FindingOnRecord,
                    [WatchNext]_watchVars
             PROVE  \A t \in Task, code \in Code : findings'[t][code] # "none" =>
                      /\ tasks'[t] # None
                      /\ Recorded(trail', unrecorded', thread', t, code,
                                  tasks'[t].owner)
  BY OnRecord DEF FindingsOfTasks
<1> TAKE t \in Task, code \in Code
<1> HAVE findings'[t][code] # "none"
<1> DEFINE Again == Recorded(trail', unrecorded', thread', t, code, tasks'[t].owner)
           a == tasks[t].owner
<1>0. OwnerKept
  BY OwnersStay
(* The findings that were there before stay on record.                      *)
<1>1. ASSUME findings[t][code] # "none", trail \subseteq trail',
             unrecorded \subseteq unrecorded', thread' = thread
      PROVE  Again
  <2>1. tasks'[t].owner = a
    BY <1>0, <1>1 DEF OwnerKept, FindingsOfTasks
  <2>2. Recorded(trail, unrecorded, thread, t, code, a)
    BY <1>1, OnRecord
  <2> QED BY <1>1, <2>1, <2>2 DEF Told, Recorded
<1>2. ASSUME findings[t][code] # "none", trail \subseteq trail',
             unrecorded \subseteq unrecorded', NEW c \in Observer, NEW o,
             thread' = [thread EXCEPT ![c] = o],
             WillRecord(thread[c], t, code, a) =>
               WillRecord(o, t, code, a) \/ Told(trail', unrecorded', t, code, a)
      PROVE  Again
  BY <1>0, <1>2, RecordStays
<1>3. CASE findings[t][code] # "none"
  <2>1. tasks'[t] # None
    BY <1>0, <1>3 DEF OwnerKept, FindingsOfTasks
  <2>2. ASSUME NEW c \in Observer, NEW o, thread' = [thread EXCEPT ![c] = o],
               thread[c].pc \in {"idle", "insert", "reread", "list"},
               UNCHANGED <<trail, unrecorded>>
        PROVE  Again
    BY <1>2, <1>3, <2>2 DEF WillRecord
  <2>3. ASSUME NEW c \in Observer, UpsertFinding(c) PROVE Again
    <3> DEFINE f == FirstOf(thread[c].todo)  done == thread[c].done \cup {f}
               p == Persisting(thread[c], thread[c].todo \ {f}, done)
    <3>1. /\ thread' = [thread EXCEPT ![c] = p]
          /\ UNCHANGED <<trail, unrecorded>>
      BY <2>3 DEF UpsertFinding
    <3>2. p.pc \in {"persist", "audit"} /\ p.task = thread[c].task
          /\ p.agent = thread[c].agent /\ p.done = done
      BY DEF Persisting
    <3>3. thread[c].pc = "persist"
      BY <2>3 DEF UpsertFinding
    <3> HIDE DEF p
    <3>4. WillRecord(thread[c], t, code, a) => WillRecord(p, t, code, a)
      BY <3>2, <3>3 DEF WillRecord
    <3> QED BY <1>2, <1>3, <3>1, <3>4
  <2>4. ASSUME NEW c \in Observer, AuditFinding(c) PROVE Again
    <3> DEFINE f == FirstOf(thread[c].done)
               row == [event |-> "observed", task |-> thread[c].task, code |-> f]
               o == IF thread[c].done = {f} THEN Idle
                    ELSE [thread[c] EXCEPT !.done = thread[c].done \ {f}]
    <3>1. /\ trail' = trail \cup {row} /\ unrecorded' = unrecorded
          /\ thread' = [thread EXCEPT ![c] = o]
      BY <2>4 DEF AuditFinding
    <3>2. thread[c].pc = "audit" /\ thread[c] \in Doing
      BY <2>4, AtWork DEF AuditFinding
    <3>3. ASSUME WillRecord(thread[c], t, code, a)
          PROVE  WillRecord(o, t, code, a) \/ Told(trail', unrecorded', t, code, a)
      <4>1. thread[c].task = t /\ thread[c].agent = a /\ code \in thread[c].done
        BY <3>2, <3>3 DEF WillRecord
      <4>2. CASE code = f
        BY <3>1, <4>1, <4>2 DEF Told
      <4>3. CASE code # f
        <5>1. o = [thread[c] EXCEPT !.done = thread[c].done \ {f}]
          BY <4>1, <4>3
        <5>2. thread[c] = [pc |-> "audit", route |-> thread[c].route,
                           agent |-> thread[c].agent, task |-> thread[c].task,
                           done |-> thread[c].done]
          BY <3>2, DoingParts
        <5>3. o.pc = "audit" /\ o.task = t /\ o.agent = a /\ code \in o.done
          <6> HIDE DEF o
          <6> QED BY <4>1, <4>3, <5>1, <5>2
        <5> QED BY <5>3 DEF WillRecord
      <4> QED BY <4>2, <4>3
    <3>4. trail \subseteq trail' /\ unrecorded \subseteq unrecorded'
      BY <3>1
    <3> HIDE DEF o
    <3> QED BY <1>2, <1>3, <3>1, <3>3, <3>4
  <2>5. ASSUME NEW c \in Observer, Fail(c) PROVE Again
    <3> DEFINE o == [pc |-> "failing", task |-> thread[c].task,
                     agent |-> thread[c].agent]
    <3>1. CASE thread[c].route = "report"
      <4>1. /\ thread' = [thread EXCEPT ![c] = Idle] /\ trail' = trail
            /\ unrecorded' = unrecorded \cup {thread[c].task}
        BY <2>5, <3>1 DEF Fail
      <4>2. WillRecord(thread[c], t, code, a) => Told(trail', unrecorded', t, code, a)
        BY <4>1 DEF WillRecord, Told
      <4> QED BY <1>2, <1>3, <4>1, <4>2
    <3>2. CASE thread[c].route # "report"
      <4>1. /\ thread' = [thread EXCEPT ![c] = o]
            /\ trail' = trail /\ unrecorded' = unrecorded
        BY <2>5, <3>2 DEF Fail
      <4>2. WillRecord(thread[c], t, code, a) => WillRecord(o, t, code, a)
        BY DEF WillRecord
      <4> HIDE DEF o
      <4> QED BY <1>2, <1>3, <4>1, <4>2
    <3> QED BY <3>1, <3>2
  <2>6. ASSUME NEW c \in Observer, RecordFailure(c) PROVE Again
    <3>1. /\ thread' = [thread EXCEPT ![c] = Idle] /\ unrecorded' = unrecorded
          /\ trail' = trail \cup {[event |-> "failed", task |-> thread[c].task,
                                   agent |-> thread[c].agent]}
      BY <2>6 DEF RecordFailure
    <3>2. WillRecord(thread[c], t, code, a) => Told(trail', unrecorded', t, code, a)
      BY <3>1 DEF WillRecord, Told
    <3> QED BY <1>2, <1>3, <3>1, <3>2
  <2>7. ASSUME NEW c \in Observer, Stop(c) PROVE Again
    <3>1. /\ thread' = [thread EXCEPT ![c] = Idle] /\ trail' = trail
          /\ unrecorded' = unrecorded \cup {thread[c].task}
      BY <2>7 DEF Stop
    <3>2. WillRecord(thread[c], t, code, a) => Told(trail', unrecorded', t, code, a)
      BY <3>1 DEF WillRecord, Told
    <3> QED BY <1>2, <1>3, <3>1, <3>2
  <2>8. ASSUME NEW c \in Observer, NEW b \in Agent, NEW u \in Task, NEW k, NEW route,
               ObserveDecision(c, b, u, k) \/ Observe(route, c, b, u, k)
        PROVE  Again
    <3>1. \E o : thread' = [thread EXCEPT ![c] = o]
      BY <2>8 DEF ObserveDecision, Observe
    <3>2. thread[c].pc = "idle" /\ UNCHANGED <<trail, unrecorded>>
      BY <2>8 DEF ObserveDecision, Observe, Free
    <3> QED BY <2>2, <3>1, <3>2
  <2>9. ASSUME NEW c \in Observer, RecordEvent(c) \/ Reread(c) \/ Analyze(c)
        PROVE  Again
    <3>1. \E o : thread' = [thread EXCEPT ![c] = o]
      BY <2>9 DEF RecordEvent, Reread, Analyze
    <3>2. /\ thread[c].pc \in {"insert", "reread", "list"}
          /\ UNCHANGED <<trail, unrecorded>>
      BY <2>9 DEF RecordEvent, Reread, Analyze
    <3> QED BY <2>2, <3>1, <3>2
  <2> HIDE DEF Again
  <2>10. ASSUME \/ Pass \/ UNCHANGED watchVars
                \/ \E b \in Agent, u \in Task : CreateTask(b, u)
                \/ \E u \in Task, k \in Code, s \in Reviews : ReviewFinding(u, k, s)
         PROVE  Again
    <3>1. thread' = thread /\ trail \subseteq trail' /\ unrecorded' = unrecorded
      BY <2>10 DEF watchVars, Pass, CreateTask, ReviewFinding
    <3> QED BY <1>1, <1>3, <3>1
  <2>11. Again
    BY <2>3, <2>4, <2>5, <2>6, <2>7, <2>8, <2>9, <2>10
    DEF WatchNext, ObserveExecution, Ingest
  <2> QED BY <2>1, <2>11 DEF Again
(* A finding that is new was persisted by an observer that will record it.  *)
<1>4. CASE findings[t][code] = "none"
  <2>1. PICK c \in Observer : UpsertFinding(c) /\ thread[c].task = t
    <3>1. findings' # findings
      BY <1>4
    <3>2. CASE \E u \in Task, k \in Code, status \in Reviews :
                  ReviewFinding(u, k, status)
      BY <1>4, <3>2 DEF ReviewFinding, WatchTypeOK
    <3>3. CASE \E c \in Observer : UpsertFinding(c)
      <4>1. PICK c \in Observer : UpsertFinding(c)
        BY <3>3
      <4>2. thread[c].task = t
        BY <1>4, <4>1 DEF UpsertFinding, WatchTypeOK
      <4> QED BY <4>1, <4>2
    <3> QED
      BY ZenonT(40), <3>1, <3>2, <3>3
      DEF WatchNext, watchVars, Pass, CreateTask, ObserveDecision,
        ObserveExecution, Ingest, Observe, RecordEvent, Reread, Analyze,
        AuditFinding, Fail, RecordFailure, Stop
  <2> DEFINE f == FirstOf(thread[c].todo)  done == thread[c].done \cup {f}
             p == Persisting(thread[c], thread[c].todo \ {f}, done)
  <2>2. f = code
    BY <1>4, <2>1 DEF UpsertFinding, WatchTypeOK
  <2>3. p.pc \in {"persist", "audit"} /\ p.task = t
        /\ p.agent = thread[c].agent /\ p.done = done
    BY <2>1 DEF Persisting
  <2>4. thread'[c] = p /\ tasks' = tasks
    BY <2>1 DEF UpsertFinding, WatchTypeOK
  <2>5. tasks[t] # None /\ tasks[t].owner = thread[c].agent
    BY <2>1 DEF UpsertFinding, WorkersOwn, Working, Owned
  <2> HIDE DEF p
  <2>6. WillRecord(thread'[c], t, code, tasks'[t].owner)
    BY <2>2, <2>3, <2>4, <2>5 DEF WillRecord
  <2> QED BY <2>4, <2>5, <2>6 DEF Recorded
<1> QED
  BY <1>3, <1>4

-----------------------------------------------------------------------------
(* What holds of every behaviour.                                           *)

LEMMA WatchInvInit == WatchInit => WatchInv
<1> SUFFICES ASSUME WatchInit PROVE WatchInv
  OBVIOUS
<1>1. WorkersOwn
  BY DEF WatchInit, WorkersOwn, Idle, Working
<1>2. EventsBelongToOwner /\ FindingsOfTasks /\ FindingOnRecord
  BY DEF WatchInit, EventsBelongToOwner, FindingsOfTasks, FindingOnRecord
<1> QED
  BY <1>1, <1>2, WatchTypeInit DEF WatchInv

LEMMA WatchInvStep == WatchInv /\ [WatchNext]_watchVars => WatchInv'
  BY WatchTypeStep, WorkersOwnStep, EventsStep, OnRecordStep DEF WatchInv

LEMMA WatchInvariant == WatchSpec => []WatchInv
  BY WatchInvInit, WatchInvStep, PTL DEF WatchSpec

(* THEOREM: the tables, the trail and every observer always hold the values *)
(* that the code uses; an observer knows of no event that is not there.     *)
THEOREM WatchTypeCorrect == WatchSpec => []WatchTypeOK
<1>1. WatchInv => WatchTypeOK
  BY DEF WatchInv
<1> QED
  BY <1>1, WatchInvariant, PTL

(* THEOREM: however many agents use one task id at the same moment, all the *)
(* events of a task are of the agent that owns it.                          *)
THEOREM EventsAreOwners == WatchSpec => []EventsBelongToOwner
<1>1. WatchInv => EventsBelongToOwner
  BY DEF WatchInv
<1> QED
  BY <1>1, WatchInvariant, PTL

(* THEOREM: a finding has its audit row, or an observer is going to write   *)
(* it, or the trail tells of a failure, or an agent's own report failed or  *)
(* the process stopped.                                                     *)
THEOREM FindingsAreOnRecord == WatchSpec => []FindingOnRecord
<1>1. WatchInv => FindingOnRecord
  BY DEF WatchInv
<1> QED
  BY <1>1, WatchInvariant, PTL

-----------------------------------------------------------------------------
(* Events in the order of their stamps.                                     *)

(* Finitely many events, no two of them with one stamp.                     *)
Stampeds(es) ==
  /\ IsFiniteSet(es)
  /\ \A e \in es : e.at \in Nat
  /\ \A e, f \in es : e.at = f.at => e = f

EarlierIn(es, e) == {f \in es : f.at < e.at}

(* The later of two events has more events before it.                       *)
LEMMA RanksGrow ==
  ASSUME NEW es, Stampeds(es), NEW e \in es
  PROVE  /\ IsFiniteSet(EarlierIn(es, e))
         /\ Cardinality(EarlierIn(es, e)) \in 0..(Cardinality(es) - 1)
         /\ \A f \in es : e.at < f.at =>
              Cardinality(EarlierIn(es, e)) < Cardinality(EarlierIn(es, f))
<1>1. /\ IsFiniteSet(es \ {e}) /\ Cardinality(es \ {e}) = Cardinality(es) - 1
      /\ Cardinality(es) \in Nat
  BY FS_RemoveElement, FS_CardinalityType DEF Stampeds
<1>2. EarlierIn(es, e) \in SUBSET (es \ {e})
  BY DEF EarlierIn, Stampeds
<1>3. /\ IsFiniteSet(EarlierIn(es, e)) /\ Cardinality(EarlierIn(es, e)) \in Nat
      /\ Cardinality(EarlierIn(es, e)) <= Cardinality(es) - 1
  BY <1>1, <1>2, FS_Subset, FS_CardinalityType
<1>4. ASSUME NEW f \in es, e.at < f.at
      PROVE  Cardinality(EarlierIn(es, e)) < Cardinality(EarlierIn(es, f))
  <2>1. e \notin EarlierIn(es, e)
    BY DEF EarlierIn, Stampeds
  <2>2. /\ IsFiniteSet(EarlierIn(es, e) \cup {e})
        /\ Cardinality(EarlierIn(es, e) \cup {e}) = Cardinality(EarlierIn(es, e)) + 1
    BY <1>3, <2>1, FS_AddElement
  <2>3. EarlierIn(es, e) \cup {e} \in SUBSET EarlierIn(es, f)
    BY <1>4 DEF EarlierIn, Stampeds
  <2>4. EarlierIn(es, f) \in SUBSET es
    BY DEF EarlierIn
  <2>5. IsFiniteSet(EarlierIn(es, f)) /\ Cardinality(EarlierIn(es, f)) \in Nat
    BY <2>4, FS_Subset, FS_CardinalityType DEF Stampeds
  <2>6. Cardinality(EarlierIn(es, e) \cup {e}) <= Cardinality(EarlierIn(es, f))
    BY <2>3, <2>5, FS_Subset
  <2> QED BY <1>3, <2>2, <2>5, <2>6
<1> QED
  BY <1>1, <1>3, <1>4

(* There is an event in each place, and one only.                           *)
LEMMA OneInPlace ==
  ASSUME NEW es, Stampeds(es), NEW n \in 0..(Cardinality(es) - 1)
  PROVE  /\ Nth(es, n) \in es /\ Cardinality(EarlierIn(es, Nth(es, n))) = n
         /\ \A e \in es : Cardinality(EarlierIn(es, e)) = n => e = Nth(es, n)
<1> DEFINE rank == [e \in es |-> Cardinality(EarlierIn(es, e))]
           places == 0..(Cardinality(es) - 1)
<1>1. Cardinality(es) \in Nat /\ IsFiniteSet(es)
  BY FS_CardinalityType DEF Stampeds
<1>2. rank \in [es -> places]
  BY RanksGrow
<1>3. \A e, f \in es : rank[e] = rank[f] => e = f
  <2> SUFFICES ASSUME NEW e \in es, NEW f \in es, rank[e] = rank[f] PROVE e = f
    OBVIOUS
  <2>1. rank[e] = Cardinality(EarlierIn(es, e)) /\ rank[f] = Cardinality(EarlierIn(es, f))
    OBVIOUS
  <2>2. ~(e.at < f.at) /\ ~(f.at < e.at)
    <3>1. rank[e] \in Nat /\ rank[f] \in Nat
      BY <1>2
    <3>2. e.at < f.at => rank[e] < rank[f]
      BY <2>1, RanksGrow
    <3>3. f.at < e.at => rank[f] < rank[e]
      BY <2>1, RanksGrow
    <3> HIDE DEF rank
    <3> QED BY <3>1, <3>2, <3>3
  <2> QED BY <2>2 DEF Stampeds
<1>4. IsFiniteSet(places) /\ Cardinality(places) = Cardinality(es)
  BY <1>1, FS_Interval
<1>5. rank \in Injection(es, places)
  <2> HIDE DEF rank, places
  <2> QED BY <1>2, <1>3 DEF Injection, IsInjective
<1>6. rank \in Surjection(es, places)
  <2> HIDE DEF rank, places
  <2> QED BY <1>1, <1>4, <1>5, FS_Injection
<1>7. \E e \in es : rank[e] = n
  <2> n \in places
    OBVIOUS
  <2> HIDE DEF rank, places
  <2> QED BY <1>6 DEF Surjection
<1>8. \E e \in es : Cardinality(EarlierIn(es, e)) = n
  BY <1>7
<1>9. Nth(es, n) \in es /\ Cardinality(EarlierIn(es, Nth(es, n))) = n
  BY <1>8 DEF Nth, EarlierIn
<1>10. ASSUME NEW e \in es, Cardinality(EarlierIn(es, e)) = n
       PROVE  e = Nth(es, n)
  <2>1. rank[e] = n /\ rank[Nth(es, n)] = n
    BY <1>9, <1>10
  <2> QED BY <1>3, <1>9, <2>1
<1> QED
  BY <1>9, <1>10

(* The events from a time on are the last ones.                             *)
LEMMA LastOnes ==
  ASSUME NEW es, Stampeds(es), NEW m \in Nat,
         NEW late, late = {e \in es : e.at >= m}
  PROVE  /\ Stampeds(late)
         /\ Cardinality(es) - Cardinality(late) \in Nat
         /\ Cardinality(late) \in Nat /\ Cardinality(es) \in Nat
         /\ \A i \in 1..Cardinality(late) :
              Nth(late, i - 1) = Nth(es, Cardinality(es) - Cardinality(late) + i - 1)
<1> DEFINE d == Cardinality(es) - Cardinality(late)
<1>1. /\ late \in SUBSET es /\ IsFiniteSet(es)
  BY DEF Stampeds
<1>2. /\ IsFiniteSet(late) /\ Cardinality(late) \in Nat /\ Cardinality(es) \in Nat
      /\ Cardinality(late) <= Cardinality(es)
  BY <1>1, FS_Subset, FS_CardinalityType
<1>3. Stampeds(late)
  BY <1>2 DEF Stampeds
<1>4. d \in Nat
  BY <1>2
<1>5. /\ IsFiniteSet(es \ late) /\ Cardinality(es \ late) = d
  <2>1. es \cap late = late
    BY <1>1
  <2>2. PICK gone : gone = es \ late
    OBVIOUS
  <2>3. IsFiniteSet(gone) /\ Cardinality(gone) = Cardinality(es) - Cardinality(es \cap late)
    BY <1>1, <2>2, FS_Difference
  <2> QED BY <2>1, <2>2, <2>3
<1>6. ASSUME NEW i \in 1..Cardinality(late)
      PROVE  Nth(late, i - 1) = Nth(es, d + i - 1)
  <2>1. i - 1 \in 0..(Cardinality(late) - 1)
    BY <1>2
  <2>2. PICK e \in late : e = Nth(late, i - 1) /\ Cardinality(EarlierIn(late, e)) = i - 1
    <3>1. PICK n \in 0..(Cardinality(late) - 1) : n = i - 1
      BY <2>1
    <3>2. Nth(late, n) \in late /\ Cardinality(EarlierIn(late, Nth(late, n))) = n
      BY <1>3, OneInPlace
    <3> QED BY <3>1, <3>2
  <2>3. /\ EarlierIn(es, e) = EarlierIn(late, e) \cup (es \ late)
        /\ EarlierIn(late, e) \cap (es \ late) = {}
    <3>1. \A f \in es \ late : f.at < e.at
      <4>1. e.at >= m /\ e.at \in Nat
        BY <1>1, <2>2 DEF Stampeds
      <4>2. \A f \in es \ late : f.at < m /\ f.at \in Nat
        BY DEF Stampeds
      <4> QED BY <4>1, <4>2
    <3>2. late \subseteq es
      BY <1>1
    <3> QED BY <3>1, <3>2 DEF EarlierIn
  <2>4. IsFiniteSet(EarlierIn(late, e))
    BY <1>3, RanksGrow
  <2>5. Cardinality(EarlierIn(es, e)) = (i - 1) + d - Cardinality({})
    <3>1. PICK one : one = EarlierIn(late, e)
      OBVIOUS
    <3>2. PICK two : two = es \ late
      OBVIOUS
    <3>3. IsFiniteSet(one) /\ IsFiniteSet(two)
      BY <1>5, <2>4, <3>1, <3>2
    <3>4. Cardinality(one \cup two)
            = Cardinality(one) + Cardinality(two) - Cardinality(one \cap two)
      BY <3>3, FS_Union
    <3> QED BY <1>5, <2>2, <2>3, <3>1, <3>2, <3>4
  <2>6. Cardinality(EarlierIn(es, e)) = d + i - 1
    BY <1>4, <2>5, FS_EmptySet
  <2>7. d + i - 1 \in 0..(Cardinality(es) - 1)
    BY <1>2, <1>4
  <2> HIDE DEF d
  <2> QED BY <1>1, <2>2, <2>6, <2>7, OneInPlace
<1> QED
  BY <1>2, <1>3, <1>4, <1>6

LEMMA LengthIs ==
  ASSUME NEW n \in Nat, NEW s, DOMAIN s = 1..n
  PROVE  Len(s) = n
  OBVIOUS

-----------------------------------------------------------------------------
(* Cycles.                                                                  *)

Named(es) == {e \in es : FpOf(e) # None}

LEMMA FingerprintsAre ==
  ASSUME NEW es, Stampeds(es)
  PROVE  /\ Stampeds(Named(es)) /\ Cardinality(Named(es)) \in Nat
         /\ Len(Fingerprints(es)) = Cardinality(Named(es))
         /\ DOMAIN Fingerprints(es) = 1..Cardinality(Named(es))
         /\ \A i \in 1..Cardinality(Named(es)) :
              Fingerprints(es)[i] = FpOf(Nth(Named(es), i - 1))
<1>1. Named(es) \in SUBSET es
  BY DEF Named
<1>2. Stampeds(Named(es)) /\ Cardinality(Named(es)) \in Nat
  BY <1>1, FS_Subset, FS_CardinalityType DEF Stampeds
<1>3. Fingerprints(es) = [i \in 1..Cardinality(Named(es)) |-> FpOf(Nth(Named(es), i - 1))]
  BY DEF Fingerprints, Named
<1>4. DOMAIN Fingerprints(es) = 1..Cardinality(Named(es))
  BY <1>3
<1> QED
  BY <1>2, <1>3, <1>4, LengthIs

(* The fingerprints of the events from a time on are the last ones.         *)
LEMMA LastFingerprints ==
  ASSUME NEW es, Stampeds(es), NEW m \in Nat,
         NEW late, late = {e \in es : e.at >= m}
  PROVE  /\ Stampeds(late)
         /\ Len(Fingerprints(es)) - Len(Fingerprints(late)) \in Nat
         /\ Len(Fingerprints(late)) \in Nat /\ Len(Fingerprints(es)) \in Nat
         /\ \A i \in 1..Len(Fingerprints(late)) :
              Fingerprints(late)[i] =
                Fingerprints(es)[Len(Fingerprints(es)) - Len(Fingerprints(late)) + i]
<1>1. Stampeds(late)
  BY LastOnes
<1>2. Named(late) = {e \in Named(es) : e.at >= m}
  BY DEF Named
<1> DEFINE k == Cardinality(Named(late))  n == Cardinality(Named(es))
<1>3. /\ n - k \in Nat /\ k \in Nat /\ n \in Nat
      /\ \A i \in 1..k : Nth(Named(late), i - 1) = Nth(Named(es), n - k + i - 1)
  BY <1>2, FingerprintsAre, LastOnes
<1>4. /\ Len(Fingerprints(es)) = n /\ Len(Fingerprints(late)) = k
      /\ \A i \in 1..k : Fingerprints(late)[i] = FpOf(Nth(Named(late), i - 1))
      /\ \A i \in 1..n : Fingerprints(es)[i] = FpOf(Nth(Named(es), i - 1))
  BY <1>1, FingerprintsAre
<1> HIDE DEF k, n
<1>5. ASSUME NEW i \in 1..k PROVE Fingerprints(late)[i] = Fingerprints(es)[n - k + i]
  <2>1. n - k + i \in 1..n /\ n - k + i - 1 = (n - k + i) - 1
    BY <1>3
  <2>2. Fingerprints(es)[n - k + i] = FpOf(Nth(Named(es), (n - k + i) - 1))
    BY <1>4, <2>1
  <2> QED BY <1>3, <1>4, <2>1, <2>2
<1> QED
  BY <1>1, <1>3, <1>4, <1>5

(* The last p of n fingerprints repeat a pattern of len.                    *)
Cycle(s, n, len, p) ==
  /\ p <= n
  /\ \A i \in (n - p + 1)..(n - len) : s[i] = s[i + len]
  /\ \E i \in (n - len + 1)..n : s[i] # s[n]

LEMMA CyclicIs ==
  ASSUME NEW s, NEW n
  PROVE  Cyclic(s, n) <=> \E len \in 2..6 : Cycle(s, Len(s), len, len * n)
  BY DEF Cyclic, Cycle

(* The length of a cycle, and of what it repeats.                           *)
LEMMA CycleLength ==
  ASSUME NEW len \in 2..6, NEW n \in Nat \ {0}
  PROVE  len * n \in Nat /\ len * n >= len /\ (len * n) \div n = len
<1>1. len = 2 \/ len = 3 \/ len = 4 \/ len = 5 \/ len = 6
  OBVIOUS
<1>2. (len * n) \div n = len
  OBVIOUS
<1> QED
  BY <1>1, <1>2

(* What ends with a cycle has one.                                          *)
LEMMA LongerIsCyclic ==
  ASSUME NEW s, NEW z, Len(s) \in Nat, Len(z) \in Nat, Len(s) - Len(z) \in Nat,
         \A i \in 1..Len(z) : z[i] = s[Len(s) - Len(z) + i],
         NEW n \in Nat \ {0}, Cyclic(z, n)
  PROVE  Cyclic(s, n)
<1>1. PICK len \in 2..6 : Cycle(z, Len(z), len, len * n)
  BY CyclicIs
<1>2. PICK p \in Nat : p = len * n /\ p >= len
  BY CycleLength
<1>3. PICK k \in Nat : k = Len(z)
  OBVIOUS
<1>4. PICK d \in Nat : d = Len(s) - k
  BY <1>3
<1>5. \A i \in 1..k : z[i] = s[d + i]
  BY <1>3, <1>4
<1>9. Len(s) = d + k /\ Cycle(z, k, len, p)
  BY <1>1, <1>2, <1>3, <1>4
<1>10. /\ p <= k
       /\ \A i \in (k - p + 1)..(k - len) : z[i] = z[i + len]
       /\ \E i \in (k - len + 1)..k : z[i] # z[k]
  BY <1>9 DEF Cycle
<1>6. ASSUME NEW i \in (d + k - p + 1)..(d + k - len) PROVE s[i] = s[i + len]
  <2>1. i - d \in (k - p + 1)..(k - len) /\ i - d \in 1..k /\ i - d + len \in 1..k
    BY <1>2, <1>10
  <2>2. z[i - d] = z[i - d + len]
    BY <1>10, <2>1
  <2>3. d + (i - d) = i /\ d + (i - d + len) = i + len
    OBVIOUS
  <2> QED BY <1>5, <2>1, <2>2, <2>3
<1>7. \E i \in (d + k - len + 1)..(d + k) : s[i] # s[d + k]
  <2>1. PICK i \in (k - len + 1)..k : z[i] # z[k]
    BY <1>10
  <2>2. i \in 1..k /\ k \in 1..k /\ d + i \in (d + k - len + 1)..(d + k)
    BY <1>2, <1>10
  <2> QED BY <1>5, <2>1, <2>2
<1>8. p <= d + k
  BY <1>10
<1>11. Cycle(s, d + k, len, p)
  BY <1>6, <1>7, <1>8 DEF Cycle
<1>12. Cycle(s, Len(s), len, len * n)
  BY <1>2, <1>9, <1>11
<1> QED
  BY <1>12, CyclicIs

(* A sequence that repeats what is len places before repeats its first len. *)
LEMMA Periodic ==
  ASSUME NEW len \in 2..6, NEW p \in Nat, NEW z,
         \A i \in 1..(p - len) : z[i] = z[i + len]
  PROVE  \A i \in 1..p : z[i] = z[((i - 1) % len) + 1]
<1> DEFINE Bad == {i \in 1..p : z[i] # z[((i - 1) % len) + 1]}
<1> SUFFICES ASSUME Bad # {} PROVE FALSE
  OBVIOUS
<1>1. Bad \in SUBSET Nat
  OBVIOUS
<1>2. PICK i \in Bad : \A j \in Bad : i <= j
  BY <1>1, LeastNumber
<1>3. CASE i <= len
  <2>1. (i - 1) % len = i - 1
    <3>1. i - 1 \in Nat /\ i - 1 < len
      BY <1>2, <1>3
    <3>2. len = 2 \/ len = 3 \/ len = 4 \/ len = 5 \/ len = 6
      OBVIOUS
    <3> QED BY <3>1, <3>2
  <2> QED BY <1>2, <2>1
<1>4. CASE i > len
  <2>1. i - len \in 1..(p - len) /\ ~(i <= i - len) /\ i \in Nat
    BY <1>2, <1>4
  <2>2. z[i - len] = z[i]
    BY <2>1
  <2>3. z[i - len] = z[((i - len - 1) % len) + 1]
    BY <1>2, <2>1
  <2>4. (i - len - 1) % len = (i - 1) % len
    <3>1. i - len - 1 \in Nat /\ i - 1 \in Nat
      BY <2>1
    <3>2. len = 2 \/ len = 3 \/ len = 4 \/ len = 5 \/ len = 6
      OBVIOUS
    <3> QED BY <3>1, <3>2
  <2> QED BY <1>2, <2>2, <2>3, <2>4
<1> QED
  BY <1>1, <1>2, <1>3, <1>4

(* A longer list does not hide the cycle of its end.                        *)
LEMMA CycleStays ==
  ASSUME NEW es, Stampeds(es), NEW m \in Nat,
         NEW late, late = {e \in es : e.at >= m},
         NEW n \in Nat \ {0}, Cyclic(Fingerprints(late), n)
  PROVE  Cyclic(Fingerprints(es), n)
<1>1. PICK s, z : s = Fingerprints(es) /\ z = Fingerprints(late)
  OBVIOUS
<1>2. /\ Len(s) - Len(z) \in Nat /\ Len(z) \in Nat /\ Len(s) \in Nat
      /\ \A i \in 1..Len(z) : z[i] = s[Len(s) - Len(z) + i]
  BY <1>1, LastFingerprints
<1> QED
  BY <1>1, <1>2, LongerIsCyclic

(* The calls of a cycle are those from one of them on: their fingerprints   *)
(* are a pattern of several, repeated.                                      *)
Cycling(s, n) ==
  LET len == Len(s) \div n
  IN /\ s = [i \in 1..(len * n) |-> s[((i - 1) % len) + 1]]
     /\ Cardinality(Range(s)) > 1

LEMMA CycleFrom ==
  ASSUME NEW es, Stampeds(es), NEW n \in Nat \ {0}, Cyclic(Fingerprints(es), n)
  PROVE  \E e \in Named(es) : Cycling(Fingerprints({f \in es : f.at >= e.at}), n)
<1>1. PICK s : s = Fingerprints(es)
  OBVIOUS
<1>2. PICK k \in Nat : k = Cardinality(Named(es)) /\ k = Len(s)
  BY <1>1, FingerprintsAre
<1>3. PICK len \in 2..6 : Cycle(s, k, len, len * n)
  BY <1>1, <1>2, CyclicIs
<1>4. PICK p \in Nat : p = len * n /\ p >= len /\ p \div n = len
  BY CycleLength
<1>5. /\ p <= k /\ p > 1
      /\ \A i \in (k - p + 1)..(k - len) : s[i] = s[i + len]
      /\ \E i \in (k - len + 1)..k : s[i] # s[k]
  BY <1>3, <1>4 DEF Cycle
<1>6. k - p \in 0..(k - 1)
  BY <1>5
<1>7. PICK e \in Named(es) : Cardinality(EarlierIn(Named(es), e)) = k - p
  <2>1. PICK named, n0 : named = Named(es) /\ n0 = k - p
    OBVIOUS
  <2>2. Stampeds(named) /\ Cardinality(named) = k /\ n0 \in 0..(Cardinality(named) - 1)
    BY <1>2, <1>6, <2>1, FingerprintsAre
  <2>3. Nth(named, n0) \in named /\ Cardinality(EarlierIn(named, Nth(named, n0))) = n0
    BY <2>2, OneInPlace
  <2> QED BY <2>1, <2>3
<1>8. PICK late : late = {f \in es : f.at >= e.at}
  OBVIOUS
<1>9. PICK m \in Nat : m = e.at
  BY <1>7 DEF Named, Stampeds
<1>10. Stampeds(late) /\ Cardinality(Named(late)) = p
  <2>1. Stampeds(late)
    BY <1>8, <1>9, LastOnes
  <2>2. PICK early : early = EarlierIn(Named(es), e)
    OBVIOUS
  <2>3. early \cap Named(es) = early
    BY <2>2 DEF EarlierIn
  <2>4. Named(late) = Named(es) \ early
    <3>1. \A f \in es : f.at \in Nat
      BY DEF Stampeds
    <3>2. \A f \in es : ~(f.at < m) <=> f.at >= m
      BY <3>1
    <3> QED BY <1>8, <1>9, <2>2, <3>2 DEF EarlierIn, Named
  <2>5. IsFiniteSet(Named(es))
    BY FingerprintsAre DEF Stampeds
  <2>6. Cardinality(Named(es) \ early) = k - (k - p)
    <3>1. Named(es) \cap early = early
      BY <2>3
    <3>2. Cardinality(Named(es) \ early)
            = Cardinality(Named(es)) - Cardinality(Named(es) \cap early)
      BY <2>5, FS_Difference
    <3> QED BY <1>2, <1>7, <2>2, <3>1, <3>2
  <2> QED BY <2>1, <2>4, <2>6
<1>11. PICK z : z = Fingerprints(late)
  OBVIOUS
<1>12. /\ DOMAIN z = 1..p /\ Len(z) = p
       /\ z = [i \in 1..p |-> z[i]]
       /\ \A i \in 1..p : z[i] = s[k - p + i]
  <2>1. DOMAIN z = 1..p /\ Len(z) = p
    BY <1>10, <1>11, FingerprintsAre
  <2>2. \A i \in 1..Len(z) : z[i] = s[Len(s) - Len(z) + i]
    BY <1>1, <1>8, <1>9, <1>11, LastFingerprints
  <2>3. z = [i \in DOMAIN z |-> z[i]]
    BY <1>11 DEF Fingerprints
  <2> QED BY <1>2, <2>1, <2>2, <2>3
<1>13. ASSUME NEW i \in 1..(p - len) PROVE z[i] = z[i + len]
  <2>1. /\ k - p + i \in (k - p + 1)..(k - len) /\ i \in 1..p /\ i + len \in 1..p
        /\ k - p + (i + len) = k - p + i + len
    BY <1>5
  <2> QED BY <1>5, <1>12, <2>1
<1>14. \A i \in 1..p : z[i] = z[((i - 1) % len) + 1]
  BY <1>13, Periodic
<1>15. z = [i \in 1..p |-> z[((i - 1) % len) + 1]]
  BY <1>12, <1>14
<1>16. Cardinality(Range(z)) > 1
  <2>1. PICK i \in (k - len + 1)..k : s[i] # s[k]
    BY <1>5
  <2>2. /\ i - (k - p) \in 1..p /\ p \in 1..p
        /\ k - p + (i - (k - p)) = i /\ k - p + p = k
    BY <1>4, <1>5
  <2>3. PICK j \in 1..p : z[j] # z[p]
    BY <1>12, <2>1, <2>2
  <2>4. {z[j], z[p]} \in SUBSET Range(z)
    BY <1>12, <2>2 DEF Range
  <2>5. IsFiniteSet(Range(z)) /\ Cardinality(Range(z)) \in Nat
    <3>1. z \in Surjection(1..p, Range(z))
      BY <1>12 DEF Surjection, Range
    <3>2. IsFiniteSet(1..p)
      BY FS_Interval
    <3> QED BY <3>1, <3>2, FS_Surjection, FS_CardinalityType
  <2>6. Cardinality({z[j], z[p]}) = 2
    <3>1. IsFiniteSet({z[j]}) /\ Cardinality({z[j]}) = 1
      BY FS_Singleton
    <3>2. {z[j]} \cup {z[p]} = {z[j], z[p]} /\ z[p] \notin {z[j]}
      BY <2>3
    <3>3. Cardinality({z[j]} \cup {z[p]}) = 1 + 1
      BY <3>1, <3>2, FS_AddElement
    <3> QED BY <3>2, <3>3
  <2>7. Cardinality({z[j], z[p]}) <= Cardinality(Range(z))
    BY <2>4, <2>5, FS_Subset
  <2> QED BY <2>5, <2>6, <2>7
<1>17. Cycling(z, n)
  <2>1. Len(z) \div n = len /\ len * n = p
    BY <1>4, <1>12
  <2> QED BY <1>15, <1>16, <2>1 DEF Cycling
<1> QED
  BY <1>8, <1>11, <1>17

-----------------------------------------------------------------------------
(* Sums.  What follows is what induction over finite sets says of           *)
(* MapThenSumSet, with the least counterexample in place of the induction   *)
(* theorems.                                                                *)

(* Finitely many events, and what they cost                                 *)
EventSets == {s \in SUBSET Event : IsFiniteSet(s)}

Cost(e) == e.kind.cost

CostOf(es) == MapThenSumSet(LAMBDA e : e.kind.cost, es)

Chosen(s) == CHOOSE e \in s : TRUE

(* A function that adds the costs of the sets of a family up                *)
AddsUp(g, family) ==
  g = [s \in family |-> IF s = {} THEN 0 ELSE Cost(Chosen(s)) + g[s \ {Chosen(s)}]]

UpTo(T, k) == {s \in SUBSET T : Cardinality(s) <= k}

(* Taking an event away makes a set smaller.                                *)
LEMMA FewerEvents ==
  ASSUME NEW s \in EventSets
  PROVE  /\ s \subseteq Event /\ SUBSET s \subseteq EventSets
         /\ IsFiniteSet(s) /\ Cardinality(s) \in Nat
         /\ Cardinality(s) = 0 <=> s = {}
         /\ \A e \in s : /\ Cost(e) \in Nat
                         /\ Cardinality(s \ {e}) = Cardinality(s) - 1
         /\ s # {} => Chosen(s) \in s
<1>1. s \subseteq Event /\ IsFiniteSet(s)
  BY DEF EventSets
<1>2. Cardinality(s) \in Nat /\ (Cardinality(s) = 0 <=> s = {})
  BY <1>1, FS_CardinalityType, FS_EmptySet
<1>3. \A e \in s : Cardinality(s \ {e}) = Cardinality(s) - 1
  BY <1>1, FS_RemoveElement
<1>4. SUBSET s \subseteq EventSets
  BY <1>1, FS_Subset DEF EventSets
<1>5. \A e \in Event : Cost(e) \in Nat
  BY DEF Cost, Event, Kind
<1> QED
  BY <1>1, <1>2, <1>3, <1>4, <1>5 DEF Chosen

(* There is such a function for every family of small sets, and so for all. *)
LEMMA SmallSums ==
  ASSUME NEW T \in EventSets, NEW n \in Nat
  PROVE  \E g \in [UpTo(T, n) -> Nat] : AddsUp(g, UpTo(T, n))
<1> DEFINE Adds(k) == \E g \in [UpTo(T, k) -> Nat] : AddsUp(g, UpTo(T, k))
           Bad == {k \in Nat : ~Adds(k)}
<1>1. Adds(0)
  <2>1. UpTo(T, 0) = {{}}
    <3>1. \A s \in SUBSET T : Cardinality(s) <= 0 <=> s = {}
      BY FewerEvents
    <3> QED BY <3>1 DEF UpTo
  <2>2. PICK g : g = [s \in UpTo(T, 0) |-> 0]
    OBVIOUS
  <2>3. AddsUp(g, UpTo(T, 0)) /\ g \in [UpTo(T, 0) -> Nat]
    BY <2>1, <2>2 DEF AddsUp
  <2> QED BY <2>3
<1>2. ASSUME NEW k \in Nat, Adds(k) PROVE Adds(k + 1)
  <2>1. PICK g \in [UpTo(T, k) -> Nat] : AddsUp(g, UpTo(T, k))
    BY <1>2
  <2> DEFINE h == [s \in UpTo(T, k + 1) |->
                     IF s = {} THEN 0 ELSE Cost(Chosen(s)) + g[s \ {Chosen(s)}]]
  <2>2. \A s \in UpTo(T, k) : s \in UpTo(T, k + 1) /\ h[s] = g[s]
    <3>1. UpTo(T, k) \subseteq UpTo(T, k + 1)
      BY FewerEvents DEF UpTo
    <3> QED BY <2>1, <3>1 DEF AddsUp
  <2>3. \A s \in UpTo(T, k + 1) :
          s # {} => s \ {Chosen(s)} \in UpTo(T, k) /\ Cost(Chosen(s)) \in Nat
    <3> SUFFICES ASSUME NEW s \in UpTo(T, k + 1), s # {}
                 PROVE  s \ {Chosen(s)} \in UpTo(T, k) /\ Cost(Chosen(s)) \in Nat
      OBVIOUS
    <3>1. s \subseteq T /\ s \in EventSets /\ Cardinality(s) <= k + 1
      BY FewerEvents DEF UpTo
    <3>2. /\ Chosen(s) \in s /\ Cost(Chosen(s)) \in Nat
          /\ Cardinality(s \ {Chosen(s)}) = Cardinality(s) - 1
          /\ Cardinality(s) \in Nat
      BY <3>1, FewerEvents
    <3>3. Cardinality(s \ {Chosen(s)}) <= k
      BY <3>1, <3>2
    <3> QED BY <3>1, <3>2, <3>3 DEF UpTo
  <2>4. h \in [UpTo(T, k + 1) -> Nat]
    BY <2>3
  <2>5. \A s \in UpTo(T, k + 1) :
          h[s] = IF s = {} THEN 0 ELSE Cost(Chosen(s)) + h[s \ {Chosen(s)}]
    BY <2>2, <2>3
  <2>6. AddsUp(h, UpTo(T, k + 1))
    <3>1. DOMAIN h = UpTo(T, k + 1) /\ h = [s \in UpTo(T, k + 1) |-> h[s]]
      OBVIOUS
    <3> HIDE DEF h
    <3> QED BY <2>5, <3>1 DEF AddsUp
  <2> QED BY <2>4, <2>6
<1> HIDE DEF Adds
<1>3. Bad = {}
  <2> SUFFICES ASSUME Bad # {} PROVE FALSE
    OBVIOUS
  <2>1. PICK k \in Bad : \A j \in Bad : k <= j
    BY LeastNumber
  <2>2. k # 0
    BY <1>1, <2>1
  <2>3. k - 1 \in Nat /\ ~(k <= k - 1)
    BY <2>1, <2>2
  <2>4. Adds(k - 1)
    BY <2>1, <2>3
  <2>5. Adds((k - 1) + 1)
    BY <1>2, <2>3, <2>4
  <2> QED BY <2>1, <2>3, <2>5
<1> QED
  BY <1>3 DEF Adds

LEMMA AllSums ==
  ASSUME NEW T \in EventSets
  PROVE  \E g \in [SUBSET T -> Nat] : AddsUp(g, SUBSET T)
<1>1. PICK n \in Nat : n = Cardinality(T)
  BY FewerEvents
<1>2. UpTo(T, n) = SUBSET T
  <2>1. \A s \in SUBSET T : Cardinality(s) <= n
    BY <1>1, FewerEvents, FS_Subset
  <2> QED BY <2>1 DEF UpTo
<1>3. \E g \in [UpTo(T, n) -> Nat] : AddsUp(g, UpTo(T, n))
  BY SmallSums
<1> QED
  BY <1>2, <1>3

(* The smallest of some sets of calls                                       *)
LEMMA SmallestSet ==
  ASSUME NEW family, family \subseteq EventSets, family # {}
  PROVE  \E s \in family : \A t \in family : Cardinality(s) <= Cardinality(t)
<1> DEFINE Sizes == {Cardinality(s) : s \in family}
<1>1. Sizes \subseteq Nat /\ Sizes # {}
  BY FewerEvents
<1>2. PICK n \in Sizes : \A m \in Sizes : n <= m
  BY <1>1, LeastNumber
<1> QED
  BY <1>2

(* What a set adds up to does not depend on the family it is taken from.    *)
Sums(g, T) == AddsUp(g, SUBSET T)

LEMMA SumsAgree ==
  ASSUME NEW S \in EventSets, NEW T \in EventSets,
         NEW g, Sums(g, S), NEW h, Sums(h, T)
  PROVE  \A s : s \subseteq S /\ s \subseteq T => g[s] = h[s]
<1> DEFINE Bad == {s \in SUBSET S : s \subseteq T /\ g[s] # h[s]}
<1> SUFFICES ASSUME Bad # {} PROVE FALSE
  OBVIOUS
<1>1. PICK s \in Bad : \A t \in Bad : Cardinality(s) <= Cardinality(t)
  <2>1. Bad \subseteq EventSets
    BY FewerEvents
  <2> QED BY <2>1, SmallestSet
<1>2. s \subseteq S /\ s \subseteq T /\ g[s] # h[s]
  BY <1>1
<1>3. /\ g[s] = IF s = {} THEN 0 ELSE Cost(Chosen(s)) + g[s \ {Chosen(s)}]
      /\ h[s] = IF s = {} THEN 0 ELSE Cost(Chosen(s)) + h[s \ {Chosen(s)}]
  BY <1>2 DEF AddsUp, Sums
<1>4. s # {}
  BY <1>2, <1>3
<1>5. s \ {Chosen(s)} \in Bad
  BY <1>2, <1>3, <1>4
<1>6. /\ Cardinality(s \ {Chosen(s)}) = Cardinality(s) - 1 /\ Cardinality(s) \in Nat
  <2>1. s \in EventSets
    BY <1>2, FewerEvents
  <2> QED BY <1>4, <2>1, FewerEvents
<1> QED
  BY <1>1, <1>5, <1>6

(* MapThenSumSet takes one element after the other.                         *)
LEMMA CostAdds ==
  ASSUME NEW T \in EventSets
  PROVE  /\ CostOf(T) \in Nat
         /\ CostOf(T) = IF T = {} THEN 0 ELSE Cost(Chosen(T)) + CostOf(T \ {Chosen(T)})
<1> DEFINE Sum(S) == CHOOSE g : Sums(g, S)
<1>1. ASSUME NEW S \in EventSets
      PROVE  Sums(Sum(S), S) /\ CostOf(S) = Sum(S)[S]
  <2>1. CostOf(S) = Sum(S)[S]
    BY DEF CostOf, Cost, MapThenSumSet, MapThenFoldSet, Sums, AddsUp, Chosen
  <2>2. \E g : Sums(g, S)
    BY <1>1, AllSums DEF Sums
  <2> QED BY <2>1, <2>2
<1>2. PICK g \in [SUBSET T -> Nat] : Sums(g, T)
  BY AllSums DEF Sums
<1>3. ASSUME NEW S, S \subseteq T PROVE CostOf(S) = g[S]
  <2>1. S \in EventSets
    BY <1>3, FewerEvents
  <2>2. PICK f : Sums(f, S) /\ CostOf(S) = f[S]
    BY <1>1, <2>1
  <2> HIDE DEF Sum
  <2>3. \A s : s \subseteq S /\ s \subseteq T => f[s] = g[s]
    BY <1>2, <2>1, <2>2, SumsAgree
  <2> QED BY <1>3, <2>2, <2>3
<1>4. g[T] = IF T = {} THEN 0 ELSE Cost(Chosen(T)) + g[T \ {Chosen(T)}]
  BY <1>2 DEF Sums, AddsUp
<1> QED
  BY <1>2, <1>3, <1>4

(* and in any order.                                                        *)
LEMMA CostOfOne ==
  ASSUME NEW T \in EventSets, NEW c \in T
  PROVE  CostOf(T) = Cost(c) + CostOf(T \ {c})
<1> DEFINE Good(S) == \A d \in S : CostOf(S) = Cost(d) + CostOf(S \ {d})
           Bad == {S \in EventSets : ~Good(S)}
<1> SUFFICES ASSUME Bad # {} PROVE FALSE
  OBVIOUS
<1>1. PICK S \in Bad : \A t \in Bad : Cardinality(S) <= Cardinality(t)
  BY SmallestSet
<1>2. PICK d \in S : CostOf(S) # Cost(d) + CostOf(S \ {d})
  BY <1>1
<1> DEFINE e == Chosen(S)
<1>3. S \in EventSets /\ S # {} /\ e \in S /\ Cardinality(S) \in Nat
  BY <1>1, <1>2, FewerEvents
<1>4. ASSUME NEW x \in S PROVE Good(S \ {x})
  <2>1. Cardinality(S \ {x}) = Cardinality(S) - 1 /\ S \ {x} \in EventSets
    BY <1>3, FewerEvents
  <2>2. ~(Cardinality(S) <= Cardinality(S \ {x}))
    BY <1>3, <2>1
  <2> QED BY <1>1, <2>1, <2>2
<1>5. CostOf(S) = Cost(e) + CostOf(S \ {e})
  BY <1>3, CostAdds
<1> HIDE DEF e
<1>6. d # e
  BY <1>2, <1>5
<1>7. /\ CostOf(S \ {e}) = Cost(d) + CostOf((S \ {e}) \ {d})
      /\ CostOf(S \ {d}) = Cost(e) + CostOf((S \ {d}) \ {e})
  BY <1>3, <1>4, <1>6
<1>8. CostOf((S \ {e}) \ {d}) = CostOf((S \ {d}) \ {e})
  <2>1. (S \ {e}) \ {d} = (S \ {d}) \ {e}
    OBVIOUS
  <2> QED BY <2>1
<1>9. /\ Cost(d) \in Nat /\ Cost(e) \in Nat /\ CostOf((S \ {d}) \ {e}) \in Nat
  <2>1. (S \ {d}) \ {e} \in EventSets
    BY <1>3, FewerEvents
  <2> QED BY <1>3, <2>1, CostAdds, FewerEvents
<1> HIDE DEF Good, Bad
<1> QED
  BY <1>2, <1>5, <1>7, <1>8, <1>9

(* More events cost more, by what they cost.                                *)
LEMMA CostGrows ==
  ASSUME NEW T \in EventSets
  PROVE  /\ CostOf(T) \in Nat
         /\ \A e \in Event \ T :
              /\ T \cup {e} \in EventSets
              /\ CostOf(T \cup {e}) = CostOf(T) + e.kind.cost
         /\ \A S \in SUBSET T : CostOf(S) <= CostOf(T)
<1>1. CostOf(T) \in Nat
  BY CostAdds
<1>2. ASSUME NEW e \in Event \ T
      PROVE  /\ T \cup {e} \in EventSets
             /\ CostOf(T \cup {e}) = CostOf(T) + e.kind.cost
  <2>1. PICK more : more = T \cup {e}
    OBVIOUS
  <2>2. more \in EventSets
    BY <2>1, FewerEvents, FS_AddElement DEF EventSets
  <2>3. more \ {e} = T /\ e \in more
    BY <1>2, <2>1
  <2>4. CostOf(more) = Cost(e) + CostOf(more \ {e})
    BY <2>2, <2>3, CostOfOne
  <2>5. Cost(e) \in Nat /\ Cost(e) = e.kind.cost
    BY DEF Cost, Event, Kind
  <2>6. CostOf(more) = Cost(e) + CostOf(T)
    BY <2>3, <2>4
  <2>7. CostOf(more) = CostOf(T) + e.kind.cost
    BY <1>1, <2>5, <2>6
  <2> QED BY <2>1, <2>2, <2>7
<1>3. ASSUME NEW S \in SUBSET T PROVE CostOf(S) <= CostOf(T)
  <2> DEFINE Bad == {U \in EventSets : S \subseteq U /\ ~(CostOf(S) <= CostOf(U))}
  <2> SUFFICES ASSUME Bad # {} PROVE FALSE
    OBVIOUS
  <2>1. PICK U \in Bad : \A V \in Bad : Cardinality(U) <= Cardinality(V)
    BY SmallestSet
  <2>2. U \in EventSets /\ S \subseteq U /\ ~(CostOf(S) <= CostOf(U))
    BY <2>1
  <2>3. S \in EventSets
    BY FewerEvents
  <2>4. CostOf(S) \in Nat /\ CostOf(U) \in Nat
    BY <2>2, <2>3, CostAdds
  <2>5. PICK e \in U : e \notin S
    BY <2>2, <2>4
  <2>6. /\ U \ {e} \in EventSets /\ S \subseteq U \ {e}
        /\ Cardinality(U \ {e}) = Cardinality(U) - 1 /\ Cardinality(U) \in Nat
        /\ Cost(e) \in Nat
    BY <2>2, <2>5, FewerEvents
  <2>7. ~(Cardinality(U) <= Cardinality(U \ {e}))
    BY <2>6
  <2>8. CostOf(S) <= CostOf(U \ {e})
    BY <2>1, <2>6, <2>7
  <2>9. CostOf(U) = Cost(e) + CostOf(U \ {e}) /\ CostOf(U \ {e}) \in Nat
    BY <2>2, <2>6, CostOfOne, CostAdds
  <2> QED BY <2>2, <2>4, <2>6, <2>8, <2>9
<1> QED
  BY <1>1, <1>2, <1>3

LEMMA NothingCostsNothing == {} \in EventSets /\ CostOf({}) = 0
<1>1. {} \in EventSets
  BY FS_EmptySet DEF EventSets
<1> QED
  BY <1>1, CostAdds

-----------------------------------------------------------------------------
(* The first events of a task.                                              *)

FirstFew(s, k) == Range(SubSeq(s, 1, k))

LEMMA FirstAre ==
  ASSUME NEW s \in Seq(Event)
  PROVE  /\ Range(s) \in EventSets /\ Cardinality(Range(s)) <= Len(s)
         /\ FirstFew(s, Len(s)) = Range(s)
         /\ \A k \in 0..Len(s) : FirstFew(s, k) = {s[i] : i \in 1..k}
         /\ \A k \in 0..Len(s) : FirstFew(s, k) \subseteq Range(s)
<1>1. Len(s) \in Nat /\ DOMAIN s = 1..Len(s) /\ s \in [1..Len(s) -> Event]
  OBVIOUS
<1>2. IsFiniteSet(1..Len(s)) /\ Cardinality(1..Len(s)) = Len(s)
  BY <1>1, FS_Interval
<1>3. Range(s) = {s[i] : i \in 1..Len(s)} /\ Range(s) \subseteq Event
  BY <1>1 DEF Range
<1>4. s \in Surjection(1..Len(s), Range(s))
  BY <1>1, <1>3 DEF Surjection
<1>5. IsFiniteSet(Range(s)) /\ Cardinality(Range(s)) <= Len(s)
  BY <1>2, <1>4, FS_Surjection
<1>6. ASSUME NEW k \in 0..Len(s) PROVE FirstFew(s, k) = {s[i] : i \in 1..k}
  <2>1. /\ DOMAIN SubSeq(s, 1, k) = 1..k
        /\ \A i \in 1..k : SubSeq(s, 1, k)[i] = s[i]
    BY <1>1
  <2> QED BY <2>1 DEF FirstFew, Range
<1> QED
  BY <1>1, <1>3, <1>5, <1>6 DEF EventSets

(* What a task's events become: the first ones stay what they are.          *)
Extends(s, z) ==
  /\ Len(s) <= Len(z) /\ DOMAIN s \subseteq DOMAIN z /\ Range(s) \subseteq Range(z)
  /\ \A k \in DOMAIN s : z[k] = s[k] /\ FirstFew(z, k) = FirstFew(s, k)

LEMMA Appended ==
  ASSUME NEW s \in Seq(Event), NEW e \in Event
  PROVE  /\ Extends(s, Append(s, e)) /\ Append(s, e) \in Seq(Event)
         /\ Range(Append(s, e)) = Range(s) \cup {e}
         /\ Len(Append(s, e)) = Len(s) + 1 /\ DOMAIN Append(s, e) = 1..(Len(s) + 1)
         /\ Append(s, e)[Len(s) + 1] = e
         /\ \A i \in 1..Len(s) : Append(s, e)[i] = s[i]
<1>1. PICK z : z = Append(s, e)
  OBVIOUS
<1>2. /\ z \in Seq(Event) /\ Len(z) = Len(s) + 1 /\ z[Len(s) + 1] = e
      /\ \A i \in 1..Len(s) : z[i] = s[i]
      /\ Len(s) \in Nat /\ DOMAIN s = 1..Len(s) /\ DOMAIN z = 1..(Len(s) + 1)
  BY <1>1
<1>3. Range(z) = Range(s) \cup {e}
  BY <1>2 DEF Range
<1>4. ASSUME NEW k \in DOMAIN s PROVE FirstFew(z, k) = FirstFew(s, k)
  <2>1. k \in 0..Len(s) /\ k \in 0..Len(z) /\ 1..k \subseteq 1..Len(s)
    BY <1>2
  <2>2. FirstFew(z, k) = {z[i] : i \in 1..k} /\ FirstFew(s, k) = {s[i] : i \in 1..k}
    BY <1>2, <2>1, FirstAre
  <2>3. \A i \in 1..k : z[i] = s[i]
    BY <1>2, <2>1
  <2> QED BY <2>2, <2>3
<1> QED
  BY <1>1, <1>2, <1>3, <1>4 DEF Extends

(* A list of at most so many events is all of them.                         *)
LEMMA AllListed ==
  ASSUME NEW s \in Seq(Event), NEW n \in Nat, Len(s) <= n
  PROVE  Newest(Range(s), n) = Range(s)
<1>1. PICK es : es = Range(s)
  OBVIOUS
<1>2. /\ IsFiniteSet(es) /\ es \subseteq Event /\ Cardinality(es) <= Len(s)
      /\ Cardinality(es) \in Nat
  BY <1>1, FirstAre, FewerEvents DEF EventSets
<1>3. ASSUME NEW e \in es
      PROVE  Cardinality({f \in es : f.at > e.at}) < n
  <2>1. PICK later : later = {f \in es : f.at > e.at}
    OBVIOUS
  <2>2. later \in SUBSET (es \ {e})
    BY <1>2, <2>1 DEF Event
  <2>3. IsFiniteSet(es \ {e}) /\ Cardinality(es \ {e}) = Cardinality(es) - 1
    BY <1>2, FS_RemoveElement
  <2>4. Cardinality(later) <= Cardinality(es) - 1 /\ Cardinality(later) \in Nat
    BY <2>2, <2>3, FS_Subset, FS_CardinalityType
  <2>5. Len(s) \in Nat
    OBVIOUS
  <2> QED BY <1>2, <2>1, <2>4, <2>5
<1> QED
  BY <1>1, <1>3 DEF Newest

(* Counting.                                                                *)
LEMMA MoreCount ==
  ASSUME NEW T, IsFiniteSet(T), NEW S \in SUBSET T
  PROVE  /\ IsFiniteSet(S) /\ Cardinality(S) \in Nat /\ Cardinality(T) \in Nat
         /\ Cardinality(S) <= Cardinality(T)
  BY FS_Subset, FS_CardinalityType

(* The earliest of some events                                              *)
LEMMA Earliest ==
  ASSUME NEW es, es \subseteq Event, es # {}
  PROVE  \E e \in es : \A f \in es : e.at <= f.at
<1> DEFINE ats == {e.at : e \in es}
<1>1. ats \in SUBSET Nat /\ ats # {}
  BY WatchAssumption DEF Event
<1> HIDE DEF ats
<1>2. PICK n \in ats : \A m \in ats : n <= m
  BY <1>1, LeastNumber
<1> QED
  BY <1>2 DEF ats

-----------------------------------------------------------------------------
(* What each detector finds.                                                *)

LEMMA CodesAre ==
  Code = {"repeated_call", "retry_storm", "repeated_denial", "excessive_polling",
          "cyclic_workflow", "tool_budget", "cost_budget", "runtime_budget",
          "no_progress"}
<1>1. DOMAIN Codes = 1..9
  BY DEF Codes
<1>2. 1..9 = {1, 2, 3, 4, 5, 6, 7, 8, 9}
  OBVIOUS
<1> QED
  BY <1>1, <1>2 DEF Code, Codes

Recent(es, now, window) == {e \in es : e.at + window >= now}

AlikeCalls(es, e) == {f \in es : FpOf(f) = FpOf(e)}

AlikeErrors(es, e) == {f \in es : ErrorOf(f) = ErrorOf(e)}

DeniedCalls(es) == {e \in OfType(es, "call") : e.kind.denied}

Polls(es) == {e \in OfType(es, "call") : e.kind.poll}

(* How each code is detected among the events es, `recent` of them.         *)
Detects(code, l, row, created, es, recent, now) ==
  CASE code = "repeated_call" ->
         \E e \in Phase(recent) :
           FpOf(e) # None /\ Cardinality(AlikeCalls(Phase(recent), e)) >= l.calls
    [] code = "retry_storm" ->
         \E e \in recent :
           ErrorOf(e) # None /\ Cardinality(AlikeErrors(recent, e)) >= l.errors
    [] code = "repeated_denial" -> Cardinality(DeniedCalls(recent)) >= l.denials
    [] code = "excessive_polling" -> Cardinality(Polls(recent)) >= l.polls
    [] code = "cyclic_workflow" -> Cyclic(Fingerprints(Phase(recent)), l.cycles)
    [] code = "tool_budget" -> Cardinality(OfType(es, "call")) > l.budget
    [] code = "cost_budget" -> row.cost > l.cost
    [] code = "runtime_budget" -> row.active /\ now > created + l.runtime
    [] code = "no_progress" ->
         /\ row.active
         /\ \E e \in es : e.kind.type # "heartbeat"
         /\ now > created + l.quiet
         /\ \A p \in OfType(es, "progress") : now > p.at + l.quiet

LEMMA DetectedIs ==
  ASSUME NEW l, NEW row, NEW created, NEW es, NEW now, NEW window,
         NEW recent, recent = Recent(es, now, window), NEW code \in Code
  PROVE  code \in Detected(l, row, created, es, now, window) <=>
           Detects(code, l, row, created, es, recent, now)
<1> DEFINE D == Detected(l, row, created, es, now, window)
<1>1. CASE code = "repeated_call"
  <2>1. code \in D <=> MostCommon([e \in Phase(recent) |-> FpOf(e)], l.calls)
    BY <1>1 DEF Detected, Recent
  <2>2. PICK key : key = [e \in Phase(recent) |-> FpOf(e)]
    OBVIOUS
  <2>3. \A e \in Phase(recent) :
          /\ key[e] = FpOf(e)
          /\ {f \in DOMAIN key : key[f] = key[e]} = AlikeCalls(Phase(recent), e)
    BY <2>2 DEF AlikeCalls
  <2>4. DOMAIN key = Phase(recent)
    BY <2>2
  <2>5. MostCommon(key, l.calls) <=>
          \E e \in Phase(recent) :
            FpOf(e) # None /\ Cardinality(AlikeCalls(Phase(recent), e)) >= l.calls
    BY <2>3, <2>4 DEF MostCommon
  <2> QED BY <1>1, <2>1, <2>2, <2>5 DEF Detects
<1>2. CASE code = "retry_storm"
  <2>1. code \in D <=> MostCommon([e \in recent |-> ErrorOf(e)], l.errors)
    BY <1>2 DEF Detected, Recent
  <2>2. PICK key : key = [e \in recent |-> ErrorOf(e)]
    OBVIOUS
  <2>3. \A e \in recent :
          /\ key[e] = ErrorOf(e)
          /\ {f \in DOMAIN key : key[f] = key[e]} = AlikeErrors(recent, e)
    BY <2>2 DEF AlikeErrors
  <2>4. DOMAIN key = recent
    BY <2>2
  <2>5. MostCommon(key, l.errors) <=>
          \E e \in recent :
            ErrorOf(e) # None /\ Cardinality(AlikeErrors(recent, e)) >= l.errors
    BY <2>3, <2>4 DEF MostCommon
  <2> QED BY <1>2, <2>1, <2>2, <2>5 DEF Detects
<1>3. CASE code = "repeated_denial"
  BY <1>3 DEF Detected, Recent, Detects, DeniedCalls
<1>4. CASE code = "excessive_polling"
  BY <1>4 DEF Detected, Recent, Detects, Polls
<1>5. CASE code = "cyclic_workflow"
  BY <1>5 DEF Detected, Recent, Detects
<1>6. CASE code \in {"tool_budget", "cost_budget", "runtime_budget"}
  BY <1>6 DEF Detected, Detects
<1>7. CASE code = "no_progress"
  <2>1. code \in D <=>
          /\ row.active
          /\ \E e \in es : e.kind.type # "heartbeat"
          /\ \A at \in {e.at : e \in OfType(es, "progress")} \cup {created} :
               now > at + l.quiet
    BY <1>7 DEF Detected
  <2> QED BY <1>7, <2>1 DEF Detects
<1> QED
  BY <1>1, <1>2, <1>3, <1>4, <1>5, <1>6, <1>7, CodesAre

-----------------------------------------------------------------------------
(* What bears each finding out.                                             *)

Together(es, e) == {f \in es : Near(e, f)}

UnbrokenIn(s, k, e) == \A p \in OfType(FirstFew(s, k), "progress") : p.at < e.at

CallsIn(s, k, e) ==
  {f \in OfType(FirstFew(s, k), "call") : Near(e, f) /\ FpOf(f) # None}

(* Events none of which ends the task                                       *)
Going(es) == OfType(es, "end") = {}

OverdueIn(s, k, created, n) == Going(FirstFew(s, k)) /\ created + n < s[k].at + Delay

JustifiedBy(code, l, created, s) ==
  CASE code = "repeated_call" ->
         \E k \in DOMAIN s : \E e \in OfType(Range(s), "call") :
           /\ UnbrokenIn(s, k, e)
           /\ Cardinality(AlikeCalls(CallsIn(s, k, e), e)) >= l.calls
    [] code = "retry_storm" ->
         \E e \in Range(s) :
           /\ ErrorOf(e) # None
           /\ Cardinality(Together(AlikeErrors(Range(s), e), e)) >= l.errors
    [] code = "repeated_denial" ->
         \E e \in DeniedCalls(Range(s)) :
           Cardinality(Together(DeniedCalls(Range(s)), e)) >= l.denials
    [] code = "excessive_polling" ->
         \E e \in Polls(Range(s)) : Cardinality(Together(Polls(Range(s)), e)) >= l.polls
    [] code = "cyclic_workflow" ->
         \E k \in DOMAIN s : \E e \in OfType(Range(s), "call") :
           UnbrokenIn(s, k, e) /\ Cycling(Fingerprints(CallsIn(s, k, e)), l.cycles)
    [] code = "tool_budget" -> Cardinality(OfType(Range(s), "call")) > l.budget
    [] code = "cost_budget" -> CostOf(Range(s)) > l.cost
    [] code = "runtime_budget" -> \E k \in DOMAIN s : OverdueIn(s, k, created, l.runtime)
    [] code = "no_progress" ->
         \E k \in DOMAIN s :
           /\ OverdueIn(s, k, created, l.quiet)
           /\ \A p \in OfType(FirstFew(s, k), "progress") : p.at + l.quiet < s[k].at + Delay

LEMMA JustifiedIs ==
  \A t : \A code \in Code :
    Justified(t, code) <=>
      JustifiedBy(code, tasks[t].limits, tasks[t].created, events[t])
<1> SUFFICES ASSUME NEW t, NEW code \in Code
             PROVE  Justified(t, code) <=>
               JustifiedBy(code, tasks[t].limits, tasks[t].created, events[t])
  OBVIOUS
<1> DEFINE s == events[t]  l == tasks[t].limits
           By == JustifiedBy(code, l, tasks[t].created, s)
<1>0. /\ \A k, e : Unbroken(t, k, e) <=> UnbrokenIn(s, k, e)
      /\ \A k, e : CallsFrom(t, k, e) = CallsIn(s, k, e)
      /\ \A k : Prefix(t, k) = FirstFew(s, k)
      /\ \A k, n : Overdue(t, k, n) <=> OverdueIn(s, k, tasks[t].created, n)
  BY DEF Unbroken, UnbrokenIn, CallsFrom, CallsIn, Prefix, FirstFew, Overdue, OverdueIn, Going
<1>1. CASE code = "repeated_call"
  <2>1. Justified(t, code) <=>
          \E k \in DOMAIN s : \E e \in OfType(Range(s), "call") :
            /\ Unbroken(t, k, e)
            /\ Cardinality({f \in CallsFrom(t, k, e) : FpOf(f) = FpOf(e)}) >= l.calls
    BY <1>1 DEF Justified
  <2> QED BY <1>0, <1>1, <2>1 DEF JustifiedBy, AlikeCalls
<1>2. CASE code = "retry_storm"
  <2> DEFINE failed == {e \in Range(s) : ErrorOf(e) # None}
  <2>1. Justified(t, code) <=>
          \E e \in failed :
            Cardinality({f \in failed : ErrorOf(e) = ErrorOf(f) /\ Near(e, f)}) >= l.errors
    BY <1>2 DEF Justified, Repeats
  <2>2. \A e \in failed :
          {f \in failed : ErrorOf(e) = ErrorOf(f) /\ Near(e, f)}
            = Together(AlikeErrors(Range(s), e), e)
    BY DEF Together, AlikeErrors
  <2>3. Justified(t, code) <=>
          \E e \in Range(s) :
            /\ ErrorOf(e) # None
            /\ Cardinality(Together(AlikeErrors(Range(s), e), e)) >= l.errors
    BY <2>1, <2>2
  <2> QED BY <1>2, <2>3 DEF JustifiedBy
<1>3. CASE code = "repeated_denial"
  <2>1. Justified(t, code) <=>
          \E e \in DeniedCalls(Range(s)) :
            Cardinality({f \in DeniedCalls(Range(s)) : TRUE /\ Near(e, f)}) >= l.denials
    BY <1>3 DEF Justified, Repeats, DeniedCalls
  <2>2. \A e : {f \in DeniedCalls(Range(s)) : TRUE /\ Near(e, f)}
                 = Together(DeniedCalls(Range(s)), e)
    BY DEF Together
  <2> QED BY <1>3, <2>1, <2>2 DEF JustifiedBy
<1>4. CASE code = "excessive_polling"
  <2>1. Justified(t, code) <=>
          \E e \in Polls(Range(s)) :
            Cardinality({f \in Polls(Range(s)) : TRUE /\ Near(e, f)}) >= l.polls
    BY <1>4 DEF Justified, Repeats, Polls
  <2>2. \A e : {f \in Polls(Range(s)) : TRUE /\ Near(e, f)} = Together(Polls(Range(s)), e)
    BY DEF Together
  <2> QED BY <1>4, <2>1, <2>2 DEF JustifiedBy
<1>5. CASE code = "cyclic_workflow"
  <2>1. Justified(t, code) <=>
          \E k \in DOMAIN s : \E e \in OfType(Range(s), "call") :
            Unbroken(t, k, e) /\ Cycling(Fingerprints(CallsFrom(t, k, e)), l.cycles)
    BY <1>5 DEF Justified, Cycling
  <2> QED BY <1>0, <1>5, <2>1 DEF JustifiedBy
<1>6. CASE code \in {"tool_budget", "runtime_budget"}
  BY <1>0, <1>6 DEF Justified, JustifiedBy
<1>7. CASE code = "cost_budget"
  BY <1>7 DEF Justified, JustifiedBy, CostOf
<1>8. CASE code = "no_progress"
  BY <1>0, <1>8 DEF Justified, JustifiedBy
<1> QED
  BY <1>1, <1>2, <1>3, <1>4, <1>5, <1>6, <1>7, <1>8, CodesAre

(* A finding that is borne out stays so.                                    *)
LEMMA JustifiedGrows ==
  ASSUME NEW s \in Seq(Event), NEW z \in Seq(Event), Extends(s, z),
         NEW l \in Limits, NEW created \in Nat,
         NEW code \in Code, JustifiedBy(code, l, created, s)
  PROVE  JustifiedBy(code, l, created, z)
<1>1. /\ Range(s) \subseteq Range(z) /\ DOMAIN s \subseteq DOMAIN z
      /\ \A k \in DOMAIN s : z[k] = s[k] /\ FirstFew(z, k) = FirstFew(s, k)
  BY DEF Extends
<1>2. IsFiniteSet(Range(z)) /\ Range(z) \in EventSets
  BY FirstAre DEF EventSets
<1>3. \A n \in Nat : \A S, T :
        S \subseteq T /\ T \subseteq Range(z) /\ Cardinality(S) >= n
          => Cardinality(T) >= n
  <2> SUFFICES ASSUME NEW n \in Nat, NEW S, NEW T, S \subseteq T,
                      T \subseteq Range(z), Cardinality(S) >= n
               PROVE  Cardinality(T) >= n
    OBVIOUS
  <2>1. IsFiniteSet(T)
    BY <1>2, FS_Subset
  <2>2. /\ Cardinality(S) \in Nat /\ Cardinality(T) \in Nat
        /\ Cardinality(S) <= Cardinality(T)
    BY <2>1, MoreCount
  <2> QED BY <2>2
<1>4. \A e, S, T : S \subseteq T => Together(S, e) \subseteq Together(T, e)
                                   /\ Together(T, e) \subseteq T
  BY DEF Together
<1>5. l.errors \in Nat /\ l.denials \in Nat /\ l.polls \in Nat /\ l.budget \in Nat
      /\ l.cost \in Nat /\ l.runtime \in Nat
  BY DEF Limits
<1>6. OfType(Range(s), "call") \subseteq OfType(Range(z), "call")
      /\ OfType(Range(z), "call") \subseteq Range(z)
  BY <1>1 DEF OfType
<1>7. CASE code = "repeated_call"
  <2>1. PICK k \in DOMAIN s, e \in OfType(Range(s), "call") :
          /\ UnbrokenIn(s, k, e)
          /\ Cardinality(AlikeCalls(CallsIn(s, k, e), e)) >= l.calls
    BY <1>7 DEF JustifiedBy
  <2>2. UnbrokenIn(z, k, e) /\ CallsIn(z, k, e) = CallsIn(s, k, e)
    BY <1>1, <2>1 DEF UnbrokenIn, CallsIn
  <2> QED BY <1>1, <1>6, <1>7, <2>1, <2>2 DEF JustifiedBy
<1>8. CASE code = "retry_storm"
  <2>1. PICK e \in Range(s) :
          /\ ErrorOf(e) # None
          /\ Cardinality(Together(AlikeErrors(Range(s), e), e)) >= l.errors
    BY <1>8 DEF JustifiedBy
  <2>2. /\ AlikeErrors(Range(s), e) \subseteq AlikeErrors(Range(z), e)
        /\ AlikeErrors(Range(z), e) \subseteq Range(z)
    BY <1>1 DEF AlikeErrors
  <2>3. /\ Together(AlikeErrors(Range(s), e), e) \subseteq Together(AlikeErrors(Range(z), e), e)
        /\ Together(AlikeErrors(Range(z), e), e) \subseteq Range(z)
    BY <1>4, <2>2
  <2>4. Cardinality(Together(AlikeErrors(Range(z), e), e)) >= l.errors
    BY <1>3, <1>5, <2>1, <2>3
  <2> QED BY <1>1, <1>8, <2>1, <2>4 DEF JustifiedBy
<1>9. CASE code = "repeated_denial"
  <2>1. PICK e \in DeniedCalls(Range(s)) :
          Cardinality(Together(DeniedCalls(Range(s)), e)) >= l.denials
    BY <1>9 DEF JustifiedBy
  <2>2. /\ DeniedCalls(Range(s)) \subseteq DeniedCalls(Range(z))
        /\ DeniedCalls(Range(z)) \subseteq Range(z)
    BY <1>1 DEF DeniedCalls, OfType
  <2>3. /\ Together(DeniedCalls(Range(s)), e) \subseteq Together(DeniedCalls(Range(z)), e)
        /\ Together(DeniedCalls(Range(z)), e) \subseteq Range(z)
    BY <1>4, <2>2
  <2>4. Cardinality(Together(DeniedCalls(Range(z)), e)) >= l.denials
    BY <1>3, <1>5, <2>1, <2>3
  <2> QED BY <1>9, <2>2, <2>4 DEF JustifiedBy
<1>10. CASE code = "excessive_polling"
  <2>1. PICK e \in Polls(Range(s)) :
          Cardinality(Together(Polls(Range(s)), e)) >= l.polls
    BY <1>10 DEF JustifiedBy
  <2>2. Polls(Range(s)) \subseteq Polls(Range(z)) /\ Polls(Range(z)) \subseteq Range(z)
    BY <1>1 DEF Polls, OfType
  <2>3. /\ Together(Polls(Range(s)), e) \subseteq Together(Polls(Range(z)), e)
        /\ Together(Polls(Range(z)), e) \subseteq Range(z)
    BY <1>4, <2>2
  <2>4. Cardinality(Together(Polls(Range(z)), e)) >= l.polls
    BY <1>3, <1>5, <2>1, <2>3
  <2> QED BY <1>10, <2>2, <2>4 DEF JustifiedBy
<1>11. CASE code = "cyclic_workflow"
  <2>1. PICK k \in DOMAIN s, e \in OfType(Range(s), "call") :
          UnbrokenIn(s, k, e) /\ Cycling(Fingerprints(CallsIn(s, k, e)), l.cycles)
    BY <1>11 DEF JustifiedBy
  <2>2. UnbrokenIn(z, k, e) /\ CallsIn(z, k, e) = CallsIn(s, k, e)
    BY <1>1, <2>1 DEF UnbrokenIn, CallsIn
  <2> QED BY <1>1, <1>6, <1>11, <2>1, <2>2 DEF JustifiedBy
<1>12. CASE code = "tool_budget"
  <2>1. Cardinality(OfType(Range(s), "call")) > l.budget
    BY <1>12 DEF JustifiedBy
  <2>2. l.budget + 1 \in Nat /\ Cardinality(OfType(Range(s), "call")) \in Nat
        /\ Cardinality(OfType(Range(z), "call")) \in Nat
    <3>1. OfType(Range(s), "call") \subseteq Range(z)
          /\ OfType(Range(z), "call") \subseteq Range(z)
      BY <1>6
    <3>2. /\ IsFiniteSet(OfType(Range(s), "call"))
          /\ IsFiniteSet(OfType(Range(z), "call"))
      BY <1>2, <3>1, FS_Subset
    <3>3. l.budget + 1 \in Nat
      BY <1>5
    <3> QED BY <3>2, <3>3, FS_CardinalityType
  <2>3. PICK n \in Nat : n = l.budget + 1 /\ Cardinality(OfType(Range(s), "call")) >= n
    BY <1>5, <2>1, <2>2
  <2>4. Cardinality(OfType(Range(z), "call")) >= n
    BY <1>3, <1>6, <2>3
  <2>5. Cardinality(OfType(Range(z), "call")) > l.budget
    BY <1>5, <2>2, <2>3, <2>4
  <2> QED BY <1>12, <2>5 DEF JustifiedBy
<1>13. CASE code = "cost_budget"
  <2>1. CostOf(Range(s)) \in Nat /\ CostOf(Range(z)) \in Nat
        /\ CostOf(Range(s)) <= CostOf(Range(z))
    BY <1>1, <1>2, FirstAre, CostGrows
  <2> QED BY <1>5, <1>13, <2>1 DEF JustifiedBy
<1>14. CASE code = "runtime_budget"
  <2>1. PICK k \in DOMAIN s : OverdueIn(s, k, created, l.runtime)
    BY <1>14 DEF JustifiedBy
  <2>2. k \in DOMAIN z /\ OverdueIn(z, k, created, l.runtime)
    BY <1>1, <2>1 DEF OverdueIn
  <2> QED BY <1>14, <2>2 DEF JustifiedBy
<1>15. CASE code = "no_progress"
  <2>1. PICK k \in DOMAIN s :
           /\ OverdueIn(s, k, created, l.quiet)
           /\ \A p \in OfType(FirstFew(s, k), "progress") : p.at + l.quiet < s[k].at + Delay
    BY <1>15 DEF JustifiedBy
  <2>2. k \in DOMAIN z /\ OverdueIn(z, k, created, l.quiet)
    BY <1>1, <2>1 DEF OverdueIn
  <2> QED BY <1>1, <1>15, <2>1, <2>2 DEF JustifiedBy
<1> QED
  BY <1>7, <1>8, <1>9, <1>10, <1>11, <1>12, <1>13, <1>14, <1>15, CodesAre

(* An analysis that has all the events of its task finds what they bear out.*)
LEMMA DetectedJustified ==
  ASSUME NEW s \in Seq(Event), Stampeds(Range(s)), NEW l \in Limits, NEW row,
         NEW created \in Nat, NEW place \in DOMAIN s, NEW now \in Nat, NEW time \in Nat,
         s[place].at <= now, now <= time, time <= s[place].at + Delay,
         \A e \in Range(s) : e.at <= time,
         row.cost \in Nat, row.cost <= CostOf(Range(s)),
         row.active => Going(FirstFew(s, place)), NEW code,
         code \in Detected(l, row, created, Range(s), now, Window)
  PROVE  JustifiedBy(code, l, created, s)
<1> DEFINE es == Range(s)
<1>1. PICK recent : recent = Recent(es, now, Window)
  OBVIOUS
<1>2. code \in Code
  BY DetectedAreCodes
<1>3. Detects(code, l, row, created, es, recent, now)
  BY <1>1, <1>2, DetectedIs
<1>4. /\ es \in EventSets /\ es \subseteq Event /\ IsFiniteSet(es)
      /\ FirstFew(s, Len(s)) = es /\ Len(s) \in DOMAIN s /\ CostOf(es) \in Nat
  <2>1. DOMAIN s = 1..Len(s) /\ Len(s) \in Nat
    OBVIOUS
  <2>2. Len(s) \in DOMAIN s
    BY <2>1
  <2> QED BY <2>2, FirstAre, FewerEvents, CostGrows
<1>5. \A e \in es : e.at \in Nat
  BY DEF Stampeds
<1>6. recent \subseteq es /\ \A e \in recent : e.at + Window >= now
  BY <1>1 DEF Recent
<1>7. Window \in Nat /\ Delay \in Nat
  BY WatchAssumption
(* What comes after a recent event is near it.                              *)
<1>8. \A e \in recent, f \in es : e.at <= f.at => Near(e, f) /\ f \in recent
  <2> SUFFICES ASSUME NEW e \in recent, NEW f \in es, e.at <= f.at
               PROVE  Near(e, f) /\ f \in recent
    OBVIOUS
  <2>1. /\ e.at \in Nat /\ f.at \in Nat /\ s[place].at \in Nat
        /\ f.at <= time /\ e.at + Window >= now
    <3>1. s[place] \in es
      BY DEF Range
    <3> QED BY <1>5, <1>6, <3>1
  <2>2. PICK x \in Nat, y \in Nat :
          x = e.at /\ y = f.at /\ x <= y /\ y <= time /\ x + Window >= now
    BY <2>1
  <2>3. y + Window >= now
    BY <1>7, <2>2
  <2>4. time <= now + Delay
    BY <1>7, <2>1
  <2>5. y <= x + Window + Delay
    BY <1>7, <2>2, <2>4
  <2> QED BY <1>1, <2>2, <2>3, <2>5 DEF Near, Recent
(* A burst of recent events is one from the first of them on.               *)
<1>9. \A S : S \subseteq recent /\ S # {} => \E e \in S : Together(S, e) = S
  <2> SUFFICES ASSUME NEW S, S \subseteq recent, S # {}
               PROVE  \E e \in S : Together(S, e) = S
    OBVIOUS
  <2>1. S \subseteq Event
    BY <1>4, <1>6
  <2>2. PICK e \in S : \A f \in S : e.at <= f.at
    BY <2>1, Earliest
  <2> QED BY <1>6, <1>8, <2>2 DEF Together
<1>10. \A n \in Nat \ {0} : \A S, T :
         S \subseteq T /\ T \subseteq es /\ Cardinality(S) >= n => Cardinality(T) >= n
  <2> SUFFICES ASSUME NEW n \in Nat \ {0}, NEW S, NEW T, S \subseteq T,
                      T \subseteq es, Cardinality(S) >= n
               PROVE  Cardinality(T) >= n
    OBVIOUS
  <2>1. IsFiniteSet(T)
    BY <1>4, FS_Subset
  <2>2. /\ Cardinality(S) \in Nat /\ Cardinality(T) \in Nat
        /\ Cardinality(S) <= Cardinality(T)
    BY <2>1, MoreCount
  <2> QED BY <2>2
<1>11. \A S : \A n \in Nat \ {0} : Cardinality(S) >= n => S # {}
  <2> SUFFICES ASSUME NEW S, NEW n \in Nat \ {0}, Cardinality(S) >= n, S = {}
               PROVE  FALSE
    OBVIOUS
  <2>1. Cardinality(S) = 0
    BY FS_EmptySet
  <2> QED BY <2>1
<1>12. \A e, S, T : S \subseteq T => /\ Together(S, e) \subseteq Together(T, e)
                                    /\ Together(T, e) \subseteq T
  BY DEF Together
(* A call of the present phase is after all progress, recent or not.        *)
<1>13. ASSUME NEW e \in Phase(recent)
       PROVE  /\ e \in OfType(es, "call") /\ e \in recent /\ UnbrokenIn(s, Len(s), e)
              /\ CallsIn(s, Len(s), e)
                   = Named({f \in Phase(recent) : f.at >= e.at})
  <2>1. e \in recent /\ e \in OfType(es, "call")
    BY <1>6 DEF Phase, OfType
  <2>2. ASSUME NEW p \in OfType(es, "progress") PROVE p.at < e.at
    <3>1. p \in es /\ p.at \in Nat /\ e.at \in Nat
      BY <1>5, <1>6, <2>1 DEF OfType
    <3>2. CASE p \in recent
      BY <3>1, <3>2 DEF Phase, OfType
    <3>3. CASE p \notin recent
      <4>1. ~(p.at + Window >= now)
        BY <1>1, <3>1, <3>3 DEF Recent
      <4> QED BY <1>6, <1>7, <2>1, <3>1, <4>1
    <3> QED BY <3>2, <3>3
  <2>3. UnbrokenIn(s, Len(s), e)
    BY <1>4, <2>2 DEF UnbrokenIn
  <2>4. ASSUME NEW f \in es, f.kind.type = "call", e.at <= f.at
        PROVE  f \in Phase(recent)
    <3>1. f \in recent
      BY <1>8, <2>1, <2>4
    <3>2. \A p \in OfType(recent, "progress") : f.at > p.at
      <4>1. \A p \in OfType(recent, "progress") : p \in OfType(es, "progress") /\ p.at \in Nat
        BY <1>5, <1>6 DEF OfType
      <4>2. f.at \in Nat /\ e.at \in Nat
        BY <1>5, <1>6, <2>1
      <4> QED BY <2>2, <2>4, <4>1, <4>2
    <3> QED BY <2>4, <3>1, <3>2 DEF Phase, OfType
  <2>5. \A f \in Phase(recent) : f \in es /\ f.kind.type = "call"
    BY <1>6 DEF Phase, OfType
  <2>6. \A f \in es : f.at >= e.at <=> e.at <= f.at
    BY <1>5, <1>6, <2>1
  <2>7. \A f \in es : Near(e, f) <=> e.at <= f.at
    BY <1>8, <2>1 DEF Near
  <2>8. CallsIn(s, Len(s), e) = {f \in OfType(es, "call") : Near(e, f) /\ FpOf(f) # None}
    BY <1>4 DEF CallsIn
  <2>9. CallsIn(s, Len(s), e) = Named({f \in Phase(recent) : f.at >= e.at})
    BY <2>4, <2>5, <2>6, <2>7, <2>8 DEF Named, OfType
  <2> QED BY <2>1, <2>3, <2>9
<1>14. Phase(recent) \subseteq recent
  BY DEF Phase, OfType
<1>15. /\ l.calls \in Nat \ {0} /\ l.errors \in Nat \ {0} /\ l.denials \in Nat \ {0}
       /\ l.polls \in Nat \ {0} /\ l.cycles \in Nat \ {0}
       /\ l.quiet \in Nat /\ l.runtime \in Nat /\ l.budget \in Nat /\ l.cost \in Nat
  BY DEF Limits
<1> HIDE DEF es
<1>16. CASE code = "repeated_call"
  <2>1. PICK e \in Phase(recent) :
          FpOf(e) # None /\ Cardinality(AlikeCalls(Phase(recent), e)) >= l.calls
    BY <1>3, <1>16 DEF Detects
  <2>2. PICK S : S = AlikeCalls(Phase(recent), e)
    OBVIOUS
  <2>3. S \subseteq Phase(recent) /\ S \subseteq recent /\ Cardinality(S) >= l.calls
        /\ \A f \in S : FpOf(f) = FpOf(e)
    BY <1>14, <2>1, <2>2 DEF AlikeCalls
  <2>4. PICK first \in S : Together(S, first) = S
    BY <1>9, <1>11, <1>15, <2>3
  <2>5. first \in Phase(recent) /\ FpOf(first) = FpOf(e)
    BY <2>3, <2>4
  <2>6. /\ first \in OfType(es, "call") /\ UnbrokenIn(s, Len(s), first)
        /\ CallsIn(s, Len(s), first) = Named({f \in Phase(recent) : f.at >= first.at})
    BY <1>13, <2>5
  <2>7. S \subseteq AlikeCalls(CallsIn(s, Len(s), first), first)
    <3>1. \A f \in S : first.at <= f.at
      BY <2>4 DEF Together, Near
    <3>2. \A f \in S : f.at \in Nat
      BY <1>5, <1>6, <2>3
    <3>3. \A f \in S : f.at >= first.at
      BY <3>1, <3>2, <2>4
    <3> QED BY <2>1, <2>3, <2>5, <2>6, <3>3 DEF AlikeCalls, Named
  <2>8. AlikeCalls(CallsIn(s, Len(s), first), first) \subseteq es
    BY <1>6, <1>14, <2>6 DEF AlikeCalls, Named
  <2>9. Cardinality(AlikeCalls(CallsIn(s, Len(s), first), first)) >= l.calls
    BY <1>10, <1>15, <2>3, <2>7, <2>8
  <2> QED BY <1>4, <1>16, <2>6, <2>9 DEF JustifiedBy, es
<1>17. CASE code = "retry_storm"
  <2>1. PICK e \in recent :
          ErrorOf(e) # None /\ Cardinality(AlikeErrors(recent, e)) >= l.errors
    BY <1>3, <1>17 DEF Detects
  <2>2. PICK S : S = AlikeErrors(recent, e)
    OBVIOUS
  <2>3. S \subseteq recent /\ Cardinality(S) >= l.errors
        /\ \A f \in S : ErrorOf(f) = ErrorOf(e)
    BY <2>1, <2>2 DEF AlikeErrors
  <2>4. PICK first \in S : Together(S, first) = S
    BY <1>9, <1>11, <1>15, <2>3
  <2>5. S \subseteq AlikeErrors(es, first) /\ AlikeErrors(es, first) \subseteq es
        /\ first \in es /\ ErrorOf(first) # None
    BY <1>6, <2>1, <2>3, <2>4 DEF AlikeErrors
  <2>6. Cardinality(Together(AlikeErrors(es, first), first)) >= l.errors
    <3>1. /\ S \subseteq Together(AlikeErrors(es, first), first)
          /\ Together(AlikeErrors(es, first), first) \subseteq es
      BY <1>12, <2>4, <2>5
    <3> QED BY <1>10, <1>15, <2>3, <3>1
  <2> QED BY <1>17, <2>5, <2>6 DEF JustifiedBy, es
<1>18. CASE code = "repeated_denial"
  <2>1. PICK S : S = DeniedCalls(recent)
    OBVIOUS
  <2>2. S \subseteq recent /\ Cardinality(S) >= l.denials
    BY <1>3, <1>18, <2>1 DEF Detects, DeniedCalls, OfType
  <2>3. PICK first \in S : Together(S, first) = S
    BY <1>9, <1>11, <1>15, <2>2
  <2>4. S \subseteq DeniedCalls(es) /\ DeniedCalls(es) \subseteq es
    BY <1>6, <2>1 DEF DeniedCalls, OfType
  <2>5. Cardinality(Together(DeniedCalls(es), first)) >= l.denials
    <3>1. /\ S \subseteq Together(DeniedCalls(es), first)
          /\ Together(DeniedCalls(es), first) \subseteq es
      BY <1>12, <2>3, <2>4
    <3> QED BY <1>10, <1>15, <2>2, <3>1
  <2> QED BY <1>18, <2>3, <2>4, <2>5 DEF JustifiedBy, es
<1>19. CASE code = "excessive_polling"
  <2>1. PICK S : S = Polls(recent)
    OBVIOUS
  <2>2. S \subseteq recent /\ Cardinality(S) >= l.polls
    BY <1>3, <1>19, <2>1 DEF Detects, Polls, OfType
  <2>3. PICK first \in S : Together(S, first) = S
    BY <1>9, <1>11, <1>15, <2>2
  <2>4. S \subseteq Polls(es) /\ Polls(es) \subseteq es
    BY <1>6, <2>1 DEF Polls, OfType
  <2>5. Cardinality(Together(Polls(es), first)) >= l.polls
    <3>1. S \subseteq Together(Polls(es), first) /\ Together(Polls(es), first) \subseteq es
      BY <1>12, <2>3, <2>4
    <3> QED BY <1>10, <1>15, <2>2, <3>1
  <2> QED BY <1>19, <2>3, <2>4, <2>5 DEF JustifiedBy, es
<1>20. CASE code = "cyclic_workflow"
  <2>1. Cyclic(Fingerprints(Phase(recent)), l.cycles)
    BY <1>3, <1>20 DEF Detects
  <2>2. PICK phase : phase = Phase(recent)
    OBVIOUS
  <2>3. phase \subseteq es
    BY <1>6, <1>14, <2>2
  <2>4. Stampeds(phase)
    <3>1. Stampeds(es)
      BY DEF es
    <3>2. IsFiniteSet(phase)
      BY <1>4, <2>3, FS_Subset
    <3> QED BY <2>3, <3>1, <3>2 DEF Stampeds
  <2>5. PICK e \in Named(phase) :
          Cycling(Fingerprints({f \in phase : f.at >= e.at}), l.cycles)
    BY <1>15, <2>1, <2>2, <2>4, CycleFrom
  <2>6. e \in phase
    BY <2>5 DEF Named
  <2>7. /\ e \in OfType(es, "call") /\ UnbrokenIn(s, Len(s), e)
        /\ CallsIn(s, Len(s), e) = Named({f \in phase : f.at >= e.at})
    BY <1>13, <2>2, <2>6
  <2>8. ASSUME NEW X PROVE Fingerprints(Named(X)) = Fingerprints(X)
    <3>1. PICK Y : Y = Named(X) /\ Named(Y) = Y
      BY DEF Named
    <3>2. Fingerprints(Y) = [i \in 1..Cardinality(Named(Y)) |-> FpOf(Nth(Named(Y), i - 1))]
      BY DEF Fingerprints, Named
    <3>3. Fingerprints(X) = [i \in 1..Cardinality(Named(X)) |-> FpOf(Nth(Named(X), i - 1))]
      BY DEF Fingerprints, Named
    <3> QED BY <3>1, <3>2, <3>3
  <2>9. Cycling(Fingerprints(CallsIn(s, Len(s), e)), l.cycles)
    BY <2>5, <2>7, <2>8
  <2> QED BY <1>4, <1>20, <2>7, <2>9 DEF JustifiedBy, es
<1>21. CASE code = "tool_budget"
  BY <1>3, <1>21 DEF Detects, JustifiedBy, es
<1>22. CASE code = "cost_budget"
  <2>1. row.cost > l.cost
    BY <1>3, <1>22 DEF Detects
  <2>2. CostOf(es) > l.cost
    BY <1>4, <1>15, <2>1 DEF es
  <2> QED BY <1>22, <2>2 DEF JustifiedBy, es
<1>25. ASSUME NEW n \in Nat, row.active, now > created + n
       PROVE  OverdueIn(s, place, created, n)
  <2>1. s[place].at \in Nat
    BY <1>5 DEF Range, es
  <2>2. created + n < s[place].at + Delay
    BY <1>7, <1>25, <2>1
  <2> QED BY <1>25, <2>2 DEF OverdueIn
<1>23. CASE code = "runtime_budget"
  <2>1. row.active /\ now > created + l.runtime
    BY <1>3, <1>23 DEF Detects
  <2>2. l.runtime \in Nat
    BY DEF Limits
  <2>3. OverdueIn(s, place, created, l.runtime)
    BY <1>25, <2>1, <2>2
  <2> QED BY <1>23, <2>3 DEF JustifiedBy
<1>24. CASE code = "no_progress"
  <2>1. /\ row.active /\ now > created + l.quiet
        /\ \A p \in OfType(es, "progress") : now > p.at + l.quiet
    BY <1>3, <1>24 DEF Detects
  <2>4. OverdueIn(s, place, created, l.quiet)
    <3>1. l.quiet \in Nat
      BY DEF Limits
    <3> QED BY <1>25, <2>1, <3>1
  <2>2. OfType(FirstFew(s, place), "progress") \subseteq OfType(es, "progress")
    <3>1. place \in 0..Len(s)
      OBVIOUS
    <3>2. FirstFew(s, place) \subseteq es
      BY <3>1, FirstAre DEF es
    <3> QED BY <3>2 DEF OfType
  <2>3. ASSUME NEW p \in OfType(FirstFew(s, place), "progress")
        PROVE  p.at + l.quiet < s[place].at + Delay
    <3>1. p.at \in Nat /\ s[place].at \in Nat
      <4>1. s[place] \in es /\ p \in es
        BY <2>2 DEF Range, es, OfType
      <4> QED BY <1>5, <4>1
    <3>2. now > p.at + l.quiet
      BY <2>1, <2>2
    <3>3. l.quiet \in Nat /\ s[place].at + Delay >= now
      BY <1>7, <1>15, <3>1
    <3> QED BY <1>7, <3>1, <3>2, <3>3
  <2> QED BY <1>24, <2>3, <2>4 DEF JustifiedBy
<1> QED
  BY <1>2, <1>16, <1>17, <1>18, <1>19, <1>20, <1>21, <1>22, <1>23, <1>24, CodesAre

(* The detectors find as much in more events, a little later and with all   *)
(* of the window, of what no later event can undo.                          *)
LEMMA DetectedMore ==
  ASSUME NEW es, Stampeds(es), NEW l \in Limits, NEW created \in Nat,
         NEW first, first \subseteq es,
         NEW row, NEW now \in Nat, NEW old, NEW then \in Nat,
         then <= now, now <= then + Delay,
         row.cost \in Nat, old.cost \in Nat, old.cost <= row.cost,
         old.active => row.active,
         NEW code \in Detected(l, old, created, first, then, Window - Delay),
         code \in Monotone \/ first = es
  PROVE  code \in Detected(l, row, created, es, now, Window)
<1>1. PICK recent, early :
        recent = Recent(es, now, Window) /\ early = Recent(first, then, Window - Delay)
  OBVIOUS
<1>2. code \in Code
  BY DetectedAreCodes
<1>3. Detects(code, l, old, created, first, early, then)
  BY <1>1, <1>2, DetectedIs
<1> SUFFICES Detects(code, l, row, created, es, recent, now)
  BY <1>1, <1>2, DetectedIs
<1>4. Window \in Nat /\ Delay \in Nat /\ Delay < Window
  BY WatchAssumption
<1>5. PICK w \in Nat : w = Window - Delay /\ w + Delay = Window
  BY <1>4
<1>6. \A e \in es : e.at \in Nat
  BY DEF Stampeds
<1>7. early \subseteq first /\ early \subseteq recent /\ recent \subseteq es
  <2>1. \A e \in first : e \in early <=> e.at + w >= then
    BY <1>1, <1>5 DEF Recent
  <2>2. \A e \in es : e \in recent <=> e.at + Window >= now
    BY <1>1 DEF Recent
  <2>3. \A e \in first : e.at + w >= then => e.at + Window >= now
    BY <1>4, <1>5, <1>6
  <2>4. early \subseteq first /\ recent \subseteq es
    BY <1>1 DEF Recent
  <2> QED BY <2>1, <2>2, <2>3, <2>4
<1>8. \A S, T : S \subseteq T /\ T \subseteq es =>
        /\ Cardinality(S) \in Nat /\ Cardinality(T) \in Nat
        /\ Cardinality(S) <= Cardinality(T)
  <2> SUFFICES ASSUME NEW S, NEW T, S \subseteq T, T \subseteq es
               PROVE  /\ Cardinality(S) \in Nat /\ Cardinality(T) \in Nat
                      /\ Cardinality(S) <= Cardinality(T)
    OBVIOUS
  <2>1. IsFiniteSet(T)
    BY FS_Subset DEF Stampeds
  <2> QED BY <2>1, MoreCount
<1>9. /\ l.calls \in Nat \ {0} /\ l.errors \in Nat /\ l.denials \in Nat
      /\ l.polls \in Nat /\ l.cycles \in Nat \ {0}
      /\ l.quiet \in Nat /\ l.runtime \in Nat /\ l.budget \in Nat /\ l.cost \in Nat
  BY DEF Limits
(* Of the same events, the present phase is the end of that of the longer   *)
(* window.                                                                  *)
<1>10. PICK m \in Nat : \A a \in Nat : a + w >= then <=> a >= m
  <2>1. CASE then <= w
    <3>1. \A a \in Nat : a + w >= then <=> a >= 0
      BY <2>1
    <3> QED BY <3>1
  <2>2. CASE ~(then <= w)
    <3>1. then - w \in Nat
      BY <2>2
    <3>2. \A a \in Nat : a + w >= then <=> a >= then - w
      OBVIOUS
    <3> QED BY <3>1, <3>2
  <2> QED BY <2>1, <2>2
<1>11. ASSUME first = es
       PROVE  Phase(early) = {e \in Phase(recent) : e.at >= m}
  <2>1. \A e \in es : e \in early <=> e.at >= m
    BY <1>1, <1>5, <1>6, <1>10, <1>11 DEF Recent
  <2>2. \A e \in Phase(recent) : e \in recent /\ e \in es
    BY <1>7 DEF Phase, OfType
  <2>3. \A e \in Phase(early) : e \in early /\ e \in es
    BY <1>7, <1>11 DEF Phase, OfType
  <2>4. ASSUME NEW e \in Phase(early) PROVE e \in Phase(recent)
    <3>1. e \in recent /\ e.kind.type = "call" /\ e.at >= m /\ e.at \in Nat
      BY <1>6, <1>7, <2>1, <2>3 DEF Phase, OfType
    <3>2. ASSUME NEW p \in OfType(recent, "progress") PROVE e.at > p.at
      <4>1. p \in es /\ p.at \in Nat
        BY <1>6, <1>7 DEF OfType
      <4>2. CASE p \in early
        BY <4>2 DEF Phase, OfType
      <4>3. CASE p \notin early
        BY <2>1, <3>1, <4>1, <4>3
      <4> QED BY <4>2, <4>3
    <3> QED BY <3>1, <3>2 DEF Phase, OfType
  <2>5. ASSUME NEW e \in Phase(recent), e.at >= m PROVE e \in Phase(early)
    <3>1. e \in early /\ e.kind.type = "call"
      BY <2>1, <2>2, <2>5 DEF Phase, OfType
    <3>2. \A p \in OfType(early, "progress") : e.at > p.at
      BY <1>7 DEF Phase, OfType
    <3> QED BY <3>1, <3>2 DEF Phase, OfType
  <2> QED BY <2>1, <2>3, <2>4, <2>5
<1>12. CASE code = "repeated_call"
  <2>1. first = es
    BY <1>12 DEF Monotone
  <2>2. PICK e \in Phase(early) :
          FpOf(e) # None /\ Cardinality(AlikeCalls(Phase(early), e)) >= l.calls
    BY <1>3, <1>12 DEF Detects
  <2>3. Phase(early) \subseteq Phase(recent) /\ Phase(recent) \subseteq es
    BY <1>7, <1>11, <2>1 DEF Phase, OfType
  <2>4. /\ AlikeCalls(Phase(early), e) \subseteq AlikeCalls(Phase(recent), e)
        /\ AlikeCalls(Phase(recent), e) \subseteq es
    BY <2>3 DEF AlikeCalls
  <2>5. Cardinality(AlikeCalls(Phase(recent), e)) >= l.calls
    BY <1>8, <1>9, <2>2, <2>4
  <2> QED BY <1>12, <2>2, <2>3, <2>5 DEF Detects
<1>13. CASE code = "retry_storm"
  <2>1. PICK e \in early :
          ErrorOf(e) # None /\ Cardinality(AlikeErrors(early, e)) >= l.errors
    BY <1>3, <1>13 DEF Detects
  <2>2. /\ AlikeErrors(early, e) \subseteq AlikeErrors(recent, e)
        /\ AlikeErrors(recent, e) \subseteq es
    BY <1>7 DEF AlikeErrors
  <2>3. Cardinality(AlikeErrors(recent, e)) >= l.errors
    BY <1>8, <1>9, <2>1, <2>2
  <2> QED BY <1>7, <1>13, <2>1, <2>3 DEF Detects
<1>14. CASE code = "repeated_denial"
  <2>1. DeniedCalls(early) \subseteq DeniedCalls(recent) /\ DeniedCalls(recent) \subseteq es
    BY <1>7 DEF DeniedCalls, OfType
  <2>2. Cardinality(DeniedCalls(early)) >= l.denials
    BY <1>3, <1>14 DEF Detects
  <2>3. Cardinality(DeniedCalls(recent)) >= l.denials
    BY <1>8, <1>9, <2>1, <2>2
  <2> QED BY <1>14, <2>3 DEF Detects
<1>15. CASE code = "excessive_polling"
  <2>1. Polls(early) \subseteq Polls(recent) /\ Polls(recent) \subseteq es
    BY <1>7 DEF Polls, OfType
  <2>2. Cardinality(Polls(early)) >= l.polls
    BY <1>3, <1>15 DEF Detects
  <2>3. Cardinality(Polls(recent)) >= l.polls
    BY <1>8, <1>9, <2>1, <2>2
  <2> QED BY <1>15, <2>3 DEF Detects
<1>16. CASE code = "cyclic_workflow"
  <2>1. first = es
    BY <1>16 DEF Monotone
  <2>2. Cyclic(Fingerprints(Phase(early)), l.cycles)
    BY <1>3, <1>16 DEF Detects
  <2>3. PICK phase, late : phase = Phase(recent) /\ late = Phase(early)
    OBVIOUS
  <2>4. phase \subseteq es /\ late = {e \in phase : e.at >= m}
    BY <1>7, <1>11, <2>1, <2>3 DEF Phase, OfType
  <2>5. Stampeds(phase)
    <3>1. IsFiniteSet(phase)
      BY <2>4, FS_Subset DEF Stampeds
    <3> QED BY <2>4, <3>1 DEF Stampeds
  <2>6. Cyclic(Fingerprints(phase), l.cycles)
    BY <1>9, <2>2, <2>3, <2>4, <2>5, CycleStays
  <2> QED BY <1>16, <2>3, <2>6 DEF Detects
<1>17. CASE code = "tool_budget"
  <2>1. OfType(first, "call") \subseteq OfType(es, "call") /\ OfType(es, "call") \subseteq es
    BY DEF OfType
  <2>2. Cardinality(OfType(first, "call")) > l.budget
    BY <1>3, <1>17 DEF Detects
  <2>3. Cardinality(OfType(es, "call")) > l.budget
    BY <1>8, <1>9, <2>1, <2>2
  <2> QED BY <1>17, <2>3 DEF Detects
<1>18. CASE code = "cost_budget"
  <2>1. old.cost > l.cost
    BY <1>3, <1>18 DEF Detects
  <2>2. row.cost > l.cost
    BY <1>9, <2>1
  <2> QED BY <1>18, <2>2 DEF Detects
<1>19. CASE code = "runtime_budget"
  <2>1. old.active /\ then > created + l.runtime
    BY <1>3, <1>19 DEF Detects
  <2>2. row.active
    BY <2>1
  <2>3. now > created + l.runtime
    BY <1>9, <2>1
  <2> QED BY <1>19, <2>2, <2>3 DEF Detects
<1>20. CASE code = "no_progress"
  <2>1. first = es
    BY <1>20 DEF Monotone
  <2>2. /\ old.active /\ then > created + l.quiet
        /\ \E e \in es : e.kind.type # "heartbeat"
        /\ \A p \in OfType(es, "progress") : then > p.at + l.quiet
    BY <1>3, <1>20, <2>1 DEF Detects
  <2>3. row.active
    BY <2>2
  <2>4. now > created + l.quiet
    BY <1>9, <2>2
  <2>5. \A p \in OfType(es, "progress") : now > p.at + l.quiet
    <3>1. \A p \in OfType(es, "progress") : p.at \in Nat
      BY <1>6 DEF OfType
    <3> QED BY <1>9, <2>2, <3>1
  <2> QED BY <1>20, <2>2, <2>3, <2>4, <2>5 DEF Detects
<1> QED
  BY <1>2, <1>12, <1>13, <1>14, <1>15, <1>16, <1>17, <1>18, <1>19, <1>20, CodesAre

(* A task that was active before, when it is so still.                      *)
LEMMA DetectedStill ==
  ASSUME NEW l, NEW created, NEW es, NEW now, NEW window, NEW row, NEW old,
         row.cost = old.cost, old.active => row.active,
         NEW code \in Detected(l, old, created, es, now, window)
  PROVE  code \in Detected(l, row, created, es, now, window)
<1>1. PICK recent : recent = Recent(es, now, window)
  OBVIOUS
<1>2. code \in Code
  BY DetectedAreCodes
<1>3. Detects(code, l, old, created, es, recent, now)
  BY <1>1, <1>2, DetectedIs
<1> SUFFICES Detects(code, l, row, created, es, recent, now)
  BY <1>1, <1>2, DetectedIs
<1>4. CASE code \in {"runtime_budget", "no_progress"}
  BY <1>3, <1>4 DEF Detects
<1>5. CASE code \in {"repeated_call", "retry_storm", "repeated_denial", "excessive_polling",
                     "cyclic_workflow", "tool_budget", "cost_budget"}
  BY <1>3, <1>5 DEF Detects
<1> QED
  BY <1>2, <1>4, <1>5, CodesAre

BreachedBy(row, s, k) ==
  Detected(row.limits, [cost |-> CostOf(FirstFew(s, k)), active |-> row.active],
           row.created, FirstFew(s, k), s[k].at, Window - Delay)

LEMMA BreachedIs == \A t, k : Breached(t, k) = BreachedBy(tasks[t], events[t], k)
  BY DEF Breached, BreachedBy, Prefix, FirstFew, CostOf

-----------------------------------------------------------------------------
(* What a step does to the tasks, to their events and to the clock.         *)

(* What a row may become                                                    *)
Follows(row, old) ==
  /\ row \in TaskRow /\ row.limits = old.limits /\ row.created = old.created
  /\ row.active => old.active
  /\ old.cost <= row.cost

Grows ==
  /\ clock \in Nat /\ clock' \in Nat /\ clock <= clock'
  /\ \A t \in Task :
       /\ events[t] \in Seq(Event) /\ events'[t] \in Seq(Event)
       /\ Extends(events[t], events'[t])
       /\ tasks[t] # None => tasks[t] \in TaskRow /\ Follows(tasks'[t], tasks[t])

(* An event is recorded, by the observer c for its task t.                  *)
Recording(c, t, e) ==
  /\ thread[c].pc = "insert" /\ t = thread[c].task /\ e.at = thread[c].at
  /\ events' = [events EXCEPT ![t] = Append(events[t], e)]
  /\ tasks[t] \in TaskRow /\ Follows(tasks'[t], tasks[t])
  /\ tasks'[t].cost = tasks[t].cost + e.kind.cost
  /\ tasks'[t].active => tasks[t].active /\ e.kind.type # "end"
  /\ \A u \in Task \ {t} : tasks'[u] = tasks[u]
  /\ open' = [open EXCEPT ![t] = open[t] \cup {Len(events[t]) + 1}]
  /\ \E o : /\ thread' = [thread EXCEPT ![c] = o]
            /\ o.pc = "reread" /\ o.task = t /\ o.at = e.at
            /\ o.place = Len(events[t]) + 1
  /\ UNCHANGED <<clock, findings, reviewed>>

LEMMA RecordIs ==
  ASSUME WatchTypeOK, WorkersOwn, NEW c \in Observer, RecordEvent(c)
  PROVE  \E t \in Task, e \in Event : Recording(c, t, e)
<1>1. thread[c].pc = "insert" /\ thread[c] \in Doing
  BY DEF RecordEvent, WatchTypeOK
<1>2. PICK t \in Task, a \in Agent, route \in Route, k \in Kind, at \in 0..MaxTime :
        /\ t = thread[c].task /\ a = thread[c].agent /\ route = thread[c].route
        /\ k = thread[c].kind /\ at = thread[c].at
  BY <1>1, DoingParts DEF Working
<1>3. PICK e \in Event : e = [kind |-> k, agent |-> a, at |-> at]
  BY DEF Event
<1>4. events' = [events EXCEPT ![t] = Append(events[t], e)]
  BY <1>2, <1>3 DEF RecordEvent
<1>5. Len(events'[t]) = Len(events[t]) + 1
  BY <1>4 DEF WatchTypeOK
<1>6. open' = [open EXCEPT ![t] = open[t] \cup {Len(events[t]) + 1}]
  BY <1>2, <1>5 DEF RecordEvent
<1>7. \E o : /\ thread' = [thread EXCEPT ![c] = o]
             /\ o.pc = "reread" /\ o.task = t /\ o.at = e.at
             /\ o.place = Len(events[t]) + 1
  <2>1. PICK o : o = [pc |-> "reread", route |-> route, agent |-> a, task |-> t,
                      at |-> at, place |-> Len(events[t]) + 1]
    OBVIOUS
  <2>2. thread' = [thread EXCEPT ![c] = o]
    BY <1>2, <1>5, <2>1 DEF RecordEvent
  <2>3. o.pc = "reread" /\ o.task = t /\ o.at = e.at /\ o.place = Len(events[t]) + 1
    BY <1>3, <2>1
  <2> QED BY <2>2, <2>3
<1>8. tasks[t] \in TaskRow
  BY <1>1, <1>2 DEF WatchTypeOK, WorkersOwn, Working, Owned
<1> DEFINE b == tasks[t].active /\ k.type # "end"
<1>9. tasks' = [tasks EXCEPT ![t] = [tasks[t] EXCEPT !.cost = tasks[t].cost + k.cost,
                                                     !.active = b]]
  BY <1>2 DEF RecordEvent
<1>10. /\ b \in BOOLEAN /\ (b => tasks[t].active /\ e.kind.type # "end")
       /\ k.cost \in Nat /\ e.kind.cost = k.cost
  BY <1>3 DEF Kind
<1> HIDE DEF b
<1>11. PICK n \in Nat : n = tasks[t].cost + k.cost /\ tasks[t].cost <= n
  BY <1>8, <1>10 DEF TaskRow
<1>12. PICK row : row = [tasks[t] EXCEPT !.cost = n, !.active = b]
  OBVIOUS
<1>13. row \in TaskRow /\ row.limits = tasks[t].limits /\ row.created = tasks[t].created
       /\ row.active = b /\ row.cost = n
  BY <1>8, <1>10, <1>12 DEF TaskRow
<1>14. tasks'[t] = row /\ \A u \in Task \ {t} : tasks'[u] = tasks[u]
  BY <1>9, <1>11, <1>12 DEF WatchTypeOK
<1>15. Follows(row, tasks[t])
  BY <1>10, <1>11, <1>13 DEF Follows
<1>16. /\ tasks'[t].cost = tasks[t].cost + e.kind.cost /\ Follows(tasks'[t], tasks[t])
       /\ tasks'[t].active => tasks[t].active /\ e.kind.type # "end"
  BY <1>10, <1>11, <1>13, <1>14, <1>15
<1>17. e.at = thread[c].at /\ UNCHANGED <<clock, findings, reviewed>>
  BY <1>2, <1>3 DEF RecordEvent
<1>18. Recording(c, t, e)
  BY <1>1, <1>2, <1>4, <1>6, <1>7, <1>8, <1>14, <1>16, <1>17 DEF Recording
<1> QED
  BY <1>18

LEMMA SameFollows ==
  ASSUME NEW row \in TaskRow PROVE Follows(row, row)
  BY DEF Follows, TaskRow

LEMMA SameExtends ==
  ASSUME NEW s \in Seq(Event) PROVE Extends(s, s)
  BY DEF Extends

(* The clock stands still or advances.                                      *)
LEMMA ClockGrows ==
  ASSUME WatchTypeOK, [WatchNext]_watchVars
  PROVE  clock' = clock \/ Advance
  BY ZenonT(40) DEF WatchNext, watchVars, Pass, CreateTask, ObserveDecision, ObserveExecution,
    Ingest, Observe, RecordEvent, Reread, Analyze, UpsertFinding, AuditFinding, Fail,
    RecordFailure, Stop, ReviewFinding

LEMMA StepGrows ==
  ASSUME WatchTypeOK, WorkersOwn, [WatchNext]_watchVars
  PROVE  Grows
<1>1. clock \in Nat /\ clock' \in Nat /\ clock <= clock'
  BY ClockGrows, WatchAssumption DEF WatchTypeOK, Advance
<1>2. \A t \in Task : /\ events[t] \in Seq(Event)
                      /\ tasks[t] # None => tasks[t] \in TaskRow
  BY DEF WatchTypeOK
<1>3. ASSUME NEW c \in Observer, RecordEvent(c) PROVE Grows
  <2>1. PICK t \in Task, e \in Event : Recording(c, t, e)
    BY <1>3, RecordIs
  <2>2. /\ events' = [events EXCEPT ![t] = Append(events[t], e)]
        /\ tasks[t] \in TaskRow /\ Follows(tasks'[t], tasks[t])
        /\ \A u \in Task \ {t} : tasks'[u] = tasks[u]
    BY <2>1 DEF Recording
  <2>3. events'[t] = Append(events[t], e) /\ \A u \in Task \ {t} : events'[u] = events[u]
    BY <2>2 DEF WatchTypeOK
  <2>4. ASSUME NEW u \in Task
        PROVE  /\ events'[u] \in Seq(Event) /\ Extends(events[u], events'[u])
               /\ tasks[u] # None => Follows(tasks'[u], tasks[u])
    <3>1. CASE u = t
      BY <1>2, <2>2, <2>3, <3>1, Appended
    <3>2. CASE u # t
      BY <1>2, <2>2, <2>3, <3>2, SameExtends, SameFollows
    <3> QED BY <3>1, <3>2
  <2> QED BY <1>1, <1>2, <2>4 DEF Grows
<1>4. ASSUME events' = events,
             \A t \in Task : tasks[t] # None => tasks'[t] = tasks[t]
      PROVE  Grows
  BY <1>1, <1>2, <1>4, SameExtends, SameFollows DEF Grows
<1>5. ASSUME events' = events, NEW a \in Agent, NEW t \in Task,
             NEW limits \in {Default, Asked}, tasks' = Created(a, t, limits)
      PROVE  Grows
  BY <1>4, <1>5, CreatedTyped, TypeParts
<1>6. CASE events' = events /\ tasks' = tasks
  BY <1>4, <1>6
<1> QED
  BY ZenonT(40), <1>3, <1>5, <1>6
  DEF WatchNext, watchVars, Pass, CreateTask, ObserveDecision, ObserveExecution,
    Ingest, Observe, Reread, Analyze, UpsertFinding, AuditFinding, Fail,
    RecordFailure, Stop, ReviewFinding

(* An observer takes something up, or gives it up; nothing else that the    *)
(* findings come of changes.                                                *)
Turning(c, o) ==
  /\ thread' = [thread EXCEPT ![c] = o]
  /\ UNCHANGED <<events, open, findings, reviewed>>
  /\ \/ o.pc \in {"idle", "audit", "failing"} /\ clock' = clock
     \/ o.pc = "insert" /\ o.at = clock' /\ Advance

Resting == UNCHANGED <<events, open, findings, reviewed, thread>>

LEMMA StepIs ==
  ASSUME WatchTypeOK, [WatchNext]_watchVars
  PROVE  \/ Resting
         \/ \E c \in Observer : \E o : Turning(c, o)
         \/ \E c \in Observer :
              RecordEvent(c) \/ Reread(c) \/ Analyze(c) \/ UpsertFinding(c)
         \/ \E t \in Task, code \in Code, status \in Reviews :
              ReviewFinding(t, code, status)
<1>1. ASSUME NEW c \in Observer, NEW a \in Agent, NEW t \in Task, NEW k \in Decisions,
             ObserveDecision(c, a, t, k)
      PROVE  \E o : Turning(c, o)
  <2>1. CASE tasks'[t].owner = a
    <3>1. PICK o : o = Started("decision", a, t, k)
      OBVIOUS
    <3>2. o.pc = "insert" /\ o.at = clock'
      BY <3>1 DEF Started
    <3>3. Turning(c, o)
      BY <1>1, <2>1, <3>1, <3>2 DEF ObserveDecision, Turning
    <3> QED BY <3>3
  <2>2. CASE tasks'[t].owner # a
    <3>1. PICK o : o = [pc |-> "failing", task |-> t, agent |-> a]
      OBVIOUS
    <3>2. o.pc = "failing"
      BY <3>1
    <3>3. Turning(c, o)
      BY <1>1, <2>2, <3>1, <3>2 DEF ObserveDecision, Turning
    <3> QED BY <3>3
  <2> QED BY <2>1, <2>2
<1>2. ASSUME NEW c \in Observer, NEW a \in Agent, NEW t \in Task, NEW k, NEW route,
             Observe(route, c, a, t, k)
      PROVE  \E o : Turning(c, o)
  <2>1. PICK o : o = Started(route, a, t, k)
    OBVIOUS
  <2>2. o.pc = "insert" /\ o.at = clock'
    BY <2>1 DEF Started
  <2>3. Turning(c, o)
    BY <1>2, <2>1, <2>2 DEF Observe, Turning
  <2> QED BY <2>3
<1>3. ASSUME NEW c \in Observer, AuditFinding(c) PROVE \E o : Turning(c, o)
  <2>1. thread[c].pc = "audit" /\ thread[c] \in Doing
    BY <1>3, AtWork DEF AuditFinding
  <2>2. thread[c] = [pc |-> "audit", route |-> thread[c].route,
                     agent |-> thread[c].agent, task |-> thread[c].task,
                     done |-> thread[c].done]
    BY <2>1, DoingParts
  <2>3. \A S : [thread[c] EXCEPT !.done = S].pc = "audit"
    BY <2>2
  <2>4. \E o : thread' = [thread EXCEPT ![c] = o] /\ o.pc \in {"idle", "audit"}
    BY <1>3, <2>3, IdleDoes DEF AuditFinding
  <2> QED BY <1>3, <2>4 DEF AuditFinding, Turning
<1>4. ASSUME NEW c \in Observer, Fail(c) \/ RecordFailure(c) \/ Stop(c)
      PROVE  \E o : Turning(c, o)
  <2>1. PICK o : o = [pc |-> "failing", task |-> thread[c].task, agent |-> thread[c].agent]
    OBVIOUS
  <2>2. o.pc = "failing"
    BY <2>1
  <2>3. Turning(c, o) \/ Turning(c, Idle)
    BY <1>4, <2>1, <2>2, IdleDoes DEF Fail, RecordFailure, Stop, Turning
  <2> QED BY <2>3
<1>5. CASE Pass \/ UNCHANGED watchVars \/ \E a \in Agent, t \in Task : CreateTask(a, t)
  BY <1>5 DEF Pass, watchVars, CreateTask, Resting
<1> QED
  BY <1>1, <1>2, <1>3, <1>4, <1>5 DEF WatchNext, ObserveExecution, Ingest

-----------------------------------------------------------------------------
(* Stamps and the time an analysis takes.                                   *)

(* No two events of a task have one stamp, nor an event and one that is to  *)
(* be inserted, and none is of the future.                                  *)
Stamps ==
  /\ \A t \in Task : \A i \in DOMAIN events[t] :
       /\ events[t][i].at <= clock
       /\ \A j \in DOMAIN events[t] : events[t][i].at = events[t][j].at => i = j
  /\ \A c \in Observer : thread[c].pc = "insert" =>
       /\ \A t \in Task : \A i \in DOMAIN events[t] : events[t][i].at # thread[c].at
       /\ \A d \in Observer \ {c} : thread[d].pc = "insert" => thread[d].at # thread[c].at

(* An observer works on its event in time.                                  *)
Timely(o, es, time) ==
  o.pc \in {"insert", "reread", "list"} =>
    /\ o.at <= time /\ time <= o.at + Delay
    /\ o.pc = "list" => o.at <= o.now /\ o.now <= time
    /\ o.pc \in {"reread", "list"} => es[o.task][o.place].at = o.at

InTime == \A c \in Observer : Timely(thread[c], events, clock)

(* What an observer knows when it has listed the events.                    *)
LEMMA ListTyped ==
  ASSUME NEW o \in Doing
  PROVE  /\ o.pc \in {"insert", "reread", "list"} =>
              o.at \in Nat /\ o.task \in Task /\ o.pc \in Working
         /\ o.pc = "list" =>
              /\ o.now \in Nat /\ o.row.cost \in Nat /\ o.row.active \in BOOLEAN
              /\ o.place \in Nat
<1>1. 0..MaxTime \subseteq Nat
  BY WatchAssumption
<1> QED
  BY <1>1 DEF Doing, Idle, Working

LEMMA Turns ==
  ASSUME WatchTypeOK, NEW c \in Observer, NEW o, thread' = [thread EXCEPT ![c] = o]
  PROVE  \A d \in Observer : thread'[d] = IF d = c THEN o ELSE thread[d]
  BY DEF WatchTypeOK

LEMMA PersistingIs ==
  ASSUME NEW o, NEW todo, NEW done, NEW p, p = Persisting(o, todo, done)
  PROVE  /\ p.pc \in {"persist", "audit", "idle"}
         /\ p.pc = "persist" <=> todo # {}
         /\ p.pc = "persist" => p.task = o.task /\ p.place = o.place /\ p.todo = todo
<1>1. CASE todo # {}
  <2>1. p = [pc |-> "persist", route |-> o.route, agent |-> o.agent, task |-> o.task,
             place |-> o.place, todo |-> todo, done |-> done]
    BY <1>1 DEF Persisting
  <2> QED BY <1>1, <2>1
<1>2. CASE todo = {} /\ done # {}
  <2>1. p = [pc |-> "audit", route |-> o.route, agent |-> o.agent, task |-> o.task,
             done |-> done]
    BY <1>2 DEF Persisting
  <2> QED BY <1>2, <2>1
<1>3. CASE todo = {} /\ done = {}
  BY <1>3, IdleDoes DEF Persisting
<1> QED
  BY <1>1, <1>2, <1>3

(* The task is read again.                                                  *)
Rereading(c, o) ==
  /\ thread[c].pc = "reread" /\ thread' = [thread EXCEPT ![c] = o]
  /\ o.pc = "list" /\ o.task = thread[c].task /\ o.at = thread[c].at
  /\ o.place = thread[c].place /\ o.row = Read(thread[c].task)
  /\ o.now = thread[c].at \/ o.now = clock
  /\ UNCHANGED <<clock, tasks, events, findings, open, reviewed>>

LEMMA RereadIs ==
  ASSUME NEW c \in Observer, Reread(c)
  PROVE  \E o : Rereading(c, o)
<1> DEFINE w == thread[c]
<1>1. PICK now : now = IF w.route = "report" THEN w.at ELSE clock
  OBVIOUS
<1>2. PICK row : row = Read(w.task)
  OBVIOUS
<1>3. PICK o : o = [pc |-> "list", route |-> w.route, agent |-> w.agent, task |-> w.task,
                    at |-> w.at, place |-> w.place, row |-> row, now |-> now]
  OBVIOUS
<1>4. thread' = [thread EXCEPT ![c] = o]
  BY <1>1, <1>2, <1>3 DEF Reread
<1>5. /\ o.pc = "list" /\ o.task = w.task /\ o.at = w.at /\ o.place = w.place
      /\ o.row = row /\ o.now = now
  BY <1>3
<1>6. Rereading(c, o)
  BY <1>1, <1>2, <1>4, <1>5 DEF Reread, Rereading
<1> QED
  BY <1>6

(* Findings are found, or persisted.                                        *)
LEMMA FindingsAre ==
  ASSUME NEW c \in Observer, Analyze(c) \/ UpsertFinding(c)
  PROVE  \E todo, done : thread' = [thread EXCEPT ![c] = Persisting(thread[c], todo, done)]
  BY DEF Analyze, UpsertFinding

(* Only an observer's own analysis and its own findings make it persist     *)
(* anything else than before.                                               *)
LEMMA WhoPersists ==
  ASSUME WatchTypeOK, [WatchNext]_watchVars, NEW d \in Observer,
         thread'[d].pc = "persist", thread'[d] # thread[d]
  PROVE  Analyze(d) \/ UpsertFinding(d)
<1>1. ASSUME NEW c \in Observer, NEW o, thread' = [thread EXCEPT ![c] = o]
      PROVE  c = d /\ o.pc = "persist"
  BY <1>1, Turns
<1>2. ASSUME NEW c \in Observer, NEW o, Turning(c, o) PROVE FALSE
  BY <1>1, <1>2 DEF Turning
<1>3. ASSUME NEW c \in Observer, RecordEvent(c) PROVE FALSE
  <2>1. \E o : thread' = [thread EXCEPT ![c] = o] /\ o.pc = "reread"
    <3>1. PICK o : o = [pc |-> "reread", route |-> thread[c].route,
                        agent |-> thread[c].agent, task |-> thread[c].task,
                        at |-> thread[c].at, place |-> Len(events'[thread[c].task])]
      OBVIOUS
    <3>2. o.pc = "reread"
      BY <3>1
    <3> QED BY <1>3, <3>1, <3>2 DEF RecordEvent
  <2> QED BY <1>1, <2>1
<1>4. ASSUME NEW c \in Observer, Reread(c) PROVE FALSE
  <2>1. PICK o : Rereading(c, o)
    BY <1>4, RereadIs
  <2> QED BY <1>1, <2>1 DEF Rereading
<1>5. ASSUME NEW c \in Observer, Analyze(c) \/ UpsertFinding(c) PROVE c = d
  BY <1>1, <1>5, FindingsAre
<1>6. CASE Resting \/ \E t \in Task, code \in Code, s \in Reviews : ReviewFinding(t, code, s)
  BY <1>6 DEF Resting, ReviewFinding
<1> QED
  BY <1>2, <1>3, <1>4, <1>5, <1>6, StepIs

(* Every event keeps its place.                                             *)
LEMMA PlaceKept ==
  ASSUME Grows, NEW t \in Task, NEW k \in DOMAIN events[t]
  PROVE  k \in DOMAIN events'[t] /\ events'[t][k] = events[t][k]
  BY DEF Grows, Extends

LEMMA InTimeStep ==
  WatchTypeOK /\ WorkersOwn /\ InTime /\ [WatchNext]_watchVars => InTime'
<1> SUFFICES ASSUME WatchTypeOK, WorkersOwn, InTime, [WatchNext]_watchVars,
                    NEW d \in Observer
             PROVE  Timely(thread'[d], events', clock')
  BY DEF InTime
<1>0. Grows /\ clock \in Nat /\ clock' \in Nat /\ clock <= clock' /\ Delay \in Nat
  BY StepGrows, WatchAssumption DEF Grows
<1>1. thread[d] \in Doing /\ Timely(thread[d], events, clock)
  BY AtWork DEF InTime
<1>2. ASSUME thread'[d] = thread[d] PROVE Timely(thread'[d], events', clock')
  <2> SUFFICES ASSUME thread[d].pc \in {"insert", "reread", "list"}
               PROVE  Timely(thread[d], events', clock')
    BY <1>2 DEF Timely
  <2>1. /\ thread[d].at \in Nat /\ thread[d].task \in Task
        /\ thread[d].pc = "list" => thread[d].now \in Nat
    BY <1>1, ListTyped
  <2>2. clock' <= thread[d].at + Delay
    <3>1. clock' = clock \/ Advance
      BY ClockGrows
    <3> QED BY <1>0, <1>1, <2>1, <3>1 DEF Advance, Stamped, Timely
  <2>3. ASSUME thread[d].pc \in {"reread", "list"}
        PROVE  events'[thread[d].task][thread[d].place].at = thread[d].at
    <3>1. thread[d].place \in DOMAIN events[thread[d].task]
      BY <2>3 DEF WatchTypeOK
    <3> QED BY <1>0, <1>1, <2>1, <2>3, <3>1, PlaceKept DEF Timely
  <2>4. /\ thread[d].at <= clock'
        /\ thread[d].pc = "list" => thread[d].at <= thread[d].now /\ thread[d].now <= clock'
    BY <1>0, <1>1, <2>1 DEF Timely
  <2> QED BY <2>2, <2>3, <2>4 DEF Timely
<1>3. ASSUME NEW c \in Observer, NEW o, thread' = [thread EXCEPT ![c] = o],
             Timely(o, events', clock')
      PROVE  Timely(thread'[d], events', clock')
  BY <1>2, <1>3, Turns
<1>4. ASSUME NEW c \in Observer, NEW o, Turning(c, o)
      PROVE  Timely(thread'[d], events', clock')
  <2>1. Timely(o, events', clock')
    BY <1>0, <1>4 DEF Turning, Timely
  <2> QED BY <1>3, <1>4, <2>1 DEF Turning
<1>5. ASSUME NEW c \in Observer, RecordEvent(c)
      PROVE  Timely(thread'[d], events', clock')
  <2>1. PICK t \in Task, e \in Event : Recording(c, t, e)
    BY <1>5, RecordIs
  <2>2. PICK o : /\ thread' = [thread EXCEPT ![c] = o]
                 /\ o.pc = "reread" /\ o.task = t /\ o.at = e.at
                 /\ o.place = Len(events[t]) + 1
    BY <2>1 DEF Recording
  <2>3. thread[c].pc = "insert" /\ e.at = thread[c].at /\ clock' = clock
        /\ events' = [events EXCEPT ![t] = Append(events[t], e)]
    BY <2>1 DEF Recording
  <2>4. events'[t] = Append(events[t], e) /\ events[t] \in Seq(Event)
    BY <2>3 DEF WatchTypeOK
  <2>5. events'[t][Len(events[t]) + 1] = e
    BY <2>4, Appended
  <2>6. Timely(thread[c], events, clock)
    BY DEF InTime
  <2>7. Timely(o, events', clock')
    BY <2>2, <2>3, <2>5, <2>6 DEF Timely
  <2> QED BY <1>3, <2>2, <2>7
<1>6. ASSUME NEW c \in Observer, Reread(c) PROVE Timely(thread'[d], events', clock')
  <2>1. PICK o : Rereading(c, o)
    BY <1>6, RereadIs
  <2>2. Timely(thread[c], events, clock) /\ thread[c].at \in Nat
    BY <2>1, AtWork, ListTyped DEF InTime, Rereading
  <2>3. Timely(o, events', clock')
    BY <1>0, <2>1, <2>2 DEF Rereading, Timely
  <2> QED BY <1>3, <2>1, <2>3 DEF Rereading
<1>7. ASSUME NEW c \in Observer, Analyze(c) \/ UpsertFinding(c)
      PROVE  Timely(thread'[d], events', clock')
  <2>1. PICK todo, done : thread' = [thread EXCEPT ![c] = Persisting(thread[c], todo, done)]
    BY <1>7, FindingsAre
  <2>2. PICK p : p = Persisting(thread[c], todo, done)
    OBVIOUS
  <2>3. Timely(p, events', clock')
    BY <2>2, PersistingIs DEF Timely
  <2> QED BY <1>3, <2>1, <2>2, <2>3
<1>8. CASE Resting \/ \E t \in Task, code \in Code, s \in Reviews : ReviewFinding(t, code, s)
  BY <1>2, <1>8 DEF Resting, ReviewFinding
<1> QED
  BY <1>4, <1>5, <1>6, <1>7, <1>8, StepIs

(* A new stamp is later than all others.                                    *)
LEMMA StampsStep ==
  WatchTypeOK /\ WorkersOwn /\ Stamps /\ InTime /\ [WatchNext]_watchVars => Stamps'
<1> SUFFICES ASSUME WatchTypeOK, WorkersOwn, Stamps, InTime, [WatchNext]_watchVars
             PROVE  Stamps'
  OBVIOUS
<1>0. Grows /\ clock \in Nat /\ clock' \in Nat /\ clock <= clock'
  BY StepGrows DEF Grows
<1>1. \A t \in Task : \A i \in DOMAIN events[t] : events[t][i].at \in Nat
  <2>1. \A t \in Task : \A i \in DOMAIN events[t] : events[t][i] \in Event
    BY DEF WatchTypeOK
  <2>2. \A e \in Event : e.at \in Nat
    BY WatchAssumption DEF Event
  <2> QED BY <2>1, <2>2
<1>2. \A c \in Observer : thread[c].pc = "insert" =>
        thread[c].at \in Nat /\ thread[c].at <= clock
  BY AtWork, ListTyped DEF InTime, Timely
(* No event more                                                            *)
<1>3. ASSUME events' = events,
             \A c \in Observer : thread'[c].pc = "insert" =>
               /\ \A t \in Task : \A i \in DOMAIN events[t] : events[t][i].at # thread'[c].at
               /\ \A d \in Observer \ {c} :
                    thread'[d].pc = "insert" => thread'[d].at # thread'[c].at
      PROVE  Stamps'
  <2>1. \A t \in Task : \A i \in DOMAIN events[t] : events[t][i].at <= clock'
    BY <1>0, <1>1 DEF Stamps
  <2> QED BY <1>3, <2>1 DEF Stamps
<1>4. ASSUME events' = events,
             \A c \in Observer : thread'[c].pc = "insert" => thread'[c] = thread[c]
      PROVE  Stamps'
  BY <1>3, <1>4 DEF Stamps
<1>5. ASSUME NEW c \in Observer, NEW o, Turning(c, o) PROVE Stamps'
  <2>1. \A d \in Observer : thread'[d] = IF d = c THEN o ELSE thread[d]
    BY <1>5, Turns DEF Turning
  <2>2. CASE o.pc # "insert"
    BY <1>4, <1>5, <2>1, <2>2 DEF Turning
  <2>3. CASE o.pc = "insert"
    <3>1. o.at = clock + 1 /\ events' = events
      BY <1>5, <2>3 DEF Turning, Advance
    <3>2. \A t \in Task : \A i \in DOMAIN events[t] : events[t][i].at # o.at
      BY <1>0, <1>1, <3>1 DEF Stamps
    <3>3. \A d \in Observer : thread[d].pc = "insert" => thread[d].at # o.at
      BY <1>0, <1>2, <3>1
    <3> QED BY <1>3, <2>1, <3>1, <3>2, <3>3 DEF Stamps
  <2> QED BY <2>2, <2>3
<1>6. ASSUME NEW c \in Observer, RecordEvent(c) PROVE Stamps'
  <2>1. PICK t \in Task, e \in Event : Recording(c, t, e)
    BY <1>6, RecordIs
  <2>2. PICK o : thread' = [thread EXCEPT ![c] = o] /\ o.pc = "reread"
    BY <2>1 DEF Recording
  <2>3. \A d \in Observer : thread'[d] = IF d = c THEN o ELSE thread[d]
    BY <2>2, Turns
  <2>4. thread[c].pc = "insert" /\ e.at = thread[c].at /\ clock' = clock
        /\ events' = [events EXCEPT ![t] = Append(events[t], e)]
    BY <2>1 DEF Recording
  <2>5. PICK s \in Seq(Event) : s = events[t]
    BY DEF WatchTypeOK
  <2>6. events'[t] = Append(s, e) /\ \A u \in Task \ {t} : events'[u] = events[u]
    BY <2>4, <2>5 DEF WatchTypeOK
  <2>7. /\ DOMAIN events'[t] = 1..(Len(s) + 1) /\ events'[t][Len(s) + 1] = e
        /\ \A i \in 1..Len(s) : events'[t][i] = s[i]
        /\ DOMAIN s = 1..Len(s) /\ Len(s) \in Nat
    BY <2>6, Appended
  <2>8. \A i \in DOMAIN events'[t] :
          events'[t][i] = e \/ (i \in DOMAIN s /\ events'[t][i] = s[i])
    BY <2>7
  <2>9. \A u \in Task : \A i \in DOMAIN events'[u] :
          \/ events'[u][i] = e
          \/ i \in DOMAIN events[u] /\ events'[u][i] = events[u][i]
    BY <2>5, <2>6, <2>8
  <2>10. e.at <= clock
    BY <1>2, <2>4
  <2>11. \A u \in Task : \A i \in DOMAIN events[u] : events[u][i].at # e.at
    BY <2>4 DEF Stamps
  <2>12. \A u \in Task : \A i \in DOMAIN events'[u] : events'[u][i].at <= clock'
    BY <2>4, <2>9, <2>10 DEF Stamps
  <2>13. ASSUME NEW u \in Task, NEW i \in DOMAIN events'[u], NEW j \in DOMAIN events'[u],
                events'[u][i].at = events'[u][j].at
         PROVE  i = j
    <3>1. CASE u # t
      BY <2>6, <2>13, <3>1 DEF Stamps
    <3>2. CASE u = t
      <4>1. \A k \in DOMAIN s : s[k].at # e.at
        BY <2>5, <2>11
      <4>2. \A k, m \in DOMAIN s : s[k].at = s[m].at => k = m
        BY <2>5 DEF Stamps
      <4>3. \A k \in DOMAIN events'[t] : k = Len(s) + 1 \/ k \in DOMAIN s
        BY <2>7
      <4> QED BY <2>7, <2>13, <3>2, <4>1, <4>2, <4>3
    <3> QED BY <3>1, <3>2
  <2>14. \A d \in Observer : thread'[d].pc = "insert" => d # c /\ thread'[d] = thread[d]
    BY <2>2, <2>3
  <2>15. \A d \in Observer \ {c} : thread[d].pc = "insert" => thread[d].at # e.at
    BY <2>4 DEF Stamps
  <2>16. \A d \in Observer : thread'[d].pc = "insert" =>
           /\ \A u \in Task : \A i \in DOMAIN events'[u] : events'[u][i].at # thread'[d].at
           /\ \A b \in Observer \ {d} :
                thread'[b].pc = "insert" => thread'[b].at # thread'[d].at
    BY <2>9, <2>14, <2>15 DEF Stamps
  <2> QED BY <2>12, <2>13, <2>16 DEF Stamps
<1>7. ASSUME NEW c \in Observer, Reread(c) PROVE Stamps'
  <2>1. PICK o : Rereading(c, o)
    BY <1>7, RereadIs
  <2> QED BY <1>4, <2>1, Turns DEF Rereading
<1>8. ASSUME NEW c \in Observer, Analyze(c) \/ UpsertFinding(c) PROVE Stamps'
  <2>1. PICK todo, done : thread' = [thread EXCEPT ![c] = Persisting(thread[c], todo, done)]
    BY <1>8, FindingsAre
  <2>2. PICK p : p = Persisting(thread[c], todo, done)
    OBVIOUS
  <2>3. p.pc # "insert"
    BY <2>2, PersistingIs
  <2>4. events' = events
    BY <1>8 DEF Analyze, UpsertFinding
  <2> QED BY <1>4, <2>1, <2>2, <2>3, <2>4, Turns
<1>9. CASE Resting \/ \E t \in Task, code \in Code, s \in Reviews : ReviewFinding(t, code, s)
  BY <1>4, <1>9 DEF Resting, ReviewFinding
<1> QED
  BY <1>5, <1>6, <1>7, <1>8, <1>9, StepIs

-----------------------------------------------------------------------------
(* What a task has cost, and what an observer has read of it.               *)

(* The cost of a task is that of its events, and while it is active none of *)
(* them has ended it.                                                       *)
Costs ==
  \A t \in Task : tasks[t] # None =>
    /\ tasks[t].cost = CostOf(Range(events[t]))
    /\ tasks[t].active => Going(Range(events[t]))

(* The row an observer has read has the cost of the event it works on and   *)
(* of all before, shows the task active if it still is, and does not when   *)
(* one of those events ended it.                                            *)
RowKnown(o, rows, es) ==
  o.pc = "list" =>
    /\ o.row.cost <= rows[o.task].cost
    /\ CostOf(FirstFew(es[o.task], o.place)) <= o.row.cost
    /\ rows[o.task].active => o.row.active
    /\ o.row.active => Going(FirstFew(es[o.task], o.place))

RowsRead == \A c \in Observer : RowKnown(thread[c], tasks, events)

LEMMA CostsStep ==
  /\ WatchTypeOK /\ WorkersOwn /\ EventsBelongToOwner /\ Stamps /\ InTime /\ Costs
  /\ [WatchNext]_watchVars
  => Costs'
<1> SUFFICES ASSUME WatchTypeOK, WorkersOwn, EventsBelongToOwner, Stamps, InTime, Costs,
                    [WatchNext]_watchVars
             PROVE  Costs'
  OBVIOUS
<1>1. ASSUME NEW c \in Observer, RecordEvent(c) PROVE Costs'
  <2>1. PICK t \in Task, e \in Event : Recording(c, t, e)
    BY <1>1, RecordIs
  <2>2. /\ thread[c].pc = "insert" /\ e.at = thread[c].at
        /\ events' = [events EXCEPT ![t] = Append(events[t], e)]
        /\ tasks[t] \in TaskRow
        /\ tasks'[t].cost = tasks[t].cost + e.kind.cost
        /\ tasks'[t].active => tasks[t].active /\ e.kind.type # "end"
        /\ \A u \in Task \ {t} : tasks'[u] = tasks[u]
    BY <2>1 DEF Recording
  <2>3. PICK s \in Seq(Event) : s = events[t]
    BY DEF WatchTypeOK
  <2>4. events'[t] = Append(s, e) /\ \A u \in Task \ {t} : events'[u] = events[u]
    BY <2>2, <2>3 DEF WatchTypeOK
  <2>5. Range(events'[t]) = Range(s) \cup {e} /\ Range(s) \in EventSets
    BY <2>4, Appended, FirstAre
  <2>6. e \notin Range(s)
    BY <2>2, <2>3 DEF Range, Stamps
  <2>7. CostOf(Range(events'[t])) = CostOf(Range(s)) + e.kind.cost
    BY <2>5, <2>6, CostGrows
  <2>8. tasks[t].cost = CostOf(Range(s))
    BY <2>2, <2>3, WatchAssumption DEF Costs
  <2>9. tasks'[t].active => Going(Range(events'[t]))
    <3>1. tasks[t].active => Going(Range(s))
      BY <2>2, <2>3, WatchAssumption DEF Costs
    <3> QED BY <2>2, <2>5, <3>1 DEF Going, OfType
  <2> QED BY <2>2, <2>4, <2>7, <2>8, <2>9 DEF Costs
<1>2. ASSUME NEW a \in Agent, NEW t \in Task, NEW limits \in {Default, Asked},
             tasks' = Created(a, t, limits), events' = events
      PROVE  Costs'
  <2>1. CASE tasks[t] # None
    BY <1>2, <2>1 DEF Created, Costs
  <2>2. CASE tasks[t] = None
    <3>1. DOMAIN events[t] = {}
      BY <2>2 DEF EventsBelongToOwner, Owned
    <3>2. Range(events[t]) = {}
      BY <3>1 DEF Range
    <3>3. CostOf(Range(events[t])) = 0
      BY <3>2, NothingCostsNothing
    <3>5. Going(Range(events[t]))
      BY <3>2 DEF Going, OfType
    <3>4. tasks'[t].cost = 0 /\ \A u \in Task \ {t} : tasks'[u] = tasks[u]
      BY <1>2, <2>2 DEF Created, WatchTypeOK
    <3> QED BY <1>2, <3>3, <3>4, <3>5 DEF Costs
  <2> QED BY <2>1, <2>2
<1>3. CASE tasks' = tasks /\ events' = events
  BY <1>3 DEF Costs
<1> QED
  BY ZenonT(40), <1>1, <1>2, <1>3
  DEF WatchNext, watchVars, Pass, CreateTask, ObserveDecision, ObserveExecution,
    Ingest, Observe, Reread, Analyze, UpsertFinding, AuditFinding, Fail,
    RecordFailure, Stop, ReviewFinding

(* The task of an observer at work, and the events until the one it works   *)
(* on.                                                                      *)
LEMMA TaskThere ==
  ASSUME WatchTypeOK, WorkersOwn, NEW c \in Observer, thread[c].pc \in Working
  PROVE  /\ thread[c].task \in Task /\ tasks[thread[c].task] # None
         /\ tasks[thread[c].task] \in TaskRow
         /\ events[thread[c].task] \in Seq(Event)
<1>1. thread[c].task \in Task
  BY AtWork
<1> QED
  BY <1>1 DEF WatchTypeOK, WorkersOwn, Owned

LEMMA FirstCost ==
  ASSUME NEW s \in Seq(Event), NEW k \in DOMAIN s
  PROVE  /\ FirstFew(s, k) \subseteq Range(s) /\ Range(s) \in EventSets
         /\ CostOf(FirstFew(s, k)) \in Nat /\ CostOf(Range(s)) \in Nat
         /\ CostOf(FirstFew(s, k)) <= CostOf(Range(s))
<1>1. k \in 0..Len(s)
  OBVIOUS
<1>2. FirstFew(s, k) \subseteq Range(s) /\ Range(s) \in EventSets
  BY <1>1, FirstAre
<1>3. FirstFew(s, k) \in EventSets
  BY <1>2, FewerEvents
<1> QED
  BY <1>2, <1>3, CostGrows

LEMMA RowsReadStep ==
  /\ WatchTypeOK /\ WorkersOwn /\ Costs /\ RowsRead /\ [WatchNext]_watchVars
  => RowsRead'
<1> SUFFICES ASSUME WatchTypeOK, WorkersOwn, Costs, RowsRead, [WatchNext]_watchVars,
                    NEW d \in Observer
             PROVE  RowKnown(thread'[d], tasks', events')
  BY DEF RowsRead
<1>0. Grows
  BY StepGrows
<1>1. ASSUME thread'[d] = thread[d] PROVE RowKnown(thread'[d], tasks', events')
  <2> SUFFICES ASSUME thread[d].pc = "list"
               PROVE  RowKnown(thread[d], tasks', events')
    BY <1>1 DEF RowKnown
  <2>1. PICK t \in Task : t = thread[d].task /\ tasks[t] # None
    BY TaskThere DEF Working
  <2>2. thread[d].place \in DOMAIN events[t] /\ thread[d].row.cost \in Nat
    BY <2>1, AtWork, ListTyped
  <2>3. /\ thread[d].row.cost <= tasks[t].cost
        /\ CostOf(FirstFew(events[t], thread[d].place)) <= thread[d].row.cost
        /\ tasks[t].active => thread[d].row.active
        /\ thread[d].row.active => Going(FirstFew(events[t], thread[d].place))
    BY <2>1 DEF RowsRead, RowKnown
  <2>4. /\ tasks[t].cost \in Nat /\ tasks'[t].cost \in Nat /\ tasks[t].cost <= tasks'[t].cost
        /\ tasks'[t].active => tasks[t].active
    BY <1>0, <2>1 DEF Grows, Follows, TaskRow
  <2>5. FirstFew(events'[t], thread[d].place) = FirstFew(events[t], thread[d].place)
    BY <1>0, <2>2 DEF Grows, Extends
  <2>6. thread[d].row.cost <= tasks'[t].cost
    BY <2>2, <2>3, <2>4
  <2>7. tasks'[t].active => thread[d].row.active
    BY <2>3, <2>4
  <2> QED BY <2>1, <2>3, <2>5, <2>6, <2>7 DEF RowKnown
<1>2. ASSUME NEW c \in Observer, NEW o, thread' = [thread EXCEPT ![c] = o],
             RowKnown(o, tasks', events')
      PROVE  RowKnown(thread'[d], tasks', events')
  BY <1>1, <1>2, Turns
<1>3. ASSUME NEW c \in Observer, NEW o, Turning(c, o)
      PROVE  RowKnown(thread'[d], tasks', events')
  <2>1. o.pc # "list"
    BY <1>3 DEF Turning
  <2> QED BY <1>2, <1>3, <2>1 DEF Turning, RowKnown
<1>4. ASSUME NEW c \in Observer, RecordEvent(c)
      PROVE  RowKnown(thread'[d], tasks', events')
  <2>1. PICK t \in Task, e \in Event : Recording(c, t, e)
    BY <1>4, RecordIs
  <2>2. PICK o : thread' = [thread EXCEPT ![c] = o] /\ o.pc = "reread"
    BY <2>1 DEF Recording
  <2> QED BY <1>2, <2>2 DEF RowKnown
<1>5. ASSUME NEW c \in Observer, Reread(c) PROVE RowKnown(thread'[d], tasks', events')
  <2>1. PICK o : Rereading(c, o)
    BY <1>5, RereadIs
  <2>2. PICK t \in Task : t = thread[c].task /\ tasks[t] # None /\ tasks[t] \in TaskRow
                          /\ events[t] \in Seq(Event)
    BY <2>1, TaskThere DEF Rereading, Working
  <2>3. thread[c].place \in DOMAIN events[t]
    BY <2>1, <2>2 DEF Rereading, WatchTypeOK
  <2>4. o.row.cost = tasks[t].cost /\ o.row.active = tasks[t].active
        /\ o.task = t /\ o.place = thread[c].place /\ tasks' = tasks /\ events' = events
    BY <2>1, <2>2 DEF Rereading, Read
  <2>5. CostOf(FirstFew(events[t], o.place)) <= tasks[t].cost /\ tasks[t].cost \in Nat
    BY <2>2, <2>3, <2>4, FirstCost DEF Costs
  <2>7. tasks[t].active => Going(FirstFew(events[t], o.place))
    <3>1. FirstFew(events[t], o.place) \subseteq Range(events[t])
      BY <2>2, <2>3, <2>4, FirstCost
    <3>2. tasks[t].active => Going(Range(events[t]))
      BY <2>2 DEF Costs
    <3> QED BY <3>1, <3>2 DEF Going, OfType
  <2>6. RowKnown(o, tasks', events')
    BY <2>4, <2>5, <2>7 DEF RowKnown
  <2> QED BY <1>2, <2>1, <2>6 DEF Rereading
<1>6. ASSUME NEW c \in Observer, Analyze(c) \/ UpsertFinding(c)
      PROVE  RowKnown(thread'[d], tasks', events')
  <2>1. PICK todo, done : thread' = [thread EXCEPT ![c] = Persisting(thread[c], todo, done)]
    BY <1>6, FindingsAre
  <2>2. PICK p : p = Persisting(thread[c], todo, done)
    OBVIOUS
  <2>3. p.pc # "list"
    BY <2>2, PersistingIs
  <2> QED BY <1>2, <2>1, <2>2, <2>3 DEF RowKnown
<1>7. CASE Resting \/ \E t \in Task, code \in Code, s \in Reviews : ReviewFinding(t, code, s)
  BY <1>1, <1>7 DEF Resting, ReviewFinding
<1> QED
  BY <1>3, <1>4, <1>5, <1>6, <1>7, StepIs

-----------------------------------------------------------------------------
(* Findings are borne out.                                                  *)

(* Also those an observer is going to persist.                              *)
AlarmsPending ==
  \A c \in Observer : thread[c].pc = "persist" =>
    (Len(events[thread[c].task]) <= ListLimit =>
       \A code \in thread[c].todo : Justified(thread[c].task, code))

LEMMA JustifiedNext ==
  \A t : \A code \in Code :
    Justified(t, code)' <=>
      JustifiedBy(code, tasks'[t].limits, tasks'[t].created, events'[t])
<1>1. (\A t : \A code \in Code :
        Justified(t, code) <=>
          JustifiedBy(code, tasks[t].limits, tasks[t].created, events[t]))'
  BY JustifiedIs, PTL
<1> QED
  BY <1>1

LEMMA RowParts ==
  ASSUME NEW row \in TaskRow
  PROVE  row.limits \in Limits /\ row.created \in Nat /\ row.cost \in Nat
         /\ row.active \in BOOLEAN
BY WatchAssumption DEF TaskRow

LEMMA JustifiedStays ==
  ASSUME Grows, NEW t \in Task, tasks[t] # None, NEW code \in Code, Justified(t, code)
  PROVE  Justified(t, code)'
<1>1. /\ tasks[t] \in TaskRow /\ Follows(tasks'[t], tasks[t])
      /\ events[t] \in Seq(Event) /\ events'[t] \in Seq(Event)
      /\ Extends(events[t], events'[t])
      /\ clock \in Nat /\ clock' \in Nat /\ clock <= clock'
  BY DEF Grows
<1>2. PICK l \in Limits, created \in Nat :
        /\ l = tasks[t].limits /\ created = tasks[t].created
        /\ l = tasks'[t].limits /\ created = tasks'[t].created
  BY <1>1, RowParts DEF Follows
<1>3. JustifiedBy(code, l, created, events[t])
  BY <1>2, JustifiedIs
<1>4. JustifiedBy(code, l, created, events'[t])
  BY <1>1, <1>3, JustifiedGrows
<1> QED
  BY <1>2, <1>4, JustifiedNext

(* The events of a task have stamps of their own.                           *)
LEMMA AllStamped ==
  ASSUME WatchTypeOK, Stamps, NEW t \in Task
  PROVE  Stampeds(Range(events[t]))
<1>1. PICK s \in Seq(Event) : s = events[t]
  BY DEF WatchTypeOK
<1>2. IsFiniteSet(Range(s)) /\ Range(s) \subseteq Event
  BY FirstAre DEF EventSets
<1>3. \A e \in Range(s) : e.at \in Nat
  BY <1>2, WatchAssumption DEF Event
<1>4. \A e, f \in Range(s) : e.at = f.at => e = f
  BY <1>1 DEF Range, Stamps
<1> QED
  BY <1>1, <1>2, <1>3, <1>4 DEF Stampeds

LEMMA ListedIs ==
  ASSUME WatchTypeOK, WorkersOwn, NEW c \in Observer, thread[c].pc = "list",
         Len(events[thread[c].task]) <= ListLimit, NEW row, row = tasks[thread[c].task]
  PROVE  Listed(thread[c]) = Detected(row.limits, thread[c].row, row.created,
                                      Range(events[thread[c].task]), thread[c].now, Window)
<1>1. events[thread[c].task] \in Seq(Event) /\ ListLimit \in Nat
  BY TaskThere, WatchAssumption DEF Working
<1>2. Newest(Range(events[thread[c].task]), ListLimit) = Range(events[thread[c].task])
  BY <1>1, AllListed
<1> QED
  BY <1>2 DEF Listed

LEMMA ListedJustified ==
  ASSUME WatchTypeOK, WorkersOwn, Stamps, InTime, Costs, RowsRead,
         NEW c \in Observer, thread[c].pc = "list",
         Len(events[thread[c].task]) <= ListLimit, NEW code \in Listed(thread[c])
  PROVE  Justified(thread[c].task, code)
<1>1. PICK o : o = thread[c]
  OBVIOUS
<1>2. PICK t \in Task : /\ t = o.task /\ tasks[t] # None /\ tasks[t] \in TaskRow
                        /\ events[t] \in Seq(Event)
  BY <1>1, TaskThere DEF Working
<1>3. PICK s \in Seq(Event) : s = events[t]
  BY <1>2
<1>4. PICK l \in Limits, created \in Nat : l = tasks[t].limits /\ created = tasks[t].created
  BY <1>2, RowParts
<1>5. /\ o.place \in DOMAIN s /\ o.at \in Nat /\ o.now \in Nat /\ o.row.cost \in Nat
      /\ s[o.place].at = o.at /\ o.at <= o.now /\ o.now <= clock /\ clock <= o.at + Delay
      /\ clock \in Nat
  <2>1. o \in Doing /\ o.place \in DOMAIN s
    BY <1>1, <1>2, <1>3, AtWork
  <2>2. o.at \in Nat /\ o.now \in Nat /\ o.row.cost \in Nat
    BY <1>1, <2>1, ListTyped
  <2>3. Timely(o, events, clock)
    BY <1>1 DEF InTime
  <2> QED BY <1>1, <1>2, <1>3, <2>1, <2>2, <2>3 DEF Timely, WatchTypeOK
<1>6. o.row.cost <= CostOf(Range(s)) /\ (o.row.active => Going(FirstFew(s, o.place)))
  BY <1>1, <1>2, <1>3 DEF RowsRead, RowKnown, Costs
<1>7. Stampeds(Range(s)) /\ \A e \in Range(s) : e.at <= clock
  <2>1. \A e \in Range(s) : e.at <= clock
    BY <1>3 DEF Range, Stamps
  <2> QED BY <1>3, <2>1, AllStamped
<1>8. code \in Detected(l, o.row, created, Range(s), o.now, Window)
  BY <1>1, <1>2, <1>3, <1>4, ListedIs
<1>9. JustifiedBy(code, l, created, s)
  <2>1. PICK row, place, now, time :
          row = o.row /\ place = o.place /\ now = o.now /\ time = clock
    OBVIOUS
  <2>2. /\ place \in DOMAIN s /\ now \in Nat /\ time \in Nat /\ s[place].at <= now
        /\ now <= time /\ time <= s[place].at + Delay
        /\ \A e \in Range(s) : e.at <= time
        /\ row.cost \in Nat /\ row.cost <= CostOf(Range(s))
        /\ row.active => Going(FirstFew(s, place))
        /\ code \in Detected(l, row, created, Range(s), now, Window)
    BY <1>5, <1>6, <1>7, <1>8, <2>1
  <2>3. JustifiedBy(code, l, created, s)
    BY <1>7, <2>2, DetectedJustified
  <2> QED BY <2>1, <2>3
<1>10. code \in Code
  BY <1>8, DetectedAreCodes
<1> QED
  BY <1>1, <1>2, <1>3, <1>4, <1>9, <1>10, JustifiedIs

(* A finding is persisted: it is one the observer had, and is open.         *)
Persisted(c, t, code) ==
  /\ thread[c].pc = "persist" /\ t = thread[c].task /\ code \in thread[c].todo
  /\ findings' = [findings EXCEPT ![t][code] = "open"]
  /\ reviewed' = [reviewed EXCEPT ![t][code] = 0]
  /\ open' = Closed(thread[c], thread[c].todo \ {code})
  /\ \E done : thread' = [thread EXCEPT ![c] =
                            Persisting(thread[c], thread[c].todo \ {code}, done)]
  /\ UNCHANGED <<clock, tasks, events>>

LEMMA UpsertIs ==
  ASSUME WatchTypeOK, NEW c \in Observer, UpsertFinding(c)
  PROVE  \E t \in Task, code \in Code : Persisted(c, t, code)
<1>1. PICK code : code = FirstOf(thread[c].todo)
  OBVIOUS
<1>2. thread[c].pc = "persist" /\ thread[c].task \in Task
      /\ thread[c].todo \subseteq Code /\ thread[c].todo # {}
  BY AtWork, DoingParts DEF UpsertFinding, Working
<1>3. code \in thread[c].todo
  BY <1>1, <1>2, FirstIsOne
<1>4. PICK t \in Task : t = thread[c].task
  BY <1>2
<1>5. Persisted(c, t, code)
  BY <1>1, <1>2, <1>3, <1>4 DEF UpsertFinding, Persisted
<1> QED
  BY <1>2, <1>3, <1>5

LEMMA AlarmsStep ==
  /\ WatchTypeOK /\ WorkersOwn /\ FindingsOfTasks /\ Stamps /\ InTime /\ Costs /\ RowsRead
  /\ AlarmsPending /\ AlarmsAreJustified /\ [WatchNext]_watchVars
  => AlarmsPending' /\ AlarmsAreJustified'
<1> SUFFICES ASSUME WatchTypeOK, WorkersOwn, FindingsOfTasks, Stamps, InTime, Costs,
                    RowsRead, AlarmsPending, AlarmsAreJustified, [WatchNext]_watchVars
             PROVE  AlarmsPending' /\ AlarmsAreJustified'
  OBVIOUS
<1>0. Grows
  BY StepGrows
<1>1. ASSUME NEW t \in Task, Len(events'[t]) <= ListLimit
      PROVE  Len(events[t]) <= ListLimit
  <2>1. Len(events[t]) \in Nat /\ Len(events'[t]) \in Nat /\ Len(events[t]) <= Len(events'[t])
    BY <1>0 DEF Grows, Extends
  <2> QED BY <1>1, <2>1, WatchAssumption
(* What an observer has found and has still to persist.                     *)
<1>2. ASSUME NEW d \in Observer, thread'[d].pc = "persist",
             NEW t \in Task, t = thread'[d].task,
             Len(events'[t]) <= ListLimit, NEW code \in thread'[d].todo
      PROVE  JustifiedBy(code, tasks'[t].limits, tasks'[t].created, events'[t])
  <2>1. code \in Code
    BY <1>2, WatchTypeStep DEF WatchTypeOK
  <2> SUFFICES Justified(t, code) /\ tasks[t] # None
    BY <1>0, <2>1, JustifiedStays, JustifiedNext
  <2>2. ASSUME thread[d].pc = "persist", thread[d].task = t, code \in thread[d].todo
        PROVE  Justified(t, code) /\ tasks[t] # None
    BY <1>1, <1>2, <2>2, TaskThere DEF Working, AlarmsPending
  <2>3. CASE thread'[d] = thread[d]
    BY <1>2, <2>2, <2>3
  <2>4. CASE Analyze(d)
    <3>1. PICK todo, p : todo = Listed(thread[d]) /\ p = Persisting(thread[d], todo, {})
      OBVIOUS
    <3>2. thread' = [thread EXCEPT ![d] = p] /\ thread[d].pc = "list" /\ events' = events
      BY <2>4, <3>1 DEF Analyze
    <3>3. thread'[d] = p
      BY <3>2 DEF WatchTypeOK
    <3>4. p.task = thread[d].task /\ p.todo = todo
      BY <1>2, <3>1, <3>3, PersistingIs
    <3>5. t = thread[d].task /\ code \in Listed(thread[d])
      BY <1>2, <3>1, <3>3, <3>4
    <3> QED BY <1>2, <3>2, <3>5, ListedJustified, TaskThere DEF Working
  <2>5. CASE UpsertFinding(d)
    <3>1. PICK u \in Task, was \in Code : Persisted(d, u, was)
      BY <2>5, UpsertIs
    <3>2. PICK todo, done, p : /\ todo = thread[d].todo \ {was}
                               /\ thread' = [thread EXCEPT ![d] = p]
                               /\ p = Persisting(thread[d], todo, done)
      BY <3>1 DEF Persisted
    <3>3. thread'[d] = p
      BY <3>2 DEF WatchTypeOK
    <3>4. p = Persisting(thread[d], todo, done) /\ p.pc = "persist"
      BY <1>2, <3>2, <3>3
    <3>5. p.task = thread[d].task /\ p.todo = todo
      BY <3>4, PersistingIs
    <3>6. thread[d].pc = "persist"
      BY <3>1 DEF Persisted
    <3> QED BY <1>2, <2>2, <3>2, <3>3, <3>5, <3>6
  <2> QED BY <1>2, <2>3, <2>4, <2>5, WhoPersists
<1>3. thread' \in [Observer -> Doing]
  BY WatchTypeStep DEF WatchTypeOK
<1>4. AlarmsPending'
  <2>1. ASSUME NEW d \in Observer, thread'[d].pc = "persist",
               Len(events'[thread'[d].task]) <= ListLimit, NEW code \in thread'[d].todo
        PROVE  Justified(thread[d].task, code)'
    <3>1. PICK t \in Task : t = thread'[d].task
      BY <1>3, <2>1, DoingParts
    <3>2. code \in Code
      BY <2>1, WatchTypeStep DEF WatchTypeOK
    <3>3. JustifiedBy(code, tasks'[t].limits, tasks'[t].created, events'[t])
      BY <1>2, <2>1, <3>1
    <3> QED BY <3>1, <3>2, <3>3, JustifiedNext
  <2> QED BY <2>1 DEF AlarmsPending
<1>5. ASSUME NEW t \in Task, Len(events'[t]) <= ListLimit, NEW code \in Code,
             findings'[t][code] # "none"
      PROVE  Justified(t, code)'
  <2>1. CASE findings[t][code] # "none"
    <3>1. Justified(t, code) /\ tasks[t] # None
      BY <1>1, <1>5, <2>1 DEF AlarmsAreJustified, FindingsOfTasks
    <3> QED BY <1>0, <3>1, JustifiedStays
  <2>2. CASE findings[t][code] = "none"
    <3>1. PICK c \in Observer : UpsertFinding(c)
      <4>1. findings' # findings
        BY <1>5, <2>2
      <4>2. ASSUME NEW u \in Task, NEW k \in Code, NEW s \in Reviews, ReviewFinding(u, k, s)
            PROVE  FALSE
        BY <1>5, <2>2, <4>2 DEF ReviewFinding, WatchTypeOK
      <4> QED
        BY <4>1, <4>2, StepIs DEF Resting, Turning, RecordEvent, Reread, Analyze
    <3>2. PICK u \in Task, was \in Code : Persisted(c, u, was)
      BY <3>1, UpsertIs
    <3>3. u = t /\ was = code
      BY <1>5, <2>2, <3>2 DEF Persisted, WatchTypeOK
    <3>4. thread[c].pc = "persist" /\ thread[c].task = t /\ code \in thread[c].todo
      BY <3>2, <3>3 DEF Persisted
    <3>5. Justified(t, code) /\ tasks[t] # None
      BY <1>1, <1>5, <3>4, TaskThere DEF AlarmsPending, Working
    <3> QED BY <1>0, <3>5, JustifiedStays
  <2> QED BY <2>1, <2>2
<1> QED
  BY <1>4, <1>5 DEF AlarmsAreJustified

-----------------------------------------------------------------------------
(* What is breached is reported.                                            *)

(* What the observation of the k-th event has to report.                    *)
DueBy(row, s, k) ==
  {code \in BreachedBy(row, s, k) : k = Len(s) \/ code \in Monotone}

Reported(finding, at, k) ==
  finding # "none" /\ (k > at => finding = "open")

(* An observer that persists findings has still to persist what is due, or  *)
(* it is reported.                                                          *)
BreachesPending ==
  \A c \in Observer : thread[c].pc = "persist" =>
    LET t == thread[c].task  k == thread[c].place IN
    Len(events[t]) <= ListLimit =>
      \A code \in DueBy(tasks[t], events[t], k) :
        code \in thread[c].todo \/ Reported(findings[t][code], reviewed[t][code], k)

AllReported ==
  \A t \in Task : Len(events[t]) <= ListLimit =>
    \A k \in DOMAIN events[t] \ open[t] : \A code \in DueBy(tasks[t], events[t], k) :
      Reported(findings[t][code], reviewed[t][code], k)

LEMMA BreachesAre == BreachIsReported <=> AllReported
  BY BreachedIs DEF BreachIsReported, AllReported, DueBy, Reported

LEMMA DueAreCodes ==
  ASSUME NEW row, NEW s, NEW k PROVE DueBy(row, s, k) \subseteq Code
  BY DetectedAreCodes DEF DueBy, BreachedBy

(* Nothing becomes due of an event later.                                   *)
LEMMA DueStays ==
  ASSUME Grows, NEW t \in Task, tasks[t] # None, NEW k \in DOMAIN events[t]
  PROVE  DueBy(tasks'[t], events'[t], k) \subseteq DueBy(tasks[t], events[t], k)
<1> SUFFICES ASSUME NEW code \in DueBy(tasks'[t], events'[t], k)
             PROVE  code \in DueBy(tasks[t], events[t], k)
  OBVIOUS
<1>1. PICK s \in Seq(Event), z \in Seq(Event) : s = events[t] /\ z = events'[t]
  BY DEF Grows
<1>2. PICK row, old : row = tasks'[t] /\ old = tasks[t]
  OBVIOUS
<1>3. /\ row.limits = old.limits /\ row.created = old.created
      /\ row.active => old.active
  BY <1>2 DEF Grows, Follows
<1>4. /\ Len(s) <= Len(z) /\ z[k] = s[k] /\ FirstFew(z, k) = FirstFew(s, k)
      /\ k \in 1..Len(s) /\ Len(s) \in Nat /\ Len(z) \in Nat
  BY <1>1 DEF Grows, Extends
<1>5. code \in BreachedBy(row, z, k) /\ (k = Len(z) \/ code \in Monotone)
  BY <1>1, <1>2 DEF DueBy
<1>6. PICK first, at : first = FirstFew(s, k) /\ at = s[k].at
  OBVIOUS
<1>7. PICK newer, older : /\ newer = [cost |-> CostOf(first), active |-> row.active]
                          /\ older = [cost |-> CostOf(first), active |-> old.active]
  OBVIOUS
<1>8. code \in Detected(old.limits, newer, old.created, first, at, Window - Delay)
  BY <1>3, <1>4, <1>5, <1>6, <1>7 DEF BreachedBy
<1>9. newer.cost = older.cost /\ (newer.active => older.active)
  BY <1>3, <1>7
<1>10. code \in Detected(old.limits, older, old.created, first, at, Window - Delay)
  BY <1>8, <1>9, DetectedStill
<1>11. code \in BreachedBy(old, s, k)
  BY <1>6, <1>7, <1>10 DEF BreachedBy
<1>12. k = Len(s) \/ code \in Monotone
  BY <1>4, <1>5
<1> QED
  BY <1>1, <1>2, <1>11, <1>12 DEF DueBy

(* Its own observer sees all the events until the one it works on, and when *)
(* that is the last one, nothing but them.                                  *)
LEMMA DueListed ==
  ASSUME WatchTypeOK, WorkersOwn, Stamps, InTime, RowsRead,
         NEW c \in Observer, thread[c].pc = "list", NEW t \in Task, t = thread[c].task,
         Len(events[t]) <= ListLimit,
         NEW code \in DueBy(tasks[t], events[t], thread[c].place)
  PROVE  code \in Listed(thread[c])
<1>1. PICK o : o = thread[c]
  OBVIOUS
<1>2. tasks[t] \in TaskRow /\ events[t] \in Seq(Event)
  BY TaskThere DEF Working
<1>3. PICK s \in Seq(Event), task \in TaskRow : s = events[t] /\ task = tasks[t]
  BY <1>2
<1>4. /\ o.place \in DOMAIN s /\ o.at \in Nat /\ o.now \in Nat /\ o.row.cost \in Nat
      /\ s[o.place].at = o.at /\ o.at <= o.now /\ o.now <= o.at + Delay
  <2>1. o \in Doing /\ o.place \in DOMAIN s
    BY <1>1, <1>3, AtWork
  <2>2. o.at \in Nat /\ o.now \in Nat /\ o.row.cost \in Nat
    BY <1>1, <2>1, ListTyped
  <2>3. Timely(o, events, clock)
    BY <1>1 DEF InTime
  <2>4. s[o.place].at = o.at /\ o.at <= o.now /\ o.now <= clock /\ clock <= o.at + Delay
        /\ clock \in Nat
    BY <1>1, <1>3, <2>3 DEF Timely, WatchTypeOK
  <2> QED BY <2>1, <2>2, <2>4, WatchAssumption
<1>5. PICK es, first, then, now, row :
        /\ es = Range(s) /\ first = FirstFew(s, o.place) /\ then = s[o.place].at
        /\ now = o.now /\ row = o.row
  OBVIOUS
<1>6. PICK old : old = [cost |-> CostOf(first), active |-> task.active]
  OBVIOUS
<1>7. /\ code \in Detected(task.limits, old, task.created, first, then, Window - Delay)
      /\ o.place = Len(s) \/ code \in Monotone
  BY <1>1, <1>3, <1>5, <1>6 DEF DueBy, BreachedBy
<1>8. /\ first \subseteq es /\ CostOf(first) \in Nat
      /\ o.place = Len(s) => first = es
  BY <1>4, <1>5, FirstCost, FirstAre
<1>9. Stampeds(es) /\ task.limits \in Limits /\ task.created \in Nat
  BY <1>3, <1>5, AllStamped, RowParts
<1>10. /\ then \in Nat /\ now \in Nat /\ then <= now /\ now <= then + Delay
       /\ row.cost \in Nat /\ old.cost \in Nat /\ old.cost <= row.cost
       /\ old.active => row.active
  <2>1. RowKnown(o, tasks, events)
    BY <1>1 DEF RowsRead
  <2>2. CostOf(first) <= row.cost /\ (task.active => row.active)
    BY <1>1, <1>3, <1>5, <2>1 DEF RowKnown
  <2> QED BY <1>4, <1>5, <1>6, <1>8, <2>2
<1>11. PICK l \in Limits, created \in Nat : l = task.limits /\ created = task.created
  BY <1>9
<1>12. code \in Detected(l, row, created, es, now, Window)
  <2>1. code \in Detected(l, old, created, first, then, Window - Delay)
    BY <1>7, <1>11
  <2>2. code \in Monotone \/ first = es
    BY <1>7, <1>8
  <2> QED BY <1>8, <1>9, <1>10, <2>1, <2>2, DetectedMore
<1> QED
  BY <1>1, <1>3, <1>5, <1>11, <1>12, ListedIs

(* What is reported stays so.                                               *)
LEMMA ReportedStays ==
  ASSUME WatchTypeOK, [WatchNext]_watchVars, NEW t \in Task, NEW code \in Code,
         NEW k \in DOMAIN events[t], Reported(findings[t][code], reviewed[t][code], k)
  PROVE  Reported(findings'[t][code], reviewed'[t][code], k)
<1>1. k \in Nat /\ Len(events[t]) \in Nat /\ k <= Len(events[t])
  <2>1. events[t] \in Seq(Event)
    BY DEF WatchTypeOK
  <2> QED BY <2>1
<1>2. CASE findings' = findings /\ reviewed' = reviewed
  BY <1>2
<1>3. ASSUME NEW u \in Task, NEW was \in Code, NEW status \in Reviews,
             ReviewFinding(u, was, status)
      PROVE  Reported(findings'[t][code], reviewed'[t][code], k)
  <2>1. CASE t = u /\ code = was
    <3>1. findings'[t][code] = status /\ reviewed'[t][code] = Len(events[t])
      BY <1>3, <2>1 DEF ReviewFinding, WatchTypeOK
    <3> QED BY <1>1, <3>1 DEF Reported, Reviews
  <2>2. CASE ~(t = u /\ code = was)
    BY <1>3, <2>2 DEF ReviewFinding, WatchTypeOK
  <2> QED BY <2>1, <2>2
<1>4. ASSUME NEW c \in Observer, UpsertFinding(c)
      PROVE  Reported(findings'[t][code], reviewed'[t][code], k)
  <2>1. PICK u \in Task, was \in Code : Persisted(c, u, was)
    BY <1>4, UpsertIs
  <2>2. CASE t = u /\ code = was
    <3>1. findings'[t][code] = "open"
      BY <2>1, <2>2 DEF Persisted, WatchTypeOK
    <3> QED BY <3>1 DEF Reported
  <2>3. CASE ~(t = u /\ code = was)
    BY <2>1, <2>3 DEF Persisted, WatchTypeOK
  <2> QED BY <2>2, <2>3
<1> QED
  BY <1>2, <1>3, <1>4, StepIs DEF Resting, Turning, RecordEvent, Reread, Analyze

(* What is due of an event after a step was due of it before.               *)
LEMMA DueBefore ==
  ASSUME Grows, NEW t \in Task, tasks[t] # None, NEW k \in DOMAIN events[t],
         Len(events'[t]) <= ListLimit, NEW code \in DueBy(tasks'[t], events'[t], k)
  PROVE  /\ code \in Code /\ Len(events[t]) <= ListLimit
         /\ code \in DueBy(tasks[t], events[t], k)
<1>1. Len(events[t]) \in Nat /\ Len(events'[t]) \in Nat /\ Len(events[t]) <= Len(events'[t])
  BY DEF Grows, Extends
<1>2. Len(events[t]) <= ListLimit
  BY <1>1, WatchAssumption
<1> QED
  BY <1>2, DueStays, DueAreCodes

(* What a finding that was due and is persisted, or was reported, becomes.  *)
LEMMA ReportedOnce ==
  ASSUME WatchTypeOK, [WatchNext]_watchVars, NEW c \in Observer, NEW t \in Task,
         NEW was \in Code, Persisted(c, t, was), NEW code \in Code,
         NEW k \in DOMAIN events[t],
         code = was \/ Reported(findings[t][code], reviewed[t][code], k)
  PROVE  Reported(findings'[t][code], reviewed'[t][code], k)
<1>1. CASE code = was
  <2>1. findings'[t][code] = "open"
    BY <1>1 DEF Persisted, WatchTypeOK
  <2> QED BY <2>1 DEF Reported
<1>2. CASE code # was
  BY <1>2, ReportedStays
<1> QED
  BY <1>1, <1>2

LEMMA PendingStep ==
  /\ WatchTypeOK /\ WorkersOwn /\ Stamps /\ InTime /\ RowsRead /\ BreachesPending
  /\ [WatchNext]_watchVars
  => BreachesPending'
<1> SUFFICES ASSUME WatchTypeOK, WorkersOwn, Stamps, InTime, RowsRead, BreachesPending,
                    [WatchNext]_watchVars, NEW d \in Observer, thread'[d].pc = "persist",
                    NEW t, t = thread'[d].task, NEW k, k = thread'[d].place,
                    Len(events'[t]) <= ListLimit,
                    NEW code \in DueBy(tasks'[t], events'[t], k)
             PROVE  code \in thread'[d].todo
                    \/ Reported(findings'[t][code], reviewed'[t][code], k)
  BY DEF BreachesPending
<1>0. Grows
  BY StepGrows
<1>1. ASSUME thread[d].pc = "persist", thread[d].task = t, thread[d].place = k
      PROVE  /\ t \in Task /\ k \in DOMAIN events[t] /\ code \in Code
             /\ \/ code \in thread[d].todo
                \/ Reported(findings[t][code], reviewed[t][code], k)
  <2>1. t \in Task /\ k \in DOMAIN events[t] /\ tasks[t] # None
    BY <1>1, AtWork, TaskThere DEF Working
  <2>2. code \in Code /\ Len(events[t]) <= ListLimit /\ code \in DueBy(tasks[t], events[t], k)
    BY <1>0, <2>1, DueBefore
  <2> QED BY <1>1, <2>1, <2>2 DEF BreachesPending
<1>2. CASE thread'[d] = thread[d]
  BY <1>1, <1>2, ReportedStays
<1>3. CASE Analyze(d)
  <2>1. PICK todo, p : todo = Listed(thread[d]) /\ p = Persisting(thread[d], todo, {})
    OBVIOUS
  <2>2. thread' = [thread EXCEPT ![d] = p] /\ thread[d].pc = "list"
    BY <1>3, <2>1 DEF Analyze
  <2>3. t = thread[d].task /\ k = thread[d].place /\ thread'[d].todo = todo
    BY <2>1, <2>2, PersistingIs, Turns
  <2>4. t \in Task /\ k \in DOMAIN events[t] /\ tasks[t] # None
    BY <2>2, <2>3, AtWork, TaskThere DEF Working
  <2>5. Len(events[t]) <= ListLimit /\ code \in DueBy(tasks[t], events[t], k)
    BY <1>0, <2>4, DueBefore
  <2>6. code \in Listed(thread[d])
    BY <2>2, <2>3, <2>4, <2>5, DueListed
  <2> QED BY <2>1, <2>3, <2>6
<1>4. CASE UpsertFinding(d)
  <2>1. PICK u \in Task, was \in Code : Persisted(d, u, was)
    BY <1>4, UpsertIs
  <2>2. PICK todo, done, p : /\ todo = thread[d].todo \ {was}
                             /\ thread' = [thread EXCEPT ![d] = p]
                             /\ p = Persisting(thread[d], todo, done)
    BY <2>1 DEF Persisted
  <2>3. t = thread[d].task /\ k = thread[d].place /\ thread'[d].todo = todo
    <3>1. thread'[d] = p
      BY <2>2, Turns
    <3>2. p = Persisting(thread[d], todo, done) /\ p.pc = "persist"
      BY <2>2, <3>1
    <3>3. p.task = thread[d].task /\ p.place = thread[d].place /\ p.todo = todo
      BY <3>2, PersistingIs
    <3> QED BY <3>1, <3>3
  <2>4. thread[d].pc = "persist" /\ u = t
    BY <2>1, <2>3 DEF Persisted
  <2> QED BY <1>1, <2>1, <2>2, <2>3, <2>4, ReportedOnce
<1> QED
  BY <1>2, <1>3, <1>4, WhoPersists

(* The events whose observation a step completes.                           *)
Completing(c, t, k) ==
  /\ t = thread[c].task /\ k = thread[c].place
  /\ \/ Analyze(c) /\ Listed(thread[c]) = {}
     \/ \E was \in Code : Persisted(c, t, was) /\ thread[c].todo = {was}

LEMMA WhoCompletes ==
  ASSUME WatchTypeOK, WorkersOwn, [WatchNext]_watchVars, NEW t \in Task,
         NEW k \in DOMAIN events'[t] \ open'[t]
  PROVE  /\ k \in DOMAIN events[t]
         /\ k \in open[t] => \E c \in Observer : Completing(c, t, k)
<1>1. ASSUME events' = events, open' = open
      PROVE  k \in DOMAIN events[t] \ open[t]
  BY <1>1
<1>2. ASSUME NEW c \in Observer, RecordEvent(c)
      PROVE  k \in DOMAIN events[t] \ open[t]
  <2>1. PICK u \in Task, e \in Event : Recording(c, u, e)
    BY <1>2, RecordIs
  <2>2. /\ events' = [events EXCEPT ![u] = Append(events[u], e)]
        /\ open' = [open EXCEPT ![u] = open[u] \cup {Len(events[u]) + 1}]
    BY <2>1 DEF Recording
  <2>3. CASE u # t
    BY <2>2, <2>3 DEF WatchTypeOK
  <2>4. CASE u = t
    <3>1. PICK s \in Seq(Event) : s = events[t]
      BY DEF WatchTypeOK
    <3>2. events'[t] = Append(s, e) /\ open'[t] = open[t] \cup {Len(s) + 1}
      BY <2>2, <2>4, <3>1 DEF WatchTypeOK
    <3>3. k \in 1..(Len(s) + 1) /\ k # Len(s) + 1 /\ Len(s) \in Nat /\ DOMAIN s = 1..Len(s)
      BY <3>2, Appended
    <3> QED BY <3>1, <3>2, <3>3
  <2> QED BY <2>3, <2>4
<1>3. ASSUME NEW c \in Observer, NEW todo, open' = Closed(thread[c], todo), events' = events,
             k \in open[t]
      PROVE  t = thread[c].task /\ k = thread[c].place /\ todo = {}
  BY <1>3 DEF Closed, WatchTypeOK
<1>4. ASSUME NEW c \in Observer, Analyze(c)
      PROVE  k \in DOMAIN events[t] /\ (k \in open[t] => Completing(c, t, k))
  <2>1. open' = Closed(thread[c], Listed(thread[c])) /\ events' = events
    BY <1>4 DEF Analyze
  <2> QED BY <1>3, <1>4, <2>1 DEF Completing
<1>5. ASSUME NEW c \in Observer, UpsertFinding(c)
      PROVE  k \in DOMAIN events[t] /\ (k \in open[t] => Completing(c, t, k))
  <2>1. PICK u \in Task, was \in Code : Persisted(c, u, was)
    BY <1>5, UpsertIs
  <2>2. PICK todo : todo = thread[c].todo \ {was}
    OBVIOUS
  <2>3. open' = Closed(thread[c], todo) /\ events' = events /\ u = thread[c].task
        /\ was \in thread[c].todo
    BY <2>1, <2>2 DEF Persisted
  <2> QED BY <1>3, <2>1, <2>2, <2>3 DEF Completing
<1>6. ASSUME NEW c \in Observer, NEW o, Turning(c, o)
      PROVE  k \in DOMAIN events[t] \ open[t]
  BY <1>1, <1>6 DEF Turning
<1>7. ASSUME NEW c \in Observer, Reread(c)
      PROVE  k \in DOMAIN events[t] \ open[t]
  BY <1>1, <1>7 DEF Reread
<1>8. CASE Resting \/ \E u \in Task, code \in Code, s \in Reviews : ReviewFinding(u, code, s)
  BY <1>1, <1>8 DEF Resting, ReviewFinding
<1> QED
  BY <1>2, <1>4, <1>5, <1>6, <1>7, <1>8, StepIs

LEMMA AllReportedStep ==
  /\ WatchTypeOK /\ WorkersOwn /\ EventsBelongToOwner /\ Stamps /\ InTime /\ RowsRead
  /\ BreachesPending /\ AllReported /\ [WatchNext]_watchVars
  => AllReported'
<1> SUFFICES ASSUME WatchTypeOK, WorkersOwn, EventsBelongToOwner, Stamps, InTime, RowsRead,
                    BreachesPending, AllReported, [WatchNext]_watchVars,
                    NEW t \in Task, Len(events'[t]) <= ListLimit,
                    NEW k \in DOMAIN events'[t] \ open'[t],
                    NEW code \in DueBy(tasks'[t], events'[t], k)
             PROVE  Reported(findings'[t][code], reviewed'[t][code], k)
  BY DEF AllReported
<1>1. k \in DOMAIN events[t] /\ (k \in open[t] => \E c \in Observer : Completing(c, t, k))
  BY WhoCompletes
<1>2. tasks[t] # None
  BY <1>1 DEF EventsBelongToOwner, Owned
<1>3. /\ code \in Code /\ Len(events[t]) <= ListLimit
      /\ code \in DueBy(tasks[t], events[t], k)
  BY <1>1, <1>2, StepGrows, DueBefore
<1>4. CASE k \notin open[t]
  <2>1. Reported(findings[t][code], reviewed[t][code], k)
    BY <1>1, <1>3, <1>4 DEF AllReported
  <2> QED BY <1>1, <1>3, <2>1, ReportedStays
<1>5. ASSUME NEW c \in Observer, Completing(c, t, k)
      PROVE  Reported(findings'[t][code], reviewed'[t][code], k)
  <2>1. CASE Analyze(c) /\ Listed(thread[c]) = {}
    <3>1. thread[c].pc = "list" /\ t = thread[c].task /\ k = thread[c].place
      BY <1>5, <2>1 DEF Completing, Analyze
    <3>2. code \in Listed(thread[c])
      BY <1>3, <3>1, DueListed
    <3> QED BY <2>1, <3>2
  <2>2. ASSUME NEW was \in Code, Persisted(c, t, was), thread[c].todo = {was}
        PROVE  Reported(findings'[t][code], reviewed'[t][code], k)
    <3>1. thread[c].pc = "persist" /\ t = thread[c].task /\ k = thread[c].place
      BY <1>5, <2>2 DEF Completing, Persisted
    <3>2. code = was \/ Reported(findings[t][code], reviewed[t][code], k)
      BY <1>3, <2>2, <3>1 DEF BreachesPending
    <3> QED BY <1>1, <1>3, <2>2, <3>2, ReportedOnce
  <2> QED BY <1>5, <2>1, <2>2 DEF Completing
<1> QED
  BY <1>1, <1>4, <1>5

-----------------------------------------------------------------------------
(* The invariant of the findings.                                           *)

FindingsInv ==
  /\ Stamps /\ InTime /\ Costs /\ RowsRead
  /\ AlarmsPending /\ AlarmsAreJustified
  /\ BreachesPending /\ AllReported

LEMMA FindingsInit == WatchInit => FindingsInv
<1> SUFFICES ASSUME WatchInit PROVE FindingsInv
  OBVIOUS
<1>1. /\ \A c \in Observer : thread[c].pc = "idle"
      /\ \A t \in Task : tasks[t] = None /\ DOMAIN events[t] = {}
      /\ \A t \in Task, code \in Code : findings[t][code] = "none"
  BY DEF WatchInit, Idle
<1>2. Stamps /\ InTime
  BY <1>1 DEF Stamps, InTime, Timely
<1>3. Costs /\ RowsRead
  BY <1>1 DEF Costs, RowsRead, RowKnown
<1>4. AlarmsPending /\ AlarmsAreJustified
  BY <1>1 DEF AlarmsPending, AlarmsAreJustified
<1>5. BreachesPending /\ AllReported
  BY <1>1 DEF BreachesPending, AllReported
<1> QED
  BY <1>2, <1>3, <1>4, <1>5 DEF FindingsInv

LEMMA FindingsStep == WatchInv /\ FindingsInv /\ [WatchNext]_watchVars => FindingsInv'
<1> SUFFICES ASSUME WatchInv, FindingsInv, [WatchNext]_watchVars PROVE FindingsInv'
  OBVIOUS
<1>1. /\ WatchTypeOK /\ WorkersOwn /\ EventsBelongToOwner /\ FindingsOfTasks
      /\ Stamps /\ InTime /\ Costs /\ RowsRead
      /\ AlarmsPending /\ AlarmsAreJustified /\ BreachesPending /\ AllReported
  BY DEF WatchInv, FindingsInv
<1>2. Stamps' /\ InTime'
  BY <1>1, StampsStep, InTimeStep
<1>3. Costs' /\ RowsRead'
  BY <1>1, CostsStep, RowsReadStep
<1>4. AlarmsPending' /\ AlarmsAreJustified'
  BY <1>1, AlarmsStep
<1>5. BreachesPending' /\ AllReported'
  BY <1>1, PendingStep, AllReportedStep
<1> QED
  BY <1>2, <1>3, <1>4, <1>5 DEF FindingsInv

LEMMA FindingsInvariant == WatchSpec => []FindingsInv
  BY FindingsInit, FindingsStep, WatchInvariant, PTL DEF WatchSpec

(* THEOREM: every finding is borne out by the recorded events of its task,  *)
(* by a count of them over the window, or by one that came too late while   *)
(* the task was active: none comes of an event that two observers count, of *)
(* stamps and commits in different orders, of calls before a report of      *)
(* progress, or of time after the task's end.                               *)
THEOREM AlarmsAreTrue == WatchSpec => []AlarmsAreJustified
<1>1. FindingsInv => AlarmsAreJustified
  BY DEF FindingsInv
<1> QED
  BY <1>1, FindingsInvariant, PTL

(* THEOREM: when the observation of an event is over, all that the events   *)
(* committed until then breach is a finding, and an open one unless it was  *)
(* reviewed since, in whatever order the observers of the task stamp,       *)
(* insert, read and persist.                                                *)
THEOREM BreachesAreReported == WatchSpec => []BreachIsReported
<1>1. FindingsInv => BreachIsReported
  BY BreachesAre DEF FindingsInv
<1> QED
  BY <1>1, FindingsInvariant, PTL

=============================================================================
