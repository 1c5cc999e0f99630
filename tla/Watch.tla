------------------------------- MODULE Watch -------------------------------
(***************************************************************************)
(* SentinelGate Watch: agents' tasks, the metadata events recorded for      *)
(* them, the detector that analyses a task after each event, the findings   *)
(* it persists and their records in the audit trail.  Observers run at the  *)
(* same time; an action is one transaction of the store or one reading of   *)
(* the clock.                                                              *)
(***************************************************************************)
EXTENDS Naturals, SequencesExt

CONSTANTS
  Agent, Task,   (* agents of a tenant, and the task ids they use           *)
  Observer,      (* threads that observe                                    *)
  Fp, Err,       (* fingerprints of calls, error codes                      *)
  Decisions,     (* events of the gateway's decisions                       *)
  Outcomes,      (* events of its executions                                *)
  Reports,       (* events agents report themselves                         *)
  Default,       (* thresholds and budgets of a task the gateway creates    *)
  Asked,         (* and of one its agent creates                            *)
  ListLimit,     (* events an analysis reads: 500                           *)
  Window,        (* of the thresholds: 300 seconds                          *)
  Delay,         (* bound: from the stamp of an event to its analysis       *)
  MaxTime, MaxEvents, MaxUpsets, (* bounds of an instance                   *)
  None           (* no fingerprint, no error, no task                       *)

(* An "end" is a task_status whose outcome is completed, failed or          *)
(* cancelled; a "status" one with any other outcome.                        *)
Kind ==
  [type: {"call", "result", "progress", "heartbeat", "status", "end"},
   fp: Fp \cup {None}, error: Err \cup {None}, denied: BOOLEAN, poll: BOOLEAN,
   cost: Nat]

Limits ==
  [calls: Nat \ {0}, errors: Nat \ {0}, denials: Nat \ {0}, polls: Nat \ {0},
   cycles: Nat \ {0}, quiet: Nat, runtime: Nat, budget: Nat, cost: Nat]

Event == [kind: Kind, agent: Agent, at: 0..MaxTime]

TaskRow ==
  [owner: Agent, limits: {Default, Asked}, active: BOOLEAN, created: 0..MaxTime,
   cost: Nat]

ASSUME WatchAssumption ==
  /\ Decisions \cup Outcomes \cup Reports \subseteq Kind
  /\ {Default, Asked} \subseteq Limits
  /\ ListLimit \in Nat /\ Window \in Nat /\ Delay \in Nat /\ Delay < Window
  /\ {MaxTime, MaxEvents, MaxUpsets} \subseteq Nat
  /\ None \notin TaskRow \cup Fp \cup Err

(* The detectors, in the order in which analyze appends their findings.     *)
Codes ==
  <<"repeated_call", "retry_storm", "repeated_denial", "excessive_polling",
    "cyclic_workflow", "tool_budget", "cost_budget", "runtime_budget",
    "no_progress">>

Code == {Codes[i] : i \in DOMAIN Codes}

VARIABLES
  clock,
  tasks,      (* `watch_tasks`                                              *)
  events,     (* `watch_events` of each task, in the order of their commits *)
  findings,   (* `watch_findings`: status of each code of each task         *)
  trail,      (* the audit rows Watch writes                                *)
  thread,     (* what each observer is doing                                *)
  open,       (* ghost: places of events whose analysis is not over         *)
  reviewed,   (* ghost: events that were there when a finding was reviewed  *)
  unrecorded, (* ghost: tasks of whose observations one was lost without a  *)
              (* record of it                                               *)
  upsets      (* how many failures and reviews there were                   *)

watchVars == <<clock, tasks, events, findings, trail, thread, open, reviewed,
               unrecorded, upsets>>

Idle == [pc |-> "idle"]

Route == {"decision", "execution", "report"}

(* What an observer may be doing.                                           *)
Doing ==
  {Idle}
  \cup [pc: {"insert"}, route: Route, agent: Agent, task: Task, kind: Kind,
        at: 0..MaxTime]
  \cup [pc: {"reread"}, route: Route, agent: Agent, task: Task, at: 0..MaxTime,
        place: Nat]
  \cup [pc: {"list"}, route: Route, agent: Agent, task: Task, at: 0..MaxTime,
        place: Nat, row: [cost: Nat, active: BOOLEAN], now: 0..MaxTime]
  \cup [pc: {"persist"}, route: Route, agent: Agent, task: Task, place: Nat,
        todo: (SUBSET Code) \ {{}}, done: SUBSET Code]
  \cup [pc: {"audit"}, route: Route, agent: Agent, task: Task,
        done: (SUBSET Code) \ {{}}]
  \cup [pc: {"failing"}, agent: Agent, task: Task]

Read(t) == [cost |-> tasks[t].cost, active |-> tasks[t].active]

(* get_watch_task, by tenant, task id and agent                             *)
Owned(a, t) == tasks[t] # None /\ tasks[t].owner = a

-----------------------------------------------------------------------------
(* analyze: what the detectors find in a list of events.                    *)

Newest(es, n) == {e \in es : Cardinality({f \in es : f.at > e.at}) < n}

OfType(es, type) == {e \in es : e.kind.type = type}

(* Mutant: progress does not begin a new phase.                             *)
PhaseOfAll(es) == OfType(es, "call")

Phase(es) ==
  {e \in OfType(es, "call") : \A p \in OfType(es, "progress") : e.at > p.at}

MostCommon(key, n) ==
  \E e \in DOMAIN key :
    key[e] # None /\ Cardinality({f \in DOMAIN key : key[f] = key[e]}) >= n

FpOf(e) == e.kind.fp
ErrorOf(e) == e.kind.error

(* _cycle_pattern, on the fingerprints in the order of their stamps         *)
Cyclic(s, n) ==
  \E len \in 2..6 :
    /\ len * n <= Len(s)
    /\ \A i \in (Len(s) - len * n + 1)..(Len(s) - len) : s[i] = s[i + len]
    /\ \E i \in (Len(s) - len + 1)..Len(s) : s[i] # s[Len(s)]

(* The event of a set that n others are before                              *)
Nth(es, n) == CHOOSE e \in es : Cardinality({f \in es : f.at < e.at}) = n

Fingerprints(es) ==
  LET named == {e \in es : FpOf(e) # None}
  IN [i \in 1..Cardinality(named) |-> FpOf(Nth(named, i - 1))]

(* `row` is the task as it was read again after the event, `now` the time   *)
(* of the analysis.                                                         *)
Detected(l, row, created, es, now, window) ==
  LET recent == {e \in es : e.at + window >= now}
      calls == OfType(recent, "call")
      last(S) == {e.at : e \in S} \cup {created}
  IN {c \in Code :
       CASE c = "repeated_call" -> MostCommon([e \in Phase(recent) |-> FpOf(e)], l.calls)
         [] c = "retry_storm" -> MostCommon([e \in recent |-> ErrorOf(e)], l.errors)
         [] c = "repeated_denial" ->
              Cardinality({e \in calls : e.kind.denied}) >= l.denials
         [] c = "excessive_polling" ->
              Cardinality({e \in calls : e.kind.poll}) >= l.polls
         [] c = "cyclic_workflow" -> Cyclic(Fingerprints(Phase(recent)), l.cycles)
         [] c = "tool_budget" -> Cardinality(OfType(es, "call")) > l.budget
         [] c = "cost_budget" -> row.cost > l.cost
         [] c = "runtime_budget" -> row.active /\ now > created + l.runtime
         [] c = "no_progress" ->
              /\ row.active
              /\ \E e \in es : e.kind.type # "heartbeat"
              /\ \A at \in last(OfType(es, "progress")) : now > at + l.quiet}

-----------------------------------------------------------------------------
(* The clock.  Two stamps are never equal; an analysis is over Delay after  *)
(* the stamp of its event.                                                  *)
Stamped(c) == thread[c].pc \in {"insert", "reread", "list"}

Advance ==
  /\ clock < MaxTime
  /\ \A c \in Observer : Stamped(c) => clock < thread[c].at + Delay
  /\ clock' = clock + 1

Pass ==
  /\ Advance
  /\ UNCHANGED <<tasks, events, findings, trail, thread, open, reviewed,
                 unrecorded, upsets>>

-----------------------------------------------------------------------------
(* Tasks.                                                                   *)

(* INSERT ... ON CONFLICT DO NOTHING                                        *)
Created(a, t, limits) ==
  IF tasks[t] # None THEN tasks
  ELSE [tasks EXCEPT ![t] = [owner |-> a, limits |-> limits, active |-> TRUE,
                             created |-> clock, cost |-> 0]]

(* An agent's own POST /v1/watch/tasks: 409 when another agent owns the id, *)
(* the task as it is when the agent has it already.                         *)
CreateTask(a, t) ==
  /\ tasks[t] = None \/ Owned(a, t)
  /\ tasks' = Created(a, t, Asked)
  /\ trail' = trail \cup {[event |-> "created", task |-> t]}
  /\ UNCHANGED <<clock, events, findings, thread, open, reviewed, unrecorded, upsets>>

-----------------------------------------------------------------------------
(* An observation, from the decision, the execution or the agent's report.  *)
(* It takes its stamp before the transaction that inserts the event; that   *)
(* its task is still there then needs no second look, for no task is ever   *)
(* deleted.                                                                 *)

Started(route, a, t, k) ==
  [pc |-> "insert", route |-> route, agent |-> a, task |-> t, kind |-> k, at |-> clock']

(* Bound: no more events than MaxEvents.                                    *)
Free(c, t) ==
  /\ thread[c].pc = "idle"
  /\ Len(events[t]) + Cardinality({o \in Observer :
       thread[o].pc = "insert" /\ thread[o].task = t}) < MaxEvents

(* Mutant: the task is read back by its id alone.                           *)
ObserveAnyTask(c, a, t, k) ==
  /\ Free(c, t)
  /\ Advance
  /\ tasks' = Created(a, t, Default)
  /\ thread' = [thread EXCEPT ![c] = Started("decision", a, t, k)]
  /\ UNCHANGED <<events, findings, trail, open, reviewed, unrecorded, upsets>>

(* The task is created when the agent has none; create_watch_task raises    *)
(* when the row is another agent's.                                         *)
ObserveDecision(c, a, t, k) ==
  /\ Free(c, t)
  /\ tasks' = Created(a, t, Default)
  /\ IF tasks'[t].owner = a
     THEN /\ Advance
          /\ thread' = [thread EXCEPT ![c] = Started("decision", a, t, k)]
     ELSE /\ thread' = [thread EXCEPT ![c] =
                          [pc |-> "failing", task |-> t, agent |-> a]]
          /\ UNCHANGED clock
  /\ UNCHANGED <<events, findings, trail, open, reviewed, unrecorded, upsets>>

(* Nothing is observed of an execution in a task the agent does not have,   *)
(* and ingest answers 404.                                                  *)
Observe(route, c, a, t, k) ==
  /\ Free(c, t)
  /\ Owned(a, t)
  /\ Advance
  /\ thread' = [thread EXCEPT ![c] = Started(route, a, t, k)]
  /\ UNCHANGED <<tasks, events, findings, trail, open, reviewed, unrecorded,
                 upsets>>

ObserveExecution(c, a, t, k) == Observe("execution", c, a, t, k)

Ingest(c, a, t, k) == Observe("report", c, a, t, k)

(* INSERT of the event and UPDATE of its task                               *)
RecordEvent(c) ==
  LET o == thread[c]  t == thread[c].task IN
  /\ o.pc = "insert"
  /\ events' = [events EXCEPT ![t] =
                  Append(@, [kind |-> o.kind, agent |-> o.agent, at |-> o.at])]
  /\ tasks' = [tasks EXCEPT ![t].cost = @ + o.kind.cost,
                            ![t].active = @ /\ o.kind.type # "end"]
  /\ open' = [open EXCEPT ![t] = @ \cup {Len(events'[t])}]
  /\ thread' = [thread EXCEPT ![c] =
                  [pc |-> "reread", route |-> o.route, agent |-> o.agent,
                   task |-> t, at |-> o.at, place |-> Len(events'[t])]]
  /\ UNCHANGED <<clock, findings, trail, reviewed, unrecorded, upsets>>

(* The second get_watch_task; ingest analyses as of the event's stamp, the  *)
(* gateway as of now.                                                       *)
Reread(c) ==
  LET o == thread[c] IN
  /\ o.pc = "reread"
  /\ thread' = [thread EXCEPT ![c] =
       [pc |-> "list", route |-> o.route, agent |-> o.agent, task |-> o.task,
        at |-> o.at, place |-> o.place, row |-> Read(o.task),
        now |-> IF o.route = "report" THEN o.at ELSE clock]]
  /\ UNCHANGED <<clock, tasks, events, findings, trail, open, reviewed,
                 unrecorded, upsets>>

(* Mutant: an event later than the time of the analysis does not count.     *)
ListedUntilNow(o) ==
  Detected(tasks[o.task].limits, o.row, tasks[o.task].created,
           {e \in Range(events[o.task]) : e.at <= o.now}, o.now, Window)

Listed(o) ==
  Detected(tasks[o.task].limits, o.row, tasks[o.task].created,
           Newest(Range(events[o.task]), ListLimit), o.now, Window)

(* An observation that still has the findings `todo` to persist and has     *)
(* persisted `done`; after the last one these are audited one by one.       *)
Persisting(o, todo, done) ==
  IF todo # {}
  THEN [pc |-> "persist", route |-> o.route, agent |-> o.agent, task |-> o.task,
        place |-> o.place, todo |-> todo, done |-> done]
  ELSE IF done # {}
  THEN [pc |-> "audit", route |-> o.route, agent |-> o.agent, task |-> o.task,
        done |-> done]
  ELSE Idle

Closed(o, todo) ==
  IF todo # {} THEN open ELSE [open EXCEPT ![o.task] = @ \ {o.place}]

Analyze(c) ==
  LET o == thread[c] IN
  /\ o.pc = "list"
  /\ thread' = [thread EXCEPT ![c] = Persisting(o, Listed(o), {})]
  /\ open' = Closed(o, Listed(o))
  /\ UNCHANGED <<clock, tasks, events, findings, trail, reviewed, unrecorded,
                 upsets>>

FirstOf(S) ==
  Codes[CHOOSE i \in DOMAIN Codes :
          Codes[i] \in S /\ \A j \in 1..(i - 1) : Codes[j] \notin S]

(* Mutant: a finding is to be persisted again and again.                    *)
UpsertAgain(c) ==
  LET o == thread[c]  code == FirstOf(thread[c].todo) IN
  /\ o.pc = "persist"
  /\ findings' = [findings EXCEPT ![o.task][code] = "open"]
  /\ reviewed' = [reviewed EXCEPT ![o.task][code] = 0]
  /\ thread' = [thread EXCEPT ![c].done = @ \cup {code}]
  /\ UNCHANGED <<clock, tasks, events, trail, open, unrecorded, upsets>>

(* upsert_watch_finding: an insert, or the row is open again                *)
UpsertFinding(c) ==
  LET o == thread[c]  code == FirstOf(thread[c].todo) IN
  /\ o.pc = "persist"
  /\ findings' = [findings EXCEPT ![o.task][code] = "open"]
  /\ reviewed' = [reviewed EXCEPT ![o.task][code] = 0]
  /\ thread' = [thread EXCEPT ![c] =
                  Persisting(o, o.todo \ {code}, o.done \cup {code})]
  /\ open' = Closed(o, o.todo \ {code})
  /\ UNCHANGED <<clock, tasks, events, trail, unrecorded, upsets>>

AuditFinding(c) ==
  LET o == thread[c]  code == FirstOf(o.done) IN
  /\ o.pc = "audit"
  /\ trail' = trail \cup {[event |-> "observed", task |-> o.task, code |-> code]}
  /\ thread' = [thread EXCEPT ![c] = IF o.done = {code} THEN Idle
                                     ELSE [o EXCEPT !.done = @ \ {code}]]
  /\ UNCHANGED <<clock, tasks, events, findings, open, reviewed, unrecorded, upsets>>

-----------------------------------------------------------------------------
(* Failures.  The gateway answers with its decision all the same.           *)

(* Mutant: the failure to observe an execution is passed over.              *)
FailQuietly(c) ==
  LET o == thread[c] IN
  /\ o.pc \notin {"idle", "failing"}
  /\ upsets < MaxUpsets
  /\ thread' = [thread EXCEPT ![c] =
                  IF o.route = "decision"
                  THEN [pc |-> "failing", task |-> o.task, agent |-> o.agent]
                  ELSE Idle]
  /\ unrecorded' = IF o.route = "report" THEN unrecorded \cup {o.task} ELSE unrecorded
  /\ upsets' = upsets + 1
  /\ UNCHANGED <<clock, tasks, events, findings, trail, open, reviewed>>

(* Any transaction raises: the gateway is going to record it, an agent's    *)
(* report is answered with an error and nothing is recorded.                *)
Fail(c) ==
  LET o == thread[c] IN
  /\ o.pc \notin {"idle", "failing"}
  /\ upsets < MaxUpsets
  /\ IF o.route = "report"
     THEN /\ thread' = [thread EXCEPT ![c] = Idle]
          /\ unrecorded' = unrecorded \cup {o.task}
     ELSE /\ thread' = [thread EXCEPT ![c] =
                          [pc |-> "failing", task |-> o.task, agent |-> o.agent]]
          /\ UNCHANGED unrecorded
  /\ upsets' = upsets + 1
  /\ UNCHANGED <<clock, tasks, events, findings, trail, open, reviewed>>

(* The audit row names the request and the agent; the task is that of the   *)
(* request.                                                                 *)
RecordFailure(c) ==
  /\ thread[c].pc = "failing"
  /\ trail' = trail \cup {[event |-> "failed", task |-> thread[c].task,
                           agent |-> thread[c].agent]}
  /\ thread' = [thread EXCEPT ![c] = Idle]
  /\ UNCHANGED <<clock, tasks, events, findings, open, reviewed, unrecorded, upsets>>

(* The process stops, or the record of a failure fails as well.             *)
Stop(c) ==
  /\ thread[c].pc # "idle"
  /\ upsets < MaxUpsets
  /\ thread' = [thread EXCEPT ![c] = Idle]
  /\ unrecorded' = unrecorded \cup {thread[c].task}
  /\ upsets' = upsets + 1
  /\ UNCHANGED <<clock, tasks, events, findings, trail, open, reviewed>>

-----------------------------------------------------------------------------
Reviews == {"open", "acknowledged", "resolved"}

(* An analyst's POST /v1/watch/findings/<id>/status, and its audit row      *)
ReviewFinding(t, code, status) ==
  /\ findings[t][code] # "none"
  /\ upsets < MaxUpsets
  /\ upsets' = upsets + 1
  /\ findings' = [findings EXCEPT ![t][code] = status]
  /\ reviewed' = [reviewed EXCEPT ![t][code] = Len(events[t])]
  /\ trail' = trail \cup {[event |-> "reviewed", task |-> t, code |-> code]}
  /\ UNCHANGED <<clock, tasks, events, thread, open, unrecorded>>

WatchInit ==
  /\ clock = 0
  /\ tasks = [t \in Task |-> None]
  /\ events = [t \in Task |-> <<>>]
  /\ findings = [t \in Task |-> [code \in Code |-> "none"]]
  /\ trail = {}
  /\ thread = [c \in Observer |-> Idle]
  /\ open = [t \in Task |-> {}]
  /\ reviewed = [t \in Task |-> [code \in Code |-> 0]]
  /\ unrecorded = {}
  /\ upsets = 0

WatchNext ==
  \/ Pass
  \/ \E a \in Agent, t \in Task : CreateTask(a, t)
  \/ \E c \in Observer, a \in Agent, t \in Task :
       \/ \E k \in Decisions : ObserveDecision(c, a, t, k)
       \/ \E k \in Outcomes : ObserveExecution(c, a, t, k)
       \/ \E k \in Reports : Ingest(c, a, t, k)
  \/ \E c \in Observer :
       \/ RecordEvent(c) \/ Reread(c)
       \/ Analyze(c) \/ UpsertFinding(c) \/ AuditFinding(c)
       \/ Fail(c) \/ RecordFailure(c) \/ Stop(c)
  \/ \E t \in Task, code \in Code, status \in Reviews :
       ReviewFinding(t, code, status)

WatchSpec == WatchInit /\ [][WatchNext]_watchVars

-----------------------------------------------------------------------------
(* The types of the tables, of the trail and of each observer; an observer  *)
(* knows of no event that is not there and has no finding both to persist   *)
(* and persisted.                                                           *)
WatchTypeOK ==
  /\ clock \in 0..MaxTime
  /\ tasks \in [Task -> TaskRow \cup {None}]
  /\ events \in [Task -> Seq(Event)]
  /\ findings \in [Task -> [Code -> Reviews \cup {"none"}]]
  /\ trail \subseteq [event: {"created"}, task: Task]
                \cup [event: {"observed", "reviewed"}, task: Task, code: Code]
                \cup [event: {"failed"}, task: Task, agent: Agent]
  /\ thread \in [Observer -> Doing]
  /\ \A c \in Observer :
       /\ thread[c].pc \in {"reread", "list", "persist"} =>
            thread[c].place \in DOMAIN events[thread[c].task]
       /\ thread[c].pc = "persist" => thread[c].todo \subseteq Code \ thread[c].done
  /\ open \in [Task -> SUBSET Nat]
  /\ reviewed \in [Task -> [Code -> Nat]]
  /\ \A t \in Task : /\ open[t] \subseteq DOMAIN events[t]
                    /\ reviewed[t] \in [Code -> 0..Len(events[t])]
  /\ unrecorded \subseteq Task
  /\ upsets \in 0..MaxUpsets

(* An event is of the agent that owns its task, also when two agents come   *)
(* to use one task id (a trace id, by default) at the same moment: one of   *)
(* them gets the task, and the other's events are never mixed into it.      *)
EventsBelongToOwner ==
  \A t \in Task : \A i \in DOMAIN events[t] : Owned(events[t][i].agent, t)

(* Findings that no later event of the task can undo.                       *)
Monotone == Code \ {"repeated_call", "cyclic_workflow", "no_progress"}

Prefix(t, k) == Range(SubSeq(events[t], 1, k))

(* What the first k events of a task breach as of the k-th, when the window *)
(* is as short as the time an analysis may take makes it.                   *)
Breached(t, k) ==
  Detected(tasks[t].limits,
           [cost |-> MapThenSumSet(LAMBDA e : e.kind.cost, Prefix(t, k)),
            active |-> tasks[t].active],
           tasks[t].created, Prefix(t, k), events[t][k].at, Window - Delay)

(* When the observation of an event has persisted its findings, whatever    *)
(* the events committed until then breach is a finding, and an open one     *)
(* unless an analyst reviewed it after that event, however the observations *)
(* of the task and the reviews interleave: of observers that pass each      *)
(* other between stamp, insert and list, one sees all their events.         *)
BreachIsReported ==
  \A t \in Task : Len(events[t]) <= ListLimit =>
    \A k \in DOMAIN events[t] \ open[t] : \A code \in Breached(t, k) :
      k = Len(events[t]) \/ code \in Monotone =>
        /\ findings[t][code] # "none"
        /\ k > reviewed[t][code] => findings[t][code] = "open"

Near(e, f) == e.at <= f.at /\ f.at <= e.at + Window + Delay

Repeats(es, n, Alike(_, _)) ==
  \E e \in es : Cardinality({f \in es : Alike(e, f) /\ Near(e, f)}) >= n

(* Calls with no progress since, as far as had been reported with the k-th  *)
(* event.                                                                   *)
Unbroken(t, k, e) ==
  \A p \in OfType(Prefix(t, k), "progress") : p.at < e.at

CallsFrom(t, k, e) ==
  {f \in OfType(Prefix(t, k), "call") : Near(e, f) /\ FpOf(f) # None}

(* With its k-th event the task was still active, and an analysis that came *)
(* no later than Delay after that event found more than n since its start.  *)
Overdue(t, k, n) ==
  /\ OfType(Prefix(t, k), "end") = {}
  /\ tasks[t].created + n < events[t][k].at + Delay

Justified(t, code) ==
  LET l == tasks[t].limits
      all == Range(events[t])
      calls == OfType(all, "call")
  IN CASE code = "repeated_call" ->
            \E k \in DOMAIN events[t] : \E e \in calls :
              /\ Unbroken(t, k, e)
              /\ Cardinality({f \in CallsFrom(t, k, e) : FpOf(f) = FpOf(e)}) >= l.calls
       [] code = "retry_storm" ->
            Repeats({e \in all : ErrorOf(e) # None}, l.errors,
                    LAMBDA e, f : ErrorOf(e) = ErrorOf(f))
       [] code = "repeated_denial" ->
            Repeats({e \in calls : e.kind.denied}, l.denials, LAMBDA e, f : TRUE)
       [] code = "excessive_polling" ->
            Repeats({e \in calls : e.kind.poll}, l.polls, LAMBDA e, f : TRUE)
       [] code = "cyclic_workflow" ->
            \E k \in DOMAIN events[t] : \E e \in calls :
              /\ Unbroken(t, k, e)
              /\ LET s == Fingerprints(CallsFrom(t, k, e))
                     len == Len(s) \div l.cycles
                 IN /\ s = [i \in 1..(len * l.cycles) |-> s[((i - 1) % len) + 1]]
                    /\ Cardinality(Range(s)) > 1
       [] code = "tool_budget" -> Cardinality(calls) > l.budget
       [] code = "cost_budget" -> MapThenSumSet(LAMBDA e : e.kind.cost, all) > l.cost
       [] code = "runtime_budget" ->
            \E k \in DOMAIN events[t] : Overdue(t, k, l.runtime)
       [] code = "no_progress" ->
            \E k \in DOMAIN events[t] :
              /\ Overdue(t, k, l.quiet)
              /\ \A p \in OfType(Prefix(t, k), "progress") :
                   p.at + l.quiet < events[t][k].at + Delay

(* Every finding is borne out by the recorded events of its task, by a      *)
(* count of them over the window, or by one that was late for a task still  *)
(* active: no false alarm comes of two observers that count one event       *)
(* twice, of an event whose stamp and commit are in different orders, of a  *)
(* progress report that came before the calls, of time after a task's end.  *)
AlarmsAreJustified ==
  \A t \in Task : Len(events[t]) <= ListLimit =>
    \A code \in Code : findings[t][code] # "none" => Justified(t, code)

(* A finding has its audit row, or an observation is going to write it, or  *)
(* the trail tells that an observation of the owner's failed: only where an *)
(* agent's own report failed or the process stopped may a finding stand     *)
(* without a trace in the audit chain.                                      *)
FindingOnRecord ==
  \A t \in Task, code \in Code :
    findings[t][code] # "none" =>
      \/ [event |-> "observed", task |-> t, code |-> code] \in trail
      \/ [event |-> "failed", task |-> t, agent |-> tasks[t].owner] \in trail
      \/ t \in unrecorded
      \/ \E c \in Observer :
           /\ thread[c].pc \in {"persist", "audit", "failing"}
           /\ thread[c].task = t /\ thread[c].agent = tasks[t].owner
           /\ thread[c].pc = "failing" \/ code \in thread[c].done
=============================================================================
