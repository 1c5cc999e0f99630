----------------------------- MODULE Admission -----------------------------
(***************************************************************************)
(* The two operations every request goes through that lock a process and    *)
(* then the database: the rate limiter, which admits a call or not, and the *)
(* append to the audit chain.  On SQLite one process serves, on PostgreSQL  *)
(* several do, and their transactions take advisory locks.                  *)
(***************************************************************************)
EXTENDS Naturals, Sequences, FiniteSets

CONSTANTS
  Agent, Process, Thread,
  Placements,  (* which process each thread may be one of                   *)
  Limit,       (* calls of an agent in a window                             *)
  Window,      (* its length: 60 seconds                                    *)
  MaxDelay,    (* bound: from a call's reading of the clock to its answer   *)
  MaxTime, MaxRows, (* bounds: of the clock, of the chain                   *)
  None

ASSUME AdmissionAssumption ==
  /\ Placements \subseteq [Thread -> Process]
  /\ {Limit, Window, MaxDelay, MaxTime, MaxRows} \subseteq Nat
  /\ MaxDelay <= Window
  /\ None \notin Agent \cup Thread
  /\ IsFiniteSet(Thread)

Time == 0..MaxTime

VARIABLES
  backend,   (* "sqlite" or "postgresql", for good                           *)
  home,      (* the process of each thread: one for all on SQLite            *)
  clock,
  rate,      (* `rate_events`; a number tells rows of one time apart        *)
  chain,     (* `audit_events`, in the order of their commits               *)
  mutex,     (* Store._lock of each process: its holder                     *)
  locked,    (* locks of the database: the holder of each                   *)
  thread,    (* what each thread is doing                                   *)
  admitted   (* ghost: the rows of all calls admitted, never pruned         *)

admissionVars ==
  <<backend, home, clock, rate, chain, mutex, locked, thread, admitted>>

Idle == [pc |-> "idle"]
Releasing == [pc |-> "release"]

RateRow == [agent: Agent, at: Time, number: Nat]

AuditRow == [at: Nat \ {0}, previous: Nat]

Job ==
  {Idle, Releasing}
    \cup [pc: {"mutex", "lock", "count"}, agent: Agent, now: Time]
    \cup [pc: {"commit"}, agent: Agent, now: Time, allowed: BOOLEAN]
    \cup [pc: {"mutex", "lock", "read"}, agent: {None}]
    \cup [pc: {"append"}, agent: {None}, previous: Nat, after: Nat]

LockName == Agent \cup {"audit-chain", "database"}

(* Mutants: on PostgreSQL the rate limiter takes no lock (LockOfAppend), an  *)
(* append takes none (LockOfRate).                                          *)
LockOfAppend(c) ==
  IF thread[c].agent # None THEN IF backend = "sqlite" THEN {"database"} ELSE {}
  ELSE IF backend = "sqlite" THEN {} ELSE {"audit-chain"}
LockOfRate(c) ==
  IF thread[c].agent = None THEN {}
  ELSE IF backend = "sqlite" THEN {"database"} ELSE {thread[c].agent}

(* What a transaction locks: the rate limiter takes BEGIN IMMEDIATE on      *)
(* SQLite; the transaction of an append has nothing until it writes.        *)
LockOf(c) ==
  IF thread[c].agent = None
  THEN IF backend = "sqlite" THEN {} ELSE {"audit-chain"}
  ELSE IF backend = "sqlite" THEN {"database"} ELSE {thread[c].agent}

Goto(c, pc) == thread' = [thread EXCEPT ![c].pc = pc]

Unlocked(c) == [k \in LockName |-> IF locked[k] = c THEN None ELSE locked[k]]

-----------------------------------------------------------------------------
Tick ==
  /\ clock < MaxTime
  /\ \A c \in Thread :
       thread[c].pc \notin {"idle", "release"} /\ thread[c].agent # None =>
         clock < thread[c].now + MaxDelay
  /\ clock' = clock + 1
  /\ UNCHANGED <<backend, home, rate, chain, mutex, locked, thread, admitted>>

(* rate_allowed reads the clock before it waits for anything.               *)
BeginRate(c, a) ==
  /\ thread[c].pc = "idle"
  /\ clock < MaxTime
  /\ thread' = [thread EXCEPT ![c] = [pc |-> "mutex", agent |-> a, now |-> clock]]
  /\ UNCHANGED <<backend, home, clock, rate, chain, mutex, locked, admitted>>

Appending ==
  {d \in Thread : /\ thread[d].pc \in {"mutex", "lock", "read", "append"}
                  /\ thread[d].agent = None}

BeginAudit(c) ==
  /\ thread[c].pc = "idle"
  /\ Len(chain) + Cardinality(Appending) < MaxRows
  /\ thread' = [thread EXCEPT ![c] = [pc |-> "mutex", agent |-> None]]
  /\ UNCHANGED <<backend, home, clock, rate, chain, mutex, locked, admitted>>

(* Mutant: a mutex that excludes nobody.                                    *)
AcquireAnyway(c) ==
  /\ thread[c].pc = "mutex"
  /\ mutex' = [mutex EXCEPT ![home[c]] = c]
  /\ Goto(c, "lock")
  /\ UNCHANGED <<backend, home, clock, rate, chain, locked, admitted>>

(* Mutant: the rate limiter locks the database first, its process then;    *)
(* here its two steps change places.                                        *)
AcquireMutexSecond(c) ==
  \/ /\ thread[c].pc = "mutex" /\ thread[c].agent # None
     /\ \A k \in LockOf(c) : locked[k] = None
     /\ locked' = [k \in LockName |-> IF k \in LockOf(c) THEN c ELSE locked[k]]
     /\ thread' = [thread EXCEPT ![c].pc = "both"]
     /\ UNCHANGED <<backend, home, clock, rate, chain, mutex, admitted>>
  \/ /\ thread[c].pc = "both" \/ (thread[c].pc = "mutex" /\ thread[c].agent = None)
     /\ mutex[home[c]] = None
     /\ mutex' = [mutex EXCEPT ![home[c]] = c]
     /\ Goto(c, IF thread[c].pc = "both" THEN "count" ELSE "lock")
     /\ UNCHANGED <<backend, home, clock, rate, chain, locked, admitted>>

AcquireMutex(c) ==
  /\ thread[c].pc = "mutex"
  /\ mutex[home[c]] = None
  /\ mutex' = [mutex EXCEPT ![home[c]] = c]
  /\ Goto(c, "lock")
  /\ UNCHANGED <<backend, home, clock, rate, chain, locked, admitted>>

(* BEGIN IMMEDIATE, _transaction_lock                                       *)
AcquireLock(c) ==
  /\ thread[c].pc = "lock"
  /\ \A k \in LockOf(c) : locked[k] = None
  /\ locked' = [k \in LockName |-> IF k \in LockOf(c) THEN c ELSE locked[k]]
  /\ Goto(c, IF thread[c].agent = None THEN "read" ELSE "count")
  /\ UNCHANGED <<backend, home, clock, rate, chain, mutex, admitted>>

-----------------------------------------------------------------------------
(* The rate limiter.                                                        *)

(* The rows of an agent that are not before the cutoff                      *)
Counted(a, now) == {r \in rate : r.agent = a /\ r.at + Window >= now}

(* DELETE of what is before the cutoff, of every agent's                    *)
Pruned(now) == {r \in rate : r.at + Window >= now}

(* Its own deletions are not yet another transaction's.                     *)
CountRate(c) ==
  LET a == thread[c].agent  now == thread[c].now IN
  /\ thread[c].pc = "count"
  /\ thread' = [thread EXCEPT ![c] =
       [pc |-> "commit", agent |-> a, now |-> now,
        allowed |-> Cardinality(Counted(a, now)) < Limit]]
  /\ UNCHANGED <<backend, home, clock, rate, chain, mutex, locked, admitted>>

NewRow(a, now) ==
  [agent |-> a, at |-> now,
   number |-> Cardinality({r \in admitted : r.agent = a /\ r.at = now})]

CommitRate(c) ==
  LET a == thread[c].agent  now == thread[c].now IN
  /\ thread[c].pc = "commit"
  /\ IF thread[c].allowed
     THEN /\ rate' = Pruned(now) \cup {NewRow(a, now)}
          /\ admitted' = admitted \cup {NewRow(a, now)}
     ELSE rate' = Pruned(now) /\ UNCHANGED admitted
  /\ locked' = Unlocked(c)
  /\ thread' = [thread EXCEPT ![c] = Releasing]
  /\ UNCHANGED <<backend, home, clock, chain, mutex>>

-----------------------------------------------------------------------------
(* The audit chain.  A row carries its stamp and what it takes to be its    *)
(* predecessor, named by the place of its commit (0: GENESIS).              *)

(* The row an ORDER BY created_at DESC LIMIT 1 returns                      *)
LastRow ==
  IF chain = <<>> THEN 0
  ELSE CHOOSE i \in DOMAIN chain : \A j \in DOMAIN chain : chain[j].at <= chain[i].at

ReadLast(c) ==
  /\ thread[c].pc = "read"
  /\ thread' = [thread EXCEPT ![c] =
       [pc |-> "append", agent |-> None, previous |-> LastRow,
        after |-> IF LastRow = 0 THEN 0 ELSE chain[LastRow].at]]
  /\ UNCHANGED <<backend, home, clock, rate, chain, mutex, locked, admitted>>

(* Mutant: the stamp is the clock's.                                        *)
StampOfClock(reading, after) == reading

(* The clock of the stamp is any: it may have been set back.  Times of the  *)
(* chain begin at 1.                                                        *)
Stamp(reading, after) == IF reading <= after THEN after + 1 ELSE reading

(* On SQLite the INSERT needs the write lock for itself.                    *)
AppendRow(c, reading) ==
  /\ thread[c].pc = "append"
  /\ backend = "sqlite" => locked["database"] = None
  /\ chain' = Append(chain, [at |-> Stamp(reading, thread[c].after),
                             previous |-> thread[c].previous])
  /\ locked' = Unlocked(c)
  /\ thread' = [thread EXCEPT ![c] = Releasing]
  /\ UNCHANGED <<backend, home, clock, rate, mutex, admitted>>

-----------------------------------------------------------------------------
Release(c) ==
  /\ thread[c].pc = "release"
  /\ mutex' = [mutex EXCEPT ![home[c]] = None]
  /\ thread' = [thread EXCEPT ![c] = Idle]
  /\ UNCHANGED <<backend, home, clock, rate, chain, locked, admitted>>

(* The transaction fails: a rollback, and both locks are given back.        *)
Fail(c) ==
  /\ thread[c].pc \in {"lock", "count", "commit", "read", "append"}
  /\ locked' = Unlocked(c)
  /\ mutex' = [mutex EXCEPT ![home[c]] = None]
  /\ thread' = [thread EXCEPT ![c] = Idle]
  /\ UNCHANGED <<backend, home, clock, rate, chain, admitted>>

AdmissionInit ==
  /\ backend \in {"sqlite", "postgresql"}
  /\ home \in Placements
  /\ backend = "sqlite" => \A c, d \in Thread : home[c] = home[d]
  /\ clock = 0
  /\ rate = {}
  /\ chain = <<>>
  /\ mutex = [p \in Process |-> None]
  /\ locked = [k \in LockName |-> None]
  /\ thread = [c \in Thread |-> Idle]
  /\ admitted = {}

Step(c) ==
  \/ AcquireMutex(c) \/ AcquireLock(c) \/ CountRate(c) \/ CommitRate(c) \/ ReadLast(c)
  \/ \E reading \in 1..MaxRows : AppendRow(c, reading)
  \/ Release(c)

AdmissionNext ==
  \/ Tick
  \/ \E c \in Thread :
       \/ \E a \in Agent : BeginRate(c, a)
       \/ BeginAudit(c) \/ Step(c) \/ Fail(c)

(* The database gives a lock to its waiters in turn; for its own mutex a    *)
(* thread may wait however long others take it.                             *)
Fairness ==
  \A c \in Thread : WF_admissionVars(Step(c)) /\ SF_admissionVars(AcquireLock(c))

AdmissionSpec == AdmissionInit /\ [][AdmissionNext]_admissionVars /\ Fairness

-----------------------------------------------------------------------------
(* The types of the tables, locks and threads; who is past the mutex of its *)
(* process holds it, and a row of the limiter was admitted.                 *)
AdmissionTypeOK ==
  /\ backend \in {"sqlite", "postgresql"} /\ home \in Placements
  /\ clock \in Time
  /\ rate \subseteq admitted /\ admitted \subseteq RateRow
  /\ chain \in Seq(AuditRow)
  /\ mutex \in [Process -> Thread \cup {None}]
  /\ locked \in [LockName -> Thread \cup {None}]
  /\ thread \in [Thread -> Job]
  /\ \A c \in Thread : thread[c].pc \notin {"idle", "mutex"} => mutex[home[c]] = c

(* Of the calls whose times lie within a window shortened by the time a     *)
(* call may wait for its locks, no more than Limit are admitted, whichever  *)
(* threads and processes decide them, and although a decision that read its *)
(* clock late prunes rows that one that waits would still have counted.     *)
AdmittedFrom(a, t) ==
  {r \in admitted : r.agent = a /\ t <= r.at /\ r.at <= t + (Window - MaxDelay)}

RateBound ==
  \A a \in Agent, t \in Time : Cardinality(AdmittedFrom(a, t)) <= Limit

(* In the order of the stamps, as verify_audit_chain reads the rows: the    *)
(* k-th is the one that k - 1 others are before.  (Of rows with one time,   *)
(* which there never are, that with the smaller id is first; let it be the  *)
(* one committed first.)                                                    *)
Before(rows, j, i) ==
  rows[j].at < rows[i].at \/ (rows[j].at = rows[i].at /\ j < i)

InOrder(rows) ==
  [k \in DOMAIN rows |->
     CHOOSE i \in DOMAIN rows :
       Cardinality({j \in DOMAIN rows : Before(rows, j, i)}) = k - 1]

(* The chain verifies at every moment, with appends from several processes, *)
(* failing ones among them, and a clock that goes back: nobody chains to a  *)
(* row that already has a successor.                                        *)
ChainVerifies ==
  LET order == InOrder(chain) IN
  \A k \in DOMAIN order :
    chain[order[k]].previous = IF k = 1 THEN 0 ELSE order[k - 1]

(* The rows in the order in which listing and verification see them, each   *)
(* with its own time and its predecessor's.                                 *)
At(rows, i) == IF i = 0 THEN 0 ELSE rows[i].at

Listing(rows) ==
  LET order == InOrder(rows) IN
  [k \in DOMAIN order |-> [at |-> At(rows, order[k]),
                          previous |-> At(rows, rows[order[k]].previous)]]

Ledger == INSTANCE AuditLedger WITH rows <- Listing(chain), Instant <- 1..(2 * MaxRows)

(* The chain as it is listed only ever grows at its end, by rows that are   *)
(* linked to the last one: no commit inserts a row before another or        *)
(* between two, which a later verification could not tell from tampering.   *)
KeepsLedger == Ledger!LedgerSpec

(* The mutex of a process always comes back: its holder waits for the       *)
(* database, but never for a thread that waits for the mutex.  The order    *)
(* mutex, then database is the same for all, also for the write lock an     *)
(* append on SQLite needs while it holds the mutex.                         *)
MutexComesBack ==
  \A p \in Process : mutex[p] # None ~> mutex[p] = None
=============================================================================
