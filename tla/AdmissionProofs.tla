--------------------------- MODULE AdmissionProofs ---------------------------
(***************************************************************************)
(* What is proved of the rate limiter and the audit chain for every number  *)
(* of threads and processes, on both databases: the limit, the chain that   *)
(* verifies, and that it implements AuditLedger.                            *)
(***************************************************************************)
EXTENDS Admission, FiniteSetTheorems, TLAPS

USE AdmissionAssumption DEF Time

-----------------------------------------------------------------------------
(* The invariant.                                                           *)

(* On SQLite one process serves.                                            *)
OneProcess == backend = "sqlite" => \A c, d \in Thread : home[c] = home[d]

(* A transaction that is past its lock holds it.                            *)
LocksHeld ==
  \A c \in Thread : thread[c].pc \in {"count", "commit", "read", "append"} =>
    \A k \in LockOf(c) : locked[k] = c

(* Each row is linked to the one that was committed before it, and later.   *)
Linked(rows) ==
  \A i \in DOMAIN rows :
    /\ rows[i].previous = i - 1
    /\ rows[i].at <= MaxRows + i
    /\ \A j \in 1..(i - 1) : rows[j].at < rows[i].at

EndOf(rows) == IF Len(rows) = 0 THEN 0 ELSE rows[Len(rows)].at

(* Who is about to append has read the last row of the chain as it is.      *)
AtTheEnd ==
  \A c \in Thread : thread[c].pc = "append" =>
    thread[c].previous = Len(chain) /\ thread[c].after = EndOf(chain)

(* No more appends than the bound are under way or done.                    *)
RoomForRows == Len(chain) + Cardinality(Appending) <= MaxRows

(* A call waits no longer than the bound.                                   *)
Timely ==
  \A c \in Thread :
    thread[c].pc \in {"mutex", "lock", "count", "commit"} /\ thread[c].agent # None =>
      thread[c].now <= clock /\ clock <= thread[c].now + MaxDelay

(* A row that is no longer in the table is older than the window.           *)
OnlyOldPruned ==
  \A r \in admitted : r \in rate \/ r.at + Window < clock

FromIn(rows, a, t) ==
  {r \in rows : r.agent = a /\ t <= r.at /\ r.at <= t + (Window - MaxDelay)}

(* A call that is going to be admitted still finds room for itself in every *)
(* window it lies in.                                                       *)
RoomFor(o, rows) ==
  o.pc = "commit" /\ o.allowed =>
    \A t \in Time : t <= o.now /\ o.now <= t + (Window - MaxDelay) =>
      Cardinality(FromIn(rows, o.agent, t)) < Limit

WithinLimit(rows) ==
  \A a \in Agent, t \in Time : Cardinality(FromIn(rows, a, t)) <= Limit

AdmissionInv ==
  /\ AdmissionTypeOK
  /\ OneProcess
  /\ LocksHeld
  /\ Linked(chain)
  /\ AtTheEnd
  /\ RoomForRows
  /\ Timely
  /\ OnlyOldPruned
  /\ IsFiniteSet(admitted)
  /\ \A c \in Thread : RoomFor(thread[c], admitted)
  /\ WithinLimit(admitted)

-----------------------------------------------------------------------------
(* What a thread is doing.                                                  *)

Critical == {"count", "commit", "read", "append"}

LEMMA JobParts ==
  ASSUME NEW o \in Job
  PROVE  /\ o.pc \in {"idle", "release", "mutex", "lock"} \cup Critical
         /\ o.pc \in {"mutex", "lock"} =>
              \/ /\ o.agent \in Agent /\ o.now \in Time
                 /\ o = [pc |-> o.pc, agent |-> o.agent, now |-> o.now]
              \/ o.agent = None /\ o = [pc |-> o.pc, agent |-> None]
         /\ o.pc = "count" => o.agent \in Agent /\ o.now \in Time
         /\ o.pc = "commit" =>
              o.agent \in Agent /\ o.now \in Time /\ o.allowed \in BOOLEAN
         /\ o.pc = "read" => o.agent = None
         /\ o.pc = "append" => o.agent = None /\ o.previous \in Nat /\ o.after \in Nat
<1>1. CASE o = Idle \/ o = Releasing
  BY <1>1 DEF Idle, Releasing, Critical
<1>2. CASE o \in [pc: {"mutex", "lock", "count"}, agent: Agent, now: Time]
  BY <1>2 DEF Critical
<1>3. CASE o \in [pc: {"commit"}, agent: Agent, now: Time, allowed: BOOLEAN]
  BY <1>3 DEF Critical
<1>4. CASE o \in [pc: {"mutex", "lock", "read"}, agent: {None}]
  BY <1>4 DEF Critical
<1>5. CASE o \in [pc: {"append"}, agent: {None}, previous: Nat, after: Nat]
  BY <1>5 DEF Critical
<1> QED
  BY <1>1, <1>2, <1>3, <1>4, <1>5 DEF Job

(* Going on to the next place of the work.                                  *)
LEMMA Goes ==
  ASSUME AdmissionTypeOK, NEW c \in Thread, NEW pc, Goto(c, pc),
         thread[c].pc \in {"mutex", "lock"},
         \/ pc = "lock"
         \/ pc = "count" /\ thread[c].agent # None
         \/ pc = "read" /\ thread[c].agent = None
  PROVE  \E o \in Job : /\ thread' = [thread EXCEPT ![c] = o]
                        /\ o.pc = pc /\ o.agent = thread[c].agent
                        /\ o.agent # None => o.now = thread[c].now
<1>1. thread[c] \in Job
  BY DEF AdmissionTypeOK
<1>2. thread' = [thread EXCEPT ![c] = [thread[c] EXCEPT !.pc = pc]]
  BY DEF Goto
<1>3. CASE thread[c].agent # None
  <2>1. /\ thread[c] = [pc |-> thread[c].pc, agent |-> thread[c].agent, now |-> thread[c].now]
        /\ thread[c].agent \in Agent /\ thread[c].now \in Time
    BY <1>1, <1>3, JobParts
  <2>2. [thread[c] EXCEPT !.pc = pc]
          = [pc |-> pc, agent |-> thread[c].agent, now |-> thread[c].now]
    BY <2>1
  <2>3. [pc |-> pc, agent |-> thread[c].agent, now |-> thread[c].now] \in Job
    BY <1>3, <2>1 DEF Job
  <2> QED BY <1>2, <2>2, <2>3
<1>4. CASE thread[c].agent = None
  <2>1. thread[c] = [pc |-> thread[c].pc, agent |-> None]
    BY <1>1, <1>4, JobParts
  <2>2. [thread[c] EXCEPT !.pc = pc] = [pc |-> pc, agent |-> None]
    BY <2>1
  <2>3. [pc |-> pc, agent |-> None] \in Job
    BY <1>4 DEF Job
  <2> QED BY <1>2, <1>4, <2>2, <2>3
<1> QED
  BY <1>3, <1>4

LEMMA RowParts ==
  ASSUME NEW rows \in Seq(AuditRow)
  PROVE  /\ Len(rows) \in Nat /\ DOMAIN rows = 1..Len(rows)
         /\ \A i \in DOMAIN rows : rows[i].at \in Nat \ {0} /\ rows[i].previous \in Nat
         /\ EndOf(rows) \in Nat
<1>1. \A i \in DOMAIN rows : rows[i] \in AuditRow
  OBVIOUS
<1>2. \A i \in DOMAIN rows : rows[i].at \in Nat \ {0} /\ rows[i].previous \in Nat
  BY <1>1 DEF AuditRow
<1>3. Len(rows) # 0 => Len(rows) \in DOMAIN rows
  OBVIOUS
<1> QED
  BY <1>2, <1>3 DEF EndOf

(* The row that a reading of the last one finds.                            *)
LEMMA LastOfLinked ==
  ASSUME AdmissionTypeOK, Linked(chain)
  PROVE  LastRow = Len(chain)
<1>1. chain \in Seq(AuditRow) /\ Len(chain) \in Nat /\ DOMAIN chain = 1..Len(chain)
  BY DEF AdmissionTypeOK
<1>2. CASE chain = <<>>
  BY <1>2 DEF LastRow
<1>3. CASE chain # <<>>
  <2> DEFINE n == Len(chain)
             Latest(i) == \A j \in DOMAIN chain : chain[j].at <= chain[i].at
  <2>1. n \in DOMAIN chain
    BY <1>1, <1>3
  <2>2. \A i \in DOMAIN chain : chain[i].at \in Nat
    BY <1>1, RowParts
  <2>3. \A j \in DOMAIN chain : j # n => j \in 1..(n - 1)
    BY <1>1
  <2>4. Latest(n)
    <3> SUFFICES ASSUME NEW j \in DOMAIN chain PROVE chain[j].at <= chain[n].at
      OBVIOUS
    <3>1. CASE j = n
      BY <2>1, <2>2, <3>1
    <3>2. CASE j # n
      <4>1. chain[j].at < chain[n].at
        BY <2>1, <2>3, <3>2 DEF Linked
      <4> QED BY <2>1, <2>2, <4>1
    <3> QED BY <3>1, <3>2
  <2>5. \A i \in DOMAIN chain : Latest(i) => i = n
    <3> SUFFICES ASSUME NEW i \in DOMAIN chain, i # n PROVE ~Latest(i)
      OBVIOUS
    <3>1. chain[i].at < chain[n].at
      BY <2>1, <2>3 DEF Linked
    <3> QED BY <2>1, <2>2, <3>1
  <2>6. LastRow = CHOOSE i \in DOMAIN chain : Latest(i)
    BY <1>3 DEF LastRow
  <2> HIDE DEF Latest
  <2> QED BY <2>1, <2>4, <2>5, <2>6
<1> QED
  BY <1>2, <1>3

(* What a thread does next, as far as its place in the work and its locks   *)
(* are concerned.                                                           *)
LEMMA Moves ==
  ASSUME AdmissionTypeOK, Linked(chain), NEW c \in Thread,
         \/ \E a \in Agent : BeginRate(c, a)
         \/ BeginAudit(c) \/ Step(c) \/ Fail(c)
  PROVE  \E o \in Job :
           /\ thread' = [thread EXCEPT ![c] = o]
           /\ UNCHANGED <<backend, home, clock>>
           /\ \/ /\ thread[c].pc = "idle" /\ o.pc = "mutex"
                 /\ o.agent # None => o.now = clock
                 /\ UNCHANGED <<mutex, locked>>
              \/ /\ AcquireMutex(c) /\ o.pc = "lock" /\ o.agent = thread[c].agent
                 /\ o.agent # None => o.now = thread[c].now
              \/ /\ AcquireLock(c) /\ o.agent = thread[c].agent
                 /\ o.pc = IF o.agent = None THEN "read" ELSE "count"
                 /\ o.agent # None => o.now = thread[c].now
              \/ /\ thread[c].pc = "count" /\ o.pc = "commit"
                 /\ o.agent = thread[c].agent /\ o.now = thread[c].now
                 /\ UNCHANGED <<mutex, locked>>
              \/ /\ thread[c].pc = "read" /\ o.pc = "append"
                 /\ o.agent = thread[c].agent /\ o.previous = Len(chain)
                 /\ o.after = EndOf(chain) /\ UNCHANGED <<mutex, locked, chain>>
              \/ /\ thread[c].pc \in {"commit", "append"} /\ o = Releasing
                 /\ mutex' = mutex /\ locked' = Unlocked(c)
              \/ /\ thread[c].pc \notin {"idle", "mutex"} /\ o = Idle
                 /\ mutex' = [mutex EXCEPT ![home[c]] = None]
                 /\ locked' = locked \/ locked' = Unlocked(c)
<1>0. thread[c] \in Job /\ clock \in Time
  BY DEF AdmissionTypeOK
<1>1. ASSUME NEW a \in Agent, BeginRate(c, a)
      PROVE  [pc |-> "mutex", agent |-> a, now |-> clock] \in Job
  BY <1>0 DEF Job
<1>2. CASE \E a \in Agent : BeginRate(c, a)
  BY <1>1, <1>2 DEF BeginRate
<1>3. CASE BeginAudit(c)
  <2>1. [pc |-> "mutex", agent |-> None] \in Job
    BY DEF Job
  <2> QED BY <1>3, <2>1 DEF BeginAudit
<1>4. CASE AcquireMutex(c)
  BY <1>4, Goes DEF AcquireMutex
<1>5. CASE AcquireLock(c)
  BY <1>5, Goes DEF AcquireLock
<1>6. CASE CountRate(c)
  <2> DEFINE b == Cardinality(Counted(thread[c].agent, thread[c].now)) < Limit
             o == [pc |-> "commit", agent |-> thread[c].agent, now |-> thread[c].now,
                   allowed |-> b]
  <2>1. b \in BOOLEAN
    OBVIOUS
  <2>2. thread' = [thread EXCEPT ![c] = o]
    BY <1>6 DEF CountRate
  <2> HIDE DEF b
  <2>3. o \in Job
    BY <1>0, <1>6, <2>1, JobParts DEF Job, CountRate
  <2>4. o.pc = "commit" /\ o.agent = thread[c].agent /\ o.now = thread[c].now
    OBVIOUS
  <2> HIDE DEF o
  <2> QED BY <1>6, <2>2, <2>3, <2>4 DEF CountRate
<1>7. CASE CommitRate(c)
  BY <1>7 DEF CommitRate, Job
<1>8. CASE ReadLast(c)
  <2> DEFINE o == [pc |-> "append", agent |-> None, previous |-> Len(chain),
                   after |-> EndOf(chain)]
  <2>1. chain \in Seq(AuditRow) /\ LastRow = Len(chain)
    BY LastOfLinked DEF AdmissionTypeOK
  <2>2. Len(chain) \in Nat /\ EndOf(chain) \in Nat
    BY <2>1, RowParts
  <2>3. o \in Job
    BY <2>2 DEF Job
  <2>4. thread' = [thread EXCEPT ![c] = o]
    BY <1>8, <2>1 DEF ReadLast, EndOf
  <2>5. thread[c].pc = "read" /\ thread[c].agent = None
    BY <1>0, <1>8, JobParts DEF ReadLast
  <2>6. /\ o.pc = "append" /\ o.agent = None /\ o.previous = Len(chain)
        /\ o.after = EndOf(chain)
    OBVIOUS
  <2> HIDE DEF o
  <2> QED BY <1>8, <2>3, <2>4, <2>5, <2>6 DEF ReadLast
<1>9. CASE \E reading \in 1..MaxRows : AppendRow(c, reading)
  BY <1>9 DEF AppendRow, Job
<1>10. CASE Release(c)
  BY <1>10 DEF Release, Job
<1>11. CASE Fail(c)
  BY <1>11 DEF Fail, Job
<1> QED
  BY <1>2, <1>3, <1>4, <1>5, <1>6, <1>7, <1>8, <1>9, <1>10, <1>11 DEF Step

-----------------------------------------------------------------------------
(* Locks.                                                                   *)

LockFor(b, agent) ==
  IF agent = None THEN IF b = "sqlite" THEN {} ELSE {"audit-chain"}
  ELSE IF b = "sqlite" THEN {"database"} ELSE {agent}

LEMMA LocksAreFor ==
  /\ \A c : LockOf(c) = LockFor(backend, thread[c].agent)
  /\ LocksHeld <=> \A c \in Thread : thread[c].pc \in Critical =>
                    \A k \in LockFor(backend, thread[c].agent) : locked[k] = c
  /\ LocksHeld' <=> \A c \in Thread : thread'[c].pc \in Critical =>
                     \A k \in LockFor(backend', thread'[c].agent) : locked'[k] = c
  BY DEF LocksHeld, LockOf, LockFor, Critical

LEMMA AgentOfCritical ==
  ASSUME NEW o \in Job, o.pc \in {"mutex", "lock"} \cup Critical
  PROVE  /\ o.agent \in Agent \cup {None}
         /\ \A b : LockFor(b, o.agent) \subseteq LockName
  BY JobParts DEF Critical, LockFor, LockName

(* No two appends, and no two calls of one agent, are past their locks.     *)
LEMMA OneAtATime ==
  ASSUME AdmissionTypeOK, OneProcess, LocksHeld,
         NEW c \in Thread, NEW d \in Thread,
         thread[c].pc \in Critical, thread[d].pc \in Critical,
         thread[c].agent = thread[d].agent
  PROVE  c = d
<1>1. CASE backend = "sqlite"
  BY <1>1 DEF AdmissionTypeOK, OneProcess, Critical
<1>2. CASE backend # "sqlite"
  <2>1. \E k : k \in LockFor(backend, thread[c].agent)
    BY <1>2 DEF LockFor
  <2> QED BY <2>1, LocksAreFor
<1> QED
  BY <1>1, <1>2

LEMMA LocksStep ==
  ASSUME AdmissionTypeOK, Linked(chain), OneProcess, LocksHeld,
         [AdmissionNext]_admissionVars
  PROVE  OneProcess' /\ LocksHeld'
<1>1. CASE Tick \/ UNCHANGED admissionVars
  BY <1>1, LocksAreFor DEF Tick, admissionVars, OneProcess
<1>2. ASSUME NEW c \in Thread,
             \/ \E a \in Agent : BeginRate(c, a)
             \/ BeginAudit(c) \/ Step(c) \/ Fail(c)
      PROVE  OneProcess' /\ LocksHeld'
  <2>1. PICK o \in Job :
           /\ thread' = [thread EXCEPT ![c] = o]
           /\ UNCHANGED <<backend, home, clock>>
           /\ \/ o.pc \notin Critical /\ UNCHANGED locked
              \/ o.pc \notin Critical /\ locked' = Unlocked(c)
              \/ AcquireLock(c) /\ o.agent = thread[c].agent
              \/ /\ thread[c].pc \in Critical /\ o.agent = thread[c].agent
                 /\ UNCHANGED locked
    BY <1>2, Moves DEF AcquireMutex, Critical, Idle, Releasing
  <2>2. \A d \in Thread : thread'[d] = IF d = c THEN o ELSE thread[d]
    BY <2>1 DEF AdmissionTypeOK
  <2>3. OneProcess'
    BY <2>1 DEF OneProcess
  <2> SUFFICES ASSUME NEW d \in Thread, thread'[d].pc \in Critical,
                      NEW k \in LockFor(backend, thread'[d].agent)
               PROVE  locked'[k] = d
    BY <2>1, <2>3, LocksAreFor
  <2>4. CASE d # c
    <3>1. thread'[d] = thread[d] /\ locked[k] = d
      BY <2>2, <2>4, LocksAreFor
    <3>2. k \in LockName
      BY <3>1, AgentOfCritical DEF AdmissionTypeOK
    <3>3. d # None
      OBVIOUS
    <3>4. CASE locked' = Unlocked(c)
      BY <2>4, <3>1, <3>2, <3>4 DEF Unlocked
    <3>5. CASE AcquireLock(c)
      <4>1. k \notin LockOf(c)
        BY <3>1, <3>3, <3>5 DEF AcquireLock
      <4> QED BY <3>1, <3>2, <3>5, <4>1 DEF AcquireLock
    <3> QED BY <2>1, <3>1, <3>4, <3>5
  <2>5. CASE d = c
    <3>1. thread'[c] = o /\ o.pc \in Critical
      BY <2>2, <2>5
    <3>2. CASE AcquireLock(c) /\ o.agent = thread[c].agent
      <4>1. k \in LockOf(c) /\ k \in LockName
        BY <2>5, <3>1, <3>2, LocksAreFor, AgentOfCritical
      <4> QED BY <2>5, <3>2, <4>1 DEF AcquireLock
    <3>3. CASE thread[c].pc \in Critical /\ o.agent = thread[c].agent /\ UNCHANGED locked
      BY <2>5, <3>1, <3>3, LocksAreFor
    <3> QED BY <2>1, <3>1, <3>2, <3>3
  <2> QED BY <2>4, <2>5
<1> QED
  BY <1>1, <1>2 DEF AdmissionNext

-----------------------------------------------------------------------------
(* Finite sets.                                                             *)

LEMMA OneMore ==
  ASSUME NEW S, IsFiniteSet(S), NEW x
  PROVE  /\ IsFiniteSet(S \cup {x})
         /\ Cardinality(S) \in Nat /\ Cardinality(S \cup {x}) \in Nat
         /\ Cardinality(S \cup {x}) <= Cardinality(S) + 1
<1>1. IsFiniteSet(S \cup {x}) /\ Cardinality(S) \in Nat
  BY FS_AddElement, FS_CardinalityType
<1>2. Cardinality(S \cup {x}) = Cardinality(S) \/ Cardinality(S \cup {x}) = Cardinality(S) + 1
  BY FS_AddElement
<1> QED
  BY <1>1, <1>2

LEMMA NoMore ==
  ASSUME NEW S, IsFiniteSet(S), NEW T, T \subseteq S
  PROVE  /\ IsFiniteSet(T)
         /\ Cardinality(S) \in Nat /\ Cardinality(T) \in Nat
         /\ Cardinality(T) <= Cardinality(S)
  BY FS_Subset, FS_CardinalityType

-----------------------------------------------------------------------------
(* Types.                                                                   *)

LEMMA NewRowTyped ==
  ASSUME AdmissionTypeOK, IsFiniteSet(admitted), NEW a \in Agent, NEW now \in Time
  PROVE  NewRow(a, now) \in RateRow /\ NewRow(a, now).agent = a /\ NewRow(a, now).at = now
<1> DEFINE n == Cardinality({r \in admitted : r.agent = a /\ r.at = now})
<1>1. n \in Nat
  BY NoMore
<1> HIDE DEF n
<1>2. NewRow(a, now) = [agent |-> a, at |-> now, number |-> n]
  BY DEF NewRow, n
<1> QED
  BY <1>1, <1>2 DEF RateRow

LEMMA StampIsLater ==
  ASSUME NEW reading \in 1..MaxRows, NEW after \in Nat
  PROVE  /\ Stamp(reading, after) \in Nat \ {0} /\ Stamp(reading, after) > after
         /\ Stamp(reading, after) <= MaxRows \/ Stamp(reading, after) = after + 1
  BY DEF Stamp

(* What is written, and by whom.                                            *)
LEMMA OnlyWriters ==
  ASSUME [AdmissionNext]_admissionVars
  PROVE  \/ UNCHANGED <<rate, chain, admitted>>
         \/ \E c \in Thread : CommitRate(c)
         \/ \E c \in Thread, reading \in 1..MaxRows : AppendRow(c, reading)
  BY DEF AdmissionNext, admissionVars, Tick, BeginRate, BeginAudit, Step, Fail,
    AcquireMutex, AcquireLock, CountRate, ReadLast, Release

LEMMA TypeStep ==
  ASSUME AdmissionTypeOK, Linked(chain), IsFiniteSet(admitted),
         [AdmissionNext]_admissionVars
  PROVE  AdmissionTypeOK'
<1>1. rate' \subseteq admitted' /\ admitted' \subseteq RateRow /\ chain' \in Seq(AuditRow)
  <2>1. CASE UNCHANGED <<rate, chain, admitted>>
    BY <2>1 DEF AdmissionTypeOK
  <2>2. ASSUME NEW c \in Thread, CommitRate(c)
        PROVE  rate' \subseteq admitted' /\ admitted' \subseteq RateRow /\ chain' = chain
    <3> DEFINE row == NewRow(thread[c].agent, thread[c].now)
    <3>1. row \in RateRow
      BY <2>2, NewRowTyped, JobParts DEF AdmissionTypeOK, CommitRate
    <3>2. /\ rate' \subseteq rate \cup {row} /\ admitted' \subseteq admitted \cup {row}
          /\ rate' \subseteq admitted \/ row \in admitted'
          /\ admitted \subseteq admitted' /\ chain' = chain
      BY <2>2 DEF CommitRate, Pruned, AdmissionTypeOK
    <3> HIDE DEF row
    <3> QED BY <3>1, <3>2 DEF AdmissionTypeOK
  <2>3. ASSUME NEW c \in Thread, NEW reading \in 1..MaxRows, AppendRow(c, reading)
        PROVE  UNCHANGED <<rate, admitted>> /\ chain' \in Seq(AuditRow)
    <3> DEFINE row == [at |-> Stamp(reading, thread[c].after), previous |-> thread[c].previous]
    <3>1. row \in AuditRow
      BY <2>3, StampIsLater, JobParts DEF AdmissionTypeOK, AppendRow, AuditRow
    <3>2. chain' = Append(chain, row) /\ UNCHANGED <<rate, admitted>>
      BY <2>3 DEF AppendRow
    <3> HIDE DEF row
    <3> QED BY <3>1, <3>2 DEF AdmissionTypeOK
  <2> QED BY <2>1, <2>2, <2>3, OnlyWriters DEF AdmissionTypeOK
<1>2. CASE Tick \/ UNCHANGED admissionVars
  BY <1>1, <1>2 DEF Tick, admissionVars, AdmissionTypeOK
<1>3. ASSUME NEW c \in Thread,
             \/ \E a \in Agent : BeginRate(c, a)
             \/ BeginAudit(c) \/ Step(c) \/ Fail(c)
      PROVE  AdmissionTypeOK'
  <2>0. home[c] \in Process
    BY DEF AdmissionTypeOK
  <2>1. PICK o \in Job :
           /\ thread' = [thread EXCEPT ![c] = o]
           /\ UNCHANGED <<backend, home, clock>>
           /\ \/ /\ o.pc = "mutex" \/ thread[c].pc \notin {"idle", "mutex"}
                 /\ UNCHANGED mutex
              \/ AcquireMutex(c)
              \/ /\ o = Idle /\ thread[c].pc \notin {"idle", "mutex"}
                 /\ mutex' = [mutex EXCEPT ![home[c]] = None]
           /\ locked' = locked \/ locked' = Unlocked(c) \/ AcquireLock(c)
    BY <1>3, Moves DEF AcquireMutex, AcquireLock
  <2>2. \A d \in Thread : thread'[d] = IF d = c THEN o ELSE thread[d]
    BY <2>1 DEF AdmissionTypeOK
  <2>3. thread' \in [Thread -> Job]
    BY <2>1 DEF AdmissionTypeOK
  <2>4. locked' \in [LockName -> Thread \cup {None}]
    BY <2>1 DEF AdmissionTypeOK, Unlocked, AcquireLock
  <2>5. mutex' \in [Process -> Thread \cup {None}]
    BY <2>0, <2>1 DEF AdmissionTypeOK, AcquireMutex
  <2>6. ASSUME NEW d \in Thread, thread'[d].pc \notin {"idle", "mutex"}
        PROVE  mutex'[home'[d]] = d
    <3>1. home' = home /\ home[d] \in Process
      BY <2>1 DEF AdmissionTypeOK
    <3>2. d # c => thread'[d] = thread[d] /\ mutex[home[d]] = d
      BY <2>2, <2>6 DEF AdmissionTypeOK
    <3>3. d # None
      OBVIOUS
    <3>4. CASE UNCHANGED mutex /\ (o.pc = "mutex" \/ thread[c].pc \notin {"idle", "mutex"})
      <4>1. d = c => thread[c].pc \notin {"idle", "mutex"}
        BY <2>2, <2>6, <3>4
      <4> QED BY <3>1, <3>2, <3>4, <4>1 DEF AdmissionTypeOK
    <3>5. CASE AcquireMutex(c)
      BY <2>0, <3>1, <3>2, <3>3, <3>5 DEF AcquireMutex, AdmissionTypeOK
    <3>6. CASE /\ o = Idle /\ thread[c].pc \notin {"idle", "mutex"}
               /\ mutex' = [mutex EXCEPT ![home[c]] = None]
      <4>1. d # c
        BY <2>2, <2>6, <3>6 DEF Idle
      <4>2. mutex[home[c]] = c
        BY <3>6 DEF AdmissionTypeOK
      <4> QED BY <2>0, <3>1, <3>2, <3>6, <4>1, <4>2 DEF AdmissionTypeOK
    <3> QED BY <2>1, <3>4, <3>5, <3>6
  <2> QED BY <1>1, <2>1, <2>3, <2>4, <2>5, <2>6 DEF AdmissionTypeOK
<1> QED
  BY <1>2, <1>3 DEF AdmissionNext

-----------------------------------------------------------------------------
(* The chain.                                                               *)

(* A row that is later than the last one and linked to it.                  *)
LEMMA AppendLinked ==
  ASSUME NEW rows \in Seq(AuditRow), Linked(rows), NEW row \in AuditRow,
         row.previous = Len(rows), row.at > EndOf(rows),
         row.at <= MaxRows \/ row.at = EndOf(rows) + 1
  PROVE  Linked(Append(rows, row))
<1> DEFINE longer == Append(rows, row)
<1>0. PICK n \in Nat : n = Len(rows)
  BY RowParts
<1>1. /\ n \in Nat /\ DOMAIN rows = 1..n /\ EndOf(rows) \in Nat
      /\ \A i \in 1..n : rows[i].at \in Nat
      /\ row.at \in Nat
  BY <1>0, RowParts DEF AuditRow
<1>2. /\ DOMAIN longer = 1..(n + 1) /\ longer[n + 1] = row
      /\ \A i \in 1..n : longer[i] = rows[i]
  BY <1>0
<1>3. \A j \in 1..n : rows[j].at <= EndOf(rows)
  <2> SUFFICES ASSUME NEW j \in 1..n PROVE rows[j].at <= EndOf(rows)
    OBVIOUS
  <2>1. n \in 1..n /\ EndOf(rows) = rows[n].at
    BY <1>0, <1>1 DEF EndOf
  <2>2. j = n \/ j \in 1..(n - 1)
    BY <1>1
  <2>3. j \in 1..(n - 1) => rows[j].at < rows[n].at
    BY <1>1, <2>1 DEF Linked
  <2> QED BY <1>1, <2>1, <2>2, <2>3
<1>4. EndOf(rows) <= MaxRows + n
  <2>1. CASE n = 0
    BY <1>0, <2>1 DEF EndOf
  <2>2. CASE n # 0
    BY <1>0, <1>1, <2>2 DEF EndOf, Linked
  <2> QED BY <2>1, <2>2
<1> HIDE DEF longer
<1> SUFFICES ASSUME NEW i \in 1..(n + 1)
             PROVE  /\ longer[i].previous = i - 1
                    /\ longer[i].at <= MaxRows + i
                    /\ \A j \in 1..(i - 1) : longer[j].at < longer[i].at
  BY <1>2 DEF Linked, longer
<1>5. CASE i \in 1..n
  <2>1. \A j \in 1..(i - 1) : j \in 1..n
    BY <1>1
  <2> QED BY <1>1, <1>2, <1>5, <2>1 DEF Linked
<1>6. CASE i = n + 1
  <2>1. longer[i] = row /\ i - 1 = n /\ row.previous = n
    BY <1>0, <1>1, <1>2, <1>6
  <2>2. row.at <= MaxRows + i
    BY <1>1, <1>4, <1>6
  <2>3. \A j \in 1..n : longer[j].at < row.at
    BY <1>1, <1>2, <1>3
  <2> QED BY <2>1, <2>2, <2>3
<1> QED
  BY <1>1, <1>5, <1>6

(* An append that is committed links its row to the chain as it then is.    *)
LEMMA AppendsAtTheEnd ==
  ASSUME AdmissionTypeOK, Linked(chain), AtTheEnd,
         NEW c \in Thread, NEW reading \in 1..MaxRows, AppendRow(c, reading)
  PROVE  \E row \in AuditRow :
           /\ chain' = Append(chain, row) /\ row.previous = Len(chain)
           /\ row.at > EndOf(chain)
           /\ row.at <= MaxRows \/ row.at = EndOf(chain) + 1
<1> DEFINE stamp == Stamp(reading, EndOf(chain))
           row == [at |-> stamp, previous |-> Len(chain)]
<1>1. chain \in Seq(AuditRow) /\ Len(chain) \in Nat /\ EndOf(chain) \in Nat
  BY RowParts DEF AdmissionTypeOK
<1>2. chain' = Append(chain, row)
  BY DEF AppendRow, AtTheEnd
<1>3. /\ stamp \in Nat \ {0} /\ stamp > EndOf(chain)
      /\ stamp <= MaxRows \/ stamp = EndOf(chain) + 1
  BY <1>1, StampIsLater
<1> HIDE DEF stamp
<1>4. row \in AuditRow /\ row.at = stamp /\ row.previous = Len(chain)
  BY <1>1, <1>3 DEF AuditRow
<1> QED
  BY <1>2, <1>3, <1>4

LEMMA ChainStep ==
  ASSUME AdmissionTypeOK, OneProcess, LocksHeld, Linked(chain), AtTheEnd,
         [AdmissionNext]_admissionVars
  PROVE  Linked(chain') /\ AtTheEnd'
<1>1. ASSUME NEW c \in Thread, NEW reading \in 1..MaxRows, AppendRow(c, reading)
      PROVE  Linked(chain') /\ AtTheEnd'
  <2>0. PICK row \in AuditRow :
           /\ chain' = Append(chain, row) /\ row.previous = Len(chain)
           /\ row.at > EndOf(chain)
           /\ row.at <= MaxRows \/ row.at = EndOf(chain) + 1
    BY <1>1, AppendsAtTheEnd
  <2>1. Linked(chain')
    BY <2>0, AppendLinked DEF AdmissionTypeOK
  <2>2. ASSUME NEW d \in Thread, thread'[d].pc = "append" PROVE FALSE
    <3>1. d # c /\ thread[d].pc = "append"
      BY <1>1, <2>2 DEF AppendRow, AdmissionTypeOK, Releasing
    <3>2. thread[c].pc = "append"
      BY <1>1 DEF AppendRow
    <3>3. thread[c].agent = None /\ thread[d].agent = None
      BY <3>1, <3>2, JobParts DEF AdmissionTypeOK
    <3> QED BY <3>1, <3>2, <3>3, OneAtATime DEF Critical
  <2> QED BY <2>1, <2>2 DEF AtTheEnd
<1>2. CASE chain' = chain
  <2>1. CASE thread' = thread
    BY <1>2, <2>1 DEF AtTheEnd, EndOf
  <2>2. ASSUME NEW c \in Thread,
               \/ \E a \in Agent : BeginRate(c, a)
               \/ BeginAudit(c) \/ Step(c) \/ Fail(c)
        PROVE  AtTheEnd'
    <3>1. PICK o \in Job :
             /\ thread' = [thread EXCEPT ![c] = o]
             /\ o.pc = "append" => o.previous = Len(chain) /\ o.after = EndOf(chain)
      BY <2>2, Moves DEF Idle, Releasing
    <3>2. \A d \in Thread : thread'[d] = IF d = c THEN o ELSE thread[d]
      BY <3>1 DEF AdmissionTypeOK
    <3> QED BY <1>2, <3>1, <3>2 DEF AtTheEnd, EndOf
  <2> QED
    BY <1>2, <2>1, <2>2 DEF AdmissionNext, admissionVars, Tick
<1> QED
  BY <1>1, <1>2, OnlyWriters DEF CommitRate

-----------------------------------------------------------------------------
(* The bound on the rows.                                                   *)

AppendingIn(threads) ==
  {d \in Thread : /\ threads[d].pc \in {"mutex", "lock", "read", "append"}
                  /\ threads[d].agent = None}

LEMMA RoomStep ==
  ASSUME AdmissionTypeOK, Linked(chain), RoomForRows, [AdmissionNext]_admissionVars
  PROVE  RoomForRows'
<1> DEFINE old == AppendingIn(thread)  new == AppendingIn(thread')
<1>1. /\ Appending = old
      /\ RoomForRows <=> Len(chain) + Cardinality(old) <= MaxRows
      /\ RoomForRows' <=> Len(chain') + Cardinality(new) <= MaxRows
  BY DEF RoomForRows, Appending, AppendingIn
<1>2. IsFiniteSet(old) /\ Len(chain) \in Nat
  BY NoMore, RowParts DEF AppendingIn, AdmissionTypeOK
<1>3. ASSUME new \subseteq old, chain' = chain PROVE RoomForRows'
  BY <1>1, <1>2, <1>3, NoMore
<1>4. CASE Tick \/ UNCHANGED admissionVars
  BY <1>3, <1>4 DEF Tick, admissionVars
<1>5. ASSUME NEW c \in Thread, BeginAudit(c) PROVE RoomForRows'
  <2>1. new \subseteq old \cup {c} /\ chain' = chain
    BY <1>5 DEF BeginAudit, AppendingIn, AdmissionTypeOK
  <2>2. Len(chain) + Cardinality(old) < MaxRows
    BY <1>1, <1>5 DEF BeginAudit
  <2>3. /\ IsFiniteSet(old \cup {c}) /\ Cardinality(old) \in Nat
        /\ Cardinality(old \cup {c}) \in Nat
        /\ Cardinality(old \cup {c}) <= Cardinality(old) + 1
    BY <1>2, OneMore
  <2>4. Cardinality(new) \in Nat /\ Cardinality(new) <= Cardinality(old \cup {c})
    BY <2>1, <2>3, NoMore
  <2> HIDE DEF old, new
  <2> QED BY <1>1, <1>2, <2>1, <2>2, <2>3, <2>4
<1>6. ASSUME NEW c \in Thread, NEW reading \in 1..MaxRows, AppendRow(c, reading)
      PROVE  RoomForRows'
  <2>1. c \in old
    BY <1>6, JobParts DEF AppendRow, AppendingIn, AdmissionTypeOK
  <2>2. new \subseteq old \ {c}
    BY <1>6 DEF AppendRow, AppendingIn, AdmissionTypeOK, Releasing
  <2>3. /\ IsFiniteSet(old \ {c}) /\ Cardinality(old) \in Nat
        /\ Cardinality(old \ {c}) = Cardinality(old) - 1
    BY <1>2, <2>1, FS_RemoveElement, FS_CardinalityType
  <2>4. Cardinality(new) \in Nat /\ Cardinality(new) <= Cardinality(old \ {c})
    BY <2>2, <2>3, NoMore
  <2>5. Len(chain') = Len(chain) + 1
    BY <1>6 DEF AppendRow, AdmissionTypeOK
  <2> HIDE DEF old, new
  <2> QED BY <1>1, <1>2, <2>3, <2>4, <2>5
<1>7. ASSUME NEW c \in Thread, chain' = chain,
             \/ \E a \in Agent : BeginRate(c, a)
             \/ Step(c) \/ Fail(c)
      PROVE  RoomForRows'
  <2>1. PICK o \in Job :
           /\ thread' = [thread EXCEPT ![c] = o]
           /\ \/ o.pc \in {"release", "idle", "commit"}
              \/ o.agent \in Agent
              \/ /\ thread[c].pc \in {"mutex", "lock", "read"}
                 /\ o.agent = thread[c].agent
    <3>1. CASE \E a \in Agent : BeginRate(c, a)
      <4>1. PICK a \in Agent : BeginRate(c, a)
        BY <3>1
      <4>2. [pc |-> "mutex", agent |-> a, now |-> clock] \in Job
        BY DEF Job, AdmissionTypeOK
      <4> QED BY <4>1, <4>2 DEF BeginRate
    <3>2. CASE Step(c) \/ Fail(c)
      <4>1. thread[c].pc # "idle"
        BY <3>2 DEF Step, Fail, AcquireMutex, AcquireLock, CountRate, CommitRate,
          ReadLast, AppendRow, Release
      <4> QED BY <3>2, <4>1, Moves DEF AcquireMutex, AcquireLock, Idle, Releasing
    <3> QED BY <1>7, <3>1, <3>2
  <2>2. new \subseteq old
    <3>1. \A d \in Thread : thread'[d] = IF d = c THEN o ELSE thread[d]
      BY <2>1 DEF AdmissionTypeOK
    <3> QED BY <2>1, <3>1 DEF AppendingIn
  <2> QED BY <1>3, <1>7, <2>2
<1>8. ASSUME NEW c \in Thread, Step(c), chain' # chain
      PROVE  \E reading \in 1..MaxRows : AppendRow(c, reading)
  BY <1>8 DEF Step, AcquireMutex, AcquireLock, CountRate, CommitRate, ReadLast, Release
<1>9. ASSUME NEW c \in Thread, Fail(c) \/ \E a \in Agent : BeginRate(c, a)
      PROVE  chain' = chain
  BY <1>9 DEF Fail, BeginRate
<1> HIDE DEF old, new
<1> QED
  BY <1>4, <1>5, <1>6, <1>7, <1>8, <1>9 DEF AdmissionNext

-----------------------------------------------------------------------------
(* The limit.                                                               *)

LEMMA FromParts ==
  ASSUME NEW rows, NEW row, NEW a, NEW t
  PROVE  \/ FromIn(rows \cup {row}, a, t) = FromIn(rows, a, t)
         \/ /\ FromIn(rows \cup {row}, a, t) = FromIn(rows, a, t) \cup {row}
            /\ row.agent = a /\ t <= row.at /\ row.at <= t + (Window - MaxDelay)
  BY DEF FromIn

LEMMA OthersRows ==
  ASSUME NEW rows, NEW row, NEW a, NEW t, row.agent # a
  PROVE  FromIn(rows \cup {row}, a, t) = FromIn(rows, a, t)
  BY DEF FromIn

LEMMA TimelyStep ==
  ASSUME AdmissionTypeOK, Linked(chain), Timely, [AdmissionNext]_admissionVars
  PROVE  Timely' /\ clock' \in Nat /\ clock' >= clock
<1>0. clock \in Nat /\ \A c \in Thread : thread[c] \in Job
  BY DEF AdmissionTypeOK
<1>1. CASE UNCHANGED admissionVars
  BY <1>0, <1>1 DEF admissionVars, Timely
<1>2. CASE Tick
  <2> SUFFICES ASSUME NEW c \in Thread,
                      thread[c].pc \in {"mutex", "lock", "count", "commit"},
                      thread[c].agent # None
               PROVE  thread[c].now <= clock + 1 /\ clock + 1 <= thread[c].now + MaxDelay
    BY <1>0, <1>2 DEF Tick, Timely
  <2>1. thread[c].now \in Nat
    BY <1>0, JobParts DEF Critical
  <2>2. thread[c].now <= clock /\ clock < thread[c].now + MaxDelay
    BY <1>2 DEF Tick, Timely
  <2> QED BY <1>0, <2>1, <2>2
<1>3. ASSUME NEW c \in Thread,
             \/ \E a \in Agent : BeginRate(c, a)
             \/ BeginAudit(c) \/ Step(c) \/ Fail(c)
      PROVE  Timely' /\ clock' = clock
  <2>1. PICK o \in Job :
           /\ thread' = [thread EXCEPT ![c] = o] /\ clock' = clock
           /\ \/ o.pc \notin {"mutex", "lock", "count", "commit"}
              \/ o.agent # None => o.now = clock
              \/ /\ thread[c].pc \in {"mutex", "lock", "count"}
                 /\ o.agent = thread[c].agent
                 /\ o.agent # None => o.now = thread[c].now
    BY <1>3, Moves DEF AcquireMutex, AcquireLock, Idle, Releasing
  <2>2. \A d \in Thread : thread'[d] = IF d = c THEN o ELSE thread[d]
    BY <2>1 DEF AdmissionTypeOK
  <2>3. clock <= clock + MaxDelay
    BY <1>0
  <2> QED BY <1>0, <2>1, <2>2, <2>3 DEF Timely
<1> QED
  BY <1>0, <1>1, <1>2, <1>3 DEF AdmissionNext, Tick, admissionVars

(* A row that lies in a window with a call that is under way is still in    *)
(* the table, and counted.                                                  *)
LEMMA CountedInWindow ==
  ASSUME AdmissionTypeOK, Timely, OnlyOldPruned, NEW c \in Thread,
         thread[c].pc = "count", NEW t \in Time,
         t <= thread[c].now, thread[c].now <= t + (Window - MaxDelay)
  PROVE  FromIn(admitted, thread[c].agent, t)
           \subseteq Counted(thread[c].agent, thread[c].now)
<1> DEFINE now == thread[c].now
<1>1. now \in Nat /\ thread[c].agent # None /\ clock \in Nat /\ t \in Nat
  BY JobParts DEF AdmissionTypeOK
<1>2. clock <= now + MaxDelay
  BY <1>1 DEF Timely
<1> SUFFICES ASSUME NEW r \in admitted, r.agent = thread[c].agent, t <= r.at
             PROVE  r \in rate /\ r.at + Window >= now
  BY DEF FromIn, Counted
<1>3. r.at \in Nat
  BY DEF AdmissionTypeOK, RateRow
<1> HIDE DEF now
<1>4. now + MaxDelay <= t + Window
  BY <1>1 DEF now
<1>5. r.at + Window >= clock /\ r.at + Window >= now
  BY <1>1, <1>2, <1>3, <1>4
<1> QED
  BY <1>1, <1>3, <1>5 DEF OnlyOldPruned, now

LEMMA CommitParts ==
  ASSUME AdmissionTypeOK, IsFiniteSet(admitted), NEW c \in Thread, CommitRate(c)
  PROVE  /\ thread[c].agent \in Agent /\ thread[c].now \in Nat
         /\ thread' = [thread EXCEPT ![c] = Releasing]
         /\ \E row \in RateRow :
              /\ row.agent = thread[c].agent /\ row.at = thread[c].now
              /\ \/ /\ thread[c].allowed
                    /\ rate' = Pruned(thread[c].now) \cup {row}
                    /\ admitted' = admitted \cup {row}
                 \/ rate' = Pruned(thread[c].now) /\ admitted' = admitted
<1>1. thread[c].agent \in Agent /\ thread[c].now \in Time
  BY JobParts DEF CommitRate, AdmissionTypeOK
<1> DEFINE row == NewRow(thread[c].agent, thread[c].now)
<1>2. row \in RateRow /\ row.agent = thread[c].agent /\ row.at = thread[c].now
  BY <1>1, NewRowTyped
<1>3. \/ /\ thread[c].allowed
         /\ rate' = Pruned(thread[c].now) \cup {row}
         /\ admitted' = admitted \cup {row}
      \/ rate' = Pruned(thread[c].now) /\ admitted' = admitted
  BY DEF CommitRate
<1> HIDE DEF row
<1> QED
  BY <1>1, <1>2, <1>3 DEF CommitRate

LEMMA PruningStep ==
  ASSUME AdmissionTypeOK, Linked(chain), Timely, OnlyOldPruned, IsFiniteSet(admitted),
         [AdmissionNext]_admissionVars
  PROVE  OnlyOldPruned' /\ IsFiniteSet(admitted')
<1>0. /\ clock \in Nat /\ clock' \in Nat /\ clock' >= clock
      /\ \A r \in admitted : r.at \in Nat
  BY TimelyStep DEF AdmissionTypeOK, RateRow
<1>1. CASE UNCHANGED <<rate, admitted>>
  BY <1>0, <1>1 DEF OnlyOldPruned
<1>2. ASSUME NEW c \in Thread, CommitRate(c)
      PROVE  OnlyOldPruned' /\ IsFiniteSet(admitted')
  <2>1. thread[c].now \in Nat /\ thread[c].agent # None /\ thread[c].pc = "commit"
    BY <1>2, CommitParts DEF CommitRate
  <2>2. thread[c].now <= clock
    BY <2>1 DEF Timely
  <2>3. PICK row \in RateRow :
          \/ /\ rate' = Pruned(thread[c].now) \cup {row}
             /\ admitted' = admitted \cup {row}
          \/ rate' = Pruned(thread[c].now) /\ admitted' = admitted
    BY <1>2, CommitParts
  <2>4. \A r \in admitted : r \in Pruned(thread[c].now) \/ r.at + Window < clock
    <3> SUFFICES ASSUME NEW r \in admitted, r \in rate,
                        ~(r.at + Window >= thread[c].now)
                 PROVE  r.at + Window < clock
      BY DEF OnlyOldPruned, Pruned
    <3> QED BY <1>0, <2>1, <2>2
  <2>5. \A r \in admitted : r \in rate' \/ r.at + Window < clock'
    BY <1>0, <2>3, <2>4
  <2>6. \A r \in admitted' : r \in admitted \/ r \in rate'
    BY <2>3
  <2>7. IsFiniteSet(admitted')
    <3>1. IsFiniteSet(admitted \cup {row})
      BY OneMore
    <3> QED BY <2>3, <3>1
  <2> QED BY <2>5, <2>6, <2>7 DEF OnlyOldPruned
<1>3. ASSUME NEW c \in Thread, NEW reading \in 1..MaxRows, AppendRow(c, reading)
      PROVE  UNCHANGED <<rate, admitted>>
  BY <1>3 DEF AppendRow
<1> QED
  BY <1>1, <1>2, <1>3, OnlyWriters

LEMMA LimitStep ==
  ASSUME AdmissionTypeOK, OneProcess, LocksHeld, Linked(chain), Timely, OnlyOldPruned,
         IsFiniteSet(admitted), \A c \in Thread : RoomFor(thread[c], admitted),
         WithinLimit(admitted), [AdmissionNext]_admissionVars
  PROVE  WithinLimit(admitted') /\ \A c \in Thread : RoomFor(thread'[c], admitted')
<1>0. \A a, t : /\ IsFiniteSet(FromIn(admitted, a, t))
               /\ Cardinality(FromIn(admitted, a, t)) \in Nat
  BY NoMore DEF FromIn
<1>1. CASE Tick \/ UNCHANGED admissionVars
  BY <1>1 DEF Tick, admissionVars
<1>2. ASSUME NEW c \in Thread, CommitRate(c)
      PROVE  WithinLimit(admitted') /\ \A d \in Thread : RoomFor(thread'[d], admitted')
  <2> DEFINE a == thread[c].agent  now == thread[c].now
  <2>1. a \in Agent /\ now \in Nat /\ thread' = [thread EXCEPT ![c] = Releasing]
    BY <1>2, CommitParts
  <2>2. thread[c].pc = "commit"
    BY <1>2 DEF CommitRate
  <2>3. ASSUME NEW d \in Thread, thread'[d].pc = "commit"
        PROVE  thread'[d] = thread[d] /\ thread[d].agent # a
    <3>1. d # c /\ thread'[d] = thread[d]
      BY <2>1, <2>3 DEF AdmissionTypeOK, Releasing
    <3> QED BY <2>2, <2>3, <3>1, OneAtATime DEF Critical
  <2>4. PICK row \in RateRow :
          /\ row.agent = a /\ row.at = now
          /\ \/ thread[c].allowed /\ admitted' = admitted \cup {row}
             \/ admitted' = admitted
    BY <1>2, CommitParts
  <2>5. CASE admitted' = admitted
    BY <2>3, <2>5 DEF RoomFor
  <2>6. CASE thread[c].allowed /\ admitted' = admitted \cup {row}
    <3>1. ASSUME NEW d \in Thread PROVE RoomFor(thread'[d], admitted')
      BY <2>3, <2>4, <2>6, OthersRows DEF RoomFor
    <3>2. ASSUME NEW b \in Agent, NEW t \in Time
          PROVE  Cardinality(FromIn(admitted', b, t)) <= Limit
      <4>1. Cardinality(FromIn(admitted, b, t)) <= Limit
        BY DEF WithinLimit
      <4>2. CASE FromIn(admitted', b, t) = FromIn(admitted, b, t)
        BY <4>1, <4>2
      <4>3. CASE /\ FromIn(admitted', b, t) = FromIn(admitted, b, t) \cup {row}
                 /\ row.agent = b /\ t <= row.at /\ row.at <= t + (Window - MaxDelay)
        <5>1. Cardinality(FromIn(admitted, b, t)) < Limit
          BY <2>2, <2>4, <2>6, <4>3 DEF RoomFor
        <5>2. /\ Cardinality(FromIn(admitted', b, t)) \in Nat
              /\ Cardinality(FromIn(admitted', b, t))
                   <= Cardinality(FromIn(admitted, b, t)) + 1
          BY <1>0, <4>3, OneMore
        <5> QED BY <1>0, <5>1, <5>2
      <4>4. \/ FromIn(admitted \cup {row}, b, t) = FromIn(admitted, b, t)
            \/ /\ FromIn(admitted \cup {row}, b, t) = FromIn(admitted, b, t) \cup {row}
               /\ row.agent = b /\ t <= row.at /\ row.at <= t + (Window - MaxDelay)
        BY FromParts
      <4> QED BY <2>6, <4>2, <4>3, <4>4
    <3> QED BY <3>1, <3>2 DEF WithinLimit
  <2> QED BY <2>4, <2>5, <2>6
<1>3. ASSUME NEW c \in Thread, CountRate(c)
      PROVE  WithinLimit(admitted') /\ \A d \in Thread : RoomFor(thread'[d], admitted')
  <2> DEFINE a == thread[c].agent  now == thread[c].now
             b == Cardinality(Counted(a, now)) < Limit
             o == [pc |-> "commit", agent |-> a, now |-> now, allowed |-> b]
  <2>1. thread[c].pc = "count" /\ thread' = [thread EXCEPT ![c] = o] /\ admitted' = admitted
    BY <1>3 DEF CountRate
  <2>2. \A d \in Thread : thread'[d] = IF d = c THEN o ELSE thread[d]
    BY <2>1 DEF AdmissionTypeOK
  <2>3. ASSUME b, NEW t \in Time, t <= now, now <= t + (Window - MaxDelay)
        PROVE  Cardinality(FromIn(admitted, a, t)) < Limit
    <3>1. FromIn(admitted, a, t) \subseteq Counted(a, now)
      BY <2>1, <2>3, CountedInWindow
    <3>2. IsFiniteSet(Counted(a, now))
      BY NoMore DEF Counted, AdmissionTypeOK
    <3>3. /\ Cardinality(Counted(a, now)) \in Nat
          /\ Cardinality(FromIn(admitted, a, t)) <= Cardinality(Counted(a, now))
      BY <3>1, <3>2, NoMore
    <3> QED BY <1>0, <2>3, <3>3
  <2> HIDE DEF b
  <2>4. RoomFor(o, admitted)
    BY <2>3 DEF RoomFor
  <2> HIDE DEF o
  <2> QED BY <2>1, <2>2, <2>4
<1>4. ASSUME NEW c \in Thread,
             \/ \E a \in Agent : BeginRate(c, a)
             \/ BeginAudit(c) \/ Step(c) \/ Fail(c),
             ~CommitRate(c), ~CountRate(c)
      PROVE  WithinLimit(admitted') /\ \A d \in Thread : RoomFor(thread'[d], admitted')
  <2>1. admitted' = admitted
    BY <1>4
    DEF BeginRate, BeginAudit, Step, Fail, AcquireMutex, AcquireLock, ReadLast,
      AppendRow, Release
  <2>2. PICK o \in Job : thread' = [thread EXCEPT ![c] = o] /\ o.pc # "commit"
    <3>1. CASE Fail(c)
      <4>1. Idle \in Job /\ Idle.pc # "commit"
        BY DEF Job, Idle
      <4> QED BY <3>1, <4>1 DEF Fail
    <3>2. CASE ~Fail(c)
      <4>1. thread[c].pc # "count"
        BY <1>4, <3>2 DEF BeginRate, BeginAudit, Step, AcquireMutex, AcquireLock,
          ReadLast, AppendRow, Release
      <4> QED BY <1>4, <4>1, Moves DEF Idle, Releasing
    <3> QED BY <3>1, <3>2
  <2>3. \A d \in Thread : thread'[d] = IF d = c THEN o ELSE thread[d]
    BY <2>2 DEF AdmissionTypeOK
  <2> QED BY <2>1, <2>2, <2>3 DEF RoomFor
<1> QED
  BY <1>1, <1>2, <1>3, <1>4 DEF AdmissionNext

-----------------------------------------------------------------------------
(* The invariant holds.                                                     *)

LEMMA AdmissionInvInit == AdmissionInit => AdmissionInv
<1> SUFFICES ASSUME AdmissionInit PROVE AdmissionInv
  OBVIOUS
<1>1. \A c \in Thread : thread[c] = [pc |-> "idle"]
  BY DEF AdmissionInit, Idle
<1>2. AdmissionTypeOK
  <2>1. Idle \in Job
    BY DEF Job
  <2>2. thread \in [Thread -> Job] /\ clock \in Time /\ chain \in Seq(AuditRow)
    BY <2>1 DEF AdmissionInit
  <2> QED BY <1>1, <2>2 DEF AdmissionInit, AdmissionTypeOK
<1>3. OneProcess /\ LocksHeld /\ Linked(chain) /\ AtTheEnd
  BY <1>1 DEF AdmissionInit, OneProcess, LocksHeld, Linked, AtTheEnd
<1>4. RoomForRows
  <2>1. Appending = {} /\ Len(chain) = 0
    BY <1>1 DEF AdmissionInit, Appending
  <2> QED BY <2>1, FS_EmptySet DEF RoomForRows
<1>5. Timely /\ OnlyOldPruned /\ IsFiniteSet(admitted)
      /\ \A c \in Thread : RoomFor(thread[c], admitted)
  BY <1>1, FS_EmptySet DEF AdmissionInit, Timely, OnlyOldPruned, RoomFor
<1>6. WithinLimit(admitted)
  <2>1. \A a, t : FromIn(admitted, a, t) = {}
    BY DEF AdmissionInit, FromIn
  <2> QED BY <2>1, FS_EmptySet DEF WithinLimit
<1> QED
  BY <1>2, <1>3, <1>4, <1>5, <1>6 DEF AdmissionInv

LEMMA AdmissionInvStep ==
  AdmissionInv /\ [AdmissionNext]_admissionVars => AdmissionInv'
<1> SUFFICES ASSUME AdmissionInv, [AdmissionNext]_admissionVars PROVE AdmissionInv'
  OBVIOUS
<1> USE DEF AdmissionInv
<1>1. AdmissionTypeOK'
  BY TypeStep
<1>2. OneProcess' /\ LocksHeld'
  BY LocksStep
<1>3. Linked(chain') /\ AtTheEnd'
  BY ChainStep
<1>4. RoomForRows'
  BY RoomStep
<1>5. Timely' /\ OnlyOldPruned' /\ IsFiniteSet(admitted')
  BY TimelyStep, PruningStep
<1>6. WithinLimit(admitted') /\ \A c \in Thread : RoomFor(thread'[c], admitted')
  BY LimitStep
<1> QED
  BY <1>1, <1>2, <1>3, <1>4, <1>5, <1>6 DEF Linked, RoomFor, WithinLimit, FromIn

LEMMA AdmissionInvariant == AdmissionSpec => []AdmissionInv
  BY AdmissionInvInit, AdmissionInvStep, PTL DEF AdmissionSpec

(* THEOREM: the tables, locks and threads always hold the values the code   *)
(* uses, and only the holder of its process's mutex is past it.             *)
THEOREM AdmissionTypeCorrect == AdmissionSpec => []AdmissionTypeOK
<1>1. AdmissionInv => AdmissionTypeOK
  BY DEF AdmissionInv
<1> QED
  BY <1>1, AdmissionInvariant, PTL

(* THEOREM: of the calls of a window, shortened by the time a call may wait *)
(* for its locks, no more than Limit are admitted, however many threads and *)
(* processes admit them and prune each other's rows.                        *)
THEOREM RateIsBounded == AdmissionSpec => []RateBound
<1>1. AdmissionInv => RateBound
  BY DEF AdmissionInv, WithinLimit, RateBound, AdmittedFrom, FromIn
<1> QED
  BY <1>1, AdmissionInvariant, PTL

-----------------------------------------------------------------------------
(* The order in which the chain is verified.                                *)

LEMMA InOrderIsCommitOrder ==
  ASSUME NEW rows \in Seq(AuditRow), Linked(rows)
  PROVE  InOrder(rows) = [k \in DOMAIN rows |-> k]
<1> DEFINE rank(i) == {j \in DOMAIN rows : Before(rows, j, i)}
<1>1. /\ Len(rows) \in Nat /\ DOMAIN rows = 1..Len(rows)
      /\ \A i \in DOMAIN rows : rows[i].at \in Nat
  BY RowParts
<1>2. \A i, j \in DOMAIN rows : j < i => rows[j].at < rows[i].at
  <2>1. \A i, j \in DOMAIN rows : j < i => j \in 1..(i - 1)
    BY <1>1
  <2> QED BY <2>1 DEF Linked
<1>3. \A i, j \in DOMAIN rows : Before(rows, j, i) <=> j < i
  <2> SUFFICES ASSUME NEW i \in DOMAIN rows, NEW j \in DOMAIN rows
               PROVE  Before(rows, j, i) <=> j < i
    OBVIOUS
  <2>1. /\ i \in Nat /\ j \in Nat /\ rows[i].at \in Nat /\ rows[j].at \in Nat
        /\ j < i => rows[j].at < rows[i].at
        /\ i < j => rows[i].at < rows[j].at
        /\ i = j => rows[i].at = rows[j].at
    BY <1>1, <1>2
  <2> HIDE DEF rank
  <2> QED BY <2>1 DEF Before
<1>4. \A i \in DOMAIN rows : Cardinality(rank(i)) = i - 1
  <2> SUFFICES ASSUME NEW i \in DOMAIN rows PROVE Cardinality(rank(i)) = i - 1
    OBVIOUS
  <2>1. rank(i) = 1..(i - 1)
    BY <1>1, <1>3
  <2>2. PICK n \in Int : n = i - 1 /\ n >= 0
    BY <1>1
  <2>3. Cardinality(1..n) = n
    BY <2>2, FS_Interval
  <2> QED BY <2>1, <2>2, <2>3
<1>5. \A k \in DOMAIN rows :
        (CHOOSE i \in DOMAIN rows : Cardinality(rank(i)) = k - 1) = k
  <2> HIDE DEF rank
  <2> SUFFICES ASSUME NEW k \in DOMAIN rows
               PROVE  (CHOOSE i \in DOMAIN rows : Cardinality(rank(i)) = k - 1) = k
    OBVIOUS
  <2>1. \A i \in DOMAIN rows : Cardinality(rank(i)) = k - 1 => i = k
    BY <1>1, <1>4
  <2> QED BY <1>4, <2>1
<1>6. InOrder(rows) =
        [k \in DOMAIN rows |->
           CHOOSE i \in DOMAIN rows : Cardinality(rank(i)) = k - 1]
  BY DEF InOrder
<1> HIDE DEF rank
<1> QED
  BY <1>5, <1>6

(* The chain is listed row by row, each linked to the one before it.        *)
LEMMA ListingOfLinked ==
  ASSUME NEW rows \in Seq(AuditRow), Linked(rows)
  PROVE  Listing(rows) = [k \in 1..Len(rows) |->
                            [at |-> rows[k].at, previous |-> At(rows, k - 1)]]
<1>1. InOrder(rows) = [k \in 1..Len(rows) |-> k] /\ DOMAIN rows = 1..Len(rows)
  BY InOrderIsCommitOrder, RowParts
<1>2. \A k \in 1..Len(rows) : At(rows, k) = rows[k].at /\ rows[k].previous = k - 1
  BY <1>1 DEF At, Linked
<1>3. Listing(rows) = [k \in 1..Len(rows) |->
                         [at |-> At(rows, k), previous |-> At(rows, rows[k].previous)]]
  BY <1>1 DEF Listing
<1> QED
  BY <1>2, <1>3

(* What Append returns, element by element.                                 *)
LEMMA AppendIs ==
  ASSUME NEW S, NEW s \in Seq(S), NEW e \in S, NEW n \in Nat, Len(s) = n
  PROVE  Append(s, e) = [k \in 1..(n + 1) |-> IF k = n + 1 THEN e ELSE s[k]]
<1>1. /\ Append(s, e) \in Seq(S) /\ Len(Append(s, e)) = n + 1
      /\ Append(s, e)[n + 1] = e /\ \A k \in 1..n : Append(s, e)[k] = s[k]
  OBVIOUS
<1>2. PICK z \in Seq(S) : z = Append(s, e)
  BY <1>1
<1>3. z = [k \in 1..(n + 1) |-> z[k]]
  <2>1. Len(z) = n + 1
    BY <1>1, <1>2
  <2>2. z \in [1..Len(z) -> S]
    OBVIOUS
  <2>3. z \in [1..(n + 1) -> S]
    BY <2>1, <2>2
  <2> QED BY <2>3
<1>4. ASSUME NEW k \in 1..(n + 1) PROVE z[k] = IF k = n + 1 THEN e ELSE s[k]
  BY <1>1, <1>2
<1> QED
  BY <1>2, <1>3, <1>4

(* A commit adds its row at the end of the listing.                         *)
LEMMA ListingGrows ==
  ASSUME NEW rows \in Seq(AuditRow), Linked(rows), NEW row \in AuditRow,
         row.previous = Len(rows), Linked(Append(rows, row))
  PROVE  /\ Listing(Append(rows, row)) =
              Append(Listing(rows), [at |-> row.at, previous |-> EndOf(rows)])
         /\ EndOf(rows) = IF Listing(rows) = <<>> THEN 0
                          ELSE Listing(rows)[Len(Listing(rows))].at
<1> DEFINE longer == Append(rows, row)
           last == [at |-> row.at, previous |-> EndOf(rows)]
<1>1. PICK n \in Nat : n = Len(rows)
  BY RowParts
<1>2. /\ longer \in Seq(AuditRow) /\ Len(longer) = n + 1 /\ longer[n + 1] = row
      /\ \A k \in 1..n : longer[k] = rows[k]
  BY <1>1
<1> HIDE DEF longer, last
<1>3. Listing(rows) = [k \in 1..n |-> [at |-> rows[k].at, previous |-> At(rows, k - 1)]]
  BY <1>1, ListingOfLinked
<1>4. Listing(longer) =
        [k \in 1..(n + 1) |-> [at |-> longer[k].at, previous |-> At(longer, k - 1)]]
  BY <1>2, ListingOfLinked DEF longer
<1>5. \A k \in 1..n : longer[k].at = rows[k].at /\ At(longer, k - 1) = At(rows, k - 1)
  <2> SUFFICES ASSUME NEW k \in 1..n
               PROVE  longer[k].at = rows[k].at /\ At(longer, k - 1) = At(rows, k - 1)
    OBVIOUS
  <2>1. k - 1 = 0 \/ k - 1 \in 1..n
    BY <1>1
  <2> QED BY <1>2, <2>1 DEF At
<1>6. [at |-> longer[n + 1].at, previous |-> At(longer, n)] = last
  <2>1. At(longer, n) = EndOf(rows)
    BY <1>1, <1>2 DEF At, EndOf
  <2> QED BY <1>2, <2>1 DEF last
<1>7. Listing(rows) \in Seq([at: Nat, previous: Nat]) /\ Len(Listing(rows)) = n
  <2>1. ASSUME NEW k \in 1..n
        PROVE  [at |-> rows[k].at, previous |-> At(rows, k - 1)] \in [at: Nat, previous: Nat]
    <3>1. \A i \in 1..n : rows[i].at \in Nat
      <4>1. \A i \in 1..n : rows[i] \in AuditRow
        BY <1>1
      <4> QED BY <4>1 DEF AuditRow
    <3>2. k - 1 = 0 \/ k - 1 \in 1..n
      BY <1>1
    <3>3. At(rows, k - 1) \in Nat
      BY <3>1, <3>2 DEF At
    <3> QED BY <3>1, <3>3
  <2> QED BY <1>1, <1>3, <2>1
<1>8. Listing(longer) = Append(Listing(rows), last)
  <2>1. PICK s \in Seq([at: Nat, previous: Nat]) : s = Listing(rows) /\ Len(s) = n
    BY <1>7
  <2>2. Append(s, last) = [k \in 1..(n + 1) |-> IF k = n + 1 THEN last ELSE s[k]]
    <3>1. last \in [at: Nat, previous: Nat]
      <4>1. EndOf(rows) \in Nat
        BY RowParts
      <4>2. row.at \in Nat
        BY DEF AuditRow
      <4> QED BY <4>1, <4>2 DEF last
    <3>2. PICK R : s \in Seq(R) /\ last \in R
      BY <2>1, <3>1
    <3>3. Len(s) = n
      BY <2>1
    <3> QED BY <3>2, <3>3, AppendIs
  <2>3. ASSUME NEW k \in 1..(n + 1)
        PROVE  [at |-> longer[k].at, previous |-> At(longer, k - 1)]
                 = IF k = n + 1 THEN last ELSE s[k]
    <3>1. CASE k = n + 1
      BY <1>6, <3>1
    <3>2. CASE k # n + 1
      <4>1. k \in 1..n
        BY <3>2
      <4>2. s[k] = [at |-> rows[k].at, previous |-> At(rows, k - 1)]
        BY <1>3, <2>1, <4>1
      <4> QED BY <1>5, <3>2, <4>1, <4>2
    <3> QED BY <3>1, <3>2
  <2>4. Listing(longer) = [k \in 1..(n + 1) |-> IF k = n + 1 THEN last ELSE s[k]]
    BY <1>4, <2>3, Zenon
  <2> QED BY <2>1, <2>2, <2>4
<1>9. EndOf(rows) = IF Listing(rows) = <<>> THEN 0
                    ELSE Listing(rows)[Len(Listing(rows))].at
  BY <1>1, <1>3, <1>7 DEF EndOf
<1> QED
  BY <1>8, <1>9 DEF longer, last

(* THEOREM: the chain verifies at every moment, however appends of several  *)
(* processes overtake each other or fail, and wherever their clocks go.     *)
THEOREM ChainAlwaysVerifies == AdmissionSpec => []ChainVerifies
<1>1. AdmissionInv => ChainVerifies
  <2> SUFFICES ASSUME AdmissionInv PROVE ChainVerifies
    OBVIOUS
  <2>1. /\ InOrder(chain) = [k \in DOMAIN chain |-> k] /\ DOMAIN chain = 1..Len(chain)
        /\ Linked(chain)
    BY InOrderIsCommitOrder, RowParts DEF AdmissionInv, AdmissionTypeOK
  <2>2. \A k \in 1..Len(chain) : k = 1 \/ k - 1 \in 1..Len(chain)
    OBVIOUS
  <2> QED BY <2>1, <2>2 DEF ChainVerifies, Linked
<1> QED
  BY <1>1, AdmissionInvariant, PTL

(* THEOREM: the chain as it is listed implements AuditLedger: it only ever  *)
(* grows at its end, by rows that are linked to the last one.               *)
THEOREM ChainKeepsLedger == AdmissionSpec => KeepsLedger
<1>1. AdmissionInit => Ledger!LedgerInit
  <2> SUFFICES ASSUME AdmissionInit PROVE Listing(chain) = <<>>
    BY DEF Ledger!LedgerInit
  <2>1. chain = <<>> /\ chain \in Seq(AuditRow) /\ Linked(chain)
    BY DEF AdmissionInit, Linked
  <2>2. Listing(chain) = [k \in 1..Len(chain) |->
                            [at |-> chain[k].at, previous |-> At(chain, k - 1)]]
    BY <2>1, ListingOfLinked
  <2> QED BY <2>1, <2>2
<1>2. AdmissionInv /\ AdmissionInv' /\ [AdmissionNext]_admissionVars
        => [\E at \in 1..(2 * MaxRows) : Ledger!AppendEvent(at)]_(Listing(chain))
  <2> SUFFICES ASSUME AdmissionInv, AdmissionInv', [AdmissionNext]_admissionVars
               PROVE  \/ \E at \in 1..(2 * MaxRows) : Ledger!AppendEvent(at)
                      \/ Listing(chain') = Listing(chain)
    OBVIOUS
  <2>1. CASE chain' = chain
    BY <2>1
  <2>2. ASSUME NEW c \in Thread, NEW reading \in 1..MaxRows, AppendRow(c, reading)
        PROVE  \E at \in 1..(2 * MaxRows) : Ledger!AppendEvent(at)
    <3>1. PICK row \in AuditRow :
            /\ chain' = Append(chain, row) /\ row.previous = Len(chain)
            /\ row.at > EndOf(chain)
      BY <2>2, AppendsAtTheEnd DEF AdmissionInv
    <3>2. /\ Linked(chain) /\ Linked(chain') /\ chain \in Seq(AuditRow)
          /\ chain' \in Seq(AuditRow)
      BY DEF AdmissionInv, AdmissionTypeOK, Linked
    <3>3. /\ Listing(chain') =
               Append(Listing(chain), [at |-> row.at, previous |-> EndOf(chain)])
          /\ EndOf(chain) = Ledger!LastAt
      BY <3>1, <3>2, ListingGrows DEF Ledger!LastAt
    <3>4. Ledger!AppendEvent(row.at)
      BY <3>1, <3>3 DEF Ledger!AppendEvent
    <3>5. row.at \in 1..(2 * MaxRows)
      <4>1. Len(chain) + 1 \in DOMAIN chain' /\ Len(chain') = Len(chain) + 1
            /\ chain'[Len(chain) + 1] = row /\ Len(chain) \in Nat
        BY <3>1, <3>2
      <4>2. row.at <= MaxRows + Len(chain')
        BY <3>2, <4>1 DEF Linked
      <4>3. Len(chain') <= MaxRows
        <5>1. Len(chain') + Cardinality(Appending') <= MaxRows
          BY DEF AdmissionInv, RoomForRows
        <5>2. Cardinality(Appending') \in Nat
          BY NoMore DEF Appending
        <5> QED BY <4>1, <5>1, <5>2
      <4>4. row.at \in Nat \ {0}
        BY DEF AuditRow
      <4> QED BY <4>1, <4>2, <4>3, <4>4
    <3> QED BY <3>4, <3>5
  <2> QED BY <2>1, <2>2, OnlyWriters DEF CommitRate
<1> QED
  BY <1>1, <1>2, AdmissionInvariant, PTL DEF AdmissionSpec, KeepsLedger, Ledger!LedgerSpec
=============================================================================
