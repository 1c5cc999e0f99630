---------------------------- MODULE OutboxProofs ----------------------------
(***************************************************************************)
(* What holds of Outbox for every set of approvals and workers and every   *)
(* limit of attempts.                                                      *)
(***************************************************************************)
EXTENDS Outbox, FiniteSetTheorems, TLAPS

-----------------------------------------------------------------------------
(* The inductive invariant.                                                 *)

(* A row is queued after its approval was created, and once: until then it  *)
(* is empty and nobody works on it.                                         *)
QueuedOnce ==
  /\ \A p \in creating : job[p] = Absent /\ approval[p] # "none"
  /\ \A p \in Approval :
       approval[p] = "none" => job[p] = Absent /\ p \notin creating
  /\ \A w \in Worker :
       worker[w].pc # "idle" => job[worker[w].approval].status # "absent"

(* The workers that may still post the webhook of an approval.              *)
AtWork(p) == {w \in Worker : /\ worker[w].pc \in {"look", "notify"}
                             /\ worker[w].approval = p}

(* Every attempt that was counted is a post that was made, or one that a    *)
(* worker may still make, or one that was lost.                             *)
Covered(p) == /\ IsFiniteSet(AtWork(p))
              /\ delivered[p] + Cardinality(AtWork(p)) <= job[p].attempts

AttemptsCover == \A p \in Approval : Covered(p)

Accounted(p) == delivered[p] > 0 \/ approval[p] = "resolved"

(* A worker is about to complete a job only when there is an account of it. *)
CompletingIsAccounted ==
  \A w \in Worker : worker[w].pc = "complete" => Accounted(worker[w].approval)

(* The holder of a lease is at work on the job, which is still its own or   *)
(* completed.                                                               *)
LeaseHeld ==
  \A w \in Worker, p \in Approval : <<w, p>> \in leases =>
    /\ worker[w].pc # "idle" /\ worker[w].approval = p
    /\ job[p].status = "completed" \/ (Owns(w, p) /\ ~job[p].lapsed)

OutboxInv ==
  /\ OutboxTypeOK
  /\ QueuedOnce
  /\ AttemptsCover
  /\ CompletingIsAccounted
  /\ CompletedIsAccounted
  /\ LeaseHeld
  /\ LeaseExclusive

-----------------------------------------------------------------------------
(* Types.                                                                   *)

LEMMA AtRestTyped ==
  AtRest \in [pc: Pc, approval: Approval] /\ Absent \in Job
<1>1. AnyApproval \in Approval
  BY OutboxAssumption DEF AnyApproval
<1> QED
  BY <1>1, OutboxAssumption DEF AtRest, Pc, Absent, Job, JobStatus

LEMMA OutboxTypeInit == OutboxInit => OutboxTypeOK
  BY AtRestTyped DEF OutboxInit, OutboxTypeOK

(* A worker goes to another place of process_one, or is done with its job.  *)
LEMMA PlaceTyped ==
  ASSUME OutboxTypeOK, NEW w \in Worker
  PROVE  /\ \A pc \in Pc :
              Goto(w, pc) => worker' \in [Worker -> [pc: Pc, approval: Approval]]
         /\ Rest(w) => /\ worker' \in [Worker -> [pc: Pc, approval: Approval]]
                       /\ leases' \subseteq Worker \X Approval
<1>1. ASSUME NEW pc \in Pc, Goto(w, pc)
      PROVE  worker' \in [Worker -> [pc: Pc, approval: Approval]]
  BY <1>1 DEF OutboxTypeOK, Goto
<1>2. ASSUME Rest(w)
      PROVE  /\ worker' \in [Worker -> [pc: Pc, approval: Approval]]
             /\ leases' \subseteq Worker \X Approval
  BY <1>2, AtRestTyped DEF OutboxTypeOK, Rest
<1> QED
  BY <1>1, <1>2

LEMMA FailedTyped ==
  ASSUME NEW row \in Job
  PROVE  Failed(row) \in Job
  BY DEF Failed, Job, JobStatus

LEMMA OutboxTypeStep == OutboxTypeOK /\ [OutboxNext]_outboxVars => OutboxTypeOK'
<1> SUFFICES ASSUME OutboxTypeOK, [OutboxNext]_outboxVars PROVE OutboxTypeOK'
  OBVIOUS
<1>1. ASSUME NEW p \in Approval, CreateApproval(p) PROVE OutboxTypeOK'
  BY <1>1 DEF OutboxTypeOK, CreateApproval
<1>2. ASSUME NEW p \in Approval, EnqueueOutbox(p) PROVE OutboxTypeOK'
  <2>1. [Absent EXCEPT !.status = "pending"] \in Job
    BY AtRestTyped DEF Job, JobStatus
  <2> QED BY <1>2, <2>1 DEF OutboxTypeOK, EnqueueOutbox
<1>3. ASSUME NEW p \in Approval, CrashCreator(p) \/ ResolveApproval(p)
      PROVE  OutboxTypeOK'
  BY <1>3 DEF OutboxTypeOK, CrashCreator, ResolveApproval
<1>4. ASSUME NEW p \in Approval, LapseLease(p) \/ ComeDue(p) PROVE OutboxTypeOK'
  <2>1. \A row \in Job : /\ [row EXCEPT !.lapsed = TRUE] \in Job
                         /\ [row EXCEPT !.due = TRUE] \in Job
    BY DEF Job
  <2>2. \/ job' = [job EXCEPT ![p] = [job[p] EXCEPT !.lapsed = TRUE]]
        \/ job' = [job EXCEPT ![p] = [job[p] EXCEPT !.due = TRUE]]
    BY <1>4 DEF LapseLease, ComeDue
  <2>3. job[p] \in Job /\ job \in [Approval -> Job]
    BY DEF OutboxTypeOK
  <2>4. job' \in [Approval -> Job]
    BY <2>1, <2>2, <2>3
  <2> QED BY <1>4, <2>4 DEF OutboxTypeOK, LapseLease, ComeDue
<1>5. ASSUME NEW w \in Worker, NEW p \in Approval, ClaimOutbox(w, p)
      PROVE  OutboxTypeOK'
  <2>1. job[p].attempts + 1 \in 0 .. MaxAttempts
    BY <1>5, OutboxAssumption DEF ClaimOutbox, Claimable, OutboxTypeOK, Job
  <2>2. job' \in [Approval -> Job]
    BY <1>5, <2>1 DEF ClaimOutbox, OutboxTypeOK, Job, JobStatus
  <2> QED BY <1>5, <2>2 DEF ClaimOutbox, OutboxTypeOK, Pc
<1>6. ASSUME NEW w \in Worker, GetApproval(w) PROVE OutboxTypeOK'
  BY <1>6, PlaceTyped DEF OutboxTypeOK, GetApproval, Pc
<1>7. ASSUME NEW w \in Worker, Notify(w) PROVE OutboxTypeOK'
  <2>1. delivered' \in [Approval -> Nat]
    BY <1>7 DEF Notify, OutboxTypeOK
  <2> QED BY <1>7, <2>1, PlaceTyped DEF OutboxTypeOK, Notify, Pc
<1>8. ASSUME NEW w \in Worker, CompleteOutbox(w) PROVE OutboxTypeOK'
  <2>1. job' \in [Approval -> Job]
    BY <1>8 DEF CompleteOutbox, OutboxTypeOK, Job, JobStatus
  <2> QED BY <1>8, <2>1, PlaceTyped DEF OutboxTypeOK, CompleteOutbox, Pc
<1>9. ASSUME NEW w \in Worker, Report(w) PROVE OutboxTypeOK'
  BY <1>9, PlaceTyped DEF OutboxTypeOK, Report, Pc
<1>10. ASSUME NEW w \in Worker, RetryOutbox(w) PROVE OutboxTypeOK'
  <2>1. job' \in [Approval -> Job]
    BY <1>10, FailedTyped DEF RetryOutbox, OutboxTypeOK
  <2> QED BY <1>10, <2>1, PlaceTyped DEF OutboxTypeOK, RetryOutbox
<1>11. ASSUME NEW w \in Worker, CrashWorker(w) PROVE OutboxTypeOK'
  BY <1>11, PlaceTyped DEF OutboxTypeOK, CrashWorker
<1>12. CASE UNCHANGED outboxVars
  BY <1>12 DEF OutboxTypeOK, outboxVars
<1> QED
  BY <1>1, <1>2, <1>3, <1>4, <1>5, <1>6, <1>7, <1>8, <1>9, <1>10, <1>11, <1>12
  DEF OutboxNext, ProcessOne

(* THEOREM: every row and every worker's place always holds the values that *)
(* the code uses; no claim raises `attempts` over the limit.                *)
THEOREM OutboxTypeCorrect == OutboxSpec => []OutboxTypeOK
  BY OutboxTypeInit, OutboxTypeStep, PTL DEF OutboxSpec

-----------------------------------------------------------------------------
(* Rows are queued once.                                                    *)

(* A worker settles the job it owns or puts it back, and touches no other.  *)
LEMMA SettledRow ==
  ASSUME OutboxTypeOK, NEW w \in Worker,
         CompleteOutbox(w) \/ RetryOutbox(w), job' # job
  PROVE  LET p == worker[w].approval IN
         /\ Owns(w, p)
         /\ \/ worker[w].pc = "complete" /\ job'[p].status = "completed"
            \/ job'[p].status \in {"retry", "dead"}
         /\ job'[p].attempts = job[p].attempts
         /\ \A q \in Approval \ {p} : job'[q] = job[q]
<1> DEFINE p == worker[w].approval
<1>1. p \in Approval /\ job \in [Approval -> Job]
  BY DEF OutboxTypeOK
<1>2. CASE CompleteOutbox(w)
  <2>1. /\ Owns(w, p)
        /\ job' = [job EXCEPT ![p] = [job[p] EXCEPT !.status = "completed",
                                     !.owner = Nobody, !.lapsed = FALSE]]
    BY <1>2 DEF CompleteOutbox
  <2>2. worker[w].pc = "complete"
    BY <1>2 DEF CompleteOutbox
  <2>3. job[p] \in Job
    BY <1>1
  <2> HIDE DEF p
  <2>4. /\ job'[p].status = "completed"
        /\ job'[p].attempts = job[p].attempts
    BY <1>1, <2>1, <2>3 DEF Job
  <2>5. \A q \in Approval \ {p} : job'[q] = job[q]
    BY <1>1, <2>1
  <2>6. QED BY <2>1, <2>2, <2>4, <2>5 DEF p
<1>3. CASE RetryOutbox(w)
  <2>1. /\ Owns(w, p)
        /\ job' = [job EXCEPT ![p] = Failed(job[p])]
    BY <1>3 DEF RetryOutbox
  <2>2. /\ Failed(job[p]).status \in {"retry", "dead"}
        /\ Failed(job[p]).attempts = job[p].attempts
    BY <1>1 DEF Failed, Job
  <2> HIDE DEF p
  <2>3. job'[p] = Failed(job[p]) /\ \A q \in Approval \ {p} : job'[q] = job[q]
    BY <1>1, <2>1
  <2>4. QED BY <2>1, <2>2, <2>3 DEF p
<1> QED BY <1>2, <1>3

LEMMA QueuedOnceInit == OutboxInit => QueuedOnce
  BY DEF OutboxInit, QueuedOnce, AtRest, Absent

LEMMA QueuedOnceStep ==
  OutboxTypeOK /\ QueuedOnce /\ [OutboxNext]_outboxVars => QueuedOnce'
<1> SUFFICES ASSUME OutboxTypeOK, QueuedOnce, [OutboxNext]_outboxVars
             PROVE  QueuedOnce'
  OBVIOUS
<1> USE DEF QueuedOnce, OutboxTypeOK
<1>1. ASSUME NEW p \in Approval, CreateApproval(p) PROVE QueuedOnce'
  BY <1>1 DEF CreateApproval
<1>2. ASSUME NEW p \in Approval, EnqueueOutbox(p) PROVE QueuedOnce'
  <2>1. job'[p].status = "pending" /\ \A q \in Approval \ {p} : job'[q] = job[q]
    BY <1>2 DEF EnqueueOutbox, Absent
  <2> QED BY <1>2, <2>1 DEF EnqueueOutbox
<1>3. ASSUME NEW p \in Approval, CrashCreator(p) \/ ResolveApproval(p)
      PROVE  QueuedOnce'
  BY <1>3 DEF CrashCreator, ResolveApproval
<1>4. ASSUME NEW p \in Approval, LapseLease(p) \/ ComeDue(p) PROVE QueuedOnce'
  <2>1. job[p] # Absent /\ job'[p].status = job[p].status
    BY <1>4 DEF LapseLease, ComeDue, Job, Absent
  <2>2. \A q \in Approval \ {p} : job'[q] = job[q]
    BY <1>4 DEF LapseLease, ComeDue
  <2> QED BY <1>4, <2>1, <2>2 DEF LapseLease, ComeDue
<1>5. ASSUME NEW w \in Worker, NEW p \in Approval, ClaimOutbox(w, p)
      PROVE  QueuedOnce'
  <2>1. job[p] # Absent /\ job'[p].status = "processing"
    BY <1>5 DEF ClaimOutbox, Claimable, Job, Absent
  <2>2. \A q \in Approval \ {p} : job'[q] = job[q]
    BY <1>5 DEF ClaimOutbox
  <2>3. /\ worker'[w] = [pc |-> "look", approval |-> p]
        /\ \A v \in Worker \ {w} : worker'[v] = worker[v]
    BY <1>5 DEF ClaimOutbox
  <2> QED BY <1>5, <2>1, <2>2, <2>3 DEF ClaimOutbox
<1>6. ASSUME NEW w \in Worker,
             GetApproval(w) \/ Notify(w) \/ Report(w) \/ CrashWorker(w)
      PROVE  QueuedOnce'
  BY <1>6
  DEF GetApproval, Notify, Report, CrashWorker, Goto, Rest, AtRest
<1>7. ASSUME NEW w \in Worker, CompleteOutbox(w) \/ RetryOutbox(w)
      PROVE  QueuedOnce'
  <2> DEFINE p == worker[w].approval
  <2>1. p \in Approval /\ worker[w].pc # "idle"
    BY <1>7 DEF CompleteOutbox, RetryOutbox
  <2>2. job[p] # Absent /\ job'[p].status # "absent"
    <3>1. job[p].status # "absent"
      BY <2>1
    <3>2. CASE job' = job
      BY <3>1, <3>2 DEF Absent
    <3>3. CASE job' # job
      BY <1>7, <2>1, <3>1, <3>3, SettledRow DEF Absent
    <3> QED BY <3>2, <3>3
  <2>3. \A q \in Approval \ {p} : job'[q] = job[q]
    BY <1>7, <2>1 DEF CompleteOutbox, RetryOutbox
  <2>4. UNCHANGED <<approval, creating>>
    BY <1>7 DEF CompleteOutbox, RetryOutbox
  <2>5. \A v \in Worker : worker'[v].pc # "idle" =>
          worker[v].pc # "idle" /\ worker'[v].approval = worker[v].approval
    BY <1>7 DEF CompleteOutbox, RetryOutbox, Goto, Rest, AtRest
  <2> HIDE DEF p
  <2> QED BY <2>1, <2>2, <2>3, <2>4, <2>5
<1>8. CASE UNCHANGED outboxVars
  BY <1>8 DEF outboxVars
<1> QED
  BY <1>1, <1>2, <1>3, <1>4, <1>5, <1>6, <1>7, <1>8 DEF OutboxNext, ProcessOne

-----------------------------------------------------------------------------
(* Posts and attempts.                                                      *)

LEMMA CoverInit == OutboxInit => AttemptsCover
<1> SUFFICES ASSUME OutboxInit, NEW p \in Approval
             PROVE  Covered(p)
  BY DEF AttemptsCover
<1>1. AtWork(p) = {}
  BY DEF OutboxInit, AtWork, AtRest
<1> QED
  BY <1>1, FS_EmptySet DEF OutboxInit, Absent, Covered

(* A step that neither counts an attempt nor posts, and brings nobody to    *)
(* work.                                                                    *)
LEMMA CoverKept ==
  ASSUME OutboxTypeOK, AttemptsCover, NEW p \in Approval,
         AtWork(p)' \subseteq AtWork(p),
         delivered'[p] = delivered[p], job'[p].attempts = job[p].attempts
  PROVE  Covered(p)'
<1>1. /\ IsFiniteSet(AtWork(p))
      /\ delivered[p] + Cardinality(AtWork(p)) <= job[p].attempts
  BY DEF AttemptsCover, Covered
<1>2. /\ IsFiniteSet(AtWork(p)')
      /\ Cardinality(AtWork(p)') <= Cardinality(AtWork(p))
      /\ Cardinality(AtWork(p)) \in Nat /\ Cardinality(AtWork(p)') \in Nat
  BY <1>1, FS_Subset, FS_CardinalityType
<1>3. delivered[p] \in Nat /\ job[p].attempts \in Nat
  BY OutboxAssumption DEF OutboxTypeOK, Job
<1> QED
  BY <1>1, <1>2, <1>3 DEF Covered

LEMMA CoverStep ==
  OutboxTypeOK /\ QueuedOnce /\ AttemptsCover /\ [OutboxNext]_outboxVars
    => AttemptsCover'
<1> SUFFICES ASSUME OutboxTypeOK, QueuedOnce, AttemptsCover,
                    [OutboxNext]_outboxVars, NEW q \in Approval
             PROVE  Covered(q)'
  BY DEF AttemptsCover
<1>1. ASSUME NEW p \in Approval,
             CreateApproval(p) \/ CrashCreator(p) \/ ResolveApproval(p)
      PROVE  Covered(q)'
  BY <1>1, CoverKept DEF CreateApproval, CrashCreator, ResolveApproval, AtWork
<1>2. ASSUME NEW p \in Approval, EnqueueOutbox(p) PROVE Covered(q)'
  <2>1. job[p] = Absent
    BY <1>2 DEF QueuedOnce, EnqueueOutbox
  <2>2. job'[q].attempts = job[q].attempts
    BY <1>2, <2>1 DEF EnqueueOutbox, Absent, OutboxTypeOK
  <2> QED BY <1>2, <2>2, CoverKept DEF EnqueueOutbox, AtWork
<1>3. ASSUME NEW p \in Approval, LapseLease(p) \/ ComeDue(p) PROVE Covered(q)'
  <2>1. job'[q].attempts = job[q].attempts
    BY <1>3 DEF LapseLease, ComeDue, OutboxTypeOK, Job
  <2> QED BY <1>3, <2>1, CoverKept DEF LapseLease, ComeDue, AtWork
<1>4. ASSUME NEW w \in Worker, NEW p \in Approval, ClaimOutbox(w, p)
      PROVE  Covered(q)'
  <2>1. /\ worker[w].pc = "idle" /\ delivered' = delivered
        /\ worker'[w] = [pc |-> "look", approval |-> p]
        /\ \A v \in Worker \ {w} : worker'[v] = worker[v]
    BY <1>4 DEF ClaimOutbox, OutboxTypeOK
  <2>2. CASE q = p
    <3>1. AtWork(p)' = AtWork(p) \cup {w} /\ w \notin AtWork(p)
      BY <2>1 DEF AtWork
    <3>2. job'[p].attempts = job[p].attempts + 1
      BY <1>4 DEF ClaimOutbox, OutboxTypeOK, Job
    <3>3. IsFiniteSet(AtWork(p)) /\ Cardinality(AtWork(p)) \in Nat
      BY FS_CardinalityType DEF AttemptsCover, Covered
    <3>4. /\ IsFiniteSet(AtWork(p)')
          /\ Cardinality(AtWork(p)') = Cardinality(AtWork(p)) + 1
      BY <3>1, <3>3, FS_AddElement
    <3>5. /\ delivered[p] + Cardinality(AtWork(p)) <= job[p].attempts
          /\ delivered[p] \in Nat /\ job[p].attempts \in Nat
      BY OutboxAssumption DEF AttemptsCover, Covered, OutboxTypeOK, Job
    <3> QED BY <2>1, <2>2, <3>2, <3>3, <3>4, <3>5 DEF Covered
  <2>3. CASE q # p
    <3>1. AtWork(q)' \subseteq AtWork(q)
      BY <2>1, <2>3 DEF AtWork
    <3>2. job'[q] = job[q]
      BY <1>4, <2>3 DEF ClaimOutbox, OutboxTypeOK
    <3> QED BY <2>1, <3>1, <3>2, CoverKept
  <2> QED BY <2>2, <2>3
<1>5. ASSUME NEW w \in Worker,
             GetApproval(w) \/ Report(w) \/ CrashWorker(w)
      PROVE  Covered(q)'
  <2>1. AtWork(q)' \subseteq AtWork(q)
    BY <1>5
    DEF GetApproval, Report, CrashWorker, Goto, Rest, AtRest, AtWork, OutboxTypeOK
  <2>2. delivered' = delivered /\ job' = job
    BY <1>5 DEF GetApproval, Report, CrashWorker
  <2> QED BY <2>1, <2>2, CoverKept
<1>6. ASSUME NEW w \in Worker, Notify(w) PROVE Covered(q)'
  <2> PICK p \in Approval : p = worker[w].approval
    BY DEF OutboxTypeOK
  <2>1. /\ p = worker[w].approval /\ worker[w].pc = "notify" /\ job' = job
        /\ worker'[w].pc \notin {"look", "notify"}
        /\ \A v \in Worker \ {w} : worker'[v] = worker[v]
    BY <1>6 DEF Notify, Goto, OutboxTypeOK
  <2>2. CASE q = p /\ delivered' = [delivered EXCEPT ![p] = @ + 1]
    <3>1. AtWork(p)' = AtWork(p) \ {w} /\ w \in AtWork(p)
      BY <2>1 DEF AtWork
    <3>2. delivered'[p] = delivered[p] + 1
      BY <2>1, <2>2 DEF OutboxTypeOK
    <3>3. IsFiniteSet(AtWork(p)) /\ Cardinality(AtWork(p)) \in Nat
      BY <2>1, FS_CardinalityType DEF AttemptsCover, Covered
    <3>4. /\ IsFiniteSet(AtWork(p)')
          /\ Cardinality(AtWork(p)') = Cardinality(AtWork(p)) - 1
      BY <3>1, <3>3, FS_RemoveElement
    <3>5. /\ delivered[p] + Cardinality(AtWork(p)) <= job[p].attempts
          /\ delivered[p] \in Nat /\ job[p].attempts \in Nat
      BY <2>1, OutboxAssumption DEF AttemptsCover, Covered, OutboxTypeOK, Job
    <3> QED BY <2>1, <2>2, <3>2, <3>3, <3>4, <3>5 DEF Covered
  <2>3. CASE delivered'[q] = delivered[q]
    <3>1. AtWork(q)' \subseteq AtWork(q)
      BY <2>1 DEF AtWork
    <3> QED BY <2>1, <2>3, <3>1, CoverKept
  <2>4. \/ delivered' = [delivered EXCEPT ![p] = @ + 1]
        \/ delivered' = delivered
    BY <1>6 DEF Notify
  <2>5. q # p => delivered'[q] = delivered[q]
    BY <2>4 DEF OutboxTypeOK
  <2> QED BY <2>2, <2>3, <2>4, <2>5
<1>7. ASSUME NEW w \in Worker, CompleteOutbox(w) \/ RetryOutbox(w)
      PROVE  Covered(q)'
  <2>1. AtWork(q)' \subseteq AtWork(q)
    <3>1. \/ \E pc \in {"report", "retry"} : Goto(w, pc)
          \/ worker' = [worker EXCEPT ![w] = AtRest]
      BY <1>7 DEF CompleteOutbox, RetryOutbox, Rest
    <3> QED BY <3>1 DEF Goto, AtRest, AtWork, OutboxTypeOK
  <2>2. job'[q].attempts = job[q].attempts
    BY <1>7, SettledRow DEF OutboxTypeOK
  <2>3. delivered' = delivered
    BY <1>7 DEF CompleteOutbox, RetryOutbox
  <2> QED BY <2>1, <2>2, <2>3, CoverKept
<1>8. CASE UNCHANGED outboxVars
  BY <1>8, CoverKept DEF outboxVars, AtWork
<1> QED
  BY <1>1, <1>2, <1>3, <1>4, <1>5, <1>6, <1>7, <1>8 DEF OutboxNext, ProcessOne

(* The attempts cover the posts.                                            *)
LEMMA CoverBounds == OutboxTypeOK /\ AttemptsCover => DeliveriesBounded
<1> SUFFICES ASSUME OutboxTypeOK, AttemptsCover, NEW p \in Approval
             PROVE  delivered[p] <= job[p].attempts
  BY DEF DeliveriesBounded
<1>1. Cardinality(AtWork(p)) \in Nat
  BY FS_CardinalityType DEF AttemptsCover, Covered
<1> QED
  BY <1>1, OutboxAssumption DEF AttemptsCover, Covered, OutboxTypeOK, Job

-----------------------------------------------------------------------------
(* Completed jobs are accounted for.                                        *)

LEMMA AccountInit ==
  OutboxInit => CompletingIsAccounted /\ CompletedIsAccounted
  BY DEF OutboxInit, CompletingIsAccounted, CompletedIsAccounted, AtRest, Absent

(* An account once given stays: posts are not taken back, and a resolved    *)
(* approval is never pending again.                                         *)
LEMMA AccountStays ==
  ASSUME OutboxTypeOK, [OutboxNext]_outboxVars, NEW p \in Approval, Accounted(p)
  PROVE  Accounted(p)'
<1>1. \A q \in Approval : approval[q] = "resolved" => approval'[q] = "resolved"
  BY DEF OutboxTypeOK, OutboxNext, ProcessOne, outboxVars, CreateApproval,
    EnqueueOutbox, CrashCreator, ResolveApproval, LapseLease, ComeDue,
    ClaimOutbox, GetApproval, Notify, CompleteOutbox, Report, RetryOutbox,
    CrashWorker
<1>2. \/ delivered' = delivered
      \/ \E q : delivered' = [delivered EXCEPT ![q] = @ + 1]
  BY DEF OutboxNext, ProcessOne, outboxVars, CreateApproval,
    EnqueueOutbox, CrashCreator, ResolveApproval, LapseLease, ComeDue,
    ClaimOutbox, GetApproval, Notify, CompleteOutbox, Report, RetryOutbox,
    CrashWorker
<1>3. delivered[p] > 0 => delivered'[p] > 0
  BY <1>2 DEF OutboxTypeOK
<1> QED
  BY <1>1, <1>3 DEF Accounted

(* Nobody comes to the completion of a job, and no job to its end, without  *)
(* an account.                                                              *)
LEMMA AccountStep ==
  /\ OutboxTypeOK /\ QueuedOnce /\ CompletingIsAccounted
  /\ CompletedIsAccounted /\ [OutboxNext]_outboxVars
  => CompletingIsAccounted' /\ CompletedIsAccounted'
<1> SUFFICES ASSUME OutboxTypeOK, QueuedOnce, CompletingIsAccounted,
                    CompletedIsAccounted, [OutboxNext]_outboxVars
             PROVE  CompletingIsAccounted' /\ CompletedIsAccounted'
  OBVIOUS
(* What was completing or completed before is accounted for already.        *)
<1>1. \A p \in Approval : job[p].status = "completed" => Accounted(p)'
  BY AccountStays DEF CompletedIsAccounted, Accounted
<1>2. \A w \in Worker : worker[w].pc = "complete" =>
        \A p \in Approval : p = worker[w].approval => Accounted(p)'
  BY AccountStays DEF CompletingIsAccounted
<1> DEFINE OldPlaces == \A w \in Worker : worker'[w].pc = "complete" =>
             worker[w].pc = "complete" /\ worker'[w].approval = worker[w].approval
           OldEnds == \A p \in Approval :
             job'[p].status = "completed" => job[p].status = "completed"
<1>3. OldPlaces => CompletingIsAccounted'
  <2> SUFFICES ASSUME OldPlaces, NEW w \in Worker, worker'[w].pc = "complete"
               PROVE  Accounted(worker[w].approval)'
    BY DEF CompletingIsAccounted
  <2>1. PICK p \in Approval : p = worker[w].approval
    BY DEF OutboxTypeOK
  <2> QED BY <1>2, <2>1 DEF Accounted
<1>4. OldEnds => CompletedIsAccounted'
  BY <1>1 DEF CompletedIsAccounted, Accounted
<1>5. ASSUME NEW p \in Approval,
             \/ CreateApproval(p) \/ CrashCreator(p) \/ ResolveApproval(p)
             \/ EnqueueOutbox(p) \/ LapseLease(p) \/ ComeDue(p)
      PROVE  OldPlaces /\ OldEnds
  <2>1. worker' = worker
    BY <1>5 DEF CreateApproval, CrashCreator, ResolveApproval, EnqueueOutbox,
      LapseLease, ComeDue
  <2>2. job'[p].status = "pending" \/ job'[p].status = job[p].status
    <3>1. CASE EnqueueOutbox(p)
      BY <3>1 DEF EnqueueOutbox, Absent, OutboxTypeOK
    <3>2. CASE LapseLease(p) \/ ComeDue(p)
      BY <3>2 DEF LapseLease, ComeDue, OutboxTypeOK, Job
    <3> QED BY <1>5, <3>1, <3>2 DEF CreateApproval, CrashCreator, ResolveApproval
  <2>3. \A q \in Approval \ {p} : job'[q] = job[q]
    BY <1>5 DEF CreateApproval, CrashCreator, ResolveApproval, EnqueueOutbox,
      LapseLease, ComeDue, OutboxTypeOK
  <2> QED BY <2>1, <2>2, <2>3
<1>6. ASSUME NEW w \in Worker, NEW p \in Approval, ClaimOutbox(w, p)
      PROVE  OldPlaces /\ OldEnds
  BY <1>6 DEF ClaimOutbox, OutboxTypeOK, Job
<1>7. ASSUME NEW w \in Worker, GetApproval(w)
      PROVE  CompletingIsAccounted' /\ OldEnds
  <2>1. /\ approval' = approval /\ delivered' = delivered /\ job' = job
        /\ \A v \in Worker \ {w} : worker'[v] = worker[v]
        /\ worker'[w].approval = worker[w].approval
        /\ worker'[w].pc = "complete" => approval[worker[w].approval] # "pending"
    BY <1>7 DEF GetApproval, Goto, OutboxTypeOK
  <2>2. worker'[w].pc = "complete" => approval[worker[w].approval] = "resolved"
    <3>1. worker[w].pc = "look"
      BY <1>7 DEF GetApproval
    <3>2. job[worker[w].approval].status # "absent"
      BY <3>1 DEF QueuedOnce
    <3>3. approval[worker[w].approval] # "none"
      BY <3>2 DEF QueuedOnce, Absent, OutboxTypeOK
    <3> QED BY <2>1, <3>3 DEF OutboxTypeOK
  <2>3. CompletingIsAccounted'
    BY <2>1, <2>2 DEF CompletingIsAccounted, Accounted
  <2> QED BY <2>1, <2>3
<1>8. ASSUME NEW w \in Worker, Notify(w)
      PROVE  CompletingIsAccounted' /\ OldEnds
  <2>1. PICK p \in Approval : p = worker[w].approval
    BY DEF OutboxTypeOK
  <2>2. /\ approval' = approval /\ job' = job
        /\ \A v \in Worker \ {w} : worker'[v] = worker[v]
        /\ worker'[w].approval = p
    BY <1>8, <2>1 DEF Notify, Goto, OutboxTypeOK
  <2>3. worker'[w].pc = "complete" => delivered' = [delivered EXCEPT ![p] = @ + 1]
    BY <1>8, <2>1 DEF Notify, Goto, OutboxTypeOK
  <2>4. worker'[w].pc = "complete" => delivered'[p] > 0
    BY <2>3 DEF OutboxTypeOK
  <2>5. CompletingIsAccounted'
    <3> SUFFICES ASSUME NEW v \in Worker, worker'[v].pc = "complete"
                 PROVE  Accounted(worker[v].approval)'
      BY DEF CompletingIsAccounted
    <3>1. CASE v = w
      BY <2>2, <2>4, <3>1 DEF Accounted
    <3>2. CASE v # w
      <4>1. PICK q \in Approval : q = worker[v].approval
        BY DEF OutboxTypeOK
      <4>2. worker'[v] = worker[v]
        BY <2>2, <3>2
      <4> QED BY <1>2, <4>1, <4>2 DEF Accounted
    <3> QED BY <3>1, <3>2
  <2> QED BY <2>2, <2>5
<1>9. ASSUME NEW w \in Worker, CompleteOutbox(w)
      PROVE  OldPlaces /\ CompletedIsAccounted'
  <2>1. OldPlaces
    BY <1>9 DEF CompleteOutbox, Goto, OutboxTypeOK
  <2>2. PICK p \in Approval : p = worker[w].approval
    BY DEF OutboxTypeOK
  <2>3. Accounted(p)'
    BY <1>2, <1>9, <2>2 DEF CompleteOutbox
  <2>4. \A q \in Approval \ {p} : job'[q] = job[q]
    BY <1>9, <2>2, SettledRow
  <2>5. CompletedIsAccounted'
    BY <1>1, <2>3, <2>4 DEF CompletedIsAccounted, Accounted
  <2> QED BY <2>1, <2>5
<1>10. ASSUME NEW w \in Worker, Report(w) \/ CrashWorker(w)
       PROVE  OldPlaces /\ OldEnds
  BY <1>10 DEF Report, CrashWorker, Goto, Rest, AtRest, OutboxTypeOK
<1>11. ASSUME NEW w \in Worker, RetryOutbox(w) PROVE OldPlaces /\ OldEnds
  <2>1. OldPlaces
    BY <1>11 DEF RetryOutbox, Rest, AtRest, OutboxTypeOK
  <2>2. OldEnds
    <3>1. worker[w].pc # "complete"
      BY <1>11 DEF RetryOutbox
    <3> QED BY <1>11, <3>1, SettledRow
  <2> QED BY <2>1, <2>2
<1>12. CASE UNCHANGED outboxVars
  BY <1>12 DEF outboxVars, CompletingIsAccounted, CompletedIsAccounted, Accounted
<1> HIDE DEF OldPlaces, OldEnds
<1>13. CASE \E p \in Approval :
              \/ CreateApproval(p) \/ EnqueueOutbox(p) \/ CrashCreator(p)
              \/ ResolveApproval(p) \/ LapseLease(p) \/ ComeDue(p)
  BY <1>3, <1>4, <1>5, <1>13
<1>14. CASE \E w \in Worker : ProcessOne(w) \/ CrashWorker(w)
  BY <1>3, <1>4, <1>6, <1>7, <1>8, <1>9, <1>10, <1>11, <1>14 DEF ProcessOne
<1> QED
  BY <1>12, <1>13, <1>14 DEF OutboxNext

-----------------------------------------------------------------------------
(* Leases.                                                                  *)

LEMMA LeaseInit == OutboxInit => LeaseHeld /\ LeaseExclusive
  BY DEF OutboxInit, LeaseHeld, LeaseExclusive

(* A step that grants no lease, and leaves each holder that keeps its lease *)
(* where it was or completes its job, keeps both parts.                     *)
LEMMA LeasesKept ==
  ASSUME OutboxTypeOK, LeaseHeld, LeaseExclusive, leases' \subseteq leases,
         \A v \in Worker, q \in Approval : <<v, q>> \in leases' =>
           /\ worker'[v].pc # "idle" /\ worker'[v].approval = q
           /\ \/ job'[q].status = "completed"
              \/ /\ job'[q].status = job[q].status /\ job'[q].owner = job[q].owner
                 /\ job'[q].lapsed = job[q].lapsed
  PROVE  LeaseHeld' /\ LeaseExclusive'
  BY DEF LeaseHeld, LeaseExclusive, Owns

LEMMA LeaseStep ==
  /\ OutboxTypeOK /\ QueuedOnce /\ LeaseHeld /\ LeaseExclusive
  /\ [OutboxNext]_outboxVars
  => LeaseHeld' /\ LeaseExclusive'
<1> SUFFICES ASSUME OutboxTypeOK, QueuedOnce, LeaseHeld, LeaseExclusive,
                    [OutboxNext]_outboxVars
             PROVE  LeaseHeld' /\ LeaseExclusive'
  OBVIOUS
<1>0. \A v \in Worker, q \in Approval : <<v, q>> \in leases =>
        worker[v].pc # "idle" /\ worker[v].approval = q
  BY DEF LeaseHeld
<1>1. ASSUME NEW p \in Approval,
             CreateApproval(p) \/ CrashCreator(p) \/ ResolveApproval(p)
      PROVE  LeaseHeld' /\ LeaseExclusive'
  BY <1>0, <1>1, LeasesKept DEF CreateApproval, CrashCreator, ResolveApproval
(* Nobody is at work on a row that is not queued yet.                       *)
<1>2. ASSUME NEW p \in Approval, EnqueueOutbox(p)
      PROVE  LeaseHeld' /\ LeaseExclusive'
  <2>1. job[p].status = "absent" /\ \A q \in Approval \ {p} : job'[q] = job[q]
    BY <1>2 DEF EnqueueOutbox, QueuedOnce, Absent, OutboxTypeOK
  <2>2. \A v \in Worker : <<v, p>> \notin leases
    BY <1>0, <2>1 DEF QueuedOnce
  <2> QED BY <1>0, <1>2, <2>1, <2>2, LeasesKept DEF EnqueueOutbox
<1>3. ASSUME NEW p \in Approval, LapseLease(p)
      PROVE  LeaseHeld' /\ LeaseExclusive'
  <2>1. /\ job[p].status = "processing" /\ worker' = worker
        /\ leases' = leases \ {<<job[p].owner, p>>}
        /\ \A q \in Approval \ {p} : job'[q] = job[q]
    BY <1>3 DEF LapseLease, OutboxTypeOK
  <2>2. \A v \in Worker : <<v, p>> \notin leases'
    BY <2>1 DEF LeaseHeld, Owns
  <2> QED BY <1>0, <2>1, <2>2, LeasesKept
<1>4. ASSUME NEW p \in Approval, ComeDue(p)
      PROVE  LeaseHeld' /\ LeaseExclusive'
  <2>1. \A q \in Approval : /\ job'[q].status = job[q].status
                            /\ job'[q].owner = job[q].owner
                            /\ job'[q].lapsed = job[q].lapsed
    BY <1>4 DEF ComeDue, OutboxTypeOK, Job
  <2> QED BY <1>0, <1>4, <2>1, LeasesKept DEF ComeDue
(* A job that can be claimed is under no lease.                             *)
<1>5. ASSUME NEW w \in Worker, NEW p \in Approval, ClaimOutbox(w, p)
      PROVE  LeaseHeld' /\ LeaseExclusive'
  <2>1. \A v \in Worker : <<v, p>> \notin leases
    BY <1>5 DEF ClaimOutbox, Claimable, LeaseHeld, Owns
  <2>2. \A q \in Approval : <<w, q>> \notin leases
    BY <1>0, <1>5 DEF ClaimOutbox
  <2>3. /\ job'[p].status = "processing" /\ job'[p].owner = w
        /\ ~job'[p].lapsed
        /\ worker'[w].pc # "idle" /\ worker'[w].approval = p
    BY <1>5 DEF ClaimOutbox, OutboxTypeOK, Job
  <2>4. /\ \A q \in Approval \ {p} : job'[q] = job[q]
        /\ \A v \in Worker \ {w} : worker'[v] = worker[v]
        /\ leases' = leases \cup {<<w, p>>}
    BY <1>5 DEF ClaimOutbox, OutboxTypeOK
  <2>5. LeaseHeld'
    BY <2>1, <2>2, <2>3, <2>4 DEF LeaseHeld, Owns
  <2>6. LeaseExclusive'
    BY <2>1, <2>4 DEF LeaseExclusive, OutboxTypeOK
  <2> QED BY <2>5, <2>6
<1>6. ASSUME NEW w \in Worker, NEW pc \in Pc, pc # "idle", Goto(w, pc),
             leases' = leases, job' = job
      PROVE  LeaseHeld' /\ LeaseExclusive'
  <2>1. \A v \in Worker : /\ worker'[v].approval = worker[v].approval
                          /\ worker[v].pc # "idle" => worker'[v].pc # "idle"
    BY <1>6 DEF Goto, OutboxTypeOK
  <2> QED BY <1>0, <1>6, <2>1, LeasesKept
<1>7. ASSUME NEW w \in Worker, Rest(w), job' = job
      PROVE  LeaseHeld' /\ LeaseExclusive'
  <2>1. /\ \A v \in Worker \ {w} : worker'[v] = worker[v]
        /\ \A q : <<w, q>> \notin leases'
        /\ leases' \subseteq leases
    BY <1>7 DEF Rest, OutboxTypeOK
  <2> QED BY <1>0, <1>7, <2>1, LeasesKept
<1>8. ASSUME NEW w \in Worker, CompleteOutbox(w)
      PROVE  LeaseHeld' /\ LeaseExclusive'
  <2>1. PICK pc \in {"report", "retry"} : Goto(w, pc)
    BY <1>8 DEF CompleteOutbox
  <2>2. leases' = leases
    BY <1>8 DEF CompleteOutbox
  <2>3. CASE job' = job
    BY <1>6, <2>1, <2>2, <2>3 DEF Pc
  <2>4. CASE job' # job
    <3>1. PICK p \in Approval : p = worker[w].approval
      BY DEF OutboxTypeOK
    <3>2. /\ job' = [job EXCEPT ![p] = [job[p] EXCEPT !.status = "completed",
                                        !.owner = Nobody, !.lapsed = FALSE]]
      BY <1>8, <2>4, <3>1 DEF CompleteOutbox
    <3>3. job[p] \in Job
      BY DEF OutboxTypeOK
    <3>4. /\ job'[p].status = "completed"
          /\ \A q \in Approval \ {p} : job'[q] = job[q]
      BY <3>2, <3>3 DEF OutboxTypeOK, Job
    <3>5. \A v \in Worker : /\ worker'[v].approval = worker[v].approval
                            /\ worker[v].pc # "idle" => worker'[v].pc # "idle"
      BY <2>1 DEF Goto, OutboxTypeOK
    <3> QED BY <1>0, <2>2, <3>4, <3>5, LeasesKept
  <2> QED BY <2>3, <2>4
(* A worker that puts a job back is its owner, and so the only holder.      *)
<1>9. ASSUME NEW w \in Worker, RetryOutbox(w)
      PROVE  LeaseHeld' /\ LeaseExclusive'
  <2>1. Rest(w)
    BY <1>9 DEF RetryOutbox
  <2>2. CASE job' = job
    BY <1>7, <2>1, <2>2
  <2>3. CASE job' # job
    <3>1. PICK p \in Approval : p = worker[w].approval
      BY DEF OutboxTypeOK
    <3>2. Owns(w, p) /\ \A q \in Approval \ {p} : job'[q] = job[q]
      BY <1>9, <2>3, <3>1, SettledRow
    <3>3. /\ \A v \in Worker \ {w} : worker'[v] = worker[v]
          /\ \A q : <<w, q>> \notin leases'
          /\ leases' \subseteq leases
      BY <2>1 DEF Rest, OutboxTypeOK
    <3>4. \A v \in Worker : <<v, p>> \notin leases'
      BY <3>2, <3>3 DEF LeaseHeld, Owns
    <3> QED BY <1>0, <3>2, <3>3, <3>4, LeasesKept
  <2> QED BY <2>2, <2>3
<1>10. CASE UNCHANGED outboxVars
  BY <1>10 DEF outboxVars, LeaseHeld, LeaseExclusive, Owns
<1>11. ASSUME NEW w \in Worker, GetApproval(w) \/ Notify(w) \/ Report(w) \/ CrashWorker(w)
       PROVE  LeaseHeld' /\ LeaseExclusive'
  <2>1. /\ job' = job
        /\ \/ Rest(w)
           \/ leases' = leases /\ \E pc \in Pc \ {"idle"} : Goto(w, pc)
    <3>1. CASE GetApproval(w)
      <4>1. \/ Goto(w, "notify") \/ Goto(w, "complete") \/ Goto(w, "retry")
        BY <3>1 DEF GetApproval
      <4> QED BY <3>1, <4>1 DEF GetApproval, Pc
    <3>2. CASE Notify(w)
      <4>1. \/ Goto(w, "complete") \/ Goto(w, "retry")
        BY <3>2 DEF Notify
      <4> QED BY <3>2, <4>1 DEF Notify, Pc
    <3>3. CASE Report(w) \/ CrashWorker(w)
      <4>1. /\ job' = job
            /\ Rest(w) \/ (leases' = leases /\ Goto(w, "retry"))
        BY <3>3 DEF Report, CrashWorker
      <4>2. "retry" \in Pc \ {"idle"}
        BY DEF Pc
      <4> QED BY <4>1, <4>2
    <3> QED BY <1>11, <3>1, <3>2, <3>3
  <2> QED BY <1>6, <1>7, <2>1
<1> QED
  BY <1>1, <1>2, <1>3, <1>4, <1>5, <1>8, <1>9, <1>10, <1>11
  DEF OutboxNext, ProcessOne

-----------------------------------------------------------------------------
(* What holds of every behaviour.                                           *)

LEMMA OutboxInvInit == OutboxInit => OutboxInv
  BY OutboxTypeInit, QueuedOnceInit, CoverInit, AccountInit, LeaseInit DEF OutboxInv

LEMMA OutboxInvStep == OutboxInv /\ [OutboxNext]_outboxVars => OutboxInv'
  BY OutboxTypeStep, QueuedOnceStep, CoverStep, AccountStep, LeaseStep DEF OutboxInv

LEMMA OutboxInvariant == OutboxSpec => []OutboxInv
  BY OutboxInvInit, OutboxInvStep, PTL DEF OutboxSpec

(* THEOREM: however often workers crash after the post, lose their lease or *)
(* miss the answer, reviewers get at most `notification_max_attempts`       *)
(* webhooks for an approval: a claim is counted before its post.            *)
THEOREM DeliveriesAreBounded == OutboxSpec => []DeliveriesBounded
<1>1. OutboxInv => DeliveriesBounded
  BY CoverBounds DEF OutboxInv
<1> QED
  BY <1>1, OutboxInvariant, PTL

(* THEOREM: a job is completed only when its webhook reached the reviewers  *)
(* or nobody has to be told any more.                                       *)
THEOREM CompletedJobsAreAccounted == OutboxSpec => []CompletedIsAccounted
<1>1. OutboxInv => CompletedIsAccounted
  BY DEF OutboxInv
<1> QED
  BY <1>1, OutboxInvariant, PTL

(* THEOREM: no two workers hold an unexpired lease of the same job, however *)
(* their transactions interleave.                                           *)
THEOREM LeasesAreExclusive == OutboxSpec => []LeaseExclusive
<1>1. OutboxInv => LeaseExclusive
  BY DEF OutboxInv
<1> QED
  BY <1>1, OutboxInvariant, PTL

(* A settled job is neither queued again nor claimed, and a worker that     *)
(* comes late does not own it.                                              *)
LEMMA SettledStays ==
  ASSUME OutboxInv, [OutboxNext]_outboxVars, NEW p \in Approval, Settled(p)
  PROVE  job'[p].status = job[p].status
<1> USE DEF OutboxInv, Settled
<1>1. ASSUME NEW q \in Approval,
             CreateApproval(q) \/ CrashCreator(q) \/ ResolveApproval(q)
      PROVE  job' = job
  BY <1>1 DEF CreateApproval, CrashCreator, ResolveApproval
<1>2. ASSUME NEW q \in Approval,
             \/ EnqueueOutbox(q) \/ LapseLease(q) \/ ComeDue(q)
             \/ \E w \in Worker : ClaimOutbox(w, q)
      PROVE  job'[p].status = job[p].status
  <2>1. \A r \in Approval \ {q} : job'[r] = job[r]
    BY <1>2 DEF EnqueueOutbox, LapseLease, ComeDue, ClaimOutbox, OutboxTypeOK
  <2>2. CASE EnqueueOutbox(q)
    BY <2>1, <2>2 DEF EnqueueOutbox, QueuedOnce, Absent
  <2>3. CASE LapseLease(q)
    BY <2>1, <2>3 DEF LapseLease
  <2>4. CASE ComeDue(q)
    BY <2>1, <2>4 DEF ComeDue, OutboxTypeOK, Job
  <2>5. CASE \E w \in Worker : ClaimOutbox(w, q)
    BY <2>1, <2>5 DEF ClaimOutbox, Claimable
  <2> QED BY <1>2, <2>2, <2>3, <2>4, <2>5
<1>3. ASSUME NEW w \in Worker,
             GetApproval(w) \/ Notify(w) \/ Report(w) \/ CrashWorker(w)
      PROVE  job' = job
  BY <1>3 DEF GetApproval, Notify, Report, CrashWorker
<1>4. ASSUME NEW w \in Worker, CompleteOutbox(w) \/ RetryOutbox(w)
      PROVE  job'[p].status = job[p].status
  BY <1>4, SettledRow DEF Owns
<1>5. CASE UNCHANGED outboxVars
  BY <1>5 DEF outboxVars
<1> QED
  BY <1>1, <1>2, <1>3, <1>4, <1>5 DEF OutboxNext, ProcessOne

(* THEOREM: a job that is completed or dead keeps its status, whatever late *)
(* workers still do with it.                                                *)
THEOREM SettledJobsAreFinal == OutboxSpec => SettledIsFinal
<1>1. OutboxInv /\ [OutboxNext]_outboxVars
      => [\A p \in Approval : Settled(p) => job'[p].status = job[p].status]_outboxVars
  BY SettledStays
<1> QED
  BY <1>1, OutboxInvariant, PTL DEF OutboxSpec, SettledIsFinal

=============================================================================
