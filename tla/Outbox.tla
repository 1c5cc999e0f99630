------------------------------- MODULE Outbox -------------------------------
(***************************************************************************)
(* The notification outbox: the gateway creates an approval and then, in a *)
(* second transaction, queues a job for it; workers claim jobs under a     *)
(* lease, post the webhook and complete, retry or bury the job.  An action *)
(* is one transaction of the store, one webhook post, or time passing.     *)
(* One job exists at most for an approval, so it is named by its approval. *)
(***************************************************************************)
EXTENDS Naturals

CONSTANTS
  Approval,     (* approvals created                                        *)
  Worker,       (* worker processes                                         *)
  MaxAttempts,  (* notification_max_attempts                                *)
  MayCrash,     (* TRUE: the gateway's thread and the workers may stop      *)
                (* anywhere; a worker comes back with nothing in hand       *)
  Nobody

ASSUME OutboxAssumption ==
  /\ Approval # {}
  /\ MaxAttempts \in Nat \ {0}
  /\ MayCrash \in BOOLEAN
  /\ Nobody \notin Worker

VARIABLES
  approval,   (* `approvals_v2.status`: all but pending is one state here   *)
  creating,   (* approvals whose creator has still to queue the job         *)
  job,        (* `outbox_jobs`                                              *)
  worker,     (* where each worker is in process_one                        *)
  delivered,  (* ghost: webhooks that reached the reviewers                 *)
  leases      (* ghost: claims at work whose lease has not run out          *)

outboxVars == <<approval, creating, job, worker, delivered, leases>>

JobStatus == {"absent", "pending", "processing", "retry", "completed", "dead"}
Job == [status: JobStatus,
        attempts: 0 .. MaxAttempts,
        owner: Worker \cup {Nobody},  (* locked_by                          *)
        lapsed: BOOLEAN,              (* locked_at is a lease ago or more   *)
        due: BOOLEAN]                 (* next_attempt_at has come           *)
Pc == {"idle", "look", "notify", "complete", "report", "retry"}

Absent == [status |-> "absent", attempts |-> 0, owner |-> Nobody,
           lapsed |-> FALSE, due |-> TRUE]
AnyApproval == CHOOSE p \in Approval : TRUE
AtRest == [pc |-> "idle", approval |-> AnyApproval]

Settled(p) == job[p].status \in {"completed", "dead"}
Owns(w, p) == job[p].status = "processing" /\ job[p].owner = w

Goto(w, pc) == worker' = [worker EXCEPT ![w].pc = pc]

(* The worker is done with its job, whatever became of it.                  *)
Rest(w) ==
  /\ worker' = [worker EXCEPT ![w] = AtRest]
  /\ leases' = {l \in leases : l[1] # w}

-----------------------------------------------------------------------------
(* The gateway and the reviewers.                                           *)

CreateApproval(p) ==
  /\ approval[p] = "none"
  /\ approval' = [approval EXCEPT ![p] = "pending"]
  /\ creating' = creating \cup {p}
  /\ UNCHANGED <<job, worker, delivered, leases>>

EnqueueOutbox(p) ==
  /\ p \in creating
  /\ creating' = creating \ {p}
  /\ job' = [job EXCEPT ![p] = [Absent EXCEPT !.status = "pending"]]
  /\ UNCHANGED <<approval, worker, delivered, leases>>

CrashCreator(p) ==
  /\ MayCrash
  /\ p \in creating
  /\ creating' = creating \ {p}
  /\ UNCHANGED <<approval, job, worker, delivered, leases>>

ResolveApproval(p) ==
  /\ approval[p] = "pending"
  /\ approval' = [approval EXCEPT ![p] = "resolved"]
  /\ UNCHANGED <<creating, job, worker, delivered, leases>>

-----------------------------------------------------------------------------
(* A worker's process_one.                                                  *)

(* Mutant: the lease is not looked at.                                      *)
ClaimableAnyway(p) ==
  /\ job[p].attempts < MaxAttempts /\ job[p].due
  /\ job[p].status \in {"pending", "retry", "processing"}

(* Mutant: attempts are counted but not limited.                            *)
ClaimableForever(p) ==
  /\ job[p].due
  /\ \/ job[p].status \in {"pending", "retry"}
     \/ job[p].status = "processing" /\ job[p].lapsed

(* Mutant: an abandoned claim is never taken over.                          *)
ClaimableFresh(p) ==
  /\ job[p].attempts < MaxAttempts /\ job[p].due
  /\ job[p].status \in {"pending", "retry"}

Claimable(p) ==
  /\ job[p].attempts < MaxAttempts /\ job[p].due
  /\ \/ job[p].status \in {"pending", "retry"}
     \/ job[p].status = "processing" /\ job[p].lapsed

(* Mutant: a claim counts as an attempt only once it has been retried.      *)
ClaimUncounted(w, p) ==
  /\ worker[w].pc = "idle"
  /\ Claimable(p)
  /\ job' = [job EXCEPT ![p].status = "processing", ![p].owner = w,
                        ![p].lapsed = FALSE]
  /\ worker' = [worker EXCEPT ![w] = [pc |-> "look", approval |-> p]]
  /\ leases' = leases \cup {<<w, p>>}
  /\ UNCHANGED <<approval, creating, delivered>>

(* The oldest claimable job; a worker passes over rows that others are just *)
(* claiming (SKIP LOCKED), so that it may be any of them.                   *)
ClaimOutbox(w, p) ==
  /\ worker[w].pc = "idle"
  /\ Claimable(p)
  /\ job' = [job EXCEPT ![p].status = "processing", ![p].owner = w,
                        ![p].lapsed = FALSE, ![p].attempts = @ + 1]
  /\ worker' = [worker EXCEPT ![w] = [pc |-> "look", approval |-> p]]
  /\ leases' = leases \cup {<<w, p>>}
  /\ UNCHANGED <<approval, creating, delivered>>

(* A record that cannot be read is an error like any other.                 *)
GetApproval(w) ==
  /\ worker[w].pc = "look"
  /\ \/ Goto(w, IF approval[worker[w].approval] = "pending"
                THEN "notify" ELSE "complete")
     \/ Goto(w, "retry")
  /\ UNCHANGED <<approval, creating, job, delivered, leases>>

(* Mutant: the answer to the webhook is ignored.                            *)
NotifyOnce(w) ==
  /\ worker[w].pc = "notify"
  /\ \/ delivered' = [delivered EXCEPT ![worker[w].approval] = @ + 1]
     \/ UNCHANGED delivered
  /\ Goto(w, "complete")
  /\ UNCHANGED <<approval, creating, job, leases>>

(* The post succeeds, never arrives, or arrives and is answered by an error *)
(* or not in time.                                                          *)
Notify(w) ==
  /\ worker[w].pc = "notify"
  /\ \/ /\ delivered' = [delivered EXCEPT ![worker[w].approval] = @ + 1]
        /\ Goto(w, "complete") \/ Goto(w, "retry")
     \/ Goto(w, "retry") /\ UNCHANGED delivered
  /\ UNCHANGED <<approval, creating, job, leases>>

(* The result of complete_outbox is ignored: a worker whose claim was taken *)
(* over reports a delivery all the same.  An exception leads to the retry.  *)
CompleteOutbox(w) ==
  LET p == worker[w].approval IN
  /\ worker[w].pc = "complete"
  /\ \/ /\ job' = IF Owns(w, p)
                  THEN [job EXCEPT ![p].status = "completed",
                                   ![p].owner = Nobody, ![p].lapsed = FALSE]
                  ELSE job
        /\ Goto(w, "report")
     \/ MayCrash /\ Goto(w, "retry") /\ UNCHANGED job
  /\ UNCHANGED <<approval, creating, delivered, leases>>

(* Heartbeat and audit; an exception here retries a job that is completed.  *)
Report(w) ==
  /\ worker[w].pc = "report"
  /\ \/ Rest(w)
     \/ MayCrash /\ Goto(w, "retry") /\ UNCHANGED leases
  /\ UNCHANGED <<approval, creating, job, delivered>>

(* The row after a failed attempt.                                          *)
Failed(row) ==
  [row EXCEPT !.status = IF row.attempts >= MaxAttempts THEN "dead" ELSE "retry",
              !.owner = Nobody, !.lapsed = FALSE, !.due = FALSE]

(* Mutant: a failure is recorded by whoever met it.                         *)
RetryUnowned(w) ==
  LET p == worker[w].approval IN
  /\ worker[w].pc = "retry"
  /\ job' = [job EXCEPT ![p] = Failed(@)]
  /\ Rest(w)
  /\ UNCHANGED <<approval, creating, delivered>>

RetryOutbox(w) ==
  LET p == worker[w].approval IN
  /\ worker[w].pc = "retry"
  /\ job' = IF Owns(w, p) THEN [job EXCEPT ![p] = Failed(@)] ELSE job
  /\ Rest(w)
  /\ UNCHANGED <<approval, creating, delivered>>

CrashWorker(w) ==
  /\ MayCrash
  /\ worker[w].pc # "idle"
  /\ Rest(w)
  /\ UNCHANGED <<approval, creating, job, delivered>>

-----------------------------------------------------------------------------
(* Time.                                                                    *)

LapseLease(p) ==
  /\ job[p].status = "processing" /\ ~job[p].lapsed
  /\ job' = [job EXCEPT ![p].lapsed = TRUE]
  /\ leases' = {l \in leases : l # <<job[p].owner, p>>}
  /\ UNCHANGED <<approval, creating, worker, delivered>>

ComeDue(p) ==
  /\ ~job[p].due
  /\ job' = [job EXCEPT ![p].due = TRUE]
  /\ UNCHANGED <<approval, creating, worker, delivered, leases>>

-----------------------------------------------------------------------------

OutboxInit ==
  /\ approval = [p \in Approval |-> "none"]
  /\ creating = {}
  /\ job = [p \in Approval |-> Absent]
  /\ worker = [w \in Worker |-> AtRest]
  /\ delivered = [p \in Approval |-> 0]
  /\ leases = {}

ProcessOne(w) ==
  \/ \E p \in Approval : ClaimOutbox(w, p)
  \/ GetApproval(w) \/ Notify(w) \/ CompleteOutbox(w) \/ Report(w)
  \/ RetryOutbox(w)

OutboxNext ==
  \/ \E p \in Approval : \/ CreateApproval(p) \/ EnqueueOutbox(p)
                         \/ CrashCreator(p) \/ ResolveApproval(p)
                         \/ LapseLease(p) \/ ComeDue(p)
  \/ \E w \in Worker : ProcessOne(w) \/ CrashWorker(w)

OutboxSpec == OutboxInit /\ [][OutboxNext]_outboxVars

(* At least one worker runs, a crashed one is started again, time passes.   *)
OutboxFairness ==
  /\ \A w \in Worker : WF_outboxVars(ProcessOne(w))
  /\ \A p \in Approval : WF_outboxVars(LapseLease(p) \/ ComeDue(p))

OutboxLiveSpec == OutboxSpec /\ OutboxFairness

-----------------------------------------------------------------------------
(* Properties.                                                              *)

(* Every row and every worker's place holds the values the code uses.       *)
OutboxTypeOK ==
  /\ approval \in [Approval -> {"none", "pending", "resolved"}]
  /\ creating \subseteq Approval
  /\ job \in [Approval -> Job]
  /\ worker \in [Worker -> [pc: Pc, approval: Approval]]
  /\ delivered \in [Approval -> Nat]
  /\ leases \subseteq Worker \X Approval

(* Reviewers get at most max_attempts webhooks for one approval, although   *)
(* workers crash after the post, lose their lease or miss the answer.       *)
DeliveriesBounded ==
  \A p \in Approval : delivered[p] <= job[p].attempts

(* A completed job was delivered, or its approval was no longer pending.    *)
CompletedIsAccounted ==
  \A p \in Approval :
    job[p].status = "completed" => delivered[p] > 0 \/ approval[p] = "resolved"

(* Two workers are at work on the same job only if the lease of the earlier *)
(* claim has run out.                                                       *)
LeaseExclusive ==
  \A l, m \in leases : l[2] = m[2] => l = m

(* A settled job stays as it is, whatever late workers still do with it.    *)
SettledIsFinal ==
  [][\A p \in Approval : Settled(p) => job'[p].status = job[p].status]_outboxVars

(* A queued job is settled or reaches its last attempt, although workers    *)
(* crash with the job in hand.                                              *)
RetriesGoOn ==
  \A p \in Approval :
    job[p].status \in {"pending", "retry", "processing"}
      ~> Settled(p) \/ job[p].attempts = MaxAttempts

=============================================================================
