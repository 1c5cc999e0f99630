----------------------------- MODULE Containment -----------------------------
(***************************************************************************)
(* The agent-control tables of the store and everybody who writes them:    *)
(* administrators (contain, release, revoke, issue) and the gateway's own  *)
(* response to repeated high-risk denials.  An action is one database      *)
(* transaction of storage.py; what a handler does between two transactions *)
(* interleaves with everything else, and a handler that fails between them *)
(* leaves only the first one done.                                         *)
(***************************************************************************)
EXTENDS Naturals, FiniteSets

CONSTANTS
  Agent,            (* agents of the tenants                                *)
  Tool,             (* tool names                                           *)
  Handler,          (* threads of the gateway serving agent requests        *)
  Admin,            (* threads of the API serving administrators            *)
  Token,            (* agent tokens that are ever issued                    *)
  TokenOwner,       (* the agent each token is issued to                    *)
  Threshold,        (* quarantine_threshold                                 *)
  Serialized,       (* TRUE: SQLite, one writer at a time; FALSE:           *)
                    (* PostgreSQL at READ COMMITTED                         *)
  MayFail,          (* TRUE: a handler may stop between two transactions    *)
  MaxContainments,  (* bound: unreleased, unexpired containments of an agent*)
  MaxViolations     (* bound: the violation count saturates here            *)

ASSUME ContainmentAssumption ==
  /\ Agent # {}
  /\ Handler # {} /\ IsFiniteSet(Handler)
  /\ TokenOwner \in [Token -> Agent]
  /\ Threshold \in Nat \ {0}
  /\ MaxContainments \in Nat \ {0}
  /\ MaxViolations \in Nat /\ MaxViolations >= Threshold
  /\ Serialized \in BOOLEAN /\ MayFail \in BOOLEAN

VARIABLES
  containments,  (* per agent, the rows of `containments` in created_at     *)
                 (* order; a row that ended frees its place                 *)
  quarantined,   (* the agent has an unreleased row in `quarantines`        *)
  violations,    (* high/critical `violations` rows inside the window       *)
  incidents,     (* agents with a row in `incidents`                        *)
  tokens,        (* `agent_tokens`                                          *)
  agentStatus,   (* `agents.status`                                         *)
  response,      (* where each gateway thread is in _finalize's response    *)
  admin,         (* where each administrator's request is                   *)
  excused,       (* ghost: agents released, or whose response failed, since *)
                 (* the gateway last quarantined them                       *)
  dead           (* ghost: tokens some revocation has made unusable         *)

storeVars == <<containments, quarantined, violations, incidents, tokens,
               agentStatus>>
containmentVars == <<storeVars, response, admin, excused, dead>>

Slot == 1 .. MaxContainments
Mode == {"monitor", "restrict", "quarantine", "revoke"}
Row == [mode: Mode \cup {"none"}, allowed: SUBSET Tool]
Free == [mode |-> "none", allowed |-> {}]

TokenState == {"unissued", "registering", "live", "revoked", "expired"}
Response == [step: {"idle", "counting", "counted", "recording",
                    "quarantining", "containing", "done"},
             agent: Agent, count: 0 .. MaxViolations]
AdminRequest == [step: {"idle", "revoking", "sweeping", "registering",
                        "auditing"},
                 agent: Agent, swept: SUBSET Token]

(* A thread that serves nothing keeps no agent of its own.                  *)
AnyAgent == CHOOSE a \in Agent : TRUE
NoResponse == [step |-> "idle", agent |-> AnyAgent, count |-> 0]
NoRequest == [step |-> "idle", agent |-> AnyAgent, swept |-> {}]

-----------------------------------------------------------------------------
(* What is read: active_containment looks only at the newest row that is    *)
(* neither released nor expired.                                            *)

Live(a) == {i \in Slot : containments[a][i].mode # "none"}

Active(a) ==
  IF Live(a) = {} THEN Free
  ELSE containments[a][CHOOSE i \in Live(a) : \A j \in Live(a) : j <= i]

Blocking(mode) == mode \in {"quarantine", "revoke"}

RestrictedAway(a, tool) ==
  Active(a).mode = "restrict" /\ tool \notin Active(a).allowed

IsQuarantined(a) == Blocking(Active(a).mode) \/ quarantined[a]

TokenActive(t) ==
  tokens[t] = "live" /\ agentStatus[TokenOwner[t]] = "active"

-----------------------------------------------------------------------------
(* Effects on rows.                                                         *)

(* A new row goes last; the rows younger than the free place move down.  At *)
(* the bound MaxContainments the oldest row gives way, as if it had expired.*)
Inserted(a, row) ==
  LET free == Slot \ Live(a)
      place == IF free = {} THEN 1
               ELSE CHOOSE i \in free : \A j \in free : j <= i
  IN  [containments EXCEPT ![a] =
         [i \in Slot |-> IF i < place THEN @[i]
                         ELSE IF i < MaxContainments THEN @[i + 1] ELSE row]]

Ended(a, S) ==
  [containments EXCEPT ![a] = [i \in Slot |-> IF i \in S THEN Free ELSE @[i]]]

Bump(n) == IF n < MaxViolations THEN n + 1 ELSE n

(* Tokens that were issued and that the given tables no longer accept.      *)
Unusable(tok, status) ==
  {t \in Token : \/ tok[t] = "revoked"
                 \/ tok[t] = "live" /\ status[TokenOwner[t]] = "revoked"}

-----------------------------------------------------------------------------
(* The gateway's response to a high-risk denial (service._finalize): count  *)
(* the violation, upsert the incident and, at the threshold, write the      *)
(* quarantine row and then, in a transaction of its own, a containment.     *)

StartResponse(h, a) ==
  /\ response[h].step = "idle"
  /\ response' = [response EXCEPT ![h] =
       [step |-> "counting", agent |-> a, count |-> 0]]
  /\ UNCHANGED <<storeVars, admin, excused, dead>>

(* Mutant: the count is taken before the row is inserted.                   *)
CountBeforeInsert(h) ==
  LET a == response[h].agent IN
  /\ response[h].step = "counting"
  /\ violations' = [violations EXCEPT ![a] = Bump(@)]
  /\ response' = [response EXCEPT ![h].count = violations[a],
                                 ![h].step = "recording"]
  /\ UNCHANGED <<containments, quarantined, incidents, tokens, agentStatus,
                 admin, excused, dead>>

(* Mutant: at the threshold the quarantine comes first, and the incident    *)
(* never.                                                                   *)
QuarantineBeforeIncident(h) ==
  LET a == response[h].agent
      count == Bump(violations[a]) IN
  /\ response[h].step = "counting"
  /\ violations' = [violations EXCEPT ![a] = count]
  /\ response' = [response EXCEPT ![h].count = count, ![h].step =
       IF count >= Threshold THEN "quarantining" ELSE "recording"]
  /\ UNCHANGED <<containments, quarantined, incidents, tokens, agentStatus,
                 admin, excused, dead>>

(* record_violation takes no lock of its own.  SQLite's writer lock still   *)
(* makes insert and count one step; on PostgreSQL two transactions insert   *)
(* side by side and each counts its own row and the committed ones.         *)
CountViolation(h) ==
  LET a == response[h].agent
      counted(step) == [response EXCEPT ![h].count = Bump(violations[a]),
                                        ![h].step = step]
  IN
  /\ response[h].step = "counting"
  /\ \/ /\ Serialized
        /\ violations' = [violations EXCEPT ![a] = Bump(@)]
        /\ response' = counted("recording")
     \/ /\ ~Serialized
        /\ response' = counted("counted")
        /\ UNCHANGED violations
  /\ UNCHANGED <<containments, quarantined, incidents, tokens, agentStatus,
                 admin, excused, dead>>

CommitViolation(h) ==
  /\ response[h].step = "counted"
  /\ violations' = [violations EXCEPT ![response[h].agent] = Bump(@)]
  /\ response' = [response EXCEPT ![h].step = "recording"]
  /\ UNCHANGED <<containments, quarantined, incidents, tokens, agentStatus,
                 admin, excused, dead>>

(* Mutant: the burst has to exceed the threshold.                           *)
UpsertIncidentAbove(h) ==
  /\ response[h].step = "recording"
  /\ incidents' = incidents \cup {response[h].agent}
  /\ response' = [response EXCEPT ![h].step =
       IF response[h].count > Threshold THEN "quarantining" ELSE "done"]
  /\ UNCHANGED <<containments, quarantined, violations, tokens, agentStatus,
                 admin, excused, dead>>

UpsertIncident(h) ==
  /\ response[h].step = "recording"
  /\ incidents' = incidents \cup {response[h].agent}
  /\ response' = [response EXCEPT ![h].step =
       IF response[h].count >= Threshold THEN "quarantining" ELSE "done"]
  /\ UNCHANGED <<containments, quarantined, violations, tokens, agentStatus,
                 admin, excused, dead>>

(* Mutant: the row is written only if the agent has no containment yet.     *)
QuarantineRowUnlessContained(h) ==
  LET a == response[h].agent IN
  /\ response[h].step = "quarantining"
  /\ quarantined' =
       [quarantined EXCEPT ![a] = @ \/ Active(a).mode = "none"]
  /\ excused' = excused \ {a}
  /\ response' = [response EXCEPT ![h].step =
       IF Active(a).mode = "none" THEN "containing" ELSE "done"]
  /\ UNCHANGED <<containments, violations, incidents, tokens, agentStatus,
                 admin, dead>>

QuarantineRow(h) ==
  /\ response[h].step = "quarantining"
  /\ quarantined' = [quarantined EXCEPT ![response[h].agent] = TRUE]
  /\ excused' = excused \ {response[h].agent}
  /\ response' = [response EXCEPT ![h].step = "containing"]
  /\ UNCHANGED <<containments, violations, incidents, tokens, agentStatus,
                 admin, dead>>

QuarantineContainment(h) ==
  LET a == response[h].agent IN
  /\ response[h].step = "containing"
  /\ containments' = Inserted(a, [mode |-> "quarantine", allowed |-> {}])
  /\ response' = [response EXCEPT ![h].step = "done"]
  /\ UNCHANGED <<quarantined, violations, incidents, tokens, agentStatus,
                 admin, excused, dead>>

FinishResponse(h) ==
  /\ response[h].step = "done"
  /\ response' = [response EXCEPT ![h] = NoResponse]
  /\ UNCHANGED <<storeVars, admin, excused, dead>>

AbortResponse(h) ==
  /\ MayFail
  /\ response[h].step \notin {"idle", "done"}
  /\ response' = [response EXCEPT ![h] = NoResponse]
  /\ excused' = excused \cup {response[h].agent}
  /\ UNCHANGED <<storeVars, admin, dead>>

-----------------------------------------------------------------------------
(* The administrators' API.                                                 *)

Request(x, step, a) ==
  [admin EXCEPT ![x] = [step |-> step, agent |-> a, swept |-> {}]]

(* restrict must name tools; revoke goes on to revoke the agent's tokens in *)
(* a second transaction.                                                    *)
ContainAgent(x, a, mode, allowed) ==
  /\ admin[x].step = "idle"
  /\ mode = "restrict" => allowed # {}
  /\ Live(a) # Slot
  /\ containments' = Inserted(a, [mode |-> mode, allowed |-> allowed])
  /\ admin' = Request(x, IF mode = "revoke" THEN "revoking" ELSE "auditing", a)
  /\ UNCHANGED <<quarantined, violations, incidents, tokens, agentStatus,
                 response, excused, dead>>

RevokeAgent(x, a) ==
  /\ admin[x].step = "idle"
  /\ admin' = Request(x, "revoking", a)
  /\ UNCHANGED <<storeVars, response, excused, dead>>

LiveTokens(a) == {t \in Token : TokenOwner[t] = a /\ tokens[t] = "live"}

(* Mutant: only the agent is marked; its tokens come back with it.          *)
RevokedInName(x, S) ==
  /\ agentStatus' = [agentStatus EXCEPT ![admin[x].agent] = "revoked"]
  /\ dead' = dead \cup Unusable(tokens, agentStatus')
  /\ admin' = [admin EXCEPT ![x].step = "auditing", ![x].swept = {}]
  /\ UNCHANGED tokens

(* The effect of revoke_agent_tokens when it marks the tokens of S.         *)
Revoked(x, S) ==
  /\ tokens' = [t \in Token |-> IF t \in S THEN "revoked" ELSE tokens[t]]
  /\ agentStatus' = [agentStatus EXCEPT ![admin[x].agent] = "revoked"]
  /\ dead' = dead \cup Unusable(tokens', agentStatus')
  /\ admin' = [admin EXCEPT ![x].step = "auditing", ![x].swept = {}]

RevokeTokens(x) ==
  /\ admin[x].step = "revoking"
  /\ \/ Serialized /\ Revoked(x, LiveTokens(admin[x].agent))
     \/ /\ ~Serialized
        /\ admin' = [admin EXCEPT ![x].step = "sweeping",
                                  ![x].swept = LiveTokens(admin[x].agent)]
        /\ UNCHANGED <<tokens, agentStatus, dead>>
  /\ UNCHANGED <<containments, quarantined, violations, incidents, response,
                 excused>>

(* PostgreSQL: the second statement waits for the row lock that an open     *)
(* registration for the same agent holds.                                   *)
CommitRevocation(x) ==
  /\ admin[x].step = "sweeping"
  /\ \A y \in Admin : admin[y].step = "registering"
                        => admin[y].agent # admin[x].agent
  /\ Revoked(x, admin[x].swept)
  /\ UNCHANGED <<containments, quarantined, violations, incidents, response,
                 excused>>

(* register_agent_token: the agent becomes active and the token is stored.  *)
Registered(a, S) ==
  /\ tokens' = [t \in Token |-> IF t \in S THEN "live" ELSE tokens[t]]
  /\ agentStatus' = [agentStatus EXCEPT ![a] = "active"]

IssueToken(x, t) ==
  LET a == TokenOwner[t] IN
  /\ admin[x].step = "idle"
  /\ tokens[t] = "unissued"
  /\ \/ /\ Serialized
        /\ Registered(a, {t})
        /\ admin' = Request(x, "auditing", a)
     \/ /\ ~Serialized
        /\ \A y \in Admin : admin[y].step = "registering"
                              => admin[y].agent # a
        /\ tokens' = [tokens EXCEPT ![t] = "registering"]
        /\ admin' = Request(x, "registering", a)
        /\ UNCHANGED agentStatus
  /\ UNCHANGED <<containments, quarantined, violations, incidents, response,
                 excused, dead>>

CommitRegistration(x) ==
  LET a == admin[x].agent IN
  /\ admin[x].step = "registering"
  /\ Registered(a, {t \in Token : TokenOwner[t] = a
                                  /\ tokens[t] = "registering"})
  /\ admin' = [admin EXCEPT ![x].step = "auditing"]
  /\ UNCHANGED <<containments, quarantined, violations, incidents, response,
                 excused, dead>>

ReleaseContainment(x, a, i) ==
  /\ admin[x].step = "idle"
  /\ i \in Live(a)
  /\ containments' = Ended(a, {i})
  /\ admin' = Request(x, "auditing", a)
  /\ UNCHANGED <<quarantined, violations, incidents, tokens, agentStatus,
                 response, excused, dead>>

(* release_agent clears the quarantine row and every quarantine containment *)
(* but reports, and so has audited, only the row.  Its two UPDATEs are one  *)
(* step also with several writers: a new quarantine whose row comes after   *)
(* the first and whose containment comes before the second of them keeps    *)
(* its row alone, as when its containment expires.                          *)
ReleaseAgent(x, a) ==
  LET rows == {i \in Live(a) : containments[a][i].mode = "quarantine"} IN
  /\ admin[x].step = "idle"
  /\ quarantined' = [quarantined EXCEPT ![a] = FALSE]
  /\ containments' = Ended(a, rows)
  /\ excused' = excused \cup {a}
  /\ admin' = IF quarantined[a] THEN Request(x, "auditing", a) ELSE admin
  /\ UNCHANGED <<violations, incidents, tokens, agentStatus, response, dead>>

WriteAudit(x) ==
  /\ admin[x].step = "auditing"
  /\ admin' = [admin EXCEPT ![x] = NoRequest]
  /\ UNCHANGED <<storeVars, response, excused, dead>>

(* The request stops; an open transaction is rolled back.                   *)
AbortAdmin(x) ==
  LET a == admin[x].agent IN
  /\ MayFail
  /\ admin[x].step # "idle"
  /\ tokens' = [t \in Token |->
       IF /\ admin[x].step = "registering"
          /\ tokens[t] = "registering" /\ TokenOwner[t] = a
       THEN "unissued" ELSE tokens[t]]
  /\ admin' = [admin EXCEPT ![x] = NoRequest]
  /\ UNCHANGED <<containments, quarantined, violations, incidents,
                 agentStatus, response, excused, dead>>

-----------------------------------------------------------------------------
(* Time.                                                                    *)

ExpireContainment(a, i) ==
  /\ i \in Live(a)
  /\ containments' = Ended(a, {i})
  /\ UNCHANGED <<quarantined, violations, incidents, tokens, agentStatus,
                 response, admin, excused, dead>>

(* Mutant: one more violation ages out than was counted.                    *)
AgeViolationTwice(a) ==
  /\ violations' = [violations EXCEPT ![a] = @ - 1]
  /\ UNCHANGED <<containments, quarantined, incidents, tokens, agentStatus,
                 response, admin, excused, dead>>

(* The oldest counted violation leaves quarantine_window_seconds.           *)
AgeViolation(a) ==
  /\ violations[a] > 0
  /\ violations' = [violations EXCEPT ![a] = @ - 1]
  /\ UNCHANGED <<containments, quarantined, incidents, tokens, agentStatus,
                 response, admin, excused, dead>>

ExpireToken(t) ==
  /\ tokens[t] = "live"
  /\ tokens' = [tokens EXCEPT ![t] = "expired"]
  /\ UNCHANGED <<containments, quarantined, violations, incidents,
                 agentStatus, response, admin, excused, dead>>

-----------------------------------------------------------------------------

ContainmentInit ==
  /\ containments = [a \in Agent |-> [i \in Slot |-> Free]]
  /\ quarantined = [a \in Agent |-> FALSE]
  /\ violations = [a \in Agent |-> 0]
  /\ incidents = {}
  /\ tokens \in [Token -> {"unissued", "live"}]
  /\ agentStatus = [a \in Agent |-> "active"]
  /\ response = [h \in Handler |-> NoResponse]
  /\ admin = [x \in Admin |-> NoRequest]
  /\ excused = {}
  /\ dead = {}

ResponseStep(h) ==
  \/ CountViolation(h) \/ CommitViolation(h) \/ UpsertIncident(h)
  \/ QuarantineRow(h) \/ QuarantineContainment(h)

AdminStep(x) ==
  RevokeTokens(x) \/ CommitRevocation(x) \/ CommitRegistration(x)
    \/ WriteAudit(x)

AdminStart(x) ==
  \/ \E a \in Agent : \/ RevokeAgent(x, a)
                      \/ ReleaseAgent(x, a)
                      \/ \E i \in Slot : ReleaseContainment(x, a, i)
                      \/ \E mode \in Mode, allowed \in SUBSET Tool :
                           /\ mode # "restrict" => allowed = {}
                           /\ ContainAgent(x, a, mode, allowed)
  \/ \E t \in Token : IssueToken(x, t)

Expiry ==
  \/ \E a \in Agent : AgeViolation(a)
                        \/ \E i \in Slot : ExpireContainment(a, i)
  \/ \E t \in Token : ExpireToken(t)

ContainmentNext ==
  \/ \E h \in Handler : \/ \E a \in Agent : StartResponse(h, a)
                        \/ ResponseStep(h)
                        \/ FinishResponse(h)
                        \/ AbortResponse(h)
  \/ \E x \in Admin : AdminStart(x) \/ AdminStep(x) \/ AbortAdmin(x)
  \/ Expiry

ContainmentSpec == ContainmentInit /\ [][ContainmentNext]_containmentVars

(* Threads that were started go on, and time passes; nobody has to call.    *)
ContainmentFairness ==
  /\ \A h \in Handler : WF_containmentVars(ResponseStep(h))
                         /\ WF_containmentVars(FinishResponse(h))
  /\ \A x \in Admin : WF_containmentVars(AdminStep(x))
  /\ \A a \in Agent : WF_containmentVars(
       AgeViolation(a) \/ \E i \in Slot : ExpireContainment(a, i))

ContainmentLiveSpec == ContainmentSpec /\ ContainmentFairness

-----------------------------------------------------------------------------
(* Properties.                                                              *)

(* Every table and every thread's place holds the values the code uses.     *)
ContainmentTypeOK ==
  /\ containments \in [Agent -> [Slot -> Row]]
  /\ quarantined \in [Agent -> BOOLEAN]
  /\ violations \in [Agent -> 0 .. MaxViolations]
  /\ incidents \subseteq Agent
  /\ tokens \in [Token -> TokenState]
  /\ agentStatus \in [Agent -> {"active", "revoked"}]
  /\ response \in [Handler -> Response]
  /\ admin \in [Admin -> AdminRequest]
  /\ excused \subseteq Agent
  /\ dead \subseteq Token

InResponse(a) ==
  \E h \in Handler : response[h].step # "idle" /\ response[h].agent = a

(* How many other denials a denial may have to leave out of its count.      *)
Unseen == IF Serialized THEN 0 ELSE Cardinality(Handler) - 1

(* A burst of high-risk denials quarantines the agent and leaves it blocked,*)
(* whatever administrators contain or release meanwhile short of releasing  *)
(* the agent, unless the response failed half way since: a denial that      *)
(* counted Threshold of them does, and so does a burst that is in the       *)
(* window when nobody is in the middle of recording a denial.  On SQLite    *)
(* Threshold denials are a burst; on PostgreSQL, where those inserted at    *)
(* once miss each other, there must be as many more as can be under way     *)
(* beside one of them (record_violation, _finalize).                        *)
ThresholdQuarantines ==
  \A a \in Agent \ excused :
    \/ violations[a] >= Threshold + Unseen /\ ~InResponse(a)
    \/ \E h \in Handler : /\ response[h].step = "done" /\ response[h].agent = a
                          /\ response[h].count >= Threshold
    => quarantined[a] /\ IsQuarantined(a)

(* An automatic quarantine always has an incident that explains it.         *)
QuarantineHasIncident ==
  \A a \in Agent : quarantined[a] => a \in incidents

(* A token that a revocation made unusable is never accepted again, neither *)
(* after the containment is released nor when a new token makes the agent   *)
(* active again.                                                            *)
RevocationIsFinal == \A t \in dead : ~TokenActive(t)

(* The denial that reaches the threshold does quarantine the agent, however *)
(* administrators release and expiry interfere, if the thread does not fail.*)
BurstIsAnswered ==
  \A h \in Handler, a \in Agent :
    /\ response[h].step \in {"counted", "recording", "quarantining"}
    /\ response[h].agent = a /\ response[h].count >= Threshold
    ~> quarantined[a]

=============================================================================
