-------------------------- MODULE ContainmentProofs --------------------------
(***************************************************************************)
(* What holds of Containment for every number of agents, threads, tokens   *)
(* and administrators, every threshold and every bound.                    *)
(***************************************************************************)
EXTENDS Containment, FiniteSetTheorems, TLAPS

-----------------------------------------------------------------------------
(* Helpers.                                                                 *)

(* There is an agent to stand for "no agent".                               *)
LEMMA AnyAgentIsAgent == AnyAgent \in Agent
  BY ContainmentAssumption DEF AnyAgent

(* Bump stays within the bound and counts up to it.                         *)
LEMMA BumpWithin ==
  ASSUME NEW n \in 0 .. MaxViolations
  PROVE  /\ Bump(n) \in 0 .. MaxViolations
         /\ Bump(n) >= Threshold \/ Bump(n) = n + 1
  BY ContainmentAssumption DEF Bump

(* Nobody is in the middle of anything: both records are of their type.     *)
LEMMA RestTyped == NoResponse \in Response /\ NoRequest \in AdminRequest
  BY AnyAgentIsAgent, ContainmentAssumption
     DEF NoResponse, NoRequest, Response, AdminRequest

(* Inserting and ending rows keeps the array of rows one.                   *)
LEMMA RowsTyped ==
  ASSUME containments \in [Agent -> [Slot -> Row]],
         NEW a \in Agent, NEW row \in Row, NEW S
  PROVE  /\ Inserted(a, row) \in [Agent -> [Slot -> Row]]
         /\ Ended(a, S) \in [Agent -> [Slot -> Row]]
<1>1. \A i \in Slot : i < MaxContainments => i + 1 \in Slot
  BY ContainmentAssumption DEF Slot
<1>2. Free \in Row
  BY DEF Free, Row
<1>3. Inserted(a, row) \in [Agent -> [Slot -> Row]]
  <2> DEFINE free == Slot \ Live(a)
             place == IF free = {} THEN 1
                      ELSE CHOOSE i \in free : \A j \in free : j <= i
             rows == [i \in Slot |-> IF i < place THEN containments[a][i]
                        ELSE IF i < MaxContainments
                             THEN containments[a][i + 1] ELSE row]
  <2>1. \A i \in Slot : containments[a][i] \in Row
    OBVIOUS
  <2>2. rows \in [Slot -> Row]
    <3> HIDE DEF place
    <3> QED BY <1>1, <2>1
  <2>3. Inserted(a, row) = [containments EXCEPT ![a] = rows]
    BY DEF Inserted
  <2> HIDE DEF rows
  <2> QED BY <2>2, <2>3
<1>4. Ended(a, S) \in [Agent -> [Slot -> Row]]
  BY <1>2 DEF Ended
<1> QED BY <1>3, <1>4

-----------------------------------------------------------------------------
(* Types.                                                                   *)

LEMMA TypeInit == ContainmentInit => ContainmentTypeOK
<1> SUFFICES ASSUME ContainmentInit PROVE ContainmentTypeOK
  OBVIOUS
<1>1. Free \in Row
  BY DEF Free, Row
<1>2. containments \in [Agent -> [Slot -> Row]]
  BY <1>1 DEF ContainmentInit
<1>3. violations \in [Agent -> 0 .. MaxViolations]
  BY ContainmentAssumption DEF ContainmentInit
<1>4. tokens \in [Token -> TokenState]
  BY DEF ContainmentInit, TokenState
<1>5. response \in [Handler -> Response] /\ admin \in [Admin -> AdminRequest]
  BY RestTyped DEF ContainmentInit
<1> QED
  BY <1>2, <1>3, <1>4, <1>5 DEF ContainmentInit, ContainmentTypeOK

(* The steps of the gateway's response.                                     *)
LEMMA TypeResponse ==
  ASSUME ContainmentTypeOK, NEW h \in Handler,
         \/ \E a \in Agent : StartResponse(h, a)
         \/ ResponseStep(h) \/ FinishResponse(h) \/ AbortResponse(h)
  PROVE  ContainmentTypeOK'
<1> USE DEF ContainmentTypeOK, storeVars
<1>1. ASSUME NEW a \in Agent, StartResponse(h, a) PROVE ContainmentTypeOK'
  BY <1>1, ContainmentAssumption DEF StartResponse, Response
<1>2. CASE CountViolation(h)
  <2>1. response[h].agent \in Agent
    BY DEF Response
  <2>2. Bump(violations[response[h].agent]) \in 0 .. MaxViolations
    BY <2>1, BumpWithin
  <2>3. response' \in [Handler -> Response]
    BY <1>2, <2>2 DEF CountViolation, Response
  <2>4. violations' \in [Agent -> 0 .. MaxViolations]
    BY <1>2, <2>2 DEF CountViolation
  <2> QED BY <1>2, <2>3, <2>4 DEF CountViolation
<1>3. CASE CommitViolation(h)
  <2>1. response[h].agent \in Agent
    BY DEF Response
  <2>2. Bump(violations[response[h].agent]) \in 0 .. MaxViolations
    BY <2>1, BumpWithin
  <2> QED BY <1>3, <2>2 DEF CommitViolation, Response
<1>4. CASE UpsertIncident(h)
  BY <1>4 DEF UpsertIncident, Response
<1>5. CASE QuarantineRow(h)
  BY <1>5 DEF QuarantineRow, Response
<1>6. CASE QuarantineContainment(h)
  <2>1. response[h].agent \in Agent
    BY DEF Response
  <2>2. [mode |-> "quarantine", allowed |-> {}] \in Row
    BY DEF Row, Mode
  <2>3. containments' \in [Agent -> [Slot -> Row]]
    BY <1>6, <2>1, <2>2, RowsTyped DEF QuarantineContainment
  <2>4. response' \in [Handler -> Response]
    BY <1>6 DEF QuarantineContainment, Response
  <2> QED BY <1>6, <2>3, <2>4 DEF QuarantineContainment
<1>7. CASE FinishResponse(h)
  BY <1>7, RestTyped DEF FinishResponse
<1>8. CASE AbortResponse(h)
  <2>1. response[h].agent \in Agent
    BY DEF Response
  <2> QED BY <1>8, <2>1, RestTyped DEF AbortResponse
<1> QED
  BY <1>1, <1>2, <1>3, <1>4, <1>5, <1>6, <1>7, <1>8 DEF ResponseStep

(* The administrators' requests.                                            *)
LEMMA TypeAdmin ==
  ASSUME ContainmentTypeOK, NEW x \in Admin,
         AdminStart(x) \/ AdminStep(x) \/ AbortAdmin(x)
  PROVE  ContainmentTypeOK'
<1> USE DEF ContainmentTypeOK, storeVars
<1>1. \A a \in Agent, step \in {"revoking", "registering", "auditing"} :
        Request(x, step, a) \in [Admin -> AdminRequest]
  BY DEF Request, AdminRequest
<1>2. admin[x].agent \in Agent
  BY DEF AdminRequest
<1>3. ASSUME NEW a \in Agent, RevokeAgent(x, a) PROVE ContainmentTypeOK'
  BY <1>1, <1>3 DEF RevokeAgent
<1>4. ASSUME NEW a \in Agent, ReleaseAgent(x, a) PROVE ContainmentTypeOK'
  <2>1. containments' \in [Agent -> [Slot -> Row]]
    <3>1. Free \in Row
      BY DEF Free, Row
    <3>2. \A S : Ended(a, S) \in [Agent -> [Slot -> Row]]
      BY <3>1, RowsTyped
    <3> QED BY <1>4, <3>2 DEF ReleaseAgent
  <2>2. admin' \in [Admin -> AdminRequest]
    BY <1>1, <1>4 DEF ReleaseAgent
  <2>3. quarantined' \in [Agent -> BOOLEAN] /\ excused' \subseteq Agent
    BY <1>4 DEF ReleaseAgent
  <2> QED BY <1>4, <2>1, <2>2, <2>3 DEF ReleaseAgent
<1>5. ASSUME NEW a \in Agent, NEW i \in Slot, ReleaseContainment(x, a, i)
      PROVE  ContainmentTypeOK'
  <2>1. containments' \in [Agent -> [Slot -> Row]]
    <3>1. Free \in Row
      BY DEF Free, Row
    <3> QED BY <1>5, <3>1, RowsTyped DEF ReleaseContainment
  <2> QED BY <1>1, <1>5, <2>1 DEF ReleaseContainment
<1>6. ASSUME NEW a \in Agent, NEW mode \in Mode, NEW allowed \in SUBSET Tool,
             ContainAgent(x, a, mode, allowed)
      PROVE  ContainmentTypeOK'
  <2>1. [mode |-> mode, allowed |-> allowed] \in Row
    BY DEF Row
  <2>2. containments' \in [Agent -> [Slot -> Row]]
    BY <1>6, <2>1, RowsTyped DEF ContainAgent
  <2>3. admin' \in [Admin -> AdminRequest]
    BY <1>1, <1>6 DEF ContainAgent
  <2> QED BY <1>6, <2>2, <2>3 DEF ContainAgent
<1>7. ASSUME NEW t \in Token, IssueToken(x, t) PROVE ContainmentTypeOK'
  <2>1. TokenOwner[t] \in Agent
    BY ContainmentAssumption
  <2>2. admin' \in [Admin -> AdminRequest]
    <3>1. \/ admin' = Request(x, "auditing", TokenOwner[t])
          \/ admin' = Request(x, "registering", TokenOwner[t])
      BY <1>7 DEF IssueToken
    <3>2. /\ Request(x, "auditing", TokenOwner[t]) \in [Admin -> AdminRequest]
          /\ Request(x, "registering", TokenOwner[t])
               \in [Admin -> AdminRequest]
      BY <1>1, <2>1
    <3> QED BY <3>1, <3>2
  <2>3. tokens' \in [Token -> TokenState]
    BY <1>7 DEF IssueToken, Registered, TokenState
  <2>4. agentStatus' \in [Agent -> {"active", "revoked"}]
    BY <1>7, <2>1 DEF IssueToken, Registered
  <2> QED BY <1>7, <2>2, <2>3, <2>4 DEF IssueToken
<1>8. ASSUME NEW S \in SUBSET Token, Revoked(x, S)
      PROVE  /\ tokens' \in [Token -> TokenState]
             /\ agentStatus' \in [Agent -> {"active", "revoked"}]
             /\ dead' \subseteq Token
             /\ admin' \in [Admin -> AdminRequest]
  <2>1. tokens' \in [Token -> TokenState]
    BY <1>8 DEF Revoked, TokenState
  <2>2. agentStatus' \in [Agent -> {"active", "revoked"}]
    BY <1>2, <1>8 DEF Revoked
  <2>3. dead' \subseteq Token
    BY <1>8 DEF Revoked, Unusable
  <2>4. admin' \in [Admin -> AdminRequest]
    <3>1. [admin[x] EXCEPT !.step = "auditing", !.swept = {}] \in AdminRequest
      BY DEF AdminRequest
    <3>2. admin' = [admin EXCEPT ![x] = [admin[x] EXCEPT !.step = "auditing",
                                                         !.swept = {}]]
      BY <1>8 DEF Revoked
    <3> QED BY <3>1, <3>2
  <2> QED BY <2>1, <2>2, <2>3, <2>4
<1>9. CASE RevokeTokens(x)
  <2>1. LiveTokens(admin[x].agent) \in SUBSET Token
    BY DEF LiveTokens
  <2>2. CASE Revoked(x, LiveTokens(admin[x].agent))
    BY <1>8, <1>9, <2>1, <2>2 DEF RevokeTokens
  <2>3. CASE ~Revoked(x, LiveTokens(admin[x].agent))
    <3>1. admin' \in [Admin -> AdminRequest]
      <4>1. [admin[x] EXCEPT !.step = "sweeping",
                             !.swept = LiveTokens(admin[x].agent)] \in AdminRequest
        BY <2>1 DEF AdminRequest
      <4>2. admin' = [admin EXCEPT ![x] =
                        [admin[x] EXCEPT !.step = "sweeping",
                                         !.swept = LiveTokens(admin[x].agent)]]
        BY <1>9, <2>3 DEF RevokeTokens
      <4> QED BY <4>1, <4>2
    <3> QED BY <1>9, <2>3, <3>1 DEF RevokeTokens
  <2> QED BY <2>2, <2>3
<1>10. CASE CommitRevocation(x)
  <2>1. admin[x].swept \in SUBSET Token
    BY DEF AdminRequest
  <2>2. Revoked(x, admin[x].swept)
    BY <1>10 DEF CommitRevocation
  <2> QED BY <1>8, <1>10, <2>1, <2>2 DEF CommitRevocation
<1>11. CASE CommitRegistration(x)
  BY <1>2, <1>11 DEF CommitRegistration, Registered, TokenState, AdminRequest
<1>12. CASE WriteAudit(x)
  BY <1>12, RestTyped DEF WriteAudit
<1>13. CASE AbortAdmin(x)
  <2>1. tokens' \in [Token -> TokenState]
    BY <1>13 DEF AbortAdmin, TokenState
  <2> QED BY <1>13, <2>1, RestTyped DEF AbortAdmin
<1> QED
  BY <1>3, <1>4, <1>5, <1>6, <1>7, <1>9, <1>10, <1>11, <1>12, <1>13
     DEF AdminStart, AdminStep

(* Time.                                                                    *)
LEMMA TypeExpiry ==
  ASSUME ContainmentTypeOK, Expiry
  PROVE  ContainmentTypeOK'
<1> USE DEF ContainmentTypeOK
<1>1. ASSUME NEW a \in Agent, AgeViolation(a) PROVE ContainmentTypeOK'
  BY <1>1, ContainmentAssumption DEF AgeViolation
<1>2. ASSUME NEW a \in Agent, NEW i \in Slot, ExpireContainment(a, i)
      PROVE  ContainmentTypeOK'
  <2>1. Free \in Row
    BY DEF Free, Row
  <2>2. containments' \in [Agent -> [Slot -> Row]]
    BY <1>2, <2>1, RowsTyped DEF ExpireContainment
  <2> QED BY <1>2, <2>2 DEF ExpireContainment
<1>3. ASSUME NEW t \in Token, ExpireToken(t) PROVE ContainmentTypeOK'
  BY <1>3 DEF ExpireToken, TokenState
<1> QED BY <1>1, <1>2, <1>3 DEF Expiry

LEMMA TypeStep ==
  ContainmentTypeOK /\ [ContainmentNext]_containmentVars => ContainmentTypeOK'
<1> SUFFICES ASSUME ContainmentTypeOK, [ContainmentNext]_containmentVars
             PROVE  ContainmentTypeOK'
  OBVIOUS
<1>1. CASE ContainmentNext
  BY <1>1, TypeResponse, TypeAdmin, TypeExpiry DEF ContainmentNext
<1>2. CASE UNCHANGED containmentVars
  BY <1>2 DEF containmentVars, storeVars, ContainmentTypeOK
<1> QED BY <1>1, <1>2

(* Every table and every thread keeps to the values the code uses.          *)
THEOREM ContainmentTyped == ContainmentSpec => []ContainmentTypeOK
  BY TypeInit, TypeStep, PTL DEF ContainmentSpec

-----------------------------------------------------------------------------
(* The inductive invariant.                                                 *)

(* A response past its quarantine row left the row in place, unless the     *)
(* agent was released since.                                                *)
RowWritten ==
  \A h \in Handler :
    /\ response[h].step \in {"containing", "done"}
    /\ response[h].count >= Threshold
    /\ response[h].agent \notin excused
    => quarantined[response[h].agent]

(* Whoever reaches the quarantine row has written the incident.             *)
IncidentFirst ==
  /\ QuarantineHasIncident
  /\ \A h \in Handler :
       response[h].step \in {"quarantining", "containing", "done"}
         => response[h].agent \in incidents

(* The thread whose denial counted the threshold knows it, and is still on  *)
(* its way to the quarantine row.                                           *)
OnItsWay(o, a) ==
  /\ o.step \in {"counted", "recording", "quarantining"}
  /\ o.agent = a
  /\ o.count >= Threshold

BurstInHand(a) == \E h \in Handler : OnItsWay(response[h], a)

(* A denial that has been counted and is not committed is missed by the     *)
(* others: as long as nobody counted the threshold, these and the committed *)
(* ones are fewer than a burst.                                             *)
Missed(o, a) == o.step = "counted" /\ o.agent = a

AllMissed(a) == {h \in Handler : Missed(response[h], a)}

NoBurst(a) == violations[a] + Cardinality(AllMissed(a)) < Threshold + Unseen

Accounted(a) == quarantined[a] \/ BurstInHand(a) \/ NoBurst(a)

BurstAccounted ==
  /\ Serialized => \A h \in Handler : response[h].step # "counted"
  /\ \A a \in Agent \ excused : Accounted(a)

(* On SQLite no live token belongs to a revoked agent, and what a           *)
(* revocation ended stays marked.                                           *)
TokensAccounted ==
  Serialized =>
    /\ \A x \in Admin : admin[x].step # "sweeping"
    /\ \A t \in Token :
         /\ tokens[t] = "live" => agentStatus[TokenOwner[t]] = "active"
         /\ t \in dead => tokens[t] = "revoked"

ContainmentInv ==
  /\ ContainmentTypeOK
  /\ RowWritten
  /\ IncidentFirst
  /\ BurstAccounted
  /\ TokensAccounted

(* At most as many denials are missed as there are threads.                 *)
LEMMA UnseenIs ==
  /\ Unseen \in Nat
  /\ Serialized => Unseen = 0
  /\ ~Serialized => Cardinality(Handler) = Unseen + 1
<1>1. Cardinality(Handler) \in Nat /\ Cardinality(Handler) # 0
  BY ContainmentAssumption, FS_CardinalityType, FS_EmptySet
<1>2. PICK n \in Nat : n = Cardinality(Handler) /\ n # 0
  BY <1>1
<1> QED
  BY <1>2 DEF Unseen

LEMMA FewMissed ==
  ASSUME NEW S \in SUBSET Handler
  PROVE  /\ IsFiniteSet(S) /\ Cardinality(S) \in Nat
         /\ \A T \in SUBSET S : /\ Cardinality(T) \in Nat
                                /\ Cardinality(T) <= Cardinality(S)
         /\ ~Serialized => Cardinality(S) <= Unseen + 1
<1>1. IsFiniteSet(S) /\ Cardinality(S) <= Cardinality(Handler)
  BY ContainmentAssumption, FS_Subset
<1>2. Cardinality(S) \in Nat /\ \A T \in SUBSET S : /\ Cardinality(T) \in Nat
                                                   /\ Cardinality(T) <= Cardinality(S)
  BY <1>1, FS_Subset, FS_CardinalityType
<1> QED
  BY <1>1, <1>2, UnseenIs

LEMMA InvInit == ContainmentInit => ContainmentInv
<1> SUFFICES ASSUME ContainmentInit PROVE ContainmentInv
  OBVIOUS
<1>1. ContainmentTypeOK
  BY TypeInit
<1>2. RowWritten /\ IncidentFirst
  BY DEF ContainmentInit, RowWritten, IncidentFirst, QuarantineHasIncident,
         NoResponse
<1>3. BurstAccounted
  <2>1. \A h \in Handler : response[h].step = "idle"
    BY DEF ContainmentInit, NoResponse
  <2>2. ASSUME NEW a \in Agent PROVE NoBurst(a)
    <3>1. AllMissed(a) = {} /\ violations[a] = 0
      BY <2>1 DEF ContainmentInit, AllMissed, Missed
    <3> QED BY <3>1, UnseenIs, FS_EmptySet, ContainmentAssumption DEF NoBurst
  <2> QED BY <2>1, <2>2 DEF BurstAccounted, Accounted
<1>4. TokensAccounted
  BY ContainmentAssumption DEF ContainmentInit, TokensAccounted, NoRequest
<1> QED BY <1>1, <1>2, <1>3, <1>4 DEF ContainmentInv

(* An administrator leaves the gateway's response, the violations and the   *)
(* incidents alone, and the quarantine rows too unless it releases an agent.*)
LEMMA AdminFrame ==
  ASSUME NEW x \in Admin, AdminStart(x) \/ AdminStep(x) \/ AbortAdmin(x)
  PROVE  /\ UNCHANGED <<violations, incidents, response>>
         /\ \/ UNCHANGED <<quarantined, excused>>
            \/ \E a \in Agent : ReleaseAgent(x, a)
<1>1. CASE AdminStart(x)
  BY <1>1 DEF AdminStart, RevokeAgent, ReleaseAgent, ReleaseContainment,
              ContainAgent, IssueToken, storeVars
<1>2. CASE AdminStep(x)
  BY <1>2 DEF AdminStep, RevokeTokens, CommitRevocation, CommitRegistration,
              WriteAudit, storeVars
<1>3. CASE AbortAdmin(x)
  BY <1>3 DEF AbortAdmin
<1> QED BY <1>1, <1>2, <1>3

(* Time only takes violations away, as far as the response goes.            *)
LEMMA ExpiryFrame ==
  ASSUME ContainmentTypeOK, Expiry
  PROVE  /\ UNCHANGED <<quarantined, incidents, response, excused, admin,
                        agentStatus, dead>>
         /\ \A a \in Agent : violations'[a] <= violations[a]
         /\ \A t \in Token : tokens'[t] # tokens[t] => tokens[t] = "live"
                                                    /\ tokens'[t] = "expired"
<1> USE DEF ContainmentTypeOK
<1>1. \A a \in Agent : violations[a] \in Nat
  BY ContainmentAssumption
<1>2. ASSUME NEW a \in Agent, AgeViolation(a)
      PROVE  \A b \in Agent : violations'[b] <= violations[b]
  BY <1>1, <1>2 DEF AgeViolation
<1>3. CASE \E a \in Agent : AgeViolation(a)
  BY <1>2, <1>3 DEF AgeViolation
<1>4. CASE \E a \in Agent, i \in Slot : ExpireContainment(a, i)
  BY <1>1, <1>4 DEF ExpireContainment
<1>5. CASE \E t \in Token : ExpireToken(t)
  BY <1>1, <1>5 DEF ExpireToken
<1> QED BY <1>3, <1>4, <1>5 DEF Expiry

LEMMA RowWrittenStep ==
  ASSUME ContainmentTypeOK, RowWritten, [ContainmentNext]_containmentVars
  PROVE  RowWritten'
<1> USE DEF ContainmentTypeOK, Response, RowWritten, storeVars
<1>1. ASSUME NEW h \in Handler, NEW a \in Agent, StartResponse(h, a)
      PROVE  RowWritten'
  BY <1>1 DEF StartResponse
<1>2. ASSUME NEW h \in Handler,
             CountViolation(h) \/ CommitViolation(h)
      PROVE  RowWritten'
  BY <1>2 DEF CountViolation, CommitViolation
<1>3. ASSUME NEW h \in Handler, UpsertIncident(h) PROVE RowWritten'
  <2>1. response[h].count >= Threshold => response'[h].step = "quarantining"
    BY <1>3 DEF UpsertIncident
  <2> QED BY <1>3, <2>1 DEF UpsertIncident
<1>4. ASSUME NEW h \in Handler, QuarantineRow(h) PROVE RowWritten'
  BY <1>4 DEF QuarantineRow
<1>5. ASSUME NEW h \in Handler, QuarantineContainment(h) PROVE RowWritten'
  BY <1>5 DEF QuarantineContainment
<1>6. ASSUME NEW h \in Handler, FinishResponse(h) \/ AbortResponse(h)
      PROVE  RowWritten'
  <2>1. /\ response' = [response EXCEPT ![h] = NoResponse]
        /\ UNCHANGED quarantined /\ excused \subseteq excused'
    BY <1>6 DEF FinishResponse, AbortResponse
  <2>2. NoResponse.step = "idle"
    BY DEF NoResponse
  <2> QED BY <2>1, <2>2
<1>7. ASSUME NEW x \in Admin, AdminStart(x) \/ AdminStep(x) \/ AbortAdmin(x)
      PROVE  RowWritten'
  <2>1. ASSUME NEW a \in Agent, ReleaseAgent(x, a) PROVE RowWritten'
    <3>1. /\ quarantined' = [quarantined EXCEPT ![a] = FALSE]
          /\ excused' = excused \cup {a}
          /\ UNCHANGED response
      BY <2>1 DEF ReleaseAgent
    <3> QED BY <3>1
  <2> QED BY <1>7, <2>1, AdminFrame
<1>8. CASE Expiry
  BY <1>8, ExpiryFrame
<1>9. CASE UNCHANGED containmentVars
  BY <1>9 DEF containmentVars
<1> QED
  BY <1>1, <1>2, <1>3, <1>4, <1>5, <1>6, <1>7, <1>8, <1>9
     DEF ContainmentNext, ResponseStep

LEMMA IncidentFirstStep ==
  ASSUME ContainmentTypeOK, IncidentFirst, [ContainmentNext]_containmentVars
  PROVE  IncidentFirst'
<1> USE DEF ContainmentTypeOK, Response, IncidentFirst, QuarantineHasIncident,
            storeVars
<1>1. ASSUME NEW h \in Handler, NEW a \in Agent, StartResponse(h, a)
      PROVE  IncidentFirst'
  BY <1>1 DEF StartResponse
<1>2. ASSUME NEW h \in Handler,
             CountViolation(h) \/ CommitViolation(h)
      PROVE  IncidentFirst'
  <2>1. CASE CountViolation(h)
    BY <2>1 DEF CountViolation
  <2>2. CASE CommitViolation(h)
    BY <2>2 DEF CommitViolation
  <2> QED BY <1>2, <2>1, <2>2
<1>3. ASSUME NEW h \in Handler, UpsertIncident(h) PROVE IncidentFirst'
  BY <1>3 DEF UpsertIncident
<1>4. ASSUME NEW h \in Handler, QuarantineRow(h) PROVE IncidentFirst'
  BY <1>4 DEF QuarantineRow
<1>5. ASSUME NEW h \in Handler, QuarantineContainment(h) PROVE IncidentFirst'
  BY <1>5 DEF QuarantineContainment
<1>6. ASSUME NEW h \in Handler, FinishResponse(h) \/ AbortResponse(h)
      PROVE  IncidentFirst'
  <2>1. /\ response' = [response EXCEPT ![h] = NoResponse]
        /\ UNCHANGED <<quarantined, incidents>>
    BY <1>6 DEF FinishResponse, AbortResponse
  <2> QED BY <2>1 DEF NoResponse
<1>7. ASSUME NEW x \in Admin, AdminStart(x) \/ AdminStep(x) \/ AbortAdmin(x)
      PROVE  IncidentFirst'
  <2>1. ASSUME NEW a \in Agent, ReleaseAgent(x, a) PROVE IncidentFirst'
    BY <2>1 DEF ReleaseAgent
  <2> QED BY <1>7, <2>1, AdminFrame
<1>8. CASE Expiry
  BY <1>8, ExpiryFrame
<1>9. CASE UNCHANGED containmentVars
  BY <1>9 DEF containmentVars
<1> QED
  BY <1>1, <1>2, <1>3, <1>4, <1>5, <1>6, <1>7, <1>8, <1>9
     DEF ContainmentNext, ResponseStep

(* A step that lets no burst slip.                                          *)
LEMMA StaysAccounted ==
  ASSUME ContainmentTypeOK, ContainmentTypeOK', NEW a \in Agent, Accounted(a),
         quarantined[a] => quarantined'[a],
         violations'[a] <= violations[a],
         \A h \in Handler :
           /\ OnItsWay(response[h], a) => OnItsWay(response'[h], a) \/ quarantined'[a]
           /\ Missed(response'[h], a) => Missed(response[h], a)
  PROVE  Accounted(a)'
<1>1. CASE quarantined[a]
  BY <1>1 DEF Accounted
<1>2. CASE BurstInHand(a)
  BY <1>2 DEF Accounted, BurstInHand
<1>3. CASE NoBurst(a)
  <2>1. PICK S, T : S = AllMissed(a) /\ T = AllMissed(a)'
    OBVIOUS
  <2>2. T \subseteq S /\ S \subseteq Handler
    BY <2>1 DEF AllMissed
  <2>3. /\ Cardinality(S) \in Nat /\ Cardinality(T) \in Nat
        /\ Cardinality(T) <= Cardinality(S)
    BY <2>2, FewMissed
  <2>4. PICK v, w \in Nat : v = violations[a] /\ w = violations'[a]
    BY ContainmentAssumption DEF ContainmentTypeOK
  <2>5. v + Cardinality(S) < Threshold + Unseen /\ w <= v
    BY <1>3, <2>1, <2>4 DEF NoBurst
  <2>6. w + Cardinality(T) < Threshold + Unseen
    BY <2>3, <2>5, UnseenIs, ContainmentAssumption
  <2> QED BY <2>1, <2>4, <2>6 DEF Accounted, NoBurst
<1> QED
  BY <1>1, <1>2, <1>3 DEF Accounted

LEMMA BurstAccountedStep ==
  ASSUME ContainmentTypeOK, BurstAccounted, [ContainmentNext]_containmentVars
  PROVE  BurstAccounted'
<1>0. ContainmentTypeOK'
  BY TypeStep
<1> USE DEF ContainmentTypeOK, Response, storeVars
<1>1. \A a \in Agent : violations[a] \in Nat /\ violations'[a] \in Nat
  BY <1>0, ContainmentAssumption
(* The thread g moves, and all is as it was but for g.                      *)
<1>2. ASSUME NEW g \in Handler, \A h \in Handler \ {g} : response'[h] = response[h],
             response'[g].step = "counted" => response[g].step = "counted",
             NEW a \in Agent \ excused,
             quarantined[a] => quarantined'[a], violations'[a] <= violations[a],
             OnItsWay(response[g], a) => OnItsWay(response'[g], a) \/ quarantined'[a],
             Missed(response'[g], a) => Missed(response[g], a)
      PROVE  Accounted(a)'
  <2>1. \A h \in Handler :
           /\ OnItsWay(response[h], a) => OnItsWay(response'[h], a) \/ quarantined'[a]
           /\ Missed(response'[h], a) => Missed(response[h], a)
    BY <1>2
  <2>2. Accounted(a)
    BY <1>2 DEF BurstAccounted
  <2> QED BY <1>0, <1>2, <2>1, <2>2, StaysAccounted
<1>3. ASSUME NEW g \in Handler, NEW b \in Agent, StartResponse(g, b)
      PROVE  BurstAccounted'
  <2>1. /\ \A h \in Handler \ {g} : response'[h] = response[h]
        /\ response[g].step = "idle" /\ response'[g].step = "counting"
        /\ UNCHANGED <<violations, quarantined, excused>>
    BY <1>3 DEF StartResponse
  <2>2. \A a \in Agent \ excused : Accounted(a)'
    <3> SUFFICES ASSUME NEW a \in Agent \ excused
                 PROVE  Accounted(a)'
      OBVIOUS
    <3>1. violations'[a] <= violations[a] /\ (quarantined[a] => quarantined'[a])
      BY <1>1, <2>1
    <3>2. OnItsWay(response[g], a) => OnItsWay(response'[g], a) \/ quarantined'[a]
      BY <2>1 DEF OnItsWay
    <3>3. /\ response'[g].step = "counted" => response[g].step = "counted"
          /\ Missed(response'[g], a) => Missed(response[g], a)
      BY <2>1 DEF Missed
    <3>4. \A h \in Handler \ {g} : response'[h] = response[h]
      BY <2>1
    <3> HIDE DEF ContainmentTypeOK
    <3> QED BY <1>2, <3>1, <3>2, <3>3, <3>4
  <2> QED BY <2>1, <2>2 DEF BurstAccounted
<1>4. ASSUME NEW g \in Handler, CountViolation(g) PROVE BurstAccounted'
  <2>1. PICK b \in Agent, n \in 0..MaxViolations :
          b = response[g].agent /\ n = Bump(violations[b])
    BY BumpWithin
  <2>2. /\ response[g].step = "counting" /\ UNCHANGED <<quarantined, excused>>
        /\ \A h \in Handler \ {g} : response'[h] = response[h]
        /\ response'[g].agent = b /\ response'[g].count = n
        /\ Serialized => /\ violations' = [violations EXCEPT ![b] = n]
                         /\ response'[g].step = "recording"
        /\ ~Serialized => violations' = violations /\ response'[g].step = "counted"
    BY <1>4, <2>1 DEF CountViolation
  <2>3. ASSUME NEW a \in Agent \ excused, a # b PROVE Accounted(a)'
    <3>1. violations'[a] = violations[a]
      BY <2>2, <2>3
    <3>2. \A h \in Handler :
            /\ OnItsWay(response[h], a) => OnItsWay(response'[h], a)
            /\ Missed(response'[h], a) => Missed(response[h], a)
      BY <2>2, <2>3 DEF OnItsWay, Missed
    <3>3. Accounted(a) /\ quarantined' = quarantined /\ violations'[a] <= violations[a]
      BY <1>1, <2>2, <3>1 DEF BurstAccounted
    <3> HIDE DEF ContainmentTypeOK
    <3> QED BY <1>0, <3>2, <3>3, StaysAccounted
  <2>4. Accounted(b)'
    <3>1. CASE n >= Threshold
      <4>1. OnItsWay(response'[g], b)
        BY <2>2, <3>1 DEF OnItsWay
      <4> QED BY <4>1 DEF Accounted, BurstInHand
    <3>2. CASE n < Threshold /\ Serialized
      <4>0. \A h \in Handler : response'[h].step # "counted"
        BY <2>2, <3>2 DEF BurstAccounted
      <4>1. AllMissed(b)' = {}
        BY <4>0 DEF AllMissed, Missed
      <4>2. violations'[b] = n
        BY <2>2, <3>2
      <4> QED BY <3>2, <4>1, <4>2, UnseenIs, FS_EmptySet, ContainmentAssumption
              DEF Accounted, NoBurst
    <3>3. CASE n < Threshold /\ ~Serialized
      <4>1. PICK v \in 0..MaxViolations : v = violations[b]
        OBVIOUS
      <4>2. n = v + 1
        BY <2>1, <3>3, <4>1, BumpWithin, ContainmentAssumption
      <4>3. PICK S \in SUBSET Handler : S = AllMissed(b)'
        BY DEF AllMissed
      <4>4. Cardinality(S) \in Nat /\ Cardinality(S) <= Unseen + 1
        BY <3>3, FewMissed
      <4>5. v + Cardinality(S) < Threshold + Unseen
        BY <3>3, <4>2, <4>4, UnseenIs, ContainmentAssumption
      <4>6. violations'[b] = v
        BY <2>2, <3>3, <4>1
      <4> QED BY <4>3, <4>5, <4>6 DEF Accounted, NoBurst
    <3> QED BY <3>1, <3>2, <3>3, ContainmentAssumption
  <2>5. Serialized => \A h \in Handler : response'[h].step # "counted"
    BY <2>2 DEF BurstAccounted
  <2> QED BY <2>2, <2>3, <2>4, <2>5 DEF BurstAccounted
<1>5. ASSUME NEW g \in Handler, CommitViolation(g) PROVE BurstAccounted'
  <2>1. PICK b \in Agent, n \in 0..MaxViolations :
          b = response[g].agent /\ n = Bump(violations[b])
    BY BumpWithin
  <2>2. /\ response[g].step = "counted" /\ UNCHANGED <<quarantined, excused>>
        /\ \A h \in Handler \ {g} : response'[h] = response[h]
        /\ response'[g].agent = b /\ response'[g].count = response[g].count
        /\ response'[g].step = "recording"
        /\ violations' = [violations EXCEPT ![b] = n]
    BY <1>5, <2>1 DEF CommitViolation
  <2>3. ~Serialized
    BY <2>2 DEF BurstAccounted
  <2>4. \A h \in Handler, a \in Agent :
          OnItsWay(response[h], a) => OnItsWay(response'[h], a)
    BY <2>1, <2>2 DEF OnItsWay
  <2>5. ASSUME NEW a \in Agent \ excused, a # b PROVE Accounted(a)'
    <3>1. violations'[a] = violations[a]
      BY <2>2, <2>5
    <3>2. \A h \in Handler : Missed(response'[h], a) => Missed(response[h], a)
      BY <2>2, <2>5 DEF Missed
    <3>3. Accounted(a) /\ quarantined' = quarantined /\ violations'[a] <= violations[a]
      BY <1>1, <2>2, <3>1 DEF BurstAccounted
    <3> HIDE DEF ContainmentTypeOK
    <3> QED BY <1>0, <2>4, <3>2, <3>3, StaysAccounted
  <2>6. ASSUME Accounted(b) PROVE Accounted(b)'
    <3>1. CASE quarantined[b] \/ BurstInHand(b)
      BY <2>2, <2>4, <3>1 DEF Accounted, BurstInHand
    <3>2. CASE NoBurst(b)
      <4>0. AllMissed(b) \subseteq Handler /\ Missed(response[g], b)
        BY <2>1, <2>2 DEF AllMissed, Missed
      <4>1. PICK S \in SUBSET Handler : S = AllMissed(b) /\ g \in S
        BY <4>0 DEF AllMissed
      <4>2. AllMissed(b)' = S \ {g}
        BY <2>1, <2>2, <4>1 DEF AllMissed, Missed
      <4>3. IsFiniteSet(S) /\ Cardinality(S \ {g}) = Cardinality(S) - 1
            /\ Cardinality(S) \in Nat
        BY <4>1, FewMissed, FS_RemoveElement
      <4>4. PICK v \in 0..MaxViolations : v = violations[b]
        OBVIOUS
      <4>5. n <= v + 1 /\ violations'[b] = n
        BY <2>1, <2>2, <4>4, ContainmentAssumption DEF Bump
      <4>6. v + Cardinality(S) < Threshold + Unseen
        BY <3>2, <4>1, <4>4 DEF NoBurst
      <4>7. n + Cardinality(S \ {g}) < Threshold + Unseen
        BY <4>3, <4>5, <4>6, UnseenIs, ContainmentAssumption
      <4> QED BY <4>2, <4>5, <4>7 DEF Accounted, NoBurst
    <3> QED BY <2>6, <3>1, <3>2 DEF Accounted
  <2> QED BY <2>2, <2>3, <2>5, <2>6 DEF BurstAccounted
<1>6. ASSUME NEW g \in Handler, UpsertIncident(g) PROVE BurstAccounted'
  <2>1. /\ \A h \in Handler \ {g} : response'[h] = response[h]
        /\ response'[g].agent = response[g].agent
        /\ response'[g].count = response[g].count
        /\ response'[g].step # "counted" /\ response[g].step = "recording"
        /\ response[g].count >= Threshold => response'[g].step = "quarantining"
        /\ UNCHANGED <<violations, quarantined, excused>>
    BY <1>6 DEF UpsertIncident
  <2>2. \A a \in Agent \ excused : Accounted(a)'
    <3> SUFFICES ASSUME NEW a \in Agent \ excused
                 PROVE  Accounted(a)'
      OBVIOUS
    <3>1. violations'[a] <= violations[a] /\ (quarantined[a] => quarantined'[a])
      BY <1>1, <2>1
    <3>2. OnItsWay(response[g], a) => OnItsWay(response'[g], a) \/ quarantined'[a]
      BY <2>1 DEF OnItsWay
    <3>3. /\ response'[g].step = "counted" => response[g].step = "counted"
          /\ Missed(response'[g], a) => Missed(response[g], a)
      BY <2>1 DEF Missed
    <3>4. \A h \in Handler \ {g} : response'[h] = response[h]
      BY <2>1
    <3> HIDE DEF ContainmentTypeOK
    <3> QED BY <1>2, <3>1, <3>2, <3>3, <3>4
  <2> QED BY <2>1, <2>2 DEF BurstAccounted
<1>7. ASSUME NEW g \in Handler, QuarantineRow(g) PROVE BurstAccounted'
  <2>1. /\ \A h \in Handler \ {g} : response'[h] = response[h]
        /\ response'[g].step = "containing" /\ UNCHANGED violations
        /\ quarantined' = [quarantined EXCEPT ![response[g].agent] = TRUE]
        /\ excused' = excused \ {response[g].agent}
        /\ response[g].agent \in Agent
    BY <1>7 DEF QuarantineRow
  <2>3. \A a \in Agent \ excused : a # response[g].agent => Accounted(a)'
    <3> SUFFICES ASSUME NEW a \in Agent \ excused, a # response[g].agent
                 PROVE  Accounted(a)'
      OBVIOUS
    <3>1. violations'[a] <= violations[a] /\ (quarantined[a] => quarantined'[a])
      BY <1>1, <2>1
    <3>2. OnItsWay(response[g], a) => OnItsWay(response'[g], a) \/ quarantined'[a]
      BY <2>1 DEF OnItsWay
    <3>3. /\ response'[g].step = "counted" => response[g].step = "counted"
          /\ Missed(response'[g], a) => Missed(response[g], a)
      BY <2>1 DEF Missed
    <3>4. \A h \in Handler \ {g} : response'[h] = response[h]
      BY <2>1
    <3> HIDE DEF ContainmentTypeOK
    <3> QED BY <1>2, <3>1, <3>2, <3>3, <3>4
  <2>4. \A a \in Agent \ excused' :
          a = response[g].agent \/ (a # response[g].agent /\ a \in Agent \ excused)
    BY <2>1
  <2>5. \A h \in Handler : response'[h].step = "counted" => response[h].step = "counted"
    BY <2>1
  <2>6. quarantined'[response[g].agent]
    BY <2>1
  <2>7. \A a \in Agent \ excused' : Accounted(a)'
    BY <2>3, <2>4, <2>6 DEF Accounted
  <2> QED BY <2>5, <2>7 DEF BurstAccounted
<1>8. ASSUME NEW g \in Handler, QuarantineContainment(g) \/ FinishResponse(g)
      PROVE  BurstAccounted'
  <2>1. /\ \A h \in Handler \ {g} : response'[h] = response[h]
        /\ response[g].step \in {"containing", "done"}
        /\ response'[g].step \in {"done", "idle"}
        /\ UNCHANGED <<violations, quarantined, excused>>
    BY <1>8 DEF QuarantineContainment, FinishResponse, NoResponse
  <2>2. \A a \in Agent \ excused : Accounted(a)'
    <3> SUFFICES ASSUME NEW a \in Agent \ excused
                 PROVE  Accounted(a)'
      OBVIOUS
    <3>1. violations'[a] <= violations[a] /\ (quarantined[a] => quarantined'[a])
      BY <1>1, <2>1
    <3>2. OnItsWay(response[g], a) => OnItsWay(response'[g], a) \/ quarantined'[a]
      BY <2>1 DEF OnItsWay
    <3>3. /\ response'[g].step = "counted" => response[g].step = "counted"
          /\ Missed(response'[g], a) => Missed(response[g], a)
      BY <2>1 DEF Missed
    <3>4. \A h \in Handler \ {g} : response'[h] = response[h]
      BY <2>1
    <3> HIDE DEF ContainmentTypeOK
    <3> QED BY <1>2, <3>1, <3>2, <3>3, <3>4
  <2> QED BY <2>1, <2>2 DEF BurstAccounted
<1>9. ASSUME NEW g \in Handler, AbortResponse(g) PROVE BurstAccounted'
  <2>1. /\ \A h \in Handler \ {g} : response'[h] = response[h]
        /\ response'[g].step = "idle"
        /\ excused' = excused \cup {response[g].agent}
        /\ UNCHANGED <<violations, quarantined>>
    BY <1>9 DEF AbortResponse, NoResponse
  <2>2. \A a \in Agent \ excused : a # response[g].agent => Accounted(a)'
    <3> SUFFICES ASSUME NEW a \in Agent \ excused, a # response[g].agent
                 PROVE  Accounted(a)'
      OBVIOUS
    <3>1. violations'[a] <= violations[a] /\ (quarantined[a] => quarantined'[a])
      BY <1>1, <2>1
    <3>2. OnItsWay(response[g], a) => OnItsWay(response'[g], a) \/ quarantined'[a]
      BY <2>1 DEF OnItsWay
    <3>3. /\ response'[g].step = "counted" => response[g].step = "counted"
          /\ Missed(response'[g], a) => Missed(response[g], a)
      BY <2>1 DEF Missed
    <3>4. \A h \in Handler \ {g} : response'[h] = response[h]
      BY <2>1
    <3> HIDE DEF ContainmentTypeOK
    <3> QED BY <1>2, <3>1, <3>2, <3>3, <3>4
  <2> QED BY <2>1, <2>2 DEF BurstAccounted
(* Nobody moves.                                                            *)
<1>10. ASSUME UNCHANGED response, excused \subseteq excused',
              \A a \in Agent \ excused' : /\ quarantined'[a] = quarantined[a]
                                          /\ violations'[a] <= violations[a]
       PROVE  BurstAccounted'
  <2>1. \A a \in Agent \ excused' : Accounted(a)'
    BY <1>0, <1>10, StaysAccounted DEF BurstAccounted
  <2> QED BY <1>10, <2>1 DEF BurstAccounted
<1>11. ASSUME NEW x \in Admin, AdminStart(x) \/ AdminStep(x) \/ AbortAdmin(x)
      PROVE  BurstAccounted'
  <2>1. ASSUME NEW b \in Agent, ReleaseAgent(x, b) PROVE BurstAccounted'
    <3>1. /\ UNCHANGED <<response, violations>> /\ excused' = excused \cup {b}
          /\ quarantined' = [quarantined EXCEPT ![b] = FALSE]
      BY <2>1 DEF ReleaseAgent
    <3>2. \A a \in Agent \ {b} : quarantined'[a] = quarantined[a]
      BY <3>1
    <3>3. \A a \in Agent : violations'[a] <= violations[a]
      BY <1>1, <3>1
    <3> QED BY <1>10, <3>1, <3>2, <3>3
  <2>2. CASE UNCHANGED <<quarantined, excused, violations, response>>
    BY <1>1, <1>10, <2>2
  <2> QED BY <1>11, <2>1, <2>2, AdminFrame
<1>12. CASE Expiry
  BY <1>10, <1>12, ExpiryFrame
<1>13. CASE UNCHANGED containmentVars
  BY <1>1, <1>10, <1>13 DEF containmentVars
<1> QED
  BY <1>3, <1>4, <1>5, <1>6, <1>7, <1>8, <1>9, <1>11, <1>12, <1>13
     DEF ContainmentNext, ResponseStep

LEMMA TokensAccountedStep ==
  ASSUME ContainmentTypeOK, TokensAccounted, [ContainmentNext]_containmentVars
  PROVE  TokensAccounted'
<1> SUFFICES ASSUME Serialized PROVE TokensAccounted'
  BY DEF TokensAccounted
<1> USE DEF ContainmentTypeOK, TokensAccounted, storeVars
<1>1. ASSUME NEW h \in Handler,
             \/ \E a \in Agent : StartResponse(h, a)
             \/ ResponseStep(h) \/ FinishResponse(h) \/ AbortResponse(h)
      PROVE  UNCHANGED <<tokens, agentStatus, admin, dead>>
  BY <1>1 DEF StartResponse, ResponseStep, FinishResponse, AbortResponse,
              CountViolation, CommitViolation, UpsertIncident, QuarantineRow,
              QuarantineContainment
<1>2. ASSUME NEW x \in Admin, NEW a \in Agent,
             \/ RevokeAgent(x, a) \/ ReleaseAgent(x, a)
             \/ \E i \in Slot : ReleaseContainment(x, a, i)
             \/ \E mode \in Mode, allowed \in SUBSET Tool :
                  ContainAgent(x, a, mode, allowed)
      PROVE  TokensAccounted'
  <2>1. UNCHANGED <<tokens, agentStatus, dead>>
    BY <1>2 DEF RevokeAgent, ReleaseAgent, ReleaseContainment, ContainAgent
  <2>2. \/ UNCHANGED admin
        \/ \E step \in {"revoking", "auditing"} : admin' = Request(x, step, a)
    <3>1. CASE RevokeAgent(x, a)
      BY <3>1 DEF RevokeAgent
    <3>2. CASE ReleaseAgent(x, a)
      BY <3>2 DEF ReleaseAgent
    <3>3. CASE \E i \in Slot : ReleaseContainment(x, a, i)
      BY <3>3 DEF ReleaseContainment
    <3>4. CASE \E mode \in Mode, allowed \in SUBSET Tool :
                 ContainAgent(x, a, mode, allowed)
      BY <3>4 DEF ContainAgent
    <3> QED BY <1>2, <3>1, <3>2, <3>3, <3>4
  <2>3. \A y \in Admin : admin'[y].step # "sweeping"
    <3>1. ASSUME NEW step \in {"revoking", "auditing"},
                 admin' = Request(x, step, a)
          PROVE  \A y \in Admin : admin'[y].step # "sweeping"
      BY <3>1 DEF Request
    <3> QED BY <2>2, <3>1
  <2> QED BY <2>1, <2>3
<1>3. ASSUME NEW x \in Admin, NEW t \in Token, IssueToken(x, t)
      PROVE  TokensAccounted'
  <2>1. /\ tokens[t] = "unissued"
        /\ tokens' = [u \in Token |-> IF u \in {t} THEN "live" ELSE tokens[u]]
        /\ agentStatus' = [agentStatus EXCEPT ![TokenOwner[t]] = "active"]
        /\ UNCHANGED dead
    BY <1>3 DEF IssueToken, Registered
  <2>2. \A y \in Admin : admin'[y].step # "sweeping"
    BY <1>3 DEF IssueToken, Request
  <2>3. TokenOwner \in [Token -> Agent]
    BY ContainmentAssumption
  <2> QED BY <2>1, <2>2, <2>3
<1>4. ASSUME NEW x \in Admin, RevokeTokens(x) PROVE TokensAccounted'
  <2> DEFINE b == admin[x].agent
  <2>1. /\ tokens' = [u \in Token |-> IF u \in LiveTokens(b) THEN "revoked"
                                                            ELSE tokens[u]]
        /\ agentStatus' = [agentStatus EXCEPT ![b] = "revoked"]
        /\ dead' = dead \cup Unusable(tokens', agentStatus')
        /\ admin' = [admin EXCEPT ![x].step = "auditing", ![x].swept = {}]
    BY <1>4 DEF RevokeTokens, Revoked
  <2>2. \A y \in Admin : admin'[y].step # "sweeping"
    BY <2>1
  <2>3. TokenOwner \in [Token -> Agent]
    BY ContainmentAssumption
  <2>4. \A u \in Token : tokens'[u] = "live"
                           => tokens[u] = "live" /\ TokenOwner[u] # b
    BY <2>1 DEF LiveTokens
  <2>5. \A u \in Token : tokens'[u] = "live"
                           => agentStatus'[TokenOwner[u]] = "active"
    <3> HIDE DEF b
    <3> QED BY <2>1, <2>3, <2>4
  <2>6. \A u \in Token : u \in dead => tokens'[u] = "revoked"
    BY <2>1
  <2>7. \A u \in Unusable(tokens', agentStatus') : tokens'[u] = "revoked"
    BY <2>5 DEF Unusable
  <2> QED BY <2>1, <2>2, <2>5, <2>6, <2>7
<1>5. ASSUME NEW x \in Admin, CommitRevocation(x) PROVE TokensAccounted'
  BY <1>5 DEF CommitRevocation
<1>6. ASSUME NEW x \in Admin, CommitRegistration(x) PROVE TokensAccounted'
  <2> DEFINE b == admin[x].agent
             S == {t \in Token : TokenOwner[t] = b
                                 /\ tokens[t] = "registering"}
  <2>1. /\ tokens' = [u \in Token |-> IF u \in S THEN "live" ELSE tokens[u]]
        /\ agentStatus' = [agentStatus EXCEPT ![b] = "active"]
        /\ admin' = [admin EXCEPT ![x].step = "auditing"]
        /\ UNCHANGED dead
    BY <1>6 DEF CommitRegistration, Registered
  <2>2. \A y \in Admin : admin'[y].step # "sweeping"
    BY <2>1
  <2>3. TokenOwner \in [Token -> Agent] /\ b \in Agent
    BY ContainmentAssumption DEF AdminRequest
  <2>4. \A u \in Token : u \in S => TokenOwner[u] = b
                                    /\ tokens[u] = "registering"
    OBVIOUS
  <2> HIDE DEF b, S
  <2> QED BY <2>1, <2>2, <2>3, <2>4
<1>7. ASSUME NEW x \in Admin, WriteAudit(x) PROVE TokensAccounted'
  BY <1>7 DEF WriteAudit, NoRequest
<1>8. ASSUME NEW x \in Admin, AbortAdmin(x) PROVE TokensAccounted'
  <2>1. /\ \A t \in Token : \/ tokens'[t] = tokens[t]
                            \/ /\ tokens[t] = "registering"
                               /\ tokens'[t] = "unissued"
        /\ UNCHANGED <<agentStatus, dead>>
        /\ admin' = [admin EXCEPT ![x] = NoRequest]
    BY <1>8 DEF AbortAdmin
  <2>2. \A y \in Admin : admin'[y].step # "sweeping"
    BY <2>1 DEF NoRequest
  <2> QED BY <2>1, <2>2
<1>9. CASE Expiry
  BY <1>9, ExpiryFrame
<1>10. CASE UNCHANGED containmentVars
  BY <1>10 DEF containmentVars
<1> QED
  BY <1>1, <1>2, <1>3, <1>4, <1>5, <1>6, <1>7, <1>8, <1>9, <1>10
     DEF ContainmentNext, AdminStart, AdminStep

LEMMA InvStep ==
  ContainmentInv /\ [ContainmentNext]_containmentVars => ContainmentInv'
<1> SUFFICES ASSUME ContainmentInv, [ContainmentNext]_containmentVars
             PROVE  ContainmentInv'
  OBVIOUS
<1>1. ContainmentTypeOK'
  BY TypeStep DEF ContainmentInv
<1>2. RowWritten'
  BY RowWrittenStep DEF ContainmentInv
<1>3. IncidentFirst'
  BY IncidentFirstStep DEF ContainmentInv
<1>4. BurstAccounted'
  BY BurstAccountedStep DEF ContainmentInv
<1>5. TokensAccounted'
  BY TokensAccountedStep DEF ContainmentInv
<1> QED BY <1>1, <1>2, <1>3, <1>4, <1>5 DEF ContainmentInv

LEMMA ContainmentInvariant == ContainmentSpec => []ContainmentInv
  BY InvInit, InvStep, PTL DEF ContainmentSpec

-----------------------------------------------------------------------------
(* The properties.                                                          *)

(* A quarantine row never stands without an incident.                       *)
THEOREM IncidentExplains == ContainmentSpec => []QuarantineHasIncident
<1>1. ContainmentInv => QuarantineHasIncident
  BY DEF ContainmentInv, IncidentFirst
<1> QED BY <1>1, ContainmentInvariant, PTL

(* A denial that counted the threshold leaves its agent blocked, and a      *)
(* burst is never overlooked, on either database, however many threads deny *)
(* at once and whatever administrators do short of releasing the agent.     *)
THEOREM BurstQuarantines == ContainmentSpec => []ThresholdQuarantines
<1>1. ContainmentInv => ThresholdQuarantines
  <2> SUFFICES ASSUME ContainmentInv, NEW a \in Agent \ excused,
                      \/ violations[a] >= Threshold + Unseen /\ ~InResponse(a)
                      \/ \E h \in Handler : /\ response[h].step = "done"
                                            /\ response[h].agent = a
                                            /\ response[h].count >= Threshold
               PROVE  quarantined[a]
    BY DEF ThresholdQuarantines, IsQuarantined
  <2>1. CASE violations[a] >= Threshold + Unseen /\ ~InResponse(a)
    <3>1. Accounted(a)
      BY DEF ContainmentInv, BurstAccounted
    <3>2. ~BurstInHand(a)
      BY <2>1 DEF BurstInHand, OnItsWay, InResponse
    <3>3. AllMissed(a) = {}
      BY <2>1 DEF AllMissed, Missed, InResponse
    <3>4. violations[a] \in Nat
      BY ContainmentAssumption DEF ContainmentInv, ContainmentTypeOK
    <3>5. ~NoBurst(a)
      BY <2>1, <3>3, <3>4, UnseenIs, FS_EmptySet, ContainmentAssumption DEF NoBurst
    <3> QED BY <3>1, <3>2, <3>5 DEF Accounted
  <2>2. ASSUME NEW h \in Handler, response[h].step = "done", response[h].agent = a,
               response[h].count >= Threshold
        PROVE  quarantined[a]
    BY <2>2 DEF ContainmentInv, RowWritten
  <2> QED BY <2>1, <2>2
<1> QED BY <1>1, ContainmentInvariant, PTL

(* On SQLite a revoked token stays unusable, whatever is issued, released   *)
(* or revoked afterwards and in whatever order.                             *)
THEOREM RevocationLasts ==
  ASSUME Serialized
  PROVE  ContainmentSpec => []RevocationIsFinal
<1>1. ContainmentInv => RevocationIsFinal
  BY DEF ContainmentInv, TokensAccounted, RevocationIsFinal, TokenActive,
         ContainmentTypeOK
<1> QED BY <1>1, ContainmentInvariant, PTL

=============================================================================
