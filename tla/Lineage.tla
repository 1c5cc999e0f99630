------------------------------- MODULE Lineage -------------------------------
(***************************************************************************)
(* Provenance tokens and the server's memory of taint, for one agent of    *)
(* one tenant (every row is keyed by both).  The agent attests inputs,     *)
(* derives values, calls tools and is given tokens; the server keeps one   *)
(* lineage row for each attested input and each tool output, and joins the *)
(* rows of the trace, and the recent rows of other traces, into what every *)
(* later call is judged by, whatever tokens the call shows or leaves out.  *)
(*                                                                         *)
(* Taint is a set of atoms.  A label is an atom; "classification is at     *)
(* least confidential" and "trust is at most mixed" are atoms too, so that *)
(* highest_classification, least_trusted and the union of labels are all   *)
(* the union of sets.                                                      *)
(*                                                                         *)
(* An action is one transaction of the store, one connector call, or one   *)
(* request that has a single transaction.                                  *)
(***************************************************************************)
EXTENDS Naturals, FiniteSets

CONSTANTS
  Atom,           (* what data can be tainted with                          *)
  Label,          (* the atoms that are labels                              *)
  Declassifiable, (* the labels an administrator may remove                 *)
  Injection,      (* the label of content that looks like instructions      *)
  Trace, NoTrace, (* trace ids, and a token that names none                 *)
  Leaf,           (* leaf pointers of structured values                     *)
  Content,        (* content digests                                        *)
  Tool,
  Blocked,        (* tool -> the atoms it must not be reached by            *)
  FieldBlocked,   (* tool -> those that its governed field must not carry   *)
  Thread,         (* threads that serve calls                               *)
  Inputs,         (* bound: the attestations that are asked for             *)
  NoCall,
  MaxTokens,      (* bound: tokens the agent keeps                          *)
  MaxReferences   (* bound: tokens and bindings of one call or derivation   *)

ASSUME LineageAssumption ==
  /\ Label \subseteq Atom
  /\ Declassifiable \subseteq Label
  /\ Injection \subseteq Label
  /\ NoTrace \notin Trace
  /\ Blocked \in [Tool -> SUBSET Atom]
  /\ FieldBlocked \in [Tool -> SUBSET Atom]

VARIABLES
  tokens,     (* the signed tokens the agent holds                          *)
  lineage,    (* `lineage_events`: which trace has a row with which atom    *)
  recent,     (* the same for the rows inside the cross-trace window        *)
  pc,         (* where each thread is                                       *)
  call,       (* the call it serves                                         *)
  seen,       (* what its last reading of the contexts came to              *)
  out,        (* taint of the tool output it has in hand                    *)
  given,      (* ghost: traces and atoms of what the agent has been given   *)
  knew        (* ghost: what of that it had when the thread's request came  *)

lineageVars ==
  <<tokens, lineage, recent, pc, call, seen, out, given, knew>>

Token == [trace: Trace \cup {NoTrace},
          digest: Content,
          taint: SUBSET Atom,
          fields: UNION {[ls -> SUBSET Atom] : ls \in SUBSET Leaf}]

ASSUME InputsAssumption == Inputs \subseteq Token

(* Bindings of a call: a leaf of a token is the source of an argument.      *)
Bindings(toks) == {b \in toks \X Leaf : b[2] \in DOMAIN b[1].fields}

Call == {c \in [tool: Tool, trace: Trace, whole: SUBSET Token,
                bound: SUBSET (Token \X Leaf)] :
           c.bound \subseteq Bindings({b[1] : b \in c.bound})}

TopTaint(toks) == UNION {tok.taint : tok \in toks}
LeafTaint(bs) == UNION {b[1].fields[b[2]] : b \in bs}
Digests(toks) == {tok.digest : tok \in toks}

TaintOf(r, rows) == {a \in Atom : <<r, a>> \in rows}
TaintBut(r, rows) == {a \in Atom : \E s \in Trace \ {r} : <<s, a>> \in rows}

(* A signed token may be shown in its own trace only.                       *)
TraceMatches(tok, r) == tok.trace \in {r, NoTrace}

-----------------------------------------------------------------------------
(* The agent may throw away what it receives, or keep it, perhaps in the    *)
(* place of others.                                                         *)
Receive(tok) ==
  \/ UNCHANGED tokens
  \/ \E others \in SUBSET tokens :
       /\ Cardinality(others \cup {tok}) =< MaxTokens
       /\ tokens' = others \cup {tok}

RecordRow(r, taint) ==
  /\ lineage' = lineage \cup ({r} \X taint)
  /\ recent' = recent \cup ({r} \X taint)

Give(r, taint) == given' = given \cup ({r} \X taint)

threadVars == <<pc, call, seen, out, knew>>

(* Mutant: the row is written without asking for the trace.                 *)
AttestedAnywhere(tok) ==
  /\ RecordRow(tok.trace, tok.taint)
  /\ Receive(tok)
  /\ Give(tok.trace, tok.taint)
  /\ UNCHANGED threadVars

(* An attestation is signed, its row is written when it names a trace, and  *)
(* it is answered, unless the audit after the row fails.                    *)
Attested(tok) ==
  /\ \/ /\ tok.trace \in Trace
        /\ RecordRow(tok.trace, tok.taint)
        /\ \/ Receive(tok) /\ Give(tok.trace, tok.taint)
           \/ UNCHANGED <<tokens, given>>
     \/ /\ tok.trace = NoTrace
        /\ Receive(tok)
        /\ UNCHANGED <<lineage, recent, given>>
  /\ UNCHANGED threadVars

Attest ==
  \E tok \in Inputs : DOMAIN tok.fields = {} /\ Attested(tok)

(* An override adds labels to a leaf, and replaces its trust and its        *)
(* classification by any others.  The top level does not take part.         *)
AttestStructured ==
  \E tok \in Inputs :
    /\ DOMAIN tok.fields # {}
    /\ \A l \in DOMAIN tok.fields : tok.taint \cap Label \subseteq tok.fields[l]
    /\ Attested(tok)

(* A value made from leaves of tokens: each of its leaves carries what its  *)
(* sources carry (all the inputs when a model wrote it), and the top level  *)
(* what all leaves carry, and the signal of the text that came about.       *)
DerivedToken(r, d, fields, signals) ==
  [trace |-> r, digest |-> d, fields |-> fields,
   taint |-> signals \cup UNION {fields[l] : l \in DOMAIN fields}]

DeriveStructured ==
  \E r \in Trace, d \in Content, signals \in SUBSET Injection,
     inputs \in (SUBSET Bindings(tokens)) \ {{}}, leaves \in (SUBSET Leaf) \ {{}} :
  \E recipe \in [leaves -> (SUBSET inputs) \ {{}}] :
    /\ Cardinality(inputs) =< MaxReferences
    /\ \A b \in inputs : TraceMatches(b[1], r)
    /\ Attested(DerivedToken(r, d, [l \in leaves |-> LeafTaint(recipe[l])], signals))

(* Labels are removed from some leaves; the labels of the top level are     *)
(* computed again from the leaves; trust and classification stay.           *)
Declassified(tok, paths, remove) ==
  LET fields == [l \in DOMAIN tok.fields |->
                   IF l \in paths THEN tok.fields[l] \ remove ELSE tok.fields[l]]
  IN  [tok EXCEPT !.fields = fields,
                  !.taint = (@ \ Label) \cup
                    (Label \cap UNION {fields[l] : l \in DOMAIN fields})]

(* No row is written, and none changes.  `remove` may be empty, because the *)
(* label removed need not be an Atom.                                       *)
DeclassifyLabels ==
  \E tok \in tokens, remove \in SUBSET Declassifiable :
  \E paths \in (SUBSET DOMAIN tok.fields) \ {{}} :
    /\ Receive(Declassified(tok, paths, remove))
    /\ UNCHANGED <<lineage, recent, threadVars, given>>

-----------------------------------------------------------------------------
(* A call.  Its contexts are read for the decision and once more for the    *)
(* output, each time the tokens and the trace first, then, in a transaction *)
(* of its own, the recent rows of the other traces.                         *)

OfTrace(c) == TopTaint(c.whole) \cup TaintOf(c.trace, lineage)

(* Mutant: the rows of the trace itself are taken, not those of the others. *)
OfSameTrace(c) == TaintOf(c.trace, recent)

OfWindow(c) == TaintBut(c.trace, recent)

Accept(t, c) ==
  /\ pc' = [pc EXCEPT ![t] = "evaluate"]
  /\ call' = [call EXCEPT ![t] = c]
  /\ seen' = [seen EXCEPT ![t] = OfTrace(c)]
  /\ knew' = [knew EXCEPT ![t] = {g \in given : g[1] = c.trace \/ g \in recent}]
  /\ UNCHANGED <<tokens, lineage, recent, out, given>>

(* A call comes in, or an approved one is executed, which is judged again   *)
(* from the beginning.                                                      *)
Submit(t) ==
  /\ pc[t] = "idle"
  /\ \E tool \in Tool, r \in Trace, whole \in SUBSET tokens,
        bound \in SUBSET Bindings(tokens) :
       /\ Cardinality(whole) + Cardinality(bound) =< MaxReferences
       /\ \A tok \in whole \cup {b[1] : b \in bound} : TraceMatches(tok, r)
       /\ Accept(t, [tool |-> tool, trace |-> r, whole |-> whole, bound |-> bound])

(* The governed field is judged by its bindings where it has any.  Its rule  *)
(* denies: one with action require_approval, which only holds the call, is   *)
(* in PolicyEngine.                                                         *)
Refused(c, context) ==
  \/ context \cap Blocked[c.tool] # {}
  \/ (IF c.bound = {} THEN context ELSE LeafTaint(c.bound))
       \cap FieldBlocked[c.tool] # {}

Stop(t) ==
  /\ pc' = [pc EXCEPT ![t] = "idle"]
  /\ call' = [call EXCEPT ![t] = NoCall]
  /\ seen' = [seen EXCEPT ![t] = {}]
  /\ out' = [out EXCEPT ![t] = {}]
  /\ knew' = [knew EXCEPT ![t] = {}]

Deny(t) ==
  /\ pc[t] = "evaluate"
  /\ Refused(call[t], seen[t] \cup OfWindow(call[t]))
  /\ Stop(t)
  /\ UNCHANGED <<tokens, lineage, recent, given>>

(* What is not refused may still be denied or held for an approval (Abort). *)
Allow(t) ==
  /\ pc[t] = "evaluate"
  /\ ~Refused(call[t], seen[t] \cup OfWindow(call[t]))
  /\ pc' = [pc EXCEPT ![t] = "run"]
  /\ UNCHANGED <<tokens, lineage, recent, call, seen, out, given, knew>>

(* Denied for another reason, held for an approval, an expired token, a     *)
(* failing connector, a crash: the thread may end anywhere without output.  *)
Abort(t) ==
  /\ pc[t] # "idle"
  /\ Stop(t)
  /\ UNCHANGED <<tokens, lineage, recent, given>>

(* The connector answers with data and says what taints it.                 *)
RunConnector(t) ==
  /\ pc[t] = "run"
  /\ \E reveals \in SUBSET Atom : out' = [out EXCEPT ![t] = reveals]
  /\ seen' = [seen EXCEPT ![t] = OfTrace(call[t])]
  /\ pc' = [pc EXCEPT ![t] = "derive"]
  /\ UNCHANGED <<tokens, lineage, recent, call, given, knew>>

(* The tokens of bindings that join the parents: one for each digest that   *)
(* no token shown as a whole has.                                           *)
FieldParents(c) ==
  {E \in SUBSET {b[1] : b \in c.bound} :
     /\ Digests(E) = Digests({b[1] : b \in c.bound}) \ Digests(c.whole)
     /\ \A x, y \in E : x.digest = y.digest => x = y}

(* Mutant: the output inherits from the tokens of its call alone.           *)
DerivedFromTokens(t, context) ==
  \E parents \in FieldParents(call[t]) :
    out' = [out EXCEPT ![t] = @ \cup TopTaint(call[t].whole \cup parents)]

Derived(t, context) ==
  \E parents \in FieldParents(call[t]) :
    out' = [out EXCEPT ![t] = @ \cup context \cup TopTaint(parents)]

DeriveToolOutput(t) ==
  /\ pc[t] = "derive"
  /\ Derived(t, seen[t] \cup OfWindow(call[t]))
  /\ pc' = [pc EXCEPT ![t] = "record"]
  /\ UNCHANGED <<tokens, lineage, recent, call, seen, given, knew>>

RecordLineage(t) ==
  /\ pc[t] = "record"
  /\ RecordRow(call[t].trace, out[t])
  /\ pc' = [pc EXCEPT ![t] = "answer"]
  /\ UNCHANGED <<tokens, call, seen, out, given, knew>>

Answer(t) ==
  /\ pc[t] = "answer"
  /\ \E d \in Content, leaves \in (SUBSET Leaf) \ {{}} :
       Receive([trace |-> call[t].trace, digest |-> d, taint |-> out[t],
                fields |-> [l \in leaves |-> out[t]]])
  /\ Give(call[t].trace, out[t])
  /\ Stop(t)
  /\ UNCHANGED <<lineage, recent>>

-----------------------------------------------------------------------------
(* The last row of a trace with the atom leaves the window.                 *)
AgeLineage(r, a) ==
  /\ <<r, a>> \in recent
  /\ recent' = recent \ {<<r, a>>}
  /\ knew' = [t \in Thread |->
                IF pc[t] # "idle" /\ call[t].trace = r THEN knew[t]
                ELSE knew[t] \ {<<r, a>>}]
  /\ UNCHANGED <<tokens, lineage, pc, call, seen, out, given>>

LineageInit ==
  /\ tokens = {} /\ lineage = {} /\ recent = {} /\ given = {}
  /\ pc = [t \in Thread |-> "idle"]
  /\ call = [t \in Thread |-> NoCall]
  /\ seen = [t \in Thread |-> {}]
  /\ out = [t \in Thread |-> {}]
  /\ knew = [t \in Thread |-> {}]

Serve(t) ==
  \/ Submit(t) \/ Deny(t) \/ Allow(t) \/ Abort(t)
  \/ RunConnector(t) \/ DeriveToolOutput(t) \/ RecordLineage(t) \/ Answer(t)

LineageNext ==
  \/ Attest \/ AttestStructured \/ DeriveStructured \/ DeclassifyLabels
  \/ \E t \in Thread : Serve(t)
  \/ \E r \in Trace, a \in Atom : AgeLineage(r, a)

LineageSpec == LineageInit /\ [][LineageNext]_lineageVars

-----------------------------------------------------------------------------
(* Tokens, rows and contexts hold atoms of known traces, a call in hand is  *)
(* a call, and a thread at rest keeps nothing (provenance.py, service.py).  *)
LineageTypeOK ==
  /\ tokens \subseteq Token
  /\ recent \subseteq lineage /\ lineage \subseteq Trace \X Atom
  /\ given \subseteq Trace \X Atom
  /\ pc \in [Thread -> {"idle", "evaluate", "run", "derive", "record", "answer"}]
  /\ DOMAIN call = Thread
  /\ seen \in [Thread -> SUBSET Atom]
  /\ out \in [Thread -> SUBSET Atom]
  /\ knew \in [Thread -> SUBSET (Trace \X Atom)]
  /\ \A t \in Thread : pc[t] # "idle" => call[t] \in Call

(* A tool never runs on a call that was made, or whose approved execution   *)
(* was begun, after the agent was given data the tool must not be reached   *)
(* by: in the same trace ever, in another trace as long as it is inside the *)
(* window; whatever tokens the call leaves out, whatever was declassified,  *)
(* and whatever runs at the same time, if no field rule asks a reviewer     *)
(* before the tool's own rule is reached (service.py:562-605; invariants 19    *)
(* and 29 of SECURITY.md).                                                  *)
SinkRefusesTaint ==
  \A t \in Thread : pc[t] = "run" =>
    \A g \in knew[t] : g[2] \notin Blocked[call[t].tool]

(* An output that is about to be answered carries the top-level taint of    *)
(* the tokens its call showed and all that the agent had been given in the  *)
(* trace, or recently elsewhere, although the contexts are read a second    *)
(* time after the connector ran (service.py:491-502, provenance.py:160-169; *)
(* invariant 18 of SECURITY.md).                                            *)
OutputCoversContext ==
  \A t \in Thread : pc[t] \in {"record", "answer"} =>
    TopTaint(call[t].whole) \cup {g[2] : g \in knew[t]} \subseteq out[t]
=============================================================================
