---------------------------- MODULE LineageProofs ----------------------------
(***************************************************************************)
(* What holds of Lineage for every set of atoms, traces, tools, threads    *)
(* and tokens.                                                             *)
(***************************************************************************)
EXTENDS Lineage, TLAPS

-----------------------------------------------------------------------------
(* Taint of tokens and of rows.                                             *)

(* What a token is made of.                                                 *)
LEMMA TokenParts ==
  ASSUME NEW tok \in Token
  PROVE  /\ tok.trace \in Trace \cup {NoTrace} /\ tok.digest \in Content
         /\ tok.taint \subseteq Atom
         /\ DOMAIN tok.fields \in SUBSET Leaf
         /\ tok.fields \in [DOMAIN tok.fields -> SUBSET Atom]
<1>1. PICK ls \in SUBSET Leaf : tok.fields \in [ls -> SUBSET Atom]
  BY DEF Token
<1> QED
  BY <1>1 DEF Token

(* What makes a token.                                                      *)
LEMMA TokenMade ==
  ASSUME NEW r \in Trace \cup {NoTrace}, NEW d \in Content,
         NEW taint \in SUBSET Atom,
         NEW ls \in SUBSET Leaf, NEW fields \in [ls -> SUBSET Atom]
  PROVE  [trace |-> r, digest |-> d, taint |-> taint, fields |-> fields] \in Token
  BY DEF Token

(* The taint of tokens, of leaves and of rows consists of atoms.            *)
LEMMA TaintTyped ==
  ASSUME NEW toks \in SUBSET Token
  PROVE  /\ TopTaint(toks) \subseteq Atom
         /\ \A bs \in SUBSET Bindings(toks) : LeafTaint(bs) \subseteq Atom
         /\ \A r, rows : /\ TaintOf(r, rows) \subseteq Atom
                         /\ TaintBut(r, rows) \subseteq Atom
<1>1. TopTaint(toks) \subseteq Atom
  BY TokenParts DEF TopTaint
<1>2. ASSUME NEW bs \in SUBSET Bindings(toks)
      PROVE  LeafTaint(bs) \subseteq Atom
  <2>1. \A b \in bs : b[1] \in Token /\ b[2] \in DOMAIN b[1].fields
    BY DEF Bindings
  <2>2. \A b \in bs : b[1].fields[b[2]] \subseteq Atom
    BY <2>1, TokenParts
  <2> QED BY <2>2 DEF LeafTaint
<1> QED
  BY <1>1, <1>2 DEF TaintOf, TaintBut

(* A call shows tokens, whole and by their leaves.                          *)
LEMMA CallParts ==
  ASSUME NEW c \in Call
  PROVE  /\ c.tool \in Tool /\ c.trace \in Trace
         /\ c.whole \in SUBSET Token
         /\ \A E \in FieldParents(c) : E \in SUBSET Token
         /\ TopTaint(c.whole) \subseteq Atom
  BY TaintTyped DEF Call, FieldParents

-----------------------------------------------------------------------------
(* Types.                                                                   *)

LEMMA LineageTypeInit == LineageInit => LineageTypeOK
  BY DEF LineageInit, LineageTypeOK

(* The rows that a step may write, and what it may give, are of its trace.  *)
LEMMA RowsWritten ==
  ASSUME LineageTypeOK, NEW r \in Trace, NEW taint \in SUBSET Atom
  PROVE  /\ RecordRow(r, taint) =>
              recent' \subseteq lineage' /\ lineage' \subseteq Trace \X Atom
         /\ Give(r, taint) => given' \subseteq Trace \X Atom
  BY DEF RecordRow, Give, LineageTypeOK

(* A signed token is of its type whatever is done with it.                  *)
LEMMA AttestedTyped ==
  ASSUME LineageTypeOK, NEW tok \in Token, Attested(tok)
  PROVE  LineageTypeOK'
<1>1. tokens' \subseteq Token
  BY DEF Attested, Receive, LineageTypeOK
<1>2. /\ recent' \subseteq lineage' /\ lineage' \subseteq Trace \X Atom
      /\ given' \subseteq Trace \X Atom
  <2>1. tok.taint \in SUBSET Atom
    BY TokenParts
  <2>2. CASE tok.trace \in Trace /\ RecordRow(tok.trace, tok.taint)
    BY <2>1, <2>2, RowsWritten DEF Attested, LineageTypeOK
  <2>3. CASE UNCHANGED <<lineage, recent, given>>
    BY <2>3 DEF LineageTypeOK
  <2> QED BY <2>2, <2>3 DEF Attested
<1> QED
  BY <1>1, <1>2 DEF Attested, LineageTypeOK, threadVars

(* A derived value is a token.                                              *)
LEMMA DerivedTyped == LineageTypeOK /\ DeriveStructured => LineageTypeOK'
<1> SUFFICES ASSUME LineageTypeOK, DeriveStructured PROVE LineageTypeOK'
  OBVIOUS
<1>1. PICK r \in Trace, d \in Content, signals \in SUBSET Injection,
           inputs \in (SUBSET Bindings(tokens)) \ {{}},
           leaves \in (SUBSET Leaf) \ {{}} :
        \E recipe \in [leaves -> (SUBSET inputs) \ {{}}] :
          Attested(DerivedToken(r, d, [l \in leaves |-> LeafTaint(recipe[l])], signals))
  BY DEF DeriveStructured
<1>2. PICK recipe \in [leaves -> (SUBSET inputs) \ {{}}] :
        Attested(DerivedToken(r, d, [l \in leaves |-> LeafTaint(recipe[l])], signals))
  BY <1>1
<1> DEFINE fields == [l \in leaves |-> LeafTaint(recipe[l])]
<1>3. \A l \in leaves : LeafTaint(recipe[l]) \subseteq Atom
  BY TaintTyped DEF LineageTypeOK
<1>4. fields \in [leaves -> SUBSET Atom]
  BY <1>3
<1>5. Attested(DerivedToken(r, d, fields, signals))
  BY <1>2
<1> HIDE DEF fields
<1>6. signals \cup UNION {fields[l] : l \in DOMAIN fields} \in SUBSET Atom
  BY <1>4, LineageAssumption
<1>7. DerivedToken(r, d, fields, signals) \in Token
  BY <1>4, <1>6 DEF DerivedToken, Token
<1> QED
  BY <1>5, <1>7, AttestedTyped

(* So is a declassified one.                                                *)
LEMMA DeclassifiedIsToken ==
  ASSUME NEW tok \in Token, NEW paths, NEW remove
  PROVE  Declassified(tok, paths, remove) \in Token
<1> DEFINE fields == [l \in DOMAIN tok.fields |->
                        IF l \in paths THEN tok.fields[l] \ remove
                                       ELSE tok.fields[l]]
           taint == (tok.taint \ Label) \cup
                      (Label \cap UNION {fields[l] : l \in DOMAIN fields})
<1>1. /\ tok.taint \in SUBSET Atom /\ DOMAIN tok.fields \in SUBSET Leaf
      /\ tok.fields \in [DOMAIN tok.fields -> SUBSET Atom]
  BY TokenParts
<1>2. fields \in [DOMAIN tok.fields -> SUBSET Atom]
  BY <1>1
<1>3. taint \in SUBSET Atom
  BY <1>1, LineageAssumption
<1>4. Declassified(tok, paths, remove) = [tok EXCEPT !.fields = fields, !.taint = taint]
  BY DEF Declassified, Token
<1> HIDE DEF fields, taint
<1> QED
  BY <1>1, <1>2, <1>3, <1>4 DEF Token

LEMMA DeclassifiedTyped == LineageTypeOK /\ DeclassifyLabels => LineageTypeOK'
<1> SUFFICES ASSUME LineageTypeOK, DeclassifyLabels PROVE LineageTypeOK'
  OBVIOUS
<1>1. PICK tok \in tokens, remove \in SUBSET Declassifiable :
        \E paths \in (SUBSET DOMAIN tok.fields) \ {{}} :
          Receive(Declassified(tok, paths, remove))
  BY DEF DeclassifyLabels
<1>2. tok \in Token
  BY DEF LineageTypeOK
<1>3. PICK paths : Receive(Declassified(tok, paths, remove))
  BY <1>1
<1>4. Declassified(tok, paths, remove) \in Token
  BY <1>2, DeclassifiedIsToken
<1>5. tokens' \subseteq Token
  BY <1>3, <1>4 DEF Receive, LineageTypeOK
<1> QED
  BY <1>5 DEF DeclassifyLabels, LineageTypeOK, threadVars

(* What is submitted is a call.                                             *)
LEMMA SubmittedCall ==
  ASSUME LineageTypeOK, NEW t \in Thread, Submit(t)
  PROVE  \E c \in Call : Accept(t, c)
<1>1. PICK tool \in Tool, r \in Trace, whole \in SUBSET tokens,
           bound \in SUBSET Bindings(tokens) :
        Accept(t, [tool |-> tool, trace |-> r, whole |-> whole, bound |-> bound])
  BY DEF Submit
<1>2. bound \subseteq Token \X Leaf /\ bound \subseteq Bindings({b[1] : b \in bound})
  BY DEF Bindings, LineageTypeOK
<1>3. [tool |-> tool, trace |-> r, whole |-> whole, bound |-> bound] \in Call
  BY <1>2 DEF Call, LineageTypeOK
<1> QED
  BY <1>1, <1>3

(* The steps of a thread.                                                   *)
LEMMA ServeTyped ==
  ASSUME LineageTypeOK, NEW t \in Thread, Serve(t)
  PROVE  LineageTypeOK'
<1> USE DEF LineageTypeOK
<1>1. ASSUME Stop(t), UNCHANGED <<tokens, lineage, recent, given>>
      PROVE  LineageTypeOK'
  BY <1>1 DEF Stop
<1>2. CASE Submit(t)
  <2>1. PICK c \in Call : Accept(t, c)
    BY <1>2, SubmittedCall
  <2>2. OfTrace(c) \in SUBSET Atom
    BY <2>1, CallParts, TaintTyped DEF OfTrace
  <2> QED BY <2>1, <2>2 DEF Accept
<1>3. CASE Deny(t) \/ Abort(t)
  BY <1>1, <1>3 DEF Deny, Abort
<1>4. CASE Allow(t)
  BY <1>4 DEF Allow
<1>5. CASE RunConnector(t)
  <2>1. OfTrace(call[t]) \in SUBSET Atom
    BY <1>5, CallParts, TaintTyped DEF OfTrace, RunConnector
  <2> QED BY <1>5, <2>1 DEF RunConnector
<1>6. CASE DeriveToolOutput(t)
  <2>1. call[t] \in Call
    BY <1>6 DEF DeriveToolOutput
  <2>2. PICK parents \in FieldParents(call[t]) :
          out' = [out EXCEPT ![t] = @ \cup (seen[t] \cup OfWindow(call[t]))
                                      \cup TopTaint(parents)]
    BY <1>6 DEF DeriveToolOutput, Derived
  <2>3. TopTaint(parents) \subseteq Atom /\ OfWindow(call[t]) \subseteq Atom
    BY <2>1, CallParts, TaintTyped DEF OfWindow
  <2>4. out' \in [Thread -> SUBSET Atom]
    BY <2>2, <2>3
  <2> QED BY <1>6, <2>4 DEF DeriveToolOutput
<1>7. CASE RecordLineage(t)
  <2>1. call[t].trace \in Trace /\ out[t] \in SUBSET Atom
    BY <1>7, CallParts DEF RecordLineage
  <2> QED BY <1>7, <2>1, RowsWritten DEF RecordLineage
<1>8. CASE Answer(t)
  <2>1. call[t].trace \in Trace /\ out[t] \in SUBSET Atom
    BY <1>8, CallParts DEF Answer
  <2>2. PICK d \in Content, leaves \in (SUBSET Leaf) \ {{}} :
          Receive([trace |-> call[t].trace, digest |-> d, taint |-> out[t],
                   fields |-> [l \in leaves |-> out[t]]])
    BY <1>8 DEF Answer
  <2>3. [trace |-> call[t].trace, digest |-> d, taint |-> out[t],
         fields |-> [l \in leaves |-> out[t]]] \in Token
    BY <2>1, TokenMade
  <2>4. tokens' \subseteq Token
    BY <2>2, <2>3 DEF Receive
  <2>5. given' \subseteq Trace \X Atom
    BY <1>8, <2>1, RowsWritten DEF Answer
  <2> QED BY <1>8, <2>4, <2>5 DEF Answer, Stop
<1> QED
  BY <1>2, <1>3, <1>4, <1>5, <1>6, <1>7, <1>8 DEF Serve

LEMMA LineageTypeStep ==
  LineageTypeOK /\ [LineageNext]_lineageVars => LineageTypeOK'
<1> SUFFICES ASSUME LineageTypeOK, [LineageNext]_lineageVars
             PROVE  LineageTypeOK'
  OBVIOUS
<1>1. CASE Attest \/ AttestStructured
  BY <1>1, AttestedTyped, InputsAssumption DEF Attest, AttestStructured
<1>2. CASE \E r \in Trace, a \in Atom : AgeLineage(r, a)
  BY <1>2 DEF AgeLineage, LineageTypeOK
<1>3. CASE UNCHANGED lineageVars
  BY <1>3 DEF lineageVars, LineageTypeOK
<1> QED
  BY <1>1, <1>2, <1>3, DerivedTyped, DeclassifiedTyped, ServeTyped DEF LineageNext

(* Every reachable state is well typed (the run LineageTaint checks it on a *)
(* small instance).                                                         *)
THEOREM LineageTyped == LineageSpec => []LineageTypeOK
  BY LineageTypeInit, LineageTypeStep, PTL DEF LineageSpec

-----------------------------------------------------------------------------
(* What the agent knows is remembered.                                      *)

(* The rows cover what the agent has been given; what it knew when a call   *)
(* began is still among them, in the trace of the call or in the window;    *)
(* and before a decision, and before the output is derived, the contexts    *)
(* read so far hold the tokens of the call and the knowledge of its trace.  *)
(* An output that is answered has its row.                                  *)
GivenRecorded == given \subseteq lineage

Remembered(t) ==
  \A g \in knew[t] :
    /\ pc[t] # "idle"
    /\ g \in lineage
    /\ g[1] = call[t].trace \/ g \in recent

ContextRead(t) ==
  pc[t] \in {"evaluate", "derive"} =>
    /\ TopTaint(call[t].whole) \subseteq seen[t]
    /\ \A g \in knew[t] : g[1] = call[t].trace => g[2] \in seen[t]

RowWritten(t) == pc[t] = "answer" => {call[t].trace} \X out[t] \subseteq lineage

Memory ==
  /\ GivenRecorded
  /\ \A t \in Thread : Remembered(t) /\ ContextRead(t) /\ RowWritten(t)

LineageInv ==
  LineageTypeOK /\ Memory /\ SinkRefusesTaint /\ OutputCoversContext

(* What two readings of the contexts come to, the recent rows of the other  *)
(* traces being read last, covers the knowledge the call began with.        *)
LEMMA ContextCovers ==
  ASSUME LineageInv, NEW t \in Thread, pc[t] \in {"evaluate", "derive"}
  PROVE  TopTaint(call[t].whole) \cup {g[2] : g \in knew[t]}
           \subseteq seen[t] \cup OfWindow(call[t])
<1>1. ASSUME NEW g \in knew[t]
      PROVE  g[2] \in seen[t] \cup OfWindow(call[t])
  <2>1. g \in Trace \X Atom
    BY DEF LineageInv, LineageTypeOK
  <2>2. CASE g[1] = call[t].trace
    BY <2>2 DEF LineageInv, Memory, ContextRead
  <2>3. CASE g[1] # call[t].trace
    <3>1. g \in recent
      BY <2>3 DEF LineageInv, Memory, Remembered
    <3>2. g = <<g[1], g[2]>> /\ g[1] \in Trace \ {call[t].trace} /\ g[2] \in Atom
      BY <2>1, <2>3
    <3> QED BY <3>1, <3>2 DEF OfWindow, TaintBut
  <2> QED BY <2>2, <2>3
<1>2. TopTaint(call[t].whole) \subseteq seen[t]
  BY DEF LineageInv, Memory, ContextRead
<1> QED
  BY <1>1, <1>2

(* A reading of the trace covers the tokens and the trace's knowledge.      *)
LEMMA TraceCovers ==
  ASSUME NEW c, NEW known \in SUBSET (Trace \X Atom), known \subseteq lineage
  PROVE  /\ TopTaint(c.whole) \subseteq OfTrace(c)
         /\ \A g \in known : g[1] = c.trace => g[2] \in OfTrace(c)
<1>1. \A g \in known : g = <<g[1], g[2]>> /\ g[2] \in Atom
  OBVIOUS
<1> QED
  BY <1>1 DEF OfTrace, TaintOf

(* Rows may be added, and what they cover given, whenever the threads are   *)
(* left alone.                                                              *)
LEMMA RowsAdded ==
  ASSUME LineageInv, UNCHANGED threadVars,
         lineage \subseteq lineage', recent \subseteq recent', GivenRecorded'
  PROVE  (Memory /\ SinkRefusesTaint /\ OutputCoversContext)'
<1>1. Memory'
  BY DEF LineageInv, Memory, Remembered, ContextRead, RowWritten, threadVars
<1>2. SinkRefusesTaint' /\ OutputCoversContext'
  BY DEF LineageInv, SinkRefusesTaint, OutputCoversContext, threadVars
<1> QED
  BY <1>1, <1>2

LEMMA AttestedRemembers ==
  ASSUME LineageInv, NEW tok, Attested(tok)
  PROVE  (Memory /\ SinkRefusesTaint /\ OutputCoversContext)'
<1>1. lineage \subseteq lineage' /\ recent \subseteq recent' /\ GivenRecorded'
  BY DEF Attested, RecordRow, Give, GivenRecorded, LineageInv, Memory
<1> QED
  BY <1>1, RowsAdded DEF Attested

(* A thread that ends knows nothing any more; the others are left alone.    *)
LEMMA StopRemembers ==
  ASSUME LineageInv, NEW t \in Thread, Stop(t),
         UNCHANGED <<lineage, recent>>, GivenRecorded'
  PROVE  (Memory /\ SinkRefusesTaint /\ OutputCoversContext)'
<1>1. /\ pc'[t] = "idle" /\ knew'[t] = {}
      /\ \A u \in Thread \ {t} : /\ pc'[u] = pc[u] /\ call'[u] = call[u]
                                 /\ seen'[u] = seen[u] /\ out'[u] = out[u]
                                 /\ knew'[u] = knew[u]
  BY DEF Stop, LineageInv, LineageTypeOK
<1>2. Memory'
  <2>1. ASSUME NEW u \in Thread PROVE Remembered(u)' /\ ContextRead(u)' /\ RowWritten(u)'
    <3>1. CASE u = t
      BY <1>1, <3>1 DEF Remembered, ContextRead, RowWritten
    <3>2. CASE u # t
      BY <1>1, <3>2 DEF Remembered, ContextRead, RowWritten, LineageInv, Memory
    <3> QED BY <3>1, <3>2
  <2> QED BY <2>1 DEF Memory
<1>3. SinkRefusesTaint' /\ OutputCoversContext'
  BY <1>1 DEF SinkRefusesTaint, OutputCoversContext, LineageInv
<1> QED
  BY <1>2, <1>3

(* The steps of a thread.                                                   *)
LEMMA ServeRemembers ==
  ASSUME LineageInv, NEW t \in Thread, Serve(t)
  PROVE  (Memory /\ SinkRefusesTaint /\ OutputCoversContext)'
<1> DEFINE Alone == \A u \in Thread \ {t} :
              /\ pc'[u] = pc[u] /\ call'[u] = call[u]
              /\ seen'[u] = seen[u] /\ out'[u] = out[u] /\ knew'[u] = knew[u]
<1> USE DEF LineageInv
<1>1. CASE Submit(t)
  <2>1. PICK c \in Call : Accept(t, c)
    BY <1>1, SubmittedCall
  <2>2. /\ pc'[t] = "evaluate" /\ call'[t] = c /\ seen'[t] = OfTrace(c)
        /\ knew'[t] = {g \in given : g[1] = c.trace \/ g \in recent}
        /\ Alone
    BY <2>1 DEF Accept, LineageTypeOK
  <2>3. /\ knew'[t] \subseteq lineage
        /\ knew'[t] \in SUBSET (Trace \X Atom)
    BY <2>2 DEF Memory, GivenRecorded, LineageTypeOK
  <2>4. Remembered(t)'
    BY <2>1, <2>2, <2>3 DEF Remembered, Accept
  <2>5. ContextRead(t)'
    BY <2>2, <2>3, TraceCovers DEF ContextRead
  <2>6. Memory'
    <3>1. GivenRecorded'
      BY <2>1 DEF Accept, Memory, GivenRecorded
    <3>2. \A u \in Thread \ {t} : Remembered(u)' /\ ContextRead(u)' /\ RowWritten(u)'
      BY <2>1, <2>2 DEF Accept, Memory, Remembered, ContextRead, RowWritten
    <3>3. RowWritten(t)'
      BY <2>2 DEF RowWritten
    <3> QED BY <2>4, <2>5, <3>1, <3>2, <3>3 DEF Memory
  <2>7. SinkRefusesTaint' /\ OutputCoversContext'
    BY <2>2 DEF SinkRefusesTaint, OutputCoversContext
  <2> QED BY <2>6, <2>7
<1>2. CASE Deny(t) \/ Abort(t)
  <2>1. Stop(t) /\ UNCHANGED <<lineage, recent, given>>
    BY <1>2 DEF Deny, Abort
  <2> QED BY <2>1, StopRemembers DEF Memory, GivenRecorded
<1>3. CASE Allow(t)
  <2>1. /\ pc[t] = "evaluate" /\ pc'[t] = "run"
        /\ \A u \in Thread \ {t} : pc'[u] = pc[u]
    BY <1>3 DEF Allow, LineageTypeOK
  <2>2. \A g \in knew[t] : g[2] \notin Blocked[call[t].tool]
    <3>1. (seen[t] \cup OfWindow(call[t])) \cap Blocked[call[t].tool] = {}
      BY <1>3 DEF Allow, Refused
    <3> QED BY <2>1, <3>1, ContextCovers
  <2>3. Memory'
    BY <1>3, <2>1 DEF Allow, Memory, GivenRecorded, Remembered, ContextRead, RowWritten
  <2>4. SinkRefusesTaint' /\ OutputCoversContext'
    BY <1>3, <2>1, <2>2 DEF Allow, SinkRefusesTaint, OutputCoversContext
  <2> QED BY <2>3, <2>4
<1>4. CASE RunConnector(t)
  <2>1. /\ pc[t] = "run" /\ pc'[t] = "derive" /\ seen'[t] = OfTrace(call[t])
        /\ \A u \in Thread \ {t} : /\ pc'[u] = pc[u] /\ seen'[u] = seen[u]
                                   /\ out'[u] = out[u]
        /\ UNCHANGED <<lineage, recent, call, knew, given>>
    BY <1>4 DEF RunConnector, LineageTypeOK
  <2>2. knew[t] \subseteq lineage /\ knew[t] \in SUBSET (Trace \X Atom)
    BY DEF Memory, Remembered, LineageTypeOK
  <2>3. ContextRead(t)'
    BY <2>1, <2>2, TraceCovers DEF ContextRead
  <2>4. Memory'
    <3>1. GivenRecorded' /\ Remembered(t)'
      BY <2>1 DEF Memory, GivenRecorded, Remembered
    <3>2. \A u \in Thread \ {t} : Remembered(u)' /\ ContextRead(u)' /\ RowWritten(u)'
      BY <2>1 DEF Memory, Remembered, ContextRead, RowWritten
    <3>3. RowWritten(t)'
      BY <2>1 DEF RowWritten
    <3> QED BY <2>3, <3>1, <3>2, <3>3 DEF Memory
  <2>5. SinkRefusesTaint' /\ OutputCoversContext'
    BY <2>1 DEF SinkRefusesTaint, OutputCoversContext
  <2> QED BY <2>4, <2>5
<1>5. CASE DeriveToolOutput(t)
  <2>1. /\ pc[t] = "derive" /\ pc'[t] = "record"
        /\ \A u \in Thread \ {t} : pc'[u] = pc[u]
        /\ UNCHANGED <<lineage, recent, call, seen, knew, given>>
    BY <1>5 DEF DeriveToolOutput, LineageTypeOK
  <2>2. /\ seen[t] \cup OfWindow(call[t]) \subseteq out'[t]
        /\ \A u \in Thread \ {t} : out'[u] = out[u]
    BY <1>5 DEF DeriveToolOutput, Derived, LineageTypeOK
  <2>3. TopTaint(call[t].whole) \cup {g[2] : g \in knew[t]} \subseteq out'[t]
    BY <2>1, <2>2, ContextCovers
  <2>4. Memory'
    BY <2>1, <2>2 DEF Memory, GivenRecorded, Remembered, ContextRead, RowWritten
  <2>5. SinkRefusesTaint'
    BY <2>1 DEF SinkRefusesTaint
  <2>6. OutputCoversContext'
    BY <2>1, <2>2, <2>3 DEF OutputCoversContext
  <2> QED BY <2>4, <2>5, <2>6
<1>6. CASE RecordLineage(t)
  <2>1. /\ pc[t] = "record" /\ pc'[t] = "answer"
        /\ \A u \in Thread \ {t} : pc'[u] = pc[u]
        /\ lineage \subseteq lineage' /\ recent \subseteq recent'
        /\ {call[t].trace} \X out[t] \subseteq lineage'
        /\ UNCHANGED <<call, seen, out, knew, given>>
    BY <1>6 DEF RecordLineage, RecordRow, LineageTypeOK
  <2>2. Memory'
    BY <2>1 DEF Memory, GivenRecorded, Remembered, ContextRead, RowWritten
  <2>3. SinkRefusesTaint' /\ OutputCoversContext'
    BY <2>1 DEF SinkRefusesTaint, OutputCoversContext
  <2> QED BY <2>2, <2>3
<1>7. CASE Answer(t)
  <2>1. GivenRecorded'
    BY <1>7 DEF Answer, Give, Memory, GivenRecorded, RowWritten
  <2> QED BY <1>7, <2>1, StopRemembers DEF Answer
<1> QED
  BY <1>1, <1>2, <1>3, <1>4, <1>5, <1>6, <1>7 DEF Serve

(* A row that leaves the window takes the knowledge of it with it, except   *)
(* from the calls of its own trace, which read every row of it.             *)
LEMMA AgedRemembers ==
  ASSUME LineageInv, NEW r \in Trace, NEW a \in Atom, AgeLineage(r, a)
  PROVE  (Memory /\ SinkRefusesTaint /\ OutputCoversContext)'
<1> USE DEF LineageInv
<1>1. /\ UNCHANGED <<lineage, pc, call, seen, out, given>>
      /\ recent' = recent \ {<<r, a>>}
      /\ \A t \in Thread : knew'[t] \subseteq knew[t]
      /\ \A t \in Thread : <<r, a>> \in knew'[t] => call[t].trace = r
  BY DEF AgeLineage
<1>2. Memory'
  <2>1. GivenRecorded'
    BY <1>1 DEF Memory, GivenRecorded
  <2>2. ASSUME NEW t \in Thread PROVE Remembered(t)' /\ ContextRead(t)' /\ RowWritten(t)'
    <3>1. Remembered(t)'
      BY <1>1 DEF Memory, Remembered
    <3>2. ContextRead(t)' /\ RowWritten(t)'
      BY <1>1 DEF Memory, ContextRead, RowWritten
    <3> QED BY <3>1, <3>2
  <2> QED BY <2>1, <2>2 DEF Memory
<1>3. SinkRefusesTaint' /\ OutputCoversContext'
  BY <1>1 DEF SinkRefusesTaint, OutputCoversContext
<1> QED
  BY <1>2, <1>3

LEMMA LineageInvInit == LineageInit => LineageInv
<1> SUFFICES ASSUME LineageInit PROVE LineageInv
  OBVIOUS
<1>1. Memory
  BY DEF LineageInit, Memory, GivenRecorded, Remembered, ContextRead, RowWritten
<1>2. SinkRefusesTaint /\ OutputCoversContext
  BY DEF LineageInit, SinkRefusesTaint, OutputCoversContext
<1> QED
  BY <1>1, <1>2, LineageTypeInit DEF LineageInv

LEMMA LineageInvStep == LineageInv /\ [LineageNext]_lineageVars => LineageInv'
<1> SUFFICES ASSUME LineageInv, [LineageNext]_lineageVars
             PROVE  (Memory /\ SinkRefusesTaint /\ OutputCoversContext)'
  BY LineageTypeStep DEF LineageInv
<1>1. CASE Attest \/ AttestStructured
  BY <1>1, AttestedRemembers DEF Attest, AttestStructured
<1>2. CASE DeriveStructured
  BY <1>2, AttestedRemembers DEF DeriveStructured
<1>3. CASE DeclassifyLabels \/ UNCHANGED lineageVars
  <2>1. UNCHANGED <<lineage, recent, given, threadVars>>
    BY <1>3 DEF DeclassifyLabels, lineageVars, threadVars
  <2> QED BY <2>1, RowsAdded DEF LineageInv, Memory, GivenRecorded
<1>4. CASE \E t \in Thread : Serve(t)
  BY <1>4, ServeRemembers
<1>5. CASE \E r \in Trace, a \in Atom : AgeLineage(r, a)
  BY <1>5, AgedRemembers
<1> QED
  BY <1>1, <1>2, <1>3, <1>4, <1>5 DEF LineageNext

(* No tool runs on what the agent had been given of the data it must not be *)
(* reached by, however many threads serve it and whatever it attests,       *)
(* derives, declassifies and leaves out.                                    *)
THEOREM SinksRefuseTaint == LineageSpec => []SinkRefusesTaint
<1>1. LineageInv => SinkRefusesTaint
  BY DEF LineageInv
<1> QED
  BY <1>1, LineageInvInit, LineageInvStep, PTL DEF LineageSpec

(* What an output is about to be answered with carries all that its call    *)
(* showed and all that the agent had been given when the call was made.     *)
THEOREM OutputsCoverContext == LineageSpec => []OutputCoversContext
<1>1. LineageInv => OutputCoversContext
  BY DEF LineageInv
<1> QED
  BY <1>1, LineageInvInit, LineageInvStep, PTL DEF LineageSpec
=============================================================================
