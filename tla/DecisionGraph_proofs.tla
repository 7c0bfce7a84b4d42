------------------------- MODULE DecisionGraph_proofs -------------------------
(***************************************************************************)
(* What the decision graph returns, for every score card, every reading of *)
(* the indicators and every number of repeated requests.                   *)
(*                                                                         *)
(* The invariant says, for each place on the path of the graph, what the   *)
(* nodes before it have left in the state.                                 *)
(***************************************************************************)
EXTENDS DecisionGraph, TLAPS

\* In words of the score card: while the trend outweighs the rest, no entry goes
\* against a trend both timeframes agree on.
THEOREM NeverAgainstTheTrend ==
    ASSUME NEW i \in Indicators, None \notin {i.entry, i.trend},
           TrendWeight + EntryThreshold > MomentumWeight + VolumeWeight
    PROVE  /\ TrendScore(i) = -100 => Direction(i) # "LONG"
           /\ TrendScore(i) = 100 => Direction(i) # "SHORT"
<1> DEFINE m == MomentumScore(i)
           v == VolumeScore(i)
           t == TrendScore(i)
<1>1. m \in -100..100
  <2>1. i.rsi \in 0..100 \cup {None}
    BY ScoreAssumption DEF Indicators
  <2>2. CASE i.rsi = None
    BY <2>2 DEF MomentumScore
  <2>3. CASE i.rsi # None
    BY <2>1, <2>3 DEF MomentumScore
  <2>4. QED
    BY <2>2, <2>3
<1>2. v \in {-100, 0, 100} /\ t \in {-100, 0, 100}
  BY DEF VolumeScore, TrendScore, Agreement
<1>3. /\ TrendWeight \in Nat /\ MomentumWeight \in Nat /\ VolumeWeight \in Nat
      /\ EntryThreshold \in Nat
  BY ScoreAssumption
<1>4. Composite(i) = t * TrendWeight + m * MomentumWeight + v * VolumeWeight
  BY DEF Composite
<1> HIDE DEF m, v, t
<1>5. /\ m * MomentumWeight <= 100 * MomentumWeight /\ m * MomentumWeight >= -100 * MomentumWeight
      /\ v * VolumeWeight <= 100 * VolumeWeight /\ v * VolumeWeight >= -100 * VolumeWeight
      /\ m * MomentumWeight \in Int /\ v * VolumeWeight \in Int
  BY <1>1, <1>2, <1>3
<1>6. t = -100 => Composite(i) < 100 * EntryThreshold
  BY <1>3, <1>4, <1>5
<1>7. t = 100 => Composite(i) > -(100 * EntryThreshold)
  BY <1>3, <1>4, <1>5
<1>8. Composite(i) \in Int
  BY <1>2, <1>3, <1>4, <1>5
<1>9. ASSUME t = -100 PROVE Direction(i) # "LONG"
  BY <1>3, <1>6, <1>8, <1>9 DEF Direction
<1>10. ASSUME t = 100 PROVE Direction(i) # "SHORT"
  BY <1>3, <1>7, <1>8, <1>10 DEF Direction
<1>11. QED
  BY <1>9, <1>10 DEF t

LEMMA DirectionType == ASSUME NEW i PROVE Direction(i) \in {"HOLD"} \cup Entries
BY DEF Direction, Entries
-----------------------------------------------------------------------------
(* The invariant.                                                          *)

Pending == st.verdicts = [a \in Agents |-> "pending"]

\* An entry of the state is the signal's.
EntryIsSignal == st.proposal \in Entries => st.proposal = met.signal /\ given.snapshot = "fresh"

Retrieved ==
    st.errors = {} => given.retriever /\ met.retrieval # None /\ ~RetrievalFails(met.retrieval)

Agreed == given.llm /\ met.answer = "agrees"

VetoFacts ==
    /\ st.veto = "veto_applied" => met.answer = "objects"
    /\ st.veto = "veto_fail_closed" => ~given.llm \/ met.answer \notin {"objects", "agrees"}
    /\ st.veto = "veto_none" => Agreed

Begun == st.proposal = "missing" /\ st.veto = "unset" /\ Pending
         /\ asked = 0 /\ attempt = 0 /\ met.signal = "HOLD"

Proposed == st.proposal \in Entries /\ st.veto = "unset"

\* What holds where the graph is.
AtBegin == active \in {{"load_context"}, {"validate_freshness"}, {"signal_node"}} =>
    Begun /\ st.errors = {} /\ (active = {"signal_node"} => given.snapshot = "fresh")
AtRetrieval == active \in {{"veto_fanout"}, {"retrieve_evidence"}} =>
    Proposed /\ Pending /\ st.errors = {} /\ asked = 0 /\ attempt = 0
AtVeto == active = {"news_veto_node"} =>
    Proposed /\ Pending /\ Retrieved /\ asked = attempt
AtMerge == active = {"merge_veto"} =>
    /\ Proposed /\ Retrieved
    /\ \A a \in Agents \ {"news_macro"} : st.verdicts[a] = "pending"
    /\ st.verdicts["news_macro"] # "pending"
    /\ st.verdicts["news_macro"] = "none" => Agreed
    /\ st.verdicts["news_macro"] = "applied" => met.answer = "objects"
    /\ st.verdicts["news_macro"] = "fail_closed" =>
          ~given.llm \/ met.answer \notin {"objects", "agrees"}
AtValidation == active = {"proposal_validator"} =>
    st.proposal # "missing" /\ Retrieved /\ (st.proposal \in Entries => Agreed)
AtEnd == active \in {{"persist_decision"}, {}} =>
    (st.proposal \in Entries => st.errors = {} /\ Retrieved /\ Agreed /\ ~late)

Inv ==
    /\ TypeOK /\ RequestsAreBounded /\ EntryIsSignal /\ VetoFacts
    /\ active \notin {{"structure_veto_node"}, {"data_integrity_node"}}
    /\ AtBegin /\ AtRetrieval /\ AtVeto /\ AtMerge /\ AtValidation /\ AtEnd

StateType == [proposal : Proposals, verdicts : [Agents -> Verdicts],
              veto : VetoTypes, errors : SUBSET Errors]
MetType == [signal : {"HOLD"} \cup Entries, retrieval : Retrieval \cup {None}, answer : Answers]

LEMMA TypeInit == Init => TypeOK
<1> SUFFICES ASSUME Init PROVE TypeOK
  OBVIOUS
<1>1. st \in StateType
  BY DEF Init, StateType, Proposals, Verdicts, VetoTypes
<1>2. active = {"load_context"} /\ "load_context" \in Nodes
  BY DEF Init, Nodes, PlainNodes
<1>3. met \in MetType
  BY DEF Init, MetType, Answers
<1>4. attempt \in 0..RetryAttempts /\ asked \in Nat /\ given \in Given
  BY RetryAssumption DEF Init
<1>5. late \in BOOLEAN
  BY Zenon DEF Init
<1>6. QED
  BY <1>1, <1>2, <1>3, <1>4, <1>5, Zenon DEF TypeOK, StateType, MetType

LEMMA InvInit == Init => Inv
<1> SUFFICES ASSUME Init PROVE Inv
  OBVIOUS
<1>1. active = {"load_context"} /\ Begun /\ st.errors = {}
  BY DEF Init, Begun, Pending
<1>2. AtBegin /\ AtRetrieval /\ AtVeto /\ AtMerge /\ AtValidation /\ AtEnd
  BY <1>1 DEF AtBegin, AtRetrieval, AtVeto, AtMerge, AtValidation, AtEnd
<1>3. EntryIsSignal /\ VetoFacts /\ RequestsAreBounded
  BY <1>1, RetryAssumption DEF EntryIsSignal, VetoFacts, RequestsAreBounded, Begun, Entries
<1>4. QED
  BY <1>1, <1>2, <1>3, TypeInit DEF Inv
-----------------------------------------------------------------------------
(* The types.                                                              *)

\* The graph is at one node, and leaves it for at most one.
LEMMA Moves ==
    ASSUME TypeOK, NEW node \in Nodes, NEW s, Goes(node, s)
    PROVE  active = {node} /\ active' = Successors(node, s) /\ st' = s /\ given' = given
<1>1. PICK other \in Nodes : active = {other}
  BY DEF TypeOK, Goes
<1>2. active = {node}
  BY <1>1 DEF Goes
<1>3. QED
  BY <1>2 DEF Goes

LEMMA SuccessorsType ==
    ASSUME NEW node \in Nodes, NEW s
    PROVE  Successors(node, s) = {} \/ \E next \in Nodes : Successors(node, s) = {next}
BY DEF Successors, Nodes, PlainNodes, AfterErrors, AfterSignal, AfterSafeHold

LEMMA OutputType ==
    ASSUME NEW s \in StateType, NEW node \in PlainNodes
    PROVE  Output(node, s) \in StateType
<1>1. Freshness(s) \in StateType
  BY DEF Freshness, StateType, Errors
<1>2. Merge(s) \in StateType
  BY DEF Merge, StateType, Proposals, VetoTypes
<1>3. Validate(s) \in StateType
  BY DEF Validate, StateType, Errors
<1>4. SafeHold(s) \in StateType
  BY DEF SafeHold, StateType, Proposals
<1>5. Judged(s, "data_integrity", IF given.anomaly THEN "applied" ELSE "none") \in StateType
  BY DEF Judged, StateType, Agents, Verdicts
<1>6. QED
  BY <1>1, <1>2, <1>3, <1>4, <1>5 DEF Output

LEMMA JudgedType ==
    ASSUME NEW s \in StateType, NEW agent \in Agents, NEW verdict \in Verdicts
    PROVE  Judged(s, agent, verdict) \in StateType
BY DEF Judged, StateType

LEMMA TypeStep == TypeOK /\ [Next]_vars => TypeOK'
<1> SUFFICES ASSUME TypeOK, [Next]_vars PROVE TypeOK'
  OBVIOUS
<1> USE DEF StateType, MetType
<1>0. /\ st \in StateType /\ met \in MetType /\ given \in Given
      /\ attempt \in 0..RetryAttempts /\ late \in BOOLEAN /\ asked \in Nat
  BY DEF TypeOK
<1>1. CASE UNCHANGED vars
  BY <1>1 DEF TypeOK, vars
<1>2. ASSUME NEW node \in Nodes, NEW s \in StateType, Goes(node, s)
      PROVE  /\ given' \in Given /\ st' \in StateType
             /\ active' = {} \/ \E next \in Nodes : active' = {next}
  BY <1>0, <1>2, Moves, SuccessorsType
<1>3. ASSUME NEW node \in PlainNodes, Run(node) PROVE TypeOK'
  <2>1. Output(node, st) \in StateType /\ node \in Nodes
    BY <1>0, OutputType DEF Nodes
  <2>2. QED
    BY <1>0, <1>2, <1>3, <2>1 DEF Run, TypeOK
<1>4. ASSUME NEW i \in Indicators, NEW sized \in BOOLEAN, RunSignal(i, sized) PROVE TypeOK'
  <2> DEFINE signal == IF sized THEN Direction(i) ELSE "HOLD"
  <2>1. signal \in {"HOLD"} \cup Entries
    BY DirectionType
  <2> HIDE DEF signal
  <2>2. [st EXCEPT !.proposal = signal] \in StateType
    BY <1>0, <2>1 DEF Proposals
  <2>3. Goes("signal_node", [st EXCEPT !.proposal = signal]) /\ met' = [met EXCEPT !.signal = signal]
    BY <1>4 DEF RunSignal, signal
  <2>4. met' \in MetType /\ "signal_node" \in Nodes
    BY <1>0, <2>1, <2>3 DEF Nodes
  <2>5. QED
    BY <1>0, <1>2, <1>4, <2>2, <2>3, <2>4 DEF RunSignal, TypeOK
<1>5. ASSUME NEW r \in Retrieval, RunRetrieval(r) PROVE TypeOK'
  <2>1. Evidence(st, r) \in StateType
    BY <1>0 DEF Evidence, Errors
  <2>2. met' \in MetType /\ "retrieve_evidence" \in Nodes
    BY <1>0, <1>5 DEF RunRetrieval, Nodes
  <2>3. late' \in BOOLEAN
    BY <1>0, <1>5, Zenon DEF RunRetrieval
  <2>4. QED
    BY <1>0, <1>2, <1>5, <2>1, <2>2, <2>3 DEF RunRetrieval, TypeOK
<1>6. ASSUME NEW node \in DOMAIN AgentOf
      PROVE  node \in Nodes /\ AgentOf[node] \in Agents
  BY DEF AgentOf, Agents, Nodes
<1>7. ASSUME NEW node \in DOMAIN AgentOf, RunUnasked(node) PROVE TypeOK'
  <2>1. Judged(st, AgentOf[node], "fail_closed") \in StateType
    BY <1>0, <1>6, JudgedType DEF Verdicts
  <2>2. QED
    BY <1>0, <1>2, <1>6, <1>7, <2>1 DEF RunUnasked, TypeOK
<1>8. ASSUME NEW node \in DOMAIN AgentOf, AskAgain(node) PROVE TypeOK'
  <2>1. late' \in BOOLEAN
    BY <1>0, <1>8, Zenon DEF AskAgain
  <2>2. attempt' \in 0..RetryAttempts /\ asked' \in Nat
    BY <1>0, <1>8, RetryAssumption DEF AskAgain
  <2>3. UNCHANGED <<given, active, st, met>>
    BY <1>8 DEF AskAgain
  <2>4. QED
    BY <2>1, <2>2, <2>3, Zenon DEF TypeOK
<1>9. ASSUME NEW node \in DOMAIN AgentOf, NEW answer \in Answers, TakeAnswer(node, answer)
      PROVE  TypeOK'
  <2>1. Judged(st, AgentOf[node], Verdict(answer)) \in StateType
    BY <1>0, <1>6, JudgedType DEF Verdicts, Verdict
  <2>2. met' \in MetType
    BY <1>0, <1>9 DEF TakeAnswer
  <2>3. attempt' \in 0..RetryAttempts /\ asked' \in Nat
    BY <1>0, <1>9, RetryAssumption DEF TakeAnswer
  <2>4. late' \in BOOLEAN
    BY <1>0, <1>9, Zenon DEF TakeAnswer
  <2>5. QED
    BY <1>2, <1>6, <1>9, <2>1, <2>2, <2>3, <2>4 DEF TakeAnswer, TypeOK
<1>10. QED
  BY <1>1, <1>3, <1>4, <1>5, <1>7, <1>8, <1>9 DEF Next

\* The type invariant, and that the graph is never at two nodes.
THEOREM Typing == Spec => []TypeOK
BY TypeInit, TypeStep, PTL DEF Spec
-----------------------------------------------------------------------------
(* The invariant is kept.                                                  *)

Places == AtBegin /\ AtRetrieval /\ AtVeto /\ AtMerge /\ AtValidation /\ AtEnd

\* A step of a node that asks nobody leaves what was met as it was.
Same == given' = given /\ met' = met /\ attempt' = attempt /\ asked' = asked /\ late' = late

LEMMA PlainStep ==
    ASSUME Inv, NEW node \in PlainNodes, Run(node)
    PROVE  /\ Places' /\ EntryIsSignal' /\ VetoFacts' /\ RequestsAreBounded'
           /\ active' \notin {{"structure_veto_node"}, {"data_integrity_node"}}
<1>1. Same /\ st' = Output(node, st) /\ active = {node} /\ active' = Successors(node, st')
  BY Moves DEF Run, Inv, Same, Nodes, Goes
<1>2. st \in StateType /\ TypeOK
  BY DEF Inv, TypeOK, StateType
<1>3. RequestsAreBounded'
  BY <1>1 DEF Inv, RequestsAreBounded, Same
<1> DEFINE Goal == /\ Places' /\ EntryIsSignal' /\ VetoFacts'
                   /\ active' \notin {{"structure_veto_node"}, {"data_integrity_node"}}
<1>4. CASE node = "load_context"
  <2>1. st' = st /\ active' = {"validate_freshness"} /\ AtBegin
    BY <1>1, <1>4 DEF Output, Successors, Inv
  <2>2. QED
    BY <1>1, <1>3, <1>4, <2>1
       DEF Inv, Places, Same, AtBegin, AtRetrieval, AtVeto, AtMerge, AtValidation, AtEnd, Begun,
           Pending, EntryIsSignal, VetoFacts, Agreed
<1>5. CASE node = "validate_freshness"
  <2>1. st' = Freshness(st) /\ active' = AfterErrors(st', "signal_node") /\ Begun /\ st.errors = {}
    BY <1>1, <1>5 DEF Output, Successors, Inv, AtBegin
  <2>2. /\ st'.proposal = st.proposal /\ st'.veto = st.veto /\ st'.verdicts = st.verdicts
        /\ st'.errors = IF given.snapshot = "fresh" THEN {} ELSE {"snapshot"}
    BY <1>2, <2>1 DEF Freshness, StateType
  <2>3. \/ active' = {"signal_node"} /\ st'.errors = {} /\ given.snapshot = "fresh"
        \/ active' = {"safe_hold"}
    BY <2>1, <2>2 DEF AfterErrors
  <2>4. QED
    BY <1>1, <1>3, <2>1, <2>2, <2>3
       DEF Places, Same, AtBegin, AtRetrieval, AtVeto, AtMerge, AtValidation, AtEnd, Begun,
           Pending, EntryIsSignal, VetoFacts, Entries
<1>6. CASE node = "veto_fanout"
  <2>1. st' = st /\ active' = {"retrieve_evidence"} /\ AtRetrieval
    BY <1>1, <1>6 DEF Output, Successors, Inv
  <2>2. QED
    BY <1>1, <1>3, <1>6, <2>1
       DEF Inv, Places, Same, AtBegin, AtRetrieval, AtVeto, AtMerge, AtValidation, AtEnd, Proposed,
           Pending, EntryIsSignal, VetoFacts, Agreed
<1>7. CASE node = "data_integrity_node"
  BY <1>1, <1>7 DEF Inv
<1>8. CASE node = "merge_veto"
  <2>1. st' = Merge(st) /\ active' = {"proposal_validator"} /\ AtMerge
    BY <1>1, <1>8 DEF Output, Successors, Inv
  <2>2. st'.errors = st.errors /\ st'.proposal \in {st.proposal, "HOLD"}
    BY <1>2, <2>1 DEF Merge, StateType
  <2>3. st.verdicts["news_macro"] \in {"none", "applied", "fail_closed"} /\ Proposed /\ Retrieved
    BY <1>1, <1>2, <1>8, <2>1 DEF AtMerge, StateType, Verdicts, Agents
  <2>4. CASE st.verdicts["news_macro"] = "none"
    <3>1. st'.veto = "veto_none" /\ Agreed
      BY <1>1, <1>2, <1>8, <2>1, <2>4 DEF AtMerge, Merge, StateType, Agents
    <3>2. QED
      BY <1>1, <1>3, <2>1, <2>2, <2>3, <3>1
         DEF Inv, Places, Same, AtBegin, AtRetrieval, AtVeto, AtMerge, AtValidation, AtEnd,
             Proposed, Retrieved, EntryIsSignal, VetoFacts, Agreed, Entries
  <2>5. CASE st.verdicts["news_macro"] = "applied"
    <3>1. st'.veto = "veto_applied" /\ st'.proposal = "HOLD" /\ met.answer = "objects"
      BY <1>1, <1>2, <1>8, <2>1, <2>5 DEF AtMerge, Merge, StateType, Agents
    <3>2. QED
      BY <1>1, <1>3, <2>1, <2>2, <2>3, <3>1
         DEF Places, Same, AtBegin, AtRetrieval, AtVeto, AtMerge, AtValidation, AtEnd,
             Retrieved, EntryIsSignal, VetoFacts, Entries
  <2>6. CASE st.verdicts["news_macro"] = "fail_closed"
    <3>1. /\ st'.veto = "veto_fail_closed" /\ st'.proposal = "HOLD"
          /\ ~given.llm \/ met.answer \notin {"objects", "agrees"}
      BY <1>1, <1>2, <1>8, <2>1, <2>6 DEF AtMerge, Merge, StateType, Agents
    <3>2. QED
      BY <1>1, <1>3, <2>1, <2>2, <2>3, <3>1
         DEF Places, Same, AtBegin, AtRetrieval, AtVeto, AtMerge, AtValidation, AtEnd,
             Retrieved, EntryIsSignal, VetoFacts, Entries
  <2>7. QED
    BY <2>3, <2>4, <2>5, <2>6
<1>9. CASE node = "proposal_validator"
  <2>1. st' = Validate(st) /\ active' = AfterErrors(st', "persist_decision") /\ AtValidation
    BY <1>1, <1>9 DEF Output, Successors, Inv
  <2>2. /\ st'.proposal = st.proposal /\ st'.veto = st.veto /\ st.errors \subseteq st'.errors
        /\ st'.errors = {} => IsHold(st) \/ ~late
    BY <1>2, <2>1 DEF Validate, StateType, IsHold, Entries
  <2>3. \/ active' = {"persist_decision"} /\ st'.errors = {}
        \/ active' = {"safe_hold"}
    BY <2>1 DEF AfterErrors
  <2>4. st.errors = {} => Retrieved
    BY <1>1, <1>9, <2>1 DEF AtValidation
  <2>5. QED
    BY <1>1, <1>3, <1>9, <2>1, <2>2, <2>3, <2>4
       DEF Inv, Places, Same, AtBegin, AtRetrieval, AtVeto, AtMerge, AtValidation, AtEnd,
           Retrieved, EntryIsSignal, VetoFacts, Agreed, IsHold
<1>10. CASE node = "safe_hold"
  <2>1. st' = SafeHold(st) /\ active' = {"persist_decision"}
    BY <1>1, <1>10 DEF Output, Successors, AfterSafeHold
  <2>2. st'.proposal = "HOLD" /\ st'.veto = st.veto
    BY <1>2, <2>1 DEF SafeHold, StateType
  <2>3. QED
    BY <1>1, <1>3, <2>1, <2>2
       DEF Inv, Places, Same, AtBegin, AtRetrieval, AtVeto, AtMerge, AtValidation, AtEnd,
           EntryIsSignal, VetoFacts, Agreed, Entries
<1>11. CASE node = "persist_decision"
  <2>1. st' = st /\ active' = {}
    BY <1>1, <1>11 DEF Output, Successors
  <2>2. QED
    BY <1>1, <1>3, <1>11, <2>1
       DEF Inv, Places, Same, AtBegin, AtRetrieval, AtVeto, AtMerge, AtValidation, AtEnd,
           EntryIsSignal, VetoFacts, Agreed, Retrieved
<1>12. QED
  BY <1>4, <1>5, <1>6, <1>7, <1>8, <1>9, <1>10, <1>11 DEF PlainNodes

LEMMA SignalStep ==
    ASSUME Inv, NEW i \in Indicators, NEW sized \in BOOLEAN, RunSignal(i, sized)
    PROVE  /\ Places' /\ EntryIsSignal' /\ VetoFacts' /\ RequestsAreBounded'
           /\ active' \notin {{"structure_veto_node"}, {"data_integrity_node"}}
<1> DEFINE signal == IF sized THEN Direction(i) ELSE "HOLD"
           s == [st EXCEPT !.proposal = signal]
<1>1. signal \in {"HOLD"} \cup Entries
  BY DirectionType
<1>2. /\ Goes("signal_node", s) /\ met' = [met EXCEPT !.signal = signal]
      /\ attempt' = attempt /\ late' = late /\ asked' = asked
  BY DEF RunSignal
<1> HIDE DEF signal
<1>3. /\ active = {"signal_node"} /\ st' = s /\ active' = AfterSignal(st') /\ given' = given
  BY <1>2, Moves DEF Inv, Nodes, Successors
<1>4. st \in StateType /\ met \in MetType
  BY DEF Inv, TypeOK, StateType, MetType
<1>5. /\ st'.proposal = signal /\ st'.veto = st.veto /\ st'.errors = st.errors
      /\ st'.verdicts = st.verdicts /\ met'.signal = signal
      /\ met'.retrieval = met.retrieval /\ met'.answer = met.answer
  BY <1>2, <1>3, <1>4 DEF StateType, MetType
<1> HIDE DEF s
<1>6. Begun /\ st.errors = {} /\ given.snapshot = "fresh"
  BY <1>3 DEF Inv, AtBegin
<1>7. \/ active' = {"persist_decision"} /\ signal \notin Entries
      \/ active' = {"veto_fanout"} /\ signal \in Entries
  BY <1>3, <1>5 DEF AfterSignal, IsHold
<1>8. EntryIsSignal' /\ VetoFacts'
  BY <1>3, <1>5, <1>6 DEF EntryIsSignal, VetoFacts, Begun
<1>9. RequestsAreBounded'
  BY <1>2, <1>6, RetryAssumption DEF RequestsAreBounded, Begun
<1>10. Places'
  <2>1. /\ st'.veto = "unset" /\ st'.errors = {} /\ asked' = 0 /\ attempt' = 0
        /\ Pending'
    BY <1>2, <1>5, <1>6 DEF Begun, Pending
  <2>2. CASE active' = {"persist_decision"} /\ signal \notin Entries
    BY <1>5, <2>2 DEF Places, AtBegin, AtRetrieval, AtVeto, AtMerge, AtValidation, AtEnd
  <2>3. CASE active' = {"veto_fanout"} /\ signal \in Entries
    BY <1>5, <2>1, <2>3
       DEF Places, AtBegin, AtRetrieval, AtVeto, AtMerge, AtValidation, AtEnd, Proposed
  <2>4. QED
    BY <1>7, <2>2, <2>3
<1>11. QED
  BY <1>7, <1>8, <1>9, <1>10

LEMMA RetrievalStep ==
    ASSUME Inv, NEW r \in Retrieval, RunRetrieval(r)
    PROVE  /\ Places' /\ EntryIsSignal' /\ VetoFacts' /\ RequestsAreBounded'
           /\ active' \notin {{"structure_veto_node"}, {"data_integrity_node"}}
<1>1. /\ active = {"retrieve_evidence"} /\ st' = Evidence(st, r) /\ active' = {"news_veto_node"}
      /\ given' = given /\ met' = [met EXCEPT !.retrieval = r]
      /\ attempt' = attempt /\ asked' = asked
  BY Moves DEF RunRetrieval, Inv, Nodes, Successors
<1>2. st \in StateType /\ met \in MetType
  BY DEF Inv, TypeOK, StateType, MetType
<1>3. Proposed /\ Pending /\ st.errors = {} /\ asked = 0 /\ attempt = 0
  BY <1>1 DEF Inv, AtRetrieval
<1>4. /\ st'.proposal = st.proposal /\ st'.veto = st.veto /\ st'.verdicts = st.verdicts
      /\ st'.errors = {} => given.retriever /\ ~RetrievalFails(r)
      /\ met'.signal = met.signal /\ met'.answer = met.answer /\ met'.retrieval = r
  BY <1>1, <1>2, <1>3 DEF Evidence, StateType, MetType, Proposed, IsHold
<1>5. r # None
  BY NoneAssumption
<1>6. EntryIsSignal' /\ VetoFacts'
  BY <1>1, <1>3, <1>4 DEF Inv, EntryIsSignal, VetoFacts, Proposed
<1>7. RequestsAreBounded'
  BY <1>1, <1>4 DEF Inv, RequestsAreBounded
<1>8. (Proposed /\ Pending /\ Retrieved /\ asked = attempt)'
  BY <1>1, <1>3, <1>4, <1>5 DEF Proposed, Pending, Retrieved
<1>9. QED
  BY <1>1, <1>6, <1>7, <1>8
     DEF Places, AtBegin, AtRetrieval, AtVeto, AtMerge, AtValidation, AtEnd

\* The one agent the graph reaches.
LEMMA AtNews ==
    ASSUME Inv, NEW node \in DOMAIN AgentOf, node \in active
    PROVE  /\ node = "news_veto_node" /\ active = {node} /\ AgentOf[node] = "news_macro"
           /\ Proposed /\ Pending /\ Retrieved /\ asked = attempt
<1>1. PICK other \in Nodes : active = {other}
  BY DEF Inv, TypeOK
<1>2. active = {node} /\ node \in {"news_veto_node", "structure_veto_node"}
  BY <1>1 DEF AgentOf
<1>3. node = "news_veto_node"
  BY <1>2 DEF Inv
<1>4. QED
  BY <1>2, <1>3 DEF Inv, AtVeto, AgentOf

\* A verdict of the agent, given or asked for, and the way to the merge.
LEMMA JudgedStep ==
    ASSUME Inv, NEW node \in DOMAIN AgentOf, NEW verdict \in {"none", "applied", "fail_closed"},
           Goes(node, Judged(st, AgentOf[node], verdict)),
           met'.signal = met.signal, met'.retrieval = met.retrieval,
           verdict = "none" => given.llm /\ met'.answer = "agrees",
           verdict = "applied" => met'.answer = "objects",
           verdict = "fail_closed" => ~given.llm \/ met'.answer \notin {"objects", "agrees"}
    PROVE  /\ Places' /\ EntryIsSignal' /\ VetoFacts'
           /\ active' \notin {{"structure_veto_node"}, {"data_integrity_node"}}
<1>1. node \in active
  BY DEF Goes
<1>2. /\ node = "news_veto_node" /\ AgentOf[node] = "news_macro"
      /\ Proposed /\ Pending /\ Retrieved
  BY <1>1, AtNews
<1>3. /\ st' = Judged(st, "news_macro", verdict) /\ active' = {"merge_veto"} /\ given' = given
  BY <1>2, Moves DEF Inv, Nodes, Successors
<1>4. st \in StateType
  BY DEF Inv, TypeOK, StateType
<1>5. /\ st'.proposal = st.proposal /\ st'.veto = st.veto /\ st'.errors = st.errors
      /\ st'.verdicts = [st.verdicts EXCEPT !["news_macro"] = verdict]
  BY <1>2, <1>3, <1>4 DEF Judged, StateType, Proposed, IsHold
<1>6. /\ st'.verdicts["news_macro"] = verdict
      /\ \A a \in Agents \ {"news_macro"} : st'.verdicts[a] = "pending"
  BY <1>2, <1>4, <1>5 DEF Pending, Agents, StateType
<1>7. EntryIsSignal' /\ VetoFacts'
  BY <1>2, <1>3, <1>5 DEF Inv, EntryIsSignal, VetoFacts, Proposed
<1>8. Proposed' /\ Retrieved'
  BY <1>2, <1>3, <1>5 DEF Proposed, Retrieved
<1>9. AtMerge'
  BY <1>3, <1>6, <1>8 DEF AtMerge, Agreed
<1>10. QED
  BY <1>3, <1>7, <1>9 DEF Places, AtBegin, AtRetrieval, AtVeto, AtValidation, AtEnd

LEMMA UnaskedStep ==
    ASSUME Inv, NEW node \in DOMAIN AgentOf, RunUnasked(node)
    PROVE  /\ Places' /\ EntryIsSignal' /\ VetoFacts' /\ RequestsAreBounded'
           /\ active' \notin {{"structure_veto_node"}, {"data_integrity_node"}}
<1>1. Goes(node, Judged(st, AgentOf[node], "fail_closed")) /\ given' = given
      /\ met' = met /\ asked' = asked
  BY DEF RunUnasked, Goes
<1>2. ~given.llm
  BY <1>1, AtNews DEF RunUnasked, Goes, Proposed, IsHold
<1>3. RequestsAreBounded'
  BY <1>1 DEF Inv, RequestsAreBounded
<1>4. QED
  BY <1>1, <1>2, <1>3, JudgedStep

\* An entry is on its way: the requests for it are not bounded by 0.
LEMMA Spent ==
    ASSUME Inv, NEW node \in DOMAIN AgentOf, Asks(node)
    PROVE  /\ Proposed /\ Pending /\ Retrieved /\ asked = attempt
           /\ active = {"news_veto_node"} /\ asked + 1 <= RetryAttempts + 1
           /\ ~(met.signal = "HOLD" \/ given.snapshot # "fresh")
<1>1. /\ Proposed /\ Pending /\ Retrieved /\ asked = attempt /\ active = {"news_veto_node"}
  BY AtNews DEF Asks
<1>2. attempt \in 0..RetryAttempts /\ asked \in Nat
  BY DEF Inv, TypeOK
<1>3. st.proposal = met.signal /\ given.snapshot = "fresh" /\ met.signal # "HOLD"
  BY <1>1 DEF Inv, EntryIsSignal, Proposed, Entries
<1>4. QED
  BY <1>1, <1>2, <1>3, RetryAssumption

LEMMA AgainStep ==
    ASSUME Inv, NEW node \in DOMAIN AgentOf, AskAgain(node)
    PROVE  /\ Places' /\ EntryIsSignal' /\ VetoFacts' /\ RequestsAreBounded'
           /\ active' \notin {{"structure_veto_node"}, {"data_integrity_node"}}
<1>1. /\ given' = given /\ active' = active /\ st' = st /\ met' = met
      /\ attempt' = attempt + 1 /\ asked' = asked + 1 /\ Asks(node)
  BY DEF AskAgain
<1>2. RequestsAreBounded'
  BY <1>1, Spent DEF RequestsAreBounded
<1>3. EntryIsSignal' /\ VetoFacts'
  BY <1>1 DEF Inv, EntryIsSignal, VetoFacts, Agreed
<1>4. /\ Proposed' /\ Pending' /\ Retrieved' /\ asked' = attempt' /\ active' = {"news_veto_node"}
  BY <1>1, Spent DEF Proposed, Pending, Retrieved
<1>5. QED
  BY <1>2, <1>3, <1>4
     DEF Places, AtBegin, AtRetrieval, AtVeto, AtMerge, AtValidation, AtEnd

LEMMA AnswerStep ==
    ASSUME Inv, NEW node \in DOMAIN AgentOf, NEW answer \in Answers, TakeAnswer(node, answer)
    PROVE  /\ Places' /\ EntryIsSignal' /\ VetoFacts' /\ RequestsAreBounded'
           /\ active' \notin {{"structure_veto_node"}, {"data_integrity_node"}}
<1>1. /\ Asks(node) /\ Goes(node, Judged(st, AgentOf[node], Verdict(answer)))
      /\ asked' = asked + 1 /\ met' = [met EXCEPT !.answer = answer] /\ given' = given
      /\ given.llm
  BY DEF TakeAnswer, Goes, Asks
<1>2. met \in MetType
  BY DEF Inv, TypeOK, MetType
<1>3. met'.answer = answer /\ met'.signal = met.signal /\ met'.retrieval = met.retrieval
  BY <1>1, <1>2 DEF MetType
<1>4. /\ Verdict(answer) \in {"none", "applied", "fail_closed"}
      /\ Verdict(answer) = "none" => answer = "agrees"
      /\ Verdict(answer) = "applied" => answer = "objects"
      /\ Verdict(answer) = "fail_closed" => answer \notin {"objects", "agrees"}
  BY DEF Verdict
<1>5. RequestsAreBounded'
  BY <1>1, <1>3, Spent DEF RequestsAreBounded
<1>6. QED
  BY <1>1, <1>3, <1>4, <1>5, JudgedStep

LEMMA InvStep == Inv /\ [Next]_vars => Inv'
<1> SUFFICES ASSUME Inv, [Next]_vars PROVE Inv'
  OBVIOUS
<1>1. TypeOK'
  BY TypeStep DEF Inv
<1> DEFINE Kept == /\ Places' /\ EntryIsSignal' /\ VetoFacts' /\ RequestsAreBounded'
                   /\ active' \notin {{"structure_veto_node"}, {"data_integrity_node"}}
<1>2. CASE UNCHANGED vars
  <2>1. /\ given' = given /\ active' = active /\ st' = st /\ attempt' = attempt /\ met' = met
        /\ asked' = asked
    BY <1>2 DEF vars
  <2>2. ~late => ~late'
    BY <1>2, Zenon DEF vars
  <2>3. QED
    BY <1>1, <2>1, <2>2
       DEF Inv, Places, AtBegin, AtRetrieval, AtVeto, AtMerge, AtValidation, AtEnd, Begun,
           Proposed, Pending, Retrieved, Agreed, EntryIsSignal, VetoFacts, RequestsAreBounded
<1>3. CASE Next
  <2>1. ASSUME NEW node \in PlainNodes, Run(node) PROVE Kept
    BY <2>1, PlainStep
  <2>2. ASSUME NEW i \in Indicators, NEW sized \in BOOLEAN, RunSignal(i, sized) PROVE Kept
    BY <2>2, SignalStep
  <2>3. ASSUME NEW r \in Retrieval, RunRetrieval(r) PROVE Kept
    BY <2>3, RetrievalStep
  <2>4. ASSUME NEW node \in DOMAIN AgentOf,
               RunUnasked(node) \/ AskAgain(node)
               \/ \E answer \in Answers : TakeAnswer(node, answer)
        PROVE  Kept
    BY <2>4, UnaskedStep, AgainStep, AnswerStep
  <2> HIDE DEF Kept
  <2>5. Kept
    BY <1>3, <2>1, <2>2, <2>3, <2>4 DEF Next
  <2>6. QED
    BY <1>1, <2>5 DEF Inv, Places, Kept
<1>4. QED
  BY <1>1, <1>2, <1>3 DEF Inv, Places

LEMMA Invariance == Spec => []Inv
BY InvInit, InvStep, PTL DEF Spec

\* Nothing fails open: an entry comes out of the graph only cleared by everything
\* that could have refused it.
THEOREM EntriesAreCleared == Spec => []EntryIsCleared
<1>1. Inv => EntryIsCleared
  BY DEF Inv, EntryIsCleared, Returned, AtEnd, EntryIsSignal, Retrieved, Agreed
<1>2. QED
  BY <1>1, Invariance, PTL

\* A veto that failed closed is never reported as one the agent reasoned.
THEOREM VetoesAreNamed == Spec => []VetoIsNamed
<1>1. Inv => VetoIsNamed
  BY DEF Inv, VetoIsNamed, VetoFacts, Agreed
<1>2. QED
  BY <1>1, Invariance, PTL

\* However often the LLM fails, an invocation costs a bounded number of requests,
\* and one that holds none.
THEOREM CostIsBounded == Spec => []RequestsAreBounded
<1>1. Inv => RequestsAreBounded
  BY DEF Inv
<1>2. QED
  BY <1>1, Invariance, PTL
-----------------------------------------------------------------------------
(* The end of an invocation.  That a step is taken is fairness, and stays   *)
(* with TLC; that only so many can be taken is shown here.                  *)

\* How many nodes the longest way from a node to the end has.
Ahead ==
    [load_context |-> 10, validate_freshness |-> 9, signal_node |-> 8, veto_fanout |-> 7,
     retrieve_evidence |-> 6, news_veto_node |-> 5, structure_veto_node |-> 5,
     data_integrity_node |-> 5, merge_veto |-> 4, proposal_validator |-> 3, safe_hold |-> 2,
     persist_decision |-> 1]

AheadOf(nodes) == IF nodes = {} THEN 0 ELSE Ahead[CHOOSE node \in nodes : TRUE]

\* The steps an invocation can still take: at each node every attempt counts.
Remaining ==
    IF Returned THEN 0 ELSE AheadOf(active) * (RetryAttempts + 1) - attempt

\* Until the signal is computed, and where an error is turned into a HOLD, there
\* may be no proposal.
ProposalInv ==
    st.proposal = "missing" =>
        active \in {{"load_context"}, {"validate_freshness"}, {"signal_node"}, {"safe_hold"}}

LEMMA AheadType == Ahead \in [Nodes -> 1..10]
BY DEF Ahead, Nodes, PlainNodes

LEMMA AheadOfOne == ASSUME NEW node PROVE AheadOf({node}) = Ahead[node]
<1>1. (CHOOSE other \in {node} : TRUE) = node
  OBVIOUS
<1>2. QED
  BY <1>1 DEF AheadOf

\* Every edge of the graph leads nearer to the end.
LEMMA EdgesLeadOn ==
    ASSUME NEW node \in Nodes, NEW s
    PROVE  AheadOf(Successors(node, s)) \in 0..(Ahead[node] - 1)
<1>1. CASE Successors(node, s) = {}
  BY <1>1, AheadType DEF AheadOf
<1>2. ASSUME NEW next \in Nodes, Successors(node, s) = {next} PROVE Ahead[next] < Ahead[node]
  BY <1>2 DEF Successors, Nodes, PlainNodes, AfterErrors, AfterSignal, AfterSafeHold, Ahead
<1>3. ASSUME NEW next \in Nodes, Successors(node, s) = {next}
      PROVE  AheadOf(Successors(node, s)) \in 0..(Ahead[node] - 1)
  <2>1. AheadOf(Successors(node, s)) = Ahead[next]
    BY <1>3, AheadOfOne
  <2>2. Ahead[next] \in 1..10 /\ Ahead[node] \in 1..10
    BY AheadType
  <2>3. Ahead[next] < Ahead[node]
    BY <1>2, <1>3
  <2> HIDE DEF Nodes
  <2>4. QED
    BY <2>1, <2>2, <2>3
<1>4. QED
  BY <1>1, <1>3, SuccessorsType

\* Fewer nodes ahead, or more attempts made, is less that remains.
LEMMA Fewer ==
    ASSUME NEW before \in Nat, NEW after \in 0..(before - 1),
           NEW a \in 0..RetryAttempts, NEW b \in 0..RetryAttempts
    PROVE  after * (RetryAttempts + 1) - b < before * (RetryAttempts + 1) - a
<1> DEFINE all == RetryAttempts + 1
<1>1. all \in Nat /\ a < all /\ b >= 0
  BY RetryAssumption
<1>2. PICK more \in Nat : before = after + 1 + more
  <2>1. before - after - 1 \in Nat /\ before = after + 1 + (before - after - 1)
    OBVIOUS
  <2>2. QED
    BY <2>1
<1> HIDE DEF all
<1>3. before * all = after * all + all + more * all /\ more * all \in Nat /\ after * all \in Nat
  BY <1>1, <1>2, SMT
<1>4. after * all - b < before * all - a
  BY <1>1, <1>3, SMT
<1>5. QED
  BY <1>4 DEF all

LEMMA RemainingType == TypeOK => Remaining \in 0..(10 * (RetryAttempts + 1))
<1> SUFFICES ASSUME TypeOK PROVE Remaining \in 0..(10 * (RetryAttempts + 1))
  OBVIOUS
<1>1. CASE Returned
  BY <1>1, RetryAssumption DEF Remaining
<1>2. ASSUME NEW node \in Nodes, active = {node}
      PROVE  Remaining \in 0..(10 * (RetryAttempts + 1))
  <2> DEFINE ahead == Ahead[node]
             all == RetryAttempts + 1
  <2>1. Remaining = ahead * all - attempt
    BY <1>2, AheadOfOne DEF Remaining, Returned
  <2>2. ahead \in 1..10 /\ attempt \in 0..RetryAttempts /\ all \in Nat /\ attempt <= all
    BY AheadType, RetryAssumption DEF TypeOK
  <2> HIDE DEF ahead, all
  <2>3. ahead * all \in Nat /\ ahead * all <= 10 * all /\ all <= ahead * all
    BY <2>2, SMT
  <2>4. Remaining \in 0..(10 * all)
    BY <2>1, <2>2, <2>3, SMT
  <2>5. QED
    BY <2>4 DEF all
<1>3. QED
  BY <1>1, <1>2 DEF TypeOK, Returned

\* A node that runs leaves less to do, whatever becomes of the attempts.
LEMMA NodeStep ==
    ASSUME TypeOK, NEW node \in Nodes, NEW s, Goes(node, s), attempt' \in 0..RetryAttempts
    PROVE  Remaining' < Remaining
<1> DEFINE before == Ahead[node]
           after == AheadOf(Successors(node, s))
           all == RetryAttempts + 1
<1>1. active = {node} /\ active' = Successors(node, s)
  BY Moves
<1>2. before \in Nat /\ after \in 0..(before - 1)
  <2>1. before \in 1..10 /\ after \in 0..(before - 1)
    BY AheadType, EdgesLeadOn
  <2>2. QED
    BY <2>1
<1>3. Remaining = before * all - attempt
  BY <1>1, AheadOfOne DEF Remaining, Returned
<1>4. Remaining' = IF active' = {} THEN 0 ELSE after * all - attempt'
  BY <1>1 DEF Remaining, Returned
<1>5. attempt \in 0..RetryAttempts
  BY DEF TypeOK
<1>6. after * all - attempt' < before * all - attempt
  BY <1>2, <1>5, Fewer
<1>7. active' = {} => after = 0
  BY <1>1 DEF AheadOf
<1>8. active' = {} => 0 < before * all - attempt
  <2>1. 0 \in 0..(before - 1) /\ 0 \in 0..RetryAttempts
    BY <1>2, RetryAssumption
  <2>2. 0 * (RetryAttempts + 1) - 0 < before * (RetryAttempts + 1) - attempt
    BY <1>2, <1>5, <2>1, Fewer
  <2>3. 0 * (RetryAttempts + 1) - 0 = 0
    BY RetryAssumption
  <2>4. QED
    BY <2>2, <2>3
<1> HIDE DEF before, after, all
<1>9. QED
  BY <1>3, <1>4, <1>6, <1>8, Zenon

LEMMA RemainingStep == TypeOK /\ Next => Remaining' < Remaining
<1> SUFFICES ASSUME TypeOK, Next PROVE Remaining' < Remaining
  OBVIOUS
<1>1. attempt' \in 0..RetryAttempts
  BY TypeStep DEF TypeOK
<1>2. ASSUME NEW node \in PlainNodes, Run(node) PROVE Remaining' < Remaining
  BY <1>1, <1>2, NodeStep DEF Run, Nodes
<1>3. ASSUME NEW i \in Indicators, NEW sized \in BOOLEAN, RunSignal(i, sized)
      PROVE  Remaining' < Remaining
  <2>1. PICK s : Goes("signal_node", s)
    BY <1>3 DEF RunSignal
  <2>2. QED
    BY <1>1, <2>1, NodeStep DEF Nodes
<1>4. ASSUME NEW r \in Retrieval, RunRetrieval(r) PROVE Remaining' < Remaining
  BY <1>1, <1>4, NodeStep DEF RunRetrieval, Nodes
<1>5. ASSUME NEW node \in DOMAIN AgentOf,
             RunUnasked(node) \/ \E answer \in Answers : TakeAnswer(node, answer)
      PROVE  Remaining' < Remaining
  <2>1. PICK s : Goes(node, s)
    BY <1>5 DEF RunUnasked, TakeAnswer
  <2>2. QED
    BY <1>1, <2>1, NodeStep DEF AgentOf, Nodes
<1>6. ASSUME NEW node \in DOMAIN AgentOf, AskAgain(node) PROVE Remaining' < Remaining
  <2>1. /\ active # {} /\ active' = active /\ attempt' = attempt + 1 /\ attempt \in Nat
    BY <1>6, RetryAssumption DEF AskAgain, Asks, TypeOK
  <2>2. Remaining \in Int
    BY RemainingType, RetryAssumption
  <2>3. Remaining' = AheadOf(active) * (RetryAttempts + 1) - (attempt + 1)
    BY <2>1 DEF Remaining, Returned
  <2>4. Remaining = AheadOf(active) * (RetryAttempts + 1) - attempt
    BY <2>1 DEF Remaining, Returned
  <2>5. PICK other \in Nodes : active = {other}
    BY <2>1 DEF TypeOK
  <2>6. AheadOf(active) * (RetryAttempts + 1) \in Int
    <3>1. AheadOf(active) \in Nat
      BY <2>5, AheadOfOne, AheadType
    <3>2. QED
      BY <3>1, RetryAssumption
  <2>7. QED
    BY <2>1, <2>3, <2>4, <2>6
<1>7. QED
  BY <1>2, <1>3, <1>4, <1>5, <1>6 DEF Next

LEMMA ProposalStep == TypeOK /\ ProposalInv /\ [Next]_vars => ProposalInv'
<1> SUFFICES ASSUME TypeOK, ProposalInv, [Next]_vars, st'.proposal = "missing"
             PROVE  active' \in {{"load_context"}, {"validate_freshness"}, {"signal_node"},
                                 {"safe_hold"}}
  BY DEF ProposalInv
<1>1. st \in StateType
  BY DEF TypeOK, StateType
<1>2. CASE UNCHANGED vars
  BY <1>2 DEF vars, ProposalInv
<1>3. ASSUME NEW node \in PlainNodes, Run(node)
      PROVE  active' \in {{"load_context"}, {"validate_freshness"}, {"signal_node"},
                          {"safe_hold"}}
  <2>1. st' = Output(node, st) /\ active = {node} /\ active' = Successors(node, st')
    BY <1>3, Moves DEF Run, Nodes, Goes
  <2>2. st.proposal = "missing" /\ node # "safe_hold"
    BY <1>1, <2>1
       DEF Output, Freshness, Judged, Merge, Validate, SafeHold, StateType
  <2>3. node \in {"load_context", "validate_freshness"}
    BY <2>1, <2>2 DEF ProposalInv, PlainNodes
  <2>4. QED
    BY <2>1, <2>3 DEF Successors, AfterErrors
<1>4. ASSUME NEW i \in Indicators, NEW sized \in BOOLEAN, RunSignal(i, sized) PROVE FALSE
  <2> DEFINE signal == IF sized THEN Direction(i) ELSE "HOLD"
  <2>1. st' = [st EXCEPT !.proposal = signal]
    BY <1>4 DEF RunSignal, Goes
  <2>2. signal # "missing"
    BY DirectionType DEF Entries
  <2> HIDE DEF signal
  <2>3. QED
    BY <1>1, <2>1, <2>2 DEF StateType
<1>5. ASSUME NEW r \in Retrieval, RunRetrieval(r) PROVE FALSE
  <2>1. active = {"retrieve_evidence"} /\ st' = Evidence(st, r)
    BY <1>5, Moves DEF RunRetrieval, Nodes
  <2>2. st.proposal = "missing"
    BY <1>1, <2>1 DEF Evidence, StateType
  <2>3. QED
    BY <2>1, <2>2 DEF ProposalInv
<1>6. ASSUME NEW node \in DOMAIN AgentOf,
             RunUnasked(node) \/ AskAgain(node)
             \/ \E answer \in Answers : TakeAnswer(node, answer)
      PROVE  FALSE
  <2>1. node \in active /\ node \in {"news_veto_node", "structure_veto_node"}
    BY <1>6 DEF RunUnasked, AskAgain, TakeAnswer, Asks, Goes, AgentOf
  <2>2. st'.proposal = st.proposal
    BY <1>1, <1>6 DEF RunUnasked, AskAgain, TakeAnswer, Goes, Judged, StateType
  <2>3. QED
    BY <2>1, <2>2 DEF ProposalInv
<1>7. QED
  BY <1>2, <1>3, <1>4, <1>5, <1>6 DEF Next

\* Every invocation ends: it has at most ten nodes and their attempts ahead of it,
\* each step leaves less, and at the end there is a proposal.
THEOREM EveryDecisionEnds ==
    Spec => /\ [](/\ Remaining \in 0..(10 * (RetryAttempts + 1))
                  /\ Returned => st.proposal # "missing")
            /\ [][Remaining' < Remaining]_vars
<1>1. Init => ProposalInv
  BY DEF Init, ProposalInv
<1>2. ProposalInv => (Returned => st.proposal # "missing")
  BY DEF ProposalInv, Returned
<1>3. TypeOK /\ [Next]_vars => [Remaining' < Remaining]_vars
  BY RemainingStep
<1>4. QED
  BY <1>1, <1>2, <1>3, TypeInit, TypeStep, ProposalStep, RemainingType, PTL DEF Spec
=============================================================================
