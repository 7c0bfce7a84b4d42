----------------------------- MODULE DecisionGraph -----------------------------
(***************************************************************************)
(* One invocation of the LangGraph of build_trading_cycle_graph: which     *)
(* nodes run, in which order, and what they write to the state.  A node    *)
(* runs once an edge leads to it; Successors has the edges of the builder. *)
(*                                                                         *)
(* The score card is that of SignalScore.  What the search, the reranker   *)
(* and the LLM answer is chosen when they are asked, which takes time: the *)
(* signal may expire.  The LLM is asked again after a passing fault        *)
(* (ArkChatClient.complete_json).                                          *)
(***************************************************************************)
EXTENDS SignalScore

CONSTANT RetryAttempts      \* ark_retry_attempts

ASSUME RetryAssumption == RetryAttempts \in Nat

VARIABLES
    given,      \* what the invocation is given
    active,     \* the nodes to run next
    st,         \* GraphState
    attempt,    \* the failed attempts of the request to the LLM
    late,       \* valid_until is over
    asked,      \* requests sent to the LLM (history)
    met         \* what the nodes met (history)

vars == <<given, active, st, attempt, late, asked, met>>

Given ==
    [snapshot : {"fresh", "stale", "missing"},
     retriever : BOOLEAN, llm : BOOLEAN,            \* configured
     anomaly : BOOLEAN]                             \* of the book or the 24h range

Answers ==
    {"nothing",     \* no answer in the end, no JSON, or a veto without evidence
     "outside",     \* a reason that is not in the agent's charter
     "objects",     \* a veto with evidence
     "agrees"}      \* no veto

\* A search for the asset, one for material without an asset, and the reranker.
Retrieval ==
    [embeds : BOOLEAN,
     own : {"fails", "finds", "finds nothing"}, generic : {"fails", "finds", "finds nothing"},
     reranker : {"off", "works", "fails", "miscounts"}]

ASSUME NoneAssumption == None \notin Retrieval

Agents == {"news_macro", "structure_liquidity", "data_integrity"}
Verdicts == {"pending", "none", "applied", "fail_closed"}
Entries == {"LONG", "SHORT"}
Proposals == {"missing", "HOLD"} \cup Entries
Errors == {"snapshot", "retriever", "retrieval", "proposal", "expired"}
VetoTypes == {"unset", "veto_none", "veto_applied", "veto_fail_closed"}

\* What only reads the state, and what has to ask.
PlainNodes == {"load_context", "validate_freshness", "veto_fanout", "data_integrity_node",
               "merge_veto", "proposal_validator", "safe_hold", "persist_decision"}
Nodes == PlainNodes \cup {"signal_node", "retrieve_evidence",
                          "news_veto_node", "structure_veto_node"}

Init ==
    /\ given \in Given
    /\ active = {"load_context"}
    /\ st = [proposal |-> "missing", verdicts |-> [a \in Agents |-> "pending"],
             veto |-> "unset", errors |-> {}]
    /\ attempt = 0 /\ late = FALSE /\ asked = 0
    /\ met = [signal |-> "HOLD", retrieval |-> None, answer |-> "nothing"]

-----------------------------------------------------------------------------
(* What the nodes write.                                                   *)

\* Mutant: the action is compared in the wrong case.
IsHold_WrongCase(s) == s.proposal = "hold"

\* No proposal is a HOLD, too.
IsHold(s) == s.proposal \notin Entries

Freshness(s) ==
    [s EXCEPT !.errors = IF given.snapshot = "fresh" THEN @ ELSE @ \cup {"snapshot"}]

\* Generic material is searched for when there is none of the asset; an error of
\* the search that is made, or of the reranker, is an error of the retrieval.
RetrievalFails(r) ==
    \/ ~r.embeds
    \/ r.own = "fails"
    \/ r.own = "finds nothing" /\ r.generic = "fails"
    \/ /\ "finds" \in {r.own, r.generic}
       /\ r.reranker \in {"fails", "miscounts"}

\* Mutant: a retrieval that fails is a retrieval without a result.
Evidence_ErrorsDropped(s, r) == s

\* No evidence is no error; no retriever, and a retrieval that fails, are.
Evidence(s, r) ==
    [s EXCEPT !.errors = IF ~given.retriever THEN @ \cup {"retriever"}
                         ELSE IF ~IsHold(s) /\ RetrievalFails(r) THEN @ \cup {"retrieval"}
                         ELSE @]

\* _run_veto_agent: everything but an answer within the charter fails closed.
Verdict(answer) ==
    CASE answer = "objects" -> "applied"
      [] answer = "agrees" -> "none"
      [] OTHER -> "fail_closed"

Judged(s, agent, verdict) ==
    IF IsHold(s) THEN s ELSE [s EXCEPT !.verdicts[agent] = verdict]

\* Mutant: a verdict that failed closed is a veto like any other.
Merge_NotToldApart(s) ==
    IF \E a \in Agents : s.verdicts[a] \in {"fail_closed", "applied"}
    THEN [s EXCEPT !.proposal = "HOLD", !.veto = "veto_applied"]
    ELSE [s EXCEPT !.veto = "veto_none"]

\* Any veto blocks; a verdict that is still missing does not.
Merge(s) ==
    IF \E a \in Agents : s.verdicts[a] = "fail_closed"
    THEN [s EXCEPT !.proposal = "HOLD", !.veto = "veto_fail_closed"]
    ELSE IF \E a \in Agents : s.verdicts[a] = "applied"
    THEN [s EXCEPT !.proposal = "HOLD", !.veto = "veto_applied"]
    ELSE [s EXCEPT !.veto = "veto_none"]

Validate(s) ==
    [s EXCEPT !.errors = @ \cup
        (IF s.proposal = "missing" THEN {"proposal"}
         ELSE IF ~IsHold(s) /\ late THEN {"expired"} ELSE {})]

SafeHold(s) == [s EXCEPT !.proposal = "HOLD"]

Output(node, s) ==
    CASE node = "validate_freshness" -> Freshness(s)
      [] node = "data_integrity_node" ->
            Judged(s, "data_integrity", IF given.anomaly THEN "applied" ELSE "none")
      [] node = "merge_veto" -> Merge(s)
      [] node = "proposal_validator" -> Validate(s)
      [] node = "safe_hold" -> SafeHold(s)
      [] OTHER -> s

-----------------------------------------------------------------------------
(* The edges.                                                              *)

\* Both conditional edges on errors.
AfterErrors(s, otherwise) ==
    IF s.errors = {} THEN {otherwise} ELSE {"safe_hold"}

\* Mutant: the news veto does not wait for the retrieval.
AfterSignal_NoWait(s) ==
    IF IsHold(s) THEN {"persist_decision"} ELSE {"retrieve_evidence", "news_veto_node"}

AfterSignal(s) == IF IsHold(s) THEN {"persist_decision"} ELSE {"veto_fanout"}

\* Mutant: after a hold for safety the proposal is validated once more.
AfterSafeHold_Validated == {"proposal_validator"}

AfterSafeHold == {"persist_decision"}

Successors(node, s) ==
    CASE node = "load_context" -> {"validate_freshness"}
      [] node = "validate_freshness" -> AfterErrors(s, "signal_node")
      [] node = "signal_node" -> AfterSignal(s)
      [] node = "veto_fanout" -> {"retrieve_evidence"}
      [] node = "retrieve_evidence" -> {"news_veto_node"}
      [] node \in {"news_veto_node", "structure_veto_node", "data_integrity_node"} ->
            {"merge_veto"}
      [] node = "merge_veto" -> {"proposal_validator"}
      [] node = "proposal_validator" -> AfterErrors(s, "persist_decision")
      [] node = "safe_hold" -> AfterSafeHold
      [] node = "persist_decision" -> {}

\* In this graph no superstep holds two nodes, so that a node may be run, and its
\* output merged, at once.
Goes(node, s) ==
    /\ node \in active
    /\ st' = s
    /\ active' = (active \ {node}) \cup Successors(node, s)
    /\ UNCHANGED given

-----------------------------------------------------------------------------
(* The nodes.                                                              *)

Run(node) ==
    /\ Goes(node, Output(node, st))
    /\ UNCHANGED <<attempt, late, asked, met>>

\* Without a price or an ATR a direction is a HOLD, too.
RunSignal(i, sized) ==
    LET signal == IF sized THEN Direction(i) ELSE "HOLD"
    IN  /\ Goes("signal_node", [st EXCEPT !.proposal = signal])
        /\ met' = [met EXCEPT !.signal = signal]
        /\ UNCHANGED <<attempt, late, asked>>

RunRetrieval(r) ==
    /\ Goes("retrieve_evidence", Evidence(st, r))
    /\ met' = [met EXCEPT !.retrieval = r]
    /\ late' \in {late, TRUE}
    /\ UNCHANGED <<attempt, asked>>

AgentOf == [news_veto_node |-> "news_macro", structure_veto_node |-> "structure_liquidity"]

\* A HOLD needs no veto; without an LLM an entry is blocked.
RunUnasked(node) ==
    /\ IsHold(st) \/ ~given.llm
    /\ Goes(node, Judged(st, AgentOf[node], "fail_closed"))
    /\ UNCHANGED <<attempt, late, asked, met>>

Asks(node) == node \in active /\ ~IsHold(st) /\ given.llm

\* A timeout, a transport error or a 5xx: the request is sent again.
AskAgain(node) ==
    /\ Asks(node) /\ attempt < RetryAttempts
    /\ attempt' = attempt + 1 /\ asked' = asked + 1
    /\ late' \in {late, TRUE}
    /\ UNCHANGED <<given, active, st, met>>

\* An answer, or the failure of the last attempt, or one that no retry mends.
TakeAnswer(node, answer) ==
    /\ Asks(node)
    /\ Goes(node, Judged(st, AgentOf[node], Verdict(answer)))
    /\ attempt' = 0 /\ asked' = asked + 1
    /\ late' \in {late, TRUE}
    /\ met' = [met EXCEPT !.answer = answer]

Next ==
    \/ \E node \in PlainNodes : Run(node)
    \/ \E i \in Indicators, sized \in BOOLEAN : RunSignal(i, sized)
    \/ \E r \in Retrieval : RunRetrieval(r)
    \/ \E node \in DOMAIN AgentOf :
          RunUnasked(node) \/ AskAgain(node) \/ \E answer \in Answers : TakeAnswer(node, answer)

\* invoke runs the graph until no node is active.
Spec == Init /\ [][Next]_vars /\ WF_vars(Next)

-----------------------------------------------------------------------------
(* Properties.                                                             *)

TypeOK ==
    /\ given \in Given
    /\ active = {} \/ \E node \in Nodes : active = {node}
    /\ st \in [proposal : Proposals, verdicts : [Agents -> Verdicts],
               veto : VetoTypes, errors : SUBSET Errors]
    /\ attempt \in 0..RetryAttempts /\ late \in BOOLEAN /\ asked \in Nat
    /\ met \in [signal : {"HOLD"} \cup Entries, retrieval : Retrieval \cup {None},
                answer : Answers]

Returned == active = {}

\* Nothing fails open: the graph returns an entry only if it goes the way of the
\* score, the data was fresh, every search that was made and the reranker worked,
\* the LLM answered within its charter and agreed, and the signal is still valid.
EntryIsCleared ==
    Returned /\ st.proposal \in Entries =>
        /\ st.proposal = met.signal /\ given.snapshot = "fresh"
        /\ given.retriever /\ met.retrieval # None /\ ~RetrievalFails(met.retrieval)
        /\ given.llm /\ met.answer = "agrees" /\ ~late

\* What failed closed, and what was refused, is told apart in what the graph
\* returns.
VetoIsNamed ==
    Returned =>
        /\ st.veto = "veto_applied" => met.answer = "objects"
        /\ st.veto = "veto_fail_closed" => ~given.llm \/ met.answer \notin {"objects", "agrees"}
        /\ st.veto = "veto_none" => met.answer = "agrees"

\* A HOLD signal, and data that is not fresh, cost no request to the LLM; an entry
\* costs no more than one and its repetitions.
RequestsAreBounded ==
    asked <= IF met.signal = "HOLD" \/ given.snapshot # "fresh" THEN 0 ELSE RetryAttempts + 1

\* Every invocation returns, with a proposal.
GraphReturns == <>(Returned /\ st.proposal # "missing")

\* No entry while the book or the price range is inconsistent.
AnomaliesAreVetoed == Returned /\ st.proposal \in Entries => ~given.anomaly
=============================================================================
