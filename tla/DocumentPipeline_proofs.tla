------------------------ MODULE DocumentPipeline_proofs ------------------------
(***************************************************************************)
(* What the document pipeline keeps for any sources, series, documents and *)
(* limit of attempts: its types, the limit of the requests to the model,   *)
(* the order of the writes to PostgreSQL and to Milvus, and the finality   *)
(* of an indexed row.                                                      *)
(***************************************************************************)
EXTENDS DocumentPipeline, TLAPS

\* What a commit leaves of the observations is again a version for each series.
LEMMA CommitTyped ==
    ASSUME TypeOK
    PROVE  Committed \in [Series -> Versions] /\ Nothing \in [Series -> Versions]
    BY DEF TypeOK, Committed, Nothing, Versions

LEMMA MatchingTyped ==
    ASSUME TypeOK, NEW d \in Document, NEW u \in Target(d)
    PROVE  /\ u \in Urls
           /\ rows[u].status = "absent" \/ ~Done(rows[u])
           /\ Attempted(u, d) \in [Urls -> Row]
           /\ Attempted(u, d)[u].status # "absent"
           /\ At(u, d) \in Jobs
<1>1. u \in Urls /\ (rows[u].status = "absent" \/ ~Done(rows[u]))
    <2>1. CASE Matching(d) = {}
        <3>1. u = d.url /\ d.url \in Urls
            BY <2>1 DEF Target, Document
        <3> QED BY <2>1, <3>1 DEF Matching
    <2>2. CASE Matching(d) # {}
        BY <2>2 DEF Target, Matching
    <2> QED BY <2>1, <2>2
<1>2. rows[u] \in Row /\ Created(d) \in Row /\ Again(rows[u]) \in Row
    BY <1>1 DEF TypeOK, Row, Created, Again, Document, Statuses
<1> DEFINE next == IF rows[u].status = "absent" THEN Created(d)
                   ELSE Again(rows[u])
<1>3. Attempted(u, d) = [rows EXCEPT ![u] = next]
    BY DEF Attempted
<1>7. next \in Row
    BY <1>2
<1>4. next.status # "absent"
    BY <1>2 DEF Created, Again, Row
<1> HIDE DEF next
<1>6. Attempted(u, d) \in [Urls -> Row] /\ Attempted(u, d)[u] = next
    BY <1>1, <1>3, <1>7 DEF TypeOK
<1>5. At(u, d) \in Jobs
    BY <1>1 DEF At, Jobs, Statuses, Document
<1> QED BY <1>1, <1>4, <1>5, <1>6

LEMMA TypesAtInit == ASSUME PipelineAssumption, Init PROVE TypeOK
    BY DEF PipelineAssumption, Init, TypeOK, Nothing, Versions, Absent, Row, Statuses,
           Idle, Jobs

LEMMA ListedAreDocuments ==
    ASSUME PipelineAssumption, TypeOK,
           NEW whole, NEW broken \in SUBSET (Sources \cup Due), NEW T \in Listed(whole, broken)
    PROVE  T \subseteq Document
<1>1. ASSUME NEW S, S \subseteq Sources PROVE Shown(S) \subseteq Document
    BY <1>1 DEF Shown, TypeOK, PipelineAssumption
<1>2. ASSUME NEW A, A \subseteq Sources, NEW B, B \subseteq Sources, NEW D \in Given(A, B)
      PROVE  D \subseteq Document
    BY <1>1, <1>2 DEF Given
<1>3. PICK news \in News(whole, broken), events \in Events(whole, broken) : T = news \cup events
    BY DEF Listed
<1>4. PICK D \in Given(whole \cap (Sources \ Press), broken \cap (Sources \ Press)) :
                news \in OncePerUrl(D)
    BY <1>3 DEF News
<1>5. news \subseteq Document
    BY <1>2, <1>4 DEF OncePerUrl
<1>6. events \subseteq Document
    BY <1>2, <1>3 DEF Events, PipelineAssumption
<1> QED BY <1>3, <1>5, <1>6

LEMMA TypesAtCollect ==
    ASSUME PipelineAssumption, TypeOK, NEW parsed \in SUBSET (Sources \cup Due),
           NEW broken \in SUBSET (Sources \cup Due), Collect(parsed, broken)
    PROVE  TypeOK'
<1>1. todo' \subseteq Document
    BY ListedAreDocuments DEF Collect
<1>2. /\ validated' \subseteq Tagged /\ marked' \subseteq Series
      /\ pending' \in [Series -> Versions]
    BY DEF TypeOK, Collect, Due
<1>3. worker' = Between /\ worker' \in Jobs
    BY PipelineAssumption DEF Collect, Between, Idle, Jobs, Statuses
<1>4. UNCHANGED <<feed, stored, rows, vectors, calls>>
    BY DEF Collect, tables
<1> QED BY <1>1, <1>2, <1>3, <1>4 DEF TypeOK, Between, Idle

LEMMA TypesAtDocument ==
    ASSUME PipelineAssumption, TypeOK, OneDocument \/ Finish
    PROVE  TypeOK'
<1> USE PipelineAssumption DEF TypeOK
<1>1. ASSUME NEW d \in todo, Skip(d) PROVE TypeOK'
    <2>1. todo' \subseteq Document /\ worker.pc = "documents"
        BY <1>1 DEF Skip, Between, Idle
    <2> QED BY <1>1, <2>1 DEF Skip, outside, tables
<1>2. ASSUME NEW d \in todo, Take(d) PROVE TypeOK'
    <2>1. PICK u \in Target(d) : Commits(Attempted(u, d)) /\ worker' = At(u, d)
        BY <1>2 DEF Take
    <2>2. d \in Document OBVIOUS
    <2>3. /\ u \in Urls /\ Attempted(u, d) \in [Urls -> Row]
          /\ Attempted(u, d)[u].status # "absent" /\ At(u, d) \in Jobs
        BY <2>2, MatchingTyped
    <2>4. rows' = Attempted(u, d) /\ stored' \in [Series -> Versions]
          /\ pending' \in [Series -> Versions]
        BY <2>1, CommitTyped DEF Commits
    <2>5. worker'.row = u /\ worker'.pc \in {"summary", "mark"} /\ worker' \in Jobs
        BY <2>1, <2>3 DEF At
    <2> QED BY <1>2, <2>3, <2>4, <2>5 DEF Take, outside
<1>3. CASE SummaryFails
    <2>1. calls' \in [Urls -> Nat] /\ pending' \in [Series -> Versions]
        BY <1>3, CommitTyped DEF SummaryFails
    <2>2. worker' \in Jobs /\ worker'.pc = "mark" /\ worker'.row = worker.row
        BY <1>3 DEF SummaryFails, Marking, Jobs, Statuses
    <2> QED BY <1>3, <2>1, <2>2 DEF SummaryFails, outside, tables
<1>4. CASE Summarise
    <2>1. /\ rows' \in [Urls -> Row] /\ rows'[worker.row].status = rows[worker.row].status
          /\ stored' \in [Series -> Versions] /\ pending' \in [Series -> Versions]
        BY <1>4, CommitTyped DEF Summarise, Commits, Row
    <2>2. worker' \in Jobs /\ worker'.pc = "index" /\ worker'.row = worker.row
        BY <1>4 DEF Summarise, Jobs
    <2>3. calls' \in [Urls -> Nat]
        BY <1>4 DEF Summarise
    <2> QED BY <1>4, <2>1, <2>2, <2>3 DEF Summarise, outside
<1>5. CASE Index \/ IndexFails
    <2>1. Chunks \subseteq [doc : Urls \X Nat, text : Texts]
        BY <1>5 DEF Index, IndexFails, Chunks, Jobs, Row
    <2>2. vectors' \subseteq [doc : Urls \X Nat, text : Texts]
        BY <1>5, <2>1 DEF Index, IndexFails
    <2>3. worker' \in Jobs /\ worker'.pc = "mark" /\ worker'.row = worker.row
        BY <1>5 DEF Index, IndexFails, Marking, Jobs, Statuses
    <2> QED BY <1>5, <2>2, <2>3 DEF Index, IndexFails, outside, tables
<1>6. CASE Mark
    <2>1. /\ rows' \in [Urls -> Row]
          /\ stored' \in [Series -> Versions] /\ pending' \in [Series -> Versions]
        BY <1>6, CommitTyped DEF Mark, Commits, Row, Jobs, Statuses
    <2>2. worker' \in Jobs /\ worker' = Between
        BY <1>6 DEF Mark, Between, Idle, Jobs, Statuses
    <2> QED BY <1>6, <2>1, <2>2 DEF Mark, outside, Between, Idle
<1>7. CASE Finish
    BY <1>7, CommitTyped DEF Finish, Commits, Idle, Jobs, Statuses, outside
<1> QED BY <1>1, <1>2, <1>3, <1>4, <1>5, <1>6, <1>7 DEF OneDocument

LEMMA TypesKept ==
    ASSUME PipelineAssumption, TypeOK, [Next]_vars
    PROVE  TypeOK'
<1> USE PipelineAssumption
<1>1. ASSUME NEW s \in Sources, Publish(s) PROVE TypeOK'
    BY <1>1 DEF TypeOK, Publish, tables
<1>2. ASSUME NEW k \in Series, Release(k) PROVE TypeOK'
    <2>1. stored' \in [Series -> Versions] /\ pending' \in [Series -> Versions]
        BY <1>2 DEF TypeOK, Release, Aged, Versions
    <2>2. pending = Nothing => pending' = Nothing
        BY <1>2 DEF TypeOK, Release, Aged, Nothing
    <2> QED BY <1>2, <2>1, <2>2 DEF TypeOK, Release
<1>3. ASSUME NEW k \in Series, IntervalEnds(k) PROVE TypeOK'
    BY <1>3 DEF TypeOK, IntervalEnds, tables
<1>4. ASSUME NEW parsed \in SUBSET (Sources \cup Due), NEW broken \in SUBSET (Sources \cup Due),
             Collect(parsed, broken)
      PROVE  TypeOK'
    BY <1>4, TypesAtCollect
<1>5. CASE OneDocument \/ Finish
    BY <1>5, TypesAtDocument
<1>6. CASE Abort
    BY <1>6, CommitTyped DEF TypeOK, Abort, Idle, Jobs, Statuses, outside, tables
<1>7. CASE Restart
    <2>1. calls' \in [Urls -> Nat]
        BY <1>7 DEF TypeOK, Restart
    <2> QED BY <1>7, <2>1, CommitTyped DEF TypeOK, Restart, Idle, Jobs, Statuses, tables
<1>8. CASE UNCHANGED vars
    BY <1>8 DEF TypeOK, vars, outside, tables
<1> QED BY <1>1, <1>2, <1>3, <1>4, <1>5, <1>6, <1>7, <1>8 DEF Next, Environment, Round
-----------------------------------------------------------------------------
\* The type invariant: a document is processed for a row the database has, and
\* the session holds nothing between two rounds.
THEOREM Typing == ASSUME PipelineAssumption PROVE Spec => []TypeOK
<1>1. Init => TypeOK
    BY TypesAtInit
<1>2. TypeOK /\ [Next]_vars => TypeOK'
    BY TypesKept
<1> QED BY <1>1, <1>2, PTL DEF Spec
-----------------------------------------------------------------------------
(* The inductive invariant: with the requests made, the one that is about  *)
(* to be made counts against the attempts of the row in hand; and what     *)
(* stands in PostgreSQL and Milvus before a document is marked.            *)

Asked(u) == calls[u] + (IF worker.pc = "summary" /\ worker.row = u THEN 1 ELSE 0)

Budget ==
    \A u \in Urls : /\ Asked(u) <= rows[u].attempts
                    /\ Cap > 0 => rows[u].attempts <= Cap

Indexing == worker.pc = "mark" /\ worker.verdict = "INDEXED"

InHand ==
    /\ worker.pc \in {"summary", "index", "mark"} => rows[worker.row].status # "INDEXED"
    /\ worker.pc \in {"summary", "index"} => worker.text # NoText
    /\ worker.pc = "index" \/ Indexing => rows[worker.row].summary /\ calls[worker.row] > 0
    /\ Indexing => \E v \in vectors : v.doc[1] = worker.row /\ v.text # NoText

NoTrace == \A u \in Urls : rows[u].status = "absent" => rows[u] = Absent

IInv == TypeOK /\ NoTrace /\ Budget /\ InHand /\ PostgresFirst /\ IndexedIsSearchable

\* What every step does to the tables.
RowsGrow ==
    \A u \in Urls : /\ rows[u].attempts <= rows'[u].attempts
                    /\ rows[u].summary => rows'[u].summary

LEMMA GrowthKeepsOrder ==
    ASSUME TypeOK, TypeOK', RowsGrow, PostgresFirst, vectors' = vectors
    PROVE  PostgresFirst'
<1> SUFFICES ASSUME NEW v \in vectors
             PROVE  rows'[v.doc[1]].summary /\ v.doc[2] <= rows'[v.doc[1]].attempts
    BY DEF PostgresFirst
<1>1. v.doc[1] \in Urls /\ v.doc[2] \in Nat
    BY DEF TypeOK
<1>2. rows[v.doc[1]].summary /\ v.doc[2] <= rows[v.doc[1]].attempts
    BY DEF PostgresFirst
<1>3. rows[v.doc[1]].attempts \in Nat /\ rows'[v.doc[1]].attempts \in Nat
    BY <1>1 DEF TypeOK, Row
<1> QED BY <1>1, <1>2, <1>3 DEF RowsGrow

\* What a step does to the invariant and to the indexed rows.
Final ==
    \A u \in Urls : rows[u].status = "INDEXED" =>
        rows'[u] = rows[u] /\ calls'[u] = calls[u] /\ VectorsOf(u)' = VectorsOf(u)

Kept == NoTrace' /\ Budget' /\ InHand' /\ PostgresFirst' /\ IndexedIsSearchable' /\ Final

\* A step that leaves the tables, Milvus and the requests alone, and comes from no
\* document or goes on with the one in hand, keeps everything.
LEMMA AsideKeeps ==
    ASSUME IInv, UNCHANGED <<rows, vectors, calls>>,
           worker' = worker \/ worker' = Idle \/ worker' = Between
    PROVE  Kept
<1>1. Budget'
    <2> SUFFICES ASSUME NEW u \in Urls
                 PROVE  Asked(u)' <= rows[u].attempts /\ (Cap > 0 => rows[u].attempts <= Cap)
        BY DEF Budget
    <2>1. Asked(u) <= rows[u].attempts /\ (Cap > 0 => rows[u].attempts <= Cap)
        BY DEF IInv, Budget
    <2>2. calls[u] \in Nat /\ rows[u].attempts \in Nat
        BY DEF IInv, TypeOK, Row
    <2> QED BY <2>1, <2>2 DEF Asked, Idle, Between
<1>2. InHand'
    BY DEF IInv, InHand, Indexing, Idle, Between
<1>3. NoTrace' /\ PostgresFirst' /\ IndexedIsSearchable' /\ Final
    BY DEF IInv, NoTrace, PostgresFirst, IndexedIsSearchable, Final, VectorsOf
<1> QED BY <1>1, <1>2, <1>3 DEF Kept

LEMMA RestartKeeps == ASSUME IInv, Restart PROVE Kept
<1> USE DEF IInv
<1>1. worker' = Idle /\ UNCHANGED <<rows, vectors>>
    BY DEF Restart, tables
<1>2. \A u \in Urls : calls'[u] <= Asked(u) /\ calls'[u] \in Nat
    BY DEF Restart, Asked, TypeOK
<1>3. Budget'
    <2> SUFFICES ASSUME NEW u \in Urls
                 PROVE  Asked(u)' <= rows[u].attempts /\ (Cap > 0 => rows[u].attempts <= Cap)
        BY <1>1 DEF Budget
    <2>1. Asked(u) <= rows[u].attempts /\ (Cap > 0 => rows[u].attempts <= Cap)
        BY DEF Budget
    <2>2. Asked(u)' = calls'[u] /\ calls'[u] \in Nat /\ calls'[u] <= Asked(u)
        BY <1>1, <1>2 DEF Asked, Idle
    <2>3. rows[u].attempts \in Nat /\ Asked(u) \in Nat
        BY DEF TypeOK, Row, Asked
    <2> QED BY <2>1, <2>2, <2>3
<1>4. InHand'
    BY <1>1 DEF InHand, Indexing, Idle
<1>5. NoTrace' /\ PostgresFirst' /\ IndexedIsSearchable'
    BY <1>1 DEF NoTrace, PostgresFirst, IndexedIsSearchable
<1>6. Final
    <2> SUFFICES ASSUME NEW u \in Urls, rows[u].status = "INDEXED"
                 PROVE  calls'[u] = calls[u]
        BY <1>1 DEF Final, VectorsOf
    <2>1. ~(worker.pc = "summary" /\ worker.row = u)
        BY DEF InHand
    <2> QED BY <2>1 DEF Restart, TypeOK
<1> QED BY <1>3, <1>4, <1>5, <1>6 DEF Kept

LEMMA TakeKeeps ==
    ASSUME PipelineAssumption, IInv, TypeOK', NEW d \in todo, Take(d)
    PROVE  Kept
<1> USE DEF IInv
<1>1. PICK t \in Target(d) : rows' = Attempted(t, d) /\ worker' = At(t, d)
    BY DEF Take, Commits
<1>2. t \in Urls /\ (rows[t].status = "absent" \/ ~Done(rows[t])) /\ rows[t].status # "INDEXED"
    <2>1. d \in Document
        BY DEF TypeOK
    <2> QED BY <2>1, MatchingTyped DEF Done
<1>3. vectors' = vectors /\ calls' = calls /\ worker.pc = "documents"
    BY DEF Take, Between, Idle
<1>4. /\ rows'[t] = IF rows[t].status = "absent" THEN Created(d) ELSE Again(rows[t])
      /\ \A u \in Urls : u # t => rows'[u] = rows[u]
    BY <1>1, <1>2 DEF Attempted, TypeOK
<1>5. rows[t] \in Row /\ calls[t] \in Nat /\ Cap \in Int
    BY <1>2, PipelineAssumption DEF TypeOK
<1>6. /\ rows'[t].status \notin {"absent", "INDEXED"}
      /\ rows'[t].attempts = rows[t].attempts + 1
      /\ rows'[t].summary = rows[t].summary
    <2>1. CASE rows[t].status = "absent"
        <3>1. rows[t] = Absent /\ rows'[t] = Created(d)
            BY <2>1, <1>2, <1>4 DEF NoTrace
        <3>2. /\ Absent.attempts = 0 /\ Absent.summary = FALSE
              /\ Created(d).attempts = 1 /\ Created(d).summary = FALSE
              /\ Created(d).status = "NEW"
            BY DEF Absent, Created
        <3>3. rows'[t].status \notin {"absent", "INDEXED"}
            BY <3>1, <3>2
        <3>4. rows'[t].attempts = 1 /\ rows[t].attempts = 0
            BY <3>1, <3>2
        <3>5. rows'[t].summary = FALSE /\ rows[t].summary = FALSE
            BY <3>1, <3>2
        <3>6. rows'[t].attempts = rows[t].attempts + 1
            BY <3>4
        <3>7. rows'[t].summary = rows[t].summary
            BY <3>5, Zenon
        <3> QED BY <3>3, <3>6, <3>7, Zenon
    <2>2. CASE rows[t].status # "absent"
        BY <2>2, <1>2, <1>4, <1>5 DEF Again, Row
    <2> QED BY <2>1, <2>2
<1>7. Cap > 0 => rows'[t].attempts <= Cap
    <2>1. CASE rows[t].status = "absent"
        BY <2>1, <1>2, <1>5, <1>6 DEF NoTrace, Absent
    <2>2. CASE ~Done(rows[t])
        BY <2>2, <1>5, <1>6 DEF Done, Exhausted, Row
    <2> QED BY <1>2, <2>1, <2>2
<1>8. NoTrace'
    BY <1>4, <1>6 DEF NoTrace
<1>9. Budget'
    <2> SUFFICES ASSUME NEW u \in Urls
                 PROVE  Asked(u)' <= rows'[u].attempts /\ (Cap > 0 => rows'[u].attempts <= Cap)
        BY DEF Budget
    <2>1. /\ calls[u] <= rows[u].attempts /\ (Cap > 0 => rows[u].attempts <= Cap)
          /\ calls[u] \in Nat /\ rows[u].attempts \in Nat
        BY <1>3 DEF Budget, Asked, TypeOK, Row
    <2>2. worker'.row = t
        BY <1>1 DEF At
    <2> QED BY <2>1, <2>2, <1>3, <1>4, <1>6, <1>7 DEF Asked
<1>10. InHand'
    BY <1>1, <1>6 DEF InHand, Indexing, At
<1>11. RowsGrow
    BY <1>4, <1>6 DEF RowsGrow, TypeOK, Row
<1>12. PostgresFirst'
    BY <1>3, <1>11, GrowthKeepsOrder
<1>13. IndexedIsSearchable'
    BY <1>3, <1>4, <1>6 DEF IndexedIsSearchable
<1>14. Final
    BY <1>2, <1>3, <1>4 DEF Final, VectorsOf
<1> QED BY <1>8, <1>9, <1>10, <1>12, <1>13, <1>14 DEF Kept

LEMMA SummaryKeeps ==
    ASSUME IInv, TypeOK', SummaryFails \/ Summarise
    PROVE  Kept
<1> USE DEF IInv
<1>1. /\ worker.pc = "summary" /\ worker.row \in Urls /\ worker.row = worker'.row
      /\ vectors' = vectors /\ worker.text # NoText
    BY DEF SummaryFails, Summarise, Marking, TypeOK, Jobs, InHand
<1>2. \A u \in Urls : /\ rows'[u].status = rows[u].status
                      /\ rows'[u].attempts = rows[u].attempts
                      /\ rows[u].summary => rows'[u].summary
                      /\ u # worker.row => rows'[u] = rows[u]
    BY DEF SummaryFails, Summarise, Commits, tables, TypeOK, Row
<1>3. \/ worker'.pc = "mark" /\ worker'.verdict = "FAILED"
      \/ worker'.pc = "index" /\ rows'[worker.row].summary /\ worker'.text = worker.text
    <2>1. CASE SummaryFails
        BY <2>1 DEF SummaryFails, Marking, TypeOK, Jobs
    <2>2. CASE Summarise
        BY <2>2 DEF Summarise, Commits, TypeOK, Jobs, Row
    <2> QED BY <2>1, <2>2
<1>4. \A u \in Urls : /\ calls'[u] = IF u = worker.row THEN calls[u] + 1 ELSE calls[u]
                      /\ calls'[u] = Asked(u)
    BY <1>1 DEF SummaryFails, Summarise, TypeOK, Asked
<1>5. NoTrace'
    BY <1>1, <1>2 DEF NoTrace, TypeOK
<1>6. Budget'
    <2> SUFFICES ASSUME NEW u \in Urls
                 PROVE  Asked(u)' <= rows'[u].attempts /\ (Cap > 0 => rows'[u].attempts <= Cap)
        BY DEF Budget
    <2>1. Asked(u)' = Asked(u)
        BY <1>3, <1>4 DEF Asked, TypeOK
    <2> QED BY <2>1, <1>2 DEF Budget
<1>7. InHand'
    <2>1. calls'[worker.row] > 0
        BY <1>1, <1>4 DEF TypeOK
    <2> QED BY <1>1, <1>2, <1>3, <2>1 DEF InHand, Indexing
<1>8. PostgresFirst'
    <2>1. RowsGrow
        BY <1>2 DEF RowsGrow, TypeOK, Row
    <2> QED BY <2>1, <1>1, GrowthKeepsOrder
<1>9. IndexedIsSearchable'
    BY <1>1, <1>2 DEF IndexedIsSearchable
<1>10. Final
    BY <1>1, <1>2, <1>4 DEF Final, VectorsOf, InHand
<1> QED BY <1>5, <1>6, <1>7, <1>8, <1>9, <1>10 DEF Kept

LEMMA IndexKeeps ==
    ASSUME IInv, TypeOK', Index \/ IndexFails
    PROVE  Kept
<1> USE DEF IInv
<1>1. /\ worker.pc = "index" /\ worker.row \in Urls /\ worker.text # NoText
      /\ rows[worker.row].summary /\ calls[worker.row] > 0
      /\ rows[worker.row].status # "INDEXED"
    BY DEF Index, IndexFails, TypeOK, InHand
<1>2. /\ rows' = rows /\ calls' = calls
      /\ worker'.pc = "mark" /\ worker'.row = worker.row
      /\ worker'.verdict \in {"INDEXED", "FAILED"}
    BY DEF Index, IndexFails, Marking, tables, TypeOK, Jobs
<1> DEFINE chunk == [doc |-> <<worker.row, rows[worker.row].attempts>>, text |-> worker.text]
<1>3. /\ vectors \subseteq vectors' /\ vectors' \subseteq vectors \cup {chunk}
      /\ worker'.verdict = "INDEXED" => chunk \in vectors'
    BY DEF Index, IndexFails, Chunks, Marking, TypeOK, Jobs
<1>4. chunk.doc[1] = worker.row /\ chunk.text = worker.text
      /\ chunk.doc[2] = rows[worker.row].attempts
    OBVIOUS
<1> HIDE DEF chunk
<1>5. NoTrace'
    BY <1>2 DEF NoTrace
<1>6. Budget'
    BY <1>1, <1>2 DEF Budget, Asked
<1>7. InHand'
    BY <1>1, <1>2, <1>3, <1>4 DEF InHand, Indexing
<1>8. PostgresFirst'
    <2>1. rows[chunk.doc[1]].summary /\ chunk.doc[2] <= rows[chunk.doc[1]].attempts
        BY <1>1, <1>4 DEF TypeOK, Row
    <2> QED BY <2>1, <1>2, <1>3 DEF PostgresFirst
<1>9. IndexedIsSearchable'
    BY <1>2, <1>3 DEF IndexedIsSearchable
<1>10. Final
    BY <1>1, <1>2, <1>3, <1>4 DEF Final, VectorsOf
<1> QED BY <1>5, <1>6, <1>7, <1>8, <1>9, <1>10 DEF Kept

LEMMA MarkKeeps == ASSUME IInv, TypeOK', Mark PROVE Kept
<1> USE DEF IInv
<1>1. /\ worker.pc = "mark" /\ worker.row \in Urls /\ worker' = Between
      /\ rows[worker.row].status \notin {"absent", "INDEXED"}
      /\ vectors' = vectors /\ calls' = calls /\ worker.verdict # "absent"
    BY DEF Mark, TypeOK, InHand, Jobs
<1>2. \A u \in Urls :
          /\ rows'[u].attempts = rows[u].attempts
          /\ rows[u].summary => rows'[u].summary
          /\ rows'[u].summary => rows[u].summary
          /\ rows'[u].status = IF u = worker.row THEN worker.verdict ELSE rows[u].status
          /\ u # worker.row => rows'[u] = rows[u]
    BY DEF Mark, Commits, TypeOK, Row
<1>3. NoTrace'
    BY <1>1, <1>2 DEF NoTrace
<1>4. Budget'
    BY <1>1, <1>2 DEF Budget, Asked, Between, Idle
<1>5. InHand'
    BY <1>1 DEF InHand, Indexing, Between, Idle
<1>6. PostgresFirst'
    <2>1. RowsGrow
        BY <1>2 DEF RowsGrow, TypeOK, Row
    <2> QED BY <2>1, <1>1, GrowthKeepsOrder
<1>7. IndexedIsSearchable'
    <2> SUFFICES ASSUME NEW u \in Urls, rows'[u].status = "INDEXED"
                 PROVE  rows'[u].summary /\ \E v \in vectors : v.doc[1] = u /\ v.text # NoText
        BY <1>1 DEF IndexedIsSearchable
    <2>1. CASE u = worker.row
        BY <2>1, <1>1, <1>2 DEF InHand, Indexing
    <2>2. CASE u # worker.row
        BY <2>2, <1>2 DEF IndexedIsSearchable
    <2> QED BY <2>1, <2>2
<1>8. Final
    BY <1>1, <1>2 DEF Final, VectorsOf
<1> QED BY <1>3, <1>4, <1>5, <1>6, <1>7, <1>8 DEF Kept

LEMMA StepKeeps ==
    ASSUME PipelineAssumption, IInv, [Next]_vars
    PROVE  IInv' /\ Final
<1>1. TypeOK'
    BY TypesKept DEF IInv
<1>2. Kept
    <2>1. CASE Environment
        BY <2>1, AsideKeeps DEF Environment, Publish, Release, IntervalEnds, tables
    <2>2. ASSUME NEW parsed \in SUBSET (Sources \cup Due),
                 NEW broken \in SUBSET (Sources \cup Due), Collect(parsed, broken)
          PROVE  Kept
        BY <2>2, AsideKeeps DEF Collect, tables
    <2>3. ASSUME NEW d \in todo, Skip(d) PROVE Kept
        BY <2>3, AsideKeeps DEF Skip, tables
    <2>4. ASSUME NEW d \in todo, Take(d) PROVE Kept
        BY <2>4, <1>1, TakeKeeps
    <2>5. CASE SummaryFails \/ Summarise
        BY <2>5, <1>1, SummaryKeeps
    <2>6. CASE Index \/ IndexFails
        BY <2>6, <1>1, IndexKeeps
    <2>7. CASE Mark
        BY <2>7, <1>1, MarkKeeps
    <2>8. CASE Finish
        BY <2>8, AsideKeeps DEF Finish, Commits
    <2>9. CASE Abort
        BY <2>9, AsideKeeps DEF Abort, tables
    <2>10. CASE Restart
        BY <2>10, RestartKeeps
    <2>11. CASE UNCHANGED vars
        BY <2>11, AsideKeeps DEF vars, tables
    <2> QED BY <2>1, <2>2, <2>3, <2>4, <2>5, <2>6, <2>7, <2>8, <2>9, <2>10, <2>11
            DEF Next, Round, OneDocument
<1> QED BY <1>1, <1>2 DEF IInv, Kept

LEMMA InvariantAtInit == ASSUME PipelineAssumption, Init PROVE IInv
<1>1. TypeOK
    BY TypesAtInit
<1>2. NoTrace /\ Budget
    BY PipelineAssumption DEF Init, NoTrace, Budget, Asked, Absent, Idle
<1>3. InHand /\ PostgresFirst /\ IndexedIsSearchable
    BY DEF Init, InHand, Indexing, Idle, PostgresFirst, IndexedIsSearchable, Absent
<1> QED BY <1>1, <1>2, <1>3 DEF IInv

THEOREM Invariance == ASSUME PipelineAssumption PROVE Spec => []IInv
<1>1. Init => IInv
    BY InvariantAtInit
<1>2. IInv /\ [Next]_vars => IInv'
    BY StepKeeps
<1> QED BY <1>1, <1>2, PTL DEF Spec

\* No document costs more requests to the model than the limit of attempts.
THEOREM RequestsAreLimited == ASSUME PipelineAssumption PROVE Spec => []CallsWithinCap
<1>1. IInv => CallsWithinCap
    <2> SUFFICES ASSUME IInv, Cap > 0, NEW u \in Urls PROVE calls[u] <= Cap
        BY DEF CallsWithinCap
    <2>1. Asked(u) <= rows[u].attempts /\ rows[u].attempts <= Cap
        BY DEF IInv, Budget
    <2>2. calls[u] \in Nat /\ rows[u].attempts \in Nat
        BY DEF IInv, TypeOK, Row
    <2> QED BY <2>1, <2>2, PipelineAssumption DEF Asked, PipelineAssumption
<1> QED BY <1>1, Invariance, PTL

\* A row marked INDEXED has its summary and its vectors.
THEOREM IndexedRowsAreSearchable ==
    ASSUME PipelineAssumption PROVE Spec => []IndexedIsSearchable
<1>1. IInv => IndexedIsSearchable
    BY DEF IInv
<1> QED BY <1>1, Invariance, PTL

\* Milvus never holds what PostgreSQL has not committed.
THEOREM PostgresLeads == ASSUME PipelineAssumption PROVE Spec => []PostgresFirst
<1>1. IInv => PostgresFirst
    BY DEF IInv
<1> QED BY <1>1, Invariance, PTL

\* What is indexed is not touched again.
THEOREM IndexedRowsAreFinal == ASSUME PipelineAssumption PROVE Spec => IndexedIsFinal
<1>1. IInv /\ [Next]_vars =>
        [\A u \in Urls : rows[u].status = "INDEXED" =>
            /\ rows'[u] = rows[u] /\ calls'[u] = calls[u]
            /\ VectorsOf(u)' = VectorsOf(u)]_vars
    BY StepKeeps DEF Final
<1> QED BY <1>1, Invariance, PTL DEF Spec, IndexedIsFinal
-----------------------------------------------------------------------------
(* The observations in the session.                                        *)

\* While a document is in hand the session holds no observation: the commit
\* that took the document has written them, and no later step adds any.
SessionInv == worker.pc \in {"summary", "index", "mark"} => pending = Nothing

\* What a step does with the observations the session holds.
Delivered ==
    \A k \in Series : pending[k] # "none" /\ pending'[k] = "none" =>
        stored'[k] = pending[k] \/ Abort \/ Restart

\* A commit writes every observation the session holds.
LEMMA CommitDelivers ==
    ASSUME NEW newRows, Commits(newRows)
    PROVE  pending' = Nothing /\ Delivered
    BY DEF Commits, Committed, Delivered

\* The passing of time makes an observation older; it makes none of nothing and
\* nothing of none.
LEMMA ReleaseDelivers ==
    ASSUME TypeOK, SessionInv, NEW k \in Series, Release(k)
    PROVE  SessionInv' /\ Delivered
<1>1. /\ pending \in [Series -> Versions] /\ worker' = worker
      /\ pending' = [pending EXCEPT ![k] = Aged(@)]
    BY DEF TypeOK, Release
<1>2. pending = Nothing => pending' = Nothing
    BY <1>1 DEF Aged, Nothing
<1>3. \A j \in Series : pending'[j] = "none" => pending[j] = "none"
    BY <1>1 DEF Aged, Versions
<1> QED BY <1>1, <1>2, <1>3 DEF SessionInv, Delivered

LEMMA SessionStep ==
    ASSUME TypeOK, SessionInv, [Next]_vars
    PROVE  SessionInv' /\ Delivered
<1>1. ASSUME UNCHANGED <<pending, worker>> PROVE SessionInv' /\ Delivered
    BY <1>1 DEF SessionInv, Delivered
<1>2. ASSUME NEW k \in Series, Release(k) PROVE SessionInv' /\ Delivered
    BY <1>2, ReleaseDelivers
<1>3. ASSUME NEW parsed \in SUBSET (Sources \cup Due), NEW broken \in SUBSET (Sources \cup Due),
             Collect(parsed, broken)
      PROVE  SessionInv' /\ Delivered
    <2>1. pending = Nothing /\ worker' = Between
        BY <1>3 DEF Collect, TypeOK, Idle
    <2> QED BY <2>1 DEF SessionInv, Delivered, Nothing, Between, Idle
<1>4. ASSUME NEW d \in todo, Take(d) PROVE SessionInv' /\ Delivered
    <2>1. pending' = Nothing /\ Delivered
        BY <1>4, CommitDelivers DEF Take
    <2> QED BY <2>1 DEF SessionInv
<1>5. CASE SummaryFails
    \* The rollback finds nothing in the session.
    <2>1. pending = Nothing /\ pending' = Nothing
        BY <1>5 DEF SummaryFails, SessionInv
    <2> QED BY <2>1 DEF SessionInv, Delivered, Nothing
<1>6. CASE Summarise \/ Mark \/ Finish
    <2>1. pending' = Nothing /\ Delivered
        BY <1>6, CommitDelivers DEF Summarise, Mark, Finish
    <2> QED BY <2>1 DEF SessionInv
<1>7. CASE Index \/ IndexFails
    <2>1. pending = Nothing /\ pending' = pending
        BY <1>7 DEF Index, IndexFails, SessionInv
    <2> QED BY <2>1 DEF SessionInv, Delivered
<1>8. CASE Abort \/ Restart
    <2>1. pending' = Nothing
        BY <1>8 DEF Abort, Restart
    <2> QED BY <1>8, <2>1 DEF SessionInv, Delivered
<1>9. ASSUME NEW d \in todo, Skip(d) PROVE SessionInv' /\ Delivered
    BY <1>9, <1>1 DEF Skip
<1> QED BY <1>1, <1>2, <1>3, <1>4, <1>5, <1>6, <1>7, <1>8, <1>9
        DEF Next, Environment, Publish, IntervalEnds, Round, OneDocument, vars

\* No observation is lost between the session and the table but by the end of a
\* round through an exception or a restart, whatever becomes of the documents.
THEOREM ObservationsAreKept == ASSUME PipelineAssumption PROVE Spec => ObservationIsKept
<1>1. Init => SessionInv
    BY DEF Init, SessionInv, Idle
<1>2. TypeOK /\ SessionInv /\ [Next]_vars => SessionInv'
    BY SessionStep
<1>3. TypeOK /\ SessionInv /\ [Next]_vars =>
        [\A k \in Series : pending[k] # "none" /\ pending'[k] = "none" =>
            stored'[k] = pending[k] \/ Abort \/ Restart]_vars
    BY SessionStep DEF Delivered
<1> QED BY <1>1, <1>2, <1>3, Typing, PTL DEF Spec, ObservationIsKept
-----------------------------------------------------------------------------
(* The refinement: a step of the pipeline is a step of the backlog for one *)
(* row, or a stutter of it.                                                *)

States == [u \in Urls |-> Progress(rows[u])]
Tries == [u \in Urls |-> rows[u].attempts]

Promised == Backlog!Next \/ UNCHANGED <<States, Tries, calls>>

\* A step that changes one row at most shows in the backlog at that row only.
LEMMA OneRow ==
    ASSUME NEW t \in Urls, \A u \in Urls : u # t => rows'[u] = rows[u]
    PROVE  /\ States' = [States EXCEPT ![t] = Progress(rows'[t])]
           /\ Tries' = [Tries EXCEPT ![t] = rows'[t].attempts]
    BY DEF States, Tries, Progress

LEMMA TakeIsTry ==
    ASSUME PipelineAssumption, IInv, NEW d \in todo, Take(d)
    PROVE  Promised
<1> USE DEF IInv
<1>1. PICK t \in Target(d) : rows' = Attempted(t, d)
    BY DEF Take, Commits
<1>2. t \in Urls /\ (rows[t].status = "absent" \/ ~Done(rows[t]))
    <2>1. d \in Document
        BY DEF TypeOK
    <2> QED BY <2>1, MatchingTyped
<1>3. /\ rows'[t] = IF rows[t].status = "absent" THEN Created(d) ELSE Again(rows[t])
      /\ \A u \in Urls : u # t => rows'[u] = rows[u]
    BY <1>1, <1>2 DEF Attempted, TypeOK
<1>4. rows[t] \in Row /\ Cap \in Int
    BY <1>2, PipelineAssumption DEF TypeOK, PipelineAssumption
<1>5. /\ Progress(rows'[t]) = "waiting" /\ Progress(rows[t]) # "indexed"
      /\ rows'[t].attempts = rows[t].attempts + 1
      /\ Cap > 0 => rows[t].attempts < Cap
    <2>1. CASE rows[t].status = "absent"
        <3>1. rows[t] = Absent /\ rows'[t] = Created(d)
            BY <2>1, <1>2, <1>3 DEF NoTrace
        <3> QED BY <3>1, <1>4 DEF Absent, Created, Progress
    <2>2. CASE rows[t].status # "absent"
        BY <2>2, <1>2, <1>3, <1>4 DEF Again, Row, Done, Exhausted, Progress
    <2> QED BY <2>1, <2>2
<1>6. Backlog!Try(t)
    <2>1. States[t] = Progress(rows[t]) /\ Tries[t] = rows[t].attempts
        BY <1>2 DEF States, Tries
    <2>2. calls' = calls
        BY DEF Take
    <2> QED BY <2>1, <2>2, <1>2, <1>3, <1>5, OneRow DEF Backlog!Try, States, Tries
<1> QED BY <1>2, <1>6 DEF Promised, Backlog!Next

LEMMA RequestIsRequest ==
    ASSUME IInv, worker.pc = "summary",
           calls' = [calls EXCEPT ![worker.row] = @ + 1],
           UNCHANGED <<States, Tries>>
    PROVE  Promised
<1> DEFINE u == worker.row
<1>1. u \in Urls /\ States[u] = "waiting"
    BY DEF IInv, TypeOK, InHand, States, Progress
<1>2. calls[u] < Tries[u]
    <2>1. calls[u] + 1 <= rows[u].attempts
        BY <1>1 DEF IInv, Budget, Asked
    <2>2. calls[u] \in Nat /\ rows[u].attempts \in Nat
        BY <1>1 DEF IInv, TypeOK, Row
    <2> QED BY <1>1, <2>1, <2>2 DEF Tries
<1>3. Backlog!Request(u)
    BY <1>1, <1>2 DEF Backlog!Request, States, Tries
<1> QED BY <1>1, <1>3 DEF Promised, Backlog!Next

LEMMA MarkIsComplete == ASSUME IInv, Mark PROVE Promised
<1> DEFINE t == worker.row
<1>1. /\ worker.pc = "mark" /\ t \in Urls /\ calls' = calls
      /\ rows[t].status \notin {"absent", "INDEXED"} /\ worker.verdict # "absent"
    BY DEF Mark, IInv, TypeOK, InHand, Jobs
<1>2. /\ rows'[t].status = worker.verdict /\ rows'[t].attempts = rows[t].attempts
      /\ \A u \in Urls : u # t => rows'[u] = rows[u]
    BY <1>1 DEF Mark, Commits, IInv, TypeOK, Row
<1>3. States[t] = "waiting" /\ Tries' = Tries
    BY <1>1, <1>2 DEF States, Tries, Progress
<1>4. CASE Indexing
    <2>1. calls[t] > 0 /\ Progress(rows'[t]) = "indexed"
        BY <1>1, <1>2, <1>4 DEF IInv, InHand, Indexing, Progress
    <2>2. Backlog!Complete(t)
        BY <2>1, <1>1, <1>2, <1>3, OneRow DEF Backlog!Complete, States, Tries
    <2> QED BY <1>1, <2>2 DEF Promised, Backlog!Next
<1>5. CASE ~Indexing
    <2>1. Progress(rows'[t]) = "waiting"
        BY <1>1, <1>2, <1>5 DEF Indexing, Progress
    <2>2. States' = States
        BY <2>1, <1>1, <1>2, <1>3 DEF States, Progress
    <2> QED BY <1>1, <1>3, <2>2 DEF Promised
<1> QED BY <1>4, <1>5

LEMMA StepIsPromised ==
    ASSUME PipelineAssumption, IInv, [Next]_vars
    PROVE  Promised
<1>1. ASSUME UNCHANGED <<rows, calls>> PROVE Promised
    BY <1>1 DEF Promised, States, Tries
<1>2. ASSUME NEW d \in todo, Take(d) PROVE Promised
    BY <1>2, TakeIsTry
<1>3. CASE SummaryFails
    BY <1>3, RequestIsRequest DEF SummaryFails, tables, States, Tries
<1>4. CASE Summarise
    <2>1. /\ \A u \in Urls : /\ rows'[u].status = rows[u].status
                            /\ rows'[u].attempts = rows[u].attempts
          /\ UNCHANGED <<States, Tries>>
        BY <1>4 DEF Summarise, Commits, IInv, TypeOK, Row, States, Tries, Progress
    <2> QED BY <1>4, <2>1, RequestIsRequest DEF Summarise
<1>5. CASE Mark
    BY <1>5, MarkIsComplete
<1>6. CASE Restart
    <2>1. UNCHANGED <<States, Tries>>
        BY <1>6 DEF Restart, tables, States, Tries
    <2> QED BY <1>6, <2>1, RequestIsRequest DEF Restart, Promised
<1>7. CASE Environment \/ Abort \/ UNCHANGED vars
    BY <1>7, <1>1 DEF Environment, Publish, Release, IntervalEnds, Abort, vars, tables
<1>8. ASSUME NEW parsed \in SUBSET (Sources \cup Due), NEW broken \in SUBSET (Sources \cup Due),
             Collect(parsed, broken)
      PROVE  Promised
    BY <1>8, <1>1 DEF Collect, tables
<1>9. ASSUME NEW d \in todo, Skip(d) PROVE Promised
    BY <1>9, <1>1 DEF Skip, tables
<1>10. CASE Index \/ IndexFails \/ Finish
    BY <1>10, <1>1 DEF Index, IndexFails, Finish, Commits, tables
<1> QED BY <1>2, <1>3, <1>4, <1>5, <1>6, <1>7, <1>8, <1>9, <1>10
        DEF Next, Round, OneDocument

\* The pipeline does to each row what the backlog promises, for any feeds, series,
\* failures and limit.
THEOREM PipelineImplementsBacklog ==
    ASSUME PipelineAssumption PROVE Spec => ImplementsBacklog
<1>1. Init => Backlog!Init
    BY DEF Init, Backlog!Init, Progress, Absent
<1>2. IInv /\ [Next]_vars => [Backlog!Next]_<<States, Tries, calls>>
    BY StepIsPromised DEF Promised
<1> QED BY <1>1, <1>2, Invariance, PTL DEF Spec, ImplementsBacklog, Backlog!Spec, States, Tries
-----------------------------------------------------------------------------
(* What the backlog by itself promises: whatever implements it has it.     *)

Promise ==
    \A u \in Urls : /\ calls[u] \in Nat /\ Tries[u] \in Nat
                    /\ calls[u] <= Tries[u]
                    /\ Cap > 0 => Tries[u] <= Cap
                    /\ States[u] = "indexed" => calls[u] > 0

\* What a step of the backlog leaves alone.
IndexedLeftAlone ==
    \A u \in Urls : States[u] = "indexed" =>
        States'[u] = "indexed" /\ Tries'[u] = Tries[u] /\ calls'[u] = calls[u]

LEMMA PromiseStep ==
    ASSUME PipelineAssumption, Promise, calls \in [Urls -> Nat],
           Backlog!Next \/ UNCHANGED <<States, Tries, calls>>
    PROVE  Promise' /\ calls' \in [Urls -> Nat] /\ IndexedLeftAlone
<1>1. Cap \in Int /\ States = [u \in Urls |-> States[u]] /\ Tries = [u \in Urls |-> Tries[u]]
    BY DEF PipelineAssumption, States, Tries
<1>2. CASE UNCHANGED <<States, Tries, calls>>
    BY <1>2 DEF Promise, IndexedLeftAlone
<1>3. ASSUME NEW d \in Urls, Backlog!Try(d)
      PROVE  Promise' /\ calls' \in [Urls -> Nat] /\ IndexedLeftAlone
    <2>1. /\ States[d] # "indexed" /\ (Cap > 0 => Tries[d] < Cap) /\ calls' = calls
          /\ States' = [States EXCEPT ![d] = "waiting"]
          /\ Tries' = [Tries EXCEPT ![d] = Tries[d] + 1]
        BY <1>3 DEF Backlog!Try, States, Tries
    <2> QED BY <1>1, <2>1 DEF Promise, IndexedLeftAlone
<1>4. ASSUME NEW d \in Urls, Backlog!Request(d)
      PROVE  Promise' /\ calls' \in [Urls -> Nat] /\ IndexedLeftAlone
    <2>1. /\ States[d] = "waiting" /\ calls[d] < Tries[d]
          /\ calls' = [calls EXCEPT ![d] = calls[d] + 1] /\ UNCHANGED <<States, Tries>>
        BY <1>4 DEF Backlog!Request, States, Tries
    <2> QED BY <1>1, <2>1 DEF Promise, IndexedLeftAlone
<1>5. ASSUME NEW d \in Urls, Backlog!Complete(d)
      PROVE  Promise' /\ calls' \in [Urls -> Nat] /\ IndexedLeftAlone
    <2>1. /\ States[d] = "waiting" /\ calls[d] > 0 /\ UNCHANGED <<Tries, calls>>
          /\ States' = [States EXCEPT ![d] = "indexed"]
        BY <1>5 DEF Backlog!Complete, States, Tries
    <2> QED BY <1>1, <2>1 DEF Promise, IndexedLeftAlone
<1> QED BY <1>2, <1>3, <1>4, <1>5 DEF Backlog!Next

\* The backlog by itself bounds the requests of every document by its attempts
\* and these by the limit, indexes none without a request and then leaves it
\* alone: CallsWithinCap needs nothing of the pipeline but that it implements
\* the backlog.
THEOREM BacklogBoundsRequests ==
    ASSUME PipelineAssumption
    PROVE  ImplementsBacklog => /\ [](Promise /\ CallsWithinCap)
                                /\ [][IndexedLeftAlone]_<<States, Tries, calls>>
<1>1. Backlog!Init => Promise /\ calls \in [Urls -> Nat]
    BY DEF Backlog!Init, Promise, States, Tries, PipelineAssumption
<1>2. Promise /\ calls \in [Urls -> Nat] /\ [Backlog!Next]_<<States, Tries, calls>>
        => (Promise /\ calls \in [Urls -> Nat])'
    BY PromiseStep
<1>3. Promise => CallsWithinCap
    BY PipelineAssumption DEF Promise, CallsWithinCap, PipelineAssumption
<1>4. Promise /\ calls \in [Urls -> Nat] /\ [Backlog!Next]_<<States, Tries, calls>>
        => [IndexedLeftAlone]_<<States, Tries, calls>>
    BY PromiseStep
<1> QED BY <1>1, <1>2, <1>3, <1>4, PTL DEF ImplementsBacklog, Backlog!Spec, States, Tries
=============================================================================
