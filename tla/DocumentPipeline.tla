--------------------------- MODULE DocumentPipeline ---------------------------
(***************************************************************************)
(* The collection of documents and macro series at the start of a round of *)
(* the worker: DocumentPipeline.run_once with its collectors, the schedule *)
(* of the series, the tables of PostgreSQL and the collection of Milvus.   *)
(*                                                                         *)
(* A document of a feed is its URL and its text; equal texts have equal    *)
(* content_hash, NoText is the text nothing is left of after the cleaning. *)
(* A row is named by its canonical_url, which is unique.  Every call of    *)
(* prepare_document makes a new document_id; since the attempts of a row   *)
(* grow with each of them, the pair <<URL of the row, attempt>> stands for *)
(* it, and <<URL, 1>> is the id the row itself was created with.  Of an    *)
(* observation only its being of the latest release or older is kept.      *)
(* The documents of a round come in any order; the sources of the program  *)
(* have one.  Documents of equal URL and text are one in a round.          *)
(***************************************************************************)
EXTENDS Integers

CONSTANTS
    Sources,    \* RSS_SOURCES, and the press releases of the Federal Reserve
    Press,      \* the latter of them
    Series,     \* DEFAULT_FRED_SERIES
    Tagged,     \* the sources and series whose server sends ETag or Last-Modified
    Urls,
    Texts,
    NoText,
    NoUrl,
    Contents,   \* the sets of documents a feed may show
    Cap         \* document_max_processing_attempts; 0 or less is no limit

Document == [url : Urls, text : Texts]

ASSUME PipelineAssumption ==
    /\ NoText \in Texts /\ NoUrl \notin Urls /\ Cap \in Int
    /\ Press \subseteq Sources
    /\ Contents \subseteq SUBSET Document

VARIABLES
    feed,       \* the documents each source shows
    validated,  \* whose validator the fetcher holds and would get a 304 for
    marked,     \* the series the schedule does not fetch before their interval ends
    pending,    \* the observations the session has not committed
    stored,     \* macro_observations
    rows,       \* source_documents and document_summaries, by URL
    vectors,    \* the collection of Milvus
    todo,       \* the documents of the round that are still to be processed
    worker,     \* where the round is, and the document it is at
    calls       \* requests for a summary, by row (history)

outside == <<feed, validated, marked>>
tables == <<stored, rows>>
vars == <<outside, pending, tables, vectors, todo, worker, calls>>

Statuses == {"absent", "NEW", "SKIPPED", "FAILED", "INDEXED"}
Row == [status : Statuses, text : Texts, attempts : Nat, summary : BOOLEAN]
Absent == [status |-> "absent", text |-> NoText, attempts |-> 0, summary |-> FALSE]
Versions == {"none", "old", "latest"}

Idle == [pc |-> "idle", row |-> NoUrl, text |-> NoText, verdict |-> "NEW"]
Between == [Idle EXCEPT !.pc = "documents"]
Nothing == [k \in Series |-> "none"]

Init ==
    /\ feed \in [Sources -> Contents] /\ validated = {} /\ marked = {}
    /\ pending = Nothing /\ stored = Nothing
    /\ rows = [u \in Urls |-> Absent] /\ vectors = {}
    /\ todo = {} /\ worker = Idle /\ calls = [u \in Urls |-> 0]

-----------------------------------------------------------------------------
(* The world.                                                              *)

Publish(s) ==
    /\ feed' \in {[feed EXCEPT ![s] = content] : content \in Contents}
    /\ validated' = validated \ {s}
    /\ UNCHANGED <<marked, pending, tables, vectors, todo, worker, calls>>

Aged(version) == IF version = "latest" THEN "old" ELSE version

Release(k) ==
    /\ stored' = [stored EXCEPT ![k] = Aged(@)]
    /\ pending' = [pending EXCEPT ![k] = Aged(@)]
    /\ validated' = validated \ {k}
    /\ UNCHANGED <<feed, marked, rows, vectors, todo, worker, calls>>

IntervalEnds(k) ==
    /\ k \in marked /\ marked' = marked \ {k}
    /\ UNCHANGED <<feed, validated, pending, tables, vectors, todo, worker, calls>>

-----------------------------------------------------------------------------
(* Collecting.                                                             *)

Due == Series \ marked

\* The RSS collector drops a URL it has seen in the round.
OncePerUrl(documents) ==
    {T \in SUBSET documents :
        \A d \in documents : \E e \in T : e.url = d.url /\ \A f \in T : f.url = d.url => f = e}

Shown(sources) == UNION {feed[s] : s \in sources}

\* A parse that breaks off gives what came before.
Given(whole, broken) == {Shown(whole) \cup part : part \in SUBSET Shown(broken)}

News(whole, broken) ==
    UNION {OncePerUrl(D) : D \in Given(whole \cap (Sources \ Press), broken \cap (Sources \ Press))}

\* Press events are taken as they come.
Events(whole, broken) == Given(whole \cap Press, broken \cap Press)

\* The documents of a round.
Listed(whole, broken) ==
    {news \cup events : news \in News(whole, broken), events \in Events(whole, broken)}

\* What a series gives that the table lacks; the latest observation is its last line.
Observed(k, whole, broken) ==
    IF k \in whole /\ stored[k] # "latest" THEN {"latest"}
    ELSE IF k \in broken /\ stored[k] = "none" THEN {"none", "old"} ELSE {"none"}

\* Those that answer do so with a 304, and then with nothing, or with what they have.
\* The validator is kept with the answer, though its parse may break off.
Collect(parsed, broken) ==
    LET new == parsed \ validated IN
    /\ worker = Idle /\ broken \cap (parsed \cup validated) = {}
    /\ validated' = validated \cup ((new \cup broken) \cap Tagged)
    /\ marked' = marked \cup (parsed \cap Series)
    /\ pending' \in {p \in [Series -> Versions] :
                        \A k \in Series : p[k] \in Observed(k, new, broken)}
    /\ todo' \in Listed(new, broken)
    /\ worker' = Between
    /\ UNCHANGED <<feed, tables, vectors, calls>>

-----------------------------------------------------------------------------
(* The session.                                                            *)

Committed == [k \in Series |-> IF pending[k] = "none" THEN stored[k] ELSE pending[k]]

\* Mutant: the observations do not survive the commit of a document.
Commits_RowsOnly(newRows) ==
    /\ stored' = stored /\ pending' = Nothing
    /\ rows' = newRows

\* A commit writes whatever the session holds, the observations included.
Commits(newRows) ==
    /\ stored' = Committed /\ pending' = Nothing
    /\ rows' = newRows

\* Mutant: the session is not rolled back.
Abort_KeepSession ==
    /\ worker.pc \in {"documents", "mark"}
    /\ todo' = {} /\ worker' = Idle
    /\ UNCHANGED <<outside, pending, tables, vectors, calls>>

\* An exception run_once does not handle: the scheduler rolls the session back.
Abort ==
    /\ worker.pc \in {"documents", "mark"}
    /\ pending' = Nothing /\ todo' = {} /\ worker' = Idle
    /\ UNCHANGED <<outside, tables, vectors, calls>>

\* The process starts anew: validators and schedule live in its memory.
Restart ==
    /\ validated' = {} /\ marked' = {}
    /\ pending' = Nothing /\ todo' = {} /\ worker' = Idle
    /\ \E asked \in BOOLEAN :
          calls' = IF worker.pc = "summary" /\ asked
                   THEN [calls EXCEPT ![worker.row] = @ + 1] ELSE calls
    /\ UNCHANGED <<feed, tables, vectors>>

-----------------------------------------------------------------------------
(* One document.                                                           *)

\* The rows with the URL or the content of a document; a query for one of them
\* returns any.
Matching(d) ==
    {u \in Urls : rows[u].status # "absent" /\ (u = d.url \/ rows[u].text = d.text)}

Exhausted(row) == Cap > 0 /\ row.attempts >= Cap

\* Mutants: an indexed document is done again; a failed one never is.
Done_Exhausted(row) == Exhausted(row)
Done_Failed(row) == row.status \in {"INDEXED", "FAILED"} \/ Exhausted(row)

Done(row) == row.status = "INDEXED" \/ Exhausted(row)

Skip(d) ==
    /\ worker = Between /\ d \in todo
    /\ \E u \in Matching(d) : Done(rows[u])
    /\ todo' = todo \ {d}
    /\ UNCHANGED <<outside, pending, tables, vectors, worker, calls>>

Created(d) == [status |-> "NEW", text |-> d.text, attempts |-> 1, summary |-> FALSE]

Again(row) == [row EXCEPT !.attempts = row.attempts + 1]

Target(d) == IF Matching(d) = {} THEN {d.url} ELSE {u \in Matching(d) : ~Done(rows[u])}

\* Mutant: the attempt is counted with the first commit only.
Attempted_Once(u, d) ==
    [rows EXCEPT ![u] = IF @.status = "absent" THEN Created(d) ELSE @]

\* The row of an earlier version keeps its text.
Attempted(u, d) ==
    [rows EXCEPT ![u] = IF @.status = "absent" THEN Created(d) ELSE Again(@)]

\* Mutant: there is nothing to index, so the document is indexed.
At_EmptyIsIndexed(u, d) ==
    IF d.text = NoText
    THEN [pc |-> "mark", row |-> u, text |-> d.text, verdict |-> "INDEXED"]
    ELSE [pc |-> "summary", row |-> u, text |-> d.text, verdict |-> "NEW"]

\* Where the processing goes on: an empty document is only marked.
At(u, d) ==
    IF d.text = NoText
    THEN [pc |-> "mark", row |-> u, text |-> d.text, verdict |-> "SKIPPED"]
    ELSE [pc |-> "summary", row |-> u, text |-> d.text, verdict |-> "NEW"]

Take(d) ==
    /\ worker = Between /\ d \in todo
    /\ \E u \in Target(d) : Commits(Attempted(u, d)) /\ worker' = At(u, d)
    /\ todo' = todo \ {d}
    /\ UNCHANGED <<outside, vectors, calls>>

Marking(verdict) == [worker EXCEPT !.pc = "mark", !.verdict = verdict]

\* The model, the embedder or the commit of the summary fails.
SummaryFails ==
    /\ worker.pc = "summary"
    /\ calls' = [calls EXCEPT ![worker.row] = @ + 1]
    /\ pending' = Nothing /\ worker' = Marking("FAILED")
    /\ UNCHANGED <<outside, tables, vectors, todo>>

\* Mutant: the summary is left to the next commit.
Summarise_NotCommitted ==
    /\ worker.pc = "summary"
    /\ calls' = [calls EXCEPT ![worker.row] = @ + 1]
    /\ worker' = [worker EXCEPT !.pc = "index"]
    /\ UNCHANGED <<outside, pending, tables, vectors, todo>>

Summarise ==
    /\ worker.pc = "summary"
    /\ calls' = [calls EXCEPT ![worker.row] = @ + 1]
    /\ Commits([rows EXCEPT ![worker.row].summary = TRUE])
    /\ worker' = [worker EXCEPT !.pc = "index"]
    /\ UNCHANGED <<outside, vectors, todo>>

\* The chunks carry the id prepare_document made in this attempt.
Chunks == {[doc |-> <<worker.row, rows[worker.row].attempts>>, text |-> worker.text]}

Index ==
    /\ worker.pc = "index"
    /\ vectors' = vectors \cup Chunks
    /\ worker' = Marking("INDEXED")
    /\ UNCHANGED <<outside, pending, tables, todo, calls>>

\* The insertion raises, with the rows written or not.
IndexFails ==
    /\ worker.pc = "index"
    /\ vectors' \in {vectors, vectors \cup Chunks}
    /\ worker' = Marking("FAILED")
    /\ UNCHANGED <<outside, pending, tables, todo, calls>>

Mark ==
    /\ worker.pc = "mark"
    /\ Commits([rows EXCEPT ![worker.row].status = worker.verdict])
    /\ worker' = Between
    /\ UNCHANGED <<outside, vectors, todo, calls>>

\* run_once ends, and with it the turn of the pipeline in the round.
Finish ==
    /\ worker = Between /\ todo = {}
    /\ Commits(rows)
    /\ worker' = Idle
    /\ UNCHANGED <<outside, vectors, todo, calls>>

-----------------------------------------------------------------------------
Environment ==
    \/ \E s \in Sources : Publish(s)
    \/ \E k \in Series : Release(k) \/ IntervalEnds(k)

OneDocument == \/ \E d \in todo : Skip(d) \/ Take(d)
               \/ SummaryFails \/ Summarise \/ Index \/ IndexFails \/ Mark

Round == \/ \E parsed, broken \in SUBSET (Sources \cup Due) : Collect(parsed, broken)
         \/ OneDocument \/ Finish

Next == Environment \/ Round \/ Abort \/ Restart

Spec == Init /\ [][Next]_vars

\* The worker goes on; a source that is asked again and again answers at some point
\* with what can be parsed, or a 304, and of the commits of a document not every
\* one fails.
Fairness ==
    /\ WF_vars(OneDocument \/ Finish)
    /\ \A d \in UNION Contents : SF_vars(Take(d))
    /\ \A s \in Sources :
          SF_vars(\E parsed, broken \in SUBSET (Sources \cup Due) :
                     s \in parsed /\ Collect(parsed, broken))

FairSpec == Spec /\ Fairness

-----------------------------------------------------------------------------
(* Properties.                                                             *)

Jobs == [pc : {"idle", "documents", "summary", "index", "mark"}, row : Urls \cup {NoUrl},
         text : Texts, verdict : Statuses \ {"absent"}]

\* The type invariant: the session holds nothing between two rounds, and a
\* document is processed for a row the database has (SourceDocument).
TypeOK ==
    /\ feed \in [Sources -> Contents]
    /\ validated \subseteq Tagged /\ marked \subseteq Series
    /\ pending \in [Series -> Versions] /\ stored \in [Series -> Versions]
    /\ rows \in [Urls -> Row]
    /\ vectors \subseteq [doc : Urls \X Nat, text : Texts]
    /\ todo \subseteq Document /\ worker \in Jobs /\ calls \in [Urls -> Nat]
    /\ worker.pc = "idle" => worker = Idle /\ todo = {} /\ pending = Nothing
    /\ worker.pc = "documents" => worker = Between
    /\ worker.pc \in {"summary", "index", "mark"} =>
          worker.row \in Urls /\ rows[worker.row].status # "absent"

\* No document costs more requests to the model than document_max_processing_attempts,
\* through failures, rollbacks and restarts (_attempts_exhausted: "库里有 attempts=34
\* 的文档 … 永远失败").
CallsWithinCap == Cap > 0 => \A u \in Urls : calls[u] <= Cap

\* A row that is INDEXED has its vectors in Milvus and its summary in PostgreSQL
\* (_process: no "Postgres 说 INDEXED 但 Milvus 没有向量").
IndexedIsSearchable ==
    \A u \in Urls : rows[u].status = "INDEXED" =>
        rows[u].summary /\ \E v \in vectors : v.doc[1] = u /\ v.text # NoText

\* Vectors are written only for what PostgreSQL has: the row, the attempt and
\* the summary (_process: "Postgres 先落定、Milvus 后写").
PostgresFirst ==
    \A v \in vectors : /\ rows[v.doc[1]].summary
                       /\ v.doc[2] <= rows[v.doc[1]].attempts

VectorsOf(u) == {v \in vectors : v.doc[1] = u}

\* An indexed document stays indexed, costs no request and no vectors any more,
\* however often a feed shows it or its content again (the early return of _process).
IndexedIsFinal ==
    [][\A u \in Urls : rows[u].status = "INDEXED" =>
          /\ rows'[u] = rows[u] /\ calls'[u] = calls[u]
          /\ VectorsOf(u)' = VectorsOf(u)]_vars

\* An observation leaves the session for the table, whatever becomes of the
\* documents of the round; only the end of the round by an exception or a
\* restart loses it (_process: one transaction for each document).
ObservationIsKept ==
    [][\A k \in Series : pending[k] # "none" /\ pending'[k] = "none" =>
          stored'[k] = pending[k] \/ Abort \/ Restart]_vars

\* What becomes of a row, seen from outside (DocumentBacklog).
Progress(row) ==
    CASE row.status = "absent" -> "unknown"
      [] row.status = "INDEXED" -> "indexed"
      [] OTHER -> "waiting"

Backlog == INSTANCE DocumentBacklog WITH
    Documents <- Urls, Limit <- Cap, requests <- calls,
    state <- [u \in Urls |-> Progress(rows[u])],
    tries <- [u \in Urls |-> rows[u].attempts]

\* Rounds, rollbacks, restarts and feeds that repeat themselves do nothing to the
\* documents that the backlog would not do, and to one of them at a time
\* (_process: "每个文档一个独立事务").
ImplementsBacklog == Backlog!Spec

Settled(d) ==
    \E u \in Matching(d) : rows[u].status = "INDEXED" \/ (Cap > 0 /\ rows[u].attempts >= Cap)

\* A document that is collected again and again is indexed or has used up its
\* attempts in the end.
OfferedIsSettled ==
    \A d \in UNION Contents : []<>(d \in todo) => <>Settled(d)
=============================================================================
