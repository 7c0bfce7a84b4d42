-------------------------- MODULE TradingCycle_proofs --------------------------
(***************************************************************************)
(* Theorems about TradingCycle, for every set of symbols, cooldown,        *)
(* synchronisation window, breaker threshold and number of positions.      *)
(***************************************************************************)
EXTENDS TradingCycle, FiniteSetTheorems, TLAPS

USE DEF sym

-----------------------------------------------------------------------------
(* Type correctness, one lemma for each group of variables.                *)

LEMMA ClosedRowType == ClosedRow \in Row
BY CycleAssumption DEF ClosedRow, Row

\* The helpers map rows to rows.
LEMMA RowsType ==
    ASSUME NEW rows \in [Symbols -> Row]
    PROVE  /\ \A held : Reconciled(rows, held) \in [Symbols -> Row]
           /\ OlderRows(rows) \in [Symbols -> Row]
<1>1. ASSUME NEW held PROVE Reconciled(rows, held) \in [Symbols -> Row]
  <2>1. ASSUME NEW s \in Symbols
        PROVE  (IF s \in held THEN [rows[s] EXCEPT !.status = "OPEN"]
                ELSE Close(rows, s)[s]) \in Row
    BY ClosedRowType DEF Close, Row
  <2>2. QED
    BY <2>1 DEF Reconciled
<1>2. OlderRows(rows) \in [Symbols -> Row]
  <2>1. ASSUME NEW s \in Symbols
        PROVE  [rows[s] EXCEPT !.age = Older(@, Cooldown)] \in Row
    BY CycleAssumption DEF Older, Row
  <2>2. QED
    BY <2>1 DEF OlderRows
<1>3. QED
  BY <1>1, <1>2

LEMMA NoCycleType == NoCycle \in Cycle
BY DEF NoCycle, Cycle

\* What a recorded failure writes is well typed.
LEMMA FailureType ==
    ASSUME TypeOK, NEW rows \in [Symbols -> Row], NEW external \in BOOLEAN,
           RecordFailure(rows, external)
    PROVE  /\ db' \in [Symbols -> Row] /\ work' \in [Symbols -> Row]
           /\ syncAge' \in 0..SyncWindow /\ failures' \in 0..MaxFailures
           /\ control' \in {"RUNNING", "PAUSED"}
           /\ entries' \in Nat
BY CycleAssumption DEF RecordFailure, SetPaused, TypeOK

LEMMA LeavesType ==
    ASSUME TypeOK, NEW s \in Symbols, NEW p, Leaves(s, p)
    PROVE  /\ exch' \in [Symbols -> SUBSET Position]
           /\ exitDue' \subseteq Symbols /\ lastId' \in 0..MaxId
           /\ exitAge' \in [Symbols -> 0..Cooldown]
BY CycleAssumption DEF Leaves, TypeOK

LEMMA OpensType ==
    ASSUME TypeOK, NEW s \in Symbols, NEW by \in {"system", "user"}, Opens(s, by)
    PROVE  /\ exch' \in [Symbols -> SUBSET Position]
           /\ exitDue' \subseteq Symbols /\ lastId' \in 0..MaxId
           /\ lastId + 1 \in Ids
<1>1. lastId + 1 \in Ids
  BY CycleAssumption DEF Opens, TypeOK, Ids
<1>2. [id |-> lastId + 1, by |-> by] \in Position
  BY <1>1 DEF Position
<1>3. QED
  BY <1>1, <1>2, CycleAssumption DEF Opens, TypeOK, Ids

\* Outside "idle" the cycle has a symbol.
CycleHasSymbol == pc # "idle" => cycle.symbol \in Symbols

Typed == TypeOK /\ CycleHasSymbol

LEMMA TypedStep == Typed /\ [Next]_vars => Typed'
<1> SUFFICES ASSUME Typed, [Next]_vars PROVE Typed'
  OBVIOUS
<1> USE DEF Typed, CycleHasSymbol
<1>1. /\ exch \in [Symbols -> SUBSET Position]
      /\ db \in [Symbols -> Row] /\ work \in [Symbols -> Row]
      /\ cycle \in Cycle
  BY DEF TypeOK
<1>2. ASSUME NEW s \in Symbols, NEW mode \in Modes, StartCycle(s, mode) PROVE Typed'
  BY <1>2 DEF TypeOK, StartCycle, NoCycle, Cycle, exchangeVars, databaseVars,
              historyVars
<1>3. CASE ReadPositions
  BY <1>3 DEF TypeOK, ReadPositions, Goto, AfterManagement, Cycle, exchangeVars,
              databaseVars, historyVars
<1>4. ASSUME NEW p \in cycle.todo, LeaveAlone(p) PROVE Typed'
  BY <1>4 DEF TypeOK, LeaveAlone, Cycle, exchangeVars, databaseVars, historyVars
<1>5. ASSUME NEW p \in cycle.todo, NEW executed \in BOOLEAN, NEW reply \in Replies,
             ManageClose(p, executed, reply)
      PROVE  Typed'
  <2>1. /\ exch' \in [Symbols -> SUBSET Position]
        /\ exitDue' \subseteq Symbols /\ lastId' \in 0..MaxId
        /\ exitAge' \in [Symbols -> 0..Cooldown]
    <3>1. CASE executed
      BY <1>5, <3>1, LeavesType DEF ManageClose
    <3>2. CASE ~executed
      BY <1>5, <3>2 DEF ManageClose, TypeOK, exchangeVars
    <3>3. QED
      BY <3>1, <3>2
  <2>2. cycle' \in Cycle /\ pc' = pc /\ cycle'.symbol = cycle.symbol
    BY <1>1, <1>5 DEF ManageClose, Cycle
  <2>3. /\ db' \in [Symbols -> Row] /\ work' \in [Symbols -> Row]
        /\ syncAge' \in 0..SyncWindow /\ failures' \in 0..MaxFailures
        /\ control' \in {"RUNNING", "PAUSED"}
        /\ entries' \in Nat
    <3>1. CASE reply = "FILLED"
      BY <1>5, <3>1, ClosedRowType DEF ManageClose, TypeOK
    <3>2. CASE reply = "OPEN"
      BY <1>5, <3>2 DEF ManageClose, TypeOK, databaseVars
    <3>3. CASE reply = "error"
      BY <1>1, <1>5, <3>3, FailureType DEF ManageClose
    <3>4. QED
      BY <3>1, <3>2, <3>3 DEF Replies
  <2>4. QED
    BY <2>1, <2>2, <2>3 DEF TypeOK
<1>6. CASE ManagementDone
  BY <1>6 DEF TypeOK, ManagementDone, Goto, AfterManagement, exchangeVars,
              databaseVars, historyVars
<1>7. CASE BestEffortFails
  <2>1. /\ db' \in [Symbols -> Row] /\ work' \in [Symbols -> Row]
        /\ syncAge' \in 0..SyncWindow /\ failures' \in 0..MaxFailures
        /\ control' \in {"RUNNING", "PAUSED"}
        /\ entries' \in Nat
    BY <1>1, <1>7, FailureType DEF BestEffortFails
  <2>2. QED
    BY <1>7, <2>1 DEF TypeOK, BestEffortFails, Goto, AfterManagement, exchangeVars
<1>8. CASE NoEntry
  BY <1>8 DEF TypeOK, NoEntry, Goto, exchangeVars, databaseVars, historyVars
<1>9. CASE Halt
  BY <1>9 DEF TypeOK, Halt, Goto, SetPaused, exchangeVars
<1>10. CASE Allow
  BY <1>10 DEF TypeOK, Allow, Goto, exchangeVars, databaseVars, historyVars
<1>11. ASSUME NEW executed \in BOOLEAN, NEW answer \in Answers,
              PlaceOrder(executed, answer)
       PROVE  Typed'
  <2>1. /\ exch' \in [Symbols -> SUBSET Position]
        /\ exitDue' \subseteq Symbols /\ lastId' \in 0..MaxId
        /\ (IF executed THEN lastId + 1 ELSE None) \in Ids \cup {None}
    <3>1. CASE executed
      BY <1>11, <3>1, OpensType DEF PlaceOrder
    <3>2. CASE ~executed
      BY <1>11, <3>2 DEF PlaceOrder, TypeOK, exchangeVars
    <3>3. QED
      BY <3>1, <3>2
  <2>2. cycle' \in Cycle /\ cycle'.symbol = cycle.symbol
    <3>1. ResultStatus(answer) \in Statuses
      BY <1>11 DEF ResultStatus, Raised, Answers, Statuses
    <3>2. QED
      BY <1>1, <1>11, <2>1, <3>1 DEF PlaceOrder, Cycle
  <2>3. entries' \in Nat
    BY <1>11 DEF PlaceOrder, TypeOK
  <2>4. QED
    BY <1>11, <2>1, <2>2, <2>3 DEF TypeOK, PlaceOrder, databaseVars
<1>12. CASE SkipSync
  BY <1>12 DEF TypeOK, SkipSync, Goto, exchangeVars, databaseVars, historyVars
<1>13. CASE ReconcileRead
  BY <1>13 DEF TypeOK, ReconcileRead, Cycle, exchangeVars, databaseVars, historyVars
<1>14. CASE ReconcileWrite
  <2>1. db' \in [Symbols -> Row] /\ work' \in [Symbols -> Row]
    BY <1>1, <1>14, RowsType DEF ReconcileWrite
  <2>2. syncAge' \in 0..SyncWindow
    BY <1>14, CycleAssumption DEF ReconcileWrite
  <2>3. QED
    BY <1>14, <2>1, <2>2 DEF TypeOK, ReconcileWrite, Goto, exchangeVars, historyVars
<1>15. CASE Persist
  BY <1>15, NoCycleType, CycleAssumption
     DEF TypeOK, Persist, exchangeVars, historyVars
<1>16. CASE Abort
  <2>1. /\ db' \in [Symbols -> Row] /\ work' \in [Symbols -> Row]
        /\ syncAge' \in 0..SyncWindow /\ failures' \in 0..MaxFailures
        /\ control' \in {"RUNNING", "PAUSED"}
        /\ entries' \in Nat
    BY <1>1, <1>16, FailureType DEF Abort
  <2>2. QED
    BY <1>16, <2>1, NoCycleType DEF TypeOK, Abort, exchangeVars
<1>17. CASE Crash
  BY <1>17, NoCycleType DEF TypeOK, Crash, exchangeVars, historyVars
<1>18. ASSUME NEW s \in Symbols, NEW p \in exch[s], ExternalExit(s, p)
       PROVE  Typed'
  BY <1>18, LeavesType DEF TypeOK, ExternalExit, databaseVars
<1>19. ASSUME NEW s \in Symbols, UserOpens(s) PROVE Typed'
  BY <1>19, OpensType DEF TypeOK, UserOpens, databaseVars, historyVars
<1>20. ASSUME NEW s \in Symbols, PriceMoves(s) PROVE Typed'
  BY <1>20 DEF TypeOK, PriceMoves, databaseVars, historyVars
<1>21. CASE Pause
  BY <1>21 DEF TypeOK, Pause, SetPaused, exchangeVars, databaseVars
<1>22. CASE Resume
  BY <1>22 DEF TypeOK, Resume, exchangeVars, databaseVars
<1>23. CASE Tick
  <2>1. db' \in [Symbols -> Row] /\ work' \in [Symbols -> Row]
    BY <1>1, <1>23, RowsType DEF Tick
  <2>2. /\ syncAge' \in 0..SyncWindow
        /\ exitAge' \in [Symbols -> 0..Cooldown]
    BY <1>23, CycleAssumption DEF TypeOK, Tick, Older
  <2>3. QED
    BY <1>23, <2>1, <2>2 DEF TypeOK, Tick, exchangeVars
<1>24. CASE UNCHANGED vars
  BY <1>24 DEF TypeOK, vars, exchangeVars, databaseVars, historyVars
<1>25. QED
  BY <1>2, <1>3, <1>4, <1>5, <1>6, <1>7, <1>8, <1>9, <1>10, <1>11, <1>12, <1>13,
     <1>14, <1>15, <1>16, <1>17, <1>18, <1>19, <1>20, <1>21, <1>22, <1>23, <1>24
     DEF Next, Worker, Environment

LEMMA TypedInit == Init => Typed
BY CycleAssumption, NoCycleType
   DEF Init, Typed, TypeOK, CycleHasSymbol, NoRow, Row

\* Every reachable state of a cycle is well typed.
THEOREM Typing == Spec => []TypeOK
<1>1. Typed => TypeOK
  BY DEF Typed
<1>2. QED
  BY <1>1, TypedInit, TypedStep, PTL DEF Spec
-----------------------------------------------------------------------------
(* Entries: one position per symbol, and the cooldown after an exit.       *)

\* The session never opens a row that is not committed as OPEN at once.
SessionOpensCommitted ==
    \A s \in Symbols : work[s].status = "OPEN" => db[s].status = "OPEN"

\* The rows know of a recent exit: the row is still OPEN, or was closed since.
KnowsExit(rows, s) ==
    exitAge[s] < Cooldown =>
        \/ rows[s].status = "OPEN"
        \/ rows[s].status = "CLOSED" /\ rows[s].age <= exitAge[s]

ExitsAreKnown == \A s \in Symbols : KnowsExit(db, s) /\ KnowsExit(work, s)

\* What the evaluation found still holds when the order is placed: the user may
\* have opened a position since, the system has not.
EntryIsFree ==
    pc = "order" =>
        /\ \A p \in exch[cycle.symbol] : p.by # "system"
        /\ work[cycle.symbol].status # "OPEN"
        /\ exitAge[cycle.symbol] >= Cooldown

EntryInv ==
    /\ Typed /\ SessionOpensCommitted /\ ExitsAreKnown /\ EntryIsFree
    /\ OneSystemPosition

\* The steps that change neither the exchange, the rows nor the exit times.
LEMMA QuietStep ==
    ASSUME EntryInv, pc' # "order" \/ (pc' = pc /\ cycle' = cycle),
           UNCHANGED <<exch, db, work, exitAge>>
    PROVE  SessionOpensCommitted' /\ ExitsAreKnown' /\ EntryIsFree'
           /\ OneSystemPosition'
BY DEF EntryInv, SessionOpensCommitted, ExitsAreKnown, KnowsExit, EntryIsFree,
       OneSystemPosition

\* The steps that make the committed rows and the session's the same.
LEMMA CommitStep ==
    ASSUME EntryInv, pc' # "order", UNCHANGED <<exch, exitAge>>,
           db' = work' /\ (work' = work \/ work' = db)
    PROVE  SessionOpensCommitted' /\ ExitsAreKnown' /\ EntryIsFree'
           /\ OneSystemPosition'
BY DEF EntryInv, SessionOpensCommitted, ExitsAreKnown, KnowsExit, EntryIsFree,
       OneSystemPosition

\* A position leaves: outside "order", or one whose row is not OPEN.
LEMMA LeaveStep ==
    ASSUME EntryInv, NEW s \in Symbols, NEW p, Leaves(s, p),
           UNCHANGED <<db, work, pc>>, pc # "order" \/ cycle' = cycle
    PROVE  SessionOpensCommitted' /\ ExitsAreKnown' /\ EntryIsFree'
           /\ OneSystemPosition'
<1>1. /\ exch \in [Symbols -> SUBSET Position] /\ exitAge \in [Symbols -> 0..Cooldown]
      /\ Cooldown \in Nat
  BY CycleAssumption DEF EntryInv, Typed, TypeOK
<1>2. /\ exch' = [exch EXCEPT ![s] = @ \ {p}]
      /\ exitAge' = IF work[s].status = "OPEN" THEN [exitAge EXCEPT ![s] = 0]
                    ELSE exitAge
  BY DEF Leaves
<1>3. SessionOpensCommitted'
  BY DEF EntryInv, SessionOpensCommitted
<1>4. ExitsAreKnown'
  <2>1. CASE work[s].status = "OPEN"
    <3>1. db[s].status = "OPEN"
      BY <2>1 DEF EntryInv, SessionOpensCommitted
    <3>2. QED
      BY <1>1, <1>2, <2>1, <3>1 DEF EntryInv, ExitsAreKnown, KnowsExit
  <2>2. CASE work[s].status # "OPEN"
    BY <1>2, <2>2 DEF EntryInv, ExitsAreKnown, KnowsExit
  <2>3. QED
    BY <2>1, <2>2
<1>5. EntryIsFree'
  BY <1>1, <1>2 DEF EntryInv, Typed, CycleHasSymbol, EntryIsFree
<1>6. OneSystemPosition'
  BY <1>1, <1>2 DEF EntryInv, OneSystemPosition
<1>7. QED
  BY <1>3, <1>4, <1>5, <1>6

LEMMA ManageCloseStep ==
    ASSUME EntryInv, NEW p \in cycle.todo, NEW executed \in BOOLEAN,
           NEW reply \in Replies, ManageClose(p, executed, reply)
    PROVE  SessionOpensCommitted' /\ ExitsAreKnown' /\ EntryIsFree'
           /\ OneSystemPosition'
<1> DEFINE s == cycle.symbol
<1>1. /\ exch \in [Symbols -> SUBSET Position]
      /\ db \in [Symbols -> Row] /\ work \in [Symbols -> Row]
      /\ exitAge \in [Symbols -> 0..Cooldown] /\ Cooldown \in Nat
      /\ s \in Symbols /\ pc = "managing" /\ pc' = "managing"
      /\ db[s].status = "OPEN"
  BY CycleAssumption DEF EntryInv, Typed, TypeOK, CycleHasSymbol, ManageClose
<1>2. \/ exch' = [exch EXCEPT ![s] = @ \ {p}]
      \/ exch' = exch
  BY <1>1 DEF ManageClose, Leaves, exchangeVars
<1>3. \/ exitAge' = exitAge
      \/ work[s].status = "OPEN" /\ exitAge' = [exitAge EXCEPT ![s] = 0]
  BY DEF ManageClose, Leaves
<1>4. \/ db' = db /\ work' = [work EXCEPT ![s] = ClosedRow]
      \/ db' = db /\ work' = work
      \/ db' = work /\ work' = work
  BY DEF ManageClose, RecordFailure, databaseVars
<1>5. ASSUME NEW t \in Symbols PROVE exitAge'[t] \in 0..Cooldown
  BY <1>1, <1>3
<1>6. ASSUME NEW t \in Symbols
      PROVE  exitAge'[t] < Cooldown =>
                \/ db[t].status = "OPEN"
                \/ db[t].status = "CLOSED" /\ db[t].age <= exitAge'[t]
  BY <1>1, <1>3 DEF EntryInv, ExitsAreKnown, KnowsExit
<1>7. ASSUME NEW t \in Symbols
      PROVE  exitAge'[t] < Cooldown =>
                \/ work[t].status = "OPEN"
                \/ work[t].status = "CLOSED" /\ work[t].age <= exitAge'[t]
  BY <1>1, <1>3 DEF EntryInv, ExitsAreKnown, KnowsExit
<1>8. ExitsAreKnown'
  BY <1>1, <1>4, <1>5, <1>6, <1>7 DEF ExitsAreKnown, KnowsExit, ClosedRow
<1>9. SessionOpensCommitted'
  BY <1>1, <1>4 DEF EntryInv, SessionOpensCommitted, ClosedRow
<1>10. EntryIsFree'
  BY <1>1 DEF EntryIsFree
<1>11. OneSystemPosition'
  BY <1>1, <1>2 DEF EntryInv, OneSystemPosition
<1>12. QED
  BY <1>8, <1>9, <1>10, <1>11

LEMMA PlaceOrderStep ==
    ASSUME EntryInv, NEW executed \in BOOLEAN, NEW answer \in Answers,
           PlaceOrder(executed, answer)
    PROVE  SessionOpensCommitted' /\ ExitsAreKnown' /\ EntryIsFree'
           /\ OneSystemPosition'
<1> DEFINE s == cycle.symbol
<1>1. /\ exch \in [Symbols -> SUBSET Position] /\ s \in Symbols
      /\ pc = "order" /\ pc' = "sync" /\ UNCHANGED <<db, work, exitAge>>
  BY DEF EntryInv, Typed, TypeOK, CycleHasSymbol, PlaceOrder, databaseVars
<1>2. \/ exch' = exch
      \/ exch' = [exch EXCEPT ![s] = @ \cup {[id |-> lastId + 1, by |-> "system"]}]
  BY DEF PlaceOrder, Opens, exchangeVars
<1>3. OneSystemPosition'
  <2>1. \A q \in exch[s] : q.by # "system"
    BY <1>1 DEF EntryInv, EntryIsFree
  <2>2. QED
    BY <1>1, <1>2, <2>1 DEF EntryInv, OneSystemPosition
<1>4. QED
  BY <1>1, <1>3
     DEF EntryInv, SessionOpensCommitted, ExitsAreKnown, KnowsExit, EntryIsFree

LEMMA UserOpensStep ==
    ASSUME EntryInv, NEW s \in Symbols, UserOpens(s)
    PROVE  SessionOpensCommitted' /\ ExitsAreKnown' /\ EntryIsFree'
           /\ OneSystemPosition'
<1>1. /\ exch \in [Symbols -> SUBSET Position]
      /\ exch[s] = {} /\ UNCHANGED <<db, work, exitAge, pc, cycle>>
      /\ exch' = [exch EXCEPT ![s] = {[id |-> lastId + 1, by |-> "user"]}]
  BY DEF EntryInv, Typed, TypeOK, UserOpens, Opens, databaseVars, historyVars
<1>2. OneSystemPosition'
  BY <1>1 DEF EntryInv, OneSystemPosition
<1>3. EntryIsFree'
  BY <1>1 DEF EntryInv, EntryIsFree, Typed, CycleHasSymbol
<1>4. QED
  BY <1>1, <1>2, <1>3 DEF EntryInv, SessionOpensCommitted, ExitsAreKnown, KnowsExit

\* A symbol whose exit is recent has an OPEN row or a young CLOSED one, and
\* neither lets an entry pass.
LEMMA AllowStep ==
    ASSUME EntryInv, Allow
    PROVE  SessionOpensCommitted' /\ ExitsAreKnown' /\ EntryIsFree'
           /\ OneSystemPosition'
<1> DEFINE s == cycle.symbol
<1>1. /\ exitAge \in [Symbols -> 0..Cooldown] /\ work \in [Symbols -> Row]
      /\ Cooldown \in Nat /\ s \in Symbols /\ MayEnter(s)
      /\ UNCHANGED <<exch, db, work, exitAge, cycle>>
  BY CycleAssumption
     DEF EntryInv, Typed, TypeOK, CycleHasSymbol, Allow, Goto, exchangeVars,
         databaseVars, historyVars
<1>2. exitAge[s] >= Cooldown
  <2>1. work[s].age \in 0..Cooldown /\ exitAge[s] \in 0..Cooldown
    BY <1>1 DEF Row
  <2>2. QED
    BY <1>1, <2>1 DEF EntryInv, ExitsAreKnown, KnowsExit, MayEnter
<1>3. QED
  BY <1>1, <1>2
     DEF EntryInv, SessionOpensCommitted, ExitsAreKnown, KnowsExit, EntryIsFree,
         OneSystemPosition, MayEnter

LEMMA ReconcileStep ==
    ASSUME EntryInv, ReconcileWrite
    PROVE  SessionOpensCommitted' /\ ExitsAreKnown' /\ EntryIsFree'
           /\ OneSystemPosition'
<1> DEFINE rows == Reconciled(work, cycle.held)
<1>1. /\ work \in [Symbols -> Row] /\ exitAge \in [Symbols -> 0..Cooldown]
      /\ Cooldown \in Nat
      /\ UNCHANGED <<exch, exitAge>> /\ pc' = "persist"
      /\ db' = rows /\ work' = rows
  BY CycleAssumption
     DEF EntryInv, Typed, TypeOK, ReconcileWrite, Goto, exchangeVars, historyVars
<1>2. rows \in [Symbols -> Row]
  BY <1>1, RowsType
<1>3. ASSUME NEW s \in Symbols PROVE KnowsExit(rows, s)
  <2>1. KnowsExit(work, s) /\ exitAge[s] \in 0..Cooldown
    BY <1>1 DEF EntryInv, ExitsAreKnown
  <2>2. rows[s] = IF s \in cycle.held THEN [work[s] EXCEPT !.status = "OPEN"]
                  ELSE IF work[s].status = "OPEN" THEN ClosedRow ELSE work[s]
    BY <1>1 DEF Reconciled, Close
  <2>3. work[s] \in Row
    BY <1>1
  <2>4. QED
    BY <1>1, <2>1, <2>2, <2>3 DEF KnowsExit, ClosedRow, Row
<1> HIDE DEF rows
<1>4. QED
  BY <1>1, <1>3
     DEF EntryInv, SessionOpensCommitted, ExitsAreKnown, KnowsExit, EntryIsFree,
         OneSystemPosition

LEMMA TickStep ==
    ASSUME EntryInv, Tick
    PROVE  SessionOpensCommitted' /\ ExitsAreKnown' /\ EntryIsFree'
           /\ OneSystemPosition'
<1>1. /\ db \in [Symbols -> Row] /\ work \in [Symbols -> Row]
      /\ exitAge \in [Symbols -> 0..Cooldown] /\ Cooldown \in Nat
      /\ UNCHANGED <<exch, pc, cycle>>
      /\ db' = OlderRows(db) /\ work' = OlderRows(work)
      /\ exitAge' = [s \in Symbols |-> Older(exitAge[s], Cooldown)]
  BY CycleAssumption DEF EntryInv, Typed, TypeOK, Tick, exchangeVars
<1>2. ASSUME NEW rows \in [Symbols -> Row], NEW s \in Symbols
      PROVE  /\ OlderRows(rows)[s].status = rows[s].status
             /\ OlderRows(rows)[s].age = Older(rows[s].age, Cooldown)
  BY DEF OlderRows, Row
<1>3. ASSUME NEW s \in Symbols
      PROVE  /\ exitAge'[s] = Older(exitAge[s], Cooldown)
             /\ exitAge[s] \in 0..Cooldown
             /\ db[s].age \in 0..Cooldown /\ work[s].age \in 0..Cooldown
  BY <1>1 DEF Row
<1>4. SessionOpensCommitted'
  BY <1>1, <1>2 DEF EntryInv, SessionOpensCommitted
<1>5. ExitsAreKnown'
  <2> SUFFICES ASSUME NEW s \in Symbols, exitAge'[s] < Cooldown,
                      NEW rows \in {db, work}
               PROVE  \/ OlderRows(rows)[s].status = "OPEN"
                      \/ /\ OlderRows(rows)[s].status = "CLOSED"
                         /\ OlderRows(rows)[s].age <= exitAge'[s]
    BY <1>1 DEF ExitsAreKnown, KnowsExit
  <2>1. exitAge'[s] = exitAge[s] + 1 /\ exitAge[s] < Cooldown
    BY <1>1, <1>3 DEF Older
  <2>2. rows[s].status = "OPEN" \/ (rows[s].status = "CLOSED" /\ rows[s].age <= exitAge[s])
    BY <2>1 DEF EntryInv, ExitsAreKnown, KnowsExit
  <2>3. rows[s].age \in 0..Cooldown /\ rows \in [Symbols -> Row]
    BY <1>1, <1>3
  <2>4. Older(rows[s].age, Cooldown) <= rows[s].age + 1
    BY <1>1, <2>3 DEF Older
  <2>5. Older(rows[s].age, Cooldown) \in Nat
    BY <1>1, <2>3 DEF Older
  <2>6. QED
    BY <1>1, <1>2, <1>3, <2>1, <2>2, <2>3, <2>4, <2>5
<1>6. EntryIsFree'
  BY <1>1, <1>2, <1>3 DEF EntryInv, EntryIsFree, Typed, CycleHasSymbol, Older
<1>7. OneSystemPosition'
  BY <1>1 DEF EntryInv, OneSystemPosition
<1>8. QED
  BY <1>4, <1>5, <1>6, <1>7

LEMMA EntryInvStep == EntryInv /\ [Next]_vars => EntryInv'
<1> SUFFICES ASSUME EntryInv, [Next]_vars PROVE EntryInv'
  OBVIOUS
<1> DEFINE Kept == SessionOpensCommitted /\ ExitsAreKnown /\ EntryIsFree
                   /\ OneSystemPosition
<1>1. Typed'
  BY TypedStep DEF EntryInv
<1>2. CASE \/ \E s \in Symbols, mode \in Modes : StartCycle(s, mode)
           \/ ReadPositions \/ (\E p \in cycle.todo : LeaveAlone(p))
           \/ ManagementDone \/ NoEntry \/ SkipSync \/ ReconcileRead
  BY <1>1, <1>2, QuietStep
     DEF StartCycle, ReadPositions, LeaveAlone, ManagementDone, NoEntry, SkipSync,
         ReconcileRead, Goto, AfterManagement, exchangeVars, databaseVars,
         historyVars, EntryInv
<1>3. CASE BestEffortFails \/ Halt \/ Persist \/ Abort \/ Crash
  <2>1. /\ UNCHANGED <<exch, exitAge>> /\ pc' # "order"
        /\ db' = work' /\ (work' = work \/ work' = db)
    BY <1>3
       DEF BestEffortFails, Halt, Persist, Abort, Crash, RecordFailure, Goto,
           AfterManagement, exchangeVars, historyVars
  <2>2. QED
    BY <1>1, <2>1, CommitStep DEF EntryInv
<1>4. CASE \E p \in cycle.todo, executed \in BOOLEAN, reply \in Replies :
              ManageClose(p, executed, reply)
  BY <1>1, <1>4, ManageCloseStep DEF EntryInv
<1>5. CASE Allow
  BY <1>1, <1>5, AllowStep DEF EntryInv
<1>6. CASE \E executed \in BOOLEAN, answer \in Answers : PlaceOrder(executed, answer)
  BY <1>1, <1>6, PlaceOrderStep DEF EntryInv
<1>7. CASE ReconcileWrite
  BY <1>1, <1>7, ReconcileStep DEF EntryInv
<1>8. CASE \E s \in Symbols : \E p \in exch[s] : ExternalExit(s, p)
  BY <1>1, <1>8, LeaveStep DEF EntryInv, ExternalExit, databaseVars
<1>9. CASE \E s \in Symbols : UserOpens(s)
  BY <1>1, <1>9, UserOpensStep DEF EntryInv
<1>10. CASE (\E s \in Symbols : PriceMoves(s)) \/ Pause \/ Resume \/ UNCHANGED vars
  BY <1>1, <1>10, QuietStep
     DEF PriceMoves, Pause, Resume, vars, exchangeVars, databaseVars, historyVars,
         EntryInv
<1>11. CASE Tick
  BY <1>1, <1>11, TickStep DEF EntryInv
<1>12. QED
  BY <1>2, <1>3, <1>4, <1>5, <1>6, <1>7, <1>8, <1>9, <1>10, <1>11
     DEF Next, Worker, Environment

LEMMA EntryInvInit == Init => EntryInv
<1> SUFFICES ASSUME Init PROVE EntryInv
  OBVIOUS
<1>1. SessionOpensCommitted /\ ExitsAreKnown /\ EntryIsFree /\ OneSystemPosition
  BY CycleAssumption
     DEF Init, SessionOpensCommitted, ExitsAreKnown, KnowsExit, EntryIsFree,
         OneSystemPosition, NoRow
<1>2. QED
  BY <1>1, TypedInit DEF EntryInv

\* The system never holds two positions of its own in a symbol.
THEOREM OnePositionPerSymbol == Spec => []OneSystemPosition
<1>1. EntryInv => OneSystemPosition
  BY DEF EntryInv
<1>2. QED
  BY <1>1, EntryInvInit, EntryInvStep, PTL DEF Spec

\* Only PlaceOrder adds a position of the system, and only to the cycle's symbol.
LEMMA EntryIsCoolStep ==
    EntryInv /\ [Next]_vars =>
        [\A s \in Symbols : SystemOpens(s) => exitAge[s] >= Cooldown]_vars
<1> SUFFICES ASSUME EntryInv, [Next]_vars, NEW s \in Symbols, SystemOpens(s)
             PROVE  exitAge[s] >= Cooldown
  OBVIOUS
<1>1. exch \in [Symbols -> SUBSET Position]
  BY DEF EntryInv, Typed, TypeOK
<1>2. CASE exch' = exch
  BY <1>2 DEF SystemOpens
<1>3. ASSUME NEW t \in Symbols, NEW p, Leaves(t, p) PROVE FALSE
  BY <1>1, <1>3 DEF Leaves, SystemOpens
<1>4. ASSUME NEW t \in Symbols, UserOpens(t) PROVE FALSE
  BY <1>1, <1>4 DEF UserOpens, Opens, SystemOpens
<1>5. ASSUME NEW executed \in BOOLEAN, NEW answer \in Answers,
             PlaceOrder(executed, answer)
      PROVE  exitAge[s] >= Cooldown
  <2>1. pc = "order" /\ cycle.symbol \in Symbols
    BY <1>5 DEF PlaceOrder, EntryInv, Typed, CycleHasSymbol
  <2>2. s = cycle.symbol
    BY <1>1, <1>5, <2>1 DEF PlaceOrder, Opens, SystemOpens, exchangeVars
  <2>3. QED
    BY <2>1, <2>2 DEF EntryInv, EntryIsFree
<1>6. ASSUME NEW p \in cycle.todo, NEW executed \in BOOLEAN, NEW reply \in Replies,
             ManageClose(p, executed, reply), exch' # exch
      PROVE  FALSE
  BY <1>3, <1>6 DEF ManageClose, exchangeVars, EntryInv, Typed, CycleHasSymbol
<1>7. QED
  BY <1>2, <1>3, <1>4, <1>5, <1>6
     DEF Next, Worker, Environment, StartCycle, ReadPositions, LeaveAlone,
         ManagementDone, BestEffortFails, NoEntry, Halt, Allow, SkipSync,
         ReconcileRead, ReconcileWrite, Persist, Abort, Crash, ExternalExit,
         PriceMoves, Pause, Resume, Tick, vars, exchangeVars

\* An entry never follows the exit of a position that had a row within the
\* cooldown, whatever was lost, rolled back or repeated in between.
THEOREM RecordedExitsCoolDown == Spec => RecordedExitCoolsDown
BY EntryInvInit, EntryInvStep, EntryIsCoolStep, PTL DEF Spec, RecordedExitCoolsDown
-----------------------------------------------------------------------------
(* A pause admits the entry of the cycle that is under way, and no other.  *)

\* The running cycle read RUNNING and has not placed its order yet.
MayStillEnter ==
    pc \in {"manage", "managing", "evaluate", "order"} /\ ~cycle.halted

PauseInv ==
    /\ Typed
    /\ pc \in {"evaluate", "order"} => ~cycle.halted
    /\ control = "RUNNING" => entries = 0
    /\ entries = 0 \/ (entries = 1 /\ ~MayStillEnter)

\* A new pause starts from no entries, one in force is left as it is.
LEMMA SetPausedFacts ==
    ASSUME PauseInv, SetPaused
    PROVE  /\ control' = "PAUSED"
           /\ entries' = 0 \/ entries' = entries
BY DEF SetPaused

LEMMA RecordFailureFacts ==
    ASSUME PauseInv, NEW rows, NEW external \in BOOLEAN, RecordFailure(rows, external)
    PROVE  /\ control' = control \/ control' = "PAUSED"
           /\ \/ entries' = 0
              \/ entries' = entries
BY SetPausedFacts DEF RecordFailure

LEMMA PauseInvStep == PauseInv /\ [Next]_vars => PauseInv'
<1> SUFFICES ASSUME PauseInv, [Next]_vars PROVE PauseInv'
  OBVIOUS
<1>1. Typed' /\ cycle \in Cycle
  BY TypedStep DEF PauseInv, Typed, TypeOK
<1>2. CASE (\E s \in Symbols, mode \in Modes : StartCycle(s, mode)) \/ ReadPositions \/ ManagementDone
           \/ (\E p \in cycle.todo : LeaveAlone(p))
  <2>1. UNCHANGED <<control, entries>> /\ control \in {"RUNNING", "PAUSED"}
    BY <1>2 DEF StartCycle, ReadPositions, ManagementDone, LeaveAlone, historyVars,
                PauseInv, Typed, TypeOK
  <2>2. ASSUME NEW s \in Symbols, NEW mode \in Modes, StartCycle(s, mode)
        PROVE  PauseInv'
    <3>1. pc' = "manage" /\ cycle'.halted = (control = "PAUSED")
      BY <2>2 DEF StartCycle, NoCycle
    <3>2. QED
      BY <1>1, <2>1, <3>1 DEF PauseInv, MayStillEnter
  <2>3. CASE ReadPositions \/ ManagementDone \/ \E p \in cycle.todo : LeaveAlone(p)
    <3>1. /\ cycle'.halted = cycle.halted
          /\ pc \in {"manage", "managing"}
          /\ pc' \in {"managing", IF cycle.halted THEN "sync" ELSE "evaluate"}
      BY <1>1, <2>3 DEF ReadPositions, ManagementDone, LeaveAlone, Goto,
                        AfterManagement, Cycle
    <3>2. QED
      BY <1>1, <2>1, <3>1 DEF PauseInv, MayStillEnter
  <2>4. QED
    BY <1>2, <2>2, <2>3
<1>3. ASSUME NEW p \in cycle.todo, NEW executed \in BOOLEAN, NEW reply \in Replies,
             ManageClose(p, executed, reply)
      PROVE  PauseInv'
  <2>1. pc = "managing" /\ pc' = pc /\ cycle'.halted = cycle.halted
    BY <1>1, <1>3 DEF ManageClose, Cycle
  <2>2. /\ control' = control \/ control' = "PAUSED"
        /\ entries' = 0 \/ entries' = entries
    BY <1>3, RecordFailureFacts DEF ManageClose, databaseVars, PauseInv
  <2>3. control' = "RUNNING" => entries' = 0
    BY <2>2 DEF PauseInv
  <2>4. QED
    BY <1>1, <2>1, <2>2, <2>3 DEF PauseInv, MayStillEnter
<1>4. CASE BestEffortFails
  <2>1. /\ control' = control \/ control' = "PAUSED"
        /\ entries' = 0 \/ entries' = entries
    BY <1>4, RecordFailureFacts DEF BestEffortFails
  <2>2. /\ cycle' = cycle
        /\ \/ pc = "managing" /\ pc' = IF cycle.halted THEN "sync" ELSE "evaluate"
           \/ pc' = "persist"
    BY <1>4 DEF BestEffortFails, Goto, AfterManagement
  <2>3. QED
    BY <1>1, <2>1, <2>2 DEF PauseInv, MayStillEnter
<1>5. CASE NoEntry \/ Allow \/ SkipSync \/ ReconcileRead \/ ReconcileWrite \/ Persist
  BY <1>1, <1>5
     DEF PauseInv, MayStillEnter, NoEntry, Allow, SkipSync, ReconcileRead,
         ReconcileWrite, Persist, Goto, NoCycle, Cycle, historyVars
<1>6. CASE Halt
  BY <1>1, <1>6, SetPausedFacts DEF PauseInv, MayStillEnter, Halt, Goto
<1>7. ASSUME NEW executed \in BOOLEAN, NEW answer \in Answers,
             PlaceOrder(executed, answer)
      PROVE  PauseInv'
  <2>1. pc = "order" /\ pc' = "sync" /\ control' = control /\ entries = 0
    BY <1>7 DEF PlaceOrder, PauseInv, MayStillEnter
  <2>2. \/ entries' = entries
        \/ control = "PAUSED" /\ entries' = entries + 1
    BY <1>7 DEF PlaceOrder
  <2>3. entries \in Nat
    BY DEF PauseInv, Typed, TypeOK
  <2>4. QED
    BY <1>1, <2>1, <2>2, <2>3 DEF PauseInv, MayStillEnter
<1>8. CASE Abort
  <2>1. /\ control' = control \/ control' = "PAUSED"
        /\ entries' = 0 \/ entries' = entries
    BY <1>8, RecordFailureFacts DEF Abort
  <2>2. QED
    BY <1>1, <1>8, <2>1 DEF PauseInv, MayStillEnter, Abort
<1>9. CASE Crash \/ Resume
  BY <1>1, <1>9 DEF PauseInv, MayStillEnter, Crash, Resume, historyVars
<1>10. CASE Pause
  BY <1>1, <1>10, SetPausedFacts DEF PauseInv, MayStillEnter, Pause
<1>11. CASE UNCHANGED <<control, pc, cycle, entries>>
  BY <1>1, <1>11 DEF PauseInv, MayStillEnter
<1>12. QED
  BY <1>2, <1>3, <1>4, <1>5, <1>6, <1>7, <1>8, <1>9, <1>10, <1>11
     DEF Next, Worker, Environment, ExternalExit, UserOpens, PriceMoves, Tick, vars,
         historyVars

LEMMA PauseInvInit == Init => PauseInv
BY TypedInit DEF Init, PauseInv, MayStillEnter, NoCycle

\* However pause and resume, failures and crashes interleave with the cycles, at
\* most one entry is executed under a pause.
THEOREM PauseAdmitsAtMostOne == Spec => []PauseAdmitsOneEntry
<1>1. PauseInv => PauseAdmitsOneEntry
  BY DEF PauseInv, PauseAdmitsOneEntry
<1>2. QED
  BY <1>1, PauseInvInit, PauseInvStep, PTL DEF Spec
-----------------------------------------------------------------------------
(* Notify mode.                                                            *)

\* A cycle in notify mode never comes to the steps that trade.
NotifyInv ==
    cycle.mode = "notify" => pc \notin {"managing", "order"}

LEMMA NotifyInvStep == Typed /\ NotifyInv /\ [Next]_vars => NotifyInv'
<1> SUFFICES ASSUME Typed, NotifyInv, [Next]_vars PROVE NotifyInv'
  OBVIOUS
<1>1. cycle \in Cycle
  BY DEF Typed, TypeOK
<1>2. CASE Worker
  BY <1>1, <1>2
     DEF Worker, NotifyInv, StartCycle, ReadPositions, LeaveAlone, ManageClose,
         ManagementDone, BestEffortFails, NoEntry, Halt, Allow, PlaceOrder, SkipSync,
         ReconcileRead, ReconcileWrite, Persist, Abort, Goto, AfterManagement,
         NoCycle, Cycle
<1>3. CASE Environment \/ UNCHANGED vars
  BY <1>3
     DEF Environment, NotifyInv, Crash, ExternalExit, UserOpens, PriceMoves, Pause,
         Resume, Tick, vars, NoCycle
<1>4. QED
  BY <1>2, <1>3 DEF Next

\* What the environment does while a cycle runs leaves the place and the cycle alone.
LEMMA EnvironmentIsNoMove ==
    ASSUME Environment \/ UNCHANGED vars, WorkerMoves
    PROVE  Crash
BY DEF Environment, WorkerMoves, ExternalExit, UserOpens, PriceMoves, Pause, Resume,
       Tick, vars

\* Every step of the worker is a move, so that NotifyNeverTrades speaks of each.
LEMMA WorkerStepsAreMoves == Typed /\ Worker => WorkerMoves
<1> SUFFICES ASSUME Typed, Worker PROVE WorkerMoves
  OBVIOUS
<1>1. cycle \in Cycle
  BY DEF Typed, TypeOK
<1>2. ASSUME NEW p \in cycle.todo, cycle' = [cycle EXCEPT !.todo = @ \ {p}]
      PROVE  cycle' # cycle
  BY <1>1, <1>2 DEF Cycle
<1>3. ASSUME NEW p \in cycle.todo,
             LeaveAlone(p) \/ \E executed \in BOOLEAN, reply \in Replies :
                                 ManageClose(p, executed, reply)
      PROVE  WorkerMoves
  BY <1>2, <1>3 DEF LeaveAlone, ManageClose, WorkerMoves
<1>4. CASE \E executed \in BOOLEAN, answer \in Answers : PlaceOrder(executed, answer)
  BY <1>4 DEF PlaceOrder, WorkerMoves
<1>5. CASE \E s \in Symbols, mode \in Modes : StartCycle(s, mode)
  BY <1>5 DEF StartCycle, WorkerMoves
<1>6. CASE ReadPositions \/ ManagementDone \/ BestEffortFails \/ NoEntry \/ Halt \/ Allow
  BY <1>6 DEF ReadPositions, ManagementDone, BestEffortFails, NoEntry, Halt, Allow,
              Goto, AfterManagement, WorkerMoves
<1>7. CASE SkipSync \/ ReconcileRead \/ ReconcileWrite \/ Persist \/ Abort
  BY <1>7 DEF SkipSync, ReconcileRead, ReconcileWrite, Persist, Abort, Goto, WorkerMoves
<1>8. QED
  BY <1>3, <1>4, <1>5, <1>6, <1>7 DEF Worker

LEMMA NotifyIsQuiet ==
    NotifyInv /\ [Next]_vars =>
        [cycle.mode = "notify" /\ WorkerMoves => UNCHANGED exch]_vars
<1> SUFFICES ASSUME NotifyInv, [Next]_vars, cycle.mode = "notify", WorkerMoves
             PROVE  UNCHANGED exch
  OBVIOUS
<1>1. pc \notin {"managing", "order"}
  BY DEF NotifyInv
<1>2. CASE Worker
  BY <1>1, <1>2
     DEF Worker, StartCycle, ReadPositions, LeaveAlone, ManageClose, ManagementDone,
         BestEffortFails, NoEntry, Halt, Allow, PlaceOrder, SkipSync, ReconcileRead,
         ReconcileWrite, Persist, Abort, exchangeVars
<1>3. CASE Environment \/ UNCHANGED vars
  BY <1>3, EnvironmentIsNoMove DEF Crash, exchangeVars
<1>4. QED
  BY <1>2, <1>3 DEF Next

\* In notify mode no step of the worker changes what the exchange holds, the closing
\* orders of the management and the entries included.
THEOREM NotifyLeavesTheExchangeAlone == Spec => NotifyNeverTrades
<1>1. Init => NotifyInv
  BY CycleAssumption DEF Init, NotifyInv, NoCycle
<1>2. QED
  BY <1>1, TypedInit, TypedStep, NotifyInvStep, NotifyIsQuiet, PTL
     DEF Spec, NotifyNeverTrades
-----------------------------------------------------------------------------
(* What the account sees: every step is one of AccountPromise, or none.    *)

LEMMA PlaceIsPosition ==
    ASSUME Typed, NEW s \in Symbols, NEW i, NEW by
    PROVE  <<i, s, by>> \in Places <=> [id |-> i, by |-> by] \in exch[s]
<1>1. exch[s] \subseteq Position
  BY DEF Typed, TypeOK
<1>2. ASSUME NEW p \in exch[s] PROVE p = [id |-> p.id, by |-> p.by]
  BY <1>1 DEF Position
<1>3. ASSUME <<i, s, by>> \in Places PROVE [id |-> i, by |-> by] \in exch[s]
  <2>1. PICK t \in Symbols : \E p \in exch[t] : <<i, s, by>> = <<p.id, t, p.by>>
    BY <1>3 DEF Places
  <2>2. PICK p \in exch[s] : p.id = i /\ p.by = by
    BY <2>1
  <2>3. QED
    BY <1>2, <2>2
<1>4. ASSUME [id |-> i, by |-> by] \in exch[s] PROVE <<i, s, by>> \in Places
  <2>1. <<i, s, by>> \in {<<p.id, s, p.by>> : p \in exch[s]}
    BY <1>4
  <2>2. QED
    BY <2>1 DEF Places
<1>5. QED
  BY <1>3, <1>4


\* A position that leaves takes its place with it, and no other.
LEMMA LeavingEmptiesAPlace ==
    ASSUME Typed, NEW s \in Symbols, NEW p \in exch[s], Leaves(s, p),
           Promise!Pauses \/ UNCHANGED <<IsPaused, entries>>
    PROVE  \E q \in Places : Promise!Leave(q)
<1> DEFINE q == <<p.id, s, p.by>>
<1>1. /\ exch \in [Symbols -> SUBSET Position] /\ exitAge \in [Symbols -> 0..Cooldown]
      /\ exch' = [exch EXCEPT ![s] = @ \ {p}]
      /\ exitAge' \in {exitAge, [exitAge EXCEPT ![s] = 0]} /\ lastId' = lastId
  BY DEF Typed, TypeOK, Leaves
<1>2. p = [id |-> p.id, by |-> p.by]
  BY <1>1 DEF Position
<1>3. q \in Places
  BY <1>2, PlaceIsPosition
<1>4. Places' = Places \ {q}
  <2>1. ASSUME NEW t \in Symbols, NEW r \in exch[t], ~(t = s /\ r = p)
        PROVE  r \in exch'[t] /\ <<r.id, t, r.by>> # q
    BY <1>1, <1>2, <2>1 DEF Position
  <2>2. ASSUME NEW t \in Symbols, NEW r \in exch'[t]
        PROVE  r \in exch[t] /\ ~(t = s /\ r = p)
    BY <1>1, <2>2
  <2>3. Places' \subseteq Places \ {q}
    BY <2>1, <2>2 DEF Places
  <2>4. Places \ {q} \subseteq Places'
    <3>1. ASSUME NEW x \in Places, x # q PROVE x \in Places'
      <4>1. PICK t \in Symbols : \E r \in exch[t] : x = <<r.id, t, r.by>>
        BY <3>1 DEF Places
      <4>2. PICK r \in exch[t] : x = <<r.id, t, r.by>>
        BY <4>1
      <4>3. r \in exch'[t]
        BY <2>1, <3>1, <4>2
      <4>4. QED
        BY <4>2, <4>3 DEF Places
    <3>2. QED
      BY <3>1
  <2>5. QED
    BY <2>3, <2>4
<1>5. exitAge' \in {exitAge, [exitAge EXCEPT ![q[2]] = 0]} /\ (1..lastId)' = 1..lastId
  BY <1>1
<1>6. Promise!Leave(q)
  BY <1>3, <1>4, <1>5 DEF Promise!Leave
<1>7. QED
  BY <1>3, <1>6

\* A position that is opened takes an id that was never used.
LEMMA OpeningTakesAPlace ==
    ASSUME Typed, NEW s \in Symbols, NEW by \in {"system", "user"}, Opens(s, by)
    PROVE  Promise!Open(s, by)
<1> DEFINE i == lastId + 1
           p == [id |-> i, by |-> by]
<1>1. /\ exch \in [Symbols -> SUBSET Position] /\ lastId \in 0..MaxId /\ MaxId \in Nat
      /\ lastId < MaxId /\ lastId' = lastId + 1
      /\ exch' = [exch EXCEPT ![s] = @ \cup {p}]
  BY CycleAssumption DEF Typed, TypeOK, Opens
<1>2. i \in Ids \ 1..lastId /\ (1..lastId)' = 1..lastId \cup {i}
  BY <1>1 DEF Ids
<1>3. Places' = Places \cup {<<i, s, by>>}
  <2>1. ASSUME NEW x \in Places' PROVE x \in Places \/ x = <<i, s, by>>
    <3>1. PICK t \in Symbols : \E r \in exch'[t] : x = <<r.id, t, r.by>>
      BY <2>1 DEF Places
    <3>2. PICK r \in exch'[t] : x = <<r.id, t, r.by>>
      BY <3>1
    <3>3. r \in exch[t] \/ (t = s /\ r = p)
      BY <1>1, <3>2
    <3>4. QED
      BY <3>2, <3>3 DEF Places
  <2>2. ASSUME NEW t \in Symbols, NEW r \in exch[t] PROVE r \in exch'[t]
    BY <1>1
  <2>3. Places \subseteq Places'
    BY <2>2 DEF Places
  <2>4. p \in exch'[s]
    BY <1>1
  <2>5. <<i, s, by>> \in Places'
    BY <2>4 DEF Places
  <2>6. QED
    BY <2>1, <2>3, <2>5
<1>4. QED
  BY <1>2, <1>3 DEF Promise!Open

LEMMA PausingIsPromised == ASSUME SetPaused PROVE Promise!Pauses
BY DEF SetPaused, Promise!Pauses, IsPaused

\* What a recorded failure does to the pause.
LEMMA FailureIsPromised ==
    ASSUME NEW rows, NEW external \in BOOLEAN, RecordFailure(rows, external)
    PROVE  Promise!Pauses \/ UNCHANGED <<IsPaused, entries>>
BY PausingIsPromised DEF RecordFailure, IsPaused

\* What Promise sees of a state.
Seen == <<1..lastId, Places, exitAge, IsPaused, entries>>

\* A step that leaves the exchange and its exits alone at most pauses.
LEMMA StillStep ==
    ASSUME UNCHANGED <<exch, lastId, exitAge>>,
           Promise!Pauses \/ UNCHANGED <<IsPaused, entries>>
    PROVE  Promise!Pause \/ UNCHANGED Seen
BY DEF Promise!Pause, Seen, Places

LEMMA EntryIsPromised ==
    ASSUME EntryInv, PauseInv, NEW answer, PlaceOrder(TRUE, answer)
    PROVE  \E s \in Symbols : Promise!Enter(s)
<1> DEFINE s == cycle.symbol
<1>1. /\ Typed /\ s \in Symbols /\ pc = "order" /\ Opens(s, "system")
      /\ UNCHANGED <<control, exitAge>>
      /\ entries' = IF control = "PAUSED" THEN entries + 1 ELSE entries
  BY DEF EntryInv, Typed, CycleHasSymbol, PlaceOrder
<1>2. Promise!Open(s, "system")
  BY <1>1, OpeningTakesAPlace
<1>3. exitAge[s] >= Cooldown /\ \A p \in exch[s] : p.by # "system"
  BY <1>1 DEF EntryInv, EntryIsFree
<1>4. Promise!Free(s, {"system"})
  <2>1. ASSUME NEW i \in Ids PROVE <<i, s, "system">> \notin Places
    <3>1. [id |-> i, by |-> "system"] \notin exch[s]
      BY <1>3
    <3>2. QED
      BY <1>1, <3>1, PlaceIsPosition
  <2>2. QED
    BY <2>1 DEF Promise!Free
<1>5. entries = 0
  BY <1>1 DEF PauseInv, MayStillEnter
<1>6. QED
  BY <1>1, <1>2, <1>3, <1>4, <1>5 DEF Promise!Enter, IsPaused

LEMMA UserIsPromised ==
    ASSUME Typed, NEW s \in Symbols, UserOpens(s)
    PROVE  Promise!UserOpens(s)
<1>1. exch[s] = {} /\ Opens(s, "user") /\ UNCHANGED <<exitAge, control, entries>>
  BY DEF UserOpens, historyVars
<1>2. Promise!Free(s, {"system", "user"})
  BY <1>1, PlaceIsPosition DEF Promise!Free
<1>3. QED
  BY <1>1, <1>2, OpeningTakesAPlace DEF Promise!UserOpens, IsPaused

LEMMA ManageCloseIsPromised ==
    ASSUME Typed, NEW p \in cycle.todo, NEW executed \in BOOLEAN,
           NEW reply \in Replies, ManageClose(p, executed, reply)
    PROVE  Promise!Next \/ UNCHANGED Seen
<1>1. Promise!Pauses \/ UNCHANGED <<IsPaused, entries>>
  BY FailureIsPromised DEF ManageClose, IsPaused
<1>2. cycle.symbol \in Symbols
  BY DEF Typed, CycleHasSymbol, ManageClose
<1>3. CASE executed
  BY <1>1, <1>2, <1>3, LeavingEmptiesAPlace DEF ManageClose, Promise!Next
<1>4. CASE ~executed
  BY <1>1, <1>4, StillStep DEF ManageClose, exchangeVars, Promise!Next
<1>5. QED
  BY <1>3, <1>4

LEMMA StepIsPromised ==
    EntryInv /\ PauseInv /\ [Next]_vars => Promise!Next \/ UNCHANGED Seen
<1> SUFFICES ASSUME EntryInv, PauseInv, [Next]_vars
             PROVE  Promise!Next \/ UNCHANGED Seen
  OBVIOUS
<1>1. Typed
  BY DEF EntryInv
<1>2. CASE \/ \E s \in Symbols, mode \in Modes : StartCycle(s, mode)
           \/ ReadPositions \/ (\E p \in cycle.todo : LeaveAlone(p))
           \/ ManagementDone \/ NoEntry \/ Allow \/ SkipSync \/ ReconcileRead
           \/ ReconcileWrite \/ Persist \/ Crash \/ (\E s \in Symbols : PriceMoves(s))
           \/ UNCHANGED vars
  BY <1>2
     DEF Seen, Places, IsPaused, StartCycle, ReadPositions, LeaveAlone,
         ManagementDone, NoEntry, Allow, SkipSync, ReconcileRead, ReconcileWrite,
         Persist, Crash, PriceMoves, vars, exchangeVars, historyVars
<1>3. CASE BestEffortFails \/ Abort \/ Halt \/ Pause
  <2>1. UNCHANGED <<exch, lastId, exitAge>>
    BY <1>3 DEF BestEffortFails, Abort, Halt, Pause, exchangeVars
  <2>2. Promise!Pauses \/ UNCHANGED <<IsPaused, entries>>
    BY <1>3, FailureIsPromised, PausingIsPromised
       DEF BestEffortFails, Abort, Halt, Pause
  <2>3. QED
    BY <2>1, <2>2, StillStep DEF Promise!Next
<1>4. CASE \E p \in cycle.todo, executed \in BOOLEAN, reply \in Replies :
              ManageClose(p, executed, reply)
  BY <1>1, <1>4, ManageCloseIsPromised
<1>5. ASSUME NEW executed \in BOOLEAN, NEW answer \in Answers,
             PlaceOrder(executed, answer)
      PROVE  Promise!Next \/ UNCHANGED Seen
  <2>1. CASE executed
    BY <1>5, <2>1, EntryIsPromised DEF Promise!Next
  <2>2. CASE ~executed
    BY <1>5, <2>2 DEF PlaceOrder, exchangeVars, Seen, Places, IsPaused
  <2>3. QED
    BY <2>1, <2>2
<1>6. ASSUME NEW s \in Symbols, NEW p \in exch[s], ExternalExit(s, p)
      PROVE  Promise!Next
  BY <1>1, <1>6, LeavingEmptiesAPlace DEF ExternalExit, IsPaused, Promise!Next
<1>7. CASE \E s \in Symbols : UserOpens(s)
  BY <1>1, <1>7, UserIsPromised DEF Promise!Next
<1>8. CASE Resume
  BY <1>8 DEF Resume, exchangeVars, Promise!Next, Promise!Resume, Places, IsPaused
<1>9. CASE Tick
  BY <1>9 DEF Tick, Older, exchangeVars, Promise!Next, Promise!Age, Places, IsPaused
<1>10. QED
  BY <1>2, <1>3, <1>4, <1>5, <1>6, <1>7, <1>8, <1>9 DEF Next, Worker, Environment

\* Whatever is rolled back, lost, repeated or answered late, the positions of the
\* account only ever change as AccountPromise says.
THEOREM CycleImplementsPromise == Spec => ImplementsPromise
<1>1. Init => Promise!Init
  <2> SUFFICES ASSUME Init PROVE Promise!Init
    OBVIOUS
  <2>1. Places = {} /\ 1..lastId = {}
    BY DEF Init, Places
  <2>2. QED
    BY <2>1 DEF Init, Promise!Init, IsPaused
<1>2. QED
  BY <1>1, StepIsPromised, EntryInvInit, EntryInvStep, PauseInvInit, PauseInvStep, PTL
     DEF Spec, ImplementsPromise, Promise!Spec, Promise!vars, Seen
-----------------------------------------------------------------------------
(* What the promise by itself says of the account.                         *)

\* An open position has an id of its own, one that was given, and a symbol holds
\* one position of the system at most; a pause has let in one entry at most.
Accounted ==
    /\ Places \subseteq Ids \X Symbols \X {"system", "user"}
    /\ \A x \in Places : x[1] \in 1..lastId
    /\ \A x, y \in Places : x[1] = y[1] => x = y
    /\ \A x, y \in Places :
          x[2] = y[2] /\ x[3] = "system" /\ y[3] = "system" => x = y
    /\ entries \in {0, 1}

\* What has left does not come back: what appears has an id that was not given.
NothingReturns ==
    /\ \A x \in Places' \ Places : x[1] \notin 1..lastId
    /\ \A i \in 1..lastId : i \in (1..lastId)'

LEMMA OpenIsAccounted ==
    ASSUME Accounted, NEW s \in Symbols, NEW by \in {"system", "user"},
           Promise!Open(s, by), entries' \in {0, 1},
           by = "system" => Promise!Free(s, {"system"})
    PROVE  Accounted' /\ NothingReturns
<1>1. PICK i \in Ids \ 1..lastId :
          /\ (1..lastId)' = 1..lastId \cup {i}
          /\ Places' = Places \cup {<<i, s, by>>}
  BY DEF Promise!Open
<1> DEFINE z == <<i, s, by>>
<1>2. z \in Ids \X Symbols \X {"system", "user"} /\ z[1] = i /\ z[2] = s /\ z[3] = by
  OBVIOUS
<1>3. ASSUME NEW x \in Places PROVE x[1] \in 1..lastId /\ x[1] # i
  BY DEF Accounted
<1>4. ASSUME NEW x \in Places, x[2] = s, x[3] = "system" PROVE by # "system"
  <2>1. x = <<x[1], s, "system">> /\ x[1] \in Ids
    BY <1>4 DEF Accounted
  <2>2. QED
    BY <1>4, <2>1 DEF Promise!Free
<1> HIDE DEF z
<1>5. Places' = Places \cup {z}
  BY <1>1 DEF z
<1>6. \A x, y \in Places' : x[1] = y[1] => x = y
  BY <1>2, <1>3, <1>5 DEF Accounted
<1>7. \A x, y \in Places' :
          x[2] = y[2] /\ x[3] = "system" /\ y[3] = "system" => x = y
  BY <1>2, <1>4, <1>5 DEF Accounted
<1>8. \A x \in Places' : x[1] \in (1..lastId)'
  BY <1>1, <1>2, <1>3, <1>5
<1>9. QED
  BY <1>1, <1>2, <1>5, <1>6, <1>7, <1>8 DEF Accounted, NothingReturns

LEMMA FewerAreAccounted ==
    ASSUME Accounted, Places' \subseteq Places, (1..lastId)' = 1..lastId,
           entries' \in {0, 1}
    PROVE  Accounted' /\ NothingReturns
BY DEF Accounted, NothingReturns

LEMMA PromiseIsAccounted ==
    ASSUME Accounted, Promise!Next \/ UNCHANGED Seen
    PROVE  Accounted' /\ NothingReturns
<1>1. entries \in {0, 1}
  BY DEF Accounted
<1>2. CASE UNCHANGED Seen
  BY <1>1, <1>2, FewerAreAccounted DEF Seen
<1>3. ASSUME NEW s \in Symbols, Promise!Enter(s) PROVE Accounted' /\ NothingReturns
  BY <1>1, <1>3, OpenIsAccounted DEF Promise!Enter
<1>4. ASSUME NEW s \in Symbols, Promise!UserOpens(s) PROVE Accounted' /\ NothingReturns
  BY <1>1, <1>4, OpenIsAccounted DEF Promise!UserOpens
<1>5. ASSUME Promise!Pauses PROVE entries' \in {0, 1}
  BY <1>1, <1>5 DEF Promise!Pauses
<1>6. ASSUME NEW p \in Places, Promise!Leave(p) PROVE Accounted' /\ NothingReturns
  BY <1>1, <1>5, <1>6, FewerAreAccounted DEF Promise!Leave
<1>7. CASE Promise!Pause \/ Promise!Resume \/ Promise!Age
  BY <1>1, <1>5, <1>7, FewerAreAccounted
     DEF Promise!Pause, Promise!Resume, Promise!Age
<1>8. QED
  BY <1>2, <1>3, <1>4, <1>6, <1>7 DEF Promise!Next

\* One position of the system per symbol, one entry under a pause, and no position
\* that comes back, are what AccountPromise says by itself: they need nothing of
\* the cycle but that it implements the promise.
THEOREM PromiseKeepsTheAccount ==
    ImplementsPromise => [](Accounted /\ PauseAdmitsOneEntry) /\ [][NothingReturns]_Seen
<1>1. Promise!Init => Accounted
  BY DEF Promise!Init, Accounted
<1>2. Accounted /\ [Promise!Next]_Seen => Accounted'
  BY PromiseIsAccounted
<1>3. Accounted /\ [Promise!Next]_Seen => [NothingReturns]_Seen
  BY PromiseIsAccounted
<1>4. Accounted => PauseAdmitsOneEntry
  BY DEF Accounted, PauseAdmitsOneEntry
<1>5. QED
  BY <1>1, <1>2, <1>3, <1>4, PTL DEF ImplementsPromise, Promise!Spec, Promise!vars, Seen
-----------------------------------------------------------------------------
(* The end of a cycle.                                                     *)

\* The steps a cycle has ahead of it at most: one for each position it read, and
\* one for each place of run() behind the management.
Left ==
    CASE pc = "manage" -> 7 + Cardinality(Position)
      [] pc = "managing" -> 6 + Cardinality(cycle.todo)
      [] pc = "evaluate" -> 5
      [] pc = "order" -> 4
      [] pc = "sync" -> 3
      [] pc = "reconcile" -> 2
      [] pc = "persist" -> 1
      [] pc = "idle" -> 0

LEMMA PositionsAreFinite ==
    /\ IsFiniteSet(Position) /\ Cardinality(Position) \in 0..(2 * MaxId)
    /\ \A todo \in SUBSET Position :
          /\ IsFiniteSet(todo)
          /\ Cardinality(todo) \in Nat /\ Cardinality(todo) <= Cardinality(Position)
          /\ \A p \in todo : Cardinality(todo \ {p}) = Cardinality(todo) - 1
<1> DEFINE Owners == {"system", "user"}
           Pairs == Ids \X Owners
           f == [p \in Position |-> <<p.id, p.by>>]
<1>1. IsFiniteSet(Ids) /\ Cardinality(Ids) = MaxId
  BY CycleAssumption, FS_Interval DEF Ids
<1>2. IsFiniteSet(Owners) /\ Cardinality(Owners) = 2
  <2>1. IsFiniteSet({"system"}) /\ Cardinality({"system"}) = 1
    BY FS_Singleton
  <2>2. Owners = {"system"} \cup {"user"} /\ "user" \notin {"system"}
    OBVIOUS
  <2>3. QED
    BY <2>1, <2>2, FS_AddElement
<1>3. IsFiniteSet(Pairs) /\ Cardinality(Pairs) = MaxId * 2
  BY <1>1, <1>2, FS_Product
<1>4. f \in Injection(Position, Pairs)
  BY DEF Position, Injection, IsInjective
<1>5. IsFiniteSet(Position) /\ Cardinality(Position) <= 2 * MaxId
  BY <1>3, <1>4, FS_Injection, CycleAssumption
<1>6. Cardinality(Position) \in Nat
  BY <1>5, FS_CardinalityType
<1>7. ASSUME NEW todo \in SUBSET Position
      PROVE  /\ IsFiniteSet(todo) /\ Cardinality(todo) <= Cardinality(Position)
             /\ Cardinality(todo) \in Nat
             /\ \A p \in todo : Cardinality(todo \ {p}) = Cardinality(todo) - 1
  BY <1>5, FS_Subset, FS_CardinalityType, FS_RemoveElement
<1>8. QED
  BY <1>5, <1>6, <1>7, CycleAssumption

LEMMA LeftStep ==
    ASSUME Typed, [Next]_vars, pc # "idle"
    PROVE  Left' <= Left /\ (Worker => Left' < Left)
<1>1. /\ cycle \in Cycle /\ cycle.todo \in SUBSET Position
      /\ cycle.symbol \in Symbols /\ exch[cycle.symbol] \in SUBSET Position
  BY DEF Typed, TypeOK, Cycle, CycleHasSymbol
<1>2. /\ Cardinality(Position) \in Nat /\ Cardinality(cycle.todo) \in Nat
      /\ Left \in Nat /\ Left > 0
  BY <1>1, PositionsAreFinite DEF Left, Typed, TypeOK
<1>3. CASE Worker
  <2>1. ASSUME ReadPositions PROVE Left' < Left
    <3>1. /\ pc = "manage"
          /\ \/ pc' = "managing" /\ cycle'.todo = exch[cycle.symbol]
             \/ pc' \in {"sync", "evaluate"}
      BY <1>1, <2>1 DEF ReadPositions, Goto, AfterManagement, Cycle
    <3>2. QED
      BY <1>1, <1>2, <3>1, PositionsAreFinite DEF Left
  <2>2. ASSUME NEW p \in cycle.todo,
               LeaveAlone(p) \/ \E executed \in BOOLEAN, reply \in Replies :
                                    ManageClose(p, executed, reply)
        PROVE  Left' < Left
    <3>1. pc = "managing" /\ pc' = pc /\ cycle'.todo = cycle.todo \ {p}
      BY <1>1, <2>2 DEF LeaveAlone, ManageClose, Cycle
    <3>2. QED
      BY <1>1, <1>2, <3>1, PositionsAreFinite DEF Left
  <2>3. ASSUME ManagementDone \/ BestEffortFails \/ NoEntry \/ Halt \/ Allow
               \/ SkipSync \/ ReconcileRead \/ ReconcileWrite \/ Persist \/ Abort
               \/ \E executed \in BOOLEAN, answer \in Answers :
                      PlaceOrder(executed, answer)
        PROVE  Left' < Left
    <3>1. \/ pc = "managing" /\ pc' \in {"evaluate", "sync"}
          \/ pc = "evaluate" /\ pc' \in {"order", "sync"}
          \/ pc = "order" /\ pc' = "sync"
          \/ pc = "sync" /\ pc' \in {"reconcile", "persist"}
          \/ pc = "reconcile" /\ pc' = "persist"
          \/ pc' = "idle"
      BY <2>3
         DEF ManagementDone, BestEffortFails, NoEntry, Halt, Allow, PlaceOrder,
             SkipSync, ReconcileRead, ReconcileWrite, Persist, Abort, Goto,
             AfterManagement
    <3>2. CASE pc' = "idle"
      BY <1>2, <3>2 DEF Left
    <3>3. CASE pc = "managing"
      BY <1>2, <3>1, <3>2, <3>3 DEF Left
    <3>4. CASE pc # "managing" /\ pc' # "idle"
      BY <3>1, <3>4 DEF Left
    <3>5. QED
      BY <3>2, <3>3, <3>4
  <2>4. Left' \in Nat
    <3>1. Typed'
      BY TypedStep
    <3>2. cycle'.todo \in SUBSET Position
      BY <3>1 DEF Typed, TypeOK, Cycle
    <3>3. Cardinality(cycle'.todo) \in Nat
      BY <3>2, PositionsAreFinite
    <3>4. pc' \in {"idle", "manage", "managing", "evaluate", "order", "sync",
                   "reconcile", "persist"}
      BY <3>1 DEF Typed, TypeOK
    <3>5. QED
      BY <1>2, <3>3, <3>4 DEF Left
  <2>5. Left' < Left
    BY <1>3, <2>1, <2>2, <2>3 DEF Worker, StartCycle
  <2>6. QED
    BY <1>2, <2>4, <2>5
<1>4. CASE Crash /\ ~Worker
  <2>1. Left' = 0
    BY <1>4 DEF Crash, Left
  <2>2. QED
    BY <1>2, <1>4, <2>1
<1>5. CASE ~Crash /\ ~Worker
  <2>1. UNCHANGED <<pc, cycle>>
    BY <1>5 DEF Next, Environment, ExternalExit, UserOpens, PriceMoves, Pause, Resume,
                Tick, vars
  <2>2. Left' = Left
    BY <2>1 DEF Left
  <2>3. QED
    BY <1>2, <1>5, <2>2
<1>6. QED
  BY <1>3, <1>4, <1>5

\* Every cycle ends: whatever fails, and whatever happens outside meanwhile, each
\* step the worker takes in it leaves fewer ahead, of at most 2 * MaxId + 7.
THEOREM EveryCycleEnds ==
    Spec => /\ [](Left \in 0..(2 * MaxId + 7) /\ (Left = 0 <=> pc = "idle"))
            /\ [][pc # "idle" => Left' <= Left /\ (Worker => Left' < Left)]_vars
<1>1. Typed => Left \in 0..(2 * MaxId + 7) /\ (Left = 0 <=> pc = "idle")
  <2> SUFFICES ASSUME Typed PROVE Left \in 0..(2 * MaxId + 7) /\ (Left = 0 <=> pc = "idle")
    OBVIOUS
  <2>1. cycle.todo \in SUBSET Position
    BY DEF Typed, TypeOK, Cycle
  <2>2. /\ Cardinality(cycle.todo) \in 0..(2 * MaxId)
        /\ Cardinality(Position) \in 0..(2 * MaxId)
    BY <2>1, PositionsAreFinite, CycleAssumption
  <2>3. QED
    BY <2>2, CycleAssumption DEF Left, Typed, TypeOK
<1>2. Typed /\ [Next]_vars =>
        [pc # "idle" => Left' <= Left /\ (Worker => Left' < Left)]_vars
  BY LeftStep
<1>3. QED
  BY <1>1, <1>2, TypedInit, TypedStep, PTL DEF Spec
=============================================================================
