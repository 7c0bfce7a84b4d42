----------------------------- MODULE PrivateStream -----------------------------
(***************************************************************************)
(* The private stream of one account: StreamListener._run_target runs the  *)
(* WebSocket connection (PrivateStreamClient, StreamRepository) and the    *)
(* periodic check against the order history (OrderHistoryReconciler) side  *)
(* by side, the second in a thread with a database session of its own.     *)
(* Of the channels, the one of account samples is left out.                *)
(*                                                                         *)
(* An order is pushed when it is created and when it is done, its fill when*)
(* it is done; what happens while there is no connection is never pushed,  *)
(* and what was pushed may be pushed again.  Orders are numbered in the    *)
(* order of their creation, which stands for created_at.  Of a row only    *)
(* its existence and whether its symbol is known are kept.                 *)
(***************************************************************************)
EXTENDS Naturals, FiniteSets, Sequences

CONSTANTS
    MaxOrders,      \* bound on the number of orders ever created
    RestWindow,     \* REST_WINDOW: done orders the order history shows
    MaxWire,        \* bound on the frames that were pushed and not read
    MaxRows,        \* bound on the rows of a frame
    NamedOrders,    \* the orders whose order pushes carry the symbol
    NamedFills,     \* the orders whose fill pushes carry it
    Garbled,        \* the rows, by kind and order, that lack a field
    Grants          \* the channels a session may get its subscriptions for

ASSUME StreamAssumption ==
    /\ MaxOrders \in Nat /\ RestWindow \in Nat
    /\ MaxWire \in Nat /\ MaxRows \in Nat
    /\ NamedOrders \subseteq Nat /\ NamedFills \subseteq Nat
    /\ Grants \subseteq SUBSET {"order", "fill"}

VARIABLES
    phase,      \* the orders at the exchange
    channels,   \* the subscriptions in force; none without a session
    wire,       \* the frames the client has not read
    orderRow,   \* exchange_order_events, by order
    fillRow,    \* exchange_fills, by order
    symbols,    \* the orders whose symbol the repository remembers
    round,      \* the round of the reconciler: its step, orders, new gaps
    reported,   \* the missed orders the reconciler keeps across rounds
    counted,    \* gaps committed to collector_errors since the start (history)
    accepted    \* fills whose batch was handled while the database worked and
                \* brought no new fill twice (history)

exchangeVars == <<phase, channels, wire>>
tableVars == <<orderRow, fillRow>>
vars == <<exchangeVars, tableVars, symbols, round, reported, counted, accepted>>

Orders == 1..MaxOrders
RowStates == {"none", "unnamed", "named"}
Channels == {"order", "fill"}
Frame == [kind : Channels, rows : Seq(Orders)]
Idle == [pc |-> "idle", rest |-> {}, fresh |-> {}]

Init ==
    /\ phase = [o \in Orders |-> "none"] /\ channels = {} /\ wire = <<>>
    /\ orderRow = [o \in Orders |-> "none"] /\ fillRow = orderRow
    /\ symbols = {} /\ round = Idle /\ reported = {}
    /\ counted = [o \in Orders |-> 0] /\ accepted = {}

Created == {o \in Orders : phase[o] # "none"}
Done == {o \in Orders : phase[o] = "done"}

-----------------------------------------------------------------------------
(* The exchange and the connection.                                        *)

\* A frame goes out on a channel that is subscribed; otherwise the push is lost.
Pushed(kind, o) ==
    IF kind \in channels THEN <<[kind |-> kind, rows |-> <<o>>]>> ELSE <<>>

CanPush(frames) == Len(wire) + Len(frames) <= MaxWire

OrderCreated(o) ==
    /\ phase[o] = "none" /\ \A p \in 1..(o - 1) : p \in Created
    /\ CanPush(Pushed("order", o))
    /\ phase' = [phase EXCEPT ![o] = "live"]
    /\ wire' = wire \o Pushed("order", o)
    /\ UNCHANGED <<channels, tableVars, symbols, round, reported, counted, accepted>>

OrderDone(o) ==
    /\ phase[o] = "live"
    /\ CanPush(Pushed("fill", o) \o Pushed("order", o))
    /\ phase' = [phase EXCEPT ![o] = "done"]
    /\ wire' = wire \o Pushed("fill", o) \o Pushed("order", o)
    /\ UNCHANGED <<channels, tableVars, symbols, round, reported, counted, accepted>>

\* run_once ends in an exception and is called again after a pause; the
\* repository with its session and its symbols is kept.
Disconnect ==
    /\ channels # {}
    /\ channels' = {} /\ wire' = <<>>
    /\ UNCHANGED <<phase, tableVars, symbols, round, reported, counted, accepted>>

Replayable(kind) == IF kind = "fill" THEN Done ELSE Created

Batches == UNION {[1..n -> Orders] : n \in 0..MaxRows}

\* A new session, on which the server may begin with rows it pushed before, or not.
\* A subscription that is refused is logged, and the session goes on without it.
Connect(granted, kind, rows) ==
    /\ channels = {} /\ channels' = granted
    /\ \A i \in DOMAIN rows : rows[i] \in Replayable(kind) /\ kind \in granted
    /\ wire' = IF rows = <<>> THEN <<>> ELSE <<[kind |-> kind, rows |-> rows]>>
    /\ UNCHANGED <<phase, tableVars, symbols, round, reported, counted, accepted>>

-----------------------------------------------------------------------------
(* Recording a frame.                                                      *)

\* parse_event: the places of the rows that count; one that lacks a field is skipped.
Parsed(frame) == {i \in DOMAIN frame.rows : <<frame.kind, frame.rows[i]>> \notin Garbled}

\* The orders at some places of a frame.
At(frame, places) == {frame.rows[i] : i \in places}

\* The rows of a batch that a table does not hold.  Every one is looked up in the
\* table as it was before the batch: the session does not flush before a query.
Unknown(frame, table) == {i \in Parsed(frame) : table[frame.rows[i]] = "none"}

\* Mutant: a fill is added without a look at the table.
NewFills_Unchecked(frame) == Parsed(frame)

\* _record_fill: a fill that is in the table is skipped.
NewFills(frame) == Unknown(frame, fillRow)

\* Every row that is inserted must be new to the unique key (uq_exchange_fill,
\* uq_exchange_order_event), or the commit fails and nothing of the batch is stored.
Insertable(frame, places, table) ==
    \A i \in places : /\ table[frame.rows[i]] = "none"
                      /\ \A j \in places \ {i} : frame.rows[j] # frame.rows[i]

\* What accepted leaves out: the batch names a fill twice that the table lacks.
BringsNewTwice(frame) ==
    \E i, j \in Parsed(frame) :
        i # j /\ frame.rows[i] = frame.rows[j] /\ fillRow[frame.rows[i]] = "none"

RecordFills(frame) ==
    LET new == NewFills(frame) IN
    /\ fillRow' = IF Insertable(frame, new, fillRow)
                  THEN [o \in Orders |->
                          IF o \notin At(frame, new) THEN fillRow[o]
                          ELSE IF o \in NamedFills \cup symbols THEN "named"
                          ELSE "unnamed"]
                  ELSE fillRow
    /\ accepted' = IF BringsNewTwice(frame) THEN accepted
                   ELSE accepted \cup At(frame, Parsed(frame))
    /\ UNCHANGED <<orderRow, symbols>>

\* _record_order overwrites every column, the symbol included, even with none.  The
\* symbols are remembered before the commit, and kept if it fails.
RecordOrders(frame) ==
    LET pushed == At(frame, Parsed(frame)) IN
    /\ IF Insertable(frame, Unknown(frame, orderRow), orderRow)
       THEN /\ orderRow' = [o \in Orders |->
                              IF o \notin pushed THEN orderRow[o]
                              ELSE IF o \in NamedOrders THEN "named" ELSE "unnamed"]
            /\ fillRow' = [o \in Orders |->
                              IF o \in pushed \cap NamedOrders /\ fillRow[o] = "unnamed"
                              THEN "named" ELSE fillRow[o]]
       ELSE UNCHANGED tableVars
    /\ symbols' = symbols \cup (pushed \cap NamedOrders)
    /\ UNCHANGED accepted

Handle ==
    /\ wire # <<>> /\ wire' = Tail(wire)
    /\ LET frame == Head(wire)
       IN  IF frame.kind = "fill" THEN RecordFills(frame) ELSE RecordOrders(frame)
    /\ UNCHANGED <<phase, channels, round, reported, counted>>

\* The database fails: the batch is rolled back and never tried again.  What the
\* repository has remembered by then it keeps.
HandleFails ==
    /\ wire # <<>> /\ wire' = Tail(wire)
    /\ \E seen \in SUBSET (At(Head(wire), Parsed(Head(wire))) \cap NamedOrders) :
          symbols' = IF Head(wire).kind = "order" THEN symbols \cup seen ELSE symbols
    /\ UNCHANGED <<phase, channels, tableVars, round, reported, counted, accepted>>

-----------------------------------------------------------------------------
(* A round of the reconciler.                                              *)

\* list_orders(): the latest done orders.
Window == {o \in Done : Cardinality({p \in Done : p > o}) < RestWindow}

ReadHistory ==
    /\ round.pc = "idle"
    /\ round' = [pc |-> "read", rest |-> Window, fresh |-> {}]
    /\ UNCHANGED <<exchangeVars, tableVars, symbols, reported, counted, accepted>>

Known == {o \in Orders : orderRow[o] # "none"}

\* Mutant: the comparison with the earliest event is the wrong way round.
Missed_BeforeEarliest(rest) ==
    {o \in rest \ Known : Known # {} /\ \A known \in Known : o < known}

\* _missed: orders without an event that are no older than the earliest event.
Missed(rest) == {o \in rest \ Known : \E known \in Known : known <= o}

\* Mutant: nothing reported is forgotten.
Kept_All(rest, fresh) == reported \cup fresh

\* Mutant: of the reported orders only the newest are kept.
Kept_NewestOnly(rest, fresh) == fresh

\* What stays reported: orders that left the window are forgotten.
Kept(rest, fresh) == (reported \cap rest) \cup fresh

\* _newly_missed: reported is changed at once, for this round and all later ones.
Judge ==
    /\ round.pc = "read"
    /\ LET fresh == Missed(round.rest) \ reported IN
          /\ reported' = Kept(round.rest, fresh)
          /\ round' = [round EXCEPT !.pc = "judged", !.fresh = fresh]
    /\ UNCHANGED <<exchangeVars, tableVars, symbols, counted, accepted>>

\* Mutant: the rows without a symbol are those of missed orders.
Backfilled_MissedOnly(rows) ==
    [o \in Orders |-> IF o \in round.fresh /\ rows[o] = "unnamed" THEN "named" ELSE rows[o]]

\* _backfill_symbols: rows of the window whose symbol is not known.
Backfilled(rows) ==
    [o \in Orders |-> IF o \in round.rest /\ rows[o] = "unnamed" THEN "named" ELSE rows[o]]

CommitRound ==
    /\ round.pc = "judged"
    /\ fillRow' = Backfilled(fillRow) /\ orderRow' = Backfilled(orderRow)
    /\ counted' = [o \in Orders |->
                     IF o \in round.fresh THEN counted[o] + 1 ELSE counted[o]]
    /\ round' = Idle
    /\ UNCHANGED <<exchangeVars, symbols, reported, accepted>>

\* The exception is logged and everything rolled back, except reported.
RoundFails ==
    /\ round.pc # "idle"
    /\ round' = Idle
    /\ UNCHANGED <<exchangeVars, tableVars, symbols, reported, counted, accepted>>

\* The process is started again: what it only remembered is gone.
Restart ==
    /\ channels' = {} /\ wire' = <<>>
    /\ symbols' = {} /\ round' = Idle /\ reported' = {}
    /\ counted' = [o \in Orders |-> 0]
    /\ UNCHANGED <<phase, tableVars, accepted>>

-----------------------------------------------------------------------------

Environment ==
    \/ \E o \in Orders : OrderCreated(o) \/ OrderDone(o)
    \/ Disconnect \/ Restart

Listener ==
    \/ \E granted \in Grants, kind \in Channels, rows \in Batches :
          Connect(granted, kind, rows)
    \/ Handle \/ HandleFails
    \/ ReadHistory \/ Judge \/ CommitRound \/ RoundFails

Next == Environment \/ Listener

Spec == Init /\ [][Next]_vars

\* The rounds go on for ever, and not every one of them is lost.
Fairness ==
    /\ WF_vars(ReadHistory)
    /\ SF_vars(Judge) /\ SF_vars(CommitRound)

FairSpec == Spec /\ Fairness

-----------------------------------------------------------------------------
(* Properties.                                                             *)

TypeOK ==
    /\ phase \in [Orders -> {"none", "live", "done"}]
    /\ channels \subseteq Channels /\ wire \in Seq(Frame)
    /\ orderRow \in [Orders -> RowStates] /\ fillRow \in [Orders -> RowStates]
    /\ symbols \subseteq Orders
    /\ round \in [pc : {"idle", "read", "judged"}, rest : SUBSET Orders,
                  fresh : SUBSET Orders]
    /\ reported \subseteq Orders /\ Cardinality(reported) <= RestWindow
    /\ counted \in [Orders -> Nat] /\ accepted \subseteq Orders

\* A fill that was handled while the database worked is in the table, whatever
\* rows of earlier batches its own repeated: replaying what is stored costs nothing.
\* The exception is a batch that brings a new fill twice, which _record_fill inserts
\* twice and the unique key refuses with everything beside it (repository.py:54).
AcceptedIsStored == \A o \in accepted : fillRow[o] # "none"

\* One process counts a missed order once, however many rounds see it missing,
\* fail, or see it leave the window.
GapIsCountedOnce == \A o \in Orders : counted[o] <= 1

\* Again and again every order the stream missed, and the order history shows, is
\* among the reported ones, through rounds that fail and restarts that forget.
MissedOrdersAreReported ==
    []<>(\A o \in Window \ Known : (\E known \in Known : known < o) => o \in reported)

\* Again and again every row of an order that the history shows has its symbol,
\* however late a push without one overwrites it.
SymbolsGetKnown ==
    []<>(\A o \in Window : fillRow[o] # "unnamed" /\ orderRow[o] # "unnamed")
=============================================================================
