------------------------- MODULE PrivateStream_proofs -------------------------
(***************************************************************************)
(* Proofs about PrivateStream, for any number of orders and any window.    *)
(***************************************************************************)
EXTENDS PrivateStream, FiniteSetTheorems, WellFoundedInduction, TLAPS

\* The type invariant without the bound on reported.
Types ==
    /\ phase \in [Orders -> {"none", "live", "done"}]
    /\ channels \subseteq Channels /\ wire \in Seq(Frame)
    /\ orderRow \in [Orders -> RowStates] /\ fillRow \in [Orders -> RowStates]
    /\ symbols \subseteq Orders
    /\ round \in [pc : {"idle", "read", "judged"}, rest : SUBSET Orders,
                  fresh : SUBSET Orders]
    /\ reported \subseteq Orders
    /\ counted \in [Orders -> Nat] /\ accepted \subseteq Orders


LEMMA EmptyWire == <<>> \in Seq(Frame)
OBVIOUS

LEMMA HeadIsFrame ==
    ASSUME Types, wire # <<>>
    PROVE  Head(wire) \in Frame /\ Tail(wire) \in Seq(Frame)
BY DEF Types

LEMMA PushedFrames ==
    ASSUME NEW kind \in Channels, NEW o \in Orders
    PROVE  Pushed(kind, o) \in Seq(Frame)
<1>1. [kind |-> kind, rows |-> <<o>>] \in Frame
    BY DEF Frame
<1> QED BY <1>1 DEF Pushed

LEMMA RowsAreOrders ==
    ASSUME NEW frame \in Frame
    PROVE  /\ \A i \in Parsed(frame) : frame.rows[i] \in Orders
           /\ At(frame, Parsed(frame)) \subseteq Orders
<1>1. frame.rows \in Seq(Orders)
    BY DEF Frame
<1>2. \A i \in DOMAIN frame.rows : frame.rows[i] \in Orders
    BY <1>1
<1> QED BY <1>2 DEF Parsed, At

LEMMA ReplayIsFrame ==
    ASSUME NEW kind \in Channels, NEW rows \in Batches
    PROVE  <<[kind |-> kind, rows |-> rows]>> \in Seq(Frame)
<1>1. PICK n \in 0..MaxRows : rows \in [1..n -> Orders]
    BY DEF Batches
<1>2. rows \in Seq(Orders)
    BY <1>1
<1>3. [kind |-> kind, rows |-> rows] \in Frame
    BY <1>2 DEF Frame
<1> QED BY <1>3

\* The types are preserved by every step.
LEMMA TypesNext == StreamAssumption /\ Types /\ [Next]_vars => Types'
<1> SUFFICES ASSUME StreamAssumption, Types, [Next]_vars PROVE Types'
    OBVIOUS
<1> USE DEF Types, exchangeVars, tableVars
<1>1. ASSUME NEW o \in Orders, OrderCreated(o) PROVE Types'
  <2>1. wire' \in Seq(Frame)
    <3>1. Pushed("order", o) \in Seq(Frame)
        BY PushedFrames DEF Channels
    <3> QED BY <1>1, <3>1 DEF OrderCreated
  <2> QED BY <1>1, <2>1 DEF OrderCreated
<1>2. ASSUME NEW o \in Orders, OrderDone(o) PROVE Types'
  <2>1. wire' \in Seq(Frame)
    <3>1. Pushed("fill", o) \in Seq(Frame) /\ Pushed("order", o) \in Seq(Frame)
        BY PushedFrames DEF Channels
    <3> QED BY <1>2, <3>1 DEF OrderDone
  <2> QED BY <1>2, <2>1 DEF OrderDone
<1>3. CASE Disconnect
    BY <1>3, EmptyWire DEF Disconnect
<1>4. CASE Restart
    BY <1>4, EmptyWire DEF Restart, Idle
<1>5. ASSUME NEW granted \in Grants, NEW kind \in Channels, NEW rows \in Batches,
             Connect(granted, kind, rows)
      PROVE  Types'
  <2>1. <<[kind |-> kind, rows |-> rows]>> \in Seq(Frame)
      BY ReplayIsFrame
  <2>2. wire' \in Seq(Frame)
      BY <1>5, <2>1, EmptyWire DEF Connect
  <2>3. channels' \subseteq Channels
      BY <1>5 DEF Connect, StreamAssumption, Channels
  <2> QED BY <1>5, <2>2, <2>3 DEF Connect
<1>6. CASE Handle
  <2> DEFINE frame == Head(wire)
  <2>1. frame \in Frame /\ Tail(wire) \in Seq(Frame)
      BY <1>6, HeadIsFrame DEF Handle
  <2>2. RecordFills(frame) \/ RecordOrders(frame)
      BY <1>6 DEF Handle
  <2> HIDE DEF frame
  <2>3. At(frame, Parsed(frame)) \subseteq Orders
      BY <2>1, RowsAreOrders
  <2>4. CASE RecordFills(frame)
    <3>1. fillRow' \in [Orders -> RowStates]
        BY <2>4 DEF RecordFills, RowStates
    <3>2. accepted' \subseteq Orders
        BY <2>3, <2>4 DEF RecordFills
    <3> QED BY <1>6, <2>1, <2>4, <3>1, <3>2 DEF Handle, RecordFills
  <2>5. CASE RecordOrders(frame)
    <3>1. orderRow' \in [Orders -> RowStates] /\ fillRow' \in [Orders -> RowStates]
        BY <2>5 DEF RecordOrders, RowStates
    <3>2. symbols' \subseteq Orders
        BY <2>3, <2>5 DEF RecordOrders
    <3> QED BY <1>6, <2>1, <2>5, <3>1, <3>2 DEF Handle, RecordOrders
  <2> QED BY <2>2, <2>4, <2>5
<1>7. CASE HandleFails
  <2>1. Tail(wire) \in Seq(Frame) /\ At(Head(wire), Parsed(Head(wire))) \subseteq Orders
      BY <1>7, HeadIsFrame, RowsAreOrders DEF HandleFails
  <2>2. symbols' \subseteq Orders
      BY <1>7, <2>1 DEF HandleFails
  <2> QED BY <1>7, <2>1, <2>2 DEF HandleFails
<1>8. CASE ReadHistory
    BY <1>8 DEF ReadHistory, Window, Done
<1>9. CASE Judge
    BY <1>9 DEF Judge, Missed, Kept
<1>10. CASE CommitRound
    BY <1>10 DEF CommitRound, Backfilled, Idle, RowStates
<1>11. CASE RoundFails
    BY <1>11 DEF RoundFails, Idle
<1>12. CASE UNCHANGED vars
    BY <1>12 DEF vars
<1> QED
    BY <1>1, <1>2, <1>3, <1>4, <1>5, <1>6, <1>7, <1>8, <1>9, <1>10, <1>11, <1>12
    DEF Next, Environment, Listener

LEMMA TypesInit == Init => Types
<1> SUFFICES ASSUME Init PROVE Types
    OBVIOUS
<1>1. Idle \in [pc : {"idle", "read", "judged"}, rest : SUBSET Orders, fresh : SUBSET Orders]
    BY DEF Idle
<1>2. orderRow \in [Orders -> RowStates] /\ fillRow \in [Orders -> RowStates]
    BY DEF Init, RowStates
<1> QED BY <1>1, <1>2, EmptyWire DEF Init, Types

LEMMA TypesHold == Spec => []Types
<1>1. Init => Types
    BY TypesInit
<1>2. StreamAssumption /\ Types /\ [Next]_vars => Types'
    BY TypesNext
<1> QED BY <1>1, <1>2, StreamAssumption, PTL DEF Spec

-----------------------------------------------------------------------------
(* The reported orders fit the window.                                     *)

LEMMA Smallest ==
    ASSUME NEW T \in SUBSET Nat, T # {}
    PROVE  \E x \in T : \A y \in T : x <= y
<1>1. PICK x \in T : \A y \in T : <<y, x>> \notin OpToRel(<, Nat)
    BY NatLessThanWellFounded, WFMin
<1>2. \A y \in T : ~(y < x)
    BY <1>1 DEF OpToRel
<1> QED BY <1>2

\* Its oldest order has fewer than RestWindow newer ones.
LEMMA WindowFits ==
    ASSUME StreamAssumption
    PROVE  IsFiniteSet(Window) /\ Cardinality(Window) <= RestWindow
<1>1. IsFiniteSet(Orders)
    BY FS_Interval, StreamAssumption DEF StreamAssumption, Orders
<1>2. Window \subseteq Orders /\ Done \subseteq Orders /\ Orders \subseteq Nat
    BY StreamAssumption DEF Window, Done, StreamAssumption, Orders
<1>3. CASE Window = {}
    BY <1>3, FS_EmptySet, StreamAssumption DEF StreamAssumption
<1>4. CASE Window # {}
  <2>1. PICK oldest \in Window : \A o \in Window : oldest <= o
      BY <1>2, <1>4, Smallest
  <2> DEFINE newer == {p \in Done : p > oldest}
  <2>2. IsFiniteSet(newer) /\ Cardinality(newer) \in Nat
      BY <1>1, <1>2, FS_Subset, FS_CardinalityType
  <2>3. Cardinality(newer) < RestWindow
      BY <2>1 DEF Window
  <2>4. oldest \notin newer /\ Window \subseteq newer \cup {oldest}
    <3>1. Window \subseteq Done
        BY DEF Window
    <3>2. oldest \in Nat /\ \A o \in Window : o \in Nat /\ (o = oldest \/ o > oldest)
        BY <1>2, <2>1
    <3> QED BY <3>1, <3>2
  <2>5. /\ IsFiniteSet(newer \cup {oldest})
        /\ Cardinality(newer \cup {oldest}) = Cardinality(newer) + 1
      BY <2>2, <2>4, FS_AddElement
  <2>6. /\ IsFiniteSet(Window)
        /\ Cardinality(Window) <= Cardinality(newer \cup {oldest})
      BY <2>4, <2>5, FS_Subset
  <2>7. Cardinality(Window) \in Nat
      BY <2>6, FS_CardinalityType
  <2> QED BY <2>2, <2>3, <2>5, <2>6, <2>7, StreamAssumption DEF StreamAssumption
<1> QED BY <1>3, <1>4

Small(S) == IsFiniteSet(S) /\ Cardinality(S) <= RestWindow

LEMMA SmallSubset ==
    ASSUME StreamAssumption, NEW S, Small(S), NEW T \in SUBSET S
    PROVE  Small(T)
<1>1. Cardinality(S) \in Nat /\ IsFiniteSet(T) /\ Cardinality(T) <= Cardinality(S)
    BY FS_Subset, FS_CardinalityType DEF Small
<1>2. Cardinality(T) \in Nat
    BY <1>1, FS_CardinalityType
<1> QED BY <1>1, <1>2 DEF Small, StreamAssumption

\* What a round read fits the window, and what is reported is part of what the
\* latest round read.
FitInv == Small(round.rest) /\ Small(reported)

\* The types of all variables, and that reported is no larger than the window.
THEOREM Typing == Spec => []TypeOK
<1>1. StreamAssumption /\ Init => FitInv
    BY FS_EmptySet DEF Init, FitInv, Small, Idle, StreamAssumption
<1>2. StreamAssumption /\ Types /\ FitInv /\ [Next]_vars => FitInv'
  <2> SUFFICES ASSUME StreamAssumption, Types, FitInv, [Next]_vars PROVE FitInv'
      OBVIOUS
  <2>1. Small({})
      BY FS_EmptySet, StreamAssumption DEF Small, StreamAssumption
  <2>2. CASE Judge
    <3>1. reported' \subseteq round.rest /\ round'.rest = round.rest
        BY <2>2 DEF Judge, Kept, Missed, Types
    <3> QED BY <3>1, SmallSubset DEF FitInv
  <2>3. CASE ReadHistory
      BY <2>3, WindowFits DEF ReadHistory, FitInv, Small
  <2>4. CASE Restart
      BY <2>1, <2>4 DEF Restart, Idle, FitInv
  <2>5. CASE CommitRound \/ RoundFails
    <3>1. round' = Idle /\ Idle.rest = {}
        BY <2>5 DEF CommitRound, RoundFails, Idle
    <3>2. reported' = reported
        BY <2>5, Zenon DEF CommitRound, RoundFails
    <3> QED BY <2>1, <3>1, <3>2 DEF FitInv
  <2>6. CASE UNCHANGED <<round, reported>>
      BY <2>6 DEF FitInv
  <2>7. ASSUME Handle \/ HandleFails \/ Disconnect PROVE UNCHANGED <<round, reported>>
      BY <2>7, Zenon DEF Handle, HandleFails, Disconnect
  <2>8. ASSUME NEW o \in Orders, OrderCreated(o) \/ OrderDone(o)
        PROVE  UNCHANGED <<round, reported>>
      BY <2>8 DEF OrderCreated, OrderDone
  <2>9. ASSUME NEW granted, NEW kind, NEW rows, Connect(granted, kind, rows)
        PROVE  UNCHANGED <<round, reported>>
      BY <2>9 DEF Connect
  <2>10. CASE Environment
      BY <2>4, <2>6, <2>7, <2>8, <2>10 DEF Environment
  <2>11. CASE Listener
      BY <2>2, <2>3, <2>5, <2>6, <2>7, <2>9, <2>11 DEF Listener
  <2>12. CASE UNCHANGED vars
      BY <2>6, <2>12 DEF vars
  <2> QED
      BY <2>10, <2>11, <2>12 DEF Next
<1>3. Types /\ FitInv => TypeOK
    BY DEF Types, FitInv, Small, TypeOK
<1> QED BY <1>1, <1>2, <1>3, TypesHold, StreamAssumption, PTL DEF Spec

-----------------------------------------------------------------------------
(* What was accepted is stored.                                            *)

\* A batch that brings no new fill twice is not refused: what _record_fill inserts
\* is new to the table and to the rest of the batch.
LEMMA ReplaysAreInsertable ==
    ASSUME NEW frame \in Frame, ~BringsNewTwice(frame)
    PROVE  Insertable(frame, NewFills(frame), fillRow)
BY DEF BringsNewTwice, Insertable, NewFills, Unknown

\* A fill that was handled while the database worked is in the table, whatever rows
\* of earlier batches came with it, unless its batch brought a new fill twice.
THEOREM AcceptedStaysStored == Spec => []AcceptedIsStored
<1>1. StreamAssumption /\ Init => AcceptedIsStored
    BY DEF Init, AcceptedIsStored
<1>2. StreamAssumption /\ Types /\ AcceptedIsStored /\ [Next]_vars => AcceptedIsStored'
  <2> SUFFICES ASSUME StreamAssumption, Types, AcceptedIsStored, [Next]_vars
               PROVE  AcceptedIsStored'
      OBVIOUS
  <2> DEFINE frame == Head(wire)
  <2>1. CASE Handle /\ RecordFills(frame)
    <3>1. frame \in Frame
        BY <2>1, HeadIsFrame DEF Handle
    <3> HIDE DEF frame
    <3>2. At(frame, Parsed(frame)) \subseteq Orders
        BY <3>1, RowsAreOrders
    <3>3. \A o \in Orders : fillRow[o] # "none" => fillRow'[o] # "none"
        BY <2>1 DEF RecordFills, Types
    <3>4. CASE BringsNewTwice(frame)
        BY <2>1, <3>3, <3>4 DEF RecordFills, AcceptedIsStored, Types
    <3>5. CASE ~BringsNewTwice(frame)
      <4>1. Insertable(frame, NewFills(frame), fillRow)
          BY <3>1, <3>5, ReplaysAreInsertable
      <4>2. \A o \in At(frame, NewFills(frame)) \cap Orders : fillRow'[o] # "none"
          BY <2>1, <4>1 DEF RecordFills
      <4>3. \A o \in At(frame, Parsed(frame)) :
                o \in At(frame, NewFills(frame)) \/ fillRow[o] # "none"
          BY DEF At, NewFills, Unknown
      <4>4. accepted' = accepted \cup At(frame, Parsed(frame))
          BY <2>1, <3>5 DEF RecordFills
      <4> QED BY <3>2, <3>3, <4>2, <4>3, <4>4 DEF AcceptedIsStored, Types
    <3> QED BY <3>4, <3>5
  <2>2. CASE Handle /\ RecordOrders(frame)
    <3> HIDE DEF frame
    <3> QED BY <2>2 DEF RecordOrders, AcceptedIsStored, Types, tableVars
  <2>3. CASE CommitRound
      BY <2>3 DEF CommitRound, Backfilled, AcceptedIsStored, Types
  <2>4. CASE UNCHANGED <<fillRow, accepted>>
      BY <2>4 DEF AcceptedIsStored
  <2>5. Handle => Handle /\ (RecordFills(frame) \/ RecordOrders(frame))
      BY DEF Handle
  <2> HIDE DEF frame
  <2> QED
      BY <2>1, <2>2, <2>3, <2>4, <2>5
      DEF Next, Environment, Listener, OrderCreated, OrderDone, Disconnect, Restart,
          Connect, HandleFails, ReadHistory, Judge, RoundFails, vars, tableVars
<1> QED BY <1>1, <1>2, TypesHold, StreamAssumption, PTL DEF Spec

-----------------------------------------------------------------------------
(* Gaps are counted once.                                                  *)

\* An order that left the window when newer ones were done does not return.
LEMMA WindowOnlyLosesOrders ==
    ASSUME StreamAssumption, Types, Done \subseteq Done', Done' \subseteq Orders,
           NEW o \in Done, o \in Window'
    PROVE  o \in Window
<1>1. IsFiniteSet({p \in Done' : p > o})
  <2>1. IsFiniteSet(Orders)
      BY FS_Interval, StreamAssumption DEF StreamAssumption, Orders
  <2> QED BY <2>1, FS_Subset
<1>2. Cardinality({p \in Done : p > o}) <= Cardinality({p \in Done' : p > o})
    BY <1>1, FS_Subset
<1>3. Cardinality({p \in Done' : p > o}) < RestWindow
    BY DEF Window
<1>4. /\ Cardinality({p \in Done : p > o}) \in Nat
      /\ Cardinality({p \in Done' : p > o}) \in Nat
    BY <1>1, FS_Subset, FS_CardinalityType
<1> QED BY <1>2, <1>3, <1>4 DEF Window, Done, StreamAssumption

\* A gap that was counted and is reported no more is out of reach of every round
\* to come, and of the one that has read the history.
OutOfReach(o) ==
    o \in Done /\ o \notin Window /\ (round.pc = "read" => o \notin round.rest)

GapInv ==
    /\ reported \subseteq Done /\ round.rest \subseteq Done
    /\ round.pc # "judged" => round.fresh = {}
    /\ round.pc = "read" => \A o \in reported : o \in round.rest \/ o \notin Window
    /\ \A o \in round.fresh : counted[o] = 0 /\ o \in reported
    /\ \A o \in Orders : counted[o] \in {0, 1}
    /\ \A o \in Orders : counted[o] = 1 => o \in reported \/ OutOfReach(o)

\* Steps that leave the reconciler alone: the window at most loses orders.
LEMMA GapInvOutside ==
    ASSUME StreamAssumption, Types, Types', GapInv, Done \subseteq Done',
           UNCHANGED <<round, reported, counted>>
    PROVE  GapInv'
<1>1. \A o \in Done : o \in Window' => o \in Window
    BY WindowOnlyLosesOrders DEF Done
<1> QED BY <1>1 DEF GapInv, OutOfReach, Types

LEMMA GapInvNext == StreamAssumption /\ Types /\ Types' /\ GapInv /\ [Next]_vars => GapInv'
<1> SUFFICES ASSUME StreamAssumption, Types, Types', GapInv, [Next]_vars PROVE GapInv'
    OBVIOUS
<1> USE DEF exchangeVars, tableVars
<1>1. ASSUME NEW o \in Orders, OrderCreated(o) PROVE GapInv'
  <2>1. Done \subseteq Done'
      BY <1>1 DEF OrderCreated, Done, Types
  <2> QED BY <1>1, <2>1, GapInvOutside DEF OrderCreated
<1>2. ASSUME NEW o \in Orders, OrderDone(o) PROVE GapInv'
  <2>1. Done \subseteq Done'
      BY <1>2 DEF OrderDone, Done, Types
  <2> QED BY <1>2, <2>1, GapInvOutside DEF OrderDone
<1>3. CASE UNCHANGED <<phase, round, reported, counted>>
    BY <1>3, GapInvOutside DEF Done
<1>4. CASE Restart
    BY <1>4 DEF Restart, Idle, GapInv, Types
<1>5. CASE ReadHistory
  <2>1. Window' = Window /\ Done' = Done
      BY <1>5 DEF ReadHistory, Window, Done
  <2>2. Window \subseteq Done
      BY DEF Window
  <2> QED BY <1>5, <2>1, <2>2 DEF ReadHistory, GapInv, OutOfReach, Types
<1>6. CASE Judge
  <2> DEFINE fresh == Missed(round.rest) \ reported
  <2>1. Window' = Window /\ Done' = Done /\ counted' = counted
      BY <1>6 DEF Judge, Window, Done
  <2>2. /\ round.pc = "read" /\ round'.pc = "judged"
        /\ round'.rest = round.rest /\ round'.fresh = fresh
        /\ reported' = (reported \cap round.rest) \cup fresh
      BY <1>6 DEF Judge, Kept, Types
  <2>3. fresh \subseteq round.rest
      BY DEF Missed
  <2>4. \A o \in fresh : counted[o] = 0
      BY <2>2, <2>3 DEF GapInv, OutOfReach, Types
  <2>5. \A o \in Orders : counted[o] = 1 => o \in reported' \/ (o \in Done /\ o \notin Window)
      BY <2>2 DEF GapInv, OutOfReach, Types
  <2> HIDE DEF fresh
  <2> QED BY <2>1, <2>2, <2>3, <2>4, <2>5 DEF GapInv, OutOfReach, Types
<1>7. CASE CommitRound
  <2>1. Window' = Window /\ Done' = Done
      BY <1>7 DEF CommitRound, Window, Done
  <2> QED BY <1>7, <2>1 DEF CommitRound, Idle, GapInv, OutOfReach, Types
<1>8. CASE RoundFails
  <2>1. Window' = Window /\ Done' = Done
      BY <1>8 DEF RoundFails, Window, Done
  <2> QED BY <1>8, <2>1 DEF RoundFails, Idle, GapInv, OutOfReach, Types
<1> QED
    BY <1>1, <1>2, <1>3, <1>4, <1>5, <1>6, <1>7, <1>8
    DEF Next, Environment, Listener, Disconnect, Connect, Handle, HandleFails,
        RecordFills, RecordOrders, vars

\* One process counts a missed order once, however many rounds see it missing.
THEOREM GapsAreCountedOnce == Spec => []GapIsCountedOnce
<1>1. StreamAssumption /\ Init => GapInv
    BY DEF Init, GapInv, Idle, Orders
<1>2. StreamAssumption /\ Types /\ Types' /\ GapInv /\ [Next]_vars => GapInv'
    BY GapInvNext
<1>3. GapInv => GapIsCountedOnce
    BY DEF GapInv, GapIsCountedOnce
<1> QED BY <1>1, <1>2, <1>3, TypesHold, StreamAssumption, PTL DEF Spec
=============================================================================
