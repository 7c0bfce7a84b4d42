-------------------------- MODULE WorkerLoop_proofs --------------------------
(***************************************************************************)
(* Proofs about WorkerLoop, for any number of tenants, symbols and         *)
(* recipients.                                                             *)
(***************************************************************************)
EXTENDS WorkerLoop, TLAPS

\* What the place in a notification says of the cards: the recipients before the
\* present one have just got the decision, which is not the remembered one.
Sending ==
    pc = "notify" =>
        /\ next \in Everybody
        /\ decision # None /\ signature[at] # decision
        /\ \A r \in 1..(next - 1) : inbox[at][r] = decision

\* Within a round a resume is still pending: polls take requests between rounds.
RequestInv ==
    /\ ResumeIsNotForgotten
    /\ pc \notin {"poll", "start"} => \A u \in Users : owed[u] => pending[u]

LoopInv == TypeOK /\ RequestInv

CardInv == RecordedIsDelivered /\ Sending

\* A failure is recorded without leaving the types, and takes no request back
\* without the resume it belongs to.
LEMMA RecordingFacts ==
    ASSUME TypeOK, NEW v, RecordFailure(v)
    PROVE  /\ control' \in [Users -> {"RUNNING", "PAUSED"}]
           /\ pending' \in [Users -> BOOLEAN]
           /\ failures' \in [Users -> 0..MaxFailures]
           /\ owed' \in [Users -> BOOLEAN]
           /\ \A u \in Users : owed'[u] => owed[u]
           /\ \A u \in Users : owed'[u] => (pending[u] <=> pending'[u])
<1> USE DEF TypeOK
<1>1. CASE UNCHANGED controlVars
    BY <1>1 DEF controlVars
<1>2. CASE /\ failures' = [failures EXCEPT ![v] = IF @ < MaxFailures THEN @ + 1 ELSE @]
           /\ IF failures[v] + 1 >= MaxFailures THEN Paused(v)
              ELSE UNCHANGED <<control, pending, owed>>
  <2> DEFINE more(n) == IF n < MaxFailures THEN n + 1 ELSE n
  <2>0. MaxFailures \in Nat /\ \A n \in 0..MaxFailures : more(n) \in 0..MaxFailures
      BY WorkerAssumption DEF WorkerAssumption
  <2>1. failures' \in [Users -> 0..MaxFailures]
      BY <1>2, <2>0
  <2>2. CASE Paused(v)
      BY <2>1, <2>2 DEF Paused
  <2>3. CASE UNCHANGED <<control, pending, owed>>
      BY <2>1, <2>3
  <2> QED BY <1>2, <2>2, <2>3
<1> QED BY <1>1, <1>2 DEF RecordFailure

\* The round goes to a position of Order or ends.
LEMMA RoundFacts ==
    ASSUME TypeOK, pc \in {"cycle", "persist"}, GoesOn
    PROVE  /\ due' \in BOOLEAN /\ at' \in 0..Len(Order)
           /\ \/ pc' = "cycle" /\ at' # 0
              \/ pc' = "poll" /\ at' = 0
<1>1. Len(Order) \in Nat
    BY WorkerAssumption DEF WorkerAssumption
<1>2. at \in 0..Len(Order) /\ due \in BOOLEAN /\ at # 0
    BY DEF TypeOK
<1>3. CASE at < Len(Order)
    BY <1>1, <1>2, <1>3 DEF GoesOn
<1>4. CASE ~(at < Len(Order))
  <2>1. pc' = "poll" /\ at' = 0 /\ due' = FALSE
      BY <1>4 DEF GoesOn
  <2>2. 0 \in 0..Len(Order)
      BY <1>1
  <2> QED BY <2>1, <2>2
<1> QED BY <1>3, <1>4

\* A card that arrives is the recipient's latest.
LEMMA DeliveryFacts ==
    ASSUME TypeOK, at \in Positions, next \in Everybody, Deliver
    PROVE  /\ inbox' \in [Positions -> [Everybody -> Decisions \cup {None}]]
           /\ ahead' \in [Positions -> SUBSET Everybody]
           /\ \A i \in Positions : \A r \in Everybody :
                 /\ i # at \/ r # next => /\ inbox'[i][r] = inbox[i][r]
                                          /\ r \in ahead'[i] <=> r \in ahead[i]
                 /\ i = at /\ r = next => inbox'[i][r] = decision /\ r \in ahead'[i]
<1>1. /\ inbox \in [Positions -> [Everybody -> Decisions \cup {None}]]
      /\ ahead \in [Positions -> SUBSET Everybody]
      /\ decision \in Decisions \cup {None}
    BY DEF TypeOK
<1> QED BY <1>1 DEF Deliver

\* The same of a pause.
LEMMA PausingFacts ==
    ASSUME TypeOK, NEW v, Paused(v)
    PROVE  /\ control' \in [Users -> {"RUNNING", "PAUSED"}]
           /\ pending' \in [Users -> BOOLEAN]
           /\ owed' \in [Users -> BOOLEAN]
           /\ \A u \in Users : owed'[u] => owed[u] /\ (pending[u] <=> pending'[u])
BY DEF TypeOK, Paused

LEMMA LoopInit == Init => LoopInv
<1> SUFFICES ASSUME Init PROVE LoopInv
    OBVIOUS
<1>1. Len(Order) \in Nat
    BY WorkerAssumption DEF WorkerAssumption
<1>2. TypeOK
    BY <1>1, WorkerAssumption DEF TypeOK, Init, Decisions, Positions, Everybody, WorkerAssumption
<1>3. RequestInv
    BY DEF Init, RequestInv, ResumeIsNotForgotten
<1> QED BY <1>2, <1>3 DEF LoopInv

LEMMA LoopNext == LoopInv /\ [Next]_vars => LoopInv'
<1> SUFFICES ASSUME LoopInv, [Next]_vars PROVE LoopInv'
    OBVIOUS
<1>0. Len(Order) \in Nat \ {0} /\ Recipients \in Nat /\ MaxFailures \in Nat \ {0}
    BY WorkerAssumption DEF WorkerAssumption
<1> USE DEF LoopInv, TypeOK, RequestInv, ResumeIsNotForgotten, larkVars
<1>1. ASSUME NEW u \in Users, Pause(u) PROVE LoopInv'
    BY <1>1, PausingFacts DEF Pause
<1>2. ASSUME NEW u \in Users, Resume(u) PROVE LoopInv'
    BY <1>2 DEF Resume
<1>3. CASE Poll
    BY <1>3 DEF Poll
<1>4. CASE StartRound
    BY <1>0, <1>4 DEF StartRound
<1>5. CASE RoundFails
    BY <1>5 DEF RoundFails
<1>6. ASSUME NEW d \in Decisions, Evaluate(d) PROVE LoopInv'
  <2>1. /\ control' \in [Users -> {"RUNNING", "PAUSED"}]
        /\ pending' \in [Users -> BOOLEAN]
        /\ owed' \in [Users -> BOOLEAN]
        /\ \A u \in Users : owed'[u] => pending'[u]
      BY <1>6, PausingFacts DEF Evaluate
  <2>2. Recipients # 0 => 1 \in 0..Recipients
      BY <1>0
  <2> QED BY <1>0, <1>6, <2>1, <2>2 DEF Evaluate, Silent
<1>7. CASE SendToNext
  <2>1. at \in Positions /\ next \in Everybody
      BY <1>0, <1>7 DEF SendToNext, Positions, Everybody
  <2>2. /\ inbox' \in [Positions -> [Everybody -> Decisions \cup {None}]]
        /\ ahead' \in [Positions -> SUBSET Everybody]
      BY <1>7, <2>1, DeliveryFacts DEF SendToNext
  <2>3. next' \in 0..Recipients /\ next' # 0
      BY <1>0, <1>7, <2>1 DEF SendToNext, Everybody
  <2> QED BY <1>0, <1>7, <2>2, <2>3 DEF SendToNext, controlVars
<1>8. CASE SendToLast
  <2>1. at \in Positions /\ next \in Everybody
      BY <1>0, <1>8 DEF SendToLast, Positions, Everybody
  <2>2. /\ inbox' \in [Positions -> [Everybody -> Decisions \cup {None}]]
        /\ signature' \in [Positions -> Decisions \cup {None}]
        /\ ahead' \in [Positions -> SUBSET Everybody]
      BY <1>8, <2>1 DEF SendToLast
  <2> QED BY <1>0, <1>8, <2>2 DEF SendToLast, controlVars
<1>9. ASSUME NEW arrived \in BOOLEAN, SendFails(arrived) PROVE LoopInv'
  <2>1. at \in Positions /\ next \in Everybody
      BY <1>0, <1>9 DEF SendFails, Positions, Everybody
  <2>2. /\ inbox' \in [Positions -> [Everybody -> Decisions \cup {None}]]
        /\ ahead' \in [Positions -> SUBSET Everybody]
    <3>1. CASE arrived
        BY <1>9, <2>1, <3>1, DeliveryFacts DEF SendFails
    <3>2. CASE ~arrived
        BY <1>9, <3>2 DEF SendFails
    <3> QED BY <3>1, <3>2
  <2> QED BY <1>0, <1>9, <2>2, RecordingFacts DEF SendFails
<1>10. CASE Sync
    BY <1>10, RecordingFacts DEF Sync
<1>11. CASE Persist
  <2>0. 0 \in 0..MaxFailures
      BY <1>0
  <2>1. failures' \in [Users -> 0..MaxFailures]
      BY <2>0, <1>11 DEF Persist
  <2> QED BY <1>0, <1>11, <2>1, RoundFacts DEF Persist
<1>12. ASSUME NEW i \in Positions, CycleFails(i) PROVE LoopInv'
    BY <1>0, <1>12, RecordingFacts, RoundFacts DEF CycleFails
<1>13. CASE RoundBreaksOff
    BY <1>13 DEF RoundBreaksOff, controlVars
<1>14. CASE TimeComes
    BY <1>14 DEF TimeComes, controlVars
<1>15. CASE Restart
    BY <1>0, <1>15 DEF Restart, controlVars
<1>16. CASE UNCHANGED vars
    BY <1>16 DEF vars, controlVars
<1> QED
    BY <1>1, <1>2, <1>3, <1>4, <1>5, <1>6, <1>7, <1>8, <1>9, <1>10, <1>11, <1>12,
       <1>13, <1>14, <1>15, <1>16 DEF Next, Worker, Environment

LEMMA LoopHolds == Spec => []LoopInv
BY LoopInit, LoopNext, PTL DEF Spec

LEMMA CardInit == Init => CardInv
BY DEF Init, CardInv, RecordedIsDelivered, Sending

LEMMA CardNext == LoopInv /\ CardInv /\ [Next]_vars => CardInv'
<1> SUFFICES ASSUME TypeOK, CardInv, [Next]_vars PROVE CardInv'
    BY DEF LoopInv
<1>0. Len(Order) \in Nat \ {0} /\ Recipients \in Nat
    BY WorkerAssumption DEF WorkerAssumption
<1> USE DEF CardInv, RecordedIsDelivered, Sending, larkVars
<1>1. CASE Poll \/ StartRound \/ RoundFails
    BY <1>1 DEF Poll, StartRound, RoundFails
<1>2. ASSUME NEW d \in Decisions, Evaluate(d) PROVE CardInv'
    BY <1>0, <1>2, WorkerAssumption DEF Evaluate, Silent, Everybody, WorkerAssumption, Decisions
<1>3. CASE SendToNext
  <2>1. at \in Positions /\ next \in Everybody /\ next' = next + 1 /\ next' \in Everybody
      BY <1>0, <1>3 DEF SendToNext, TypeOK, Positions, Everybody
  <2>2. /\ Deliver
        /\ UNCHANGED <<signature, pc, at, decision>> /\ pc = "notify"
      BY <1>3 DEF SendToNext
  <2>3. RecordedIsDelivered'
      BY <2>1, <2>2, DeliveryFacts
  <2>4. ASSUME NEW r \in 1..(next' - 1) PROVE inbox'[at][r] = decision
    <3>1. r \in Everybody /\ (r = next \/ r \in 1..(next - 1))
        BY <1>0, <2>1, <2>4 DEF Everybody
    <3> QED BY <2>1, <2>2, <3>1, DeliveryFacts
  <2> QED BY <2>1, <2>2, <2>3, <2>4
<1>4. CASE SendToLast
  <2>1. at \in Positions /\ next = Recipients /\ next \in Everybody /\ pc = "notify"
      BY <1>0, <1>4 DEF SendToLast, TypeOK, Positions, Everybody
  <2>2. \A r \in Everybody : inbox'[at][r] = decision
      BY <1>0, <1>4, <2>1 DEF SendToLast, TypeOK, Everybody
  <2>3. \A i \in Positions \ {at} : /\ inbox'[i] = inbox[i] /\ ahead'[i] = ahead[i]
                                    /\ signature'[i] = signature[i]
      BY <1>4, <2>1 DEF SendToLast, TypeOK
  <2>4. signature'[at] = decision
      BY <1>4, <2>1 DEF SendToLast, TypeOK
  <2>5. RecordedIsDelivered'
      BY <2>2, <2>3, <2>4
  <2> QED BY <1>4, <2>5 DEF SendToLast
<1>5. ASSUME NEW arrived \in BOOLEAN, SendFails(arrived) PROVE CardInv'
  <2>1. at \in Positions /\ next \in Everybody
      BY <1>0, <1>5 DEF SendFails, TypeOK, Positions, Everybody
  <2>2. RecordedIsDelivered'
      BY <1>5, <2>1 DEF SendFails, Deliver, TypeOK
  <2> QED BY <1>5, <2>2 DEF SendFails
<1>6. CASE Sync \/ Persist \/ RoundBreaksOff
    BY <1>6 DEF Sync, Persist, RoundBreaksOff, GoesOn
<1>7. ASSUME NEW i \in Positions, CycleFails(i) PROVE CardInv'
    BY <1>7 DEF CycleFails, GoesOn
<1>8. ASSUME NEW u \in Users, Pause(u) \/ Resume(u) PROVE CardInv'
    BY <1>8 DEF Pause, Resume
<1>9. CASE TimeComes
    BY <1>9 DEF TimeComes
<1>10. CASE Restart
    BY <1>10 DEF Restart
<1>11. CASE UNCHANGED vars
    BY <1>11 DEF vars
<1> QED
    BY <1>1, <1>2, <1>3, <1>4, <1>5, <1>6, <1>7, <1>8, <1>9, <1>10, <1>11
       DEF Next, Worker, Environment

-----------------------------------------------------------------------------

\* The state of the worker, its tables and its memory keep their types.
THEOREM Typing == Spec => []TypeOK
BY LoopHolds, PTL DEF LoopInv

\* A resume is answered by a round that starts after it.
THEOREM ResumesAreKept == Spec => []ResumeIsNotForgotten
BY LoopHolds, PTL DEF LoopInv, RequestInv

LEMMA CardsHold == Spec => []CardInv
BY CardInit, CardNext, LoopHolds, PTL DEF Spec

\* What notify() takes for sent did reach everybody.
THEOREM RecordedCardsAreDelivered == Spec => []RecordedIsDelivered
BY CardsHold, PTL DEF CardInv

\* Nobody is sent the same card twice without a failure or a restart.
THEOREM CardsAreNotRepeated == Spec => []NoRepeatedCard
<1>1. LoopInv /\ CardInv => NoRepeatedCard
  <2> SUFFICES ASSUME TypeOK, CardInv, pc = "notify", inbox[at][next] = decision,
                      signature[at] # None
               PROVE  next \in ahead[at]
      BY DEF LoopInv, NoRepeatedCard
  <2>1. at \in Positions /\ next \in Everybody
      BY DEF TypeOK, CardInv, Sending, Positions
  <2> QED BY <2>1 DEF CardInv, Sending, RecordedIsDelivered
<1> QED BY <1>1, LoopHolds, CardsHold, PTL
=============================================================================
