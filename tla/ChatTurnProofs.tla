--------------------------- MODULE ChatTurnProofs ---------------------------
(***************************************************************************)
(* Proofs about ChatTurn, for any number of overlapping requests, any      *)
(* window lengths, prices and budgets, and any failures.                   *)
(***************************************************************************)
EXTENDS ChatTurn, FiniteSetTheorems, WellFoundedInduction, TLAPS

USE DEF historyVars

\* A window starts at or before the time it is computed from.
LEMMA StartInRange == \A k \in Kind, t \in 0..MaxClock : Start(k, t) \in 0..MaxClock
<1> SUFFICES ASSUME NEW k \in Kind, NEW t \in 0..MaxClock PROVE Start(k, t) \in 0..MaxClock
  OBVIOUS
<1>1. Size[k] \in Nat \ {0} /\ MaxClock \in Nat
  BY QuotasAssumption
<1>2. t % Size[k] \in 0..t
  BY <1>1
<1> QED
  BY <1>1, <1>2 DEF Start

\* A calendar month is not after the tick it holds.
LEMMA MonthInRange == \A t \in 0..MaxClock : Month(t) \in 0..MaxClock
<1> SUFFICES ASSUME NEW t \in 0..MaxClock PROVE Month(t) \in 0..MaxClock
  OBVIOUS
<1>1. MonthLen \in Nat \ {0} /\ MaxClock \in Nat
  BY QuotasAssumption
<1>2. t \div MonthLen \in 0..t
  BY <1>1
<1> QED
  BY <1>1, <1>2 DEF Month

\* Adding to one entry of a table of counts gives a table of counts.
LEMMA Added ==
  ASSUME NEW S, NEW g \in [S -> Nat], NEW x \in S, NEW n \in Nat
  PROVE  [g EXCEPT ![x] = @ + n] \in [S -> Nat]
<1>1. g[x] + n \in Nat OBVIOUS
<1> QED BY <1>1

\* An upsert of Tracker::record leaves a well-formed row.
LEMMA UpsertTypes ==
  ASSUME NEW k \in Kind, NEW t \in 0..MaxClock, NEW n \in Nat, QuotaTypes, Upsert(k, t, n)
  PROVE  window' \in [Kind -> [start : 0..MaxClock, count : Nat]]
<1> DEFINE row == [start |-> Start(k, t),
                   count |-> IF window[k].start = Start(k, t) THEN window[k].count + n ELSE n]
<1>1. window' = [window EXCEPT ![k] = row] BY DEF Upsert, QuotaTypes
<1>2. window[k].count \in Nat BY DEF QuotaTypes
<1>3. row \in [start : 0..MaxClock, count : Nat] BY <1>2, StartInRange
<1> HIDE DEF row
<1> QED BY <1>1, <1>3 DEF QuotaTypes

\* So does what the history adds for it.
LEMMA OwedTypes ==
  ASSUME NEW k \in Kind, NEW s \in 0..MaxClock, NEW n \in Nat, TokenTypes,
         owed' = [owed EXCEPT ![k][s] = @ + n]
  PROVE  owed' \in [Kind -> [0..MaxClock -> Nat]]
<1> DEFINE f == [owed[k] EXCEPT ![s] = @ + n]
<1>1. owed' = [owed EXCEPT ![k] = f] BY DEF TokenTypes
<1>2. owed[k] \in [0..MaxClock -> Nat] BY DEF TokenTypes
<1>3. f \in [0..MaxClock -> Nat] BY <1>2, Added
<1> HIDE DEF f
<1> QED BY <1>1, <1>3 DEF TokenTypes

\* A charge of TokenStore::record_spend leaves a well-formed ledger.
LEMMA ChargeTypes ==
  ASSUME NEW m \in 0..MaxClock, NEW cost \in Nat, QuotaTypes,
         ledger' = [ledger EXCEPT !.total = @ + cost, !.month[m] = @ + cost]
  PROVE  ledger' \in [total : Nat, month : [0..MaxClock -> Nat]]
<1> DEFINE f == [ledger.month EXCEPT ![m] = @ + cost]
<1>1. ledger' = [total |-> ledger.total + cost, month |-> f] BY DEF QuotaTypes
<1>2. ledger.month \in [0..MaxClock -> Nat] /\ ledger.total \in Nat BY DEF QuotaTypes
<1>3. f \in [0..MaxClock -> Nat] BY <1>2, Added
<1> HIDE DEF f
<1> QED BY <1>1, <1>2, <1>3

\* A behaviour is of one scenario.
LEMMA ScenarioTyped == Spec => [](scenario \in Scenarios)
<1>1. Init => scenario \in Scenarios BY DEF Init
<1>2. scenario \in Scenarios /\ [Next]_vars => (scenario \in Scenarios)'
  BY DEF Next, Turn, Mishap, vars
<1> QED BY <1>1, <1>2, PTL DEF Spec

\* Type correctness of the quotas, the turns and the conversation.
THEOREM TypeCorrect == Spec => []TypeOK
<1>0. MaxRepairs \in Nat /\ MaxUse \in Nat \ {0} /\ MaxClock \in Nat
  BY QuotasAssumption, ChatAssumption
<1> USE <1>0 DEF TypeOK, Kind, Flushing, Ended
<1>1. Init => TypeOK
  <2> SUFFICES ASSUME Init PROVE TypeOK
    OBVIOUS
  <2>1. QuotaTypes
    <3> HIDE DEF Kind
    <3>1. now \in 0..MaxClock BY DEF Init, QuotaInit
    <3>2. window \in [Kind -> [start : 0..MaxClock, count : Nat]] BY DEF Init, QuotaInit
    <3>3. ledger \in [total : Nat, month : [0..MaxClock -> Nat]] BY DEF Init, QuotaInit
    <3> QED BY <3>1, <3>2, <3>3 DEF Init, QuotaInit, QuotaTypes
  <2>2. TurnTypes BY ScenarioAssumption DEF Init, TurnTypes
  <2>3. TokenTypes BY DEF Init, TokenTypes
  <2>4. ReplyTypes BY DEF Init, ReplyTypes
  <2> QED BY <2>1, <2>2, <2>3, <2>4
<1>2. TypeOK /\ scenario \in Scenarios /\ [Next]_vars => TypeOK'
  <2> SUFFICES ASSUME TypeOK, scenario \in Scenarios, [Next]_vars PROVE TypeOK'
    OBVIOUS
  <2> USE DEF quotaVars, reqVars, Goto
  <2>1. ASSUME NEW r \in Reqs, Verify(r) PROVE TypeOK'
    <3>1. QuotaTypes' BY <2>1 DEF Verify, QuotaTypes
    <3>2. TurnTypes' BY <2>1 DEF Verify, TurnTypes
    <3>3. TokenTypes' BY <2>1 DEF Verify, TokenTypes
    <3>4. ReplyTypes' BY <2>1 DEF Verify, ReplyTypes
    <3> QED BY <3>1, <3>2, <3>3, <3>4
  <2>2. ASSUME NEW r \in Reqs, CheckLimits(r) PROVE TypeOK'
    <3>1. QuotaTypes' BY <2>2 DEF CheckLimits, QuotaTypes
    <3>2. TurnTypes' BY <2>2 DEF CheckLimits, TurnTypes
    <3>3. TokenTypes' BY <2>2 DEF CheckLimits, TokenTypes
    <3>4. ReplyTypes' BY <2>2 DEF CheckLimits, ReplyTypes
    <3> QED BY <3>1, <3>2, <3>3, <3>4
  <2>3. ASSUME NEW r \in Reqs, CheckBudget(r) PROVE TypeOK'
    <3>1. QuotaTypes' BY <2>3 DEF CheckBudget, QuotaTypes
    <3>2. TurnTypes' BY <2>3 DEF CheckBudget, TurnTypes
    <3>3. TokenTypes' BY <2>3 DEF CheckBudget, TokenTypes
    <3>4. ReplyTypes' BY <2>3 DEF CheckBudget, ReplyTypes
    <3> QED BY <3>1, <3>2, <3>3, <3>4
  <2>4. ASSUME NEW r \in Reqs, Fails(r) PROVE TypeOK'
    <3>1. QuotaTypes' BY <2>4 DEF Fails, QuotaTypes
    <3>2. TurnTypes' BY <2>4 DEF Fails, TurnTypes
    <3>3. TokenTypes' BY <2>4 DEF Fails, TokenTypes, Fault
    <3>4. ReplyTypes' BY <2>4 DEF Fails, ReplyTypes
    <3> QED BY <3>1, <3>2, <3>3, <3>4
  <2>5. ASSUME NEW r \in Reqs, Complete(r) PROVE TypeOK'
    <3>1. QuotaTypes' BY <2>5 DEF Complete, QuotaTypes
    <3>2. TurnTypes' BY <2>5 DEF Complete, TurnTypes
    <3>3. TokenTypes' BY <2>5 DEF Complete, TokenTypes
    <3>4. ReplyTypes' BY <2>5 DEF Complete, ReplyTypes
    <3> QED BY <3>1, <3>2, <3>3, <3>4
  <2>6. ASSUME NEW r \in Reqs, Valid(r) PROVE TypeOK'
    <3>1. QuotaTypes' BY <2>6 DEF Valid, QuotaTypes
    <3>2. TurnTypes' BY <2>6 DEF Valid, TurnTypes
    <3>3. TokenTypes' BY <2>6 DEF Valid, TokenTypes
    <3>4. ReplyTypes' BY <2>6 DEF Valid, ReplyTypes
    <3> QED BY <3>1, <3>2, <3>3, <3>4
  <2>7. ASSUME NEW r \in Reqs, Invalid(r) PROVE TypeOK'
    <3>1. QuotaTypes' BY <2>7 DEF Invalid, QuotaTypes
    <3>2. TurnTypes' BY <2>7 DEF Invalid, TurnTypes
    <3>3. TokenTypes' BY <2>7 DEF Invalid, TokenTypes
    <3>4. ReplyTypes' BY <2>7 DEF Invalid, ReplyTypes
    <3> QED BY <3>1, <3>2, <3>3, <3>4
  <2>8. ASSUME NEW r \in Reqs, OpenStream(r) PROVE TypeOK'
    <3>1. QuotaTypes' BY <2>8 DEF OpenStream, QuotaTypes
    <3>2. TurnTypes' BY <2>8 DEF OpenStream, TurnTypes
    <3>3. TokenTypes' BY <2>8 DEF OpenStream, TokenTypes
    <3>4. ReplyTypes' BY <2>8 DEF OpenStream, ReplyTypes
    <3> QED BY <3>1, <3>2, <3>3, <3>4
  <2>9. ASSUME NEW r \in Reqs, Delta(r) PROVE TypeOK'
    <3>1. QuotaTypes' BY <2>9 DEF Delta, QuotaTypes
    <3>2. TurnTypes' BY <2>9 DEF Delta, TurnTypes
    <3>3. TokenTypes' BY <2>9 DEF Delta, TokenTypes
    <3>4. ReplyTypes' BY <2>9 DEF Delta, ReplyTypes
    <3> QED BY <3>1, <3>2, <3>3, <3>4
  <2>10. ASSUME NEW r \in Reqs, Done(r) PROVE TypeOK'
    <3>1. QuotaTypes' BY <2>10 DEF Done, QuotaTypes
    <3>2. TurnTypes' BY <2>10 DEF Done, TurnTypes
    <3>3. TokenTypes' BY <2>10 DEF Done, TokenTypes
    <3>4. ReplyTypes' BY <2>10 DEF Done, ReplyTypes
    <3> QED BY <3>1, <3>2, <3>3, <3>4
  <2>11. ASSUME NEW r \in Reqs, Close(r) PROVE TypeOK'
    <3>1. QuotaTypes' BY <2>11 DEF Close, QuotaTypes
    <3>2. TurnTypes' BY <2>11 DEF Close, TurnTypes
    <3>3. TokenTypes' BY <2>11 DEF Close, TokenTypes
    <3>4. ReplyTypes' BY <2>11 DEF Close, ReplyTypes
    <3> QED BY <3>1, <3>2, <3>3, <3>4
  <2>12. ASSUME NEW r \in Reqs, StreamError(r) PROVE TypeOK'
    <3>1. QuotaTypes' BY <2>12 DEF StreamError, QuotaTypes
    <3>2. TurnTypes' BY <2>12 DEF StreamError, TurnTypes
    <3>3. TokenTypes' BY <2>12 DEF StreamError, TokenTypes, Fault
    <3>4. ReplyTypes' BY <2>12 DEF StreamError, ReplyTypes
    <3> QED BY <3>1, <3>2, <3>3, <3>4
  <2>13. ASSUME NEW r \in Reqs, Disconnect(r) PROVE TypeOK'
    <3>1. QuotaTypes' BY <2>13 DEF Disconnect, QuotaTypes
    <3>2. TurnTypes' BY <2>13 DEF Disconnect, TurnTypes
    <3>3. TokenTypes' BY <2>13 DEF Disconnect, TokenTypes
    <3>4. ReplyTypes' BY <2>13 DEF Disconnect, ReplyTypes
    <3> QED BY <3>1, <3>2, <3>3, <3>4
  <2>14. ASSUME NEW r \in Reqs, BeginRecord(r) PROVE TypeOK'
    <3>1. QuotaTypes' BY <2>14 DEF BeginRecord, QuotaTypes
    <3>2. TurnTypes' BY <2>14 DEF BeginRecord, TurnTypes
    <3>3. TokenTypes' BY <2>14 DEF BeginRecord, TokenTypes, QuotaTypes
    <3>4. ReplyTypes' BY <2>14 DEF BeginRecord, ReplyTypes
    <3> QED BY <3>1, <3>2, <3>3, <3>4
  <2>15. ASSUME NEW r \in Reqs, RecordKind(r) PROVE TypeOK'
    <3>1. QuotaTypes'
      <4>1. pc[r] \in Kind /\ Start(pc[r], recAt[r]) \in 0..MaxClock /\ usage[r] \in Nat
        BY <2>15, StartInRange DEF RecordKind, TokenTypes
      <4>2. Upsert(pc[r], recAt[r], usage[r]) /\ recAt[r] \in 0..MaxClock
        BY <2>15 DEF RecordKind, TokenTypes
      <4>3. window' \in [Kind -> [start : 0..MaxClock, count : Nat]]
        BY <4>1, <4>2, UpsertTypes
      <4> QED BY <2>15, <4>3 DEF RecordKind, QuotaTypes
    <3>2. TurnTypes' BY <2>15 DEF RecordKind, TurnTypes, After
    <3>3. TokenTypes'
      <4>1. owed' = [owed EXCEPT ![pc[r]][Start(pc[r], recAt[r])] = @ + usage[r]]
        BY <2>15 DEF RecordKind
      <4>2. pc[r] \in Kind /\ Start(pc[r], recAt[r]) \in 0..MaxClock /\ usage[r] \in Nat
        BY <2>15, StartInRange DEF RecordKind, TokenTypes
      <4>3. owed' \in [Kind -> [0..MaxClock -> Nat]]
        BY <4>1, <4>2, OwedTypes
      <4> QED BY <2>15, <4>3 DEF RecordKind, TokenTypes
    <3>4. ReplyTypes' BY <2>15 DEF RecordKind, ReplyTypes
    <3> QED BY <3>1, <3>2, <3>3, <3>4
  <2>16. ASSUME NEW r \in Reqs, RecordFails(r) PROVE TypeOK'
    <3>1. QuotaTypes' BY <2>16 DEF RecordFails, QuotaTypes
    <3>2. TurnTypes' BY <2>16 DEF RecordFails, TurnTypes
    <3>3. TokenTypes' BY <2>16 DEF RecordFails, TokenTypes, Fault
    <3>4. ReplyTypes' BY <2>16 DEF RecordFails, ReplyTypes
    <3> QED BY <3>1, <3>2, <3>3, <3>4
  <2>17. ASSUME NEW r \in Reqs, RecordSpend(r) PROVE TypeOK'
    <3>1. QuotaTypes'
      <4>1. Month(now) \in 0..MaxClock BY MonthInRange DEF QuotaTypes
      <4>2. usage[r] * Price \in Nat BY QuotasAssumption DEF TokenTypes
      <4> DEFINE cost == usage[r] * Price
      <4>3. ledger' = [ledger EXCEPT !.total = @ + cost, !.month[Month(now)] = @ + cost]
        BY <2>17 DEF RecordSpend, Charge
      <4> HIDE DEF cost
      <4>5. cost \in Nat BY <4>2 DEF cost
      <4>4. ledger' \in [total : Nat, month : [0..MaxClock -> Nat]]
        BY <4>1, <4>3, <4>5, ChargeTypes
      <4> QED BY <2>17, <4>4 DEF RecordSpend, QuotaTypes
    <3>2. TurnTypes' BY <2>17 DEF RecordSpend, TurnTypes
    <3>3. TokenTypes' BY <2>17 DEF RecordSpend, TokenTypes
    <3>4. ReplyTypes' BY <2>17 DEF RecordSpend, ReplyTypes
    <3> QED BY <3>1, <3>2, <3>3, <3>4
  <2>18. ASSUME NEW r \in Reqs, SpendFails(r) PROVE TypeOK'
    <3>1. QuotaTypes' BY <2>18 DEF SpendFails, QuotaTypes
    <3>2. TurnTypes' BY <2>18 DEF SpendFails, TurnTypes
    <3>3. TokenTypes' BY <2>18 DEF SpendFails, TokenTypes, Fault
    <3>4. ReplyTypes' BY <2>18 DEF SpendFails, ReplyTypes
    <3> QED BY <3>1, <3>2, <3>3, <3>4
  <2>19. ASSUME NEW r \in Reqs, AppendUser(r) PROVE TypeOK'
    <3>1. QuotaTypes' BY <2>19 DEF AppendUser, QuotaTypes
    <3>2. TurnTypes' BY <2>19 DEF AppendUser, TurnTypes
    <3>3. TokenTypes' BY <2>19 DEF AppendUser, TokenTypes
    <3>4. ReplyTypes' BY <2>19 DEF AppendUser, ReplyTypes
    <3> QED BY <3>1, <3>2, <3>3, <3>4
  <2>20. ASSUME NEW r \in Reqs, AppendUserFails(r) PROVE TypeOK'
    <3>1. QuotaTypes' BY <2>20 DEF AppendUserFails, QuotaTypes
    <3>2. TurnTypes' BY <2>20 DEF AppendUserFails, TurnTypes
    <3>3. TokenTypes'
      <4>1. faults' \in Nat BY <2>20 DEF AppendUserFails, TokenTypes, Fault
      <4> QED BY <2>20, <4>1 DEF AppendUserFails, TokenTypes
    <3>4. ReplyTypes' BY <2>20 DEF AppendUserFails, ReplyTypes
    <3> QED BY <3>1, <3>2, <3>3, <3>4
  <2>21. ASSUME NEW r \in Reqs, AppendAssistant(r) PROVE TypeOK'
    <3>1. QuotaTypes' BY <2>21 DEF AppendAssistant, QuotaTypes
    <3>2. TurnTypes' BY <2>21 DEF AppendAssistant, TurnTypes
    <3>3. TokenTypes' BY <2>21 DEF AppendAssistant, TokenTypes
    <3>4. ReplyTypes' BY <2>21 DEF AppendAssistant, ReplyTypes
    <3> QED BY <3>1, <3>2, <3>3, <3>4
  <2>22. ASSUME NEW r \in Reqs, AppendAssistantFails(r) PROVE TypeOK'
    <3>1. QuotaTypes' BY <2>22 DEF AppendAssistantFails, QuotaTypes
    <3>2. TurnTypes' BY <2>22 DEF AppendAssistantFails, TurnTypes
    <3>3. TokenTypes' BY <2>22 DEF AppendAssistantFails, TokenTypes, Fault
    <3>4. ReplyTypes' BY <2>22 DEF AppendAssistantFails, ReplyTypes
    <3> QED BY <3>1, <3>2, <3>3, <3>4
  <2>23. CASE Revoke
    <3>1. QuotaTypes' BY <2>23 DEF Revoke, QuotaTypes
    <3>2. TurnTypes' BY <2>23 DEF Revoke, TurnTypes
    <3>3. TokenTypes' BY <2>23 DEF Revoke, TokenTypes
    <3>4. ReplyTypes' BY <2>23 DEF Revoke, ReplyTypes
    <3> QED BY <3>1, <3>2, <3>3, <3>4
  <2>24. CASE Crash
    <3>1. QuotaTypes' BY <2>24 DEF Crash, QuotaTypes
    <3>2. TurnTypes' BY <2>24 DEF Crash, TurnTypes
    <3>3. TokenTypes' BY <2>24 DEF Crash, TokenTypes
    <3>4. ReplyTypes' BY <2>24 DEF Crash, ReplyTypes
    <3> QED BY <3>1, <3>2, <3>3, <3>4
  <2>25. CASE Tick
    <3>1. QuotaTypes'
      <4>1. scenario.clock \in 0..MaxClock BY ScenarioAssumption
      <4>2. now' \in 0..MaxClock BY <2>25, <4>1 DEF Tick, QuotaTypes
      <4> QED BY <2>25, <4>2 DEF Tick, QuotaTypes
    <3>2. TurnTypes' BY <2>25 DEF Tick, TurnTypes
    <3>3. TokenTypes' BY <2>25 DEF Tick, TokenTypes
    <3>4. ReplyTypes' BY <2>25 DEF Tick, ReplyTypes
    <3> QED BY <3>1, <3>2, <3>3, <3>4
  <2>26. CASE UNCHANGED vars
    <3>1. QuotaTypes' BY <2>26 DEF vars, QuotaTypes
    <3>2. TurnTypes' BY <2>26 DEF vars, TurnTypes
    <3>3. TokenTypes' BY <2>26 DEF vars, TokenTypes
    <3>4. ReplyTypes' BY <2>26 DEF vars, ReplyTypes
    <3> QED BY <3>1, <3>2, <3>3, <3>4
  <2> QED
    BY <2>1, <2>2, <2>3, <2>4, <2>5, <2>6, <2>7, <2>8, <2>9, <2>10, <2>11, <2>12, <2>13, <2>14, <2>15, <2>16, <2>17, <2>18, <2>19, <2>20, <2>21, <2>22, <2>23, <2>24, <2>25, <2>26
    DEF Next, Turn, Mishap
<1> QED
  BY <1>1, <1>2, ScenarioTyped, PTL DEF Spec
-----------------------------------------------------------------------------
\* However turns overlap, fail, straddle a boundary or are lost in a crash, a
\* counter of Tracker holds no more than what was recorded in its window.
THEOREM NoOvercount == Spec => []NeverOvercounted
<1> USE QuotasAssumption, ChatAssumption DEF Kind
<1>1. Init => NeverOvercounted
  BY DEF Init, QuotaInit, NeverOvercounted
<1>2. TypeOK /\ NeverOvercounted /\ [Next]_vars => NeverOvercounted'
  <2> SUFFICES ASSUME TypeOK, NeverOvercounted, [Next]_vars PROVE NeverOvercounted'
    OBVIOUS
  <2>1. CASE UNCHANGED <<window, owed>>
    BY <2>1 DEF NeverOvercounted
  <2>2. ASSUME NEW r \in Reqs, RecordKind(r) PROVE NeverOvercounted'
    <3> DEFINE k == pc[r]
               s == Start(k, recAt[r])
               n == usage[r]
    <3>1. k \in Kind /\ s \in 0..MaxClock /\ n \in Nat
      BY <2>2, StartInRange DEF RecordKind, TypeOK, TokenTypes
    <3>2. /\ window' = [window EXCEPT ![k] = [start |-> s,
                          count |-> IF window[k].start = s THEN window[k].count + n ELSE n]]
          /\ owed' = [owed EXCEPT ![k][s] = @ + n]
      BY <2>2, <3>1 DEF RecordKind, Upsert, TypeOK, QuotaTypes
    <3>3. /\ window \in [Kind -> [start : 0..MaxClock, count : Nat]]
          /\ owed \in [Kind -> [0..MaxClock -> Nat]]
      BY DEF TypeOK, QuotaTypes, TokenTypes
    <3> HIDE DEF k, s, n
    <3>4. \A j \in Kind \ {k} : window'[j] = window[j] /\ owed'[j] = owed[j]
      BY <3>1, <3>2, <3>3
    <3>5. window'[k].start = s /\ owed'[k][s] = owed[k][s] + n
      BY <3>1, <3>2, <3>3
    <3>6. window'[k].count = IF window[k].start = s THEN window[k].count + n ELSE n
      BY <3>1, <3>2, <3>3
    <3>7. window'[k].count <= owed'[k][s]
      <4>1. owed[k][s] \in Nat /\ window[k].count \in Nat
        BY <3>1, <3>3
      <4>2. window[k].count <= owed[k][window[k].start]
        BY <3>1 DEF NeverOvercounted
      <4> QED BY <3>1, <3>5, <3>6, <4>1, <4>2
    <3> QED BY <3>4, <3>5, <3>7 DEF NeverOvercounted
  <2>3. ASSUME NEW r \in Reqs, Turn(r) \/ Mishap(r), ~RecordKind(r)
        PROVE UNCHANGED <<window, owed>>
    BY <2>3 DEF Turn, Mishap, Verify, CheckLimits, CheckBudget, Fails, Complete, Valid, Invalid,
       OpenStream, Delta, Done, Close, StreamError, Disconnect, BeginRecord, RecordFails,
       RecordSpend, SpendFails, AppendUser, AppendUserFails, AppendAssistant,
       AppendAssistantFails, quotaVars
  <2>4. ASSUME Revoke \/ Crash \/ Tick \/ UNCHANGED vars PROVE UNCHANGED <<window, owed>>
    BY <2>4 DEF Revoke, Crash, Tick, vars, quotaVars
  <2> QED
    BY <2>1, <2>2, <2>3, <2>4 DEF Next
<1> QED
  BY TypeCorrect, <1>1, <1>2, PTL DEF Spec
-----------------------------------------------------------------------------
(* The record of a turn *)

\* What is merged or taken over from the provider is what it consumed.
Recorded ==
  \A r \in Reqs :
    /\ r \notin Streams => usage[r] = consumed[r] /\ pc[r] \notin {"stream", "closing"}
    /\ r \in Streams => pc[r] # "validate"
    /\ r \in Streams /\ text[r] = "full" =>
         /\ usage[r] = consumed[r]
         /\ pc[r] \notin {"new", "limits", "budget", "call", "stream"}

\* The question of a turn that is about to append its answer.
Asked(r) == \E j \in 1..Len(log) : log[j] = <<"user", r>>

AnswersAsked ==
  \A r \in Reqs : pc[r] = "assistant" /\ (faults = 0 \/ r \notin Streams) => Asked(r)

(* The counters of turns that do not overlap *)

OneAtATime == scenario.serial => \A q, r \in Reqs : Pending(q) /\ Pending(r) => q = r

\* Rows follow the clock: nothing was recorded in a window after a row's own.
RowsFollow ==
  scenario.serial => \A k \in Kind :
    /\ window[k].count = owed[k][window[k].start]
    /\ \A t \in 0..MaxClock : t > window[k].start => owed[k][t] = 0
    /\ window[k].start <= Start(k, now)
    /\ \A r \in Reqs : pc[r] \in Kind =>
         recAt[r] <= now /\ window[k].start <= Start(k, recAt[r])

\* The usage of a turn: MaxUse for each attempt.
UsageBound ==
  \A r \in Reqs :
    /\ r \notin Streams =>
         usage[r] <= MaxUse * attempts[r]
                       + (IF pc[r] \in {"new", "limits", "budget", "call"} THEN 0 ELSE MaxUse)
    /\ r \in Streams => consumed[r] <= MaxUse /\ usage[r] <= MaxUse

\* Every request has the cap of q on the window, and the cap admits any.
OneCap(k, q) == caps[q][k] \notin {NoCap, 0} /\ \A r \in Reqs : caps[r][k] = caps[q][k]

\* Where a turn stands that was admitted and has not reached its upsert of a window.
Before == [hour |-> {"hour"}, day |-> {"hour", "day"}, month |-> {"hour", "day", "month"}]

Admitted == {"budget", "call", "validate", "stream", "closing", "record"}

WindowRoom ==
  scenario.serial => \A k \in Kind, q \in Reqs : OneCap(k, q) =>
    /\ window[k].count < caps[q][k] + MaxTurn
    /\ \A r \in Reqs :
         /\ pc[r] \in Admitted =>
              window[k].count < caps[q][k] \/ window[k].start < Start(k, now)
         /\ pc[r] \in Before[k] =>
              window[k].count < caps[q][k] \/ window[k].start < Start(k, recAt[r])

\* Where a turn stands that check_budget has passed and record_spend not charged.
Uncharged == {"call", "validate", "stream", "closing", "record", "hour", "day", "month", "spend"}

BudgetRoom ==
  scenario.serial /\ ~revoked /\ BudgetKind # "unlimited" /\ Limit > 0 =>
    /\ \A m \in 0..MaxClock : m > Month(now) => ledger.month[m] = 0
    /\ Spent(now) < Limit + MaxTurn * Price
    /\ \A r \in Reqs : pc[r] \in Uncharged => Spent(now) < Limit

LEMMA RecordedStep == TypeOK /\ Recorded /\ [Next]_vars => Recorded'
<1> SUFFICES ASSUME TypeOK, Recorded, [Next]_vars PROVE Recorded' OBVIOUS
<1> USE DEF Goto
<1>0. /\ pc \in [Reqs -> {"new", "limits", "budget", "call", "validate", "stream", "closing"} \cup Flushing \cup Ended]
      /\ consumed \in [Reqs -> Nat] /\ usage \in [Reqs -> Nat]
      /\ text \in [Reqs -> {"none", "partial", "full"}]
  BY DEF TypeOK, TurnTypes, TokenTypes
\* A step that only moves the request, and to no place the record depends on.
<1>1. ASSUME NEW r \in Reqs, NEW w, pc' = [pc EXCEPT ![r] = w], UNCHANGED <<usage, consumed, text>>,
             w \in {"limits", "budget", "call"} => pc[r] \in {"new", "limits", "budget", "call"},
             w \notin {"validate", "stream", "closing", "new"}
      PROVE  Recorded'
  BY <1>0, <1>1 DEF Recorded
<1>2. ASSUME NEW r \in Reqs, Verify(r) \/ CheckLimits(r) \/ CheckBudget(r) \/ Fails(r) PROVE Recorded'
  BY <1>1, <1>2 DEF Verify, CheckLimits, CheckBudget, Fails
<1>3. ASSUME NEW r \in Reqs, Complete(r) PROVE Recorded'
  BY <1>0, <1>3 DEF Complete, Recorded
<1>4. ASSUME NEW r \in Reqs, Valid(r) \/ StreamError(r) \/ Disconnect(r) \/ BeginRecord(r) PROVE Recorded'
  BY <1>1, <1>4 DEF Valid, StreamError, Disconnect, BeginRecord
<1>5. ASSUME NEW r \in Reqs, Invalid(r) PROVE Recorded'
  BY <1>0, <1>5 DEF Invalid, Recorded
<1>6. ASSUME NEW r \in Reqs, OpenStream(r) PROVE Recorded'
  BY <1>0, <1>6 DEF OpenStream, Recorded
<1>7. ASSUME NEW r \in Reqs, Delta(r) PROVE Recorded'
  BY <1>0, <1>7 DEF Delta, Recorded
<1>8. ASSUME NEW r \in Reqs, Done(r) PROVE Recorded'
  BY <1>0, <1>8 DEF Done, Recorded
<1>9. ASSUME NEW r \in Reqs, Close(r) PROVE Recorded'
  BY <1>1, <1>9 DEF Close
<1>10. ASSUME NEW r \in Reqs, RecordKind(r) PROVE Recorded'
  <2>1. After[pc[r]] \in {"day", "month", "spend"} BY <1>10 DEF RecordKind, After, Kind
  <2> QED BY <1>1, <1>10, <2>1 DEF RecordKind
<1>11. ASSUME NEW r \in Reqs,
              \/ RecordFails(r) \/ RecordSpend(r) \/ SpendFails(r) \/ AppendUser(r)
              \/ AppendUserFails(r) \/ AppendAssistant(r) \/ AppendAssistantFails(r)
       PROVE  Recorded'
  BY <1>1, <1>11 DEF RecordFails, RecordSpend, SpendFails, AppendUser, AppendUserFails,
     AppendAssistant, AppendAssistantFails
<1>12. CASE Crash
  BY <1>0, <1>12 DEF Crash, Recorded
<1>13. CASE Revoke \/ Tick \/ UNCHANGED vars
  BY <1>13 DEF Revoke, Tick, vars, reqVars, Recorded
<1> QED
  BY <1>2, <1>3, <1>4, <1>5, <1>6, <1>7, <1>8, <1>9, <1>10, <1>11, <1>12, <1>13
  DEF Next, Turn, Mishap

LEMMA AnswersStep == TypeOK /\ AnswersAsked /\ [Next]_vars => AnswersAsked'
<1> SUFFICES ASSUME TypeOK, AnswersAsked, [Next]_vars PROVE AnswersAsked' OBVIOUS
<1> USE DEF Goto
<1>0. /\ pc \in [Reqs -> {"new", "limits", "budget", "call", "validate", "stream", "closing"} \cup Flushing \cup Ended]
      /\ log \in Seq({"user", "assistant"} \X Reqs) /\ faults \in Nat
  BY DEF TypeOK, TurnTypes, TokenTypes, ReplyTypes
<1>1. ASSUME NEW r \in Reqs, NEW w, w # "assistant", pc' = [pc EXCEPT ![r] = w], log' = log,
             faults' = faults \/ faults' = faults + 1
      PROVE  AnswersAsked'
  <2>1. faults' = 0 => faults = 0 BY <1>0, <1>1
  <2>2. \A q \in Reqs : pc'[q] = "assistant" => pc[q] = "assistant" BY <1>0, <1>1
  <2> QED BY <1>1, <2>1, <2>2 DEF AnswersAsked, Asked
<1>2. ASSUME NEW r \in Reqs,
             \/ Verify(r) \/ CheckLimits(r) \/ CheckBudget(r) \/ Fails(r) \/ Complete(r)
             \/ Valid(r) \/ Invalid(r) \/ OpenStream(r) \/ Done(r) \/ Close(r)
      PROVE  AnswersAsked'
  BY <1>1, <1>2 DEF Verify, CheckLimits, CheckBudget, Fails, Complete, Valid, Invalid,
     OpenStream, Done, Close, Fault
<1>3. ASSUME NEW r \in Reqs,
             \/ StreamError(r) \/ Disconnect(r) \/ BeginRecord(r) \/ RecordFails(r)
             \/ RecordSpend(r) \/ SpendFails(r) \/ AppendAssistantFails(r)
      PROVE  AnswersAsked'
  BY <1>1, <1>3 DEF StreamError, Disconnect, BeginRecord, RecordFails, RecordSpend, SpendFails,
     AppendAssistantFails, Fault
<1>4. ASSUME NEW r \in Reqs, RecordKind(r) PROVE AnswersAsked'
  <2>1. After[pc[r]] # "assistant" BY <1>4 DEF RecordKind, After, Kind
  <2> QED BY <1>1, <1>4, <2>1 DEF RecordKind
<1>5. ASSUME NEW r \in Reqs, NEW m \in {"user", "assistant"}, log' = Append(log, <<m, r>>), faults' = faults,
             NEW w, pc' = [pc EXCEPT ![r] = w], w = "assistant" => m = "user"
      PROVE  AnswersAsked'
  <2>1. Len(log') = Len(log) + 1 /\ \A j \in 1..Len(log) : log'[j] = log[j]
    BY <1>0, <1>5
  <2>2. log'[Len(log')] = <<m, r>> BY <1>0, <1>5, <2>1
  <2>3. \A q \in Reqs : Asked(q) => Asked(q)'
    BY <1>0, <2>1 DEF Asked
  <2>4. m = "user" => Asked(r)'
    BY <1>0, <2>1, <2>2 DEF Asked
  <2>5. \A q \in Reqs : pc'[q] = "assistant" => pc[q] = "assistant" \/ (q = r /\ w = "assistant")
    BY <1>0, <1>5
  <2> QED BY <1>5, <2>3, <2>4, <2>5, Zenon DEF AnswersAsked
<1>6. ASSUME NEW r \in Reqs, AppendUser(r) \/ AppendAssistant(r) PROVE AnswersAsked'
  BY <1>5, <1>6 DEF AppendUser, AppendAssistant
<1>7. ASSUME NEW r \in Reqs, AppendUserFails(r) PROVE AnswersAsked'
  <2>1. faults' # 0 /\ log' = log BY <1>0, <1>7 DEF AppendUserFails, Fault
  <2>2. \A q \in Reqs : pc'[q] = "assistant" => pc[q] = "assistant" \/ (q = r /\ r \in Streams)
    BY <1>0, <1>7 DEF AppendUserFails
  <2> QED BY <2>1, <2>2 DEF AnswersAsked, Asked
<1>8. ASSUME UNCHANGED <<log, faults>>, \A q \in Reqs : pc'[q] = "assistant" => pc[q] = "assistant"
      PROVE  AnswersAsked'
  BY <1>8 DEF AnswersAsked, Asked
<1>9. ASSUME NEW r \in Reqs, Delta(r) PROVE AnswersAsked'
  BY <1>8, <1>9 DEF Delta
<1>10. CASE Crash
  BY <1>0, <1>8, <1>10 DEF Crash
<1>11. CASE Revoke \/ Tick \/ UNCHANGED vars
  BY <1>8, <1>11 DEF Revoke, Tick, vars, reqVars
<1> QED
  BY <1>2, <1>3, <1>4, <1>6, <1>7, <1>9, <1>10, <1>11 DEF Next, Turn, Mishap

LEMMA QuestionStep == TypeOK /\ AnswersAsked /\ QuestionFirst /\ [Next]_vars => QuestionFirst'
<1> SUFFICES ASSUME TypeOK, AnswersAsked, QuestionFirst, [Next]_vars PROVE QuestionFirst' OBVIOUS
<1>0. log \in Seq({"user", "assistant"} \X Reqs) /\ faults \in Nat
  BY DEF TypeOK, TokenTypes, ReplyTypes
<1>1. ASSUME log' = log, faults' = faults \/ faults' = faults + 1 PROVE QuestionFirst'
  <2>1. faults' = 0 => faults = 0 BY <1>0, <1>1
  <2> QED BY <1>1, <2>1 DEF QuestionFirst
<1>2. ASSUME NEW r \in Reqs, NEW m \in {"user", "assistant"}, log' = Append(log, <<m, r>>),
             m = "assistant" => pc[r] = "assistant", faults' = faults
      PROVE  QuestionFirst'
  <2>1. Len(log') = Len(log) + 1 /\ \A j \in 1..Len(log) : log'[j] = log[j]
    BY <1>0, <1>2
  <2>2. log'[Len(log')] = <<m, r>> BY <1>0, <1>2, <2>1
  <2> SUFFICES ASSUME NEW i \in 1..Len(log'), log'[i][1] = "assistant",
                      faults = 0 \/ log'[i][2] \notin Streams
               PROVE  \E j \in 1..(i - 1) : log'[j] = <<"user", log'[i][2]>>
    BY <1>2 DEF QuestionFirst
  <2>3. CASE i = Len(log')
    <3>1. m = "assistant" /\ log'[i][2] = r BY <2>2, <2>3
    <3>2. PICK j \in 1..Len(log) : log[j] = <<"user", r>>
      BY <1>2, <3>1 DEF AnswersAsked, Asked
    <3>3. log'[j] = <<"user", log'[i][2]>> /\ j \in 1..(i - 1)
      BY <1>0, <2>1, <2>3, <3>1, <3>2
    <3> QED BY <3>3
  <2>4. CASE i # Len(log')
    <3>1. i \in 1..Len(log) /\ log'[i] = log[i] BY <1>0, <2>1, <2>4
    <3>2. PICK j \in 1..(i - 1) : log[j] = <<"user", log[i][2]>>
      BY <3>1 DEF QuestionFirst
    <3>3. j \in 1..Len(log) BY <1>0, <3>1
    <3> QED BY <2>1, <3>1, <3>2, <3>3
  <2> QED BY <2>3, <2>4
<1>3. ASSUME NEW r \in Reqs, AppendUser(r) \/ AppendAssistant(r) PROVE QuestionFirst'
  BY <1>2, <1>3 DEF AppendUser, AppendAssistant
<1>4. ASSUME NEW r \in Reqs, Turn(r) \/ Mishap(r), ~AppendUser(r), ~AppendAssistant(r)
      PROVE  log' = log /\ (faults' = faults \/ faults' = faults + 1)
  BY <1>4 DEF Turn, Mishap, Verify, CheckLimits, CheckBudget, Fails, Complete, Valid, Invalid,
     OpenStream, Delta, Done, Close, StreamError, Disconnect, BeginRecord, RecordKind, RecordFails,
     RecordSpend, SpendFails, AppendUserFails, AppendAssistantFails, Fault
<1>5. ASSUME Revoke \/ Crash \/ Tick \/ UNCHANGED vars PROVE UNCHANGED <<log, faults>>
  BY <1>5 DEF Revoke, Crash, Tick, vars
<1> QED
  BY <1>1, <1>3, <1>4, <1>5 DEF Next

\* However turns overlap and fail, no answer stands in the conversation without
\* its question before it.
THEOREM QuestionsFirst == Spec => []QuestionFirst
<1>1. Init => AnswersAsked /\ QuestionFirst
  BY DEF Init, AnswersAsked, QuestionFirst
<1> QED
  BY TypeCorrect, AnswersStep, QuestionStep, <1>1, PTL DEF Spec
-----------------------------------------------------------------------------
(* Turns one after the other *)

\* Products, quotients and remainders.
LEMMA ScaleMonotone ==
  ASSUME NEW a \in Nat, NEW b \in Nat, NEW n \in Nat, a <= b
  PROVE  a * n <= b * n
<1>1. b = a + (b - a) /\ b - a \in Nat OBVIOUS
<1>2. b * n = a * n + (b - a) * n BY <1>1
<1>3. (b - a) * n \in Nat BY <1>1
<1>4. a * n \in Nat OBVIOUS
<1> QED BY <1>2, <1>3, <1>4

\* Division with remainder.
LEMMA Division ==
  ASSUME NEW t \in Nat, NEW n \in Nat \ {0}
  PROVE  \E q \in Nat, r \in 0..(n - 1) : q = t \div n /\ r = t % n /\ t = q * n + r
<1>1. t \div n \in Nat /\ t % n \in 0..(n - 1) OBVIOUS
<1>2. \A q, r \in Int : q = t \div n /\ r = t % n => t = q * n + r OBVIOUS
<1> QED BY <1>1, <1>2

\* A later time is in no earlier period.
LEMMA DivisionMonotone ==
  ASSUME NEW a \in Nat, NEW b \in Nat, NEW n \in Nat \ {0}, a <= b
  PROVE  a \div n <= b \div n /\ a - (a % n) <= b - (b % n)
<1>1. PICK p \in Nat, r \in 0..(n - 1) : p = a \div n /\ r = a % n /\ a = p * n + r BY Division
<1>2. PICK q \in Nat, s \in 0..(n - 1) : q = b \div n /\ s = b % n /\ b = q * n + s BY Division
<1>3. p * n \in Nat /\ q * n \in Nat BY <1>1, <1>2
<1>4. p <= q
  <2> SUFFICES ASSUME q + 1 <= p PROVE FALSE BY <1>1, <1>2
  <2>1. (q + 1) * n <= p * n BY ScaleMonotone
  <2>2. q * n + n <= p * n BY <2>1
  <2> QED BY <1>1, <1>2, <1>3, <2>2
<1>5. p * n <= q * n BY <1>4, ScaleMonotone
<1> QED BY <1>1, <1>2, <1>3, <1>4, <1>5

\* Windows and months follow the clock.
LEMMA StartMonotone ==
  ASSUME NEW k \in Kind, NEW a \in 0..MaxClock, NEW b \in 0..MaxClock, a <= b
  PROVE  Start(k, a) <= Start(k, b)
<1>1. Size[k] \in Nat \ {0} /\ a \in Nat /\ b \in Nat BY QuotasAssumption
<1>2. a - (a % Size[k]) <= b - (b % Size[k]) BY <1>1, DivisionMonotone
<1> QED BY <1>2 DEF Start

LEMMA MonthMonotone ==
  ASSUME NEW a \in 0..MaxClock, NEW b \in 0..MaxClock, a <= b
  PROVE  Month(a) <= Month(b)
<1>1. MonthLen \in Nat \ {0} /\ a \in Nat /\ b \in Nat BY QuotasAssumption
<1>2. a \div MonthLen <= b \div MonthLen BY <1>1, DivisionMonotone
<1> QED BY <1>2 DEF Month

\* A step of a turn moves that turn only, which is under way or starts.
LEMMA TurnMoves ==
  ASSUME TypeOK, NEW r \in Reqs, Turn(r) \/ Mishap(r)
  PROVE  /\ \A q \in Reqs : q # r => pc'[q] = pc[q]
         /\ UNCHANGED <<caps, scenario>>
         /\ Verify(r) \/ Pending(r)
<1> USE DEF Goto, Flushing, Ended, Kind
<1>0. pc \in [Reqs -> {"new", "limits", "budget", "call", "validate", "stream", "closing"} \cup Flushing \cup Ended]
  BY DEF TypeOK, TurnTypes
<1>1. pc' = pc \/ \E w : pc' = [pc EXCEPT ![r] = w]
  BY Zenon DEF Turn, Mishap, Verify, CheckLimits, CheckBudget, Fails, Complete, Valid, Invalid,
     OpenStream, Delta, Done, Close, StreamError, Disconnect, BeginRecord, RecordKind, RecordFails,
     RecordSpend, SpendFails, AppendUser, AppendUserFails, AppendAssistant, AppendAssistantFails
<1>2. UNCHANGED <<caps, scenario>>
  BY DEF Turn, Mishap, Verify, CheckLimits, CheckBudget, Fails, Complete, Valid, Invalid,
     OpenStream, Delta, Done, Close, StreamError, Disconnect, BeginRecord, RecordKind, RecordFails,
     RecordSpend, SpendFails, AppendUser, AppendUserFails, AppendAssistant, AppendAssistantFails
<1>3. Verify(r) \/ Pending(r)
  BY DEF Pending, Turn, Mishap, CheckLimits, CheckBudget, Fails, Complete, Valid, Invalid,
     OpenStream, Delta, Done, Close, StreamError, Disconnect, BeginRecord, RecordKind, RecordFails,
     RecordSpend, SpendFails, AppendUser, AppendUserFails, AppendAssistant, AppendAssistantFails
<1> QED BY <1>0, <1>1, <1>2, <1>3

\* What a step of the operator, the process or the clock moves.
LEMMA OthersMove ==
  ASSUME TypeOK, Revoke \/ Crash \/ Tick \/ UNCHANGED vars
  PROVE  /\ \A q \in Reqs : pc'[q] = pc[q] \/ pc'[q] = "gone"
         /\ UNCHANGED <<caps, window, ledger, owed, usage, consumed, attempts, recAt>>
BY DEF TypeOK, TurnTypes, Revoke, Crash, Tick, vars, quotaVars, reqVars

LEMMA OneAtATimeStep == TypeOK /\ OneAtATime /\ [Next]_vars => OneAtATime'
<1> SUFFICES ASSUME TypeOK, OneAtATime, [Next]_vars PROVE OneAtATime' OBVIOUS
<1>1. ASSUME NEW r \in Reqs, Turn(r) \/ Mishap(r) PROVE OneAtATime'
  <2>1. \A q \in Reqs : q # r => (Pending(q)' <=> Pending(q)) BY <1>1, TurnMoves DEF Pending
  <2>2. CASE Verify(r) BY <1>1, <2>1, <2>2, TurnMoves DEF OneAtATime, Verify
  <2>3. CASE Pending(r) BY <1>1, <2>1, <2>3, TurnMoves DEF OneAtATime
  <2> QED BY <1>1, <2>2, <2>3, TurnMoves
<1>2. ASSUME ((Revoke \/ Crash \/ Tick) /\ UNCHANGED scenario) \/ UNCHANGED vars PROVE OneAtATime'
  <2>1. scenario' = scenario BY <1>2 DEF vars
  <2>2. \A q \in Reqs : Pending(q)' => Pending(q) BY <1>2, OthersMove DEF Pending, Ended
  <2> QED BY <2>1, <2>2 DEF OneAtATime
<1> QED BY <1>1, <1>2 DEF Next

LEMMA UsageBoundStep == TypeOK /\ Recorded /\ UsageBound /\ [Next]_vars => UsageBound'
<1> SUFFICES ASSUME TypeOK, Recorded, UsageBound, [Next]_vars PROVE UsageBound' OBVIOUS
<1> USE DEF Goto
<1>0. /\ pc \in [Reqs -> {"new", "limits", "budget", "call", "validate", "stream", "closing"} \cup Flushing \cup Ended]
      /\ consumed \in [Reqs -> Nat] /\ usage \in [Reqs -> Nat] /\ attempts \in [Reqs -> 0..MaxRepairs]
      /\ MaxUse \in Nat \ {0} /\ MaxRepairs \in Nat
  BY ChatAssumption DEF TypeOK, TurnTypes, TokenTypes
<1>1. ASSUME NEW r \in Reqs, NEW w, pc' = [pc EXCEPT ![r] = w], UNCHANGED <<usage, consumed, attempts>>,
             w \in {"new", "limits", "budget", "call"} => pc[r] \in {"new", "limits", "budget", "call"}
      PROVE  UsageBound'
  <2>1. \A q \in Reqs : q # r => pc'[q] = pc[q] BY <1>0, <1>1
  <2>2. pc'[r] = w BY <1>0, <1>1
  <2>3. \A q \in Reqs : pc'[q] \in {"new", "limits", "budget", "call"} => pc[q] \in {"new", "limits", "budget", "call"}
    BY <1>1, <2>1, <2>2
  <2> DEFINE base(q) == MaxUse * attempts[q]
  <2>4. \A q \in Reqs : base(q) \in Nat /\ base(q)' = base(q) BY <1>0, <1>1
  <2> HIDE DEF base
  <2>5. \A q \in Reqs : q \notin Streams => usage[q] <= base(q) + (IF pc[q] \in {"new", "limits", "budget", "call"} THEN 0 ELSE MaxUse)
    BY DEF UsageBound, base
  <2>6. \A q \in Reqs : q \notin Streams => usage'[q] <= base(q)' + (IF pc'[q] \in {"new", "limits", "budget", "call"} THEN 0 ELSE MaxUse)
    BY <1>0, <1>1, <2>3, <2>4, <2>5
  <2> QED BY <1>1, <2>6 DEF UsageBound, base
<1>2. ASSUME NEW r \in Reqs,
             \/ Verify(r) \/ CheckLimits(r) \/ CheckBudget(r) \/ Fails(r) \/ Valid(r)
             \/ StreamError(r) \/ Disconnect(r) \/ BeginRecord(r) \/ Close(r)
      PROVE  UsageBound'
  BY <1>1, <1>2 DEF Verify, CheckLimits, CheckBudget, Fails, Valid, StreamError, Disconnect,
     BeginRecord, Close
<1>3. ASSUME NEW r \in Reqs, RecordKind(r) PROVE UsageBound'
  <2>1. After[pc[r]] \in {"day", "month", "spend"} BY <1>3 DEF RecordKind, After, Kind
  <2> QED BY <1>1, <1>3, <2>1 DEF RecordKind
<1>4. ASSUME NEW r \in Reqs,
             \/ RecordFails(r) \/ RecordSpend(r) \/ SpendFails(r) \/ AppendUser(r)
             \/ AppendUserFails(r) \/ AppendAssistant(r) \/ AppendAssistantFails(r)
      PROVE  UsageBound'
  BY <1>1, <1>4 DEF RecordFails, RecordSpend, SpendFails, AppendUser, AppendUserFails,
     AppendAssistant, AppendAssistantFails
<1>5. ASSUME NEW r \in Reqs, \A q \in Reqs : q # r => pc'[q] = pc[q] /\ usage'[q] = usage[q] /\ consumed'[q] = consumed[q] /\ attempts'[q] = attempts[q],
             r \notin Streams => usage'[r] <= MaxUse * attempts'[r]
                       + (IF pc'[r] \in {"new", "limits", "budget", "call"} THEN 0 ELSE MaxUse),
             r \in Streams => consumed'[r] <= MaxUse /\ usage'[r] <= MaxUse
      PROVE  UsageBound'
  BY <1>5, Zenon DEF UsageBound
<1>6. ASSUME NEW r \in Reqs, Complete(r) PROVE UsageBound'
  <2>1. PICK u \in 1..MaxUse : usage' = [usage EXCEPT ![r] = @ + u] /\ consumed' = [consumed EXCEPT ![r] = @ + u]
    BY <1>6 DEF Complete
  <2>2. pc[r] = "call" /\ pc' = [pc EXCEPT ![r] = "validate"] /\ attempts' = attempts /\ r \notin Streams
    BY <1>6 DEF Complete
  <2>3. usage[r] <= MaxUse * attempts[r] + 0 BY <2>2 DEF UsageBound
  <2>4. MaxUse * attempts[r] \in Nat BY <1>0
  <2>5. usage'[r] <= MaxUse * attempts[r] + MaxUse BY <1>0, <2>1, <2>3, <2>4
  <2>6. pc'[r] = "validate" BY <1>0, <2>2
  <2>7. \A q \in Reqs : q # r => pc'[q] = pc[q] /\ usage'[q] = usage[q] /\ consumed'[q] = consumed[q]
    BY <1>0, <2>1, <2>2
  <2> QED BY <1>5, <2>2, <2>5, <2>6, <2>7
<1>7. ASSUME NEW r \in Reqs, Invalid(r), attempts[r] < MaxRepairs PROVE UsageBound'
  <2>1. pc[r] = "validate" /\ pc' = [pc EXCEPT ![r] = "call"] /\ UNCHANGED <<usage, consumed>>
        /\ attempts' = [attempts EXCEPT ![r] = @ + 1]
    BY <1>0, <1>7 DEF Invalid
  <2>2. r \notin Streams BY <2>1 DEF Recorded
  <2>3. usage[r] <= MaxUse * attempts[r] + MaxUse BY <2>1, <2>2 DEF UsageBound
  <2>4. MaxUse * (attempts[r] + 1) = MaxUse * attempts[r] + MaxUse BY <1>0
  <2>5. attempts'[r] = attempts[r] + 1 /\ pc'[r] = "call" BY <1>0, <2>1
  <2>6. usage'[r] <= MaxUse * attempts'[r] + 0 BY <1>0, <2>1, <2>3, <2>4, <2>5
  <2>7. \A q \in Reqs : q # r => pc'[q] = pc[q] /\ attempts'[q] = attempts[q] BY <1>0, <2>1
  <2> QED BY <1>5, <2>1, <2>2, <2>5, <2>6, <2>7
<1>8. ASSUME NEW r \in Reqs, Invalid(r), ~(attempts[r] < MaxRepairs) PROVE UsageBound'
  <2>1. pc' = [pc EXCEPT ![r] = "failed"] /\ UNCHANGED <<usage, consumed, attempts>>
    BY <1>0, <1>8 DEF Invalid
  <2> QED BY <1>1, <2>1
<1>9. ASSUME NEW r \in Reqs, OpenStream(r) \/ Delta(r) \/ Done(r) PROVE UsageBound'
  <2>1. r \in Streams /\ attempts' = attempts BY <1>9 DEF OpenStream, Delta, Done, Recorded
  <2>2. \A q \in Reqs : q # r => pc'[q] = pc[q] /\ usage'[q] = usage[q] /\ consumed'[q] = consumed[q]
    BY <1>0, <1>9 DEF OpenStream, Delta, Done
  <2>3. usage'[r] <= MaxUse /\ consumed'[r] <= MaxUse
    BY <1>0, <1>9, <2>1 DEF OpenStream, Delta, Done, UsageBound
  <2> QED BY <1>5, <2>1, <2>2, <2>3
<1>10. ASSUME Revoke \/ Crash \/ Tick \/ UNCHANGED vars PROVE UsageBound'
  <2>1. \A q \in Reqs : pc'[q] = pc[q] \/ pc'[q] = "gone" BY <1>10, OthersMove
  <2>2. UNCHANGED <<usage, consumed, attempts>> BY <1>10, OthersMove
  <2> DEFINE base(q) == MaxUse * attempts[q]
  <2>3. \A q \in Reqs : base(q) \in Nat /\ base(q)' = base(q) BY <1>0, <2>2
  <2> HIDE DEF base
  <2>4. \A q \in Reqs : q \notin Streams => usage[q] <= base(q) + (IF pc[q] \in {"new", "limits", "budget", "call"} THEN 0 ELSE MaxUse)
    BY DEF UsageBound, base
  <2>5. \A q \in Reqs : q \notin Streams => usage'[q] <= base(q)' + (IF pc'[q] \in {"new", "limits", "budget", "call"} THEN 0 ELSE MaxUse)
    BY <1>0, <2>1, <2>2, <2>3, <2>4
  <2> QED BY <2>2, <2>5 DEF UsageBound, base
<1> QED
  BY <1>0, <1>2, <1>3, <1>4, <1>6, <1>7, <1>8, <1>9, <1>10 DEF Next, Turn, Mishap

\* No turn records more than its attempts can consume.
LEMMA TurnBound ==
  ASSUME TypeOK, UsageBound, NEW r \in Reqs
  PROVE  usage[r] <= MaxTurn /\ usage[r] \in Nat /\ MaxTurn \in Nat
<1>0. /\ usage[r] \in Nat /\ attempts[r] \in 0..MaxRepairs
      /\ MaxUse \in Nat \ {0} /\ MaxRepairs \in Nat
  BY ChatAssumption DEF TypeOK, TurnTypes, TokenTypes
<1>1. MaxTurn = MaxRepairs * MaxUse + MaxUse BY <1>0 DEF MaxTurn
<1>2. MaxRepairs * MaxUse \in Nat BY <1>0
<1>3. attempts[r] * MaxUse <= MaxRepairs * MaxUse BY <1>0, ScaleMonotone
<1>4. MaxUse * attempts[r] = attempts[r] * MaxUse /\ attempts[r] * MaxUse \in Nat BY <1>0
<1>5. CASE r \in Streams BY <1>0, <1>1, <1>2, <1>5 DEF UsageBound
<1>6. CASE r \notin Streams
  <2>1. usage[r] <= MaxUse * attempts[r] + MaxUse BY <1>0, <1>4, <1>6 DEF UsageBound
  <2> QED BY <1>0, <1>1, <1>2, <1>3, <1>4, <2>1
<1> QED BY <1>5, <1>6

\* Steps other than the upserts leave the rows alone; only the first step of a
\* record takes the time, and only it comes to the upserts from elsewhere.
LEMMA RowsLeft ==
  ASSUME TypeOK, NEW r \in Reqs, Turn(r) \/ Mishap(r), ~RecordKind(r)
  PROVE  /\ UNCHANGED <<window, owed, now>>
         /\ ~BeginRecord(r) => recAt' = recAt /\ (pc'[r] \in Kind => pc[r] \in Kind)
<1> USE DEF Goto, Flushing, Ended, Kind
<1>0. pc \in [Reqs -> {"new", "limits", "budget", "call", "validate", "stream", "closing"} \cup Flushing \cup Ended]
  BY DEF TypeOK, TurnTypes
<1>1. UNCHANGED <<window, owed, now>>
  BY DEF Turn, Mishap, Verify, CheckLimits, CheckBudget, Fails, Complete, Valid, Invalid,
     OpenStream, Delta, Done, Close, StreamError, Disconnect, BeginRecord, RecordFails,
     RecordSpend, SpendFails, AppendUser, AppendUserFails, AppendAssistant, AppendAssistantFails, quotaVars
<1>2. ASSUME ~BeginRecord(r) PROVE recAt' = recAt
  BY <1>2 DEF Turn, Mishap, Verify, CheckLimits, CheckBudget, Fails, Complete, Valid, Invalid,
     OpenStream, Delta, Done, Close, StreamError, Disconnect, RecordFails,
     RecordSpend, SpendFails, AppendUser, AppendUserFails, AppendAssistant, AppendAssistantFails
<1>3. ASSUME ~BeginRecord(r)
      PROVE  pc' = pc \/ \E w \in {"rejected", "limits", "budget", "call", "failed", "validate", "record",
                        "stream", "closing", "gone", "spend", "user", "done", "assistant"} :
               pc' = [pc EXCEPT ![r] = w]
  BY <1>3 DEF Turn, Mishap, Verify, CheckLimits, CheckBudget, Fails, Complete, Valid, Invalid,
     OpenStream, Delta, Done, Close, StreamError, Disconnect, RecordFails,
     RecordSpend, SpendFails, AppendUser, AppendUserFails, AppendAssistant, AppendAssistantFails
<1> QED BY <1>0, <1>1, <1>2, <1>3

\* The types the counters' proofs need.
LEMMA CounterTypes ==
  ASSUME TypeOK
  PROVE  /\ window \in [Kind -> [start : 0..MaxClock, count : Nat]]
         /\ owed \in [Kind -> [0..MaxClock -> Nat]] /\ now \in 0..MaxClock /\ MaxClock \in Nat
         /\ recAt \in [Reqs -> 0..MaxClock] /\ usage \in [Reqs -> Nat]
         /\ pc \in [Reqs -> {"new", "limits", "budget", "call", "validate", "stream", "closing"} \cup Flushing \cup Ended]
BY QuotasAssumption DEF TypeOK, QuotaTypes, TokenTypes, TurnTypes

\* What an upsert of Tracker::record leaves, field by field.
LEMMA UpsertStep ==
  ASSUME TypeOK, NEW r \in Reqs, RecordKind(r)
  PROVE  /\ pc[r] \in Kind /\ Start(pc[r], recAt[r]) \in 0..MaxClock
         /\ \A j \in Kind : j # pc[r] => window'[j] = window[j] /\ owed'[j] = owed[j]
         /\ window'[pc[r]].start = Start(pc[r], recAt[r])
         /\ window'[pc[r]].count = IF window[pc[r]].start = Start(pc[r], recAt[r])
                                   THEN window[pc[r]].count + usage[r] ELSE usage[r]
         /\ \A t \in 0..MaxClock : owed'[pc[r]][t] =
              IF t = Start(pc[r], recAt[r]) THEN owed[pc[r]][t] + usage[r] ELSE owed[pc[r]][t]
         /\ pc'[r] = After[pc[r]] /\ \A q \in Reqs : q # r => pc'[q] = pc[q]
         /\ UNCHANGED <<recAt, now, caps, usage>>
<1> DEFINE k == pc[r]
           s == Start(k, recAt[r])
           n == usage[r]
<1>0. k \in Kind BY DEF RecordKind
<1>1. s \in 0..MaxClock /\ n \in Nat BY <1>0, CounterTypes, StartInRange
<1>2. /\ window' = [window EXCEPT ![k] = [start |-> s,
                      count |-> IF window[k].start = s THEN window[k].count + n ELSE n]]
      /\ owed' = [owed EXCEPT ![k][s] = @ + n]
  BY <1>0, CounterTypes DEF RecordKind, Upsert
<1>3. pc' = [pc EXCEPT ![r] = After[k]] /\ UNCHANGED <<recAt, now, caps, usage>>
  BY DEF RecordKind, Goto
<1>4. pc'[r] = After[k] /\ \A q \in Reqs : q # r => pc'[q] = pc[q] BY <1>3, CounterTypes
<1> HIDE DEF k, s, n
<1>5. \A j \in Kind : j # k => window'[j] = window[j] /\ owed'[j] = owed[j]
  BY <1>0, <1>2, CounterTypes
<1>6. window'[k].start = s /\ window'[k].count = IF window[k].start = s THEN window[k].count + n ELSE n
  BY <1>0, <1>1, <1>2, CounterTypes
<1>7. \A t \in 0..MaxClock : owed'[k][t] = IF t = s THEN owed[k][t] + n ELSE owed[k][t]
  BY <1>0, <1>1, <1>2, CounterTypes
<1> QED BY <1>0, <1>1, <1>3, <1>4, <1>5, <1>6, <1>7 DEF k, s, n

LEMMA RowsStep == TypeOK /\ scenario \in Scenarios /\ OneAtATime /\ RowsFollow /\ [Next]_vars => RowsFollow'
<1> SUFFICES ASSUME TypeOK, scenario \in Scenarios, OneAtATime, RowsFollow, [Next]_vars, scenario'.serial PROVE RowsFollow'
  BY DEF RowsFollow
<1>0. scenario' = scenario BY DEF Next, Turn, Mishap, vars
<1>1. scenario.serial BY <1>0
<1>2. ASSUME NEW r \in Reqs, Turn(r) \/ Mishap(r), ~RecordKind(r), ~BeginRecord(r) PROVE RowsFollow'
  <2>1. \A q \in Reqs : pc'[q] \in Kind => pc[q] \in Kind BY <1>2, TurnMoves, RowsLeft
  <2>2. UNCHANGED <<window, owed, now, recAt>> BY <1>2, RowsLeft
  <2> QED BY <1>0, <2>1, <2>2 DEF RowsFollow, Start
<1>3. ASSUME NEW r \in Reqs, Turn(r), BeginRecord(r) PROVE RowsFollow'
  <2>1. UNCHANGED <<window, owed, now>> BY <1>3 DEF BeginRecord, quotaVars
  <2>2. pc[r] = "record" /\ \A q \in Reqs : q # r => recAt'[q] = recAt[q] /\ pc'[q] = pc[q]
    BY <1>3, CounterTypes, TurnMoves DEF BeginRecord
  <2>3. pc'[r] \in Kind => recAt'[r] = now
    BY <1>3, CounterTypes DEF BeginRecord, Goto, Kind
  <2>4. now <= now BY CounterTypes
  <2>5. \A k \in Kind, q \in Reqs : pc'[q] \in Kind =>
          recAt'[q] <= now /\ window[k].start <= Start(k, recAt'[q])
    <3> SUFFICES ASSUME NEW k \in Kind, NEW q \in Reqs, pc'[q] \in Kind
                 PROVE  recAt'[q] <= now /\ window[k].start <= Start(k, recAt'[q])
      OBVIOUS
    <3>1. CASE q = r BY <1>1, <2>3, <2>4, <3>1 DEF RowsFollow
    <3>2. CASE q # r BY <1>1, <2>2, <3>2 DEF RowsFollow
    <3> QED BY <3>1, <3>2
  <2> QED BY <1>0, <1>1, <2>1, <2>5 DEF RowsFollow, Start
<1>4. ASSUME NEW r \in Reqs, RecordKind(r), Turn(r) PROVE RowsFollow'
  <2> DEFINE k == pc[r]
             s == Start(k, recAt[r])
  <2>1. k \in Kind /\ s \in 0..MaxClock /\ recAt[r] \in 0..MaxClock BY <1>4, UpsertStep, CounterTypes
  <2>2. recAt[r] <= now /\ window[k].start <= s BY <1>1, <2>1 DEF RowsFollow
  <2>3. s <= Start(k, now) BY <2>1, <2>2, CounterTypes, StartMonotone
  <2>4. \A q \in Reqs : q # r => pc'[q] \notin Kind
    <3>1. \A q \in Reqs : pc[q] \in Kind => Pending(q) BY DEF Pending, Kind, Ended
    <3> QED BY <1>1, <1>4, <2>1, <3>1, TurnMoves DEF OneAtATime
  <2>5. \A j \in Kind : j # k => window'[j] = window[j] /\ owed'[j] = owed[j] BY <1>4, UpsertStep
  <2>6. /\ window'[k].start = s
        /\ window'[k].count = IF window[k].start = s THEN window[k].count + usage[r] ELSE usage[r]
        /\ \A t \in 0..MaxClock : owed'[k][t] = IF t = s THEN owed[k][t] + usage[r] ELSE owed[k][t]
    BY <1>4, UpsertStep
  <2>7. UNCHANGED <<now, recAt>> BY <1>4, UpsertStep
  <2>8. /\ window[k].count = owed[k][window[k].start]
        /\ \A t \in 0..MaxClock : t > window[k].start => owed[k][t] = 0
    BY <1>1, <2>1 DEF RowsFollow
  <2> HIDE DEF s, k
  <2>9. /\ window[k].start \in 0..MaxClock /\ window[k].count \in Nat /\ usage[r] \in Nat
        /\ \A t \in 0..MaxClock : owed[k][t] \in Nat
        /\ now \in 0..MaxClock /\ MaxClock \in Nat
    BY <2>1, CounterTypes
  <2>10. /\ window'[k].count = owed'[k][window'[k].start]
         /\ \A t \in 0..MaxClock : t > window'[k].start => owed'[k][t] = 0
         /\ window'[k].start <= Start(k, now)
    BY <2>1, <2>2, <2>3, <2>6, <2>8, <2>9
  <2>11. \A j \in Kind : pc'[r] \in Kind => recAt'[r] <= now' /\ window'[j].start <= Start(j, recAt'[r])
    <3>1. \A j \in Kind : window[j].start <= Start(j, recAt[r])
      BY <1>1, <2>1 DEF RowsFollow, k
    <3>2. window'[k].start <= Start(k, recAt[r]) BY <2>1, <2>6, <2>9 DEF s
    <3> QED BY <2>2, <2>5, <2>7, <3>1, <3>2
  <2>12. \A j \in Kind : /\ window'[j].count = owed'[j][window'[j].start]
                         /\ \A t \in 0..MaxClock : t > window'[j].start => owed'[j][t] = 0
                         /\ window'[j].start <= Start(j, now)
    BY <1>1, <2>5, <2>10 DEF RowsFollow
  <2> QED BY <2>4, <2>7, <2>11, <2>12 DEF RowsFollow, Start
<1>5. CASE Tick
  <2>1. now' = now + 1 /\ UNCHANGED <<window, owed, pc, recAt>> BY <1>5 DEF Tick, quotaVars, reqVars
  <2>2. now' \in 0..MaxClock
    BY <1>5, <2>1, CounterTypes, ScenarioAssumption DEF Tick
  <2>3. now <= now' /\ \A r \in Reqs : recAt[r] <= now => recAt[r] <= now'
    BY <2>1, CounterTypes
  <2>4. \A k \in Kind : window[k].start <= Start(k, now)'
    <3> SUFFICES ASSUME NEW k \in Kind PROVE window[k].start <= Start(k, now)' OBVIOUS
    <3>1. window[k].start <= Start(k, now) BY <1>1 DEF RowsFollow
    <3>2. Start(k, now) <= Start(k, now') BY <2>2, <2>3, CounterTypes, StartMonotone
    <3>3. /\ window[k].start \in 0..MaxClock /\ Start(k, now) \in 0..MaxClock
          /\ Start(k, now') \in 0..MaxClock
      BY <2>2, CounterTypes, StartInRange
    <3>4. Start(k, now)' = Start(k, now') BY DEF Start
    <3> QED BY <3>1, <3>2, <3>3, <3>4
  <2>5. \A k \in Kind, r \in Reqs : Start(k, recAt[r])' = Start(k, recAt[r]) BY <2>1 DEF Start
  <2> QED BY <1>1, <2>1, <2>3, <2>4, <2>5 DEF RowsFollow
<1>6. CASE Revoke \/ Crash \/ UNCHANGED vars
  <2>1. \A q \in Reqs : pc'[q] \in Kind => pc[q] \in Kind BY <1>6, OthersMove DEF Kind
  <2>2. UNCHANGED <<window, owed, now, recAt>> BY <1>6, OthersMove DEF Revoke, Crash, vars
  <2> QED BY <1>0, <2>1, <2>2 DEF RowsFollow, Start
<1> QED BY <1>2, <1>3, <1>4, <1>5, <1>6 DEF Next, Turn, Mishap

\* A cap that admits anything is a positive number.
LEMMA CapTypes ==
  ASSUME TypeOK, NEW q \in Reqs, NEW k \in Kind, OneCap(k, q)
  PROVE  caps[q][k] \in Nat \ {0} /\ \A r \in Reqs : caps[r][k] = caps[q][k] /\ caps[r][k] # NoCap
<1>1. caps[q] \in [Kind -> Nat \cup {NoCap}] BY ChatAssumption DEF TypeOK, TurnTypes
<1> QED BY <1>1 DEF OneCap

LEMMA RoomStep ==
  TypeOK /\ scenario \in Scenarios /\ UsageBound /\ OneAtATime /\ RowsFollow /\ WindowRoom /\ [Next]_vars
    => WindowRoom'
<1> SUFFICES ASSUME TypeOK, scenario \in Scenarios, UsageBound, OneAtATime, RowsFollow, WindowRoom,
                    [Next]_vars, scenario'.serial
             PROVE  WindowRoom'
  BY DEF WindowRoom
<1>0. scenario' = scenario /\ scenario.serial BY DEF Next, Turn, Mishap, vars
<1>1. caps' = caps BY TurnMoves, OthersMove DEF Next
<1> SUFFICES ASSUME NEW k \in Kind, NEW q \in Reqs, OneCap(k, q)
             PROVE  /\ window'[k].count < caps[q][k] + MaxTurn
                    /\ \A r \in Reqs :
                         /\ pc'[r] \in Admitted =>
                              window'[k].count < caps[q][k] \/ window'[k].start < Start(k, now)'
                         /\ pc'[r] \in Before[k] =>
                              window'[k].count < caps[q][k] \/ window'[k].start < Start(k, recAt[r])'
  BY <1>0, <1>1 DEF WindowRoom, OneCap
<1> DEFINE cap == caps[q][k]
<1>2. /\ cap \in Nat \ {0} /\ MaxTurn \in Nat /\ window[k].count \in Nat
      /\ window[k].start \in 0..MaxClock /\ now \in 0..MaxClock /\ MaxClock \in Nat
      /\ Start(k, now) \in 0..MaxClock
  BY CapTypes, TurnBound, CounterTypes, StartInRange
<1>3. /\ window[k].count < cap + MaxTurn
      /\ \A r \in Reqs :
           /\ pc[r] \in Admitted => window[k].count < cap \/ window[k].start < Start(k, now)
           /\ pc[r] \in Before[k] => window[k].count < cap \/ window[k].start < Start(k, recAt[r])
  BY <1>0 DEF WindowRoom
<1>4. window[k].start <= Start(k, now) BY <1>0 DEF RowsFollow
<1>5. Before[k] \subseteq Kind BY DEF Before, Kind
<1> HIDE DEF cap
<1>6. ASSUME NEW r \in Reqs, Turn(r) \/ Mishap(r), ~RecordKind(r), ~BeginRecord(r),
             pc'[r] \in Admitted => pc[r] \in Admitted, pc'[r] \in Before[k] => pc[r] \in Before[k]
      PROVE  /\ window'[k].count < cap + MaxTurn
             /\ \A t \in Reqs :
                  /\ pc'[t] \in Admitted => window'[k].count < cap \/ window'[k].start < Start(k, now)'
                  /\ pc'[t] \in Before[k] => window'[k].count < cap \/ window'[k].start < Start(k, recAt[t])'
  <2>1. UNCHANGED <<window, now, recAt>> BY <1>6, RowsLeft
  <2>2. \A t \in Reqs : t # r => pc'[t] = pc[t] BY <1>6, TurnMoves
  <2>3. \A t \in Reqs : Start(k, now)' = Start(k, now) /\ Start(k, recAt[t])' = Start(k, recAt[t])
    BY <2>1 DEF Start
  <2> QED BY <1>3, <1>6, <2>1, <2>2, <2>3
<1>7. ASSUME NEW r \in Reqs, CheckLimits(r), Turn(r) \/ Mishap(r)
      PROVE  /\ window'[k].count < cap + MaxTurn
             /\ \A t \in Reqs :
                  /\ pc'[t] \in Admitted => window'[k].count < cap \/ window'[k].start < Start(k, now)'
                  /\ pc'[t] \in Before[k] => window'[k].count < cap \/ window'[k].start < Start(k, recAt[t])'
  <2>1. UNCHANGED <<window, now, recAt>> /\ pc[r] = "limits" BY <1>7 DEF CheckLimits, quotaVars
  <2>2. \A t \in Reqs : t # r => pc'[t] = pc[t] BY <1>7, TurnMoves
  <2>3. \A t \in Reqs : Start(k, now)' = Start(k, now) /\ Start(k, recAt[t])' = Start(k, recAt[t])
    BY <2>1 DEF Start
  <2>4. pc'[r] = "rejected" \/ (pc'[r] = "budget" /\ ~Reached(caps[r], now))
    BY <1>7, CounterTypes DEF CheckLimits, Goto
  <2>5. ASSUME ~Reached(caps[r], now) PROVE window[k].count < cap \/ window[k].start < Start(k, now)
    <3>1. caps[r][k] = cap /\ caps[r][k] # NoCap BY CapTypes DEF cap
    <3>2. ~(Count(k, now) >= cap) BY <2>5, <3>1 DEF Reached
    <3>3. CASE window[k].start = Start(k, now) BY <1>2, <3>2, <3>3 DEF Count
    <3>4. CASE window[k].start # Start(k, now) BY <1>2, <1>4, <3>4
    <3> QED BY <3>3, <3>4
  <2>6. pc'[r] \notin Before[k] BY <1>5, <2>4 DEF Kind
  <2> QED BY <1>3, <2>1, <2>2, <2>3, <2>4, <2>5, <2>6 DEF Admitted
<1>8. ASSUME NEW r \in Reqs, BeginRecord(r), Turn(r) \/ Mishap(r)
      PROVE  /\ window'[k].count < cap + MaxTurn
             /\ \A t \in Reqs :
                  /\ pc'[t] \in Admitted => window'[k].count < cap \/ window'[k].start < Start(k, now)'
                  /\ pc'[t] \in Before[k] => window'[k].count < cap \/ window'[k].start < Start(k, recAt[t])'
  <2>1. UNCHANGED <<window, now>> /\ pc[r] = "record" BY <1>8 DEF BeginRecord, quotaVars
  <2>2. \A t \in Reqs : t # r => pc'[t] = pc[t] /\ recAt'[t] = recAt[t]
    BY <1>8, TurnMoves, CounterTypes DEF BeginRecord
  <2>3. pc'[r] = "spend" \/ (pc'[r] = "hour" /\ recAt'[r] = now)
    BY <1>8, CounterTypes DEF BeginRecord, Goto
  <2>4. Start(k, now)' = Start(k, now) BY <2>1 DEF Start
  <2>5. \A t \in Reqs : t # r => Start(k, recAt[t])' = Start(k, recAt[t]) BY <2>2 DEF Start
  <2>6. pc'[r] \in Before[k] => Start(k, recAt[r])' = Start(k, now) BY <1>5, <2>3 DEF Start, Kind
  <2>7. pc'[r] \notin Admitted BY <2>3 DEF Admitted
  <2>8. window[k].count < cap \/ window[k].start < Start(k, now) BY <1>3, <2>1 DEF Admitted
  <2> QED BY <1>3, <2>1, <2>2, <2>4, <2>5, <2>6, <2>7, <2>8
<1>9. ASSUME NEW r \in Reqs, RecordKind(r), Turn(r) \/ Mishap(r)
      PROVE  /\ window'[k].count < cap + MaxTurn
             /\ \A t \in Reqs :
                  /\ pc'[t] \in Admitted => window'[k].count < cap \/ window'[k].start < Start(k, now)'
                  /\ pc'[t] \in Before[k] => window'[k].count < cap \/ window'[k].start < Start(k, recAt[t])'
  <2>1. pc[r] \in Kind /\ pc'[r] = After[pc[r]] /\ UNCHANGED <<recAt, now>> BY <1>9, UpsertStep
  <2>2. \A t \in Reqs : t # r => pc'[t] \notin Admitted \cup Kind
    <3>1. \A t \in Reqs : pc[t] \in Admitted \cup Kind => Pending(t) BY DEF Pending, Kind, Ended, Admitted
    <3> QED BY <1>0, <1>9, <2>1, <3>1, TurnMoves DEF OneAtATime
  <2>3. pc'[r] \notin Admitted /\ (pc'[r] \in Before[k] => pc[r] \in Before[k] /\ pc[r] # k)
    BY <2>1 DEF Admitted, After, Before, Kind
  <2>4. Start(k, recAt[r])' = Start(k, recAt[r]) BY <2>1 DEF Start
  <2>5. CASE pc[r] # k
    <3>1. window'[k] = window[k] BY <1>9, <2>5, UpsertStep
    <3> QED BY <1>3, <1>5, <2>2, <2>3, <2>4, <3>1
  <2>6. CASE pc[r] = k
    <3>1. window[k].count < cap \/ window[k].start < Start(k, recAt[r])
      BY <1>3, <2>6 DEF Before, Kind
    <3>2. window'[k].count = IF window[k].start = Start(k, recAt[r]) THEN window[k].count + usage[r] ELSE usage[r]
      BY <1>9, <2>6, UpsertStep
    <3>3. usage[r] <= MaxTurn /\ usage[r] \in Nat /\ Start(k, recAt[r]) \in 0..MaxClock
      BY TurnBound, CounterTypes, StartInRange
    <3>4. window'[k].count < cap + MaxTurn
      <4>1. CASE window[k].start = Start(k, recAt[r]) BY <1>2, <3>1, <3>2, <3>3, <4>1
      <4>2. CASE window[k].start # Start(k, recAt[r]) BY <1>2, <3>2, <3>3, <4>2
      <4> QED BY <4>1, <4>2
    <3> QED BY <1>5, <2>2, <2>3, <2>6, <3>4
  <2> QED BY <2>5, <2>6
<1>10. ASSUME Revoke \/ Crash \/ Tick \/ UNCHANGED vars
      PROVE  /\ window'[k].count < cap + MaxTurn
             /\ \A t \in Reqs :
                  /\ pc'[t] \in Admitted => window'[k].count < cap \/ window'[k].start < Start(k, now)'
                  /\ pc'[t] \in Before[k] => window'[k].count < cap \/ window'[k].start < Start(k, recAt[t])'
  <2>1. UNCHANGED <<window, recAt>> /\ \A t \in Reqs : pc'[t] = pc[t] \/ pc'[t] = "gone"
    BY <1>10, OthersMove
  <2>2. Start(k, now) <= Start(k, now')
    <3>1. now' \in 0..MaxClock /\ now <= now'
      BY <1>2, <1>10, ScenarioAssumption DEF Revoke, Crash, Tick, vars
    <3> QED BY <1>2, <3>1, StartMonotone
  <2>3. Start(k, now') \in 0..MaxClock
    <3>1. now' \in 0..MaxClock
      BY <1>2, <1>10, ScenarioAssumption DEF Revoke, Crash, Tick, vars
    <3> QED BY <3>1, StartInRange
  <2>4. window[k].start < Start(k, now) => window[k].start < Start(k, now') BY <1>2, <2>2, <2>3
  <2>5. \A t \in Reqs : Start(k, now)' = Start(k, now') /\ Start(k, recAt[t])' = Start(k, recAt[t])
    BY <2>1 DEF Start
  <2>6. "gone" \notin Admitted /\ "gone" \notin Before[k] BY <1>5 DEF Admitted, Kind
  <2> QED BY <1>3, <2>1, <2>4, <2>5, <2>6
<1>11. ASSUME NEW r \in Reqs, Turn(r) \/ Mishap(r), ~RecordKind(r), ~BeginRecord(r), ~CheckLimits(r)
       PROVE  /\ pc'[r] \in Admitted => pc[r] \in Admitted
              /\ pc'[r] \in Before[k] => pc[r] \in Before[k]
  <2> USE DEF Goto, Flushing, Ended, Admitted
  <2>1. pc'[r] \in Kind => pc'[r] = pc[r]
    <3>1. pc' = pc \/ \E w \in {"rejected", "limits", "budget", "call", "failed", "validate", "record",
                        "stream", "closing", "gone", "spend", "user", "done", "assistant"} :
               pc' = [pc EXCEPT ![r] = w]
      BY <1>11 DEF Turn, Mishap, Verify, CheckLimits, CheckBudget, Fails, Complete, Valid, Invalid,
         OpenStream, Delta, Done, Close, StreamError, Disconnect, RecordFails,
         RecordSpend, SpendFails, AppendUser, AppendUserFails, AppendAssistant, AppendAssistantFails
    <3> QED BY <3>1, CounterTypes DEF Kind
  <2>2. pc[r] \in Admitted \/ pc' = pc \/ \E w \in {"rejected", "limits", "failed", "gone", "spend", "user", "done", "assistant"} :
               pc' = [pc EXCEPT ![r] = w]
    BY <1>11 DEF Turn, Mishap, Verify, CheckLimits, CheckBudget, Fails, Complete, Valid, Invalid,
       OpenStream, Delta, Done, Close, StreamError, Disconnect, RecordFails,
       RecordSpend, SpendFails, AppendUser, AppendUserFails, AppendAssistant, AppendAssistantFails
  <2> QED BY <1>5, <2>1, <2>2, CounterTypes
<1>12. ASSUME NEW r \in Reqs, Turn(r) \/ Mishap(r)
       PROVE  /\ window'[k].count < cap + MaxTurn
              /\ \A t \in Reqs :
                   /\ pc'[t] \in Admitted => window'[k].count < cap \/ window'[k].start < Start(k, now)'
                   /\ pc'[t] \in Before[k] => window'[k].count < cap \/ window'[k].start < Start(k, recAt[t])'
  <2>1. CASE RecordKind(r) BY <1>9, <1>12, <2>1
  <2>2. CASE BeginRecord(r) BY <1>8, <1>12, <2>2
  <2>3. CASE CheckLimits(r) BY <1>7, <1>12, <2>3
  <2>4. CASE ~RecordKind(r) /\ ~BeginRecord(r) /\ ~CheckLimits(r)
    <3>1. /\ pc'[r] \in Admitted => pc[r] \in Admitted
          /\ pc'[r] \in Before[k] => pc[r] \in Before[k]
      BY <1>11, <1>12, <2>4
    <3> QED BY <1>6, <1>12, <2>4, <3>1
  <2> QED BY <2>1, <2>2, <2>3, <2>4
<1> QED
  <2>1. CASE \E r \in Reqs : Turn(r) \/ Mishap(r) BY <1>12, <2>1 DEF cap
  <2>2. CASE Revoke \/ Crash \/ Tick \/ UNCHANGED vars BY <1>10, <2>2 DEF cap
  <2> QED BY <2>1, <2>2 DEF Next

\* Only record_spend charges, and a turn comes to be charged through check_budget.
LEMMA LedgerLeft ==
  ASSUME TypeOK, NEW r \in Reqs, Turn(r) \/ Mishap(r), ~RecordSpend(r)
  PROVE  /\ UNCHANGED <<ledger, now, revoked>>
         /\ ~CheckBudget(r) /\ ~RecordKind(r) => (pc'[r] \in Uncharged => pc[r] \in Uncharged)
<1> USE DEF Goto, Flushing, Ended, Kind, Uncharged
<1>1. UNCHANGED <<ledger, now, revoked>>
  BY DEF Turn, Mishap, Verify, CheckLimits, CheckBudget, Fails, Complete, Valid, Invalid,
     OpenStream, Delta, Done, Close, StreamError, Disconnect, BeginRecord, RecordKind, RecordFails,
     SpendFails, AppendUser, AppendUserFails, AppendAssistant, AppendAssistantFails, quotaVars
<1>2. ASSUME ~CheckBudget(r), ~RecordKind(r)
      PROVE  pc[r] \in Uncharged \/ pc' = pc
             \/ \E w \in {"rejected", "limits", "budget", "failed", "gone", "user", "done", "assistant"} :
                  pc' = [pc EXCEPT ![r] = w]
  BY <1>2 DEF Turn, Mishap, Verify, CheckLimits, Fails, Complete, Valid, Invalid,
     OpenStream, Delta, Done, Close, StreamError, Disconnect, BeginRecord, RecordFails,
     SpendFails, AppendUser, AppendUserFails, AppendAssistant, AppendAssistantFails
<1> QED BY <1>1, <1>2, CounterTypes

\* What a charge leaves, field by field.
LEMMA ChargeStep ==
  ASSUME TypeOK, NEW r \in Reqs, RecordSpend(r)
  PROVE  /\ pc[r] = "spend" /\ pc'[r] = "user" /\ UNCHANGED <<now, revoked>>
         /\ Spent(now)' = Spent(now) + usage[r] * Price
         /\ \A m \in 0..MaxClock : m # Month(now) => ledger'.month[m] = ledger.month[m]
<1> DEFINE cost == usage[r] * Price
           m0 == Month(now)
<1>1. cost \in Nat /\ m0 \in 0..MaxClock
  <2>1. usage[r] \in Nat /\ now \in 0..MaxClock BY CounterTypes
  <2>2. Price \in Nat BY QuotasAssumption
  <2>3. usage[r] * Price \in Nat BY <2>1, <2>2
  <2> QED BY <2>1, <2>3, MonthInRange
<1>2. ledger' = [ledger EXCEPT !.total = @ + cost, !.month[m0] = @ + cost]
  BY DEF RecordSpend, Charge
<1>3. pc[r] = "spend" /\ pc'[r] = "user" /\ UNCHANGED <<now, revoked>>
  BY CounterTypes DEF RecordSpend, Goto
<1>4. ledger \in [total : Nat, month : [0..MaxClock -> Nat]] BY DEF TypeOK, QuotaTypes
<1>5. Month(now)' = m0 BY <1>3 DEF Month
<1> HIDE DEF cost, m0
<1>6. /\ ledger'.total = ledger.total + cost
      /\ ledger'.month = [ledger.month EXCEPT ![m0] = @ + cost]
  BY <1>2, <1>4
<1>7. /\ ledger'.month[m0] = ledger.month[m0] + cost
      /\ \A m \in 0..MaxClock : m # m0 => ledger'.month[m] = ledger.month[m]
  BY <1>1, <1>4, <1>6
<1>8. Spent(now)' = Spent(now) + cost
  BY <1>5, <1>6, <1>7 DEF Spent, m0
<1> QED BY <1>3, <1>7, <1>8 DEF cost, m0

\* What the budget's proof needs of the ledger.
LEMMA SpentTypes ==
  ASSUME TypeOK
  PROVE  /\ Spent(now) \in Nat /\ Month(now) \in 0..MaxClock /\ now \in 0..MaxClock
         /\ Limit \in Nat /\ Price \in Nat /\ MaxClock \in Nat
<1>1. Month(now) \in 0..MaxClock BY MonthInRange, CounterTypes
<1>2. Spent(now) \in Nat BY <1>1 DEF Spent, TypeOK, QuotaTypes
<1> QED BY <1>1, <1>2, CounterTypes, QuotasAssumption

LEMMA BudgetStep ==
  TypeOK /\ scenario \in Scenarios /\ UsageBound /\ OneAtATime /\ BudgetRoom /\ [Next]_vars => BudgetRoom'
<1> SUFFICES ASSUME TypeOK, scenario \in Scenarios, UsageBound, OneAtATime, BudgetRoom, [Next]_vars,
                    scenario'.serial, ~revoked', BudgetKind # "unlimited", Limit > 0
             PROVE  BudgetRoom'
  BY DEF BudgetRoom
<1>0. scenario' = scenario /\ scenario.serial BY DEF Next, Turn, Mishap, vars
<1>1. ASSUME NEW r \in Reqs, Turn(r) \/ Mishap(r), ~RecordSpend(r),
             pc'[r] \in Uncharged => pc[r] \in Uncharged \/ ~OverBudget(now)
      PROVE  BudgetRoom'
  <2>1. UNCHANGED <<ledger, now, revoked>> BY <1>1, LedgerLeft
  <2>2. ~revoked BY <2>1
  <2>3. Month(now)' = Month(now) /\ Spent(now)' = Spent(now) BY <2>1 DEF Month, Spent
  <2>4. ~OverBudget(now) => Spent(now) < Limit BY <2>2, SpentTypes DEF OverBudget
  <2>5. \A q \in Reqs : pc'[q] \in Uncharged => Spent(now) < Limit
    <3>1. \A q \in Reqs : q # r => pc'[q] = pc[q] BY <1>1, TurnMoves
    <3>2. \A q \in Reqs : pc[q] \in Uncharged => Spent(now) < Limit BY <1>0, <2>2 DEF BudgetRoom
    <3> QED BY <1>1, <2>4, <3>1, <3>2
  <2> QED BY <1>0, <2>1, <2>2, <2>3, <2>5 DEF BudgetRoom
<1>2. ASSUME NEW r \in Reqs, RecordSpend(r), Turn(r) \/ Mishap(r) PROVE BudgetRoom'
  <2>1. /\ pc[r] = "spend" /\ pc'[r] = "user" /\ UNCHANGED <<now, revoked>>
        /\ Spent(now)' = Spent(now) + usage[r] * Price
        /\ \A m \in 0..MaxClock : m # Month(now) => ledger'.month[m] = ledger.month[m]
    BY <1>2, ChargeStep
  <2>2. ~revoked BY <2>1
  <2>3. Spent(now) < Limit /\ \A m \in 0..MaxClock : m > Month(now) => ledger.month[m] = 0
    BY <1>0, <2>1, <2>2 DEF BudgetRoom, Uncharged
  <2>4. usage[r] * Price <= MaxTurn * Price /\ usage[r] * Price \in Nat /\ MaxTurn * Price \in Nat
    <3>1. usage[r] <= MaxTurn /\ usage[r] \in Nat /\ MaxTurn \in Nat BY TurnBound
    <3> QED BY <3>1, SpentTypes, ScaleMonotone
  <2>5. Spent(now)' < Limit + MaxTurn * Price
    <3> HIDE DEF MaxTurn
    <3> QED BY <2>1, <2>3, <2>4, SpentTypes
  <2>6. Month(now)' = Month(now) BY <2>1 DEF Month
  <2>7. \A m \in 0..MaxClock : m > Month(now) => ledger'.month[m] = 0
    BY <2>1, <2>3, SpentTypes
  <2>8. \A q \in Reqs : pc'[q] \notin Uncharged
    <3>1. \A q \in Reqs : pc[q] \in Uncharged => Pending(q) BY DEF Pending, Ended, Uncharged
    <3>2. "user" \notin Uncharged BY DEF Uncharged
    <3>3. pc[r] \in Uncharged BY <2>1 DEF Uncharged
    <3> QED BY <1>0, <1>2, <2>1, <3>1, <3>2, <3>3, TurnMoves DEF OneAtATime
  <2> QED BY <2>5, <2>6, <2>7, <2>8 DEF BudgetRoom
<1>3. ASSUME NEW r \in Reqs, Turn(r) \/ Mishap(r) PROVE BudgetRoom'
  <2>1. CASE RecordSpend(r) BY <1>2, <1>3, <2>1
  <2>2. CASE CheckBudget(r)
    <3>1. pc'[r] \in Uncharged => ~OverBudget(now)
      BY <2>2, CounterTypes DEF CheckBudget, Goto, Uncharged
    <3>2. ~RecordSpend(r) BY <2>2 DEF CheckBudget, RecordSpend
    <3> QED BY <1>1, <1>3, <3>1, <3>2
  <2>3. CASE RecordKind(r)
    <3>1. pc[r] \in Uncharged BY <2>3 DEF RecordKind, Kind, Uncharged
    <3>2. ~RecordSpend(r) BY <2>3 DEF RecordKind, RecordSpend, Kind
    <3> QED BY <1>1, <1>3, <3>1, <3>2
  <2>4. CASE ~RecordSpend(r) /\ ~CheckBudget(r) /\ ~RecordKind(r)
    <3>1. pc'[r] \in Uncharged => pc[r] \in Uncharged BY <1>3, <2>4, LedgerLeft
    <3> QED BY <1>1, <1>3, <2>4, <3>1
  <2> QED BY <2>1, <2>2, <2>3, <2>4
\* A tick may begin a month, in which nothing is spent yet.
<1>4. CASE Tick
  <2>1. now' = now + 1 /\ UNCHANGED <<ledger, pc, revoked>> BY <1>4 DEF Tick, quotaVars, reqVars
  <2>2. now' \in 0..MaxClock BY <1>4, <2>1, CounterTypes, ScenarioAssumption DEF Tick
  <2>3. Month(now) <= Month(now') /\ Month(now') \in 0..MaxClock
    <3>1. now <= now' BY <2>1, SpentTypes
    <3> QED BY <2>2, <3>1, CounterTypes, MonthInRange, MonthMonotone
  <2>4. Month(now)' = Month(now') BY DEF Month
  <2>5. /\ \A m \in 0..MaxClock : m > Month(now) => ledger.month[m] = 0
        /\ Spent(now) < Limit + MaxTurn * Price
        /\ \A r \in Reqs : pc[r] \in Uncharged => Spent(now) < Limit
    BY <1>0, <2>1 DEF BudgetRoom
  <2>6. \A m \in 0..MaxClock : m > Month(now') => ledger.month[m] = 0
    BY <2>3, <2>5, SpentTypes
  <2>7. Spent(now)' = Spent(now) \/ Spent(now)' = 0
    <3>1. CASE Month(now') = Month(now) BY <2>1, <2>4, <3>1 DEF Spent
    <3>2. CASE Month(now') # Month(now)
      <4>1. ledger.month[Month(now')] = 0 BY <2>3, <2>5, <3>2, SpentTypes
      <4> QED BY <2>1, <2>4, <4>1 DEF Spent
    <3> QED BY <3>1, <3>2
  <2>8. MaxTurn * Price \in Nat /\ Limit \in Nat
    BY QuotasAssumption, ChatAssumption DEF MaxTurn
  <2>9. /\ Spent(now)' < Limit + MaxTurn * Price
        /\ \A r \in Reqs : pc'[r] \in Uncharged => Spent(now)' < Limit
    BY <2>1, <2>5, <2>7, <2>8
  <2> QED BY <2>1, <2>4, <2>6, <2>9 DEF BudgetRoom
<1>5. CASE Revoke \/ Crash \/ UNCHANGED vars
  <2>1. \A q \in Reqs : pc'[q] = pc[q] \/ pc'[q] = "gone" BY <1>5, OthersMove
  <2>2. UNCHANGED <<ledger, now, revoked>> BY <1>5 DEF Revoke, Crash, vars, quotaVars
  <2>3. "gone" \notin Uncharged BY DEF Uncharged
  <2>4. Month(now)' = Month(now) /\ Spent(now)' = Spent(now) BY <2>2 DEF Month, Spent
  <2> QED BY <1>0, <2>1, <2>2, <2>3, <2>4 DEF BudgetRoom
<1> QED BY <1>3, <1>4, <1>5 DEF Next

\* The counters of turns one after the other are exact.
LEMMA ExactCounters == TypeOK /\ RowsFollow => CountersExact
<1> SUFFICES ASSUME TypeOK, RowsFollow, scenario.serial, NEW k \in Kind
             PROVE  Count(k, now) = owed[k][Start(k, now)]
  BY DEF CountersExact
<1>1. Start(k, now) \in 0..MaxClock /\ window[k].start \in 0..MaxClock
  BY StartInRange, CounterTypes
<1>2. CASE window[k].start = Start(k, now) BY <1>2 DEF RowsFollow, Count
<1>3. CASE window[k].start # Start(k, now)
  <2>1. Start(k, now) > window[k].start BY <1>1, <1>3 DEF RowsFollow
  <2> QED BY <1>1, <1>3, <2>1 DEF RowsFollow, Count
<1> QED BY <1>2, <1>3

\* No turn has started, and nothing is recorded.
LEMMA StartedFollowing == Init => OneAtATime /\ RowsFollow
<1> SUFFICES ASSUME Init PROVE OneAtATime /\ RowsFollow OBVIOUS
<1>1. /\ pc = [r \in Reqs |-> "new"] /\ now = 0
      /\ window = [k \in Kind |-> [start |-> 0, count |-> 0]]
      /\ owed = [k \in Kind |-> [t \in 0..MaxClock |-> 0]]
  BY DEF Init, QuotaInit
<1>2. MaxClock \in Nat BY QuotasAssumption
<1>3. \A k \in Kind : window[k].start = 0 /\ window[k].count = 0 /\ Start(k, now) \in 0..MaxClock
  BY <1>1, <1>2, StartInRange
<1>4. \A r \in Reqs : pc[r] = "new" BY <1>1
<1>5. OneAtATime BY <1>4 DEF OneAtATime, Pending, Ended
<1>6. RowsFollow BY <1>1, <1>2, <1>3 DEF RowsFollow, Kind
<1> QED BY <1>5, <1>6

\* When turns do not overlap, the counters that a request is admitted on hold
\* exactly what was recorded in their windows, and what is admitted on them
\* overruns no cap, nor the budget, by a whole turn: for any window lengths,
\* clock, prices and budget, failures, crashes and clients that go away.
THEOREM CountersAreSound == Spec => []CountersSound
<1> DEFINE IInv == OneAtATime /\ RowsFollow /\ UsageBound /\ WindowRoom /\ BudgetRoom
<1>1. Init => IInv
  <2> SUFFICES ASSUME Init PROVE IInv OBVIOUS
  <2> USE QuotasAssumption, ChatAssumption
  <2>1. /\ pc = [r \in Reqs |-> "new"] /\ recAt = [r \in Reqs |-> 0] /\ now = 0
        /\ window = [k \in Kind |-> [start |-> 0, count |-> 0]]
        /\ ledger = [total |-> 0, month |-> [m \in 0..MaxClock |-> 0]]
        /\ owed = [k \in Kind |-> [t \in 0..MaxClock |-> 0]]
        /\ usage = [r \in Reqs |-> 0] /\ consumed = [r \in Reqs |-> 0]
        /\ attempts = [r \in Reqs |-> 0]
    BY DEF Init, QuotaInit
  <2>2. \A k \in Kind : window[k].start = 0 /\ window[k].count = 0 /\ Start(k, now) \in 0..MaxClock
    BY <2>1, StartInRange
  <2>3. \A r \in Reqs : pc[r] = "new" BY <2>1
  <2>4. OneAtATime /\ RowsFollow BY StartedFollowing
  <2>6. UsageBound BY <2>1, <2>3 DEF UsageBound
  <2>7. WindowRoom
    <3> SUFFICES ASSUME NEW k \in Kind, NEW q \in Reqs, OneCap(k, q)
                 PROVE  /\ window[k].count < caps[q][k] + MaxTurn
                        /\ \A r \in Reqs : pc[r] \notin Admitted /\ pc[r] \notin Before[k]
      BY DEF WindowRoom
    <3>1. caps[q] \in [Kind -> Nat \cup {NoCap}] BY ScenarioAssumption DEF Init
    <3>2. caps[q][k] \in Nat \ {0} BY <3>1 DEF OneCap
    <3>3. MaxTurn \in Nat BY DEF MaxTurn
    <3>4. window[k].count < caps[q][k] + MaxTurn BY <2>2, <3>2, <3>3
    <3> QED BY <2>3, <3>4 DEF Admitted, Before, Kind
  <2>8. BudgetRoom
    <3>1. Month(0) \in 0..MaxClock BY MonthInRange
    <3>2. Spent(now) = 0 BY <2>1, <3>1 DEF Spent
    <3>3. MaxTurn * Price \in Nat BY DEF MaxTurn
    <3>4. Limit > 0 => Spent(now) < Limit + MaxTurn * Price BY <3>2, <3>3
    <3> QED BY <2>1, <2>3, <3>1, <3>4 DEF BudgetRoom, Uncharged
  <2> QED BY <2>4, <2>6, <2>7, <2>8
<1>2. TypeOK /\ RowsFollow => CountersExact BY ExactCounters
<1>3. WindowRoom /\ BudgetRoom => OverrunBounded
  BY DEF WindowRoom, BudgetRoom, OverrunBounded, WindowOverrun, BudgetOverrun, OneCap
<1>4. TypeOK /\ scenario \in Scenarios /\ Recorded /\ IInv /\ [Next]_vars => IInv'
  BY OneAtATimeStep, RowsStep, UsageBoundStep, RoomStep, BudgetStep
<1>5. Init => Recorded BY DEF Init, Recorded
<1>6. TypeOK /\ IInv => CountersSound BY <1>2, <1>3 DEF CountersSound
<1> HIDE DEF IInv
<1> QED
  BY TypeCorrect, ScenarioTyped, RecordedStep, <1>1, <1>4, <1>5, <1>6, PTL DEF Spec
-----------------------------------------------------------------------------
(* Sums over finite sets *)

\* The element that a fold over a set takes first.
Pick(T) == CHOOSE x \in T : TRUE

\* One step of a sum.
Folded(w, g, T) == IF T = {} THEN 0 ELSE w[Pick(T)] + g[T \ {Pick(T)}]

\* What the folds of the community modules compute, for `+` over w[x].
SumOver(w, S) == (CHOOSE g : g = [T \in SUBSET S |-> Folded(w, g, T)])[S]

\* A nonempty set of numbers has a least element.
LEMMA Least ==
  ASSUME NEW N \in SUBSET Nat, N # {}
  PROVE  \E n \in N : \A m \in N : n <= m
<1> DEFINE R == OpToRel(<, Nat)
<1>1. IsWellFoundedOn(R, Nat) BY NatLessThanWellFounded
<1>2. R = {p \in Nat \X Nat : p[1] < p[2]} BY DEF OpToRel
<1> HIDE DEF R
<1>3. PICK n \in N : \A m \in N : <<m, n>> \notin R BY <1>1, WFMin
<1>4. ASSUME NEW m \in N PROVE n <= m
  <2>1. <<m, n>> \in Nat \X Nat OBVIOUS
  <2> QED BY <1>2, <1>3, <2>1
<1> QED BY <1>3, <1>4

\* A nonempty family of subsets of a finite set has a minimal member.
LEMMA Minimal ==
  ASSUME NEW D, IsFiniteSet(D), NEW F \in SUBSET SUBSET D, F # {}
  PROVE  \E T \in F : \A U \in F : U \subseteq T => U = T
<1> DEFINE R == StrictSubsetOrdering(D)
<1>1. IsWellFoundedOn(R, SUBSET D) BY FS_StrictSubsetOrderingWellFounded, FS_FiniteSubsetsOfFinite
<1>2. R = {p \in (SUBSET D) \X (SUBSET D) : p[1] \subseteq p[2] /\ p[1] # p[2]}
  BY DEF StrictSubsetOrdering
<1> HIDE DEF R
<1>3. PICK T \in F : \A U \in F : <<U, T>> \notin R BY <1>1, WFMin
<1>4. ASSUME NEW U \in F, U \subseteq T, U # T PROVE FALSE
  <2>1. <<U, T>> \in (SUBSET D) \X (SUBSET D) OBVIOUS
  <2> QED BY <1>2, <1>3, <1>4, <2>1
<1> QED BY <1>3, <1>4

\* It is an element ...
LEMMA PickIn == ASSUME NEW T, T # {} PROVE Pick(T) \in T
BY DEF Pick

\* ... and one fewer is left.
LEMMA PickSmaller ==
  ASSUME NEW D, IsFiniteSet(D), NEW T \in SUBSET D, T # {}
  PROVE  T \ {Pick(T)} \in SUBSET D /\ Cardinality(T) \in Nat /\ Cardinality(T \ {Pick(T)}) = Cardinality(T) - 1
BY PickIn, FS_Subset, FS_RemoveElement, FS_CardinalityType

\* The equation of a fold over a finite set has a solution.
LEMMA SumDefined ==
  ASSUME NEW D, IsFiniteSet(D), NEW w
  PROVE  \E g : g = [T \in SUBSET D |-> Folded(w, g, T)]
<1> DEFINE Fine(n, g) == \A T \in SUBSET D : Cardinality(T) <= n => g[T] = Folded(w, g, T)
           Bad == {n \in Nat : \A g : ~Fine(n, g)}
<1>1. Bad = {}
  <2> SUFFICES ASSUME Bad # {} PROVE FALSE OBVIOUS
  <2>1. PICK n \in Bad : \A m \in Bad : n <= m
    <3>1. Bad \in SUBSET Nat OBVIOUS
    <3> HIDE DEF Bad
    <3> QED BY <3>1, Least
  <2>2. n \in Nat /\ (n = 0 \/ (n - 1 \in Nat /\ \E g : Fine(n - 1, g)))
    <3>1. n = 0 \/ (n - 1 \in Nat /\ n - 1 \notin Bad) BY <2>1
    <3> QED BY <3>1
  <2>3. CASE n = 0
    <3> DEFINE g == [T \in SUBSET D |-> 0]
    <3>1. \A T \in SUBSET D : Cardinality(T) <= 0 => T = {}
      BY FS_EmptySet, FS_CardinalityType, FS_Subset
    <3>2. Fine(0, g) BY <3>1 DEF Folded
    <3> QED BY <2>3, <3>2
  <2>4. CASE n # 0
    <3>1. PICK g : Fine(n - 1, g) BY <2>2, <2>4
    <3> DEFINE h == [T \in SUBSET D |-> Folded(w, g, T)]
    <3>2. ASSUME NEW T \in SUBSET D, Cardinality(T) <= n PROVE h[T] = Folded(w, h, T)
      <4>1. CASE T = {} BY <4>1 DEF Folded
      <4>2. CASE T # {}
        <5> DEFINE U == T \ {Pick(T)}
        <5>1. U \in SUBSET D /\ Cardinality(U) <= n - 1 BY <2>2, <3>2, <4>2, PickSmaller
        <5>2. g[U] = h[U] BY <3>1, <5>1
        <5> QED BY <3>2, <4>2, <5>2 DEF Folded
      <4> QED BY <4>1, <4>2
    <3>3. Fine(n, h) BY <3>2
    <3> QED BY <3>3
  <2> QED BY <2>3, <2>4
<1>2. PICK g : Fine(Cardinality(D), g)
  <2>1. Cardinality(D) \in Nat BY FS_CardinalityType
  <2> QED BY <1>1, <2>1
<1>3. \A T \in SUBSET D : g[T] = Folded(w, g, T)
  BY <1>2, FS_Subset, FS_CardinalityType
<1> DEFINE h == [T \in SUBSET D |-> g[T]]
<1>4. \A T \in SUBSET D : h[T] = Folded(w, h, T)
  BY <1>3, PickSmaller DEF Folded
<1>5. h = [T \in SUBSET D |-> Folded(w, h, T)]
  <2>1. h = [T \in SUBSET D |-> h[T]] OBVIOUS
  <2> HIDE DEF h
  <2>2. [T \in SUBSET D |-> h[T]] = [T \in SUBSET D |-> Folded(w, h, T)] BY <1>4
  <2> QED BY <2>1, <2>2
<1> QED BY <1>5

\* On finite sets the sum is the solution.
LEMMA SumSolves ==
  ASSUME NEW D, IsFiniteSet(D), NEW w
  PROVE  \E g : /\ \A T \in SUBSET D : g[T] = Folded(w, g, T)
                /\ SumOver(w, D) = g[D]
<1> DEFINE g == CHOOSE h : h = [T \in SUBSET D |-> Folded(w, h, T)]
<1>1. g = [T \in SUBSET D |-> Folded(w, g, T)] BY SumDefined
<1>2. SumOver(w, D) = g[D] BY DEF SumOver
<1> HIDE DEF g
<1>3. \A T \in SUBSET D : g[T] = Folded(w, g, T) BY <1>1
<1> QED BY <1>2, <1>3

\* Two solutions agree where both are defined.
LEMMA SumUnique ==
  ASSUME NEW D, IsFiniteSet(D), NEW w, NEW g, NEW h,
         \A T \in SUBSET D : g[T] = Folded(w, g, T) /\ h[T] = Folded(w, h, T)
  PROVE  g[D] = h[D]
<1> DEFINE Bad == {T \in SUBSET D : g[T] # h[T]}
<1>1. Bad = {}
  <2> SUFFICES ASSUME Bad # {} PROVE FALSE OBVIOUS
  <2>1. PICK T \in Bad : \A U \in Bad : U \subseteq T => U = T
    <3>1. Bad \in SUBSET SUBSET D OBVIOUS
    <3> HIDE DEF Bad
    <3> QED BY <3>1, Minimal
  <2>2. T # {} BY <2>1 DEF Folded
  <2>3. T \ {Pick(T)} \notin Bad BY <2>1, <2>2, PickIn
  <2>4. g[T \ {Pick(T)}] = h[T \ {Pick(T)}] BY <2>1, <2>3
  <2>5. Folded(w, g, T) = Folded(w, h, T) BY <2>4 DEF Folded
  <2> QED BY <2>1, <2>5
<1> QED BY <1>1

\* One solution for a finite set has the sums of all its subsets.
LEMMA SumOfSubsets ==
  ASSUME NEW D, IsFiniteSet(D), NEW w
  PROVE  \A T \in SUBSET D : SumOver(w, T) = IF T = {} THEN 0 ELSE w[Pick(T)] + SumOver(w, T \ {Pick(T)})
<1>1. PICK g : \A T \in SUBSET D : g[T] = Folded(w, g, T) BY SumSolves
<1>2. ASSUME NEW T \in SUBSET D PROVE SumOver(w, T) = g[T]
  <2>1. IsFiniteSet(T) BY FS_Subset
  <2>2. PICK h : (\A U \in SUBSET T : h[U] = Folded(w, h, U)) /\ SumOver(w, T) = h[T] BY <2>1, SumSolves
  <2>3. \A U \in SUBSET T : h[U] = Folded(w, h, U) /\ g[U] = Folded(w, g, U) BY <1>1, <2>2
  <2>4. h[T] = g[T] BY <2>1, <2>3, SumUnique
  <2> QED BY <2>2, <2>4
<1>3. ASSUME NEW T \in SUBSET D, T # {} PROVE g[T] = w[Pick(T)] + g[T \ {Pick(T)}]
  BY <1>1, <1>3 DEF Folded
<1>4. g[{}] = 0 BY <1>1 DEF Folded
<1> QED BY <1>2, <1>3, <1>4, PickSmaller

\* A sum of numbers is a number.
LEMMA SumNat ==
  ASSUME NEW D, IsFiniteSet(D), NEW w, \A x \in D : w[x] \in Nat
  PROVE  \A T \in SUBSET D : SumOver(w, T) \in Nat
<1> DEFINE Bad == {T \in SUBSET D : SumOver(w, T) \notin Nat}
<1> SUFFICES ASSUME Bad # {} PROVE FALSE OBVIOUS
<1>1. PICK T \in Bad : \A U \in Bad : U \subseteq T => U = T
  <2>1. Bad \in SUBSET SUBSET D OBVIOUS
  <2> HIDE DEF Bad
  <2> QED BY <2>1, Minimal
<1>2. CASE T = {}
  <2>1. SumOver(w, T) = 0
    <3>1. T \in SUBSET D BY <1>1
    <3> HIDE DEF Bad
    <3> QED BY <1>2, <3>1, SumOfSubsets
  <2> QED BY <1>1, <2>1
<1>3. CASE T # {}
  <2>1. Pick(T) \in T BY <1>3, PickIn
  <2>5. T \ {Pick(T)} \in SUBSET D /\ T \ {Pick(T)} # T BY <1>1, <2>1
  <2>2. T \ {Pick(T)} \in SUBSET D /\ T \ {Pick(T)} \notin Bad BY <1>1, <2>5
  <2>4. SumOver(w, T \ {Pick(T)}) \in Nat /\ w[Pick(T)] \in Nat BY <1>1, <2>1, <2>2
  <2>3. SumOver(w, T) = w[Pick(T)] + SumOver(w, T \ {Pick(T)}) BY <1>1, <1>3, SumOfSubsets
  <2> QED BY <1>1, <2>3, <2>4
<1> QED BY <1>2, <1>3

\* Any element of a set may be taken first.
LEMMA SumSplit ==
  ASSUME NEW D, IsFiniteSet(D), NEW w, \A x \in D : w[x] \in Nat
  PROVE  \A T \in SUBSET D : \A x \in T : SumOver(w, T) = w[x] + SumOver(w, T \ {x})
<1> DEFINE Bad == {T \in SUBSET D : \E x \in T : SumOver(w, T) # w[x] + SumOver(w, T \ {x})}
<1> SUFFICES ASSUME Bad # {} PROVE FALSE OBVIOUS
<1>1. PICK T \in Bad : \A U \in Bad : U \subseteq T => U = T
  <2>1. Bad \in SUBSET SUBSET D OBVIOUS
  <2> HIDE DEF Bad
  <2> QED BY <2>1, Minimal
<1>2. PICK x \in T : SumOver(w, T) # w[x] + SumOver(w, T \ {x}) BY <1>1
<1> DEFINE p == Pick(T)
<1>3. p \in T BY PickIn
<1>4. SumOver(w, T) = w[p] + SumOver(w, T \ {p}) BY <1>1, <1>3, SumOfSubsets
<1>5. x # p BY <1>2, <1>4
<1> HIDE DEF p
<1>6. T \ {p} \in SUBSET D /\ T \ {x} \in SUBSET D BY <1>1
<1>7. SumOver(w, T \ {p}) = w[x] + SumOver(w, (T \ {p}) \ {x})
  <2>1. T \ {p} \notin Bad BY <1>1, <1>3, <1>6
  <2> QED BY <1>2, <1>5, <1>6, <2>1
<1>8. SumOver(w, T \ {x}) = w[p] + SumOver(w, (T \ {x}) \ {p})
  <2>1. T \ {x} \notin Bad BY <1>1, <1>2, <1>6
  <2> QED BY <1>3, <1>5, <1>6, <2>1
<1>9. (T \ {p}) \ {x} = (T \ {x}) \ {p} OBVIOUS
<1>10. w[x] \in Nat /\ w[p] \in Nat BY <1>1, <1>3
<1>11. SumOver(w, (T \ {x}) \ {p}) \in Nat BY <1>6, SumNat
<1>12. SumOver(w, (T \ {p}) \ {x}) = SumOver(w, (T \ {x}) \ {p}) BY <1>9
<1> DEFINE rest == SumOver(w, (T \ {x}) \ {p})
<1>13. SumOver(w, T) = w[p] + (w[x] + rest) /\ SumOver(w, T \ {x}) = w[p] + rest /\ rest \in Nat
  BY <1>4, <1>7, <1>8, <1>11, <1>12
<1> HIDE DEF rest
<1>14. SumOver(w, T) = w[x] + SumOver(w, T \ {x}) BY <1>10, <1>13
<1> QED BY <1>2, <1>14

\* A sum grows with its set, and only by what is not zero.
LEMMA SumMonotone ==
  ASSUME NEW D, IsFiniteSet(D), NEW w, \A x \in D : w[x] \in Nat, NEW S \in SUBSET D
  PROVE  \A T \in SUBSET D : S \subseteq T =>
           /\ SumOver(w, S) <= SumOver(w, T)
           /\ (\A x \in T \ S : w[x] = 0) => SumOver(w, S) = SumOver(w, T)
<1> DEFINE Good(T) == /\ SumOver(w, S) <= SumOver(w, T)
                      /\ (\A x \in T \ S : w[x] = 0) => SumOver(w, S) = SumOver(w, T)
           Bad == {T \in SUBSET D : S \subseteq T /\ ~Good(T)}
<1> SUFFICES ASSUME Bad # {} PROVE FALSE OBVIOUS
<1>1. PICK T \in Bad : \A U \in Bad : U \subseteq T => U = T
  <2>1. Bad \in SUBSET SUBSET D OBVIOUS
  <2> HIDE DEF Bad
  <2> QED BY <2>1, Minimal
<1>0. SumOver(w, S) \in Nat /\ SumOver(w, T) \in Nat BY <1>1, SumNat
<1>2. T # S BY <1>0, <1>1
<1>3. PICK x \in T : x \notin S BY <1>1, <1>2
<1>4. T \ {x} \in SUBSET D /\ S \subseteq T \ {x} /\ T \ {x} # T BY <1>1, <1>3
<1>5. T \ {x} \notin Bad BY <1>1, <1>4
<1>6. Good(T \ {x}) BY <1>4, <1>5
<1>7. SumOver(w, T) = w[x] + SumOver(w, T \ {x}) BY <1>1, <1>3, SumSplit
<1>8. w[x] \in Nat /\ SumOver(w, T \ {x}) \in Nat BY <1>1, <1>4, SumNat
<1>9. Good(T) BY <1>0, <1>3, <1>6, <1>7, <1>8
<1> QED BY <1>1, <1>9
-----------------------------------------------------------------------------
(* The books of the turns *)

\* Equal weights have equal sums.
LEMMA SumAgrees ==
  ASSUME NEW D, IsFiniteSet(D), NEW w, NEW v, \A x \in D : w[x] = v[x]
  PROVE  SumOver(w, D) = SumOver(v, D)
<1>1. PICK g : (\A T \in SUBSET D : g[T] = Folded(w, g, T)) /\ SumOver(w, D) = g[D] BY SumSolves
<1>2. PICK h : (\A T \in SUBSET D : h[T] = Folded(v, h, T)) /\ SumOver(v, D) = h[D] BY SumSolves
<1>3. ASSUME NEW T \in SUBSET D PROVE g[T] = Folded(v, g, T)
  <2>1. CASE T = {} BY <1>1, <2>1 DEF Folded
  <2>2. CASE T # {}
    <3>1. Pick(T) \in D BY <2>2, PickIn
    <3> QED BY <1>1, <2>2, <3>1 DEF Folded
  <2> QED BY <2>1, <2>2
<1>4. g[D] = h[D] BY <1>2, <1>3, SumUnique
<1> QED BY <1>1, <1>2, <1>4

\* Tokens is such a sum.
LEMMA TokensSum == \A S : Tokens(S) = SumOver(consumed, S)
BY DEF Tokens, MapThenSumSet, MapThenFoldSet, SumOver, Folded, Pick

\* Where a turn stands before its record begins, before it is charged, after it
\* was charged, and after its upsert of a window.
Early     == {"new", "limits", "budget", "call", "validate", "stream", "closing", "record"}
Uncertain == Early \cup Kind \cup {"spend"}
Billed    == {"user", "assistant", "done"}
Past      == [hour |-> {"day", "month", "spend"} \cup Billed, day |-> {"month", "spend"} \cup Billed,
              month |-> {"spend"} \cup Billed]

\* The usage of the turn is known.
Uncut(r) == r \in Streams => text[r] = "full"

\* The turns that have been charged, those that may have been, and those a window has counted.
Charged    == {r \in Reqs : pc[r] \in Billed /\ Uncut(r) /\ r \notin unpaid}
Chargeable == {r \in Reqs : pc[r] \notin Uncertain}
In(k, t)   == {r \in Reqs : pc[r] \in Past[k] /\ Uncut(r) /\ r \notin uncounted /\ Start(k, recAt[r]) = t}

\* The ledger holds what the charged turns consumed, and no more than the turns
\* that may have been charged did; the windows hold what they have counted.
AllCharged == Price * SumOver(consumed, Charged) <= ledger.total
NoneTwice  == ledger.total <= Price * SumOver(consumed, Chargeable)
AllCounted == \A k \in Kind, t \in 0..MaxClock : SumOver(consumed, In(k, t)) <= owed[k][t]

\* No stream records more than was consumed.
Within ==
  \A r \in Streams :
    usage[r] <= consumed[r] /\ (pc[r] \in {"new", "limits", "budget", "call", "stream"} => usage[r] = 0)

\* Sums of tokens, for any set of requests.
LEMMA TokenSums ==
  ASSUME NEW w, w \in [Reqs -> Nat], NEW S \in SUBSET Reqs
  PROVE  /\ SumOver(w, S) \in Nat
         /\ \A T \in SUBSET Reqs : S \subseteq T => SumOver(w, S) <= SumOver(w, T)
         /\ \A x \in Reqs \ S : SumOver(w, S \cup {x}) = SumOver(w, S) + w[x]
<1>0. IsFiniteSet(Reqs) /\ \A x \in Reqs : w[x] \in Nat BY ChatAssumption
<1>1. SumOver(w, S) \in Nat BY <1>0, SumNat
<1>2. \A T \in SUBSET Reqs : S \subseteq T => SumOver(w, S) <= SumOver(w, T) BY <1>0, SumMonotone
<1>3. ASSUME NEW x \in Reqs \ S PROVE SumOver(w, S \cup {x}) = SumOver(w, S) + w[x]
  <2>1. S \cup {x} \in SUBSET Reqs /\ x \in S \cup {x} /\ (S \cup {x}) \ {x} = S OBVIOUS
  <2>2. SumOver(w, S \cup {x}) = w[x] + SumOver(w, (S \cup {x}) \ {x}) BY <1>0, <2>1, SumSplit
  <2>3. SumOver(w, S \cup {x}) = w[x] + SumOver(w, S) BY <2>1, <2>2
  <2>4. w[x] \in Nat BY <1>0
  <2> QED BY <1>1, <2>3, <2>4
<1> QED BY <1>1, <1>2, <1>3

\* Where nothing was consumed, sums stay; a smaller set has a smaller sum.
LEMMA SumsStay ==
  ASSUME NEW w \in [Reqs -> Nat], NEW v \in [Reqs -> Nat], NEW S \in SUBSET Reqs, NEW T \in SUBSET Reqs,
         T \subseteq S, \A x \in T : w[x] = v[x]
  PROVE  SumOver(v, T) <= SumOver(w, S) /\ SumOver(w, T) <= SumOver(v, S)
         /\ SumOver(v, T) \in Nat /\ SumOver(w, S) \in Nat /\ SumOver(w, T) \in Nat /\ SumOver(v, S) \in Nat
<1>1. IsFiniteSet(T) BY ChatAssumption, FS_Subset
<1>2. SumOver(w, T) = SumOver(v, T) BY <1>1, SumAgrees
<1> QED BY <1>2, TokenSums

LEMMA BookTypes ==
  ASSUME TypeOK
  PROVE  /\ consumed \in [Reqs -> Nat] /\ usage \in [Reqs -> Nat] /\ ledger.total \in Nat /\ Price \in Nat
         /\ owed \in [Kind -> [0..MaxClock -> Nat]] /\ recAt \in [Reqs -> 0..MaxClock]
         /\ uncounted \subseteq Reqs /\ unpaid \subseteq Reqs
         /\ pc \in [Reqs -> {"new", "limits", "budget", "call", "validate", "stream", "closing"} \cup Flushing \cup Ended]
BY QuotasAssumption DEF TypeOK, TokenTypes, QuotaTypes, TurnTypes

\* Products grow with their factors.
LEMMA Costs ==
  ASSUME NEW a \in Nat, NEW b \in Nat
  PROVE  /\ Price * a \in Nat /\ (a <= b => Price * a <= Price * b)
         /\ Price * (a + b) = Price * a + b * Price /\ b * Price \in Nat
<1>1. Price \in Nat BY QuotasAssumption
<1>2. Price * a = a * Price /\ Price * b = b * Price /\ a * Price \in Nat /\ b * Price \in Nat BY <1>1
<1>3. Price * (a + b) = Price * a + Price * b BY <1>1
<1>4. a <= b => a * Price <= b * Price BY <1>1, ScaleMonotone
<1> QED BY <1>2, <1>3, <1>4

\* What a turn consumed, and what it replied, does not change once its record begins.
Fixed ==
  \A q \in Reqs : pc[q] \notin Early =>
    consumed'[q] = consumed[q] /\ text'[q] = text[q] /\ recAt'[q] = recAt[q]

\* A step that charges nothing, and after which nobody is charged who was not before it.
LEMMA ChargedStay ==
  ASSUME TypeOK, TypeOK', AllCharged, Fixed, UNCHANGED ledger,
         \A q \in Reqs : pc'[q] \in Billed /\ q \notin unpaid' => pc[q] \in Billed /\ q \notin unpaid
  PROVE  AllCharged'
<1>1. consumed \in [Reqs -> Nat] /\ consumed' \in [Reqs -> Nat] /\ ledger.total \in Nat
  BY BookTypes DEF TypeOK, TokenTypes
<1>2. Charged' \subseteq Charged /\ \A x \in Charged' : consumed[x] = consumed'[x]
  BY DEF Charged, Uncut, Fixed, Early, Billed
<1>3. Charged \in SUBSET Reqs /\ Charged' \in SUBSET Reqs BY DEF Charged
<1>4. PICK a \in Nat, b \in Nat : a = SumOver(consumed', Charged') /\ b = SumOver(consumed, Charged) /\ a <= b
  BY <1>1, <1>2, <1>3, SumsStay
<1>5. Price * a <= Price * b /\ Price * a \in Nat /\ Price * b \in Nat BY <1>4, Costs
<1>6. Price * b <= ledger.total BY <1>4 DEF AllCharged
<1>7. Price * a <= ledger.total BY <1>1, <1>5, <1>6
<1> QED BY <1>4, <1>7 DEF AllCharged

LEMMA ChargeableStay ==
  ASSUME TypeOK, TypeOK', NoneTwice, Fixed, UNCHANGED ledger,
         \A q \in Reqs : pc[q] \notin Uncertain => pc'[q] \notin Uncertain
  PROVE  NoneTwice'
<1>1. consumed \in [Reqs -> Nat] /\ consumed' \in [Reqs -> Nat] /\ ledger.total \in Nat
  BY BookTypes DEF TypeOK, TokenTypes
<1>2. Chargeable \subseteq Chargeable' /\ \A x \in Chargeable : consumed'[x] = consumed[x]
  BY DEF Chargeable, Fixed, Uncertain
<1>3. Chargeable \in SUBSET Reqs /\ Chargeable' \in SUBSET Reqs BY DEF Chargeable
<1>4. PICK a \in Nat, b \in Nat : a = SumOver(consumed, Chargeable) /\ b = SumOver(consumed', Chargeable') /\ a <= b
  BY <1>1, <1>2, <1>3, SumsStay
<1>5. Price * a <= Price * b /\ Price * a \in Nat /\ Price * b \in Nat BY <1>4, Costs
<1>6. ledger.total <= Price * a BY <1>4 DEF NoneTwice
<1>7. ledger.total <= Price * b BY <1>1, <1>5, <1>6
<1> QED BY <1>4, <1>7 DEF NoneTwice

\* A window counts nothing new, but turns that consumed nothing.
LEMMA CountedStay ==
  ASSUME TypeOK, TypeOK', AllCounted, Fixed, NEW k \in Kind, NEW t \in 0..MaxClock, owed'[k][t] = owed[k][t],
         \A q \in Reqs : pc'[q] \in Past[k] /\ q \notin uncounted' /\ Uncut(q)' =>
           (pc[q] \in Past[k] /\ q \notin uncounted) \/ (consumed'[q] = 0 /\ consumed[q] = 0)
  PROVE  SumOver(consumed', In(k, t)') <= owed'[k][t]
<1>0. Past[k] \cap Early = {} BY DEF Past, Kind, Early, Billed
<1>1. consumed \in [Reqs -> Nat] /\ consumed' \in [Reqs -> Nat] /\ owed \in [Kind -> [0..MaxClock -> Nat]]
  BY BookTypes DEF TypeOK, TokenTypes
<1>2. \A x \in In(k, t)' : consumed[x] = consumed'[x] /\ (x \in In(k, t) \/ consumed'[x] = 0)
  BY <1>0 DEF In, Uncut, Start, Fixed
<1>3. PICK S \in SUBSET Reqs, T \in SUBSET Reqs : S = In(k, t) /\ T = In(k, t)' BY DEF In
<1>4. SumOver(consumed', T) <= SumOver(consumed, S)
      /\ SumOver(consumed', T) \in Nat /\ SumOver(consumed, S) \in Nat
  <2>1. T \cap S \in SUBSET Reqs /\ T \cap S \subseteq S /\ T \cap S \subseteq T
        /\ \A x \in T \ (T \cap S) : consumed'[x] = 0
    BY <1>2, <1>3
  <2>2. SumOver(consumed', T \cap S) = SumOver(consumed', T)
    <3>1. IsFiniteSet(Reqs) /\ \A x \in Reqs : consumed'[x] \in Nat BY <1>1, ChatAssumption
    <3> QED BY <2>1, <3>1, SumMonotone
  <2>3. \A x \in T \cap S : consumed[x] = consumed'[x] BY <1>2, <1>3
  <2> QED BY <1>1, <2>1, <2>2, <2>3, SumsStay
<1>5. SumOver(consumed, S) <= owed[k][t] /\ owed[k][t] \in Nat BY <1>1, <1>3 DEF AllCounted
<1> QED BY <1>3, <1>4, <1>5

\* A step of one turn that neither charges nor counts it.
LEMMA BooksStay ==
  ASSUME TypeOK, TypeOK', AllCharged, NoneTwice, AllCounted, Fixed, UNCHANGED <<ledger, owed>>,
         NEW r \in Reqs, NEW w, pc' = [pc EXCEPT ![r] = w],
         unpaid \subseteq unpaid', uncounted \subseteq uncounted',
         w \in Billed => pc[r] \in Billed \/ r \in unpaid',
         pc[r] \notin Uncertain => w \notin Uncertain,
         \A k \in Kind : w \in Past[k] /\ Uncut(r)' =>
           pc[r] \in Past[k] \/ r \in uncounted' \/ (consumed'[r] = 0 /\ consumed[r] = 0)
  PROVE  AllCharged' /\ NoneTwice' /\ AllCounted'
<1>1. pc'[r] = w /\ \A q \in Reqs : q # r => pc'[q] = pc[q] BY BookTypes
<1>2. AllCharged' BY <1>1, ChargedStay
<1>3. NoneTwice' BY <1>1, ChargeableStay
<1>4. ASSUME NEW k \in Kind, NEW t \in 0..MaxClock PROVE SumOver(consumed', In(k, t)') <= owed'[k][t]
  <2>1. \A q \in Reqs : pc'[q] \in Past[k] /\ q \notin uncounted' /\ Uncut(q)' =>
          (pc[q] \in Past[k] /\ q \notin uncounted) \/ (consumed'[q] = 0 /\ consumed[q] = 0)
    BY <1>1
  <2>2. owed'[k][t] = owed[k][t] OBVIOUS
  <2> QED BY <2>1, <2>2, CountedStay
<1> QED BY <1>2, <1>3, <1>4 DEF AllCounted

\* An upsert: the window holds the tokens of one more turn.
LEMMA BooksCount ==
  ASSUME TypeOK, TypeOK', Recorded, AllCharged, NoneTwice, AllCounted, NEW r \in Reqs, RecordKind(r)
  PROVE  AllCharged' /\ NoneTwice' /\ AllCounted'
<1>1. pc[r] \in Kind /\ pc'[r] = After[pc[r]] /\ \A q \in Reqs : q # r => pc'[q] = pc[q] BY UpsertStep
<1>2. UNCHANGED <<ledger, consumed, text, recAt, unpaid, uncounted, usage>> BY DEF RecordKind
<1>3. Fixed BY <1>2 DEF Fixed
<1>4. After[pc[r]] \in {"day", "month", "spend"} BY <1>1 DEF After, Kind
<1>5. AllCharged'
  <2>1. \A q \in Reqs : pc'[q] \in Billed /\ q \notin unpaid' => pc[q] \in Billed /\ q \notin unpaid
    BY <1>1, <1>2, <1>4 DEF Billed
  <2> QED BY <1>2, <1>3, <2>1, ChargedStay
<1>6. NoneTwice'
  <2>1. \A q \in Reqs : pc[q] \notin Uncertain => pc'[q] \notin Uncertain BY <1>1 DEF Uncertain
  <2> QED BY <1>2, <1>3, <2>1, ChargeableStay
<1>7. /\ usage[r] \in Nat /\ \A k \in Kind, t \in 0..MaxClock : owed[k][t] \in Nat
      /\ \A k \in Kind : k # pc[r] => owed'[k] = owed[k]
      /\ \A t \in 0..MaxClock : owed'[pc[r]][t] =
           IF t = Start(pc[r], recAt[r]) THEN owed[pc[r]][t] + usage[r] ELSE owed[pc[r]][t]
  <2>1. usage[r] \in Nat /\ \A k \in Kind, t \in 0..MaxClock : owed[k][t] \in Nat BY BookTypes
  <2> QED BY <2>1, UpsertStep
<1>8. ASSUME NEW k \in Kind, NEW t \in 0..MaxClock PROVE SumOver(consumed', In(k, t)') <= owed'[k][t]
  <2>1. CASE k # pc[r] \/ t # Start(pc[r], recAt[r]) \/ ~Uncut(r) \/ r \in uncounted
    <3>1. In(k, t)' \subseteq In(k, t)
      <4>1. pc'[r] \in Past[k] => pc[r] \in Past[k] \/ k = pc[r]
        BY <1>1, <1>4 DEF Past, After, Kind, Billed
      <4>2. r \in In(k, t)' => r \in In(k, t) BY <1>2, <2>1, <4>1 DEF In, Uncut, Start
      <4>3. \A q \in Reqs : q # r /\ q \in In(k, t)' => q \in In(k, t) BY <1>1, <1>2 DEF In, Uncut, Start
      <4>4. In(k, t)' \subseteq Reqs BY DEF In
      <4> QED BY <4>2, <4>3, <4>4
    <3>2. owed'[k][t] >= owed[k][t] /\ owed[k][t] \in Nat /\ owed'[k][t] \in Nat
      BY <1>1, <1>7
    <3>3. PICK S \in SUBSET Reqs, T \in SUBSET Reqs : S = In(k, t) /\ T = In(k, t)' BY DEF In
    <3>4. SumOver(consumed, T) <= SumOver(consumed, S)
          /\ SumOver(consumed, T) \in Nat /\ SumOver(consumed, S) \in Nat
      BY <3>1, <3>3, BookTypes, TokenSums
    <3>5. SumOver(consumed, S) <= owed[k][t] BY <3>3 DEF AllCounted
    <3> QED BY <1>2, <3>2, <3>3, <3>4, <3>5
  <2>2. CASE k = pc[r] /\ t = Start(pc[r], recAt[r]) /\ Uncut(r) /\ r \notin uncounted
    <3>1. In(k, t)' = In(k, t) \cup {r} /\ r \notin In(k, t)
      <4>1. pc'[r] \in Past[k] /\ pc[r] \notin Past[k] BY <1>1, <2>2 DEF Past, After, Kind, Billed
      <4>2. r \in In(k, t)' /\ r \notin In(k, t) BY <1>2, <2>2, <4>1 DEF In, Uncut, Start
      <4>3. \A q \in Reqs : q # r => (q \in In(k, t)' <=> q \in In(k, t)) BY <1>1, <1>2 DEF In, Uncut, Start
      <4>4. In(k, t)' \subseteq Reqs /\ In(k, t) \subseteq Reqs BY DEF In
      <4> QED BY <4>2, <4>3, <4>4
    <3>2. usage[r] = consumed[r] BY <2>2 DEF Recorded, Uncut
    <3>3. owed'[k][t] = owed[k][t] + usage[r] /\ owed[k][t] \in Nat /\ usage[r] \in Nat
      BY <1>7, <2>2
    <3>4. PICK S \in SUBSET Reqs : S = In(k, t) BY DEF In
    <3>5. SumOver(consumed, S \cup {r}) = SumOver(consumed, S) + consumed[r] /\ SumOver(consumed, S) \in Nat
      BY <3>1, <3>4, BookTypes, TokenSums
    <3>6. SumOver(consumed, S) <= owed[k][t] BY <3>4 DEF AllCounted
    <3> QED BY <1>2, <3>1, <3>2, <3>3, <3>4, <3>5, <3>6
  <2> QED BY <2>1, <2>2
<1> QED BY <1>5, <1>6, <1>8 DEF AllCounted

\* A charge: the ledger holds the cost of one more turn.
LEMMA BooksCharge ==
  ASSUME TypeOK, TypeOK', Recorded, Within, AllCharged, NoneTwice, AllCounted, NEW r \in Reqs, RecordSpend(r)
  PROVE  AllCharged' /\ NoneTwice' /\ AllCounted'
<1>1. pc[r] = "spend" /\ pc'[r] = "user" /\ \A q \in Reqs : q # r => pc'[q] = pc[q]
  BY BookTypes DEF RecordSpend, Goto
<1>2. UNCHANGED <<consumed, text, recAt, unpaid, uncounted, owed, usage>> BY DEF RecordSpend
<1>3. Fixed BY <1>2 DEF Fixed
<1>4. ledger'.total = ledger.total + usage[r] * Price /\ ledger.total \in Nat /\ usage[r] * Price \in Nat
  <2>1. ledger' = [ledger EXCEPT !.total = @ + usage[r] * Price, !.month[Month(now)] = @ + usage[r] * Price]
    BY DEF RecordSpend, Charge
  <2>2. ledger \in [total : Nat, month : [0..MaxClock -> Nat]] BY DEF TypeOK, QuotaTypes
  <2>3. usage[r] * Price \in Nat BY BookTypes, Costs
  <2> QED BY <2>1, <2>2, <2>3
<1>5. PICK c \in Nat, u \in Nat : c = consumed[r] /\ u = usage[r] BY BookTypes
<1>6. u <= c /\ (Uncut(r) => u = c) BY <1>5 DEF Recorded, Within, Uncut
<1>7. u * Price <= c * Price /\ u * Price \in Nat /\ c * Price \in Nat BY <1>6, Costs, BookTypes, ScaleMonotone
<1>8. AllCharged'
  <2>1. CASE ~Uncut(r) \/ r \in unpaid
    <3>1. Charged' \subseteq Charged BY <1>1, <1>2, <2>1 DEF Charged, Uncut, Billed
    <3>2. PICK S \in SUBSET Reqs, T \in SUBSET Reqs : S = Charged /\ T = Charged' BY DEF Charged
    <3>3. PICK a \in Nat, b \in Nat : a = SumOver(consumed, T) /\ b = SumOver(consumed, S) /\ a <= b
      BY <3>1, <3>2, BookTypes, TokenSums
    <3>4. Price * a <= Price * b /\ Price * a \in Nat /\ Price * b \in Nat BY <3>3, Costs
    <3>5. Price * b <= ledger.total BY <3>2, <3>3 DEF AllCharged
    <3>6. Price * a <= ledger'.total BY <1>4, <3>4, <3>5
    <3> QED BY <1>2, <3>2, <3>3, <3>6 DEF AllCharged
  <2>2. CASE Uncut(r) /\ r \notin unpaid
    <3>1. Charged' = Charged \cup {r} /\ r \notin Charged
      BY <1>1, <1>2, <2>2 DEF Charged, Uncut, Billed
    <3>2. PICK S \in SUBSET Reqs : S = Charged BY DEF Charged
    <3>3. PICK a \in Nat : a = SumOver(consumed, S) /\ SumOver(consumed, S \cup {r}) = a + c
      BY <1>5, <3>1, <3>2, BookTypes, TokenSums
    <3>4. Price * (a + c) = Price * a + c * Price /\ Price * a \in Nat BY <3>3, Costs
    <3>5. Price * a <= ledger.total BY <3>2, <3>3 DEF AllCharged
    <3>6. Price * (a + c) <= ledger'.total BY <1>4, <1>5, <1>6, <1>7, <2>2, <3>4, <3>5
    <3> QED BY <1>2, <3>1, <3>2, <3>3, <3>6 DEF AllCharged
  <2> QED BY <2>1, <2>2
<1>9. NoneTwice'
  <2>1. Chargeable' = Chargeable \cup {r} /\ r \notin Chargeable
    BY <1>1 DEF Chargeable, Uncertain, Early, Kind
  <2>2. PICK S \in SUBSET Reqs : S = Chargeable BY DEF Chargeable
  <2>3. PICK a \in Nat : a = SumOver(consumed, S) /\ SumOver(consumed, S \cup {r}) = a + c
    BY <1>5, <2>1, <2>2, BookTypes, TokenSums
  <2>4. Price * (a + c) = Price * a + c * Price /\ Price * a \in Nat BY <2>3, Costs
  <2>5. ledger.total <= Price * a BY <2>2, <2>3 DEF NoneTwice
  <2>6. ledger'.total <= Price * (a + c) BY <1>4, <1>5, <1>7, <2>4, <2>5
  <2> QED BY <1>2, <2>1, <2>2, <2>3, <2>6 DEF NoneTwice
<1>10. AllCounted'
  <2>1. \A k \in Kind : pc'[r] \in Past[k] => pc[r] \in Past[k] BY <1>1 DEF Past, Kind, Billed
  <2>2. ASSUME NEW k \in Kind, NEW t \in 0..MaxClock PROVE SumOver(consumed', In(k, t)') <= owed'[k][t]
    <3>1. \A q \in Reqs : pc'[q] \in Past[k] /\ q \notin uncounted' /\ Uncut(q)' =>
            (pc[q] \in Past[k] /\ q \notin uncounted) \/ (consumed'[q] = 0 /\ consumed[q] = 0)
      BY <1>1, <1>2, <2>1
    <3> QED BY <1>2, <1>3, <3>1, CountedStay
  <2> QED BY <2>2 DEF AllCounted
<1> QED BY <1>8, <1>9, <1>10

LEMMA WithinStep == TypeOK /\ Recorded /\ Within /\ [Next]_vars => Within'
<1> SUFFICES ASSUME TypeOK, Recorded, Within, [Next]_vars PROVE Within' OBVIOUS
<1> USE DEF Goto
<1>0. /\ consumed \in [Reqs -> Nat] /\ usage \in [Reqs -> Nat] /\ Streams \subseteq Reqs
      /\ pc \in [Reqs -> {"new", "limits", "budget", "call", "validate", "stream", "closing"} \cup Flushing \cup Ended]
  BY BookTypes, ChatAssumption
<1>1. ASSUME NEW r \in Reqs, NEW w, pc' = [pc EXCEPT ![r] = w], UNCHANGED <<usage, consumed>>,
             w \in {"new", "limits", "budget", "call", "stream"} => pc[r] \in {"new", "limits", "budget", "call", "stream"}
      PROVE  Within'
  BY <1>0, <1>1 DEF Within
<1>2. ASSUME NEW r \in Reqs,
             \/ Verify(r) \/ CheckLimits(r) \/ CheckBudget(r) \/ Fails(r) \/ Valid(r) \/ Close(r)
             \/ StreamError(r) \/ Disconnect(r) \/ BeginRecord(r)
      PROVE  Within'
  BY <1>1, <1>2 DEF Verify, CheckLimits, CheckBudget, Fails, Valid, Close, StreamError, Disconnect, BeginRecord
<1>3. ASSUME NEW r \in Reqs, RecordKind(r) PROVE Within'
  <2>1. After[pc[r]] \in {"day", "month", "spend"} BY <1>3 DEF RecordKind, After, Kind
  <2> QED BY <1>1, <1>3, <2>1 DEF RecordKind
<1>4. ASSUME NEW r \in Reqs,
             \/ RecordFails(r) \/ RecordSpend(r) \/ SpendFails(r) \/ AppendUser(r)
             \/ AppendUserFails(r) \/ AppendAssistant(r) \/ AppendAssistantFails(r)
      PROVE  Within'
  BY <1>1, <1>4 DEF RecordFails, RecordSpend, SpendFails, AppendUser, AppendUserFails,
     AppendAssistant, AppendAssistantFails
<1>5. ASSUME NEW r \in Reqs \ Streams, Complete(r) \/ Invalid(r) PROVE Within'
  <2>1. \A q \in Streams : UNCHANGED <<pc[q], usage[q], consumed[q]>> BY <1>0, <1>5 DEF Complete, Invalid
  <2> QED BY <2>1 DEF Within
<1>6. ASSUME NEW r \in Reqs, OpenStream(r) \/ Delta(r) \/ Done(r) PROVE Within'
  BY <1>0, <1>6 DEF OpenStream, Delta, Done, Within
<1>7. ASSUME NEW r \in Reqs, Complete(r) \/ Invalid(r) PROVE r \in Reqs \ Streams
  BY <1>7 DEF Complete, Invalid, Recorded
<1>8. ASSUME Revoke \/ Crash \/ Tick \/ UNCHANGED vars PROVE Within'
  <2>1. UNCHANGED <<usage, consumed>> /\ \A q \in Reqs : pc'[q] = pc[q] \/ pc'[q] = "gone" BY <1>8, OthersMove
  <2> QED BY <1>0, <2>1 DEF Within
<1> QED BY <1>2, <1>3, <1>4, <1>5, <1>6, <1>7, <1>8 DEF Next, Turn, Mishap

LEMMA BooksStep ==
  TypeOK /\ TypeOK' /\ Recorded /\ Within /\ AllCharged /\ NoneTwice /\ AllCounted /\ [Next]_vars
    => AllCharged' /\ NoneTwice' /\ AllCounted'
<1> SUFFICES ASSUME TypeOK, TypeOK', Recorded, Within, AllCharged, NoneTwice, AllCounted, [Next]_vars
             PROVE  AllCharged' /\ NoneTwice' /\ AllCounted'
  OBVIOUS
<1> USE DEF Goto
<1>0. /\ pc \in [Reqs -> {"new", "limits", "budget", "call", "validate", "stream", "closing"} \cup Flushing \cup Ended]
      /\ consumed \in [Reqs -> Nat] /\ usage \in [Reqs -> Nat] /\ text \in [Reqs -> {"none", "partial", "full"}]
      /\ recAt \in [Reqs -> 0..MaxClock]
  BY BookTypes DEF TypeOK, TurnTypes
<1>1. \A k \in Kind : Past[k] \cap Early = {} /\ Past[k] \subseteq {"day", "month", "spend"} \cup Billed
      /\ {"spend"} \cup Billed \subseteq Past[k]
  BY DEF Past, Kind, Early, Billed
\* Until its record begins.
<1>2. ASSUME NEW r \in Reqs, pc[r] \in Early, NEW w \in Early \cup {"rejected", "failed", "gone", "hour"},
             pc' = [pc EXCEPT ![r] = w], UNCHANGED <<ledger, owed, unpaid, uncounted>>,
             \A q \in Reqs : q # r => consumed'[q] = consumed[q] /\ text'[q] = text[q] /\ recAt'[q] = recAt[q]
      PROVE  AllCharged' /\ NoneTwice' /\ AllCounted'
  <2>1. Fixed BY <1>2 DEF Fixed
  <2>2. pc[r] \in Uncertain /\ w \notin Billed /\ \A k \in Kind : w \notin Past[k]
    BY <1>1, <1>2 DEF Uncertain, Early, Billed
  <2> QED BY <1>2, <2>1, <2>2, BooksStay
<1>3. ASSUME NEW r \in Reqs,
             \/ Verify(r) \/ CheckLimits(r) \/ CheckBudget(r) \/ Fails(r)
             \/ Valid(r) \/ Close(r) \/ StreamError(r)
      PROVE  AllCharged' /\ NoneTwice' /\ AllCounted'
  <2>1. pc[r] \in Early
    BY <1>3 DEF Verify, CheckLimits, CheckBudget, Fails, Valid, Close, StreamError, Early
  <2>2. \E w \in Early \cup {"rejected", "failed"} : pc' = [pc EXCEPT ![r] = w]
    BY <1>3 DEF Verify, CheckLimits, CheckBudget, Fails, Valid, Close, StreamError, Early
  <2>3. UNCHANGED <<ledger, owed, unpaid, uncounted, consumed, text, recAt>>
    BY <1>3 DEF Verify, CheckLimits, CheckBudget, Fails, Valid, Close, StreamError, quotaVars
  <2> QED BY <1>2, <2>1, <2>2, <2>3
<1>4. ASSUME NEW r \in Reqs, Complete(r) \/ Invalid(r) \/ OpenStream(r) \/ Delta(r) \/ Done(r)
      PROVE  AllCharged' /\ NoneTwice' /\ AllCounted'
  <2>1. pc[r] \in Early BY <1>4 DEF Complete, Invalid, OpenStream, Delta, Done, Early
  <2>2. \E w \in Early \cup {"failed"} : pc' = [pc EXCEPT ![r] = w]
    <3>1. pc = [pc EXCEPT ![r] = pc[r]] BY <1>0
    <3> QED BY <1>4, <2>1, <3>1 DEF Complete, Invalid, OpenStream, Delta, Done, Early
  <2>3. UNCHANGED <<ledger, owed, unpaid, uncounted, recAt>>
    BY <1>4 DEF Complete, Invalid, OpenStream, Delta, Done, quotaVars
  <2>4. \A q \in Reqs : q # r => consumed'[q] = consumed[q] /\ text'[q] = text[q]
    BY <1>0, <1>4 DEF Complete, Invalid, OpenStream, Delta, Done
  <2> QED BY <1>2, <2>1, <2>2, <2>3, <2>4
<1>5. ASSUME NEW r \in Reqs, BeginRecord(r), usage[r] # 0 PROVE AllCharged' /\ NoneTwice' /\ AllCounted'
  <2>1. pc[r] \in Early BY <1>5 DEF BeginRecord, Early
  <2>2. \A q \in Reqs : q # r => recAt'[q] = recAt[q] BY <1>0, <1>5 DEF BeginRecord
  <2>3. pc' = [pc EXCEPT ![r] = "hour"] /\ UNCHANGED <<ledger, owed, unpaid, uncounted, consumed, text>>
    BY <1>5 DEF BeginRecord, quotaVars
  <2> QED BY <1>2, <2>1, <2>2, <2>3
\* From then on what was consumed stays.
<1>6. ASSUME NEW r \in Reqs, NEW w, pc' = [pc EXCEPT ![r] = w],
             UNCHANGED <<ledger, owed, consumed, text, recAt>>,
             unpaid \subseteq unpaid', uncounted \subseteq uncounted',
             w \in Billed => pc[r] \in Billed \/ r \in unpaid',
             pc[r] \notin Uncertain => w \notin Uncertain,
             w \in {"day", "month", "spend"} \cup Billed /\ Uncut(r) =>
               pc[r] \in {"spend"} \cup Billed \/ r \in uncounted' \/ consumed[r] = 0
      PROVE  AllCharged' /\ NoneTwice' /\ AllCounted'
  <2>1. Fixed BY <1>6 DEF Fixed
  <2>2. \A k \in Kind : w \in Past[k] /\ Uncut(r)' =>
          pc[r] \in Past[k] \/ r \in uncounted' \/ (consumed'[r] = 0 /\ consumed[r] = 0)
    BY <1>1, <1>6 DEF Uncut
  <2> QED BY <1>6, <2>1, <2>2, BooksStay
<1>7. ASSUME NEW r \in Reqs, BeginRecord(r), usage[r] = 0 PROVE AllCharged' /\ NoneTwice' /\ AllCounted'
  <2>1. /\ pc[r] = "record" /\ pc' = [pc EXCEPT ![r] = "spend"]
        /\ UNCHANGED <<ledger, owed, unpaid, uncounted, consumed, text, recAt>>
    BY <1>7 DEF BeginRecord, quotaVars
  <2>2. Uncut(r) => consumed[r] = 0 BY <1>7 DEF Uncut, Recorded
  <2> QED BY <1>6, <2>1, <2>2 DEF Billed, Uncertain, Early
<1>8. ASSUME NEW r \in Reqs, Disconnect(r) PROVE AllCharged' /\ NoneTwice' /\ AllCounted'
  <2>1. UNCHANGED <<ledger, owed, unpaid, uncounted, consumed, text, recAt>> BY <1>8 DEF Disconnect, quotaVars
  <2>2. CASE pc[r] \in {"stream", "closing"}
    <3>1. pc' = [pc EXCEPT ![r] = "record"] BY <1>8, <2>2 DEF Disconnect
    <3> QED BY <1>2, <2>1, <2>2, <3>1 DEF Early
  <2>3. CASE pc[r] \notin {"stream", "closing"}
    <3>1. pc' = [pc EXCEPT ![r] = "gone"] BY <1>8, <2>3 DEF Disconnect
    <3> QED BY <1>6, <2>1, <3>1 DEF Billed, Uncertain, Early, Kind
  <2> QED BY <2>2, <2>3
<1>9. ASSUME NEW r \in Reqs, RecordFails(r) PROVE AllCharged' /\ NoneTwice' /\ AllCounted'
  <2>1. /\ pc[r] \in Kind /\ pc' = [pc EXCEPT ![r] = "spend"] /\ uncounted' = uncounted \cup {r}
        /\ UNCHANGED <<ledger, owed, unpaid, consumed, text, recAt>>
    BY <1>9 DEF RecordFails, quotaVars
  <2> QED BY <1>6, <2>1 DEF Billed, Uncertain, Kind
<1>10. ASSUME NEW r \in Reqs, SpendFails(r) PROVE AllCharged' /\ NoneTwice' /\ AllCounted'
  <2>1. /\ pc[r] = "spend" /\ pc' = [pc EXCEPT ![r] = "user"] /\ unpaid' = unpaid \cup {r}
        /\ UNCHANGED <<ledger, owed, uncounted, consumed, text, recAt>>
    BY <1>10 DEF SpendFails, quotaVars
  <2> QED BY <1>6, <2>1 DEF Billed, Uncertain, Kind
<1>11. ASSUME NEW r \in Reqs,
              AppendUser(r) \/ AppendUserFails(r) \/ AppendAssistant(r) \/ AppendAssistantFails(r)
       PROVE  AllCharged' /\ NoneTwice' /\ AllCounted'
  <2>1. /\ pc[r] \in Billed /\ \E w \in {"assistant", "done", "failed"} : pc' = [pc EXCEPT ![r] = w]
        /\ UNCHANGED <<ledger, owed, unpaid, uncounted, consumed, text, recAt>>
    BY <1>11 DEF AppendUser, AppendUserFails, AppendAssistant, AppendAssistantFails, quotaVars, Billed
  <2> QED BY <1>6, <2>1 DEF Billed, Uncertain, Early, Kind
<1>12. ASSUME Revoke \/ Crash \/ Tick \/ UNCHANGED vars PROVE AllCharged' /\ NoneTwice' /\ AllCounted'
  <2>1. UNCHANGED <<ledger, owed, unpaid, uncounted, consumed, text, recAt>>
    BY <1>12 DEF Revoke, Crash, Tick, vars, reqVars, quotaVars
  <2>2. Fixed BY <2>1 DEF Fixed
  <2>3. \A q \in Reqs : pc'[q] = pc[q] \/ pc'[q] = "gone" BY <1>12, OthersMove
  <2>4. "gone" \notin Billed /\ "gone" \notin Uncertain /\ \A k \in Kind : "gone" \notin Past[k]
    BY <1>1 DEF Billed, Uncertain, Early, Kind
  <2>5. AllCharged' BY <2>1, <2>2, <2>3, <2>4, ChargedStay
  <2>6. NoneTwice' BY <2>1, <2>2, <2>3, <2>4, ChargeableStay
  <2>7. ASSUME NEW k \in Kind, NEW t \in 0..MaxClock PROVE SumOver(consumed', In(k, t)') <= owed'[k][t]
    <3>1. \A q \in Reqs : pc'[q] \in Past[k] /\ q \notin uncounted' => pc[q] \in Past[k] /\ q \notin uncounted
      BY <2>1, <2>3, <2>4
    <3> QED BY <2>1, <2>2, <3>1, CountedStay
  <2> QED BY <2>5, <2>6, <2>7 DEF AllCounted
<1> QED
  BY <1>3, <1>4, <1>5, <1>7, <1>8, <1>9, <1>10, <1>11, <1>12, BooksCount, BooksCharge DEF Next, Turn, Mishap

\* Nothing was consumed when nothing has happened.
LEMMA NothingBooked == Init => AllCharged /\ NoneTwice /\ AllCounted /\ Within
<1> SUFFICES ASSUME Init PROVE AllCharged /\ NoneTwice /\ AllCounted /\ Within OBVIOUS
<1>1. /\ pc = [r \in Reqs |-> "new"] /\ ledger.total = 0 /\ owed = [k \in Kind |-> [t \in 0..MaxClock |-> 0]]
      /\ usage = [r \in Reqs |-> 0] /\ consumed = [r \in Reqs |-> 0]
  BY DEF Init, QuotaInit
<1>2. Charged = {} /\ Chargeable = {} /\ \A k \in Kind, t \in 0..MaxClock : In(k, t) = {}
  BY <1>1 DEF Charged, Chargeable, In, Billed, Uncertain, Early, Past, Kind
<1>3. SumOver(consumed, {}) = 0
  <2>1. IsFiniteSet({}) BY FS_EmptySet
  <2> QED BY <2>1, SumOfSubsets
<1>4. Price * 0 = 0 BY QuotasAssumption
<1>5. AllCharged /\ NoneTwice BY <1>1, <1>2, <1>3, <1>4 DEF AllCharged, NoneTwice
<1>6. AllCounted
  <2>1. \A k \in Kind, t \in 0..MaxClock : SumOver(consumed, In(k, t)) = 0
    <3> SUFFICES ASSUME NEW k \in Kind, NEW t \in 0..MaxClock PROVE SumOver(consumed, In(k, t)) = 0 OBVIOUS
    <3>1. In(k, t) = {} BY <1>2
    <3> HIDE DEF In
    <3> QED BY <1>3, <3>1
  <2> HIDE DEF In
  <2> QED BY <1>1, <2>1 DEF AllCounted
<1>7. Within BY <1>1, ChatAssumption DEF Within
<1> QED BY <1>5, <1>6, <1>7

\* However turns overlap and fail, the token is charged all that the provider
\* consumed for the turns that settled and never more than it consumed; turns
\* one after the other are counted in full in the windows they settled in, but
\* for the inserts that failed.
THEOREM UsageIsRecorded == Spec => []UsageRecorded
<1>1. TypeOK /\ RowsFollow /\ AllCharged /\ NoneTwice /\ AllCounted => UsageRecorded
  <2> SUFFICES ASSUME TypeOK, RowsFollow, AllCharged, NoneTwice, AllCounted PROVE UsageRecorded OBVIOUS
  <2>1. Price * Tokens(Settled \ unpaid) <= ledger.total
    <3>1. Settled \ unpaid \subseteq Charged BY DEF Settled, Charged, Billed, Uncut
    <3>2. PICK S \in SUBSET Reqs, T \in SUBSET Reqs : S = Settled \ unpaid /\ T = Charged BY DEF Settled, Charged
    <3>3. PICK a \in Nat, b \in Nat : a = SumOver(consumed, S) /\ b = SumOver(consumed, T) /\ a <= b
      BY <3>1, <3>2, BookTypes, TokenSums
    <3>4. Price * a <= Price * b /\ Price * a \in Nat /\ Price * b \in Nat BY <3>3, Costs
    <3>5. Price * b <= ledger.total /\ ledger.total \in Nat BY <3>2, <3>3, BookTypes DEF AllCharged
    <3>6. Price * a <= ledger.total BY <3>4, <3>5
    <3> QED BY <3>2, <3>3, <3>6, TokensSum
  <2>2. ledger.total <= Price * Tokens(Reqs)
    <3>1. PICK S \in SUBSET Reqs : S = Chargeable BY DEF Chargeable
    <3>2. PICK a \in Nat, b \in Nat : a = SumOver(consumed, S) /\ b = SumOver(consumed, Reqs) /\ a <= b
      BY <3>1, BookTypes, TokenSums
    <3>3. Price * a <= Price * b /\ Price * a \in Nat /\ Price * b \in Nat BY <3>2, Costs
    <3>4. ledger.total <= Price * a /\ ledger.total \in Nat BY <3>1, <3>2, BookTypes DEF NoneTwice
    <3>5. ledger.total <= Price * b BY <3>3, <3>4
    <3> QED BY <3>2, <3>5, TokensSum
  <2>3. ASSUME scenario.serial, NEW k \in Kind
        PROVE  Tokens({r \in Settled \ uncounted : Start(k, recAt[r]) = Start(k, now)}) <= Count(k, now)
    <3>1. PICK t \in 0..MaxClock : t = Start(k, now) BY StartInRange, CounterTypes
    <3>2. {r \in Settled \ uncounted : Start(k, recAt[r]) = t} \subseteq In(k, t)
      BY DEF Settled, In, Past, Kind, Billed, Uncut
    <3>3. PICK S \in SUBSET Reqs, T \in SUBSET Reqs :
            S = {r \in Settled \ uncounted : Start(k, recAt[r]) = t} /\ T = In(k, t)
      BY DEF Settled, In
    <3>4. PICK a \in Nat, b \in Nat : a = SumOver(consumed, S) /\ b = SumOver(consumed, T) /\ a <= b
      BY <3>2, <3>3, BookTypes, TokenSums
    <3>5. b <= owed[k][t] /\ owed[k][t] \in Nat BY <3>3, <3>4, BookTypes DEF AllCounted
    <3>6. Count(k, now) = owed[k][t] BY <2>3, <3>1, ExactCounters DEF CountersExact
    <3>7. a <= Count(k, now) BY <3>4, <3>5, <3>6
    <3> QED BY <3>1, <3>3, <3>4, <3>7, TokensSum
  <2> QED BY <2>1, <2>2, <2>3 DEF UsageRecorded
<1>2. Init => Recorded /\ OneAtATime /\ RowsFollow
  BY StartedFollowing DEF Init, Recorded
<1> QED
  BY TypeCorrect, ScenarioTyped, RecordedStep, OneAtATimeStep, RowsStep, WithinStep, BooksStep, NothingBooked,
     <1>1, <1>2, PTL DEF Spec

\* However turns overlap and fail, a turn that settled is charged, counted when
\* turns come one after the other, and answered after its question.
THEOREM TurnsKept == Spec => []TurnKept
<1>1. UsageRecorded /\ QuestionFirst => TurnKept
  BY DEF TurnKept
<1> QED
  BY UsageIsRecorded, QuestionsFirst, <1>1, PTL
=============================================================================
