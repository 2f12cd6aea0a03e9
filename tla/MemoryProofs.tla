---------------------------- MODULE MemoryProofs ----------------------------
(***************************************************************************)
(* The facts a server learns, for any number of turns, any embedder and    *)
(* any notion of similarity, through failures, disconnects and restarts    *)
(* under other configurations.  The argument: an extraction that is about  *)
(* to insert has compared its fact with the rows, and unless another one   *)
(* runs no row was added since; a turn is extracted once, after its answer *)
(* was stored; and what an extraction stored and what it has left never    *)
(* exceeds max_facts_per_turn.                                             *)
(*                                                                         *)
(* What a prompt holds: the closest facts and the longest recent history   *)
(* within their budgets, by the order and the running totals of rows that  *)
(* are only appended.  And the lists of Studio, for any number of tasks.   *)
(***************************************************************************)
EXTENDS Memory, Studio, FiniteSetTheorems, WellFoundedInduction, TLAPS

Roles    == {"user", "assistant"}
Message  == [role : Roles, turn : Turns, size : Nat]
Learned     == Seq([fact : Facts, model : Models, turn : Turns])
Progress == {"idle", "recall", "history", "call", "question", "answer", "done", "failed"}
Jobs     == {"none", "ask", "compare", "insert", "done"}

\* What the facts depend on keeps its type.
FactTypes ==
  /\ settings \in [model : Models, recallK : Nat, extract : BOOLEAN]
  /\ messages \in Seq(Message) /\ memories \in Learned
  /\ pc \in [Turns -> Progress] /\ reply \in [Turns -> Nat]
  /\ job \in [Turns -> Jobs] /\ todo \in [Turns -> Seq(Facts)]
  /\ apart \in BOOLEAN

\* The facts a turn has yielded so far.
FactsOf(t) == {j \in DOMAIN memories : memories[j].turn = t}

Answered(t) ==
  \E n \in DOMAIN messages : messages[n].role = "assistant" /\ messages[n].turn = t

\* An extraction begins when the answer is stored, once, and yields facts from then on.
ExtractedOnce ==
  \A t \in Turns :
    /\ pc[t] # "done" /\ pc[t] # "failed" => job[t] = "none"
    /\ job[t] # "none" => Answered(t)
    /\ job[t] \in {"none", "ask"} => FactsOf(t) = {}

\* What it has left, it has room for.
WithinTurn ==
  \A t \in Turns :
    /\ job[t] \in {"compare", "insert"} => todo[t] # <<>>
    /\ job[t] \in {"compare", "insert"} => Cardinality(FactsOf(t)) + Len(todo[t]) <= MaxFacts
    /\ Cardinality(FactsOf(t)) <= MaxFacts

\* While extractions never met, at most one runs, and its comparison stands.
Undisturbed ==
  apart => /\ \A t, u \in Turns : Extracting(t) /\ Extracting(u) => t = u
           /\ \A t \in Turns : job[t] = "insert" => Novel(Head(todo[t]))

IInv == FactTypes /\ ExtractedOnce /\ WithinTurn /\ Undisturbed /\ NoDuplicates

\* The rows are finitely many.
LEMMA RowsFinite ==
  ASSUME FactTypes, NEW t
  PROVE  IsFiniteSet(FactsOf(t)) /\ Cardinality(FactsOf(t)) \in Nat
<1>1. DOMAIN memories = 1..Len(memories) /\ Len(memories) \in Nat BY DEF FactTypes, Learned
<1>2. IsFiniteSet(DOMAIN memories) BY <1>1, FS_Interval
<1>3. IsFiniteSet(FactsOf(t)) BY <1>2, FS_Subset DEF FactsOf
<1> QED BY <1>3, FS_CardinalityType

\* A server boots with a resolved configuration and remembers nothing.
LEMMA InitIInv == Init => IInv
<1> SUFFICES ASSUME Init PROVE IInv OBVIOUS
<1>1. PICK c \in Configs : settings = Resolve(c) BY DEF Init
<1>2. settings \in [model : Models, recallK : Nat, extract : BOOLEAN]
  BY <1>1, MemoryAssumption DEF Resolve, Embedder, Models, Providers
<1>3. FactTypes
  BY <1>2 DEF Init, FactTypes, Message, Learned, Progress, Jobs
<1>4. \A t \in Turns : FactsOf(t) = {} BY DEF Init, FactsOf
<1>5. ExtractedOnce BY <1>4 DEF Init, ExtractedOnce
<1>6. WithinTurn
  <2>1. Cardinality({}) = 0 /\ MaxFacts \in Nat BY FS_EmptySet, MemoryAssumption
  <2>2. \A t \in Turns : Cardinality(FactsOf(t)) <= MaxFacts BY <1>4, <2>1
  <2>3. \A t \in Turns : job[t] = "none" BY DEF Init
  <2> QED BY <2>2, <2>3 DEF WithinTurn
<1>7. Undisturbed /\ NoDuplicates BY DEF Init, Undisturbed, Extracting, NoDuplicates
<1> QED BY <1>3, <1>5, <1>6, <1>7 DEF IInv

\* A step that neither stores a row nor moves an extraction keeps what is known
\* of facts.
LEMMA TurnStep ==
  ASSUME IInv, FactTypes',
         UNCHANGED <<settings, memories, job, todo, apart>>,
         messages' = messages \/ (\E m \in Message : messages' = Append(messages, m)),
         \A t \in Turns : pc[t] \in {"done", "failed"} => pc'[t] \in {"done", "failed"}
  PROVE  IInv'
<1>1. \A t : FactsOf(t)' = FactsOf(t) BY DEF FactsOf
<1>2. ASSUME NEW t \in Turns, Answered(t) PROVE Answered(t)'
  <2>1. PICK n \in DOMAIN messages : messages[n].role = "assistant" /\ messages[n].turn = t
    BY <1>2 DEF Answered
  <2>2. n \in DOMAIN messages' /\ messages'[n] = messages[n]
    <3>1. messages \in Seq(Message) BY DEF IInv, FactTypes
    <3>2. CASE messages' = messages BY <2>1, <3>2
    <3>3. CASE \E m \in Message : messages' = Append(messages, m) BY <2>1, <3>1, <3>3
    <3> QED BY <3>2, <3>3
  <2> QED BY <2>1, <2>2 DEF Answered
<1>3. ExtractedOnce' BY <1>1, <1>2 DEF IInv, FactTypes, ExtractedOnce, Progress
<1>4. WithinTurn' BY <1>1 DEF IInv, WithinTurn
<1>5. Undisturbed' /\ NoDuplicates'
  BY DEF IInv, Undisturbed, NoDuplicates, Extracting, Novel, Loaded
<1> QED BY <1>3, <1>4, <1>5 DEF IInv

\* One extraction moves, towards its end, and stores nothing: what is left
\* to it shrinks, and if it is about to insert, it has compared.
LEMMA ExtractionStep ==
  ASSUME IInv, FactTypes', NEW t \in Turns, Extracting(t),
         UNCHANGED <<settings, messages, memories, pc, apart>>,
         \A u \in Turns \ {t} : job'[u] = job[u] /\ todo'[u] = todo[u],
         job'[t] \in {"compare", "insert", "done"},
         job'[t] \in {"compare", "insert"} =>
           todo'[t] # <<>> /\ Cardinality(FactsOf(t)) + Len(todo'[t]) <= MaxFacts,
         job'[t] = "insert" => Novel(Head(todo'[t]))
  PROVE  IInv'
<1>1. \A u : FactsOf(u)' = FactsOf(u) /\ Answered(u)' = Answered(u) BY DEF FactsOf, Answered
<1>2. ExtractedOnce' BY <1>1 DEF IInv, FactTypes, ExtractedOnce, Extracting
<1>3. WithinTurn' BY <1>1 DEF IInv, WithinTurn
<1>4. Undisturbed'
  <2> SUFFICES ASSUME apart PROVE Undisturbed' BY DEF Undisturbed
  <2>1. \A u, v \in Turns : Extracting(u)' /\ Extracting(v)' => u = v
    BY DEF IInv, Undisturbed, Extracting
  <2>2. \A u \in Turns : job'[u] = "insert" => Novel(Head(todo'[u]))
    BY DEF IInv, Undisturbed, Extracting
  <2>3. \A f : Novel(f)' = Novel(f) BY DEF Novel, Loaded
  <2>4. \A u \in Turns : (job[u] = "insert" => Novel(Head(todo[u])))' BY <2>2 DEF Novel, Loaded
  <2> QED BY <2>1, <2>4 DEF Undisturbed
<1>5. NoDuplicates' BY DEF IInv, NoDuplicates
<1> QED BY <1>2, <1>3, <1>4, <1>5 DEF IInv

\* Insert adds the one fact it took from its list, which was compared with
\* every row that is there unless extractions overlap.
LEMMA InsertStep ==
  ASSUME IInv, NEW t \in Turns, Insert(t)
  PROVE  IInv'
<1> DEFINE row == [fact |-> Head(todo[t]), model |-> settings.model, turn |-> t]
           last == Len(memories) + 1
<1>1. /\ settings \in [model : Models, recallK : Nat, extract : BOOLEAN]
      /\ memories \in Learned /\ todo[t] \in Seq(Facts) /\ todo[t] # <<>> /\ Len(todo[t]) \in Nat \ {0}
  BY DEF IInv, FactTypes, WithinTurn, Insert
<1>2. Head(todo[t]) \in Facts /\ Tail(todo[t]) \in Seq(Facts) /\ Len(Tail(todo[t])) = Len(todo[t]) - 1
  BY <1>1
<1>3. row \in [fact : Facts, model : Models, turn : Turns] BY <1>1, <1>2
<1>4. memories' = Append(memories, row) BY DEF Insert
<1>5. /\ memories' \in Learned /\ DOMAIN memories' = DOMAIN memories \cup {last}
      /\ memories'[last] = row /\ last \notin DOMAIN memories
      /\ \A i \in DOMAIN memories : memories'[i] = memories[i] /\ i < last /\ i \in Nat
      /\ last \in Nat
  <2>1. memories \in Seq([fact : Facts, model : Models, turn : Turns]) BY <1>1 DEF Learned
  <2> QED BY <1>3, <1>4, <2>1 DEF Learned
<1>6. /\ job' = [job EXCEPT ![t] = IF Len(todo[t]) = 1 THEN "done" ELSE "compare"]
      /\ todo' = [todo EXCEPT ![t] = Tail(@)]
      /\ UNCHANGED <<settings, messages, pc, reply, apart>>
  BY DEF Insert, NextFact, Becomes, turnVars
<1>7. FactTypes' BY <1>2, <1>5, <1>6 DEF IInv, FactTypes, Jobs
<1>8. FactsOf(t)' = FactsOf(t) \cup {last} /\ last \notin FactsOf(t) BY <1>5 DEF FactsOf
<1>9. \A u \in Turns \ {t} : FactsOf(u)' = FactsOf(u) BY <1>5 DEF FactsOf
<1>10. Cardinality(FactsOf(t)') = Cardinality(FactsOf(t)) + 1
  BY <1>8, RowsFinite, FS_AddElement DEF IInv
<1>11. ExtractedOnce'
  BY <1>6, <1>9 DEF IInv, FactTypes, ExtractedOnce, Answered, Insert
<1>12. WithinTurn'
  <2>1. Cardinality(FactsOf(t)) + Len(todo[t]) <= MaxFacts BY DEF IInv, WithinTurn, Insert
  <2>2. Cardinality(FactsOf(t)) \in Nat BY RowsFinite DEF IInv
  <2>3. todo'[t] = Tail(todo[t]) /\ (Len(todo[t]) # 1 => todo'[t] # <<>>)
    <3>1. todo'[t] = Tail(todo[t]) BY <1>6 DEF IInv, FactTypes
    <3>2. Len(todo[t]) # 1 => Len(Tail(todo[t])) # 0 BY <1>1, <1>2
    <3>3. Len(<<>>) = 0 OBVIOUS
    <3> QED BY <3>1, <3>2, <3>3
  <2>4. Cardinality(FactsOf(t)') <= MaxFacts BY <1>1, <1>10, <2>1, <2>2, MemoryAssumption
  <2>5. Cardinality(FactsOf(t)') + Len(todo'[t]) <= MaxFacts
    BY <1>1, <1>2, <1>10, <2>1, <2>2, <2>3, MemoryAssumption
  <2>6. \A u \in Turns \ {t} : job'[u] = job[u] /\ todo'[u] = todo[u] BY <1>6 DEF IInv, FactTypes
  <2>7. job'[t] \in {"compare", "insert"} => todo'[t] # <<>>
    BY <1>6, <2>3 DEF IInv, FactTypes
  <2> QED BY <1>9, <2>4, <2>5, <2>6, <2>7 DEF IInv, WithinTurn
<1>13. Undisturbed'
  <2> SUFFICES ASSUME apart PROVE Undisturbed' BY <1>6 DEF Undisturbed
  <2>1. \A u \in Turns : Extracting(u) => u = t BY DEF IInv, Undisturbed, Extracting, Insert
  <2>2. \A u \in Turns : Extracting(u)' => u = t BY <1>6, <2>1 DEF IInv, FactTypes, Extracting
  <2>3. \A u \in Turns : job'[u] # "insert" BY <1>6, <2>1 DEF IInv, FactTypes, Extracting
  <2> QED BY <2>2, <2>3 DEF Undisturbed
<1>14. NoDuplicates'
  <2> SUFFICES ASSUME apart, NEW i \in DOMAIN memories', NEW j \in DOMAIN memories',
                      i < j, memories'[i].model = memories'[j].model
               PROVE  <<memories'[j].fact, memories'[i].fact>> \notin Similar
    BY <1>6 DEF NoDuplicates
  <2>1. i \in DOMAIN memories BY <1>5
  <2>2. CASE j \in DOMAIN memories BY <1>5, <2>1, <2>2 DEF IInv, NoDuplicates
  <2>3. CASE j = last
    <3>1. Novel(Head(todo[t])) BY DEF IInv, Undisturbed, Insert
    <3>2. memories[i].model = settings.model BY <1>5, <2>1, <2>3
    <3> QED BY <1>5, <2>1, <2>3, <3>1, <3>2 DEF Novel, Loaded
  <2> QED BY <1>5, <2>2, <2>3
<1> QED BY <1>7, <1>11, <1>12, <1>13, <1>14 DEF IInv

\* Every step of a turn, an extraction, a failure or a restart preserves the
\* inductive invariant.
LEMMA NextIInv == IInv /\ [Next]_vars => IInv'
<1> SUFFICES ASSUME IInv, [Next]_vars PROVE IInv' OBVIOUS
<1> USE DEF Goto, Becomes, Mishap
<1>1. FactTypes BY DEF IInv
<1>2. ASSUME NEW t \in Turns, Begin(t) \/ Recall(t) \/ ReadHistory(t) PROVE IInv'
  <2>1. /\ UNCHANGED <<settings, messages, memories, reply, job, todo, apart>>
        /\ \E w \in Progress : pc' = [pc EXCEPT ![t] = w]
        /\ pc[t] \notin {"done", "failed"}
    BY <1>2 DEF Begin, Recall, ReadHistory, jobVars, Progress
  <2>2. FactTypes' BY <1>1, <2>1 DEF FactTypes
  <2> QED BY <1>1, <2>1, <2>2, TurnStep DEF FactTypes
<1>3. ASSUME NEW t \in Turns, Complete(t) \/ StreamEnds(t) PROVE IInv'
  <2>1. /\ UNCHANGED <<settings, messages, memories, job, todo, apart>>
        /\ \E n \in Nat : reply' = [reply EXCEPT ![t] = n]
        /\ pc' = [pc EXCEPT ![t] = "question"] /\ pc[t] = "call"
    BY <1>3, MemoryAssumption DEF Complete, StreamEnds, jobVars
  <2>2. FactTypes' BY <1>1, <2>1 DEF FactTypes, Progress
  <2> QED BY <1>1, <2>1, <2>2, TurnStep DEF FactTypes
<1>4. ASSUME NEW t \in Turns, AppendQuestion(t) PROVE IInv'
  <2> DEFINE m == [role |-> "user", turn |-> t, size |-> Question[t]]
  <2>1. m \in Message BY MemoryAssumption DEF Message, Roles
  <2>2. /\ UNCHANGED <<settings, memories, reply, job, todo, apart>>
        /\ messages' = Append(messages, m)
        /\ \E w \in Progress : pc' = [pc EXCEPT ![t] = w]
        /\ pc[t] \notin {"done", "failed"}
    BY <1>4 DEF AppendQuestion, jobVars, Progress
  <2>3. messages' \in Seq(Message) BY <1>1, <2>1, <2>2 DEF FactTypes
  <2>4. FactTypes' BY <1>1, <2>2, <2>3 DEF FactTypes
  <2> QED BY <1>1, <2>1, <2>2, <2>4, TurnStep DEF FactTypes
<1>5. ASSUME NEW t \in Turns, AppendAnswer(t) PROVE IInv'
  <2> DEFINE m == [role |-> "assistant", turn |-> t, size |-> reply[t]]
  <2>1. m \in Message /\ messages \in Seq(Message) BY <1>1 DEF FactTypes, Message, Roles
  <2>2. /\ UNCHANGED <<settings, memories, reply, todo>>
        /\ messages' = Append(messages, m)
        /\ pc' = [pc EXCEPT ![t] = "done"] /\ pc[t] = "answer"
    BY <1>5 DEF AppendAnswer
  <2>3. \/ UNCHANGED <<job, apart>>
        \/ /\ job' = [job EXCEPT ![t] = "ask"]
           /\ apart' = (apart /\ \A u \in Turns : ~Extracting(u))
    BY <1>5 DEF AppendAnswer
  <2>4. messages' \in Seq(Message) BY <2>1, <2>2
  <2>5. pc' \in [Turns -> Progress] /\ job' \in [Turns -> Jobs] /\ apart' \in BOOLEAN
    BY <1>1, <2>2, <2>3 DEF FactTypes, Progress, Jobs
  <2>6. FactTypes' BY <1>1, <2>2, <2>4, <2>5 DEF FactTypes
  <2>7. job[t] = "none" BY <2>2 DEF IInv, ExtractedOnce
  <2>8. CASE UNCHANGED <<job, apart>>
    BY <1>1, <2>1, <2>2, <2>6, <2>8, TurnStep DEF FactTypes
  <2>9. CASE job' = [job EXCEPT ![t] = "ask"] /\ apart' = (apart /\ \A u \in Turns : ~Extracting(u))
    <3>1. \A u : FactsOf(u)' = FactsOf(u) BY <2>2 DEF FactsOf
    <3>2. \A n \in DOMAIN messages : n \in DOMAIN messages' /\ messages'[n] = messages[n]
      BY <2>1, <2>2
    <3>3. \A u \in Turns : Answered(u) => Answered(u)' BY <3>2 DEF Answered
    <3>4. Answered(t)'
      <4>1. Len(messages) + 1 \in DOMAIN messages' /\ messages'[Len(messages) + 1] = m
        BY <2>1, <2>2
      <4> QED BY <4>1 DEF Answered
    <3>5. \A u \in Turns \ {t} : job'[u] = job[u] /\ pc'[u] = pc[u]
      BY <1>1, <2>2, <2>9 DEF FactTypes
    <3>6. job'[t] = "ask" /\ pc'[t] = "done" BY <1>1, <2>2, <2>9 DEF FactTypes
    <3>7. ExtractedOnce'
      BY <2>7, <3>1, <3>3, <3>4, <3>5, <3>6 DEF IInv, ExtractedOnce
    <3>8. WithinTurn' BY <2>2, <3>1, <3>5, <3>6 DEF IInv, WithinTurn
    <3>9. Undisturbed'
      <4> SUFFICES ASSUME apart' PROVE Undisturbed' BY DEF Undisturbed
      <4>1. \A u \in Turns : ~Extracting(u) BY <2>9
      <4>2. \A u \in Turns : Extracting(u)' => u = t BY <3>5, <4>1 DEF Extracting
      <4>3. \A u \in Turns : job'[u] # "insert" BY <3>5, <3>6, <4>1 DEF Extracting
      <4> QED BY <4>2, <4>3 DEF Undisturbed
    <3>10. NoDuplicates' BY <2>2, <2>9 DEF IInv, NoDuplicates
    <3> QED BY <2>6, <3>7, <3>8, <3>9, <3>10 DEF IInv
  <2> QED BY <2>3, <2>8, <2>9
<1>6. ASSUME NEW t \in Turns,
             Fails(t) \/ Disconnect(t) \/ AppendQuestionFails(t) \/ AppendAnswerFails(t)
      PROVE  IInv'
  <2>1. /\ UNCHANGED <<settings, messages, memories, job, todo, apart>>
        /\ \E n \in Nat : reply' = [reply EXCEPT ![t] = n]
        /\ \E w \in Progress : pc' = [pc EXCEPT ![t] = w]
        /\ pc[t] \notin {"done", "failed"}
    <3>1. reply[t] \in Nat /\ reply = [reply EXCEPT ![t] = reply[t]] BY <1>1 DEF FactTypes
    <3> QED BY <1>6, <3>1, MemoryAssumption
         DEF Fails, Disconnect, AppendQuestionFails, AppendAnswerFails, jobVars, Progress
  <2>2. FactTypes' BY <1>1, <2>1 DEF FactTypes
  <2> QED BY <1>1, <2>1, <2>2, TurnStep DEF FactTypes
<1>7. ASSUME NEW t \in Turns, Extract(t) PROVE IInv'
  <2>1. PICK facts \in FactLists :
          LET n == IF Len(facts) < MaxFacts THEN Len(facts) ELSE MaxFacts
          IN  /\ todo' = [todo EXCEPT ![t] = SubSeq(facts, 1, n)]
              /\ job' = [job EXCEPT ![t] = IF n = 0 THEN "done" ELSE "compare"]
    BY <1>7 DEF Extract
  <2> DEFINE n == IF Len(facts) < MaxFacts THEN Len(facts) ELSE MaxFacts
  <2>2. facts \in Seq(Facts) /\ n \in Nat /\ n <= MaxFacts /\ n <= Len(facts)
    BY MemoryAssumption
  <2>3. SubSeq(facts, 1, n) \in Seq(Facts) /\ Len(SubSeq(facts, 1, n)) = n BY <2>2
  <2>4. UNCHANGED <<settings, messages, memories, pc, reply, apart>> /\ job[t] = "ask"
    BY <1>7 DEF Extract, turnVars
  <2>5. FactTypes' BY <1>1, <2>1, <2>3, <2>4 DEF FactTypes, Jobs
  <2>6. Cardinality(FactsOf(t)) = 0
    BY <2>4, FS_EmptySet DEF IInv, ExtractedOnce
  <2>7. n # 0 => SubSeq(facts, 1, n) # <<>> BY <2>3
  <2>8. /\ job'[t] = IF n = 0 THEN "done" ELSE "compare"
        /\ todo'[t] = SubSeq(facts, 1, n)
        /\ \A u \in Turns \ {t} : job'[u] = job[u] /\ todo'[u] = todo[u]
    BY <1>1, <2>1 DEF FactTypes
  <2>9. job'[t] = "compare" => n # 0 BY <2>8
  <2>10. Cardinality(FactsOf(t)) + Len(todo'[t]) <= MaxFacts BY <2>2, <2>3, <2>6, <2>8
  <2>11. job'[t] \in {"compare", "done"} BY <2>8
  <2>12. Extracting(t) BY <2>4 DEF Extracting
  <2> QED BY <2>4, <2>5, <2>7, <2>8, <2>9, <2>10, <2>11, <2>12, ExtractionStep
<1>8. ASSUME NEW t \in Turns, Compare(t) \/ RememberFails(t) \/ ExtractFails(t) PROVE IInv'
  <2>1. /\ UNCHANGED <<settings, messages, memories, pc, reply, apart>>
        /\ job[t] \in {"ask", "compare", "insert"}
    BY <1>8 DEF Compare, RememberFails, ExtractFails, turnVars
  <2>2. Extracting(t) BY <2>1 DEF Extracting
  <2>3. CASE job' = [job EXCEPT ![t] = "done"] /\ todo' = todo
    <3>1. FactTypes' BY <1>1, <2>1, <2>3 DEF FactTypes, Jobs
    <3>2. job'[t] = "done" /\ \A u \in Turns \ {t} : job'[u] = job[u] /\ todo'[u] = todo[u]
      BY <1>1, <2>3 DEF FactTypes
    <3> QED BY <2>1, <2>2, <3>1, <3>2, ExtractionStep
  <2>4. CASE job' = [job EXCEPT ![t] = "insert"] /\ todo' = todo /\ Compare(t)
    <3>1. FactTypes' BY <1>1, <2>1, <2>4 DEF FactTypes, Jobs
    <3>2. /\ job'[t] = "insert" /\ todo'[t] = todo[t]
          /\ \A u \in Turns \ {t} : job'[u] = job[u] /\ todo'[u] = todo[u]
      BY <1>1, <2>4 DEF FactTypes
    <3>3. Novel(Head(todo[t]))
      <4>1. ~Novel(Head(todo[t])) => NextFact(t) BY <2>4 DEF Compare
      <4>2. NextFact(t) => job'[t] # "insert" BY <1>1 DEF NextFact, FactTypes
      <4> QED BY <3>2, <4>1, <4>2
    <3>4. todo[t] # <<>> /\ Cardinality(FactsOf(t)) + Len(todo[t]) <= MaxFacts
      BY <2>4 DEF IInv, WithinTurn, Compare
    <3> QED BY <2>1, <2>2, <3>1, <3>2, <3>3, <3>4, ExtractionStep
  <2>5. CASE NextFact(t) /\ job[t] \in {"compare", "insert"}
    <3>1. /\ todo[t] \in Seq(Facts) /\ todo[t] # <<>> /\ Len(todo[t]) \in Nat \ {0}
          /\ Cardinality(FactsOf(t)) + Len(todo[t]) <= MaxFacts
      BY <1>1, <2>5 DEF FactTypes, IInv, WithinTurn
    <3>2. Tail(todo[t]) \in Seq(Facts) /\ Len(Tail(todo[t])) = Len(todo[t]) - 1 BY <3>1
    <3>3. /\ job'[t] = IF Len(todo[t]) = 1 THEN "done" ELSE "compare"
          /\ todo'[t] = Tail(todo[t])
          /\ \A u \in Turns \ {t} : job'[u] = job[u] /\ todo'[u] = todo[u]
      BY <1>1, <2>5 DEF FactTypes, NextFact
    <3>4. FactTypes' BY <1>1, <2>1, <2>5, <3>2 DEF FactTypes, Jobs, NextFact
    <3>5. Len(<<>>) = 0 OBVIOUS
    <3>6. job'[t] = "compare" => Len(Tail(todo[t])) # 0 BY <3>1, <3>2, <3>3
    <3>7. Cardinality(FactsOf(t)) \in Nat BY <1>1, RowsFinite
    <3>8. Cardinality(FactsOf(t)) + Len(todo'[t]) <= MaxFacts
      BY <3>1, <3>2, <3>3, <3>7, MemoryAssumption
    <3> QED BY <2>1, <2>2, <3>3, <3>4, <3>5, <3>6, <3>8, ExtractionStep
  <2> QED BY <1>8, <2>3, <2>4, <2>5 DEF Compare, RememberFails, ExtractFails
<1>9. CASE Restart
  <2>1. PICK c \in Configs : settings' = Resolve(c) BY <1>9 DEF Restart
  <2>2. settings' \in [model : Models, recallK : Nat, extract : BOOLEAN]
    BY <2>1, MemoryAssumption DEF Resolve, Embedder, Models, Providers
  <2>3. /\ UNCHANGED <<messages, memories, reply, apart>>
        /\ pc' = [t \in Turns |-> IF pc[t] \in {"idle", "done"} THEN pc[t] ELSE "failed"]
        /\ job' = [t \in Turns |-> IF Extracting(t) THEN "done" ELSE job[t]]
        /\ todo' = [t \in Turns |-> <<>>]
    BY <1>9 DEF Restart
  <2>4. FactTypes' BY <1>1, <2>2, <2>3 DEF FactTypes, Progress, Jobs
  <2>5. \A t : FactsOf(t)' = FactsOf(t) /\ Answered(t)' = Answered(t)
    BY <2>3 DEF FactsOf, Answered
  <2>6. \A t \in Turns : job'[t] \in {"none", "done"} /\ (job'[t] = "none" <=> job[t] = "none")
    BY <1>1, <2>3 DEF FactTypes, Extracting, Jobs
  <2>7. ExtractedOnce' BY <2>3, <2>5, <2>6 DEF IInv, ExtractedOnce
  <2>8. WithinTurn' BY <2>5, <2>6 DEF IInv, WithinTurn
  <2>9. Undisturbed' BY <2>6 DEF Undisturbed, Extracting
  <2>10. NoDuplicates' BY <2>3 DEF IInv, NoDuplicates
  <2> QED BY <2>4, <2>7, <2>8, <2>9, <2>10 DEF IInv
<1>10. CASE UNCHANGED vars
  <2>1. FactTypes' BY <1>1, <1>10 DEF FactTypes, vars, turnVars, jobVars
  <2> QED BY <1>10, <2>1, TurnStep DEF vars, turnVars, jobVars
<1> QED BY <1>2, <1>3, <1>4, <1>5, <1>6, <1>7, <1>8, <1>9, <1>10, InsertStep
        DEF Next, Turn, Extraction, Trouble

\* The inductive invariant holds for ever.
THEOREM Invariance == Spec => []IInv
BY InitIInv, NextIInv, PTL DEF Spec

\* remember_if_novel skips near-duplicates, whatever the embedder thinks near,
\* as long as extractions of the user do not overlap.
THEOREM NovelFacts == Spec => []NoDuplicates
<1>1. IInv => NoDuplicates BY DEF IInv
<1> QED BY <1>1, Invariance, PTL

\* However turns and extractions overlap and fail, a fact comes from an answer
\* that was stored, and no exchange yields more than max_facts_per_turn.
THEOREM SourcedFacts == Spec => []Sourced
<1>1. IInv => Sourced
  <2> SUFFICES ASSUME IInv, NEW i \in DOMAIN memories
               PROVE  /\ Answered(memories[i].turn)
                      /\ Cardinality(FactsOf(memories[i].turn)) <= MaxFacts
    BY DEF Sourced, Answered, FactsOf
  <2>1. memories[i].turn \in Turns
    <3>1. memories \in Seq([fact : Facts, model : Models, turn : Turns])
      BY DEF IInv, FactTypes, Learned
    <3>2. \A S : memories \in Seq(S) => memories[i] \in S OBVIOUS
    <3>3. memories[i] \in [fact : Facts, model : Models, turn : Turns] BY <3>1, <3>2
    <3> QED BY <3>3
  <2>2. i \in FactsOf(memories[i].turn) BY DEF FactsOf
  <2> QED BY <2>1, <2>2 DEF IInv, ExtractedOnce, WithinTurn
<1> QED BY <1>1, Invariance, PTL

\* Both parts of what the run `memory` checks.
THEOREM SoundFacts == Spec => []FactsSound
BY NovelFacts, SourcedFacts, PTL DEF FactsSound
-----------------------------------------------------------------------------
(***************************************************************************)
(* The prompt, for any sizes, budgets and closeness.  The argument: a walk *)
(* over sizes stops where their running total first passes the budget, so  *)
(* what it keeps fits and the next one would not; the place of a row in    *)
(* the sort is the number of rows closer than it, so each place has one    *)
(* row; and rows are only ever appended, so what was read stays true.      *)
(***************************************************************************)

\* A set of naturals has a least one.
LEMMA Least ==
  ASSUME NEW N \in SUBSET Nat, N # {}
  PROVE  \E n \in N : \A m \in N : n <= m
<1> DEFINE R == OpToRel(<, Nat)
<1>1. IsWellFoundedOn(R, Nat) BY NatLessThanWellFounded
<1>2. R = {p \in Nat \X Nat : p[1] < p[2]} BY DEF OpToRel
<1> HIDE DEF R
<1>3. PICK n \in N : \A m \in N : <<m, n>> \notin R BY <1>1, WFMin
<1>4. ASSUME NEW m \in N PROVE n <= m
  <2>1. <<m, n>> \in Nat \X Nat OBVIOUS
  <2> QED BY <1>2, <1>3, <2>1
<1> QED BY <1>3, <1>4

\* The total of the first k, from that of one fewer.
Grown(s, g, k) == IF k = 0 THEN 0 ELSE g[k - 1] + s[k]

\* The recursive definition of the totals has a solution.
LEMMA TotalsDefined ==
  ASSUME NEW s, NEW D \in Nat
  PROVE  \E g : g = [k \in 0..D |-> Grown(s, g, k)]
<1> DEFINE Fine(n, g) == \A k \in 0..D : k <= n => g[k] = Grown(s, g, k)
           Bad == {n \in Nat : \A g : ~Fine(n, g)}
<1>1. Bad = {}
  <2> SUFFICES ASSUME Bad # {} PROVE FALSE OBVIOUS
  <2>1. PICK n \in Bad : \A m \in Bad : n <= m
    <3>1. Bad \in SUBSET Nat OBVIOUS
    <3> HIDE DEF Bad
    <3> QED BY <3>1, Least
  <2>2. n \in Nat /\ (n = 0 \/ (n - 1 \in Nat /\ \E g : Fine(n - 1, g)))
    <3>1. n = 0 \/ (n - 1 \in Nat /\ n - 1 \notin Bad) BY <2>1
    <3> QED BY <3>1
  <2>3. CASE n = 0
    <3> DEFINE g == [k \in 0..D |-> 0]
    <3>1. Fine(0, g) BY DEF Grown
    <3> QED BY <2>3, <3>1
  <2>4. CASE n # 0
    <3>1. PICK g : Fine(n - 1, g) BY <2>2, <2>4
    <3> DEFINE h == [k \in 0..D |-> Grown(s, g, k)]
    <3>2. ASSUME NEW k \in 0..D, k <= n PROVE h[k] = Grown(s, h, k)
      <4>1. CASE k = 0 BY <4>1 DEF Grown
      <4>2. CASE k # 0
        <5>1. k - 1 \in 0..D /\ k - 1 <= n - 1 BY <2>2, <3>2, <4>2
        <5>2. g[k - 1] = h[k - 1] BY <3>1, <5>1
        <5> QED BY <3>2, <4>2, <5>2 DEF Grown
      <4> QED BY <4>1, <4>2
    <3>3. Fine(n, h) BY <3>2
    <3> QED BY <3>3
  <2> QED BY <2>3, <2>4
<1>2. PICK g : Fine(D, g) BY <1>1
<1> DEFINE h == [k \in 0..D |-> g[k]]
<1>3. \A k \in 0..D : h[k] = Grown(s, h, k)
  <2> SUFFICES ASSUME NEW k \in 0..D PROVE h[k] = Grown(s, h, k) OBVIOUS
  <2>1. g[k] = Grown(s, g, k) BY <1>2
  <2>2. k # 0 => k - 1 \in 0..D OBVIOUS
  <2> QED BY <2>1, <2>2 DEF Grown
<1>4. h = [k \in 0..D |-> Grown(s, h, k)]
  <2>1. h = [k \in 0..D |-> h[k]] OBVIOUS
  <2> HIDE DEF h
  <2>2. [k \in 0..D |-> h[k]] = [k \in 0..D |-> Grown(s, h, k)] BY <1>3
  <2> QED BY <2>1, <2>2
<1> QED BY <1>4

\* Totals are running totals.
LEMMA TotalsFacts ==
  ASSUME NEW s \in Seq(Nat)
  PROVE  /\ \A k \in 0..Len(s) : Totals(s)[k] \in Nat
         /\ Totals(s)[0] = 0
         /\ \A k \in 1..Len(s) : Totals(s)[k] = Totals(s)[k - 1] + s[k]
<1> DEFINE D == Len(s)
           g == CHOOSE h : h = [k \in 0..D |-> Grown(s, h, k)]
           T == Totals(s)
<1>0. D \in Nat /\ \A k \in 1..D : s[k] \in Nat OBVIOUS
<1>1. T = g BY DEF Totals, Grown
<1>2. g = [k \in 0..D |-> Grown(s, g, k)] BY <1>0, TotalsDefined
<1> HIDE DEF g, T
<1>3. \A k \in 0..D : T[k] = Grown(s, T, k) BY <1>1, <1>2
<1>4. T[0] = 0 BY <1>0, <1>3 DEF Grown
<1>5. \A k \in 1..D : T[k] = T[k - 1] + s[k] BY <1>0, <1>3 DEF Grown
<1> DEFINE Bad == {k \in 0..D : T[k] \notin Nat}
<1>6. Bad = {}
  <2> SUFFICES ASSUME Bad # {} PROVE FALSE OBVIOUS
  <2>1. PICK k \in Bad : \A m \in Bad : k <= m
    <3>1. Bad \in SUBSET Nat OBVIOUS
    <3> HIDE DEF Bad
    <3> QED BY <3>1, Least
  <2>2. k # 0 BY <1>4, <2>1
  <2>3. k \in 1..D /\ k - 1 \in 0..D /\ k - 1 \notin Bad BY <1>0, <2>1, <2>2
  <2>4. T[k - 1] \in Nat /\ s[k] \in Nat BY <1>0, <2>3
  <2> QED BY <1>5, <2>1, <2>3, <2>4
<1>7. \A k \in 0..D : T[k] \in Nat BY <1>6
<1> QED BY <1>4, <1>5, <1>7 DEF T

\* Sequences that begin alike have the same totals as far as they do.
LEMMA TotalsAgree ==
  ASSUME NEW s \in Seq(Nat), NEW r \in Seq(Nat), NEW n \in Nat,
         n <= Len(s), n <= Len(r), \A k \in 1..n : s[k] = r[k]
  PROVE  Totals(s)[n] = Totals(r)[n]
<1> DEFINE S == Totals(s)
           R == Totals(r)
<1>1. /\ S[0] = 0 /\ R[0] = 0
      /\ \A k \in 1..n : S[k] = S[k - 1] + s[k] /\ R[k] = R[k - 1] + r[k]
  <2>1. \A k \in 1..n : k \in 1..Len(s) /\ k \in 1..Len(r) OBVIOUS
  <2> QED BY <2>1, TotalsFacts
<1> HIDE DEF S, R
<1> DEFINE Bad == {k \in 0..n : S[k] # R[k]}
<1>2. Bad = {}
  <2> SUFFICES ASSUME Bad # {} PROVE FALSE OBVIOUS
  <2>1. PICK k \in Bad : \A m \in Bad : k <= m
    <3>1. Bad \in SUBSET Nat OBVIOUS
    <3> HIDE DEF Bad
    <3> QED BY <3>1, Least
  <2>2. k # 0 BY <1>1, <2>1
  <2>3. k \in 1..n /\ k - 1 \in 0..n /\ k - 1 \notin Bad BY <2>1, <2>2
  <2>4. S[k - 1] = R[k - 1] BY <2>3
  <2> QED BY <1>1, <2>1, <2>3, <2>4
<1>3. S[n] = R[n] BY <1>2
<1> QED BY <1>3 DEF S, R

\* What a walk keeps fits the budget, and it stops only before one that does not.
LEMMA FittingFacts ==
  ASSUME NEW s \in Seq(Nat), NEW room \in Nat
  PROVE  /\ Fitting(s, room) \in 0..Len(s)
         /\ Totals(s)[Fitting(s, room)] <= room
         /\ Fitting(s, room) < Len(s) => Totals(s)[Fitting(s, room) + 1] > room
<1> DEFINE T == Totals(s)
           Fits(n) == T[n] <= room /\ (n < Len(s) => T[n + 1] > room)
<1>1. Len(s) \in Nat /\ T[0] = 0 /\ \A k \in 0..Len(s) : T[k] \in Nat BY TotalsFacts
<1> HIDE DEF T
<1>2. \E n \in 0..Len(s) : Fits(n)
  <2> DEFINE Past == {k \in 0..Len(s) : T[k] > room}
  <2>1. CASE Past = {}
    <3>1. T[Len(s)] <= room BY <1>1, <2>1
    <3> QED BY <1>1, <3>1
  <2>2. CASE Past # {}
    <3>1. PICK k \in Past : \A m \in Past : k <= m
      <4>1. Past \in SUBSET Nat OBVIOUS
      <4> HIDE DEF Past
      <4> QED BY <2>2, <4>1, Least
    <3>2. k # 0 BY <1>1, <3>1
    <3>3. k - 1 \in 0..Len(s) /\ k - 1 \notin Past BY <1>1, <3>1, <3>2
    <3>4. T[k - 1] <= room BY <1>1, <3>3
    <3>5. T[(k - 1) + 1] > room BY <3>1
    <3> QED BY <3>3, <3>4, <3>5
  <2> QED BY <2>1, <2>2
<1>3. Fitting(s, room) = CHOOSE n \in 0..Len(s) : Fits(n) BY DEF Fitting, T
<1> HIDE DEF Fits
<1>4. Fitting(s, room) \in 0..Len(s) /\ Fits(Fitting(s, room)) BY <1>2, <1>3
<1> QED BY <1>4 DEF Fits, T

\* A strict order on a finite set: below(i) is what stands before i.
Ordered(S, below) ==
  /\ IsFiniteSet(S)
  /\ \A i \in S : below[i] \in SUBSET (S \ {i})
  /\ \A i, j \in S : i # j => i \in below[j] \/ j \in below[i]
  /\ \A i, j \in S : i \in below[j] => below[i] \in SUBSET below[j] /\ j \notin below[i]

\* What stands before another stands at a lower place.
LEMMA LowerPlace ==
  ASSUME NEW S, NEW below, Ordered(S, below), NEW i \in S, NEW j \in S, i \in below[j]
  PROVE  Cardinality(below[i]) < Cardinality(below[j])
<1>1. IsFiniteSet(below[j]) BY FS_Subset DEF Ordered
<1>2. below[i] \in SUBSET below[j] /\ i \notin below[i] BY DEF Ordered
<1>3. /\ Cardinality(below[i]) <= Cardinality(below[j])
      /\ Cardinality(below[j]) = Cardinality(below[i]) => below[j] = below[i]
      /\ IsFiniteSet(below[i])
  BY <1>1, <1>2, FS_Subset
<1>4. Cardinality(below[i]) \in Nat /\ Cardinality(below[j]) \in Nat
  BY <1>1, <1>3, FS_CardinalityType
<1>5. below[i] # below[j] BY <1>2
<1> QED BY <1>3, <1>4, <1>5

\* Every place is taken, by one element.
LEMMA PlaceTaken ==
  ASSUME NEW S, NEW below, Ordered(S, below), NEW k \in 0..(Cardinality(S) - 1)
  PROVE  /\ \E i \in S : Cardinality(below[i]) = k
         /\ \A i, j \in S : Cardinality(below[i]) = k /\ Cardinality(below[j]) = k => i = j
<1> DEFINE P == 0..(Cardinality(S) - 1)
           f == [i \in S |-> Cardinality(below[i])]
<1>1. IsFiniteSet(S) /\ Cardinality(S) \in Nat BY FS_CardinalityType DEF Ordered
<1>2. IsFiniteSet(P) /\ Cardinality(P) = Cardinality(S)
  <2>1. Cardinality(S) - 1 \in Int /\ 0 \in Int BY <1>1
  <2>2. IsFiniteSet(P)
        /\ Cardinality(P) = IF 0 > Cardinality(S) - 1 THEN 0 ELSE (Cardinality(S) - 1) - 0 + 1
    BY <2>1, FS_Interval
  <2> QED BY <1>1, <2>2
<1>3. ASSUME NEW i \in S PROVE Cardinality(below[i]) \in P
  <2>1. below[i] \in SUBSET S /\ below[i] # S BY DEF Ordered
  <2>2. /\ IsFiniteSet(below[i]) /\ Cardinality(below[i]) <= Cardinality(S)
        /\ Cardinality(S) = Cardinality(below[i]) => S = below[i]
    BY <1>1, <2>1, FS_Subset
  <2>3. Cardinality(below[i]) \in Nat BY <2>2, FS_CardinalityType
  <2> QED BY <1>1, <2>1, <2>2, <2>3
<1>4. ASSUME NEW i \in S, NEW j \in S, Cardinality(below[i]) = Cardinality(below[j]) PROVE i = j
  <2> SUFFICES ASSUME i # j PROVE FALSE OBVIOUS
  <2>1. i \in below[j] \/ j \in below[i] BY DEF Ordered
  <2>2. Cardinality(below[i]) < Cardinality(below[j]) \/ Cardinality(below[j]) < Cardinality(below[i])
    BY <2>1, LowerPlace
  <2>3. Cardinality(below[i]) \in Nat /\ Cardinality(below[j]) \in Nat BY <1>1, <1>3
  <2> QED BY <1>4, <2>2, <2>3
<1>5. f \in [S -> P] BY <1>3
<1>6. f \in Injection(S, P) BY <1>4, <1>5 DEF Injection, IsInjective
<1> HIDE DEF f, P
<1>7. f \in Surjection(S, P) BY <1>1, <1>2, <1>6, FS_Injection
<1>8. \A x \in P : \E i \in S : f[i] = x BY <1>7 DEF Surjection
<1>9. \E i \in S : f[i] = k BY <1>8 DEF P
<1>10. \E i \in S : Cardinality(below[i]) = k BY <1>9 DEF f
<1>11. ASSUME NEW i \in S, NEW j \in S, Cardinality(below[i]) = k, Cardinality(below[j]) = k
       PROVE  i = j
  BY <1>4, <1>11
<1> QED BY <1>10, <1>11

\* A row is what was inserted.
LEMMA RowTyped ==
  ASSUME FactTypes, NEW i \in DOMAIN memories
  PROVE  i \in Nat /\ memories[i].fact \in Facts /\ memories[i].turn \in Turns
<1>1. memories \in Seq([fact : Facts, model : Models, turn : Turns]) BY DEF FactTypes, Learned
<1>2. \A S : memories \in Seq(S) => memories[i] \in S /\ i \in Nat OBVIOUS
<1>3. memories[i] \in [fact : Facts, model : Models, turn : Turns] BY <1>1, <1>2
<1> QED BY <1>1, <1>2, <1>3

Sorted(t) == [i \in Loaded |-> {j \in Loaded : Closer(t, j, i)}]

\* The sort has an order to go by: closer first, then older first.
LEMMA SortedOrder ==
  ASSUME FactTypes, NEW t \in Turns
  PROVE  Ordered(Loaded, Sorted(t)) /\ Cardinality(Loaded) \in Nat
<1>1. DOMAIN memories = 1..Len(memories) /\ Len(memories) \in Nat BY DEF FactTypes, Learned
<1>2. IsFiniteSet(Loaded)
  <2>1. IsFiniteSet(DOMAIN memories) BY <1>1, FS_Interval
  <2> QED BY <2>1, FS_Subset DEF Loaded
<1>3. \A i \in Loaded : i \in Nat /\ Closeness[t][memories[i].fact] \in Nat
  <2> SUFFICES ASSUME NEW i \in Loaded PROVE i \in Nat /\ Closeness[t][memories[i].fact] \in Nat
    OBVIOUS
  <2>1. i \in Nat /\ memories[i].fact \in Facts BY RowTyped DEF Loaded
  <2>2. Closeness[t] \in [Facts -> Nat] BY MemoryAssumption
  <2> QED BY <2>1, <2>2
<1>4. \A i \in Loaded : Sorted(t)[i] = {j \in Loaded : Closer(t, j, i)} BY DEF Sorted
<1>5. ASSUME NEW i \in Loaded PROVE ~Closer(t, i, i) BY <1>3 DEF Closer
<1>6. ASSUME NEW i \in Loaded, NEW j \in Loaded, i # j
      PROVE  (Closer(t, i, j) \/ Closer(t, j, i)) /\ ~(Closer(t, i, j) /\ Closer(t, j, i))
  BY <1>3, <1>6 DEF Closer
<1>7. ASSUME NEW i \in Loaded, NEW j \in Loaded, NEW l \in Loaded,
             Closer(t, l, i), Closer(t, i, j)
      PROVE  Closer(t, l, j)
  BY <1>3, <1>7 DEF Closer
<1>8. \A i \in Loaded : Sorted(t)[i] \in SUBSET (Loaded \ {i}) BY <1>4, <1>5
<1>9. \A i, j \in Loaded : i # j => i \in Sorted(t)[j] \/ j \in Sorted(t)[i] BY <1>4, <1>6
<1>10. \A i, j \in Loaded : i \in Sorted(t)[j] =>
          Sorted(t)[i] \in SUBSET Sorted(t)[j] /\ j \notin Sorted(t)[i]
  BY <1>4, <1>5, <1>6, <1>7
<1> QED BY <1>2, <1>8, <1>9, <1>10, FS_CardinalityType DEF Ordered

\* The n-th row of the sort is a loaded one, with n - 1 closer ones, all before it.
LEMMA RankedFacts ==
  ASSUME FactTypes, NEW t \in Turns
  PROVE  /\ Ranked(t) \in Seq(Loaded) /\ Len(Ranked(t)) = Cardinality(Loaded)
         /\ \A n \in 1..Len(Ranked(t)), i \in Loaded :
               Closer(t, i, Ranked(t)[n]) => \E m \in 1..n : Ranked(t)[m] = i
<1> DEFINE S == Loaded
           below == Sorted(t)
           at(n) == CHOOSE i \in S : Cardinality({j \in S : Closer(t, j, i)}) = n - 1
           C == Cardinality(S)
<1>1. Ordered(S, below) /\ C \in Nat BY SortedOrder
<1>2. \A i \in S : below[i] = {j \in S : Closer(t, j, i)} BY DEF Sorted
<1>3. Ranked(t) = [n \in 1..C |-> at(n)] BY DEF Ranked
<1> HIDE DEF S, below, C
<1>4. ASSUME NEW n \in 1..C
      PROVE  /\ at(n) \in S /\ Cardinality(below[at(n)]) = n - 1
             /\ \A i \in S : Cardinality(below[i]) = n - 1 => i = at(n)
  <2>1. n - 1 \in 0..(Cardinality(S) - 1) BY <1>1 DEF C
  <2>2. /\ \E i \in S : Cardinality(below[i]) = n - 1
        /\ \A i, j \in S : Cardinality(below[i]) = n - 1 /\ Cardinality(below[j]) = n - 1 => i = j
    BY <1>1, <2>1, PlaceTaken
  <2>3. \E i \in S : Cardinality({j \in S : Closer(t, j, i)}) = n - 1 BY <1>2, <2>2
  <2>4. at(n) \in S /\ Cardinality({j \in S : Closer(t, j, at(n))}) = n - 1 BY <2>3
  <2> HIDE DEF at
  <2> QED BY <1>2, <2>2, <2>4
<1> HIDE DEF at
<1>5. Ranked(t) \in Seq(S) /\ Len(Ranked(t)) = C BY <1>1, <1>3, <1>4
<1>6. ASSUME NEW n \in 1..C, NEW i \in S, Closer(t, i, at(n)) PROVE \E m \in 1..n : at(m) = i
  <2>1. at(n) \in S /\ Cardinality(below[at(n)]) = n - 1 BY <1>4
  <2>2. i \in below[at(n)] BY <1>2, <1>6, <2>1
  <2>3. Cardinality(below[i]) < n - 1 BY <1>1, <2>1, <2>2, LowerPlace
  <2>4. Cardinality(below[i]) \in Nat
    <3>1. IsFiniteSet(S) /\ below[i] \in SUBSET S BY <1>1 DEF Ordered
    <3> QED BY <3>1, FS_Subset, FS_CardinalityType
  <2>5. PICK m \in 1..n : m - 1 = Cardinality(below[i])
    <3>1. Cardinality(below[i]) + 1 \in 1..n BY <2>3, <2>4
    <3>2. (Cardinality(below[i]) + 1) - 1 = Cardinality(below[i]) BY <2>4
    <3> QED BY <3>1, <3>2
  <2>6. m \in 1..C BY <1>1
  <2> QED BY <1>4, <2>5, <2>6
<1>7. \A n \in 1..C : Ranked(t)[n] = at(n) BY <1>3
<1>8. \A n \in 1..C, i \in S : Closer(t, i, Ranked(t)[n]) => \E m \in 1..n : Ranked(t)[m] = i
  <2> SUFFICES ASSUME NEW n \in 1..C, NEW i \in S, Closer(t, i, Ranked(t)[n])
               PROVE  \E m \in 1..n : Ranked(t)[m] = i
    OBVIOUS
  <2>1. Ranked(t)[n] = at(n) BY <1>7
  <2>2. PICK m \in 1..n : at(m) = i BY <1>6, <2>1
  <2>3. m \in 1..C BY <1>1
  <2> QED BY <1>7, <2>2, <2>3
<1> QED BY <1>5, <1>8 DEF S, C

\* Rows that exist have sizes.
LEMMA SizesNat ==
  ASSUME FactTypes, NEW rows \in Seq(DOMAIN memories)
  PROVE  Sizes(rows) \in Seq(Nat) /\ Len(Sizes(rows)) = Len(rows)
<1>1. ASSUME NEW n \in 1..Len(rows) PROVE Tokens[memories[rows[n]].fact] \in Nat
  <2>1. rows[n] \in DOMAIN memories OBVIOUS
  <2>2. memories[rows[n]].fact \in Facts BY <2>1, RowTyped
  <2> QED BY <2>2, MemoryAssumption
<1>2. Len(rows) \in Nat OBVIOUS
<1> QED BY <1>1, <1>2 DEF Sizes

\* What a turn recalls exists, fits its budget, and leaves out nothing closer
\* than what it holds.
LEMMA RecalledFacts ==
  ASSUME FactTypes, NEW t \in Turns
  PROVE  /\ Recalled(t) \in Seq(Loaded)
         /\ Total(Sizes(Recalled(t))) <= MemoryBudget
         /\ \A n \in 1..Len(Recalled(t)), i \in Loaded :
               Closer(t, i, Recalled(t)[n]) => \E m \in 1..n : Recalled(t)[m] = i
<1> DEFINE all == Ranked(t)
           k   == IF Len(all) < settings.recallK THEN Len(all) ELSE settings.recallK
           top == SubSeq(all, 1, k)
           f   == Fitting(Sizes(top), MemoryBudget)
           R   == SubSeq(top, 1, f)
<1>1. /\ all \in Seq(Loaded)
      /\ \A n \in 1..Len(all), i \in Loaded : Closer(t, i, all[n]) => \E m \in 1..n : all[m] = i
  BY RankedFacts
<1>2. Recalled(t) = R BY DEF Recalled
<1>3. settings.recallK \in Nat BY DEF FactTypes
<1> HIDE DEF all
<1>4. k \in 0..Len(all) BY <1>1, <1>3
<1> HIDE DEF k
<1>5. top \in Seq(Loaded) /\ Len(top) = k /\ \A n \in 1..k : top[n] = all[n] BY <1>1, <1>4
<1> HIDE DEF top
<1>6. \A rows \in Seq(Loaded) : rows \in Seq(DOMAIN memories) BY DEF Loaded
<1>7. Sizes(top) \in Seq(Nat) /\ Len(Sizes(top)) = k BY <1>5, <1>6, SizesNat
<1>8. MemoryBudget \in Nat BY MemoryAssumption
<1>9. f \in 0..k /\ Totals(Sizes(top))[f] <= MemoryBudget BY <1>7, <1>8, FittingFacts
<1> HIDE DEF f
<1>10. R \in Seq(Loaded) /\ Len(R) = f /\ \A n \in 1..f : R[n] = top[n] BY <1>4, <1>5, <1>9
<1> HIDE DEF R
<1>11. Sizes(R) \in Seq(Nat) /\ Len(Sizes(R)) = f BY <1>6, <1>10, SizesNat
<1>12. \A n \in 1..f : Sizes(R)[n] = Sizes(top)[n]
  BY <1>4, <1>5, <1>9, <1>10 DEF Sizes
<1>13. Totals(Sizes(R))[f] = Totals(Sizes(top))[f]
  BY <1>4, <1>7, <1>9, <1>11, <1>12, TotalsAgree
<1>14. Total(Sizes(R)) <= MemoryBudget BY <1>9, <1>11, <1>13 DEF Total
<1>15. ASSUME NEW n \in 1..Len(R), NEW i \in Loaded, Closer(t, i, R[n])
       PROVE  \E m \in 1..n : R[m] = i
  <2>1. n \in 1..f /\ n \in 1..Len(all) /\ R[n] = all[n] BY <1>4, <1>5, <1>9, <1>10
  <2>2. PICK m \in 1..n : all[m] = i BY <1>1, <1>15, <2>1
  <2>3. m \in 1..f /\ m \in 1..k BY <1>4, <1>9, <2>1
  <2>4. R[m] = i BY <1>5, <1>10, <2>2, <2>3
  <2> QED BY <2>4
<1> QED BY <1>2, <1>10, <1>14, <1>15

\* Sizes of the messages from the last down to the first.
Back(first, last) == [n \in 1..(last + 1 - first) |-> messages[last + 1 - n].size]

LEMMA BackNat ==
  ASSUME FactTypes, NEW last \in 0..Len(messages), NEW first \in 1..(last + 1)
  PROVE  Back(first, last) \in Seq(Nat) /\ Len(Back(first, last)) = last + 1 - first
<1>1. messages \in Seq(Message) BY DEF FactTypes
<1>2. Len(messages) \in Nat /\ \A i \in 1..Len(messages) : messages[i] \in Message BY <1>1
<1>3. \A i \in 1..Len(messages) : messages[i].size \in Nat BY <1>2 DEF Message
<1>4. \A n \in 1..(last + 1 - first) : last + 1 - n \in 1..Len(messages) BY <1>2
<1>5. \A n \in 1..(last + 1 - first) : messages[last + 1 - n].size \in Nat BY <1>3, <1>4
<1>6. last + 1 - first \in Nat BY <1>2
<1> QED BY <1>5, <1>6 DEF Back

\* What fit_messages keeps ends with the last message, fits, and the one before
\* it would not.
LEMMA KeptFacts ==
  ASSUME FactTypes, NEW room \in Nat
  PROVE  \E first \in 1..(Len(messages) + 1) :
           /\ Kept(room) = <<first, Len(messages)>>
           /\ Total(Back(first, Len(messages))) <= room
           /\ first > 1 => Total(Back(first - 1, Len(messages))) > room
<1> DEFINE L == Len(messages)
           sizes == [n \in DOMAIN messages |-> messages[n].size]
           s == Reverse(sizes)
           f == Fitting(s, room)
           first == L + 1 - f
<1>1. messages \in Seq(Message) /\ L \in Nat /\ DOMAIN messages = 1..L BY DEF FactTypes
<1>2. \A i \in 1..L : messages[i].size \in Nat
  <2>1. \A i \in 1..L : messages[i] \in Message BY <1>1
  <2> QED BY <2>1 DEF Message
<1>3. sizes \in Seq(Nat) /\ Len(sizes) = L /\ \A i \in 1..L : sizes[i] = messages[i].size
  BY <1>1, <1>2
<1>4. s = [n \in 1..L |-> sizes[(L - n) + 1]] BY <1>3 DEF Reverse
<1> HIDE DEF sizes, s
<1>5. \A n \in 1..L : (L - n) + 1 \in 1..L /\ (L - n) + 1 = L + 1 - n BY <1>1
<1>6. \A n \in 1..L : s[n] = messages[L + 1 - n].size BY <1>3, <1>4, <1>5
<1>7. s \in Seq(Nat) /\ Len(s) = L
  <2>1. \A n \in 1..L : s[n] \in Nat BY <1>2, <1>5, <1>6
  <2>2. s = [n \in 1..L |-> s[n]] BY <1>4
  <2> QED BY <1>1, <2>1, <2>2
<1>8. f \in 0..L /\ Totals(s)[f] <= room /\ (f < L => Totals(s)[f + 1] > room)
  BY <1>7, FittingFacts
<1>9. Kept(room) = <<first, L>> BY DEF Kept, s, sizes
<1> HIDE DEF f, L
<1>10. ASSUME NEW n \in 0..L PROVE Total(Back(L + 1 - n, L)) = Totals(s)[n]
  <2> DEFINE a == L + 1 - n
             b == Back(a, L)
  <2>1. a \in 1..(L + 1) /\ L \in 0..Len(messages) /\ L + 1 - a = n BY <1>1, <1>10 DEF L
  <2>2. b \in Seq(Nat) /\ Len(b) = n BY <2>1, BackNat
  <2>3. \A i \in 1..n : b[i] = s[i] BY <1>1, <1>6, <2>1 DEF Back
  <2> HIDE DEF b
  <2>4. n \in Nat /\ n <= Len(b) /\ n <= Len(s) BY <1>1, <1>7, <2>2
  <2>5. Totals(b)[n] = Totals(s)[n] BY <1>7, <2>2, <2>3, <2>4, TotalsAgree
  <2> QED BY <2>2, <2>5 DEF Total, b
<1>11. first \in 1..(L + 1) /\ Total(Back(first, L)) <= room BY <1>1, <1>8, <1>10
<1>12. first > 1 => Total(Back(first - 1, L)) > room
  <2> SUFFICES ASSUME first > 1 PROVE Total(Back(first - 1, L)) > room OBVIOUS
  <2>1. f < L /\ f + 1 \in 0..L /\ first - 1 = L + 1 - (f + 1) BY <1>1, <1>8
  <2>2. Total(Back(L + 1 - (f + 1), L)) = Totals(s)[f + 1] BY <1>10, <2>1
  <2> QED BY <1>8, <2>1, <2>2
<1> HIDE DEF first
<1> QED BY <1>9, <1>11, <1>12 DEF L

\* What was recalled is in the prompt from here on.
Recollected(t) == pc[t] \in {"history", "call", "question", "answer", "done"}

\* The prompt of a turn refers to rows that exist and, from the moment it was
\* read, keeps what assemble_context promises.
Prompt(t) ==
  /\ recalled[t] \in Seq(DOMAIN memories)
  /\ before[t].memories \in 0..Len(memories) /\ before[t].replied \subseteq replied
  /\ context[t][2] \in 0..Len(messages) /\ context[t][1] \in 1..(context[t][2] + 1)
  /\ Recollected(t) => Used(t) <= MemoryBudget /\ ClosestRecalled(t)
  /\ Assembled(t) => WithinBudget(t) /\ FollowsAnswers(t)

\* A waiting client is served once its answer is stored.
Served == replied \subseteq Turns /\ \A u \in replied \ Streams : Answered(u)

PromptShapes ==
  /\ recalled \in [Turns -> Seq(Nat)] /\ context \in [Turns -> Nat \X Nat]
  /\ before \in [Turns -> [memories : Nat, replied : SUBSET Turns]]

PromptIInv == PromptShapes /\ Served /\ \A t \in Turns : Prompt(t)

\* Rows are only appended.
Grows ==
  /\ Len(memories) <= Len(memories') /\ Len(messages) <= Len(messages')
  /\ \A i \in DOMAIN memories : memories'[i] = memories[i]
  /\ \A i \in DOMAIN messages : messages'[i] = messages[i]

\* The tables as sequences, now and after a step.
LEMMA Tables ==
  /\ FactTypes => /\ DOMAIN memories = 1..Len(memories) /\ Len(memories) \in Nat
                  /\ DOMAIN messages = 1..Len(messages) /\ Len(messages) \in Nat
  /\ FactTypes' => /\ DOMAIN memories' = 1..Len(memories') /\ Len(memories') \in Nat
                   /\ DOMAIN messages' = 1..Len(messages') /\ Len(messages') \in Nat
BY DEF FactTypes, Learned

LEMMA AnsweredKept ==
  ASSUME FactTypes, FactTypes', Grows, NEW u, Answered(u)
  PROVE  Answered(u)'
<1>1. PICK n \in DOMAIN messages : messages[n].role = "assistant" /\ messages[n].turn = u
  BY DEF Answered
<1>2. n \in DOMAIN messages' /\ messages'[n] = messages[n] BY <1>1, Tables DEF Grows
<1> QED BY <1>1, <1>2 DEF Answered

\* The prompt of a turn that others' steps do not touch keeps its promise.
LEMMA PromptKept ==
  ASSUME FactTypes, FactTypes', Grows, NEW t \in Turns, Prompt(t),
         UNCHANGED <<recalled[t], context[t], before[t]>>, replied \subseteq replied',
         Recollected(t)' => Recollected(t), Assembled(t)' => Assembled(t)
  PROVE  Prompt(t)'
<1> DEFINE r == recalled[t]
           last == context[t][2]
           first == context[t][1]
<1>1. /\ DOMAIN memories = 1..Len(memories) /\ Len(memories) \in Nat
      /\ DOMAIN messages = 1..Len(messages) /\ Len(messages) \in Nat
      /\ DOMAIN memories' = 1..Len(memories') /\ Len(memories') \in Nat
      /\ DOMAIN messages' = 1..Len(messages') /\ Len(messages') \in Nat
  BY Tables
<1>2. DOMAIN memories \subseteq DOMAIN memories' /\ DOMAIN messages \subseteq DOMAIN messages'
  BY <1>1 DEF Grows
<1>3. recalled'[t] = r /\ context'[t] = context[t] /\ before'[t] = before[t] OBVIOUS
<1>4. r \in Seq(DOMAIN memories) BY DEF Prompt
<1>5. recalled'[t] \in Seq(DOMAIN memories') BY <1>2, <1>3, <1>4
<1>6. before'[t].memories \in 0..Len(memories') /\ before'[t].replied \subseteq replied'
  BY <1>1, <1>3 DEF Prompt, Grows
<1>7. last \in 0..Len(messages) /\ first \in 1..(last + 1) BY DEF Prompt
<1>8. context'[t][2] \in 0..Len(messages') /\ context'[t][1] \in 1..(context'[t][2] + 1)
  BY <1>1, <1>3, <1>7 DEF Grows
<1>9. Used(t)' = Used(t)
  <2>1. Sizes(r)' = Sizes(r)
    <3>1. PICK rows : rows = r OBVIOUS
    <3>2. [n \in 1..Len(rows) |-> Tokens[memories'[rows[n]].fact]]
          = [n \in 1..Len(rows) |-> Tokens[memories[rows[n]].fact]]
      <4>1. \A n \in 1..Len(rows) : rows[n] \in DOMAIN memories BY <1>4, <3>1
      <4>2. \A n \in 1..Len(rows) : memories'[rows[n]] = memories[rows[n]] BY <4>1 DEF Grows
      <4> QED BY <4>2
    <3> QED BY <1>3, <3>1, <3>2 DEF Sizes
  <2> QED BY <1>3, <2>1 DEF Used, Sizes
<1>10. ASSUME Recollected(t)' PROVE Used(t)' <= MemoryBudget /\ ClosestRecalled(t)'
  <2>1. Used(t) <= MemoryBudget /\ ClosestRecalled(t) BY <1>10 DEF Prompt
  <2>2. ClosestRecalled(t)'
    <3> SUFFICES ASSUME NEW n \in DOMAIN r, NEW i \in 1..before[t].memories,
                        memories'[i].model = memories'[r[n]].model,
                        Closeness[t][memories'[i].fact] > Closeness[t][memories'[r[n]].fact]
                 PROVE  \E m \in 1..n : r[m] = i
      BY <1>3 DEF ClosestRecalled
    <3>1. i \in DOMAIN memories BY <1>1 DEF Prompt
    <3>2. r[n] \in DOMAIN memories BY <1>4
    <3>3. memories'[i] = memories[i] /\ memories'[r[n]] = memories[r[n]] BY <3>1, <3>2 DEF Grows
    <3> QED BY <2>1, <3>3 DEF ClosestRecalled
  <2> QED BY <1>9, <2>1, <2>2
<1>11. ASSUME Assembled(t)' PROVE WithinBudget(t)' /\ FollowsAnswers(t)'
  <2>1. WithinBudget(t) /\ FollowsAnswers(t) BY <1>11 DEF Prompt
  <2>2. ASSUME NEW low \in 1..(last + 1)
        PROVE  [n \in 1..(last + 1 - low) |-> messages'[last + 1 - n].size]
               = [n \in 1..(last + 1 - low) |-> messages[last + 1 - n].size]
    <3>1. \A n \in 1..(last + 1 - low) : last + 1 - n \in DOMAIN messages BY <1>1, <1>7
    <3>2. \A n \in 1..(last + 1 - low) : messages'[last + 1 - n] = messages[last + 1 - n]
      BY <3>1 DEF Grows
    <3> QED BY <3>2
  <2>3. first > 1 => first - 1 \in 1..(last + 1) BY <1>1, <1>7
  <2>4. WithinBudget(t)' BY <1>3, <1>7, <1>9, <2>1, <2>2, <2>3 DEF WithinBudget
  <2>5. FollowsAnswers(t)'
    <3> SUFFICES ASSUME NEW u \in before[t].replied \ Streams
                 PROVE  \E i \in 1..last : messages'[i].role = "assistant" /\ messages'[i].turn = u
      BY <1>3 DEF FollowsAnswers
    <3>1. PICK i \in 1..last : messages[i].role = "assistant" /\ messages[i].turn = u
      BY <2>1 DEF FollowsAnswers
    <3>2. i \in DOMAIN messages BY <1>1, <1>7
    <3> QED BY <3>1, <3>2 DEF Grows
  <2> QED BY <2>4, <2>5
<1> QED BY <1>5, <1>6, <1>8, <1>10, <1>11 DEF Prompt

\* A server starts with empty tables, and no turn has begun.
LEMMA PromptInit == Init => PromptIInv
<1> SUFFICES ASSUME Init PROVE PromptIInv OBVIOUS
<1>1. PromptShapes /\ Served BY DEF Init, PromptShapes, Served
<1>2. ASSUME NEW t \in Turns PROVE Prompt(t)
  <2>1. recalled[t] = <<>> /\ context[t] = <<1, 0>> /\ before[t] = [memories |-> 0, replied |-> {}]
        /\ pc[t] = "idle" /\ Len(memories) = 0 /\ Len(messages) = 0
    BY DEF Init
  <2>2. <<>> \in Seq(DOMAIN memories) OBVIOUS
  <2>3. ~Recollected(t) /\ ~Assembled(t) BY <2>1 DEF Recollected, Assembled
  <2> QED BY <2>1, <2>2, <2>3 DEF Prompt
<1> QED BY <1>1, <1>2 DEF PromptIInv

\* A step that reads no prompt keeps every prompt.
LEMMA PromptStep ==
  ASSUME FactTypes, FactTypes', PromptIInv, Grows,
         UNCHANGED <<recalled, context, before>>,
         replied \subseteq replied', replied' \subseteq Turns,
         \A u \in replied' \ (replied \cup Streams) : Answered(u)',
         \A u \in Turns : (Recollected(u)' => Recollected(u)) /\ (Assembled(u)' => Assembled(u))
  PROVE  PromptIInv'
<1>1. PromptShapes' BY DEF PromptIInv, PromptShapes
<1>2. \A u : Answered(u) => Answered(u)' BY AnsweredKept
<1>3. Served' BY <1>2 DEF PromptIInv, Served
<1>4. ASSUME NEW t \in Turns PROVE Prompt(t)'
  <2>1. Prompt(t) /\ UNCHANGED <<recalled[t], context[t], before[t]>> BY DEF PromptIInv
  <2> QED BY <2>1, PromptKept
<1> QED BY <1>1, <1>3, <1>4 DEF PromptIInv

\* A step of one turn that touches its own prompt alone.
LEMMA OwnPrompt ==
  ASSUME FactTypes, FactTypes', PromptIInv, PromptShapes', NEW t \in Turns, Prompt(t)',
         UNCHANGED <<memories, messages, replied>>,
         \A u \in Turns \ {t} : UNCHANGED <<recalled[u], context[u], before[u], pc[u]>>
  PROVE  PromptIInv'
<1>1. Grows BY Tables DEF Grows
<1>2. Served' BY DEF PromptIInv, Served, Answered
<1>3. ASSUME NEW u \in Turns \ {t} PROVE Prompt(u)'
  <2>1. Prompt(u) /\ UNCHANGED <<recalled[u], context[u], before[u]>> BY DEF PromptIInv
  <2>2. (Recollected(u)' => Recollected(u)) /\ (Assembled(u)' => Assembled(u))
    BY DEF Recollected, Assembled
  <2> QED BY <1>1, <2>1, <2>2, PromptKept
<1> QED BY <1>2, <1>3 DEF PromptIInv

\* Begin notes what is there.
LEMMA BeginPrompt ==
  ASSUME FactTypes, FactTypes', PromptIInv, NEW t \in Turns, Begin(t)
  PROVE  PromptIInv'
<1>1. /\ before' = [before EXCEPT ![t] = [memories |-> Len(memories), replied |-> replied]]
      /\ pc' = [pc EXCEPT ![t] = "recall"]
      /\ UNCHANGED <<memories, messages, recalled, context, replied>>
  BY DEF Begin, Goto
<1>2. PromptShapes /\ Prompt(t) /\ replied \subseteq Turns BY DEF PromptIInv, Served
<1>3. Len(memories) \in Nat BY Tables
<1>4. PromptShapes' BY <1>1, <1>2, <1>3 DEF PromptShapes
<1>5. before'[t] = [memories |-> Len(memories), replied |-> replied] BY <1>1, <1>2 DEF PromptShapes
<1>6. pc'[t] = "recall" BY <1>1 DEF FactTypes
<1>7. ~Recollected(t)' /\ ~Assembled(t)' BY <1>6 DEF Recollected, Assembled
<1>8. Prompt(t)' BY <1>1, <1>2, <1>3, <1>5, <1>7 DEF Prompt
<1>9. \A u \in Turns \ {t} : UNCHANGED <<recalled[u], context[u], before[u], pc[u]>>
  BY <1>1, <1>2 DEF PromptShapes, FactTypes
<1> QED BY <1>1, <1>4, <1>8, <1>9, OwnPrompt

\* Recall leaves out nothing closer than what it holds.
LEMMA RecallPrompt ==
  ASSUME FactTypes, FactTypes', PromptIInv, NEW t \in Turns, Recall(t)
  PROVE  PromptIInv'
<1>1. /\ recalled' = [recalled EXCEPT ![t] = Recalled(t)]
      /\ pc' = [pc EXCEPT ![t] = "history"]
      /\ UNCHANGED <<memories, messages, before, context, replied>>
  BY DEF Recall, Goto
<1>2. PromptShapes /\ Prompt(t) BY DEF PromptIInv
<1>3. PICK r : r = Recalled(t) OBVIOUS
<1>4. /\ r \in Seq(Loaded) /\ Total(Sizes(r)) <= MemoryBudget
      /\ \A n \in 1..Len(r), i \in Loaded : Closer(t, i, r[n]) => \E m \in 1..n : r[m] = i
  BY <1>3, RecalledFacts
<1>5. DOMAIN memories = 1..Len(memories) /\ Len(memories) \in Nat BY Tables
<1>6. Loaded \subseteq DOMAIN memories BY DEF Loaded
<1>7. r \in Seq(DOMAIN memories) BY <1>4, <1>6
<1>8. r \in Seq(Nat)
  <2>1. DOMAIN memories \subseteq Nat BY <1>5
  <2> QED BY <1>7, <2>1
<1>9. PromptShapes' BY <1>1, <1>2, <1>3, <1>8 DEF PromptShapes
<1>10. recalled'[t] = r BY <1>1, <1>2, <1>3 DEF PromptShapes
<1>11. Used(t)' <= MemoryBudget BY <1>1, <1>4, <1>10 DEF Used, Sizes
<1>12. ClosestRecalled(t)'
  <2> SUFFICES ASSUME NEW n \in 1..Len(r), NEW i \in 1..before[t].memories,
                      memories[i].model = memories[r[n]].model,
                      Closeness[t][memories[i].fact] > Closeness[t][memories[r[n]].fact]
               PROVE  \E m \in 1..n : r[m] = i
    BY <1>1, <1>4, <1>10 DEF ClosestRecalled
  <2>1. i \in DOMAIN memories BY <1>2, <1>5 DEF Prompt
  <2>2. r[n] \in Loaded BY <1>4
  <2>3. i \in Loaded BY <2>1, <2>2 DEF Loaded
  <2>4. Closer(t, i, r[n]) BY DEF Closer
  <2> QED BY <1>4, <2>3, <2>4
<1>13. pc'[t] = "history" BY <1>1 DEF FactTypes
<1>14. ~Assembled(t)' BY <1>13 DEF Assembled
<1>15. recalled'[t] \in Seq(DOMAIN memories)' BY <1>1, <1>7, <1>10
<1>16. Prompt(t)' BY <1>1, <1>2, <1>11, <1>12, <1>14, <1>15 DEF Prompt
<1>17. \A u \in Turns \ {t} : UNCHANGED <<recalled[u], context[u], before[u], pc[u]>>
  BY <1>1, <1>2 DEF PromptShapes, FactTypes
<1> QED BY <1>1, <1>9, <1>16, <1>17, OwnPrompt

\* The messages take the room the memories leave, the latest first.
LEMMA HistoryPrompt ==
  ASSUME FactTypes, FactTypes', PromptIInv, NEW t \in Turns, ReadHistory(t)
  PROVE  PromptIInv'
<1>1. /\ context' = [context EXCEPT ![t] = Kept(ContextBudget - Used(t))]
      /\ pc' = [pc EXCEPT ![t] = "call"] /\ pc[t] = "history"
      /\ UNCHANGED <<memories, messages, before, recalled, replied>>
  BY DEF ReadHistory, Goto
<1>2. PromptShapes /\ Prompt(t) /\ Served BY DEF PromptIInv
<1>3. Recollected(t) BY <1>1 DEF Recollected
<1>4. Used(t) \in Nat
  <2>1. recalled[t] \in Seq(DOMAIN memories) BY <1>2 DEF Prompt
  <2>2. Sizes(recalled[t]) \in Seq(Nat) BY <2>1, SizesNat
  <2>3. Len(Sizes(recalled[t])) \in 0..Len(Sizes(recalled[t])) BY <2>2
  <2> QED BY <2>2, <2>3, TotalsFacts DEF Used, Total
<1>5. Used(t) <= MemoryBudget /\ ClosestRecalled(t) BY <1>2, <1>3 DEF Prompt
<1>6. PICK used : used = Used(t) OBVIOUS
<1>7. PICK room : room = ContextBudget - used OBVIOUS
<1>8. used \in Nat /\ used <= MemoryBudget /\ room \in Nat /\ used + room = ContextBudget
  BY <1>4, <1>5, <1>6, <1>7, MemoryAssumption
<1>9. PICK last : last = Len(messages) OBVIOUS
<1>10. last \in Nat /\ DOMAIN messages = 1..last BY <1>9, Tables
<1>11. PICK first \in 1..(last + 1) :
         /\ Kept(room) = <<first, last>>
         /\ Total(Back(first, last)) <= room
         /\ first > 1 => Total(Back(first - 1, last)) > room
  BY <1>8, <1>9, KeptFacts
<1>12. context'[t] = <<first, last>> BY <1>1, <1>2, <1>6, <1>7, <1>11 DEF PromptShapes
<1>13. PromptShapes'
  <2>1. Kept(room) \in Nat \X Nat BY <1>10, <1>11
  <2> QED BY <1>1, <1>2, <1>6, <1>7, <2>1 DEF PromptShapes
<1>14. Used(t)' = used BY <1>1, <1>6 DEF Used, Sizes
<1>15. \A low \in 1..(last + 1) : Total(Back(low, last)) \in Nat
  <2> SUFFICES ASSUME NEW low \in 1..(last + 1) PROVE Total(Back(low, last)) \in Nat OBVIOUS
  <2>1. last \in 0..Len(messages) BY <1>9, <1>10
  <2>2. Back(low, last) \in Seq(Nat) BY <2>1, BackNat
  <2>3. Len(Back(low, last)) \in 0..Len(Back(low, last)) BY <2>2
  <2> QED BY <2>2, <2>3, TotalsFacts DEF Total
<1>16. WithinBudget(t)'
  <2>1. used + Total(Back(first, last)) <= ContextBudget BY <1>8, <1>11, <1>15
  <2>2. first > 1 => used + Total(Back(first - 1, last)) > ContextBudget
    <3> SUFFICES ASSUME first > 1 PROVE used + Total(Back(first - 1, last)) > ContextBudget OBVIOUS
    <3>1. first - 1 \in 1..(last + 1) BY <1>10
    <3>2. Total(Back(first - 1, last)) \in Nat BY <1>15, <3>1
    <3> QED BY <1>8, <1>11, <3>2
  <2>3. context'[t][1] = first /\ context'[t][2] = last BY <1>12
  <2>4. /\ used <= MemoryBudget
        /\ used + Total([n \in 1..(last + 1 - first) |-> messages[last + 1 - n].size]) <= ContextBudget
        /\ first > 1 =>
             used + Total([n \in 1..(last + 1 - (first - 1)) |-> messages[last + 1 - n].size]) > ContextBudget
    BY <1>8, <2>1, <2>2 DEF Back
  <2>5. \A low : [n \in 1..(context'[t][2] + 1 - low) |-> messages'[context'[t][2] + 1 - n].size]
                 = [n \in 1..(last + 1 - low) |-> messages[last + 1 - n].size]
    BY <1>1, <2>3
  <2> QED BY <1>14, <2>3, <2>4, <2>5 DEF WithinBudget
<1>17. FollowsAnswers(t)'
  <2> SUFFICES ASSUME NEW u \in before[t].replied \ Streams
               PROVE  \E i \in 1..last : messages[i].role = "assistant" /\ messages[i].turn = u
    BY <1>1, <1>12 DEF FollowsAnswers
  <2>1. u \in replied \ Streams BY <1>2 DEF Prompt
  <2>2. Answered(u) BY <1>2, <2>1 DEF Served
  <2> QED BY <1>10, <2>2 DEF Answered
<1>18. ClosestRecalled(t)' BY <1>1, <1>5 DEF ClosestRecalled
<1>19. context'[t][2] \in 0..Len(messages') /\ context'[t][1] \in 1..(context'[t][2] + 1)
  BY <1>1, <1>9, <1>10, <1>12
<1>20. Prompt(t)' BY <1>1, <1>2, <1>8, <1>14, <1>16, <1>17, <1>18, <1>19 DEF Prompt
<1>21. \A u \in Turns \ {t} : UNCHANGED <<recalled[u], context[u], before[u], pc[u]>>
  BY <1>1, <1>2 DEF PromptShapes, FactTypes
<1> QED BY <1>1, <1>13, <1>20, <1>21, OwnPrompt

\* Tables that stay or get one more row.
LEMMA Appended ==
  ASSUME FactTypes,
         memories' = memories \/ (\E x : memories' = Append(memories, x)),
         messages' = messages \/ (\E x : messages' = Append(messages, x))
  PROVE  Grows
<1>1. memories \in Seq([fact : Facts, model : Models, turn : Turns]) /\ messages \in Seq(Message)
  BY DEF FactTypes, Learned
<1>2. Len(memories) <= Len(memories') /\ \A i \in DOMAIN memories : memories'[i] = memories[i]
  <2>1. CASE memories' = memories BY <1>1, <2>1
  <2>2. CASE \E x : memories' = Append(memories, x) BY <1>1, <2>2
  <2> QED BY <2>1, <2>2
<1>3. Len(messages) <= Len(messages') /\ \A i \in DOMAIN messages : messages'[i] = messages[i]
  <2>1. CASE messages' = messages BY <1>1, <2>1
  <2>2. CASE \E x : messages' = Append(messages, x) BY <1>1, <2>2
  <2> QED BY <2>1, <2>2
<1> QED BY <1>2, <1>3 DEF Grows

\* Where a turn may go without reading its prompt again.
LEMMA OnlyOnward ==
  ASSUME FactTypes, NEW t \in Turns, NEW there,
         \/ pc' = pc
         \/ pc' = [pc EXCEPT ![t] = there]
            /\ (there = "failed" \/ (Assembled(t) /\ there \in {"call", "question", "answer", "done"}))
  PROVE  \A u \in Turns : (Recollected(u)' => Recollected(u)) /\ (Assembled(u)' => Assembled(u))
BY DEF FactTypes, Recollected, Assembled

\* The other steps of a turn.
LEMMA TurnPrompt ==
  ASSUME FactTypes, FactTypes', PromptIInv, NEW t \in Turns,
         \/ Complete(t) \/ StreamEnds(t) \/ AppendQuestion(t) \/ AppendAnswer(t)
         \/ AppendQuestionFails(t) \/ AppendAnswerFails(t) \/ Fails(t) \/ Disconnect(t)
  PROVE  PromptIInv'
<1> USE DEF Goto
<1>1. UNCHANGED <<memories, recalled, context, before>>
  BY DEF Complete, StreamEnds, AppendQuestion, AppendAnswer, AppendQuestionFails,
         AppendAnswerFails, Fails, Disconnect, jobVars
<1>2. messages' = messages \/ (\E x : messages' = Append(messages, x))
  BY DEF Complete, StreamEnds, AppendQuestion, AppendAnswer, AppendQuestionFails,
         AppendAnswerFails, Fails, Disconnect
<1>3. Grows BY <1>1, <1>2, Appended
<1>4. PICK there :
        /\ pc' = [pc EXCEPT ![t] = there]
        /\ there = "failed" \/ (Assembled(t) /\ there \in {"call", "question", "answer", "done"})
  <2>1. CASE Complete(t) \/ StreamEnds(t) \/ AppendQuestion(t) \/ AppendAnswer(t)
    BY <2>1 DEF Complete, StreamEnds, AppendQuestion, AppendAnswer, Assembled
  <2>2. CASE AppendQuestionFails(t) \/ AppendAnswerFails(t) \/ Fails(t)
    BY <2>2 DEF AppendQuestionFails, AppendAnswerFails, Fails, Assembled
  <2>3. CASE Disconnect(t) BY <2>3 DEF Disconnect, Assembled
  <2> QED BY <2>1, <2>2, <2>3
<1>5. \A u \in Turns : (Recollected(u)' => Recollected(u)) /\ (Assembled(u)' => Assembled(u))
  BY <1>4, OnlyOnward
<1>6. replied \subseteq Turns BY DEF PromptIInv, Served
<1>7. CASE StreamEnds(t)
  <2>1. replied' = replied \cup {t} /\ t \in Streams BY <1>7 DEF StreamEnds
  <2> QED BY <1>1, <1>3, <1>5, <1>6, <2>1, PromptStep
<1>8. CASE AppendAnswer(t)
  <2>1. /\ replied' = replied \cup {t}
        /\ messages' = Append(messages, [role |-> "assistant", turn |-> t, size |-> reply[t]])
    BY <1>8 DEF AppendAnswer
  <2>2. messages \in Seq(Message) BY DEF FactTypes
  <2>3. Answered(t)'
    <3>1. Len(messages) + 1 \in DOMAIN messages'
          /\ messages'[Len(messages) + 1] = [role |-> "assistant", turn |-> t, size |-> reply[t]]
      BY <2>1, <2>2
    <3> QED BY <3>1 DEF Answered
  <2> QED BY <1>1, <1>3, <1>5, <1>6, <2>1, <2>3, PromptStep
<1>9. CASE ~StreamEnds(t) /\ ~AppendAnswer(t)
  <2>1. replied' = replied
    BY <1>9 DEF Complete, AppendQuestion, AppendQuestionFails, AppendAnswerFails, Fails, Disconnect
  <2> QED BY <1>1, <1>3, <1>5, <1>6, <2>1, PromptStep
<1> QED BY <1>7, <1>8, <1>9

\* Extractions and restarts read no prompt.
LEMMA ElsePrompt ==
  ASSUME FactTypes, FactTypes', PromptIInv,
         \/ \E t \in Turns : Extraction(t) \/ ExtractFails(t) \/ RememberFails(t)
         \/ Restart \/ UNCHANGED vars
  PROVE  PromptIInv'
<1>1. /\ UNCHANGED <<messages, recalled, context, before, replied>>
      /\ memories' = memories \/ (\E x : memories' = Append(memories, x))
      /\ pc' = pc \/ pc' = [t \in Turns |-> IF pc[t] \in {"idle", "done"} THEN pc[t] ELSE "failed"]
  <2>1. CASE \E t \in Turns : Extraction(t) \/ ExtractFails(t) \/ RememberFails(t)
    BY <2>1 DEF Extraction, Extract, Compare, Insert, ExtractFails, RememberFails, turnVars
  <2>2. CASE Restart BY <2>2 DEF Restart
  <2>3. CASE UNCHANGED vars BY <2>3 DEF vars, turnVars
  <2> QED BY <2>1, <2>2, <2>3
<1>2. Grows BY <1>1, Appended
<1>3. \A u \in Turns : (Recollected(u)' => Recollected(u)) /\ (Assembled(u)' => Assembled(u))
  BY <1>1 DEF Recollected, Assembled
<1>4. replied \subseteq Turns BY DEF PromptIInv, Served
<1> QED BY <1>1, <1>2, <1>3, <1>4, PromptStep

\* Prompts keep what was promised of them, whatever the others do.
LEMMA PromptNext == FactTypes /\ FactTypes' /\ PromptIInv /\ [Next]_vars => PromptIInv'
<1> SUFFICES ASSUME FactTypes, FactTypes', PromptIInv, [Next]_vars PROVE PromptIInv' OBVIOUS
<1>1. ASSUME NEW t \in Turns, Turn(t) \/ Trouble(t) \/ Extraction(t) PROVE PromptIInv'
  BY <1>1, BeginPrompt, RecallPrompt, HistoryPrompt, TurnPrompt, ElsePrompt DEF Turn, Trouble
<1>2. CASE Restart \/ UNCHANGED vars BY <1>2, ElsePrompt
<1> QED BY <1>1, <1>2 DEF Next

\* For any number of turns, any sizes, budgets, closeness and embedders,
\* through failures, disconnects and restarts: a prompt holds the closest facts
\* and the latest messages that fit the budget, no fewer, and follows every
\* answer its client had.
THEOREM FaithfulContext == Spec => []ContextFaithful
<1>1. Spec => []PromptIInv
  <2>1. IInv => FactTypes BY DEF IInv
  <2> QED BY <2>1, Invariance, PromptInit, PromptNext, PTL DEF Spec
<1>2. PromptIInv => ContextFaithful 
  BY DEF PromptIInv, Prompt, ContextFaithful, Recollected, Assembled
<1> QED BY <1>1, <1>2, PTL
-----------------------------------------------------------------------------
(***************************************************************************)
(* The studio, for any number of tasks, entries, files, edits, failures    *)
(* and reboots.  The argument: a task that has met no other rebuild of a   *)
(* list holds the file's list and the rows as they are, for whoever        *)
(* changes either begins a rebuild of its own; so what it publishes is the *)
(* merge of both.  Everything the pages show and every reference follows   *)
(* from that merge, a removal from the tombstone it leaves, and a process  *)
(* that refused to boot has no task that could change anything.            *)
(***************************************************************************)
Task == [pc : {"idle", "look", "drop", "load", "list", "publish"}, reload : BOOLEAN,
         list : Lists, name : Names \cup {None}, backed : BOOLEAN,
         doc : [Lists -> List], rows : Rows]

StudioTypes ==
  /\ declared \in Files /\ stored \in [Lists -> Rows] /\ served \in [Lists -> List]
  /\ editor \in [Editors -> Task]
  /\ alone \in [Lists -> Editors \cup {None}] /\ exact \in [Lists -> BOOLEAN]
  /\ hidden \subseteq Lists \X Names

\* Busy, of a task's locals.
Holding(e) ==
  IF e.pc \notin {"load", "list", "publish"} THEN {}
  ELSE IF e.reload THEN {l \in Lists : Place(l) >= Place(e.list)}
  ELSE {e.list}

\* A removal has a name; neither it nor a task about to load one list is a reload.
Named ==
  \A x \in Editors :
    /\ editor[x].pc \in {"look", "drop"} => editor[x].name \in Names
    /\ editor[x].pc \in {"look", "drop", "load"} => ~editor[x].reload

\* Who is alone with a list rebuilds it, and nobody else does.
Alone ==
  \A l \in Lists, x \in Editors :
    alone[l] = x =>
      /\ l \in Holding(editor[x])
      /\ \A y \in Editors \ {x} : l \notin Holding(editor[y])

\* What it has read of the list still stands.
Current ==
  \A l \in Lists, x \in Editors :
    alone[l] = x =>
      /\ editor[x].pc \in {"list", "publish"} => editor[x].doc[l] = declared[l]
      /\ editor[x].pc = "publish" /\ editor[x].list = l => editor[x].rows = stored[l]

\* A list nobody rebuilds, last rebuilt by one who met no other, is the merge.
Merged ==
  \A l \in Lists :
    exact[l] /\ (\A x \in Editors : l \notin Holding(editor[x]))
      => served[l] = Merge(declared[l], stored[l])

\* A removed entry of the file has its tombstone.
Buried == \A e \in hidden : stored[e[1]][e[2]] = Tombstone

\* A process that did not come up runs no task.
Still == server = "refused" => \A x \in Editors : editor[x].pc = "idle"

StudioIInv ==
  StudioTypes /\ Named /\ Alone /\ Current /\ Merged /\ Buried /\ Still /\ JudgesBuilt

\* The lists and their places in a reload.
LEMMA Places ==
  /\ \A l \in Lists : Place(l) \in 1..4 /\ Order[Place(l)] = l
  /\ \A i \in 1..4 : Order[i] \in Lists /\ Place(Order[i]) = i
<1>1. /\ Order[1] = "agents" /\ Order[2] = "judges" /\ Order[3] = "experiments" /\ Order[4] = "smoke"
  BY DEF Order
<1>2. \A i \in 1..4 : i = 1 \/ i = 2 \/ i = 3 \/ i = 4 OBVIOUS
<1>3. 1 \in 1..4 /\ 2 \in 1..4 /\ 3 \in 1..4 /\ 4 \in 1..4 OBVIOUS
<1>4. \A l \in Lists : \E i \in 1..4 : Order[i] = l BY <1>1, <1>3 DEF Lists
<1>5. \A l \in Lists : Place(l) \in 1..4 /\ Order[Place(l)] = l BY <1>4 DEF Place
<1>6. \A i \in 1..4 : Order[i] \in Lists BY <1>1, <1>2 DEF Lists
<1>7. \A i, j \in 1..4 : Order[i] = Order[j] => i = j BY <1>1, <1>2
<1>8. ASSUME NEW i \in 1..4 PROVE Place(Order[i]) = i
  <2>1. Order[i] \in Lists BY <1>6
  <2>2. Place(Order[i]) \in 1..4 /\ Order[Place(Order[i])] = Order[i] BY <1>5, <2>1
  <2> QED BY <1>7, <2>2
<1> QED BY <1>5, <1>6, <1>8

\* What a task holds are lists.
LEMMA HoldsLists == \A e \in Task : Holding(e) \in SUBSET Lists
BY DEF Holding, Task

\* Turning to the next list lets go of the current one alone.
LEMMA NextList ==
  ASSUME NEW e \in Task, e.pc \in {"list", "publish"}, e.reload, Place(e.list) < 4,
         NEW f \in Task, f.pc = "list", f.reload, f.list = Order[Place(e.list) + 1]
  PROVE  Holding(f) = Holding(e) \ {e.list}
<1>1. e.list \in Lists /\ Place(e.list) \in 1..4 BY Places DEF Task
<1>2. PICK i : i = Place(e.list) OBVIOUS
<1>3. i \in 1..4 /\ i + 1 \in 1..4 BY <1>1, <1>2
<1>4. Place(f.list) = i + 1 BY <1>2, <1>3, Places
<1>5. \A l \in Lists : Place(l) \in Nat /\ (Place(l) = i <=> l = e.list)
  <2> SUFFICES ASSUME NEW l \in Lists PROVE Place(l) \in Nat /\ (Place(l) = i <=> l = e.list) OBVIOUS
  <2>1. Place(l) \in 1..4 /\ Order[Place(l)] = l /\ Order[i] = e.list BY <1>1, <1>2, Places
  <2> QED BY <1>2, <2>1
<1>6. Holding(e) = {l \in Lists : Place(l) >= i} BY <1>2 DEF Holding
<1>7. Holding(f) = {l \in Lists : Place(l) >= i + 1} BY <1>4 DEF Holding
<1>8. \A l \in Lists : Place(l) >= i + 1 <=> Place(l) >= i /\ l # e.list BY <1>3, <1>5
<1> QED BY <1>6, <1>7, <1>8

\* The last list of a reload, and the only one of a request.
LEMMA LastList ==
  ASSUME NEW e \in Task, e.pc \in {"list", "publish"}, ~(e.reload /\ Place(e.list) < 4)
  PROVE  Holding(e) = {e.list}
<1>1. CASE ~e.reload BY <1>1 DEF Holding
<1>2. CASE e.reload
  <2>1. e.list \in Lists /\ Place(e.list) \in 1..4 BY Places DEF Task
  <2>2. Place(e.list) = 4 BY <1>2, <2>1
  <2>3. \A l \in Lists : Place(l) >= 4 <=> l = e.list
    <3> SUFFICES ASSUME NEW l \in Lists PROVE Place(l) >= 4 <=> l = e.list OBVIOUS
    <3>1. Place(l) \in 1..4 /\ Order[Place(l)] = l /\ Order[Place(e.list)] = e.list
      BY <2>1, Places
    <3>2. Place(l) >= 4 => Place(l) = 4 BY <3>1
    <3>3. Place(l) = 4 => Place(l) >= 4 OBVIOUS
    <3> QED BY <2>2, <3>1, <3>2, <3>3
  <2>4. Holding(e) = {l \in Lists : Place(l) >= Place(e.list)} BY <1>2 DEF Holding
  <2>5. \A l \in Lists : Place(l) >= Place(e.list) <=> l = e.list BY <2>2, <2>3
  <2> QED BY <2>1, <2>4, <2>5
<1> QED BY <1>1, <1>2

\* What a task starts from, and that a merge of lists is one.
LEMMA Shapes ==
  /\ Blank \in [Lists -> List] /\ Resting \in Task /\ Holding(Resting) = {}
  /\ Files \subseteq [Lists -> List]
  /\ \A y \in List, r \in Rows : Merge(y, r) \in List
<1>1. Blank \in [Lists -> List] BY DEF Blank, List
<1>2. Blank["agents"] \in Rows BY DEF Blank, Rows, Lists
<1>3. Resting \in Task BY <1>1, <1>2 DEF Resting, Task, Lists
<1>4. Holding(Resting) = {} BY DEF Resting, Holding
<1>5. \A y \in List, r \in Rows : Merge(y, r) \in List BY DEF Merge, List, Rows
<1> QED BY <1>1, <1>3, <1>4, <1>5, StudioAssumption

\* Requests and reloads, tasks at rest, lists of a file.
LEMMA StudioInitIInv == StudioInit => StudioIInv
<1> SUFFICES ASSUME StudioInit PROVE StudioIInv OBVIOUS
<1>1. declared \in Files /\ declared \in [Lists -> List] /\ Checked(declared)
  BY StudioAssumption DEF StudioInit
<1>2. \A x \in Editors : editor[x] = Resting BY DEF StudioInit
<1>3. StudioTypes
  <2>1. stored \in [Lists -> Rows] BY DEF StudioInit, Blank, Rows
  <2>2. editor \in [Editors -> Task] BY Shapes DEF StudioInit
  <2>3. /\ alone \in [Lists -> Editors \cup {None}] /\ exact \in [Lists -> BOOLEAN]
        /\ hidden \subseteq Lists \X Names
    BY DEF StudioInit
  <2>4. served \in [Lists -> List] BY <1>1 DEF StudioInit
  <2> QED BY <1>1, <2>1, <2>2, <2>3, <2>4 DEF StudioTypes
<1>4. \A l \in Lists : alone[l] = None BY DEF StudioInit
<1>5. Alone /\ Current BY <1>4, StudioAssumption DEF Alone, Current
<1>6. Named BY <1>2 DEF Named, Resting
<1>7. Merged
  <2> SUFFICES ASSUME NEW l \in Lists PROVE served[l] = Merge(declared[l], stored[l]) BY DEF Merged
  <2>1. declared[l] \in List /\ stored[l] = [n \in Names |-> None] /\ served[l] = declared[l]
    BY <1>1 DEF StudioInit, Blank
  <2> QED BY <2>1 DEF Merge, List
<1>8. Buried BY DEF Buried, StudioInit
<1>9. Still /\ JudgesBuilt BY <1>1 DEF Still, JudgesBuilt, StudioInit, Checked
<1> QED BY <1>3, <1>5, <1>6, <1>7, <1>8, <1>9 DEF StudioIInv

\* A task that looks, loads or reads changes nothing but its locals.
LEMMA QuietStep ==
  ASSUME StudioIInv, NEW x \in Editors, NEW e \in Task,
         UNCHANGED <<declared, served, scoring, server, stored, alone, exact, hidden>>,
         editor' = [editor EXCEPT ![x] = e], Holding(e) = Holding(editor[x]),
         e.pc \in {"look", "drop"} => e.name \in Names,
         e.pc \in {"look", "drop", "load"} => ~e.reload,
         e.pc \in {"list", "publish"} =>
           \/ e.doc = editor[x].doc /\ editor[x].pc \in {"list", "publish"}
           \/ \A l \in Holding(e) : e.doc[l] = declared[l],
         e.pc = "publish" => e.rows = stored[e.list],
         e.pc # "idle" => server # "refused"
  PROVE  StudioIInv'
<1>1. StudioTypes BY DEF StudioIInv
<1>2. editor'[x] = e /\ \A y \in Editors \ {x} : editor'[y] = editor[y] BY <1>1 DEF StudioTypes
<1>3. StudioTypes' BY <1>1 DEF StudioTypes
<1>4. \A y \in Editors : Holding(editor'[y]) = Holding(editor[y]) BY <1>2
<1>5. Named' BY <1>2 DEF StudioIInv, Named
<1>6. Alone' BY <1>4 DEF StudioIInv, Alone
<1>7. Current'
  <2> SUFFICES ASSUME NEW l \in Lists, NEW y \in Editors, alone[l] = y
               PROVE  /\ editor'[y].pc \in {"list", "publish"} => editor'[y].doc[l] = declared[l]
                      /\ editor'[y].pc = "publish" /\ editor'[y].list = l => editor'[y].rows = stored[l]
    BY DEF Current
  <2>1. CASE y # x BY <1>2, <2>1 DEF StudioIInv, Current
  <2>2. CASE y = x
    <3>1. l \in Holding(e) BY <2>2 DEF StudioIInv, Alone
    <3>2. editor[x].pc \in {"list", "publish"} => editor[x].doc[l] = declared[l]
      BY <2>2 DEF StudioIInv, Current
    <3> QED BY <1>2, <2>2, <3>1, <3>2
  <2> QED BY <2>1, <2>2
<1>8. Merged' BY <1>4 DEF StudioIInv, Merged
<1>9. Buried' /\ JudgesBuilt' BY DEF StudioIInv, Buried, JudgesBuilt
<1>10. Still' BY <1>2 DEF StudioIInv, Still
<1> QED BY <1>3, <1>5, <1>6, <1>7, <1>8, <1>9, <1>10 DEF StudioIInv

\* Who changes the file's lists or the rows begins to rebuild what it changed.
LEMMA BeginStep ==
  ASSUME StudioIInv, NEW x \in Editors, NEW e \in Task, NEW lists \in SUBSET Lists,
         UNCHANGED <<served, scoring, server, exact>>, server # "refused",
         editor' = [editor EXCEPT ![x] = e], Begun(x, lists),
         Holding(editor[x]) = {}, Holding(e) = lists,
         declared' \in Files, stored' \in [Lists -> Rows],
         \A l \in Lists \ lists : declared'[l] = declared[l] /\ stored'[l] = stored[l],
         e.pc \in {"load", "list"}, e.pc = "load" => ~e.reload,
         e.pc = "list" => \A l \in lists : e.doc[l] = declared'[l],
         hidden' \subseteq Lists \X Names, Buried'
  PROVE  StudioIInv'
<1>1. StudioTypes BY DEF StudioIInv
<1>2. editor'[x] = e /\ \A y \in Editors \ {x} : editor'[y] = editor[y] BY <1>1 DEF StudioTypes
<1>3. /\ \A y \in Editors : Busy(y) = Holding(editor[y])
      /\ alone' \in [Lists -> Editors \cup {None}]
  BY <1>1 DEF Busy, Holding, Begun, StudioTypes
<1>4. StudioTypes' BY <1>1, <1>3 DEF StudioTypes
<1>5. Named' BY <1>2 DEF StudioIInv, Named
<1>6. ASSUME NEW l \in Lists, NEW y \in Editors, alone'[l] = y
      PROVE  \/ l \notin lists /\ alone[l] = y /\ y # x
             \/ l \in lists /\ y = x /\ \A z \in Editors \ {x} : l \notin Holding(editor[z])
  <2>1. CASE l \notin lists
    <3>1. alone[l] = y BY <1>6, <2>1 DEF Begun
    <3>2. l \in Holding(editor[y]) BY <3>1 DEF StudioIInv, Alone
    <3> QED BY <2>1, <3>1, <3>2
  <2>2. CASE l \in lists
    <3>1. alone'[l] = IF \E z \in Editors : l \in Busy(z) THEN None ELSE x BY <2>2 DEF Begun
    <3>2. None \notin Editors BY StudioAssumption
    <3> QED BY <1>3, <1>6, <2>2, <3>1, <3>2
  <2> QED BY <2>1, <2>2
<1>7. Alone'
  <2> SUFFICES ASSUME NEW l \in Lists, NEW y \in Editors, alone'[l] = y
               PROVE  /\ l \in Holding(editor'[y])
                      /\ \A z \in Editors \ {y} : l \notin Holding(editor'[z])
    BY DEF Alone
  <2>1. CASE l \notin lists /\ alone[l] = y /\ y # x
    <3>1. l \in Holding(editor[y]) /\ \A z \in Editors \ {y} : l \notin Holding(editor[z])
      BY <2>1 DEF StudioIInv, Alone
    <3> QED BY <1>2, <2>1, <3>1
  <2>2. CASE l \in lists /\ y = x /\ \A z \in Editors \ {x} : l \notin Holding(editor[z])
    BY <1>2, <2>2
  <2> QED BY <1>6, <2>1, <2>2
<1>8. Current'
  <2> SUFFICES ASSUME NEW l \in Lists, NEW y \in Editors, alone'[l] = y
               PROVE  /\ editor'[y].pc \in {"list", "publish"} => editor'[y].doc[l] = declared'[l]
                      /\ editor'[y].pc = "publish" /\ editor'[y].list = l => editor'[y].rows = stored'[l]
    BY DEF Current
  <2>1. CASE l \notin lists /\ alone[l] = y /\ y # x
    BY <1>2, <2>1 DEF StudioIInv, Current
  <2>2. CASE l \in lists /\ y = x BY <1>2, <2>2
  <2> QED BY <1>6, <2>1, <2>2
<1>9. Merged'
  <2> SUFFICES ASSUME NEW l \in Lists, exact[l], \A y \in Editors : l \notin Holding(editor'[y])
               PROVE  served[l] = Merge(declared'[l], stored'[l])
    BY DEF Merged
  <2>1. l \notin lists BY <1>2
  <2>2. \A y \in Editors : l \notin Holding(editor[y]) BY <1>2
  <2> QED BY <2>1, <2>2 DEF StudioIInv, Merged
<1>10. Still' BY DEF Still
<1>11. JudgesBuilt' BY DEF StudioIInv, JudgesBuilt
<1> QED BY <1>4, <1>5, <1>7, <1>8, <1>9, <1>10, <1>11 DEF StudioIInv

\* Who gives lists up has published the merge of what is in force, or leaves
\* them marked.
LEMMA EndStep ==
  ASSUME StudioIInv, NEW x \in Editors, NEW e \in Task, NEW lists \in SUBSET Lists,
         NEW done \in BOOLEAN,
         UNCHANGED <<declared, stored, scoring, server, hidden>>, server # "refused",
         editor' = [editor EXCEPT ![x] = e], Over(x, lists, done),
         Holding(e) = Holding(editor[x]) \ lists, e.pc \in {"idle", "list"},
         e.pc = "list" => e.doc = editor[x].doc /\ editor[x].pc \in {"list", "publish"},
         served' \in [Lists -> List], \A l \in Lists \ lists : served'[l] = served[l],
         done => \A l \in lists : alone[l] = x => served'[l] = Merge(declared[l], stored[l])
  PROVE  StudioIInv'
<1>1. StudioTypes BY DEF StudioIInv
<1>2. editor'[x] = e /\ \A y \in Editors \ {x} : editor'[y] = editor[y] BY <1>1 DEF StudioTypes
<1>3. alone' \in [Lists -> Editors \cup {None}] /\ exact' \in [Lists -> BOOLEAN]
  BY <1>1 DEF Over, StudioTypes
<1>4. StudioTypes' BY <1>1, <1>3 DEF StudioTypes
<1>5. Named' BY <1>2 DEF StudioIInv, Named
<1>6. ASSUME NEW l \in Lists, NEW y \in Editors, alone'[l] = y
      PROVE  l \notin lists /\ alone[l] = y
  <2>1. None \notin Editors BY StudioAssumption
  <2> QED BY <1>6, <2>1 DEF Over
<1>7. \A y \in Editors, l \in Lists \ lists :
        l \in Holding(editor'[y]) <=> l \in Holding(editor[y])
  BY <1>2
<1>8. Alone' BY <1>6, <1>7 DEF StudioIInv, Alone
<1>9. Current'
  <2> SUFFICES ASSUME NEW l \in Lists, NEW y \in Editors, alone'[l] = y
               PROVE  /\ editor'[y].pc \in {"list", "publish"} => editor'[y].doc[l] = declared[l]
                      /\ editor'[y].pc = "publish" /\ editor'[y].list = l => editor'[y].rows = stored[l]
    BY DEF Current
  <2>1. alone[l] = y BY <1>6
  <2> QED BY <1>2, <2>1 DEF StudioIInv, Current
<1>10. Merged'
  <2> SUFFICES ASSUME NEW l \in Lists, exact'[l], \A y \in Editors : l \notin Holding(editor'[y])
               PROVE  served'[l] = Merge(declared[l], stored[l])
    BY DEF Merged
  <2>1. CASE l \in lists BY <2>1 DEF Over
  <2>2. CASE l \notin lists
    <3>1. exact[l] BY <2>2 DEF Over
    <3>2. \A y \in Editors : l \notin Holding(editor[y]) BY <1>7, <2>2
    <3> QED BY <2>2, <3>1, <3>2 DEF StudioIInv, Merged
  <2> QED BY <2>1, <2>2
<1>11. Still' BY DEF Still
<1>12. Buried' /\ JudgesBuilt' BY DEF StudioIInv, Buried, JudgesBuilt
<1> QED BY <1>4, <1>5, <1>8, <1>9, <1>10, <1>11, <1>12 DEF StudioIInv

\* A boot: every list is the merge, and judges that cannot be built refuse it.
LEMMA RebootStep == ASSUME StudioIInv, NEW f \in Files, Reboot(f) PROVE StudioIInv'
<1> DEFINE merges == [l \in Lists |-> Merge(f[l], stored[l])]
<1>1. StudioTypes BY DEF StudioIInv
<1>2. f \in [Lists -> List] /\ Checked(f) BY StudioAssumption
<1>3. /\ declared' = f /\ served' = merges /\ stored' = stored /\ hidden' = hidden
      /\ editor' = [x \in Editors |-> Resting]
      /\ alone' = [l \in Lists |-> None] /\ exact' = [l \in Lists |-> TRUE]
  BY DEF Reboot, Booted
<1>4. /\ server' = IF Builds(merges["judges"]) THEN "up" ELSE "refused"
      /\ scoring' = IF Builds(merges["judges"]) THEN merges["judges"] ELSE Blank["judges"]
  BY DEF Reboot, Booted
<1>5. StudioTypes'
  <2>1. served' \in [Lists -> List] BY <1>1, <1>2, <1>3, Shapes DEF StudioTypes
  <2>2. editor' \in [Editors -> Task] BY <1>3, Shapes
  <2> QED BY <1>1, <1>3, <2>1, <2>2 DEF StudioTypes
<1>6. Named' /\ Still' BY <1>3 DEF Named, Still, Resting
<1>7. Alone' /\ Current' BY <1>3, StudioAssumption DEF Alone, Current
<1>8. Merged' BY <1>3 DEF Merged
<1>9. Buried' BY <1>3 DEF StudioIInv, Buried
<1>10. JudgesBuilt'
  <2>1. Builds(scoring')
    <3>1. Builds(Blank["judges"])
      BY StudioAssumption, OverlayAssumption DEF Builds, Blank, Lists
    <3> QED BY <1>4, <3>1
  <2>2. ASSUME server' = "refused"
        PROVE  \E n \in Names : stored["judges"][n] \in Unbuildable /\ served'["judges"][n] # None
    <3>1. PICK n \in Names : merges["judges"][n] \in Unbuildable BY <1>4, <2>2 DEF Builds
    <3>2. "judges" \in Lists BY DEF Lists
    <3>3. merges["judges"][n] =
            IF stored["judges"][n] = None THEN f["judges"][n]
            ELSE IF stored["judges"][n] = Tombstone THEN None ELSE stored["judges"][n]
      BY <3>2 DEF Merge
    <3>4. f["judges"][n] \notin Unbuildable BY <1>2 DEF Checked, Builds
    <3>5. None \notin Unbuildable BY StudioAssumption, OverlayAssumption
    <3> QED BY <1>3, <3>1, <3>3, <3>4, <3>5
  <2> QED BY <1>3, <2>1, <2>2 DEF JudgesBuilt, Builds
<1> QED BY <1>5, <1>6, <1>7, <1>8, <1>9, <1>10 DEF StudioIInv

\* A task that rests or that has work to do runs in a process that came up.
LEMMA Awake ==
  ASSUME StudioIInv, NEW x \in Editors, editor[x].pc # "idle" \/ server = "up"
  PROVE  server # "refused"
BY DEF StudioIInv, Still

\* An edit of one name touches one list and keeps the tombstones of removals.
LEMMA EditStep ==
  ASSUME StudioIInv, NEW l \in Lists, NEW n \in Names, NEW v \in Kinds \cup {None, Tombstone},
         stored' = [stored EXCEPT ![l] = [@ EXCEPT ![n] = v]],
         hidden' \subseteq hidden \cup {<<l, n>>}, <<l, n>> \in hidden' => v = Tombstone
  PROVE  /\ stored' \in [Lists -> Rows] /\ \A k \in Lists \ {l} : stored'[k] = stored[k]
         /\ hidden' \subseteq Lists \X Names /\ Buried'
<1>1. StudioTypes BY DEF StudioIInv
<1>2. stored' \in [Lists -> Rows] BY <1>1 DEF StudioTypes, Rows
<1>3. \A k \in Lists \ {l} : stored'[k] = stored[k] BY <1>1 DEF StudioTypes
<1>4. hidden' \subseteq Lists \X Names BY <1>1 DEF StudioTypes
<1>5. \A k \in Lists, m \in Names :
        stored'[k][m] = IF k = l /\ m = n THEN v ELSE stored[k][m]
  BY <1>1 DEF StudioTypes, Rows
<1>6. Buried'
  <2> SUFFICES ASSUME NEW d \in hidden' PROVE stored'[d[1]][d[2]] = Tombstone BY DEF Buried
  <2>1. d[1] \in Lists /\ d[2] \in Names /\ d = <<d[1], d[2]>> BY <1>4
  <2>2. CASE d = <<l, n>> BY <1>5, <2>1, <2>2
  <2>3. CASE d # <<l, n>>
    <3>1. d \in hidden BY <2>3
    <3>2. stored[d[1]][d[2]] = Tombstone BY <3>1 DEF StudioIInv, Buried
    <3> QED BY <1>5, <2>1, <2>3, <3>2
  <2> QED BY <2>2, <2>3
<1> QED BY <1>2, <1>3, <1>4, <1>6

\* The handlers that store and drop rows at once.
LEMMA RequestSteps ==
  ASSUME StudioIInv, NEW x \in Editors,
         \/ \E p \in Puts : Save(x, p[1], p[2], p[3])
         \/ \E d \in Asked : Reset(x, d[1], d[2])
  PROVE  StudioIInv'
<1>1. PICK l \in Lists, n \in Names, v \in Kinds \cup {None} :
        /\ Starts(x) /\ stored' = [stored EXCEPT ![l] = [@ EXCEPT ![n] = v]]
        /\ hidden' = hidden \ {<<l, n>>}
        /\ Moves(x, [Resting EXCEPT !.pc = "load", !.list = l]) /\ Begun(x, {l})
        /\ UNCHANGED <<processVars, upsets, exact>>
  <2>1. Puts \subseteq Lists \X Names \X Kinds /\ Asked \subseteq Lists \X Names
    BY StudioAssumption
  <2>2. CASE \E p \in Puts : Save(x, p[1], p[2], p[3])
    <3>1. PICK p \in Puts : Save(x, p[1], p[2], p[3]) BY <2>2
    <3>2. p[1] \in Lists /\ p[2] \in Names /\ p[3] \in Kinds BY <2>1
    <3> QED BY <3>1, <3>2 DEF Save, PutActive
  <2>3. CASE \E d \in Asked : Reset(x, d[1], d[2])
    <3>1. PICK d \in Asked : Reset(x, d[1], d[2]) BY <2>3
    <3>2. d[1] \in Lists /\ d[2] \in Names BY <2>1
    <3> QED BY <3>1, <3>2 DEF Reset, Delete
  <2> QED BY <2>2, <2>3
<1>2. PICK e : e = [Resting EXCEPT !.pc = "load", !.list = l] OBVIOUS
<1>3. e \in Task /\ e.pc = "load" /\ ~e.reload /\ Holding(e) = {l}
  <2>1. e \in Task BY <1>2, Shapes DEF Task
  <2>2. e.pc = "load" /\ e.list = l /\ ~e.reload BY <1>2 DEF Resting
  <2> QED BY <2>1, <2>2 DEF Holding
<1>4. /\ editor' = [editor EXCEPT ![x] = e] /\ server = "up" /\ Holding(editor[x]) = {}
  BY <1>1, <1>2 DEF Moves, Starts, Holding
<1>5. UNCHANGED <<declared, served, scoring, server, exact>> BY <1>1 DEF processVars
<1>6. declared' \in Files BY <1>5 DEF StudioIInv, StudioTypes
<1>7. /\ stored' \in [Lists -> Rows] /\ \A k \in Lists \ {l} : stored'[k] = stored[k]
      /\ hidden' \subseteq Lists \X Names /\ Buried'
  BY <1>1, EditStep
<1> QED BY <1>1, <1>3, <1>4, <1>5, <1>6, <1>7, BeginStep

\* The two halves of a removal.
LEMMA RemovalSteps ==
  ASSUME StudioIInv, NEW x \in Editors,
         (\E d \in Asked : RemoveNamed(x, d[1], d[2])) \/ Look(x) \/ Drop(x)
  PROVE  StudioIInv'
<1>1. editor[x] \in Task BY DEF StudioIInv, StudioTypes
<1>2. CASE \E d \in Asked : RemoveNamed(x, d[1], d[2])
  <2>1. PICK d \in Asked : RemoveNamed(x, d[1], d[2]) BY <1>2
  <2>2. d[1] \in Lists /\ d[2] \in Names BY StudioAssumption
  <2>3. PICK e : e = [Resting EXCEPT !.pc = "look", !.list = d[1], !.name = d[2],
                                     !.backed = (declared[d[1]][d[2]] # None)]
    OBVIOUS
  <2>4. e \in Task /\ e.pc = "look" /\ e.name \in Names /\ ~e.reload
    BY <2>2, <2>3, Shapes DEF Task, Resting
  <2>5. editor' = [editor EXCEPT ![x] = e] /\ Holding(editor[x]) = {} /\ Holding(e) = {}
    BY <2>1, <2>3, <2>4 DEF RemoveNamed, Starts, Moves, Holding
  <2>6. /\ UNCHANGED <<declared, served, scoring, server, stored, alone, exact, hidden>>
        /\ server # "refused"
    BY <2>1 DEF RemoveNamed, Starts, processVars
  <2> QED BY <2>4, <2>5, <2>6, QuietStep
<1>3. CASE Look(x)
  <2>1. PICK e : e = IF editor[x].backed \/ stored[editor[x].list][editor[x].name] # None
                     THEN [editor[x] EXCEPT !.pc = "drop"] ELSE Resting
    OBVIOUS
  <2>2. e \in Task /\ e.pc \in {"drop", "idle"} /\ (e.pc = "drop" => e.name = editor[x].name /\ e.reload = editor[x].reload)
    BY <1>1, <2>1, Shapes DEF Task, Resting
  <2>3. e.pc = "drop" => e.name \in Names /\ ~e.reload BY <1>3, <2>2 DEF Look, StudioIInv, Named
  <2>4. editor' = [editor EXCEPT ![x] = e] BY <1>3, <2>1 DEF Look, At, Moves
  <2>5. Holding(editor[x]) = {} /\ Holding(e) = {} BY <1>3, <2>2 DEF Look, Holding
  <2>6. UNCHANGED <<declared, served, scoring, server, stored, alone, exact, hidden>>
    BY <1>3 DEF Look, processVars
  <2>7. server # "refused" BY <1>3, Awake DEF Look
  <2> QED BY <2>2, <2>3, <2>4, <2>5, <2>6, <2>7, QuietStep
<1>4. CASE Drop(x)
  <2>1. PICK l, n, v : /\ l = editor[x].list /\ n = editor[x].name
                       /\ v = IF editor[x].backed THEN Tombstone ELSE None
    OBVIOUS
  <2>2. l \in Lists /\ n \in Names
    BY <1>1, <1>4, <2>1 DEF Drop, StudioIInv, Named, Task
  <2>3. stored' = [stored EXCEPT ![l] = [@ EXCEPT ![n] = v]]
    BY <1>4, <2>1 DEF Drop, PutTombstone, Delete
  <2>4. hidden' = IF editor[x].backed THEN hidden \cup {<<l, n>>} ELSE hidden \ {<<l, n>>}
    BY <1>4, <2>1 DEF Drop
  <2>5. /\ stored' \in [Lists -> Rows] /\ \A k \in Lists \ {l} : stored'[k] = stored[k]
        /\ hidden' \subseteq Lists \X Names /\ Buried'
    <3>1. hidden' \subseteq hidden \cup {<<l, n>>} BY <2>4
    <3>2. <<l, n>> \in hidden' => v = Tombstone BY <2>1, <2>4
    <3>3. v \in Kinds \cup {None, Tombstone} BY <2>1
    <3> QED BY <2>2, <2>3, <3>1, <3>2, <3>3, EditStep
  <2>6. PICK e : e = [editor[x] EXCEPT !.pc = "load"] OBVIOUS
  <2>7. e \in Task /\ e.pc = "load" BY <1>1, <2>6 DEF Task
  <2>8. editor' = [editor EXCEPT ![x] = e] /\ Begun(x, {l}) /\ Holding(editor[x]) = {}
    BY <1>4, <2>1, <2>6 DEF Drop, At, Moves, Holding
  <2>9. /\ UNCHANGED <<declared, served, scoring, server, exact>> /\ declared' \in Files
        /\ server # "refused"
    <3>1. server # "refused" BY <1>4, Awake DEF Drop
    <3> QED BY <1>4, <3>1 DEF Drop, processVars, StudioIInv, StudioTypes
  <2>10. ~editor[x].reload BY <1>4 DEF Drop, StudioIInv, Named
  <2>11. Holding(e) = {l} /\ ~e.reload BY <1>1, <2>1, <2>6, <2>7, <2>10 DEF Holding, Task
  <2> QED BY <2>2, <2>5, <2>7, <2>8, <2>9, <2>11, BeginStep
<1> QED BY <1>2, <1>3, <1>4

\* The file is loaded again, for all lists.
LEMMA ReloadStep == ASSUME StudioIInv, NEW x \in Editors, NEW f \in Files, Reload(x, f) PROVE StudioIInv'
<1>1. PICK e : e = [Resting EXCEPT !.pc = "list", !.reload = TRUE, !.doc = f] OBVIOUS
<1>2. f \in [Lists -> List] BY Shapes
<1>3. e \in Task /\ e.pc = "list" /\ e.doc = f /\ e.reload /\ e.list = "agents"
  <2>1. e \in Task BY <1>1, <1>2, Shapes DEF Task
  <2> QED BY <1>1, <2>1 DEF Resting
<1>4. Holding(e) = Lists
  <2>1. Order[1] = "agents" /\ 1 \in 1..4 BY DEF Order
  <2>2. Place("agents") = 1 BY <2>1, Places
  <2>3. \A l \in Lists : Place(l) >= 1
    <3> SUFFICES ASSUME NEW l \in Lists PROVE Place(l) >= 1 OBVIOUS
    <3>1. Place(l) \in 1..4 BY Places
    <3> QED BY <3>1
  <2>4. Holding(e) = {l \in Lists : Place(l) >= Place("agents")} BY <1>3 DEF Holding
  <2> QED BY <2>2, <2>3, <2>4
<1>5. /\ editor' = [editor EXCEPT ![x] = e] /\ Begun(x, Lists) /\ Holding(editor[x]) = {}
      /\ server # "refused" /\ declared' = f
      /\ UNCHANGED <<stored, served, scoring, server, exact, hidden>>
  BY <1>1 DEF Reload, Starts, Moves, Holding
<1>6. stored' \in [Lists -> Rows] /\ hidden' \subseteq Lists \X Names /\ Buried'
  BY <1>5 DEF StudioIInv, StudioTypes, Buried
<1> QED BY <1>3, <1>4, <1>5, <1>6, BeginStep

\* What a rebuild reads is what is in force when it reads it.
LEMMA ReadSteps == ASSUME StudioIInv, NEW x \in Editors, Load(x) \/ Read(x) PROVE StudioIInv'
<1>1. /\ editor[x] \in Task /\ declared \in [Lists -> List] /\ stored \in [Lists -> Rows]
  BY Shapes DEF StudioIInv, StudioTypes
<1>2. /\ UNCHANGED <<declared, served, scoring, server, stored, alone, exact, hidden>>
      /\ server # "refused"
  <2>1. editor[x].pc # "idle" BY DEF Load, Read
  <2> QED BY <2>1, Awake DEF Load, Read, processVars
<1>3. CASE Load(x)
  <2>1. PICK d, e : /\ d = [Blank EXCEPT ![editor[x].list] = declared[editor[x].list]]
                    /\ e = [editor[x] EXCEPT !.pc = "list", !.doc = d]
    OBVIOUS
  <2>2. d \in [Lists -> List] BY <1>1, <2>1, Shapes DEF Task
  <2>3. d[editor[x].list] = declared[editor[x].list] BY <1>1, <2>1 DEF Blank, Task
  <2>4. /\ e \in Task /\ e.pc = "list" /\ e.doc = d /\ e.list = editor[x].list
        /\ e.reload = editor[x].reload
    BY <1>1, <2>1, <2>2 DEF Task
  <2>5. editor' = [editor EXCEPT ![x] = e] /\ Holding(e) = Holding(editor[x])
    BY <1>3, <2>1, <2>4 DEF Load, Moves, Holding
  <2>6. CASE ~editor[x].reload
    <3>1. \A l \in Holding(e) : e.doc[l] = declared[l] BY <2>3, <2>4, <2>6 DEF Holding
    <3> QED BY <1>2, <2>4, <2>5, <3>1, QuietStep
  <2>7. ~editor[x].reload BY <1>3 DEF Load, StudioIInv, Named
  <2> QED BY <2>6, <2>7
<1>4. CASE Read(x)
  <2>1. PICK e : e = [editor[x] EXCEPT !.pc = "publish", !.rows = stored[editor[x].list]] OBVIOUS
  <2>2. editor[x].list \in Lists /\ editor[x].pc = "list" BY <1>1, <1>4 DEF Task, Read
  <2>3. /\ e \in Task /\ e.pc = "publish" /\ e.doc = editor[x].doc /\ e.list = editor[x].list
        /\ e.reload = editor[x].reload /\ e.rows = stored[e.list]
    BY <1>1, <2>1, <2>2 DEF Task
  <2>4. editor' = [editor EXCEPT ![x] = e] /\ Holding(e) = Holding(editor[x])
    BY <1>4, <2>1, <2>2, <2>3 DEF Read, Moves, Holding
  <2> QED BY <1>2, <2>2, <2>3, <2>4, QuietStep
<1> QED BY <1>3, <1>4

\* Publishing, or failing to read, lets go of one list.
LEMMA OnwardStep ==
  ASSUME StudioIInv, NEW x \in Editors, Onward(x), editor[x].pc \in {"list", "publish"}
  PROVE  \E e \in Task :
           /\ editor' = [editor EXCEPT ![x] = e]
           /\ Holding(e) = Holding(editor[x]) \ {editor[x].list}
           /\ e.pc \in {"idle", "list"} /\ (e.pc = "list" => e.doc = editor[x].doc)
<1>1. PICK e : e = editor[x] OBVIOUS
<1>2. e \in Task BY <1>1 DEF StudioIInv, StudioTypes
<1>3. PICK f : f = IF e.reload /\ Place(e.list) < 4
                     THEN [e EXCEPT !.pc = "list", !.list = Order[Place(e.list) + 1],
                                    !.rows = Resting.rows]
                     ELSE Resting
  OBVIOUS
<1>4. editor' = [editor EXCEPT ![x] = f] BY <1>1, <1>3 DEF Onward, Moves
<1>5. CASE e.reload /\ Place(e.list) < 4
  <2>1. e.list \in Lists /\ Place(e.list) \in 1..4 BY <1>2, Places DEF Task
  <2>2. Place(e.list) + 1 \in 1..4 BY <1>5, <2>1
  <2>3. Order[Place(e.list) + 1] \in Lists BY <2>2, Places
  <2>4. Resting.rows \in Rows BY Shapes DEF Task
  <2>5. /\ f \in Task /\ f.pc = "list" /\ f.reload /\ f.list = Order[Place(e.list) + 1]
        /\ f.doc = e.doc
    BY <1>2, <1>3, <1>5, <2>3, <2>4 DEF Task
  <2>6. Holding(f) = Holding(e) \ {e.list} BY <1>1, <1>2, <1>5, <2>5, NextList
  <2> QED BY <1>1, <1>4, <2>5, <2>6
<1>6. CASE ~(e.reload /\ Place(e.list) < 4)
  <2>1. f = Resting BY <1>3, <1>6
  <2>2. Holding(e) = {e.list} BY <1>1, <1>2, <1>6, LastList
  <2>3. f \in Task /\ f.pc = "idle" /\ Holding(f) = {} BY <2>1, Shapes DEF Resting
  <2> QED BY <1>1, <1>4, <2>2, <2>3
<1> QED BY <1>5, <1>6

LEMMA EndSteps ==
  ASSUME StudioIInv, NEW x \in Editors, Publish(x) \/ ReadFails(x) \/ Abandoned(x)
  PROVE  StudioIInv'
<1>1. editor[x] \in Task /\ served \in [Lists -> List] BY DEF StudioIInv, StudioTypes
<1>2. /\ UNCHANGED <<declared, stored, scoring, server, hidden>> /\ server # "refused"
  <2>1. editor[x].pc # "idle" BY DEF Publish, ReadFails, Abandoned
  <2> QED BY <2>1, Awake DEF Publish, ReadFails, Abandoned, processVars
<1>3. editor[x].list \in Lists BY <1>1 DEF Task
<1>4. CASE Publish(x)
  <2>1. editor[x].pc = "publish" /\ Onward(x) BY <1>4 DEF Publish
  <2>2. PICK e \in Task :
           /\ editor' = [editor EXCEPT ![x] = e]
           /\ Holding(e) = Holding(editor[x]) \ {editor[x].list}
           /\ e.pc \in {"idle", "list"} /\ (e.pc = "list" => e.doc = editor[x].doc)
    BY <2>1, OnwardStep
  <2>3. PICK l : l = editor[x].list OBVIOUS
  <2>4. /\ Over(x, {l}, TRUE)
        /\ served' = [served EXCEPT ![l] = Merge(editor[x].doc[l], editor[x].rows)]
    BY <1>4, <2>3 DEF Publish
  <2>5. Merge(editor[x].doc[l], editor[x].rows) \in List BY <1>1, <1>3, <2>3, Shapes DEF Task
  <2>6. /\ served' \in [Lists -> List] /\ \A k \in Lists \ {l} : served'[k] = served[k]
        /\ served'[l] = Merge(editor[x].doc[l], editor[x].rows)
    BY <1>1, <1>3, <2>3, <2>4, <2>5
  <2>7. alone[l] = x => served'[l] = Merge(declared[l], stored[l])
    BY <1>3, <2>1, <2>3, <2>6 DEF StudioIInv, Current
  <2>8. {l} \in SUBSET Lists BY <1>3, <2>3
  <2> QED BY <1>2, <2>1, <2>2, <2>3, <2>4, <2>6, <2>7, <2>8, EndStep
<1>5. CASE ReadFails(x)
  <2>1. editor[x].pc = "list" /\ Onward(x) BY <1>5 DEF ReadFails
  <2>2. PICK e \in Task :
           /\ editor' = [editor EXCEPT ![x] = e]
           /\ Holding(e) = Holding(editor[x]) \ {editor[x].list}
           /\ e.pc \in {"idle", "list"} /\ (e.pc = "list" => e.doc = editor[x].doc)
    BY <2>1, OnwardStep
  <2>3. PICK l : l = editor[x].list OBVIOUS
  <2>4. Over(x, {l}, FALSE) /\ served' = served BY <1>5, <2>3 DEF ReadFails, processVars
  <2>5. {l} \in SUBSET Lists BY <1>3, <2>3
  <2> QED BY <1>1, <1>2, <2>1, <2>2, <2>3, <2>4, <2>5, EndStep
<1>6. CASE Abandoned(x)
  <2>1. Busy(x) = Holding(editor[x]) BY DEF Busy, Holding
  <2>2. PICK lists : lists = Holding(editor[x]) OBVIOUS
  <2>3. /\ Over(x, lists, FALSE) /\ served' = served
        /\ editor' = [editor EXCEPT ![x] = Resting]
    BY <1>6, <2>1, <2>2 DEF Abandoned, Moves, processVars
  <2>4. lists \in SUBSET Lists BY <1>1, <2>2, HoldsLists
  <2>5. Resting \in Task /\ Resting.pc = "idle" BY Shapes DEF Resting
  <2>6. Holding(Resting) = Holding(editor[x]) \ lists BY <2>2, Shapes
  <2> QED BY <1>1, <1>2, <2>3, <2>4, <2>5, <2>6, EndStep
<1> QED BY <1>4, <1>5, <1>6

\* Every step of the studio preserves its inductive invariant.
LEMMA StudioNextIInv == StudioIInv /\ [StudioNext]_studioVars => StudioIInv'
<1> SUFFICES ASSUME StudioIInv, [StudioNext]_studioVars PROVE StudioIInv' OBVIOUS
<1>1. CASE \E x \in Editors, p \in Puts :
             \/ Create(x, p[1], p[2], p[3])
             \/ \E path \in Names : Update(x, path, p[1], p[2], p[3])
  <2>1. \E x \in Editors : \E p \in Puts : Save(x, p[1], p[2], p[3])
    BY <1>1 DEF Create, Update
  <2> QED BY <2>1, RequestSteps
<1>2. CASE \E x \in Editors : \E d \in Asked : Reset(x, d[1], d[2]) BY <1>2, RequestSteps
<1>3. CASE \E x \in Editors : (\E d \in Asked : RemoveNamed(x, d[1], d[2])) \/ Look(x) \/ Drop(x)
  BY <1>3, RemovalSteps
<1>4. CASE \E x \in Editors : \E f \in Files : Reload(x, f) BY <1>4, ReloadStep
<1>5. CASE \E x \in Editors : Load(x) \/ Read(x) BY <1>5, ReadSteps
<1>6. CASE \E x \in Editors : Publish(x) \/ ReadFails(x) \/ Abandoned(x) BY <1>6, EndSteps
<1>7. CASE \E f \in Files : Reboot(f) BY <1>7, RebootStep
<1>8. CASE UNCHANGED studioVars
  <2>1. UNCHANGED <<declared, served, scoring, server, stored, editor, alone, exact, hidden>>
    BY <1>8 DEF studioVars, processVars
  <2> QED BY <2>1 DEF StudioIInv, StudioTypes, Named, Alone, Current, Merged, Buried, Still,
                      JudgesBuilt
<1> QED BY <1>1, <1>2, <1>3, <1>4, <1>5, <1>6, <1>7, <1>8 DEF StudioNext

\* A settled list is the merge of the file's and the rows.
LEMMA SettledMerged ==
  ASSUME StudioIInv, NEW l \in Lists, Settled(l) PROVE served[l] = Merge(declared[l], stored[l])
<1>1. \A x \in Editors : Busy(x) = Holding(editor[x]) BY DEF Busy, Holding
<1> QED BY <1>1 DEF Settled, StudioIInv, Merged

\* The page of a list has one row for each name that the merge is about.
LEMMA PageRows ==
  ASSUME NEW y \in List, NEW r \in Rows, NEW n \in Names
  PROVE  LET page == AdminView(y, r)  m == Merge(y, r)
         IN  /\ m[n] # None => \E q \in page : q.name = n /\ q.config = m[n]
             /\ \A q \in page : q.name = n => q.config = m[n]
<1> DEFINE page == AdminView(y, r)
           m == Merge(y, r)
<1>1. y[n] \in Kinds \cup {None} /\ r[n] \in Kinds \cup {None, Tombstone} BY DEF List, Rows
<1>2. m[n] = IF r[n] = None THEN y[n] ELSE IF r[n] = Tombstone THEN None ELSE r[n] BY DEF Merge
<1>3. ASSUME m[n] # None PROVE \E q \in page : q.name = n /\ q.config = m[n]
  <2>1. CASE r[n] = None
    <3>1. y[n] # None /\ m[n] = y[n] BY <1>2, <1>3, <2>1
    <3>2. [name |-> n, config |-> y[n], source |-> "yaml", yamlBacked |-> TRUE] \in page
      BY <2>1, <3>1 DEF AdminView
    <3> QED BY <3>1, <3>2
  <2>2. CASE r[n] \in Kinds
    <3>1. m[n] = r[n] BY <1>2, <2>2, OverlayAssumption
    <3>2. [name |-> n, config |-> r[n], yamlBacked |-> y[n] # None,
           source |-> IF y[n] # None THEN "override" ELSE "dynamic"] \in page
      BY <2>2 DEF AdminView
    <3> QED BY <3>1, <3>2
  <2>3. r[n] # Tombstone BY <1>2, <1>3, OverlayAssumption
  <2> QED BY <1>1, <2>1, <2>2, <2>3
<1>4. ASSUME NEW q \in page, q.name = n PROVE q.config = m[n]
  <2>1. CASE \E k \in Names : /\ y[k] # None /\ r[k] = None
                              /\ q = [name |-> k, config |-> y[k], source |-> "yaml", yamlBacked |-> TRUE]
    BY <1>2, <1>4, <2>1
  <2>2. CASE \E k \in Names : /\ r[k] = Tombstone
                              /\ q = [name |-> k, config |-> None, source |-> "tombstoned",
                                      yamlBacked |-> y[k] # None]
    BY <1>2, <1>4, <2>2, OverlayAssumption
  <2>3. CASE \E k \in Names : /\ r[k] \in Kinds
                              /\ q = [name |-> k, config |-> r[k], yamlBacked |-> y[k] # None,
                                      source |-> IF y[k] # None THEN "override" ELSE "dynamic"]
    BY <1>2, <1>4, <2>3, OverlayAssumption
  <2> QED BY <1>4, <2>1, <2>2, <2>3 DEF AdminView
<1> QED BY <1>3, <1>4

\* The inductive invariant of the studio holds for ever.
THEOREM StudioInvariance == StudioSpec => []StudioIInv
BY StudioInitIInv, StudioNextIInv, PTL DEF StudioSpec

\* The JSON list, the page and the form of a settled list show what runs.
LEMMA PagesShow ==
  ASSUME StudioIInv, NEW l \in Lists, Settled(l)
  PROVE  /\ Listing(l) = {<<n, served[l][n]>> : n \in {m \in Names : served[l][m] # None}}
         /\ \A n \in Names :
              /\ Detail(l, n) = IF served[l][n] = None THEN 404 ELSE served[l][n]
              /\ EditForm(l, n) \in IF served[l][n] = None THEN {400, 404} ELSE {served[l][n]}
<1>1. PICK page, list : page = Shown(l) /\ list = served[l] OBVIOUS
<1>2. declared[l] \in List /\ stored[l] \in Rows BY Shapes DEF StudioIInv, StudioTypes
<1>3. page = AdminView(declared[l], stored[l]) /\ list = Merge(declared[l], stored[l])
  BY <1>1, SettledMerged DEF Shown
<1>4. \A n \in Names : /\ list[n] # None => \E q \in page : q.name = n /\ q.config = list[n]
                       /\ \A q \in page : q.name = n => q.config = list[n]
  BY <1>2, <1>3, PageRows
<1>5. \A q \in page : q.name \in Names BY <1>3 DEF AdminView
<1>6. Listing(l) = {<<n, list[n]>> : n \in {m \in Names : list[m] # None}}
  <2>1. Listing(l) = {<<q.name, q.config>> : q \in {p \in page : p.config # None}}
    BY <1>1 DEF Listing
  <2>2. ASSUME NEW q \in page, q.config # None
        PROVE  q.name \in Names /\ list[q.name] # None /\ q.config = list[q.name]
    BY <1>4, <1>5, <2>2
  <2>3. ASSUME NEW n \in Names, list[n] # None
        PROVE  \E q \in page : q.config # None /\ q.name = n /\ q.config = list[n]
    BY <1>4, <2>3
  <2> QED BY <2>1, <2>2, <2>3
<1>7. ASSUME NEW n \in Names
      PROVE  /\ Detail(l, n) = IF list[n] = None THEN 404 ELSE list[n]
             /\ EditForm(l, n) \in IF list[n] = None THEN {400, 404} ELSE {list[n]}
  <2>1. CASE list[n] = None
    <3>1. ~ \E q \in page : q.name = n /\ q.config # None BY <1>4, <2>1
    <3>2. Detail(l, n) = 404 BY <1>1, <3>1 DEF Detail
    <3>3. CASE \A q \in page : q.name # n BY <1>1, <2>1, <3>2, <3>3 DEF EditForm
    <3>4. CASE \E q \in page : q.name = n /\ q.config = None BY <1>1, <2>1, <3>2, <3>4 DEF EditForm
    <3> QED BY <2>1, <3>1, <3>2, <3>3, <3>4
  <2>2. CASE list[n] # None
    <3>1. PICK q \in page : q.name = n /\ q.config # None BY <1>4, <2>2
    <3>2. PICK c : c = CHOOSE r \in Shown(l) : r.name = n OBVIOUS
    <3>3. c \in page /\ c.name = n BY <1>1, <3>1, <3>2
    <3>4. c.config = list[n] BY <1>4, <3>3
    <3>5. Detail(l, n) = c.config BY <1>1, <3>1, <3>2 DEF Detail
    <3>6. ~ \E r \in page : r.name = n /\ r.config = None BY <1>4, <2>2
    <3>7. EditForm(l, n) = c.config BY <1>1, <3>1, <3>2, <3>6 DEF EditForm
    <3> QED BY <2>2, <3>4, <3>5, <3>7
  <2> QED BY <2>1, <2>2
<1> QED BY <1>1, <1>6, <1>7

\* A served entry that names a missing one is the studio's doing.
LEMMA ReferencesHold == StudioIInv => ReferencesSound
<1> SUFFICES ASSUME StudioIInv, \A l \in Lists : Settled(l), NEW d \in Dangling(served)
             PROVE  \/ stored[d[1][1]][d[1][2]] \in Kinds
                    \/ stored[d[2][1]][d[2][2]] = Tombstone
  BY DEF ReferencesSound
<1>1. PICK l, n, k, m : l = d[1][1] /\ n = d[1][2] /\ k = d[2][1] /\ m = d[2][2] OBVIOUS
<1>2. d[1] \in Lists \X Names /\ d[2] \in Lists \X Names BY DEF Dangling
<1>3. /\ l \in Lists /\ n \in Names /\ k \in Lists /\ m \in Names
      /\ served[l][n] # None /\ d[2] \in Refers[served[l][n]] /\ served[k][m] = None
  BY <1>1, <1>2 DEF Dangling
<1>4. served[l] = Merge(declared[l], stored[l]) /\ served[k] = Merge(declared[k], stored[k])
  BY <1>3, SettledMerged
<1>5. /\ stored[l][n] \in Kinds \cup {None, Tombstone} /\ stored[k][m] \in Kinds \cup {None, Tombstone}
  BY <1>3 DEF StudioIInv, StudioTypes, Rows
<1>6. /\ served[l][n] = IF stored[l][n] = None THEN declared[l][n]
                        ELSE IF stored[l][n] = Tombstone THEN None ELSE stored[l][n]
      /\ served[k][m] = IF stored[k][m] = None THEN declared[k][m]
                        ELSE IF stored[k][m] = Tombstone THEN None ELSE stored[k][m]
  BY <1>3, <1>4 DEF Merge
<1>7. ASSUME stored[l][n] \notin Kinds, stored[k][m] # Tombstone PROVE FALSE
  <2>1. stored[l][n] = None /\ served[l][n] = declared[l][n] BY <1>3, <1>5, <1>6, <1>7
  <2>2. declared[k][m] = None BY <1>3, <1>5, <1>6, <1>7, OverlayAssumption
  <2>3. d \in Dangling(declared)
    <3>1. d \in (Lists \X Names) \X (Lists \X Names) BY DEF Dangling
    <3>2. declared[l][n] # None /\ d[2] \in Refers[declared[l][n]] BY <1>3, <2>1
    <3> QED BY <1>1, <2>2, <3>1, <3>2 DEF Dangling
  <2>4. Dangling(declared) = {} BY StudioAssumption DEF StudioIInv, StudioTypes, Checked
  <2> QED BY <2>3, <2>4
<1> QED BY <1>1, <1>7

\* The tombstone of a removal keeps the entry away.
LEMMA RemovalsHold == StudioIInv => RemovedStayGone
<1> SUFFICES ASSUME StudioIInv, NEW e \in hidden, Settled(e[1]) PROVE served[e[1]][e[2]] = None
  BY DEF RemovedStayGone
<1>1. e[1] \in Lists /\ e[2] \in Names BY DEF StudioIInv, StudioTypes
<1>2. stored[e[1]][e[2]] = Tombstone BY DEF StudioIInv, Buried
<1> QED BY <1>1, <1>2, SettledMerged, OverlayAssumption DEF Merge

\* However requests, reloads, failures and reboots meet: the pages of a settled
\* list show what runs, only edits leave a reference dangling, a removal lasts,
\* and only a stored judge that cannot be built stops a boot.
THEOREM SoundStudio == StudioSpec => []StudioSound
<1>1. StudioIInv => PagesTruthful BY PagesShow DEF PagesTruthful
<1>2. StudioIInv => StudioSound
  BY <1>1, ReferencesHold, RemovalsHold DEF StudioSound, StudioIInv
<1> QED BY <1>2, StudioInvariance, PTL

=============================================================================
