------------------------------- MODULE Memory -------------------------------
(***************************************************************************)
(* What the server remembers of one user (crates/memory): the messages of  *)
(* the conversation and the facts an extractor learns from it.  A chat     *)
(* turn assembles its context from both, and what it leaves behind feeds   *)
(* the next one; extractions run behind the turns.                         *)
(*                                                                         *)
(* Every query binds the user's id, so another user's rows never matter.   *)
(* An embedding is reduced to how close its text is to another.            *)
(***************************************************************************)
EXTENDS Naturals, Sequences, SequencesExt, FiniteSets

CONSTANTS
  Turns,         \* chat turns of the user
  Streams,       \* those with stream: true
  Question,      \* tokens of each turn's user message
  ReplySizes,    \* tokens a reply may have
  Facts,         \* texts of facts
  Tokens,        \* tokens of a fact
  Similar,       \* pairs of facts at or above dedup_threshold
  Closeness,     \* how close a turn's question is to each fact
  FactLists,     \* what parse_facts may make of the extractor's answer
  Configs,       \* memory: and providers: as they may stand in the YAML
  Unset,         \* an optional setting left out
  ContextBudget, \* context_budget
  MemoryBudget,  \* memory_budget_fraction of it
  RecallK,       \* recall_k when user_state is on
  MaxFacts,      \* max_facts_per_turn
  MaxMishaps     \* bound: failures, disconnects and restarts

Models    == {"hash", "openai", "voyage"}
Providers == {"anthropic", "openai"}

ASSUME MemoryAssumption ==
  /\ Streams \subseteq Turns /\ Question \in [Turns -> Nat \ {0}]
  /\ ReplySizes \subseteq Nat \ {0} /\ Tokens \in [Facts -> Nat \ {0}]
  /\ Similar \subseteq Facts \X Facts /\ Closeness \in [Turns -> [Facts -> Nat]]
  /\ FactLists \subseteq Seq(Facts)
  /\ Configs \subseteq [on : BOOLEAN, embed : Models \cup {Unset}, key : BOOLEAN,
                        learn : Providers \cup {Unset}, providers : SUBSET Providers]
  /\ Unset \notin Models \cup Providers
  /\ ContextBudget \in Nat /\ MemoryBudget \in 0..ContextBudget
  /\ RecallK \in Nat /\ MaxFacts \in Nat /\ MaxMishaps \in Nat

VARIABLES
  settings,   \* the resolved MemoryConfig of the running process
  messages,   \* messages: in rowid order
  memories,   \* memories: in rowid order
  pc,         \* progress of a turn
  recalled,   \* the rows of `memories` in a turn's prompt, closest first
  context,    \* the first and the last row of `messages` in it
  reply,      \* tokens of its reply; 0: no text
  replied,    \* turns whose client has the whole reply
  job,        \* progress of a turn's extraction
  todo,       \* facts it has still to store
  before,     \* history: what was there when a turn began
  apart,      \* history: no extraction has met another
  mishaps

turnVars == <<pc, recalled, context, reply, replied, before>>
jobVars  == <<job, todo, apart>>
vars     == <<settings, messages, memories, turnVars, jobVars, mishaps>>

Mishap == mishaps < MaxMishaps /\ mishaps' = mishaps + 1
Goto(t, where) == pc' = [pc EXCEPT ![t] = where]
Becomes(t, where) == job' = [job EXCEPT ![t] = where]
Extracting(t) == job[t] \notin {"none", "done"}
-----------------------------------------------------------------------------
(* MemoryResolver: what the YAML and the providers come to at boot *)

\* The embedder asked for, or OpenAI's when there is a key, or the offline one.
Embedder(c) ==
  IF c.embed # Unset THEN c.embed ELSE IF "openai" \in c.providers THEN "openai" ELSE "hash"

\* A remote embedder needs a key of its own or, for OpenAI, the provider's.
EmbedderFails(c) ==
  /\ Embedder(c) # "hash" /\ ~c.key
  /\ Embedder(c) = "openai" => "openai" \notin c.providers

\* The model that extracts must be configured; by default, any provider is.
ExtractorFails(c) ==
  IF c.learn = Unset THEN c.providers = {} ELSE c.learn \notin c.providers

Refused(c) == c.on /\ (EmbedderFails(c) \/ ExtractorFails(c))

\* resolve: without user_state nothing is recalled and nothing extracted.
Resolve(c) ==
  IF c.on THEN [model |-> Embedder(c), recallK |-> RecallK, extract |-> TRUE]
          ELSE [model |-> "hash", recallK |-> 0, extract |-> FALSE]

Init ==
  /\ \E c \in {d \in Configs : ~Refused(d)} : settings = Resolve(c)
  /\ messages = <<>> /\ memories = <<>>
  /\ pc = [t \in Turns |-> "idle"]
  /\ recalled = [t \in Turns |-> <<>>] /\ context = [t \in Turns |-> <<1, 0>>]
  /\ reply = [t \in Turns |-> 0] /\ replied = {}
  /\ job = [t \in Turns |-> "none"] /\ todo = [t \in Turns |-> <<>>]
  /\ before = [t \in Turns |-> [memories |-> 0, replied |-> {}]]
  /\ apart = TRUE /\ mishaps = 0
-----------------------------------------------------------------------------
(* assemble_context *)

\* Tokens of the first n, for every n.
Totals(sizes) ==
  LET sum[n \in 0..Len(sizes)] == IF n = 0 THEN 0 ELSE sum[n - 1] + sizes[n]
  IN  sum

Total(sizes) == Totals(sizes)[Len(sizes)]

\* How many of the leading ones fit: the walk stops at the first that does not.
Fitting(sizes, budget) ==
  CHOOSE n \in 0..Len(sizes) :
    /\ Totals(sizes)[n] <= budget
    /\ n < Len(sizes) => Totals(sizes)[n + 1] > budget

\* load_memories: rows of the current embedder only.
Loaded == {i \in DOMAIN memories : memories[i].model = settings.model}

Closer(t, i, j) ==
  LET near(n) == Closeness[t][memories[n].fact]
  IN  near(i) > near(j) \/ (near(i) = near(j) /\ i < j)

\* The loaded rows, sorted: each stands behind those that are closer.
Ranked(t) ==
  [n \in 1..Cardinality(Loaded) |->
     CHOOSE i \in Loaded : Cardinality({j \in Loaded : Closer(t, j, i)}) = n - 1]

\* Tokens of some rows of `memories`.
Sizes(rows) == [n \in 1..Len(rows) |-> Tokens[memories[rows[n]].fact]]

\* recall: the recall_k closest, cut by fit_memories.
Recalled(t) ==
  LET k   == IF Len(Ranked(t)) < settings.recallK THEN Len(Ranked(t)) ELSE settings.recallK
      top == SubSeq(Ranked(t), 1, k)
  IN  SubSeq(top, 1, Fitting(Sizes(top), MemoryBudget))

Used(t) == Total(Sizes(recalled[t]))

\* fit_messages: the latest that fit beside the memories.
Kept(budget) ==
  LET sizes == [n \in DOMAIN messages |-> messages[n].size]
  IN  <<Len(messages) + 1 - Fitting(Reverse(sizes), budget), Len(messages)>>

\* A client sends a message.
Begin(t) ==
  /\ pc[t] = "idle"
  /\ before' = [before EXCEPT ![t] = [memories |-> Len(memories), replied |-> replied]]
  /\ Goto(t, "recall")
  /\ UNCHANGED <<settings, messages, memories, recalled, context, reply, replied, jobVars, mishaps>>

\* The message is embedded and compared with the rows.
Recall(t) ==
  /\ pc[t] = "recall"
  /\ recalled' = [recalled EXCEPT ![t] = Recalled(t)]
  /\ Goto(t, "history")
  /\ UNCHANGED <<settings, messages, memories, context, reply, replied, before, jobVars, mishaps>>

\* Mutant: the memories do not count.
ReadHistoryWhole(t) ==
  /\ pc[t] = "history"
  /\ context' = [context EXCEPT ![t] = Kept(ContextBudget)]
  /\ Goto(t, "call")
  /\ UNCHANGED <<settings, messages, memories, recalled, reply, replied, before, jobVars, mishaps>>

ReadHistory(t) ==
  /\ pc[t] = "history"
  /\ context' = [context EXCEPT ![t] = Kept(ContextBudget - Used(t))]
  /\ Goto(t, "call")
  /\ UNCHANGED <<settings, messages, memories, recalled, reply, replied, before, jobVars, mishaps>>
-----------------------------------------------------------------------------
(* The turn *)

\* Agents::complete returns; the reply is stored before it is sent.
Complete(t) ==
  /\ pc[t] = "call" /\ t \notin Streams
  /\ \E n \in ReplySizes : reply' = [reply EXCEPT ![t] = n]
  /\ Goto(t, "question")
  /\ UNCHANGED <<settings, messages, memories, recalled, context, replied, before, jobVars, mishaps>>

\* A stream ends: the client has [DONE] before the flush begins.
StreamEnds(t) ==
  /\ pc[t] = "call" /\ t \in Streams
  /\ \E n \in ReplySizes \cup {0} : reply' = [reply EXCEPT ![t] = n]
  /\ replied' = replied \cup {t}
  /\ Goto(t, "question")
  /\ UNCHANGED <<settings, messages, memories, recalled, context, before, jobVars, mishaps>>

AppendQuestion(t) ==
  /\ pc[t] = "question"
  /\ messages' = Append(messages, [role |-> "user", turn |-> t, size |-> Question[t]])
  /\ Goto(t, IF reply[t] = 0 THEN "done" ELSE "answer")
  /\ UNCHANGED <<settings, memories, recalled, context, reply, replied, before, jobVars, mishaps>>

\* The flush goes on without the question; the handler fails.
AppendQuestionFails(t) ==
  /\ pc[t] = "question" /\ Mishap
  /\ Goto(t, IF t \notin Streams THEN "failed" ELSE IF reply[t] = 0 THEN "done" ELSE "answer")
  /\ UNCHANGED <<settings, messages, memories, recalled, context, reply, replied, before, jobVars>>

\* The answer is stored, the extractor spawned, and a waiting client served.
AppendAnswer(t) ==
  /\ pc[t] = "answer"
  /\ messages' = Append(messages, [role |-> "assistant", turn |-> t, size |-> reply[t]])
  /\ replied' = replied \cup {t}
  /\ Goto(t, "done")
  /\ IF settings.extract
     THEN Becomes(t, "ask") /\ apart' = (apart /\ \A u \in Turns : ~Extracting(u))
     ELSE UNCHANGED <<job, apart>>
  /\ UNCHANGED <<settings, memories, recalled, context, reply, before, todo, mishaps>>

AppendAnswerFails(t) ==
  /\ pc[t] = "answer" /\ Mishap
  /\ Goto(t, "failed")
  /\ UNCHANGED <<settings, messages, memories, recalled, context, reply, replied, before, jobVars>>

\* The embedder, a query or the model fails.
Fails(t) ==
  /\ pc[t] \in {"recall", "history", "call"} /\ Mishap
  /\ Goto(t, "failed")
  /\ UNCHANGED <<settings, messages, memories, recalled, context, reply, replied, before, jobVars>>

\* The client leaves: the handler is dropped where it waits; the guard of an
\* open stream stores what has been said.
Disconnect(t) ==
  /\ pc[t] \in {"recall", "history", "call", "question", "answer"} /\ Mishap
  /\ IF t \in Streams
     THEN IF pc[t] = "call"
          THEN /\ \E n \in ReplySizes \cup {0} : reply' = [reply EXCEPT ![t] = n]
               /\ Goto(t, "question")
          ELSE pc[t] \in {"recall", "history"} /\ Goto(t, "failed") /\ UNCHANGED reply
     ELSE Goto(t, "failed") /\ UNCHANGED reply
  /\ UNCHANGED <<settings, messages, memories, recalled, context, replied, before, jobVars>>
-----------------------------------------------------------------------------
(* The extractor *)

\* run: the model names facts; those beyond max_facts_per_turn are dropped.
Extract(t) ==
  /\ job[t] = "ask"
  /\ \E facts \in FactLists :
       LET n == IF Len(facts) < MaxFacts THEN Len(facts) ELSE MaxFacts
       IN  /\ todo' = [todo EXCEPT ![t] = SubSeq(facts, 1, n)]
           /\ Becomes(t, IF n = 0 THEN "done" ELSE "compare")
  /\ UNCHANGED <<settings, messages, memories, turnVars, apart, mishaps>>

\* The model fails or does not answer in JSON: a warning.
ExtractFails(t) ==
  /\ job[t] = "ask" /\ Mishap
  /\ Becomes(t, "done")
  /\ UNCHANGED <<settings, messages, memories, turnVars, todo, apart>>

\* On to the next fact.
NextFact(t) ==
  /\ todo' = [todo EXCEPT ![t] = Tail(@)]
  /\ Becomes(t, IF Len(todo[t]) = 1 THEN "done" ELSE "compare")

\* Mutant: only the same text is a duplicate.
NovelText(f) == \A i \in Loaded : memories[i].fact # f

Novel(f) == \A i \in Loaded : <<f, memories[i].fact>> \notin Similar

\* remember_if_novel, first half: embed the fact, read the rows, compare.
Compare(t) ==
  /\ job[t] = "compare"
  /\ IF Novel(Head(todo[t]))
     THEN Becomes(t, "insert") /\ UNCHANGED todo
     ELSE NextFact(t)
  /\ UNCHANGED <<settings, messages, memories, turnVars, apart, mishaps>>

\* Second half: insert it.
Insert(t) ==
  /\ job[t] = "insert"
  /\ memories' = Append(memories, [fact |-> Head(todo[t]), model |-> settings.model, turn |-> t])
  /\ NextFact(t)
  /\ UNCHANGED <<settings, messages, turnVars, apart, mishaps>>

\* A failed embedding, read or insert skips the fact.
RememberFails(t) ==
  /\ job[t] \in {"compare", "insert"} /\ Mishap
  /\ NextFact(t)
  /\ UNCHANGED <<settings, messages, memories, turnVars, apart>>
-----------------------------------------------------------------------------
\* The process dies and boots again, perhaps with another configuration; one
\* that does not resolve is refused, and the operator tries another.
Restart ==
  /\ Mishap
  /\ \E c \in {d \in Configs : ~Refused(d)} : settings' = Resolve(c)
  /\ pc' = [t \in Turns |-> IF pc[t] \in {"idle", "done"} THEN pc[t] ELSE "failed"]
  /\ job' = [t \in Turns |-> IF Extracting(t) THEN "done" ELSE job[t]]
  /\ todo' = [t \in Turns |-> <<>>]
  /\ UNCHANGED <<messages, memories, recalled, context, reply, replied, before, apart>>

Turn(t) ==
  \/ Begin(t) \/ Recall(t) \/ ReadHistory(t) \/ Complete(t) \/ StreamEnds(t)
  \/ AppendQuestion(t) \/ AppendAnswer(t)

Extraction(t) == Extract(t) \/ Compare(t) \/ Insert(t)

Trouble(t) ==
  \/ Fails(t) \/ Disconnect(t) \/ AppendQuestionFails(t) \/ AppendAnswerFails(t)
  \/ ExtractFails(t) \/ RememberFails(t)

Next ==
  \/ \E t \in Turns : Turn(t) \/ Extraction(t) \/ Trouble(t)
  \/ Restart

Spec == Init /\ [][Next]_vars
-----------------------------------------------------------------------------
(* Properties *)

Assembled(t) == pc[t] \in {"call", "question", "answer", "done"}

\* assemble_context: "the most-recent conversation messages that fit within
\* the budget" beside the recalled memories; the next older one would not fit.
WithinBudget(t) ==
  LET last        == context[t][2]
      cost(first) == Total([n \in 1..(last + 1 - first) |-> messages[last + 1 - n].size])
  IN  /\ Used(t) <= MemoryBudget
      /\ Used(t) + cost(context[t][1]) <= ContextBudget
      /\ context[t][1] > 1 => Used(t) + cost(context[t][1] - 1) > ContextBudget

\* recall: a fact known when the turn began is left out only for closer ones.
ClosestRecalled(t) ==
  \A n \in DOMAIN recalled[t], i \in 1..before[t].memories :
    LET j == recalled[t][n]
    IN  /\ memories[i].model = memories[j].model
        /\ Closeness[t][memories[i].fact] > Closeness[t][memories[j].fact]
        => \E m \in 1..n : recalled[t][m] = i

\* A turn follows the answers its client already had, unless they are too old
\* for the budget; a streamed one may still be on its way to the table.
FollowsAnswers(t) ==
  \A u \in before[t].replied \ Streams :
    \E i \in 1..context[t][2] :
      messages[i].role = "assistant" /\ messages[i].turn = u

ContextFaithful ==
  \A t \in Turns : Assembled(t) => WithinBudget(t) /\ ClosestRecalled(t) /\ FollowsAnswers(t)

\* remember_if_novel: "skip near-duplicates".  While extractions do not
\* overlap, no two facts of one embedder are near each other.
NoDuplicates ==
  apart => \A i, j \in DOMAIN memories :
    i < j /\ memories[i].model = memories[j].model =>
      <<memories[j].fact, memories[i].fact>> \notin Similar

\* However they overlap, a fact comes from an answer that was stored, and an
\* exchange yields no more than max_facts_per_turn.
Sourced ==
  \A i \in DOMAIN memories :
    /\ \E n \in DOMAIN messages : messages[n].role = "assistant" /\ messages[n].turn = memories[i].turn
    /\ Cardinality({j \in DOMAIN memories : memories[j].turn = memories[i].turn}) <= MaxFacts

FactsSound == NoDuplicates /\ Sourced
=============================================================================
