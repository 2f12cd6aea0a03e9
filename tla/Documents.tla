----------------------------- MODULE Documents -----------------------------
(***************************************************************************)
(* coulisse.yaml from its text to a server: the expansion of placeholders, *)
(* the validation of the cross-references (cli/src/config.rs), and what    *)
(* the parts built from the file do with each reference.  Pure operators.  *)
(* The auth section is in Access, the strategies of experiments are in     *)
(* Experiments, the embedder and the extractor in Memory.                  *)
(*                                                                         *)
(* A text is a sequence of tokens: words, "${NAME}" of the environment,    *)
(* "${vars.name}" of the `vars:` table, and a "${" that nobody closes.     *)
(***************************************************************************)
EXTENDS Triggers

Word     == [kind |-> "word", name |-> "-"]
Unclosed == [kind |-> "open", name |-> "-"]
Env(n)   == [kind |-> "env", name |-> n]
VarOf(n) == [kind |-> "var", name |-> n]

Mentions(text, kind) == {t.name : t \in {u \in ToSet(text) : u.kind = kind}}

\* A text with every token of a kind replaced by what the table, which maps the
\* names that are set to texts, has for it.
Replaced(text, kind, table) ==
  FlattenSeq([i \in DOMAIN text |->
    IF text[i].kind = kind THEN table[text[i].name] ELSE <<text[i]>>])

\* expand_env_vars_with: one pass, or an error (nothing); "${vars.*}" stays for
\* the second.
ExpandEnvVars(text, env) ==
  IF Mentions(text, "open") = {} /\ Mentions(text, "env") \subseteq DOMAIN env
  THEN {Replaced(text, "env", env)} ELSE {}

\* expand_config_vars: one pass over what the first one wrote; only "${vars."
\* is looked for, so every other placeholder is text by now.
ExpandConfigVars(text, vars) ==
  IF Mentions(text, "var") \subseteq DOMAIN vars THEN {Replaced(text, "var", vars)} ELSE {}

\* Config::from_str: the table is read out of the text after the first pass,
\* and is itself part of the text the second goes over.
Expanded(table, body, env) ==
  LET texts == {body} \cup {table[n] : n \in DOMAIN table}
      vars  == [n \in DOMAIN table |-> Replaced(table[n], "env", env)]
  IN  IF \E text \in texts : ExpandEnvVars(text, env) = {} THEN {}
      ELSE IF \E n \in DOMAIN vars : ExpandConfigVars(vars[n], vars) = {} THEN {}
      ELSE ExpandConfigVars(Replaced(body, "env", env), vars)

SomeTokens == {Word, Unclosed, Env("KEY"), VarOf("x")}
SomeBodies == UNION {[1..n -> SomeTokens] : n \in 1..2}
SomeTables == {<<>>} \cup [{"x"} -> [1..1 -> SomeTokens]]
SomeEnvs   == {<<>>} \cup [{"KEY"} -> [1..1 -> SomeTokens \cup {Env("OTHER"), VarOf("y")}]]

\* A file loads exactly when everything it asks for is there: in the body, in
\* the table, and in what the environment brings in.  What is loaded holds no
\* placeholder but those a variable brought in as text.
ExpandsOn(table, body, env) ==
  LET texts       == {table[n] : n \in DOMAIN table} \cup {body}
      asked(kind) == UNION {Mentions(s, kind) : s \in texts}
      used        == {env[n] : n \in asked("env") \cap DOMAIN env}
      brought(kind, from) == UNION {Mentions(s, kind) : s \in from}
      results     == Expanded(table, body, env)
  IN  /\ (results # {}) <=>
           /\ asked("open") = {} /\ asked("env") \subseteq DOMAIN env
           /\ asked("var") \cup brought("var", used) \subseteq DOMAIN table
      /\ \A result \in results :
           /\ Mentions(result, "env") \subseteq brought("env", used)
           /\ Mentions(result, "var") \subseteq
                brought("var", used \cup {table[n] : n \in DOMAIN table})
-----------------------------------------------------------------------------
(* The validation *)

\* ProviderKind::parse, then the `providers:` map: judges and personas write
\* the provider as text, agents as a kind.
ProviderKinds == {"openai", "groq"}
Configured(d, provider) == provider \in ProviderKinds /\ provider \in d.providers

NamesIn(section)  == {section[i].name : i \in DOMAIN section}
NoDuplicates(seq) == Cardinality(ToSet(seq)) = Len(seq)
Distinct(section) == Cardinality(NamesIn(section)) = Len(section)
Callable(d)       == NamesIn(d.agents) \cup NamesIn(d.experiments)

\* A rate in percent; NaN compares false with every bound.
InUnit(rate) == rate \in 0..100

ValidJudges(d) ==
  /\ Distinct(d.judges)
  /\ \A j \in ToSet(d.judges) : j.rubrics # {} /\ InUnit(j.rate) /\ Configured(d, j.provider)

ValidAgents(d) ==
  /\ Distinct(d.agents)
  /\ \A a \in ToSet(d.agents) :
       a.provider \in d.providers /\ a.servers \subseteq d.mcp /\ a.judges \subseteq NamesIn(d.judges)

\* The part of validate_experiments that is about names.
ValidExperimentNames(d) ==
  /\ Distinct(d.experiments) /\ NamesIn(d.experiments) \cap NamesIn(d.agents) = {}
  /\ \A e \in ToSet(d.experiments) :
       e.variants # <<>> /\ NoDuplicates(e.variants) /\ ToSet(e.variants) \subseteq NamesIn(d.agents)

ValidSmokeTests(d) ==
  /\ Distinct(d.smoke)
  /\ \A s \in ToSet(d.smoke) :
       s.turns > 0 /\ s.repetitions > 0 /\ Configured(d, s.provider) /\ s.target \in Callable(d)

ValidSubagents(d) ==
  \A a \in ToSet(d.agents) :
    a.name \notin ToSet(a.subs) /\ ToSet(a.subs) \subseteq Callable(d) /\ NoDuplicates(a.subs)

ValidSidecars(d) == Distinct(d.sidecars) /\ \A s \in ToSet(d.sidecars) : s.command # ""

\* validate_triggers and triggers::validate_all; a template is not looked up.
ValidTrigger(d, t) ==
  /\ Holds(Written(t.agent), "{{") \/ Written(t.agent) \in {<<n>> : n \in Callable(d)}
  /\ t.kind = "webhook" => t.path \notin {"hooks", "/other"}
  /\ t.kind = "cron" => Parses(t.schedule)

\* A bug for the checks: two webhooks may share a path.
ValidTriggersShared(d) == Distinct(d.triggers) /\ \A t \in ToSet(d.triggers) : ValidTrigger(d, t)

ValidTriggers(d) ==
  /\ Distinct(d.triggers) /\ \A t \in ToSet(d.triggers) : ValidTrigger(d, t)
  /\ \A i, j \in Serves(d.triggers) : d.triggers[i].path = d.triggers[j].path => i = j

\* Config::validate, its cross-references.
Validates(d) ==
  /\ d.agents # <<>>
  /\ ValidJudges(d) /\ ValidAgents(d) /\ ValidExperimentNames(d) /\ ValidSmokeTests(d)
  /\ ValidSubagents(d) /\ ValidTriggers(d) /\ ValidSidecars(d)
-----------------------------------------------------------------------------
(* What becomes of the references *)

\* A list searched from the front, and a map the last writer of a key wins.
FirstNamed(section, n) == section[CHOOSE i \in DOMAIN section :
  section[i].name = n /\ \A j \in DOMAIN section : section[j].name = n => i <= j]
LastNamed(section, n)  == section[CHOOSE i \in DOMAIN section :
  section[i].name = n /\ \A j \in DOMAIN section : section[j].name = n => j <= i]

\* Judge::from_config, whose error fails the boot, and build_judges.
JudgeBuilds(j) == j.rubrics # {} /\ j.rate \in 0..100
BuildJudges(d) == [n \in NamesIn(d.judges) |-> LastNamed(d.judges, n)]

\* ExperimentRouter::new and resolve: an experiment hides an agent of its name
\* and may pick any variant, or nobody.
MayPick(d, n) ==
  IF n \notin NamesIn(d.experiments) THEN {n}
  ELSE LET arms == ToSet(LastNamed(d.experiments, n).variants)
       IN  IF arms = {} THEN {n} ELSE arms

\* complete_with_depth and build_tools: the agent is there, with a client and
\* its servers.
Answers(d, n) ==
  n \in NamesIn(d.agents) /\ LET a == FirstNamed(d.agents, n)
                             IN  a.provider \in d.providers /\ a.servers \subseteq d.mcp
Reached(d, n) == \A agent \in MayPick(d, n) : Answers(d, agent)

\* one_shot: the client of a judge or a persona, found again on each call.
HasClient(d, provider) == provider \in ProviderKinds /\ provider \in d.providers

\* judges_for_agent: who scores the agent's turns; a miss is skipped.
JudgesFor(d, a) == {BuildJudges(d)[n] : n \in a.judges \cap DOMAIN BuildJudges(d)}

\* What goes wrong with a file nobody validated: at boot, on a call, or never
\* noticed.  The three the validation lets through are named below.
Plain(t)          == ~Holds(Written(t.agent), "{{")
JudgesFail(d)     == \E j \in ToSet(d.judges) : ~JudgeBuilds(j)
RouteFails(d)     == "hooks" \in {d.triggers[i].path : i \in Serves(d.triggers)}
JudgeSkipped(d)   == ~JudgesFail(d) /\ \E a \in ToSet(d.agents) : {j.name : j \in JudgesFor(d, a)} # a.judges
ClientMissing(d)  == \E u \in ToSet(d.judges) \cup ToSet(d.smoke) : ~HasClient(d, u.provider)
NobodyAnswers(d)  ==
  \/ \E n \in Callable(d) \cup {s.target : s \in ToSet(d.smoke)} : ~Reached(d, n)
  \/ \E a \in ToSet(d.agents) : \E n \in ToSet(a.subs) : ~Reached(d, n)
  \/ \E t \in ToSet(d.triggers) :
       Plain(t) /\ ~\E n \in Callable(d) : Fired(t) = <<n>> /\ Reached(d, n)
AgentHidden(d)    == NamesIn(d.agents) \cap NamesIn(d.experiments) # {}
TemplateFired(d)  == \E t \in FiresAtBoot(d.triggers) \cup SpawnsCron(d.triggers) : ~Plain(t)
ScheduleIdle(d)   == \E t \in ToSet(d.triggers) : t.kind = "cron" /\ t \notin SpawnsCron(d.triggers)

Failures(d) ==
  LET when(label, failed) == IF failed THEN {label} ELSE {}
  IN  UNION {when("no agent", d.agents = <<>>), when("boot: a judge", JudgesFail(d)),
             when("boot: a route", RouteFails(d)), when("boot: two routes", ~Mounts(d.triggers)),
             when("a judge is skipped", JudgeSkipped(d)), when("no client", ClientMissing(d)),
             when("nobody answers", NobodyAnswers(d)), when("an agent is hidden", AgentHidden(d)),
             when("a task for a template", TemplateFired(d)),
             when("a schedule never fires", ScheduleIdle(d))}

\* What is refused though nothing above would go wrong: a name or an item
\* written twice, an agent that calls itself, a test of no turn or no run, a
\* program without a name, a webhook outside /hooks/.
Pedantic(d) ==
  \/ \E section \in {d.agents, d.judges, d.experiments, d.smoke, d.triggers, d.sidecars} : ~Distinct(section)
  \/ \E a \in ToSet(d.agents) : a.name \in ToSet(a.subs) \/ ~NoDuplicates(a.subs)
  \/ \E e \in ToSet(d.experiments) : e.variants = <<>> \/ ~NoDuplicates(e.variants)
  \/ \E s \in ToSet(d.smoke) : 0 \in {s.turns, s.repetitions}
  \/ \E s \in ToSet(d.sidecars) : s.command = ""
  \/ \E i \in Serves(d.triggers) : d.triggers[i].path = "/other"

\* "Keep cross-references consistent": an accepted file fails nowhere but at
\* two webhooks whose parameters differ in name only, at a boot or cron
\* trigger with a template, which nothing fills, and at a schedule that has no
\* day; a refused file would fail elsewhere, or is refused for form.
LetThrough(d) ==
  {"a task for a template"}
  \cup (IF \A i, j \in Serves(d.triggers) : d.triggers[i].path = d.triggers[j].path => i = j
        THEN {"boot: two routes"} ELSE {})
  \cup (IF \A t \in ToSet(d.triggers) : t.kind = "cron" => Arms(t)
        THEN {"a schedule never fires"} ELSE {})

CheckedOn(d) ==
  IF Validates(d) THEN Failures(d) \subseteq LetThrough(d)
  ELSE Pedantic(d) \/ ~(Failures(d) \subseteq LetThrough(d))
-----------------------------------------------------------------------------
\* Files that differ from a good one in one section, and in the providers.
Agent(n) == [name |-> n, provider |-> "openai", servers |-> {}, judges |-> {}, subs |-> <<>>]
Base == [providers |-> {"openai"}, mcp |-> {"todo"}, agents |-> <<Agent("pm"), Agent("coder")>>,
         judges |-> <<[name |-> "j", rubrics |-> {"tone"}, rate |-> 50, provider |-> "openai"]>>,
         experiments |-> <<[name |-> "exp", variants |-> <<"pm", "coder">>]>>,
         smoke |-> <<>>, triggers |-> <<>>, sidecars |-> <<>>]

Upto(n, S) == UNION {[1..k -> S] : k \in 0..n}
SomeProviders == {"openai", "groq", "mistral"}
SomeAgents == {[Agent(n) EXCEPT !.provider = p, !.servers = m, !.judges = j, !.subs = s] :
  n \in {"pm", "coder"}, p \in {"openai", "groq"}, m \in {{}, {"todo"}, {"gone"}}, j \in {{}, {"j"}, {"k"}},
  s \in {<<>>, <<"exp">>, <<"coder">>, <<"exp", "exp">>, <<"ghost">>}}
SomeJudges == [name : {"j", "k"}, rubrics : {{}, {"tone"}}, rate : {0, 100, 101, 1000}, provider : SomeProviders]
SomeExperiments == [name : {"exp", "pm", "ab"},
                    variants : {<<>>, <<"pm">>, <<"ghost">>, <<"pm", "pm">>, <<"exp">>, <<"coder", "pm">>}]
SomeSmoke == [name : {"s", "t"}, turns : 0..1, repetitions : 0..1,
              provider : SomeProviders, target : {"pm", "exp", "ghost"}]
SomeSchedules == {[fields |-> f, sound |-> s, shorthand |-> h, again |-> a] :
                    f \in {1, 4, 5, 6, 7}, s \in BOOLEAN, h \in BOOLEAN, a \in BOOLEAN}
SomeTriggers ==
  [kind : {"boot"}, name : {"t", "u"}, agent : {<<Text("pm")>>, <<Text("ghost")>>, <<Slot("agent")>>}]
  \cup [kind : {"cron"}, name : {"t"}, agent : {<<Text("exp")>>, <<Slot("agent")>>}, schedule : SomeSchedules]
  \cup [kind : {"webhook"}, name : {"t", "u"}, agent : {<<Text("pm")>>, <<Text("")>>, <<Slot("agent")>>},
        path : {"hooks", "/other", "/hooks/a", "/hooks/{x}", "/hooks/{y}"}]
SomeSidecars == [name : {"s", "t"}, command : {"", "redis"}]

JudgeFile(s, p) == [Base EXCEPT !.judges = s, !.providers = p]
SmokeFile(s, p) == [Base EXCEPT !.smoke = s, !.providers = p]

AgentFiles ==
  {[Base EXCEPT !.agents = s] :
     s \in {<<>>} \cup {<<a, b>> : a \in SomeAgents, b \in {Agent("pm"), Agent("coder")}}}
JudgeFiles == {JudgeFile(s, p) : s \in Upto(1, SomeJudges), p \in {{}, {"groq", "openai"}}}
ExperimentFiles == {[Base EXCEPT !.experiments = s] : s \in Upto(2, SomeExperiments)}
SmokeFiles == {SmokeFile(s, p) : s \in Upto(1, SomeSmoke), p \in {{"openai"}, {"groq", "openai"}}}
TriggerFiles ==
  {[Base EXCEPT !.triggers = s] :
     s \in Upto(1, SomeTriggers)
           \cup [1..2 -> {t \in SomeTriggers : t.kind # "cron" /\ t.agent # <<Text("ghost")>>}]}
SidecarFiles == {[Base EXCEPT !.sidecars = s] : s \in Upto(2, SomeSidecars)}

Documents ==
  AgentFiles \cup JudgeFiles \cup ExperimentFiles \cup SmokeFiles \cup TriggerFiles \cup SidecarFiles
=============================================================================
