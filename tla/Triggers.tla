------------------------------ MODULE Triggers ------------------------------
(***************************************************************************)
(* The `triggers:` section after boot (crates/triggers): which entries are *)
(* fired, armed or mounted, and what a webhook's payload makes of its      *)
(* templates.  Pure operators; the queue the tasks land on is TaskQueue.   *)
(*                                                                         *)
(* A text is a sequence of pieces: a name, blank space "", or "{{" for     *)
(* text that holds the opening of a placeholder.  A template has slots     *)
(* besides, "{{path}}", and a "{{" that nothing closes.                    *)
(***************************************************************************)
EXTENDS McpShapes, SequencesExt

Text(piece) == [slot |-> FALSE, name |-> piece]
Slot(path)  == [slot |-> TRUE, name |-> path]

\* The field as it is written; contains("{{") on it, or on any other text.
Written(template) == [i \in DOMAIN template |-> IF template[i].slot THEN "{{" ELSE template[i].name]
Holds(text, piece) == piece \in ToSet(text)

\* walk: a payload maps the paths it has to what they print as; substitute
\* prints a path that is missing with its braces.
Walk(payload, path) == IF path \in DOMAIN payload THEN payload[path] ELSE "{{"

\* substitute: one pass, so a value is never searched for placeholders.  An
\* unclosed "{{" may take a slot after it for its end; both keep the "{{".
Substitute(template, payload) ==
  [i \in DOMAIN template |->
     IF template[i].slot THEN Walk(payload, template[i].name) ELSE template[i].name]

\* WebhookTrigger::handle: the agent of the task it enqueues, or nothing for 400.
Summoned(t, payload) ==
  {agent \in {Substitute(t.agent, payload)} :
     ~Holds(agent, "{{") /\ ~(ToSet(agent) \subseteq {""})}

\* CronSchedule::from_str: five fields get a leading 0 of seconds.  The cron
\* crate reads six fields, or seven with the year, or one word such as @daily.
Parses(s) ==
  IF s.fields = 1 THEN s.shorthand
  ELSE s.sound /\ (IF s.fields = 5 THEN 6 ELSE s.fields) \in {6, 7}

\* CronTrigger::from_config and run: a schedule that does not parse arms
\* nothing, and the loop of one that never comes round again ends at once.
Arms(t)  == t.kind = "cron" /\ Parses(t.schedule)
Fires(t) == Arms(t) /\ t.schedule.again

\* The task of a boot or cron trigger: its fields as they are written.
Fired(t) == Written(t.agent)

\* Triggers::fire_boot, spawn_cron and webhook_router: the entries each takes.
FiresAtBoot(triggers) == {t \in ToSet(triggers) : t.kind = "boot"}
SpawnsCron(triggers)  == {t \in ToSet(triggers) : Fires(t)}
Serves(triggers)      == {i \in DOMAIN triggers : triggers[i].kind = "webhook"}

\* WebhookTrigger::mount: axum panics on a path without a slash, and takes one
\* route a path, where two names for a parameter make one path.
Route(path) == IF path \in {"/hooks/{x}", "/hooks/{y}"} THEN "/hooks/{}" ELSE path
Mounts(triggers) ==
  /\ \A i \in Serves(triggers) : triggers[i].path # "hooks"
  /\ \A i, j \in Serves(triggers) :
       Route(triggers[i].path) = Route(triggers[j].path) => i = j

\* The agents of every task the section enqueues, whatever is posted.
TasksOf(triggers, payloads) ==
  {Fired(t) : t \in FiresAtBoot(triggers) \cup SpawnsCron(triggers)}
  \cup UNION {Summoned(triggers[i], p) : i \in Serves(triggers), p \in payloads}
-----------------------------------------------------------------------------
SomePieces    == {Text("pm"), Text(""), Text("{{"), Slot("agent"), Slot("team")}
SomeTemplates == UNION {[1..n -> SomePieces] : n \in 1..2}
SomePayloads  == UNION {[paths -> {"pm", "", "{{", "ghost"}] : paths \in SUBSET {"agent", "team"}}

\* "Reject payloads that left the agent field unresolved": what a webhook
\* enqueues names somebody, with the template's words in their places and the
\* payload's values in the others; a template without slots takes nothing
\* from a payload, and one whose slots are all filled is refused only when
\* nothing or a brace is left.
SubstitutedOn(template, payload) ==
  LET enqueued == Summoned([agent |-> template], payload)
      asked  == {template[i].name : i \in {j \in DOMAIN template : template[j].slot}}
      words  == {template[i].name : i \in {j \in DOMAIN template : ~template[j].slot}}
      values == words \cup {payload[p] : p \in asked \cap DOMAIN payload}
  IN  /\ (enqueued # {}) <=>
           asked \subseteq DOMAIN payload /\ "{{" \notin values /\ ~(values \subseteq {""})
      /\ \A agent \in enqueued :
           /\ \A i \in DOMAIN template :
                agent[i] = IF template[i].slot THEN payload[template[i].name] ELSE template[i].name
           /\ asked = {} => agent = Fired([agent |-> template])
=============================================================================
