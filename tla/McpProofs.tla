------------------------------ MODULE McpProofs ------------------------------
(***************************************************************************)
(* Proofs about McpConnect and McpTokens.                                  *)
(*                                                                         *)
(* McpConnect, for any number of servers, users, tabs and configurations:  *)
(* only the state a tab was sent with bears its verifier, so what is saved *)
(* was granted to the request of the user it is saved for; while no        *)
(* registration of a server met another or was lost, its row is written    *)
(* once and both legs read it; and a tab that has seen no restart is       *)
(* served by the configuration it began with.                              *)
(*                                                                         *)
(* McpTokens, for any number of turns, authorisations, tokens and faults.  *)
(*                                                                         *)
(* McpSse, McpTools, McpShapes, Documents, Triggers and Skills, for any    *)
(* inputs: what the worker makes of a stream of events, the names of the   *)
(* tools of two servers, the entries, texts, references and templates of   *)
(* coulisse.yaml, and the catalog of skills.                               *)
(***************************************************************************)
EXTENDS MCMcpConnect, McpTokens, FiniteSetTheorems, WellFoundedInduction, TLAPS

Seals ==
  [server : Names \cup {None}, user : Users \cup {None}, verifier : Tabs \cup {None},
   exp : Nat, key : Nat]

Registrations == [id : Nat, base : Nat, server : Names \cup {None}, scopes : SUBSET Scope,
                  pub : Published \cup {None}]

TabStates ==
  [pc : Handling \cup {"away", "refused", "provider", "returning", "done"},
   leg : {"connect", "callback"}, seal : Seals, meta : Registrations, asked : Registrations,
   sent : Seals, code : {"none", "fresh", "used"}, account : Users \cup {None}]

Rows == [server : Names, user : Users, account : Users, scopes : SUBSET Scope]

\* Where a tab stands that was let in.
Inside == Handling \cup {"provider", "returning", "done"}

TypeOK ==
  /\ cfg \in Config /\ now \in Nat
  /\ links \subseteq Seals
  /\ client \in [Names -> Registrations] /\ issued \in [Names -> Nat]
  /\ token \in [Names \X Users -> Rows \cup {None}]
  /\ tab \in [Tabs -> TabStates]
  /\ raced \subseteq Names /\ churned \subseteq Tabs /\ lent \subseteq Users

\* What was let in names a user and, while a handler runs, a server of the file.
LinksSealed == \A s \in links : s.server \in Names /\ s.user \in Users /\ s.verifier = None

Admitted(f) ==
  /\ tab[f].pc \in Inside => tab[f].seal.server \in Names /\ tab[f].seal.user \in Users
  /\ tab[f].pc \in Handling => Authorised(tab[f].seal.server)

\* A tab that was sent to the consent screen.
Sent(f) ==
  \/ tab[f].pc \in {"provider", "returning", "done"}
  \/ tab[f].pc \in Handling /\ tab[f].leg = "callback"

\* The legs keep to their handlers; a callback that was let in has a code, and a
\* connect handler none.
Legs(f) ==
  /\ tab[f].pc = "ask" => tab[f].leg = "connect"
  /\ tab[f].pc \in {"exchange", "save"} => tab[f].leg = "callback"
  /\ tab[f].pc \in Handling => (tab[f].leg = "callback" <=> tab[f].code # "none")

\* Back with the state it was sent with, where it was sent at all.
Straight(f) == Sent(f) => tab[f].seal = tab[f].sent

\* Only the state that a tab was sent with has its verifier, and a code is of an
\* account that consented to that request.
Bound(f) ==
  /\ tab[f].sent # Forged =>
       tab[f].sent.server \in Names /\ tab[f].sent.user \in Users /\ tab[f].sent.verifier = f
  /\ Sent(f) => tab[f].sent # Forged
  /\ tab[f].seal.verifier = f => Straight(f)
  /\ tab[f].pc \in {"provider", "returning", "save", "done"} => tab[f].seal = tab[f].sent
  /\ Sent(f) /\ tab[f].code # "none" =>
       tab[f].account \in Users /\ (tab[f].account = tab[f].sent.user \/ tab[f].sent.user \in lent)

\* A registration asks for what its provider published.
Drawn(reg) == reg.pub \in Published /\ reg.scopes = Cached(reg.pub)

\* What a provider registers is what the scopes of a request come from.
Registers(f) ==
  LET n == tab[f].seal.server IN
  /\ tab[f].pc \in {"register", "remember"} => Server(n).oauth = "discover"
  /\ tab[f].pc = "remember" => tab[f].meta.id > 0 /\ Drawn(tab[f].meta)
  /\ tab[f].pc = "ask" /\ Server(n).oauth = "discover" => Drawn(tab[f].meta)
  /\ tab[f].pc = "provider" /\ f \notin churned /\ Server(n).oauth = "discover" =>
       /\ Authorised(n) /\ tab[f].asked.pub \in Published
       /\ tab[f].asked.scopes = EffectiveScopes(Server(n).scopes, Cached(tab[f].asked.pub))

\* The client of the request is the one the server is known by since.
SameClient(f, reg) ==
  LET n == tab[f].seal.server IN
  /\ Server(n).oauth = "static" => reg.id = 0 /\ reg.base = cfg.base
  /\ Server(n).oauth = "discover" =>
       client[n] # NoClient /\ reg.id = client[n].id /\ reg.base = client[n].base

Presents(f) ==
  f \notin churned /\ tab[f].seal.server \notin raced /\ Straight(f) =>
    /\ tab[f].pc = "ask" => SameClient(f, tab[f].meta)
    /\ Sent(f) => SameClient(f, tab[f].asked)
    /\ tab[f].pc = "exchange" =>
         tab[f].meta.id = tab[f].asked.id /\ tab[f].meta.base = tab[f].asked.base

TabKept(f) == Admitted(f) /\ Legs(f) /\ Bound(f) /\ Registers(f) /\ Presents(f)

\* One registration at a time, and none once the row is there.
Once ==
  \A n \in Names \ raced :
    /\ issued[n] <= 1
    /\ \A f, g \in Registering(n) : f = g
    /\ Registering(n) # {} => client[n] = NoClient
    /\ client[n] = NoClient /\ (\A f \in Registering(n) : tab[f].pc = "register") => issued[n] = 0

RowsCached == \A n \in Names : client[n] # NoClient => Drawn(client[n])

IInv == LinksSealed /\ (\A f \in Tabs : TabKept(f)) /\ Once /\ RowsCached /\ GrantsBelong

\* What the file says of a server that users authorise.
LEMMA ServerTypes ==
  ASSUME TypeOK, NEW n \in Names, Authorised(n)
  PROVE  Server(n) = Entry(cfg.mcp[n]) /\ Server(n).scopes \in SUBSET Scope
<1>1. cfg.mcp[n] # None BY DEF Authorised, Server
<1>2. cfg.mcp[n] \in Raw BY <1>1 DEF TypeOK, Config
<1>3. cfg.mcp[n].scopes \in SUBSET Scope BY <1>2 DEF Raw
<1> QED BY <1>1, <1>3 DEF Server, Entry

\* What is cached of a provider are scopes.
LEMMA CachedTypes == ASSUME NEW pub \in Published PROVE Cached(pub) \in SUBSET Scope
<1>1. /\ pub.scopes \in SUBSET Scope
      /\ pub.resource # None => pub.resource \in SUBSET Scope
      /\ pub.echoes # None => pub.echoes \in SUBSET Scope
  BY DEF Published
<1> QED BY <1>1 DEF Cached, Discovered

LEMMA SealTypes ==
  ASSUME TypeOK, NEW n \in Names, NEW u \in Users \cup {None}, NEW v \in Tabs \cup {None}
  PROVE  /\ Seal(n, u, v) \in Seals
         /\ Seal(n, u, v).server = n /\ Seal(n, u, v).user = u /\ Seal(n, u, v).verifier = v
<1>1. now + TTL \in Nat /\ cfg.key \in Nat BY McpConnectAssumption DEF TypeOK, Config
<1> QED BY <1>1 DEF Seal, Seals

\* An empty tab, and one that was refused.
LEMMA EmptyTypes ==
  /\ Away \in TabStates /\ Refused \in TabStates /\ Forged \in Seals /\ NoClient \in Registrations
  /\ Refused.pc = "refused" /\ Away.pc = "away" /\ NoClient.id = 0
  /\ Refused.sent = Forged /\ Away.sent = Forged
<1>1. Forged \in Seals BY DEF Forged, Seals
<1>2. NoClient \in Registrations /\ NoClient.id = 0 BY DEF NoClient, Registrations
<1> QED BY <1>1, <1>2 DEF Away, Refused, TabStates

\* What a handler has in hand of a static entry.
LEMMA StaticTypes ==
  ASSUME TypeOK, NEW n \in Names, Authorised(n)
  PROVE  /\ StaticClient(n) \in Registrations
         /\ StaticClient(n).id = 0 /\ StaticClient(n).base = cfg.base
<1>1. Server(n).scopes \in SUBSET Scope BY ServerTypes
<1>2. cfg.base \in Nat /\ cfg.redirect[n] \in Names BY DEF TypeOK, Config
<1> QED BY <1>1, <1>2 DEF StaticClient, Registrations

LEMMA EffectiveTypes ==
  ASSUME NEW y \in SUBSET Scope, NEW d \in SUBSET Scope
  PROVE  EffectiveScopes(y, d) \in SUBSET Scope /\ EffectiveScopes(y, d) # {}
BY DEF EffectiveScopes, Scope

\* A tab after a step on its fields.
LEMMA TabMoves ==
  ASSUME TypeOK, NEW f \in Tabs, NEW t \in TabStates, Set(f, t)
  PROVE  /\ tab' \in [Tabs -> TabStates] /\ tab'[f] = t
         /\ \A g \in Tabs : g # f => tab'[g] = tab[g]
BY DEF Set, TypeOK

LEMMA TypeStep == TypeOK /\ (\A f \in Tabs : TabKept(f)) /\ [Next]_vars => TypeOK'
<1> SUFFICES ASSUME TypeOK, \A f \in Tabs : TabKept(f), [Next]_vars PROVE TypeOK' OBVIOUS
<1>0. /\ cfg \in Config /\ now \in Nat /\ links \subseteq Seals /\ lent \subseteq Users
      /\ client \in [Names -> Registrations] /\ issued \in [Names -> Nat]
      /\ token \in [Names \X Users -> Rows \cup {None}]
      /\ \A f \in Tabs : tab[f] \in TabStates
      /\ raced \subseteq Names /\ churned \subseteq Tabs
  BY DEF TypeOK
\* Most steps move one tab.
<1>1. ASSUME NEW f \in Tabs, NEW t \in TabStates, Set(f, t), UNCHANGED <<cfg, now, links, client, issued, token, churned>>,
             raced' \subseteq Names, lent' \subseteq Users
      PROVE  TypeOK'
  BY <1>0, <1>1, TabMoves DEF TypeOK
<1>2. ASSUME NEW f \in Tabs, tab[f].pc \in Handling
      PROVE  tab[f].seal.server \in Names /\ tab[f].seal.user \in Users /\ Authorised(tab[f].seal.server)
  BY <1>2 DEF TabKept, Admitted, Inside
<1>3. ASSUME NEW n \in Names, NEW u \in Users, Mint(n, u) PROVE TypeOK'
  <2>1. Seal(n, u, None) \in Seals BY SealTypes
  <2> QED BY <1>0, <1>3, <2>1 DEF Mint, TypeOK, clock, history
<1>4. ASSUME NEW f \in Tabs, NEW n \in Names, NEW s \in links \cup {Forged}, Open(f, s, n) PROVE TypeOK'
  <2>1. s \in Seals BY <1>0, EmptyTypes
  <2>2. [Away EXCEPT !.pc = "cached", !.seal = [s EXCEPT !.server = n]] \in TabStates
    BY <2>1, EmptyTypes DEF TabStates, Seals, Handling
  <2>3. PICK t \in TabStates : Set(f, t) BY <1>4, <2>2, EmptyTypes DEF Open, Enter
  <2> QED BY <1>0, <1>1, <1>4, <2>3 DEF Open, clock, history
<1>5. ASSUME NEW f \in Tabs, NEW n \in Names, NEW u \in Users \cup {None}, NEW b \in BOOLEAN, OpenFor(f, n, u, b) PROVE TypeOK'
  <2>1. Seal(n, u, None) \in Seals BY SealTypes
  <2>2. [Away EXCEPT !.pc = "cached", !.seal = Seal(n, u, None)] \in TabStates
    BY <2>1, EmptyTypes DEF TabStates, Handling
  <2>3. PICK t \in TabStates : Set(f, t) BY <1>5, <2>2, EmptyTypes DEF OpenFor, Enter
  <2> QED BY <1>0, <1>1, <1>5, <2>3 DEF OpenFor, clock, history
<1>6. ASSUME NEW f \in Tabs, Resolve(f) PROVE TypeOK'
  <2> DEFINE n == tab[f].seal.server
  <2>0. tab[f].pc = "cached" /\ n \in Names /\ Authorised(n) BY <1>2, <1>6 DEF Resolve, Handling
  <2>1. StaticClient(n) \in Registrations /\ client[n] \in Registrations BY <1>0, <2>0, StaticTypes
  <2>2. ASSUME NEW m \in Registrations, Resolved(f, m) PROVE \E t \in TabStates : Set(f, t)
    <3>1. [tab[f] EXCEPT !.meta = m, !.pc = IF tab[f].leg = "connect" THEN "ask" ELSE "exchange"] \in TabStates
      BY <1>0, <2>2 DEF TabStates, Handling
    <3> QED BY <2>2, <3>1 DEF Resolved
  <2>3. [tab[f] EXCEPT !.pc = "register"] \in TabStates BY <1>0 DEF TabStates, Handling
  <2>4. \E t \in TabStates : Set(f, t) BY <1>6, <2>1, <2>2, <2>3, EmptyTypes DEF Resolve, At
  <2>5. raced' \subseteq Names BY <1>0, <1>6, <2>0 DEF Resolve
  <2> QED BY <1>0, <1>1, <1>6, <2>4, <2>5 DEF Resolve, clock
<1>7. ASSUME NEW f \in Tabs, Register(f) PROVE TypeOK'
  <2> DEFINE n == tab[f].seal.server
             reg(pub) == [id |-> issued[n] + 1, base |-> cfg.base, server |-> n, scopes |-> Cached(pub), pub |-> pub]
  <2>0. n \in Names BY <1>2, <1>7 DEF Register, Handling
  <2>1. ASSUME NEW pub \in Publishes[n] PROVE reg(pub) \in Registrations
    <3>1. issued[n] + 1 \in Nat /\ cfg.base \in Nat BY <1>0, <2>0 DEF Config
    <3>2. pub \in Published BY <2>0, McpConnectAssumption
    <3> QED BY <2>0, <3>1, <3>2, CachedTypes DEF Registrations
  <2>2. ASSUME NEW pub \in Publishes[n] PROVE [tab[f] EXCEPT !.pc = "remember", !.meta = reg(pub)] \in TabStates
    <3>1. PICK m \in Registrations : m = reg(pub) BY <2>1
    <3>2. [tab[f] EXCEPT !.pc = "remember", !.meta = m] \in TabStates BY <1>0, <3>1 DEF TabStates, Handling
    <3> QED BY <3>1, <3>2
  <2>3. \E t \in TabStates : Set(f, t)
    <3>1. PICK pub \in Publishes[n] : Set(f, [tab[f] EXCEPT !.pc = "remember", !.meta = reg(pub)]) \/ Set(f, Refused)
      BY <1>7 DEF Register
    <3> QED BY <2>2, <3>1, EmptyTypes
  <2>4. tab' \in [Tabs -> TabStates] BY <2>3, TabMoves
  <2>5. issued' \in [Names -> Nat] BY <1>0, <1>7, <2>0 DEF Register
  <2> QED BY <1>0, <1>7, <2>4, <2>5 DEF Register, TypeOK, clock, history
<1>8. ASSUME NEW f \in Tabs, Remember(f) PROVE TypeOK'
  <2>1. tab[f].meta \in Registrations BY <1>0 DEF TabStates
  <2>2. [tab[f] EXCEPT !.meta = tab[f].meta, !.pc = IF tab[f].leg = "connect" THEN "ask" ELSE "exchange"] \in TabStates
    BY <1>0 DEF TabStates, Handling
  <2>3. tab' \in [Tabs -> TabStates] BY <1>8, <2>2, TabMoves DEF Remember, Resolved
  <2>4. client' \in [Names -> Registrations] BY <1>0, <1>8, <2>1 DEF Remember
  <2> QED BY <1>0, <1>8, <2>3, <2>4 DEF Remember, TypeOK, clock, history
<1>9. ASSUME NEW f \in Tabs, Ask(f) PROVE TypeOK'
  <2> DEFINE n == tab[f].seal.server
             u == tab[f].seal.user
             meta == tab[f].meta
             req == IF Server(n).oauth = "static" THEN meta
                    ELSE [meta EXCEPT !.scopes = EffectiveScopes(Server(n).scopes, meta.scopes)]
  <2>0. n \in Names /\ u \in Users /\ Authorised(n) BY <1>2, <1>9 DEF Ask, Handling
  <2>1. meta \in Registrations BY <1>0 DEF TabStates
  <2>2. req \in Registrations
    <3>1. meta.scopes \in SUBSET Scope BY <2>1 DEF Registrations
    <3>2. EffectiveScopes(Server(n).scopes, meta.scopes) \in SUBSET Scope
      BY <2>0, <3>1, ServerTypes, EffectiveTypes
    <3> QED BY <2>1, <3>2 DEF Registrations
  <2>3. Seal(n, u, f) \in Seals BY <2>0, SealTypes
  <2>4. Set(f, [tab[f] EXCEPT !.pc = "provider", !.meta = NoClient, !.seal = Seal(n, u, f),
                             !.sent = Seal(n, u, f), !.asked = req])
    BY <1>9 DEF Ask, SentWith
  <2> HIDE DEF req
  <2>5. [tab[f] EXCEPT !.pc = "provider", !.meta = NoClient, !.seal = Seal(n, u, f),
                       !.sent = Seal(n, u, f), !.asked = req] \in TabStates
    BY <1>0, <2>2, <2>3, EmptyTypes DEF TabStates
  <2> QED BY <1>0, <1>1, <1>9, <2>4, <2>5 DEF Ask, clock, history
<1>10. ASSUME NEW f \in Tabs, NEW p \in Users \cup {None}, Consent(f, p) PROVE TypeOK'
  <2>1. [tab[f] EXCEPT !.pc = "returning", !.account = p, !.code = IF p = None THEN "none" ELSE "fresh"] \in TabStates
    BY <1>0 DEF TabStates
  <2>2. lent' \subseteq Users
    <3>1. tab[f].sent # Forged /\ tab[f].sent.user \in Users
      BY <1>10 DEF Consent, TabKept, Bound, Sent
    <3> QED BY <1>0, <1>10, <3>1 DEF Consent
  <2> QED BY <1>0, <1>1, <1>10, <2>1, <2>2 DEF Consent, clock
<1>11. ASSUME NEW f \in Tabs, NEW s \in States, Callback(f, s) PROVE TypeOK'
  <2>0. s \in Seals BY <1>0, EmptyTypes DEF States, TabStates
  <2>1. [tab[f] EXCEPT !.pc = "cached", !.leg = "callback", !.seal = s] \in TabStates
    BY <1>0, <2>0 DEF TabStates, Handling
  <2>2. \E t \in TabStates : Set(f, t) BY <1>11, <2>1, EmptyTypes DEF Callback
  <2> QED BY <1>0, <1>1, <1>11, <2>2 DEF Callback, clock, history
<1>12. ASSUME NEW f \in Tabs, Exchange(f) PROVE TypeOK'
  <2>1. [tab[f] EXCEPT !.pc = "save", !.code = "used"] \in TabStates
    BY <1>0 DEF TabStates, Handling
  <2>2. \E t \in TabStates : Set(f, t) BY <1>12, <2>1, EmptyTypes DEF Exchange
  <2> QED BY <1>0, <1>1, <1>12, <2>2 DEF Exchange, clock, history
<1>13. ASSUME NEW f \in Tabs, Save(f) PROVE TypeOK'
  <2>1. [tab[f] EXCEPT !.pc = "done", !.meta = NoClient] \in TabStates
    BY <1>0, EmptyTypes DEF TabStates
  <2>2. tab' \in [Tabs -> TabStates] BY <1>13, <2>1, TabMoves DEF Save
  <2>3. tab[f].seal.server \in Names /\ tab[f].seal.user \in Users BY <1>2, <1>13 DEF Save, Handling
  <2>4. Grant(f) \in Rows
    <3>1. tab[f].sent # Forged /\ tab[f].account \in Users
      BY <1>13 DEF Save, TabKept, Bound, Legs, Sent, Handling
    <3>2. tab[f].sent.server \in Names /\ tab[f].sent.user \in Users BY <3>1 DEF TabKept, Bound
    <3>3. tab[f].asked.scopes \in SUBSET Scope BY <1>0 DEF TabStates, Registrations
    <3> QED BY <3>1, <3>2, <3>3 DEF Grant, Rows
  <2>5. token' \in [Names \X Users -> Rows \cup {None}]
    BY <1>0, <1>13, <2>3, <2>4 DEF Save
  <2> QED BY <1>0, <1>13, <2>2, <2>5 DEF Save, TypeOK, clock, history
<1>14. ASSUME NEW f \in Tabs, Breaks(f) PROVE TypeOK'
  <2>1. raced' \subseteq Names BY <1>0, <1>2, <1>14 DEF Breaks, Lost
  <2> QED BY <1>0, <1>1, <1>14, <2>1, EmptyTypes DEF Breaks, clock
<1>15. ASSUME NEW f \in Tabs, Reload(f) PROVE TypeOK'
  <2>1. [tab[f] EXCEPT !.pc = "returning"] \in TabStates BY <1>0 DEF TabStates
  <2> QED BY <1>0, <1>1, <1>15, <2>1 DEF Reload, At, clock, history
<1>16. ASSUME NEW c \in Configs, Boot(c) PROVE TypeOK'
  <2>1. c \in Config BY McpConnectAssumption
  <2>2. tab' \in [Tabs -> TabStates] BY <1>0, <1>16, EmptyTypes DEF Boot
  <2>3. raced' \subseteq Names /\ lent' \subseteq Users
    <3>1. \A f \in Tabs : Lost(f) \subseteq Names BY <1>2 DEF Lost, Handling
    <3> QED BY <1>0, <1>16, <3>1 DEF Boot
  <2> QED BY <1>0, <1>16, <2>1, <2>2, <2>3 DEF Boot, TypeOK
<1>17. ASSUME Tick \/ UNCHANGED vars PROVE TypeOK'
  BY <1>0, <1>17 DEF Tick, vars, TypeOK, clock, history
<1> QED
  BY <1>3, <1>4, <1>5, <1>6, <1>7, <1>8, <1>9, <1>10, <1>11, <1>12, <1>13, <1>14, <1>15, <1>16, <1>17
  DEF Next, Handle
-----------------------------------------------------------------------------
(* What holds of a tab *)

\* A step of another tab leaves it, unless it registers the server again.
LEMMA OthersKept ==
  ASSUME TypeOK, NEW g \in Tabs, TabKept(g), tab'[g] = tab[g], cfg' = cfg, churned' = churned,
         raced \subseteq raced', lent \subseteq lent',
         \A n \in Names \ raced : client'[n] = client[n] \/ client[n] = NoClient
  PROVE  TabKept(g)'
<1>0. \A n : Server(n)' = Server(n) BY DEF Server
<1>1. Sent(g)' = Sent(g) /\ Straight(g)' = Straight(g) BY DEF Sent, Straight
<1>6. Bound(g)' BY <1>1 DEF TabKept, Bound
<1>2. Admitted(g)' BY <1>0 DEF TabKept, Admitted, Authorised
<1>3. Legs(g)' BY <1>1 DEF TabKept, Legs
<1>4. Registers(g)' BY <1>0 DEF TabKept, Registers, Drawn, Authorised
<1>5. Presents(g)'
  <2> DEFINE n == tab[g].seal.server
  <2> SUFFICES ASSUME g \notin churned, n \notin raced, Straight(g), tab[g].pc = "ask" \/ Sent(g)
               PROVE  /\ tab[g].pc = "ask" => SameClient(g, tab[g].meta)'
                      /\ Sent(g) => SameClient(g, tab[g].asked)'
    BY <1>1 DEF TabKept, Presents, Sent, Handling
  <2>1. n \in Names BY DEF TabKept, Admitted, Sent, Inside, Handling
  <2>2. client'[n] = client[n] \/ client[n] = NoClient BY <2>1
  <2>3. /\ tab[g].pc = "ask" => SameClient(g, tab[g].meta)
        /\ Sent(g) => SameClient(g, tab[g].asked)
    BY DEF TabKept, Presents
  <2> QED BY <1>0, <2>2, <2>3 DEF SameClient
<1> QED BY <1>2, <1>3, <1>4, <1>5, <1>6 DEF TabKept

\* A tab that was refused, or has gone nowhere, is in nobody's way.
LEMMA OutsideKept ==
  ASSUME NEW g, tab'[g].pc \notin Inside,
         tab'[g].sent = Forged \/ (tab'[g].sent = tab[g].sent /\ Bound(g))
  PROVE  TabKept(g)'
<1>1. ~Sent(g)' BY DEF Sent, Inside, Handling
<1>2. Bound(g)' BY <1>1 DEF Bound, Straight, Inside, Handling
<1> QED BY <1>1, <1>2 DEF TabKept, Admitted, Legs, Registers, Presents, Inside, Handling

\* A handler that keeps what its tab was sent with keeps what that is bound to.
LEMMA BoundKept ==
  ASSUME NEW f, Bound(f), tab'[f].seal = tab[f].seal, tab'[f].sent = tab[f].sent,
         tab'[f].account = tab[f].account, tab'[f].code = tab[f].code, lent \subseteq lent',
         Sent(f)' => Sent(f),
         tab'[f].pc \in {"provider", "returning", "save", "done"} => tab[f].seal = tab[f].sent
  PROVE  Bound(f)'
BY DEF Bound, Straight

\* A connect handler starts.
LEMMA EnterKept ==
  ASSUME TypeOK, NEW f \in Tabs, NEW s \in Seals, NEW ok \in BOOLEAN, Enter(f, ok, s), cfg' = cfg,
         ok => s.server \in Names /\ s.user \in Users /\ Authorised(s.server)
  PROVE  TabKept(f)' /\ \A g \in Tabs : g # f => tab'[g] = tab[g]
<1>1. CASE ok
  <2> DEFINE t == [Away EXCEPT !.pc = "cached", !.seal = s]
  <2>1. t \in TabStates /\ t.pc = "cached" /\ t.leg = "connect" /\ t.seal = s /\ t.sent = Forged /\ t.code = "none"
    BY EmptyTypes DEF TabStates, Handling, Away
  <2>2. Set(f, t) BY <1>1 DEF Enter
  <2> HIDE DEF t
  <2>3. tab'[f] = t /\ \A g \in Tabs : g # f => tab'[g] = tab[g] BY <2>1, <2>2, TabMoves
  <2>4. Authorised(s.server)' BY <1>1 DEF Authorised, Server
  <2>5. ~Sent(f)' BY <2>1, <2>3 DEF Sent
  <2>6. Bound(f)' BY <2>1, <2>3, <2>5 DEF Bound, Straight
  <2> QED BY <1>1, <2>1, <2>3, <2>4, <2>5, <2>6 DEF TabKept, Admitted, Legs, Registers, Presents
<1>2. CASE ~ok
  <2>1. Set(f, Refused) BY <1>2 DEF Enter
  <2>2. tab'[f] = Refused /\ \A g \in Tabs : g # f => tab'[g] = tab[g] BY <2>1, EmptyTypes, TabMoves
  <2> QED BY <2>2, EmptyTypes, OutsideKept DEF Inside, Handling
<1> QED BY <1>1, <1>2

\* What a leg has in hand when resolve returns.
LEMMA ResolvedMoves ==
  ASSUME TypeOK, NEW f \in Tabs, NEW m \in Registrations, Resolved(f, m)
  PROVE  /\ tab'[f].leg = tab[f].leg /\ tab'[f].seal = tab[f].seal /\ tab'[f].asked = tab[f].asked
         /\ tab'[f].code = tab[f].code /\ tab'[f].meta = m
         /\ tab'[f].sent = tab[f].sent /\ tab'[f].account = tab[f].account
         /\ tab'[f].pc = IF tab[f].leg = "connect" THEN "ask" ELSE "exchange"
         /\ tab[f].leg \in {"connect", "callback"}
         /\ \A g \in Tabs : g # f => tab'[g] = tab[g]
<1> DEFINE t == [tab[f] EXCEPT !.meta = m, !.pc = IF tab[f].leg = "connect" THEN "ask" ELSE "exchange"]
<1>0. tab[f] \in TabStates BY DEF TypeOK
<1>1. /\ t \in TabStates /\ t.leg = tab[f].leg /\ t.seal = tab[f].seal /\ t.asked = tab[f].asked
      /\ t.code = tab[f].code /\ t.meta = m /\ t.sent = tab[f].sent /\ t.account = tab[f].account
      /\ t.pc = IF tab[f].leg = "connect" THEN "ask" ELSE "exchange"
      /\ tab[f].leg \in {"connect", "callback"}
  BY <1>0 DEF TabStates, Handling
<1>2. Set(f, t) BY DEF Resolved
<1> HIDE DEF t
<1>3. tab'[f] = t /\ \A g \in Tabs : g # f => tab'[g] = tab[g] BY <1>1, <1>2, TabMoves
<1> QED BY <1>1, <1>3

\* resolve hands the leg its client.
LEMMA ResolvedKept ==
  ASSUME TypeOK, NEW f \in Tabs, NEW m \in Registrations, Resolved(f, m),
         tab[f].pc \in Handling, TabKept(f), cfg' = cfg, churned' = churned, raced \subseteq raced',
         lent \subseteq lent',
         LET n == tab[f].seal.server IN
         /\ Server(n).oauth = "discover" => Drawn(m)
         /\ f \notin churned /\ n \notin raced => SameClient(f, m)'
         /\ f \notin churned /\ n \notin raced /\ tab[f].leg = "callback" /\ Straight(f) =>
              /\ SameClient(f, tab[f].asked)'
              /\ m.id = tab[f].asked.id /\ m.base = tab[f].asked.base
  PROVE  TabKept(f)'
<1> DEFINE n == tab[f].seal.server
<1>1. /\ tab'[f].leg = tab[f].leg /\ tab'[f].seal = tab[f].seal /\ tab'[f].asked = tab[f].asked
      /\ tab'[f].code = tab[f].code /\ tab'[f].meta = m
      /\ tab'[f].sent = tab[f].sent /\ tab'[f].account = tab[f].account
      /\ tab'[f].pc = IF tab[f].leg = "connect" THEN "ask" ELSE "exchange"
      /\ tab[f].leg \in {"connect", "callback"}
  BY ResolvedMoves
<1>3. Server(n)' = Server(n) /\ Authorised(n)' = Authorised(n) BY <1>1 DEF Server, Authorised
<1>4. (Sent(f)' => tab[f].leg = "callback" /\ Sent(f)) /\ (tab[f].leg = "callback" => Sent(f)' /\ Sent(f))
  BY <1>1 DEF Sent, Handling
<1>9. Straight(f)' => Straight(f) BY <1>1, <1>4 DEF Straight, Sent, Handling
<1>2. Bound(f)' BY <1>1, <1>4, BoundKept DEF TabKept
<1>5. Admitted(f)' BY <1>1, <1>3 DEF TabKept, Admitted, Inside, Handling
<1>6. Legs(f)' BY <1>1, <1>4 DEF TabKept, Legs, Sent, Handling
<1>7. Registers(f)' BY <1>1, <1>3 DEF Registers, Drawn
<1>8. Presents(f)' BY <1>1, <1>4, <1>9 DEF Presents
<1> QED BY <1>2, <1>5, <1>6, <1>7, <1>8 DEF TabKept

LEMMA KeptStep == TypeOK /\ IInv /\ [Next]_vars => \A f \in Tabs : TabKept(f)'
<1> SUFFICES ASSUME TypeOK, IInv, [Next]_vars PROVE \A f \in Tabs : TabKept(f)' OBVIOUS
<1>0. /\ \A f \in Tabs : TabKept(f) /\ tab[f] \in TabStates
      /\ links \subseteq Seals /\ LinksSealed /\ Once /\ RowsCached
      /\ client \in [Names -> Registrations]
  BY DEF TypeOK, IInv
<1>1. ASSUME NEW f \in Tabs, TabKept(f)', \A g \in Tabs : g # f => tab'[g] = tab[g],
             cfg' = cfg, churned' = churned, raced \subseteq raced', lent \subseteq lent',
             \A n \in Names \ raced : client'[n] = client[n] \/ client[n] = NoClient
      PROVE  \A g \in Tabs : TabKept(g)'
  BY <1>0, <1>1, OthersKept
<1>2. ASSUME NEW f \in Tabs, tab[f].pc \in Handling
      PROVE  tab[f].seal.server \in Names /\ tab[f].seal.user \in Users /\ Authorised(tab[f].seal.server)
  BY <1>0, <1>2 DEF TabKept, Admitted, Inside
\* A step that ends in a refusal.
<1>3. ASSUME NEW f \in Tabs, Set(f, Refused), UNCHANGED <<cfg, churned, client, lent>>, raced \subseteq raced'
      PROVE  \A g \in Tabs : TabKept(g)'
  <2>1. tab'[f] = Refused /\ \A g \in Tabs : g # f => tab'[g] = tab[g] BY <1>3, EmptyTypes, TabMoves
  <2>2. TabKept(f)' BY <2>1, EmptyTypes, OutsideKept DEF Inside, Handling
  <2> QED BY <1>1, <1>3, <2>1, <2>2
<1>4. ASSUME UNCHANGED <<tab, cfg, churned, client, raced, lent>> PROVE \A g \in Tabs : TabKept(g)'
  BY <1>0, <1>4, OthersKept
<1>5. ASSUME NEW f \in Tabs, NEW n \in Names, NEW s \in links \cup {Forged}, Open(f, s, n)
      PROVE  \A g \in Tabs : TabKept(g)'
  <2>1. s \in Seals BY <1>0, EmptyTypes
  <2> DEFINE seal == [s EXCEPT !.server = n]
             ok == Accepts(s, n)
  <2>2. PICK b \in BOOLEAN : b = ok BY DEF Accepts, Unseals
  <2>3. seal \in Seals /\ seal.server = n /\ seal.user = s.user BY <2>1 DEF Seals
  <2>4. ok => s \in links /\ Authorised(n) BY DEF Accepts, Unseals
  <2>5. ok => s.user \in Users BY <1>0, <2>4 DEF LinksSealed
  <2>6. Enter(f, b, seal) /\ UNCHANGED <<cfg, churned, client, raced, lent>>
    BY <1>5, <2>2 DEF Open, clock, history
  <2> HIDE DEF seal, ok
  <2>7. TabKept(f)' /\ \A g \in Tabs : g # f => tab'[g] = tab[g]
    BY <2>2, <2>3, <2>4, <2>5, <2>6, EnterKept
  <2> QED BY <1>1, <2>6, <2>7
<1>6. ASSUME NEW f \in Tabs, NEW n \in Names, NEW u \in Users \cup {None}, NEW b \in BOOLEAN, OpenFor(f, n, u, b)
      PROVE  \A g \in Tabs : TabKept(g)'
  <2>1. Seal(n, u, None) \in Seals /\ Seal(n, u, None).server = n /\ Seal(n, u, None).user = u BY SealTypes
  <2>2. PICK s \in Seals : s = Seal(n, u, None) BY <2>1
  <2>3. PICK ok \in BOOLEAN : ok = (cfg.consumer /\ b /\ u # None /\ Authorised(n))
    BY DEF Authorised, TypeOK, Config
  <2>4. Enter(f, ok, s) /\ UNCHANGED <<cfg, churned, client, raced, lent>>
    BY <1>6, <2>2, <2>3 DEF OpenFor, clock, history
  <2>5. ok => s.server \in Names /\ s.user \in Users /\ Authorised(s.server) BY <2>1, <2>2, <2>3
  <2>6. TabKept(f)' /\ \A g \in Tabs : g # f => tab'[g] = tab[g] BY <2>4, <2>5, EnterKept
  <2> QED BY <1>1, <2>4, <2>6
<1>7. ASSUME NEW f \in Tabs, Resolve(f) PROVE \A g \in Tabs : TabKept(g)'
  <2> DEFINE n == tab[f].seal.server
  <2>1. /\ tab[f].pc = "cached" /\ tab[f].pc \in Handling /\ n \in Names /\ Authorised(n)
        /\ UNCHANGED <<cfg, churned, client, lent>> /\ raced \subseteq raced'
    BY <1>2, <1>7 DEF Resolve, Handling, clock
  <2>2. ASSUME NEW m \in Registrations, Resolved(f, m),
               \/ m = StaticClient(n) /\ Server(n).oauth = "static"
               \/ m = client[n] /\ Server(n).oauth = "discover" /\ client[n] # NoClient
        PROVE  \A g \in Tabs : TabKept(g)'
    <3>1. Server(n).oauth = "discover" => Drawn(m)
      BY <1>0, <2>1, <2>2 DEF RowsCached
    <3>2. SameClient(f, m)
      BY <2>1, <2>2, StaticTypes DEF SameClient
    <3>3. tab[f].leg = "callback" /\ f \notin churned /\ n \notin raced /\ Straight(f) => SameClient(f, tab[f].asked)
      BY <1>0, <2>1 DEF TabKept, Presents, Sent
    <3>4. ASSUME SameClient(f, tab[f].asked) PROVE m.id = tab[f].asked.id /\ m.base = tab[f].asked.base
      BY <2>1, <2>2, <3>4, StaticTypes DEF SameClient
    <3>5. tab'[f].seal = tab[f].seal /\ tab'[f].asked = tab[f].asked /\ \A g \in Tabs : g # f => tab'[g] = tab[g]
      BY <2>2, ResolvedMoves
    <3>6. Server(n)' = Server(n) BY <2>1, <3>5 DEF Server
    <3>7. SameClient(f, m) => SameClient(f, m)' BY <2>1, <3>5, <3>6 DEF SameClient
    <3>10. SameClient(f, tab[f].asked) => SameClient(f, tab[f].asked)'
      BY <2>1, <3>5, <3>6 DEF SameClient
    <3> HIDE DEF n
    <3>11. TabKept(f)
      BY <1>0
    <3>12. TabKept(f)'
      BY <2>1, <2>2, <3>1, <3>2, <3>3, <3>4, <3>7, <3>10, <3>11, ResolvedKept DEF n
    <3> QED BY <1>1, <2>1, <3>5, <3>12
  <2>3. ASSUME Set(f, [tab[f] EXCEPT !.pc = "register"]), Server(n).oauth = "discover", client[n] = NoClient
        PROVE  \A g \in Tabs : TabKept(g)'
    <3>1. [tab[f] EXCEPT !.pc = "register"] \in TabStates BY <1>0 DEF TabStates, Handling
    <3>2. tab'[f] = [tab[f] EXCEPT !.pc = "register"] /\ \A g \in Tabs : g # f => tab'[g] = tab[g]
      BY <2>3, <3>1, TabMoves
    <3>3. /\ tab'[f].pc = "register" /\ tab'[f].leg = tab[f].leg /\ tab'[f].seal = tab[f].seal
          /\ tab'[f].asked = tab[f].asked /\ tab'[f].code = tab[f].code
          /\ tab'[f].sent = tab[f].sent /\ tab'[f].account = tab[f].account
      BY <1>0, <3>2 DEF TabStates
    <3>4. Server(n)' = Server(n) /\ Authorised(n)' = Authorised(n) BY <2>1, <3>3 DEF Server, Authorised
    <3>5. Sent(f)' = Sent(f) /\ Straight(f)' = Straight(f) BY <2>1, <3>3 DEF Sent, Straight, Handling
    <3>11. Bound(f)' BY <1>0, <2>1, <3>3, <3>5, BoundKept DEF TabKept
    <3>6. Admitted(f)' BY <1>2, <2>1, <3>3, <3>4 DEF Admitted
    <3>7. Legs(f)' BY <1>0, <2>1, <3>3, <3>5 DEF TabKept, Legs
    <3>8. Registers(f)' BY <2>3, <3>3, <3>4 DEF Registers
    \* In the callback the row is there, unless registrations raced.
    <3>9. f \notin churned /\ n \notin raced /\ Straight(f) => ~Sent(f)
      BY <1>0, <2>3 DEF TabKept, Presents, SameClient
    <3>10. Presents(f)' BY <2>1, <3>3, <3>5, <3>9 DEF Presents
    <3> QED BY <1>1, <2>1, <3>2, <3>6, <3>7, <3>8, <3>10, <3>11 DEF TabKept
  <2>4. StaticClient(n) \in Registrations /\ client[n] \in Registrations BY <1>0, <2>1, StaticTypes
  <2>5. CASE Server(n).oauth = "static" /\ Resolved(f, StaticClient(n))
    <3>1. PICK m \in Registrations : m = StaticClient(n) BY <2>4
    <3> QED BY <2>2, <2>5, <3>1
  <2>6. CASE Server(n).oauth = "discover" /\ client[n] # NoClient /\ Resolved(f, client[n])
    <3>1. PICK m \in Registrations : m = client[n] BY <2>4
    <3> QED BY <2>2, <2>6, <3>1
  <2>7. CASE Set(f, Refused) BY <1>3, <2>1, <2>7
  <2> QED BY <1>7, <2>3, <2>5, <2>6, <2>7 DEF Resolve, At
<1>8. ASSUME NEW f \in Tabs, Register(f) PROVE \A g \in Tabs : TabKept(g)'
  <2> DEFINE n == tab[f].seal.server
             reg(pub) == [id |-> issued[n] + 1, base |-> cfg.base, server |-> n, scopes |-> Cached(pub), pub |-> pub]
  <2>0. UNCHANGED <<cfg, churned, client, raced, lent>> BY <1>8 DEF Register, clock, history
  <2>1. /\ tab[f].pc = "register" /\ tab[f].pc \in Handling /\ n \in Names
        /\ Authorised(n) /\ issued[n] \in Nat
    BY <1>2, <1>8 DEF Register, Handling, TypeOK
  <2>2. ASSUME NEW pub \in Publishes[n], Set(f, [tab[f] EXCEPT !.pc = "remember", !.meta = reg(pub)])
        PROVE  \A g \in Tabs : TabKept(g)'
    <3>0. PICK m : m = reg(pub) OBVIOUS
    <3>1. m \in Registrations /\ m.id > 0 /\ Drawn(m)
      <4>1. issued[n] + 1 \in Nat /\ issued[n] + 1 > 0 /\ cfg.base \in Nat BY <2>1 DEF Config, TypeOK
      <4>2. pub \in Published BY <2>1, McpConnectAssumption
      <4> QED BY <2>1, <3>0, <4>1, <4>2, CachedTypes DEF Registrations, Drawn
    <3>2. [tab[f] EXCEPT !.pc = "remember", !.meta = m] \in TabStates
      BY <1>0, <3>1 DEF TabStates, Handling
    <3>3. tab'[f] = [tab[f] EXCEPT !.pc = "remember", !.meta = m] /\ \A g \in Tabs : g # f => tab'[g] = tab[g]
      BY <2>2, <3>0, <3>2, TabMoves
    <3>4. /\ tab'[f].pc = "remember" /\ tab'[f].leg = tab[f].leg /\ tab'[f].seal = tab[f].seal
          /\ tab'[f].asked = tab[f].asked /\ tab'[f].code = tab[f].code /\ tab'[f].meta = m
          /\ tab'[f].sent = tab[f].sent /\ tab'[f].account = tab[f].account
      BY <1>0, <3>3 DEF TabStates
    <3>5. Server(n)' = Server(n) /\ Authorised(n)' = Authorised(n) BY <2>0, <3>4 DEF Server, Authorised
    <3>6. Sent(f)' = Sent(f) /\ Straight(f)' = Straight(f) BY <2>1, <3>4 DEF Sent, Straight, Handling
    <3>13. Bound(f)' BY <1>0, <2>0, <3>4, <3>6, BoundKept DEF TabKept
    <3>7. Admitted(f)' BY <1>2, <2>1, <3>4, <3>5 DEF Admitted
    <3>8. Legs(f)' BY <1>0, <2>1, <3>4, <3>6 DEF TabKept, Legs
    <3>9. Registers(f)'
      <4>1. Server(n).oauth = "discover" BY <1>0, <2>1 DEF TabKept, Registers
      <4> QED BY <3>1, <3>4, <3>5, <4>1 DEF Registers
    <3>10. f \notin churned /\ n \notin raced /\ Straight(f) /\ Sent(f) => SameClient(f, tab[f].asked)
      BY <1>0 DEF TabKept, Presents
    <3>11. SameClient(f, tab[f].asked) => SameClient(f, tab[f].asked)'
      BY <2>0, <3>4, <3>5 DEF SameClient
    <3>12. Presents(f)' BY <2>0, <3>4, <3>6, <3>10, <3>11 DEF Presents
    <3> QED BY <1>1, <2>0, <3>3, <3>7, <3>8, <3>9, <3>12, <3>13 DEF TabKept
  <2>3. CASE Set(f, Refused) BY <1>3, <2>0, <2>3
  <2>4. PICK pub \in Publishes[n] : Set(f, [tab[f] EXCEPT !.pc = "remember", !.meta = reg(pub)]) \/ Set(f, Refused)
    BY <1>8 DEF Register
  <2> QED BY <2>2, <2>3, <2>4
<1>9. ASSUME NEW f \in Tabs, Remember(f) PROVE \A g \in Tabs : TabKept(g)'
  <2> DEFINE n == tab[f].seal.server
  <2>0. UNCHANGED <<cfg, churned, raced, lent>> BY <1>9 DEF Remember, clock, history
  <2>1. /\ tab[f].pc = "remember" /\ tab[f].pc \in Handling /\ n \in Names /\ Authorised(n)
        /\ tab[f].meta \in Registrations
    BY <1>0, <1>2, <1>9 DEF Remember, Handling, TabStates
  <2>2. tab[f].meta.id > 0 /\ Drawn(tab[f].meta) /\ Server(n).oauth = "discover"
    BY <1>0, <2>1 DEF TabKept, Registers
  <2>3. n \notin raced => client[n] = NoClient
    BY <1>0, <2>1 DEF Once, Registering
  <2>4. client'[n] = tab[f].meta /\ \A m \in Names : m # n => client'[m] = client[m]
    BY <1>0, <1>9, <2>1 DEF Remember
  <2>5. tab[f].meta # NoClient BY <2>2, EmptyTypes
  <2>6. PICK m \in Registrations : m = tab[f].meta BY <2>1
  <2>7. Resolved(f, m) BY <1>9, <2>6 DEF Remember
  <2>8. tab'[f].seal = tab[f].seal /\ tab'[f].asked = tab[f].asked /\ \A g \in Tabs : g # f => tab'[g] = tab[g]
    BY <2>7, ResolvedMoves
  <2>9. SameClient(f, m)' BY <2>0, <2>2, <2>4, <2>5, <2>6, <2>8 DEF SameClient, Server
  <2>10. f \notin churned /\ n \notin raced /\ Straight(f) => tab[f].leg # "callback"
    BY <1>0, <2>1, <2>2, <2>3 DEF TabKept, Presents, Sent, SameClient
  <2>11. TabKept(f)'
    <3>1. TabKept(f) BY <1>0
    <3> QED BY <2>0, <2>1, <2>2, <2>6, <2>7, <2>9, <2>10, <3>1, ResolvedKept
  <2> QED BY <1>1, <2>0, <2>3, <2>4, <2>8, <2>11
<1>10. ASSUME NEW f \in Tabs, Ask(f) PROVE \A g \in Tabs : TabKept(g)'
  <2> DEFINE n == tab[f].seal.server
             u == tab[f].seal.user
             meta == tab[f].meta
             eff == EffectiveScopes(Server(n).scopes, meta.scopes)
             req == IF Server(n).oauth = "static" THEN meta ELSE [meta EXCEPT !.scopes = eff]
             seal == Seal(n, u, f)
  <2>0. UNCHANGED <<cfg, churned, raced, client, lent>> BY <1>10 DEF Ask, clock, history
  <2>1. /\ tab[f].pc = "ask" /\ tab[f].pc \in Handling /\ n \in Names /\ u \in Users
        /\ Authorised(n) /\ meta \in Registrations
    BY <1>0, <1>2, <1>10 DEF Ask, Handling, TabStates
  <2>2. seal \in Seals /\ seal.server = n /\ seal.user = u /\ seal.verifier = f
    BY <2>1, SealTypes
  <2>3. eff \in SUBSET Scope
    <3>1. meta.scopes \in SUBSET Scope BY <2>1 DEF Registrations
    <3> QED BY <2>1, <3>1, ServerTypes, EffectiveTypes
  <2>4. Set(f, [tab[f] EXCEPT !.pc = "provider", !.meta = NoClient, !.seal = seal, !.sent = seal, !.asked = req])
    BY <1>10 DEF Ask, SentWith
  <2> HIDE DEF eff, seal
  <2>5. /\ req \in Registrations /\ req.id = meta.id /\ req.base = meta.base /\ req.pub = meta.pub
        /\ Server(n).oauth = "discover" => req.scopes = eff
    BY <2>1, <2>3 DEF Registrations
  <2> HIDE DEF req
  <2>6. [tab[f] EXCEPT !.pc = "provider", !.meta = NoClient, !.seal = seal, !.sent = seal, !.asked = req] \in TabStates
    <3>1. tab[f] \in TabStates /\ seal \in Seals /\ req \in Registrations /\ NoClient \in Registrations
      BY <1>0, <2>2, <2>5, EmptyTypes
    <3> QED BY <3>1 DEF TabStates
  <2>7. /\ tab'[f] = [tab[f] EXCEPT !.pc = "provider", !.meta = NoClient, !.seal = seal, !.sent = seal, !.asked = req]
        /\ \A g \in Tabs : g # f => tab'[g] = tab[g]
    BY <2>4, <2>6, TabMoves
  <2>8. /\ tab'[f].pc = "provider" /\ tab'[f].seal = seal /\ tab'[f].asked = req /\ tab'[f].sent = seal
        /\ tab'[f].code = tab[f].code
    BY <1>0, <2>7 DEF TabStates
  <2>9. \A m : Server(m)' = Server(m) BY <2>0 DEF Server
  <2>10. Admitted(f)' BY <2>1, <2>2, <2>8 DEF Admitted, Handling
  <2>11. Legs(f)' BY <2>2, <2>8 DEF Legs, Handling
  <2>14. Bound(f)'
    <3>1. seal # Forged BY <2>1, <2>2, McpConnectAssumption DEF Forged
    <3>2. tab[f].code = "none" BY <1>0, <2>1 DEF TabKept, Legs
    <3> QED BY <2>1, <2>2, <2>8, <3>1, <3>2 DEF Bound, Straight
  <2>12. Registers(f)'
    <3>1. Server(n).oauth = "discover" => Drawn(meta)
      BY <1>0, <2>1 DEF TabKept, Registers
    <3>2. Server(n).oauth = "discover" =>
            req.pub \in Published /\ req.scopes = EffectiveScopes(Server(n).scopes, Cached(req.pub))
      BY <2>5, <3>1 DEF eff, Drawn
    <3> QED BY <2>1, <2>2, <2>8, <2>9, <3>2 DEF Registers, Authorised
  <2>13. Presents(f)'
    <3>1. f \notin churned /\ n \notin raced => SameClient(f, meta)
      BY <1>0, <2>1 DEF TabKept, Presents, Straight, Legs, Sent
    <3>2. SameClient(f, meta) => SameClient(f, tab[f].asked)'
      BY <2>0, <2>2, <2>5, <2>8, <2>9 DEF SameClient
    <3> QED BY <2>0, <2>2, <2>8, <3>1, <3>2 DEF Presents
  <2> QED BY <1>1, <2>0, <2>7, <2>10, <2>11, <2>12, <2>13, <2>14 DEF TabKept
\* A step of a tab that has been to the consent screen and keeps its state and its request.
<1>11. ASSUME NEW f \in Tabs, UNCHANGED <<cfg, churned, client, raced>>, lent \subseteq lent',
              Sent(f), tab[f].pc \in Inside, tab[f].seal = tab[f].sent,
              tab'[f].seal = tab[f].seal, tab'[f].sent = tab[f].sent, tab'[f].asked = tab[f].asked,
              \A g \in Tabs : g # f => tab'[g] = tab[g],
              tab'[f].pc \in {"returning", "save", "done"},
              tab'[f].pc = "save" => tab[f].pc = "exchange" /\ tab'[f].leg = "callback" /\ tab'[f].code = "used",
              tab'[f].code # "none" =>
                tab'[f].account \in Users /\ (tab'[f].account = tab[f].sent.user \/ tab[f].sent.user \in lent')
       PROVE  \A g \in Tabs : TabKept(g)'
  <2> DEFINE n == tab[f].seal.server
  <2>1. \A m : Server(m)' = Server(m) /\ Authorised(m)' = Authorised(m) BY <1>11 DEF Server, Authorised
  <2>2. TabKept(f) /\ n \in Names /\ tab[f].seal.user \in Users BY <1>0, <1>11 DEF TabKept, Admitted
  <2>3. tab[f].pc = "exchange" => Authorised(n) BY <2>2 DEF TabKept, Admitted, Handling
  <2>4. Admitted(f)' BY <1>11, <2>1, <2>2, <2>3 DEF Admitted, Handling
  <2>5. Legs(f)' BY <1>11 DEF Legs, Handling
  <2>6. Registers(f)' BY <1>11 DEF Registers
  <2>7. Presents(f)'
    <3>1. f \notin churned /\ n \notin raced => SameClient(f, tab[f].asked)
      BY <1>11, <2>2 DEF TabKept, Presents, Straight
    <3>2. SameClient(f, tab[f].asked) => SameClient(f, tab[f].asked)'
      BY <1>11, <2>1 DEF SameClient
    <3> QED BY <1>11, <3>1, <3>2 DEF Presents
  <2>8. Bound(f)' BY <1>11, <2>2 DEF TabKept, Bound, Straight
  <2> QED BY <1>0, <1>1, <1>11, <2>4, <2>5, <2>6, <2>7, <2>8 DEF TabKept
<1>12. ASSUME NEW f \in Tabs, NEW p \in Users \cup {None}, Consent(f, p) PROVE \A g \in Tabs : TabKept(g)'
  <2> DEFINE t == [tab[f] EXCEPT !.pc = "returning", !.account = p, !.code = IF p = None THEN "none" ELSE "fresh"]
  <2>1. t \in TabStates BY <1>0 DEF TabStates
  <2>2. tab'[f] = t /\ \A g \in Tabs : g # f => tab'[g] = tab[g] BY <1>12, <2>1, TabMoves DEF Consent
  <2>3. /\ tab'[f].pc = "returning" /\ tab'[f].seal = tab[f].seal /\ tab'[f].asked = tab[f].asked
        /\ tab'[f].sent = tab[f].sent /\ tab'[f].account = p
        /\ tab'[f].code = IF p = None THEN "none" ELSE "fresh"
    BY <1>0, <2>2 DEF TabStates
  <2>4. Sent(f) /\ tab[f].pc \in Inside /\ UNCHANGED <<cfg, churned, client, raced>>
    BY <1>12 DEF Consent, Sent, Inside, clock
  <2>5. tab[f].seal = tab[f].sent BY <1>0, <1>12 DEF Consent, TabKept, Bound
  <2>6. lent \subseteq lent' /\ (p # None => p \in Users /\ (p = tab[f].sent.user \/ tab[f].sent.user \in lent'))
    BY <1>12 DEF Consent
  <2> HIDE DEF t
  <2> QED BY <1>11, <2>2, <2>3, <2>4, <2>5, <2>6
\* A callback comes back with any state; only its own bears its verifier.
<1>13. ASSUME NEW f \in Tabs, NEW s \in States, Callback(f, s) PROVE \A g \in Tabs : TabKept(g)'
  <2>0. tab[f].pc = "returning" /\ Sent(f) /\ TabKept(f) /\ UNCHANGED <<cfg, churned, client, raced, lent>>
    BY <1>0, <1>13 DEF Callback, Sent, clock, history
  <2>1. CASE /\ tab[f].code # "none" /\ Accepts(s, tab[f].asked.server)
             /\ Set(f, [tab[f] EXCEPT !.pc = "cached", !.leg = "callback", !.seal = s])
    <3>1. s # Forged /\ Authorised(s.server) BY <2>1 DEF Accepts, Unseals
    <3>2. s.server \in Names /\ s.user \in Users /\ (s.verifier = f => s = tab[f].sent)
      <4>1. CASE s \in links BY <1>0, <4>1, McpConnectAssumption DEF LinksSealed
      <4>2. CASE \E g \in Tabs : s = tab[g].sent
        <5>1. PICK g \in Tabs : s = tab[g].sent BY <4>2
        <5> QED BY <1>0, <3>1, <5>1 DEF TabKept, Bound
      <4> QED BY <3>1, <4>1, <4>2 DEF States
    <3>3. s \in Seals BY <1>0, EmptyTypes DEF States, TabStates
    <3>4. [tab[f] EXCEPT !.pc = "cached", !.leg = "callback", !.seal = s] \in TabStates
      BY <1>0, <3>3 DEF TabStates, Handling
    <3>5. /\ tab'[f] = [tab[f] EXCEPT !.pc = "cached", !.leg = "callback", !.seal = s]
          /\ \A g \in Tabs : g # f => tab'[g] = tab[g]
      BY <2>1, <3>4, TabMoves
    <3>6. /\ tab'[f].pc = "cached" /\ tab'[f].leg = "callback" /\ tab'[f].seal = s
          /\ tab'[f].asked = tab[f].asked /\ tab'[f].code = tab[f].code
          /\ tab'[f].sent = tab[f].sent /\ tab'[f].account = tab[f].account
      BY <1>0, <3>5 DEF TabStates
    <3>7. \A m : Server(m)' = Server(m) /\ Authorised(m)' = Authorised(m) BY <2>0 DEF Server, Authorised
    <3>8. Admitted(f)' BY <3>1, <3>2, <3>6, <3>7 DEF Admitted
    <3>9. Legs(f)' BY <2>1, <3>6 DEF Legs
    <3>10. Bound(f)' BY <2>0, <3>2, <3>6 DEF TabKept, Bound, Straight
    <3>11. Registers(f)' BY <3>6 DEF Registers
    <3>12. Presents(f)'
      <4> SUFFICES ASSUME f \notin churned, s.server \notin raced, s = tab[f].sent
                   PROVE  SameClient(f, tab[f].asked)'
        BY <2>0, <3>6 DEF Presents, Straight, Sent, Handling
      <4>1. tab[f].seal = s BY <2>0 DEF TabKept, Bound
      <4>2. SameClient(f, tab[f].asked) BY <2>0, <4>1 DEF TabKept, Presents, Straight
      <4> QED BY <2>0, <3>6, <3>7, <4>1, <4>2 DEF SameClient
    <3> QED BY <1>1, <2>0, <3>5, <3>8, <3>9, <3>10, <3>11, <3>12 DEF TabKept
  <2>2. CASE Set(f, Refused) BY <1>3, <2>0, <2>2
  <2> QED BY <1>13, <2>1, <2>2 DEF Callback
<1>14. ASSUME NEW f \in Tabs, Exchange(f) PROVE \A g \in Tabs : TabKept(g)'
  <2>0. /\ tab[f].pc = "exchange" /\ tab[f].pc \in Handling /\ tab[f].pc \in Inside
        /\ UNCHANGED <<cfg, churned, client, raced, lent>>
    BY <1>14 DEF Exchange, Handling, Inside, clock, history
  <2>1. tab[f].leg = "callback" /\ Sent(f) /\ Bound(f) /\ tab[f].code # "none"
    BY <1>0, <2>0 DEF TabKept, Legs, Sent
  <2>2. CASE Honours(f) /\ Set(f, [tab[f] EXCEPT !.pc = "save", !.code = "used"])
    <3>1. [tab[f] EXCEPT !.pc = "save", !.code = "used"] \in TabStates
      BY <1>0 DEF TabStates, Handling
    <3>2. /\ tab'[f] = [tab[f] EXCEPT !.pc = "save", !.code = "used"]
          /\ \A g \in Tabs : g # f => tab'[g] = tab[g]
      BY <2>2, <3>1, TabMoves
    <3>3. /\ tab'[f].pc = "save" /\ tab'[f].seal = tab[f].seal /\ tab'[f].asked = tab[f].asked
          /\ tab'[f].code = "used" /\ tab'[f].leg = tab[f].leg
          /\ tab'[f].sent = tab[f].sent /\ tab'[f].account = tab[f].account
      BY <1>0, <3>2 DEF TabStates
    \* The verifier is the tab's own, so the state is.
    <3>4. tab[f].seal = tab[f].sent BY <2>1, <2>2 DEF Honours, Bound, Straight
    <3>5. tab[f].account \in Users /\ (tab[f].account = tab[f].sent.user \/ tab[f].sent.user \in lent)
      BY <2>1 DEF Bound
    <3> QED BY <1>11, <2>0, <2>1, <3>2, <3>3, <3>4, <3>5
  <2>3. CASE Set(f, Refused) BY <1>3, <2>0, <2>3
  <2> QED BY <1>14, <2>2, <2>3 DEF Exchange
<1>15. ASSUME NEW f \in Tabs, Save(f) PROVE \A g \in Tabs : TabKept(g)'
  <2>0. /\ tab[f].pc = "save" /\ tab[f].pc \in Handling /\ tab[f].pc \in Inside
        /\ UNCHANGED <<cfg, churned, client, raced, lent>>
    BY <1>15 DEF Save, Handling, Inside, clock, history
  <2>1. Sent(f) /\ Bound(f) BY <1>0, <2>0 DEF TabKept, Legs, Sent
  <2>2. [tab[f] EXCEPT !.pc = "done", !.meta = NoClient] \in TabStates
    BY <1>0, EmptyTypes DEF TabStates
  <2>3. /\ tab'[f] = [tab[f] EXCEPT !.pc = "done", !.meta = NoClient]
        /\ \A g \in Tabs : g # f => tab'[g] = tab[g]
    BY <1>15, <2>2, TabMoves DEF Save
  <2>4. /\ tab'[f].pc = "done" /\ tab'[f].seal = tab[f].seal /\ tab'[f].asked = tab[f].asked
        /\ tab'[f].sent = tab[f].sent /\ tab'[f].account = tab[f].account /\ tab'[f].code = tab[f].code
    BY <1>0, <2>3 DEF TabStates
  <2>5. tab[f].seal = tab[f].sent BY <2>0, <2>1 DEF Bound
  <2> QED BY <1>11, <2>0, <2>1, <2>3, <2>4, <2>5 DEF Bound
<1>16. ASSUME NEW f \in Tabs, Reload(f) PROVE \A g \in Tabs : TabKept(g)'
  <2>0. Sent(f) /\ tab[f].pc \in Inside /\ UNCHANGED <<cfg, churned, client, raced, lent>>
    BY <1>16 DEF Reload, Sent, Inside, clock, history
  <2>1. [tab[f] EXCEPT !.pc = "returning"] \in TabStates BY <1>0 DEF TabStates
  <2>2. tab'[f] = [tab[f] EXCEPT !.pc = "returning"] /\ \A g \in Tabs : g # f => tab'[g] = tab[g]
    BY <1>16, <2>1, TabMoves DEF Reload, At
  <2>3. /\ tab'[f].pc = "returning" /\ tab'[f].seal = tab[f].seal /\ tab'[f].asked = tab[f].asked
        /\ tab'[f].sent = tab[f].sent /\ tab'[f].account = tab[f].account /\ tab'[f].code = tab[f].code
    BY <1>0, <2>2 DEF TabStates
  <2>4. Bound(f) BY <1>0 DEF TabKept
  <2>5. tab[f].seal = tab[f].sent BY <1>16, <2>4 DEF Bound, Reload
  <2> QED BY <1>11, <2>0, <2>2, <2>3, <2>4, <2>5 DEF Bound
<1>17. ASSUME NEW f \in Tabs, Breaks(f) PROVE \A g \in Tabs : TabKept(g)'
  BY <1>3, <1>17 DEF Breaks, clock
\* A restart refuses what a handler had in hand, and churns what lies at the provider.
<1>18. ASSUME NEW c \in Configs, Boot(c) PROVE \A g \in Tabs : TabKept(g)'
  <2> SUFFICES ASSUME NEW g \in Tabs PROVE TabKept(g)' OBVIOUS
  <2>1. tab'[g] = IF tab[g].pc \in Handling THEN Refused ELSE tab[g] BY <1>18 DEF Boot
  <2>0. lent' = lent /\ TabKept(g) BY <1>0, <1>18 DEF Boot
  <2>2. CASE tab'[g].pc \notin Inside BY <2>0, <2>1, <2>2, EmptyTypes, OutsideKept DEF TabKept
  <2>3. CASE tab'[g].pc \in Inside
    <3>1. tab'[g] = tab[g] /\ tab[g].pc \notin Handling
      BY <2>1, <2>3, EmptyTypes DEF Inside, Handling
    <3>2. g \in churned' BY <1>18, <2>3, <3>1 DEF Boot, Inside, Handling
    <3>3. Admitted(g)' BY <1>0, <3>1 DEF TabKept, Admitted
    <3>4. Sent(g)' = Sent(g) BY <3>1 DEF Sent
    <3>5. Legs(g)' BY <1>0, <3>1 DEF TabKept, Legs
    <3>8. Bound(g)' BY <2>0, <3>1, <3>4 DEF TabKept, Bound, Straight
    <3>6. Registers(g)' BY <3>1, <3>2 DEF Registers, Handling
    <3>7. Presents(g)' BY <3>2 DEF Presents
    <3> QED BY <3>3, <3>5, <3>6, <3>7, <3>8 DEF TabKept
  <2> QED BY <2>2, <2>3
<1>19. ASSUME (\E n \in Names, u \in Users : Mint(n, u)) \/ Tick \/ UNCHANGED vars
       PROVE  \A g \in Tabs : TabKept(g)'
  BY <1>4, <1>19 DEF Mint, Tick, vars, clock, history
<1> QED
  BY <1>5, <1>6, <1>7, <1>8, <1>9, <1>10, <1>12, <1>13, <1>14, <1>15, <1>16, <1>17, <1>18, <1>19
  DEF Next, Handle
-----------------------------------------------------------------------------
(* What holds of the tables *)

\* Steps that neither register nor lose a registration.
LEMMA Elsewhere ==
  ASSUME TypeOK, NEW f \in Tabs,
         \/ \E n \in Names, s \in links \cup {Forged} : Open(f, s, n)
         \/ \E n \in Names, u \in Users \cup {None}, b \in BOOLEAN : OpenFor(f, n, u, b)
         \/ \E p \in Users \cup {None} : Consent(f, p)
         \/ \E s \in States : Callback(f, s)
         \/ Ask(f) \/ Exchange(f) \/ Save(f) \/ Reload(f)
  PROVE  /\ tab[f].pc \notin {"register", "remember"}
         /\ tab'[f].pc \notin {"register", "remember"}
         /\ \A g \in Tabs : g # f => tab'[g] = tab[g]
         /\ UNCHANGED <<client, issued, raced>>
<1> USE DEF clock, history
<1>0. tab[f] \in TabStates /\ tab \in [Tabs -> TabStates] BY DEF TypeOK
<1>7. \A seal : [Away EXCEPT !.pc = "cached", !.seal = seal].pc = "cached" BY DEF Away
<1>8. ASSUME NEW ok, NEW seal, Enter(f, ok, seal)
      PROVE  tab'[f].pc \in {"cached", "refused"} /\ \A g \in Tabs : g # f => tab'[g] = tab[g]
  BY <1>0, <1>7, <1>8, EmptyTypes DEF Enter, Set
<1>1. ASSUME NEW n \in Names, NEW s \in links \cup {Forged}, Open(f, s, n)
      PROVE  tab'[f].pc \in {"cached", "refused"} /\ \A g \in Tabs : g # f => tab'[g] = tab[g]
  BY <1>1, <1>8 DEF Open
<1>2. ASSUME NEW n \in Names, NEW u \in Users \cup {None}, NEW b \in BOOLEAN, OpenFor(f, n, u, b)
      PROVE  tab'[f].pc \in {"cached", "refused"} /\ \A g \in Tabs : g # f => tab'[g] = tab[g]
  BY <1>2, <1>8 DEF OpenFor
<1>3. ASSUME NEW p \in Users \cup {None}, Consent(f, p)
      PROVE  tab'[f].pc = "returning" /\ \A g \in Tabs : g # f => tab'[g] = tab[g]
  <2>1. \A who, code : [tab[f] EXCEPT !.pc = "returning", !.account = who, !.code = code].pc = "returning"
    BY <1>0 DEF TabStates
  <2> QED BY <1>0, <1>3, <2>1 DEF Consent, Set
<1>9. ASSUME NEW s \in States, Callback(f, s)
      PROVE  tab'[f].pc \in {"cached", "refused"} /\ \A g \in Tabs : g # f => tab'[g] = tab[g]
  <2>1. [tab[f] EXCEPT !.pc = "cached", !.leg = "callback", !.seal = s].pc = "cached" BY <1>0 DEF TabStates
  <2> QED BY <1>0, <1>9, <2>1, EmptyTypes DEF Callback, Set
<1>4. ASSUME Ask(f) PROVE tab'[f].pc = "provider" /\ \A g \in Tabs : g # f => tab'[g] = tab[g]
  <2>1. \A seal, req : [tab[f] EXCEPT !.pc = "provider", !.meta = NoClient, !.seal = seal, !.sent = seal, !.asked = req].pc = "provider"
    BY <1>0 DEF TabStates
  <2> QED BY <1>0, <1>4, <2>1 DEF Ask, SentWith, Set
<1>5. ASSUME Exchange(f) \/ Save(f) \/ Reload(f)
      PROVE  /\ tab'[f].pc \in {"cached", "refused", "save", "done", "returning"}
             /\ \A g \in Tabs : g # f => tab'[g] = tab[g]
  <2> USE <1>0, EmptyTypes DEF Set, TabStates
  <2>0. ASSUME Set(f, Refused)
        PROVE  tab'[f].pc = "refused" /\ \A g \in Tabs : g # f => tab'[g] = tab[g]
    BY <2>0
  <2>2. CASE Exchange(f)
    <3>1. CASE Set(f, [tab[f] EXCEPT !.pc = "save", !.code = "used"]) BY <3>1
    <3> QED BY <2>0, <2>2, <3>1 DEF Exchange
  <2>3. CASE Save(f) BY <2>3 DEF Save
  <2>4. CASE Reload(f) BY <2>4 DEF Reload, At
  <2> QED BY <1>5, <2>2, <2>3, <2>4
<1>6. tab[f].pc \notin {"register", "remember"} /\ UNCHANGED <<client, issued, raced>>
  <2>1. ASSUME NEW n \in Names, NEW s \in links \cup {Forged}, Open(f, s, n) PROVE <1>6!:
    BY <2>1 DEF Open
  <2>2. ASSUME NEW n \in Names, NEW u \in Users \cup {None}, NEW b \in BOOLEAN, OpenFor(f, n, u, b) PROVE <1>6!:
    BY <2>2 DEF OpenFor
  <2>3. ASSUME NEW p \in Users \cup {None}, Consent(f, p) PROVE <1>6!: BY <2>3 DEF Consent
  <2>4. ASSUME NEW s \in States, Callback(f, s) PROVE <1>6!: BY <2>4 DEF Callback
  <2>5. ASSUME Ask(f) \/ Exchange(f) \/ Save(f) \/ Reload(f) PROVE <1>6!:
    BY <2>5 DEF Ask, Exchange, Save, Reload
  <2> QED BY <2>1, <2>2, <2>3, <2>4, <2>5
<1> QED BY <1>1, <1>2, <1>3, <1>4, <1>5, <1>6, <1>9

LEMMA OnceStep == TypeOK /\ IInv /\ [Next]_vars => Once'
<1> SUFFICES ASSUME TypeOK, IInv, [Next]_vars PROVE Once' OBVIOUS
<1>0. /\ Once /\ \A f \in Tabs : TabKept(f) /\ tab[f] \in TabStates
      /\ client \in [Names -> Registrations] /\ issued \in [Names -> Nat]
  BY DEF IInv, TypeOK
<1> USE DEF Registering
\* A step that adds no registration, and loses none that was made unless it says so.
<1>1. ASSUME UNCHANGED <<client, issued>>, raced \subseteq raced',
             \A n \in Names \ raced', g \in Tabs :
               /\ g \in Registering(n)' => g \in Registering(n) /\ tab'[g].pc = tab[g].pc
               /\ g \in Registering(n) /\ tab[g].pc = "remember" => g \in Registering(n)'
      PROVE  Once'
  <2> SUFFICES ASSUME NEW n \in Names \ raced'
               PROVE  /\ issued[n] <= 1
                      /\ \A f, g \in Registering(n)' : f = g
                      /\ Registering(n)' # {} => client[n] = NoClient
                      /\ client[n] = NoClient /\ (\A f \in Registering(n)' : tab'[f].pc = "register")
                           => issued[n] = 0
    BY <1>1 DEF Once
  <2>1. n \in Names \ raced BY <1>1
  <2>2. /\ issued[n] <= 1
        /\ \A f, g \in Registering(n) : f = g
        /\ Registering(n) # {} => client[n] = NoClient
        /\ client[n] = NoClient /\ (\A f \in Registering(n) : tab[f].pc = "register") => issued[n] = 0
    BY <1>0, <2>1, Zenon DEF Once
  <2>3. Registering(n)' \subseteq Registering(n) /\ Registering(n) \subseteq Tabs BY <1>1
  <2>4. (\A f \in Registering(n)' : tab'[f].pc = "register") => \A f \in Registering(n) : tab[f].pc = "register"
    <3>1. \A f \in Registering(n) : tab[f].pc \in {"register", "remember"} OBVIOUS
    <3> QED BY <1>1, <2>3, <3>1
  <2> QED BY <2>2, <2>3, <2>4
<1>2. ASSUME NEW f \in Tabs, tab[f].pc \notin {"register", "remember"},
             tab'[f].pc \notin {"register", "remember"},
             \A g \in Tabs : g # f => tab'[g] = tab[g], UNCHANGED <<client, issued, raced>>
      PROVE  Once'
  BY <1>1, <1>2
<1>3. ASSUME UNCHANGED <<client, issued, raced, tab>> PROVE Once'
  BY <1>1, <1>3
<1>4. ASSUME NEW f \in Tabs, Resolve(f) PROVE Once'
  <2>0. PICK n : n = tab[f].seal.server OBVIOUS
  <2>1. /\ tab[f].pc = "cached" /\ n \in Names /\ UNCHANGED <<client, issued>>
    BY <1>0, <1>4, <2>0 DEF Resolve, TabKept, Admitted, Inside, Handling
  <2>2. CASE /\ Set(f, [tab[f] EXCEPT !.pc = "register"]) /\ client[n] = NoClient
             /\ raced' = IF Registering(n) = {} THEN raced ELSE raced \cup {n}
    <3>1. tab'[f] = [tab[f] EXCEPT !.pc = "register"] /\ \A g \in Tabs : g # f => tab'[g] = tab[g]
      BY <1>0, <2>2, TabMoves DEF TabStates, Handling
    <3>2. tab'[f].pc = "register" /\ tab'[f].seal = tab[f].seal BY <1>0, <3>1 DEF TabStates
    <3>3. ASSUME NEW m \in Names \ raced', m # n
          PROVE  Registering(m)' = Registering(m) /\ \A g \in Registering(m) : tab'[g].pc = tab[g].pc
      <4>1. \A g \in Tabs : g \in Registering(m)' <=> g \in Registering(m)
        BY <2>0, <2>1, <3>1, <3>2, <3>3
      <4>2. f \notin Registering(m) BY <2>1
      <4> QED BY <3>1, <4>1, <4>2
    <3>4. ASSUME n \notin raced' PROVE Registering(n) = {} /\ Registering(n)' = {f} /\ issued[n] = 0
      <4>1. Registering(n) = {} /\ n \notin raced BY <2>2, <3>4
      <4>2. \A g \in Tabs : g \in Registering(n)' <=> g = f BY <2>0, <3>1, <3>2, <4>1
      <4>3. issued[n] = 0 BY <1>0, <2>1, <2>2, <4>1 DEF Once
      <4> QED BY <4>1, <4>2, <4>3
    <3>5. \A m \in Names \ raced' : m \in Names \ raced BY <2>2
    <3>6. ASSUME NEW m \in Names \ raced', m # n
          PROVE  /\ issued'[m] <= 1
                 /\ \A g, h \in Registering(m)' : g = h
                 /\ Registering(m)' # {} => client'[m] = NoClient
                 /\ client'[m] = NoClient /\ (\A g \in Registering(m)' : tab'[g].pc = "register") => issued'[m] = 0
      <4>1. /\ issued[m] <= 1
            /\ \A g, h \in Registering(m) : g = h
            /\ Registering(m) # {} => client[m] = NoClient
            /\ client[m] = NoClient /\ (\A g \in Registering(m) : tab[g].pc = "register") => issued[m] = 0
        BY <1>0, <3>5, Zenon DEF Once
      <4>2. Registering(m)' = Registering(m) /\ \A g \in Registering(m) : tab'[g].pc = tab[g].pc BY <3>3, <3>6
      <4> QED BY <2>1, <4>1, <4>2
    <3>7. ASSUME n \notin raced'
          PROVE  /\ issued'[n] <= 1
                 /\ \A g, h \in Registering(n)' : g = h
                 /\ Registering(n)' # {} => client'[n] = NoClient
                 /\ client'[n] = NoClient /\ (\A g \in Registering(n)' : tab'[g].pc = "register") => issued'[n] = 0
      BY <2>1, <2>2, <3>4, <3>7
    <3> HIDE DEF Registering
    <3>8. ASSUME NEW m \in Names \ raced'
          PROVE  /\ issued'[m] <= 1
                 /\ \A g, h \in Registering(m)' : g = h
                 /\ Registering(m)' # {} => client'[m] = NoClient
                 /\ client'[m] = NoClient /\ (\A g \in Registering(m)' : tab'[g].pc = "register") => issued'[m] = 0
      <4>1. CASE m = n BY <3>7, <3>8, <4>1
      <4>2. CASE m # n BY <3>6, <3>8, <4>2
      <4> QED BY <4>1, <4>2
    <3> QED BY <3>8 DEF Once
  <2>3. CASE UNCHANGED raced /\ \E m : Resolved(f, m)
    <3>1. PICK m : Resolved(f, m) BY <2>3
    <3>2. tab'[f].pc \in {"ask", "exchange"} /\ \A g \in Tabs : g # f => tab'[g] = tab[g]
      BY <1>0, <3>1 DEF Resolved, Set, TypeOK, TabStates
    <3> QED BY <1>2, <2>1, <2>3, <3>2
  <2>4. CASE UNCHANGED raced /\ Set(f, Refused)
    <3>1. tab'[f].pc = "refused" /\ \A g \in Tabs : g # f => tab'[g] = tab[g]
      BY <2>4, EmptyTypes, TabMoves
    <3> QED BY <1>2, <2>1, <2>4, <3>1
  <2> QED BY <1>4, <2>0, <2>2, <2>3, <2>4 DEF Resolve, At
<1>5. ASSUME NEW f \in Tabs, Register(f) PROVE Once'
  <2>0. PICK n : n = tab[f].seal.server OBVIOUS
  <2>1. /\ tab[f].pc = "register" /\ n \in Names /\ UNCHANGED <<client, raced>>
        /\ f \in Registering(n)
    BY <1>0, <1>5, <2>0 DEF Register, TabKept, Admitted, Inside, Handling, history
  <2>2. CASE Set(f, Refused) /\ UNCHANGED issued
    <3>1. tab'[f].pc = "refused" /\ \A g \in Tabs : g # f => tab'[g] = tab[g]
      BY <2>2, EmptyTypes, TabMoves
    <3> QED BY <1>1, <2>1, <2>2, <3>1
  <2>3. ASSUME NEW reg, issued' = [issued EXCEPT ![n] = @ + 1],
               Set(f, [tab[f] EXCEPT !.pc = "remember", !.meta = reg])
        PROVE  Once'
    <3>2. /\ tab'[f] = [tab[f] EXCEPT !.pc = "remember", !.meta = reg]
          /\ \A g \in Tabs : g # f => tab'[g] = tab[g]
      BY <2>3 DEF Set, TypeOK
    <3>3. tab'[f].pc = "remember" /\ tab'[f].seal = tab[f].seal BY <1>0, <3>2 DEF TabStates
    <3>4. \A m \in Names : Registering(m)' = Registering(m)
      <4>1. \A m \in Names, g \in Tabs : g \in Registering(m)' <=> g \in Registering(m)
        BY <2>0, <2>1, <3>2, <3>3
      <4> QED BY <4>1
    <3>5. ASSUME NEW m \in Names \ raced'
          PROVE  /\ issued'[m] <= 1
                 /\ \A g, h \in Registering(m)' : g = h
                 /\ Registering(m)' # {} => client'[m] = NoClient
                 /\ client'[m] = NoClient /\ (\A g \in Registering(m)' : tab'[g].pc = "register") => issued'[m] = 0
      <4>1. /\ issued[m] <= 1
            /\ \A g, h \in Registering(m) : g = h
            /\ Registering(m) # {} => client[m] = NoClient
            /\ client[m] = NoClient /\ (\A g \in Registering(m) : tab[g].pc = "register") => issued[m] = 0
        BY <1>0, <2>1, Zenon DEF Once
      <4>2. CASE m = n
        <5>1. \A g \in Registering(n) : g = f BY <2>1, <4>1, <4>2
        <5>2. issued[n] = 0 BY <2>1, <4>1, <4>2, <5>1
        <5>3. issued'[n] = 1 BY <1>0, <2>1, <2>3, <5>2
        <5> HIDE DEF Registering
        <5> QED BY <2>1, <3>3, <3>4, <4>1, <4>2, <5>3
      <4>3. CASE m # n
        <5>1. f \notin Registering(m) BY <2>0, <4>3
        <5>2. \A g \in Registering(m) : tab'[g].pc = tab[g].pc BY <3>2, <5>1
        <5>3. issued'[m] = issued[m] BY <1>0, <2>3, <4>3
        <5> HIDE DEF Registering
        <5> QED BY <2>1, <3>4, <4>1, <5>2, <5>3
      <4> QED BY <4>2, <4>3
    <3> HIDE DEF Registering
    <3> QED BY <3>5 DEF Once
  <2>4. \/ Set(f, Refused) /\ UNCHANGED issued
        \/ \E reg : /\ issued' = [issued EXCEPT ![n] = @ + 1]
                    /\ Set(f, [tab[f] EXCEPT !.pc = "remember", !.meta = reg])
    BY <1>5, <2>0 DEF Register
  <2> QED BY <2>2, <2>3, <2>4
<1>6. ASSUME NEW f \in Tabs, Remember(f) PROVE Once'
  <2>0. PICK n : n = tab[f].seal.server OBVIOUS
  <2>1. /\ tab[f].pc = "remember" /\ n \in Names /\ UNCHANGED <<issued, raced>>
        /\ f \in Registering(n) /\ tab[f].meta.id > 0
    BY <1>0, <1>6, <2>0 DEF Remember, TabKept, Admitted, Registers, Inside, Handling, history
  <2>2. client' = [client EXCEPT ![n] = tab[f].meta] /\ tab[f].meta # NoClient
    BY <1>6, <2>0, <2>1, EmptyTypes DEF Remember
  <2>3. tab'[f].pc \in {"ask", "exchange"} /\ \A g \in Tabs : g # f => tab'[g] = tab[g]
    BY <1>0, <1>6 DEF Remember, Resolved, Set, TypeOK, TabStates
  <2>4. ASSUME NEW m \in Names \ raced'
        PROVE  /\ issued'[m] <= 1
               /\ \A g, h \in Registering(m)' : g = h
               /\ Registering(m)' # {} => client'[m] = NoClient
               /\ client'[m] = NoClient /\ (\A g \in Registering(m)' : tab'[g].pc = "register") => issued'[m] = 0
    <3>1. /\ issued[m] <= 1
          /\ \A g, h \in Registering(m) : g = h
          /\ Registering(m) # {} => client[m] = NoClient
          /\ client[m] = NoClient /\ (\A g \in Registering(m) : tab[g].pc = "register") => issued[m] = 0
      BY <1>0, <2>1, Zenon DEF Once
    <3>2. \A g \in Tabs : g \in Registering(m)' <=> g \in Registering(m) /\ g # f
      BY <2>0, <2>1, <2>3
    <3>3. CASE m = n
      <4>1. \A g \in Registering(m) : g = f BY <2>1, <3>1, <3>3
      <4>2. \A g \in Tabs : g \notin Registering(m)' BY <3>2, <4>1
      <4>3. Registering(m)' = {} BY <4>2
      <4>4. client'[m] # NoClient BY <1>0, <2>1, <2>2, <3>3
      <4> HIDE DEF Registering
      <4> QED BY <2>1, <3>1, <4>3, <4>4
    <3>4. CASE m # n
      <4>1. f \notin Registering(m) BY <2>0, <3>4
      <4>2. \A g \in Tabs : g \in Registering(m)' <=> g \in Registering(m) BY <3>2, <4>1
      <4>3. Registering(m)' = Registering(m) BY <4>2
      <4>4. client'[m] = client[m] BY <1>0, <2>1, <2>2, <3>4
      <4>5. \A g \in Registering(m) : tab'[g].pc = tab[g].pc BY <2>3, <4>1
      <4> HIDE DEF Registering
      <4> QED BY <2>1, <3>1, <4>3, <4>4, <4>5
    <3> QED BY <3>3, <3>4
  <2> HIDE DEF Registering
  <2> QED BY <2>4 DEF Once
<1>7. ASSUME NEW f \in Tabs, Breaks(f) PROVE Once'
  <2>1. tab'[f].pc = "refused" /\ \A g \in Tabs : g # f => tab'[g] = tab[g]
    BY <1>7, EmptyTypes, TabMoves DEF Breaks
  <2>2. UNCHANGED <<client, issued>> /\ raced' = raced \cup Lost(f) BY <1>7 DEF Breaks
  <2>3. \A n \in Names \ raced' : f \notin Registering(n) BY <2>2 DEF Lost
  <2> QED BY <1>1, <2>1, <2>2, <2>3
<1>8. ASSUME NEW c \in Configs, Boot(c) PROVE Once'
  <2>1. UNCHANGED <<client, issued>> /\ raced' = raced \cup UNION {Lost(f) : f \in Tabs} BY <1>8 DEF Boot
  <2>2. \A f \in Tabs : tab'[f] = IF tab[f].pc \in Handling THEN Refused ELSE tab[f] BY <1>8 DEF Boot
  <2>3. \A n \in Names \ raced', f \in Tabs : f \notin Registering(n) BY <2>1 DEF Lost
  <2>4. \A f \in Tabs : tab'[f].pc \notin {"register", "remember"} BY <2>2, EmptyTypes DEF Handling
  <2> QED BY <1>1, <2>1, <2>3, <2>4
<1>9. ASSUME (\E n \in Names, u \in Users : Mint(n, u)) \/ Tick \/ UNCHANGED vars PROVE Once'
  BY <1>3, <1>9 DEF Mint, Tick, vars, clock, history
<1>10. ASSUME NEW f \in Tabs,
         \/ \E n \in Names, s \in links \cup {Forged} : Open(f, s, n)
         \/ \E n \in Names, u \in Users \cup {None}, b \in BOOLEAN : OpenFor(f, n, u, b)
         \/ \E p \in Users \cup {None} : Consent(f, p)
         \/ \E s \in States : Callback(f, s)
         \/ Ask(f) \/ Exchange(f) \/ Save(f) \/ Reload(f)
       PROVE  Once'
  <2> HIDE DEF Registering
  <2> QED BY <1>2, <1>10, Elsewhere
<1> HIDE DEF Registering
<1> QED
  BY <1>4, <1>5, <1>6, <1>7, <1>8, <1>9, <1>10 DEF Next, Handle

\* Who writes the tables.
LEMMA Writers ==
  ASSUME [Next]_vars
  PROVE  /\ (\E n \in Names, u \in Users : Mint(n, u)) \/ links' = links
         /\ (\E f \in Tabs : Remember(f)) \/ client' = client
         /\ (\E f \in Tabs : Save(f)) \/ token' = token
         /\ (\E f \in Tabs, p \in Users \cup {None} : Consent(f, p)) \/ lent' = lent
<1> USE DEF history
<1>1. ASSUME NEW n \in Names, NEW u \in Users, Mint(n, u) PROVE UNCHANGED <<client, token, lent>>
  BY <1>1 DEF Mint
<1>2. ASSUME NEW f \in Tabs, NEW n \in Names, NEW s \in links \cup {Forged}, Open(f, s, n)
      PROVE  UNCHANGED <<links, client, token, lent>>
  BY <1>2 DEF Open
<1>3. ASSUME NEW f \in Tabs, NEW n \in Names, NEW u \in Users \cup {None}, NEW b \in BOOLEAN, OpenFor(f, n, u, b)
      PROVE  UNCHANGED <<links, client, token, lent>>
  BY <1>3 DEF OpenFor
<1>4. ASSUME NEW f \in Tabs, Resolve(f) \/ Register(f) \/ Ask(f) \/ Exchange(f) \/ Breaks(f) \/ Reload(f)
      PROVE  UNCHANGED <<links, client, token, lent>>
  BY <1>4 DEF Resolve, Register, Ask, Exchange, Breaks, Reload
<1>5. ASSUME NEW f \in Tabs, NEW s \in States, Callback(f, s) PROVE UNCHANGED <<links, client, token, lent>>
  BY <1>5 DEF Callback
<1>6. ASSUME NEW f \in Tabs, NEW p \in Users \cup {None}, Consent(f, p) PROVE UNCHANGED <<links, client, token>>
  BY <1>6 DEF Consent
<1>7. ASSUME NEW f \in Tabs, Remember(f) PROVE UNCHANGED <<links, token, lent>> BY <1>7 DEF Remember
<1>8. ASSUME NEW f \in Tabs, Save(f) PROVE UNCHANGED <<links, client, lent>> BY <1>8 DEF Save
<1>9. ASSUME (\E c \in Configs : Boot(c)) \/ Tick \/ UNCHANGED vars PROVE UNCHANGED <<links, client, token, lent>>
  BY <1>9 DEF Boot, Tick, vars
<1> QED BY <1>1, <1>2, <1>3, <1>4, <1>5, <1>6, <1>7, <1>8, <1>9 DEF Next, Handle

\* The other parts: what is cached, what a grant is of and what links name.
LEMMA TablesStep == TypeOK /\ IInv /\ [Next]_vars => LinksSealed' /\ RowsCached' /\ GrantsBelong'
<1> SUFFICES ASSUME TypeOK, IInv, [Next]_vars PROVE LinksSealed' /\ RowsCached' /\ GrantsBelong' OBVIOUS
<1>0. /\ LinksSealed /\ RowsCached /\ GrantsBelong /\ \A f \in Tabs : TabKept(f)
      /\ client \in [Names -> Registrations]
      /\ token \in [Names \X Users -> Rows \cup {None}]
  BY DEF IInv, TypeOK
<1>4. lent \subseteq lent'
  <2>1. ASSUME NEW f \in Tabs, NEW p \in Users \cup {None}, Consent(f, p) PROVE lent \subseteq lent'
    BY <2>1 DEF Consent
  <2> QED BY <2>1, Writers
<1>1. LinksSealed'
  <2>1. ASSUME NEW n \in Names, NEW u \in Users, Mint(n, u) PROVE LinksSealed'
    <3>1. Seal(n, u, None).server = n /\ Seal(n, u, None).user = u /\ Seal(n, u, None).verifier = None
      BY SealTypes
    <3>2. links' = links \cup {Seal(n, u, None)} BY <2>1 DEF Mint
    <3> QED BY <1>0, <3>1, <3>2 DEF LinksSealed
  <2> QED BY <1>0, <2>1, Writers DEF LinksSealed
<1>2. RowsCached'
  <2>1. ASSUME NEW f \in Tabs, Remember(f) PROVE RowsCached'
    <3>1. PICK n : n = tab[f].seal.server OBVIOUS
    <3>2. n \in Names /\ Drawn(tab[f].meta)
      BY <1>0, <2>1, <3>1 DEF Remember, TabKept, Admitted, Registers, Inside, Handling
    <3>3. client' = [client EXCEPT ![n] = tab[f].meta] BY <2>1, <3>1 DEF Remember
    <3> QED BY <1>0, <3>2, <3>3 DEF RowsCached
  <2> QED BY <1>0, <2>1, Writers DEF RowsCached
<1>3. GrantsBelong'
  <2>1. ASSUME NEW f \in Tabs, Save(f) PROVE GrantsBelong'
    <3>1. PICK n, u : n = tab[f].seal.server /\ u = tab[f].seal.user OBVIOUS
    <3>2. n \in Names /\ u \in Users
      BY <1>0, <2>1, <3>1 DEF Save, TabKept, Admitted, Inside, Handling
    <3>3. tab[f].sent = tab[f].seal /\ (tab[f].account = u \/ u \in lent)
      BY <1>0, <2>1, <3>1 DEF Save, TabKept, Bound, Legs, Sent, Handling
    <3>4. PICK g : g = [server |-> n, user |-> u, account |-> tab[f].account, scopes |-> tab[f].asked.scopes]
      OBVIOUS
    <3>5. token' = [token EXCEPT ![<<n, u>>] = g] BY <2>1, <3>1, <3>3, <3>4 DEF Save, Grant
    <3>6. ASSUME NEW m \in Names, NEW w \in Users, token'[<<m, w>>] # None
          PROVE  LET row == token'[<<m, w>>] IN
                 row.server = m /\ row.user = w /\ (row.account = w \/ w \in lent')
      <4>1. <<m, w>> \in Names \X Users OBVIOUS
      <4>2. CASE m = n /\ w = u
        <5>1. token'[<<m, w>>] = g BY <1>0, <3>5, <4>1, <4>2
        <5> QED BY <1>4, <3>3, <3>4, <4>2, <5>1
      <4>3. CASE ~(m = n /\ w = u)
        <5>1. token'[<<m, w>>] = token[<<m, w>>] BY <1>0, <3>5, <4>1, <4>3
        <5> QED BY <1>0, <1>4, <3>6, <5>1 DEF GrantsBelong
      <4> QED BY <4>2, <4>3
    <3> QED BY <3>6 DEF GrantsBelong
  <2>3. ASSUME token' = token PROVE GrantsBelong'
    <3>1. GrantsBelong BY <1>0
    <3> QED BY <1>4, <2>3, <3>1 DEF GrantsBelong
  <2> QED BY <2>1, <2>3, Writers
<1> QED BY <1>1, <1>2, <1>3
-----------------------------------------------------------------------------
LEMMA InitIInv == Init => TypeOK /\ IInv
<1> SUFFICES ASSUME Init PROVE TypeOK /\ IInv OBVIOUS
<1>1. \A f \in Tabs : tab[f] = Away BY DEF Init
<1>2. TypeOK
  <2>1. client \in [Names -> Registrations] /\ tab \in [Tabs -> TabStates] BY EmptyTypes DEF Init
  <2> QED BY <2>1, McpConnectAssumption DEF Init, TypeOK
<1>3. \A f \in Tabs : TabKept(f)
  BY <1>1, EmptyTypes DEF TabKept, Admitted, Legs, Bound, Straight, Registers, Presents, Sent, Inside, Handling, Away
<1>4. Once BY <1>1, EmptyTypes DEF Init, Once, Registering
<1> QED BY <1>2, <1>3, <1>4 DEF Init, IInv, LinksSealed, RowsCached, GrantsBelong

LEMMA Invariance == Spec => [](TypeOK /\ IInv)
<1>1. TypeOK /\ IInv /\ [Next]_vars => (TypeOK /\ IInv)'
  <2>1. IInv => \A f \in Tabs : TabKept(f) BY DEF IInv
  <2> QED BY <2>1, TypeStep, KeptStep, OnceStep, TablesStep DEF IInv
<1> QED BY InitIInv, <1>1, PTL DEF Spec

\* Type correctness of tabs, links, registrations and grants.
THEOREM TypeCorrect == Spec => []TypeOK
BY Invariance, PTL

\* A row of the vault holds what was granted to its user's own request on its
\* server, by that user's account unless another consented through a link of
\* theirs, whatever links and states are replayed, mixed up or made up and
\* whatever the operator changes.
THEOREM GrantsAreOwn == Spec => []GrantsBelong
<1>1. IInv => GrantsBelong BY DEF IInv
<1> QED BY Invariance, <1>1, PTL

\* A server is registered once unless registrations met or were lost, and a
\* user is asked for the scopes that the file names, or else the resource, the
\* server or the registration, the first that names any, or else the default.
THEOREM ClientsAreSound == Spec => []ClientSound
<1>1. TypeOK /\ IInv => RegisteredOnce
  <2> SUFFICES ASSUME TypeOK, IInv, NEW n \in Names, issued[n] > 1 PROVE n \in raced
    BY DEF RegisteredOnce
  <2>1. issued[n] \in Nat BY DEF TypeOK
  <2> QED BY <2>1 DEF IInv, Once
<1>2. TypeOK /\ IInv => ScopesAsked
  <2> SUFFICES ASSUME TypeOK, IInv, NEW f \in Tabs, tab[f].pc = "provider", f \notin churned,
                      Server(tab[f].seal.server).oauth = "discover"
               PROVE  LET asked == tab[f].asked
                          offers == <<Server(tab[f].seal.server).scopes, asked.pub.resource, asked.pub.scopes,
                                      asked.pub.echoes, {"openid"}>>
                      IN \E i \in 1..5 : /\ asked.scopes = offers[i] /\ offers[i] \notin {None, {}}
                                        /\ \A j \in 1..(i - 1) : offers[j] \in {None, {}}
    BY DEF ScopesAsked
  <2> DEFINE yaml == Server(tab[f].seal.server).scopes
             pub == tab[f].asked.pub
             scopes == tab[f].asked.scopes
             offers == <<yaml, pub.resource, pub.scopes, pub.echoes, {"openid"}>>
             Chosen(i) == /\ scopes = offers[i] /\ offers[i] \notin {None, {}}
                         /\ \A j \in 1..(i - 1) : offers[j] \in {None, {}}
  <2>1. scopes = EffectiveScopes(yaml, Cached(pub)) /\ pub \in Published
    BY DEF IInv, TabKept, Registers
  <2>2. yaml # None /\ pub.scopes # None /\ {"openid"} # None /\ {} # None
    <3>1. Authorised(tab[f].seal.server) BY DEF IInv, TabKept, Registers
    <3>2. tab[f].seal.server \in Names BY DEF IInv, TabKept, Admitted, Inside
    <3>3. yaml \in SUBSET Scope BY <3>1, <3>2, ServerTypes
    <3>4. pub.scopes \in SUBSET Scope BY <2>1 DEF Published
    <3>5. {"openid"} \in SUBSET Scope /\ {} \in SUBSET Scope BY DEF Scope
    <3> QED BY <3>3, <3>4, <3>5, ShapesAssumption
  <2>3. /\ offers[1] = yaml /\ offers[2] = pub.resource /\ offers[3] = pub.scopes
        /\ offers[4] = pub.echoes /\ offers[5] = {"openid"}
    OBVIOUS
  <2> HIDE DEF yaml, pub, scopes, offers
  <2>4. CASE yaml # {}
    <3>1. Chosen(1) BY <2>1, <2>2, <2>3, <2>4 DEF EffectiveScopes
    <3> QED BY <3>1 DEF yaml, pub, scopes, offers
  <2>5. CASE yaml = {} /\ pub.resource \notin {None, {}}
    <3>1. scopes = pub.resource BY <2>1, <2>5 DEF EffectiveScopes, Cached, Discovered
    <3>2. Chosen(2) BY <2>3, <2>5, <3>1
    <3> QED BY <3>2 DEF yaml, pub, scopes, offers
  <2>6. CASE yaml = {} /\ pub.resource \in {None, {}} /\ pub.scopes # {}
    <3>1. scopes = pub.scopes BY <2>1, <2>6 DEF EffectiveScopes, Cached, Discovered
    <3>2. Chosen(3) BY <2>2, <2>3, <2>6, <3>1
    <3> QED BY <3>2 DEF yaml, pub, scopes, offers
  <2>7. CASE yaml = {} /\ pub.resource \in {None, {}} /\ pub.scopes = {} /\ pub.echoes \notin {None, {}}
    <3>1. scopes = pub.echoes BY <2>1, <2>7 DEF EffectiveScopes, Cached, Discovered
    <3>2. Chosen(4) BY <2>3, <2>7, <3>1
    <3> QED BY <3>2 DEF yaml, pub, scopes, offers
  <2>8. CASE yaml = {} /\ pub.resource \in {None, {}} /\ pub.scopes = {} /\ pub.echoes \in {None, {}}
    <3>1. scopes = {"openid"} BY <2>1, <2>8 DEF EffectiveScopes, Cached, Discovered
    <3>2. Chosen(5) BY <2>2, <2>3, <2>8, <3>1
    <3> QED BY <3>2 DEF yaml, pub, scopes, offers
  <2> QED BY <2>4, <2>5, <2>6, <2>7, <2>8
<1> QED BY Invariance, <1>1, <1>2, PTL DEF ClientSound

\* The token endpoint refuses a fresh code only when registrations raced, the
\* configuration changed under way or the browser came with another state.
THEOREM CodesAreHonoured == Spec => CodesHonoured
<1> DEFINE Honest ==
      \A f \in Tabs : tab[f].pc = "exchange" /\ ~Honours(f) =>
        tab[f].seal.server \in raced \/ f \in churned \/ tab[f].code = "used" \/ tab[f].seal # tab[f].sent
<1>1. TypeOK /\ IInv => Honest
  <2> SUFFICES ASSUME TypeOK, IInv, NEW f \in Tabs, tab[f].pc = "exchange",
                      tab[f].seal.server \notin raced, f \notin churned, tab[f].code # "used",
                      tab[f].seal = tab[f].sent
               PROVE  Honours(f)
    OBVIOUS
  <2>1. tab[f].code = "fresh"
    <3>1. tab[f].code \in {"none", "fresh", "used"} BY DEF TypeOK, TabStates
    <3>2. Legs(f) /\ tab[f].pc \in Handling BY DEF IInv, TabKept, Handling
    <3> QED BY <3>1, <3>2 DEF Legs
  <2>2. tab[f].meta.id = tab[f].asked.id /\ tab[f].meta.base = tab[f].asked.base
    BY DEF IInv, TabKept, Presents, Straight
  <2> QED BY <2>1, <2>2 DEF Honours
<1> QED BY Invariance, <1>1, PTL DEF CodesHonoured

-----------------------------------------------------------------------------
(* McpTokens: the vault *)

\* Type correctness of the vault, the turns, the flows and the provider.
THEOREM VaultTypeCorrect == VaultSpec => []VaultTypes
<1> USE McpTokensAssumption DEF VaultTypes, Token, NoToken, NoNumber
<1>1. VaultInit => VaultTypes
  BY DEF VaultInit, RowTypes, TurnTypes, FlowTypes, IssuedTypes, SetTypes, CountTypes
<1>2. VaultTypes /\ [VaultNext]_vaultVars => VaultTypes'
  <2> SUFFICES ASSUME VaultTypes, [VaultNext]_vaultVars PROVE VaultTypes'
    OBVIOUS
  <2> USE DEF turnVars, flowVars, provider, Goto, FlowTo
  <2>0. /\ \A r \in Reqs : Unsaved(r) \subseteq 0..MaxTokens
        /\ \A f \in Flows : FlowUnsaved(f) \subseteq 0..MaxTokens
    BY DEF Unsaved, FlowUnsaved, TurnTypes, FlowTypes
  <2>1. ASSUME NEW r \in Reqs, ReadVault(r) \/ Check(r) \/ Rejected(r) PROVE VaultTypes'
    <3>1. RowTypes' BY <2>1 DEF ReadVault, Check, Rejected, RowTypes
    <3>2. TurnTypes'
      <4>1. CASE ReadVault(r) BY <4>1 DEF ReadVault, TurnTypes, RowTypes
      <4>2. CASE Check(r) BY <4>2 DEF Check, TurnTypes
      <4>3. CASE Rejected(r) BY <4>3 DEF Rejected, TurnTypes
      <4> QED BY <2>1, <4>1, <4>2, <4>3
    <3>3. FlowTypes' BY <2>1 DEF ReadVault, Check, Rejected, FlowTypes
    <3>4. IssuedTypes' BY <2>1 DEF ReadVault, Check, Rejected, IssuedTypes
    <3>5. SetTypes' BY <2>1 DEF ReadVault, Check, Rejected, SetTypes
    <3>6. CountTypes' BY <2>1 DEF ReadVault, Check, Rejected, CountTypes
    <3> QED BY <3>1, <3>2, <3>3, <3>4, <3>5, <3>6
  <2>2. ASSUME NEW r \in Reqs, Refresh(r) PROVE VaultTypes'
    <3>1. RowTypes' BY <2>2 DEF Refresh, RowTypes
    <3>2. TurnTypes' BY <2>2 DEF Refresh, TurnTypes, IssuedTypes
    <3>3. FlowTypes' BY <2>2 DEF Refresh, FlowTypes
    <3>4. IssuedTypes' BY <2>2 DEF Refresh, IssuedTypes, RowTypes
    <3>0. issuedTokens' \in 1..MaxTokens BY <2>2 DEF Refresh, IssuedTypes
    <3>5. SetTypes' BY <2>2, <3>0 DEF Refresh, SetTypes
    <3>6. CountTypes' BY <2>2 DEF Refresh, CountTypes
    <3> QED BY <3>1, <3>2, <3>3, <3>4, <3>5, <3>6
  <2>3. ASSUME NEW r \in Reqs, RefreshFails(r) \/ ReconnectFails(r) PROVE VaultTypes'
    <3>1. RowTypes' BY <2>3 DEF RefreshFails, ReconnectFails, RowTypes
    <3>2. TurnTypes' BY <2>3 DEF RefreshFails, ReconnectFails, TurnTypes
    <3>3. FlowTypes' BY <2>3 DEF RefreshFails, ReconnectFails, FlowTypes
    <3>4. IssuedTypes' BY <2>3 DEF RefreshFails, ReconnectFails, IssuedTypes
    <3>5. SetTypes' BY <2>3 DEF RefreshFails, ReconnectFails, SetTypes
    <3>6. CountTypes'
      <4>1. (lapses \in Nat /\ faults \in Nat /\ apart \in BOOLEAN)' BY <2>3 DEF RefreshFails, ReconnectFails, CountTypes, Fault
      <4>2. lost' = lost \/ lost' = lost \cup Unsaved(r) BY <2>3 DEF RefreshFails, ReconnectFails
      <4>3. lost' \subseteq 0..MaxTokens BY <2>0, <4>2 DEF CountTypes
      <4> QED BY <4>1, <4>3 DEF CountTypes
    <3> QED BY <3>1, <3>2, <3>3, <3>4, <3>5, <3>6
  <2>4. ASSUME NEW r \in Reqs, Store(r) PROVE VaultTypes'
    <3>1. RowTypes' BY <2>4 DEF Store, RowTypes, TurnTypes
    <3>2. TurnTypes' BY <2>4 DEF Store, TurnTypes
    <3>3. FlowTypes' BY <2>4 DEF Store, FlowTypes
    <3>4. IssuedTypes' BY <2>4 DEF Store, IssuedTypes
    <3>5. SetTypes' BY <2>4 DEF Store, SetTypes
    <3>6. CountTypes' BY <2>4 DEF Store, CountTypes
    <3> QED BY <3>1, <3>2, <3>3, <3>4, <3>5, <3>6
  <2>5. ASSUME NEW r \in Reqs, Connect(r) \/ Delete(r) PROVE VaultTypes'
    <3>1. RowTypes' BY <2>5 DEF Connect, Delete, RowTypes, TurnTypes
    <3>2. TurnTypes'
      <4>1. Finish(r) BY <2>5 DEF Connect, Delete
      <4> QED BY <4>1 DEF Finish, TurnTypes
    <3>3. FlowTypes' BY <2>5 DEF Connect, Delete, FlowTypes
    <3>4. IssuedTypes' BY <2>5 DEF Connect, Delete, IssuedTypes
    <3>5. SetTypes' BY <2>5 DEF Connect, Delete, SetTypes
    <3>6. CountTypes' BY <2>5 DEF Connect, Delete, CountTypes
    <3> QED BY <3>1, <3>2, <3>3, <3>4, <3>5, <3>6
  <2>6. ASSUME NEW r \in Reqs, ConnectError(r) \/ DeleteFails(r) \/ Drop(r) PROVE VaultTypes'
    <3>1. RowTypes' BY <2>6 DEF ConnectError, DeleteFails, Drop, RowTypes
    <3>2. TurnTypes'
      <4>1. Finish(r) BY <2>6 DEF ConnectError, DeleteFails, Drop
      <4> QED BY <4>1 DEF Finish, TurnTypes
    <3>3. FlowTypes' BY <2>6 DEF ConnectError, DeleteFails, Drop, FlowTypes
    <3>4. IssuedTypes' BY <2>6 DEF ConnectError, DeleteFails, Drop, IssuedTypes
    <3>5. SetTypes' BY <2>6 DEF ConnectError, DeleteFails, Drop, SetTypes
    <3>6. CountTypes'
      <4>1. (lapses \in Nat /\ faults \in Nat /\ apart \in BOOLEAN)' BY <2>6 DEF ConnectError, DeleteFails, Drop, CountTypes, Fault
      <4>2. lost' = lost \/ lost' = lost \cup Unsaved(r) BY <2>6 DEF ConnectError, DeleteFails, Drop
      <4>3. lost' \subseteq 0..MaxTokens BY <2>0, <4>2 DEF CountTypes
      <4> QED BY <4>1, <4>3 DEF CountTypes
    <3> QED BY <3>1, <3>2, <3>3, <3>4, <3>5, <3>6
  <2>7. ASSUME NEW f \in Flows, Connecting(f) PROVE VaultTypes'
    <3>1. RowTypes' BY <2>7 DEF Connecting, RowTypes
    <3>2. TurnTypes' BY <2>7 DEF Connecting, TurnTypes
    <3>3. FlowTypes' BY <2>7 DEF Connecting, FlowTypes, RowTypes
    <3>4. IssuedTypes' BY <2>7 DEF Connecting, IssuedTypes
    <3>5. SetTypes' BY <2>7 DEF Connecting, SetTypes
    <3>6. CountTypes' BY <2>7 DEF Connecting, CountTypes
    <3> QED BY <3>1, <3>2, <3>3, <3>4, <3>5, <3>6
  <2>8. ASSUME NEW f \in Flows, RegisterClient(f) PROVE VaultTypes'
    <3>1. RowTypes' BY <2>8 DEF RegisterClient, RowTypes, IssuedTypes
    <3>2. TurnTypes' BY <2>8 DEF RegisterClient, TurnTypes
    <3>3. FlowTypes' BY <2>8 DEF RegisterClient, FlowTypes, IssuedTypes
    <3>4. IssuedTypes' BY <2>8 DEF RegisterClient, IssuedTypes
    <3>5. SetTypes' BY <2>8 DEF RegisterClient, SetTypes
    <3>6. CountTypes' BY <2>8 DEF RegisterClient, CountTypes
    <3> QED BY <3>1, <3>2, <3>3, <3>4, <3>5, <3>6
  <2>9. ASSUME NEW f \in Flows, ExchangeCode(f) PROVE VaultTypes'
    <3>1. RowTypes' BY <2>9 DEF ExchangeCode, RowTypes
    <3>2. TurnTypes' BY <2>9 DEF ExchangeCode, TurnTypes
    <3>3. FlowTypes' BY <2>9 DEF ExchangeCode, FlowTypes, IssuedTypes
    <3>4. IssuedTypes' BY <2>9 DEF ExchangeCode, IssuedTypes, RowTypes
    <3>5. SetTypes' BY <2>9 DEF ExchangeCode, SetTypes, IssuedTypes
    <3>6. CountTypes' BY <2>9 DEF ExchangeCode, CountTypes
    <3> QED BY <3>1, <3>2, <3>3, <3>4, <3>5, <3>6
  <2>10. ASSUME NEW f \in Flows, CallbackMismatch(f) \/ CallbackStore(f) PROVE VaultTypes'
    <3>1. RowTypes' BY <2>10 DEF CallbackMismatch, CallbackStore, RowTypes, FlowTypes
    <3>2. TurnTypes' BY <2>10 DEF CallbackMismatch, CallbackStore, TurnTypes
    <3>3. FlowTypes' BY <2>10 DEF CallbackMismatch, CallbackStore, FlowTypes
    <3>4. IssuedTypes' BY <2>10 DEF CallbackMismatch, CallbackStore, IssuedTypes
    <3>5. SetTypes' BY <2>10 DEF CallbackMismatch, CallbackStore, SetTypes
    <3>6. CountTypes' BY <2>10 DEF CallbackMismatch, CallbackStore, CountTypes
    <3> QED BY <3>1, <3>2, <3>3, <3>4, <3>5, <3>6
  <2>11. ASSUME NEW f \in Flows, FlowFails(f) \/ FlowDrop(f) PROVE VaultTypes'
    <3>1. RowTypes' BY <2>11 DEF FlowFails, FlowDrop, RowTypes
    <3>2. TurnTypes' BY <2>11 DEF FlowFails, FlowDrop, TurnTypes
    <3>3. FlowTypes' BY <2>11 DEF FlowFails, FlowDrop, FlowTypes
    <3>4. IssuedTypes' BY <2>11 DEF FlowFails, FlowDrop, IssuedTypes
    <3>5. SetTypes' BY <2>11 DEF FlowFails, FlowDrop, SetTypes
    <3>6. CountTypes'
      <4>1. (lapses \in Nat /\ faults \in Nat /\ apart \in BOOLEAN)' BY <2>11 DEF FlowFails, FlowDrop, CountTypes, Fault
      <4>2. lost' = lost \/ lost' = lost \cup FlowUnsaved(f) BY <2>11 DEF FlowFails, FlowDrop
      <4>3. lost' \subseteq 0..MaxTokens BY <2>0, <4>2 DEF CountTypes
      <4> QED BY <4>1, <4>3 DEF CountTypes
    <3> QED BY <3>1, <3>2, <3>3, <3>4, <3>5, <3>6
  <2>12. ASSUME NEW n \in 1..MaxTokens, Expire(n) \/ Withdraw(n) \/ Revoke(n) PROVE VaultTypes'
    <3>1. RowTypes' BY <2>12 DEF Expire, Withdraw, Revoke, RowTypes
    <3>2. TurnTypes' BY <2>12 DEF Expire, Withdraw, Revoke, TurnTypes
    <3>3. FlowTypes' BY <2>12 DEF Expire, Withdraw, Revoke, FlowTypes
    <3>4. IssuedTypes' BY <2>12 DEF Expire, Withdraw, Revoke, IssuedTypes
    <3>5. SetTypes' BY <2>12 DEF Expire, Withdraw, Revoke, SetTypes
    <3>6. CountTypes'
      <4>1. UNCHANGED <<faults, apart, lost>> BY <2>12 DEF Expire, Withdraw, Revoke
      <4>2. lapses' = lapses + 1 BY <2>12 DEF Expire, Withdraw, Revoke, Lapse
      <4> QED BY <4>1, <4>2 DEF CountTypes
    <3> QED BY <3>1, <3>2, <3>3, <3>4, <3>5, <3>6
  <2>13. CASE IdleOut
    <3>1. RowTypes' BY <2>13 DEF IdleOut, RowTypes
    <3>2. TurnTypes' BY <2>13 DEF IdleOut, TurnTypes
    <3>3. FlowTypes' BY <2>13 DEF IdleOut, FlowTypes
    <3>4. IssuedTypes' BY <2>13 DEF IdleOut, IssuedTypes
    <3>5. SetTypes' BY <2>13 DEF IdleOut, SetTypes
    <3>6. CountTypes' BY <2>13 DEF IdleOut, CountTypes
    <3> QED BY <3>1, <3>2, <3>3, <3>4, <3>5, <3>6
  <2>14. CASE UNCHANGED vaultVars
    <3>1. RowTypes' BY <2>14 DEF vaultVars, RowTypes
    <3>2. TurnTypes' BY <2>14 DEF vaultVars, TurnTypes
    <3>3. FlowTypes' BY <2>14 DEF vaultVars, FlowTypes
    <3>4. IssuedTypes' BY <2>14 DEF vaultVars, IssuedTypes
    <3>5. SetTypes' BY <2>14 DEF vaultVars, SetTypes
    <3>6. CountTypes' BY <2>14 DEF vaultVars, CountTypes
    <3> QED BY <3>1, <3>2, <3>3, <3>4, <3>5, <3>6
  <2> QED
    BY <2>1, <2>2, <2>3, <2>4, <2>5, <2>6, <2>7, <2>8, <2>9, <2>10, <2>11, <2>12, <2>13, <2>14 DEF VaultNext
<1> QED
  BY <1>1, <1>2, PTL DEF VaultSpec
------------------------------------------------------------------------------
\* How many grants a turn can have consumed where it stands: none before its
\* first refresh, and one more once the endpoint has rejected a token.
Spent ==
  \A r \in Reqs :
    /\ pc[r] \in {"idle", "check"} => grants[r] = 0 /\ reactive[r] = FALSE
    /\ pc[r] = "refresh" => grants[r] <= IF reactive[r] THEN 1 ELSE 0
    /\ pc[r] = "store" => grants[r] <= IF reactive[r] THEN 2 ELSE 1
    /\ pc[r] = "connect" => grants[r] <= 1 /\ reactive[r] = FALSE
    /\ grants[r] <= 2

\* A turn consumes at most two refresh grants, whatever else happens.
THEOREM BoundedRefresh == VaultSpec => []RefreshBudget
<1> USE McpTokensAssumption DEF VaultTypes, TurnTypes, Token, NoToken, NoNumber
<1>1. VaultInit => Spent
  <2> HAVE VaultInit
  <2>1. \A r \in Reqs : pc[r] = "idle" BY DEF VaultInit
  <2>2. \A r \in Reqs : grants[r] = 0 BY DEF VaultInit
  <2>3. \A r \in Reqs : reactive[r] = FALSE BY DEF VaultInit
  <2>4. 0 <= 2 OBVIOUS
  <2> QED BY <2>1, <2>2, <2>3, <2>4, Zenon DEF Spent
<1>2. VaultTypes /\ Spent /\ [VaultNext]_vaultVars => Spent'
  <2> SUFFICES ASSUME VaultTypes, Spent, [VaultNext]_vaultVars PROVE Spent'
    OBVIOUS
  <2> USE DEF turnVars, flowVars, provider, Goto
  <2>1. ASSUME NEW r \in Reqs, ReadVault(r) \/ Check(r) PROVE Spent'
    BY <2>1 DEF ReadVault, Check, Spent
  <2>2. ASSUME NEW r \in Reqs, Refresh(r) PROVE Spent'
    BY <2>2 DEF Refresh, Spent
  <2>3. ASSUME NEW r \in Reqs, RefreshFails(r) \/ Store(r) PROVE Spent'
    BY <2>3 DEF RefreshFails, Store, Spent
  <2>4. ASSUME NEW r \in Reqs, Connect(r) \/ ConnectError(r) \/ Delete(r) \/ DeleteFails(r) \/ Drop(r) PROVE Spent'
    BY <2>4 DEF Connect, ConnectError, Delete, DeleteFails, Drop, Finish, Spent
  <2>5. ASSUME NEW r \in Reqs, Rejected(r) \/ ReconnectFails(r) PROVE Spent'
    BY <2>5 DEF Rejected, ReconnectFails, Spent
  <2>6. CASE UNCHANGED turnVars
    BY <2>6 DEF Spent
  <2>7. ASSUME NEW f \in Flows,
               \/ Connecting(f) \/ RegisterClient(f) \/ ExchangeCode(f) \/ CallbackMismatch(f)
               \/ CallbackStore(f) \/ FlowFails(f) \/ FlowDrop(f)
        PROVE UNCHANGED turnVars
    BY <2>7 DEF Connecting, RegisterClient, ExchangeCode, CallbackMismatch, CallbackStore, FlowFails, FlowDrop
  <2>8. ASSUME NEW n \in 1..MaxTokens, Expire(n) \/ Withdraw(n) \/ Revoke(n)
        PROVE UNCHANGED turnVars
    BY <2>8 DEF Expire, Withdraw, Revoke
  <2>9. CASE IdleOut
    BY <2>6, <2>9 DEF IdleOut
  <2>10. CASE UNCHANGED vaultVars
    BY <2>6, <2>10 DEF vaultVars
  <2> QED
    BY <2>1, <2>2, <2>3, <2>4, <2>5, <2>6, <2>7, <2>8, <2>9, <2>10 DEF VaultNext
<1>3. Spent => RefreshBudget
  BY DEF Spent, RefreshBudget
<1> QED
  BY VaultTypeCorrect, <1>1, <1>2, <1>3, PTL DEF VaultSpec
------------------------------------------------------------------------------
FlowEnded == {"idle", "done", "failed", "refused"}

\* One turn or one authorisation at a time is under way.
Alone ==
  /\ \A r \in Reqs : pc[r] # "idle" =>
       /\ \A q \in Reqs \ {r} : pc[q] = "idle"
       /\ \A f \in Flows : flow[f] \in FlowEnded
  /\ \A f \in Flows : flow[f] \notin FlowEnded => \A g \in Flows \ {f} : flow[g] \in FlowEnded

\* Somebody is about to save the newest token.
Saving == (\E r \in Reqs : pc[r] = "store") \/ (\E f \in Flows : flow[f] = "store")

\* What is about to be saved is newer than the row, and not lost.
Fresh(n) == n = issuedTokens /\ n \notin lost /\ vault.acc < n

\* The row was not lost, and everything newer was, or is about to be saved.
InVault ==
  vault # NoToken =>
    /\ vault.acc \notin lost
    /\ \A n \in 1..issuedTokens : n > vault.acc => n \in lost \/ (n = issuedTokens /\ Saving)

Newest ==
  /\ \A r \in Reqs : pc[r] = "store" => Fresh(tok[r].acc)
  /\ \A f \in Flows : flow[f] = "store" => Fresh(flowTok[f].acc)
  /\ vault.acc <= issuedTokens /\ lost \subseteq 0..issuedTokens
  /\ InVault

\* While nothing met, a turn or an authorisation is alone under way.
Apart == apart => Alone /\ Newest

\* A turn under way that takes a step is still the only one.
LEMMA TurnStep ==
  ASSUME Alone, NEW r \in Reqs, pc[r] # "idle", UNCHANGED flow,
         \A q \in Reqs : q # r => pc'[q] = pc[q]
  PROVE  Alone'
BY DEF Alone

\* So is an authorisation.
LEMMA FlowStep ==
  ASSUME Alone, NEW f \in Flows, flow[f] \notin FlowEnded, UNCHANGED pc,
         \A g \in Flows : g # f => flow'[g] = flow[g]
  PROVE  Alone' /\ (\A r \in Reqs : pc[r] = "idle") /\ \A g \in Flows : g # f => flow[g] # "store"
BY DEF Alone, FlowEnded

\* What nobody is saving is as new as it was.
LEMMA StillNewest ==
  ASSUME Newest, UNCHANGED <<vault, issuedTokens, lost>>, ~Saving, ~Saving'
  PROVE  Newest'
BY DEF Newest, InVault, Fresh, Saving

\* The turn that saves is the only one to.
LEMMA OnlyTurn ==
  ASSUME Alone, NEW r \in Reqs, pc[r] # "idle"
  PROVE  /\ \A q \in Reqs : q # r => pc[q] # "store"
         /\ \A f \in Flows : flow[f] # "store"
BY DEF Alone, FlowEnded

\* A token is issued to the only one under way.
LEMMA IssuedStep ==
  ASSUME VaultTypes, Newest, ~Saving, UNCHANGED <<vault, lost>>, issuedTokens' = issuedTokens + 1, Saving',
         \A r \in Reqs : pc'[r] = "store" => tok'[r].acc = issuedTokens',
         \A f \in Flows : flow'[f] = "store" => flowTok'[f].acc = issuedTokens'
  PROVE  Newest'
<1>1. vault.acc \in Nat /\ issuedTokens \in Nat /\ vault.acc <= issuedTokens /\ lost \subseteq 0..issuedTokens
  BY McpTokensAssumption DEF VaultTypes, RowTypes, IssuedTypes, Token, Newest
<1>2. Fresh(issuedTokens)' BY <1>1 DEF Fresh
<1>3. InVault'
  <2> SUFFICES ASSUME vault # NoToken, NEW n \in 1..issuedTokens', n > vault.acc PROVE n \in lost \/ n = issuedTokens'
    BY DEF InVault, Newest, NoToken
  <2> QED BY <1>1 DEF Newest, InVault
<1> QED BY <1>1, <1>2, <1>3 DEF Newest

\* The only one under way saves what it was issued.
LEMMA SavedStep ==
  ASSUME VaultTypes, Newest, UNCHANGED <<issuedTokens, lost>>, ~Saving',
         vault'.acc = issuedTokens, issuedTokens \notin lost
  PROVE  Newest'
BY McpTokensAssumption DEF VaultTypes, IssuedTypes, Newest, InVault, Fresh, Saving

\* The only one under way ends with what it was issued, or with nothing in hand.
LEMMA LostStep ==
  ASSUME VaultTypes, Newest, UNCHANGED <<vault, issuedTokens>>, ~Saving',
         \/ ~Saving /\ lost' = lost
         \/ vault.acc < issuedTokens /\ lost' = lost \cup {issuedTokens}
  PROVE  Newest'
<1>1. vault.acc \in Nat /\ issuedTokens \in Nat /\ vault.acc <= issuedTokens /\ lost \subseteq 0..issuedTokens
  BY McpTokensAssumption DEF VaultTypes, RowTypes, IssuedTypes, Token, Newest
<1>2. lost' \subseteq 0..issuedTokens
  <2>1. lost' \subseteq lost \cup {issuedTokens} OBVIOUS
  <2> QED BY <1>1, <2>1
<1>3. InVault'
  <2> SUFFICES ASSUME vault # NoToken
               PROVE  /\ vault.acc \notin lost'
                      /\ \A n \in 1..issuedTokens : n > vault.acc => n \in lost'
    BY DEF InVault, NoToken
  <2> QED BY <1>1 DEF Newest, InVault
<1> QED BY <1>1, <1>2, <1>3 DEF Newest, Saving

\* While nothing met, one is alone under way and has the newest token.
LEMMA ApartInvariant == VaultSpec => []Apart
<1>1. VaultInit => Apart
  BY DEF VaultInit, Alone, Newest, Apart, InVault, Fresh, FlowEnded, NoToken, NoNumber
<1>2. VaultTypes /\ Apart /\ [VaultNext]_vaultVars => Apart'
  <2> SUFFICES ASSUME VaultTypes, Apart, [VaultNext]_vaultVars, apart' PROVE Alone' /\ Newest'
    BY Zenon DEF Apart
  <2>1. Alone /\ Newest
    <3>1. apart' = apart \/ apart' = (apart /\ Quiet)
      BY DEF VaultNext, vaultVars, turnVars, flowVars, provider, ReadVault, Check, Refresh, RefreshFails, Store, Connect, Rejected,
             ConnectError, ReconnectFails, Delete, DeleteFails, Drop, Connecting, RegisterClient, ExchangeCode, CallbackMismatch,
             CallbackStore, FlowFails, FlowDrop, Expire, Withdraw, Revoke, IdleOut
    <3> QED BY <3>1, Zenon DEF Apart
  <2>t. /\ pc \in [Reqs -> {"idle", "check", "refresh", "store", "connect", "reconnect", "delete", "giveUp"}]
        /\ tok \in [Reqs -> Token] /\ flowTok \in [Flows -> Token]
        /\ flow \in [Flows -> {"idle", "register", "browser", "store", "done", "failed", "refused"}]
    BY DEF VaultTypes, TurnTypes, FlowTypes
  <2> HIDE DEF Apart
  <2> USE DEF turnVars, flowVars, provider, Goto, FlowTo
\* A turn moves on, with nothing to save before or after.
  <2>2. ASSUME NEW r \in Reqs, pc[r] \notin {"idle", "store"}, NEW where \in {"check", "refresh", "connect", "delete", "giveUp", "idle"},
               Goto(r, where), UNCHANGED <<flow, issuedTokens, lost>>,
               vault' = vault \/ vault' = NoToken
        PROVE  Alone' /\ Newest'
    <3>1. /\ \A q \in Reqs : q # r => pc'[q] = pc[q] /\ pc[q] # "store"
          /\ pc'[r] # "store" /\ \A f \in Flows : flow[f] # "store"
      BY <2>1, <2>2, <2>t, OnlyTurn
    <3>2. Alone' BY <2>1, <2>2, <3>1, TurnStep
    <3>3. ~Saving /\ ~Saving' BY <2>2, <3>1 DEF Saving
    <3>4. CASE vault' = vault
      <4>1. UNCHANGED <<vault, issuedTokens, lost>> BY <2>2, <3>4
      <4> QED BY <2>1, <3>2, <3>3, <4>1, StillNewest
    <3>5. CASE vault' = NoToken
      <4>1. vault'.acc = 0 /\ 0 <= issuedTokens
        BY <3>5, McpTokensAssumption DEF NoToken, NoNumber, VaultTypes, IssuedTypes
      <4>2. InVault' BY <3>5 DEF InVault, NoToken
      <4>3. lost' \subseteq 0..issuedTokens' /\ vault'.acc <= issuedTokens' BY <2>1, <2>2, <4>1 DEF Newest
      <4>4. Newest' BY <3>3, <4>2, <4>3 DEF Newest, Saving
      <4> QED BY <3>2, <4>4
    <3> QED BY <2>2, <3>2, <3>4, <3>5
  <2>3. ASSUME NEW r \in Reqs, ReadVault(r) PROVE Alone' /\ Newest'
    <3>0. Quiet BY <2>3, Zenon DEF ReadVault
    <3>1. pc' = [pc EXCEPT ![r] = "check"] /\ UNCHANGED <<vault, flow, issuedTokens, lost>>
      BY <2>3 DEF ReadVault
    <3>2. Alone' BY <2>t, <3>0, <3>1 DEF Quiet, Alone, FlowEnded
    <3>3. ~Saving /\ ~Saving' BY <2>t, <3>0, <3>1 DEF Quiet, Saving
    <3> QED BY <2>1, <3>1, <3>2, <3>3, StillNewest
  <2>4. ASSUME NEW r \in Reqs,
               Check(r) \/ Rejected(r) \/ ReconnectFails(r) \/ Connect(r) \/ ConnectError(r) \/ Delete(r) \/ DeleteFails(r)
        PROVE  Alone' /\ Newest'
    <3>1. pc[r] \notin {"idle", "store"} /\ UNCHANGED <<flow, issuedTokens, lost>> /\ (vault' = vault \/ vault' = NoToken)
      BY <2>4 DEF Check, Rejected, ReconnectFails, Connect, ConnectError, Delete, DeleteFails
    <3>2. \E where \in {"check", "refresh", "connect", "delete", "giveUp", "idle"} : Goto(r, where)
      BY <2>4 DEF Check, Rejected, ReconnectFails, Connect, ConnectError, Delete, DeleteFails, Finish
    <3> QED BY <2>2, <3>1, <3>2
  <2>5. ASSUME NEW r \in Reqs, Refresh(r) PROVE Alone' /\ Newest'
    <3>1. /\ pc[r] = "refresh" /\ pc' = [pc EXCEPT ![r] = "store"] /\ tok'[r].acc = issuedTokens'
          /\ issuedTokens' = issuedTokens + 1 /\ UNCHANGED <<vault, flow, flowTok, lost>>
      BY <2>5, <2>t DEF Refresh
    <3>2. /\ \A q \in Reqs : q # r => pc'[q] = pc[q] /\ pc[q] # "store"
          /\ pc'[r] = "store" /\ \A f \in Flows : flow[f] # "store"
      BY <2>1, <2>t, <3>1, OnlyTurn
    <3>3. Alone' BY <2>1, <3>1, <3>2, TurnStep
    <3>4. ~Saving /\ Saving' BY <3>1, <3>2 DEF Saving
    <3>5. \A q \in Reqs : pc'[q] = "store" => tok'[q].acc = issuedTokens' BY <3>1, <3>2
    <3>6. \A f \in Flows : flow'[f] = "store" => flowTok'[f].acc = issuedTokens' BY <3>1, <3>2
    <3>7. Newest' BY <2>1, <3>1, <3>4, <3>5, <3>6, IssuedStep
    <3> QED BY <3>3, <3>7
\* A refresh that fails, or a turn that is dropped.
  <2>6. ASSUME NEW r \in Reqs, RefreshFails(r) \/ Drop(r) PROVE Alone' /\ Newest'
    <3>1. /\ pc[r] # "idle" /\ UNCHANGED <<vault, flow, issuedTokens>> /\ lost' = lost \cup Unsaved(r)
          /\ pc' = [pc EXCEPT ![r] = "delete"] \/ pc' = [pc EXCEPT ![r] = "idle"]
      BY <2>6 DEF RefreshFails, Drop, Finish
    <3>2. /\ \A q \in Reqs : q # r => pc'[q] = pc[q] /\ pc[q] # "store"
          /\ pc'[r] # "store" /\ \A f \in Flows : flow[f] # "store"
      BY <2>1, <2>t, <3>1, OnlyTurn
    <3>3. Alone' BY <2>1, <3>1, <3>2, TurnStep
    <3>4. ~Saving' BY <3>1, <3>2 DEF Saving
    <3>5. CASE pc[r] = "store"
      <4>1. Unsaved(r) = {issuedTokens} /\ vault.acc < issuedTokens BY <2>1, <3>5 DEF Newest, Fresh, Unsaved
      <4> QED BY <2>1, <3>1, <3>3, <3>4, <4>1, LostStep
    <3>6. CASE pc[r] # "store"
      <4>1. Unsaved(r) = {} /\ ~Saving BY <3>2, <3>6 DEF Unsaved, Saving
      <4>2. lost' = lost BY <3>1, <4>1
      <4> QED BY <2>1, <3>1, <3>3, <3>4, <4>1, <4>2, LostStep
    <3> QED BY <3>5, <3>6
  <2>7. ASSUME NEW r \in Reqs, Store(r) PROVE Alone' /\ Newest'
    <3>1. /\ pc[r] = "store" /\ vault' = tok[r] /\ UNCHANGED <<flow, issuedTokens, lost>>
          /\ \E where \in {"reconnect", "connect"} : pc' = [pc EXCEPT ![r] = where]
      BY <2>7 DEF Store
    <3>2. /\ \A q \in Reqs : q # r => pc'[q] = pc[q] /\ pc[q] # "store"
          /\ pc'[r] # "store" /\ \A f \in Flows : flow[f] # "store"
      BY <2>1, <2>t, <3>1, OnlyTurn
    <3>3. Alone' BY <2>1, <3>1, <3>2, TurnStep
    <3>4. ~Saving' BY <3>1, <3>2 DEF Saving
    <3>5. vault'.acc = issuedTokens /\ issuedTokens \notin lost BY <2>1, <3>1 DEF Newest, Fresh
    <3> QED BY <2>1, <3>1, <3>3, <3>4, <3>5, SavedStep
  <2>8. ASSUME NEW f \in Flows, Connecting(f) PROVE Alone' /\ Newest'
    <3>0. Quiet BY <2>8, Zenon DEF Connecting
    <3>1. /\ UNCHANGED <<vault, pc, issuedTokens, lost>>
          /\ flow' = [flow EXCEPT ![f] = "register"] \/ flow' = [flow EXCEPT ![f] = "browser"]
      BY <2>8 DEF Connecting
    <3>2. /\ \A r \in Reqs : pc'[r] = "idle" /\ pc[r] = "idle"
          /\ \A g \in Flows \ {f} : flow'[g] \in FlowEnded
          /\ \A g \in Flows : flow[g] # "store" /\ flow'[g] # "store"
      BY <2>t, <3>0, <3>1 DEF Quiet, FlowEnded
    <3>3. Alone' BY <3>2 DEF Alone
    <3>4. ~Saving /\ ~Saving' BY <3>2 DEF Saving
    <3> QED BY <2>1, <3>1, <3>3, <3>4, StillNewest
  <2>9. ASSUME NEW f \in Flows, RegisterClient(f) \/ CallbackMismatch(f) PROVE Alone' /\ Newest'
    <3>1. /\ flow[f] \notin FlowEnded /\ flow[f] # "store" /\ UNCHANGED <<vault, pc, issuedTokens, lost>>
          /\ flow' = [flow EXCEPT ![f] = "browser"] \/ flow' = [flow EXCEPT ![f] = "refused"]
      BY <2>9 DEF RegisterClient, CallbackMismatch, FlowEnded
    <3>2. (\A g \in Flows : g # f => flow'[g] = flow[g]) /\ flow'[f] # "store" BY <2>t, <3>1
    <3>3. Alone' /\ (\A r \in Reqs : pc[r] = "idle") /\ \A g \in Flows : g # f => flow[g] # "store"
      BY <2>1, <3>1, <3>2, FlowStep
    <3>4. ~Saving /\ ~Saving' BY <3>1, <3>2, <3>3 DEF Saving
    <3> QED BY <2>1, <3>1, <3>3, <3>4, StillNewest
  <2>10. ASSUME NEW f \in Flows, ExchangeCode(f) PROVE Alone' /\ Newest'
    <3>1. /\ flow[f] = "browser" /\ flow' = [flow EXCEPT ![f] = "store"] /\ flowTok'[f].acc = issuedTokens'
          /\ issuedTokens' = issuedTokens + 1 /\ UNCHANGED <<vault, pc, tok, lost>>
      BY <2>10, <2>t DEF ExchangeCode
    <3>2. (\A g \in Flows : g # f => flow'[g] = flow[g]) /\ flow'[f] = "store" BY <2>t, <3>1
    <3>3. Alone' /\ (\A r \in Reqs : pc[r] = "idle") /\ \A g \in Flows : g # f => flow[g] # "store"
      BY <2>1, <3>1, <3>2, FlowStep DEF FlowEnded
    <3>4. ~Saving /\ Saving' BY <3>1, <3>2, <3>3 DEF Saving
    <3>5. \A q \in Reqs : pc'[q] = "store" => tok'[q].acc = issuedTokens' BY <3>1, <3>3
    <3>6. \A g \in Flows : flow'[g] = "store" => flowTok'[g].acc = issuedTokens' BY <3>1, <3>2, <3>3
    <3>7. Newest' BY <2>1, <3>1, <3>4, <3>5, <3>6, IssuedStep
    <3> QED BY <3>3, <3>7
  <2>11. ASSUME NEW f \in Flows, FlowFails(f) \/ FlowDrop(f) PROVE Alone' /\ Newest'
    <3>1. /\ flow[f] \notin FlowEnded /\ flow' = [flow EXCEPT ![f] = "failed"] /\ UNCHANGED <<vault, pc, issuedTokens>>
          /\ lost' = lost \cup FlowUnsaved(f)
      BY <2>11 DEF FlowFails, FlowDrop, FlowEnded
    <3>2. (\A g \in Flows : g # f => flow'[g] = flow[g]) /\ flow'[f] # "store" BY <2>t, <3>1
    <3>3. Alone' /\ (\A r \in Reqs : pc[r] = "idle") /\ \A g \in Flows : g # f => flow[g] # "store"
      BY <2>1, <3>1, <3>2, FlowStep
    <3>4. ~Saving' BY <3>1, <3>2, <3>3 DEF Saving
    <3>5. CASE flow[f] = "store"
      <4>1. FlowUnsaved(f) = {issuedTokens} /\ vault.acc < issuedTokens BY <2>1, <3>5 DEF Newest, Fresh, FlowUnsaved
      <4> QED BY <2>1, <3>1, <3>3, <3>4, <4>1, LostStep
    <3>6. CASE flow[f] # "store"
      <4>1. FlowUnsaved(f) = {} /\ ~Saving BY <3>3, <3>6 DEF FlowUnsaved, Saving
      <4>2. lost' = lost BY <3>1, <4>1
      <4> QED BY <2>1, <3>1, <3>3, <3>4, <4>1, <4>2, LostStep
    <3> QED BY <3>5, <3>6
  <2>12. ASSUME NEW f \in Flows, CallbackStore(f) PROVE Alone' /\ Newest'
    <3>1. /\ flow[f] = "store" /\ vault' = flowTok[f] /\ flow' = [flow EXCEPT ![f] = "done"]
          /\ UNCHANGED <<pc, issuedTokens, lost>>
      BY <2>12 DEF CallbackStore
    <3>2. (\A g \in Flows : g # f => flow'[g] = flow[g]) /\ flow'[f] # "store" BY <2>t, <3>1
    <3>3. Alone' /\ (\A r \in Reqs : pc[r] = "idle") /\ \A g \in Flows : g # f => flow[g] # "store"
      BY <2>1, <3>1, <3>2, FlowStep DEF FlowEnded
    <3>4. ~Saving' BY <3>1, <3>2, <3>3 DEF Saving
    <3>5. vault'.acc = issuedTokens /\ issuedTokens \notin lost BY <2>1, <3>1 DEF Newest, Fresh
    <3> QED BY <2>1, <3>1, <3>3, <3>4, <3>5, SavedStep
  <2>13. CASE UNCHANGED <<vault, pc, tok, flow, flowTok, issuedTokens, lost>>
    BY <2>1, <2>13 DEF Alone, Newest, InVault, Fresh, Saving
  <2>14. ASSUME NEW n \in 1..MaxTokens, Expire(n) \/ Withdraw(n) \/ Revoke(n)
         PROVE UNCHANGED <<vault, pc, tok, flow, flowTok, issuedTokens, lost>>
    BY <2>14 DEF Expire, Withdraw, Revoke
  <2>15. CASE IdleOut BY <2>13, <2>15 DEF IdleOut
  <2>16. CASE UNCHANGED vaultVars BY <2>13, <2>16 DEF vaultVars
  <2> QED
    BY <2>3, <2>4, <2>5, <2>6, <2>7, <2>8, <2>9, <2>10, <2>11, <2>12, <2>13, <2>14, <2>15, <2>16 DEF VaultNext
<1> QED
  BY VaultTypeCorrect, <1>1, <1>2, PTL DEF VaultSpec

\* While turns and authorisations do not overlap, the vault holds between them
\* the newest token that no turn and no callback was cut short with.
THEOREM NoSpentToken == VaultSpec => []VaultIsLatest
<1>1. Apart => VaultIsLatest
  <2> SUFFICES ASSUME Apart, apart, Quiet, vault # NoToken
               PROVE  /\ vault.acc \notin lost
                      /\ \A n \in 1..issuedTokens : n > vault.acc => n \in lost
    BY Zenon DEF VaultIsLatest
  <2>1. Newest BY Zenon DEF Apart
  <2>2. ~Saving BY DEF Quiet, Saving
  <2> QED BY <2>1, <2>2 DEF Newest, InVault
<1> QED
  BY ApartInvariant, <1>1, PTL
------------------------------------------------------------------------------
\* What the provider and a flow know of the registered client while nothing
\* met: every refresh token it honours belongs to the cached client, and a
\* flow registers one only when none is cached.
Owned ==
  /\ \A n \in refreshable : clientRow # NoNumber /\ owner[n] = clientRow
  /\ \A f \in Flows : flow[f] = "register" => clientRow = NoNumber
  /\ \A f \in Flows : flow[f] = "browser" => flowClient[f] # NoNumber

\* Nobody is about to save an empty pair.
Filled ==
  /\ \A r \in Reqs : pc[r] = "store" => tok[r] # NoToken
  /\ \A f \in Flows : flow[f] = "store" => flowTok[f] # NoToken

\* The turn under way works on the row, and gives up only a dead one.
InHand ==
  \A r \in Reqs :
    /\ pc[r] \in {"check", "refresh", "connect"} => tok[r] = vault
    /\ pc[r] = "delete" => vault.ref \notin refreshable

Custody == Filled /\ (apart => Owned /\ (faults = 0 => InHand))

\* While the turns and authorisations do not overlap, a step that `apart` does
\* not record leaves it alone.
LEMMA ApartStep == [VaultNext]_vaultVars /\ apart' => apart
<1>1. [VaultNext]_vaultVars => apart' = apart \/ apart' = (apart /\ Quiet)
  BY DEF VaultNext, vaultVars, provider, turnVars, flowVars, ReadVault, Check, Refresh, RefreshFails, Store, Connect, Rejected,
         ConnectError, ReconnectFails, Delete, DeleteFails, Drop, Connecting, RegisterClient, ExchangeCode, CallbackMismatch,
         CallbackStore, FlowFails, FlowDrop, Expire, Withdraw, Revoke, IdleOut
<1> QED BY <1>1, Zenon

\* Where every turn and every authorisation stands when one of them moves.
LEMMA OneMoves ==
  ASSUME VaultTypes, Alone
  PROVE  /\ \A r \in Reqs : pc[r] # "idle" =>
              /\ \A q \in Reqs : q # r => pc[q] = "idle"
              /\ \A f \in Flows : flow[f] \in FlowEnded
         /\ \A f \in Flows : flow[f] \notin FlowEnded =>
              /\ \A r \in Reqs : pc[r] = "idle"
              /\ \A g \in Flows : g # f => flow[g] \in FlowEnded
BY Zenon DEF Alone

\* A refresh token the provider honours belongs to the cached client.
LEMMA OwnedStep ==
  ASSUME Discover, VaultTypes, Alone, Owned, [VaultNext]_vaultVars
  PROVE  Owned'
<1> USE McpTokensAssumption DEF NoNumber, turnVars, flowVars, provider, Goto, FlowTo
<1>0. /\ owner \in [1..MaxTokens -> Nat] /\ refreshable \subseteq 1..MaxTokens
      /\ clientRow \in Nat /\ clients \in Nat /\ issuedTokens \in 0..MaxTokens
      /\ flow \in [Flows -> {"idle", "register", "browser", "store", "done", "failed", "refused"}]
      /\ flowClient \in [Flows -> Nat]
  BY DEF VaultTypes, RowTypes, FlowTypes, IssuedTypes, SetTypes
<1>1. ASSUME UNCHANGED <<clientRow, owner, flow, flowClient>>, refreshable' \subseteq refreshable
      PROVE  Owned'
  BY <1>1 DEF Owned
<1>2. ASSUME NEW r \in Reqs,
             \/ ReadVault(r) \/ Check(r) \/ RefreshFails(r) \/ Store(r) \/ Connect(r)
             \/ Rejected(r) \/ ConnectError(r) \/ ReconnectFails(r) \/ Delete(r) \/ DeleteFails(r) \/ Drop(r)
      PROVE  Owned'
  <2>1. UNCHANGED <<clientRow, owner, flow, flowClient, refreshable>>
    BY <1>2 DEF ReadVault, Check, RefreshFails, Store, Connect, Rejected, ConnectError,
                ReconnectFails, Delete, DeleteFails, Drop
  <2> QED BY <1>1, <2>1
<1>3. ASSUME NEW r \in Reqs, Refresh(r) PROVE Owned'
  <2>1. /\ clientRow # NoNumber /\ owner' = [owner EXCEPT ![issuedTokens + 1] = clientRow]
        /\ refreshable' \subseteq refreshable \cup {issuedTokens + 1}
        /\ UNCHANGED <<clientRow, flow, flowClient>>
    BY <1>3 DEF Refresh, Honoured
  <2>2. issuedTokens + 1 \in 1..MaxTokens BY <1>0, <1>3 DEF Refresh
  <2>3. ASSUME NEW n \in refreshable' PROVE clientRow' # NoNumber /\ owner'[n] = clientRow'
    BY <1>0, <2>1, <2>2, <2>3 DEF Owned
  <2> QED BY <2>1, <2>3 DEF Owned
<1>4. ASSUME NEW f \in Flows, Connecting(f) PROVE Owned'
  <2>1. UNCHANGED <<clientRow, owner, refreshable>> BY <1>4 DEF Connecting
  <2>2. \A g \in Flows : g # f => flow'[g] = flow[g] /\ flowClient'[g] = flowClient[g]
    BY <1>0, <1>4 DEF Connecting
  <2>3. /\ flow'[f] = "register" => clientRow = NoNumber
        /\ flow'[f] = "browser" => flowClient'[f] = clientRow /\ clientRow # NoNumber
    BY <1>0, <1>4 DEF Connecting
  <2> QED BY <2>1, <2>2, <2>3 DEF Owned
<1>5. ASSUME NEW f \in Flows, RegisterClient(f) PROVE Owned'
  <2>1. flow[f] = "register" /\ clientRow = NoNumber BY <1>5 DEF RegisterClient, Owned
  <2>2. refreshable' = {} BY <1>5, <2>1 DEF RegisterClient, Owned
  <2>3. \A g \in Flows : g # f => flow'[g] \in FlowEnded
    <3>1. \A g \in Flows : g # f => flow'[g] = flow[g] BY <1>0, <1>5 DEF RegisterClient
    <3> QED BY <2>1, <3>1, OneMoves DEF FlowEnded
  <2>4. flow'[f] = "browser" /\ flowClient'[f] = clients + 1
    BY <1>0, <1>5 DEF RegisterClient
  <2>5. \A g \in Flows : flow'[g] # "register" /\ (flow'[g] = "browser" => g = f)
    BY <2>3, <2>4 DEF FlowEnded
  <2>6. clients + 1 # NoNumber BY <1>0
  <2> QED BY <2>2, <2>4, <2>5, <2>6, Zenon DEF Owned
<1>6. ASSUME NEW f \in Flows, ExchangeCode(f) PROVE Owned'
  <2>1. /\ clientRow # NoNumber /\ owner' = [owner EXCEPT ![issuedTokens + 1] = clientRow]
        /\ refreshable' \subseteq refreshable \cup {issuedTokens + 1}
        /\ UNCHANGED <<clientRow, flowClient>> /\ flow' = [flow EXCEPT ![f] = "store"]
    BY <1>6 DEF ExchangeCode, Owned
  <2>2. issuedTokens + 1 \in 1..MaxTokens BY <1>0, <1>6 DEF ExchangeCode
  <2>3. ASSUME NEW n \in refreshable' PROVE clientRow' # NoNumber /\ owner'[n] = clientRow'
    BY <1>0, <2>1, <2>2, <2>3 DEF Owned
  <2> QED BY <1>0, <2>1, <2>3 DEF Owned
<1>7. ASSUME NEW f \in Flows, CallbackMismatch(f) \/ CallbackStore(f) \/ FlowFails(f) \/ FlowDrop(f)
      PROVE  Owned'
  <2>1. UNCHANGED <<clientRow, owner, refreshable, flowClient>>
    BY <1>7 DEF CallbackMismatch, CallbackStore, FlowFails, FlowDrop
  <2>2. \A g \in Flows : flow'[g] \in {"register", "browser"} => flow'[g] = flow[g]
    BY <1>0, <1>7 DEF CallbackMismatch, CallbackStore, FlowFails, FlowDrop
  <2> QED BY <2>1, <2>2 DEF Owned
<1>8. ASSUME NEW n \in 1..MaxTokens, Expire(n) \/ Withdraw(n) \/ Revoke(n) PROVE Owned'
  BY <1>1, <1>8 DEF Expire, Withdraw, Revoke
<1>9. CASE IdleOut \/ UNCHANGED vaultVars
  BY <1>1, <1>9 DEF IdleOut, vaultVars
<1> QED BY <1>2, <1>3, <1>4, <1>5, <1>6, <1>7, <1>8, <1>9 DEF VaultNext

\* A pair that is about to be saved holds a token.
LEMMA FilledStep == VaultTypes /\ Filled /\ [VaultNext]_vaultVars => Filled'
<1> SUFFICES ASSUME VaultTypes, Filled, [VaultNext]_vaultVars PROVE Filled'
  OBVIOUS
<1> USE McpTokensAssumption DEF NoNumber, NoToken, turnVars, flowVars, provider, Goto, FlowTo
<1>0. /\ pc \in [Reqs -> {"idle", "check", "refresh", "store", "connect", "reconnect", "delete", "giveUp"}]
      /\ tok \in [Reqs -> Token] /\ flowTok \in [Flows -> Token] /\ issuedTokens \in 0..MaxTokens
      /\ flow \in [Flows -> {"idle", "register", "browser", "store", "done", "failed", "refused"}]
  BY DEF VaultTypes, TurnTypes, FlowTypes, IssuedTypes
<1>1. ASSUME NEW r \in Reqs,
             \/ ReadVault(r) \/ Check(r) \/ RefreshFails(r) \/ Store(r) \/ Connect(r)
             \/ Rejected(r) \/ ConnectError(r) \/ ReconnectFails(r) \/ Delete(r) \/ DeleteFails(r) \/ Drop(r)
      PROVE  Filled'
  <2>1. UNCHANGED <<flow, flowTok>> /\ \E where \in {"check", "refresh", "connect", "reconnect", "delete", "giveUp", "idle"} :
          Goto(r, where)
    BY <1>1 DEF ReadVault, Check, RefreshFails, Store, Connect, Rejected, ConnectError,
                ReconnectFails, Delete, DeleteFails, Drop, Finish
  <2>2. \A q \in Reqs : q # r => tok'[q] = tok[q]
    <3>1. tok' = tok \/ \E pair \in {vault, NoToken} : tok' = [tok EXCEPT ![r] = pair]
      BY <1>1 DEF ReadVault, Check, RefreshFails, Store, Connect, Rejected, ConnectError,
                  ReconnectFails, Delete, DeleteFails, Drop, Finish
    <3> QED BY <1>0, <3>1
  <2> QED BY <1>0, <2>1, <2>2 DEF Filled
<1>2. ASSUME NEW r \in Reqs, Refresh(r) PROVE Filled'
  <2>1. /\ tok'[r].acc = issuedTokens + 1 /\ pc' = [pc EXCEPT ![r] = "store"]
        /\ \A q \in Reqs : q # r => tok'[q] = tok[q]
        /\ UNCHANGED <<flow, flowTok>>
    BY <1>0, <1>2 DEF Refresh
  <2>2. tok'[r] # NoToken BY <1>0, <2>1
  <2> QED BY <1>0, <2>1, <2>2 DEF Filled
<1>3. ASSUME NEW f \in Flows, ExchangeCode(f) PROVE Filled'
  <2>1. /\ flowTok'[f].acc = issuedTokens + 1 /\ flow' = [flow EXCEPT ![f] = "store"]
        /\ \A g \in Flows : g # f => flowTok'[g] = flowTok[g]
        /\ UNCHANGED <<pc, tok>>
    BY <1>0, <1>3 DEF ExchangeCode
  <2>2. flowTok'[f] # NoToken BY <1>0, <2>1
  <2> QED BY <1>0, <2>1, <2>2 DEF Filled
<1>4. ASSUME NEW f \in Flows,
             \/ Connecting(f) \/ RegisterClient(f) \/ CallbackMismatch(f) \/ CallbackStore(f)
             \/ FlowFails(f) \/ FlowDrop(f)
      PROVE  Filled'
  <2>1. UNCHANGED <<pc, tok, flowTok>> /\ \E where \in {"register", "browser", "refused", "done", "failed"} : FlowTo(f, where)
    BY <1>4 DEF Connecting, RegisterClient, CallbackMismatch, CallbackStore, FlowFails, FlowDrop
  <2> QED BY <1>0, <2>1 DEF Filled
<1>5. ASSUME NEW n \in 1..MaxTokens, Expire(n) \/ Withdraw(n) \/ Revoke(n) PROVE Filled'
  BY <1>5 DEF Expire, Withdraw, Revoke, Filled
<1>6. CASE IdleOut \/ UNCHANGED vaultVars
  BY <1>6 DEF IdleOut, vaultVars, Filled
<1> QED BY <1>1, <1>2, <1>3, <1>4, <1>5, <1>6 DEF VaultNext

\* The turn under way works on the row.
LEMMA InHandStep ==
  ASSUME VaultTypes, Alone, Owned, Filled, InHand, faults = 0, faults' = 0, [VaultNext]_vaultVars
  PROVE  InHand'
<1> USE McpTokensAssumption DEF NoNumber, NoToken, turnVars, flowVars, provider, Goto, FlowTo
<1>0. /\ pc \in [Reqs -> {"idle", "check", "refresh", "store", "connect", "reconnect", "delete", "giveUp"}]
      /\ tok \in [Reqs -> Token]
      /\ flow \in [Flows -> {"idle", "register", "browser", "store", "done", "failed", "refused"}]
  BY DEF VaultTypes, TurnTypes, FlowTypes
<1>1. ASSUME UNCHANGED <<vault, pc, tok>>, refreshable' \subseteq refreshable
      PROVE  InHand'
  BY <1>1 DEF InHand
<1>2. ASSUME \A q \in Reqs : pc'[q] = "idle" PROVE InHand'
  BY <1>2 DEF InHand
<1>3. ASSUME NEW r \in Reqs, pc[r] # "idle",
             \A q \in Reqs : q # r => pc'[q] = pc[q],
             pc'[r] \in {"check", "refresh", "connect"} => tok'[r] = vault',
             pc'[r] = "delete" => vault'.ref \notin refreshable'
      PROVE  InHand'
  <2>1. \A q \in Reqs : q # r => pc'[q] = "idle" BY <1>3, OneMoves
  <2> QED BY <1>3, <2>1 DEF InHand
<1>4. ASSUME NEW r \in Reqs, ReadVault(r) PROVE InHand'
  <2>1. UNCHANGED <<vault, refreshable>> /\ tok' = [tok EXCEPT ![r] = vault]
        /\ pc' = [pc EXCEPT ![r] = "check"]
    BY <1>4 DEF ReadVault
  <2> QED BY <1>0, <2>1 DEF InHand
<1>5. ASSUME NEW r \in Reqs, Check(r) \/ Rejected(r) PROVE InHand'
  <2>1. /\ UNCHANGED <<vault, refreshable, tok>> /\ tok[r] = vault /\ pc[r] # "idle"
        /\ pc' = [pc EXCEPT ![r] = "refresh"] \/ pc' = [pc EXCEPT ![r] = "connect"]
    BY <1>5 DEF Check, Rejected, InHand
  <2> QED BY <1>0, <1>3, <2>1
<1>6. ASSUME NEW r \in Reqs, Refresh(r) PROVE InHand'
  <2>1. pc[r] # "idle" /\ pc' = [pc EXCEPT ![r] = "store"] BY <1>6 DEF Refresh
  <2> QED BY <1>0, <1>3, <2>1
<1>7. ASSUME NEW r \in Reqs, RefreshFails(r) PROVE InHand'
  <2>1. /\ pc[r] = "refresh" /\ ~Honoured(r) /\ pc' = [pc EXCEPT ![r] = "delete"]
        /\ UNCHANGED <<vault, refreshable>>
    BY <1>7 DEF RefreshFails, Fault
  <2>2. tok[r] = vault BY <2>1 DEF InHand
  <2>3. vault.ref \notin refreshable BY <2>1, <2>2 DEF Honoured, Owned
  <2> QED BY <1>0, <1>3, <2>1, <2>3
<1>8. ASSUME NEW r \in Reqs, Store(r) PROVE InHand'
  <2>1. /\ pc[r] = "store" /\ vault' = tok[r] /\ tok' = tok
        /\ \E where \in {"reconnect", "connect"} : pc' = [pc EXCEPT ![r] = where]
    BY <1>8 DEF Store
  <2> QED BY <1>0, <1>3, <2>1
<1>9. ASSUME NEW r \in Reqs, Connect(r) \/ ConnectError(r) \/ Delete(r) \/ DeleteFails(r) \/ Drop(r) PROVE InHand'
  <2>1. pc[r] # "idle" /\ pc' = [pc EXCEPT ![r] = "idle"]
    BY <1>9 DEF Connect, ConnectError, Delete, DeleteFails, Drop, Finish
  <2> QED BY <1>0, <1>3, <2>1
<1>10. ASSUME NEW r \in Reqs, ReconnectFails(r) PROVE InHand'
  <2>1. pc[r] # "idle" /\ pc' = [pc EXCEPT ![r] = "giveUp"] BY <1>10 DEF ReconnectFails
  <2> QED BY <1>0, <1>3, <2>1
<1>11. ASSUME NEW f \in Flows, ExchangeCode(f) \/ CallbackStore(f) PROVE InHand'
  <2>1. flow[f] \notin FlowEnded /\ pc' = pc
    BY <1>11 DEF ExchangeCode, CallbackStore, FlowEnded
  <2> QED BY <1>2, <2>1, OneMoves
<1>12. ASSUME NEW f \in Flows,
              Connecting(f) \/ RegisterClient(f) \/ CallbackMismatch(f) \/ FlowFails(f) \/ FlowDrop(f)
       PROVE  InHand'
  BY <1>1, <1>12 DEF Connecting, RegisterClient, CallbackMismatch, FlowFails, FlowDrop
<1>13. ASSUME NEW n \in 1..MaxTokens, Expire(n) \/ Withdraw(n) \/ Revoke(n) PROVE InHand'
  BY <1>1, <1>13 DEF Expire, Withdraw, Revoke
<1>14. CASE IdleOut \/ UNCHANGED vaultVars
  BY <1>1, <1>14 DEF IdleOut, vaultVars
<1> QED BY <1>4, <1>5, <1>6, <1>7, <1>8, <1>9, <1>10, <1>11, <1>12, <1>13, <1>14 DEF VaultNext

\* A call that fails on the network is counted.
LEMMA FaultsGrow == VaultTypes /\ [VaultNext]_vaultVars /\ faults' = 0 => faults = 0
<1> SUFFICES ASSUME VaultTypes, [VaultNext]_vaultVars PROVE faults' = faults \/ faults' = faults + 1
  BY DEF VaultTypes, CountTypes
<1> QED
  BY DEF VaultNext, vaultVars, turnVars, flowVars, provider, Fault, ReadVault, Check, Refresh, RefreshFails, Store, Connect, Rejected,
         ConnectError, ReconnectFails, Delete, DeleteFails, Drop, Connecting, RegisterClient, ExchangeCode, CallbackMismatch,
         CallbackStore, FlowFails, FlowDrop, Expire, Withdraw, Revoke, IdleOut

\* A step that empties the row deletes a dead grant.
LEMMA DeadStep ==
  ASSUME VaultTypes, Alone, Filled, InHand, [VaultNext]_vaultVars, vault # NoToken, vault' = NoToken
  PROVE  vault.ref \notin refreshable \/ \E r \in Reqs : pc[r] = "giveUp"
<1> USE DEF turnVars, flowVars, provider
<1>1. ASSUME NEW r \in Reqs, Delete(r)
      PROVE  vault.ref \notin refreshable \/ \E q \in Reqs : pc[q] = "giveUp"
  BY <1>1 DEF Delete, InHand
<1>2. ASSUME NEW r \in Reqs, Store(r) PROVE FALSE
  BY <1>2 DEF Store, Filled
<1>3. ASSUME NEW f \in Flows, CallbackStore(f) PROVE FALSE
  BY <1>3 DEF CallbackStore, Filled
<1>4. \/ \E r \in Reqs : Delete(r) \/ Store(r)
      \/ \E f \in Flows : CallbackStore(f)
      \/ UNCHANGED vault
  BY DEF VaultNext, vaultVars, ReadVault, Check, Refresh, RefreshFails, Connect, Rejected, ConnectError,
         ReconnectFails, DeleteFails, Drop, Connecting, RegisterClient, ExchangeCode, CallbackMismatch, FlowFails, FlowDrop, Expire,
         Withdraw, Revoke, IdleOut
<1> QED BY <1>1, <1>2, <1>3, <1>4

\* Under dynamic registration, while nobody meets and no call fails, a row is
\* deleted only when its refresh token is dead or its fresh token was refused.
\* (With `oauth: static` the client is never cached: every refresh then fails,
\* and the row is deleted with its grant alive.)
THEOREM OnlyDeadDeleted == ASSUME Discover PROVE VaultSpec => DeletesOnlyDead
<1>1. VaultInit => Custody
  BY DEF VaultInit, Custody, Owned, Filled, InHand
<1>2. VaultTypes /\ Apart /\ Custody /\ [VaultNext]_vaultVars => Custody'
  <2> SUFFICES ASSUME VaultTypes, Apart, Custody, [VaultNext]_vaultVars PROVE Custody'
    OBVIOUS
  <2>1. Filled' BY FilledStep DEF Custody
  <2>2. ASSUME apart' PROVE Owned' /\ (faults' = 0 => InHand')
    <3>1. Alone /\ Owned /\ Filled /\ (faults = 0 => InHand)
      BY <2>2, ApartStep DEF Apart, Custody
    <3>2. Owned' BY <3>1, OwnedStep
    <3>3. ASSUME faults' = 0 PROVE InHand'
      BY <3>1, <3>3, FaultsGrow, InHandStep
    <3> QED BY <3>2, <3>3
  <2> QED BY <2>1, <2>2 DEF Custody
<1>3. VaultTypes /\ Apart /\ Custody /\ [VaultNext]_vaultVars =>
        (apart /\ faults = 0 /\ vault # NoToken /\ vault' = NoToken =>
           vault.ref \notin refreshable \/ \E r \in Reqs : pc[r] = "giveUp")
  BY DeadStep DEF Apart, Custody
<1> QED
  BY VaultTypeCorrect, ApartInvariant, <1>1, <1>2, <1>3, PTL DEF VaultSpec, DeletesOnlyDead

-----------------------------------------------------------------------------
(***************************************************************************)
(* The event-stream client, for streams of any length over any messages.   *)
(* The argument: the states of the worker's loop are a recursive function  *)
(* of the happenings, which Recursion shows to exist; after each of them   *)
(* the worker runs unless one was fatal, and what it has handed over are   *)
(* the events so far that count, in turn.                                  *)
(***************************************************************************)

\* A set of naturals has a least one.
LEMMA Least ==
  ASSUME NEW N \in SUBSET Nat, N # {}
  PROVE  \E n \in N : \A m \in N : n <= m
<1> DEFINE R == OpToRel(<, Nat)
<1>1. IsWellFoundedOn(R, Nat) BY NatLessThanWellFounded
<1>2. R = {p \in Nat \X Nat : p[1] < p[2]} BY DEF OpToRel
<1> HIDE DEF R
<1>3. PICK n \in N : \A m \in N : <<m, n>> \notin R BY <1>1, WFMin
<1>4. ASSUME NEW m \in N PROVE n <= m
  <2>1. <<m, n>> \in Nat \X Nat OBVIOUS
  <2> QED BY <1>2, <1>3, <2>1
<1> QED BY <1>3, <1>4

\* The next value of a recursion over 0 .. n.
NextOf(base, step, g, k) == IF k = 0 THEN base ELSE step[<<k, g[k - 1]>>]

Solvable(V, n, base, step) ==
  \E g \in [0 .. n -> V] : \A k \in 0 .. n : g[k] = NextOf(base, step, g, k)

\* A recursion over naturals has a solution, and its values are of its type.
LEMMA Recursion ==
  ASSUME NEW V, NEW n \in Nat, NEW base \in V, NEW step \in [(1 .. n) \X V -> V]
  PROVE  Solvable(V, n, base, step)
<1> DEFINE Fine(m, g) == /\ g \in [0 .. n -> V]
                         /\ \A k \in 0 .. n : k <= m => g[k] = NextOf(base, step, g, k)
           Bad == {m \in Nat : \A g : ~Fine(m, g)}
<1>1. Bad = {}
  <2> SUFFICES ASSUME Bad # {} PROVE FALSE OBVIOUS
  <2>1. PICK m \in Bad : \A l \in Bad : m <= l
    <3>1. Bad \in SUBSET Nat OBVIOUS
    <3> HIDE DEF Bad
    <3> QED BY <3>1, Least
  <2>2. m \in Nat /\ (m = 0 \/ (m - 1 \in Nat /\ \E g : Fine(m - 1, g)))
    <3> HIDE DEF Fine
    <3>1. m \in Nat OBVIOUS
    <3>2. m = 0 \/ (m - 1 \in Nat /\ ~(m <= m - 1)) BY <3>1
    <3>3. m - 1 \notin Bad \/ m <= m - 1 BY <2>1
    <3> QED BY <3>1, <3>2, <3>3
  <2>3. CASE m = 0
    <3> DEFINE g == [k \in 0 .. n |-> base]
    <3>1. Fine(0, g) BY DEF NextOf
    <3> QED BY <2>3, <3>1
  <2>4. CASE m # 0
    <3>1. PICK g : Fine(m - 1, g) BY <2>2, <2>4
    <3> DEFINE h == [k \in 0 .. n |-> NextOf(base, step, g, k)]
    <3>2. ASSUME NEW k \in 0 .. n PROVE NextOf(base, step, g, k) \in V
      <4>1. CASE k = 0 BY <4>1 DEF NextOf
      <4>2. CASE k # 0
        <5>1. k - 1 \in 0 .. n /\ k \in 1 .. n BY <3>2, <4>2
        <5>2. <<k, g[k - 1]>> \in (1 .. n) \X V BY <3>1, <5>1
        <5>3. step[<<k, g[k - 1]>>] \in V BY <5>2
        <5> QED BY <4>2, <5>3 DEF NextOf
      <4> QED BY <4>1, <4>2
    <3>3. h \in [0 .. n -> V] BY <3>2
    <3>4. ASSUME NEW k \in 0 .. n, k <= m PROVE h[k] = NextOf(base, step, h, k)
      <4>1. CASE k = 0 BY <4>1 DEF NextOf
      <4>2. CASE k # 0
        <5>1. k - 1 \in 0 .. n /\ k - 1 <= m - 1 BY <2>2, <3>4, <4>2
        <5>2. g[k - 1] = h[k - 1] BY <3>1, <5>1
        <5> QED BY <3>4, <4>2, <5>2 DEF NextOf
      <4> QED BY <4>1, <4>2
    <3>5. Fine(m, h) BY <3>3, <3>4
    <3> QED BY <3>5
  <2> QED BY <2>3, <2>4
<1>2. PICK g : Fine(n, g) BY <1>1
<1> QED BY <1>2 DEF Solvable

Onward(n, Good) == 0 \in Good /\ \A k \in 1 .. n : k - 1 \in Good => k \in Good

\* What holds at 0 and passes from each place to the next holds everywhere.
LEMMA Everywhere ==
  ASSUME NEW n \in Nat, NEW Good, Onward(n, Good)
  PROVE  \A k \in 0 .. n : k \in Good
<1> USE DEF Onward
<1> DEFINE Bad == {k \in 0 .. n : k \notin Good}
<1>1. Bad = {}
  <2> SUFFICES ASSUME Bad # {} PROVE FALSE OBVIOUS
  <2>1. PICK k \in Bad : \A m \in Bad : k <= m
    <3>1. Bad \in SUBSET Nat OBVIOUS
    <3> HIDE DEF Bad
    <3> QED BY <3>1, Least
  <2>2. k # 0 BY <2>1
  <2>3. k \in 1 .. n /\ k - 1 \in 0 .. n /\ k - 1 \notin Bad BY <2>1, <2>2
  <2> QED BY <2>1, <2>3
<1> QED BY <1>1

\* The states of a worker over messages of H.
Carried(H)  == {h.data : h \in H}
Ended == {"Serialize", "error", "end", "cancel", "handler"}
WorkerStates(H) == [quit : {""} \cup Ended, delivered : Seq(Carried(H)), answered : Seq(Carried(H))]

LEMMA Appended ==
  ASSUME NEW D, NEW seq \in Seq(D), NEW x \in D
  PROVE  Append(seq, x) \in Seq(D)
OBVIOUS

LEMMA StepTyped ==
  ASSUME NEW H, NEW w \in WorkerStates(H), NEW h \in H
  PROVE  Step(w, h) \in WorkerStates(H)
<1>1. h.data \in Carried(H) BY DEF Carried
<1>2. \A q \in Ended : [w EXCEPT !.quit = q] \in WorkerStates(H) BY DEF WorkerStates
<1>3. /\ w.delivered \in Seq(Carried(H)) /\ w.answered \in Seq(Carried(H))
      /\ w = [quit |-> w.quit, delivered |-> w.delivered, answered |-> w.answered]
      /\ w.quit \in {""} \cup Ended
  BY DEF WorkerStates
<1>4. Append(w.delivered, h.data) \in Seq(Carried(H)) /\ Append(w.answered, h.data) \in Seq(Carried(H))
  BY <1>1, <1>3, Appended
<1>5. [w EXCEPT !.delivered = Append(w.delivered, h.data)] \in WorkerStates(H)
  BY <1>3, <1>4 DEF WorkerStates
<1>6. [w EXCEPT !.answered = Append(w.answered, h.data)] \in WorkerStates(H)
  BY <1>3, <1>4 DEF WorkerStates
<1>7. "Serialize" \in Ended /\ {"error", "end", "cancel", "handler"} \subseteq Ended BY DEF Ended
<1> HIDE DEF WorkerStates, Ended
<1>8. OnEvent(w, h.data) \in WorkerStates(H) BY <1>2, <1>5, <1>7 DEF OnEvent
<1>9. OnSend(w, h.data) \in WorkerStates(H) BY <1>6 DEF OnSend
<1>10. h.kind \in {"error", "end", "cancel", "handler"} => [w EXCEPT !.quit = h.kind] \in WorkerStates(H)
  BY <1>2, <1>7
<1> HIDE DEF OnEvent, OnSend
<1> QED BY <1>8, <1>9, <1>10 DEF Step

\* The loop passes through one state after each happening.
LEMMA Loops ==
  ASSUME NEW H, NEW q \in Seq(H)
  PROVE  \E a \in [0 .. Len(q) -> WorkerStates(H)] :
           /\ Run(q) = a[Len(q)] /\ a[0] = Running
           /\ \A k \in 1 .. Len(q) : a[k] = Step(a[k - 1], q[k])
<1>1. PICK n \in Nat : n = Len(q) OBVIOUS
<1> DEFINE V == WorkerStates(H)
           step == [p \in (1 .. n) \X V |-> Step(p[2], q[p[1]])]
<1>2. \A k \in 1 .. n : q[k] \in H BY <1>1
<1>3. step \in [(1 .. n) \X V -> V]
  <2>1. \A p \in (1 .. n) \X V : p[1] \in 1 .. n /\ p[2] \in V OBVIOUS
  <2>2. \A k \in 1 .. n, w \in V : Step(w, q[k]) \in V BY <1>2, StepTyped
  <2> HIDE DEF V
  <2> QED BY <2>1, <2>2
<1>4. \A k \in 1 .. n, w \in V : step[<<k, w>>] = Step(w, q[k])
  <2> HIDE DEF V
  <2> QED OBVIOUS
<1>5. Running \in V
  <2>1. << >> \in Seq(Carried(H)) OBVIOUS
  <2> QED BY <2>1 DEF Running, WorkerStates
<1> HIDE DEF step, V
<1>6. PICK g \in [0 .. n -> V] : \A k \in 0 .. n : g[k] = NextOf(Running, step, g, k)
  <2>1. \A h \in [(1 .. n) \X V -> V] : Solvable(V, n, Running, h) BY <1>5, Recursion
  <2>2. Solvable(V, n, Running, step) BY <1>3, <2>1
  <2> QED BY <2>2 DEF Solvable
<1>7. \A k \in 1 .. n : g[k] = Step(g[k - 1], q[k])
  <2> SUFFICES ASSUME NEW k \in 1 .. n PROVE g[k] = Step(g[k - 1], q[k]) OBVIOUS
  <2>1. k \in 0 .. n /\ k # 0 /\ k - 1 \in 0 .. n BY <1>1
  <2>2. g[k - 1] \in V BY <2>1
  <2>3. g[k] = step[<<k, g[k - 1]>>] BY <1>6, <2>1 DEF NextOf
  <2> QED BY <1>4, <2>2, <2>3
<1>8. g[0] = Running
  <2>1. 0 \in 0 .. n BY <1>1
  <2> QED BY <1>6, <2>1 DEF NextOf
<1> DEFINE Value(h, k) == IF k = 0 THEN Running ELSE Step(h[k - 1], q[k])
           after == CHOOSE h : h = [k \in 0 .. n |-> Value(h, k)]
<1>9. g = [k \in 0 .. n |-> Value(g, k)]
  <2>1. \A k \in 0 .. n : g[k] = Value(g, k)
    <3>1. \A k \in 0 .. n : k = 0 \/ k \in 1 .. n BY <1>1
    <3> QED BY <1>7, <1>8, <3>1
  <2> HIDE DEF Value
  <2>2. g = [k \in 0 .. n |-> g[k]] OBVIOUS
  <2>3. [k \in 0 .. n |-> g[k]] = [k \in 0 .. n |-> Value(g, k)] BY <2>1
  <2> QED BY <2>2, <2>3
<1>10. Run(q) = after[n] BY <1>1 DEF Run
<1>11. after = [k \in 0 .. n |-> Value(after, k)]
  <2> HIDE DEF Value
  <2> QED BY <1>9
<1> HIDE DEF after
<1>12. after[0] = Running
  <2>1. 0 \in 0 .. n BY <1>1
  <2> QED BY <1>11, <2>1
<1>13. \A k \in 1 .. n : after[k] = Step(after[k - 1], q[k])
  <2> SUFFICES ASSUME NEW k \in 1 .. n PROVE after[k] = Step(after[k - 1], q[k]) OBVIOUS
  <2>1. k \in 0 .. n /\ k # 0 BY <1>1
  <2>2. after[k] = Value(after, k) BY <1>11, <2>1
  <2> QED BY <2>1, <2>2
<1> HIDE DEF Value
<1>14. \A k \in 0 .. n : after[k] \in V
  <2> DEFINE Good == {k \in 0 .. n : after[k] \in V}
  <2>1. 0 \in Good BY <1>1, <1>5, <1>12
  <2>2. \A k \in 1 .. n : k - 1 \in Good => k \in Good
    <3> SUFFICES ASSUME NEW k \in 1 .. n, k - 1 \in Good PROVE k \in Good OBVIOUS
    <3>1. k \in 0 .. n BY <1>1
    <3>2. Step(after[k - 1], q[k]) \in V BY <1>2, StepTyped DEF V
    <3> QED BY <1>13, <3>1, <3>2
  <2> HIDE DEF Good
  <2>3. Onward(n, Good) BY <2>1, <2>2 DEF Onward
  <2>4. \A k \in 0 .. n : k \in Good BY <2>3, Everywhere
  <2> QED BY <2>4 DEF Good
<1> DEFINE a == [k \in 0 .. n |-> after[k]]
<1>15. a \in [0 .. n -> V] BY <1>14
<1>16. a[n] = after[n] /\ a[0] = after[0] BY <1>1
<1>17. \A k \in 1 .. n : a[k] = after[k] /\ a[k - 1] = after[k - 1]
  <2>1. \A k \in 1 .. n : k \in 0 .. n /\ k - 1 \in 0 .. n BY <1>1
  <2> QED BY <2>1
<1> HIDE DEF a
<1>18. \A k \in 1 .. n : a[k] = Step(a[k - 1], q[k]) BY <1>13, <1>17
<1> QED BY <1>1, <1>10, <1>12, <1>15, <1>16, <1>18 DEF V

\* What ends the worker, what counts for a kind of event from n on, and a
\* sequence that holds what counts up to k, in turn.
Ends(s, i) ==
  \/ s[i].kind \in {"error", "end", "cancel", "handler"}
  \/ s[i].kind = "message" /\ s[i].data = "junk"
Tells(s, n, kind, i) ==
  /\ s[i].kind = kind /\ (kind = "message" => s[i].data # "blank")
  /\ \A j \in (n + 1)..i : ~Ends(s, j)
Told(s, n, kind, k) == {i \in (n + 1)..k : Tells(s, n, kind, i)}
InTurn(s, n, kind, seq, k) ==
  /\ Len(seq) = Cardinality(Told(s, n, kind, k))
  /\ \A i \in (n + 1)..k : Tells(s, n, kind, i) => seq[Cardinality(Told(s, n, kind, i))] = s[i].data

LEMMA ToldFinite ==
  ASSUME NEW s, NEW n \in Nat, NEW kind, NEW k \in Nat
  PROVE  IsFiniteSet(Told(s, n, kind, k)) /\ Cardinality(Told(s, n, kind, k)) \in Nat
<1>1. IsFiniteSet((n + 1)..k) BY FS_Interval
<1>2. Told(s, n, kind, k) \in SUBSET ((n + 1)..k) BY DEF Told
<1>3. IsFiniteSet(Told(s, n, kind, k)) BY <1>1, <1>2, FS_Subset
<1> QED BY <1>3, FS_CardinalityType

\* One event more.
LEMMA InTurnGrows ==
  ASSUME NEW s, NEW n \in Nat, NEW kind, NEW k \in Nat, n <= k, NEW D, NEW seq \in Seq(D),
         s[k + 1].data \in D, InTurn(s, n, kind, seq, k)
  PROVE  /\ Tells(s, n, kind, k + 1) => InTurn(s, n, kind, Append(seq, s[k + 1].data), k + 1)
         /\ ~Tells(s, n, kind, k + 1) => InTurn(s, n, kind, seq, k + 1)
<1> DEFINE T(i) == Told(s, n, kind, i)
<1>1. \A i \in Nat : IsFiniteSet(T(i)) /\ Cardinality(T(i)) \in Nat BY ToldFinite
<1>2. T(k + 1) = IF Tells(s, n, kind, k + 1) THEN T(k) \cup {k + 1} ELSE T(k)
  <2>1. (n + 1)..(k + 1) = ((n + 1)..k) \cup {k + 1} OBVIOUS
  <2> QED BY <2>1 DEF Told
<1>3. k + 1 \notin T(k) BY DEF Told
<1>4. Cardinality(T(k) \cup {k + 1}) = Cardinality(T(k)) + 1
  <2>1. IsFiniteSet(T(k)) BY <1>1
  <2> HIDE DEF T
  <2> QED BY <1>3, <2>1, FS_AddElement
<1>5. ASSUME NEW i \in (n + 1)..k, Tells(s, n, kind, i) PROVE Cardinality(T(i)) \in 1..Len(seq)
  <2>1. i \in Nat /\ i \in T(i) /\ T(i) \in SUBSET T(k) BY <1>5 DEF Told
  <2>2. IsFiniteSet(T(i)) /\ IsFiniteSet(T(k)) /\ Cardinality(T(i)) \in Nat /\ Cardinality(T(k)) \in Nat
    BY <1>1, <2>1
  <2>3. Len(seq) = Cardinality(T(k)) BY DEF InTurn
  <2> HIDE DEF T
  <2>4. Cardinality(T(i)) # 0 BY <2>1, <2>2, FS_EmptySet
  <2>5. Cardinality(T(i)) <= Cardinality(T(k)) BY <2>1, <2>2, FS_Subset
  <2> QED BY <2>2, <2>3, <2>4, <2>5
<1>6. \A i \in (n + 1)..(k + 1) : i \in (n + 1)..k \/ i = k + 1 OBVIOUS
<1>7. /\ Len(seq) = Cardinality(T(k))
      /\ \A i \in (n + 1)..k : Tells(s, n, kind, i) => seq[Cardinality(T(i))] = s[i].data
  BY DEF InTurn
<1> HIDE DEF T
<1>8. CASE Tells(s, n, kind, k + 1)
  <2> DEFINE more == Append(seq, s[k + 1].data)
  <2>1. Cardinality(T(k + 1)) = Len(seq) + 1 BY <1>2, <1>4, <1>7, <1>8
  <2>2. /\ Len(more) = Len(seq) + 1 /\ more[Len(seq) + 1] = s[k + 1].data
        /\ \A l \in 1..Len(seq) : more[l] = seq[l]
    OBVIOUS
  <2> HIDE DEF more
  <2>3. ASSUME NEW i \in (n + 1)..(k + 1), Tells(s, n, kind, i)
        PROVE  more[Cardinality(T(i))] = s[i].data
    <3>1. CASE i \in (n + 1)..k BY <1>5, <1>7, <2>2, <2>3, <3>1
    <3>2. CASE i = k + 1 BY <2>1, <2>2, <3>2
    <3> QED BY <1>6, <3>1, <3>2
  <2>4. Len(more) = Cardinality(T(k + 1)) BY <2>1, <2>2
  <2>5. InTurn(s, n, kind, more, k + 1) BY <2>3, <2>4 DEF InTurn, T
  <2> QED BY <1>8, <2>5 DEF more
<1>9. CASE ~Tells(s, n, kind, k + 1)
  <2>1. Cardinality(T(k + 1)) = Len(seq) BY <1>2, <1>7, <1>9
  <2>2. \A i \in (n + 1)..(k + 1) : Tells(s, n, kind, i) => seq[Cardinality(T(i))] = s[i].data
    BY <1>6, <1>7, <1>9
  <2> QED BY <1>9, <2>1, <2>2 DEF InTurn, T
<1> QED BY <1>8, <1>9

\* What a worker has done after k happenings of s from n on.
Faithful(s, n, w, k) ==
  /\ w.quit = "" <=> \A i \in (n + 1)..(n + k) : ~Ends(s, i)
  /\ InTurn(s, n, "message", w.delivered, n + k)
  /\ InTurn(s, n, "send", w.answered, n + k)

LEMMA StepFaithful ==
  ASSUME NEW H, NEW s \in Seq(H), NEW n \in Nat, NEW k \in Nat, n + k + 1 \in DOMAIN s,
         NEW w \in WorkerStates(H), Faithful(s, n, w, k)
  PROVE  Faithful(s, n, Step(w, s[n + k + 1]), k + 1)
<1> DEFINE m == n + k
           h == s[m + 1]
           D == Carried(H)
<1>1. m \in Nat /\ n <= m /\ m + 1 = n + (k + 1) OBVIOUS
<1>2. h \in H /\ h.data \in D BY DEF Carried
<1>3. w.delivered \in Seq(D) /\ w.answered \in Seq(D) BY DEF WorkerStates
<1>4. /\ w.quit = "" <=> \A i \in (n + 1)..m : ~Ends(s, i)
      /\ InTurn(s, n, "message", w.delivered, m)
      /\ InTurn(s, n, "send", w.answered, m)
  BY DEF Faithful
<1>5. \A i : i \in (n + 1)..(m + 1) <=> i \in (n + 1)..m \/ i = m + 1 BY <1>1
<1> HIDE DEF m, D
<1> DEFINE Said == Tells(s, n, "message", m + 1)
           Asks == Tells(s, n, "send", m + 1)
           Over == \E i \in (n + 1)..(m + 1) : Ends(s, i)
           DeliveredOn == InTurn(s, n, "message", Append(w.delivered, h.data), m + 1)
           AnsweredOn  == InTurn(s, n, "send", Append(w.answered, h.data), m + 1)
           DeliveredAll == InTurn(s, n, "message", w.delivered, m + 1)
           AnsweredAll  == InTurn(s, n, "send", w.answered, m + 1)
<1>6. (Said => DeliveredOn) /\ (~Said => DeliveredAll) BY <1>1, <1>2, <1>3, <1>4, InTurnGrows
<1>7. (Asks => AnsweredOn) /\ (~Asks => AnsweredAll) BY <1>1, <1>2, <1>3, <1>4, InTurnGrows
<1>8. Over <=> w.quit # "" \/ Ends(s, m + 1) BY <1>4, <1>5
<1>9. /\ Said <=> h.kind = "message" /\ h.data # "blank" /\ ~Over
      /\ Asks <=> h.kind = "send" /\ ~Over
  BY DEF Tells
<1>10. Ends(s, m + 1) <=> \/ h.kind \in {"error", "end", "cancel", "handler"}
                          \/ h.kind = "message" /\ h.data = "junk"
  BY DEF Ends
<1> HIDE DEF Said, Asks, Over, DeliveredOn, AnsweredOn, DeliveredAll, AnsweredAll, h
<1> DEFINE v == Step(w, h)
<1>11. /\ v.quit = "" <=> ~Over
       /\ IF Said THEN v.delivered = Append(w.delivered, h.data) ELSE v.delivered = w.delivered
       /\ IF Asks THEN v.answered = Append(w.answered, h.data) ELSE v.answered = w.answered
  <2>1. CASE w.quit # "" BY <1>8, <1>9, <2>1 DEF Step
  <2>2. CASE w.quit = "" /\ h.kind = "message" BY <1>8, <1>9, <1>10, <2>2 DEF Step, OnEvent, WorkerStates
  <2>3. CASE w.quit = "" /\ h.kind = "send" BY <1>8, <1>9, <1>10, <2>3 DEF Step, OnSend, WorkerStates
  <2>4. CASE w.quit = "" /\ h.kind \in {"error", "end", "cancel", "handler"}
    BY <1>8, <1>9, <1>10, <2>4 DEF Step, WorkerStates
  <2>5. CASE w.quit = "" /\ h.kind \notin {"message", "send", "error", "end", "cancel", "handler"}
    BY <1>8, <1>9, <1>10, <2>5 DEF Step
  <2> QED BY <2>1, <2>2, <2>3, <2>4, <2>5
<1> HIDE DEF v
<1>12. InTurn(s, n, "message", v.delivered, m + 1) /\ InTurn(s, n, "send", v.answered, m + 1)
  BY <1>6, <1>7, <1>11 DEF DeliveredOn, DeliveredAll, AnsweredOn, AnsweredAll
<1>13. v.quit = "" <=> \A i \in (n + 1)..(m + 1) : ~Ends(s, i) BY <1>11 DEF Over
<1>14. Faithful(s, n, v, k + 1) BY <1>1, <1>12, <1>13 DEF Faithful
<1> QED BY <1>14 DEF v, h, m

\* connect opens at the first endpoint event, and the rest is the worker's.
LEMMA Opens ==
  ASSUME NEW H, NEW s \in Seq(H),
         NEW n \in DOMAIN s, s[n].kind \in {"endpoint", "error"},
         \A j \in 1..(n - 1) : s[j].kind \notin {"endpoint", "error"}
  PROVE  Handshake(TRUE, 200, s) =
           IF s[n].kind = "error" THEN [end |-> "Stream", rest |-> << >>]
           ELSE [end |-> ResolveEndpoint(s[n].data), rest |-> SubSeq(s, n + 1, Len(s))]
<1> DEFINE stops == {i \in DOMAIN s : s[i].kind \in {"endpoint", "error"}}
           first == CHOOSE i \in stops : \A j \in stops : i <= j
<1>1. DOMAIN s = 1..Len(s) /\ Len(s) \in Nat OBVIOUS
<1>2. n \in stops /\ \A j \in stops : n <= j
  <2>1. \A j \in stops : j \in Nat /\ n \in Nat /\ (j \notin 1..(n - 1)) /\ 1 <= j BY <1>1
  <2> QED BY <2>1
<1>3. first \in stops /\ \A j \in stops : first <= j
  <2> HIDE DEF stops
  <2> QED BY <1>2
<1>4. first = n
  <2>1. first \in Nat /\ n \in Nat BY <1>1, <1>3
  <2> HIDE DEF first
  <2> QED BY <1>2, <1>3, <2>1
<1>5. stops # {} BY <1>2
<1>6. Handshake(TRUE, 200, s) =
        IF s[first].kind = "error" THEN [end |-> "Stream", rest |-> << >>]
        ELSE [end |-> ResolveEndpoint(s[first].data), rest |-> SubSeq(s, first + 1, Len(s))]
  BY <1>5 DEF Handshake
<1> HIDE DEF first
<1> QED BY <1>4, <1>6

LEMMA NeverOpens ==
  ASSUME NEW H, NEW s \in Seq(H), \A j \in DOMAIN s : s[j].kind \notin {"endpoint", "error"}
  PROVE  Handshake(TRUE, 200, s).end = "MissingEndpointEvent"
<1> DEFINE stops == {i \in DOMAIN s : s[i].kind \in {"endpoint", "error"}}
<1>1. stops = {} OBVIOUS
<1> QED BY <1>1 DEF Handshake

\* The first event that decides a handshake.
LEMMA FirstStop ==
  ASSUME NEW H, NEW s \in Seq(H), NEW m \in DOMAIN s, s[m].kind \in {"endpoint", "error"}
  PROVE  \E n \in DOMAIN s : /\ s[n].kind \in {"endpoint", "error"}
                             /\ \A j \in 1..(n - 1) : s[j].kind \notin {"endpoint", "error"}
<1> DEFINE stops == {i \in DOMAIN s : s[i].kind \in {"endpoint", "error"}}
<1>1. DOMAIN s = 1..Len(s) /\ Len(s) \in Nat OBVIOUS
<1>2. stops \in SUBSET Nat /\ stops # {} BY <1>1
<1>3. PICK n \in stops : \A j \in stops : n <= j
  <2> HIDE DEF stops
  <2> QED BY <1>2, Least
<1>4. \A j \in 1..(n - 1) : j \in DOMAIN s /\ ~(n <= j) BY <1>1, <1>3
<1> QED BY <1>3, <1>4

\* The worker from the endpoint on.
LEMMA WorkerFaithful ==
  ASSUME NEW H, NEW s \in Seq(H), NEW n \in DOMAIN s
  PROVE  Faithful(s, n, Run(SubSeq(s, n + 1, Len(s))), Len(s) - n)
<1> DEFINE q == SubSeq(s, n + 1, Len(s))
           L == Len(s) - n
<1>1. n \in Nat /\ L \in Nat /\ n + L = Len(s)
  <2>1. DOMAIN s = 1..Len(s) /\ Len(s) \in Nat OBVIOUS
  <2> QED BY <2>1
<1>2. q \in Seq(H) /\ Len(q) = L /\ \A k \in 1..L : q[k] = s[n + k]
  <2>1. n + 1 \in 1..(Len(s) + 1) /\ Len(s) \in Nat OBVIOUS
  <2>2. \A k \in (n + 1)..Len(s) : s[k] \in H BY <2>1
  <2> QED BY <2>1, <2>2
<1> HIDE DEF q
<1>3. PICK a \in [0 .. L -> WorkerStates(H)] :
        /\ Run(q) = a[L] /\ a[0] = Running
        /\ \A k \in 1 .. L : a[k] = Step(a[k - 1], q[k])
  <2> HIDE DEF L
  <2>1. \E a \in [0 .. Len(q) -> WorkerStates(H)] :
           /\ Run(q) = a[Len(q)] /\ a[0] = Running
           /\ \A k \in 1 .. Len(q) : a[k] = Step(a[k - 1], q[k])
    BY <1>2, Loops
  <2> QED BY <1>2, <2>1
<1> DEFINE Good == {k \in 0..L : Faithful(s, n, a[k], k)}
<1>4. 0 \in Good
  <2>1. (n + 1)..(n + 0) = {} BY <1>1
  <2>2. \A kind : Told(s, n, kind, n + 0) = {} BY <2>1 DEF Told
  <2>3. Cardinality({}) = 0 BY FS_EmptySet
  <2>4. \A kind : InTurn(s, n, kind, << >>, n + 0) BY <2>1, <2>2, <2>3 DEF InTurn
  <2>5. a[0].quit = "" /\ a[0].delivered = << >> /\ a[0].answered = << >>
    <3>1. Running.quit = "" /\ Running.delivered = << >> /\ Running.answered = << >> BY DEF Running
    <3> QED BY <1>3, <3>1
  <2>6. Faithful(s, n, a[0], 0) BY <2>1, <2>4, <2>5 DEF Faithful
  <2> QED BY <1>1, <2>6
<1>5. ASSUME NEW k \in 1..L, k - 1 \in Good PROVE k \in Good
  <2>1. k - 1 \in Nat /\ k - 1 \in 0..L /\ k \in 0..L /\ k - 1 + 1 = k
    BY <1>1
  <2>2. n + (k - 1) + 1 = n + k /\ n + k \in DOMAIN s BY <1>1, <2>1
  <2>3. a[k - 1] \in WorkerStates(H) /\ Faithful(s, n, a[k - 1], k - 1) BY <1>5, <2>1
  <2>4. Faithful(s, n, Step(a[k - 1], s[n + (k - 1) + 1]), k - 1 + 1)
    BY <1>1, <2>1, <2>2, <2>3, StepFaithful
  <2>5. a[k] = Step(a[k - 1], s[n + k]) BY <1>2, <1>3
  <2>6. Faithful(s, n, a[k], k) BY <2>1, <2>2, <2>4, <2>5
  <2> QED BY <2>1, <2>6
<1> HIDE DEF Good, L
<1>6. Onward(L, Good) BY <1>4, <1>5 DEF Onward
<1>7. \A k \in 0..L : k \in Good BY <1>1, <1>6, Everywhere
<1>8. L \in 0..L BY <1>1
<1>9. Faithful(s, n, a[L], L) BY <1>7, <1>8 DEF Good
<1> QED BY <1>3, <1>9 DEF q, L

\* SseClientTransport, for every stream: the session opens at the first
\* endpoint event whatever precedes it, and until something ends it every message
\* reaches the handler and every request its outcome, once and in order.
THEOREM StreamsAreFaithful ==
  ASSUME NEW H, NEW s \in Seq(H)
  PROVE  FaithfulOn(s)
<1> DEFINE Stops(i) == s[i].kind \in {"endpoint", "error"}
           start == {i \in DOMAIN s : /\ s[i].kind = "endpoint" /\ s[i].data \in {"absolute", "relative"}
                                      /\ \A j \in 1..(i - 1) : ~Stops(j)}
           opened == Handshake(TRUE, 200, s)
<1>1. ASSUME NEW n \in start
      PROVE  opened = [end |-> "post", rest |-> SubSeq(s, n + 1, Len(s))]
  BY Opens DEF ResolveEndpoint
<1>2. ASSUME start = {} PROVE opened.end # "post"
  <2>1. CASE \A j \in DOMAIN s : ~Stops(j) BY <2>1, NeverOpens
  <2>2. CASE \E j \in DOMAIN s : Stops(j)
    <3>1. PICK n \in DOMAIN s : Stops(n) /\ \A j \in 1..(n - 1) : ~Stops(j) BY <2>2, FirstStop
    <3>2. opened = IF s[n].kind = "error" THEN [end |-> "Stream", rest |-> << >>]
                   ELSE [end |-> ResolveEndpoint(s[n].data), rest |-> SubSeq(s, n + 1, Len(s))]
      BY <3>1, Opens
    <3>3. n \notin start BY <1>2
    <3>4. s[n].kind = "error" \/ s[n].data \notin {"absolute", "relative"} BY <3>1, <3>3
    <3> HIDE DEF opened
    <3> QED BY <3>2, <3>4 DEF ResolveEndpoint
  <2> QED BY <2>1, <2>2
<1>3. opened.end = "post" <=> start # {}
  <2> HIDE DEF opened, start
  <2> QED BY <1>1, <1>2
<1>4. ASSUME NEW n \in start
      PROVE  /\ Run(opened.rest).quit = "" <=> \A i \in (n + 1)..Len(s) : ~Ends(s, i)
             /\ InTurn(s, n, "message", Run(opened.rest).delivered, Len(s))
             /\ InTurn(s, n, "send", Run(opened.rest).answered, Len(s))
  <2>1. n \in DOMAIN s /\ n + (Len(s) - n) = Len(s) OBVIOUS
  <2> HIDE DEF opened, start
  <2>2. opened.rest = SubSeq(s, n + 1, Len(s))
    <3>1. opened = [end |-> "post", rest |-> SubSeq(s, n + 1, Len(s))] BY <1>1
    <3> QED BY <3>1
  <2>3. Faithful(s, n, Run(opened.rest), Len(s) - n) BY <2>1, <2>2, WorkerFaithful
  <2> QED BY <2>1, <2>3 DEF Faithful
<1> QED BY <1>3, <1>4 DEF FaithfulOn, InTurn, Told, Tells, Ends

\* What a behaviour is about is settled at Init.
CaseKept == case \in Cases

LEMMA SameCase == MCSpec => []CaseKept
<1>1. MCInit => CaseKept BY DEF MCInit, CaseKept
<1>2. CaseKept /\ [MCNext]_<<vars, case>> => CaseKept'
  <2>1. [MCNext]_<<vars, case>> => case' = case BY DEF MCNext
  <2> QED BY <2>1 DEF CaseKept
<1> QED BY <1>1, <1>2, PTL DEF MCSpec

\* The streams a run enumerates are streams.
LEMMA StreamCases == CaseKept => StreamFaithful
<1> SUFFICES ASSUME case \in Cases, case.of = "stream" PROVE FaithfulOn(case.events)
  BY DEF StreamFaithful, CaseKept
<1>1. case.events \in SomeStreams BY DEF Cases
<1>2. case.events \in Seq(SomeHappenings)
  <2> HIDE DEF SomeHappenings
  <2>1. PICK n \in 0..5 : case.events \in [1..n -> SomeHappenings] BY <1>1 DEF SomeStreams
  <2>2. n \in Nat OBVIOUS
  <2> QED BY <2>1, <2>2
<1> QED BY <1>2, StreamsAreFaithful

\* Every stream of the runs is handled as FaithfulOn says, in every state.
THEOREM StreamsServed == MCSpec => []StreamFaithful
<1> QED BY SameCase, StreamCases, PTL

-----------------------------------------------------------------------------
(***************************************************************************)
(* The tools of a turn, for any names and any number of tools.  The        *)
(* argument: of one more number than there are names taken one gives a     *)
(* free name, so a tool gets a name that nobody had; what has been named   *)
(* is never named again, so the tools of a server depend on those before   *)
(* it alone.                                                               *)
(***************************************************************************)

ToolNames(W) == [dirty : BOOLEAN, words : Seq(W), numbers : Seq(Nat)]
Kinds == {"real", "connect", "unreachable"}
TurnTools(W) == [server : {"s1", "s2"}, kind : Kinds, calls : ToolNames(W), name : ToolNames(W)]

LEMMA LastAppended ==
  ASSUME NEW s \in Seq(Nat), NEW m \in Nat, NEW n \in Nat, Append(s, m) = Append(s, n)
  PROVE  m = n
<1>1. Append(s, m)[Len(s) + 1] = m /\ Append(s, n)[Len(s) + 1] = n OBVIOUS
<1> QED BY <1>1

LEMMA NumberedTyped ==
  ASSUME NEW W, NEW c \in ToolNames(W), NEW n \in Nat
  PROVE  /\ Numbered(c, n) \in ToolNames(W)
         /\ Numbered(c, n).dirty = c.dirty
         /\ Numbered(c, n).numbers = Append(c.numbers, n)
<1>1. c.numbers \in Seq(Nat) BY DEF ToolNames
<1>2. Append(c.numbers, n) \in Seq(Nat) BY <1>1, Appended
<1>3. Numbered(c, n) = [c EXCEPT !.numbers = Append(c.numbers, n)] BY DEF Numbered
<1> QED BY <1>2, <1>3 DEF ToolNames

\* Among one number more than there are names taken one is free.
LEMMA FreeName ==
  ASSUME NEW W, NEW c \in ToolNames(W), NEW taken, IsFiniteSet(taken)
  PROVE  \E n \in 2..(Cardinality(taken) + 2) : Numbered(c, n) \notin taken
<1> SUFFICES ASSUME \A n \in 2..(Cardinality(taken) + 2) : Numbered(c, n) \in taken PROVE FALSE
  OBVIOUS
<1>1. Cardinality(taken) \in Nat BY FS_CardinalityType
<1> DEFINE S == 2..(Cardinality(taken) + 2)
           f == [n \in S |-> Numbered(c, n)]
<1>2. f \in [S -> taken] OBVIOUS
<1>3. IsFiniteSet(S) /\ Cardinality(S) = Cardinality(taken) + 1
  <2>1. 2 \in Int /\ Cardinality(taken) + 2 \in Int BY <1>1
  <2>2. ~(2 > Cardinality(taken) + 2) /\ (Cardinality(taken) + 2) - 2 + 1 = Cardinality(taken) + 1
    BY <1>1
  <2> QED BY <2>1, <2>2, FS_Interval
<1>4. \A n \in S : n \in Nat /\ f[n] = Numbered(c, n) BY <1>1
<1>5. c.numbers \in Seq(Nat) BY DEF ToolNames
<1> HIDE DEF S, f
<1>6. Cardinality(taken) < Cardinality(S) BY <1>1, <1>3
<1>7. PICK m, n \in S : m # n /\ f[m] = f[n] BY <1>2, <1>3, <1>6, FS_PigeonHole
<1>8. m \in Nat /\ n \in Nat /\ Numbered(c, m) = Numbered(c, n) BY <1>4, <1>7
<1>9. Append(c.numbers, m) = Append(c.numbers, n)
  <2>1. Numbered(c, m).numbers = Append(c.numbers, m) BY <1>8, NumberedTyped
  <2>2. Numbered(c, n).numbers = Append(c.numbers, n) BY <1>8, NumberedTyped
  <2> QED BY <1>8, <2>1, <2>2
<1> QED BY <1>5, <1>7, <1>8, <1>9, LastAppended

LEMMA Deduped ==
  ASSUME NEW W, NEW c \in ToolNames(W), NEW taken, IsFiniteSet(taken)
  PROVE  Dedupe(c, taken) \in ToolNames(W) \ taken /\ Dedupe(c, taken).dirty = c.dirty
<1> DEFINE free == {n \in 2..(Cardinality(taken) + 2) : Numbered(c, n) \notin taken}
           least == CHOOSE n \in free : \A m \in free : n <= m
<1>1. Cardinality(taken) \in Nat BY FS_CardinalityType
<1>2. free \in SUBSET Nat /\ free # {} BY <1>1, FreeName
<1>3. least \in free /\ least \in Nat
  <2>1. \A n \in free : Numbered(c, n) \notin taken OBVIOUS
  <2> HIDE DEF free
  <2>2. \E n \in free : \A m \in free : n <= m BY <1>2, Least
  <2> QED BY <1>2, <2>2
<1>4. Numbered(c, least) \notin taken BY <1>3
<1>5. Dedupe(c, taken) = IF c \notin taken THEN c ELSE Numbered(c, least) BY DEF Dedupe
<1> HIDE DEF least, free
<1>6. Numbered(c, least) \in ToolNames(W) /\ Numbered(c, least).dirty = c.dirty BY <1>3, NumberedTyped
<1> QED BY <1>4, <1>5, <1>6

\* The names of a list are finitely many.
NamesOf(out) == {out[i].name : i \in DOMAIN out}

LEMMA NamesFinite ==
  ASSUME NEW T, NEW out \in Seq(T)
  PROVE  IsFiniteSet(NamesOf(out))
<1> DEFINE f == [i \in 1..Len(out) |-> out[i].name]
<1>1. DOMAIN out = 1..Len(out) /\ Len(out) \in Nat OBVIOUS
<1>2. f \in Surjection(1..Len(out), NamesOf(out)) BY <1>1 DEF Surjection, NamesOf
<1>3. ExistsSurjection(1..Len(out), NamesOf(out))
  <2> HIDE DEF f
  <2> QED BY <1>2 DEF ExistsSurjection
<1> QED BY <1>1, <1>3, FS_NatSurjection

\* A tool keeps all but its name, which nobody had before.
LEMMA RenamedTool ==
  ASSUME NEW W, NEW t \in TurnTools(W), NEW out \in Seq(TurnTools(W))
  PROVE  /\ Renamed(t, out) \in TurnTools(W)
         /\ Renamed(t, out).server = t.server /\ Renamed(t, out).kind = t.kind
         /\ Renamed(t, out).calls = t.calls
         /\ Renamed(t, out).name \notin NamesOf(out) /\ ~Renamed(t, out).name.dirty
<1> DEFINE name == Dedupe(SanitizeName(t.name), NamesOf(out))
<1>1. t.name \in ToolNames(W) BY DEF TurnTools
<1>2. SanitizeName(t.name) \in ToolNames(W) /\ SanitizeName(t.name).dirty = FALSE
  BY <1>1 DEF SanitizeName, ToolNames
<1>3. IsFiniteSet(NamesOf(out)) BY NamesFinite
<1>4. name \in ToolNames(W) \ NamesOf(out) /\ name.dirty = SanitizeName(t.name).dirty
  BY <1>2, <1>3, Deduped
<1>5. Renamed(t, out) = [t EXCEPT !.name = name] BY DEF Renamed, NamesOf
<1> HIDE DEF name
<1> QED BY <1>2, <1>4, <1>5 DEF TurnTools

\* sanitize::apply passes through one list after each tool.
LEMMA Applies ==
  ASSUME NEW W, NEW tools \in Seq(TurnTools(W))
  PROVE  \E a \in [0 .. Len(tools) -> Seq(TurnTools(W))] :
           /\ Apply(tools) = a[Len(tools)] /\ a[0] = << >>
           /\ \A k \in 1 .. Len(tools) : a[k] = Append(a[k - 1], Renamed(tools[k], a[k - 1]))
<1>1. PICK n \in Nat : n = Len(tools) OBVIOUS
<1> DEFINE T == TurnTools(W)
           V == Seq(T)
           Next1(k, out) == Append(out, Renamed(tools[k], out))
           step == [p \in (1 .. n) \X V |-> Next1(p[1], p[2])]
<1>2. \A k \in 1 .. n : tools[k] \in T BY <1>1
<1>3. \A k \in 1 .. n, out \in V : Next1(k, out) \in V
  <2> SUFFICES ASSUME NEW k \in 1 .. n, NEW out \in V PROVE Next1(k, out) \in V OBVIOUS
  <2>1. Renamed(tools[k], out) \in T BY <1>2, RenamedTool
  <2> HIDE DEF T
  <2> QED BY <2>1, Appended
<1> HIDE DEF V, Next1
<1>4. step \in [(1 .. n) \X V -> V]
  <2>1. \A p \in (1 .. n) \X V : p[1] \in 1 .. n /\ p[2] \in V OBVIOUS
  <2> QED BY <1>3, <2>1
<1>5. \A k \in 1 .. n, out \in V : step[<<k, out>>] = Next1(k, out) OBVIOUS
<1>6. << >> \in V BY DEF V
<1> HIDE DEF step
<1>7. PICK g \in [0 .. n -> V] : \A k \in 0 .. n : g[k] = NextOf(<< >>, step, g, k)
  <2>1. \A h \in [(1 .. n) \X V -> V] : Solvable(V, n, << >>, h) BY <1>6, Recursion
  <2>2. Solvable(V, n, << >>, step) BY <1>4, <2>1
  <2> QED BY <2>2 DEF Solvable
<1>8. \A k \in 1 .. n : g[k] = Next1(k, g[k - 1])
  <2> SUFFICES ASSUME NEW k \in 1 .. n PROVE g[k] = Next1(k, g[k - 1]) OBVIOUS
  <2>1. k \in 0 .. n /\ k # 0 /\ k - 1 \in 0 .. n BY <1>1
  <2>2. g[k - 1] \in V BY <2>1
  <2>3. g[k] = step[<<k, g[k - 1]>>] BY <1>7, <2>1 DEF NextOf
  <2> QED BY <1>5, <2>2, <2>3
<1>9. g[0] = << >>
  <2>1. 0 \in 0 .. n BY <1>1
  <2> QED BY <1>7, <2>1 DEF NextOf
<1> DEFINE Value(h, k) == IF k = 0 THEN << >> ELSE Append(h[k - 1], Renamed(tools[k], h[k - 1]))
           named == CHOOSE h : h = [k \in 0 .. n |-> Value(h, k)]
<1>10. g = [k \in 0 .. n |-> Value(g, k)]
  <2>1. \A k \in 0 .. n : g[k] = Value(g, k)
    <3>1. \A k \in 0 .. n : k = 0 \/ k \in 1 .. n BY <1>1
    <3> QED BY <1>8, <1>9, <3>1 DEF Next1
  <2> HIDE DEF Value
  <2>2. g = [k \in 0 .. n |-> g[k]] OBVIOUS
  <2>3. [k \in 0 .. n |-> g[k]] = [k \in 0 .. n |-> Value(g, k)] BY <2>1
  <2> QED BY <2>2, <2>3
<1>11. Apply(tools) = named[n] BY <1>1 DEF Apply
<1>12. named = [k \in 0 .. n |-> Value(named, k)]
  <2> HIDE DEF Value
  <2> QED BY <1>10
<1> HIDE DEF named
<1>13. named[0] = << >>
  <2>1. 0 \in 0 .. n BY <1>1
  <2> QED BY <1>12, <2>1
<1>14. \A k \in 1 .. n : named[k] = Next1(k, named[k - 1])
  <2> SUFFICES ASSUME NEW k \in 1 .. n PROVE named[k] = Next1(k, named[k - 1]) OBVIOUS
  <2>1. k \in 0 .. n /\ k # 0 BY <1>1
  <2>2. named[k] = Value(named, k) BY <1>12, <2>1
  <2> QED BY <2>1, <2>2 DEF Next1
<1> HIDE DEF Value
<1>15. \A k \in 0 .. n : named[k] = g[k]
  <2> DEFINE Good == {k \in 0 .. n : named[k] = g[k]}
  <2>1. 0 \in Good BY <1>1, <1>9, <1>13
  <2>2. \A k \in 1 .. n : k - 1 \in Good => k \in Good
    <3>1. \A k \in 1 .. n : k \in 0 .. n BY <1>1
    <3> QED BY <1>8, <1>14, <3>1
  <2> HIDE DEF Good
  <2>3. Onward(n, Good) BY <2>1, <2>2 DEF Onward
  <2>4. \A k \in 0 .. n : k \in Good BY <2>3, Everywhere
  <2> QED BY <2>4 DEF Good
<1>16. n \in 0 .. n BY <1>1
<1>17. Apply(tools) = g[n] BY <1>11, <1>15, <1>16
<1> QED BY <1>1, <1>8, <1>9, <1>17 DEF V, Next1

\* The first k tools with their names: the same tools, each under a name of its
\* own that a model provider takes.
Tidy(tools, out, k) ==
  /\ Len(out) = k
  /\ \A i \in 1..k :
       /\ out[i].server = tools[i].server /\ out[i].kind = tools[i].kind
       /\ out[i].calls = tools[i].calls /\ ~out[i].name.dirty
  /\ \A i, j \in 1..k : out[i].name = out[j].name => i = j

LEMMA TidyGrows ==
  ASSUME NEW W, NEW tools \in Seq(TurnTools(W)), NEW k \in Nat, k + 1 \in DOMAIN tools,
         NEW out \in Seq(TurnTools(W)), Tidy(tools, out, k)
  PROVE  Tidy(tools, Append(out, Renamed(tools[k + 1], out)), k + 1)
<1> DEFINE t == Renamed(tools[k + 1], out)
           more == Append(out, t)
<1>1. tools[k + 1] \in TurnTools(W) OBVIOUS
<1>2. /\ t.server = tools[k + 1].server /\ t.kind = tools[k + 1].kind /\ t.calls = tools[k + 1].calls
      /\ t.name \notin NamesOf(out) /\ ~t.name.dirty
  BY <1>1, RenamedTool
<1>3. Len(out) = k /\ DOMAIN out = 1..k BY DEF Tidy
<1> HIDE DEF t
<1>4. Len(more) = k + 1 /\ more[k + 1] = t /\ \A i \in 1..k : more[i] = out[i] BY <1>3
<1> HIDE DEF more
<1>5. \A i \in 1..(k + 1) : i \in 1..k \/ i = k + 1 OBVIOUS
<1>6. \A i \in 1..k : out[i].name # t.name BY <1>2, <1>3 DEF NamesOf
<1>7. \A i \in 1..(k + 1) :
        /\ more[i].server = tools[i].server /\ more[i].kind = tools[i].kind
        /\ more[i].calls = tools[i].calls /\ ~more[i].name.dirty
  BY <1>2, <1>4, <1>5 DEF Tidy
<1>8. \A i, j \in 1..(k + 1) : more[i].name = more[j].name => i = j
  <2> SUFFICES ASSUME NEW i \in 1..(k + 1), NEW j \in 1..(k + 1), more[i].name = more[j].name
               PROVE  i = j
    OBVIOUS
  <2>1. CASE i \in 1..k /\ j \in 1..k BY <1>4, <2>1 DEF Tidy
  <2>2. CASE i = k + 1 /\ j \in 1..k BY <1>4, <1>6, <2>2
  <2>3. CASE i \in 1..k /\ j = k + 1 BY <1>4, <1>6, <2>3
  <2> QED BY <1>5, <2>1, <2>2, <2>3
<1>9. Tidy(tools, more, k + 1) BY <1>4, <1>7, <1>8 DEF Tidy
<1> QED BY <1>9 DEF more, t

\* What apply makes of a list, and of any list that goes on from it.
LEMMA Applied ==
  ASSUME NEW W, NEW tools \in Seq(TurnTools(W))
  PROVE  Apply(tools) \in Seq(TurnTools(W)) /\ Tidy(tools, Apply(tools), Len(tools))
<1>1. PICK n \in Nat : n = Len(tools) OBVIOUS
<1>2. PICK a \in [0 .. n -> Seq(TurnTools(W))] :
        /\ Apply(tools) = a[n] /\ a[0] = << >>
        /\ \A k \in 1 .. n : a[k] = Append(a[k - 1], Renamed(tools[k], a[k - 1]))
  <2>1. \E a \in [0 .. Len(tools) -> Seq(TurnTools(W))] :
          /\ Apply(tools) = a[Len(tools)] /\ a[0] = << >>
          /\ \A k \in 1 .. Len(tools) : a[k] = Append(a[k - 1], Renamed(tools[k], a[k - 1]))
    BY Applies
  <2> QED BY <1>1, <2>1
<1> DEFINE Good == {k \in 0..n : Tidy(tools, a[k], k)}
<1>3. 0 \in Good BY <1>1, <1>2 DEF Tidy
<1>4. ASSUME NEW k \in 1..n, k - 1 \in Good PROVE k \in Good
  <2>1. k - 1 \in Nat /\ k - 1 \in 0..n /\ k \in 0..n /\ k - 1 + 1 = k /\ k \in DOMAIN tools BY <1>1
  <2>2. a[k - 1] \in Seq(TurnTools(W)) BY <2>1
  <2>3. Tidy(tools, Append(a[k - 1], Renamed(tools[k - 1 + 1], a[k - 1])), k - 1 + 1)
    BY <1>4, <2>1, <2>2, TidyGrows
  <2> QED BY <1>2, <2>1, <2>3
<1> HIDE DEF Good
<1>5. Onward(n, Good) BY <1>3, <1>4 DEF Onward
<1>6. n \in 0..n BY <1>1
<1>7. n \in Good BY <1>5, <1>6, Everywhere
<1> QED BY <1>1, <1>2, <1>6, <1>7 DEF Good

LEMMA AppliedBefore ==
  ASSUME NEW W, NEW tools \in Seq(TurnTools(W)), NEW rest \in Seq(TurnTools(W))
  PROVE  SubSeq(Apply(tools \o rest), 1, Len(Apply(tools))) = Apply(tools)
<1> DEFINE T == TurnTools(W)
           all == tools \o rest
<1>1. PICK n \in Nat : n = Len(tools) OBVIOUS
<1>2. PICK l \in Nat : l = Len(rest) OBVIOUS
<1>3. all \in Seq(T) /\ Len(all) = n + l /\ \A k \in 1..n : all[k] = tools[k]
  <2> HIDE DEF T
  <2>1. tools \in Seq(T) /\ rest \in Seq(T) BY DEF T
  <2> QED BY <1>1, <1>2, <2>1
<1> HIDE DEF all
<1>4. PICK a \in [0 .. n + l -> Seq(T)] :
        /\ Apply(all) = a[n + l] /\ a[0] = << >>
        /\ \A k \in 1 .. n + l : a[k] = Append(a[k - 1], Renamed(all[k], a[k - 1]))
  <2>1. \E a \in [0 .. Len(all) -> Seq(T)] :
          /\ Apply(all) = a[Len(all)] /\ a[0] = << >>
          /\ \A k \in 1 .. Len(all) : a[k] = Append(a[k - 1], Renamed(all[k], a[k - 1]))
    BY <1>3, Applies
  <2>2. Len(all) = n + l BY <1>3
  <2> HIDE DEF T
  <2> QED BY <2>1, <2>2, Zenon
<1>5. PICK b \in [0 .. n -> Seq(T)] :
        /\ Apply(tools) = b[n] /\ b[0] = << >>
        /\ \A k \in 1 .. n : b[k] = Append(b[k - 1], Renamed(tools[k], b[k - 1]))
  <2>1. \E b \in [0 .. Len(tools) -> Seq(T)] :
          /\ Apply(tools) = b[Len(tools)] /\ b[0] = << >>
          /\ \A k \in 1 .. Len(tools) : b[k] = Append(b[k - 1], Renamed(tools[k], b[k - 1]))
    BY Applies
  <2> HIDE DEF T
  <2> QED BY <1>1, <2>1
<1> HIDE DEF T
<1>6. a[n] = b[n]
  <2> DEFINE Good == {k \in 0..n : a[k] = b[k]}
  <2>1. 0 \in Good BY <1>1, <1>4, <1>5
  <2>2. ASSUME NEW k \in 1..n, k - 1 \in Good PROVE k \in Good
    <3>1. k \in 0..n /\ k \in 1..(n + l) BY <1>1, <1>2
    <3>2. a[k - 1] = b[k - 1] BY <2>2
    <3> QED BY <1>3, <1>4, <1>5, <3>1, <3>2
  <2> HIDE DEF Good
  <2>3. Onward(n, Good) BY <2>1, <2>2 DEF Onward
  <2>4. n \in 0..n BY <1>1
  <2>5. n \in Good BY <2>3, <2>4, Everywhere
  <2> QED BY <2>5 DEF Good
<1>7. Len(b[n]) = n
  <2>1. Tidy(tools, Apply(tools), Len(tools)) BY Applied
  <2> QED BY <1>1, <1>5, <2>1 DEF Tidy
<1> DEFINE Starts(s) == Len(s) >= n /\ \A i \in 1..n : s[i] = b[n][i]
           Good == {m \in 0..l : Starts(a[n + m])}
<1>8. 0 \in Good
  <2>1. n + 0 = n /\ 0 \in 0..l BY <1>1, <1>2
  <2> QED BY <1>1, <1>6, <1>7, <2>1
<1>9. ASSUME NEW m \in 1..l, m - 1 \in Good PROVE m \in Good
  <2>1. n + m \in 1..(n + l) /\ n + m - 1 = n + (m - 1) /\ n + (m - 1) \in 0..(n + l) /\ m \in 0..l
    BY <1>1, <1>2
  <2>2. PICK s, t : s = a[n + (m - 1)] /\ t = Renamed(all[n + m], s) OBVIOUS
  <2>3. a[n + m] = Append(s, t)
    <3>1. a[n + m] = Append(a[n + m - 1], Renamed(all[n + m], a[n + m - 1]))
      <4>1. PICK k : k = n + m OBVIOUS
      <4>2. k \in 1..(n + l) BY <2>1, <4>1
      <4>3. a[k] = Append(a[k - 1], Renamed(all[k], a[k - 1])) BY <1>4, <4>2
      <4> QED BY <4>1, <4>3
    <3>2. a[n + m - 1] = s BY <2>1, <2>2
    <3> QED BY <2>2, <3>1, <3>2
  <2>4. s \in Seq(T) BY <2>1, <2>2
  <2>5. Starts(s) BY <1>9, <2>2
  <2>6. Len(s) \in Nat /\ Len(Append(s, t)) = Len(s) + 1 /\ \A i \in 1..Len(s) : Append(s, t)[i] = s[i]
    BY <2>4
  <2>7. Starts(Append(s, t))
    <3>1. \A i \in 1..n : i \in 1..Len(s) BY <2>5, <2>6
    <3> QED BY <1>1, <2>5, <2>6, <3>1
  <2> QED BY <2>1, <2>3, <2>7
<1> HIDE DEF Good
<1>10. Onward(l, Good) BY <1>8, <1>9 DEF Onward
<1>11. l \in 0..l BY <1>2
<1>12. l \in Good BY <1>10, <1>11, Everywhere
<1>13. Starts(Apply(all)) BY <1>4, <1>12 DEF Good
<1>14. Apply(all) \in Seq(T) /\ b[n] \in Seq(T)
  <2>1. n \in 0..n /\ n + l \in 0..(n + l) BY <1>1, <1>2
  <2> QED BY <1>4, <1>5, <2>1
<1>15. SubSeq(Apply(all), 1, n) = b[n]
  <2> DEFINE s == Apply(all)
             u == b[n]
  <2>1. s \in Seq(T) /\ u \in Seq(T) /\ Len(u) = n /\ Len(s) >= n /\ \A i \in 1..n : s[i] = u[i]
    BY <1>7, <1>13, <1>14
  <2> HIDE DEF s, u
  <2>2. SubSeq(s, 1, n) \in Seq(T) /\ Len(SubSeq(s, 1, n)) = n
        /\ \A i \in 1..n : SubSeq(s, 1, n)[i] = s[i]
    <3>1. \A i \in 1..n : s[i] \in T BY <2>1
    <3> QED BY <2>1, <3>1
  <2>3. SubSeq(s, 1, n) = u BY <2>1, <2>2
  <2> QED BY <2>3 DEF s, u
<1> QED BY <1>5, <1>7, <1>15 DEF all

\* What one server gives, before names.
LEMMA GivenTyped ==
  ASSUME NEW W, {"s1", "s2", "connect", "unreachable"} \subseteq W,
         NEW server \in {"s1", "s2"}, NEW only, only = None \/ only \in Seq(ToolNames(W)),
         NEW v, v.tools \in Seq(ToolNames(W))
  PROVE  /\ UserTools([server |-> server, only |-> only], v) \in Seq(TurnTools(W))
         /\ Picked([server |-> server, only |-> only], v.tools) \in Seq(TurnTools(W))
         /\ UserTools([server |-> server, only |-> only], v) = << >> =>
              only = << >> \/ (only = None /\ v.tools = << >>)
<1> DEFINE access == [server |-> server, only |-> only]
           N == ToolNames(W)
           T == TurnTools(W)
           names == IF only = None THEN v.tools ELSE only
           asked == IF only = None THEN <<Name(FALSE, <<"connect", server>>)>> ELSE only
           none == Name(FALSE, <<server, "unreachable">>)
<1>1. access.server = server /\ access.only = only OBVIOUS
<1>2. \A w \in Seq(W) : Name(FALSE, w) \in N
  <2>1. << >> \in Seq(Nat) OBVIOUS
  <2> QED BY <2>1 DEF Name, ToolNames
<1>3. none \in N /\ Name(FALSE, <<"connect", server>>) \in N
  <2>1. <<server, "unreachable">> \in Seq(W) /\ <<"connect", server>> \in Seq(W) OBVIOUS
  <2> QED BY <1>2, <2>1
<1> HIDE DEF none
<1>4. names \in Seq(N) /\ asked \in Seq(N)
  <2> HIDE DEF N
  <2>1. <<Name(FALSE, <<"connect", server>>)>> \in Seq(N)
    <3>1. PICK e \in N : e = Name(FALSE, <<"connect", server>>) BY <1>3
    <3>2. <<e>> \in Seq(N) OBVIOUS
    <3> QED BY <3>1, <3>2
  <2> QED BY <2>1 DEF N
<1>5. \A kind \in Kinds, n \in N : Tool(server, kind, n) \in T BY DEF Tool, TurnTools
<1>6. "real" \in Kinds /\ "connect" \in Kinds /\ "unreachable" \in Kinds BY DEF Kinds
<1>7. ASSUME NEW l \in Seq(N), NEW kind \in Kinds
      PROVE  /\ [i \in DOMAIN l |-> Tool(server, kind, l[i])] \in Seq(T)
             /\ [i \in DOMAIN l |-> Tool(server, kind, l[i])] = << >> => l = << >>
  <2> HIDE DEF N, T
  <2>1. DOMAIN l = 1..Len(l) /\ Len(l) \in Nat /\ \A i \in 1..Len(l) : l[i] \in N OBVIOUS
  <2> DEFINE r == [i \in DOMAIN l |-> Tool(server, kind, l[i])]
  <2>2. r \in [1..Len(l) -> T] BY <1>5, <2>1
  <2>3. r \in Seq(T) BY <2>1, <2>2
  <2>4. Len(r) = Len(l) BY <2>1, <2>2
  <2> HIDE DEF r
  <2>5. r = << >> => l = << >>
    <3> SUFFICES ASSUME r = << >> PROVE l = << >> OBVIOUS
    <3>1. Len(l) = 0 BY <2>4
    <3> QED BY <3>1
  <2> QED BY <2>3, <2>5 DEF r
<1>8. Picked(access, v.tools) \in Seq(T) /\ (Picked(access, v.tools) = << >> => names = << >>)
  <2>1. Picked(access, v.tools) = [i \in DOMAIN names |-> Tool(server, "real", names[i])]
    BY <1>1 DEF Picked
  <2> HIDE DEF names, N, T
  <2> QED BY <1>4, <1>6, <1>7, <2>1
<1>9. Placeholders(access) \in Seq(T) /\ (Placeholders(access) = << >> => asked = << >>)
  <2>1. Placeholders(access) = [i \in DOMAIN asked |-> Tool(server, "connect", asked[i])]
    BY <1>1 DEF Placeholders, NotConnected
  <2> HIDE DEF asked, N, T
  <2> QED BY <1>4, <1>6, <1>7, <2>1
<1>10. Unreachable(server) \in Seq(T) /\ Unreachable(server) # << >>
  <2>1. Unreachable(server) = <<Tool(server, "unreachable", none)>> BY DEF Unreachable, none
  <2>2. Tool(server, "unreachable", none) \in T BY <1>3, <1>5, <1>6
  <2> HIDE DEF T
  <2> QED BY <2>1, <2>2
<1>11. asked = << >> => only = << >> OBVIOUS
<1>12. names = << >> => only = << >> \/ (only = None /\ v.tools = << >>) OBVIOUS
<1> DEFINE given == UserTools(access, v)
<1>13. given \in {Unreachable(server), Picked(access, v.tools), Placeholders(access)}
  BY <1>1 DEF UserTools, OAuthTools, StaticTools
<1> HIDE DEF names, asked, given, access, T
<1>14. given \in Seq(T) /\ (given = << >> => only = << >> \/ (only = None /\ v.tools = << >>))
  BY <1>8, <1>9, <1>10, <1>11, <1>12, <1>13
<1> QED BY <1>8, <1>14 DEF given, access, T

LEMMA FlattenTwo ==
  ASSUME NEW x, NEW y
  PROVE  FlattenSeq(<<x, y>>) = x \o y /\ FlattenSeq(<<x>>) = x
<1>1. FlattenSeq(<<x, y>>) = x \o y
  <2> DEFINE two == <<x, y>>
             Value(h, i) == IF i = 1 THEN two[i] ELSE h[i - 1] \o two[i]
             flat == CHOOSE h : h = [i \in 1 .. Len(two) |-> Value(h, i)]
             w == [i \in 1 .. 2 |-> IF i = 1 THEN x ELSE x \o y]
  <2>1. Len(two) = 2 /\ two[1] = x /\ two[2] = y OBVIOUS
  <2>2. FlattenSeq(two) = flat[2] BY <2>1 DEF FlattenSeq
  <2> HIDE DEF two
  <2>3. w[1] = x /\ w[2] = x \o y OBVIOUS
  <2>4. \A i \in 1 .. 2 : w[i] = Value(w, i)
    <3> HIDE DEF w
    <3>1. \A i \in 1 .. 2 : i = 1 \/ (i = 2 /\ i - 1 = 1 /\ i # 1) OBVIOUS
    <3> QED BY <2>1, <2>3, <3>1
  <2>5. w = [i \in 1 .. 2 |-> w[i]] OBVIOUS
  <2> HIDE DEF Value, w
  <2>6. w = [i \in 1 .. Len(two) |-> Value(w, i)] BY <2>1, <2>4, <2>5
  <2>7. flat = [i \in 1 .. 2 |-> Value(flat, i)] BY <2>1, <2>6
  <2> HIDE DEF flat
  <2>8. flat[1] = Value(flat, 1) /\ flat[2] = Value(flat, 2) BY <2>7
  <2>9. flat[2] = x \o y
    <3>1. flat[1] = x BY <2>1, <2>8 DEF Value
    <3>2. Value(flat, 2) = flat[1] \o two[2] BY DEF Value
    <3> QED BY <2>1, <2>8, <3>1, <3>2
  <2> QED BY <2>2, <2>9 DEF two
<1>2. FlattenSeq(<<x>>) = x
  <2> DEFINE one == <<x>>
             Value(h, i) == IF i = 1 THEN one[i] ELSE h[i - 1] \o one[i]
             flat == CHOOSE h : h = [i \in 1 .. Len(one) |-> Value(h, i)]
             w == [i \in 1 .. 1 |-> x]
  <2>1. Len(one) = 1 /\ one[1] = x OBVIOUS
  <2>2. FlattenSeq(one) = flat[1] BY <2>1 DEF FlattenSeq
  <2> HIDE DEF one
  <2>3. \A i \in 1 .. 1 : i = 1 /\ x = Value(w, i) BY <2>1
  <2> HIDE DEF Value
  <2>4. w = [i \in 1 .. Len(one) |-> Value(w, i)] BY <2>1, <2>3
  <2> HIDE DEF w
  <2>5. flat = [i \in 1 .. 1 |-> Value(flat, i)] BY <2>1, <2>4
  <2> HIDE DEF flat
  <2>6. flat[1] = Value(flat, 1) BY <2>5
  <2>7. flat[1] = x BY <2>1, <2>6 DEF Value
  <2> QED BY <2>2, <2>7 DEF one
<1> QED BY <1>1, <1>2

LEMMA WiderSeq ==
  ASSUME NEW A, NEW B, A \subseteq B
  PROVE  \A s \in Seq(A) : s \in Seq(B)
<1> SUFFICES ASSUME NEW s \in Seq(A) PROVE s \in Seq(B) OBVIOUS
<1>1. s \in [1..Len(s) -> A] /\ Len(s) \in Nat OBVIOUS
<1>2. s \in [1..Len(s) -> B] BY <1>1
<1> QED BY <1>1, <1>2

\* A sequence of two parts, element by element.
InParts(a, b, c, m, n) == (\A i \in 1..m : a[i] = b[i]) /\ (\A i \in 1..n : a[m + i] = c[i])

LEMMA Joined ==
  ASSUME NEW m \in Nat, NEW n \in Nat, NEW V,
         NEW a \in [1..(m + n) -> V], NEW b \in [1..m -> V], NEW c \in [1..n -> V],
         InParts(a, b, c, m, n)
  PROVE  a = b \o c
<1> USE DEF InParts
<1>1. b \in Seq(V) /\ c \in Seq(V) /\ Len(b) = m /\ Len(c) = n OBVIOUS
<1>2. a \in Seq(V) /\ Len(a) = m + n OBVIOUS
<1>3. b \o c \in Seq(V) /\ Len(b \o c) = m + n BY <1>1
<1>4. ASSUME NEW i \in 1..(m + n) PROVE a[i] = (b \o c)[i]
  <2>1. CASE i <= m BY <1>1, <2>1
  <2>2. CASE ~(i <= m)
    <3>1. PICK j : j = i - m OBVIOUS
    <3>2. j \in 1..n /\ i = m + j BY <2>2, <3>1
    <3>3. i \in (Len(b) + 1)..(Len(b) + Len(c)) /\ i - Len(b) = j BY <1>1, <3>1, <3>2
    <3>4. (b \o c)[i] = c[i - Len(b)] BY <1>1, <3>3
    <3>5. (b \o c)[i] = c[j] BY <3>3, <3>4
    <3> QED BY <3>2, <3>5
  <2> QED BY <2>1, <2>2
<1>5. PICK d : d = b \o c OBVIOUS
<1>6. d \in [1..(m + n) -> V]
  <2>1. d \in Seq(V) /\ Len(d) = m + n BY <1>3, <1>5
  <2> QED BY <2>1
<1>7. \A i \in 1..(m + n) : a[i] = d[i] BY <1>4, <1>5
<1>8. a = d BY <1>6, <1>7
<1> QED BY <1>5, <1>8

\* McpServers::tools_for_user, for any names, any tools and whatever stands in
\* the way of a server: every name is one the model provider takes and names one
\* tool; each server gives what it gives alone, in order and never nothing; a
\* later server changes no name of an earlier one; and an agent that needs no
\* user is given the same tools with one.
THEOREM ToolsAreUsable ==
  ASSUME NEW W, NEW o1, o1 = None \/ o1 \in Seq(ToolNames(W)),
         NEW o2, o2 = None \/ o2 \in Seq(ToolNames(W)),
         NEW v1, v1.tools \in Seq(ToolNames(W)), NEW v2, v2.tools \in Seq(ToolNames(W))
  PROVE  UsableOn(o1, o2, v1, v2)
<1> DEFINE X == W \cup {"s1", "s2", "connect", "unreachable"}
           T == TurnTools(X)
           a1 == [server |-> "s1", only |-> o1]
           a2 == [server |-> "s2", only |-> o2]
           view == [s \in {"s1", "s2"} |-> IF s = "s1" THEN v1 ELSE v2]
           g1 == UserTools(a1, v1)
           g2 == UserTools(a2, v2)
           all == ToolsForUser(<<a1, a2>>, view)
           one == ToolsForUser(<<a1>>, view)
           two == ToolsForUser(<<a2>>, view)
<1>1. /\ o1 = None \/ o1 \in Seq(ToolNames(X))
      /\ o2 = None \/ o2 \in Seq(ToolNames(X))
      /\ v1.tools \in Seq(ToolNames(X)) /\ v2.tools \in Seq(ToolNames(X))
      /\ {"s1", "s2", "connect", "unreachable"} \subseteq X
  <2>1. \A w \in Seq(W) : w \in Seq(X)
    <3>1. W \subseteq X OBVIOUS
    <3> QED BY <3>1, WiderSeq
  <2>2. ToolNames(W) \subseteq ToolNames(X) BY <2>1 DEF ToolNames
  <2>3. \A s \in Seq(ToolNames(W)) : s \in Seq(ToolNames(X)) BY <2>2, WiderSeq
  <2> QED BY <2>3
<1>2. /\ view["s1"] = v1 /\ view["s2"] = v2
      /\ a1.server = "s1" /\ a2.server = "s2" /\ a1.only = o1 /\ a2.only = o2
  OBVIOUS
<1> HIDE DEF X
<1>3. /\ g1 \in Seq(T) /\ Picked(a1, v1.tools) \in Seq(T)
      /\ g1 = << >> => o1 = << >> \/ (o1 = None /\ v1.tools = << >>)
  BY <1>1, GivenTyped
<1>4. g2 \in Seq(T) /\ Picked(a2, v2.tools) \in Seq(T) BY <1>1, GivenTyped
<1> HIDE DEF a1, a2, view, T, g1, g2
<1>5. /\ all = Apply(g1 \o g2) /\ one = Apply(g1) /\ two = Apply(g2)
  <2>1. /\ [i \in DOMAIN <<a1, a2>> |-> UserTools(<<a1, a2>>[i], view[<<a1, a2>>[i].server])] = <<g1, g2>>
        /\ [i \in DOMAIN <<a1>> |-> UserTools(<<a1>>[i], view[<<a1>>[i].server])] = <<g1>>
        /\ [i \in DOMAIN <<a2>> |-> UserTools(<<a2>>[i], view[<<a2>>[i].server])] = <<g2>>
    BY <1>2 DEF g1, g2
  <2> QED BY <2>1, FlattenTwo DEF ToolsForUser
<1>6. /\ g1 \o g2 \in Seq(T) /\ Len(g1 \o g2) = Len(g1) + Len(g2)
      /\ \A i \in 1..Len(g1) : (g1 \o g2)[i] = g1[i]
      /\ \A i \in 1..Len(g2) : (g1 \o g2)[Len(g1) + i] = g2[i]
  BY <1>3, <1>4
<1>7. Len(g1) \in Nat /\ Len(g2) \in Nat BY <1>3, <1>4
<1> HIDE DEF all, one, two
<1>8. /\ all \in Seq(T) /\ Tidy(g1 \o g2, all, Len(g1) + Len(g2))
      /\ one \in Seq(T) /\ Tidy(g1, one, Len(g1))
      /\ two \in Seq(T) /\ Tidy(g2, two, Len(g2))
  BY <1>3, <1>4, <1>5, <1>6, Applied DEF T
<1>9. /\ Len(all) = Len(g1) + Len(g2) /\ Len(one) = Len(g1) /\ Len(two) = Len(g2)
      /\ DOMAIN all = 1..(Len(g1) + Len(g2)) /\ DOMAIN one = 1..Len(g1) /\ DOMAIN two = 1..Len(g2)
  BY <1>8 DEF Tidy
<1>10. \A i, j \in DOMAIN all : ~all[i].name.dirty /\ (all[i].name = all[j].name => i = j)
  BY <1>8, <1>9 DEF Tidy
<1> DEFINE Call(t) == <<t.server, t.kind, t.calls>>
           Calls(tools) == [i \in DOMAIN tools |-> Call(tools[i])]
<1>11. Calls(all) = Calls(one) \o Calls(two)
  <2> DEFINE g == g1 \o g2
  <2>0. /\ \A i \in 1..(Len(g1) + Len(g2)) : Call(all[i]) = Call(g[i])
        /\ \A i \in 1..Len(g1) : Call(one[i]) = Call(g1[i])
        /\ \A i \in 1..Len(g2) : Call(two[i]) = Call(g2[i])
    BY <1>8 DEF Tidy
  <2> HIDE DEF g, Call
  <2>1. \A i \in 1..Len(g1) : Call(all[i]) = Call(one[i])
    <3>1. \A i \in 1..Len(g1) : i \in 1..(Len(g1) + Len(g2)) BY <1>7
    <3> QED BY <1>6, <2>0, <3>1 DEF g
  <2>2. \A i \in 1..Len(g2) : Call(all[Len(g1) + i]) = Call(two[i])
    <3>1. \A i \in 1..Len(g2) : Len(g1) + i \in 1..(Len(g1) + Len(g2)) BY <1>7
    <3> QED BY <1>6, <2>0, <3>1 DEF g
  <2> DEFINE V == {Call(all[i]) : i \in DOMAIN all} \cup {Call(one[i]) : i \in DOMAIN one}
                    \cup {Call(two[i]) : i \in DOMAIN two}
  <2>3. /\ Calls(all) \in [1..(Len(g1) + Len(g2)) -> V] /\ Calls(one) \in [1..Len(g1) -> V]
        /\ Calls(two) \in [1..Len(g2) -> V]
    <3> HIDE DEF Call
    <3> QED BY <1>9
  <2>4. /\ \A i \in 1..Len(g1) : Calls(all)[i] = Calls(one)[i]
        /\ \A i \in 1..Len(g2) : Calls(all)[Len(g1) + i] = Calls(two)[i]
    <3>1. \A i \in 1..Len(g1) : i \in 1..(Len(g1) + Len(g2)) BY <1>7
    <3>2. \A i \in 1..Len(g2) : Len(g1) + i \in 1..(Len(g1) + Len(g2)) BY <1>7
    <3> HIDE DEF Call
    <3> QED BY <1>9, <2>1, <2>2, <3>1, <3>2
  <2> HIDE DEF V, Calls
  <2>5. PICK m, n, x, y, z : /\ m = Len(g1) /\ n = Len(g2)
                             /\ x = Calls(all) /\ y = Calls(one) /\ z = Calls(two)
    OBVIOUS
  <2>6. m \in Nat /\ n \in Nat BY <1>7, <2>5
  <2>7. x \in [1..(m + n) -> V] /\ y \in [1..m -> V] /\ z \in [1..n -> V] BY <2>3, <2>5
  <2>8. InParts(x, y, z, m, n) BY <2>4, <2>5 DEF InParts
  <2>9. x = y \o z BY <2>6, <2>7, <2>8, Joined
  <2> QED BY <2>5, <2>9
<1>12. SubSeq(all, 1, Len(one)) = one BY <1>3, <1>4, <1>5, AppliedBefore DEF T
<1>13. one = << >> => o1 = << >> \/ (o1 = None /\ v1.tools = << >>)
  <2> SUFFICES ASSUME one = << >> PROVE g1 = << >> BY <1>3
  <2>1. Len(g1) = 0 BY <1>9
  <2> QED BY <1>3, <2>1
<1>14. ToolsFor(<<a1, a2>>, view) \subseteq {all}
  <2> DEFINE Blocked(v, a) == ~v.configured \/ v.oauth \/ ~v.connected \/ ~Picks(a, v.tools)
             lists == [i \in DOMAIN <<a1, a2>> |-> Picked(<<a1, a2>>[i], view[<<a1, a2>>[i].server].tools)]
  <2> SUFFICES ASSUME ToolsFor(<<a1, a2>>, view) # {} PROVE ToolsFor(<<a1, a2>>, view) = {all}
    OBVIOUS
  <2>1. DOMAIN <<a1, a2>> = {1, 2} /\ <<a1, a2>>[1] = a1 /\ <<a1, a2>>[2] = a2 OBVIOUS
  <2>2. /\ ToolsFor(<<a1, a2>>, view) = {Apply(FlattenSeq(lists))}
        /\ ~Blocked(v1, a1) /\ ~Blocked(v2, a2)
    BY <1>2, <2>1 DEF ToolsFor
  <2>3. lists = <<Picked(a1, v1.tools), Picked(a2, v2.tools)>> BY <1>2, <2>1
  <2> HIDE DEF lists
  <2>4. g1 = Picked(a1, v1.tools) /\ g2 = Picked(a2, v2.tools) BY <2>2 DEF g1, g2, UserTools, StaticTools
  <2>5. FlattenSeq(lists) = g1 \o g2 BY <2>3, <2>4, FlattenTwo
  <2> QED BY <1>5, <2>2, <2>5
<1> HIDE DEF Calls
<1>15. /\ \A i, j \in DOMAIN all : ~all[i].name.dirty /\ (all[i].name = all[j].name => i = j)
       /\ Calls(all) = Calls(one) \o Calls(two)
       /\ SubSeq(all, 1, Len(one)) = one
       /\ one = << >> => o1 = << >> \/ (o1 = None /\ v1.tools = << >>)
       /\ ToolsFor(<<a1, a2>>, view) \subseteq {all}
  BY <1>10, <1>11, <1>12, <1>13, <1>14
<1> QED BY <1>15 DEF UsableOn, all, one, two, a1, a2, view, Calls

\* The answers a run enumerates are answers.
LEMMA ToolCases == CaseKept => ToolsUsable
<1> SUFFICES ASSUME case \in Cases, case.of = "tools"
             PROVE  UsableOn(case.o1, case.o2, case.v1, case.v2)
  BY DEF ToolsUsable, CaseKept
<1> DEFINE W == {"do"}
<1>1. /\ case.o1 \in SomeOnly /\ case.o2 \in SomeOnly
      /\ case.v1 \in SomeViews /\ case.v2 \in SomeViews
  BY DEF Cases
<1>2. <<"do">> \in Seq(W) /\ << >> \in Seq(Nat) /\ <<2>> \in Seq(Nat) /\ Append(<< >>, 2) = <<2>> OBVIOUS
<1> HIDE DEF W
<1>3. \A b \in BOOLEAN : Name(b, <<"do">>) \in ToolNames(W) BY <1>2 DEF Name, ToolNames
<1>4. Numbered(Name(FALSE, <<"do">>), 2) \in ToolNames(W) BY <1>3, NumberedTyped
<1>5. SomeNames \subseteq ToolNames(W) BY <1>3, <1>4 DEF SomeNames
<1> HIDE DEF W
<1>6. \A s \in SomeTools : s \in Seq(ToolNames(W))
  <2> SUFFICES ASSUME NEW s \in SomeTools PROVE s \in Seq(ToolNames(W)) OBVIOUS
  <2>1. PICK n \in 0..3 : s \in [1..n -> SomeNames] BY DEF SomeTools
  <2>2. n \in Nat /\ s \in Seq(SomeNames) BY <2>1
  <2> QED BY <1>5, <2>2, WiderSeq
<1>7. \A v \in SomeViews : v.tools \in Seq(ToolNames(W)) BY <1>6 DEF SomeViews, Views
<1>8. \A o \in SomeOnly : o = None \/ o \in Seq(ToolNames(W))
  <2> DEFINE N == ToolNames(W)
             a == Name(FALSE, <<"do">>)
             b == Name(TRUE, <<"do">>)
  <2>1. a \in N /\ b \in N BY <1>3
  <2>2. SomeOnly = {None, << >>, <<a>>, <<b, a>>} BY DEF SomeOnly
  <2> HIDE DEF N, a, b
  <2>3. << >> \in Seq(N) /\ <<a>> \in Seq(N) /\ <<b, a>> \in Seq(N) BY <2>1
  <2> QED BY <2>2, <2>3 DEF N
<1> QED BY <1>1, <1>7, <1>8, ToolsAreUsable

\* Every answer of two servers in the runs, in every state.
THEOREM ToolsOffered == MCSpec => []ToolsUsable
<1> QED BY SameCase, ToolCases, PTL

-----------------------------------------------------------------------------
(***************************************************************************)
(* Entries, texts, templates, skill directories and whole files, of any    *)
(* length and over any names.                                              *)
(***************************************************************************)

\* McpServerConfig::deserialize, for every entry of `mcp:`: one that loads is
\* what its fields say, and is authorised exactly when it says so or is a URL
\* that does not opt out.
THEOREM EntriesAreDocumented == \A raw \in Raw : DocumentedOn(raw)
<1> SUFFICES ASSUME NEW raw \in Raw, Loads(raw) PROVE DocumentedOn(raw)
  BY DEF DocumentedOn
<1>1. /\ raw.tag \in {None, "http", "sse", "stdio", "ws"} /\ raw.url \in {None, "plain", "sse"}
      /\ raw.command \in BOOLEAN /\ raw.oauth \in {None, "off", "discover", "static", "junk"}
  BY DEF Raw
<1>2. TransportOf(raw) \in Transports /\ OAuthOf(raw) # "junk" BY DEF Loads
<1>3. CASE raw.tag = None
  <2>1. CASE raw.url # None /\ ~raw.command
    <3>1. TransportOf(raw) = IF HasSsePath(raw.url) THEN "sse" ELSE "http"
      BY <1>3, <2>1 DEF TransportOf
    <3> QED BY <1>1, <1>3, <2>1, <3>1, ShapesAssumption DEF DocumentedOn, OAuthOf, Remote, HasSsePath
  <2>2. CASE raw.url = None /\ raw.command
    <3>1. TransportOf(raw) = "stdio" BY <1>3, <2>2 DEF TransportOf
    <3> QED BY <1>1, <1>3, <2>2, <3>1, ShapesAssumption DEF DocumentedOn, OAuthOf, Remote
  <2>3. CASE ~(raw.url # None /\ ~raw.command) /\ ~(raw.url = None /\ raw.command)
    <3>1. TransportOf(raw) \in {"UrlAndCommand", "Empty"} BY <1>3, <2>3 DEF TransportOf
    <3> QED BY <1>2, <3>1 DEF Transports
  <2> QED BY <2>1, <2>2, <2>3
<1>4. CASE raw.tag # None
  <2>1. CASE raw.tag \in {"http", "sse"} /\ raw.url # None /\ ~raw.command
    <3>1. TransportOf(raw) = raw.tag BY <1>4, <2>1 DEF TransportOf
    <3> QED BY <1>1, <1>4, <2>1, <3>1, ShapesAssumption DEF DocumentedOn, OAuthOf, Remote
  <2>2. CASE raw.tag = "stdio" /\ raw.url = None /\ raw.command
    <3>1. TransportOf(raw) = "stdio" BY <1>4, <2>2 DEF TransportOf
    <3> QED BY <1>1, <1>4, <2>2, <3>1, ShapesAssumption DEF DocumentedOn, OAuthOf, Remote
  <2>3. CASE /\ ~(raw.tag \in {"http", "sse"} /\ raw.url # None /\ ~raw.command)
             /\ ~(raw.tag = "stdio" /\ raw.url = None /\ raw.command)
    <3>1. TransportOf(raw) \in {"UrlTransportWithoutUrl", "StdioWithUrl", "UnknownTag"}
      BY <1>4, <2>3 DEF TransportOf
    <3> QED BY <1>2, <3>1 DEF Transports
  <2> QED BY <2>1, <2>2, <2>3
<1> QED BY <1>3, <1>4

-----------------------------------------------------------------------------
(* The templates of webhooks *)

Pieces(N) == [slot : BOOLEAN, name : N]

\* WebhookTrigger::handle, for any template and any payload: what is enqueued
\* names somebody, with the template's words in their places and the payload's
\* values in the others; a template without slots takes nothing from a payload,
\* and one whose slots are all filled is refused only when nothing or a brace
\* is left.
THEOREM TemplatesAreSubstituted ==
  ASSUME NEW N, NEW template \in Seq(Pieces(N)), NEW payload
  PROVE  SubstitutedOn(template, payload)
<1> DEFINE agent == Substitute(template, payload)
           asked == {template[i].name : i \in {j \in DOMAIN template : template[j].slot}}
           words == {template[i].name : i \in {j \in DOMAIN template : ~template[j].slot}}
           values == words \cup {payload[p] : p \in asked \cap DOMAIN payload}
           enqueued == Summoned([agent |-> template], payload)
<1>1. \A i \in DOMAIN template : template[i].slot \in BOOLEAN
  <2>1. \A i \in DOMAIN template : template[i] \in Pieces(N) OBVIOUS
  <2> QED BY <2>1 DEF Pieces
<1>2. enqueued = {a \in {agent} : ~("{{" \in ToSet(a)) /\ ~(ToSet(a) \subseteq {""})}
  BY DEF Summoned, Holds
<1>3. /\ DOMAIN agent = DOMAIN template
      /\ \A i \in DOMAIN template :
           agent[i] = IF template[i].slot THEN Walk(payload, template[i].name) ELSE template[i].name
  BY DEF Substitute
<1>4. \A i \in DOMAIN template :
        template[i].slot =>
          template[i].name \in asked
          /\ agent[i] = IF template[i].name \in DOMAIN payload THEN payload[template[i].name] ELSE "{{"
  BY <1>3 DEF Walk
<1>5. \A i \in DOMAIN template : ~template[i].slot => template[i].name \in words /\ agent[i] = template[i].name
  BY <1>3
<1>6. ToSet(agent) = {agent[i] : i \in DOMAIN template} BY <1>3 DEF ToSet
<1>7. ASSUME asked \subseteq DOMAIN payload
      PROVE  ToSet(agent) = values
  <2>1. \A i \in DOMAIN template : agent[i] \in values BY <1>4, <1>5, <1>7
  <2>2. ASSUME NEW v \in values PROVE \E i \in DOMAIN template : v = agent[i]
    <3>1. CASE v \in words
      <4>1. PICK i \in DOMAIN template : ~template[i].slot /\ v = template[i].name BY <3>1
      <4> QED BY <1>5, <4>1
    <3>2. CASE v \notin words
      <4>1. PICK p \in asked \cap DOMAIN payload : v = payload[p] BY <3>2
      <4>2. PICK i \in DOMAIN template : template[i].slot /\ p = template[i].name BY <4>1
      <4> QED BY <1>4, <4>1, <4>2
    <3> QED BY <3>1, <3>2
  <2> HIDE DEF agent, values
  <2> QED BY <1>6, <2>1, <2>2
<1>8. ASSUME ~(asked \subseteq DOMAIN payload) PROVE "{{" \in ToSet(agent)
  <2>1. PICK i \in DOMAIN template : template[i].slot /\ template[i].name \notin DOMAIN payload
    BY <1>8
  <2>2. agent[i] = "{{" BY <1>4, <2>1
  <2> HIDE DEF agent
  <2> QED BY <1>6, <2>2
<1>9. (enqueued # {}) <=> ~("{{" \in ToSet(agent)) /\ ~(ToSet(agent) \subseteq {""})
  <2> HIDE DEF agent, enqueued
  <2> QED BY <1>2
<1>10. \A a \in enqueued : a = agent /\ ~("{{" \in ToSet(agent))
  <2> HIDE DEF agent, enqueued
  <2> QED BY <1>2
<1>11. (enqueued # {}) <=> asked \subseteq DOMAIN payload /\ "{{" \notin values /\ ~(values \subseteq {""})
  <2> HIDE DEF agent, enqueued, values, asked
  <2> QED BY <1>7, <1>8, <1>9
<1>12. ASSUME enqueued # {}
       PROVE  \A i \in DOMAIN template :
                agent[i] = IF template[i].slot THEN payload[template[i].name] ELSE template[i].name
  <2>1. asked \subseteq DOMAIN payload BY <1>11, <1>12
  <2> HIDE DEF agent, enqueued
  <2> QED BY <1>1, <1>4, <1>5, <2>1
<1>13. asked = {} => agent = Fired([agent |-> template])
  <2>1. Fired([agent |-> template]) =
          [i \in DOMAIN template |-> IF template[i].slot THEN "{{" ELSE template[i].name]
    BY DEF Fired, Written
  <2>2. ASSUME asked = {} PROVE \A i \in DOMAIN template : ~template[i].slot BY <2>2
  <2>3. agent = [i \in DOMAIN template |->
                   IF template[i].slot THEN Walk(payload, template[i].name) ELSE template[i].name]
    BY DEF Substitute
  <2> HIDE DEF agent, asked
  <2> QED BY <2>1, <2>2, <2>3
<1> HIDE DEF agent, enqueued
<1>14. /\ (enqueued # {}) <=> asked \subseteq DOMAIN payload /\ "{{" \notin values /\ ~(values \subseteq {""})
       /\ \A a \in enqueued :
            /\ \A i \in DOMAIN template :
                 a[i] = IF template[i].slot THEN payload[template[i].name] ELSE template[i].name
            /\ asked = {} => a = Fired([agent |-> template])
  BY <1>10, <1>11, <1>12, <1>13
<1> QED BY <1>14 DEF SubstitutedOn, enqueued

-----------------------------------------------------------------------------
(* The catalog of skills *)

\* What may lie in the directory of skills: a manifest that is missing, without
\* front matter, malformed, or with a name.
Directories(D, N, F) ==
  [name : D, manifest : {None, Bare, Broken} \cup {Fenced(n) : n \in N}, files : SUBSET F]

LEMMA Items ==
  ASSUME NEW S, NEW s \in Seq(S)
  PROVE  Len(s) \in Nat /\ DOMAIN s = 1..Len(s) /\ \A i \in 1..Len(s) : s[i] \in S
<1>1. Len(s) \in Nat /\ DOMAIN s = 1..Len(s) OBVIOUS
<1>2. \A i \in 1..Len(s) : s[i] \in S OBVIOUS
<1> QED BY <1>1, <1>2

\* The highest place of a set of places.
LEMMA Highest ==
  ASSUME NEW n \in Nat, NEW S \in SUBSET (1..n), S # {}
  PROVE  \E i \in S : \A j \in S : j <= i
<1> DEFINE Back == {n - i : i \in S}
<1>1. Back \in SUBSET Nat /\ Back # {}
  <2>1. \A i \in S : i \in 1..n OBVIOUS
  <2>2. \A i \in S : n - i \in Nat BY <2>1
  <2> QED BY <2>2
<1>2. PICK b \in Back : \A c \in Back : b <= c
  <2> HIDE DEF Back
  <2> QED BY <1>1, Least
<1>3. PICK i \in S : b = n - i BY <1>2
<1>4. \A j \in S : b <= n - j BY <1>2
<1>5. \A j \in S : j <= i BY <1>3, <1>4
<1> QED BY <1>5

\* Skills::load and the two tools, for any directories and any list of skills: a
\* boot fails only for a malformed manifest; every directory with a manifest is
\* a skill unless another took its name; what a skill answers is of one
\* directory, and the reader of files comes exactly with a skill.
THEOREM SkillsAreSandboxed ==
  ASSUME NEW D, NEW N, NEW F, None \notin D, None \notin N, "" \notin D, "../" \notin F,
         NEW dirs \in Seq(Directories(D, N, F)), NEW X, NEW listed \in Seq(X)
  PROVE  SkillsOn(dirs, listed)
<1>0. /\ Len(dirs) \in Nat /\ DOMAIN dirs = 1..Len(dirs)
      /\ \A i \in 1..Len(dirs) : dirs[i] \in Directories(D, N, F)
  BY Items
<1> DEFINE kept == {i \in DOMAIN dirs : dirs[i].manifest # None}
           named(n) == {i \in kept : FrontName(dirs[i]) = n}
           last(n) == CHOOSE i \in named(n) : \A j \in named(n) : j <= i
           cat == [n \in {FrontName(dirs[i]) : i \in kept} |-> LoadSkill(dirs[last(n)])]
<1>1. /\ \A i \in kept : i \in 1..Len(dirs)
      /\ \A i \in kept : dirs[i] \in Directories(D, N, F) /\ dirs[i].manifest # None
      /\ Len(dirs) \in Nat
  BY <1>0
<1>2. ASSUME NEW i \in kept
      PROVE  /\ dirs[i].name \in D
             /\ dirs[i].manifest \in {Bare, Broken} \cup {Fenced(n) : n \in N}
             /\ dirs[i].files \subseteq F
  <2>1. dirs[i] \in Directories(D, N, F) /\ dirs[i].manifest # None BY <1>1
  <2> QED BY <2>1 DEF Directories
<1>3. ASSUME NEW i \in kept PROVE ~ManifestParses(dirs[i]) <=> dirs[i].manifest = Broken
  <2>1. \A n \in N : Fenced(n).sound BY DEF Fenced
  <2>2. Bare.sound /\ ~Broken.sound BY DEF Bare, Broken
  <2> QED BY <1>2, <2>1, <2>2 DEF ManifestParses
<1>4. LoadSkills(dirs) = IF \E i \in kept : ~ManifestParses(dirs[i]) THEN {} ELSE {cat}
  BY DEF LoadSkills
<1>5. (LoadSkills(dirs) = {}) <=> \E i \in kept : dirs[i].manifest = Broken
  <2> HIDE DEF kept, cat
  <2> QED BY <1>3, <1>4
<1>6. ASSUME NEW i \in kept PROVE FrontName(dirs[i]) # "" /\ FrontName(dirs[i]) # None
  <2>1. \A n \in N : Fenced(n).name = n BY DEF Fenced
  <2>2. Bare.name = None /\ Broken.name = None BY DEF Bare, Broken
  <2> QED BY <1>2, <2>1, <2>2 DEF FrontName
<1>7. DOMAIN cat = {FrontName(dirs[i]) : i \in kept} OBVIOUS
<1>8. ASSUME NEW n \in DOMAIN cat
      PROVE  last(n) \in kept /\ FrontName(dirs[last(n)]) = n
  <2>1. named(n) \in SUBSET (1..Len(dirs)) /\ named(n) # {}
    <3> HIDE DEF kept
    <3> QED BY <1>1, <1>7
  <2>2. \E i \in named(n) : \A j \in named(n) : j <= i
    <3> HIDE DEF named
    <3> QED BY <1>1, <2>1, Highest
  <2>3. last(n) \in named(n)
    <3> HIDE DEF named
    <3> QED BY <2>2
  <2> QED BY <2>3
<1>9. \A n \in DOMAIN cat : cat[n] = LoadSkill(dirs[last(n)]) BY <1>7
<1> HIDE DEF cat, last, named
<1>10. ASSUME NEW n \in DOMAIN cat
       PROVE  /\ cat[n].body = dirs[last(n)].name
              /\ cat[n].files = dirs[last(n)].files \ {"image", "SKILL.md"}
              /\ cat[n].body # None
  <2>1. /\ cat[n].body = dirs[last(n)].name
        /\ cat[n].files = (dirs[last(n)].files \ {"image"}) \ {"SKILL.md"}
    <3>1. PICK dir : dir = dirs[last(n)] OBVIOUS
    <3>2. cat[n] = LoadSkill(dir) BY <1>9, <3>1
    <3>3. LoadSkill(dir).body = dir.name BY DEF LoadSkill
    <3>4. LoadSkill(dir).files = (dir.files \ {"image"}) \ {"SKILL.md"} BY DEF LoadSkill, SkillFiles
    <3> QED BY <3>1, <3>2, <3>3, <3>4
  <2>2. dirs[last(n)].name \in D BY <1>2, <1>8
  <2> QED BY <2>1, <2>2
<1>11. "" \notin DOMAIN cat BY <1>6, <1>7
<1>12. ASSUME NEW i \in kept
       PROVE  \E n \in DOMAIN cat :
                n = FrontName(dirs[i])
                /\ (cat[n].body = dirs[i].name
                    \/ \E j \in kept \ {i} : FrontName(dirs[j]) = n /\ cat[n].body = dirs[j].name)
  <2>1. PICK n \in DOMAIN cat : n = FrontName(dirs[i]) BY <1>7
  <2>2. last(n) \in kept /\ FrontName(dirs[last(n)]) = n /\ cat[n].body = dirs[last(n)].name
    BY <1>8, <1>10
  <2> HIDE DEF kept
  <2>3. last(n) = i \/ last(n) \in kept \ {i} BY <2>2
  <2> QED BY <2>1, <2>2, <2>3
<1>13. ASSUME NEW n, NEW path, CallFile(cat, [skill |-> n, path |-> path]) # None
       PROVE  LET found == CallFile(cat, [skill |-> n, path |-> path])
              IN  /\ path.file \notin {"SKILL.md", "image"} /\ path.lead # "../"
                  /\ found = CallSkill(cat, n)
                  /\ \E i \in kept : dirs[i].name = found /\ path.file \in dirs[i].files
  <2>1. CallFile(cat, [skill |-> n, path |-> path]) = ReadFile(cat, n, path)
    BY <1>13 DEF CallFile
  <2>2. n \in DOMAIN cat /\ Normalize(path) \in cat[n].files /\ ReadFile(cat, n, path) = cat[n].body
    BY <1>13, <2>1 DEF ReadFile
  <2>3. /\ last(n) \in kept /\ dirs[last(n)].files \subseteq F /\ cat[n].body = dirs[last(n)].name
        /\ Normalize(path) \in dirs[last(n)].files /\ Normalize(path) \notin {"SKILL.md", "image"}
    BY <1>2, <1>8, <1>10, <2>2
  <2>4. path.lead # "../" /\ Normalize(path) = path.file BY <2>3 DEF Normalize
  <2>5. CallSkill(cat, n) = cat[n].body BY <2>2 DEF CallSkill
  <2> HIDE DEF kept
  <2> QED BY <2>1, <2>2, <2>3, <2>4, <2>5
<1>14. "skill_file" \in SkillTools(cat, listed) <=> \E i \in DOMAIN listed : CallSkill(cat, listed[i]) # None
  <2>1. \A n : CallSkill(cat, n) # None <=> n \in DOMAIN cat BY <1>10 DEF CallSkill
  <2>2. "skill_file" \in SkillTools(cat, listed) <=> ToSet(listed) \cap DOMAIN cat # {}
    BY DEF SkillTools
  <2>3. ToSet(listed) = {listed[i] : i \in DOMAIN listed} BY DEF ToSet
  <2> QED BY <2>1, <2>2, <2>3
<1>15. \A catalog \in LoadSkills(dirs) : catalog = cat
  <2> HIDE DEF kept
  <2> QED BY <1>4
<1> DEFINE Boxed(catalog) ==
             /\ "" \notin DOMAIN catalog
             /\ \A i \in kept : \E n \in DOMAIN catalog :
                  n = FrontName(dirs[i])
                  /\ (catalog[n].body = dirs[i].name
                      \/ \E j \in kept \ {i} : FrontName(dirs[j]) = n /\ catalog[n].body = dirs[j].name)
             /\ \A n \in DOMAIN catalog \cup {"ghost", None}, path \in SomePaths :
                  LET found == CallFile(catalog, [skill |-> n, path |-> path])
                  IN  found # None =>
                        /\ path.file \notin {"SKILL.md", "image"} /\ path.lead # "../"
                        /\ found = CallSkill(catalog, n)
                        /\ \E i \in kept : dirs[i].name = found /\ path.file \in dirs[i].files
             /\ "skill_file" \in SkillTools(catalog, listed) <=>
                  \E i \in DOMAIN listed : CallSkill(catalog, listed[i]) # None
<1>16. \A catalog \in LoadSkills(dirs) : Boxed(catalog)
  <2>1. Boxed(cat)
    <3> HIDE DEF kept
    <3> QED BY <1>11, <1>12, <1>13, <1>14
  <2> HIDE DEF Boxed
  <2> QED BY <1>15, <2>1
<1> QED BY <1>5, <1>16 DEF SkillsOn

-----------------------------------------------------------------------------
(* The expansion of placeholders *)

LEMMA JoinedSet ==
  ASSUME NEW T, NEW a \in Seq(T), NEW b \in Seq(T)
  PROVE  a \o b \in Seq(T) /\ ToSet(a \o b) = ToSet(a) \cup ToSet(b)
<1>1. PICK c : c = a \o b OBVIOUS
<1>2. c \in Seq(T) /\ Len(c) = Len(a) + Len(b) /\ Len(a) \in Nat /\ Len(b) \in Nat BY <1>1
<1>3. /\ DOMAIN a = 1..Len(a) /\ DOMAIN b = 1..Len(b) /\ DOMAIN c = 1..(Len(a) + Len(b))
  BY <1>2
<1>4. ASSUME NEW i \in 1..(Len(a) + Len(b))
      PROVE  c[i] = IF i <= Len(a) THEN a[i] ELSE b[i - Len(a)]
  BY <1>1, <1>2
<1>5. \A i \in 1..Len(a) : i \in 1..(Len(a) + Len(b)) /\ c[i] = a[i] BY <1>2, <1>4
<1>6. ASSUME NEW i \in 1..Len(b) PROVE Len(a) + i \in 1..(Len(a) + Len(b)) /\ c[Len(a) + i] = b[i]
  <2>1. PICK j : j = Len(a) + i OBVIOUS
  <2>2. j \in 1..(Len(a) + Len(b)) /\ ~(j <= Len(a)) /\ j - Len(a) = i BY <1>2, <2>1
  <2>3. c[j] = b[j - Len(a)] BY <1>4, <2>2
  <2> QED BY <2>1, <2>2, <2>3
<1>7. ASSUME NEW i \in 1..(Len(a) + Len(b)), ~(i <= Len(a))
      PROVE  i - Len(a) \in 1..Len(b) /\ c[i] = b[i - Len(a)]
  BY <1>2, <1>4, <1>7
<1>8. \A x \in ToSet(a) : x \in ToSet(c) BY <1>3, <1>5 DEF ToSet
<1>9. \A x \in ToSet(b) : x \in ToSet(c)
  <2> SUFFICES ASSUME NEW i \in 1..Len(b) PROVE b[i] \in ToSet(c) BY <1>3 DEF ToSet
  <2>1. PICK j : j = Len(a) + i OBVIOUS
  <2>2. j \in DOMAIN c /\ c[j] = b[i] BY <1>3, <1>6, <2>1
  <2> QED BY <2>2 DEF ToSet
<1>10. \A x \in ToSet(c) : x \in ToSet(a) \cup ToSet(b)
  <2> SUFFICES ASSUME NEW i \in DOMAIN c PROVE c[i] \in ToSet(a) \cup ToSet(b) BY DEF ToSet
  <2>1. CASE i <= Len(a)
    <3>1. i \in 1..Len(a) BY <1>2, <1>3, <2>1
    <3> QED BY <1>3, <1>5, <3>1 DEF ToSet
  <2>2. CASE ~(i <= Len(a))
    <3>1. PICK j : j = i - Len(a) OBVIOUS
    <3>2. j \in DOMAIN b /\ c[i] = b[j] BY <1>3, <1>7, <2>2, <3>1
    <3> QED BY <3>2 DEF ToSet
  <2> QED BY <2>1, <2>2
<1>11. ToSet(c) = ToSet(a) \cup ToSet(b)
  <2> QED BY <1>8, <1>9, <1>10
<1> QED BY <1>1, <1>2, <1>11

\* What a list of parts holds is what its parts hold.
LEMMA Flattened ==
  ASSUME NEW T, NEW n \in Nat, NEW parts \in [1..n -> Seq(T)]
  PROVE  /\ FlattenSeq(parts) \in Seq(T)
         /\ ToSet(FlattenSeq(parts)) = UNION {ToSet(parts[i]) : i \in 1..n}
<1>1. parts \in Seq(Seq(T)) /\ Len(parts) = n OBVIOUS
<1>2. << >> \in Seq(T) /\ ToSet(<< >>) = {} BY DEF ToSet
<1>3. CASE n = 0
  <2>1. parts = << >> BY <1>1, <1>3
  <2>2. FlattenSeq(parts) = parts BY <1>1, <1>3 DEF FlattenSeq
  <2>3. 1..n = {} BY <1>3
  <2>4. UNION {ToSet(parts[i]) : i \in 1..n} = {} BY <2>3
  <2> QED BY <1>2, <2>1, <2>2, <2>4
<1>4. CASE n # 0
  <2> DEFINE Value(h, i) == IF i = 1 THEN parts[i] ELSE h[i - 1] \o parts[i]
             flat == CHOOSE h : h = [i \in 1 .. Len(parts) |-> Value(h, i)]
             Part(i) == UNION {ToSet(parts[j]) : j \in 1..i}
             Good == {0} \cup {i \in 1..n : flat[i] \in Seq(T) /\ ToSet(flat[i]) = Part(i)}
             step == [p \in (1..n) \X Seq(T) |-> p[2] \o parts[p[1]]]
  <2>1. FlattenSeq(parts) = flat[n] BY <1>1, <1>4 DEF FlattenSeq
  <2>2. Solvable(Seq(T), n, << >>, step)
    <3>1. step \in [(1..n) \X Seq(T) -> Seq(T)]
      <4>1. \A p \in (1..n) \X Seq(T) : p[2] \o parts[p[1]] \in Seq(T) BY JoinedSet
      <4> QED BY <4>1
    <3> HIDE DEF step
    <3> QED BY <1>2, <3>1, Recursion
  <2>3. PICK g \in [0 .. n -> Seq(T)] : \A k \in 0 .. n : g[k] = NextOf(<< >>, step, g, k)
    <3> HIDE DEF step
    <3> QED BY <2>2 DEF Solvable
  <2>4. \A i \in 1..n : g[i] = g[i - 1] \o parts[i]
    <3> SUFFICES ASSUME NEW i \in 1..n PROVE g[i] = g[i - 1] \o parts[i] OBVIOUS
    <3>1. i \in 0..n /\ i - 1 \in 0..n /\ i # 0 OBVIOUS
    <3>2. g[i - 1] \in Seq(T) BY <3>1
    <3>3. <<i, g[i - 1]>> \in (1..n) \X Seq(T) BY <3>2
    <3>4. step[<<i, g[i - 1]>>] = g[i - 1] \o parts[i] BY <3>3
    <3> HIDE DEF step
    <3>5. g[i] = step[<<i, g[i - 1]>>] BY <2>3, <3>1 DEF NextOf
    <3> QED BY <3>4, <3>5
  <2>5. g[0] = << >>
    <3> HIDE DEF step
    <3>1. 0 \in 0..n OBVIOUS
    <3> QED BY <2>3, <3>1 DEF NextOf
  <2> HIDE DEF step
  <2> DEFINE h == [i \in 1..n |-> g[i]]
  <2>6. \A i \in 1..n : h[i] = Value(h, i)
    <3> SUFFICES ASSUME NEW i \in 1..n PROVE h[i] = Value(h, i) OBVIOUS
    <3>1. CASE i = 1
      <4>1. g[1] = g[0] \o parts[1]
        <5>1. 1 \in 1..n /\ 1 - 1 = 0 BY <3>1
        <5> QED BY <2>4, <5>1
      <4>2. parts[1] \in Seq(T) BY <3>1
      <4>3. << >> \o parts[1] = parts[1] BY <4>2
      <4> QED BY <2>5, <3>1, <4>1, <4>3
    <3>2. CASE i # 1
      <4>1. i - 1 \in 1..n BY <3>2
      <4>2. h[i - 1] = g[i - 1] /\ h[i] = g[i] BY <4>1
      <4> HIDE DEF h
      <4> QED BY <2>4, <3>2, <4>2
    <3> QED BY <3>1, <3>2
  <2>7. h = [i \in 1..n |-> h[i]] OBVIOUS
  <2> HIDE DEF h, Value
  <2>8. h = [i \in 1 .. Len(parts) |-> Value(h, i)] BY <1>1, <2>6, <2>7
  <2>9. flat = [i \in 1 .. n |-> Value(flat, i)] BY <1>1, <2>8
  <2> HIDE DEF flat
  <2>10. \A i \in 1..n : flat[i] = Value(flat, i) BY <2>9
  <2>11. Onward(n, Good)
    <3> SUFFICES ASSUME NEW k \in 1..n, k - 1 \in Good PROVE k \in Good BY DEF Onward
    <3>1. parts[k] \in Seq(T) OBVIOUS
    <3>2. CASE k = 1
      <4>1. flat[k] = parts[k] BY <2>10, <3>2 DEF Value
      <4>2. \A i \in 1..k : i = k BY <3>2
      <4>3. k \in 1..k OBVIOUS
      <4>4. Part(k) = ToSet(parts[k]) BY <4>2, <4>3
      <4> HIDE DEF Part
      <4> QED BY <3>1, <4>1, <4>4
    <3>3. CASE k # 1
      <4>1. k - 1 \in 1..n /\ k - 1 # 0 BY <3>3
      <4>2. flat[k] = flat[k - 1] \o parts[k] BY <2>10, <3>3 DEF Value
      <4>3. flat[k - 1] \in Seq(T) /\ ToSet(flat[k - 1]) = Part(k - 1)
        <5> HIDE DEF Part
        <5> QED BY <4>1
      <4>4. Part(k) = Part(k - 1) \cup ToSet(parts[k])
        <5>1. \A i \in 1..k : i = k \/ i \in 1..(k - 1) OBVIOUS
        <5>2. k \in 1..k /\ \A i \in 1..(k - 1) : i \in 1..k OBVIOUS
        <5> QED BY <5>1, <5>2
      <4> HIDE DEF Part
      <4>5. flat[k] \in Seq(T) /\ ToSet(flat[k]) = ToSet(flat[k - 1]) \cup ToSet(parts[k])
        BY <3>1, <4>2, <4>3, JoinedSet
      <4> QED BY <4>3, <4>4, <4>5
    <3> QED BY <3>2, <3>3
  <2>12. n \in 0..n OBVIOUS
  <2>13. n \in Good
    <3> HIDE DEF Good
    <3> QED BY <2>11, <2>12, Everywhere
  <2>14. flat[n] \in Seq(T) /\ ToSet(flat[n]) = Part(n)
    <3> HIDE DEF Part
    <3> QED BY <1>4, <2>13
  <2> QED BY <2>1, <2>14
<1> QED BY <1>3, <1>4

\* What is left of a text when the tokens of a kind have been replaced, and
\* what came in.
LEMMA AfterReplacing ==
  ASSUME NEW T, NEW kind, NEW text \in Seq(T), NEW table,
         \A n \in DOMAIN table : table[n] \in Seq(T),
         Mentions(text, kind) \subseteq DOMAIN table
  PROVE  /\ Replaced(text, kind, table) \in Seq(T)
         /\ ToSet(Replaced(text, kind, table)) =
              {t \in ToSet(text) : t.kind # kind}
              \cup UNION {ToSet(table[n]) : n \in Mentions(text, kind)}
<1> DEFINE parts == [i \in DOMAIN text |->
                       IF text[i].kind = kind THEN table[text[i].name] ELSE <<text[i]>>]
           R == Replaced(text, kind, table)
<1>1. Len(text) \in Nat /\ DOMAIN text = 1..Len(text) /\ \A i \in 1..Len(text) : text[i] \in T BY Items
<1>2. R = FlattenSeq(parts) BY DEF Replaced
<1>3. \A n : n \in Mentions(text, kind) <=> \E i \in DOMAIN text : text[i].kind = kind /\ n = text[i].name
  BY DEF Mentions, ToSet
<1>4. ASSUME NEW i \in DOMAIN text PROVE parts[i] \in Seq(T)
  <2>1. CASE text[i].kind = kind
    <3>1. text[i].name \in DOMAIN table BY <1>3, <2>1
    <3> QED BY <2>1, <3>1
  <2>2. CASE text[i].kind # kind
    <3>1. text[i] \in T BY <1>1
    <3> QED BY <2>2, <3>1
  <2> QED BY <2>1, <2>2
<1>5. parts \in [1..Len(text) -> Seq(T)]
  <2>1. DOMAIN parts = DOMAIN text /\ parts = [i \in DOMAIN text |-> parts[i]] OBVIOUS
  <2> HIDE DEF parts
  <2> QED BY <1>1, <1>4, <2>1
<1>6. \A i \in DOMAIN text : text[i].kind = kind => parts[i] = table[text[i].name] OBVIOUS
<1>7. ASSUME NEW i \in DOMAIN text, text[i].kind # kind PROVE ToSet(parts[i]) = {text[i]}
  <2>1. parts[i] = <<text[i]>> BY <1>7
  <2>2. \A x : ToSet(<<x>>) = {x} BY DEF ToSet
  <2> HIDE DEF parts
  <2> QED BY <2>1, <2>2
<1> HIDE DEF parts
<1>8. R \in Seq(T) /\ ToSet(R) = UNION {ToSet(parts[i]) : i \in DOMAIN text}
  BY <1>1, <1>2, <1>5, Flattened
<1> HIDE DEF R
<1>9. ASSUME NEW x \in ToSet(R)
      PROVE  x \in {t \in ToSet(text) : t.kind # kind} \cup UNION {ToSet(table[n]) : n \in Mentions(text, kind)}
  <2>1. PICK i \in DOMAIN text : x \in ToSet(parts[i]) BY <1>8
  <2>2. CASE text[i].kind = kind
    <3>1. text[i].name \in Mentions(text, kind) /\ x \in ToSet(table[text[i].name])
      BY <1>3, <1>6, <2>1, <2>2
    <3> QED BY <3>1
  <2>3. CASE text[i].kind # kind
    <3>1. x = text[i] BY <1>7, <2>1, <2>3
    <3>2. x \in ToSet(text) BY <3>1 DEF ToSet
    <3> QED BY <2>3, <3>1, <3>2
  <2> QED BY <2>2, <2>3
<1>10. ASSUME NEW x \in ToSet(text), x.kind # kind PROVE x \in ToSet(R)
  <2>1. PICK i \in DOMAIN text : x = text[i] BY DEF ToSet
  <2>2. x \in ToSet(parts[i]) BY <1>7, <1>10, <2>1
  <2> QED BY <1>8, <2>2
<1>11. ASSUME NEW n \in Mentions(text, kind), NEW x \in ToSet(table[n]) PROVE x \in ToSet(R)
  <2>1. PICK i \in DOMAIN text : text[i].kind = kind /\ n = text[i].name BY <1>3
  <2>2. x \in ToSet(parts[i]) BY <1>6, <2>1
  <2> QED BY <1>8, <2>2
<1>12. ToSet(R) = {t \in ToSet(text) : t.kind # kind}
                  \cup UNION {ToSet(table[n]) : n \in Mentions(text, kind)}
  BY <1>9, <1>10, <1>11
<1> QED BY <1>8, <1>12 DEF R

LEMMA MentionsLeft ==
  ASSUME NEW T, NEW kind, NEW text \in Seq(T), NEW table,
         \A n \in DOMAIN table : table[n] \in Seq(T),
         Mentions(text, kind) \subseteq DOMAIN table, NEW other
  PROVE  Mentions(Replaced(text, kind, table), other) =
           (IF other = kind THEN {} ELSE Mentions(text, other))
           \cup UNION {Mentions(table[n], other) : n \in Mentions(text, kind)}
<1> DEFINE R == Replaced(text, kind, table)
           named == Mentions(text, kind)
           stays == IF other = kind THEN {} ELSE Mentions(text, other)
           comes == UNION {Mentions(table[n], other) : n \in named}
<1>1. ToSet(R) = {t \in ToSet(text) : t.kind # kind} \cup UNION {ToSet(table[n]) : n \in named}
  BY AfterReplacing
<1>2. \A s, x : x \in Mentions(s, other) <=> \E t \in ToSet(s) : t.kind = other /\ x = t.name
  BY DEF Mentions
<1> HIDE DEF R, named
<1>3. ASSUME NEW x \in Mentions(R, other) PROVE x \in stays \cup comes
  <2>1. PICK t \in ToSet(R) : t.kind = other /\ x = t.name BY <1>2
  <2>2. CASE t \in ToSet(text) /\ t.kind # kind
    <3>1. x \in Mentions(text, other) /\ other # kind BY <1>2, <2>1, <2>2
    <3> QED BY <3>1
  <2>3. CASE ~(t \in ToSet(text) /\ t.kind # kind)
    <3>1. PICK n \in named : t \in ToSet(table[n]) BY <1>1, <2>3
    <3>2. x \in Mentions(table[n], other) BY <1>2, <2>1, <3>1
    <3> QED BY <3>2
  <2> QED BY <2>2, <2>3
<1>4. ASSUME NEW x \in stays PROVE x \in Mentions(R, other)
  <2>1. other # kind /\ x \in Mentions(text, other) BY <1>4
  <2>2. PICK t \in ToSet(text) : t.kind = other /\ x = t.name BY <1>2, <2>1
  <2>3. t \in ToSet(R) BY <1>1, <2>1, <2>2
  <2> QED BY <1>2, <2>2, <2>3
<1>5. ASSUME NEW x \in comes PROVE x \in Mentions(R, other)
  <2>1. PICK n \in named : x \in Mentions(table[n], other) BY <1>5
  <2>2. PICK t \in ToSet(table[n]) : t.kind = other /\ x = t.name BY <1>2, <2>1
  <2>3. t \in ToSet(R) BY <1>1, <2>2
  <2> QED BY <1>2, <2>2, <2>3
<1>6. Mentions(R, other) = stays \cup comes
  <2> HIDE DEF stays, comes
  <2> QED BY <1>3, <1>4, <1>5
<1> QED BY <1>6 DEF R, named

\* Config::from_str, for any text, any `vars:` table and any environment: a file
\* loads exactly when everything it asks for is there, in the body, in the table
\* and in what the environment brings in, and what is loaded holds no
\* placeholder but those a variable brought in as text.
THEOREM TextsAreExpanded ==
  ASSUME NEW T, NEW body \in Seq(T),
         NEW table, \A n \in DOMAIN table : table[n] \in Seq(T),
         NEW env, \A n \in DOMAIN env : env[n] \in Seq(T)
  PROVE  ExpandsOn(table, body, env)
<1> DEFINE texts       == {table[n] : n \in DOMAIN table} \cup {body}
           asked(kind) == UNION {Mentions(s, kind) : s \in texts}
           used        == {env[n] : n \in asked("env") \cap DOMAIN env}
           brought(kind, from) == UNION {Mentions(s, kind) : s \in from}
           results     == Expanded(table, body, env)
           fill(s)     == Replaced(s, "env", env)
           values        == [n \in DOMAIN table |-> fill(table[n])]
           ready       == asked("open") = {} /\ asked("env") \subseteq DOMAIN env
           complete    == asked("var") \cup brought("var", used) \subseteq DOMAIN table
<1>1. \A s \in texts : s \in Seq(T) OBVIOUS
<1>2. \A s : ExpandEnvVars(s, env) # {} <=> Mentions(s, "open") = {} /\ Mentions(s, "env") \subseteq DOMAIN env
  BY DEF ExpandEnvVars
<1>3. \A s : ExpandConfigVars(s, values) =
               IF Mentions(s, "var") \subseteq DOMAIN table THEN {Replaced(s, "var", values)} ELSE {}
  BY DEF ExpandConfigVars
<1>4. Expanded(table, body, env) =
        IF \E s \in texts : ExpandEnvVars(s, env) = {} THEN {}
        ELSE IF \E n \in DOMAIN table : ExpandConfigVars(values[n], values) = {} THEN {}
        ELSE ExpandConfigVars(fill(body), values)
  <2>1. DOMAIN values = DOMAIN table /\ texts = {body} \cup {table[n] : n \in DOMAIN table} OBVIOUS
  <2> QED BY <2>1 DEF Expanded
<1>5. DOMAIN values = DOMAIN table /\ \A n \in DOMAIN table : values[n] = fill(table[n]) OBVIOUS
<1>6. body \in texts /\ \A n \in DOMAIN table : table[n] \in texts OBVIOUS
<1>7. \A s \in texts : s = body \/ \E n \in DOMAIN table : s = table[n] OBVIOUS
<1> HIDE DEF texts, values
<1>8. ready <=> \A s \in texts : ExpandEnvVars(s, env) # {} BY <1>2
<1>9. ASSUME ready, NEW s \in texts, NEW other
      PROVE  /\ fill(s) \in Seq(T)
             /\ Mentions(fill(s), other) =
                  (IF other = "env" THEN {} ELSE Mentions(s, other))
                  \cup UNION {Mentions(env[n], other) : n \in Mentions(s, "env")}
  <2>1. s \in Seq(T) /\ Mentions(s, "env") \subseteq DOMAIN env BY <1>1, <1>9
  <2> HIDE DEF ready
  <2>2. Replaced(s, "env", env) \in Seq(T) BY <2>1, AfterReplacing
  <2>3. Mentions(Replaced(s, "env", env), other) =
          (IF other = "env" THEN {} ELSE Mentions(s, other))
          \cup UNION {Mentions(env[n], other) : n \in Mentions(s, "env")}
    BY <2>1, MentionsLeft
  <2> QED BY <2>2, <2>3
<1>10. ASSUME ready, NEW s \in texts, NEW n \in Mentions(s, "env") PROVE env[n] \in used
  BY <1>10
<1>11. ASSUME ready, NEW v \in used
       PROVE  \E s \in texts : \E n \in Mentions(s, "env") : v = env[n]
  <2>1. PICK n \in asked("env") \cap DOMAIN env : v = env[n] BY <1>11
  <2>2. PICK s \in texts : n \in Mentions(s, "env") BY <2>1
  <2> QED BY <2>1, <2>2
<1> HIDE DEF used, fill
<1>12. ASSUME ready
       PROVE  complete <=> \A s \in texts : Mentions(fill(s), "var") \subseteq DOMAIN table
  <2>1. ASSUME complete, NEW s \in texts, NEW x \in Mentions(fill(s), "var") PROVE x \in DOMAIN table
    <3>1. x \in Mentions(s, "var") \/ \E n \in Mentions(s, "env") : x \in Mentions(env[n], "var")
      BY <1>9, <1>12, <2>1
    <3>2. CASE x \in Mentions(s, "var") BY <2>1, <3>2
    <3>3. CASE \E n \in Mentions(s, "env") : x \in Mentions(env[n], "var")
      <4>1. PICK n \in Mentions(s, "env") : x \in Mentions(env[n], "var") BY <3>3
      <4>2. env[n] \in used BY <1>10, <1>12
      <4>3. x \in brought("var", used) BY <4>1, <4>2
      <4> QED BY <2>1, <4>3
    <3> QED BY <3>1, <3>2, <3>3
  <2>2. ASSUME \A s \in texts : Mentions(fill(s), "var") \subseteq DOMAIN table PROVE complete
    <3>1. ASSUME NEW x \in asked("var") PROVE x \in DOMAIN table
      <4>1. PICK s \in texts : x \in Mentions(s, "var") OBVIOUS
      <4>2. x \in Mentions(fill(s), "var") BY <1>9, <1>12, <4>1
      <4> QED BY <2>2, <4>2
    <3>2. ASSUME NEW x \in brought("var", used) PROVE x \in DOMAIN table
      <4>1. PICK v \in used : x \in Mentions(v, "var") OBVIOUS
      <4>2. PICK s \in texts : \E n \in Mentions(s, "env") : v = env[n] BY <1>11, <1>12
      <4>3. PICK n \in Mentions(s, "env") : v = env[n] BY <4>2
      <4>4. x \in Mentions(fill(s), "var") BY <1>9, <1>12, <4>1, <4>3
      <4> QED BY <2>2, <4>4
    <3> QED BY <3>1, <3>2
  <2> QED BY <2>1, <2>2
<1>13. results =
         IF ready /\ \A s \in texts : Mentions(fill(s), "var") \subseteq DOMAIN table
         THEN {Replaced(fill(body), "var", values)} ELSE {}
  <2>1. CASE ~ready
    <3>1. \E s \in texts : ExpandEnvVars(s, env) = {} BY <1>8, <2>1
    <3> HIDE DEF ready
    <3> QED BY <1>4, <2>1, <3>1
  <2>2. CASE ready
    <3>1. ~\E s \in texts : ExpandEnvVars(s, env) = {} BY <1>8, <2>2
    <3> HIDE DEF ready
    <3>2. results = IF \E n \in DOMAIN table : ExpandConfigVars(values[n], values) = {} THEN {}
                    ELSE ExpandConfigVars(fill(body), values)
      BY <1>4, <3>1
    <3> HIDE DEF results
    <3>3. CASE \E n \in DOMAIN table : ~(Mentions(fill(table[n]), "var") \subseteq DOMAIN table)
      <4>1. PICK n \in DOMAIN table : ~(Mentions(fill(table[n]), "var") \subseteq DOMAIN table) BY <3>3
      <4>2. ExpandConfigVars(values[n], values) = {} BY <1>3, <1>5, <4>1
      <4>3. results = {} BY <3>2, <4>2
      <4> QED BY <1>6, <4>1, <4>3
    <3>4. CASE \A n \in DOMAIN table : Mentions(fill(table[n]), "var") \subseteq DOMAIN table
      <4>1. \A n \in DOMAIN table : ExpandConfigVars(values[n], values) # {} BY <1>3, <1>5, <3>4
      <4>2. results = ExpandConfigVars(fill(body), values) BY <3>2, <4>1
      <4>3. (\A s \in texts : Mentions(fill(s), "var") \subseteq DOMAIN table)
              <=> Mentions(fill(body), "var") \subseteq DOMAIN table
        BY <1>6, <1>7, <3>4
      <4> QED BY <1>3, <2>2, <4>2, <4>3
    <3> QED BY <3>3, <3>4
  <2> QED BY <2>1, <2>2
<1>14. (results # {}) <=> ready /\ complete
  <2> HIDE DEF ready, complete, results
  <2> QED BY <1>12, <1>13
<1>15. ASSUME NEW result \in results
       PROVE  /\ Mentions(result, "env") \subseteq brought("env", used)
              /\ Mentions(result, "var") \subseteq brought("var", used \cup {table[n] : n \in DOMAIN table})
  <2> DEFINE after == fill(body)
  <2>1. ready /\ result = Replaced(after, "var", values) /\ Mentions(after, "var") \subseteq DOMAIN table
    <3> HIDE DEF ready, results, complete
    <3> QED BY <1>6, <1>13
  <2>2. after \in Seq(T) BY <1>6, <1>9, <2>1
  <2>3. \A n \in DOMAIN values : values[n] \in Seq(T)
    <3> HIDE DEF ready
    <3> QED BY <1>5, <1>6, <1>9, <2>1
  <2> HIDE DEF after
  <2>4. \A other : Mentions(result, other) =
          (IF other = "var" THEN {} ELSE Mentions(after, other))
          \cup UNION {Mentions(values[n], other) : n \in Mentions(after, "var")}
    BY <1>5, <2>1, <2>2, <2>3, MentionsLeft
  <2>5. ASSUME NEW s \in texts, NEW x \in Mentions(fill(s), "env") PROVE x \in brought("env", used)
    <3>1. PICK n \in Mentions(s, "env") : x \in Mentions(env[n], "env") BY <1>9, <2>1
    <3>2. env[n] \in used BY <1>10, <2>1
    <3> QED BY <3>1, <3>2
  <2>6. ASSUME NEW n \in DOMAIN table, NEW x \in Mentions(fill(table[n]), "var")
        PROVE  x \in brought("var", used \cup {table[k] : k \in DOMAIN table})
    <3>1. x \in Mentions(table[n], "var") \/ \E k \in Mentions(table[n], "env") : x \in Mentions(env[k], "var")
      BY <1>6, <1>9, <2>1
    <3>2. CASE x \in Mentions(table[n], "var") BY <3>2
    <3>3. CASE \E k \in Mentions(table[n], "env") : x \in Mentions(env[k], "var")
      <4>1. PICK k \in Mentions(table[n], "env") : x \in Mentions(env[k], "var") BY <3>3
      <4>2. env[k] \in used BY <1>6, <1>10, <2>1
      <4> QED BY <4>1, <4>2
    <3> QED BY <3>1, <3>2, <3>3
  <2> HIDE DEF brought
  <2>7. ASSUME NEW x \in Mentions(result, "env") PROVE x \in brought("env", used)
    <3>1. x \in Mentions(after, "env") \/ \E n \in Mentions(after, "var") : x \in Mentions(values[n], "env")
      BY <2>4
    <3>2. CASE x \in Mentions(after, "env") BY <1>6, <2>5, <3>2 DEF after
    <3>3. CASE \E n \in Mentions(after, "var") : x \in Mentions(values[n], "env")
      <4>1. PICK n \in Mentions(after, "var") : x \in Mentions(values[n], "env") BY <3>3
      <4>2. n \in DOMAIN table /\ x \in Mentions(fill(table[n]), "env") BY <1>5, <2>1, <4>1
      <4> QED BY <1>6, <2>5, <4>2
    <3> QED BY <3>1, <3>2, <3>3
  <2>8. ASSUME NEW x \in Mentions(result, "var")
        PROVE  x \in brought("var", used \cup {table[k] : k \in DOMAIN table})
    <3>1. PICK n \in Mentions(after, "var") : x \in Mentions(values[n], "var") BY <2>4
    <3>2. n \in DOMAIN table /\ x \in Mentions(fill(table[n]), "var") BY <1>5, <2>1, <3>1
    <3> QED BY <2>6, <3>2
  <2> QED BY <2>7, <2>8
<1> HIDE DEF results
<1>16. /\ (results # {}) <=>
            /\ asked("open") = {} /\ asked("env") \subseteq DOMAIN env
            /\ asked("var") \cup brought("var", used) \subseteq DOMAIN table
       /\ \A result \in results :
            /\ Mentions(result, "env") \subseteq brought("env", used)
            /\ Mentions(result, "var") \subseteq brought("var", used \cup {table[n] : n \in DOMAIN table})
  BY <1>14, <1>15
<1> QED BY <1>16 DEF ExpandsOn, texts, used, results

-----------------------------------------------------------------------------
(* The cross-references of a file *)

\* A section is a list of entries.
Listed(s) == s \in Seq(ToSet(s))

File(d) ==
  /\ Listed(d.agents) /\ Listed(d.judges) /\ Listed(d.experiments) /\ Listed(d.smoke)
  /\ Listed(d.triggers) /\ Listed(d.sidecars)
  /\ \A e \in ToSet(d.experiments) : Listed(e.variants)
  /\ \A s \in ToSet(d.smoke) : s.turns \in Nat /\ s.repetitions \in Nat

LEMMA Entries ==
  \A s, x : x \in ToSet(s) <=> \E i \in DOMAIN s : x = s[i]
<1> QED BY DEF ToSet

LEMMA NamesHeld ==
  \A s, n : n \in NamesIn(s) <=> \E x \in ToSet(s) : n = x.name
<1> SUFFICES ASSUME NEW s, NEW n
             PROVE  n \in NamesIn(s) <=> \E x \in ToSet(s) : n = x.name
  OBVIOUS
<1>1. n \in NamesIn(s) <=> \E i \in DOMAIN s : n = s[i].name BY DEF NamesIn
<1>2. (\E i \in DOMAIN s : n = s[i].name) => \E x \in ToSet(s) : n = x.name
  <2> SUFFICES ASSUME NEW i \in DOMAIN s, n = s[i].name PROVE \E x \in ToSet(s) : n = x.name
    OBVIOUS
  <2>1. s[i] \in ToSet(s) BY Entries
  <2> QED BY <2>1
<1>3. (\E x \in ToSet(s) : n = x.name) => \E i \in DOMAIN s : n = s[i].name
  <2> SUFFICES ASSUME NEW x \in ToSet(s), n = x.name PROVE \E i \in DOMAIN s : n = s[i].name
    OBVIOUS
  <2>1. PICK i \in DOMAIN s : x = s[i] BY Entries
  <2> QED BY <2>1
<1> QED BY <1>1, <1>2, <1>3

\* As many names as entries: each name has one entry.
LEMMA NamedAlone ==
  ASSUME NEW s, Listed(s), Distinct(s)
  PROVE  \A x \in ToSet(s) : FirstNamed(s, x.name) = x /\ LastNamed(s, x.name) = x
<1> DEFINE f == [i \in 1..Len(s) |-> s[i].name]
<1>1. Len(s) \in Nat /\ DOMAIN s = 1..Len(s) BY DEF Listed
<1>2. f \in Surjection(1..Len(s), NamesIn(s)) BY <1>1 DEF Surjection, NamesIn
<1>3. IsFiniteSet(1..Len(s)) /\ Cardinality(1..Len(s)) = Len(s)
  <2>1. Len(s) \in Int /\ 1 \in Int /\ Len(s) >= 0 BY <1>1
  <2>2. (IF 1 > Len(s) THEN 0 ELSE Len(s) - 1 + 1) = Len(s) BY <2>1
  <2> QED BY <2>1, <2>2, FS_Interval
<1>4. Cardinality(NamesIn(s)) = Len(s) BY DEF Distinct
<1> HIDE DEF f
<1>5. f \in Injection(1..Len(s), NamesIn(s))
  BY <1>2, <1>3, <1>4, FS_SurjSameCardinalityImpliesInj
<1>6. \A i, j \in DOMAIN s : s[i].name = s[j].name => i = j
  <2>1. \A i, j \in 1..Len(s) : f[i] = f[j] => i = j BY <1>5 DEF Injection, IsInjective
  <2>2. \A i \in 1..Len(s) : f[i] = s[i].name BY DEF f
  <2> QED BY <1>1, <2>1, <2>2
<1> SUFFICES ASSUME NEW x \in ToSet(s)
             PROVE  FirstNamed(s, x.name) = x /\ LastNamed(s, x.name) = x
  OBVIOUS
<1>7. PICK i \in DOMAIN s : x = s[i] BY Entries
<1>8. i \in Nat /\ i <= i BY <1>1
<1>9. \A k \in DOMAIN s : s[k].name = x.name => k = i BY <1>6, <1>7
<1>10. FirstNamed(s, x.name) = x
  <2> DEFINE first == CHOOSE k \in DOMAIN s :
                s[k].name = x.name /\ \A j \in DOMAIN s : s[j].name = x.name => k <= j
  <2>1. first \in DOMAIN s /\ s[first].name = x.name BY <1>7, <1>8, <1>9
  <2>2. FirstNamed(s, x.name) = s[first] BY DEF FirstNamed
  <2> HIDE DEF first
  <2> QED BY <1>7, <1>9, <2>1, <2>2
<1>11. LastNamed(s, x.name) = x
  <2> DEFINE last == CHOOSE k \in DOMAIN s :
                s[k].name = x.name /\ \A j \in DOMAIN s : s[j].name = x.name => j <= k
  <2>1. last \in DOMAIN s /\ s[last].name = x.name BY <1>7, <1>8, <1>9
  <2>2. LastNamed(s, x.name) = s[last] BY DEF LastNamed
  <2> HIDE DEF last
  <2> QED BY <1>7, <1>9, <2>1, <2>2
<1> QED BY <1>10, <1>11

\* The labels of what goes wrong.
LEMMA FailuresAre ==
  ASSUME NEW d
  PROVE  \A x : x \in Failures(d) <=>
           \/ x = "no agent" /\ d.agents = << >>
           \/ x = "boot: a judge" /\ JudgesFail(d)
           \/ x = "boot: a route" /\ RouteFails(d)
           \/ x = "boot: two routes" /\ ~Mounts(d.triggers)
           \/ x = "a judge is skipped" /\ JudgeSkipped(d)
           \/ x = "no client" /\ ClientMissing(d)
           \/ x = "nobody answers" /\ NobodyAnswers(d)
           \/ x = "an agent is hidden" /\ AgentHidden(d)
           \/ x = "a task for a template" /\ TemplateFired(d)
           \/ x = "a schedule never fires" /\ ScheduleIdle(d)
<1> DEFINE when(label, failed) == IF failed THEN {label} ELSE {}
           s1 == when("no agent", d.agents = << >>)
           s2 == when("boot: a judge", JudgesFail(d))
           s3 == when("boot: a route", RouteFails(d))
           s4 == when("boot: two routes", ~Mounts(d.triggers))
           s5 == when("a judge is skipped", JudgeSkipped(d))
           s6 == when("no client", ClientMissing(d))
           s7 == when("nobody answers", NobodyAnswers(d))
           s8 == when("an agent is hidden", AgentHidden(d))
           s9 == when("a task for a template", TemplateFired(d))
           s10 == when("a schedule never fires", ScheduleIdle(d))
<1>1. Failures(d) = UNION {s1, s2, s3, s4, s5, s6, s7, s8, s9, s10} BY Zenon DEF Failures
<1>2. \A x : /\ x \in s1 <=> x = "no agent" /\ d.agents = << >>
             /\ x \in s2 <=> x = "boot: a judge" /\ JudgesFail(d)
             /\ x \in s3 <=> x = "boot: a route" /\ RouteFails(d)
             /\ x \in s4 <=> x = "boot: two routes" /\ ~Mounts(d.triggers)
             /\ x \in s5 <=> x = "a judge is skipped" /\ JudgeSkipped(d)
  OBVIOUS
<1>3. \A x : /\ x \in s6 <=> x = "no client" /\ ClientMissing(d)
             /\ x \in s7 <=> x = "nobody answers" /\ NobodyAnswers(d)
             /\ x \in s8 <=> x = "an agent is hidden" /\ AgentHidden(d)
             /\ x \in s9 <=> x = "a task for a template" /\ TemplateFired(d)
             /\ x \in s10 <=> x = "a schedule never fires" /\ ScheduleIdle(d)
  OBVIOUS
<1> HIDE DEF s1, s2, s3, s4, s5, s6, s7, s8, s9, s10
<1>4. \A x : x \in Failures(d) <=> \/ x \in s1 \/ x \in s2 \/ x \in s3 \/ x \in s4 \/ x \in s5
                                   \/ x \in s6 \/ x \in s7 \/ x \in s8 \/ x \in s9 \/ x \in s10
  BY <1>1
<1> QED BY <1>2, <1>3, <1>4

\* Who answers to a name, once no name has two entries.
LEMMA AnswersAre ==
  ASSUME NEW d, File(d), Distinct(d.agents)
  PROVE  /\ \A n : Answers(d, n) => n \in NamesIn(d.agents)
         /\ \A a \in ToSet(d.agents) :
              Answers(d, a.name) <=> a.provider \in d.providers /\ a.servers \subseteq d.mcp
<1>1. Listed(d.agents) BY DEF File
<1>2. ASSUME NEW a \in ToSet(d.agents)
      PROVE  Answers(d, a.name) <=> a.provider \in d.providers /\ a.servers \subseteq d.mcp
  <2>1. FirstNamed(d.agents, a.name) = a BY <1>1, NamedAlone
  <2>2. a.name \in NamesIn(d.agents) BY NamesHeld
  <2> QED BY <2>1, <2>2 DEF Answers
<1>3. \A n : Answers(d, n) => n \in NamesIn(d.agents) BY DEF Answers
<1> QED BY <1>2, <1>3

LEMMA ReachedAre ==
  ASSUME NEW d, File(d), Distinct(d.experiments)
  PROVE  /\ \A n : n \notin NamesIn(d.experiments) => (Reached(d, n) <=> Answers(d, n))
         /\ \A e \in ToSet(d.experiments) : e.variants # << >> =>
              (Reached(d, e.name) <=> \A v \in ToSet(e.variants) : Answers(d, v))
<1>1. ASSUME NEW n, n \notin NamesIn(d.experiments) PROVE Reached(d, n) <=> Answers(d, n)
  <2>1. MayPick(d, n) = {n} BY <1>1 DEF MayPick
  <2> QED BY <2>1 DEF Reached
<1>2. ASSUME NEW e \in ToSet(d.experiments), e.variants # << >>
      PROVE  Reached(d, e.name) <=> \A v \in ToSet(e.variants) : Answers(d, v)
  <2>1. Listed(d.experiments) /\ Listed(e.variants) BY DEF File
  <2>2. LastNamed(d.experiments, e.name) = e BY <2>1, NamedAlone
  <2>3. e.name \in NamesIn(d.experiments) BY NamesHeld
  <2>4. ToSet(e.variants) # {}
    <3>1. PICK s : s = e.variants OBVIOUS
    <3>2. s \in Seq(ToSet(s)) /\ s # << >> BY <1>2, <2>1, <3>1 DEF Listed
    <3>3. 1 \in DOMAIN s BY <3>2
    <3> QED BY <3>1, <3>3, Entries
  <2>5. MayPick(d, e.name) = ToSet(e.variants) BY <2>2, <2>3, <2>4 DEF MayPick
  <2> QED BY <2>5 DEF Reached
<1> QED BY <1>1, <1>2

\* The judges that score an agent are those of its list that exist.
LEMMA JudgesAre ==
  ASSUME NEW d, File(d), Distinct(d.judges), NEW a
  PROVE  {j.name : j \in JudgesFor(d, a)} = a.judges \cap NamesIn(d.judges)
<1>1. Listed(d.judges) BY DEF File
<1>2. DOMAIN BuildJudges(d) = NamesIn(d.judges)
      /\ \A n \in NamesIn(d.judges) : BuildJudges(d)[n] = LastNamed(d.judges, n)
  BY DEF BuildJudges
<1>3. ASSUME NEW n \in NamesIn(d.judges) PROVE BuildJudges(d)[n].name = n
  <2>1. PICK x \in ToSet(d.judges) : n = x.name BY NamesHeld
  <2>2. LastNamed(d.judges, n) = x BY <1>1, <2>1, NamedAlone
  <2> QED BY <1>2, <2>1, <2>2
<1>4. JudgesFor(d, a) = {BuildJudges(d)[n] : n \in a.judges \cap NamesIn(d.judges)}
  BY <1>2 DEF JudgesFor
<1> QED BY <1>3, <1>4

\* What the validation lets through may go wrong, and nothing else may.
LEMMA LetThroughIs ==
  ASSUME NEW d
  PROVE  /\ \A x \in LetThrough(d) :
              x \in {"a task for a template", "boot: two routes", "a schedule never fires"}
         /\ "a task for a template" \in LetThrough(d)
         /\ "boot: two routes" \in LetThrough(d) <=>
              \A i, j \in Serves(d.triggers) : d.triggers[i].path = d.triggers[j].path => i = j
         /\ "a schedule never fires" \in LetThrough(d) <=>
              \A t \in ToSet(d.triggers) : t.kind = "cron" => Arms(t)
<1> DEFINE single == \A i, j \in Serves(d.triggers) : d.triggers[i].path = d.triggers[j].path => i = j
           armed == \A t \in ToSet(d.triggers) : t.kind = "cron" => Arms(t)
           s1 == IF single THEN {"boot: two routes"} ELSE {}
           s2 == IF armed THEN {"a schedule never fires"} ELSE {}
<1>1. LetThrough(d) = {"a task for a template"} \cup s1 \cup s2 BY Zenon DEF LetThrough
<1> HIDE DEF single, armed
<1>2. /\ "boot: two routes" \in LetThrough(d) <=> single
      /\ "a schedule never fires" \in LetThrough(d) <=> armed
  <2>1. CASE single /\ armed
    <3>1. "boot: two routes" \in LetThrough(d) /\ "a schedule never fires" \in LetThrough(d)
      BY <1>1, <2>1
    <3> QED BY <2>1, <3>1, Zenon
  <2>2. CASE single /\ ~armed
    <3>1. "boot: two routes" \in LetThrough(d) /\ "a schedule never fires" \notin LetThrough(d)
      BY <1>1, <2>2
    <3> QED BY <2>2, <3>1, Zenon
  <2>3. CASE ~single /\ armed
    <3>1. "boot: two routes" \notin LetThrough(d) /\ "a schedule never fires" \in LetThrough(d)
      BY <1>1, <2>3
    <3> QED BY <2>3, <3>1, Zenon
  <2>4. CASE ~single /\ ~armed
    <3>1. "boot: two routes" \notin LetThrough(d) /\ "a schedule never fires" \notin LetThrough(d)
      BY <1>1, <2>4
    <3> QED BY <2>4, <3>1, Zenon
  <2> QED BY <2>1, <2>2, <2>3, <2>4
<1>3. /\ \A x \in LetThrough(d) :
           x \in {"a task for a template", "boot: two routes", "a schedule never fires"}
      /\ "a task for a template" \in LetThrough(d)
  BY <1>1
<1> QED BY <1>2, <1>3 DEF single, armed

\* An accepted file fails nowhere else.
LEMMA AcceptedFiles ==
  ASSUME NEW d, File(d), Validates(d)
  PROVE  Failures(d) \subseteq LetThrough(d)
<1>1. /\ d.agents # << >> /\ ValidJudges(d) /\ ValidAgents(d) /\ ValidExperimentNames(d)
      /\ ValidSmokeTests(d) /\ ValidSubagents(d) /\ ValidTriggers(d)
  BY DEF Validates
<1>2. Distinct(d.agents) /\ Distinct(d.judges) /\ Distinct(d.experiments)
  BY <1>1 DEF ValidAgents, ValidJudges, ValidExperimentNames
<1>3. \A n \in NamesIn(d.agents) : Answers(d, n)
  <2> SUFFICES ASSUME NEW n \in NamesIn(d.agents) PROVE Answers(d, n) OBVIOUS
  <2>1. PICK a \in ToSet(d.agents) : n = a.name BY NamesHeld
  <2>2. a.provider \in d.providers /\ a.servers \subseteq d.mcp BY <1>1 DEF ValidAgents
  <2> QED BY <1>2, <2>1, <2>2, AnswersAre
<1>4. \A n \in Callable(d) : Reached(d, n)
  <2> SUFFICES ASSUME NEW n \in Callable(d) PROVE Reached(d, n) OBVIOUS
  <2>1. CASE n \in NamesIn(d.experiments)
    <3>1. PICK e \in ToSet(d.experiments) : n = e.name BY <2>1, NamesHeld
    <3>2. e.variants # << >> /\ ToSet(e.variants) \subseteq NamesIn(d.agents)
      BY <1>1 DEF ValidExperimentNames
    <3> QED BY <1>2, <1>3, <3>1, <3>2, ReachedAre
  <2>2. CASE n \notin NamesIn(d.experiments)
    <3>1. n \in NamesIn(d.agents) BY <2>2 DEF Callable
    <3> QED BY <1>2, <1>3, <2>2, <3>1, ReachedAre
  <2> QED BY <2>1, <2>2
<1>5. ~JudgesFail(d) BY <1>1 DEF JudgesFail, JudgeBuilds, ValidJudges, InUnit
<1>6. ~RouteFails(d)
  <2>1. ASSUME NEW i \in Serves(d.triggers) PROVE d.triggers[i].path # "hooks"
    <3>1. i \in DOMAIN d.triggers /\ d.triggers[i].kind = "webhook" BY DEF Serves
    <3>2. d.triggers[i] \in ToSet(d.triggers) BY <3>1, Entries
    <3>3. ValidTrigger(d, d.triggers[i]) BY <1>1, <3>2 DEF ValidTriggers
    <3> QED BY <3>1, <3>3 DEF ValidTrigger
  <2> QED BY <2>1 DEF RouteFails
<1>7. ~JudgeSkipped(d)
  <2>1. ASSUME NEW a \in ToSet(d.agents) PROVE {j.name : j \in JudgesFor(d, a)} = a.judges
    <3>1. a.judges \subseteq NamesIn(d.judges) BY <1>1 DEF ValidAgents
    <3>2. {j.name : j \in JudgesFor(d, a)} = a.judges \cap NamesIn(d.judges) BY <1>2, JudgesAre
    <3> QED BY <3>1, <3>2
  <2> QED BY <2>1 DEF JudgeSkipped
<1>8. ~ClientMissing(d)
  <2>1. \A j \in ToSet(d.judges) : HasClient(d, j.provider)
    BY <1>1 DEF ValidJudges, Configured, HasClient
  <2>2. \A s \in ToSet(d.smoke) : HasClient(d, s.provider)
    BY <1>1 DEF ValidSmokeTests, Configured, HasClient
  <2> QED BY <2>1, <2>2 DEF ClientMissing
<1>9. ~NobodyAnswers(d)
  <2>1. \A s \in ToSet(d.smoke) : s.target \in Callable(d) BY <1>1 DEF ValidSmokeTests
  <2>2. \A a \in ToSet(d.agents) : ToSet(a.subs) \subseteq Callable(d) BY <1>1 DEF ValidSubagents
  <2>3. ASSUME NEW t \in ToSet(d.triggers), Plain(t)
        PROVE  \E n \in Callable(d) : Fired(t) = <<n>> /\ Reached(d, n)
    <3>1. ValidTrigger(d, t) BY <1>1 DEF ValidTriggers
    <3>2. Written(t.agent) \in {<<n>> : n \in Callable(d)} BY <2>3, <3>1 DEF ValidTrigger, Plain
    <3>3. PICK n \in Callable(d) : Written(t.agent) = <<n>> BY <3>2
    <3> QED BY <1>4, <3>3 DEF Fired
  <2> QED BY <1>4, <2>1, <2>2, <2>3 DEF NobodyAnswers
<1>10. ~AgentHidden(d) BY <1>1 DEF ValidExperimentNames, AgentHidden
<1>11. \A i, j \in Serves(d.triggers) : d.triggers[i].path = d.triggers[j].path => i = j
  BY <1>1 DEF ValidTriggers
<1>12. \A t \in ToSet(d.triggers) : t.kind = "cron" => Arms(t)
  <2>1. ASSUME NEW t \in ToSet(d.triggers), t.kind = "cron" PROVE Arms(t)
    <3>1. ValidTrigger(d, t) BY <1>1 DEF ValidTriggers
    <3> QED BY <2>1, <3>1 DEF ValidTrigger, Arms
  <2> QED BY <2>1
<1>13. \A x \in Failures(d) : x \in {"boot: two routes", "a task for a template", "a schedule never fires"}
  <2> SUFFICES ASSUME NEW x \in Failures(d)
               PROVE  x \in {"boot: two routes", "a task for a template", "a schedule never fires"}
    OBVIOUS
  <2> QED BY <1>1, <1>5, <1>6, <1>7, <1>8, <1>9, <1>10, FailuresAre
<1>14. {"boot: two routes", "a task for a template", "a schedule never fires"} \subseteq LetThrough(d)
  BY <1>11, <1>12, LetThroughIs
<1> QED BY <1>13, <1>14

\* A file that fails nowhere else is accepted, or refused for form.
LEMMA HarmlessFiles ==
  ASSUME NEW d, File(d), ~Pedantic(d), Failures(d) \subseteq LetThrough(d)
  PROVE  Validates(d)
<1>1. /\ Distinct(d.agents) /\ Distinct(d.judges) /\ Distinct(d.experiments)
      /\ Distinct(d.smoke) /\ Distinct(d.triggers) /\ Distinct(d.sidecars)
  <2>1. \A s \in {d.agents, d.judges, d.experiments, d.smoke, d.triggers, d.sidecars} : Distinct(s)
    BY DEF Pedantic
  <2> QED BY <2>1
<1>2. /\ \A a \in ToSet(d.agents) : a.name \notin ToSet(a.subs) /\ NoDuplicates(a.subs)
      /\ \A e \in ToSet(d.experiments) : e.variants # << >> /\ NoDuplicates(e.variants)
      /\ \A s \in ToSet(d.smoke) : 0 \notin {s.turns, s.repetitions}
      /\ \A s \in ToSet(d.sidecars) : s.command # ""
      /\ \A i \in Serves(d.triggers) : d.triggers[i].path # "/other"
  BY DEF Pedantic
<1>3. \A x \in {"no agent", "boot: a judge", "boot: a route", "a judge is skipped", "no client",
                "nobody answers", "an agent is hidden"} : x \notin Failures(d)
  <2>1. \A x \in {"no agent", "boot: a judge", "boot: a route", "a judge is skipped", "no client",
                  "nobody answers", "an agent is hidden"} : x \notin LetThrough(d)
    BY LetThroughIs
  <2> QED BY <2>1
<1>4. /\ d.agents # << >> /\ ~JudgesFail(d) /\ ~RouteFails(d) /\ ~JudgeSkipped(d)
      /\ ~ClientMissing(d) /\ ~NobodyAnswers(d) /\ ~AgentHidden(d)
  <2>1. "no agent" \notin Failures(d) /\ "boot: a judge" \notin Failures(d) BY <1>3
  <2>2. "boot: a route" \notin Failures(d) /\ "a judge is skipped" \notin Failures(d) BY <1>3
  <2>3. "no client" \notin Failures(d) /\ "nobody answers" \notin Failures(d) BY <1>3
  <2>4. "an agent is hidden" \notin Failures(d) BY <1>3
  <2> QED BY <2>1, <2>2, <2>3, <2>4, FailuresAre
<1>5. ~Mounts(d.triggers) =>
        \A i, j \in Serves(d.triggers) : d.triggers[i].path = d.triggers[j].path => i = j
  <2> SUFFICES ASSUME ~Mounts(d.triggers)
               PROVE  \A i, j \in Serves(d.triggers) : d.triggers[i].path = d.triggers[j].path => i = j
    OBVIOUS
  <2>1. "boot: two routes" \in LetThrough(d) BY FailuresAre
  <2> QED BY <2>1, LetThroughIs
<1>6. ScheduleIdle(d) => \A t \in ToSet(d.triggers) : t.kind = "cron" => Arms(t)
  <2> SUFFICES ASSUME ScheduleIdle(d)
               PROVE  \A t \in ToSet(d.triggers) : t.kind = "cron" => Arms(t)
    OBVIOUS
  <2>1. "a schedule never fires" \in LetThrough(d) BY FailuresAre
  <2> QED BY <2>1, LetThroughIs
<1>7. ValidJudges(d)
  <2>1. \A j \in ToSet(d.judges) : j.rubrics # {} /\ InUnit(j.rate)
    BY <1>4 DEF JudgesFail, JudgeBuilds, InUnit
  <2>2. \A j \in ToSet(d.judges) : Configured(d, j.provider)
    BY <1>4 DEF ClientMissing, HasClient, Configured
  <2> QED BY <1>1, <2>1, <2>2 DEF ValidJudges
<1>8. \A n \in Callable(d) \cup {s.target : s \in ToSet(d.smoke)} : Reached(d, n)
  BY <1>4 DEF NobodyAnswers
<1>9. \A n \in NamesIn(d.agents) : n \notin NamesIn(d.experiments) BY <1>4 DEF AgentHidden
<1>10. ValidAgents(d)
  <2>1. ASSUME NEW a \in ToSet(d.agents)
        PROVE  a.provider \in d.providers /\ a.servers \subseteq d.mcp
    <3>1. a.name \in NamesIn(d.agents) BY NamesHeld
    <3>2. Reached(d, a.name) BY <1>8, <3>1 DEF Callable
    <3>3. Answers(d, a.name) BY <1>1, <1>9, <3>1, <3>2, ReachedAre
    <3> QED BY <1>1, <3>3, AnswersAre
  <2>2. ASSUME NEW a \in ToSet(d.agents) PROVE a.judges \subseteq NamesIn(d.judges)
    <3>1. {j.name : j \in JudgesFor(d, a)} = a.judges BY <1>4 DEF JudgeSkipped
    <3>2. {j.name : j \in JudgesFor(d, a)} = a.judges \cap NamesIn(d.judges) BY <1>1, JudgesAre
    <3> QED BY <3>1, <3>2
  <2> QED BY <1>1, <2>1, <2>2 DEF ValidAgents
<1>11. \A n : Reached(d, n) /\ n \notin NamesIn(d.experiments) => n \in NamesIn(d.agents)
  BY <1>1, ReachedAre, AnswersAre
<1>12. \A n : Reached(d, n) => n \in Callable(d) BY <1>11 DEF Callable
<1>13. ValidExperimentNames(d)
  <2>1. ASSUME NEW e \in ToSet(d.experiments) PROVE ToSet(e.variants) \subseteq NamesIn(d.agents)
    <3>1. e.name \in NamesIn(d.experiments) BY NamesHeld
    <3>2. Reached(d, e.name) BY <1>8, <3>1 DEF Callable
    <3>3. \A v \in ToSet(e.variants) : Answers(d, v) BY <1>1, <1>2, <3>2, ReachedAre
    <3> QED BY <1>1, <3>3, AnswersAre
  <2> QED BY <1>1, <1>2, <1>4, <2>1 DEF ValidExperimentNames, AgentHidden
<1>14. ValidSmokeTests(d)
  <2>1. ASSUME NEW s \in ToSet(d.smoke)
        PROVE  s.turns > 0 /\ s.repetitions > 0 /\ Configured(d, s.provider) /\ s.target \in Callable(d)
    <3>1. s.turns \in Nat /\ s.repetitions \in Nat BY DEF File
    <3>2. s.turns # 0 /\ s.repetitions # 0 BY <1>2
    <3>3. s.turns > 0 /\ s.repetitions > 0 BY <3>1, <3>2
    <3>4. Configured(d, s.provider) BY <1>4 DEF ClientMissing, HasClient, Configured
    <3>5. s.target \in Callable(d) BY <1>8, <1>12
    <3> QED BY <3>3, <3>4, <3>5
  <2> QED BY <1>1, <2>1 DEF ValidSmokeTests
<1>15. ValidSubagents(d)
  <2>1. \A a \in ToSet(d.agents) : \A n \in ToSet(a.subs) : Reached(d, n) BY <1>4 DEF NobodyAnswers
  <2>2. \A a \in ToSet(d.agents) : ToSet(a.subs) \subseteq Callable(d) BY <1>12, <2>1
  <2> QED BY <1>2, <2>2 DEF ValidSubagents
<1>16. ValidTriggers(d)
  <2>1. ASSUME NEW t \in ToSet(d.triggers) PROVE ValidTrigger(d, t)
    <3>1. Holds(Written(t.agent), "{{") \/ Written(t.agent) \in {<<n>> : n \in Callable(d)}
      <4> SUFFICES ASSUME Plain(t) PROVE Written(t.agent) \in {<<n>> : n \in Callable(d)}
        BY DEF Plain
      <4>1. PICK n \in Callable(d) : Fired(t) = <<n>> BY <1>4 DEF NobodyAnswers
      <4> QED BY <4>1 DEF Fired
    <3>2. ASSUME t.kind = "webhook" PROVE t.path \notin {"hooks", "/other"}
      <4>1. PICK i \in DOMAIN d.triggers : t = d.triggers[i] BY Entries
      <4>2. i \in Serves(d.triggers) BY <3>2, <4>1 DEF Serves
      <4>3. d.triggers[i].path # "hooks" BY <1>4, <4>2 DEF RouteFails
      <4> QED BY <1>2, <4>1, <4>2, <4>3
    <3>3. ASSUME t.kind = "cron" PROVE Parses(t.schedule)
      <4>1. CASE t \in SpawnsCron(d.triggers) BY <4>1 DEF SpawnsCron, Fires, Arms
      <4>2. CASE t \notin SpawnsCron(d.triggers)
        <5>1. ScheduleIdle(d) BY <3>3, <4>2 DEF ScheduleIdle
        <5> QED BY <1>6, <3>3, <5>1 DEF Arms
      <4> QED BY <4>1, <4>2
    <3> QED BY <3>1, <3>2, <3>3 DEF ValidTrigger
  <2>2. ASSUME NEW i \in Serves(d.triggers), NEW j \in Serves(d.triggers),
               d.triggers[i].path = d.triggers[j].path
        PROVE  i = j
    <3>1. CASE Mounts(d.triggers) BY <2>2, <3>1 DEF Mounts
    <3>2. CASE ~Mounts(d.triggers) BY <1>5, <2>2, <3>2
    <3> QED BY <3>1, <3>2
  <2> QED BY <1>1, <2>1, <2>2 DEF ValidTriggers
<1>17. ValidSidecars(d) BY <1>1, <1>2 DEF ValidSidecars
<1> QED BY <1>4, <1>7, <1>10, <1>13, <1>14, <1>15, <1>16, <1>17 DEF Validates

\* Config::validate, for any file: an accepted one fails nowhere but at two
\* webhooks whose parameters differ in name only, at a boot or cron trigger with
\* a template and at a schedule that has no day; a refused one would fail
\* elsewhere, or is refused for form.
THEOREM FilesAreChecked == \A d : File(d) => CheckedOn(d)
<1> SUFFICES ASSUME NEW d, File(d) PROVE CheckedOn(d) OBVIOUS
<1>1. CASE Validates(d) BY <1>1, AcceptedFiles DEF CheckedOn
<1>2. CASE ~Validates(d)
  <2>1. Pedantic(d) \/ ~(Failures(d) \subseteq LetThrough(d)) BY <1>2, HarmlessFiles
  <2> QED BY <1>2, <2>1 DEF CheckedOn
<1> QED BY <1>1, <1>2

-----------------------------------------------------------------------------
(* The inputs of the runs *)

LEMMA AsSequence ==
  ASSUME NEW k \in Nat, NEW S, NEW f \in [1..k -> S]
  PROVE  f \in Seq(S)
<1> QED OBVIOUS

LEMMA ListedUpto ==
  ASSUME NEW k \in Nat, NEW S, NEW s \in [1..k -> S]
  PROVE  Listed(s)
<1>1. DOMAIN s = 1..k /\ s = [i \in 1..k |-> s[i]] OBVIOUS
<1>2. \A i \in 1..k : s[i] \in ToSet(s) BY <1>1, Entries
<1>3. s \in [1..k -> ToSet(s)] BY <1>1, <1>2
<1>4. s \in Seq(ToSet(s)) BY <1>3
<1> QED BY <1>4 DEF Listed

LEMMA ListedShort ==
  /\ Listed(<< >>)
  /\ \A x : Listed(<<x>>) /\ ToSet(<<x>>) = {x}
  /\ \A x, y : Listed(<<x, y>>) /\ ToSet(<<x, y>>) = {x, y}
<1>1. << >> \in Seq(ToSet(<< >>)) OBVIOUS
<1>2. \A x : ToSet(<<x>>) = {x} BY DEF ToSet
<1>3. \A x : <<x>> \in Seq({x}) OBVIOUS
<1>4. \A x, y : ToSet(<<x, y>>) = {x, y}
  <2> SUFFICES ASSUME NEW x, NEW y PROVE ToSet(<<x, y>>) = {x, y} OBVIOUS
  <2>1. DOMAIN <<x, y>> = {1, 2} /\ <<x, y>>[1] = x /\ <<x, y>>[2] = y OBVIOUS
  <2> QED BY <2>1 DEF ToSet
<1>5. \A x, y : <<x, y>> \in Seq({x, y}) OBVIOUS
<1> QED BY <1>1, <1>2, <1>3, <1>4, <1>5 DEF Listed

LEMMA UptoListed ==
  ASSUME NEW n \in Nat, NEW S
  PROVE  \A s \in Upto(n, S) : Listed(s) /\ \A x \in ToSet(s) : x \in S
<1> SUFFICES ASSUME NEW s \in Upto(n, S) PROVE Listed(s) /\ \A x \in ToSet(s) : x \in S
  OBVIOUS
<1>1. PICK k \in 0..n : s \in [1..k -> S] BY DEF Upto
<1>2. k \in Nat BY <1>1
<1>3. Listed(s) BY <1>1, <1>2, ListedUpto
<1>4. \A i \in DOMAIN s : s[i] \in S BY <1>1
<1> QED BY <1>3, <1>4, Entries

\* Files that differ from a good one in one section are files.
LEMMA BaseFile ==
  /\ File(Base)
  /\ DOMAIN Base = {"providers", "mcp", "agents", "judges", "experiments", "smoke", "triggers", "sidecars"}
<1>1. /\ Listed(Base.agents) /\ Listed(Base.judges) /\ Listed(Base.experiments) /\ Listed(Base.smoke)
      /\ Listed(Base.triggers) /\ Listed(Base.sidecars)
  BY ListedShort DEF Base
<1>2. \A e \in ToSet(Base.experiments) : Listed(e.variants)
  <2>1. Base.experiments = <<[name |-> "exp", variants |-> <<"pm", "coder">>]>> BY DEF Base
  <2>2. ToSet(Base.experiments) = {[name |-> "exp", variants |-> <<"pm", "coder">>]}
    BY <2>1, ListedShort
  <2>3. Listed(<<"pm", "coder">>) BY ListedShort
  <2> QED BY <2>2, <2>3
<1>3. ToSet(Base.smoke) = {} BY DEF Base, ToSet
<1>4. DOMAIN Base = {"providers", "mcp", "agents", "judges", "experiments", "smoke", "triggers", "sidecars"}
  BY DEF Base
<1> QED BY <1>1, <1>2, <1>3, <1>4 DEF File

LEMMA DocumentsAreFiles == \A d \in Documents : File(d)
<1> SUFFICES ASSUME NEW d \in Documents PROVE File(d) OBVIOUS
<1>1. 1 \in Nat /\ 2 \in Nat OBVIOUS
<1>2. \/ d \in AgentFiles \/ d \in JudgeFiles \/ d \in ExperimentFiles
      \/ d \in SmokeFiles \/ d \in TriggerFiles \/ d \in SidecarFiles
  BY DEF Documents
<1>3. \A e \in SomeExperiments : Listed(e.variants)
  <2> SUFFICES ASSUME NEW e \in SomeExperiments PROVE Listed(e.variants) OBVIOUS
  <2>1. e.variants \in {<< >>, <<"pm">>, <<"ghost">>, <<"pm", "pm">>, <<"exp">>, <<"coder", "pm">>}
    BY DEF SomeExperiments
  <2> QED BY <2>1, ListedShort
<1>4. \A s \in SomeSmoke : s.turns \in Nat /\ s.repetitions \in Nat BY DEF SomeSmoke
<1>5. CASE d \in AgentFiles
  <2>1. \A a, b : Listed(<<a, b>>) BY ListedShort
  <2>2. Listed(<< >>) BY ListedShort
  <2>3. PICK s : Listed(s) /\ d = [Base EXCEPT !.agents = s] BY <1>5, <2>1, <2>2 DEF AgentFiles
  <2> QED BY <2>3, BaseFile DEF File
<1>6. CASE d \in JudgeFiles
  <2>1. PICK s \in Upto(1, SomeJudges), p \in {{}, {"groq", "openai"}} : d = JudgeFile(s, p)
    BY <1>6 DEF JudgeFiles
  <2>2. Listed(s) BY <1>1, UptoListed
  <2> QED BY <2>1, <2>2, BaseFile DEF File, JudgeFile
<1>7. CASE d \in ExperimentFiles
  <2>1. PICK s \in Upto(2, SomeExperiments) : d = [Base EXCEPT !.experiments = s]
    BY <1>7 DEF ExperimentFiles
  <2>2. Listed(s) /\ \A e \in ToSet(s) : Listed(e.variants) BY <1>1, <1>3, UptoListed
  <2> QED BY <2>1, <2>2, BaseFile DEF File
<1>8. CASE d \in SmokeFiles
  <2>1. PICK s \in Upto(1, SomeSmoke), p \in {{"openai"}, {"groq", "openai"}} : d = SmokeFile(s, p)
    BY <1>8 DEF SmokeFiles
  <2>2. Listed(s) /\ \A x \in ToSet(s) : x.turns \in Nat /\ x.repetitions \in Nat
    BY <1>1, <1>4, UptoListed
  <2> QED BY <2>1, <2>2, BaseFile DEF File, SmokeFile
<1>9. CASE d \in TriggerFiles
  <2> DEFINE Many == [1..2 -> {t \in SomeTriggers : t.kind # "cron" /\ t.agent # <<Text("ghost")>>}]
  <2>1. \A s \in Many : Listed(s) BY <1>1, ListedUpto
  <2>2. TriggerFiles = {[Base EXCEPT !.triggers = s] : s \in Upto(1, SomeTriggers) \cup Many}
    BY DEF TriggerFiles
  <2> HIDE DEF Many
  <2>3. PICK s \in Upto(1, SomeTriggers) \cup Many : d = [Base EXCEPT !.triggers = s] BY <1>9, <2>2
  <2>4. Listed(s) BY <1>1, <2>1, UptoListed
  <2> QED BY <2>3, <2>4, BaseFile DEF File
<1>10. CASE d \in SidecarFiles
  <2>1. PICK s \in Upto(2, SomeSidecars) : d = [Base EXCEPT !.sidecars = s] BY <1>10 DEF SidecarFiles
  <2>2. Listed(s) BY <1>1, UptoListed
  <2> QED BY <2>1, <2>2, BaseFile DEF File
<1> QED BY <1>2, <1>5, <1>6, <1>7, <1>8, <1>9, <1>10

LEMMA TextCases == CaseKept /\ case.of = "text" => ExpandsOn(case.table, case.body, case.env)
<1> SUFFICES ASSUME case \in Cases, case.of = "text"
             PROVE  ExpandsOn(case.table, case.body, case.env)
  BY DEF CaseKept
<1> DEFINE T == SomeTokens \cup {Env("OTHER"), VarOf("y")}
<1>1. case.table \in SomeTables /\ case.body \in SomeBodies /\ case.env \in SomeEnvs BY DEF Cases
<1>2. SomeTokens \subseteq T OBVIOUS
<1> HIDE DEF T
<1>3. case.body \in Seq(T)
  <2>1. PICK n \in 1..2 : case.body \in [1..n -> SomeTokens] BY <1>1 DEF SomeBodies
  <2>2. n \in Nat /\ case.body \in Seq(SomeTokens) BY <2>1
  <2> QED BY <1>2, <2>2, WiderSeq
<1>4. \A s \in [1..1 -> T] : s \in Seq(T) OBVIOUS
<1>5. \A n \in DOMAIN case.table : case.table[n] \in Seq(T)
  <2>1. CASE case.table = << >> BY <2>1
  <2>2. CASE case.table # << >>
    <3>1. case.table \in [{"x"} -> [1..1 -> SomeTokens]] BY <1>1, <2>2 DEF SomeTables
    <3>2. \A n \in DOMAIN case.table : case.table[n] \in [1..1 -> SomeTokens] BY <3>1
    <3>3. \A s \in [1..1 -> SomeTokens] : s \in [1..1 -> T] BY <1>2
    <3> QED BY <1>4, <3>2, <3>3
  <2> QED BY <2>1, <2>2
<1>6. \A n \in DOMAIN case.env : case.env[n] \in Seq(T)
  <2>1. CASE case.env = << >> BY <2>1
  <2>2. CASE case.env # << >>
    <3>1. case.env \in [{"KEY"} -> [1..1 -> T]] BY <1>1, <2>2 DEF SomeEnvs, T
    <3> QED BY <1>4, <3>1
  <2> QED BY <2>1, <2>2
<1> QED BY <1>3, <1>5, <1>6, TextsAreExpanded

LEMMA TemplateCases ==
  CaseKept /\ case.of = "template" => SubstitutedOn(case.template, case.payload)
<1> SUFFICES ASSUME case \in Cases, case.of = "template"
             PROVE  SubstitutedOn(case.template, case.payload)
  BY DEF CaseKept
<1> DEFINE N == {"pm", "", "{{", "agent", "team"}
<1>1. case.template \in SomeTemplates BY DEF Cases
<1>2. SomePieces \subseteq Pieces(N) BY DEF SomePieces, Text, Slot, Pieces
<1> HIDE DEF N
<1>3. PICK n \in 1..2 : case.template \in [1..n -> SomePieces] BY <1>1 DEF SomeTemplates
<1>4. n \in Nat /\ case.template \in Seq(SomePieces) BY <1>3
<1>5. case.template \in Seq(Pieces(N)) BY <1>2, <1>4, WiderSeq
<1> QED BY <1>5, TemplatesAreSubstituted

\* A directory is read before the other, or after it.
LEMMA SkillCases ==
  CaseKept /\ case.of = "skills" =>
    SkillsOn(IF case.turned THEN Reverse(case.dirs) ELSE case.dirs, case.listed)
<1> SUFFICES ASSUME case \in Cases, case.of = "skills"
             PROVE  SkillsOn(IF case.turned THEN Reverse(case.dirs) ELSE case.dirs, case.listed)
  BY DEF CaseKept
<1> DEFINE D == {"mail", "draft"}
           N == {"draft", ""}
           F == {"SKILL.md", "notes", "image"}
           S == Directories(D, N, F)
<1>1. /\ case.dirs \in SomeDirs("mail") \X SomeDirs("draft")
      /\ case.listed \in SomeListings /\ case.turned \in BOOLEAN
  BY DEF Cases
<1>2. \A n \in D : SomeDirs(n) \subseteq S
  <2> SUFFICES ASSUME NEW n \in D, NEW x \in SomeDirs(n) PROVE x \in S OBVIOUS
  <2>1. PICK m \in SomeManifests, notes \in {{}, {"notes", "image"}} :
          x = [name |-> n, manifest |-> m,
               files |-> (IF m = None THEN {} ELSE {"SKILL.md"}) \cup notes]
    BY DEF SomeDirs
  <2>2. m \in {None, Bare, Broken} \cup {Fenced(k) : k \in N} BY DEF SomeManifests
  <2>3. (IF m = None THEN {} ELSE {"SKILL.md"}) \cup notes \in SUBSET F OBVIOUS
  <2> HIDE DEF D, N, F
  <2> QED BY <2>1, <2>2, <2>3 DEF Directories
<1>3. None \notin D /\ None \notin N /\ "" \notin D /\ "../" \notin F BY SkillsAssumption
<1>4. "mail" \in D /\ "draft" \in D OBVIOUS
<1> HIDE DEF D, N, F, S
<1>5. case.dirs \in S \X S BY <1>1, <1>2, <1>4
<1>6. PICK a \in S, b \in S : case.dirs = <<a, b>> BY <1>5
<1>7. <<a, b>> \in Seq(S) /\ Reverse(<<a, b>>) \in Seq(S)
  <2>1. <<a, b>> \in Seq(S) /\ Len(<<a, b>>) = 2 /\ <<a, b>>[1] = a /\ <<a, b>>[2] = b OBVIOUS
  <2>2. Reverse(<<a, b>>) = [i \in 1..2 |-> <<a, b>>[(2 - i) + 1]] BY <2>1 DEF Reverse
  <2>3. \A i \in 1..2 : (2 - i) + 1 \in {1, 2} OBVIOUS
  <2>4. \A i \in 1..2 : <<a, b>>[(2 - i) + 1] \in S BY <2>1, <2>3
  <2>5. Reverse(<<a, b>>) \in [1..2 -> S] BY <2>2, <2>4
  <2>6. 2 \in Nat OBVIOUS
  <2> QED BY <2>1, <2>5, <2>6, AsSequence
<1>8. case.listed \in Seq({"mail", "draft"})
  <2>1. case.listed \in {<<>>, <<"draft">>, <<"mail", "draft">>} BY <1>1 DEF SomeListings
  <2>2. /\ <<>> \in Seq({"mail", "draft"}) /\ <<"draft">> \in Seq({"mail", "draft"})
        /\ <<"mail", "draft">> \in Seq({"mail", "draft"})
    OBVIOUS
  <2> QED BY <2>1, <2>2
<1>9. PICK dirs : dirs = IF case.turned THEN Reverse(case.dirs) ELSE case.dirs OBVIOUS
<1>10. dirs \in Seq(Directories(D, N, F)) BY <1>6, <1>7, <1>9 DEF S
<1>11. SkillsOn(dirs, case.listed) BY <1>3, <1>8, <1>10, SkillsAreSandboxed
<1> QED BY <1>9, <1>11

\* What a run enumerates are entries, files, texts, templates and directories.
LEMMA DocumentCases == CaseKept => DocumentsSound
<1> SUFFICES ASSUME CaseKept PROVE DocumentsSound OBVIOUS
<1>1. CASE case.of = "shape"
  <2>1. case.raw \in Raw BY <1>1 DEF CaseKept, Cases
  <2> QED BY <1>1, <2>1, EntriesAreDocumented DEF DocumentsSound
<1>2. CASE case.of = "document"
  <2>1. case.d \in Documents BY <1>2 DEF CaseKept, Cases
  <2> QED BY <1>2, <2>1, DocumentsAreFiles, FilesAreChecked DEF DocumentsSound
<1>3. CASE case.of = "text" BY <1>3, TextCases DEF DocumentsSound
<1>4. CASE case.of = "template" BY <1>4, TemplateCases DEF DocumentsSound
<1>5. CASE case.of = "skills" BY <1>5, SkillCases DEF DocumentsSound
<1>6. CASE case.of \notin {"shape", "document", "text", "template", "skills"}
  BY <1>6 DEF DocumentsSound
<1> QED BY <1>1, <1>2, <1>3, <1>4, <1>5, <1>6

\* Every document of the runs means what it says, in every state.
THEOREM DocumentsServed == MCSpec => []DocumentsSound
<1> QED BY SameCase, DocumentCases, PTL

=============================================================================
