----------------------------- MODULE McpConnect -----------------------------
(***************************************************************************)
(* How a user connects an account: the link a turn hands out, the connect  *)
(* and connect-link handlers, discovery and dynamic registration, the      *)
(* provider's consent screen and the callback (crates/mcp routes.rs,       *)
(* oauth.rs, discovery.rs, dcr.rs).                                        *)
(*                                                                         *)
(* Links and states are sealed with the key of the process: whoever has    *)
(* one may open it, or return with it, any number of times, and a browser  *)
(* may be signed in to any account of the provider.  Tokens do not expire  *)
(* here; that is McpTokens.  The provider is external.                     *)
(***************************************************************************)
EXTENDS McpShapes, FiniteSets

CONSTANTS
  Names,      \* MCP servers that a configuration may declare
  Users,
  Tabs,       \* browser tabs
  First,      \* the configuration of the first boot
  Configs,    \* configurations an operator boots with later
  Publishes,  \* what the provider of a server publishes, over time
  TTL,        \* STATE_TTL_SECS
  MaxClock, MaxMishaps, MaxBoots, MaxLinks  \* bounds

Config == [mcp : [Names -> Raw \cup {None}],  \* the `mcp:` section
           redirect : [Names -> Names],       \* the server a static redirect_uri is of
           base : Nat, key : Nat,             \* public_base_url, COULISSE_HMAC_KEY
           consumer : BOOLEAN]                \* auth.mcp_consumer_secret is set

\* Every entry of the file loads.
Boots(c) == \A n \in Names : c.mcp[n] = None \/ Loads(c.mcp[n])

ASSUME McpConnectAssumption ==
  /\ First \in Config /\ Boots(First) /\ Configs \subseteq Config
  /\ Publishes \in [Names -> SUBSET Published]
  /\ None \notin Tabs \cup Names \cup Users
  /\ TTL \in Nat /\ MaxClock \in Nat /\ MaxMishaps \in Nat /\ MaxBoots \in Nat /\ MaxLinks \in Nat

VARIABLES
  up, cfg,     \* the process runs, and its configuration
  now, mishaps, boots,
  links,       \* sealed tokens that turns handed out
  client,      \* mcp_oauth_clients: the registration of a server
  token,       \* mcp_oauth_tokens, per server and user
  issued,      \* provider: registrations of a server so far
  tab,         \* a browser tab and the request it has in flight
  raced,       \* history: servers of which a registration met another or was lost
  churned,     \* history: tabs under way when the configuration changed
  lent         \* history: users through whose link another account consented

clock   == <<up, cfg, now, boots>>
history == <<raced, churned, lent>>
vars    == <<clock, mishaps, links, client, token, issued, tab, history>>

\* The server, or None when the file does not have it.
Server(n) == IF cfg.mcp[n] = None THEN None ELSE Entry(cfg.mcp[n])
Authorised(n) == Server(n) # None /\ Server(n).oauth # "none"

\* StateToken::encrypt.
Seal(n, u, verifier) ==
  [server |-> n, user |-> u, verifier |-> verifier, exp |-> now + TTL, key |-> cfg.key]

Forged   == [server |-> None, user |-> None, verifier |-> None, exp |-> 0, key |-> 0]
\* pub, what the registration was told, is history.
NoClient == [id |-> 0, base |-> 0, server |-> None, scopes |-> {}, pub |-> None]

\* pc; which handler; the seal in its URL; the registration it has in hand; the
\* authorize URL, with the state sent along; the code, and whose consent it is.
Away == [pc |-> "away", leg |-> "connect", seal |-> Forged, meta |-> NoClient,
         asked |-> NoClient, sent |-> Forged, code |-> "none", account |-> None]
Refused == [Away EXCEPT !.pc = "refused"]

Handling == {"cached", "register", "remember", "ask", "exchange", "save"}
Set(f, t) == tab' = [tab EXCEPT ![f] = t]
At(f, where) == Set(f, [tab[f] EXCEPT !.pc = where])
Mishap == mishaps < MaxMishaps /\ mishaps' = mishaps + 1

\* Tabs that registered, or are about to, and whose row is not stored.
Registering(n) == {f \in Tabs : tab[f].seal.server = n /\ tab[f].pc \in {"register", "remember"}}

Init ==
  /\ cfg = First /\ up = TRUE /\ now = 0 /\ mishaps = 0 /\ boots = 0
  /\ links = {}
  /\ client = [n \in Names |-> NoClient] /\ token = [s \in Names \X Users |-> None]
  /\ issued = [n \in Names |-> 0] /\ tab = [f \in Tabs |-> Away]
  /\ raced = {} /\ churned = {} /\ lent = {}
-----------------------------------------------------------------------------
(* Links *)

\* NotConnectedTool::new, connect_url: a turn of a user without a token.
Mint(n, u) ==
  /\ up /\ Authorised(n) /\ token[<<n, u>>] = None
  /\ Cardinality(links) < MaxLinks
  /\ links' = links \cup {Seal(n, u, None)}
  /\ UNCHANGED <<clock, mishaps, client, token, issued, tab, history>>

\* StateToken::decrypt: sealed with this key, unchanged, and not expired.
Unseals(s) == s # Forged /\ s.key = cfg.key /\ now <= s.exp

\* The checks of connect and oauth_callback.
Accepts(s, n) == Unseals(s) /\ s.server = n /\ Authorised(n)

\* The handler starts, or refuses.
Enter(f, ok, s) == Set(f, IF ok THEN [Away EXCEPT !.pc = "cached", !.seal = s] ELSE Refused)

\* connect: a browser follows a link, the one it was given or one it made up.
Open(f, s, n) ==
  /\ up /\ tab[f].pc = "away" /\ s \in links \cup {Forged}
  /\ Enter(f, Accepts(s, n), [s EXCEPT !.server = n])
  /\ UNCHANGED <<clock, mishaps, links, client, token, issued, history>>

\* connect_link: an operator's script asks on behalf of a user, with the
\* consumer secret; 503, 401, 422 or 404 otherwise.
OpenFor(f, n, u, bearer) ==
  /\ up /\ tab[f].pc = "away"
  /\ Enter(f, cfg.consumer /\ bearer /\ u # None /\ Authorised(n), Seal(n, u, None))
  /\ UNCHANGED <<clock, mishaps, links, client, token, issued, history>>
-----------------------------------------------------------------------------
(* OAuthRouterState::resolve, for both handlers *)

Resolved(f, meta) ==
  Set(f, [tab[f] EXCEPT !.meta = meta, !.pc = IF tab[f].leg = "connect" THEN "ask" ELSE "exchange"])

\* What the file says of a static server; its redirect address may be another's.
StaticClient(n) == [id |-> 0, base |-> cfg.base, server |-> cfg.redirect[n],
                    scopes |-> Server(n).scopes, pub |-> None]

\* A bug for the checks: nothing is cached; every leg registers anew.
ResolveAnew(f) ==
  LET n == tab[f].seal.server s == Server(n) IN
  /\ tab[f].pc = "cached"
  /\ \/ s.oauth = "static" /\ Resolved(f, StaticClient(n)) /\ UNCHANGED raced
     \/ s.oauth = "discover" /\ s.transport = "stdio" /\ Set(f, Refused) /\ UNCHANGED raced
     \/ /\ s.oauth = "discover" /\ s.transport # "stdio"
        /\ At(f, "register")
        /\ raced' = IF Registering(n) = {} THEN raced ELSE raced \cup {n}
  /\ UNCHANGED <<clock, mishaps, links, client, token, issued, churned, lent>>

\* Static parameters come from the file; a stdio server has no URL to discover
\* from; get_client answers for a server that was registered before.
Resolve(f) ==
  LET n == tab[f].seal.server s == Server(n) IN
  /\ tab[f].pc = "cached"
  /\ \/ s.oauth = "static" /\ Resolved(f, StaticClient(n)) /\ UNCHANGED raced
     \/ s.oauth = "discover" /\ s.transport = "stdio" /\ Set(f, Refused) /\ UNCHANGED raced
     \/ /\ s.oauth = "discover" /\ s.transport # "stdio" /\ client[n] # NoClient
        /\ Resolved(f, client[n]) /\ UNCHANGED raced
     \/ /\ s.oauth = "discover" /\ s.transport # "stdio" /\ client[n] = NoClient
        /\ At(f, "register")
        /\ raced' = IF Registering(n) = {} THEN raced ELSE raced \cup {n}
  /\ UNCHANGED <<clock, mishaps, links, client, token, issued, churned, lent>>

\* AuthMetadata::discover, then register_client: no metadata, DcrUnsupported,
\* or a new client at the provider.
Register(f) ==
  LET n == tab[f].seal.server IN
  /\ tab[f].pc = "register"
  /\ \E pub \in Publishes[n] :
     IF pub.metadata /\ pub.registers
     THEN /\ issued' = [issued EXCEPT ![n] = @ + 1]
          /\ Set(f, [tab[f] EXCEPT !.pc = "remember", !.meta =
               [id |-> issued[n] + 1, base |-> cfg.base, server |-> n, scopes |-> Cached(pub), pub |-> pub]])
     ELSE Set(f, Refused) /\ UNCHANGED issued
  /\ UNCHANGED <<clock, mishaps, links, client, token, history>>

\* upsert_client: "cache the result in the vault for every subsequent user".
Remember(f) ==
  /\ tab[f].pc = "remember"
  /\ client' = [client EXCEPT ![tab[f].seal.server] = tab[f].meta]
  /\ Resolved(f, tab[f].meta)
  /\ UNCHANGED <<clock, mishaps, links, token, issued, history>>
-----------------------------------------------------------------------------
(* The authorize URL, the consent screen and the callback *)

\* The browser is sent to the consent screen with the state it is to bring back.
SentWith(f, state) ==
  LET n == tab[f].seal.server meta == tab[f].meta IN
  Set(f, [tab[f] EXCEPT !.pc = "provider", !.meta = NoClient, !.seal = state, !.sent = state,
       !.asked = IF Server(n).oauth = "static" THEN meta
                 ELSE [meta EXCEPT !.scopes = EffectiveScopes(Server(n).scopes, meta.scopes)]])

\* A bug for the checks: no PKCE challenge.
AskPlain(f) ==
  /\ tab[f].pc = "ask"
  /\ SentWith(f, Seal(tab[f].seal.server, tab[f].seal.user, None))
  /\ UNCHANGED <<clock, mishaps, links, client, token, issued, history>>

\* authorize_url with a fresh state, which carries the PKCE verifier.  Scopes
\* of a static entry are sent as they are.
Ask(f) ==
  /\ tab[f].pc = "ask"
  /\ SentWith(f, Seal(tab[f].seal.server, tab[f].seal.user, f))
  /\ UNCHANGED <<clock, mishaps, links, client, token, issued, history>>

\* The account p that the browser is signed in to consents, or nobody does.
Consent(f, p) ==
  /\ tab[f].pc = "provider"
  /\ Set(f, [tab[f] EXCEPT !.pc = "returning", !.account = p,
                           !.code = IF p = None THEN "none" ELSE "fresh"])
  /\ lent' = IF p \in {None, tab[f].sent.user} THEN lent ELSE lent \cup {tab[f].sent.user}
  /\ UNCHANGED <<clock, mishaps, links, client, token, issued, raced, churned>>

\* States that a request may carry: of any tab, of a link, or made up.
States == {tab[g].sent : g \in Tabs} \cup links \cup {Forged}

\* oauth_callback: the browser returns to the address it was sent with, which
\* is not this server if the registration names an earlier public_base_url;
\* the state is a parameter of the request like any other.
Callback(f, s) ==
  /\ up /\ tab[f].pc = "returning" /\ s \in States
  /\ Set(f, IF tab[f].code # "none" /\ tab[f].asked.base = cfg.base /\ Accepts(s, tab[f].asked.server)
            THEN [tab[f] EXCEPT !.pc = "cached", !.leg = "callback", !.seal = s] ELSE Refused)
  /\ UNCHANGED <<clock, mishaps, links, client, token, issued, history>>

\* The token endpoint of the seal's server honours a code of its own once, for
\* the client it was issued to, with the verifier of the challenge and the same
\* redirect address.
Honours(f) ==
  /\ tab[f].code = "fresh"
  /\ tab[f].seal.server = tab[f].sent.server /\ tab[f].seal.verifier = tab[f].sent.verifier
  /\ tab[f].meta.id = tab[f].asked.id /\ tab[f].meta.base = tab[f].asked.base

\* exchange_code.
Exchange(f) ==
  /\ tab[f].pc = "exchange"
  /\ IF Honours(f) THEN Set(f, [tab[f] EXCEPT !.pc = "save", !.code = "used"]) ELSE Set(f, Refused)
  /\ UNCHANGED <<clock, mishaps, links, client, token, issued, history>>

\* What the provider granted with the code, and to whose request.
Grant(f) == [server |-> tab[f].sent.server, user |-> tab[f].sent.user,
             account |-> tab[f].account, scopes |-> tab[f].asked.scopes]

\* upsert_token, under the callback's seal.  What a row says of its grant is history.
Save(f) ==
  /\ tab[f].pc = "save"
  /\ token' = [token EXCEPT ![<<tab[f].seal.server, tab[f].seal.user>>] = Grant(f)]
  /\ Set(f, [tab[f] EXCEPT !.pc = "done", !.meta = NoClient])
  /\ UNCHANGED <<clock, mishaps, links, client, issued, history>>
-----------------------------------------------------------------------------
(* What goes wrong *)

Lost(f) == IF tab[f].pc \in {"register", "remember"} THEN {tab[f].seal.server} ELSE {}

\* A call or a write fails, or the browser leaves and the handler is dropped.
Breaks(f) ==
  /\ tab[f].pc \in Handling /\ Mishap
  /\ Set(f, Refused)
  /\ raced' = raced \cup Lost(f)
  /\ UNCHANGED <<clock, links, client, token, issued, churned, lent>>

\* The tab asks for the callback once more.
Reload(f) ==
  /\ up /\ tab[f].pc = "done" /\ Mishap
  /\ At(f, "returning")
  /\ UNCHANGED <<clock, links, client, token, issued, history>>

\* The process is restarted, maybe with another configuration; an entry that
\* does not load keeps it down.  Tables, links and what tabs show survive.
Boot(c) ==
  /\ boots < MaxBoots
  /\ boots' = boots + 1 /\ cfg' = c /\ up' = Boots(c)
  /\ tab' = [f \in Tabs |-> IF tab[f].pc \in Handling THEN Refused ELSE tab[f]]
  /\ raced' = raced \cup UNION {Lost(f) : f \in Tabs}
  /\ churned' = churned \cup {f \in Tabs : tab[f].pc # "away"}
  /\ UNCHANGED <<now, mishaps, links, client, token, issued, lent>>

Tick ==
  /\ now < MaxClock
  /\ now' = now + 1
  /\ UNCHANGED <<up, cfg, boots, mishaps, links, client, token, issued, tab, history>>

Handle(f) ==
  \/ Resolve(f) \/ Register(f) \/ Remember(f) \/ Ask(f) \/ Exchange(f) \/ Save(f)
  \/ \E s \in States : Callback(f, s)

Next ==
  \/ \E n \in Names, u \in Users : Mint(n, u)
  \/ \E f \in Tabs, n \in Names : \E s \in links \cup {Forged} : Open(f, s, n)
  \/ \E f \in Tabs, n \in Names, u \in Users \cup {None}, b \in BOOLEAN : OpenFor(f, n, u, b)
  \/ \E f \in Tabs : Handle(f) \/ Breaks(f) \/ Reload(f)
  \/ \E f \in Tabs, p \in Users \cup {None} : Consent(f, p)
  \/ \E c \in Configs : Boot(c)
  \/ Tick

Spec == Init /\ [][Next]_vars
-----------------------------------------------------------------------------
(* Properties *)

\* "Tokens are stored in the vault keyed by (server, user_id), never shared
\* across users": the row of a user and a server holds what was granted on that
\* server to that user's own request - by that user's account, unless somebody
\* else consented through a link of theirs - whatever links and states were
\* replayed, mixed up or made up, however tabs overlap and whatever the operator
\* changed meanwhile.
GrantsBelong ==
  \A n \in Names, u \in Users :
    LET row == token[<<n, u>>] IN
    row # None => row.server = n /\ row.user = u /\ (row.account = u \/ u \in lent)

\* dcr.rs: "Coulisse-wide registration - one row per server, reused across
\* users": a server is registered twice only when two first connections met,
\* or a registration was lost before it was stored.
RegisteredOnce == \A n \in Names : issued[n] > 1 => n \in raced

\* effective_scopes: a user who is asked for consent is asked for the scopes of
\* the file; without any, for those of the resource, of the authorization server
\* or of the registration, the first of these that names any when the client was
\* registered; and otherwise for the default, never for none.
ScopesAsked ==
  \A f \in Tabs :
    LET asked == tab[f].asked
        offers == <<Server(tab[f].seal.server).scopes, asked.pub.resource, asked.pub.scopes,
                    asked.pub.echoes, {"openid"}>>
    IN tab[f].pc = "provider" /\ f \notin churned /\ Server(tab[f].seal.server).oauth = "discover" =>
         \E i \in 1..5 : /\ asked.scopes = offers[i] /\ offers[i] \notin {None, {}}
                        /\ \A j \in 1..(i - 1) : offers[j] \in {None, {}}

\* What the handlers do with a provider, as the operator wrote the file.
ClientSound == RegisteredOnce /\ ScopesAsked

\* A code that was granted is refused by the token endpoint only when
\* registrations raced, the configuration changed under way, the browser came
\* twice or it came with another state than it was given: both legs present the
\* same client and verifier.
CodesHonoured ==
  [][\A f \in Tabs : tab[f].pc = "exchange" /\ ~Honours(f) =>
       tab[f].seal.server \in raced \/ f \in churned \/ tab[f].code = "used" \/ tab[f].seal # tab[f].sent]_vars
=============================================================================
