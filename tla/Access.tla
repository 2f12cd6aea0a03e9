------------------------------- MODULE Access -------------------------------
(***************************************************************************)
(* Who may call what: the `auth:` section (crates/auth config.rs), the     *)
(* scheme each scope then runs (auth.rs), the API tokens that the studio   *)
(* and the command line mint (token.rs, admin.rs, cli commands/token.rs)   *)
(* and the user a chat belongs to (Identity).  A text is a sequence of     *)
(* characters; the digest of a secret is the secret.                       *)
(***************************************************************************)
EXTENDS Integers, Sequences, FiniteSetsExt, Functions

CONSTANTS
  Chars,     \* the characters of texts
  Absent,    \* a key, a header or a field that is not there
  Secrets,   \* what TokenSecret::generate can draw
  Documents, \* the configurations the operator may start with
  Requests,  \* what callers may send
  Forms,     \* what those who mint tokens may fill in
  MaxMonth,  \* bound: calendar months
  MaxSpent   \* bound: micro-USD charged to a token in a month

\* What the types of the code guarantee: the parts of a basic pair, a decoded
\* Basic credential and the principal of a form are texts; an amount is a
\* whole number of tenths; Absent is no text and no secret.
ASSUME AccessAssumption ==
  /\ {" ", ":"} \subseteq Chars
  /\ Absent \notin Secrets /\ Absent \notin Seq(Chars)
  /\ MaxMonth \in Nat /\ MaxSpent \in Nat
  /\ \A c \in Documents : \A scope \in {c.admin, c.proxy} \ {Absent} :
       /\ scope.basic \in [username : Seq(Chars), password : Seq(Chars)] \cup {Absent}
       /\ scope.identity \in {"from_request", "from_credential"}
  /\ \A r \in Requests :
       r.header # Absent /\ r.header.word \in {"Basic", "basic"} =>
         r.header.credential \in Seq(Chars) \cup {Absent}
  /\ \A form \in Forms : /\ form.principal \in Seq(Chars)
                         /\ form.amount # Absent => form.amount.tenths \in Int

VARIABLES
  served,   \* the configuration the process runs, or Absent
  tokens,   \* api_tokens: the row of a secret, or Absent
  usage,    \* token_usage: micro-USD per secret and month
  month     \* the calendar month

accessVars == <<served, tokens, usage, month>>

AccessInit ==
  /\ served = Absent /\ month = 0
  /\ tokens = [s \in Secrets |-> Absent]
  /\ usage = [s \in Secrets |-> [m \in 0..MaxMonth |-> 0]]
-----------------------------------------------------------------------------
\* A scope: basic credentials, an OIDC client, tokens, and the identity mode.
Scoped(basic, oidc, tokened, identity) ==
  [basic |-> basic, oidc |-> oidc, tokens |-> tokened, identity |-> identity]
Basic(username, password) == [username |-> username, password |-> password]
OidcKeys == {"client_id", "issuer_url", "redirect_url"}
Oidc(fields) == [k \in OidcKeys |-> IF k \in fields THEN "given" ELSE ""]

\* The optional secrets of the section: a blank one is <<>>.
Section(admin, proxy, mcpAdmin, consumer, default) ==
  [admin |-> admin, proxy |-> proxy, mcp_admin |-> mcpAdmin,
   mcp_consumer_secret |-> consumer, default_user_id |-> default]

\* str::trim: the text between its first and last character that is not blank.
Trim(text) ==
  LET kept == {i \in DOMAIN text : text[i] # " "}
  IN IF kept = {} THEN <<>> ELSE SubSeq(text, Min(kept), Max(kept))
Blank(text) == text # Absent /\ Trim(text) = <<>>

Declared(scope) ==
  {k \in {"basic", "oidc"} : scope[k] # Absent} \cup (IF scope.tokens THEN {"tokens"} ELSE {})

\* ScopeConfig::validate: one method, none of its fields empty.
ScopeValid(scope) ==
  /\ Cardinality(Declared(scope)) = 1
  /\ scope.oidc # Absent => \A k \in OidcKeys : scope.oidc[k] # ""
  /\ scope.basic # Absent => scope.basic.username # <<>> /\ scope.basic.password # <<>>

\* Config::validate of the section, and the two checks of the whole document
\* that read it.
Admissible(c) ==
  /\ ~Blank(c.default_user_id)
  /\ c.admin # Absent =>
       /\ ScopeValid(c.admin)
       /\ c.admin.identity # "from_credential" /\ ~c.admin.tokens
  /\ ~Blank(c.mcp_admin)
  /\ c.proxy # Absent => ScopeValid(c.proxy)
  /\ ~Blank(c.mcp_consumer_secret)
  /\ ~(/\ c.default_user_id # Absent /\ c.proxy # Absent
       /\ (c.proxy.identity = "from_credential" \/ c.proxy.tokens))

\* Scheme::from_config: the first method the scope declares; no scope, none.
Scheme(scope) ==
  IF scope = Absent THEN "open"
  ELSE IF scope.basic # Absent THEN "basic"
  ELSE IF scope.oidc # Absent THEN "oidc" ELSE "tokens"

\* A bug for the checks: the written mode is taken at its word.
ModeWritten(c) == IF c.proxy = Absent THEN "from_request" ELSE c.proxy.identity

\* Identity's mode (Serving::identity): tokens bind the user to the credential.
Mode(c) ==
  IF c.proxy = Absent THEN "from_request"
  ELSE IF c.proxy.tokens THEN "from_credential" ELSE c.proxy.identity
-----------------------------------------------------------------------------
\* A request: its Authorization header (the word before the first space as
\* written, and the credential after it: the decoded text under Basic, the
\* trimmed secret under Bearer; Absent when it does not decode or is blank),
\* the subject of its OIDC session, and the two user fields of its body.
Header(word, credential) == [word |-> word, credential |-> credential]
Request(header, session, safety, user) ==
  [header |-> header, session |-> session, safety_identifier |-> safety, user |-> user]

Let(principal, token) == [status |-> 200, principal |-> principal, token |-> token]
Turn(status) == [status |-> status, principal |-> Absent, token |-> Absent]

Colons(text) == {i \in DOMAIN text : text[i] = ":"}
Cut(text, i) == Basic(SubSeq(text, 1, i - 1), SubSeq(text, i + 1, Len(text)))

\* Credentials::verify_header: split at the first colon, then both compared.
Verifies(creds, header) ==
  /\ header # Absent /\ header.word \in {"Basic", "basic"} /\ header.credential # Absent
  /\ Colons(header.credential) # {}
  /\ Cut(header.credential, Min(Colons(header.credential))) = creds

\* bearer_secret.
Bearer(header) ==
  IF header # Absent /\ header.word \in {"Bearer", "bearer"} THEN header.credential ELSE Absent

Live(s) == s \in Secrets /\ tokens[s] # Absent /\ ~tokens[s].revoked

\* TokenStore::authenticate, with TokenStore::verify.
Tokened(r) ==
  IF Live(Bearer(r.header)) THEN Let(tokens[Bearer(r.header)].principal, Bearer(r.header))
  ELSE Turn(401)

\* The OIDC layers: a session carries its subject on, no session goes to log in.
LoggedIn(r) == IF r.session = Absent THEN Turn(302) ELSE Let(r.session, Absent)

\* Scheme::apply.
Authenticate(scope, r) ==
  CASE Scheme(scope) = "open"   -> Let(Absent, Absent)
    [] Scheme(scope) = "basic"  ->
         IF Verifies(scope.basic, r.header) THEN Let(scope.basic.username, Absent) ELSE Turn(401)
    [] Scheme(scope) = "oidc"   -> LoggedIn(r)
    [] Scheme(scope) = "tokens" -> Tokened(r)

\* ChatCompletionRequest::user_key: a blank safety_identifier hides `user`.
UserKey(r) ==
  LET raw == IF r.safety_identifier # Absent THEN r.safety_identifier ELSE r.user
  IN IF raw = Absent \/ Blank(raw) THEN Absent ELSE Trim(raw)

Answer(status, user) == [status |-> status, user |-> user]

\* Identity::resolve.
ResolvedUser(c, r, principal) ==
  IF Mode(c) = "from_request"
  THEN IF UserKey(r) # Absent THEN Answer(200, UserKey(r))
       ELSE IF c.default_user_id # Absent THEN Answer(200, c.default_user_id)
       ELSE Answer(400, Absent)
  ELSE IF principal = Absent \/ (UserKey(r) # Absent /\ UserKey(r) # principal)
       THEN Answer(403, Absent) ELSE Answer(200, principal)

\* Budget::from_db reads what to_db wrote.
Capped(row) == row.budget.kind # "unlimited"

\* TokenStore::spend_since, over the window of the budget (list_at).
PeriodSpend(s) ==
  IF tokens[s].budget.kind = "monthly" THEN usage[s][month]
  ELSE SumFunction(usage[s])

\* TokenStore::check_budget.
Exceeded(s) ==
  /\ Live(s) /\ Capped(tokens[s])
  /\ LET since == IF tokens[s].budget.kind = "monthly" THEN month ELSE 0
     IN SumFunctionOnSet(usage[s], since..month) >= tokens[s].budget.limit

\* One request to a chat: the scope, the user, the budget of its token.
Chat(r) ==
  LET a == Authenticate(served.proxy, r)
      u == ResolvedUser(served, r, a.principal)
  IN CASE a.status # 200 -> Answer(a.status, Absent)
       [] a.status = 200 /\ u.status # 200 -> u
       [] a.status = 200 /\ u.status = 200 ->
            IF a.token # Absent /\ Exceeded(a.token) THEN Answer(429, Absent) ELSE u

\* Serving::app: the files stand behind the proxy scope, the studio behind the
\* admin scope; a slash too many only redirects.
FileApi(r) == Authenticate(served.proxy, r).status
Studio(r) == Authenticate(served.admin, r).status
AdminSlash(r) == 308
-----------------------------------------------------------------------------
\* The process starts, or refuses to: validation, then OIDC discovery.
Start(c, discovered) ==
  /\ served = Absent
  /\ served' = IF /\ Admissible(c)
                  /\ discovered \/ \A x \in {c.admin, c.proxy} : Scheme(x) # "oidc"
               THEN c ELSE Absent
  /\ UNCHANGED <<tokens, usage, month>>

Stop == served # Absent /\ served' = Absent /\ UNCHANGED <<tokens, usage, month>>

\* A dollar amount as written: "finite", "infinite" (or not a number) or
\* "junk", and its value in tenths of a micro-USD.
Dollars(written, tenths) == [written |-> written, tenths |-> tenths]
Form(label, principal, kind, amount) ==
  [label |-> label, principal |-> principal, kind |-> kind, amount |-> amount]
Parses(form) ==
  /\ form.kind \in {"monthly", "total", "unlimited"}
  /\ form.amount # Absent => form.amount.written # "junk"
UsdToMicro(amount) == (amount.tenths + 5) \div 10

NoBudget == [kind |-> "unlimited", limit |-> 0]

\* Budget::from_parts with require_positive; Absent: refused.
BudgetOf(kind, amount) ==
  IF kind = "unlimited" THEN NoBudget
  ELSE IF amount # Absent /\ amount.written = "finite" /\ amount.tenths > 0
       THEN [kind |-> kind, limit |-> UsdToMicro(amount)] ELSE Absent

Row(principal, budget) == [principal |-> principal, budget |-> budget, revoked |-> FALSE]

\* TokenStore::mint: a fresh secret.
MintToken(s, principal, budget) ==
  /\ tokens[s] = Absent /\ budget # Absent
  /\ tokens' = [tokens EXCEPT ![s] = Row(principal, budget)]
  /\ UNCHANGED <<served, usage, month>>

\* Somebody gets into the studio.
Managed == served # Absent /\ \E r \in Requests : Studio(r) = 200

\* TokenAdmin::create: an admin's form.  A blank label or principal and an
\* amount that is no number are refused; both texts are trimmed.
Create(s, form) ==
  /\ Managed /\ Parses(form) /\ ~Blank(form.label) /\ ~Blank(form.principal)
  /\ MintToken(s, Trim(form.principal), BudgetOf(form.kind, form.amount))

\* `coulisse token create`, on the same database: nothing is trimmed.
CreateByHand(s, form) ==
  Parses(form) /\ MintToken(s, form.principal, BudgetOf(form.kind, form.amount))

\* TokenStore::revoke, from `coulisse token revoke` or the studio.
RevokeToken(s) ==
  /\ Live(s)
  /\ tokens' = [tokens EXCEPT ![s].revoked = TRUE]
  /\ UNCHANGED <<served, usage, month>>

\* TokenStore::record_spend after a chat that was let in; nothing is charged
\* for a free model.
Spend(r, cost) ==
  /\ served # Absent /\ Chat(r).status = 200 /\ cost > 0
  /\ LET s == Authenticate(served.proxy, r).token
     IN /\ s # Absent /\ usage[s][month] + cost <= MaxSpent
        /\ usage' = [usage EXCEPT ![s][month] = @ + cost]
  /\ UNCHANGED <<served, tokens, month>>

NextMonth == month < MaxMonth /\ month' = month + 1 /\ UNCHANGED <<served, tokens, usage>>

AccessNext ==
  \/ \E c \in Documents, discovered \in BOOLEAN : Start(c, discovered)
  \/ Stop
  \/ \E s \in Secrets, form \in Forms : Create(s, form) \/ CreateByHand(s, form)
  \/ \E s \in Secrets : RevokeToken(s)
  \/ \E r \in Requests, cost \in 1..MaxSpent : Spend(r, cost)
  \/ NextMonth

AccessSpec == AccessInit /\ [][AccessNext]_accessVars
-----------------------------------------------------------------------------
\* What the operator means by a scope: the request presents its credential.
Presents(scope, r) ==
  LET given(words, credentials) ==
        r.header # Absent /\ r.header.word \in words /\ r.header.credential \in credentials
  IN CASE Scheme(scope) = "open" -> TRUE
       [] Scheme(scope) = "basic" ->
            given({"Basic", "basic"}, {scope.basic.username \o <<":">> \o scope.basic.password})
       [] Scheme(scope) = "oidc" -> r.session # Absent
       [] Scheme(scope) = "tokens" -> given({"Bearer", "bearer"}, {s \in Secrets : Live(s)})

\* Whose credential it is.
Owner(scope, r) ==
  CASE Scheme(scope) = "open"   -> Absent
    [] Scheme(scope) = "basic"  -> scope.basic.username
    [] Scheme(scope) = "oidc"   -> r.session
    [] Scheme(scope) = "tokens" -> tokens[r.header.credential].principal

\* A username with a colon passes validation, and no header can match it.
Reachable(scope) == Scheme(scope) = "basic" => Colons(scope.basic.username) = {}

\* The proxy and the studio are open to those who present the credential of
\* their scope and to nobody else, whatever the other scope asks for.
DoorsHold ==
  \A r \in Requests :
    LET let(scope, status) ==
          /\ status \notin {302, 401} => Presents(scope, r)
          /\ Presents(scope, r) /\ Reachable(scope) => status \notin {302, 401}
    IN /\ let(served.proxy, Chat(r).status) /\ let(served.proxy, FileApi(r))
       /\ let(served.admin, Studio(r))

\* Where the configuration binds users to credentials (tokens always do), a
\* chat belongs to the owner of its credential: it may name nobody else, and
\* no user stands in for it.  Elsewhere it is the user the body names.
UsersHold ==
  LET bound == served.proxy # Absent
                 /\ (served.proxy.identity = "from_credential" \/ served.proxy.tokens)
  IN \A r \in Requests :
       Chat(r).status = 200 =>
         IF bound THEN /\ Chat(r).user = Owner(served.proxy, r)
                       /\ UserKey(r) \in {Absent, Chat(r).user}
                       /\ served.default_user_id = Absent
         ELSE Chat(r).user = (IF UserKey(r) # Absent THEN UserKey(r) ELSE served.default_user_id)

\* A token is refused for its budget exactly when the studio shows its budget
\* spent: over this month for a monthly one, over all months otherwise.
BudgetsHold ==
  \A r \in Requests :
    LET s == Bearer(r.header)
        owner == tokens[s].principal
    IN Scheme(served.proxy) = "tokens" /\ Live(s) /\ UserKey(r) \in {Absent, owner}
         => (Chat(r).status = 429
               <=> Capped(tokens[s]) /\ PeriodSpend(s) >= tokens[s].budget.limit)

\* No request gets past the scope it meets, becomes another user or spends
\* past its budget, and none is refused what the configuration and the
\* tokens grant (Auth, Identity, TokenStore).
AccessHolds == served # Absent => DoorsHold /\ UsersHold /\ BudgetsHold
=============================================================================
