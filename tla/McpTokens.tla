------------------------------ MODULE McpTokens ------------------------------
(***************************************************************************)
(* OAuth tokens of one user for one MCP server: the vault row, the cached  *)
(* client registration and the session cache (crates/mcp pool.rs, vault.rs *)
(* and routes.rs).  Agent turns call get_or_spawn concurrently; the user   *)
(* authorises in the browser (connect, oauth_callback) at any time.        *)
(*                                                                         *)
(* Tokens are numbered as the provider issues them; an access token and    *)
(* the refresh token issued with it share a number.  The provider is       *)
(* external: it honours a refresh token for the client it was issued to,   *)
(* and with Rotating it retires a refresh token when it is used.           *)
(***************************************************************************)
EXTENDS Naturals

CONSTANTS
  Reqs,        \* agent turns that need the server's tools
  Flows,       \* browser authorisations
  Rotating,    \* the provider rotates refresh tokens
  Discover,    \* oauth: discover (the client is registered and cached);
               \* FALSE: oauth: static (the client is in the YAML)
  MaxTokens,   \* bound: tokens the provider issues
  MaxLapses,   \* bound: expiries and revocations
  MaxFaults    \* bound: calls that fail on the network

ASSUME McpTokensAssumption ==
  /\ Rotating \in BOOLEAN /\ Discover \in BOOLEAN
  /\ MaxTokens \in Nat /\ MaxLapses \in Nat /\ MaxFaults \in Nat

NoNumber  == 0
Token == [acc : 0..MaxTokens, ref : 0..MaxTokens]
NoToken == [acc |-> NoNumber, ref |-> NoNumber]

VARIABLES
  vault,      \* the mcp_oauth_tokens row
  clientRow,     \* the mcp_oauth_clients row
  session,    \* access token of the cached session
  pc, tok,    \* per turn: progress, and the token in hand
  reactive,   \* per turn: the endpoint already rejected a token
  grants,     \* per turn, history: refresh grants it consumed
  flow,       \* per authorisation: progress
  flowClient, \* per authorisation: the client in its authorize URL
  flowTok,    \* per authorisation: the token it received
  issuedTokens,     \* provider: tokens issued so far
  clients,    \* provider: clients registered so far
  owner,      \* provider: the client a token was issued to
  refreshable,\* provider: refresh tokens it still honours
  accepted,   \* provider: access tokens the endpoint accepts
  expired,    \* access tokens past (or within 60s of) expires_at
  lapses, faults,
  apart,      \* history: no turn or authorisation met another so far
  lost        \* history: tokens whose only holder ended before it saved them

turnVars == <<pc, tok, reactive, grants>>
flowVars == <<flow, flowClient, flowTok>>
provider == <<issuedTokens, clients, owner, refreshable, accepted, expired, lapses>>
vaultVars == <<vault, clientRow, session, turnVars, flowVars, provider, faults, apart, lost>>

Fault == faults < MaxFaults /\ faults' = faults + 1
Lapse == lapses < MaxLapses /\ lapses' = lapses + 1

Quiet ==
  /\ \A r \in Reqs : pc[r] = "idle"
  /\ \A f \in Flows : flow[f] \in {"idle", "done", "failed", "refused"}

VaultInit ==
  /\ vault = NoToken /\ clientRow = NoNumber /\ session = NoNumber
  /\ pc = [r \in Reqs |-> "idle"] /\ tok = [r \in Reqs |-> NoToken]
  /\ reactive = [r \in Reqs |-> FALSE] /\ grants = [r \in Reqs |-> 0]
  /\ flow = [f \in Flows |-> "idle"] /\ flowClient = [f \in Flows |-> NoNumber]
  /\ flowTok = [f \in Flows |-> NoToken]
  /\ issuedTokens = 0 /\ clients = 0
  /\ owner = [n \in 1..MaxTokens |-> NoNumber]
  /\ refreshable = {} /\ accepted = {} /\ expired = {}
  /\ lapses = 0 /\ faults = 0 /\ apart = TRUE /\ lost = {}

Goto(r, where) == pc' = [pc EXCEPT ![r] = where]
FlowTo(f, where) == flow' = [flow EXCEPT ![f] = where]
------------------------------------------------------------------------------
(* get_or_spawn *)

\* A cached session is returned as it is, whatever became of its token: that
\* changes nothing here.

\* No session: read the vault; no row is NotConnected.
ReadVault(r) ==
  /\ pc[r] = "idle" /\ session = NoNumber /\ vault # NoToken
  /\ apart' = (apart /\ Quiet)
  /\ tok' = [tok EXCEPT ![r] = vault]
  /\ Goto(r, "check")
  /\ UNCHANGED <<vault, clientRow, session, reactive, grants, flowVars, provider, faults, lost>>

\* refresh_if_expiring: an unexpired token goes straight to the endpoint.
Check(r) ==
  /\ pc[r] = "check"
  /\ Goto(r, IF tok[r].acc \in expired THEN "refresh" ELSE "connect")
  /\ UNCHANGED <<vault, clientRow, session, tok, reactive, grants, flowVars, provider, faults, apart, lost>>

\* The provider honours the refresh token in hand for the cached client.
Honoured(r) ==
  /\ tok[r].ref \in refreshable
  /\ clientRow # NoNumber /\ owner[tok[r].ref] = clientRow

\* A new access token; a rotating provider retires the refresh token.
\* into_stored_token keeps the old refresh token when none came back.
Refresh(r) ==
  /\ pc[r] = "refresh" /\ Honoured(r) /\ issuedTokens < MaxTokens
  /\ issuedTokens' = issuedTokens + 1
  /\ owner' = [owner EXCEPT ![issuedTokens'] = clientRow]
  /\ accepted' = accepted \cup {issuedTokens'}
  /\ refreshable' = IF Rotating THEN (refreshable \ {tok[r].ref}) \cup {issuedTokens'} ELSE refreshable
  /\ tok' = [tok EXCEPT ![r] = [acc |-> issuedTokens', ref |-> IF Rotating THEN issuedTokens' ELSE @.ref]]
  /\ grants' = [grants EXCEPT ![r] = @ + 1]
  /\ Goto(r, "store")
  /\ UNCHANGED <<vault, clientRow, session, reactive, flowVars, clients, expired, lapses, faults, apart, lost>>

\* What the turn was issued and has not saved yet.
Unsaved(r) == IF pc[r] = "store" THEN {tok[r].acc} ELSE {}

\* No refresh token, no cached client (oauth: static never caches one), a
\* refusal, a network error or a failed save: all are answered by deleting
\* the row.
RefreshFails(r) ==
  /\ \/ pc[r] = "refresh" /\ ~Honoured(r) /\ UNCHANGED faults
     \/ pc[r] \in {"refresh", "store"} /\ Fault
  /\ Goto(r, "delete")
  /\ lost' = lost \cup Unsaved(r)
  /\ UNCHANGED <<vault, clientRow, session, tok, reactive, grants, flowVars, provider, apart>>

\* Mutant: the fresh pair is used but not saved.
StoreForgets(r) ==
  /\ pc[r] = "store"
  /\ Goto(r, IF reactive[r] THEN "reconnect" ELSE "connect")
  /\ UNCHANGED <<vault, clientRow, session, tok, reactive, grants, flowVars, provider, faults, apart, lost>>

\* upsert_token with the refreshed pair.
Store(r) ==
  /\ pc[r] = "store"
  /\ vault' = tok[r]
  /\ Goto(r, IF reactive[r] THEN "reconnect" ELSE "connect")
  /\ UNCHANGED <<clientRow, session, tok, reactive, grants, flowVars, provider, faults, apart, lost>>

Finish(r) ==
  /\ Goto(r, "idle")
  /\ tok' = [tok EXCEPT ![r] = NoToken]
  /\ reactive' = [reactive EXCEPT ![r] = FALSE]
  /\ grants' = [grants EXCEPT ![r] = 0]

\* UserMcpSession::connect: the endpoint accepts the token.
Connect(r) ==
  /\ pc[r] \in {"connect", "reconnect"} /\ tok[r].acc \in accepted
  /\ session' = tok[r].acc
  /\ Finish(r)
  /\ UNCHANGED <<vault, clientRow, flowVars, provider, faults, apart, lost>>

\* Mutant: a rejected token is deleted without trying to refresh it.
RejectedGivesUp(r) ==
  /\ pc[r] = "connect" /\ tok[r].acc \notin accepted
  /\ Goto(r, "delete")
  /\ UNCHANGED <<vault, clientRow, session, tok, reactive, grants, flowVars, provider, faults, apart, lost>>

\* looks_like_auth_failure: reconnect_after_refresh.
Rejected(r) ==
  /\ pc[r] = "connect" /\ tok[r].acc \notin accepted
  /\ reactive' = [reactive EXCEPT ![r] = TRUE]
  /\ Goto(r, "refresh")
  /\ UNCHANGED <<vault, clientRow, session, tok, grants, flowVars, provider, faults, apart, lost>>

\* Any other failure of the first connect leaves the row alone.
ConnectError(r) ==
  /\ pc[r] = "connect"
  /\ Fault
  /\ Finish(r)
  /\ UNCHANGED <<vault, clientRow, session, flowVars, provider, apart, lost>>

\* Mutant: keep refreshing until the endpoint is content.
ReconnectFailsRetries(r) ==
  /\ pc[r] = "reconnect"
  /\ (tok[r].acc \notin accepted /\ UNCHANGED faults) \/ Fault
  /\ Goto(r, "refresh")
  /\ UNCHANGED <<vault, clientRow, session, tok, reactive, grants, flowVars, provider, apart, lost>>

\* "Refresh succeeded but the new token also fails": reauthorise.
ReconnectFails(r) ==
  /\ pc[r] = "reconnect"
  /\ (tok[r].acc \notin accepted /\ UNCHANGED faults) \/ Fault
  /\ Goto(r, "giveUp")
  /\ UNCHANGED <<vault, clientRow, session, tok, reactive, grants, flowVars, provider, apart, lost>>

\* delete_token: whatever the row holds by now.
Delete(r) ==
  /\ pc[r] \in {"delete", "giveUp"}
  /\ vault' = NoToken
  /\ Finish(r)
  /\ UNCHANGED <<clientRow, session, flowVars, provider, faults, apart, lost>>

\* The deletion itself fails: get_or_spawn returns that error, and the row stays.
DeleteFails(r) ==
  /\ pc[r] \in {"delete", "giveUp"}
  /\ Fault
  /\ Finish(r)
  /\ UNCHANGED <<vault, clientRow, session, flowVars, provider, apart, lost>>

\* get_or_spawn runs in the future of the handler that serves the turn: a client
\* that leaves drops it at whichever await it stands, between the exchange and
\* the save too.  (A process that dies drops every turn and callback, and its
\* sessions: Drop, FlowDrop and IdleOut, one after the other.)
Drop(r) ==
  /\ pc[r] # "idle"
  /\ Finish(r)
  /\ lost' = lost \cup Unsaved(r)
  /\ UNCHANGED <<vault, clientRow, session, flowVars, provider, faults, apart>>
------------------------------------------------------------------------------
(* connect, oauth_callback *)

\* resolve: static parameters, or the cached client.
Connecting(f) ==
  /\ flow[f] = "idle"
  /\ apart' = (apart /\ Quiet)
  /\ IF Discover /\ clientRow = NoNumber
     THEN FlowTo(f, "register") /\ UNCHANGED flowClient
     ELSE FlowTo(f, "browser") /\ flowClient' = [flowClient EXCEPT ![f] = clientRow]
  /\ UNCHANGED <<vault, clientRow, session, turnVars, flowTok, provider, faults, lost>>

\* register_client: dynamic registration, then upsert_client.
RegisterClient(f) ==
  /\ flow[f] = "register"
  /\ clients' = clients + 1
  /\ clientRow' = clients'
  /\ flowClient' = [flowClient EXCEPT ![f] = clients']
  /\ FlowTo(f, "browser")
  /\ UNCHANGED <<vault, session, turnVars, flowTok, issuedTokens, owner, refreshable, accepted,
                 expired, lapses, faults, apart, lost>>

\* oauth_callback: resolve once more and exchange the code.  The provider
\* may issue no refresh token with the access token.
ExchangeCode(f) ==
  /\ flow[f] = "browser" /\ clientRow = flowClient[f] /\ issuedTokens < MaxTokens
  /\ issuedTokens' = issuedTokens + 1
  /\ owner' = [owner EXCEPT ![issuedTokens'] = clientRow]
  /\ accepted' = accepted \cup {issuedTokens'}
  /\ \E ref \in {NoNumber, issuedTokens'} :
       /\ refreshable' = refreshable \cup ({ref} \ {NoNumber})
       /\ flowTok' = [flowTok EXCEPT ![f] = [acc |-> issuedTokens', ref |-> ref]]
  /\ FlowTo(f, "store")
  /\ UNCHANGED <<vault, clientRow, session, turnVars, flowClient, clients, expired, lapses,
                 faults, apart, lost>>

\* What the authorisation was issued and has not saved yet.
FlowUnsaved(f) == IF flow[f] = "store" THEN {flowTok[f].acc} ELSE {}

\* Registration or the exchange fails on the network, the user declines, or
\* the save fails: an error page, and the link can be asked for again.
FlowFails(f) ==
  /\ flow[f] \in {"register", "browser", "store"}
  /\ Fault
  /\ FlowTo(f, "failed")
  /\ lost' = lost \cup FlowUnsaved(f)
  /\ UNCHANGED <<vault, clientRow, session, turnVars, flowClient, flowTok, provider, apart>>

\* The browser leaves while its handler runs (register, store), or never comes
\* back from the provider: what it was issued is lost with it.
FlowDrop(f) ==
  /\ flow[f] \in {"register", "browser", "store"}
  /\ FlowTo(f, "failed")
  /\ lost' = lost \cup FlowUnsaved(f)
  /\ UNCHANGED <<vault, clientRow, session, turnVars, flowClient, flowTok, provider, faults, apart>>

\* The code was issued to another client than the one that presents it.
CallbackMismatch(f) ==
  /\ flow[f] = "browser" /\ clientRow # flowClient[f]
  /\ FlowTo(f, "refused")
  /\ UNCHANGED <<vault, clientRow, session, turnVars, flowClient, flowTok, provider, faults, apart, lost>>

\* upsert_token with the first pair.
CallbackStore(f) ==
  /\ flow[f] = "store"
  /\ vault' = flowTok[f]
  /\ FlowTo(f, "done")
  /\ UNCHANGED <<clientRow, session, turnVars, flowClient, flowTok, provider, faults, apart, lost>>
------------------------------------------------------------------------------
(* The provider and time *)

\* An access token reaches its expiry.
Expire(n) ==
  /\ n \in accepted /\ Lapse
  /\ expired' = expired \cup {n} /\ accepted' = accepted \ {n}
  /\ UNCHANGED <<vault, clientRow, session, turnVars, flowVars, issuedTokens, clients, owner, refreshable,
                 faults, apart, lost>>

\* The endpoint stops accepting a token before its expiry.
Withdraw(n) ==
  /\ n \in accepted /\ Lapse
  /\ accepted' = accepted \ {n}
  /\ UNCHANGED <<vault, clientRow, session, turnVars, flowVars, issuedTokens, clients, owner,
                 refreshable, expired, faults, apart, lost>>

\* The user revokes the grant at the provider.
Revoke(n) ==
  /\ n \in refreshable /\ Lapse
  /\ refreshable' = refreshable \ {n} /\ accepted' = accepted \ {n}
  /\ UNCHANGED <<vault, clientRow, session, turnVars, flowVars, issuedTokens, clients, owner, expired,
                 faults, apart, lost>>

\* time_to_idle (30 minutes without a turn) drops the session.
IdleOut ==
  /\ session # NoNumber
  /\ session' = NoNumber
  /\ UNCHANGED <<vault, clientRow, turnVars, flowVars, provider, faults, apart, lost>>

VaultNext ==
  \/ \E r \in Reqs :
       \/ ReadVault(r) \/ Check(r) \/ Refresh(r) \/ RefreshFails(r)
       \/ Store(r) \/ Connect(r) \/ Rejected(r) \/ ConnectError(r)
       \/ ReconnectFails(r) \/ Delete(r) \/ DeleteFails(r) \/ Drop(r)
  \/ \E f \in Flows :
       \/ Connecting(f) \/ RegisterClient(f) \/ ExchangeCode(f) \/ CallbackMismatch(f)
       \/ CallbackStore(f) \/ FlowFails(f) \/ FlowDrop(f)
  \/ \E n \in 1..MaxTokens : Expire(n) \/ Withdraw(n) \/ Revoke(n)
  \/ IdleOut

VaultSpec == VaultInit /\ [][VaultNext]_vaultVars
------------------------------------------------------------------------------
(* Properties *)

RowTypes == vault \in Token /\ clientRow \in Nat /\ session \in 0..MaxTokens

TurnTypes ==
  /\ pc \in [Reqs -> {"idle", "check", "refresh", "store", "connect", "reconnect",
                      "delete", "giveUp"}]
  /\ tok \in [Reqs -> Token] /\ reactive \in [Reqs -> BOOLEAN] /\ grants \in [Reqs -> Nat]

FlowTypes ==
  /\ flow \in [Flows -> {"idle", "register", "browser", "store", "done", "failed",
                         "refused"}]
  /\ flowClient \in [Flows -> Nat] /\ flowTok \in [Flows -> Token]

IssuedTypes ==
  issuedTokens \in 0..MaxTokens /\ clients \in Nat /\ owner \in [1..MaxTokens -> Nat]

SetTypes ==
  /\ refreshable \subseteq 1..MaxTokens /\ accepted \subseteq 1..MaxTokens
  /\ expired \subseteq 1..MaxTokens

CountTypes == lapses \in Nat /\ faults \in Nat /\ apart \in BOOLEAN /\ lost \subseteq 0..MaxTokens

VaultTypes == RowTypes /\ TurnTypes /\ FlowTypes /\ IssuedTypes /\ SetTypes /\ CountTypes

\* reconnect_after_refresh: turns "only fall through to `NotConnected` if the
\* refresh itself is dead".  A row is deleted only when its refresh token is
\* dead, or when the endpoint rejected a token that was just refreshed.
\* Stated for calls that do not fail on the network, and while no turn or
\* authorisation has met another: two that do may spend the same refresh token.
DeletesOnlyDead ==
  [][apart /\ faults = 0 /\ vault # NoToken /\ vault' = NoToken =>
       vault.ref \notin refreshable \/ \E r \in Reqs : pc[r] = "giveUp"]_vaultVars

\* While turns and authorisations come one after the other, between them the
\* vault holds the newest token that was not lost, whatever was dropped, failed
\* or revoked in between.  A token is lost only with the turn or the callback
\* that was issued it, when that one is dropped, or its save fails, between the
\* exchange and upsert_token: the row then keeps the pair the provider retired,
\* and nothing else ever leaves an older pair in it or brings a lost one back.
VaultIsLatest ==
  apart /\ Quiet /\ vault # NoToken =>
    /\ vault.acc \notin lost
    /\ \A n \in 1..issuedTokens : n > vault.acc => n \in lost

\* A turn asks the provider at most twice, once before the call and once
\* after a rejection, however the endpoint and other turns behave.
RefreshBudget == \A r \in Reqs : grants[r] <= 2
==============================================================================
