------------------------------ MODULE McpShapes ------------------------------
(***************************************************************************)
(* One entry of the `mcp:` section: which transport it means, whether      *)
(* users authorise it and which scopes they are asked for (crates/mcp      *)
(* config.rs, discovery.rs, dcr.rs).  Pure operators.                      *)
(***************************************************************************)
EXTENDS Naturals

CONSTANT None  \* a key that is not written

Scope == {"mail", "admin", "openid"}  \* "openid" stands for the OIDC default list

ASSUME ShapesAssumption ==
  /\ \A s \in SUBSET Scope : s # None
  /\ None \notin {"http", "sse", "stdio", "ws", "plain", "off", "discover", "static", "junk"}

\* RawServerPayload: transport tag; the URL, with or without an `sse` path
\* segment; command; the `oauth:` value and its scopes.
Raw == [tag : {None, "http", "sse", "stdio", "ws"}, url : {None, "plain", "sse"},
        command : BOOLEAN, oauth : {None, "off", "discover", "static", "junk"},
        scopes : SUBSET Scope]

\* url_path_includes_sse.
HasSsePath(url) == url = "sse"

\* McpTransport::try_from: a transport or the error; without a tag the fields
\* decide.
TransportOf(raw) ==
  LET urlOnly == raw.url # None /\ ~raw.command
      cmdOnly == raw.url = None /\ raw.command
  IN IF raw.tag = None
     THEN CASE urlOnly -> IF HasSsePath(raw.url) THEN "sse" ELSE "http"
            [] cmdOnly                                  -> "stdio"
            [] raw.url # None /\ raw.command            -> "UrlAndCommand"
            [] OTHER                                    -> "Empty"
     ELSE CASE raw.tag \in {"http", "sse"} /\ urlOnly        -> raw.tag
            [] raw.tag = "stdio" /\ cmdOnly                  -> "stdio"
            [] raw.tag \in {"http", "sse"} /\ raw.url = None -> "UrlTransportWithoutUrl"
            [] raw.tag = "stdio" /\ raw.url # None           -> "StdioWithUrl"
            [] OTHER                                         -> "UnknownTag"

Transports == {"http", "sse", "stdio"}
Remote     == {"http", "sse"}

\* resolve_default: URL servers are authorised unless they opt out.
OAuthOf(raw) ==
  IF raw.oauth # None THEN IF raw.oauth = "off" THEN "none" ELSE raw.oauth
  ELSE IF TransportOf(raw) \in Remote THEN "discover" ELSE "none"

\* McpServerConfig::deserialize: an entry that fails keeps the file from loading.
Loads(raw) == TransportOf(raw) \in Transports /\ OAuthOf(raw) # "junk"
Entry(raw) == [transport |-> TransportOf(raw), oauth |-> OAuthOf(raw), scopes |-> raw.scopes]

\* What a provider publishes: does the MCP origin describe the protected
\* resource (and with which scopes), does the authorization server publish
\* metadata, a registration endpoint and methods of client authentication,
\* and which scopes a registration echoes.
Published == [resource : {None} \cup SUBSET Scope, metadata : BOOLEAN, scopes : SUBSET Scope,
              registers : BOOLEAN, methods : SUBSET {"none", "post", "basic"},
              echoes : {None} \cup SUBSET Scope]

\* AuthMetadata::discover: the resource's scopes replace the server's.
Discovered(pub) ==
  IF pub.resource # None /\ pub.resource # {} THEN pub.resource ELSE pub.scopes

\* A bug for the checks: the echoed scopes win.
CachedEchoed(pub) ==
  IF pub.echoes # None /\ pub.echoes # {} THEN pub.echoes ELSE Discovered(pub)

\* OAuthRouterState::register_client: the echoed scopes fill an empty list.
Cached(pub) ==
  IF Discovered(pub) = {} /\ pub.echoes # None THEN pub.echoes ELSE Discovered(pub)

\* AuthMetadata::register_client's choice of client authentication: public
\* when the server says it takes "none", or says nothing.
PublicClient(pub) == "none" \in pub.methods \/ pub.methods = {}

\* effective_scopes: YAML, then what was discovered, then the OIDC default.
EffectiveScopes(yaml, discovered) ==
  IF yaml # {} THEN yaml ELSE IF discovered # {} THEN discovered ELSE {"openid"}
-----------------------------------------------------------------------------
\* "Inference rules" of McpServerConfig: an entry that loads is what its
\* fields say, the tag overriding the path; it is authorised exactly when it
\* says so or is a URL that does not opt out.
DocumentedOn(raw) ==
  Loads(raw) =>
    /\ TransportOf(raw) = "stdio" <=> raw.command
    /\ TransportOf(raw) \in Remote <=> raw.url # None
    /\ raw.tag # None => TransportOf(raw) = raw.tag
    /\ raw.tag = None /\ raw.url # None => (TransportOf(raw) = "sse") = HasSsePath(raw.url)
    /\ OAuthOf(raw) = "none" <=> raw.oauth = "off" \/ (raw.oauth = None /\ raw.url = None)
=============================================================================
