---------------------------- MODULE MCMcpTokens ----------------------------
(* Credentials for TLC.  A behaviour is about the tokens of one MCP server, *)
(* or about who gets in: every kind of scope on either side, documents that *)
(* must be refused, headers that nearly match, forms that ask too much.     *)
EXTENDS McpTokens, Access, TLC

VARIABLE part

\* Texts: a user, the same padded, another, a blank one; a colon in either part.
Ann    == <<"a">>
Padded == <<" ", "a">>
Bob    == <<"b">>
Empty  == <<" ">>

MCScopes ==
  {Scoped(Basic(Ann, <<"p", ":", "q">>), Absent, FALSE, mode) :
     mode \in {"from_request", "from_credential"}}
  \cup {Scoped(Absent, Oidc(OidcKeys), FALSE, mode) : mode \in {"from_request", "from_credential"}}
  \cup {Scoped(Absent, Absent, TRUE, mode) : mode \in {"from_request", "from_credential"}}
  \cup {Scoped(Basic(<<"a", ":", "p">>, <<"q">>), Absent, FALSE, "from_request"),
        Scoped(Basic(Ann, <<>>), Absent, FALSE, "from_request"),
        Scoped(Basic(Ann, <<"p">>), Absent, TRUE, "from_request"),
        Scoped(Absent, Oidc({"client_id"}), FALSE, "from_request"),
        Scoped(Absent, Absent, FALSE, "from_request")}

MCDocuments ==
  {Section(Absent, proxy, Absent, Absent, user) :
     proxy \in MCScopes \cup {Absent}, user \in {Absent, Ann}}
  \cup {Section(admin, Absent, Absent, Absent, Absent) : admin \in MCScopes}
  \cup {Section(Absent, Absent, Empty, Absent, Absent), Section(Absent, Absent, Absent, Empty, Absent),
        Section(Absent, Absent, Absent, Absent, Empty)}

MCHeaders ==
  {Absent, Header("Basic", <<"a", ":", "p", ":", "q">>), Header("BASIC", Absent), Header("basic", Ann),
   Header("Basic", <<"a", ":", "p">>), Header("Bearer", Absent)}
  \cup [word : {"Bearer", "bearer"}, credential : Secrets]

MCRequests ==
  {Request(header, subject, safety, Bob) :
     <<header, subject>> \in (MCHeaders \X {Absent}) \cup {<<Absent, Ann>>}, safety \in {Absent, Padded, Empty}}

MCForms ==
  {Form(<<"l">>, Padded, kind, amount) :
     kind \in {"monthly", "total"},
     amount \in {Absent, Dollars("infinite", 0), Dollars("junk", 0), Dollars("finite", 4), Dollars("finite", 10)}}
  \cup {Form(<<"l">>, Bob, "unlimited", Absent), Form(<<"l">>, Ann, "weekly", Absent), Form(Empty, Ann, "unlimited", Absent)}

Symmetry == Permutations(Reqs) \cup Permutations(Flows) \cup Permutations(Secrets)

MCInit == VaultInit /\ AccessInit /\ part \in {"vault", "access"}
MCNext ==
  \/ part = "vault" /\ VaultNext /\ UNCHANGED <<accessVars, part>>
  \/ part = "access" /\ AccessNext /\ UNCHANGED <<vaultVars, part>>
MCSpec == MCInit /\ [][MCNext]_<<vaultVars, accessVars, part>>
=============================================================================
