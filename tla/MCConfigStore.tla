--------------------------- MODULE MCConfigStore ---------------------------
(* ConfigStore for TLC: two requests, two providers, one agent and a name nothing declares. *)
EXTENDS ConfigStore, TLC

CONSTANTS a1, a2, p1, p2, v1, v2

MCDoc(c, k1, k2, v) ==
  [agents |-> [n \in Names |-> IF n = a1 THEN c ELSE None], providers |-> (p1 :> k1 @@ p2 :> k2), misc |-> v]

MCBoot == MCDoc(p1, "ref", "none", v1)

\* The agent moves to the other provider, whose key is or is not set, or which
\* is not configured; no YAML.
MCHandEdits == {MCDoc(p2, "none", "ref", v1), MCDoc(p2, "none", "unset", v1),
                MCDoc(p2, "ref", "none", v1), Broken}

MCBodies == {MCDoc(p1, "key", "none", v2), MCDoc(None, "key", "none", v2)}

\* For the fair run: one body, an edit that loads and one that does not.
MCLiveEdits == {MCDoc(p2, "none", "ref", v1), Broken}

MCLiveBodies == {MCDoc(p1, "key", "none", v2)}
=============================================================================
