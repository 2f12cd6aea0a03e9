------------------------------ MODULE MCMemory ------------------------------
\* Memory for TLC: two turns, one of them streamed; four facts, two of which
\* say the same; a budget that one exchange and two memories exceed; restarts
\* that change the embedder, switch user_state off or do not resolve.
\* Studio for TLC: a behaviour is about one or the other.  An agent with a
\* judge, an experiment over the agent and a test of the experiment, in files
\* that have all of them or the agent alone.
EXTENDS Memory, Studio, TLC
CONSTANTS t1, t2, paris, lives, dark, tea
CONSTANTS helper, rater, split, probe, plain, judged, rubric, empty, trial, script, e1, e2
MCQuestion  == t1 :> 1 @@ t2 :> 2
MCTokens    == paris :> 1 @@ lives :> 2 @@ dark :> 1 @@ tea :> 1
MCSimilar   == {<<f, f>> : f \in Facts} \cup {<<paris, lives>>, <<lives, paris>>}
MCCloseness == t1 :> (paris :> 1 @@ lives :> 1 @@ dark :> 2 @@ tea :> 2)
            @@ t2 :> (paris :> 2 @@ lives :> 2 @@ dark :> 1 @@ tea :> 1)
MCFactLists == {<<paris, dark>>, <<dark, tea, lives, paris>>}
On == [on |-> TRUE, embed |-> Unset, key |-> FALSE, learn |-> Unset, providers |-> {"anthropic"}]
MCConfigs ==
  {On, [On EXCEPT !.providers = {"openai"}], [On EXCEPT !.on = FALSE],
   [On EXCEPT !.embed = "voyage"], [On EXCEPT !.learn = "openai"], [On EXCEPT !.providers = {}]}

MCRefers == plain :> {} @@ judged :> {<<"judges", rater>>} @@ rubric :> {} @@ empty :> {}
            @@ trial :> {<<"agents", helper>>} @@ script :> {<<"experiments", split>>}
Full  == [Blank EXCEPT !["agents"][helper] = judged, !["judges"][rater] = rubric,
                       !["experiments"][split] = trial, !["smoke"][probe] = script]
Small == [Blank EXCEPT !["agents"][helper] = plain]
MCFiles == {Full, Small}
MCPuts == {<<"agents", helper, judged>>, <<"judges", rater, empty>>, <<"smoke", probe, script>>}
MCAsked == {<<"agents", helper>>, <<"judges", rater>>, <<"smoke", probe>>}

VARIABLE part
MCInit == /\ Init /\ StudioInit /\ part \in {"memory", "studio"}
          /\ part = "memory" => declared = Full
          /\ part = "studio" => settings = Resolve(On)
MCNext == \/ part = "memory" /\ Next /\ UNCHANGED <<studioVars, part>>
          \/ part = "studio" /\ StudioNext /\ UNCHANGED <<vars, part>>
MCSpec == MCInit /\ [][MCNext]_<<vars, studioVars, part>>
EditorSymmetry == Permutations(Editors)
=============================================================================
