---- MODULE MCEvaluation ----
EXTENDS Evaluation, TLC

CONSTANTS a1, a2, j1, j2, j3, j4, u1, r1, c1

V(x, y) == <<[agent |-> a1, weight |-> x], [agent |-> a2, weight |-> y]>>

Bare == [strategy |-> "split", sticky |-> TRUE, variants |-> V(1, 2),
         primary |-> Unset, rate |-> Unset, metric |-> Unset,
         epsilon |-> Unset, minSamples |-> Unset]

Bandit == [Bare EXCEPT !.strategy = "bandit", !.metric = <<j1, c1>>]
Shadow == [Bare EXCEPT !.strategy = "shadow", !.primary = a2]

\* The last two are database rows that config load would refuse.
MCConfigs ==
    {Bare, [Bare EXCEPT !.sticky = FALSE],
     Bandit, [Bandit EXCEPT !.epsilon = 0, !.sticky = FALSE, !.minSamples = 2],
     [Shadow EXCEPT !.rate = 1],
     [Bare EXCEPT !.variants = << >>], [Shadow EXCEPT !.primary = Unset, !.variants = << [agent |-> a1, weight |-> 1] >>]}

\* j4 was created after the boot; j3 is parked at rate 0.
MCRubrics == (j1 :> {c1}) @@ (j2 :> {c1}) @@ (j3 :> {c1})
MCHash == (u1 :> 1) @@ (r1 :> 2)
MCRates == (j1 :> Scale) @@ (j2 :> 1) @@ (j3 :> 0)
MCBootAgents == (a1 :> <<j3, j1>>) @@ (a2 :> <<j1>>)
MCJudgeLists == {<<j4, j2, j1>>}

Test == [target |-> ExperimentName, maxTurns |-> 2, repetitions |-> 1,
         initial |-> TRUE, marker |-> TRUE]
MCTests == {Test, [Test EXCEPT !.maxTurns = 1],
            [Test EXCEPT !.target = a1, !.maxTurns = 0, !.repetitions = 0]}
MCRawScores == {NaN, MaxScore + 1}
====
