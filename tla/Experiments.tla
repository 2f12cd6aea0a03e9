---------------------------- MODULE Experiments ----------------------------
(***************************************************************************)
(* The A/B routing table: experiment configs, their validation at load     *)
(* and the variant a request lands on (crates/experiments/src/router.rs,   *)
(* cli/src/config.rs).                                                     *)
(*                                                                         *)
(* A 64-bit hash becomes a seed of 0 .. Scale.  As a unit it stands for    *)
(* seed / Scale; the seed Scale is the hash whose f32 image rounds to 1.0. *)
(* Weights are integers, rates and epsilon are numerators over Scale.      *)
(***************************************************************************)
EXTENDS Integers, Sequences, FiniteSets

CONSTANTS
    Agents,            \* agent names
    Judges,            \* judge names
    Criteria,          \* criterion names
    ExperimentName,    \* the name clients send as `model`
    Unset,             \* an optional field left out
    Scale,             \* resolution of a hash
    DefaultEpsilon,    \* BANDIT_DEFAULT_EPSILON, over Scale
    DefaultMinSamples  \* BANDIT_DEFAULT_MIN_SAMPLES

ASSUME ExperimentsAssumption ==
    /\ Scale \in Nat \ {0}
    /\ DefaultEpsilon \in 0 .. Scale
    /\ DefaultMinSamples \in Nat
    /\ ExperimentName \notin Agents
    /\ Unset \notin Agents \cup Int \cup (Judges \X Criteria)

Seeds == 0 .. Scale

Strategies == {"bandit", "shadow", "split"}

ExperimentConfig ==
    [strategy : Strategies,
     sticky   : BOOLEAN,
     variants : Seq([agent : Agents, weight : Int]),
     primary  : Agents \cup {Unset},
     rate     : Int \cup {Unset},
     metric   : (Judges \X Criteria) \cup {Unset},
     epsilon  : Int \cup {Unset},
     minSamples : Nat \cup {Unset}]

Arms(e) == {e.variants[i].agent : i \in DOMAIN e.variants}

OrElse(value, default) == IF value = Unset THEN default ELSE value

----------------------------------------------------------------------------
(* Validation at config load.  agents maps each declared agent to its      *)
(* judges, rubrics each judge to its criteria.                             *)

ValidVariants(e, agents) ==
    /\ e.variants # << >>
    /\ \A i \in DOMAIN e.variants :
          /\ e.variants[i].agent \in DOMAIN agents
          /\ e.variants[i].weight > 0
    /\ \A i, j \in DOMAIN e.variants :
          e.variants[i].agent = e.variants[j].agent => i = j

ValidBandit(e, agents, rubrics) ==
    /\ e.primary = Unset /\ e.rate = Unset
    /\ e.metric # Unset
    /\ e.metric[1] \in DOMAIN rubrics
    /\ e.metric[2] \in rubrics[e.metric[1]]
    /\ \A a \in Arms(e) : \E i \in DOMAIN agents[a] : agents[a][i] = e.metric[1]
    /\ e.epsilon = Unset \/ e.epsilon \in 0 .. Scale

ValidShadow(e) ==
    /\ e.metric = Unset /\ e.epsilon = Unset /\ e.minSamples = Unset
    /\ e.primary \in Arms(e)
    /\ e.rate = Unset \/ e.rate \in 0 .. Scale

ValidSplit(e) ==
    /\ e.primary = Unset /\ e.rate = Unset
    /\ e.metric = Unset /\ e.epsilon = Unset /\ e.minSamples = Unset

Valid(e, agents, rubrics) ==
    /\ ValidVariants(e, agents)
    /\ e.strategy = "bandit" => ValidBandit(e, agents, rubrics)
    /\ e.strategy = "shadow" => ValidShadow(e)
    /\ e.strategy = "split"  => ValidSplit(e)

----------------------------------------------------------------------------
(* Picks.  A pick is an index into the variants; 0 is "no variant".        *)
(* summary[a] is the number and the sum of the recent scores of a; an      *)
(* agent with none is absent from the query's answer.                      *)

\* The arms stand in declaration order.
UniformPick(arms, seed) ==
    IF arms = {} THEN 0
    ELSE CHOOSE i \in arms :
            Cardinality({j \in arms : j < i}) = seed % Cardinality(arms)

Cumulative(e) ==
    LET acc[i \in 0 .. Len(e.variants)] ==
            IF i = 0 THEN 0 ELSE acc[i - 1] + e.variants[i].weight
    IN  acc

WeightedPick(e, seed) ==
    LET acc == Cumulative(e)
        hit == {i \in DOMAIN e.variants :
                    seed * acc[Len(e.variants)] < acc[i] * Scale}
    IN  IF hit = {} THEN Len(e.variants)
        ELSE CHOOSE i \in hit : \A j \in hit : i <= j

ShadowPick(e) ==
    LET named == {i \in DOMAIN e.variants : e.variants[i].agent = e.primary}
    IN  IF named # {} THEN CHOOSE i \in named : \A j \in named : i <= j
        ELSE IF e.variants = << >> THEN 0 ELSE 1

IsForced(e, summary, i) ==
    LET s == summary[e.variants[i].agent]
    IN  s.samples = 0 \/ s.samples < OrElse(e.minSamples, DefaultMinSamples)

Leader(e, summary) ==
    LET S(i) == summary[e.variants[i].agent]
        best[i \in 0 .. Len(e.variants)] ==
            IF i <= 1 THEN i
            ELSE LET b == best[i - 1]
                 IN  IF S(i).sum * S(b).samples < S(b).sum * S(i).samples
                     THEN b ELSE i
    IN  best[Len(e.variants)]

BanditPick(e, summary, routing, sticky) ==
    LET forced == {i \in DOMAIN e.variants : IsForced(e, summary, i)}
    IN  IF forced # {} THEN UniformPick(forced, sticky)
        ELSE IF routing < OrElse(e.epsilon, DefaultEpsilon)
             THEN UniformPick(DOMAIN e.variants, sticky)
             ELSE Leader(e, summary)

\* The routing seed is the user's own when the experiment is sticky, a
\* fresh one otherwise.
RoutingSeed(e, sticky, fresh) == IF e.sticky THEN sticky ELSE fresh

PickVariant(e, summary, sticky, fresh) ==
    LET routing == RoutingSeed(e, sticky, fresh)
    IN  CASE e.strategy = "bandit" -> BanditPick(e, summary, routing, sticky)
          [] e.strategy = "shadow" -> ShadowPick(e)
          [] e.strategy = "split"  -> WeightedPick(e, routing)

\* A name that is no experiment is an agent's, returned as it is; an
\* experiment without a variant resolves to its own name.
Resolve(e, name, summary, sticky, fresh) ==
    IF name # ExperimentName THEN name
    ELSE LET i == PickVariant(e, summary, sticky, fresh)
         IN  IF i = 0 THEN ExperimentName ELSE e.variants[i].agent

\* The agents a shadow experiment replays a served turn on.
ShadowVariants(e) ==
    LET others[i \in 0 .. Len(e.variants)] ==
            IF i = 0 THEN << >>
            ELSE IF e.variants[i].agent = e.primary THEN others[i - 1]
                 ELSE Append(others[i - 1], e.variants[i].agent)
    IN  IF e.strategy # "shadow" THEN << >> ELSE others[Len(e.variants)]

ShouldSample(e, fresh) == fresh < OrElse(e.rate, Scale) \/ OrElse(e.rate, Scale) >= Scale
=============================================================================
