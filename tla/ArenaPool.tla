------------------------------- MODULE ArenaPool -------------------------------
(***************************************************************************)
(* The arena of review_suite_arena.py and review_suite_local.py: which       *)
(* variants review a round, how a blocked reviewer is replaced, and what the *)
(* grades make of the ratings.                                              *)
(*                                                                          *)
(* A round is selected from the records read before it is written, without   *)
(* a lock; a replacement is a new round that refers to the one it replaces.  *)
(***************************************************************************)
EXTENDS Naturals, Integers, Sequences, FiniteSets, SequencesExt, FiniteSetsExt, Functions

CONSTANTS
    Callers,           \* processes that select rounds
    Variants,          \* the roster
    Retired,           \* variants that are not eligible for the arena
    Model,             \* Model[v]: the model of a variant
    Candidates,        \* variant_ids of the configured pool, in their order
    Groups,            \* variant_groups of the configured pool
    SelectionMode,     \* selection_mode of rounds outside the pool
    BootstrapTarget,   \* default_bootstrap_target_samples
    UnderuseRatio,     \* relative_underuse_ratio, <<numerator, denominator>>
    KFactor,           \* elo_k_factor, in quarters of a point
    StartElo, MinElo, MaxProbationElo, ChampionWindow,
    MinSamples,        \* promotion_min_samples, probation_min_samples
    MaxRounds,         \* bound: rounds
    MaxPairs,          \* bound: rounds sampled outside the pool
    MaxGrades,         \* bound: grades
    MaxDismissals,     \* bound: rounds dismissed
    MaxFailures,       \* bound: reviewers that fail, over all rounds
    None

ASSUME ArenaAssumption ==
    /\ IsFiniteSet(Variants) /\ Retired \subseteq Variants /\ DOMAIN Model = Variants
    /\ Candidates \in Seq(Variants) /\ Groups \in Seq(Seq(Variants)) \ {<<>>}
    /\ \A k \in DOMAIN Groups :  \* _normalize_arena_pool
        /\ Len(Groups[k]) = Len(Groups[1]) /\ Len(Groups[k]) >= 2
        /\ IsInjective(Groups[k]) /\ ToSet(Groups[k]) \subseteq ToSet(Candidates)
    /\ IsInjective(Candidates) /\ ToSet(Candidates) \subseteq Variants \ Retired
    /\ SelectionMode \in {"legacy", "slight_bias", "true_scramble"}
    /\ StartElo \in Int /\ KFactor \in Int /\ MaxRounds \in Nat
    /\ None \notin {"completed", "capacity", "unsupported", "timed_out", "configured"}

VARIABLES
    rounds,  \* rounds/*.json, in the order they were written
    log,     \* runs.jsonl: the grades
    op,      \* operational-state.json: champions, probation, cooling variants
    draft,   \* draft[c]: the round caller c has selected and not yet written
    raced    \* two selections overlapped

vars == <<rounds, log, op, draft, raced>>

Outcomes == {"completed", "capacity", "unsupported", "timed_out"}
Blocked(run) == run.out \notin {None, "completed"}
Run(v) == [variant |-> v, out |-> None]
VariantsOf(round) == {round.runs[s].variant : s \in DOMAIN round.runs}
Finished(round) == \A s \in DOMAIN round.runs : round.runs[s].out # None

\* The sum of f over a finite set.  A function of subsets and not a fold: proofs
\* cannot take the addition as an argument.
SumOver(f, S) ==
    LET sum[T \in SUBSET S] ==
            IF T = {} THEN 0
            ELSE LET x == CHOOSE y \in T : TRUE IN f[x] + sum[T \ {x}]
    IN sum[S]

--------------------------------------------------------------------------------
(* Records: the grades and, for rounds without one, synthetic exposures.     *)

\* mutant: a round counts also after a slot of it was rerolled.
NeverReplaced(n) == FALSE

\* ungraded_round_exposure_records: a rerolled round is replaced by the new one.
Replaced(n) == \E m \in DOMAIN rounds : rounds[m].from = n

Exposed(n) == rounds[n].status \in {"sampled", "completed"} /\ ~Replaced(n)

\* The rounds and grades of some pools in which all the given variants took part.
Meet(vs, pools) ==
    Cardinality({n \in DOMAIN rounds :
        Exposed(n) /\ rounds[n].pool \in pools /\ vs \subseteq VariantsOf(rounds[n])})
    + Cardinality({k \in DOMAIN log :
        log[k].pool \in pools /\ vs \subseteq UNION ToSet(log[k].groups)})

\* summarize_counts
Samples(v, pools) == Meet({v}, pools)
PoolRecords == Meet({}, {"configured"})
AllPools == {"configured", "named", None}

\* mutant: the state of a variant is not looked at.
WholeRoster == Variants

\* eligible_variants
Eligible == Variants \ Retired
Available == Eligible \ op.cool

\* relative_underuse_target, doubled and in units of the ratio's denominator.
EstablishedCounts(vs, pools) ==
    SetToSortSeq({<<Samples(v, pools), v>> : v \in {w \in vs : Samples(w, pools) >= BootstrapTarget}},
                 LAMBDA x, y : x[1] < y[1])
RelativeTarget(vs, pools) ==
    LET sorted == EstablishedCounts(vs, pools)
        n == Len(sorted)
    IN IF n = 0 THEN 0
       ELSE (sorted[(n + 1) \div 2][1] + sorted[n \div 2 + 1][1]) * UnderuseRatio[1]

\* is_under_sampled
UnderSampled(v, vs, pools) ==
    \/ Samples(v, pools) < BootstrapTarget
    \/ 2 * UnderuseRatio[2] * Samples(v, pools) < RelativeTarget(vs, pools)

--------------------------------------------------------------------------------
(* Selecting the variants of a round of the configured pool.                *)

NextIndex == PoolRecords % Len(Groups)

\* _configured_variant_group
ScheduledGroup == Groups[NextIndex + 1]
CanUseSchedule == ToSet(ScheduledGroup) \subseteq Available

BalanceCandidates == ToSet(Candidates) \intersect Available

\* select_from: fewest meetings with the selected, fewest samples, first in order.
Meetings(v, selected) ==
    SumOver([w \in Variants |-> Meet({v, w}, {"configured"})], ToSet(selected))
Order(v) == CHOOSE k \in DOMAIN Candidates : Candidates[k] = v
Before(v, w, selected) ==
    \/ Meetings(v, selected) < Meetings(w, selected)
    \/ /\ Meetings(v, selected) = Meetings(w, selected)
       /\ \/ Samples(v, {"configured"}) < Samples(w, {"configured"})
          \/ /\ Samples(v, {"configured"}) = Samples(w, {"configured"})
             /\ Order(v) < Order(w)
SelectOne(chosen, from) ==
    LET rest == from \ ToSet(chosen) IN
    IF rest = {} THEN chosen
    ELSE Append(chosen, CHOOSE v \in rest : \A w \in rest \ {v} : Before(v, w, chosen))
SelectFrom(selected, from, count) ==
    LET chosen[k \in 0..count] ==
            IF k = 0 THEN selected ELSE SelectOne(chosen[k - 1], from)
    IN chosen[count]

\* _balanced_configured_variant_group: under-sampled and established candidates.
GroupSize == Len(Groups[1])
Lesser(m, n) == IF m < n THEN m ELSE n
NewCohort == {v \in BalanceCandidates : UnderSampled(v, BalanceCandidates, {"configured"})}
Established == BalanceCandidates \ NewCohort
BalancedGroup ==
    LET kept == Lesser(Cardinality(Established), GroupSize \div 2)
        fresh == SelectFrom(<<>>, NewCohort, Lesser(Cardinality(NewCohort), GroupSize - kept))
        mixed == SelectFrom(fresh, Established, GroupSize - Len(fresh))
    IN SelectFrom(mixed, BalanceCandidates, GroupSize - Len(mixed))
CanBalance == Cardinality(BalanceCandidates) >= GroupSize

--------------------------------------------------------------------------------
(* Selecting a pair outside the pool.                                       *)

\* Variants with the fewest or the most samples of all pools.
Least(vs) == {v \in vs : \A w \in vs : Samples(v, AllPools) <= Samples(w, AllPools)}
Most(vs) == {v \in vs : \A w \in vs : Samples(w, AllPools) <= Samples(v, AllPools)}
Under(vs, all) == {v \in vs : UnderSampled(v, all, AllPools)}

PairsOf(anchors, Second(_), pairing) ==
    UNION {{[pair |-> <<a, b>>, pairing |-> pairing] : b \in Second(a) \ {a}} : a \in anchors}

\* _select_scramble_pair: every weight is positive, so any member of a pool may
\* be drawn.
ScrambleProbes(vs) ==
    LET preferred == vs \ op.probation IN
    IF preferred = {} THEN PairsOf(Most(vs), LAMBDA a : vs, "weighted_best_available")
    ELSE PairsOf(preferred, LAMBDA a : vs \intersect op.probation, "weighted_vs_probation")
            \union PairsOf(preferred, LAMBDA a : preferred, "weighted")
ScrambleExplores(vs, unders) ==
    LET Rest(a) == vs \ (Under(vs, Eligible) \union op.probation \union {a})
        Degraded(a) == IF vs \ (op.probation \union {a}) # {}
                       THEN vs \ (op.probation \union {a}) ELSE vs \ {a}
        matched == {a \in Least(unders) : Rest(a) # {}}
    IN PairsOf(matched, Rest, "exploration_vs_rest")
        \union PairsOf(Least(unders) \ matched, LAMBDA a : Most(Degraded(a)),
                       "exploration_vs_best_available")
ScramblePairs ==
    LET unders == Under(Available, Eligible) \ op.probation IN
    IF unders = {} THEN ScrambleProbes(Available) ELSE ScrambleExplores(Available, unders)

\* select_pair without a pool
Pairs ==
    IF SelectionMode = "legacy" THEN ScramblePairs
    ELSE PairsOf(Available, LAMBDA a : Available, SelectionMode)

--------------------------------------------------------------------------------
(* Callers.  A selection reads the records; the round is written afterwards. *)

Round(pool, pairing, index, runs, from, slot, excluded) ==
    [status |-> "sampled", pool |-> pool, pairing |-> pairing, index |-> index,
     runs |-> runs, from |-> from, slot |-> slot, excluded |-> excluded]

\* bound: selections overlap only in behaviours without pairs.
Overlap == \E c \in Callers : draft[c] # None
Pooled == \A n \in DOMAIN rounds : rounds[n].pool = "configured"

Free(c) == draft[c] = None /\ Len(rounds) < MaxRounds

Draft(c, round) ==
    /\ Overlap \/ raced => Pooled /\ round.pool = "configured"
    /\ draft' = [draft EXCEPT ![c] = round]
    /\ raced' = (raced \/ Overlap)
    /\ UNCHANGED <<rounds, log, op>>

RunsOf(vs) == [s \in DOMAIN vs |-> Run(vs[s])]

\* select_pair for an arena step of a cycle
SampleSchedule(c) ==
    /\ Free(c)
    /\ PoolRecords < Len(Groups)
    /\ CanUseSchedule
    /\ Draft(c, Round("configured", "schedule", NextIndex, RunsOf(ScheduledGroup), 0, 0, {}))

SampleBalanced(c) ==
    /\ Free(c)
    /\ PoolRecords >= Len(Groups)
    /\ CanBalance
    /\ Draft(c, Round("configured", "balanced", None, RunsOf(BalancedGroup), 0, 0, {}))

\* cmd_sample, cmd_run
SamplePair(c) ==
    /\ Free(c) /\ ~Overlap /\ ~raced
    /\ Cardinality({n \in DOMAIN rounds : rounds[n].pool = None /\ rounds[n].from = 0}) < MaxPairs
    /\ \E p \in Pairs : Draft(c, Round(None, p.pairing, None, RunsOf(p.pair), 0, 0, {}))

\* write_round
WriteRound(c) ==
    /\ draft[c] # None /\ Len(rounds) < MaxRounds
    /\ rounds' = Append(rounds, draft[c])
    /\ draft' = [draft EXCEPT ![c] = None]
    /\ UNCHANGED <<log, op, raced>>

--------------------------------------------------------------------------------
(* Rerolling a slot.                                                        *)

\* selected_model_not_supported: no variant of this model.
SameModel(run) == IF run.out = "unsupported"
                  THEN {v \in Variants : Model[v] = Model[run.variant]} ELSE {}

\* mutant: only what this round excludes itself.
ExcludedNow(round, slot) ==
    SameModel(round.runs[slot])
        \union (IF round.pool = "configured"
                THEN VariantsOf(round) \union (Variants \ ToSet(Candidates))
                ELSE {v \in VariantsOf(round) :
                        v # round.runs[slot].variant \/ ~Blocked(round.runs[slot])})

\* mutant: the other reviewer may be selected again.
ExcludedOwn(round, slot) ==
    round.excluded \union SameModel(round.runs[slot]) \union {round.runs[slot].variant}

\* excluded_variant_ids: what was excluded before, the model that is not
\* supported, the variants of the round; outside a pool a blocked one may retry.
Excluded(round, slot) ==
    round.excluded \union SameModel(round.runs[slot])
        \union (IF round.pool = "configured"
                THEN VariantsOf(round) \union (Variants \ ToSet(Candidates))
                ELSE {v \in VariantsOf(round) :
                        v # round.runs[slot].variant \/ ~Blocked(round.runs[slot])})

\* In a pool a reviewer retries unless its model is not supported or it timed out.
Retries(round, slot) ==
    round.pool = "configured" /\ round.runs[slot].out \notin {"unsupported", "timed_out"}

First(choices) == IF \E k \in DOMAIN choices : choices[k] # {}
                  THEN choices[Min({k \in DOMAIN choices : choices[k] # {}})] ELSE {}

\* _reroll_candidate_variants outside a pool
ScrambleCandidates(round, slot, vs, all) ==
    LET calm == vs \ op.probation IN
    CASE round.pairing = "weighted_vs_probation" /\ slot = 2 ->
            First(<<vs \intersect op.probation, vs \ Under(vs, all), vs>>)
      [] round.pairing = "weighted_vs_probation" /\ slot = 1 -> First(<<calm, vs>>)
      [] round.pairing = "weighted" ->
            First(<<calm, IF slot = 2 THEN vs \ Under(vs, all) ELSE {}, vs>>)
      [] round.pairing = "weighted_best_available" /\ slot = 1 -> Most(vs)
      [] round.pairing = "exploration_vs_best_available" /\ slot = 2 ->
            First(<<Most(calm), Most(vs)>>)
      [] OTHER -> IF slot = 1 THEN First(<<Under(calm, all), calm, vs>>)
                  ELSE First(<<calm \ Under(vs, all), vs \ Under(vs, all), vs>>)

\* build_reroll_slot_payload: who takes the slot.
Replacements(round, slot) ==
    LET all == Eligible \ Excluded(round, slot)
        vs == all \ op.cool
    IN IF Retries(round, slot) THEN {round.runs[slot].variant}
       ELSE IF round.pool # "configured" /\ SelectionMode = "legacy" /\ vs # {}
            THEN ScrambleCandidates(round, slot, vs, all)
            ELSE vs  \* select_replacement_variant

Reroll(c, n, slot) ==
    LET round == rounds[n] IN
    /\ Free(c)
    /\ round.status \in {"completed", "graded"}  \* a graded round stays completed
    /\ \E v \in Replacements(round, slot) :
        Draft(c, [round EXCEPT !.status = "sampled", !.from = n, !.slot = slot,
                    !.runs[slot] = Run(v),
                    !.excluded = IF Retries(round, slot) THEN round.excluded
                                 ELSE Excluded(round, slot)])

--------------------------------------------------------------------------------
(* Reviews, grades, ratings.                                                *)

Failures ==
    SumOver([n \in DOMAIN rounds |->
                Cardinality({s \in DOMAIN rounds[n].runs : Blocked(rounds[n].runs[s])})],
            DOMAIN rounds)

\* run_round: the reviewers end and _apply_capacity_cooldowns notes the failures.
Complete(n) ==
    /\ rounds[n].status = "sampled"
    /\ \E outs \in [DOMAIN rounds[n].runs -> Outcomes] :
        LET runs == [s \in DOMAIN rounds[n].runs |->
                        IF rounds[n].runs[s].out # None THEN rounds[n].runs[s]
                        ELSE [rounds[n].runs[s] EXCEPT !.out = outs[s]]]
            Of(kinds) == {runs[s].variant : s \in {t \in DOMAIN runs : runs[t].out \in kinds}}
            failed == Of({"capacity", "timed_out"})
        IN /\ \A s \in DOMAIN outs : rounds[n].runs[s].out # None => outs[s] = "completed"
           /\ Failures + Cardinality({s \in DOMAIN outs : outs[s] # "completed"}) <= MaxFailures
           /\ rounds' = [rounds EXCEPT ![n].status = "completed", ![n].runs = runs]
           /\ op' = [op EXCEPT !.cool = (@ \ Of({"completed"})) \union failed]
    /\ UNCHANGED <<log, draft, raced>>

CooldownExpires ==
    /\ \E v \in op.cool : op' = [op EXCEPT !.cool = @ \ {v}]
    /\ UNCHANGED <<rounds, log, draft, raced>>

\* mutant: a tie is a win for both.
TieAsWin(a, b, rank) == IF rank[a] <= rank[b] THEN 4 ELSE 0

\* update_elo, in quarters: a win, a tie or a loss against one opponent ...
Score(a, b, rank) ==
    IF rank[a] = rank[b] THEN 2 ELSE IF rank[a] < rank[b] THEN 4 ELSE 0
\* ... and what was expected, as a step in place of the logistic curve.
Expected(a, b, before) ==
    IF before[a] = before[b] THEN 2 ELSE IF before[a] > before[b] THEN 3 ELSE 1
UpdateElo(before, groups) ==
    LET field == UNION ToSet(groups)
        rank == [v \in field |-> CHOOSE k \in DOMAIN groups : v \in groups[k]]
        weight == KFactor \div (Cardinality(field) - 1)
        Gain(v) == SumOver([w \in field |-> Score(v, w, rank) - Expected(v, w, before)],
                           field \ {v})
    IN [v \in Variants |-> before[v] + IF v \in field THEN weight * Gain(v) ELSE 0]

\* aggregate_records: the reporting pool, or that of the last grade.
RatingPool(grades) ==
    IF grades = <<>> THEN None
    ELSE IF \E k \in DOMAIN grades : grades[k].pool = "configured" THEN "configured"
    ELSE Last(grades).pool
Placed(grades) == {k \in DOMAIN grades : grades[k].pool = RatingPool(grades)}
Ratings(grades) ==
    LET after[k \in 0..Len(grades)] ==
            IF k = 0 THEN [v \in Variants |-> StartElo]
            ELSE IF k \in Placed(grades) THEN UpdateElo(after[k - 1], grades[k].groups)
            ELSE after[k - 1]
    IN after[Len(grades)]

Took(v, g) == v \in UNION ToSet(g.groups)
Tied(g) == Len(g.groups) = 1 \/ Cardinality(g.groups[1]) > 1
Graded(v, grades) == Cardinality({k \in Placed(grades) : Took(v, grades[k])})
Wins(v, grades) ==
    Cardinality({k \in Placed(grades) : v \in grades[k].groups[1] /\ ~Tied(grades[k])})
Losses(v, grades) ==
    Cardinality({k \in Placed(grades) : Took(v, grades[k]) /\ v \notin grades[k].groups[1]})

\* promote
Proven(grades) == {v \in Eligible :
    Graded(v, grades) >= MinSamples /\ Ratings(grades)[v] >= MinElo}
Champions(grades) ==
    LET ratings == Ratings(grades) IN
    {v \in Proven(grades) :
        \A w \in Proven(grades) : ratings[w] - ratings[v] <= ChampionWindow}
Probation(grades) ==
    {v \in Eligible \ Champions(grades) :
        /\ Graded(v, grades) >= MinSamples
        /\ Ratings(grades)[v] < MaxProbationElo
        /\ Losses(v, grades) > Wins(v, grades)}

\* placement_groups_from_ranks: every run is placed once.
Placements(vs) ==
    {g \in UNION {[1..k -> SUBSET vs] : k \in 1..Cardinality(vs)} :
        /\ \A k \in DOMAIN g : g[k] # {}
        /\ \A v \in vs : Cardinality({k \in DOMAIN g : v \in g[k]}) = 1}

\* build_record_from_grade: a grade is refused for a round with a blocked
\* reviewer, or with the same variant twice.
Gradable(round) ==
    /\ round.status = "completed"
    /\ \A s \in DOMAIN round.runs : ~Blocked(round.runs[s])
    /\ Cardinality(VariantsOf(round)) = Len(round.runs)

\* cmd_grade: the record, the round and the refreshed operational state.
Grade(n) ==
    /\ Gradable(rounds[n]) /\ Len(log) < MaxGrades
    /\ \E groups \in Placements(VariantsOf(rounds[n])) :
        LET grades == Append(log, [pool |-> IF rounds[n].pool = "configured" THEN "configured"
                                            ELSE "named", groups |-> groups])
        IN /\ log' = grades
           /\ op' = [op EXCEPT !.champions = Champions(grades), !.probation = Probation(grades)]
    /\ rounds' = [rounds EXCEPT ![n].status = "graded"]
    /\ UNCHANGED <<draft, raced>>

\* cmd_dismiss_round
Dismiss(n) ==
    /\ rounds[n].status \in {"sampled", "completed"}
    /\ Cardinality({m \in DOMAIN rounds : rounds[m].status = "dismissed"}) < MaxDismissals
    /\ rounds' = [rounds EXCEPT ![n].status = "dismissed"]
    /\ UNCHANGED <<log, op, draft, raced>>

Init ==
    /\ rounds = <<>> /\ log = <<>>
    /\ op = [champions |-> {}, probation |-> {}, cool |-> {}]
    /\ draft = [c \in Callers |-> None]
    /\ raced = FALSE

Next ==
    \/ \E c \in Callers :
        \/ SampleSchedule(c) \/ SampleBalanced(c) \/ SamplePair(c) \/ WriteRound(c)
        \/ \E n \in DOMAIN rounds : \E slot \in DOMAIN rounds[n].runs : Reroll(c, n, slot)
    \/ \E n \in DOMAIN rounds : Complete(n) \/ Grade(n) \/ Dismiss(n)
    \/ CooldownExpires

Spec == Init /\ [][Next]_vars

--------------------------------------------------------------------------------
(* Properties.                                                              *)

\* The variables keep their types.
TypeOK ==
    /\ Len(rounds) <= MaxRounds /\ Len(log) <= MaxRounds
    /\ \A n \in DOMAIN rounds :
        /\ rounds[n].status \in {"sampled", "completed", "graded", "dismissed"}
        /\ VariantsOf(rounds[n]) \intersect Retired = {}
        /\ rounds[n].from < n
        /\ rounds[n].status \in {"completed", "graded"} => Finished(rounds[n])
    /\ op.champions \subseteq Eligible /\ op.cool \subseteq Eligible

\* build_record_from_grade: no sequence of rerolls puts a variant into a round
\* twice; the round could then never be graded.
ReviewersDiffer ==
    \A n \in DOMAIN rounds :
        Cardinality(VariantsOf(rounds[n])) = Len(rounds[n].runs)

\* build_reroll_slot_payload: a model that was found not to be supported does not
\* come back by a later reroll of the same round.
Line(n) ==
    LET line[m \in 0..n] == IF m = 0 THEN {} ELSE {m} \union line[rounds[m].from] IN line[n]
Refused(n) ==
    {Model[rounds[rounds[m].from].runs[rounds[m].slot].variant] : m \in {k \in Line(n) :
        rounds[k].from > 0 /\ rounds[rounds[k].from].runs[rounds[k].slot].out = "unsupported"}}
UnsupportedStaysOut ==
    \A n \in DOMAIN rounds :
        rounds[n].from > 0 /\ ~Retries(rounds[rounds[n].from], rounds[n].slot) =>
            Model[rounds[n].runs[rounds[n].slot].variant] \notin Refused(n)

\* arena.md, select_pair: a configured pool uses its groups once each, in order,
\* and balances afterwards, unless selections overlapped, a round was dismissed,
\* or a round was rerolled twice or graded besides its reroll.
Undisturbed ==
    /\ ~raced
    /\ \A n \in DOMAIN rounds :
        /\ rounds[n].status # "dismissed"
        /\ Cardinality({m \in DOMAIN rounds : rounds[m].from = n}) <= 1
        /\ rounds[n].status = "graded" => ~Replaced(n)
Roots == {n \in DOMAIN rounds : rounds[n].from = 0 /\ rounds[n].pool = "configured"}
GroupsOnce ==
    Undisturbed => \A n \in Roots :
        LET k == Cardinality({m \in Roots : m < n}) IN
        rounds[n].index = IF k < Len(Groups) THEN k ELSE None

\* update_elo: what one reviewer gains its opponents lose.
RatingsBalance == SumOver(Ratings(log), Variants) = StartElo * Cardinality(Variants)

================================================================================
