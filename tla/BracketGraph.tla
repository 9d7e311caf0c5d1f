------------------------------ MODULE BracketGraph ------------------------------
(***************************************************************************)
(* One bracket's structure, rebuilt from every snapshot                    *)
(* (tools/scheduler/core/src/graph.rs): how deep each set is, what it      *)
(* unblocks, which grand final reset is not yet real, how many sets each   *)
(* player still has, and the sequential stages of the bracket.             *)
(*                                                                         *)
(* A table is a sequence of sets [id, key, done, started, called,          *)
(* placeholder, winner, slots]; a key is <<group, round, identifier>>, and *)
(* a slot [from, place, who] takes the winner (place 1) or the loser       *)
(* (place 2) of the set with id `from`, 0 for a seed or a bye.  Players    *)
(* stand for entrants and are numbers, 0 for nobody.  A group is           *)
(* [id, kind, rounds, phase, order], phase 0 and order NoOrder unknown.    *)
(***************************************************************************)
EXTENDS Integers, FiniteSets, Sequences, SequencesExt

Nobody  == 0
NoOrder == 1000     \* i32::MAX: a phase without an order comes last
Kinds   == {"elim", "rr", "swiss", "other"}

Larger(a, b) == IF a < b THEN b ELSE a
Greatest(S, default) == IF S = {} THEN default ELSE CHOOSE x \in S : \A y \in S : y <= x
Ordered(S, before(_, _)) ==
    [k \in 1..Cardinality(S) |-> CHOOSE x \in S : Cardinality({y \in S : before(y, x)}) = k - 1]
TotalOf(f, S) == FoldFunctionOnSet(LAMBDA x, y : x + y, 0, f, S)

GroupOf(set) == set.key[1]
RoundOf(set) == set.key[2]

Occupants(set)   == {set.slots[k].who : k \in DOMAIN set.slots} \ {Nobody}
AllOccupied(set) == set.slots # <<>> /\ \A k \in DOMAIN set.slots : set.slots[k].who # Nobody
FeederIds(set)   == SelectSeq([k \in DOMAIN set.slots |-> set.slots[k].from], LAMBDA f : f # 0)

(* Two slots that both depend on the same set: the grand final reset. *)
ResetShaped(set) == LET ids == FeederIds(set) IN Len(ids) = 2 /\ ids[1] = ids[2]

Indices(sets, id) == {i \in DOMAIN sets : sets[i].id = id}
OpenSets(sets)    == {i \in DOMAIN sets : ~sets[i].done}

(* gf_reset_exclusions: not before its feeder is decided and its slots are  *)
(* filled.                                                                 *)
Excluded(sets) ==
    {i \in OpenSets(sets) :
        /\ ResetShaped(sets[i])
        /\ \/ \A f \in Indices(sets, FeederIds(sets[i])[1]) : ~sets[f].done
           \/ ~AllOccupied(sets[i])}

(* build_dependents: the slots of `sets` that wait for set i, in order, as  *)
(* the sets they belong to, of those in S; and the ids that no set of the   *)
(* table has.                                                              *)
Dependents(sets, i, S) ==
    FlattenSeq([j \in DOMAIN sets |->
        FlattenSeq([k \in DOMAIN sets[j].slots |->
            IF j \in S /\ sets[j].slots[k].from = sets[i].id THEN <<j>> ELSE <<>>])])

Dangling(sets) ==
    UNION {ToSet(FeederIds(sets[j])) : j \in DOMAIN sets} \ {sets[j].id : j \in DOMAIN sets}

-----------------------------------------------------------------------------
(* Groups and stages. *)

GroupIndex(groups, id) == {g \in DOMAIN groups : groups[g].id = id}
KindOf(groups, set) ==
    LET found == GroupIndex(groups, GroupOf(set))
    IN  IF found = {} THEN "elim" ELSE groups[Greatest(found, 0)].kind

Members(sets, group) == {i \in DOMAIN sets : GroupOf(sets[i]) = group.id}
Entrants(sets, S)    == UNION {Occupants(sets[i]) : i \in S}

(* Variant: the latest one too. *)
FutureRoundsAndThis(sets, group) ==
    Larger(group.rounds + 1 - Greatest({RoundOf(sets[i]) : i \in Members(sets, group)}, 0), 0)

(* Rounds beyond the latest materialized one. *)
FutureRounds(sets, group) ==
    Larger(group.rounds - Greatest({RoundOf(sets[i]) : i \in Members(sets, group)}, 0), 0)

(* stage_partition, without phases: consecutive groups of one kind ... *)
KindStages(groups) ==
    FoldLeftDomain(LAMBDA stages, g :
            IF g > 1 /\ groups[g].kind = groups[g - 1].kind
            THEN [stages EXCEPT ![Len(stages)] = @ \cup {g}]
            ELSE Append(stages, {g}),
        <<>>, groups)

(* ... and with them: one stage per phase, in the order of the phases, the  *)
(* first to appear first among equals.                                     *)
PhaseStages(groups) ==
    LET first(p) == CHOOSE g \in DOMAIN groups :
                       groups[g].phase = p /\ \A h \in 1..(g - 1) : groups[h].phase # p
        firsts   == {first(groups[g].phase) : g \in DOMAIN groups}
        before(g, h) == \/ groups[g].order < groups[h].order
                        \/ groups[g].order = groups[h].order /\ g < h
        sorted   == Ordered(firsts, before)
    IN  [s \in DOMAIN sorted |-> {g \in DOMAIN groups : groups[g].phase = groups[sorted[s]].phase}]

Stages(groups) ==
    IF groups # <<>> /\ \A g \in DOMAIN groups : groups[g].phase # 0
    THEN PhaseStages(groups) ELSE KindStages(groups)

-----------------------------------------------------------------------------
(* elimination_depth: a depth-first search that cuts the edges that lead    *)
(* back into the path it is on.  `down` are the dependents that count,     *)
(* `weight` is 1 for a set still to be played.                             *)
Searches(S) == [color : [S -> {"new", "open", "done"}], depth : [S -> Nat],
                value : Nat, best : Nat, cycles : SUBSET S]

(* A call of it for set i, of which `visit` are the calls for other sets.   *)
Looked(visit, down, weight, i, st) ==
    CASE st.color[i] = "done" -> [st EXCEPT !.value = st.depth[i]]
      [] st.color[i] = "open" -> [st EXCEPT !.value = 0, !.cycles = @ \cup {i}]
      [] OTHER ->
           LET below == FoldLeft(LAMBDA s, j : LET v == visit[<<j, s>>]
                                               IN  [v EXCEPT !.best = Larger(s.best, v.value)],
                                 [st EXCEPT !.color[i] = "open", !.best = 0], down[i])
               result == weight[i] + below.best
           IN  [below EXCEPT !.color[i] = "done", !.depth[i] = result, !.value = result,
                             !.best = st.best]

Visit(down, weight) ==
    LET visit[x \in (DOMAIN down) \X Searches(DOMAIN down)] == Looked(visit, down, weight, x[1], x[2])
    IN  visit

(* Variant: a completed set ends the chain. *)
WeightedDone(sets) == [i \in DOMAIN sets |-> 1]

Weighted(sets) == [i \in DOMAIN sets |-> IF sets[i].done THEN 0 ELSE 1]

RrDepth(sets, i) ==
    LET schedule(p) == Cardinality({j \in OpenSets(sets) :
                          GroupOf(sets[j]) = GroupOf(sets[i]) /\ p \in Occupants(sets[j])})
    IN  IF sets[i].done THEN 0 ELSE Greatest({schedule(p) : p \in Occupants(sets[i])}, 1)

SwissDepth(sets, groups, i) ==
    IF sets[i].done THEN 0
    ELSE Larger(groups[Greatest(GroupIndex(groups, GroupOf(sets[i])), 0)].rounds - RoundOf(sets[i]) + 1, 1)

(* compute_depths: [depth, cycles] before the tails are added. *)
Searched(sets, groups) ==
    LET excluded == Excluded(sets)
        down == [i \in DOMAIN sets |-> Dependents(sets, i, DOMAIN sets \ excluded)]
        visited == Visit(down, Weighted(sets))
        start == [color |-> [i \in DOMAIN sets |-> "new"], depth |-> [i \in DOMAIN sets |-> 0],
                  value |-> 0, best |-> 0, cycles |-> {}]
        visit(st, i) ==
            LET kind == KindOf(groups, sets[i]) IN
            CASE kind = "elim"  -> LET v == visited[<<i, st>>]
                                   IN  [v EXCEPT !.depth[i] = v.value]
              [] kind = "rr"    -> [st EXCEPT !.depth[i] = RrDepth(sets, i)]
              [] kind = "swiss" -> [st EXCEPT !.depth[i] = SwissDepth(sets, groups, i)]
              [] OTHER          -> [st EXCEPT !.depth[i] = Weighted(sets)[i]]
        found == FoldLeftDomain(LAMBDA st, i : visit(st, i), start, sets)
    IN  [depth  |-> [i \in DOMAIN sets |-> IF i \in excluded THEN 0 ELSE found.depth[i]],
         cycles |-> found.cycles]

(* compute_group_rollups: the sequential sets a group still needs. *)
GroupDepth(sets, groups, group, depth) ==
    LET open    == (Members(sets, group) \cap OpenSets(sets)) \ Excluded(sets)
        deepest == Greatest({depth[i] : i \in open}, 0)
        pairs   == Larger(Cardinality(Entrants(sets, Members(sets, group) \cap OpenSets(sets))) \div 2, 1)
        future  == FutureRounds(sets, group)
    IN  CASE group.kind = "rr"    -> Larger(deepest, (Cardinality(open) + pairs - 1) \div pairs)
          [] group.kind = "swiss" -> future + (IF open = {} THEN 0 ELSE 1)
          [] OTHER                -> deepest

StageDepths(sets, groups, depth) ==
    LET stages == Stages(groups) IN
    [s \in DOMAIN stages |->
        Greatest({GroupDepth(sets, groups, groups[g], depth) : g \in stages[s]}, 0)]

CriticalPath(sets, groups) ==
    LET depths == StageDepths(sets, groups, Searched(sets, groups).depth)
    IN  TotalOf(depths, DOMAIN depths)

(* bake_downstream_tails: a set is credited with the stages after its own. *)
Tailed(sets, groups, depth, stages, depths) ==
    LET tail(g) == LET s == CHOOSE x \in DOMAIN stages : g \in stages[x]
                   IN  TotalOf(depths, (s + 1)..Len(stages))
        tailOf(set) == LET found == GroupIndex(groups, GroupOf(set))
                       IN  IF found = {} THEN 0 ELSE tail(Greatest(found, 0))
    IN  [i \in DOMAIN sets |->
            IF i \in OpenSets(sets) \ Excluded(sets) THEN depth[i] + tailOf(sets[i]) ELSE depth[i]]

Baked(sets, groups, depth) == Tailed(sets, groups, depth, Stages(groups), StageDepths(sets, groups, depth))
Depths(sets, groups) == Baked(sets, groups, Searched(sets, groups).depth)

-----------------------------------------------------------------------------
(* compute_unblocks: the open slots downstream that wait for this set. *)
Unblocks(sets, i) == Len(Dependents(sets, i, OpenSets(sets) \ Excluded(sets)))

(* compute_remaining_counts: the open sets a player sits in, and one more   *)
(* for each future round of a swiss group the player is in.                *)
Remaining(sets, groups, p) ==
    LET swiss == {g \in DOMAIN groups : /\ groups[g].kind = "swiss"
                                        /\ p \in Entrants(sets, Members(sets, groups[g]))}
    IN  Cardinality({i \in OpenSets(sets) \ Excluded(sets) : p \in Occupants(sets[i])})
          + TotalOf([g \in swiss |-> FutureRounds(sets, groups[g])], swiss)
=============================================================================
