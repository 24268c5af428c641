--------------------------- MODULE Recommendations ---------------------------
(***************************************************************************)
(* Suggestions of courses for a learner's plan                             *)
(* (services/recommendations.py): a pure function of the skill tree and of *)
(* what the learner planned, finished and knows.                           *)
(*                                                                         *)
(* A graph is [roots, rootOf, needs, teaches]: the dependencies of root    *)
(* skills, the root and the dependencies of sub skills, the sub skills of  *)
(* courses.  A learner is [character, preference, planned, tracks, xp,     *)
(* completed].  Levels and characters are 0 .. 2.                          *)
(***************************************************************************)
EXTENDS Integers, SequencesExt

CONSTANTS Ids,      \* Seq: the ids of root skills, and those of courses, in their order
          Levels,   \* [existing courses -> 0 .. 2 or NoLevel]
          Tracks,   \* [tracks -> SUBSET courses]
          NoLevel

LIMIT == 6
NEXT_AFTER == 4
IN_TRACK == 3
PREFERENCE == 2
NOT_READY == -2
LEVEL_FIT == [distance \in 0 .. 2 |-> CASE distance = 0 -> 2 [] distance = 1 -> 0 [] distance = 2 -> -3]

Sorted(S) == SelectSeq(Ids, LAMBDA id : id \in S)

AboveNearest(below) == IF below = {} THEN 0 ELSE 1 + Min(below)    \* faulty variant: the shortest chain
Above(below) == IF below = {} THEN 0 ELSE 1 + Max(below)

\* root_depths: every root is measured once, what it depends on first; an edge back to a root
\* that is being measured is ignored.
RECURSIVE Measured(_, _, _, _)
Measured(roots, depths, root, visiting) ==
    IF root \in DOMAIN depths THEN depths
    ELSE LET further == roots[root] \ (visiting \cup {root})
             found == FoldLeft(LAMBDA known, other : Measured(roots, known, other, visiting \cup {root}),
                               depths, Sorted(further))
         IN (root :> Above({found[other] : other \in further})) @@ found
RootDepths(roots) == FoldLeft(LAMBDA known, root : Measured(roots, known, root, {}), << >>, Sorted(DOMAIN roots))

SkillsOf(g, courses) == UNION {g.teaches[c] : c \in courses \cap DOMAIN g.teaches}
RootsOf(g, skills) == {g.rootOf[s] : s \in skills \cap DOMAIN g.rootOf}

\* _Tree: the graph as one learner sees it.
View(g, l) ==
    LET planRoots == RootsOf(g, SkillsOf(g, ToSet(l.planned)))
        satisfied == RootsOf(g, l.xp \cup SkillsOf(g, l.completed))
    IN [depths |-> RootDepths(g.roots), planRoots |-> planRoots, satisfied |-> satisfied,
        known |-> satisfied \cup planRoots,
        covered |-> l.xp \cup SkillsOf(g, l.completed \cup ToSet(l.planned))]

\* Faulty variant: planned courses cover nothing.
ReadyByXP(g, l, v, c) == \A s \in g.teaches[c] : g.needs[s] \subseteq l.xp
Ready(g, l, v, c) == \A s \in g.teaches[c] : g.needs[s] \subseteq v.covered

LevelOf(g, v, c) ==
    LET own == RootsOf(g, g.teaches[c]) IN
    IF Levels[c] # NoLevel THEN Levels[c]
    ELSE IF own = {} THEN NoLevel ELSE Min({Min({v.depths[root], 2}) : root \in own})

Follows(g, v, c, anchor) ==
    LET before == SkillsOf(g, {anchor}) IN
    \/ \E s \in g.teaches[c] : g.needs[s] \cap before # {}
    \/ \E root \in RootsOf(g, g.teaches[c]) :
          /\ g.roots[root] \cap RootsOf(g, before) # {}
          /\ g.roots[root] \subseteq v.satisfied \cup v.planRoots

\* The courses that a suggestion may name as the one before it, in the order they are tried.
Anchors(l) == l.planned \o Sorted(l.completed \ ToSet(l.planned))

\* One candidate with its points and its strongest reason.
Suggestion(g, l, v, c) ==
    LET ready == Ready(g, l, v, c)
        own == RootsOf(g, g.teaches[c])
        level == LevelOf(g, v, c)
        after == IF ready THEN SelectSeq(Anchors(l), LAMBDA a : a # c /\ Follows(g, v, c, a)) ELSE << >>
        track == SelectSeq(l.tracks, LAMBDA t : c \in Tracks[t])
        newArea == /\ l.preference = "breit" /\ ready
                   /\ \E root \in own : root \notin v.known /\ g.roots[root] \subseteq v.satisfied
        deepen == l.preference = "tief" /\ own \cap v.known # {}
        points(holds, n) == IF holds THEN n ELSE 0
    IN [course |-> c,
        score |-> (IF level = NoLevel THEN 0 ELSE LEVEL_FIT[Max({level - l.character, l.character - level})])
                  + points(after # << >>, NEXT_AFTER) + points(track # << >>, IN_TRACK)
                  + points(newArea \/ deepen, PREFERENCE) + points(~ready, NOT_READY),
        reason |-> CASE after # << >> -> "next_after" [] after = << >> /\ track # << >> -> "in_track"
                     [] OTHER -> IF newArea THEN "new_area" ELSE IF deepen THEN "deepen" ELSE "level_fit",
        names |-> IF after # << >> THEN after[1] ELSE IF track # << >> THEN track[1] ELSE NoLevel]

Candidates(g, l) == {c \in DOMAIN g.teaches \cap DOMAIN Levels : c \notin ToSet(l.planned) \cup l.completed}

\* suggest: the candidates with the most points, ties by id.
Suggest(g, l) ==
    LET v == View(g, l)
        all == Sorted(Candidates(g, l))
        scored == [i \in DOMAIN all |-> Suggestion(g, l, v, all[i])]
        \* sort is stable, so ties stay in the order of their ids.
        rank(i) == Cardinality({j \in DOMAIN scored : \/ scored[j].score > scored[i].score
                                                      \/ scored[j].score = scored[i].score /\ j <= i})
    IN [n \in 1 .. Min({LIMIT, Len(all)}) |-> scored[CHOOSE i \in DOMAIN scored : rank(i) = n]]
=============================================================================
