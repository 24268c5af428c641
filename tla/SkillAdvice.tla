---------------------------- MODULE SkillAdvice ----------------------------
(***************************************************************************)
(* What a learner is suggested (suggestions in services/learning_plan.py)  *)
(* on the tree that the administrators of SkillTree leave behind.          *)
(***************************************************************************)
EXTENDS SkillTree, Recommendations

CONSTANTS Teaches,   \* [courses -> SUBSET sub skills]: SkillCourse, as long as the skill exists
          Learners   \* bound: characters, preferences, plans, tracks, points and finished courses

\* skill_graph: the rows of the tree.  Its five statements are one read here: suggestions that an
\* edit meets between two of them may see parts of two trees, which no property speaks of.
SkillGraph ==
    LET subs == {s \in skills : Parent[s] # Nothing}
        taught(c) == Teaches[c] \cap subs
    IN [roots |-> [r \in skills \ subs |-> needs[r]],
        rootOf |-> [s \in subs |-> Parent[s]],
        needs |-> [s \in subs |-> needs[s]],
        teaches |-> [c \in {d \in DOMAIN Teaches : taught(d) # {}} |-> taught(c)]]
\* Points are rows that go with their skill; tracks are those the plan takes steps from.
Present(l) == [l EXCEPT !.xp = @ \cap DOMAIN SkillGraph.rootOf]

\* Suggestions read what is committed: they are looked at on each tree once.
Settled == answer = Nothing /\ ~readsMet /\ \A q \in Requests : open[q] = NoRequest

Chain(roots) ==
    LET long[n \in 0 .. Cardinality(DOMAIN roots)] ==
          IF n = 0 THEN DOMAIN roots
          ELSE LET shorter == long[n - 1] IN {r \in DOMAIN roots : roots[r] \cap shorter # {}}
    IN long
\* The measured depth of a root skill is the longest chain of dependencies below it; where edits
\* have closed a cycle, there is still a chain of that length, and no root is deeper than there
\* are other roots.
DepthsAreChains ==
    Settled => LET roots == SkillGraph.roots  depths == RootDepths(roots)  chain == Chain(roots) IN
        /\ DOMAIN depths = DOMAIN roots
        /\ \A r \in DOMAIN roots :
              /\ depths[r] < Cardinality(DOMAIN roots)
              /\ r \in chain[depths[r]]
              /\ Acyclic(roots) => r \notin chain[depths[r] + 1]

\* Where every sub skill has a course of its own, a learner never gets stuck: as long as a course is
\* left, one that is left is ready, whatever was planned, finished or dropped from the tree.
PlansNeverStall ==
    Settled /\ ~editsMet =>
        LET g == SkillGraph IN
        (\A s \in DOMAIN g.rootOf : \E c \in DOMAIN g.teaches \cap DOMAIN Levels : g.teaches[c] = {s}) =>
            \A m \in Learners : LET l == Present(m)  v == View(g, l) IN
                Candidates(g, l) # {} => \E c \in Candidates(g, l) : Ready(g, l, v, c)

\* Finishing a course of the plan never makes another suggestion worse.
FinishingNeverHurts ==
    Settled =>
        LET g == SkillGraph IN
        \A m \in Learners : LET l == Present(m)  before == Suggest(g, l) IN
            \A c \in ToSet(l.planned) \ l.completed :
                LET after == Suggest(g, [l EXCEPT !.completed = @ \cup {c}]) IN
                \A i \in DOMAIN before, j \in DOMAIN after :
                    before[i].course = after[j].course => before[i].score <= after[j].score

\* A learner who follows the suggestions gets on: there is a next course, and it makes none worse.
LearnersMoveOn == PlansNeverStall /\ FinishingNeverHurts
=============================================================================
