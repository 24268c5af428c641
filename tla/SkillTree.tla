------------------------------ MODULE SkillTree ------------------------------
(***************************************************************************)
(* The skill tree (endpoints/skill.py, endpoints/internal/skills.py):      *)
(* administrators create, change and delete root and sub skills, with a    *)
(* check for cycles, and answers about the tree are kept in Redis          *)
(* (utils/cache.py).                                                       *)
(*                                                                         *)
(* A request reads the tree in one transaction, checks it, clears the      *)
(* cache and commits when it ends: other requests may read, store and      *)
(* commit in between.  Nothing locks the rows that were read; the keys of  *)
(* the database, not the code, refuse a dependency on a skill that is      *)
(* gone.  A skill keeps its parent for good, and an answer is any one of   *)
(* those under the prefix "skills": all are cleared together.              *)
(***************************************************************************)
EXTENDS Naturals, FiniteSets

CONSTANTS Skills,      \* ids of root and sub skills
          Parent,      \* [Skills -> Skills or Nothing]: Nothing for a root skill
          FirstSkills, \* the skills of the first tree, which has no dependencies
          Changing,    \* bound: skills that are created and deleted
          Links,       \* bound: <<skill, dependency>> that an administrator may ask for
          Requests,    \* requests at the same time
          Nothing

ASSUME SkillConstantsOK ==
    /\ Nothing \notin Skills \cup {"fresh", "old"}
    /\ Parent \in [Skills -> Skills \cup {Nothing}]
    /\ \A s \in Skills : Parent[s] # Nothing => Parent[Parent[s]] = Nothing
    /\ FirstSkills \subseteq Skills /\ Changing \subseteq Skills
    /\ \A s \in FirstSkills : Parent[s] \in FirstSkills \cup {Nothing}
    /\ Links \subseteq Skills \X Skills

VARIABLES skills,      \* the rows of skills_root_skill and skills_sub_skill
          needs,       \* [Skills -> SUBSET Skills]: the rows of the dependency tables
          answer,      \* the cached answer: none, as the tree is, or as it was
          open,        \* [Requests -> what the request is about to store or commit]
          editsMet,    \* history: an edit committed while another one that adds dependencies was open
          readsMet     \* history: an edit was open together with a read

treeVars == <<skills, needs>>
skillVars == <<treeVars, answer, open, editsMet, readsMet>>

Freshness == {"fresh", "old"}
Level(x) == {y \in Skills : Parent[y] = Parent[x]}
Children(x) == {y \in skills : Parent[y] = x}
\* Rows that point to a skill or, when a root skill goes, to one of its sub skills.
Referrers(x) == Children(x) \cup {y \in skills : needs[y] \cap ({x} \cup Children(x)) # {}}

\* Faulty variant: only the direct dependents.
DirectDependents(x) == {x} \cup {y \in skills : x \in needs[y]}
\* get_skill_dependents: the skill and all that depend on it, directly or not.
Closed(D) == \A y \in skills : needs[y] \cap D # {} => y \in D
Dependents(x) == {y \in Level(x) : \A D \in SUBSET Level(x) : x \in D /\ Closed(D) => y \in D}

NoRequest == [is |-> "idle"]
Answering(as) == [is |-> "read", as |-> as]
\* An edit, and the rows that its transaction has read: it writes the difference to them.
Edit(kind, x, wanted, seen) == [is |-> kind, skill |-> x, wanted |-> wanted, seen |-> seen]
IsEdit(r) == r.is \in {"create", "update", "delete"}
Adds(r) == IF IsEdit(r) THEN r.wanted \ r.seen ELSE {}

TreeInit == /\ skills = FirstSkills
            /\ needs = [s \in Skills |-> {}]
            /\ answer = Nothing
            /\ open = [q \in Requests |-> NoRequest]
            /\ editsMet = FALSE /\ readsMet = FALSE
-----------------------------------------------------------------------------
Begin(q, r) == /\ open[q] = NoRequest
               /\ open' = [open EXCEPT ![q] = r]
               /\ readsMet' = (readsMet \/ \E p \in Requests :
                                 \/ IsEdit(r) /\ open[p].is = "read"
                                 \/ r.is = "read" /\ IsEdit(open[p]))
               /\ UNCHANGED <<treeVars, editsMet>>
\* clear_cache("skills"), which precedes the commit.
ClearKept == UNCHANGED answer    \* faulty variant: nothing is cleared
Clear == answer' = Nothing

Wanted(x) == SUBSET {d \in Level(x) \cap skills : <<x, d>> \in Links}

CreateSkill(q, x) == /\ x \in Changing \ skills
                     /\ \E wanted \in Wanted(x) : Begin(q, Edit("create", x, wanted, {}))
                     /\ Clear
CreateRootSkill(q, x) == Parent[x] = Nothing /\ CreateSkill(q, x)
CreateSubSkill(q, x) == Parent[x] \in skills /\ CreateSkill(q, x)

\* An update of the dependencies, which the check lets pass, or of anything else in the row.
UpdateSkill(q, x) == /\ x \in skills
                     /\ \E wanted \in Wanted(x) :
                           /\ wanted = needs[x] \/ Dependents(x) \cap wanted = {}
                           /\ Begin(q, Edit("update", x, wanted, needs[x]))
                     /\ Clear
UpdateRootSkill(q, x) == Parent[x] = Nothing /\ UpdateSkill(q, x)
UpdateSubSkill(q, x) == Parent[x] # Nothing /\ UpdateSkill(q, x)

DeleteSkill(q, x) == /\ x \in Changing \cap skills
                     /\ Begin(q, Edit("delete", x, {}, Referrers(x)))
                     /\ Clear
\* The sub skills go along, and the courses and the points of a skill.
DeleteRootSkill(q, x) == Parent[x] = Nothing /\ DeleteSkill(q, x)
DeleteSubSkill(q, x) == Parent[x] # Nothing /\ DeleteSkill(q, x)

\* What the keys of the database let an edit commit.
Committable(r) ==
    CASE r.is = "create" -> r.skill \notin skills /\ r.wanted \cup {Parent[r.skill]} \subseteq skills \cup {Nothing}
      [] r.is = "update" -> r.skill \in skills /\ Adds(r) \subseteq skills /\ Adds(r) \cap needs[r.skill] = {}
      [] r.is = "delete" -> r.skill \in skills /\ Referrers(r.skill) \subseteq r.seen
NeedsAfter(r) ==
    CASE r.is = "create" -> [needs EXCEPT ![r.skill] = r.wanted]
      [] r.is = "update" -> [needs EXCEPT ![r.skill] = (@ \ (r.seen \ r.wanted)) \cup Adds(r)]
      [] r.is = "delete" -> LET gone == {r.skill} \cup Children(r.skill)
                            IN [s \in Skills |-> IF s \in gone THEN {} ELSE needs[s] \ gone]
Aged(r) == IF r.is = "read" THEN Answering("old") ELSE r

Commit(q) ==
    LET r == open[q] IN
    /\ IsEdit(r)
    /\ Committable(r)
    /\ needs' = NeedsAfter(r)
    /\ skills' = CASE r.is = "create" -> skills \cup {r.skill}
                   [] r.is = "update" -> skills
                   [] r.is = "delete" -> skills \ ({r.skill} \cup Children(r.skill))
    /\ answer' = IF answer = Nothing THEN Nothing ELSE "old"
    /\ open' = [p \in Requests |-> IF p = q THEN NoRequest ELSE Aged(open[p])]
    /\ editsMet' = (editsMet \/ \E p \in Requests \ {q} : Adds(r) # {} /\ Adds(open[p]) # {})
    /\ UNCHANGED readsMet

\* redis_cached: nothing is stored, so the rows are read; the answer is stored for cache_ttl seconds.
Read(q) == /\ answer = Nothing
           /\ Begin(q, Answering("fresh"))
           /\ UNCHANGED answer
Store(q) == /\ open[q].is = "read"
            /\ answer' = open[q].as
            /\ open' = [open EXCEPT ![q] = NoRequest]
            /\ UNCHANGED <<treeVars, editsMet, readsMet>>
Expire == /\ answer # Nothing
          /\ answer' = Nothing
          /\ UNCHANGED <<treeVars, open, editsMet, readsMet>>

\* The process ends, the connection is lost, or a key is violated.
Fail(q) == /\ open[q] # NoRequest
           /\ open' = [open EXCEPT ![q] = NoRequest]
           /\ UNCHANGED <<treeVars, answer, editsMet, readsMet>>

TreeNext == \/ \E q \in Requests : Read(q) \/ Store(q) \/ Commit(q) \/ Fail(q)
            \/ \E q \in Requests, x \in Skills :
                  \/ CreateRootSkill(q, x) \/ UpdateRootSkill(q, x) \/ DeleteRootSkill(q, x)
                  \/ CreateSubSkill(q, x) \/ UpdateSubSkill(q, x) \/ DeleteSubSkill(q, x)
            \/ Expire

\* Redis forgets, and every request comes to an end.
TreeFairness == WF_skillVars(Expire) /\ \A q \in Requests : WF_skillVars(Store(q) \/ Commit(q) \/ Fail(q))
TreeSpec == TreeInit /\ [][TreeNext]_skillVars /\ TreeFairness
-----------------------------------------------------------------------------
\* Values are in their types; every row points to rows of its own level that exist.
TreeTypeOK == /\ skills \subseteq Skills
              /\ \A s \in skills : Parent[s] \in skills \cup {Nothing}
              /\ needs \in [Skills -> SUBSET skills]
              /\ \A s \in Skills : needs[s] \subseteq Level(s) /\ (s \notin skills => needs[s] = {})
              /\ answer \in Freshness \cup {Nothing}
              /\ \A q \in Requests : open[q].is \in {"idle", "read", "create", "update", "delete"}
              /\ editsMet \in BOOLEAN /\ readsMet \in BOOLEAN

\* get_skill_dependencies: what a learner should know before a sub skill.
Required(x) == needs[x] \cup (IF Parent[x] = Nothing THEN {} ELSE UNION {Children(root) : root \in needs[Parent[x]]})
Acyclic(below) == \A S \in SUBSET DOMAIN below : S # {} => \E x \in S : below[x] \cap S = {}

\* However requests interleave, a chain of dependencies leads back to its skill only after two
\* edits that add dependencies were open at the same time: the check, creating and deleting
\* skills, and the difference that an edit writes to rows others have changed let no cycle in.
CyclesNeedTwoEdits == editsMet \/ /\ Acyclic([x \in skills |-> needs[x]])
                                  /\ Acyclic([x \in skills |-> Required(x)])

\* An answer of before an edit is given after it only if the two met: nothing else that is
\* stored outlives a commit.
OldNeedsAMeeting == answer = "old" => readsMet

\* Whatever met, once no edit is open any more the cache forgets what it should not say.
OldAnswersEnd == <>[](\A q \in Requests : ~IsEdit(open[q])) => <>[](answer # "old")

\* The tree keeps its shape and, but for edits that met, its order.
TreeIsSound == TreeTypeOK /\ CyclesNeedTwoEdits

\* An old answer has a cause and an end.
OldAnswersPass == [][OldNeedsAMeeting']_skillVars /\ OldAnswersEnd
=============================================================================
