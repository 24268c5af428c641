---------------------------- MODULE Leaderboards ----------------------------
(***************************************************************************)
(* The leaderboards (endpoints/internal/skills.py, models/xp.py) and the   *)
(* publications they depend on (services/publications.py): who takes part  *)
(* is decided by the auth service and may change while a board is read.    *)
(*                                                                         *)
(* A reader's statements see committed rows, each statement those of its   *)
(* own moment.  The auth service is external: it gives every change of its *)
(* policy or of its participants another revision or another epoch, and    *)
(* its policy, once active, stays so.  Requests only read: one at a time,  *)
(* amid all changes, is every request there is.                            *)
(***************************************************************************)
EXTENDS Naturals, FiniteSetsExt, SequencesExt

CONSTANTS Learners,    \* user ids, in their order as strings
          FirstBoards, \* the XP rows at the start, summed by learner
          Limit,       \* the page length that readers ask for
          MaxXP,       \* bound: points of a learner
          MaxMoves,    \* bound: changes of XP rows
          MaxRevision, \* bound: revisions of the publication
          None

ASSUME LeaderboardConstantsOK == /\ Learners \subseteq Nat /\ IsFiniteSet(Learners)
                                 /\ Limit \in Nat \ {0} /\ None \notin Learners
                                 /\ {MaxXP, MaxMoves, MaxRevision} \subseteq Nat

VARIABLES board, \* [SUBSET Learners -> [xp, at]]: sum(xp) and max(last_update) of those with rows
          now,   \* the clock that last_update is taken from
          moves, \* changes of the board so far
          auth,  \* the publication at the auth service: epoch, revision, policy, participants
          read   \* the request: what it has in hand
boardVars == <<board, now, moves>>
vars == <<boardVars, auth, read>>

Never == MaxMoves + 1  \* last_update of a row that an administrator has added: null sorts last
Everyone == [participants |-> Learners, epoch |-> None]  \* the boards of before, without publications

ASSUME FirstBoardsOK == \A first \in FirstBoards :
           /\ DOMAIN first \subseteq Learners
           /\ \A l \in DOMAIN first : first[l] \in [xp : 0 .. MaxXP, at : 0 .. Never]

\* The rows of those who take part, and the order of points, then of their last change.
Rows(participants) == DOMAIN board \cap participants
Ahead(a, b) == \/ board[a].xp > board[b].xp
               \/ board[a].xp = board[b].xp /\ board[a].at < board[b].at
Tied(a, b) == board[a].xp = board[b].xp /\ board[a].at = board[b].at
-----------------------------------------------------------------------------
(* Faulty variants of definitions below: what TLC must reject. *)

\* A learner's rank counts those with as many points.
RankOfTied(xp, participants) == Cardinality({l \in Rows(participants) : board[l].xp >= xp})
\* Only the epoch's id is compared.
SameId(s, t) == s.epoch = t.epoch
\* A process without the feature never asks for the backend's policy.
LegacyByFlag(s, flag) == ~flag
-----------------------------------------------------------------------------
(* The publication, and the queries of models/xp.py over the rows of those who take part. *)

Legacy(s, flag) == ~s.active /\ ~flag
Enabled(s, flag) == s.active /\ s.enabled /\ flag
SameEpoch(s, t) == [s EXCEPT !.participants = {}] = [t EXCEPT !.participants = {}]

CountUsers(participants) == Cardinality(Rows(participants))
GetUserXP(l) == IF l \in DOMAIN board THEN board[l].xp ELSE 0
RankOf(xp, participants) == Cardinality({l \in Rows(participants) : board[l].xp > xp}) + 1

\* ORDER BY sum(xp) DESC, max(last_update), and user_id where the participants are given.
Before(a, b, published) == Ahead(a, b) \/ (published /\ Tied(a, b) /\ a < b)
\* What the database may return: anything that the order allows.
Listings(participants, published) ==
    {s \in SetToSeqs(Rows(participants)) :
        \A i, j \in DOMAIN s : i < j => ~Before(s[j], s[i], published)}
Page(s, offset) == [i \in 1 .. Cardinality({n \in DOMAIN s : n \in offset + 1 .. offset + Limit}) |->
                       [user |-> s[offset + i], xp |-> board[s[offset + i]].xp]]
\* The first row has the rank its points have; a row with fewer points has that of its place.
Ranks(rows, offset, first) ==
    LET rank[i \in DOMAIN rows] ==
          IF i = 1 THEN first
          ELSE IF rows[i].xp < rows[i - 1].xp THEN offset + i ELSE rank[i - 1]
    IN [i \in DOMAIN rows |-> [user |-> rows[i].user, xp |-> rows[i].xp, rank |-> rank[i]]]
-----------------------------------------------------------------------------
Asks == [page : {TRUE}, offset : {0, Limit}, user : {None}, epoch : {None, 1}]
        \cup [page : {FALSE}, offset : {0}, user : Learners, epoch : {None, 1}]
\* What a request has in hand; boards, begun and consented record what was true meanwhile.
Idle == [pc |-> "idle", ask |-> None, flag |-> FALSE, try |-> 0, snapshot |-> None, rows |-> <<>>,
         rank |-> None, total |-> 0, boards |-> {}, begun |-> FALSE, consented |-> {}]
Participants == read.snapshot.participants
Published == read.snapshot # Everyone
Step(change) == /\ read' = [field \in DOMAIN read |-> IF field \in DOMAIN change THEN change[field] ELSE read[field]]
                /\ UNCHANGED <<boardVars, auth>>
Saw == read.boards \cup {board}

Init == /\ board \in FirstBoards
        /\ now = 0 /\ moves = 0
        /\ \E enabled \in BOOLEAN :
              auth = [epoch |-> 1, revision |-> 0, active |-> enabled, enabled |-> enabled,
                      participants |-> Learners]
        /\ read = Idle
-----------------------------------------------------------------------------
(* Changes of the rows and of the publication. *)

Move(rows) == /\ moves < MaxMoves
              /\ moves' = moves + 1
              /\ board' = rows
              /\ UNCHANGED <<auth, read>>
WithRow(l, row) == [m \in DOMAIN board \cup {l} |-> IF m = l THEN row ELSE board[m]]
\* add_xp: an award, at this moment or a later one.
AddXP(l) == /\ GetUserXP(l) < MaxXP
            /\ now' \in {now, now + 1}
            /\ Move(WithRow(l, [xp |-> GetUserXP(l) + 1, at |-> now']))
\* update_xp: an administrator overwrites points and leaves last_update as it is.
UpdateXP(l, xp) == /\ Move(WithRow(l, [xp |-> xp, at |-> IF l \in DOMAIN board THEN board[l].at ELSE Never]))
                   /\ UNCHANGED now
\* delete_user_data
Erase(l) == /\ l \in DOMAIN board
            /\ Move(Restrict(board, DOMAIN board \ {l}))
            /\ UNCHANGED now
\* The publication's next revision: somebody leaves or joins, or publishing is switched on or off.
\* The policy stays active.
Publish(participants, enabled, epoch) ==
    /\ Cardinality(participants \ auth.participants) + Cardinality(auth.participants \ participants) <= 1
    /\ auth.revision < MaxRevision
    /\ auth' = [epoch |-> epoch, revision |-> auth.revision + 1, active |-> auth.active \/ enabled,
                enabled |-> enabled, participants |-> participants]
    /\ UNCHANGED <<boardVars, read>>
-----------------------------------------------------------------------------
(* A request for a page or for a learner's rank.  An internal one names the epoch it has seen. *)

\* Workers may differ in their settings: a feature is rolled out or back process by process.
Ask(ask, flag) ==
    /\ read.pc = "idle"
    /\ Step([pc |-> IF ask.epoch = None THEN "route" ELSE "snapshot", ask |-> ask, flag |-> flag,
             try |-> 1, begun |-> auth.active])
\* No answer from the auth service, or a publication that is not enabled: 503.
Unavailable == /\ read.pc \in {"route", "snapshot", "reread"}
               /\ Step(Idle)
\* use_shared_rankings
Route ==
    /\ read.pc = "route"
    /\ \/ /\ Legacy(auth, read.flag)
          /\ Step([pc |-> "rows", snapshot |-> Everyone])
       \/ /\ ~Legacy(auth, read.flag)
          /\ Enabled(auth, read.flag)
          /\ Step([pc |-> "snapshot"])
\* current_snapshot: another epoch than the reader has seen is a conflict.
CurrentSnapshot ==
    /\ read.pc = "snapshot"
    /\ Enabled(auth, read.flag)
    /\ IF read.ask.epoch \in {None, auth.epoch}
       THEN Step([pc |-> "rows", snapshot |-> auth])
       ELSE Step(Idle)
\* get_leaderboard is two statements: the rows of the page, then the rank of the first one.
GetLeaderboard ==
    /\ read.pc = "rows" /\ read.ask.page
    /\ \E s \in Listings(Participants, Published) :
          Step([pc |-> "first", rows |-> Page(s, read.ask.offset), boards |-> {board}])
RankFirst ==
    /\ read.pc = "first"
    /\ LET first == IF read.rows = <<>> THEN 0 ELSE read.rows[1].xp IN
       Step([pc |-> "count", boards |-> Saw,
             rows |-> Ranks(read.rows, read.ask.offset, RankOf(first, Participants))])
Count == /\ read.pc = "count"
         /\ Step([pc |-> IF Published THEN "reread" ELSE "shown", boards |-> Saw,
                  total |-> CountUsers(Participants)])
\* A learner's points, whether they take part, and their rank.
ReadXP == /\ read.pc = "rows" /\ ~read.ask.page
          /\ Step([pc |-> IF Published THEN "exists" ELSE "rank", boards |-> {board},
                   total |-> GetUserXP(read.ask.user)])
Exists ==
    /\ read.pc = "exists"
    /\ IF read.ask.user \in Rows(Participants)
       THEN Step([pc |-> "rank", boards |-> Saw])
       ELSE Step([pc |-> "reread", rank |-> None,
                  boards |-> IF read.ask.user \in Participants THEN Saw ELSE read.boards])
OwnRank == /\ read.pc = "rank"
           /\ Step([pc |-> IF Published THEN "reread" ELSE "shown", boards |-> Saw,
                    rank |-> RankOf(read.total, Participants)])
\* current_epoch once more; after a change everything is read again, once.
Reread ==
    /\ read.pc = "reread"
    /\ IF SameEpoch(auth, read.snapshot)
       THEN Step([pc |-> "shown", consented |-> auth.participants])
       ELSE Step(IF read.try = 1 THEN [pc |-> "snapshot", try |-> 2] ELSE Idle)
Leave == /\ read.pc = "shown"
         /\ Step(Idle)

Next == \/ \E l \in Learners : AddXP(l) \/ Erase(l) \/ \E xp \in 0 .. MaxXP : UpdateXP(l, xp)
        \/ \E participants \in SUBSET Learners, enabled \in BOOLEAN, epoch \in {auth.epoch, 2} :
              Publish(participants, enabled, epoch)
        \/ \E ask \in Asks, flag \in BOOLEAN : Ask(ask, flag)
        \/ Unavailable \/ Route \/ CurrentSnapshot
        \/ GetLeaderboard \/ RankFirst \/ Count
        \/ ReadXP \/ Exists \/ OwnRank
        \/ Reread \/ Leave
Spec == Init /\ [][Next]_vars
-----------------------------------------------------------------------------
TypeOK == /\ DOMAIN board \subseteq Learners
          /\ \A l \in DOMAIN board : board[l] \in [xp : 0 .. MaxXP, at : 0 .. Never]
          /\ now \in 0 .. MaxMoves /\ moves \in 0 .. MaxMoves
          /\ auth \in [epoch : 1 .. 2, revision : 0 .. MaxRevision, active : BOOLEAN, enabled : BOOLEAN,
                       participants : SUBSET Learners]
          /\ auth.enabled => auth.active
          /\ DOMAIN read = DOMAIN Idle

Shown == read.pc = "shown"
Still == Cardinality(read.boards) = 1  \* no statement of the answer saw a change
Board == CHOOSE b \in read.boards : TRUE
Better(xp) == {l \in DOMAIN Board \cap Participants : Board[l].xp > xp}
Equal(xp) == {l \in DOMAIN Board \cap Participants : Board[l].xp = xp}

\* Page by page and learner by learner, a rank is one more than the number of participants with
\* more points, wherever the page begins and whoever shares its points; who does not take part
\* has none and moves none.
PlacesAreRight ==
    Shown /\ Still =>
        LET all == DOMAIN Board \cap Participants IN
        IF read.ask.page
        THEN /\ read.total = Cardinality(all)
             /\ Len(read.rows) = Cardinality((read.ask.offset + 1 .. read.ask.offset + Limit) \cap (1 .. read.total))
             /\ \A i \in DOMAIN read.rows :
                   LET row == read.rows[i]  place == Cardinality(Better(row.xp)) + 1 IN
                   /\ row.user \in Equal(row.xp)
                   /\ row.rank = place
                   /\ read.ask.offset + i \in place .. place + Cardinality(Equal(row.xp)) - 1
        ELSE read.rank = IF Published /\ read.ask.user \notin all THEN None
                         ELSE Cardinality(Better(read.total)) + 1

\* Two pages of one publication and one board, read by different statements, share nobody and
\* leave nobody out, equals included.  (Boards are met between requests as well.)
PagesFit ==
    read = Idle => \A participants \in SUBSET Learners : \A s, t \in Listings(participants, TRUE) :
        LET users(page) == {page[i].user : i \in DOMAIN page}
            top == users(Page(s, 0))  next == users(Page(t, Limit))
        IN /\ top \cap next = {}
           /\ Cardinality(top \cup next) = Cardinality((1 .. CountUsers(participants)) \cap (1 .. 2 * Limit))

\* Ranks are right on every page, and the pages make one board.
BoardsAreSound == TypeOK /\ PlacesAreRight /\ PagesFit

\* Whoever has a rank in a published answer took part at its last look at the auth service, even
\* if the publication changed, once or several times, while the rows were read.
PublishedTakePart ==
    Shown /\ Published =>
        /\ \A i \in DOMAIN read.rows : read.rows[i].user \in read.consented
        /\ ~read.ask.page /\ read.rank # None => read.ask.user \in read.consented

\* Once the policy is active, no request that begins shows learners who do not take part,
\* whatever process it meets.
RollbackIsFenced == Shown /\ read.begun => Published
=============================================================================
