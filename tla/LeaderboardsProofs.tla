-------------------------- MODULE LeaderboardsProofs --------------------------
(***************************************************************************)
(* Proofs about Leaderboards for any learners, boards, page length, points *)
(* and changes: whoever has a rank in a published answer took part at the  *)
(* request's last look at the auth service, and once the policy is active  *)
(* no request that begins is answered from the boards of before; ranks and *)
(* pages are right, and neither overlap nor leave a gap.  Then, about      *)
(* SkillTree for any skills and requests: a cycle needs two edits that     *)
(* met, and an old answer in the cache a read that met an edit.  The two   *)
(* have no variable in common.                                             *)
(***************************************************************************)
EXTENDS Leaderboards, SkillTree, FiniteSetTheorems, WellFoundedInduction, TLAPS

Auths == [epoch : 1 .. 2, revision : 0 .. MaxRevision, active : BOOLEAN, enabled : BOOLEAN,
          participants : SUBSET Learners]
Fields == {"pc", "ask", "flag", "try", "snapshot", "rows", "rank", "total", "boards", "begun", "consented"}

\* The rows of a request are of those who take part; a request for a rank has none.
RowsTakePart == \A i \in DOMAIN read.rows : read.ask.page /\ read.rows[i].user \in Participants
RankTakesPart == ~read.ask.page /\ read.rank # None => read.ask.user \in Participants

\* What a request has in hand, once it has a snapshot, and while it reads.
Reading == {"rows", "first", "count", "exists", "rank", "reread", "shown"}
SnapshotOK == read.snapshot # Everyone => /\ read.snapshot \in Auths
                                          /\ read.snapshot.revision <= auth.revision
                                          /\ read.snapshot.revision = auth.revision => read.snapshot = auth
ReadOK ==
    /\ DOMAIN read = Fields
    /\ read.pc \in {"idle", "route", "snapshot"} \cup Reading
    /\ read.pc = "idle" => read.rows = <<>>
    /\ read.pc # "idle" => /\ read.ask.page \in BOOLEAN /\ read.ask.offset \in Nat
                           /\ ~read.ask.page => read.rows = <<>>
                           /\ read.begun => auth.active
    /\ read.pc \in Reading => SnapshotOK /\ (read.begun => Published)
    /\ read.pc \in {"first", "count"} => read.ask.page
    /\ read.pc \in {"exists", "rank"} => ~read.ask.page
    /\ read.pc \in {"first", "count", "reread", "shown"} => RowsTakePart
    /\ read.pc = "rank" /\ Published => read.ask.user \in Participants
    /\ read.pc \in {"reread", "shown"} /\ Published => RankTakesPart
    /\ read.pc = "shown" /\ Published => read.consented = Participants

\* The clock moves with the rows only.
IInv == TypeOK /\ now <= moves /\ ReadOK
-----------------------------------------------------------------------------
\* A request that ends keeps the fields of its record.
LEMMA IdleFields == DOMAIN Idle = Fields
    BY DEF Idle, Fields

\* A publication is no board of before.
LEMMA AuthIsNotEveryone ==
    ASSUME NEW s \in Auths
    PROVE  s # Everyone
<1>1. DOMAIN s = {"epoch", "revision", "active", "enabled", "participants"}
    BY DEF Auths
<1>2. DOMAIN Everyone = {"participants", "epoch"}
    BY DEF Everyone
<1> QED
    BY <1>1, <1>2

\* It holds before any request.
LEMMA InitInv == Init => IInv
<1> SUFFICES ASSUME Init
             PROVE  IInv
    OBVIOUS
<1>1. board \in FirstBoards /\ now = 0 /\ moves = 0 /\ read = Idle
    BY DEF Init
<1>2. auth \in Auths /\ (auth.enabled => auth.active)
    BY LeaderboardConstantsOK DEF Init, Auths
<1>3. TypeOK
    BY <1>1, <1>2, LeaderboardConstantsOK, FirstBoardsOK DEF TypeOK, Auths
<1>4. DOMAIN read = Fields /\ read.pc = "idle" /\ read.rows = <<>>
    BY <1>1, IdleFields DEF Idle
<1>5. ReadOK
    BY <1>4 DEF ReadOK, Reading
<1> QED
    BY <1>1, <1>3, <1>5 DEF IInv

\* The rows change under the request: what it has in hand stays.
LEMMA MoveStep ==
    ASSUME IInv, UNCHANGED <<auth, read>>, moves < MaxMoves, moves' = moves + 1, now' \in {now, now + 1},
           DOMAIN board' \subseteq Learners,
           \A l \in DOMAIN board' : board'[l] \in [xp : 0 .. MaxXP, at : 0 .. Never]
    PROVE  IInv'
<1>1. moves \in 0 .. MaxMoves /\ now \in 0 .. MaxMoves /\ now <= moves /\ MaxMoves \in Nat
    BY LeaderboardConstantsOK DEF IInv, TypeOK
<1>2. moves' \in 0 .. MaxMoves /\ now' \in 0 .. MaxMoves /\ now' <= moves'
    BY <1>1
<1>3. TypeOK'
    BY <1>2 DEF IInv, TypeOK
<1>4. ReadOK'
    BY DEF IInv, ReadOK, SnapshotOK, RowsTakePart, RankTakesPart, Participants, Published
<1> QED
    BY <1>2, <1>3, <1>4 DEF IInv

\* Points that are earned or erased concern no request in hand.
LEMMA RowsStep ==
    ASSUME IInv, NEW l \in Learners, AddXP(l) \/ Erase(l) \/ \E xp \in 0 .. MaxXP : UpdateXP(l, xp)
    PROVE  IInv'
<1>1. /\ DOMAIN board \subseteq Learners
      /\ \A m \in DOMAIN board : board[m] \in [xp : 0 .. MaxXP, at : 0 .. Never]
      /\ now \in 0 .. MaxMoves /\ now <= moves /\ moves \in 0 .. MaxMoves
      /\ MaxMoves \in Nat /\ MaxXP \in Nat /\ Never = MaxMoves + 1
    BY LeaderboardConstantsOK DEF IInv, TypeOK, Never
<1>2. CASE AddXP(l)
    <2>1. /\ moves < MaxMoves /\ moves' = moves + 1 /\ now' \in {now, now + 1}
          /\ board' = WithRow(l, [xp |-> GetUserXP(l) + 1, at |-> now'])
          /\ UNCHANGED <<auth, read>> /\ GetUserXP(l) < MaxXP
        BY <1>2 DEF AddXP, Move
    <2>2. GetUserXP(l) \in 0 .. MaxXP
        BY <1>1 DEF GetUserXP
    <2>3. [xp |-> GetUserXP(l) + 1, at |-> now'] \in [xp : 0 .. MaxXP, at : 0 .. Never]
        BY <1>1, <2>1, <2>2
    <2>4. /\ DOMAIN board' \subseteq Learners
          /\ \A m \in DOMAIN board' : board'[m] \in [xp : 0 .. MaxXP, at : 0 .. Never]
        BY <1>1, <2>1, <2>3 DEF WithRow
    <2> QED
        BY <2>1, <2>4, MoveStep
<1>3. ASSUME NEW xp \in 0 .. MaxXP, UpdateXP(l, xp)
      PROVE  IInv'
    <2> DEFINE row == [xp |-> xp, at |-> IF l \in DOMAIN board THEN board[l].at ELSE Never]
    <2>1. /\ moves < MaxMoves /\ moves' = moves + 1 /\ now' = now
          /\ board' = WithRow(l, row)
          /\ UNCHANGED <<auth, read>>
        BY <1>3 DEF UpdateXP, Move
    <2>2. row \in [xp : 0 .. MaxXP, at : 0 .. Never]
        BY <1>1
    <2> HIDE DEF row
    <2>3. /\ DOMAIN board' \subseteq Learners
          /\ \A m \in DOMAIN board' : board'[m] \in [xp : 0 .. MaxXP, at : 0 .. Never]
        BY <1>1, <2>1, <2>2 DEF WithRow
    <2> QED
        BY <2>1, <2>3, MoveStep
<1>4. CASE Erase(l)
    <2>1. /\ moves < MaxMoves /\ moves' = moves + 1 /\ now' = now
          /\ board' = Restrict(board, DOMAIN board \ {l})
          /\ UNCHANGED <<auth, read>>
        BY <1>4 DEF Erase, Move
    <2>2. /\ DOMAIN board' \subseteq Learners
          /\ \A m \in DOMAIN board' : board'[m] \in [xp : 0 .. MaxXP, at : 0 .. Never]
        BY <1>1, <2>1 DEF Restrict
    <2> QED
        BY <2>1, <2>2, MoveStep
<1> QED
    BY <1>2, <1>3, <1>4

\* The publication changes under the request: its snapshot is no longer the latest, for good.
LEMMA PublishStep ==
    ASSUME IInv, NEW participants \in SUBSET Learners, NEW enabled \in BOOLEAN, NEW epoch \in {auth.epoch, 2},
           Publish(participants, enabled, epoch)
    PROVE  IInv'
<1>1. auth \in Auths /\ (auth.enabled => auth.active) /\ MaxRevision \in Nat
    BY LeaderboardConstantsOK DEF IInv, TypeOK, Auths
<1>2. /\ auth.revision < MaxRevision
      /\ auth' = [epoch |-> epoch, revision |-> auth.revision + 1, active |-> auth.active \/ enabled,
                  enabled |-> enabled, participants |-> participants]
      /\ UNCHANGED <<board, now, moves, read>>
    BY DEF Publish, boardVars
<1>3. PICK old \in Auths : old = auth
    BY <1>1
<1>4. PICK active \in BOOLEAN : active = (old.active \/ enabled)
    OBVIOUS
<1>5. /\ auth' = [epoch |-> epoch, revision |-> old.revision + 1, active |-> active,
                  enabled |-> enabled, participants |-> participants]
      /\ epoch \in 1 .. 2 /\ old.revision \in Nat /\ old.revision + 1 \in 0 .. MaxRevision
    BY <1>1, <1>2, <1>3, <1>4 DEF Auths
<1>6. auth' \in Auths
    BY <1>5 DEF Auths
<1>7. /\ auth'.revision = auth.revision + 1 /\ auth.revision \in Nat
      /\ auth'.enabled => auth'.active
      /\ auth.active => auth'.active
    BY <1>1, <1>3, <1>4, <1>5 DEF Auths
<1>8. TypeOK'
    BY <1>2, <1>6, <1>7 DEF IInv, TypeOK, Auths
<1>9. read.pc \in Reading => SnapshotOK'
    BY <1>2, <1>7 DEF IInv, ReadOK, SnapshotOK, Auths
<1>10. ReadOK'
    BY <1>2, <1>7, <1>9 DEF IInv, ReadOK, RowsTakePart, RankTakesPart, Participants, Published
<1> QED
    BY <1>2, <1>8, <1>10 DEF IInv
-----------------------------------------------------------------------------
\* A set of positive numbers that is not empty has a least element: among the intervals up to its
\* elements, one has no smaller one inside.
LEMMA LeastOne ==
    ASSUME NEW S \in SUBSET (Nat \ {0}), S # {}
    PROVE  \E m \in S : \A i \in S : m <= i
<1> DEFINE T == {1 .. i : i \in S}
<1>1. T \subseteq FiniteSubsetsOf(Nat)
    <2>1. ASSUME NEW i \in S
          PROVE  1 .. i \in FiniteSubsetsOf(Nat)
        <3>1. 1 \in Int /\ i \in Int
            OBVIOUS
        <3>2. IsFiniteSet(1 .. i)
            BY <3>1, FS_Interval
        <3> QED
            BY <3>2 DEF FiniteSubsetsOf
    <2> QED
        BY <2>1
<1>2. T # {}
    OBVIOUS
<1>3. PICK x \in T : \A y \in T : ~(<<y, x>> \in StrictSubsetOrdering(Nat))
    <2> HIDE DEF T
    <2> QED
        BY <1>1, <1>2, FS_StrictSubsetOrderingWellFounded, WFMin
<1>4. PICK m \in S : x = 1 .. m
    OBVIOUS
<1>5. ASSUME NEW i \in S
      PROVE  m <= i
    <2> SUFFICES ASSUME i < m
                 PROVE  FALSE
        OBVIOUS
    <2>1. 1 .. i \in T /\ 1 .. i \subseteq x /\ 1 .. i # x /\ x \subseteq Nat
        BY <1>4
    <2> QED
        BY <1>3, <2>1 DEF StrictSubsetOrdering
<1> QED
    BY <1>5
-----------------------------------------------------------------------------
(* Places on a board: the rank of a row counts the rows that have more points. *)

BoardOK(b) == DOMAIN b \subseteq Learners /\ \A l \in DOMAIN b : b[l].xp \in Nat
RowsOf(b, participants) == DOMAIN b \cap participants
Size(b, participants) == Cardinality(RowsOf(b, participants))
Above(b, participants, xp) == {l \in RowsOf(b, participants) : b[l].xp > xp}
Alike(b, participants, xp) == {l \in RowsOf(b, participants) : b[l].xp = xp}
Place(b, participants, xp) == Cardinality(Above(b, participants, xp)) + 1

\* A listing of a board: every row once, those with more points first.
Lists(b, participants, s) ==
    /\ s \in [1 .. Size(b, participants) -> RowsOf(b, participants)]
    /\ \A i, j \in DOMAIN s : s[i] = s[j] => i = j
    /\ \A l \in RowsOf(b, participants) : \E i \in DOMAIN s : s[i] = l
    /\ \A i, j \in DOMAIN s : i < j => b[s[j]].xp <= b[s[i]].xp

\* The rows of a board can be counted.
LEMMA Countable ==
    ASSUME NEW b, NEW participants, BoardOK(b)
    PROVE  IsFiniteSet(RowsOf(b, participants)) /\ Size(b, participants) \in Nat
<1>1. RowsOf(b, participants) \in SUBSET Learners
    BY DEF BoardOK, RowsOf
<1> QED
    BY <1>1, LeaderboardConstantsOK, FS_Subset, FS_CardinalityType DEF Size

\* What the order of the query says of points, whatever it does with equals.
LEMMA ListingsList ==
    ASSUME TypeOK, NEW participants, NEW published \in BOOLEAN, NEW s \in Listings(participants, published)
    PROVE  BoardOK(board) /\ Lists(board, participants, s)
<1> DEFINE rows == RowsOf(board, participants)
           n == Size(board, participants)
<1>1. BoardOK(board)
    BY LeaderboardConstantsOK DEF TypeOK, BoardOK
<1>2. n \in Nat /\ IsFiniteSet(rows) /\ n = Cardinality(rows) /\ rows = Rows(participants)
    BY <1>1, Countable DEF Size, RowsOf, Rows
<1>3. /\ s \in [1 .. n -> rows]
      /\ \A i, j \in 1 .. n : s[i] = s[j] => i = j
    <2>1. s \in SetToSeqs(rows)
        BY <1>2 DEF Listings
    <2> HIDE DEF n, rows
    <2>2. s \in [1 .. n -> rows]
        BY <1>2, <2>1 DEF SetToSeqs
    <2>3. \A i, j \in 1 .. n : i # j => s[i] # s[j]
        BY <1>2, <2>1 DEF SetToSeqs
    <2> QED
        BY <2>2, <2>3
<1>4. ASSUME NEW i \in 1 .. n, NEW j \in 1 .. n, i < j
      PROVE  board[s[j]].xp <= board[s[i]].xp
    <2>1. ~Ahead(s[j], s[i])
        BY <1>3, <1>4 DEF Listings, Before
    <2>2. board[s[i]].xp \in Nat /\ board[s[j]].xp \in Nat
        BY <1>1, <1>3 DEF BoardOK, RowsOf
    <2> QED
        BY <2>1, <2>2 DEF Ahead
<1>5. \A l \in rows : \E i \in 1 .. n : s[i] = l
    <2> HIDE DEF n, rows
    <2>1. s \in Injection(1 .. n, rows)
        BY <1>3 DEF Injection, IsInjective
    <2>2. IsFiniteSet(1 .. n) /\ Cardinality(1 .. n) = n
        <3>1. 1 \in Int /\ n \in Int
            BY <1>2
        <3> QED
            BY <1>2, <3>1, FS_Interval
    <2>3. s \in Surjection(1 .. n, rows)
        BY <1>2, <2>1, <2>2, FS_Injection
    <2> QED
        BY <2>3 DEF Surjection
<1> QED
    BY <1>1, <1>3, <1>4, <1>5 DEF Lists

\* As many rows as positions of theirs.
LEMMA Counted ==
    ASSUME NEW b, NEW participants, BoardOK(b), NEW s, Lists(b, participants, s), NEW I \in SUBSET (DOMAIN s)
    PROVE  IsFiniteSet(I) /\ Cardinality({s[i] : i \in I}) = Cardinality(I) /\ Cardinality(I) \in Nat
<1> DEFINE n == Size(b, participants)
           T == {s[i] : i \in I}
           f == [i \in I |-> s[i]]
<1>1. n \in Nat /\ DOMAIN s = 1 .. n
    BY Countable DEF Lists
<1>2. IsFiniteSet(I)
    <2> HIDE DEF n
    <2>1. 1 \in Int /\ n \in Int
        BY <1>1
    <2>2. IsFiniteSet(1 .. n)
        BY <2>1, FS_Interval
    <2> QED
        BY <1>1, <2>2, FS_Subset
<1>3. f \in Surjection(I, T) /\ f \in Injection(I, T)
    <2>1. f \in [I -> T] /\ \A t \in T : \E i \in I : f[i] = t
        OBVIOUS
    <2>2. \A i, k \in I : f[i] = f[k] => i = k
        BY DEF Lists
    <2> HIDE DEF f, T
    <2> QED
        BY <2>1, <2>2 DEF Surjection, Injection, IsInjective
<1> HIDE DEF f, T
<1>4. Cardinality(T) = Cardinality(I)
    BY <1>2, <1>3, FS_Surjection
<1> QED
    BY <1>2, <1>4, FS_CardinalityType DEF T

\* The place of a row in a listing is among those of its equals, and the first of them has the rank
\* of its place.
LEMMA Places ==
    ASSUME NEW b, NEW participants, BoardOK(b), NEW s, Lists(b, participants, s), NEW j \in DOMAIN s
    PROVE  LET xp == b[s[j]].xp
           IN  /\ Place(b, participants, xp) \in Nat
               /\ j \in Place(b, participants, xp)
                        .. Place(b, participants, xp) + Cardinality(Alike(b, participants, xp)) - 1
               /\ j > 1 /\ xp < b[s[j - 1]].xp => Place(b, participants, xp) = j
<1> DEFINE xp == b[s[j]].xp
           equal == {l \in RowsOf(b, participants) : b[l].xp = xp}
           above == Above(b, participants, xp)
           n == Size(b, participants)
           better == {i \in DOMAIN s : b[s[i]].xp > xp}
           atLeast == {i \in DOMAIN s : b[s[i]].xp >= xp}
<1>1. /\ n \in Nat /\ DOMAIN s = 1 .. n /\ j \in 1 .. n
      /\ \A i \in 1 .. n : s[i] \in RowsOf(b, participants) /\ b[s[i]].xp \in Nat
      /\ \A i, k \in 1 .. n : i < k => b[s[k]].xp <= b[s[i]].xp
      /\ \A l \in RowsOf(b, participants) : b[l].xp \in Nat /\ \E i \in 1 .. n : s[i] = l
    BY Countable DEF Lists, BoardOK, RowsOf
<1>2. above = {s[i] : i \in better}
    BY <1>1 DEF Above
<1>3. above \cup equal = {s[i] : i \in atLeast} /\ above \cap equal = {}
    BY <1>1 DEF Above
<1>4. better \subseteq 1 .. j - 1 /\ 1 .. j \subseteq atLeast
    <2>1. ASSUME NEW i \in better
          PROVE  i \in 1 .. j - 1
        <3>1. i \in 1 .. n /\ b[s[i]].xp > xp /\ i # j /\ ~(j < i)
            BY <1>1
        <3> QED
            BY <1>1, <3>1
    <2>2. ASSUME NEW i \in 1 .. j
          PROVE  i \in atLeast
        <3>1. i \in 1 .. n /\ (i = j \/ i < j)
            BY <1>1
        <3> QED
            BY <1>1, <3>1
    <2> QED
        BY <2>1, <2>2
<1>5. j > 1 /\ xp < b[s[j - 1]].xp => better = 1 .. j - 1
    <2> SUFFICES ASSUME j > 1, xp < b[s[j - 1]].xp, NEW i \in 1 .. j - 1
                 PROVE  b[s[i]].xp > xp
        BY <1>1, <1>4
    <2>1. j - 1 \in 1 .. n /\ i \in 1 .. n /\ b[s[j - 1]].xp <= b[s[i]].xp
        BY <1>1
    <2> QED
        BY <1>1, <2>1
<1>6. /\ IsFiniteSet(better) /\ Cardinality(above) = Cardinality(better) /\ Cardinality(better) \in Nat
      /\ IsFiniteSet(atLeast) /\ Cardinality(above \cup equal) = Cardinality(atLeast) /\ Cardinality(atLeast) \in Nat
    <2>1. better \in SUBSET (DOMAIN s) /\ atLeast \in SUBSET (DOMAIN s)
        OBVIOUS
    <2> HIDE DEF better, atLeast, above, equal
    <2>2. IsFiniteSet(better) /\ Cardinality({s[i] : i \in better}) = Cardinality(better) /\ Cardinality(better) \in Nat
        BY <2>1, Counted
    <2>3. /\ IsFiniteSet(atLeast) /\ Cardinality({s[i] : i \in atLeast}) = Cardinality(atLeast)
          /\ Cardinality(atLeast) \in Nat
        BY <2>1, Counted
    <2> QED
        BY <1>2, <1>3, <2>2, <2>3
<1>7. IsFiniteSet(above) /\ IsFiniteSet(equal)
    <2>1. above \in SUBSET RowsOf(b, participants) /\ equal \in SUBSET RowsOf(b, participants)
        BY DEF Above
    <2> HIDE DEF above, equal
    <2> QED
        BY <2>1, Countable, FS_Subset
<1>8. Cardinality(above \cup equal) = Cardinality(above) + Cardinality(equal) /\ Cardinality(equal) \in Nat
    <2> HIDE DEF above, equal
    <2>1. Cardinality(above \cup equal) = Cardinality(above) + Cardinality(equal) - Cardinality(above \cap equal)
        BY <1>7, FS_Union
    <2>2. Cardinality(above \cap equal) = 0
        BY <1>3, FS_EmptySet
    <2> QED
        BY <1>6, <1>7, <2>1, <2>2, FS_CardinalityType
<1>9. IsFiniteSet(1 .. j - 1) /\ Cardinality(1 .. j - 1) = j - 1 /\ Cardinality(1 .. j) = j
    <2> DEFINE k == j - 1
    <2>1. 1 \in Int /\ j \in Int /\ k \in Int
        BY <1>1
    <2> HIDE DEF k
    <2>2. /\ IsFiniteSet(1 .. k) /\ Cardinality(1 .. k) = IF 1 > k THEN 0 ELSE k - 1 + 1
          /\ Cardinality(1 .. j) = IF 1 > j THEN 0 ELSE j - 1 + 1
        BY <2>1, FS_Interval
    <2> QED
        BY <1>1, <2>2 DEF k
<1>10. Cardinality(better) <= j - 1 /\ j <= Cardinality(atLeast)
    <2> HIDE DEF better, atLeast
    <2> QED
        BY <1>4, <1>6, <1>9, FS_Subset
<1>11. Place(b, participants, xp) = Cardinality(better) + 1
    BY <1>6 DEF Place
<1>12. j \in Place(b, participants, xp) .. Place(b, participants, xp) + Cardinality(equal) - 1
    <2> HIDE DEF better, atLeast, above, equal, xp, n
    <2> QED
        BY <1>1, <1>6, <1>8, <1>10, <1>11
<1>13. j > 1 /\ xp < b[s[j - 1]].xp => Place(b, participants, xp) = j
    <2> SUFFICES ASSUME better = 1 .. j - 1
                 PROVE  Place(b, participants, xp) = j
        BY <1>5
    <2> HIDE DEF better
    <2> QED
        BY <1>1, <1>9, <1>11
<1> QED
    BY <1>6, <1>11, <1>12, <1>13 DEF Alike
-----------------------------------------------------------------------------
(* Pages of a listing, and the ranks that are written into them. *)

Window(n, offset) == Cardinality({m \in 1 .. n : m \in offset + 1 .. offset + Limit})
Plain(b, participants, s, offset) ==
    [i \in 1 .. Window(Size(b, participants), offset) |-> [user |-> s[offset + i], xp |-> b[s[offset + i]].xp]]
Ranked(b, participants, s, offset) ==
    [i \in 1 .. Window(Size(b, participants), offset) |->
        [user |-> s[offset + i], xp |-> b[s[offset + i]].xp,
         rank |-> Place(b, participants, b[s[offset + i]].xp)]]

\* The rows of a page are those that follow its offset.
LEMMA Windows ==
    ASSUME NEW n \in Nat, NEW offset \in Nat
    PROVE  /\ Window(n, offset) = IF n <= offset THEN 0
                                  ELSE IF n <= offset + Limit THEN n - offset ELSE Limit
           /\ Window(n, offset) \in Nat
           /\ \A i \in 1 .. Window(n, offset) : offset + i \in 1 .. n
<1> DEFINE window == {m \in 1 .. n : m \in offset + 1 .. offset + Limit}
           first == offset + 1
           top == IF n <= offset + Limit THEN n ELSE offset + Limit
<1>1. Limit \in Nat \ {0}
    BY LeaderboardConstantsOK
<1>2. first \in Int /\ top \in Int /\ first = offset + 1
    BY <1>1
<1>3. window = first .. top
    BY <1>1
<1> HIDE DEF first
<1>4. Cardinality(window) = IF first > top THEN 0 ELSE top - first + 1
    <2> HIDE DEF top, window
    <2> QED
        BY <1>2, <1>3, FS_Interval
<1>5. Window(n, offset) = IF first > top THEN 0 ELSE top - first + 1
    BY <1>4 DEF Window
<1> QED
    BY <1>1, <1>2, <1>5

\* A page is the part of a listing that follows its offset.
LEMMA PageIsPlain ==
    ASSUME NEW participants, NEW s, Lists(board, participants, s), NEW offset
    PROVE  Page(s, offset) = Plain(board, participants, s, offset)
<1>1. DOMAIN s = 1 .. Size(board, participants)
    BY DEF Lists
<1> QED
    BY <1>1 DEF Page, Plain, Window

\* What the loop over the rows has at a row follows from what it had at the one before.
Follows(g, n, rows, offset, first) ==
    g = [i \in 1 .. n |-> IF i = 1 THEN first ELSE IF rows[i].xp < rows[i - 1].xp THEN offset + i ELSE g[i - 1]]

\* That determines what it writes.
LEMMA RanksFollow ==
    ASSUME NEW n \in Nat, NEW rows, DOMAIN rows = 1 .. n, NEW offset, NEW first, NEW g,
           Follows(g, n, rows, offset, first)
    PROVE  Ranks(rows, offset, first) = [i \in 1 .. n |-> [user |-> rows[i].user, xp |-> rows[i].xp, rank |-> g[i]]]
<1> DEFINE Solves(h) == h = [i \in DOMAIN rows |-> IF i = 1 THEN first
                              ELSE IF rows[i].xp < rows[i - 1].xp THEN offset + i ELSE h[i - 1]]
           rank == CHOOSE h : Solves(h)
<1>1. Ranks(rows, offset, first) =
          [i \in DOMAIN rows |-> [user |-> rows[i].user, xp |-> rows[i].xp, rank |-> rank[i]]]
    BY DEF Ranks
<1>2. Solves(g)
    BY DEF Follows
<1>3. Solves(rank)
    <2> HIDE DEF Solves
    <2> QED
        BY <1>2
<1> HIDE DEF rank
<1>4. ASSUME NEW i \in 1 .. n, rank[i] # g[i]
      PROVE  FALSE
    <2> DEFINE differ == {k \in 1 .. n : rank[k] # g[k]}
    <2>1. differ \in SUBSET (Nat \ {0}) /\ differ # {}
        BY <1>4
    <2>2. PICK k \in differ : \A m \in differ : k <= m
        <3> HIDE DEF differ
        <3> QED
            BY <2>1, LeastOne
    <2>3. k \in 1 .. n /\ rank[k] # g[k]
        OBVIOUS
    <2>4. CASE k = 1
        BY <1>2, <1>3, <2>3, <2>4
    <2>5. CASE k # 1
        <3>1. k - 1 \in 1 .. n /\ k - 1 \notin differ
            BY <2>2, <2>3, <2>5
        <3>2. rank[k - 1] = g[k - 1]
            BY <3>1
        <3> QED
            BY <1>2, <1>3, <2>3, <2>5, <3>2
    <2> QED
        BY <2>4, <2>5
<1> QED
    BY <1>1, <1>4

\* With the place of its first row, a page gets the place of every row.
LEMMA RankedPage ==
    ASSUME NEW b, NEW participants, BoardOK(b), NEW s, Lists(b, participants, s), NEW offset \in Nat, NEW first,
           Window(Size(b, participants), offset) # 0 => first = Place(b, participants, b[s[offset + 1]].xp)
    PROVE  Ranks(Plain(b, participants, s, offset), offset, first) = Ranked(b, participants, s, offset)
<1>0. \A j \in DOMAIN s : \A h : h = j - 1 /\ j > 1 /\ b[s[j]].xp < b[s[h]].xp => Place(b, participants, b[s[j]].xp) = j
    <2> SUFFICES ASSUME NEW j \in DOMAIN s, j > 1, b[s[j]].xp < b[s[j - 1]].xp
                 PROVE  Place(b, participants, b[s[j]].xp) = j
        OBVIOUS
    <2> QED
        BY Places
<1> DEFINE n == Window(Size(b, participants), offset)
           rows == Plain(b, participants, s, offset)
           g == [i \in 1 .. n |-> Place(b, participants, rows[i].xp)]
<1>1. n \in Nat /\ \A i \in 1 .. n : offset + i \in DOMAIN s
    BY Countable, Windows DEF Lists
<1>2. rows = [i \in 1 .. n |-> [user |-> s[offset + i], xp |-> b[s[offset + i]].xp]]
    BY DEF Plain
<1> HIDE DEF n, rows
<1>3. \A i \in 1 .. n : rows[i].user = s[offset + i] /\ rows[i].xp = b[s[offset + i]].xp
    BY <1>2
<1>4. DOMAIN rows = 1 .. n
    BY <1>2
<1>5. ASSUME NEW i \in 1 .. n
      PROVE  Place(b, participants, rows[i].xp) =
                 IF i = 1 THEN first
                 ELSE IF rows[i].xp < rows[i - 1].xp THEN offset + i ELSE Place(b, participants, rows[i - 1].xp)
    <2>1. CASE i = 1
        BY <1>1, <1>3, <2>1 DEF n
    <2>2. CASE i # 1
        <3>1. /\ i - 1 \in 1 .. n /\ offset + i \in DOMAIN s /\ offset + i > 1
              /\ (offset + i) - 1 = offset + (i - 1) /\ offset + (i - 1) \in DOMAIN s
              /\ offset + (i - 1) < offset + i
            BY <1>1, <2>2
        <3>2. /\ rows[i].xp = b[s[offset + i]].xp
              /\ rows[i - 1].xp = b[s[offset + (i - 1)]].xp
            BY <1>3, <3>1
        <3>3. rows[i].xp < rows[i - 1].xp => Place(b, participants, rows[i].xp) = offset + i
            <4>1. PICK j \in DOMAIN s : j = offset + i
                BY <3>1
            <4>2. PICK h : h = offset + (i - 1)
                OBVIOUS
            <4>3. j > 1 /\ h = j - 1
                BY <3>1, <4>1, <4>2
            <4>4. b[s[j]].xp < b[s[h]].xp => Place(b, participants, b[s[j]].xp) = j
                BY <1>0, <4>3
            <4>5. rows[i].xp = b[s[j]].xp /\ rows[i - 1].xp = b[s[h]].xp
                BY <3>2, <4>1, <4>2
            <4> QED
                BY <4>1, <4>4, <4>5
        <3>4. rows[i].xp <= rows[i - 1].xp /\ rows[i].xp \in Nat /\ rows[i - 1].xp \in Nat
            BY <3>1, <3>2 DEF Lists, BoardOK, RowsOf
        <3>5. rows[i].xp < rows[i - 1].xp \/ rows[i].xp = rows[i - 1].xp
            BY <3>4
        <3> QED
            BY <2>2, <3>3, <3>4, <3>5
    <2> QED
        BY <2>1, <2>2
<1>6. g = [i \in 1 .. n |-> IF i = 1 THEN first
                            ELSE IF rows[i].xp < rows[i - 1].xp THEN offset + i ELSE g[i - 1]]
    <2>1. ASSUME NEW i \in 1 .. n
          PROVE  g[i] = IF i = 1 THEN first
                        ELSE IF rows[i].xp < rows[i - 1].xp THEN offset + i ELSE g[i - 1]
        <3>1. i # 1 => i - 1 \in 1 .. n
            BY <1>1
        <3> QED
            BY <1>5, <3>1
    <2> QED
        BY <2>1
<1>7. \A i \in 1 .. n : g[i] = Place(b, participants, rows[i].xp)
    OBVIOUS
<1> HIDE DEF g
<1>8. Ranks(rows, offset, first) = [i \in 1 .. n |-> [user |-> rows[i].user, xp |-> rows[i].xp, rank |-> g[i]]]
    <2>1. Follows(g, n, rows, offset, first)
        BY <1>6 DEF Follows
    <2> QED
        BY <1>1, <1>4, <2>1, RanksFollow
<1>9. Ranked(b, participants, s, offset) =
          [i \in 1 .. n |-> [user |-> s[offset + i], xp |-> b[s[offset + i]].xp,
                             rank |-> Place(b, participants, b[s[offset + i]].xp)]]
    BY DEF Ranked, n
<1> QED
    BY <1>3, <1>7, <1>8, <1>9 DEF rows

\* A page lists rows of the board that take part.
LEMMA PageOK ==
    ASSUME TypeOK, NEW participants, NEW published \in BOOLEAN, NEW s \in Listings(participants, published),
           NEW offset \in Nat
    PROVE  \A i \in DOMAIN Page(s, offset) : Page(s, offset)[i].user \in participants
<1> DEFINE n == Size(board, participants)
<1>1. BoardOK(board) /\ Lists(board, participants, s) /\ n \in Nat
    BY ListingsList, Countable
<1>2. Page(s, offset) = Plain(board, participants, s, offset)
    BY <1>1, PageIsPlain
<1>3. \A i \in 1 .. Window(n, offset) : offset + i \in 1 .. n
    BY <1>1, Windows
<1>4. \A k \in 1 .. n : s[k] \in participants
    BY <1>1 DEF Lists, RowsOf
<1> QED
    BY <1>2, <1>3, <1>4 DEF Plain

\* The ranks of a page are those of its rows.
LEMMA RanksOK ==
    ASSUME NEW rows, NEW offset, NEW first
    PROVE  /\ DOMAIN Ranks(rows, offset, first) = DOMAIN rows
           /\ \A i \in DOMAIN rows : Ranks(rows, offset, first)[i].user = rows[i].user
    BY DEF Ranks
-----------------------------------------------------------------------------
\* A step of the request sets the fields it names and no others.
LEMMA StepEffect ==
    ASSUME IInv, NEW change, DOMAIN change \subseteq Fields, Step(change)
    PROVE  /\ UNCHANGED <<board, now, moves, auth>>
           /\ DOMAIN read' = Fields
           /\ \A f \in Fields : read'[f] = IF f \in DOMAIN change THEN change[f] ELSE read[f]
           /\ TypeOK'
<1>1. DOMAIN read = Fields
    BY DEF IInv, ReadOK
<1>2. UNCHANGED <<board, now, moves, auth>>
    BY DEF Step, boardVars
<1>3. /\ DOMAIN read' = Fields
      /\ \A f \in Fields : read'[f] = IF f \in DOMAIN change THEN change[f] ELSE read[f]
    BY <1>1 DEF Step
<1>4. TypeOK'
    BY <1>2, <1>3, IdleFields DEF IInv, TypeOK
<1> QED
    BY <1>2, <1>3, <1>4

\* A request ends with nothing in hand.
LEMMA EndStep ==
    ASSUME IInv, Step(Idle)
    PROVE  IInv'
<1>1. DOMAIN Idle = Fields /\ Idle.pc = "idle" /\ Idle.rows = <<>>
    BY IdleFields DEF Idle
<1>2. DOMAIN read' = Fields /\ read'.pc = "idle" /\ read'.rows = <<>> /\ TypeOK' /\ UNCHANGED <<now, moves>>
    BY <1>1, StepEffect DEF Fields
<1>3. ReadOK'
    BY <1>2 DEF ReadOK, Reading
<1> QED
    BY <1>2, <1>3 DEF IInv

\* A request begins with what it asks and whether the policy was active then.
LEMMA AskStep ==
    ASSUME IInv, NEW ask \in Asks, NEW flag \in BOOLEAN, Ask(ask, flag)
    PROVE  IInv'
<1> DEFINE pc == IF ask.epoch = None THEN "route" ELSE "snapshot"
           change == [pc |-> pc, ask |-> ask, flag |-> flag, try |-> 1, begun |-> auth.active]
<1>1. Step(change) /\ read.pc = "idle" /\ read.rows = <<>>
    BY DEF Ask, IInv, ReadOK
<1>2. DOMAIN change = {"pc", "ask", "flag", "try", "begun"}
    OBVIOUS
<1>3. change.pc = pc /\ change.ask = ask /\ change.begun = auth.active
    OBVIOUS
<1> HIDE DEF change
<1>4. UNCHANGED <<board, now, moves, auth>> /\ TypeOK' /\ DOMAIN read' = Fields
    BY <1>1, <1>2, StepEffect DEF Fields
<1>5. read'.pc = pc /\ read'.ask = ask /\ read'.begun = auth.active /\ read'.rows = <<>>
    BY <1>1, <1>2, <1>3, StepEffect DEF Fields
<1>6. ask.page \in BOOLEAN /\ ask.offset \in Nat
    <2>1. CASE ask \in [page : {TRUE}, offset : {0, Limit}, user : {None}, epoch : {None, 1}]
        <3>1. ask.page \in {TRUE} /\ ask.offset \in {0, Limit}
            BY <2>1
        <3>2. ask.page = TRUE
            BY <3>1
        <3>3. ask.offset \in Nat
            BY <3>1, LeaderboardConstantsOK
        <3> QED
            BY <3>2, <3>3
    <2>2. CASE ask \in [page : {FALSE}, offset : {0}, user : Learners, epoch : {None, 1}]
        <3>1. ask.page \in {FALSE} /\ ask.offset \in {0}
            BY <2>2
        <3>2. ask.page = FALSE
            BY <3>1
        <3>3. ask.offset \in Nat
            BY <3>1
        <3> QED
            BY <3>2, <3>3
    <2> QED
        BY <2>1, <2>2 DEF Asks
<1>7. ReadOK'
    BY <1>4, <1>5, <1>6 DEF ReadOK, Reading
<1> QED
    BY <1>4, <1>7 DEF IInv

\* A request is answered from the boards of before only while the policy is not active.
LEMMA RouteStep ==
    ASSUME IInv, Route
    PROVE  IInv'
<1>1. read.pc = "route" /\ ReadOK /\ TypeOK /\ now <= moves
    BY DEF Route, IInv
<1>2. ASSUME Legacy(auth, read.flag), Step([pc |-> "rows", snapshot |-> Everyone])
      PROVE  IInv'
    <2> DEFINE change == [pc |-> "rows", snapshot |-> Everyone]
    <2>a. Step(change)
        BY <1>2
    <2>b. DOMAIN change = {"pc", "snapshot"}
        OBVIOUS
    <2>c. change.pc = "rows" /\ change.snapshot = Everyone
        OBVIOUS
    <2> HIDE DEF change
    <2>d. UNCHANGED <<board, now, moves, auth>> /\ TypeOK' /\ DOMAIN read' = Fields
        BY <2>a, <2>b, StepEffect DEF Fields
    <2>e. /\ read'.pc = "rows" /\ read'.snapshot = Everyone
          /\ read'.ask = read.ask /\ read'.rows = read.rows /\ read'.rank = read.rank
          /\ read'.begun = read.begun /\ read'.consented = read.consented
        BY <2>a, <2>b, <2>c, StepEffect DEF Fields
    <2>f. ~read.begun
        BY <1>1, <1>2 DEF Legacy, ReadOK
    <2>g. ReadOK'
        BY <1>1, <2>d, <2>e, <2>f DEF ReadOK, Reading, SnapshotOK, RowsTakePart, RankTakesPart, Participants,
           Published
    <2> QED
        BY <1>1, <2>d, <2>g DEF IInv
<1>3. ASSUME Step([pc |-> "snapshot"])
      PROVE  IInv'
    <2> DEFINE change == [pc |-> "snapshot"]
    <2>a. Step(change)
        BY <1>3
    <2>b. DOMAIN change = {"pc"}
        OBVIOUS
    <2>c. change.pc = "snapshot"
        OBVIOUS
    <2> HIDE DEF change
    <2>d. UNCHANGED <<board, now, moves, auth>> /\ TypeOK' /\ DOMAIN read' = Fields
        BY <2>a, <2>b, StepEffect DEF Fields
    <2>e. /\ read'.pc = "snapshot"
          /\ read'.ask = read.ask /\ read'.snapshot = read.snapshot /\ read'.rows = read.rows
          /\ read'.rank = read.rank /\ read'.begun = read.begun /\ read'.consented = read.consented
        BY <2>a, <2>b, <2>c, StepEffect DEF Fields
    <2>g. ReadOK'
        BY <1>1, <2>d, <2>e DEF ReadOK, Reading, SnapshotOK, RowsTakePart, RankTakesPart, Participants,
           Published
    <2> QED
        BY <1>1, <2>d, <2>g DEF IInv
<1> QED
    BY <1>2, <1>3 DEF Route

\* A snapshot is the publication as it is.
LEMMA SnapshotStep ==
    ASSUME IInv, CurrentSnapshot
    PROVE  IInv'
<1>1. read.pc = "snapshot" /\ ReadOK /\ TypeOK /\ now <= moves
    BY DEF CurrentSnapshot, IInv
<1>2. auth \in Auths /\ auth # Everyone /\ auth.revision <= auth.revision
    BY <1>1, AuthIsNotEveryone, LeaderboardConstantsOK DEF TypeOK, Auths
<1>3. ASSUME Step([pc |-> "rows", snapshot |-> auth])
      PROVE  IInv'
    <2> DEFINE change == [pc |-> "rows", snapshot |-> auth]
    <2>a. Step(change)
        BY <1>3
    <2>b. DOMAIN change = {"pc", "snapshot"}
        OBVIOUS
    <2>c. change.pc = "rows" /\ change.snapshot = auth
        OBVIOUS
    <2> HIDE DEF change
    <2>d. UNCHANGED <<board, now, moves, auth>> /\ TypeOK' /\ DOMAIN read' = Fields
        BY <2>a, <2>b, StepEffect DEF Fields
    <2>e. /\ read'.pc = "rows" /\ read'.snapshot = auth
          /\ read'.ask = read.ask /\ read'.rows = read.rows /\ read'.rank = read.rank
          /\ read'.begun = read.begun /\ read'.consented = read.consented
        BY <2>a, <2>b, <2>c, StepEffect DEF Fields
    <2>g. ReadOK'
        BY <1>1, <1>2, <2>d, <2>e DEF ReadOK, Reading, SnapshotOK, RowsTakePart, RankTakesPart, Participants,
           Published
    <2> QED
        BY <1>1, <2>d, <2>g DEF IInv
<1> QED
    BY <1>3, EndStep DEF CurrentSnapshot

\* A page is read in three statements, all of them over the rows that take part.
LEMMA PageSteps ==
    ASSUME IInv, GetLeaderboard \/ RankFirst \/ Count
    PROVE  IInv'
<1>1. ReadOK /\ TypeOK /\ now <= moves
    BY DEF IInv
<1>2. ASSUME GetLeaderboard
      PROVE  IInv'
    <2>1. PICK s \in Listings(Participants, Published) :
              Step([pc |-> "first", rows |-> Page(s, read.ask.offset), boards |-> {board}])
        BY <1>2 DEF GetLeaderboard
    <2>2. read.pc = "rows" /\ read.ask.page
        BY <1>2 DEF GetLeaderboard
    <2> DEFINE change == [pc |-> "first", rows |-> Page(s, read.ask.offset), boards |-> {board}]
    <2>a. Step(change)
        BY <2>1
    <2>b. DOMAIN change = {"pc", "rows", "boards"}
        OBVIOUS
    <2>c. change.pc = "first" /\ change.rows = Page(s, read.ask.offset)
        OBVIOUS
    <2> HIDE DEF change
    <2>d. UNCHANGED <<board, now, moves, auth>> /\ TypeOK' /\ DOMAIN read' = Fields
        BY <2>a, <2>b, StepEffect DEF Fields
    <2>e. /\ read'.pc = "first" /\ read'.rows = Page(s, read.ask.offset)
          /\ read'.ask = read.ask /\ read'.snapshot = read.snapshot /\ read'.rank = read.rank
          /\ read'.begun = read.begun /\ read'.consented = read.consented
        BY <2>a, <2>b, <2>c, StepEffect DEF Fields
    <2>f. \A i \in DOMAIN Page(s, read.ask.offset) : Page(s, read.ask.offset)[i].user \in Participants
        <3>1. Published \in BOOLEAN /\ read.ask.offset \in Nat
            BY <1>1, <2>2 DEF Published, ReadOK
        <3> QED
            BY <1>1, <3>1, PageOK
    <2>g. ReadOK'
        BY <1>1, <2>2, <2>d, <2>e, <2>f DEF ReadOK, Reading, SnapshotOK, RowsTakePart, RankTakesPart,
           Participants, Published
    <2> QED
        BY <1>1, <2>d, <2>g DEF IInv
<1>3. ASSUME RankFirst
      PROVE  IInv'
    <2> DEFINE first == IF read.rows = <<>> THEN 0 ELSE read.rows[1].xp
               ranked == Ranks(read.rows, read.ask.offset, RankOf(first, Participants))
    <2>1. Step([pc |-> "count", boards |-> Saw, rows |-> ranked])
        BY <1>3 DEF RankFirst
    <2>2. read.pc = "first"
        BY <1>3 DEF RankFirst
    <2>3. DOMAIN ranked = DOMAIN read.rows /\ \A i \in DOMAIN read.rows : ranked[i].user = read.rows[i].user
        BY RanksOK
    <2> HIDE DEF first, ranked
    <2> DEFINE change == [pc |-> "count", boards |-> Saw, rows |-> ranked]
    <2>a. Step(change)
        BY <2>1
    <2>b. DOMAIN change = {"pc", "boards", "rows"}
        OBVIOUS
    <2>c. change.pc = "count" /\ change.rows = ranked
        OBVIOUS
    <2> HIDE DEF change
    <2>d. UNCHANGED <<board, now, moves, auth>> /\ TypeOK' /\ DOMAIN read' = Fields
        BY <2>a, <2>b, StepEffect DEF Fields
    <2>e. /\ read'.pc = "count" /\ read'.rows = ranked
          /\ read'.ask = read.ask /\ read'.snapshot = read.snapshot /\ read'.rank = read.rank
          /\ read'.begun = read.begun /\ read'.consented = read.consented
        BY <2>a, <2>b, <2>c, StepEffect DEF Fields
    <2>g. ReadOK'
        BY <1>1, <2>2, <2>3, <2>d, <2>e DEF ReadOK, Reading, SnapshotOK, RowsTakePart, RankTakesPart,
           Participants, Published
    <2> QED
        BY <1>1, <2>d, <2>g DEF IInv
<1>4. ASSUME Count
      PROVE  IInv'
    <2> DEFINE pc == IF Published THEN "reread" ELSE "shown"
    <2>1. Step([pc |-> pc, boards |-> Saw, total |-> CountUsers(Participants)])
        BY <1>4 DEF Count
    <2>2. read.pc = "count"
        BY <1>4 DEF Count
    <2> DEFINE change == [pc |-> pc, boards |-> Saw, total |-> CountUsers(Participants)]
    <2>a. Step(change)
        BY <2>1
    <2>b. DOMAIN change = {"pc", "boards", "total"}
        OBVIOUS
    <2>c. change.pc = pc
        OBVIOUS
    <2> HIDE DEF change
    <2>d. UNCHANGED <<board, now, moves, auth>> /\ TypeOK' /\ DOMAIN read' = Fields
        BY <2>a, <2>b, StepEffect DEF Fields
    <2>e. /\ read'.pc = pc
          /\ read'.ask = read.ask /\ read'.snapshot = read.snapshot /\ read'.rows = read.rows
          /\ read'.rank = read.rank /\ read'.begun = read.begun /\ read'.consented = read.consented
        BY <2>a, <2>b, <2>c, StepEffect DEF Fields
    <2>g. ReadOK'
        BY <1>1, <2>2, <2>d, <2>e DEF ReadOK, Reading, SnapshotOK, RowsTakePart, RankTakesPart, Participants,
           Published
    <2> QED
        BY <1>1, <2>d, <2>g DEF IInv
<1> QED
    BY <1>2, <1>3, <1>4

\* A learner's points are read, then whether they take part, then their rank.
LEMMA RankSteps ==
    ASSUME IInv, ReadXP \/ Exists \/ OwnRank
    PROVE  IInv'
<1>1. ReadOK /\ TypeOK /\ now <= moves
    BY DEF IInv
<1>2. ASSUME ReadXP
      PROVE  IInv'
    <2> DEFINE pc == IF Published THEN "exists" ELSE "rank"
    <2>1. Step([pc |-> pc, boards |-> {board}, total |-> GetUserXP(read.ask.user)])
        BY <1>2 DEF ReadXP
    <2>2. read.pc = "rows" /\ ~read.ask.page
        BY <1>2 DEF ReadXP
    <2> DEFINE change == [pc |-> pc, boards |-> {board}, total |-> GetUserXP(read.ask.user)]
    <2>a. Step(change)
        BY <2>1
    <2>b. DOMAIN change = {"pc", "boards", "total"}
        OBVIOUS
    <2>c. change.pc = pc
        OBVIOUS
    <2> HIDE DEF change
    <2>d. UNCHANGED <<board, now, moves, auth>> /\ TypeOK' /\ DOMAIN read' = Fields
        BY <2>a, <2>b, StepEffect DEF Fields
    <2>e. /\ read'.pc = pc
          /\ read'.ask = read.ask /\ read'.snapshot = read.snapshot /\ read'.rows = read.rows
          /\ read'.rank = read.rank /\ read'.begun = read.begun /\ read'.consented = read.consented
        BY <2>a, <2>b, <2>c, StepEffect DEF Fields
    <2>g. ReadOK'
        BY <1>1, <2>2, <2>d, <2>e DEF ReadOK, Reading, SnapshotOK, RowsTakePart, RankTakesPart, Participants,
           Published
    <2> QED
        BY <1>1, <2>d, <2>g DEF IInv
<1>3. ASSUME Exists, read.ask.user \in Rows(Participants)
      PROVE  IInv'
    <2>1. Step([pc |-> "rank", boards |-> Saw])
        BY <1>3 DEF Exists
    <2>2. read.pc = "exists" /\ read.ask.user \in Participants
        BY <1>3 DEF Exists, Rows
    <2> DEFINE change == [pc |-> "rank", boards |-> Saw]
    <2>a. Step(change)
        BY <2>1
    <2>b. DOMAIN change = {"pc", "boards"}
        OBVIOUS
    <2>c. change.pc = "rank"
        OBVIOUS
    <2> HIDE DEF change
    <2>d. UNCHANGED <<board, now, moves, auth>> /\ TypeOK' /\ DOMAIN read' = Fields
        BY <2>a, <2>b, StepEffect DEF Fields
    <2>e. /\ read'.pc = "rank"
          /\ read'.ask = read.ask /\ read'.snapshot = read.snapshot /\ read'.rows = read.rows
          /\ read'.rank = read.rank /\ read'.begun = read.begun /\ read'.consented = read.consented
        BY <2>a, <2>b, <2>c, StepEffect DEF Fields
    <2>g. ReadOK'
        BY <1>1, <2>2, <2>d, <2>e DEF ReadOK, Reading, SnapshotOK, RowsTakePart, RankTakesPart, Participants,
           Published
    <2> QED
        BY <1>1, <2>d, <2>g DEF IInv
<1>4. ASSUME Exists, read.ask.user \notin Rows(Participants)
      PROVE  IInv'
    <2> DEFINE saw == IF read.ask.user \in Participants THEN Saw ELSE read.boards
    <2>1. Step([pc |-> "reread", rank |-> None, boards |-> saw])
        BY <1>4 DEF Exists
    <2>2. read.pc = "exists"
        BY <1>4 DEF Exists
    <2> DEFINE change == [pc |-> "reread", rank |-> None, boards |-> saw]
    <2>a. Step(change)
        BY <2>1
    <2>b. DOMAIN change = {"pc", "rank", "boards"}
        OBVIOUS
    <2>c. change.pc = "reread" /\ change.rank = None
        OBVIOUS
    <2> HIDE DEF change
    <2>d. UNCHANGED <<board, now, moves, auth>> /\ TypeOK' /\ DOMAIN read' = Fields
        BY <2>a, <2>b, StepEffect DEF Fields
    <2>e. /\ read'.pc = "reread" /\ read'.rank = None
          /\ read'.ask = read.ask /\ read'.snapshot = read.snapshot /\ read'.rows = read.rows
          /\ read'.begun = read.begun /\ read'.consented = read.consented
        BY <2>a, <2>b, <2>c, StepEffect DEF Fields
    <2>g. ReadOK'
        BY <1>1, <2>2, <2>d, <2>e DEF ReadOK, Reading, SnapshotOK, RowsTakePart, RankTakesPart, Participants,
           Published
    <2> QED
        BY <1>1, <2>d, <2>g DEF IInv
<1>5. ASSUME OwnRank
      PROVE  IInv'
    <2> DEFINE pc == IF Published THEN "reread" ELSE "shown"
               rank == RankOf(read.total, Participants)
    <2>1. Step([pc |-> pc, boards |-> Saw, rank |-> rank])
        BY <1>5 DEF OwnRank
    <2>2. read.pc = "rank"
        BY <1>5 DEF OwnRank
    <2> HIDE DEF rank
    <2> DEFINE change == [pc |-> pc, boards |-> Saw, rank |-> rank]
    <2>a. Step(change)
        BY <2>1
    <2>b. DOMAIN change = {"pc", "boards", "rank"}
        OBVIOUS
    <2>c. change.pc = pc /\ change.rank = rank
        OBVIOUS
    <2> HIDE DEF change
    <2>d. UNCHANGED <<board, now, moves, auth>> /\ TypeOK' /\ DOMAIN read' = Fields
        BY <2>a, <2>b, StepEffect DEF Fields
    <2>e. /\ read'.pc = pc /\ read'.rank = rank
          /\ read'.ask = read.ask /\ read'.snapshot = read.snapshot /\ read'.rows = read.rows
          /\ read'.begun = read.begun /\ read'.consented = read.consented
        BY <2>a, <2>b, <2>c, StepEffect DEF Fields
    <2>g. ReadOK'
        BY <1>1, <2>2, <2>d, <2>e DEF ReadOK, Reading, SnapshotOK, RowsTakePart, RankTakesPart, Participants,
           Published
    <2> QED
        BY <1>1, <2>d, <2>g DEF IInv
<1> QED
    BY <1>2, <1>3, <1>4, <1>5

\* What is shown was read of the publication that the auth service has at the second look.
LEMMA RereadStep ==
    ASSUME IInv, Reread
    PROVE  IInv'
<1>1. ReadOK /\ TypeOK /\ now <= moves /\ read.pc = "reread"
    BY DEF IInv, Reread
<1>2. ASSUME SameEpoch(auth, read.snapshot), Step([pc |-> "shown", consented |-> auth.participants])
      PROVE  IInv'
    <2>1. Published => Participants = auth.participants
        <3> SUFFICES ASSUME Published
                     PROVE  Participants = auth.participants
            OBVIOUS
        <3>1. read.snapshot \in Auths /\ auth \in Auths
            BY <1>1 DEF ReadOK, Reading, SnapshotOK, Published, TypeOK, Auths
        <3>2. read.snapshot.revision = auth.revision
            BY <1>2, <3>1 DEF SameEpoch, Auths
        <3> QED
            BY <1>1, <3>2 DEF ReadOK, Reading, SnapshotOK, Published, Participants
    <2> DEFINE change == [pc |-> "shown", consented |-> auth.participants]
    <2>a. Step(change)
        BY <1>2
    <2>b. DOMAIN change = {"pc", "consented"}
        OBVIOUS
    <2>c. change.pc = "shown" /\ change.consented = auth.participants
        OBVIOUS
    <2> HIDE DEF change
    <2>d. UNCHANGED <<board, now, moves, auth>> /\ TypeOK' /\ DOMAIN read' = Fields
        BY <2>a, <2>b, StepEffect DEF Fields
    <2>e. /\ read'.pc = "shown" /\ read'.consented = auth.participants
          /\ read'.ask = read.ask /\ read'.snapshot = read.snapshot /\ read'.rows = read.rows
          /\ read'.rank = read.rank /\ read'.begun = read.begun
        BY <2>a, <2>b, <2>c, StepEffect DEF Fields
    <2>g. ReadOK'
        BY <1>1, <2>1, <2>d, <2>e DEF ReadOK, Reading, SnapshotOK, RowsTakePart, RankTakesPart, Participants,
           Published
    <2> QED
        BY <1>1, <2>d, <2>g DEF IInv
<1>3. ASSUME Step([pc |-> "snapshot", try |-> 2])
      PROVE  IInv'
    <2> DEFINE change == [pc |-> "snapshot", try |-> 2]
    <2>a. Step(change)
        BY <1>3
    <2>b. DOMAIN change = {"pc", "try"}
        OBVIOUS
    <2>c. change.pc = "snapshot"
        OBVIOUS
    <2> HIDE DEF change
    <2>d. UNCHANGED <<board, now, moves, auth>> /\ TypeOK' /\ DOMAIN read' = Fields
        BY <2>a, <2>b, StepEffect DEF Fields
    <2>e. /\ read'.pc = "snapshot"
          /\ read'.ask = read.ask /\ read'.snapshot = read.snapshot /\ read'.rows = read.rows
          /\ read'.rank = read.rank /\ read'.begun = read.begun /\ read'.consented = read.consented
        BY <2>a, <2>b, <2>c, StepEffect DEF Fields
    <2>g. ReadOK'
        BY <1>1, <2>d, <2>e DEF ReadOK, Reading, SnapshotOK, RowsTakePart, RankTakesPart, Participants,
           Published
    <2> QED
        BY <1>1, <2>d, <2>g DEF IInv
<1> QED
    BY <1>2, <1>3, EndStep DEF Reread

\* The inductive invariant is kept by every step.
LEMMA Invariance == IInv /\ [Next]_vars => IInv'
<1> SUFFICES ASSUME IInv, [Next]_vars
             PROVE  IInv'
    OBVIOUS
<1>1. CASE \E l \in Learners : AddXP(l) \/ Erase(l) \/ \E xp \in 0 .. MaxXP : UpdateXP(l, xp)
    BY <1>1, RowsStep
<1>2. CASE \E participants \in SUBSET Learners, enabled \in BOOLEAN, epoch \in {auth.epoch, 2} :
              Publish(participants, enabled, epoch)
    BY <1>2, PublishStep
<1>3. CASE \E ask \in Asks, flag \in BOOLEAN : Ask(ask, flag)
    BY <1>3, AskStep
<1>4. CASE Unavailable \/ Leave
    BY <1>4, EndStep DEF Unavailable, Leave
<1>5. CASE UNCHANGED vars
    BY <1>5 DEF vars, boardVars, IInv, TypeOK, ReadOK, SnapshotOK, RowsTakePart, RankTakesPart, Participants,
       Published
<1> QED
    BY <1>1, <1>2, <1>3, <1>4, <1>5, RouteStep, SnapshotStep, PageSteps, RankSteps, RereadStep DEF Next
-----------------------------------------------------------------------------
\* The inductive invariant holds in every state of the specification.
LEMMA Reachable == Spec => []IInv
    BY InitInv, Invariance, PTL DEF Spec

\* Learners join and leave the publication while a request reads: whoever has a rank in a published
\* answer took part at its last look at the auth service (published_leaderboard, published_rank).
THEOREM RanksAreConsented == Spec => [](TypeOK /\ PublishedTakePart)
<1>1. IInv => TypeOK /\ PublishedTakePart
    BY DEF IInv, ReadOK, Reading, PublishedTakePart, Shown, RowsTakePart, RankTakesPart
<1> QED
    BY <1>1, Reachable, PTL

\* Once the policy is active, no request that begins is answered from the boards of before, with
\* the feature switched on or off in its process (use_shared_rankings).
THEOREM NoWayBack == Spec => []RollbackIsFenced
<1>1. IInv => RollbackIsFenced
    BY DEF IInv, ReadOK, Reading, RollbackIsFenced, Shown
<1> QED
    BY <1>1, Reachable, PTL
-----------------------------------------------------------------------------
(* An answer whose statements all saw one board: what a request knows of it at each of them. *)

\* The statements of a request that come after its first one.
Looking == {"first", "count", "exists", "rank", "reread", "shown"}
SawOnly(b) == read.pc \in Looking /\ read.boards = {b}

PageOfOne(b) ==
    /\ read.pc = "first" => \E s : /\ Lists(b, Participants, s)
                                   /\ read.rows = Plain(b, Participants, s, read.ask.offset)
    /\ read.pc # "first" => \E s : /\ Lists(b, Participants, s)
                                   /\ read.rows = Ranked(b, Participants, s, read.ask.offset)
    /\ read.pc \in {"reread", "shown"} => read.total = Size(b, Participants)
RankOfOne(b) ==
    /\ read.pc = "exists" => Published
    /\ read.pc = "rank" /\ Published => read.ask.user \in RowsOf(b, Participants)
    /\ read.pc \in {"reread", "shown"} =>
          read.rank = IF Published /\ read.ask.user \notin RowsOf(b, Participants) THEN None
                      ELSE Place(b, Participants, read.total)
PlacesInv ==
    /\ read.pc \in Looking => IsFiniteSet(read.boards) /\ read.boards # {}
    /\ \A b : SawOnly(b) => /\ BoardOK(b)
                            /\ read.ask.page => PageOfOne(b)
                            /\ ~read.ask.page => RankOfOne(b)

\* A statement that adds its board to those seen has seen one only if it was that one before.
LEMMA SawTheSame ==
    ASSUME PlacesInv, read.pc \in Looking, NEW b, Saw = {b}
    PROVE  SawOnly(b) /\ b = board
    BY DEF PlacesInv, Saw, SawOnly

LEMMA SawFinitely ==
    ASSUME PlacesInv, read.pc \in Looking
    PROVE  IsFiniteSet(Saw) /\ Saw # {}
    BY FS_AddElement DEF PlacesInv, Saw

\* Requests that have not begun to look, and changes around a request.
LEMMA PlacesRest ==
    ASSUME PlacesInv, read'.pc \notin Looking \/ UNCHANGED read
    PROVE  PlacesInv'
    BY DEF PlacesInv, SawOnly, PageOfOne, RankOfOne, Participants, Published

\* A request that ends has seen no board.
LEMMA NothingInHand ==
    ASSUME IInv, PlacesInv, Step(Idle)
    PROVE  PlacesInv'
<1>1. DOMAIN Idle = Fields /\ Idle.pc = "idle"
    BY IdleFields DEF Idle
<1>2. read'.pc = "idle"
    BY <1>1, StepEffect DEF Fields
<1> QED
    BY <1>2, PlacesRest DEF Looking

\* The rows of a page come from one board; the rank of the first makes those of all, if it was
\* taken from the same one.
LEMMA PagePlaces ==
    ASSUME IInv, PlacesInv, GetLeaderboard \/ RankFirst \/ Count
    PROVE  PlacesInv'
<1>1. ReadOK /\ TypeOK
    BY DEF IInv
<1>2. ASSUME GetLeaderboard
      PROVE  PlacesInv'
    <2>1. PICK s \in Listings(Participants, Published) :
              Step([pc |-> "first", rows |-> Page(s, read.ask.offset), boards |-> {board}])
        BY <1>2 DEF GetLeaderboard
    <2>2. read.pc = "rows" /\ read.ask.page
        BY <1>2 DEF GetLeaderboard
    <2> DEFINE change == [pc |-> "first", rows |-> Page(s, read.ask.offset), boards |-> {board}]
    <2>a. Step(change)
        BY <2>1
    <2>b. DOMAIN change = {"pc", "rows", "boards"}
        OBVIOUS
    <2>c. change.pc = "first" /\ change.rows = Page(s, read.ask.offset) /\ change.boards = {board}
        OBVIOUS
    <2> HIDE DEF change
    <2>d. /\ read'.pc = "first" /\ read'.rows = Page(s, read.ask.offset) /\ read'.boards = {board}
          /\ read'.ask = read.ask /\ read'.snapshot = read.snapshot
        BY <2>a, <2>b, <2>c, StepEffect DEF Fields
    <2>e. BoardOK(board) /\ Lists(board, Participants, s)
        <3>1. Published \in BOOLEAN
            BY DEF Published
        <3> QED
            BY <1>1, <3>1, ListingsList
    <2>f. Page(s, read.ask.offset) = Plain(board, Participants, s, read.ask.offset)
        BY <2>e, PageIsPlain
    <2>g. IsFiniteSet({board})
        BY FS_Singleton
    <2>h. Participants' = Participants
        BY <2>d DEF Participants
    <2>i. ASSUME NEW b, SawOnly(b)'
          PROVE  BoardOK(b) /\ PageOfOne(b)'
        <3>1. b = board
            BY <2>d, <2>i DEF SawOnly
        <3> QED
            BY <2>d, <2>e, <2>f, <2>h, <3>1 DEF PageOfOne
    <2> QED
        BY <2>2, <2>d, <2>g, <2>i DEF PlacesInv
<1>3. ASSUME RankFirst
      PROVE  PlacesInv'
    <2> DEFINE first == IF read.rows = <<>> THEN 0 ELSE read.rows[1].xp
               ranked == Ranks(read.rows, read.ask.offset, RankOf(first, Participants))
    <2>1. Step([pc |-> "count", boards |-> Saw, rows |-> ranked])
        BY <1>3 DEF RankFirst
    <2>2. read.pc = "first" /\ read.ask.page /\ read.pc \in Looking /\ read.ask.offset \in Nat
        BY <1>1, <1>3 DEF RankFirst, ReadOK, Looking
    <2>3. ASSUME NEW b, Saw = {b}
          PROVE  BoardOK(b) /\ \E s : /\ Lists(b, Participants, s)
                                      /\ ranked = Ranked(b, Participants, s, read.ask.offset)
        <3>1. SawOnly(b) /\ b = board
            BY <2>2, <2>3, SawTheSame
        <3>2. BoardOK(b) /\ PageOfOne(b)
            BY <2>2, <3>1 DEF PlacesInv
        <3>3. PICK s : Lists(b, Participants, s) /\ read.rows = Plain(b, Participants, s, read.ask.offset)
            BY <2>2, <3>2 DEF PageOfOne
        <3>4. \A xp : RankOf(xp, Participants) = Place(b, Participants, xp)
            BY <3>1 DEF RankOf, Place, Above, Rows, RowsOf
        <3>5. Window(Size(b, Participants), read.ask.offset) # 0 =>
                  RankOf(first, Participants) = Place(b, Participants, b[s[read.ask.offset + 1]].xp)
            <4> DEFINE n == Window(Size(b, Participants), read.ask.offset)
            <4>1. n \in Nat
                BY <2>2, <3>2, Countable, Windows
            <4>2. read.rows = [i \in 1 .. n |-> [user |-> s[read.ask.offset + i], xp |-> b[s[read.ask.offset + i]].xp]]
                BY <3>3 DEF Plain
            <4> HIDE DEF n
            <4>3. ASSUME n # 0
                  PROVE  first = b[s[read.ask.offset + 1]].xp
                <5>1. 1 \in DOMAIN read.rows
                    BY <4>1, <4>2, <4>3
                <5>2. read.rows # <<>>
                    BY <5>1
                <5> QED
                    BY <4>2, <5>1, <5>2
            <4> QED
                BY <3>4, <4>3 DEF n
        <3> HIDE DEF first
        <3>6. ranked = Ranked(b, Participants, s, read.ask.offset)
            BY <2>2, <3>2, <3>3, <3>5, RankedPage
        <3> QED
            BY <3>2, <3>3, <3>6
    <2> HIDE DEF first, ranked
    <2> DEFINE change == [pc |-> "count", boards |-> Saw, rows |-> ranked]
    <2>a. Step(change)
        BY <2>1
    <2>b. DOMAIN change = {"pc", "boards", "rows"}
        OBVIOUS
    <2>c. change.pc = "count" /\ change.rows = ranked /\ change.boards = Saw
        OBVIOUS
    <2> HIDE DEF change
    <2>d. /\ read'.pc = "count" /\ read'.rows = ranked /\ read'.boards = Saw
          /\ read'.ask = read.ask /\ read'.snapshot = read.snapshot
        BY <2>a, <2>b, <2>c, StepEffect DEF Fields
    <2>h. Participants' = Participants
        BY <2>d DEF Participants
    <2>i. ASSUME NEW b, SawOnly(b)'
          PROVE  BoardOK(b) /\ PageOfOne(b)'
        <3>1. Saw = {b}
            BY <2>d, <2>i DEF SawOnly
        <3> QED
            BY <2>3, <2>d, <2>h, <3>1 DEF PageOfOne
    <2> QED
        BY <2>2, <2>d, <2>i, SawFinitely DEF PlacesInv
<1>4. ASSUME Count
      PROVE  PlacesInv'
    <2> DEFINE pc == IF Published THEN "reread" ELSE "shown"
               change == [pc |-> pc, boards |-> Saw, total |-> CountUsers(Participants)]
    <2>1. Step([pc |-> pc, boards |-> Saw, total |-> CountUsers(Participants)])
        BY <1>4 DEF Count
    <2>2. read.pc = "count" /\ read.ask.page /\ read.pc \in Looking
        BY <1>1, <1>4 DEF Count, ReadOK, Looking
    <2>a. Step(change)
        BY <2>1
    <2>b. DOMAIN change = {"pc", "boards", "total"}
        OBVIOUS
    <2>c. change.pc = pc /\ change.boards = Saw /\ change.total = CountUsers(Participants)
        OBVIOUS
    <2> HIDE DEF change
    <2>d. /\ read'.pc = pc /\ read'.total = CountUsers(Participants) /\ read'.boards = Saw
          /\ read'.ask = read.ask /\ read'.snapshot = read.snapshot /\ read'.rows = read.rows
        BY <2>a, <2>b, <2>c, StepEffect DEF Fields
    <2>h. Participants' = Participants
        BY <2>d DEF Participants
    <2>i. ASSUME NEW b, SawOnly(b)'
          PROVE  BoardOK(b) /\ PageOfOne(b)'
        <3>1. Saw = {b}
            BY <2>d, <2>i DEF SawOnly
        <3>2. SawOnly(b) /\ b = board
            BY <2>2, <3>1, SawTheSame
        <3>3. BoardOK(b) /\ PageOfOne(b)
            BY <2>2, <3>2 DEF PlacesInv
        <3>4. CountUsers(Participants) = Size(b, Participants)
            BY <3>2 DEF CountUsers, Size, Rows, RowsOf
        <3>5. pc # "first"
            OBVIOUS
        <3> QED
            BY <2>2, <2>d, <2>h, <3>3, <3>4, <3>5 DEF PageOfOne
    <2> QED
        BY <2>2, <2>d, <2>i, SawFinitely DEF PlacesInv
<1> QED
    BY <1>2, <1>3, <1>4
\* A learner's rank counts those with more points on the board that its points were read from.
LEMMA RankPlaces ==
    ASSUME IInv, PlacesInv, ReadXP \/ Exists \/ OwnRank
    PROVE  PlacesInv'
<1>1. ReadOK /\ TypeOK
    BY DEF IInv
<1>2. ASSUME ReadXP
      PROVE  PlacesInv'
    <2> DEFINE pc == IF Published THEN "exists" ELSE "rank"
               change == [pc |-> pc, boards |-> {board}, total |-> GetUserXP(read.ask.user)]
    <2>1. Step([pc |-> pc, boards |-> {board}, total |-> GetUserXP(read.ask.user)])
        BY <1>2 DEF ReadXP
    <2>2. read.pc = "rows" /\ ~read.ask.page
        BY <1>2 DEF ReadXP
    <2>a. Step(change)
        BY <2>1
    <2>b. DOMAIN change = {"pc", "boards", "total"}
        OBVIOUS
    <2>c. change.pc = pc /\ change.boards = {board}
        OBVIOUS
    <2> HIDE DEF change
    <2>d. /\ read'.pc = pc /\ read'.boards = {board}
          /\ read'.ask = read.ask /\ read'.snapshot = read.snapshot
        BY <2>a, <2>b, <2>c, StepEffect DEF Fields
    <2>e. BoardOK(board)
        BY <1>1, LeaderboardConstantsOK DEF TypeOK, BoardOK
    <2>g. IsFiniteSet({board})
        BY FS_Singleton
    <2>h. Participants' = Participants /\ Published' = Published
        BY <2>d DEF Participants, Published
    <2>i. ASSUME NEW b, SawOnly(b)'
          PROVE  BoardOK(b) /\ RankOfOne(b)'
        <3>1. b = board
            BY <2>d, <2>i DEF SawOnly
        <3> QED
            BY <2>d, <2>e, <2>h, <3>1 DEF RankOfOne
    <2> QED
        BY <2>2, <2>d, <2>g, <2>i DEF PlacesInv
<1>3. ASSUME Exists, read.ask.user \in Rows(Participants)
      PROVE  PlacesInv'
    <2> DEFINE change == [pc |-> "rank", boards |-> Saw]
    <2>1. Step(change)
        BY <1>3 DEF Exists
    <2>2. read.pc = "exists" /\ ~read.ask.page /\ read.pc \in Looking
        BY <1>1, <1>3 DEF Exists, ReadOK, Looking
    <2>b. DOMAIN change = {"pc", "boards"}
        OBVIOUS
    <2>c. change.pc = "rank" /\ change.boards = Saw
        OBVIOUS
    <2> HIDE DEF change
    <2>d. /\ read'.pc = "rank" /\ read'.boards = Saw
          /\ read'.ask = read.ask /\ read'.snapshot = read.snapshot
        BY <2>1, <2>b, <2>c, StepEffect DEF Fields
    <2>h. Participants' = Participants
        BY <2>d DEF Participants
    <2>i. ASSUME NEW b, SawOnly(b)'
          PROVE  BoardOK(b) /\ RankOfOne(b)'
        <3>1. Saw = {b}
            BY <2>d, <2>i DEF SawOnly
        <3>2. SawOnly(b) /\ b = board
            BY <2>2, <3>1, SawTheSame
        <3>3. BoardOK(b)
            BY <3>2 DEF PlacesInv
        <3>4. read.ask.user \in RowsOf(b, Participants)
            BY <1>3, <3>2 DEF Rows, RowsOf
        <3> QED
            BY <2>d, <2>h, <3>3, <3>4 DEF RankOfOne
    <2> QED
        BY <2>2, <2>d, <2>i, SawFinitely DEF PlacesInv
<1>4. ASSUME Exists, read.ask.user \notin Rows(Participants)
      PROVE  PlacesInv'
    <2> DEFINE saw == IF read.ask.user \in Participants THEN Saw ELSE read.boards
               change == [pc |-> "reread", rank |-> None, boards |-> saw]
    <2>1. Step(change)
        BY <1>4 DEF Exists
    <2>2. read.pc = "exists" /\ ~read.ask.page /\ read.pc \in Looking
        BY <1>1, <1>4 DEF Exists, ReadOK, Looking
    <2>3. IsFiniteSet(saw) /\ saw # {}
        BY <2>2, SawFinitely DEF PlacesInv
    <2>4. ASSUME NEW b, saw = {b}
          PROVE  BoardOK(b) /\ Published /\ read.ask.user \notin RowsOf(b, Participants)
        <3>1. SawOnly(b) /\ read.ask.user \notin RowsOf(b, Participants)
            <4>1. CASE read.ask.user \in Participants
                <5>1. SawOnly(b) /\ b = board
                    BY <2>2, <2>4, <4>1, SawTheSame
                <5> QED
                    BY <1>4, <5>1 DEF Rows, RowsOf
            <4>2. CASE read.ask.user \notin Participants
                BY <2>2, <2>4, <4>2 DEF SawOnly, RowsOf
            <4> QED
                BY <4>1, <4>2
        <3>2. BoardOK(b) /\ RankOfOne(b)
            BY <2>2, <3>1 DEF PlacesInv
        <3> QED
            BY <2>2, <3>1, <3>2 DEF RankOfOne
    <2> HIDE DEF saw
    <2>b. DOMAIN change = {"pc", "rank", "boards"}
        OBVIOUS
    <2>c. change.pc = "reread" /\ change.rank = None /\ change.boards = saw
        OBVIOUS
    <2> HIDE DEF change
    <2>d. /\ read'.pc = "reread" /\ read'.rank = None /\ read'.boards = saw
          /\ read'.ask = read.ask /\ read'.snapshot = read.snapshot
        BY <2>1, <2>b, <2>c, StepEffect DEF Fields
    <2>h. Participants' = Participants /\ Published' = Published
        BY <2>d DEF Participants, Published
    <2>i. ASSUME NEW b, SawOnly(b)'
          PROVE  BoardOK(b) /\ RankOfOne(b)'
        <3>1. saw = {b}
            BY <2>d, <2>i DEF SawOnly
        <3> QED
            BY <2>4, <2>d, <2>h, <3>1 DEF RankOfOne
    <2> QED
        BY <2>2, <2>3, <2>d, <2>i DEF PlacesInv
<1>5. ASSUME OwnRank
      PROVE  PlacesInv'
    <2> DEFINE pc == IF Published THEN "reread" ELSE "shown"
               rank == RankOf(read.total, Participants)
    <2>1. Step([pc |-> pc, boards |-> Saw, rank |-> rank])
        BY <1>5 DEF OwnRank
    <2>2. read.pc = "rank" /\ ~read.ask.page /\ read.pc \in Looking
        BY <1>1, <1>5 DEF OwnRank, ReadOK, Looking
    <2>3. ASSUME NEW b, Saw = {b}
          PROVE  /\ BoardOK(b) /\ rank = Place(b, Participants, read.total)
                 /\ Published => read.ask.user \in RowsOf(b, Participants)
        <3>1. SawOnly(b) /\ b = board
            BY <2>2, <2>3, SawTheSame
        <3>2. BoardOK(b) /\ RankOfOne(b)
            BY <2>2, <3>1 DEF PlacesInv
        <3>3. rank = Place(b, Participants, read.total)
            BY <3>1 DEF RankOf, Place, Above, Rows, RowsOf
        <3> QED
            BY <2>2, <3>2, <3>3 DEF RankOfOne
    <2> HIDE DEF rank
    <2> DEFINE change == [pc |-> pc, boards |-> Saw, rank |-> rank]
    <2>a. Step(change)
        BY <2>1
    <2>b. DOMAIN change = {"pc", "boards", "rank"}
        OBVIOUS
    <2>c. change.pc = pc /\ change.rank = rank /\ change.boards = Saw
        OBVIOUS
    <2> HIDE DEF change
    <2>d. /\ read'.pc = pc /\ read'.rank = rank /\ read'.boards = Saw
          /\ read'.ask = read.ask /\ read'.snapshot = read.snapshot /\ read'.total = read.total
        BY <2>a, <2>b, <2>c, StepEffect DEF Fields
    <2>h. Participants' = Participants /\ Published' = Published
        BY <2>d DEF Participants, Published
    <2>i. ASSUME NEW b, SawOnly(b)'
          PROVE  BoardOK(b) /\ RankOfOne(b)'
        <3>1. Saw = {b}
            BY <2>d, <2>i DEF SawOnly
        <3> QED
            BY <2>3, <2>d, <2>h, <3>1 DEF RankOfOne
    <2> QED
        BY <2>2, <2>d, <2>i, SawFinitely DEF PlacesInv
<1> QED
    BY <1>2, <1>3, <1>4, <1>5

\* The second look at the auth service reads no board.
LEMMA RereadPlaces ==
    ASSUME IInv, PlacesInv, Reread
    PROVE  PlacesInv'
<1>1. ASSUME Step([pc |-> "shown", consented |-> auth.participants])
      PROVE  PlacesInv'
    <2> DEFINE change == [pc |-> "shown", consented |-> auth.participants]
    <2>1. Step(change)
        BY <1>1
    <2>2. read.pc = "reread"
        BY DEF Reread
    <2>b. DOMAIN change = {"pc", "consented"}
        OBVIOUS
    <2>c. change.pc = "shown"
        OBVIOUS
    <2> HIDE DEF change
    <2>d. /\ read'.pc = "shown" /\ read'.boards = read.boards
          /\ read'.ask = read.ask /\ read'.snapshot = read.snapshot /\ read'.rows = read.rows
          /\ read'.rank = read.rank /\ read'.total = read.total
        BY <2>1, <2>b, <2>c, StepEffect DEF Fields
    <2>h. Participants' = Participants /\ Published' = Published
        BY <2>d DEF Participants, Published
    <2>i. ASSUME NEW b, SawOnly(b)'
          PROVE  /\ BoardOK(b)
                 /\ read.ask.page => PageOfOne(b)'
                 /\ ~read.ask.page => RankOfOne(b)'
        <3>1. SawOnly(b)
            BY <2>2, <2>d, <2>i DEF SawOnly, Looking
        <3>2. BoardOK(b) /\ (read.ask.page => PageOfOne(b)) /\ (~read.ask.page => RankOfOne(b))
            BY <3>1 DEF PlacesInv
        <3> QED
            BY <2>2, <2>d, <2>h, <3>2 DEF PageOfOne, RankOfOne
    <2> QED
        BY <2>2, <2>d, <2>i DEF PlacesInv, Looking
<1>2. ASSUME Step([pc |-> "snapshot", try |-> 2])
      PROVE  PlacesInv'
    <2> DEFINE change == [pc |-> "snapshot", try |-> 2]
    <2>1. Step(change)
        BY <1>2
    <2>b. DOMAIN change = {"pc", "try"}
        OBVIOUS
    <2>c. change.pc = "snapshot"
        OBVIOUS
    <2> HIDE DEF change
    <2>d. read'.pc = "snapshot"
        BY <2>1, <2>b, <2>c, StepEffect DEF Fields
    <2> QED
        BY <2>d, PlacesRest DEF Looking
<1>3. ASSUME Step(Idle)
      PROVE  PlacesInv'
    BY <1>3, NothingInHand
<1> QED
    BY <1>1, <1>2, <1>3 DEF Reread

\* Before its first statement a request has looked at no board.
LEMMA BeforeLooking ==
    ASSUME IInv, PlacesInv,
           \/ \E ask \in Asks, flag \in BOOLEAN : Ask(ask, flag)
           \/ Route \/ CurrentSnapshot \/ Unavailable \/ Leave
    PROVE  PlacesInv'
<1>1. ASSUME NEW ask \in Asks, NEW flag \in BOOLEAN, Ask(ask, flag)
      PROVE  PlacesInv'
    <2> DEFINE pc == IF ask.epoch = None THEN "route" ELSE "snapshot"
               change == [pc |-> pc, ask |-> ask, flag |-> flag, try |-> 1, begun |-> auth.active]
    <2>1. Step(change)
        BY <1>1 DEF Ask
    <2>b. DOMAIN change = {"pc", "ask", "flag", "try", "begun"}
        OBVIOUS
    <2>c. change.pc = pc
        OBVIOUS
    <2> HIDE DEF change
    <2>d. read'.pc = pc
        BY <2>1, <2>b, <2>c, StepEffect DEF Fields
    <2> QED
        BY <2>d, PlacesRest DEF Looking
<1>2. ASSUME NEW pc \in {"rows", "snapshot"}, NEW change,
             change \in {[pc |-> pc], [pc |-> pc, snapshot |-> Everyone], [pc |-> pc, snapshot |-> auth]},
             Step(change)
      PROVE  PlacesInv'
    <2>1. DOMAIN change \subseteq {"pc", "snapshot"} /\ "pc" \in DOMAIN change /\ change.pc = pc
        BY <1>2
    <2>2. read'.pc = pc
        BY <1>2, <2>1, StepEffect DEF Fields
    <2> QED
        BY <2>2, PlacesRest DEF Looking
<1>3. ASSUME Step(Idle)
      PROVE  PlacesInv'
    BY <1>3, NothingInHand
<1>4. ASSUME Route
      PROVE  PlacesInv'
    BY <1>2, <1>4 DEF Route
<1>5. ASSUME CurrentSnapshot
      PROVE  PlacesInv'
    BY <1>2, <1>3, <1>5 DEF CurrentSnapshot
<1> QED
    BY <1>1, <1>3, <1>4, <1>5 DEF Unavailable, Leave

\* Every step keeps what a request knows of the one board it has seen.
LEMMA PlacesInvariance == IInv /\ PlacesInv /\ [Next]_vars => PlacesInv'
<1> SUFFICES ASSUME IInv, PlacesInv, [Next]_vars
             PROVE  PlacesInv'
    OBVIOUS
<1>1. CASE \E l \in Learners : AddXP(l) \/ Erase(l) \/ \E xp \in 0 .. MaxXP : UpdateXP(l, xp)
    <2>1. UNCHANGED read
        BY <1>1 DEF AddXP, Erase, UpdateXP, Move
    <2> QED
        BY <2>1, PlacesRest
<1>2. CASE \E participants \in SUBSET Learners, enabled \in BOOLEAN, epoch \in {auth.epoch, 2} :
              Publish(participants, enabled, epoch)
    <2>1. UNCHANGED read
        BY <1>2 DEF Publish
    <2> QED
        BY <2>1, PlacesRest
<1>3. CASE UNCHANGED vars
    BY <1>3, PlacesRest DEF vars
<1> QED
    BY <1>1, <1>2, <1>3, BeforeLooking, PagePlaces, RankPlaces, RereadPlaces DEF Next
-----------------------------------------------------------------------------
\* A request that has begun has seen no board before its first statement.
LEMMA FirstPlaces == Init => PlacesInv
<1> SUFFICES ASSUME Init
             PROVE  PlacesInv
    OBVIOUS
<1>1. read.pc = "idle"
    BY DEF Init, Idle
<1> QED
    BY <1>1 DEF PlacesInv, SawOnly, Looking

\* Where all statements of an answer saw one board, its ranks are those of that board.
LEMMA PlacesHold == IInv /\ PlacesInv => PlacesAreRight
<1> SUFFICES ASSUME IInv, PlacesInv, Shown, Still
             PROVE  LET all == DOMAIN Board \cap Participants IN
                    IF read.ask.page
                    THEN /\ read.total = Cardinality(all)
                         /\ Len(read.rows) = Cardinality((read.ask.offset + 1 .. read.ask.offset + Limit) \cap (1 .. read.total))
                         /\ \A i \in DOMAIN read.rows :
                               LET row == read.rows[i]  place == Cardinality(Better(row.xp)) + 1 IN
                               /\ row.user \in Equal(row.xp)
                               /\ row.rank = place
                               /\ read.ask.offset + i \in place .. place + Cardinality(Equal(row.xp)) - 1
                    ELSE read.rank = IF Published /\ read.ask.user \notin all THEN None
                                     ELSE Cardinality(Better(read.total)) + 1
    BY DEF PlacesAreRight
<1>1. read.pc = "shown" /\ read.pc \in Looking /\ read.ask.page \in BOOLEAN /\ read.ask.offset \in Nat
    BY DEF IInv, ReadOK, Shown, Looking
<1>2. PICK b : read.boards = {b}
    BY <1>1, FS_Singleton DEF PlacesInv, Still
<1>3. Board = b
    BY <1>2 DEF Board
<1>4. BoardOK(b) /\ (read.ask.page => PageOfOne(b)) /\ (~read.ask.page => RankOfOne(b))
    BY <1>1, <1>2 DEF PlacesInv, SawOnly
<1>5. DOMAIN Board \cap Participants = RowsOf(b, Participants)
    BY <1>3 DEF RowsOf
<1>6. /\ \A xp : Better(xp) = Above(b, Participants, xp)
      /\ \A xp : Equal(xp) = Alike(b, Participants, xp)
    BY <1>3 DEF Better, Equal, Above, Alike, RowsOf
<1>7. \A xp : Cardinality(Better(xp)) + 1 = Place(b, Participants, xp)
    BY <1>6 DEF Place
<1>8. CASE ~read.ask.page
    BY <1>1, <1>4, <1>5, <1>7, <1>8 DEF RankOfOne
<1>9. CASE read.ask.page
    <2> DEFINE n == Size(b, Participants)
               offset == read.ask.offset
               size == Window(n, offset)
    <2>1. read.total = n /\ n \in Nat
        BY <1>1, <1>4, <1>9, Countable DEF PageOfOne
    <2>2. PICK s : Lists(b, Participants, s) /\ read.rows = Ranked(b, Participants, s, offset)
        BY <1>1, <1>4, <1>9 DEF PageOfOne
    <2>3. size \in Nat /\ \A i \in 1 .. size : offset + i \in 1 .. n
        BY <1>1, <2>1, Windows
    <2>4. read.rows = [i \in 1 .. size |-> [user |-> s[offset + i], xp |-> b[s[offset + i]].xp,
                                            rank |-> Place(b, Participants, b[s[offset + i]].xp)]]
        BY <2>2 DEF Ranked
    <2>5. Cardinality((offset + 1 .. offset + Limit) \cap (1 .. n)) = size
        <3>1. (offset + 1 .. offset + Limit) \cap (1 .. n) = {m \in 1 .. n : m \in offset + 1 .. offset + Limit}
            OBVIOUS
        <3> QED
            BY <3>1 DEF Window
    <2>6. DOMAIN s = 1 .. n /\ \A i \in 1 .. n : s[i] \in RowsOf(b, Participants)
        BY <2>2 DEF Lists
    <2> HIDE DEF size, n, offset
    <2>7. Len(read.rows) = size
        BY <2>3, <2>4
    <2>8. ASSUME NEW i \in DOMAIN read.rows
          PROVE  LET row == read.rows[i] IN
                 /\ row.user \in Equal(row.xp)
                 /\ row.rank = Place(b, Participants, row.xp)
                 /\ offset + i \in Place(b, Participants, row.xp)
                                    .. Place(b, Participants, row.xp) + Cardinality(Equal(row.xp)) - 1
        <3>1. PICK j \in DOMAIN s : j = offset + i
            BY <2>3, <2>4, <2>6
        <3>2. /\ read.rows[i].user = s[j] /\ read.rows[i].xp = b[s[j]].xp
              /\ read.rows[i].rank = Place(b, Participants, b[s[j]].xp)
            BY <2>4, <3>1
        <3>3. j \in Place(b, Participants, b[s[j]].xp)
                     .. Place(b, Participants, b[s[j]].xp) + Cardinality(Equal(b[s[j]].xp)) - 1
            <4>1. j \in Place(b, Participants, b[s[j]].xp)
                         .. Place(b, Participants, b[s[j]].xp) + Cardinality(Alike(b, Participants, b[s[j]].xp)) - 1
                BY <1>4, <2>2, Places
            <4> QED
                BY <1>6, <4>1
        <3>4. s[j] \in Equal(b[s[j]].xp)
            BY <1>6, <2>6 DEF Alike
        <3> QED
            BY <3>1, <3>2, <3>3, <3>4
    <2>9. read.total = Cardinality(DOMAIN Board \cap Participants)
        BY <1>5, <2>1 DEF Size, n
    <2> QED
        BY <1>7, <1>9, <2>1, <2>5, <2>7, <2>8, <2>9 DEF offset
<1> QED
    BY <1>1, <1>8, <1>9

\* Where the participants are given, equals are listed by their ids: there is one listing.
LEMMA OneListing ==
    ASSUME TypeOK, NEW participants, NEW s \in Listings(participants, TRUE), NEW t \in Listings(participants, TRUE)
    PROVE  s = t
<1> DEFINE n == Size(board, participants)
           rows == RowsOf(board, participants)
<1>1. BoardOK(board) /\ Lists(board, participants, s) /\ Lists(board, participants, t)
    BY ListingsList
<1>2. /\ s \in [1 .. n -> rows] /\ t \in [1 .. n -> rows]
      /\ \A i, j \in 1 .. n : (s[i] = s[j] => i = j) /\ (t[i] = t[j] => i = j)
      /\ \A l \in rows : (\E i \in 1 .. n : s[i] = l) /\ (\E i \in 1 .. n : t[i] = l)
    <2> HIDE DEF n, rows
    <2>1. DOMAIN s = 1 .. n /\ DOMAIN t = 1 .. n
        BY <1>1 DEF Lists, n
    <2> QED
        BY <1>1, <2>1 DEF Lists, n, rows
<1>3. n \in Nat
    BY <1>1, Countable
<1>4. \A i, j \in 1 .. n : i < j => ~Before(s[j], s[i], TRUE) /\ ~Before(t[j], t[i], TRUE)
    <2> HIDE DEF n, rows
    <2>1. DOMAIN s = 1 .. n /\ DOMAIN t = 1 .. n
        BY <1>2
    <2> QED
        BY <2>1 DEF Listings
<1>5. \A l, m \in rows : l # m => Before(l, m, TRUE) \/ Before(m, l, TRUE)
    <2> SUFFICES ASSUME NEW l \in rows, NEW m \in rows, l # m
                 PROVE  Before(l, m, TRUE) \/ Before(m, l, TRUE)
        OBVIOUS
    <2>1. /\ board[l] \in [xp : 0 .. MaxXP, at : 0 .. Never] /\ board[m] \in [xp : 0 .. MaxXP, at : 0 .. Never]
          /\ l \in Nat /\ m \in Nat
        BY LeaderboardConstantsOK DEF TypeOK, RowsOf
    <2>2. board[l].xp \in Int /\ board[l].at \in Int /\ board[m].xp \in Int /\ board[m].at \in Int
        BY <2>1
    <2> QED
        BY <2>1, <2>2 DEF Before, Ahead, Tied
<1>6. ASSUME NEW d \in 1 .. n, s[d] # t[d]
      PROVE  FALSE
    <2> DEFINE differ == {k \in 1 .. n : s[k] # t[k]}
    <2>1. differ \in SUBSET (Nat \ {0}) /\ differ # {}
        BY <1>6
    <2>2. PICK k \in differ : \A m \in differ : k <= m
        <3> HIDE DEF differ
        <3> QED
            BY <2>1, LeastOne
    <2>3. k \in 1 .. n /\ s[k] # t[k] /\ s[k] \in rows /\ t[k] \in rows
        BY <1>2
    <2>4. PICK j \in 1 .. n : t[j] = s[k]
        BY <1>2, <2>3
    <2>5. PICK i \in 1 .. n : s[i] = t[k]
        BY <1>2, <2>3
    <2>6. \A m \in 1 .. n : m < k => s[m] = t[m]
        BY <2>2, <2>3
    <2> HIDE DEF n, rows
    <2>7. k < j /\ k < i
        <3>1. j # k /\ i # k
            BY <2>3, <2>4, <2>5
        <3>2. ~(j < k)
            BY <1>2, <2>3, <2>4, <2>6, <3>1
        <3>3. ~(i < k)
            BY <1>2, <2>3, <2>5, <2>6, <3>1
        <3> QED
            BY <1>3, <2>3, <3>1, <3>2, <3>3
    <2>8. ~Before(s[k], t[k], TRUE)
        BY <1>4, <2>3, <2>4, <2>7
    <2>9. ~Before(t[k], s[k], TRUE)
        BY <1>4, <2>3, <2>5, <2>7
    <2> QED
        BY <1>5, <2>3, <2>8, <2>9
<1> HIDE DEF n, rows
<1>7. \A d \in 1 .. n : s[d] = t[d]
    BY <1>6
<1>8. s = [d \in 1 .. n |-> s[d]] /\ t = [d \in 1 .. n |-> t[d]]
    BY <1>2
<1> QED
    BY <1>7, <1>8

\* The first and the second page are parts of one listing, side by side.
LEMMA PagesMeet == TypeOK => PagesFit
<1> SUFFICES ASSUME TypeOK, NEW participants \in SUBSET Learners,
                    NEW s \in Listings(participants, TRUE), NEW t \in Listings(participants, TRUE)
             PROVE  LET users(page) == {page[i].user : i \in DOMAIN page}
                        top == users(Page(s, 0))  next == users(Page(t, Limit))
                    IN /\ top \cap next = {}
                       /\ Cardinality(top \cup next) = Cardinality((1 .. CountUsers(participants)) \cap (1 .. 2 * Limit))
    BY DEF PagesFit
<1> DEFINE n == Size(board, participants)
           first == 1 .. Window(n, 0)
           second == {Limit + i : i \in 1 .. Window(n, Limit)}
           users(page) == {page[i].user : i \in DOMAIN page}
<1>1. s = t
    BY OneListing
<1>2. BoardOK(board) /\ Lists(board, participants, s)
    BY ListingsList
<1>3. n \in Nat /\ Limit \in Nat \ {0} /\ DOMAIN s = 1 .. n /\ CountUsers(participants) = n
    BY <1>2, Countable, LeaderboardConstantsOK DEF Lists, CountUsers, Size, Rows, RowsOf
<1>4. users(Page(s, 0)) = {s[i] : i \in first}
    <2>1. Page(s, 0) = Plain(board, participants, s, 0)
        BY <1>2, PageIsPlain
    <2>2. Page(s, 0) = [i \in first |-> [user |-> s[0 + i], xp |-> board[s[0 + i]].xp]]
        BY <2>1 DEF Plain
    <2>3. \A i \in first : 0 + i = i
        BY <1>3, Windows
    <2> HIDE DEF first
    <2> QED
        BY <2>2, <2>3
<1>5. users(Page(t, Limit)) = {s[i] : i \in second}
    <2>1. Page(s, Limit) = Plain(board, participants, s, Limit)
        BY <1>2, PageIsPlain
    <2>2. Page(s, Limit) = [i \in 1 .. Window(n, Limit) |-> [user |-> s[Limit + i], xp |-> board[s[Limit + i]].xp]]
        BY <2>1 DEF Plain
    <2> HIDE DEF n
    <2> QED
        BY <1>1, <2>2
<1>6. first \cap second = {} /\ first \cup second = (1 .. n) \cap (1 .. 2 * Limit)
    <2>1. /\ Window(n, 0) = IF n <= 0 THEN 0 ELSE IF n <= 0 + Limit THEN n - 0 ELSE Limit
          /\ Window(n, Limit) = IF n <= Limit THEN 0 ELSE IF n <= Limit + Limit THEN n - Limit ELSE Limit
        BY <1>3, Windows
    <2> DEFINE first2 == 1 .. Window(n, 0)
    <2>2. first = {m \in 1 .. n : m <= Limit}
        BY <1>3, <2>1
    <2>3. second = {m \in 1 .. n : m > Limit /\ m <= 2 * Limit}
        <3>1. ASSUME NEW m \in 1 .. n, m > Limit, m <= 2 * Limit
              PROVE  m \in second
            <4>1. m - Limit \in 1 .. Window(n, Limit) /\ m = Limit + (m - Limit)
                BY <1>3, <2>1, <3>1
            <4> QED
                BY <4>1
        <3>2. ASSUME NEW i \in 1 .. Window(n, Limit)
              PROVE  Limit + i \in 1 .. n /\ Limit + i > Limit /\ Limit + i <= 2 * Limit
            BY <1>3, <2>1
        <3> QED
            BY <3>1, <3>2
    <2> HIDE DEF first, second, n
    <2> QED
        BY <1>3, <2>2, <2>3
<1>7. first \in SUBSET (DOMAIN s) /\ second \in SUBSET (DOMAIN s)
    BY <1>3, <1>6
<1> HIDE DEF first, second
<1>8. users(Page(s, 0)) \cap users(Page(t, Limit)) = {}
    <2>1. \A i \in first : \A j \in second : s[i] # s[j]
        BY <1>2, <1>6, <1>7 DEF Lists
    <2> QED
        BY <1>4, <1>5, <2>1
<1>9. Cardinality(users(Page(s, 0)) \cup users(Page(t, Limit))) = Cardinality(first \cup second)
    <2>1. first \cup second \in SUBSET (DOMAIN s)
        BY <1>7
    <2>2. users(Page(s, 0)) \cup users(Page(t, Limit)) = {s[i] : i \in first \cup second}
        BY <1>4, <1>5
    <2>3. PICK I \in SUBSET (DOMAIN s) : I = first \cup second
        BY <2>1
    <2>4. Cardinality({s[i] : i \in I}) = Cardinality(I)
        BY <1>2, Counted
    <2> QED
        BY <2>2, <2>3, <2>4
<1> QED
    BY <1>3, <1>6, <1>8, <1>9

\* Ranks are right wherever a page begins and whoever shares its points, whatever changes between
\* two requests; where all statements of one saw one board, its page is one of that board; and two
\* published pages of one board share nobody and leave nobody out (get_leaderboard, get_rank).
THEOREM BoardsSound == Spec => []BoardsAreSound
<1>1. Spec => []PlacesInv
    BY Reachable, FirstPlaces, PlacesInvariance, PTL DEF Spec
<1>2. IInv /\ PlacesInv => BoardsAreSound
    BY PlacesHold, PagesMeet DEF IInv, BoardsAreSound
<1> QED
    BY <1>1, <1>2, Reachable, PTL
-----------------------------------------------------------------------------
(* The skill tree, for any skills, any requests at the same time and any links asked for. *)

\* Every set of skills has one that needs no other of them: no chain leads back.
Ordered(nodes, below) == \A S \in SUBSET nodes : S # {} => \E x \in S : below[x] \cap S = {}

\* What an open edit will write stays on the level of its skill.
Shaped(r) == /\ r.is \in {"idle", "read", "create", "update", "delete"}
             /\ IsEdit(r) => r.skill \in Skills /\ r.wanted \subseteq Level(r.skill)
             /\ r.is = "create" => r.seen = {}
             /\ r.is = "delete" => r.wanted = {}
             /\ r.is = "read" => r.as \in {"fresh", "old"}

\* As long as no other edit has added dependencies, those that an edit will add are still outside
\* of some set of skills that holds all that depend on the edited one.
StillChecked(r) == \E D \in SUBSET Skills : /\ r.skill \in D /\ Closed(D)
                                            /\ D \cap Adds(r) = {}
Checked(r) == r.is = "update" /\ Adds(r) # {} => StillChecked(r)

TreeInv == /\ TreeTypeOK /\ DOMAIN open = Requests
           /\ \A q \in Requests : Shaped(open[q])
           /\ ~editsMet => Ordered(skills, needs) /\ \A q \in Requests : Checked(open[q])

\* An edit and a read that are open together have met, and so have an edit and a stored answer.
CacheInv == /\ DOMAIN open = Requests /\ answer \in {"fresh", "old", Nothing}
            /\ \A p, q \in Requests : IsEdit(open[p]) /\ open[q].is = "read" => readsMet
            /\ \A p \in Requests : IsEdit(open[p]) /\ answer # Nothing => readsMet
            /\ \A q \in Requests : open[q].is = "read" =>
                   open[q].as \in {"fresh", "old"} /\ (open[q].as = "old" => readsMet)
            /\ answer = "old" => readsMet

\* New edges of one skill go to skills outside of a set that holds all that depend on it.
AddsOutside(nodes, below, after, x, D) ==
    /\ x \in D /\ \A y \in nodes : below[y] \cap D # {} => y \in D
    /\ \A y \in nodes \ {x} : after[y] \subseteq below[y]
    /\ after[x] \cap D \subseteq below[x]

\* They close no cycle.
LEMMA AddedOutside ==
    ASSUME NEW nodes, NEW below, NEW after, NEW x, NEW D,
           Ordered(nodes, below), AddsOutside(nodes, below, after, x, D)
    PROVE  Ordered(nodes, after)
<1> SUFFICES ASSUME NEW S \in SUBSET nodes, S # {}
             PROVE  \E z \in S : after[z] \cap S = {}
    BY DEF Ordered
<1>1. CASE S \subseteq D
    <2>1. PICK z \in S : below[z] \cap S = {}
        BY DEF Ordered
    <2>2. after[z] \cap D \subseteq below[z]
        BY <2>1 DEF AddsOutside
    <2> QED
        BY <1>1, <2>1, <2>2
<1>2. CASE ~(S \subseteq D)
    <2>1. PICK z \in S \ D : below[z] \cap (S \ D) = {}
        <3>1. S \ D # {} /\ S \ D \in SUBSET nodes
            BY <1>2
        <3> QED
            BY <3>1 DEF Ordered
    <2>2. z # x /\ below[z] \cap D = {} /\ after[z] \subseteq below[z]
        BY <2>1 DEF AddsOutside
    <2> QED
        BY <2>1, <2>2
<1> QED
    BY <1>1, <1>2

\* Fewer skills and fewer dependencies close no cycle.
LEMMA Fewer ==
    ASSUME NEW nodes, NEW below, NEW fewer, NEW after, Ordered(nodes, below),
           fewer \subseteq nodes, \A y \in fewer : after[y] \subseteq below[y]
    PROVE  Ordered(fewer, after)
<1> SUFFICES ASSUME NEW S \in SUBSET fewer, S # {}
             PROVE  \E z \in S : after[z] \cap S = {}
    BY DEF Ordered
<1>1. PICK z \in S : below[z] \cap S = {}
    BY DEF Ordered
<1>2. after[z] \subseteq below[z]
    OBVIOUS
<1> QED
    BY <1>1, <1>2

\* A new skill that nobody needs closes no cycle.
LEMMA NewSkill ==
    ASSUME NEW nodes, NEW below, NEW x, NEW after, Ordered(nodes, below),
           x \notin nodes, x \notin after[x], \A y \in nodes : x \notin after[y] /\ after[y] \subseteq below[y]
    PROVE  Ordered(nodes \cup {x}, after)
<1> SUFFICES ASSUME NEW S \in SUBSET (nodes \cup {x}), S # {}
             PROVE  \E z \in S : after[z] \cap S = {}
    BY DEF Ordered
<1>1. CASE S = {x}
    BY <1>1
<1>2. CASE S # {x}
    <2>1. S \ {x} # {} /\ S \ {x} \in SUBSET nodes
        BY <1>2
    <2>2. PICK z \in S \ {x} : below[z] \cap (S \ {x}) = {}
        BY <2>1 DEF Ordered
    <2>3. x \notin after[z] /\ after[z] \subseteq below[z]
        BY <2>1, <2>2
    <2> QED
        BY <2>2, <2>3
<1> QED
    BY <1>1, <1>2

\* get_skill_dependents returns a set that holds all that depend on its skills.
LEMMA DependentsAreClosed ==
    ASSUME TreeTypeOK, NEW x \in skills
    PROVE  /\ x \in Dependents(x) /\ Dependents(x) \in SUBSET Skills
           /\ Closed(Dependents(x))
<1>1. skills \subseteq Skills
    BY DEF TreeTypeOK
<1>2. x \in Dependents(x) /\ Dependents(x) \in SUBSET Skills
    BY <1>1 DEF Dependents, Level
<1>3. ASSUME NEW y \in skills, NEW z \in needs[y] \cap Dependents(x)
      PROVE  y \in Dependents(x)
    <2>1. z \in Level(y) /\ z \in Level(x)
        BY <1>1, <1>3 DEF TreeTypeOK, Dependents
    <2>2. y \in Level(x)
        BY <1>1, <2>1 DEF Level
    <2>3. ASSUME NEW D \in SUBSET Level(x), x \in D, Closed(D)
          PROVE  y \in D
        <3>1. z \in D
            BY <1>3, <2>3 DEF Dependents
        <3> QED
            BY <1>3, <2>3, <3>1 DEF Closed
    <2> QED
        BY <2>2, <2>3 DEF Dependents
<1> QED
    BY <1>2, <1>3 DEF Closed

\* Where the rows of both levels have no cycle, neither has what a learner should know before.
LEMMA RequiredIsOrdered ==
    ASSUME TreeTypeOK, Ordered(skills, needs)
    PROVE  \A S \in SUBSET skills : S # {} => \E x \in S : Required(x) \cap S = {}
<1> SUFFICES ASSUME NEW S \in SUBSET skills, S # {}
             PROVE  \E x \in S : Required(x) \cap S = {}
    OBVIOUS
<1> DEFINE roots == {x \in S : Parent[x] = Nothing}
<1>1. \A x \in skills : /\ x \in Skills /\ Parent[x] \in skills \cup {Nothing}
                        /\ \A y \in needs[x] : y \in skills /\ Parent[y] = Parent[x]
    BY DEF TreeTypeOK, Level
<1>2. Nothing \notin skills
    BY <1>1, SkillConstantsOK
<1>3. CASE roots # {}
    <2>1. PICK z \in roots : needs[z] \cap roots = {}
        <3>1. roots \in SUBSET skills
            OBVIOUS
        <3> QED
            BY <1>3, <3>1 DEF Ordered
    <2>2. Required(z) = needs[z]
        BY <2>1 DEF Required
    <2>3. \A y \in needs[z] : Parent[y] = Nothing
        BY <1>1, <2>1
    <2> QED
        BY <2>1, <2>2, <2>3
<1>4. CASE roots = {}
    <2> DEFINE parents == {Parent[x] : x \in S}
    <2>1. parents \in SUBSET skills /\ parents # {}
        BY <1>1, <1>4
    <2>2. PICK p \in parents : needs[p] \cap parents = {}
        BY <2>1 DEF Ordered
    <2> DEFINE siblings == {x \in S : Parent[x] = p}
    <2>3. siblings \in SUBSET skills /\ siblings # {}
        BY <2>2
    <2>4. PICK z \in siblings : needs[z] \cap siblings = {}
        BY <2>3 DEF Ordered
    <2>5. Parent[z] = p /\ p \in skills /\ p # Nothing
        BY <1>2, <2>1, <2>4
    <2>6. Required(z) = needs[z] \cup UNION {Children(root) : root \in needs[p]}
        BY <2>5 DEF Required
    <2>7. ASSUME NEW y \in S, y \in Required(z)
          PROVE  FALSE
        <3>1. CASE y \in needs[z]
            BY <1>1, <2>4, <2>5, <3>1
        <3>2. CASE y \notin needs[z]
            <4>1. PICK root \in needs[p] : y \in Children(root)
                BY <2>6, <2>7, <3>2
            <4>2. Parent[y] = root
                BY <4>1 DEF Children
            <4> QED
                BY <2>2, <4>1, <4>2
        <3> QED
            BY <3>1, <3>2
    <2> QED
        BY <2>4, <2>7
<1> QED
    BY <1>3, <1>4
-----------------------------------------------------------------------------
\* The first tree has no dependencies.
LEMMA FirstTree == TreeInit => TreeInv
<1> SUFFICES ASSUME TreeInit
             PROVE  TreeInv
    OBVIOUS
<1>1. /\ skills = FirstSkills /\ needs = [s \in Skills |-> {}] /\ answer = Nothing
      /\ open = [q \in Requests |-> NoRequest] /\ editsMet = FALSE /\ readsMet = FALSE
    BY DEF TreeInit
<1>2. \A q \in Requests : open[q].is = "idle"
    BY <1>1 DEF NoRequest
<1>3. TreeTypeOK
    BY <1>1, <1>2, SkillConstantsOK DEF TreeTypeOK
<1>4. \A q \in Requests : Shaped(open[q]) /\ Checked(open[q])
    BY <1>2 DEF Shaped, Checked, IsEdit
<1>5. Ordered(skills, needs)
    BY <1>1, <1>3 DEF Ordered, TreeTypeOK
<1> QED
    BY <1>1, <1>3, <1>4, <1>5 DEF TreeInv

\* A request begins or ends and leaves the tree alone.
LEMMA OtherRequest ==
    ASSUME TreeInv, UNCHANGED <<skills, needs, editsMet>>, answer' \in {"fresh", "old", Nothing}, readsMet' \in BOOLEAN,
           NEW q \in Requests, NEW r, Shaped(r), Checked(r), open' = [open EXCEPT ![q] = r]
    PROVE  TreeInv'
<1>1. \A p \in Requests : open'[p] = IF p = q THEN r ELSE open[p]
    BY DEF TreeInv
<1>2. \A p \in Requests : Shaped(open'[p])
    BY <1>1 DEF TreeInv
<1>3. ASSUME ~editsMet', NEW p \in Requests
      PROVE  Checked(open[p])'
    <2>1. CASE p = q
        <3>1. open'[p] = r
            BY <1>1, <2>1
        <3> QED
            BY <3>1 DEF Checked, StillChecked, Closed
    <2>2. CASE p # q
        <3>1. open'[p] = open[p] /\ Checked(open[p])
            BY <1>1, <1>3, <2>2 DEF TreeInv
        <3> QED
            BY <3>1 DEF Checked, StillChecked, Closed
    <2> QED
        BY <2>1, <2>2
<1>4. DOMAIN open' = Requests
    BY DEF TreeInv
<1>5. TreeTypeOK'
    BY <1>2 DEF TreeInv, TreeTypeOK, Freshness, Shaped
<1>6. ~editsMet' => Ordered(skills, needs)'
    BY DEF TreeInv, Ordered
<1> QED
    BY <1>2, <1>3, <1>4, <1>5, <1>6 DEF TreeInv

\* An edit begins with its skill, what it wants for it and what it has read.
LEMMA EditBegins ==
    ASSUME TreeInv, NEW q \in Requests, NEW r, Begin(q, r), Clear, Shaped(r), Checked(r)
    PROVE  TreeInv'
<1>1. /\ UNCHANGED <<skills, needs, editsMet>> /\ answer' = Nothing /\ readsMet' \in BOOLEAN
      /\ open' = [open EXCEPT ![q] = r]
    BY DEF Begin, Clear, treeVars, TreeInv, TreeTypeOK
<1> QED
    BY <1>1, OtherRequest

\* A create, an update or a delete begins: the check of an update has just been passed.
LEMMA EditsBegin ==
    ASSUME TreeInv, NEW q \in Requests, NEW x \in Skills,
           CreateSkill(q, x) \/ UpdateSkill(q, x) \/ DeleteSkill(q, x)
    PROVE  TreeInv'
<1>1. CASE CreateSkill(q, x)
    <2>1. PICK wanted \in Wanted(x) : Begin(q, Edit("create", x, wanted, {}))
        BY <1>1 DEF CreateSkill
    <2> DEFINE r == Edit("create", x, wanted, {})
    <2>2. Shaped(r) /\ Checked(r)
        BY DEF Shaped, Checked, Edit, IsEdit, Wanted
    <2>3. Begin(q, r) /\ Clear
        BY <1>1, <2>1 DEF CreateSkill
    <2> HIDE DEF r
    <2> QED
        BY <2>2, <2>3, EditBegins
<1>2. CASE UpdateSkill(q, x)
    <2>1. PICK wanted \in Wanted(x) : /\ wanted = needs[x] \/ Dependents(x) \cap wanted = {}
                                      /\ Begin(q, Edit("update", x, wanted, needs[x]))
        BY <1>2 DEF UpdateSkill
    <2>2. PICK seen : seen = needs[x]
        OBVIOUS
    <2>3. PICK D \in SUBSET Skills : D = Dependents(x) /\ x \in D /\ Closed(D)
        BY <1>2, DependentsAreClosed DEF UpdateSkill, TreeInv
    <2> DEFINE r == Edit("update", x, wanted, seen)
    <2>4. r.is = "update" /\ r.skill = x /\ r.wanted = wanted /\ r.seen = seen /\ Adds(r) = wanted \ seen
        BY DEF Edit, Adds, IsEdit
    <2>5. Begin(q, r) /\ Clear
        BY <1>2, <2>1, <2>2 DEF UpdateSkill
    <2> HIDE DEF r
    <2>6. Shaped(r)
        BY <2>4 DEF Shaped, IsEdit, Wanted
    <2>7. Checked(r)
        BY <2>1, <2>2, <2>3, <2>4 DEF Checked, StillChecked
    <2> QED
        BY <2>5, <2>6, <2>7, EditBegins
<1>3. CASE DeleteSkill(q, x)
    <2>1. PICK seen : seen = Referrers(x)
        OBVIOUS
    <2> DEFINE r == Edit("delete", x, {}, seen)
    <2>2. Shaped(r) /\ Checked(r)
        BY DEF Shaped, Checked, Edit, IsEdit
    <2>3. Begin(q, r) /\ Clear
        BY <1>3, <2>1 DEF DeleteSkill
    <2> HIDE DEF r
    <2> QED
        BY <2>2, <2>3, EditBegins
<1> QED
    BY <1>1, <1>2, <1>3

\* Reads, ends and failures.
LEMMA ReadsPass ==
    ASSUME TreeInv, NEW q \in Requests, Read(q) \/ Store(q) \/ Fail(q)
    PROVE  TreeInv'
<1>1. /\ Shaped(NoRequest) /\ Checked(NoRequest)
      /\ Shaped(Answering("fresh")) /\ Checked(Answering("fresh"))
    BY DEF Shaped, Checked, NoRequest, Answering, IsEdit
<1>2. answer \in {"fresh", "old", Nothing} /\ readsMet \in BOOLEAN
    BY DEF TreeInv, TreeTypeOK, Freshness
<1>3. CASE Read(q)
    <2>1. /\ UNCHANGED <<skills, needs, editsMet, answer>> /\ readsMet' \in BOOLEAN
          /\ open' = [open EXCEPT ![q] = Answering("fresh")]
        BY <1>2, <1>3 DEF Read, Begin, treeVars
    <2> QED
        BY <1>1, <1>2, <2>1, OtherRequest
<1>4. CASE Store(q)
    <2>1. /\ UNCHANGED <<skills, needs, editsMet, readsMet>>
          /\ open' = [open EXCEPT ![q] = NoRequest]
          /\ answer' \in {"fresh", "old", Nothing}
        BY <1>4 DEF Store, treeVars, TreeInv, Shaped
    <2> QED
        BY <1>1, <1>2, <2>1, OtherRequest
<1>5. CASE Fail(q)
    <2>1. /\ UNCHANGED <<skills, needs, editsMet, readsMet, answer>>
          /\ open' = [open EXCEPT ![q] = NoRequest]
        BY <1>5 DEF Fail, treeVars
    <2> QED
        BY <1>1, <1>2, <2>1, OtherRequest
<1> QED
    BY <1>3, <1>4, <1>5
-----------------------------------------------------------------------------
\* An edit is written: the rows after it point to rows of their level that exist.
LEMMA CommitKeepsRows ==
    ASSUME TreeInv, NEW q \in Requests, Commit(q)
    PROVE  /\ skills' \subseteq Skills
           /\ \A s \in skills' : Parent[s] \in skills' \cup {Nothing}
           /\ needs' \in [Skills -> SUBSET skills']
           /\ \A s \in Skills : needs'[s] \subseteq Level(s) /\ (s \notin skills' => needs'[s] = {})
<1> DEFINE r == open[q]
           x == r.skill
<1>1. /\ IsEdit(r) /\ Shaped(r) /\ x \in Skills /\ r.wanted \subseteq Level(x)
      /\ Committable(r) /\ needs' = NeedsAfter(r)
    BY DEF Commit, TreeInv, Shaped
<1>2. skills' = CASE r.is = "create" -> skills \cup {r.skill}
                  [] r.is = "update" -> skills
                  [] r.is = "delete" -> skills \ ({r.skill} \cup Children(r.skill))
    BY DEF Commit
<1>3. /\ skills \subseteq Skills
      /\ \A s \in skills : Parent[s] \in skills \cup {Nothing}
      /\ needs \in [Skills -> SUBSET skills]
      /\ \A s \in Skills : needs[s] \subseteq Level(s) /\ (s \notin skills => needs[s] = {})
    BY DEF TreeInv, TreeTypeOK
<1>4. Nothing \notin Skills /\ \A s \in Skills : Parent[s] # Nothing => Parent[Parent[s]] = Nothing
    BY SkillConstantsOK
<1> HIDE DEF r, x
<1>5. CASE r.is = "create"
    <2>1. skills' = skills \cup {x} /\ needs' = [needs EXCEPT ![x] = r.wanted]
        BY <1>1, <1>2, <1>5 DEF x, NeedsAfter
    <2>2. r.wanted \subseteq skills /\ Parent[x] \in skills \cup {Nothing}
        BY <1>1, <1>3, <1>4, <1>5 DEF x, Committable, Level
    <2> QED
        BY <1>1, <1>3, <2>1, <2>2
<1>6. CASE r.is = "update"
    <2>1. skills' = skills /\ needs' = [needs EXCEPT ![x] = (@ \ (r.seen \ r.wanted)) \cup Adds(r)]
        BY <1>1, <1>2, <1>6 DEF x, NeedsAfter
    <2>2. x \in skills /\ Adds(r) \subseteq skills /\ Adds(r) \subseteq Level(x)
        BY <1>1, <1>6 DEF x, Committable, Adds
    <2> QED
        BY <1>1, <1>3, <2>1, <2>2
<1>7. CASE r.is = "delete"
    <2> DEFINE gone == {x} \cup Children(x)
    <2>1. skills' = skills \ gone /\ needs' = [s \in Skills |-> IF s \in gone THEN {} ELSE needs[s] \ gone]
        BY <1>1, <1>2, <1>7 DEF x, NeedsAfter
    <2>2. ASSUME NEW s \in skills', Parent[s] \in gone
          PROVE  FALSE
        <3>1. CASE Parent[s] = x
            BY <2>1, <3>1 DEF Children
        <3>2. CASE Parent[s] \in Children(x)
            <4>1. Parent[Parent[s]] = x /\ Parent[s] \in Skills
                BY <1>3, <3>2 DEF Children
            <4> QED
                BY <1>1, <1>3, <1>4, <2>1, <4>1
        <3> QED
            BY <2>2, <3>1, <3>2
    <2>3. \A s \in skills' : Parent[s] \in skills' \cup {Nothing}
        BY <1>3, <2>1, <2>2
    <2> HIDE DEF gone
    <2>4. \A s \in Skills : needs'[s] = IF s \in gone THEN {} ELSE needs[s] \ gone
        BY <2>1
    <2>5. needs' \in [Skills -> SUBSET skills']
        BY <1>3, <2>1
    <2> QED
        BY <1>3, <2>1, <2>3, <2>4, <2>5
<1> QED
    BY <1>1, <1>5, <1>6, <1>7 DEF IsEdit

\* An edit that adds nothing leaves no skill with more dependencies.
LEMMA NothingAdded ==
    ASSUME TreeInv, NEW q \in Requests, Commit(q), Adds(open[q]) = {}
    PROVE  \A y \in Skills : needs'[y] \subseteq needs[y]
<1> DEFINE r == open[q]
           x == r.skill
<1>1. IsEdit(r) /\ Shaped(r) /\ x \in Skills /\ needs' = NeedsAfter(r)
    BY DEF Commit, TreeInv, Shaped
<1>2. needs \in [Skills -> SUBSET skills] /\ Adds(r) = {} /\ r.wanted \ r.seen = {}
    BY <1>1 DEF TreeInv, TreeTypeOK, Adds
<1> HIDE DEF r, x
<1>3. CASE r.is = "create"
    BY <1>1, <1>2, <1>3 DEF x, NeedsAfter, Shaped
<1>4. CASE r.is = "update"
    BY <1>1, <1>2, <1>4 DEF x, NeedsAfter
<1>5. CASE r.is = "delete"
    <2>1. PICK gone : needs' = [s \in Skills |-> IF s \in gone THEN {} ELSE needs[s] \ gone]
        BY <1>1, <1>5 DEF x, NeedsAfter
    <2> QED
        BY <2>1
<1> QED
    BY <1>1, <1>3, <1>4, <1>5 DEF IsEdit

\* Unless edits have met, a written edit closes no cycle.
LEMMA CommitKeepsOrder ==
    ASSUME TreeInv, NEW q \in Requests, Commit(q), ~editsMet
    PROVE  Ordered(skills, needs)'
<1> DEFINE r == open[q]
           x == r.skill
<1>1. /\ IsEdit(r) /\ Shaped(r) /\ Checked(r) /\ x \in Skills /\ r.wanted \subseteq Level(x)
      /\ Committable(r) /\ needs' = NeedsAfter(r)
    BY DEF Commit, TreeInv, Shaped
<1>2. skills' = CASE r.is = "create" -> skills \cup {r.skill}
                  [] r.is = "update" -> skills
                  [] r.is = "delete" -> skills \ ({r.skill} \cup Children(r.skill))
    BY DEF Commit
<1>3. skills \subseteq Skills /\ needs \in [Skills -> SUBSET skills] /\ Ordered(skills, needs)
    BY DEF TreeInv, TreeTypeOK
<1>4. Nothing \notin Skills
    BY SkillConstantsOK
<1>5. Adds(r) = {} => \A y \in Skills : needs'[y] \subseteq needs[y]
    BY NothingAdded
<1> SUFFICES Ordered(skills', needs')
    BY DEF Ordered
<1> HIDE DEF r, x
<1>6. CASE r.is = "create"
    <2>1. skills' = skills \cup {x} /\ needs' = [needs EXCEPT ![x] = r.wanted]
        BY <1>1, <1>2, <1>6 DEF x, NeedsAfter
    <2>2. x \notin skills /\ r.wanted \subseteq skills
        BY <1>1, <1>4, <1>6 DEF x, Committable, Level
    <2>3. x \notin needs'[x] /\ \A y \in skills : x \notin needs'[y] /\ needs'[y] \subseteq needs[y]
        BY <1>1, <1>3, <2>1, <2>2
    <2>4. Ordered(skills \cup {x}, needs')
        BY <1>3, <2>2, <2>3, NewSkill
    <2> QED
        BY <2>1, <2>4
<1>7. CASE r.is = "update" /\ Adds(r) # {}
    <2>1. PICK D \in SUBSET Skills : x \in D /\ Closed(D) /\ D \cap Adds(r) = {}
        BY <1>1, <1>7 DEF x, Checked, StillChecked
    <2>2. skills' = skills /\ needs' = [needs EXCEPT ![x] = (@ \ (r.seen \ r.wanted)) \cup Adds(r)]
        BY <1>1, <1>2, <1>7 DEF x, NeedsAfter
    <2>3. \A y \in skills \ {x} : needs'[y] \subseteq needs[y]
        BY <1>3, <2>2
    <2>4. needs'[x] \subseteq needs[x] \cup Adds(r)
        BY <1>1, <1>3, <2>2
    <2>5. \A y \in skills : needs[y] \cap D # {} => y \in D
        BY <2>1 DEF Closed
    <2>6. AddsOutside(skills, needs, needs', x, D)
        BY <2>1, <2>3, <2>4, <2>5 DEF AddsOutside
    <2>7. Ordered(skills, needs')
        BY <1>3, <2>6, AddedOutside
    <2> QED
        BY <2>2, <2>7
<1>8. CASE r.is \in {"update", "delete"} /\ Adds(r) = {}
    <2>1. skills' \subseteq skills
        BY <1>2, <1>8
    <2>2. \A y \in skills' : needs'[y] \subseteq needs[y]
        BY <1>3, <1>5, <1>8, <2>1
    <2> QED
        BY <1>3, <2>1, <2>2, Fewer
<1>9. r.is = "delete" => Adds(r) = {}
    BY <1>1 DEF Shaped, Adds
<1> QED
    BY <1>1, <1>6, <1>7, <1>8, <1>9 DEF IsEdit

\* Unless edits have met, what was checked for the others still holds for them.
LEMMA CommitKeepsChecks ==
    ASSUME TreeInv, NEW q \in Requests, Commit(q), ~editsMet', NEW p \in Requests \ {q},
           open[p].is = "update", Adds(open[p]) # {}
    PROVE  StillChecked(open[p])'
<1> DEFINE r == open[p]
<1>1. ~editsMet /\ Adds(open[q]) = {}
    BY DEF Commit
<1>2. \A y \in Skills : needs'[y] \subseteq needs[y]
    BY <1>1, NothingAdded
<1>3. skills \subseteq Skills /\ \A y \in Skills : y \notin skills => needs[y] = {}
    BY DEF TreeInv, TreeTypeOK
<1>4. PICK D \in SUBSET Skills : r.skill \in D /\ Closed(D) /\ D \cap Adds(r) = {}
    BY <1>1 DEF TreeInv, Checked, StillChecked
<1>5. skills' \subseteq Skills
    BY CommitKeepsRows
<1>6. Closed(D)'
    <2> SUFFICES ASSUME NEW y \in skills', needs'[y] \cap D # {}
                 PROVE  y \in D
        BY DEF Closed
    <2>1. y \in Skills /\ needs[y] \cap D # {}
        BY <1>2, <1>5
    <2> QED
        BY <1>3, <1>4, <2>1 DEF Closed
<1>7. open'[p] = open[p]
    BY DEF Commit, Aged
<1> QED
    BY <1>4, <1>6, <1>7 DEF StillChecked

\* An edit is committed: those that it has met are counted.
LEMMA CommitStep ==
    ASSUME TreeInv, NEW q \in Requests, Commit(q)
    PROVE  TreeInv'
<1>1. /\ skills' \subseteq Skills
      /\ \A s \in skills' : Parent[s] \in skills' \cup {Nothing}
      /\ needs' \in [Skills -> SUBSET skills']
      /\ \A s \in Skills : needs'[s] \subseteq Level(s) /\ (s \notin skills' => needs'[s] = {})
    BY CommitKeepsRows
<1>2. /\ answer' \in {"fresh", "old", Nothing} /\ readsMet' \in BOOLEAN /\ editsMet' \in BOOLEAN
      /\ open' = [p \in Requests |-> IF p = q THEN NoRequest ELSE Aged(open[p])]
      /\ ~editsMet' => ~editsMet
    BY DEF Commit, TreeInv, TreeTypeOK
<1>3. ASSUME NEW p \in Requests
      PROVE  /\ Shaped(open'[p])
             /\ open'[p].is = "update" => p # q /\ open'[p] = open[p]
    <2>1. CASE p = q
        BY <1>2, <2>1 DEF Shaped, NoRequest, IsEdit
    <2>2. CASE p # q /\ open[p].is = "read"
        BY <1>2, <2>2 DEF Shaped, Aged, Answering, IsEdit
    <2>3. CASE p # q /\ open[p].is # "read"
        BY <1>2, <2>3 DEF TreeInv, Aged
    <2> QED
        BY <2>1, <2>2, <2>3
<1>4. ASSUME ~editsMet', NEW p \in Requests
      PROVE  Checked(open[p])'
    <2> SUFFICES ASSUME open'[p].is = "update", Adds(open'[p]) # {}
                 PROVE  StillChecked(open[p])'
        BY DEF Checked, Adds
    <2> QED
        BY <1>3, <1>4, CommitKeepsChecks
<1>5. TreeTypeOK'
    BY <1>1, <1>2, <1>3 DEF TreeTypeOK, Freshness, Shaped, Level
<1>6. ~editsMet' => Ordered(skills, needs)'
    BY <1>2, CommitKeepsOrder
<1> QED
    BY <1>2, <1>3, <1>4, <1>5, <1>6 DEF TreeInv

\* The tree and its requests stay as they are.
LEMMA TreeStutter ==
    ASSUME TreeInv, UNCHANGED <<skills, needs, open, editsMet, readsMet>>, answer' \in {"fresh", "old", Nothing}
    PROVE  TreeInv'
    BY DEF TreeInv, TreeTypeOK, Freshness, Level, Checked, StillChecked, Closed, Ordered

\* The inductive invariant is kept by every step.
LEMMA TreeInvariance == TreeInv /\ [TreeNext]_skillVars => TreeInv'
<1> SUFFICES ASSUME TreeInv, [TreeNext]_skillVars
             PROVE  TreeInv'
    OBVIOUS
<1>1. ASSUME NEW q \in Requests, Read(q) \/ Store(q) \/ Commit(q) \/ Fail(q)
      PROVE  TreeInv'
    BY <1>1, ReadsPass, CommitStep
<1>2. ASSUME NEW q \in Requests, NEW x \in Skills,
             \/ CreateRootSkill(q, x) \/ UpdateRootSkill(q, x) \/ DeleteRootSkill(q, x)
             \/ CreateSubSkill(q, x) \/ UpdateSubSkill(q, x) \/ DeleteSubSkill(q, x)
      PROVE  TreeInv'
    BY <1>2, EditsBegin DEF CreateRootSkill, UpdateRootSkill, DeleteRootSkill,
       CreateSubSkill, UpdateSubSkill, DeleteSubSkill
<1>3. CASE Expire
    <2>1. UNCHANGED <<skills, needs, open, editsMet, readsMet>> /\ answer' = Nothing
        BY <1>3 DEF Expire, treeVars
    <2> QED
        BY <2>1, TreeStutter
<1>4. CASE UNCHANGED skillVars
    <2>1. UNCHANGED <<skills, needs, open, editsMet, readsMet, answer>>
        BY <1>4 DEF skillVars, treeVars
    <2>2. answer \in {"fresh", "old", Nothing}
        BY DEF TreeInv, TreeTypeOK, Freshness
    <2> QED
        BY <2>1, <2>2, TreeStutter
<1> QED
    BY <1>1, <1>2, <1>3, <1>4 DEF TreeNext
-----------------------------------------------------------------------------
\* An answer of before an edit has a cause: a read and an edit that were open together.
LEMMA CacheInvariance ==
    TreeInv /\ CacheInv /\ [TreeNext]_skillVars => CacheInv'
<1> SUFFICES ASSUME TreeInv, CacheInv, [TreeNext]_skillVars
             PROVE  CacheInv'
    OBVIOUS
<1>1. Nothing \notin {"fresh", "old"} /\ readsMet \in BOOLEAN
    BY SkillConstantsOK DEF TreeInv, TreeTypeOK
<1>2. ASSUME NEW q \in Requests, NEW r, Begin(q, r), IsEdit(r), Clear
      PROVE  CacheInv'
    <2>1. /\ open' = [open EXCEPT ![q] = r] /\ answer' = Nothing /\ r.is # "read"
          /\ readsMet' = (readsMet \/ \E p \in Requests : open[p].is = "read")
        BY <1>2 DEF Begin, Clear, IsEdit
    <2>2. \A p \in Requests : open'[p] = IF p = q THEN r ELSE open[p]
        BY <2>1 DEF CacheInv
    <2> QED
        BY <1>1, <2>1, <2>2 DEF CacheInv
<1>3. ASSUME NEW q \in Requests, Read(q)
      PROVE  CacheInv'
    <2> DEFINE r == Answering("fresh")
    <2>1. r.is = "read" /\ r.as = "fresh" /\ ~IsEdit(r)
        BY DEF Answering, IsEdit
    <2>2. Begin(q, r) /\ answer = Nothing /\ answer' = Nothing
        BY <1>3 DEF Read
    <2> HIDE DEF r
    <2>3. /\ open' = [open EXCEPT ![q] = r]
          /\ readsMet' = (readsMet \/ \E p \in Requests : IsEdit(open[p]))
        BY <2>1, <2>2 DEF Begin
    <2>4. \A p \in Requests : open'[p] = IF p = q THEN r ELSE open[p]
        BY <2>3 DEF CacheInv
    <2> QED
        BY <1>1, <2>1, <2>2, <2>3, <2>4 DEF CacheInv
<1>4. ASSUME NEW q \in Requests, Store(q)
      PROVE  CacheInv'
    <2>1. /\ open[q].is = "read" /\ answer' = open[q].as /\ UNCHANGED readsMet
          /\ open' = [open EXCEPT ![q] = NoRequest]
        BY <1>4 DEF Store
    <2>2. NoRequest.is = "idle" /\ ~IsEdit(NoRequest)
        BY DEF NoRequest, IsEdit
    <2>3. \A p \in Requests : open'[p] = IF p = q THEN NoRequest ELSE open[p]
        BY <2>1 DEF CacheInv
    <2> QED
        BY <1>1, <2>1, <2>2, <2>3 DEF CacheInv
<1>5. ASSUME NEW q \in Requests, Commit(q)
      PROVE  CacheInv'
    <2>1. /\ IsEdit(open[q]) /\ answer' = (IF answer = Nothing THEN Nothing ELSE "old") /\ UNCHANGED readsMet
          /\ open' = [p \in Requests |-> IF p = q THEN NoRequest ELSE Aged(open[p])]
        BY <1>5 DEF Commit
    <2>2. ASSUME NEW p \in Requests
          PROVE  /\ IsEdit(open'[p]) => IsEdit(open[p])
                 /\ open'[p].is = "read" => open[p].is = "read" /\ open'[p].as = "old"
        <3>1. CASE p = q
            BY <2>1, <3>1 DEF NoRequest, IsEdit
        <3>2. CASE p # q
            BY <2>1, <3>2 DEF Aged, Answering, IsEdit
        <3> QED
            BY <3>1, <3>2
    <2> QED
        BY <1>1, <2>1, <2>2 DEF CacheInv
<1>6. ASSUME NEW q \in Requests, Fail(q)
      PROVE  CacheInv'
    <2>1. UNCHANGED <<answer, readsMet>> /\ open' = [open EXCEPT ![q] = NoRequest]
        BY <1>6 DEF Fail
    <2>2. NoRequest.is = "idle" /\ ~IsEdit(NoRequest)
        BY DEF NoRequest, IsEdit
    <2>3. \A p \in Requests : open'[p] = IF p = q THEN NoRequest ELSE open[p]
        BY <2>1 DEF CacheInv
    <2> QED
        BY <1>1, <2>1, <2>2, <2>3 DEF CacheInv
<1>7. CASE Expire
    BY <1>1, <1>7 DEF Expire, CacheInv
<1>8. CASE UNCHANGED skillVars
    BY <1>8 DEF skillVars, treeVars, CacheInv
<1>9. ASSUME NEW q \in Requests, NEW x \in Skills,
             \/ CreateRootSkill(q, x) \/ UpdateRootSkill(q, x) \/ DeleteRootSkill(q, x)
             \/ CreateSubSkill(q, x) \/ UpdateSubSkill(q, x) \/ DeleteSubSkill(q, x)
      PROVE  CacheInv'
    <2>1. CreateSkill(q, x) \/ UpdateSkill(q, x) \/ DeleteSkill(q, x)
        BY <1>9 DEF CreateRootSkill, UpdateRootSkill, DeleteRootSkill,
           CreateSubSkill, UpdateSubSkill, DeleteSubSkill
    <2>2. \E kind \in {"create", "update", "delete"} : \E wanted, seen : Begin(q, Edit(kind, x, wanted, seen))
        BY <2>1 DEF CreateSkill, UpdateSkill, DeleteSkill
    <2>3. Clear
        BY <2>1 DEF CreateSkill, UpdateSkill, DeleteSkill
    <2>4. PICK kind, wanted, seen : /\ kind \in {"create", "update", "delete"}
                                    /\ Begin(q, Edit(kind, x, wanted, seen))
        BY <2>2
    <2>5. IsEdit(Edit(kind, x, wanted, seen))
        BY <2>4 DEF Edit, IsEdit
    <2> QED
        BY <1>2, <2>3, <2>4, <2>5
<1> QED
    BY <1>3, <1>4, <1>5, <1>6, <1>7, <1>8, <1>9 DEF TreeNext
-----------------------------------------------------------------------------
\* However edits of the tree interleave, no chain of dependencies leads back to its skill as long as
\* no edit that adds dependencies was committed while another one was open (update_root_skill,
\* update_sub_skill, get_skill_dependents), and every row points to rows that exist.
THEOREM TreeSound == TreeSpec => []TreeIsSound
<1>1. TreeInit => TreeInv
    BY FirstTree
<1>2. TreeInv /\ [TreeNext]_skillVars => TreeInv'
    BY TreeInvariance
<1>3. TreeInv => TreeIsSound
    <2> SUFFICES ASSUME TreeInv
                 PROVE  TreeIsSound
        OBVIOUS
    <2>1. ASSUME ~editsMet
          PROVE  /\ Acyclic([x \in skills |-> needs[x]])
                 /\ Acyclic([x \in skills |-> Required(x)])
        <3>1. Ordered(skills, needs)
            BY <2>1 DEF TreeInv
        <3>2. Acyclic([x \in skills |-> needs[x]])
            BY <3>1 DEF Ordered, Acyclic
        <3>3. \A S \in SUBSET skills : S # {} => \E x \in S : Required(x) \cap S = {}
            BY <3>1, RequiredIsOrdered DEF TreeInv
        <3> DEFINE required == [x \in skills |-> Required(x)]
        <3>4. DOMAIN required = skills /\ \A x \in skills : required[x] = Required(x)
            OBVIOUS
        <3> HIDE DEF required
        <3>5. Acyclic(required)
            BY <3>3, <3>4 DEF Acyclic
        <3> QED
            BY <3>2, <3>5 DEF required
    <2> QED
        BY <2>1 DEF TreeInv, TreeIsSound, CyclesNeedTwoEdits
<1> QED
    BY <1>1, <1>2, <1>3, PTL DEF TreeSpec

\* An answer of before an edit of the tree is stored after it only if a read and an edit were open at
\* the same time (redis_cached and clear_cache in utils/cache.py).
THEOREM OldAnswersHaveMet == TreeSpec => []OldNeedsAMeeting
<1>1. TreeInit => TreeInv /\ CacheInv
    <2> SUFFICES ASSUME TreeInit
                 PROVE  CacheInv
        BY FirstTree
    <2>1. answer = Nothing /\ open = [q \in Requests |-> NoRequest]
        BY DEF TreeInit
    <2>2. \A q \in Requests : open[q].is = "idle"
        BY <2>1 DEF NoRequest
    <2> QED
        BY <2>1, <2>2, SkillConstantsOK DEF CacheInv, IsEdit
<1>2. TreeInv /\ CacheInv /\ [TreeNext]_skillVars => (TreeInv /\ CacheInv)'
    BY TreeInvariance, CacheInvariance
<1>3. CacheInv => OldNeedsAMeeting
    BY DEF CacheInv, OldNeedsAMeeting
<1> QED
    BY <1>1, <1>2, <1>3, PTL DEF TreeSpec
=============================================================================
