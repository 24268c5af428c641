--------------------------- MODULE DailyLimitProofs ---------------------------
(***************************************************************************)
(* Proofs about DailyLimit for any lessons, requests, limits and days:     *)
(* starts and receipts agree, the limit holds whenever a slot is taken, a  *)
(* slot once taken stays, and what the learner has bought or worked in     *)
(* takes none, whatever the shop and challenges-ms answer.                 *)
(***************************************************************************)
EXTENDS DailyLimit, FiniteSetTheorems, WellFoundedInduction, TLAPS

\* No lesson is begun on a day that has not come.
RowsArePast == \A l \in Names : starts[l] # None => starts[l].day <= day

\* A request that heard of the attempts heard of all that there were when it began.
HeardIsTrue == \A t \in Tasks : pc[t] # None /\ pc[t].history.state = "known"
                                    => pc[t].since \subseteq pc[t].history.lessons

IInv == /\ TypeOK
        /\ OneStartPerRequest
        /\ ErasedHasNoStarts
        /\ RowsArePast
        /\ HeardIsTrue
-----------------------------------------------------------------------------
\* A set of naturals that is not empty has a least element: among the intervals up to its
\* elements, one has no smaller one inside.
LEMMA LeastExists ==
    ASSUME NEW S \in SUBSET (Nat \ {0}), S # {}
    PROVE  Min(S) \in S /\ \A i \in S : Min(S) <= i
<1> DEFINE T == {1 .. i : i \in S}
<1>1. T \subseteq FiniteSubsetsOf(Nat)
    <2>1. ASSUME NEW i \in S
          PROVE  1 .. i \in FiniteSubsetsOf(Nat)
        <3>1. 1 \in Int /\ i \in Int
            OBVIOUS
        <3>2. IsFiniteSet(1 .. i)
            BY <3>1, FS_Interval
        <3> QED
            BY <3>2 DEF FiniteSubsetsOf
    <2> QED
        BY <2>1
<1>2. T # {}
    OBVIOUS
<1>3. PICK x \in T : \A y \in T : ~(<<y, x>> \in StrictSubsetOrdering(Nat))
    <2> HIDE DEF T
    <2> QED
        BY <1>1, <1>2, FS_StrictSubsetOrderingWellFounded, WFMin
<1>4. PICK m \in S : x = 1 .. m
    OBVIOUS
<1>5. ASSUME NEW i \in S
      PROVE  m <= i
    <2> SUFFICES ASSUME i < m
                 PROVE  FALSE
        OBVIOUS
    <2>1. 1 .. i \in T /\ 1 .. i \subseteq x /\ 1 .. i # x /\ x \subseteq Nat
        BY <1>4
    <2> QED
        BY <1>3, <2>1 DEF StrictSubsetOrdering
<1> QED
    BY <1>5 DEF Min

\* The first lesson of a set is one of it.
LEMMA FirstOK ==
    ASSUME NEW set \in SUBSET Names, set # {}
    PROVE  First(set) \in set
<1> DEFINE S == {i \in DOMAIN Lessons : Lessons[i] \in set}
<1>1. S \in SUBSET (Nat \ {0}) /\ S # {}
    BY DailyConstantsOK DEF Names, Range
<1>2. Min(S) \in S
    BY <1>1, LeastExists
<1> QED
    BY <1>2 DEF First

\* The lesson that shared work is charged to is one of those that may be begun.
LEMMA ChooseOK ==
    ASSUME NEW candidates \in SUBSET Names, candidates # {}, NEW history
    PROVE  Choose(candidates, history) \in candidates
<1>1. Known(candidates) \subseteq candidates
    BY DEF Known
<1>2. CASE Known(candidates) # {}
    BY <1>1, <1>2, FirstOK DEF Choose
<1>3. CASE Known(candidates) = {}
    BY <1>3, FirstOK DEF Choose
<1> QED
    BY <1>2, <1>3

\* What is evidence at challenges-ms is evidence for lessons.
LEMMA RemoteOK == Remote \subseteq Names /\ Sharing \subseteq Remote
    BY DailyConstantsOK DEF Remote, Exercises

\* A request hears nothing, or what challenges-ms may answer.
LEMMA EvidenceOK ==
    ASSUME TypeOK
    PROVE  Unread \in Histories /\ Evidence \subseteq Histories
    BY RemoteOK DEF TypeOK, Unread, Evidence, Histories

\* There are finitely many lessons.
LEMMA NamesFinite == IsFiniteSet(Names)
<1> DEFINE n == Len(Lessons)
<1>1. n \in Nat /\ DOMAIN Lessons = 1 .. n
    BY DailyConstantsOK
<1>2. IsFiniteSet(1 .. n)
    <2>1. 1 \in Int /\ n \in Int
        BY <1>1
    <2> HIDE DEF n
    <2> QED
        BY <2>1, FS_Interval
<1>3. Lessons \in Surjection(1 .. n, Names)
    BY <1>1, DailyConstantsOK DEF Surjection, Names, Range
<1> QED
    BY <1>2, <1>3, FS_Surjection

\* A lesson that is begun takes at most one slot of its day.
LEMMA UsedGrows ==
    ASSUME NEW s \in [Names -> Rows \cup {None}], NEW l \in Names, NEW row, NEW d, s[l] = None
    PROVE  /\ Used(s, d) \in Nat
           /\ Used([s EXCEPT ![l] = row], d) \in Nat
           /\ Used([s EXCEPT ![l] = row], d) <= Used(s, d) + 1
<1> DEFINE slots(f) == {k \in Names : f[k] # None /\ f[k].charged /\ f[k].day = d}
           after == [s EXCEPT ![l] = row]
<1>1. \A f : slots(f) \in SUBSET Names
    OBVIOUS
<1>2. slots(after) \subseteq slots(s) \cup {l}
    OBVIOUS
<1> HIDE DEF slots, after
<1>3. IsFiniteSet(slots(s)) /\ IsFiniteSet(slots(after))
    BY <1>1, NamesFinite, FS_Subset
<1>4. Cardinality(slots(s)) \in Nat /\ Cardinality(slots(after)) \in Nat
    BY <1>3, FS_CardinalityType
<1>5. /\ IsFiniteSet(slots(s) \cup {l})
      /\ Cardinality(slots(s) \cup {l}) = IF l \in slots(s) THEN Cardinality(slots(s))
                                          ELSE Cardinality(slots(s)) + 1
    BY <1>3, FS_AddElement
<1>6. Cardinality(slots(after)) <= Cardinality(slots(s) \cup {l})
    BY <1>2, <1>5, FS_Subset
<1> QED
    BY <1>4, <1>5, <1>6 DEF slots, after, Used
-----------------------------------------------------------------------------
\* What status answers: nothing without the shop's policy or needed evidence.
LEMMA StatusOK ==
    ASSUME TypeOK, NEW l \in Names, NEW ctx \in Contexts
    PROVE  /\ Status(l, ctx) = None <=> ctx.policy = None \/ (~Unlimited(l, ctx.policy) /\ Uncertain(l, ctx))
           /\ Status(l, ctx) # None =>
                 /\ Status(l, ctx).unlimited <=> Unlimited(l, ctx.policy)
                 /\ Status(l, ctx).enforced => config.mode = "enforce"
                 /\ Status(l, ctx).open =>
                       \/ ~Status(l, ctx).enforced \/ Status(l, ctx).unlimited
                       \/ starts[l] # None \/ Old(l, ctx)
                       \/ Used(starts, day) < config.limit
<1>1. CASE ctx.policy = None \/ (~Unlimited(l, ctx.policy) /\ Uncertain(l, ctx))
    BY <1>1 DEF Status
<1>2. CASE ~(ctx.policy = None \/ (~Unlimited(l, ctx.policy) /\ Uncertain(l, ctx)))
    <2>1. Unlimited(l, ctx.policy) \in BOOLEAN
        <3>1. ctx.policy \in Policies
            BY <1>2 DEF Contexts
        <3>2. ctx.policy.premium \in BOOLEAN
            BY <3>1, DailyConstantsOK
        <3> QED
            BY <3>2 DEF Unlimited
    <2> DEFINE enforced == ctx.policy.mode = "daily" /\ config.mode = "enforce"
               open == \/ ~enforced \/ Unlimited(l, ctx.policy) \/ starts[l] # None \/ Old(l, ctx)
                       \/ Used(starts, day) < config.limit
    <2>2. enforced \in BOOLEAN /\ open \in BOOLEAN
        OBVIOUS
    <2>3. Status(l, ctx) = [unlimited |-> Unlimited(l, ctx.policy), enforced |-> enforced, open |-> open]
        BY <1>2 DEF Status
    <2>4. (enforced => config.mode = "enforce")
          /\ (open => \/ ~enforced \/ Unlimited(l, ctx.policy) \/ starts[l] # None \/ Old(l, ctx)
                      \/ Used(starts, day) < config.limit)
        OBVIOUS
    <2> PICK u \in BOOLEAN, e \in BOOLEAN, o \in BOOLEAN :
                 u = Unlimited(l, ctx.policy) /\ e = enforced /\ o = open
        BY <2>1, <2>2
    <2> HIDE DEF enforced, open
    <2>5. Status(l, ctx) = [unlimited |-> u, enforced |-> e, open |-> o]
        BY <2>3
    <2>6. Status(l, ctx) # None
        BY <2>5, NoneIsNoRow DEF Answers
    <2>7. Status(l, ctx).unlimited = u /\ Status(l, ctx).enforced = e /\ Status(l, ctx).open = o
        BY <2>5
    <2> QED
        BY <1>2, <2>4, <2>6, <2>7
<1> QED
    BY <1>1, <1>2

\* The row of a lesson begun on day d, for a request that hears what is true.  It takes a slot
\* only of a lesson that the learner has not bought and not worked in; a slot of an enforced
\* allowance leaves its day within the limit.
Unproven(l, history) == l \notin history.lessons /\ (l \in Remote => history.state # "lost")
RowIsRight(l, ctx, d, row) ==
    /\ row \in Rows /\ row.day = d /\ row.by = ctx.request
    /\ row.charged => l \notin purchases /\ ~Local(l) /\ Unproven(l, ctx.history)
    /\ row.enforced => Used([starts EXCEPT ![l] = row], d) <= config.limit

\* The row of a lesson that is begun is right: a slot is taken only of a lesson that needs one.
LEMMA NewRowOK ==
    ASSUME TypeOK, RowsArePast, NEW l \in Names, NEW ctx \in Contexts, starts[l] = None,
           MayStart(l, ctx), NEW d \in {day, day + 1}
    PROVE  RowIsRight(l, ctx, d, NewRow(l, ctx, d))
<1> DEFINE daily == Status(l, ctx)
           old == IF daily # None /\ daily.unlimited THEN Local(l) ELSE Old(l, ctx)
           charge == daily # None /\ ~old /\ ~daily.unlimited /\ config.mode # "off"
           row == NewRow(l, ctx, d)
<1>1. row = [day |-> d, charged |-> charge, enforced |-> charge /\ daily.enforced, by |-> ctx.request]
    BY DEF NewRow
<1>2. day \in Nat /\ d \in Nat /\ config.limit \in Nat \ {0} /\ starts \in [Names -> Rows \cup {None}]
    BY DailyConstantsOK DEF TypeOK, Configurations
<1>3. row \in Rows /\ row.day = d /\ row.by = ctx.request
    BY <1>1, <1>2 DEF Rows, Contexts
<1> PICK c \in BOOLEAN, e \in BOOLEAN : c = charge /\ e = (charge /\ daily.enforced)
    OBVIOUS
<1>a. row = [day |-> d, charged |-> c, enforced |-> e, by |-> ctx.request]
    BY <1>1
<1>b. row.charged = c /\ row.enforced = e
    BY <1>a
<1>4. row.charged <=> charge
    BY <1>b
<1>5. row.enforced <=> charge /\ daily.enforced
    BY <1>b
<1>6. charge => daily # None /\ ~daily.unlimited /\ ~Old(l, ctx)
    OBVIOUS
<1>7. daily # None /\ ~daily.unlimited => ~Unlimited(l, ctx.policy) /\ ~Uncertain(l, ctx)
    BY StatusOK
<1> HIDE DEF row, daily, charge
<1>8. row.charged => l \notin purchases /\ ~Local(l) /\ Unproven(l, ctx.history)
    BY <1>4, <1>6, <1>7 DEF Unlimited, Uncertain, Old, Begun, Unproven
<1>9. ASSUME row.enforced
      PROVE  Used([starts EXCEPT ![l] = row], d) <= config.limit
    <2>1. daily # None /\ daily.enforced /\ ~daily.unlimited /\ ~Old(l, ctx)
        BY <1>5, <1>6, <1>9
    <2>2. daily.open
        BY <2>1 DEF MayStart, daily
    <2>3. Used(starts, day) < config.limit
        BY <2>1, <2>2, StatusOK DEF daily
    <2>4. /\ Used(starts, d) \in Nat /\ Used([starts EXCEPT ![l] = row], d) \in Nat
          /\ Used([starts EXCEPT ![l] = row], d) <= Used(starts, d) + 1
        BY <1>2, UsedGrows
    <2>5. CASE d = day
        BY <2>3, <2>4, <2>5, <1>2
    <2>6. CASE d = day + 1
        <3>1. {k \in Names : starts[k] # None /\ starts[k].charged /\ starts[k].day = d} = {}
            BY <2>6, <1>2 DEF RowsArePast, Rows
        <3>2. Used(starts, d) = 0
            BY <3>1, FS_EmptySet DEF Used
        <3> QED
            BY <3>2, <2>4, <1>2
    <2> QED
        BY <2>5, <2>6
<1> QED
    BY <1>3, <1>8, <1>9 DEF RowIsRight, row
-----------------------------------------------------------------------------
\* What a request that is admitted to a lesson does under the guard: it begins the lesson, at most,
\* and a request with an id that has no receipt yet gets one for this lesson.
Begins(l, ctx) == /\ starts[l] = None
                  /\ \E d \in {day, day + 1} \cap 1 .. MaxDay, row \in Rows :
                        RowIsRight(l, ctx, d, row) /\ starts' = [starts EXCEPT ![l] = row] /\ day' = d
Admitted(l, ctx) ==
    /\ UNCHANGED <<starts, day>> \/ Begins(l, ctx)
    /\ \/ receipt' = receipt /\ (starts' # starts => ctx.request = None)
       \/ /\ ctx.request # None /\ receipt[ctx.request] = None
          /\ receipt' = [receipt EXCEPT ![ctx.request] = l]

\* Admission does no more than begin the lesson and keep a receipt for it.
LEMMA AdmitEffect ==
    ASSUME TypeOK, RowsArePast, NEW l \in Names, NEW ctx \in Contexts, Admit(l, ctx)
    PROVE  Admitted(l, ctx)
<1> DEFINE repeated == ctx.request # None /\ receipt[ctx.request] # None
<1>1. UNCHANGED <<starts, receipt, day>> \/ (~repeated /\ MayStart(l, ctx) /\ Starts(l, ctx))
    BY DEF Admit
<1>2. CASE UNCHANGED <<starts, receipt, day>>
    BY <1>2 DEF Admitted
<1>3. CASE ~repeated /\ MayStart(l, ctx) /\ Starts(l, ctx)
    <2>1. UNCHANGED <<starts, day>> \/ Begins(l, ctx)
        <3>1. CASE starts[l] # None
            BY <1>3, <3>1 DEF Starts
        <3>2. CASE starts[l] = None
            <4>1. PICK d \in day .. MaxDay : /\ d <= day + 1 /\ day' = d
                                            /\ starts' = [starts EXCEPT ![l] = NewRow(l, ctx, d)]
                BY <1>3, <3>2 DEF Starts
            <4>2. day \in 1 .. MaxDay
                BY DEF TypeOK
            <4>3. d \in {day, day + 1} /\ d \in 1 .. MaxDay
                BY <4>1, <4>2, DailyConstantsOK
            <4>4. RowIsRight(l, ctx, d, NewRow(l, ctx, d))
                BY <1>3, <3>2, <4>3, NewRowOK
            <4>5. NewRow(l, ctx, d) \in Rows
                BY <4>4 DEF RowIsRight
            <4> QED
                BY <3>2, <4>1, <4>3, <4>4, <4>5 DEF Begins
        <3> QED
            BY <3>1, <3>2
    <2>2. receipt' = IF ctx.request = None THEN receipt ELSE [receipt EXCEPT ![ctx.request] = l]
        BY <1>3 DEF Starts
    <2> QED
        BY <1>3, <2>1, <2>2 DEF Admitted
<1> QED
    BY <1>1, <1>2, <1>3

\* What any step owes the learner: no start is lost, a slot that is taken is within the limit, and
\* it is taken for none of the lessons that are the learner's, nor for other lessons than l.
Durable == \A k \in Names : starts[k] # None => starts'[k] = starts[k]
WithinLimit == \A k \in Names : NewStart(k) /\ starts'[k].enforced
                                   => Used(starts', starts'[k].day) <= config.limit
SlotsOnlyFor(l, ctx) ==
    \A k \in Names : NewStart(k) /\ starts'[k].charged =>
        k = l /\ k \notin purchases /\ ~Local(k) /\ Unproven(k, ctx.history)

\* Admission keeps the starts and the receipts in agreement.
LEMMA AdmittedStep ==
    ASSUME IInv, ~erased, erased' = erased, NEW l \in Names, NEW ctx \in Contexts, Admitted(l, ctx)
    PROVE  /\ day' \in 1 .. MaxDay
           /\ starts' \in [Names -> Rows \cup {None}]
           /\ receipt' \in [Requests -> Names \cup {None}]
           /\ OneStartPerRequest' /\ ErasedHasNoStarts' /\ RowsArePast'
           /\ Durable /\ WithinLimit /\ SlotsOnlyFor(l, ctx)
<1>1. /\ day \in 1 .. MaxDay /\ MaxDay \in Nat
      /\ starts \in [Names -> Rows \cup {None}]
      /\ receipt \in [Requests -> Names \cup {None}]
      /\ ctx.request \in Requests \cup {None}
      /\ OneStartPerRequest /\ RowsArePast
    BY DailyConstantsOK DEF IInv, TypeOK, Contexts
<1>2. receipt' \in [Requests -> Names \cup {None}]
    BY <1>1 DEF Admitted
<1>3. ErasedHasNoStarts'
    BY DEF ErasedHasNoStarts
<1>4. CASE UNCHANGED <<starts, day>>
    <2>1. OneStartPerRequest'
        BY <1>1, <1>4, DailyConstantsOK DEF OneStartPerRequest, Admitted, Rows
    <2>2. RowsArePast'
        BY <1>1, <1>4 DEF RowsArePast
    <2>3. Durable /\ WithinLimit /\ SlotsOnlyFor(l, ctx)
        BY <1>4 DEF Durable, WithinLimit, SlotsOnlyFor, NewStart
    <2> QED
        BY <1>1, <1>2, <1>3, <1>4, <2>1, <2>2, <2>3
<1>5. CASE Begins(l, ctx)
    <2>1. PICK d \in {day, day + 1} \cap 1 .. MaxDay, row \in Rows :
              RowIsRight(l, ctx, d, row) /\ starts' = [starts EXCEPT ![l] = row] /\ day' = d
        BY <1>5 DEF Begins
    <2>2. starts[l] = None /\ row # None /\ row.day = d /\ row.by = ctx.request
        BY <1>5, <2>1, NoneIsNoRow DEF Begins, RowIsRight
    <2>3. day' \in 1 .. MaxDay /\ starts' \in [Names -> Rows \cup {None}] /\ day <= day'
        BY <1>1, <2>1
    <2>4. starts'[l] = row /\ \A k \in Names : k # l => starts'[k] = starts[k]
        BY <1>1, <2>1
    <2>5. RowsArePast'
        BY <1>1, <2>1, <2>2, <2>3, <2>4 DEF RowsArePast, Rows
    <2>6. OneStartPerRequest'
        <3>1. \A k \in Names : starts[k] # None /\ starts[k].by # None => starts[k].by \in Requests
            BY <1>1 DEF Rows
        <3> QED
            BY <1>1, <2>1, <2>2, <2>4, <3>1, DailyConstantsOK DEF OneStartPerRequest, Admitted
    <2>7. Durable
        BY <2>2, <2>4 DEF Durable
    <2>8. WithinLimit
        BY <2>1, <2>2, <2>4 DEF WithinLimit, NewStart, RowIsRight
    <2>9. SlotsOnlyFor(l, ctx)
        BY <2>1, <2>4 DEF SlotsOnlyFor, NewStart, RowIsRight
    <2> QED
        BY <1>2, <1>3, <2>3, <2>5, <2>6, <2>7, <2>8, <2>9
<1> QED
    BY <1>4, <1>5 DEF Admitted
-----------------------------------------------------------------------------
\* What is the learner's takes no slot, whichever service fails meanwhile.
TakesNoSlot(k) == /\ k \notin purchases /\ ~Local(k)
                  /\ k \in attempted => \E t \in Tasks : pc[t] # None /\ pc'[t] = None /\ k \notin pc[t].since
TakesNothingOwn == \A k \in Names : NewStart(k) /\ starts'[k].charged => TakesNoSlot(k)
StepOK == (~erased' => Durable) /\ WithinLimit /\ TakesNothingOwn

\* A request that is one step hears of challenges-ms what is true.
LEMMA AtOnceAdmits ==
    ASSUME IInv, NEW candidates \in SUBSET Names, NEW request \in Requests \cup {None},
           AtOnce(candidates, request)
    PROVE  \E l \in candidates, ctx \in Contexts :
              /\ Admit(l, ctx)
              /\ ~Begun(l) /\ Unproven(l, ctx.history) => l \notin attempted
<1> DEFINE asked == IF \A l \in candidates \cap Remote : Begun(l) THEN {Unread} ELSE Evidence
           ctx(policy, heard) == [lesson |-> Choose(candidates, heard), request |-> request,
                                  policy |-> policy, history |-> heard, since |-> attempted]
<1>1. PICK policy \in Policies \cup {None}, heard \in asked :
           /\ \E l \in candidates : Admits(l, policy, heard)
           /\ Admit(Choose(candidates, heard), ctx(policy, heard))
    BY DEF AtOnce
<1>2. PICK l \in candidates : l = Choose(candidates, heard)
    BY <1>1, ChooseOK
<1>a. TypeOK /\ attempted \subseteq Remote /\ attempted \subseteq Names
    BY RemoteOK DEF IInv, TypeOK
<1>3. heard \in Histories
    BY <1>a, EvidenceOK
<1>4. ctx(policy, heard) \in Contexts /\ ctx(policy, heard).history = heard
    BY <1>a, <1>2, <1>3 DEF Contexts
<1>5. ~Begun(l) /\ Unproven(l, heard) => l \notin attempted
    BY <1>a DEF Evidence, Unproven
<1> HIDE DEF ctx
<1> QED
    BY <1>1, <1>2, <1>4, <1>5

\* Its step is right.
LEMMA AtOnceStep ==
    ASSUME IInv, ~erased, erased' = erased, NEW candidates \in SUBSET Names,
           NEW request \in Requests \cup {None}, AtOnce(candidates, request)
    PROVE  /\ day' \in 1 .. MaxDay
           /\ starts' \in [Names -> Rows \cup {None}]
           /\ receipt' \in [Requests -> Names \cup {None}]
           /\ OneStartPerRequest' /\ ErasedHasNoStarts' /\ RowsArePast'
           /\ StepOK
<1>1. PICK l \in candidates, ctx \in Contexts :
              /\ Admit(l, ctx)
              /\ ~Begun(l) /\ Unproven(l, ctx.history) => l \notin attempted
    BY AtOnceAdmits
<1>2. Admitted(l, ctx)
    BY <1>1, AdmitEffect DEF IInv
<1>3. /\ day' \in 1 .. MaxDay
      /\ starts' \in [Names -> Rows \cup {None}]
      /\ receipt' \in [Requests -> Names \cup {None}]
      /\ OneStartPerRequest' /\ ErasedHasNoStarts' /\ RowsArePast'
      /\ Durable /\ WithinLimit /\ SlotsOnlyFor(l, ctx)
    BY <1>2, AdmittedStep
<1>4. TakesNothingOwn
    BY <1>1, <1>3 DEF TakesNothingOwn, TakesNoSlot, SlotsOnlyFor, Begun, NewStart
<1> QED
    BY <1>3, <1>4 DEF StepOK

\* A request for work on the exercise carries what it heard into the guard.
LEMMA BeginStep ==
    ASSUME IInv, NEW t \in Tasks, NEW request \in Requests, Begin(t, request)
    PROVE  IInv' /\ StepOK
<1> DEFINE ctx(policy, heard, lesson) == [lesson |-> lesson, request |-> request,
                                          policy |-> policy, history |-> heard, since |-> attempted]
<1>1. UNCHANGED <<erased, learner, world>>
    BY DEF Begin
<1>2. \E policy \in Policies \cup {None}, heard \in Evidence \cup {Unread}, lesson \in Names :
          pc' = [pc EXCEPT ![t] = ctx(policy, heard, lesson)]
    <2>1. PICK policy \in Policies \cup {None}, heard \in Evidence \cup {Unread} :
              LET admitted == {l \in Sharing : Admits(l, policy, heard)}
              IN admitted # {} /\ pc' = [pc EXCEPT ![t] = ctx(policy, heard, Choose(admitted, heard))]
        BY DEF Begin
    <2> DEFINE admitted == {l \in Sharing : Admits(l, policy, heard)}
    <2>2. admitted \in SUBSET Names /\ admitted # {}
        BY <2>1, DailyConstantsOK
    <2>3. Choose(admitted, heard) \in Names
        <3> HIDE DEF admitted
        <3> QED
            BY <2>2, ChooseOK
    <2> QED
        BY <2>1, <2>3
<1>3. PICK policy \in Policies \cup {None}, heard \in Evidence \cup {Unread}, lesson \in Names :
          pc' = [pc EXCEPT ![t] = ctx(policy, heard, lesson)]
    BY <1>2
<1>a. TypeOK /\ attempted \subseteq Names
    BY RemoteOK DEF IInv, TypeOK
<1>b. heard \in Histories /\ (heard.state = "known" => heard.lessons = attempted)
    BY <1>a, EvidenceOK DEF Evidence, Unread
<1>4. /\ ctx(policy, heard, lesson) \in Contexts
      /\ ctx(policy, heard, lesson).history = heard /\ ctx(policy, heard, lesson).since = attempted
    BY <1>a, <1>b DEF Contexts
<1> HIDE DEF ctx
<1>5. pc' \in [Tasks -> Contexts \cup {None}]
    BY <1>3, <1>4 DEF IInv, TypeOK
<1>6. HeardIsTrue'
    BY <1>3, <1>4, <1>b DEF IInv, TypeOK, HeardIsTrue
<1>7. TypeOK' /\ OneStartPerRequest' /\ ErasedHasNoStarts' /\ RowsArePast'
    BY <1>1, <1>5 DEF IInv, TypeOK, OneStartPerRequest, ErasedHasNoStarts, RowsArePast, learner, world
<1>8. StepOK
    BY <1>1 DEF StepOK, Durable, WithinLimit, TakesNothingOwn, NewStart, learner
<1> QED
    BY <1>6, <1>7, <1>8 DEF IInv

\* Under the guard it hears of challenges-ms at last, if its lesson is still not begun.
LEMMA StartStep ==
    ASSUME IInv, NEW t \in Tasks, Start(t)
    PROVE  IInv' /\ StepOK
<1> DEFINE asked == IF pc[t].history.state = "unread" /\ ~Begun(pc[t].lesson) THEN Evidence ELSE {pc[t].history}
<1>1. PICK heard \in asked : Admit(pc[t].lesson, [pc[t] EXCEPT !.history = heard])
    BY DEF Start
<1>2. /\ pc[t] # None /\ ~erased /\ pc' = [pc EXCEPT ![t] = None]
      /\ UNCHANGED <<erased, purchases, room, lectures, config, attempted>>
    BY DEF Start
<1>3. pc[t] \in Contexts
    BY <1>2 DEF IInv, TypeOK
<1>4. PICK old \in Contexts : old = pc[t]
    BY <1>3
<1>5. heard \in Histories
    BY <1>4, EvidenceOK DEF IInv, Contexts
<1>6. PICK l \in Names, ctx \in Contexts : l = old.lesson /\ ctx = [old EXCEPT !.history = heard] /\ ctx.history = heard
    <2>1. old.lesson \in Names
        BY DEF Contexts
    <2>2. [old EXCEPT !.history = heard] \in Contexts /\ [old EXCEPT !.history = heard].history = heard
        BY <1>5 DEF Contexts
    <2> QED
        BY <2>1, <2>2
<1>7. Admitted(l, ctx)
    BY <1>1, <1>4, <1>6, AdmitEffect DEF IInv
<1>8. /\ day' \in 1 .. MaxDay
      /\ starts' \in [Names -> Rows \cup {None}]
      /\ receipt' \in [Requests -> Names \cup {None}]
      /\ OneStartPerRequest' /\ ErasedHasNoStarts' /\ RowsArePast'
      /\ Durable /\ WithinLimit /\ SlotsOnlyFor(l, ctx)
    BY <1>2, <1>7, AdmittedStep
<1>9. pc' \in [Tasks -> Contexts \cup {None}] /\ pc'[t] = None /\ \A u \in Tasks : u # t => pc'[u] = pc[u]
    BY <1>2 DEF IInv, TypeOK
<1>10. TakesNothingOwn
    <2>1. starts[l] = None /\ ~Local(l) /\ Unproven(l, heard) /\ l \in attempted => l \notin old.since
        <3> SUFFICES ASSUME starts[l] = None, ~Local(l), Unproven(l, heard), l \in attempted
                     PROVE  l \notin old.since
            OBVIOUS
        <3>1. ~Begun(l) /\ l \in Remote
            BY DEF Begun, IInv, TypeOK
        <3>2. heard.state # "lost" /\ l \notin heard.lessons
            BY <3>1 DEF Unproven
        <3>3. old.history.state # "unread" /\ heard = old.history
            BY <1>4, <1>6, <3>1, <3>2 DEF Evidence
        <3>4. old.history.state = "known"
            BY <3>2, <3>3, <1>5 DEF Histories
        <3> QED
            BY <1>2, <1>4, <3>2, <3>3, <3>4 DEF IInv, HeardIsTrue
    <2> QED
        BY <1>2, <1>4, <1>6, <1>8, <1>9, <2>1 DEF TakesNothingOwn, TakesNoSlot, SlotsOnlyFor, NewStart
<1>11. TypeOK' /\ HeardIsTrue'
    BY <1>2, <1>8, <1>9 DEF IInv, TypeOK, HeardIsTrue
<1> QED
    BY <1>8, <1>10, <1>11 DEF IInv, StepOK

\* Every other step: a request that is one step, a change around it, or the erasure.
LEMMA OtherSteps ==
    ASSUME IInv, \/ \E l \in Names, request \in Requests : StartLesson(l, request)
                 \/ \E l \in Lectured : CompleteLecture(l)
                 \/ Work \/ Attempt \/ Configure \/ Midnight
                 \/ \E l \in Sold : Buy(l)
    PROVE  IInv' /\ StepOK
<1> DEFINE Result == /\ day' \in 1 .. MaxDay
                     /\ starts' \in [Names -> Rows \cup {None}]
                     /\ receipt' \in [Requests -> Names \cup {None}]
                     /\ OneStartPerRequest' /\ ErasedHasNoStarts' /\ RowsArePast'
                     /\ StepOK
<1>0. IInv /\ TypeOK /\ HeardIsTrue
    BY DEF IInv
<1>1. ASSUME NEW l \in Names, NEW request \in Requests, StartLesson(l, request)
      PROVE  IInv' /\ StepOK
    <2>1. Result
        BY <1>1, AtOnceStep DEF StartLesson
    <2> QED
        BY <1>0, <1>1, <2>1 DEF StartLesson, IInv, TypeOK, HeardIsTrue
<1>2. ASSUME NEW l \in Lectured, CompleteLecture(l)
      PROVE  IInv' /\ StepOK
    <2>1. Result
        BY <1>2, AtOnceStep, DailyConstantsOK DEF CompleteLecture
    <2> QED
        BY <1>0, <1>2, <2>1 DEF CompleteLecture, IInv, TypeOK, HeardIsTrue
<1>3. CASE Work
    <2>1. PICK scope \in RoomScopes : AtOnce(scope, None)
        BY <1>3 DEF Work
    <2>2. scope \in SUBSET Names
        BY DailyConstantsOK DEF RoomScopes
    <2>3. Result
        BY <1>3, <2>1, <2>2, AtOnceStep DEF Work
    <2> QED
        BY <1>0, <1>3, <2>3 DEF Work, IInv, TypeOK, HeardIsTrue
<1>4. ASSUME UNCHANGED <<starts, receipt>>, day <= day', erased' = erased, pc' = pc, TypeOK'
      PROVE  IInv' /\ StepOK
    <2>1. OneStartPerRequest' /\ ErasedHasNoStarts' /\ HeardIsTrue'
        BY <1>4 DEF IInv, OneStartPerRequest, ErasedHasNoStarts, HeardIsTrue
    <2>2. RowsArePast'
        BY <1>0, <1>4, DailyConstantsOK DEF IInv, TypeOK, RowsArePast, Rows
    <2>3. StepOK
        BY <1>4 DEF StepOK, Durable, WithinLimit, TakesNothingOwn, NewStart
    <2> QED
        BY <1>4, <2>1, <2>2, <2>3 DEF IInv
<1>5. day \in Nat /\ day <= day /\ MaxDay \in Nat
    BY <1>0, DailyConstantsOK DEF TypeOK
<1>6. CASE Attempt
    <2>1. attempted' \subseteq Remote
        BY <1>0, <1>6 DEF Attempt, TypeOK, Remote
    <2> QED
        BY <1>0, <1>4, <1>5, <1>6, <2>1 DEF Attempt, TypeOK, learner
<1>7. CASE Configure
    BY <1>0, <1>4, <1>5, <1>7 DEF Configure, TypeOK, learner
<1>8. ASSUME NEW l \in Sold, Buy(l)
      PROVE  IInv' /\ StepOK
    BY <1>0, <1>4, <1>5, <1>8 DEF Buy, TypeOK, world
<1>9. CASE Midnight
    BY <1>0, <1>4, <1>5, <1>9 DEF Midnight, TypeOK, learner
<1> QED
    BY <1>1, <1>2, <1>3, <1>6, <1>7, <1>8, <1>9

\* Lessons of before are begun without a slot.
LEMMA BackfillStep ==
    ASSUME IInv, Backfill
    PROVE  IInv' /\ StepOK
<1>1. PICK old \in SUBSET {l \in Names : starts[l] = None} :
           starts' = [l \in Names |-> IF l \in old THEN HistoricalRow ELSE starts[l]]
    BY DEF Backfill
<1>2. /\ ~erased /\ UNCHANGED <<erased, receipt, purchases, room, lectures, world, pc>>
      /\ TypeOK /\ OneStartPerRequest /\ RowsArePast /\ HeardIsTrue /\ day \in Nat
    BY DailyConstantsOK DEF Backfill, IInv, TypeOK
<1>3. /\ HistoricalRow \in Rows /\ HistoricalRow.day = day /\ HistoricalRow.by = None
      /\ ~HistoricalRow.charged /\ ~HistoricalRow.enforced
    BY <1>2 DEF HistoricalRow, Rows
<1>4. /\ starts' \in [Names -> Rows \cup {None}]
      /\ \A l \in old : starts'[l] = HistoricalRow /\ starts[l] = None
      /\ \A l \in Names \ old : starts'[l] = starts[l]
    BY <1>1, <1>2, <1>3 DEF TypeOK
<1>5. TypeOK' /\ HeardIsTrue' /\ ErasedHasNoStarts'
    BY <1>2, <1>4 DEF TypeOK, HeardIsTrue, ErasedHasNoStarts, world
<1>6. OneStartPerRequest' /\ RowsArePast'
    BY <1>2, <1>3, <1>4 DEF OneStartPerRequest, RowsArePast, world
<1>7. StepOK
    BY <1>3, <1>4 DEF StepOK, Durable, WithinLimit, TakesNothingOwn, NewStart
<1> QED
    BY <1>5, <1>6, <1>7 DEF IInv

\* The erasure takes them all.
LEMMA EraseStep ==
    ASSUME IInv, Erase
    PROVE  IInv' /\ StepOK
<1>1. TypeOK' /\ OneStartPerRequest' /\ ErasedHasNoStarts' /\ RowsArePast' /\ HeardIsTrue'
    BY DEF Erase, IInv, TypeOK, OneStartPerRequest, ErasedHasNoStarts, RowsArePast, HeardIsTrue, world
<1>2. StepOK
    BY DEF Erase, StepOK, WithinLimit, TakesNothingOwn, NewStart
<1> QED
    BY <1>1, <1>2 DEF IInv

\* A refusal rolls back, and a step of others changes nothing here.
LEMMA QuietStep ==
    ASSUME IInv, UNCHANGED <<erased, learner, world>>,
           pc' = pc \/ \E t \in Tasks : pc' = [pc EXCEPT ![t] = None]
    PROVE  IInv' /\ StepOK
<1>1. pc' \in [Tasks -> Contexts \cup {None}] /\ \A t \in Tasks : pc'[t] # None => pc'[t] = pc[t]
    BY DEF IInv, TypeOK
<1>2. TypeOK' /\ HeardIsTrue'
    BY <1>1 DEF IInv, TypeOK, HeardIsTrue, learner, world
<1>3. OneStartPerRequest' /\ ErasedHasNoStarts' /\ RowsArePast'
    BY DEF IInv, OneStartPerRequest, ErasedHasNoStarts, RowsArePast, learner, world
<1>4. StepOK
    BY DEF StepOK, Durable, WithinLimit, TakesNothingOwn, NewStart, learner
<1> QED
    BY <1>2, <1>3, <1>4 DEF IInv

\* Every step keeps the invariant and is right.
LEMMA Invariance == IInv /\ [Next]_dailyVars => IInv' /\ StepOK
<1> SUFFICES ASSUME IInv, [Next]_dailyVars
             PROVE  IInv' /\ StepOK
    OBVIOUS
<1>1. ASSUME NEW t \in Tasks, (\E request \in Requests : Begin(t, request)) \/ Start(t) \/ Refuse(t)
      PROVE  IInv' /\ StepOK
    BY <1>1, BeginStep, StartStep, QuietStep DEF Refuse
<1>2. CASE \/ \E l \in Names, request \in Requests : StartLesson(l, request)
           \/ \E l \in Lectured : CompleteLecture(l)
           \/ Work \/ Attempt \/ Configure \/ Midnight
           \/ \E l \in Sold : Buy(l)
    BY <1>2, OtherSteps
<1>3. CASE Backfill
    BY <1>3, BackfillStep
<1>4. CASE Erase
    BY <1>4, EraseStep
<1>5. CASE UNCHANGED dailyVars
    BY <1>5, QuietStep DEF dailyVars
<1> QED
    BY <1>1, <1>2, <1>3, <1>4, <1>5 DEF Next

\* It holds before any request.
LEMMA InitInv == Init => IInv
<1> SUFFICES ASSUME Init
             PROVE  IInv
    OBVIOUS
<1>1. TypeOK
    <2>1. day \in 1 .. MaxDay
        BY DailyConstantsOK DEF Init
    <2>2. erased \in BOOLEAN /\ config \in Configurations /\ attempted \subseteq Remote
        BY DEF Init, Remote
    <2>3. starts \in [Names -> Rows \cup {None}] /\ receipt \in [Requests -> Names \cup {None}]
        BY DEF Init
    <2>4. pc \in [Tasks -> Contexts \cup {None}]
        BY DEF Init
    <2>5. purchases \subseteq Sold /\ room \in BOOLEAN /\ lectures \subseteq Lectured
        BY DEF Init
    <2> QED
        BY <2>1, <2>2, <2>3, <2>4, <2>5 DEF TypeOK
<1>2. OneStartPerRequest /\ ErasedHasNoStarts /\ RowsArePast /\ HeardIsTrue
    BY DEF Init, OneStartPerRequest, ErasedHasNoStarts, RowsArePast, HeardIsTrue
<1> QED
    BY <1>1, <1>2 DEF IInv
-----------------------------------------------------------------------------
\* The inductive invariant holds in every state of the specification.
LEMMA Reachable == Spec => []IInv
    BY InitInv, Invariance, PTL DEF Spec

\* However often a request for a lesson is repeated, it begins one: that of its receipt; and an
\* erased learner has neither again (start, delete_user_data).
THEOREM StartsAndReceipts == Spec => []StartsAgree
<1>1. IInv => StartsAgree
    BY DEF IInv, StartsAgree
<1> QED
    BY <1>1, Reachable, PTL

\* Requests compete for a day's last slot, repeat, fail and pass midnight on their way, and an
\* operator changes the limit: whenever an enforced slot is taken, its day is within the limit in
\* force, and a slot is never freed or moved (start, status, backfill_user).
THEOREM SlotsAreLimited == Spec => SlotsHold
<1>1. IInv /\ [Next]_dailyVars => [\A l \in Names : NewStart(l) /\ starts'[l].enforced
                                       => Used(starts', starts'[l].day) <= config.limit]_dailyVars
    BY Invariance DEF StepOK, WithinLimit
<1>2. IInv /\ [Next]_dailyVars => [\A l \in Names : starts[l] # None /\ ~erased'
                                       => starts'[l] = starts[l]]_dailyVars
    BY Invariance DEF StepOK, Durable
<1>3. Spec => LimitHolds
    BY <1>1, Reachable, PTL DEF Spec, LimitHolds
<1>4. Spec => StartsAreDurable
    BY <1>2, Reachable, PTL DEF Spec, StartsAreDurable
<1> QED
    BY <1>3, <1>4, PTL DEF SlotsHold

\* No slot is taken for a lesson that the learner has bought or worked in, here or at
\* challenges-ms when the request began, whatever the two services answer (status, start).
THEOREM OwnLessonsAreFree == Spec => BegunIsFree
<1>1. IInv /\ [Next]_dailyVars => [\A l \in Names : NewStart(l) /\ starts'[l].charged =>
                     /\ l \notin purchases /\ ~Local(l)
                     /\ l \in attempted =>
                            \E t \in Tasks : pc[t] # None /\ pc'[t] = None /\ l \notin pc[t].since]_dailyVars
    BY Invariance DEF StepOK, TakesNothingOwn, TakesNoSlot
<1> QED
    BY <1>1, Reachable, PTL DEF Spec, BegunIsFree
=============================================================================
