--------------------------- MODULE ResolverProofs ---------------------------
(***************************************************************************)
(* Theorems about Resolver, for every catalog, CPU and size of the tables. *)
(***************************************************************************)
EXTENDS Resolver, FiniteSetTheorems, SequenceTheorems, TLAPS

Settled == Placed \cup OnStack
Deps(e) == idx[e].deps
Lost(e) == {t \in ToSet(Deps(e)) : Pick(t) = NoEntry}
Frames == [e : DOMAIN idx, next : Nat \ {0}]
\* The dependencies a frame has seen.
SeenBy(f) == {Deps(f.e)[i] : i \in {i \in DOMAIN Deps(f.e) : i < f.next}}

(***************************************************************************)
(* The inductive invariant of visit, for any set A of packages that holds  *)
(* what its members need: the closure of the selected one.                 *)
(***************************************************************************)
\* Entries are numbered from 1; frames stand for entries.
Catalog == idx \in Seq(Entry)
Stacked == Catalog /\ stack \in Seq(Frames)

\* The stack is a path of needs: no package is on it twice, and a package
\* leaves it before it is placed.
PathOK ==
    /\ \A j, k \in DOMAIN stack : stack[j].e = stack[k].e => j = k
    /\ \A k \in DOMAIN stack : \A j \in 1..k : stack[k].e \in Reach(stack[j].e)
    /\ OnStack \cap Placed = {}

\* What was seen is settled, what is placed has all it needs settled.
SettledOK ==
    /\ \A k \in DOMAIN stack : \A t \in SeenBy(stack[k]) : Pick(t) \in Settled \cup {NoEntry}
    /\ \A e \in Placed : Picks(e) \subseteq Settled

InOrder ==
    \A i \in DOMAIN ordered : \A d \in Picks(ordered[i]) :
        \/ \E j \in 1..(i - 1) : ordered[j] = d
        \/ ordered[i] \in Reach(d)

Sound(A) ==
    /\ Stacked /\ ordered \in Seq(DOMAIN idx)
    /\ PathOK /\ NoneTwice /\ Settled \subseteq A
    /\ Cardinality(A) <= MaxPlan => SettledOK /\ InOrder

(***************************************************************************)
(* What Resolver adds: the selected package and the targets reported.      *)
(***************************************************************************)
\* The selected package is entered first and placed last.
RootOK ==
    /\ root = NoEntry => stack = <<>> /\ ordered = <<>>
    /\ root # NoEntry =>
        /\ stack # <<>> => stack[1].e = root
        /\ Fits => /\ root \in Settled
                   /\ stack = <<>> => ordered # <<>> /\ Last(ordered) = root

\* Nothing is reported that the catalog has and, until the table is full,
\* everything seen that it has not.
MissingOK ==
    root # NoEntry =>
        /\ ToSet(missing) \subseteq UNION {Lost(e) : e \in Reach(root)}
        /\ Len(missing) < MaxPlan =>
            /\ \A e \in Placed : Lost(e) \subseteq ToSet(missing)
            /\ \A k \in DOMAIN stack : \A t \in SeenBy(stack[k]) :
                   Pick(t) = NoEntry => t \in ToSet(missing)

\* All that will ever be seen.
Closure == IF root = NoEntry THEN {} ELSE Reach(root)

Inv == TypeOK /\ Sound(Closure) /\ RootOK /\ MissingOK

-----------------------------------------------------------------------------
(***************************************************************************)
(* What pick finds.                                                        *)
(***************************************************************************)
LEMMA Least == ASSUME NEW S, S \subseteq Nat, S # {}
               PROVE  \E m \in S : \A n \in S : m <= n
<1>1. PICK m \in S : \A n \in S : ~(<<n, m>> \in OpToRel(<, Nat))
  BY WFMin, NatLessThanWellFounded
<1>2. \A n \in S : ~(n < m)
  BY <1>1 DEF OpToRel
<1>3. QED
  BY <1>2

LEMMA Positions == ASSUME Catalog
                   PROVE  /\ DOMAIN idx = 1..Len(idx) /\ Len(idx) \in Nat
                          /\ NoEntry \notin DOMAIN idx
                          /\ IsFiniteSet(DOMAIN idx)
<1>1. DOMAIN idx = 1..Len(idx) /\ Len(idx) \in Nat
  BY LenProperties DEF Catalog
<1>2. QED
  BY <1>1, FS_Interval DEF NoEntry

LEMMA FindFinds == ASSUME Catalog, NEW t, \E e \in DOMAIN idx : idx[e].id = t
                   PROVE  Find(t) \in DOMAIN idx /\ idx[Find(t)].id = t
<1> DEFINE S == {e \in DOMAIN idx : idx[e].id = t}
<1>1. S # {} /\ S \subseteq Nat
  BY Positions
<1>2. PICK e \in S : \A f \in S : e <= f
  BY <1>1, Least
<1>3. e \in DOMAIN idx /\ idx[e].id = t
  BY <1>2
<1>4. ASSUME NEW f \in DOMAIN idx, f < e PROVE idx[f].id # t
  <2>1. f \in Nat /\ e \in Nat
    BY <1>3, Positions
  <2>2. ~(e <= f)
    BY <1>4, <2>1
  <2>3. QED
    BY <1>2, <2>2
<1>5. QED
  BY <1>3, <1>4 DEF Find

LEMMA BestIsBest ==
    ASSUME Catalog, NEW S, S \subseteq DOMAIN idx, S # {}
    PROVE  Best(S) \in S /\ \A f \in S : idx[f].floor <= idx[Best(S)].floor
<1>1. \A f \in S : f \in Nat /\ idx[f].floor \in -1..6
  <2>1. \A f \in S : f \in Nat /\ idx[f] \in Entry
    BY Positions, ElementOfSeq DEF Catalog
  <2>2. \A r \in Entry : r.floor \in -1..6
    BY DEF Entry
  <2>3. QED
    BY <2>1, <2>2
<1> DEFINE Lows == {6 - idx[f].floor : f \in S}
<1>2. Lows \subseteq Nat /\ Lows # {}
  BY <1>1
<1>3. PICK m \in Lows : \A n \in Lows : m <= n
  <2> HIDE DEF Lows
  <2> QED BY <1>2, Least
<1> DEFINE High == {f \in S : 6 - idx[f].floor = m}
<1>4. High \subseteq Nat /\ High # {}
  BY <1>1, <1>3
<1>5. PICK e \in High : \A f \in High : e <= f
  <2> HIDE DEF High
  <2> QED BY <1>4, Least
<1>6. ASSUME NEW f \in S
      PROVE  idx[f].floor < idx[e].floor \/ (idx[f].floor = idx[e].floor /\ e <= f)
  <2>1. 6 - idx[e].floor <= 6 - idx[f].floor
    BY <1>3, <1>5
  <2>2. idx[e].floor \in Int /\ idx[f].floor \in Int
    BY <1>1, <1>5
  <2>3. idx[f].floor = idx[e].floor => e <= f
    BY <1>5
  <2>4. QED
    BY <2>1, <2>2, <2>3
<1>7. \E g \in S : \A f \in S :
          \/ idx[f].floor < idx[g].floor
          \/ idx[f].floor = idx[g].floor /\ g <= f
  BY <1>5, <1>6
<1> DEFINE b == Best(S)
<1>8. /\ b \in S
      /\ \A f \in S : \/ idx[f].floor < idx[b].floor
                      \/ idx[f].floor = idx[b].floor /\ b <= f
  BY <1>7 DEF Best
<1>9. QED
  BY <1>1, <1>8

LEMMA PickFinds == ASSUME Catalog, NEW t
                   PROVE  Pick(t) \in DOMAIN idx \cup {NoEntry}
<1>1. \A S \in SUBSET DOMAIN idx : S # {} => Best(S) \in DOMAIN idx
  BY BestIsBest
<1> DEFINE able == {e \in Providers(t) : Satisfies(e)}
<1>2. Providers(t) \in SUBSET DOMAIN idx /\ able \in SUBSET DOMAIN idx
  BY DEF Providers
<1>3. Find(t) \in DOMAIN idx \cup {NoEntry}
  BY FindFinds DEF Find
<1>4. QED
  BY <1>1, <1>2, <1>3 DEF Pick

\* Where only a virtual id fits, the best provider that runs here is picked.
LEMMA PickIsBest ==
    ASSUME Catalog, NEW t, Find(t) = NoEntry,
           {g \in Providers(t) : Satisfies(g)} # {}
    PROVE  LET able == {g \in Providers(t) : Satisfies(g)} IN
           Pick(t) \in able /\ \A g \in able : idx[g].floor <= idx[Pick(t)].floor
<1> DEFINE able == {g \in Providers(t) : Satisfies(g)}
<1>1. able \subseteq DOMAIN idx
  BY DEF Providers
<1>2. Pick(t) = Best(able)
  BY DEF Pick
<1>3. Best(able) \in able /\ \A g \in able : idx[g].floor <= idx[Best(able)].floor
  <2>1. able # {}
    OBVIOUS
  <2> HIDE DEF able
  <2>2. QED
    BY <1>1, <2>1, BestIsBest
<1>4. QED
  BY <1>2, <1>3

-----------------------------------------------------------------------------
(***************************************************************************)
(* What a package reaches: itself, all that it needs, and what that        *)
(* reaches; nothing beyond a closed set.                                   *)
(***************************************************************************)
LEMMA PicksFind == ASSUME Catalog, NEW e PROVE Picks(e) \subseteq DOMAIN idx
  BY PickFinds DEF Picks

LEMMA ReachSelf == ASSUME NEW e \in DOMAIN idx PROVE e \in Reach(e)
  BY DEF Reach

LEMMA ReachWithin == ASSUME Catalog, NEW e
                     PROVE  /\ Reach(e) \subseteq DOMAIN idx /\ IsFiniteSet(Reach(e))
                            /\ Cardinality(Reach(e)) \in Nat
<1>1. Reach(e) \subseteq DOMAIN idx
  BY DEF Reach
<1>2. QED
  BY <1>1, Positions, FS_Subset, FS_CardinalityType

LEMMA ReachCloses == ASSUME Catalog, NEW e, NEW f \in Reach(e)
                     PROVE  Picks(f) \subseteq Reach(e)
  BY PicksFind DEF Reach, ClosedSets

LEMMA ReachCarries == ASSUME NEW e, NEW f \in Reach(e) PROVE Reach(f) \subseteq Reach(e)
  BY DEF Reach, ClosedSets

LEMMA ReachLeast == ASSUME NEW S \in ClosedSets, NEW e \in S PROVE Reach(e) \subseteq S
  BY DEF Reach

\* A list of different members of S that leaves one out is shorter than S.
LEMMA Pigeonhole ==
    ASSUME NEW S, IsFiniteSet(S), NEW s \in Seq(S), IsInjective(s),
           NEW x \in S, x \notin ToSet(s)
    PROVE  Len(s) < Cardinality(S)
<1> DEFINE T == S \ {x}
<1>1. IsFiniteSet(T) /\ Cardinality(T) = Cardinality(S) - 1 /\ Cardinality(S) \in Nat
  BY FS_RemoveElement, FS_CardinalityType
<1>2. DOMAIN s = 1..Len(s) /\ Len(s) \in Nat /\ s \in [1..Len(s) -> S]
  BY LenProperties
<1>3. s \in [1..Len(s) -> T]
  BY <1>2 DEF ToSet
<1>4. s \in Injection(1..Len(s), T)
  BY <1>2, <1>3 DEF Injection, IsInjective
<1>5. Cardinality(1..Len(s)) <= Cardinality(T)
  BY <1>1, <1>4, FS_Injection
<1>6. Cardinality(1..Len(s)) = Len(s)
  BY <1>2, FS_Interval
<1>7. QED
  BY <1>1, <1>2, <1>5, <1>6

-----------------------------------------------------------------------------
(***************************************************************************)
(* The catalog and the CPU never change, and nothing defined from them.    *)
(***************************************************************************)
PickIn(x, c, t) ==
    LET find == IF \E e \in DOMAIN x : x[e].id = t
                  THEN CHOOSE e \in DOMAIN x :
                           x[e].id = t /\ \A f \in DOMAIN x : f < e => x[f].id # t
                  ELSE NoEntry
        providers == {e \in DOMAIN x : t \in x[e].provides}
        able == {e \in providers : c >= x[e].floor}
        best(S) == CHOOSE e \in S : \A f \in S :
                       \/ x[f].floor < x[e].floor
                       \/ x[f].floor = x[e].floor /\ e <= f
    IN  IF find # NoEntry THEN find
        ELSE IF able # {} THEN best(able)
        ELSE IF providers # {} THEN best(providers)
        ELSE NoEntry
PicksIn(x, c, e) == {PickIn(x, c, x[e].deps[i]) : i \in DOMAIN x[e].deps} \ {NoEntry}
ReachIn(x, c, e) ==
    {f \in DOMAIN x : \A S \in {S \in {S \in SUBSET DOMAIN x :
                                        \A g \in S : PicksIn(x, c, g) \subseteq S} : e \in S} :
                          f \in S}

LEMMA PickDepends == ASSUME NEW t PROVE Pick(t) = PickIn(idx, cpu, t)
  BY DEF Pick, PickIn, Find, Best, Providers, Satisfies

LEMMA PicksDepend == ASSUME NEW e PROVE Picks(e) = PicksIn(idx, cpu, e)
  BY PickDepends DEF Picks, PicksIn

LEMMA ReachDepends == ASSUME NEW e PROVE Reach(e) = ReachIn(idx, cpu, e)
  BY PicksDepend DEF Reach, ReachIn, ClosedSets

LEMMA SamePicks == ASSUME UNCHANGED catalog, NEW t PROVE Pick(t)' = Pick(t)
<1>1. idx' = idx /\ cpu' = cpu
  BY DEF catalog
<1>2. Pick(t) = PickIn(idx, cpu, t)
  BY PickDepends
<1>3. (Pick(t) = PickIn(idx, cpu, t))'
  BY PickDepends, PTL
<1>4. QED
  BY <1>1, <1>2, <1>3

LEMMA SameReach == ASSUME UNCHANGED catalog, NEW e
                   PROVE  Reach(e)' = Reach(e) /\ Picks(e)' = Picks(e)
<1>1. idx' = idx /\ cpu' = cpu
  BY DEF catalog
<1>2. Reach(e) = ReachIn(idx, cpu, e) /\ Picks(e) = PicksIn(idx, cpu, e)
  BY ReachDepends, PicksDepend
<1>3. (Reach(e) = ReachIn(idx, cpu, e) /\ Picks(e) = PicksIn(idx, cpu, e))'
  BY ReachDepends, PicksDepend, PTL
<1>4. QED
  BY <1>1, <1>2, <1>3

-----------------------------------------------------------------------------
(***************************************************************************)
(* The stack: looking at a dependency, entering a package, leaving one.    *)
(***************************************************************************)
LEMMA TopFacts == ASSUME Stacked, stack # <<>>
                  PROVE  /\ Catalog /\ DOMAIN stack = 1..Len(stack)
                         /\ Len(stack) \in Nat \ {0} /\ Len(stack) \in DOMAIN stack
                         /\ Top \in Frames /\ Deps(Top.e) \in Seq(Targets)
<1>1. Catalog /\ stack \in Seq(Frames)
  BY DEF Stacked
<1>2. DOMAIN stack = 1..Len(stack) /\ Len(stack) \in Nat \ {0}
  BY <1>1, EmptySeq, LenProperties
<1>3. Top \in Frames
  BY <1>1, <1>2, ElementOfSeq DEF Top
<1>4. idx[Top.e] \in Entry
  BY <1>1, <1>3, LenProperties DEF Catalog, Frames
<1>5. QED
  BY <1>1, <1>2, <1>3, <1>4 DEF Deps, Entry

LEMMA Advances ==
    ASSUME Stacked, stack # <<>>
    PROVE  /\ Advanced \in Seq(Frames) /\ Len(Advanced) = Len(stack)
           /\ DOMAIN Advanced = DOMAIN stack
           /\ \A k \in DOMAIN stack : k # Len(stack) => Advanced[k] = stack[k]
           /\ Advanced[Len(stack)] = [Top EXCEPT !.next = @ + 1]
           /\ \A k \in DOMAIN stack : Advanced[k].e = stack[k].e
<1> DEFINE f == [Top EXCEPT !.next = @ + 1]
<1>1. f \in Frames /\ f.e = Top.e
  BY TopFacts DEF Frames
<1>2. stack \in Seq(Frames) /\ Len(stack) \in DOMAIN stack
  BY TopFacts DEF Stacked
<1>3. Advanced = [stack EXCEPT ![Len(stack)] = f]
  BY DEF Advanced, Top
<1> HIDE DEF f
<1>4. Advanced \in Seq(Frames) /\ Len(Advanced) = Len(stack)
  BY <1>1, <1>2, <1>3, ExceptSeq
<1>5. DOMAIN Advanced = DOMAIN stack /\ Advanced[Len(stack)] = f
  BY <1>2, <1>3
<1>6. \A k \in DOMAIN stack : k # Len(stack) => Advanced[k] = stack[k]
  BY <1>3
<1>7. \A k \in DOMAIN stack : Advanced[k].e = stack[k].e
  BY <1>1, <1>5, <1>6 DEF Top
<1>8. QED
  BY <1>4, <1>5, <1>6, <1>7 DEF f

LEMMA Enterable == ASSUME NEW s \in Seq(Frames), NEW e \in DOMAIN idx
                   PROVE  /\ Append(s, Frame(e)) \in Seq(Frames)
                          /\ Len(Append(s, Frame(e))) = Len(s) + 1
                          /\ DOMAIN Append(s, Frame(e)) = DOMAIN s \cup {Len(s) + 1}
                          /\ \A k \in DOMAIN s : Append(s, Frame(e))[k] = s[k]
                          /\ Append(s, Frame(e))[Len(s) + 1] = Frame(e)
<1>1. Frame(e) \in Frames
  BY DEF Frame, Frames
<1> HIDE DEF Frames
<1>2. DOMAIN s = 1..Len(s) /\ Len(s) \in Nat
  BY LenProperties
<1>3. /\ Append(s, Frame(e)) \in Seq(Frames)
      /\ Len(Append(s, Frame(e))) = Len(s) + 1
      /\ \A k \in 1..Len(s) : Append(s, Frame(e))[k] = s[k]
      /\ Append(s, Frame(e))[Len(s) + 1] = Frame(e)
  BY <1>1, AppendProperties
<1>4. DOMAIN Append(s, Frame(e)) = 1..(Len(s) + 1)
  BY <1>3, LenProperties
<1>5. QED
  BY <1>2, <1>3, <1>4

LEMMA Leaves ==
    ASSUME Stacked, stack # <<>>
    PROVE  /\ Front(stack) \in Seq(Frames) /\ Len(Front(stack)) = Len(stack) - 1
           /\ DOMAIN Front(stack) = DOMAIN stack \ {Len(stack)}
           /\ \A k \in DOMAIN Front(stack) : Front(stack)[k] = stack[k]
           /\ Front(stack) = <<>> => Len(stack) = 1
<1> DEFINE n == Len(stack)
<1>1. stack \in Seq(Frames) /\ n \in Nat \ {0} /\ DOMAIN stack = 1..n
  BY TopFacts DEF Stacked
<1>2. /\ SubSeq(stack, 1, n - 1) \in Seq(Frames)
      /\ Len(SubSeq(stack, 1, n - 1)) = n - 1
      /\ \A k \in 1..(n - 1) : SubSeq(stack, 1, n - 1)[k] = stack[k]
  <2> HIDE DEF Frames
  <2>1. CASE n = 1
    BY <1>1, <2>1, SubSeqProperties
  <2>2. CASE n > 1
    BY <1>1, <2>2, SubSeqProperties
  <2>3. QED
    BY <1>1, <2>1, <2>2
<1>3. DOMAIN Front(stack) = 1..(n - 1)
  BY <1>2, LenProperties DEF Front
<1>4. Front(stack) = <<>> => n - 1 = 0
  BY <1>2, EmptySeq DEF Front
<1>5. QED
  BY <1>1, <1>2, <1>3, <1>4 DEF Front

\* One more dependency seen.
LEMMA SeesOne ==
    ASSUME Stacked, stack # <<>>, Top.next <= Len(Deps(Top.e)),
           NEW t \in SeenBy([Top EXCEPT !.next = @ + 1])
    PROVE  t \in SeenBy(Top) \/ t = Deps(Top.e)[Top.next]
<1>1. Top \in Frames /\ DOMAIN Deps(Top.e) = 1..Len(Deps(Top.e)) /\ Len(Deps(Top.e)) \in Nat
  BY TopFacts, LenProperties
<1> DEFINE f == [Top EXCEPT !.next = @ + 1]
<1>2. f.e = Top.e /\ f.next = Top.next + 1 /\ Top.next \in Nat
  BY <1>1 DEF Frames
<1>3. PICK i \in DOMAIN Deps(Top.e) : i < Top.next + 1 /\ t = Deps(Top.e)[i]
  BY <1>2 DEF SeenBy
<1>4. i < Top.next \/ i = Top.next
  BY <1>1, <1>2, <1>3
<1>5. QED
  BY <1>3, <1>4 DEF SeenBy

LEMMA SeesNone == ASSUME Catalog, NEW e \in DOMAIN idx PROVE SeenBy(Frame(e)) = {}
<1>1. Frame(e).e = e /\ Frame(e).next = 1
  BY DEF Frame
<1>2. idx[e] \in Entry
  BY LenProperties DEF Catalog
<1>3. DOMAIN Deps(e) = 1..Len(Deps(e)) /\ Len(Deps(e)) \in Nat
  BY <1>2, LenProperties DEF Deps, Entry
<1>4. QED
  BY <1>1, <1>3 DEF SeenBy

LEMMA SeesAll == ASSUME Stacked, stack # <<>>, ~(Top.next <= Len(Deps(Top.e)))
                 PROVE  SeenBy(Top) = ToSet(Deps(Top.e))
<1>1. Top \in Frames /\ DOMAIN Deps(Top.e) = 1..Len(Deps(Top.e)) /\ Len(Deps(Top.e)) \in Nat
  BY TopFacts, LenProperties
<1>2. \A i \in DOMAIN Deps(Top.e) : i < Top.next
  BY <1>1 DEF Frames
<1>3. QED
  BY <1>2 DEF SeenBy, ToSet

-----------------------------------------------------------------------------
(***************************************************************************)
(* What the three steps of visit do to the stack.                          *)
(***************************************************************************)
\* The dependency a step looks at.
Looked == Deps(Top.e)[Top.next]

LEMMA SameSeen == ASSUME UNCHANGED catalog
                  PROVE  /\ \A k : SeenBy(stack[k])' = SeenBy(stack'[k])
                         /\ \A e : Lost(e)' = Lost(e)
<1>1. idx' = idx
  BY DEF catalog
<1>2. \A t : Pick(t)' = Pick(t)
  BY SamePicks
<1>3. QED
  BY <1>1, <1>2 DEF SeenBy, Lost, Deps

LEMMA SeesOneMore ==
    ASSUME Stacked, MoreDeps, NEW k \in DOMAIN stack, NEW t \in SeenBy(Advanced[k])
    PROVE  t \in SeenBy(stack[k]) \/ t = Looked
<1>1. stack # <<>> /\ Top.next <= Len(Deps(Top.e))
  BY DEF MoreDeps, Deps
<1>2. CASE k = Len(stack)
  <2>1. t \in SeenBy([Top EXCEPT !.next = @ + 1])
    BY <1>1, <1>2, Advances
  <2>2. QED
    BY <1>1, <1>2, <2>1, SeesOne DEF Top, Looked
<1>3. CASE k # Len(stack)
  BY <1>1, <1>3, Advances
<1>4. QED
  BY <1>2, <1>3

LEMMA AfterLook ==
    ASSUME Stacked, MoreDeps, stack' = Advanced, UNCHANGED catalog
    PROVE  /\ Stacked' /\ stack' # <<>> /\ DOMAIN stack' = DOMAIN stack
           /\ Len(stack') = Len(stack) /\ OnStack' = OnStack
           /\ \A k \in DOMAIN stack : stack'[k].e = stack[k].e
           /\ \A k \in DOMAIN stack : \A x \in SeenBy(stack'[k]) :
                  x \in SeenBy(stack[k]) \/ x = Looked
<1>1. idx' = idx /\ stack # <<>>
  BY DEF catalog, MoreDeps
<1>2. /\ stack' \in Seq(Frames) /\ Len(stack') = Len(stack)
      /\ DOMAIN stack' = DOMAIN stack
      /\ \A k \in DOMAIN stack : stack'[k].e = stack[k].e
  BY <1>1, Advances
<1>3. Len(stack) # 0
  BY <1>1, TopFacts
<1>4. QED
  BY <1>1, <1>2, <1>3, EmptySeq, SeesOneMore DEF Stacked, Catalog, Frames, OnStack

LEMMA AfterEntry ==
    ASSUME Stacked, MoreDeps, NEW d \in DOMAIN idx,
           stack' = Append(Advanced, Frame(d)), UNCHANGED catalog
    PROVE  LET n == Len(stack) IN
           /\ Stacked' /\ stack' # <<>> /\ DOMAIN stack' = DOMAIN stack \cup {n + 1}
           /\ Len(stack') = n + 1 /\ OnStack' = OnStack \cup {d}
           /\ \A k \in DOMAIN stack : stack'[k].e = stack[k].e
           /\ stack'[n + 1].e = d /\ SeenBy(stack'[n + 1]) = {}
           /\ \A k \in DOMAIN stack : \A x \in SeenBy(stack'[k]) :
                  x \in SeenBy(stack[k]) \/ x = Looked
<1> DEFINE n == Len(stack)
<1>1. idx' = idx /\ stack # <<>> /\ Catalog
  BY DEF catalog, MoreDeps, Stacked
<1>2. n \in Nat \ {0}
  BY <1>1, TopFacts
<1>3. /\ Advanced \in Seq(Frames) /\ Len(Advanced) = n
      /\ DOMAIN Advanced = DOMAIN stack
      /\ \A k \in DOMAIN stack : Advanced[k].e = stack[k].e
  BY <1>1, Advances
<1>4. Frame(d).e = d /\ SeenBy(Frame(d)) = {}
  BY <1>1, SeesNone DEF Frame
<1>5. /\ stack' \in Seq(Frames) /\ Len(stack') = n + 1
      /\ DOMAIN stack' = DOMAIN stack \cup {n + 1}
      /\ \A k \in DOMAIN stack : stack'[k] = Advanced[k]
      /\ stack'[n + 1] = Frame(d)
  BY <1>3, Enterable
<1>6. OnStack' = OnStack \cup {d}
  <2>1. OnStack' = {stack'[k].e : k \in DOMAIN stack'}
    BY DEF OnStack
  <2>2. OnStack = {stack[k].e : k \in DOMAIN stack}
    BY DEF OnStack
  <2>3. QED
    BY <1>3, <1>4, <1>5, <2>1, <2>2
<1>7. \A k \in DOMAIN stack : \A x \in SeenBy(stack'[k]) : x \in SeenBy(stack[k]) \/ x = Looked
  BY <1>5, SeesOneMore
<1>8. Stacked'
  BY <1>1, <1>5 DEF Stacked, Catalog, Frames
<1>9. stack' # <<>>
  BY <1>2, <1>5, EmptySeq
<1>10. QED
  BY <1>3, <1>4, <1>5, <1>6, <1>7, <1>8, <1>9

LEMMA AfterLeave ==
    ASSUME Stacked, PathOK, Leave
    PROVE  LET n == Len(stack) IN
           /\ Stacked' /\ n \in Nat \ {0} /\ n \in DOMAIN stack /\ DOMAIN stack = 1..n
           /\ DOMAIN stack' = DOMAIN stack \ {n}
           /\ Len(stack') = n - 1 /\ (stack' = <<>> => n = 1)
           /\ \A k \in DOMAIN stack' : stack'[k] = stack[k]
           /\ Top.e = stack[n].e /\ Top.e \in DOMAIN idx /\ Top.e \in OnStack
           /\ Top.e \notin Placed /\ OnStack' = OnStack \ {Top.e}
           /\ SeenBy(stack[n]) = ToSet(Deps(Top.e))
<1> DEFINE n == Len(stack)
           e == Top.e
<1>1. stack # <<>> /\ stack' = Front(stack) /\ idx' = idx
  BY DEF Leave, catalog
<1>2. /\ n \in Nat \ {0} /\ DOMAIN stack = 1..n /\ n \in DOMAIN stack /\ Top \in Frames
  BY <1>1, TopFacts
<1>3. e = stack[n].e /\ e \in DOMAIN idx /\ e \in OnStack
  BY <1>2 DEF Top, OnStack, Frames
<1>4. /\ stack' \in Seq(Frames) /\ Len(stack') = n - 1
      /\ DOMAIN stack' = DOMAIN stack \ {n}
      /\ \A k \in DOMAIN stack' : stack'[k] = stack[k]
      /\ stack' = <<>> => n = 1
  BY <1>1, Leaves
<1>5. Stacked'
  BY <1>1, <1>4 DEF Stacked, Catalog, Frames
<1>6. OnStack' = OnStack \ {e}
  <2>1. OnStack' = {stack'[k].e : k \in DOMAIN stack'}
    BY DEF OnStack
  <2>2. OnStack = {stack[k].e : k \in DOMAIN stack}
    BY DEF OnStack
  <2>3. \A k \in DOMAIN stack : k # n => stack[k].e # e
    BY <1>2, <1>3 DEF PathOK
  <2>4. QED
    <3> HIDE DEF e
    <3> QED BY <1>2, <1>3, <1>4, <2>1, <2>2, <2>3
<1>7. e \notin Placed
  BY <1>3 DEF PathOK
<1>8. SeenBy(stack[n]) = ToSet(Deps(e))
  <2>1. ~(Top.next <= Len(Deps(Top.e)))
    BY <1>1 DEF Leave, MoreDeps, Deps
  <2>2. QED
    BY <1>1, <2>1, SeesAll DEF Top
<1>9. QED
  BY <1>2, <1>3, <1>4, <1>5, <1>6, <1>7, <1>8

\* What the dependency looked at is, for the packages on the stack.
LEMMA DepNeeded ==
    ASSUME Stacked, PathOK, MoreDeps, NEW A \in ClosedSets, OnStack \subseteq A
    PROVE  /\ Looked \in ToSet(Deps(Top.e)) /\ Looked \in Targets
           /\ Dep = Pick(Looked) /\ Top.e \in OnStack
           /\ Dep # NoEntry =>
                /\ Dep \in DOMAIN idx /\ Dep \in A
                /\ \A k \in DOMAIN stack : Dep \in Reach(stack[k].e)
<1>1. /\ stack # <<>> /\ Catalog /\ Len(stack) \in DOMAIN stack
      /\ DOMAIN stack = 1..Len(stack) /\ Len(stack) \in Nat \ {0}
      /\ Top \in Frames /\ Deps(Top.e) \in Seq(Targets)
      /\ Top.next <= Len(Deps(Top.e))
  BY TopFacts DEF MoreDeps, Deps
<1>2. Top.next \in DOMAIN Deps(Top.e)
  BY <1>1, LenProperties DEF Frames
<1>3. Looked \in ToSet(Deps(Top.e)) /\ Looked \in Targets /\ Dep = Pick(Looked)
  BY <1>1, <1>2, ElementOfSeq, LenProperties DEF ToSet, Dep, Deps, Looked
<1>4. Top.e \in OnStack
  BY <1>1 DEF Top, OnStack
<1>5. ASSUME Dep # NoEntry
      PROVE  Dep \in DOMAIN idx /\ Dep \in Picks(Top.e)
  <2>1. Dep \in DOMAIN idx
    BY <1>1, <1>3, <1>5, PickFinds
  <2>2. QED
    BY <1>2, <1>5, <2>1 DEF Picks, Dep, Deps
<1>6. ASSUME Dep # NoEntry PROVE Dep \in A
  BY <1>4, <1>5, <1>6 DEF ClosedSets
<1>7. ASSUME Dep # NoEntry, NEW e, Top.e \in Reach(e)
      PROVE  Dep \in Reach(e)
  BY <1>1, <1>5, <1>7, ReachCloses
<1>8. \A k \in DOMAIN stack : Top.e \in Reach(stack[k].e)
  <2>1. \A k \in 1..Len(stack) : stack[Len(stack)].e \in Reach(stack[k].e)
    BY <1>1 DEF PathOK
  <2>2. QED
    BY <1>1, <2>1 DEF Top
<1>9. QED
  BY <1>3, <1>4, <1>5, <1>6, <1>7, <1>8

-----------------------------------------------------------------------------
(***************************************************************************)
(* The stack stays a path of needs.                                        *)
(***************************************************************************)
LEMMA AllClosed == ASSUME Catalog PROVE DOMAIN idx \in ClosedSets
  BY PicksFind DEF ClosedSets

\* The package entered is new, and all on the stack need it.
LEMMA EnterPath ==
    ASSUME Stacked, PathOK, MoreDeps, NEW d \in DOMAIN idx, d = Dep, d \notin Placed \cup OnStack,
           stack' = Append(Advanced, Frame(d)), UNCHANGED catalog, Placed' = Placed
    PROVE  PathOK'
<1> DEFINE n == Len(stack)
<1>1. Catalog /\ DOMAIN idx \in ClosedSets /\ DOMAIN stack = 1..n /\ n \in Nat /\ stack \in Seq(Frames)
  BY AllClosed, LenProperties DEF Stacked
<1>2. \A e : Reach(e)' = Reach(e)
  BY SameReach
<1>3. \A k \in DOMAIN stack : stack[k].e \in DOMAIN idx
  <2>1. \A k \in DOMAIN stack : stack[k] \in Frames
    BY <1>1, ElementOfSeq
  <2>2. \A f \in Frames : f.e \in DOMAIN idx
    BY DEF Frames
  <2>3. QED
    BY <2>1, <2>2
<1>4. OnStack \subseteq DOMAIN idx /\ d # NoEntry
  BY <1>1, <1>3, Positions DEF OnStack
<1>5. \A k \in DOMAIN stack : d \in Reach(stack[k].e)
  BY <1>1, <1>4, DepNeeded
<1>6. /\ DOMAIN stack' = DOMAIN stack \cup {n + 1}
      /\ OnStack' = OnStack \cup {d}
      /\ \A k \in DOMAIN stack : stack'[k].e = stack[k].e
      /\ stack'[n + 1].e = d
  BY AfterEntry
<1>7. ASSUME NEW j \in DOMAIN stack', NEW k \in DOMAIN stack', stack'[j].e = stack'[k].e
      PROVE  j = k
  <2>1. CASE j \in DOMAIN stack /\ k \in DOMAIN stack
    BY <1>6, <1>7, <2>1 DEF PathOK
  <2>2. \A m \in DOMAIN stack : stack'[m].e # d
    BY <1>6 DEF OnStack
  <2>3. QED
    BY <1>6, <1>7, <2>1, <2>2
<1>8. ASSUME NEW k \in DOMAIN stack', NEW j \in 1..k
      PROVE  stack'[k].e \in Reach(stack'[j].e)
  <2>1. CASE k \in DOMAIN stack
    <3>1. j \in DOMAIN stack
      BY <1>1, <2>1
    <3>2. QED
      BY <1>6, <2>1, <3>1 DEF PathOK
  <2>2. CASE k = n + 1 /\ j \in DOMAIN stack
    BY <1>5, <1>6, <2>2
  <2>3. CASE k = n + 1 /\ j = n + 1
    BY <1>6, <2>3, ReachSelf
  <2>4. j \in DOMAIN stack \/ j = k
    BY <1>1, <1>6, <1>8
  <2>5. QED
    BY <1>6, <2>1, <2>2, <2>3, <2>4
<1>9. OnStack' \cap Placed' = {}
  BY <1>6 DEF PathOK
<1>10. QED
  BY <1>2, <1>7, <1>8, <1>9 DEF PathOK

\* The package that leaves is on the stack no more.
LEMMA LeavePath ==
    ASSUME Stacked, PathOK, Leave, Placed' \subseteq Placed \cup {Top.e}
    PROVE  PathOK'
<1> DEFINE n == Len(stack)
<1>1. PICK e : e = Top.e
  OBVIOUS
<1>2. /\ n \in Nat \ {0} /\ DOMAIN stack = 1..n /\ DOMAIN stack' = DOMAIN stack \ {n}
      /\ \A k \in DOMAIN stack' : stack'[k] = stack[k]
      /\ OnStack' = OnStack \ {e}
  BY <1>1, AfterLeave
<1>3. \A f : Reach(f)' = Reach(f)
  BY SameReach DEF Leave
<1>4. \A j, k \in DOMAIN stack' : stack'[j].e = stack'[k].e => j = k
  BY <1>2 DEF PathOK
<1>5. ASSUME NEW k \in DOMAIN stack', NEW j \in 1..k
      PROVE  stack'[k].e \in Reach(stack'[j].e)
  <2>1. DOMAIN stack' = 1..(n - 1) /\ n \in Nat /\ k \in DOMAIN stack
    BY <1>2
  <2>2. j \in DOMAIN stack'
    BY <2>1
  <2>3. QED
    BY <1>2, <2>1, <2>2 DEF PathOK
<1>6. OnStack' \cap Placed' = {}
  BY <1>1, <1>2 DEF PathOK
<1>7. QED
  BY <1>3, <1>4, <1>5, <1>6 DEF PathOK

-----------------------------------------------------------------------------
(***************************************************************************)
(* The tables are never full while a package that will be seen is still    *)
(* missing from them, if there is room for all of those.                   *)
(***************************************************************************)
LEMMA ClosedFinite == ASSUME Catalog, NEW A \in ClosedSets
                      PROVE  IsFiniteSet(A) /\ Cardinality(A) \in Nat /\ A \subseteq DOMAIN idx
<1>1. A \in SUBSET DOMAIN idx
  BY DEF ClosedSets
<1>2. QED
  BY <1>1, Positions, FS_Subset, FS_CardinalityType

LEMMA StackHasRoom ==
    ASSUME NEW A \in ClosedSets, Sound(A), Cardinality(A) <= MaxPlan,
           NEW e \in A, e \notin OnStack
    PROVE  Len(stack) < MaxPlan
<1> DEFINE s == [k \in 1..Len(stack) |-> stack[k].e]
<1>1. IsFiniteSet(A) /\ Cardinality(A) \in Nat
  BY ClosedFinite DEF Sound, Stacked
<1>2. stack \in Seq(Frames) /\ Len(stack) \in Nat /\ DOMAIN stack = 1..Len(stack)
  BY LenProperties DEF Sound, Stacked
<1>3. \A k \in DOMAIN stack : s[k] \in A
  BY <1>2 DEF Sound, Settled, OnStack
<1>4. s \in Seq(A) /\ Len(s) = Len(stack) /\ DOMAIN s = DOMAIN stack
  <2>1. s \in [1..Len(stack) -> A]
    BY <1>2, <1>3
  <2>2. s \in Seq(A)
    BY <1>2, <2>1, IsASeq
  <2>3. QED
    BY <1>2, <2>2, LenProperties
<1>5. IsInjective(s)
  BY <1>2, <1>4 DEF Sound, PathOK, IsInjective
<1>6. e \notin ToSet(s)
  BY <1>2, <1>4 DEF ToSet, OnStack
<1>7. Len(s) < Cardinality(A)
  <2> HIDE DEF s
  <2> QED BY <1>1, <1>4, <1>5, <1>6, Pigeonhole
<1>8. QED
  BY <1>1, <1>2, <1>4, <1>7, ResolverConstants

LEMMA PlanHasRoom ==
    ASSUME NEW A \in ClosedSets, Sound(A), Cardinality(A) <= MaxPlan,
           NEW e \in A, e \notin Placed
    PROVE  HasRoom
<1>1. IsFiniteSet(A) /\ Cardinality(A) \in Nat
  BY ClosedFinite DEF Sound, Stacked
<1>2. ordered \in Seq(DOMAIN idx) /\ Len(ordered) \in Nat /\ DOMAIN ordered = 1..Len(ordered)
  BY LenProperties DEF Sound
<1>3. \A k \in DOMAIN ordered : ordered[k] \in A
  BY DEF Sound, Settled, Placed, ToSet
<1>4. ordered \in Seq(A)
  <2>1. ordered \in [1..Len(ordered) -> A]
    BY <1>2, <1>3, LenProperties
  <2>2. QED
    BY <1>2, <2>1, IsASeq
<1>5. Len(ordered) < Cardinality(A)
  BY <1>1, <1>4, Pigeonhole DEF Sound, NoneTwice, Placed
<1>6. QED
  BY <1>1, <1>2, <1>5, ResolverConstants DEF HasRoom

-----------------------------------------------------------------------------
(***************************************************************************)
(* Visit keeps what it has seen, and the order.                            *)
(***************************************************************************)
LEMMA SamePlan ==
    ASSUME UNCHANGED catalog, UNCHANGED ordered
    PROVE  /\ InOrder => InOrder'
           /\ NoneTwice => NoneTwice'
           /\ Placed' = Placed
           /\ ordered \in Seq(DOMAIN idx) => (ordered \in Seq(DOMAIN idx))'
<1>1. \A e : Reach(e)' = Reach(e) /\ Picks(e)' = Picks(e)
  BY SameReach
<1>2. idx' = idx
  BY DEF catalog
<1>3. QED
  BY <1>1, <1>2 DEF InOrder, NoneTwice, Placed

\* A dependency is looked at and not entered: it is settled.
LEMMA LookSound ==
    ASSUME NEW A \in ClosedSets, Sound(A), MoreDeps, stack' = Advanced,
           UNCHANGED catalog, UNCHANGED ordered,
           Cardinality(A) <= MaxPlan => Dep \in Settled \cup {NoEntry}
    PROVE  Sound(A)' /\ Settled' = Settled
<1>1. Stacked /\ PathOK /\ NoneTwice /\ Settled \subseteq A /\ ordered \in Seq(DOMAIN idx)
  BY DEF Sound
<1>2. /\ \A e : Reach(e)' = Reach(e) /\ Picks(e)' = Picks(e)
      /\ \A x : Pick(x)' = Pick(x)
      /\ \A k : SeenBy(stack[k])' = SeenBy(stack'[k])
  BY SameReach, SamePicks, SameSeen
<1>3. /\ Stacked' /\ DOMAIN stack' = DOMAIN stack /\ OnStack' = OnStack
      /\ \A k \in DOMAIN stack : stack'[k].e = stack[k].e
      /\ \A k \in DOMAIN stack : \A x \in SeenBy(stack'[k]) : x \in SeenBy(stack[k]) \/ x = Looked
  BY <1>1, AfterLook
<1>4. Dep = Pick(Looked)
  BY DEF Dep, Looked, Deps
<1>5. Placed' = Placed /\ Settled' = Settled /\ NoneTwice' /\ (ordered \in Seq(DOMAIN idx))'
  BY <1>1, <1>3, SamePlan DEF Settled
<1>6. PathOK'
  BY <1>1, <1>2, <1>3, <1>5 DEF PathOK
<1>7. ASSUME Cardinality(A) <= MaxPlan PROVE SettledOK' /\ InOrder'
  <2>1. SettledOK /\ InOrder
    BY <1>7 DEF Sound
  <2>2. \A k \in DOMAIN stack : \A x \in SeenBy(stack'[k]) : Pick(x) \in Settled \cup {NoEntry}
    BY <1>3, <1>4, <1>7, <2>1 DEF SettledOK
  <2>3. SettledOK'
    BY <1>2, <1>3, <1>5, <2>1, <2>2 DEF SettledOK
  <2>4. QED
    BY <2>1, <2>3, SamePlan
<1>8. QED
  BY <1>1, <1>3, <1>5, <1>6, <1>7 DEF Sound

\* A dependency is entered: it is new, and all on the stack need it.
LEMMA EnterSound ==
    ASSUME NEW A \in ClosedSets, Sound(A), MoreDeps, Dep # NoEntry, Enters(Dep),
           stack' = Append(Advanced, Frame(Dep)),
           UNCHANGED catalog, UNCHANGED ordered
    PROVE  Sound(A)' /\ Settled' = Settled \cup {Dep}
<1> DEFINE n == Len(stack)
<1>1. /\ Stacked /\ PathOK /\ NoneTwice /\ Settled \subseteq A /\ ordered \in Seq(DOMAIN idx)
      /\ OnStack \subseteq A
  BY DEF Sound, Settled
<1>2. /\ \A e : Reach(e)' = Reach(e) /\ Picks(e)' = Picks(e)
      /\ \A x : Pick(x)' = Pick(x)
      /\ \A k : SeenBy(stack[k])' = SeenBy(stack'[k])
  BY SameReach, SamePicks, SameSeen
<1>3. PICK d : d = Dep
  OBVIOUS
<1>4. /\ d \in DOMAIN idx /\ d \in A /\ d = Pick(Looked)
      /\ \A k \in DOMAIN stack : d \in Reach(stack[k].e)
      /\ d \notin Placed /\ d \notin OnStack
  BY <1>1, <1>3, DepNeeded DEF Enters
<1>5. /\ Stacked' /\ DOMAIN stack' = DOMAIN stack \cup {n + 1}
      /\ OnStack' = OnStack \cup {d}
      /\ \A k \in DOMAIN stack : stack'[k].e = stack[k].e
      /\ stack'[n + 1].e = d /\ SeenBy(stack'[n + 1]) = {}
      /\ \A k \in DOMAIN stack : \A x \in SeenBy(stack'[k]) : x \in SeenBy(stack[k]) \/ x = Looked
  BY <1>1, <1>3, <1>4, AfterEntry
<1>6. /\ Placed' = Placed /\ Settled' = Settled \cup {d}
      /\ NoneTwice' /\ (ordered \in Seq(DOMAIN idx))'
  BY <1>1, <1>5, SamePlan DEF Settled
<1>7. stack' = Append(Advanced, Frame(d))
  BY <1>3
<1>8. PathOK'
  BY <1>1, <1>3, <1>4, <1>6, <1>7, EnterPath
<1>9. ASSUME Cardinality(A) <= MaxPlan PROVE SettledOK' /\ InOrder'
  <2>1. SettledOK /\ InOrder
    BY <1>9 DEF Sound
  <2>2. \A k \in DOMAIN stack' : \A x \in SeenBy(stack'[k]) :
            Pick(x) \in Settled \cup {d, NoEntry}
    BY <1>4, <1>5, <2>1 DEF SettledOK
  <2>3. SettledOK'
    BY <1>2, <1>5, <1>6, <2>1, <2>2 DEF SettledOK
  <2>4. QED
    BY <2>1, <2>3, SamePlan
<1>10. QED
  BY <1>1, <1>3, <1>4, <1>5, <1>6, <1>8, <1>9 DEF Sound

\* A package gets its place when it leaves, if the list has room for it.
LEMMA AfterPlacing ==
    ASSUME ordered \in Seq(DOMAIN idx), Leave, NEW e \in DOMAIN idx, e = Top.e, e \notin Placed
    PROVE  /\ (ordered \in Seq(DOMAIN idx))'
           /\ HasRoom => /\ Len(ordered') = Len(ordered) + 1 /\ Last(ordered') = e
                         /\ DOMAIN ordered' = DOMAIN ordered \cup {Len(ordered) + 1}
                         /\ \A i \in DOMAIN ordered : ordered'[i] = ordered[i]
                         /\ ordered'[Len(ordered) + 1] = e
                         /\ Placed' = Placed \cup {e}
           /\ ~HasRoom => ordered' = ordered /\ Placed' = Placed
<1> DEFINE n == Len(ordered)
<1>1. n \in Nat /\ DOMAIN ordered = 1..n /\ idx' = idx
  BY LenProperties DEF Leave, catalog
<1>2. ASSUME HasRoom
      PROVE  /\ ordered' \in Seq(DOMAIN idx) /\ Len(ordered') = n + 1
             /\ DOMAIN ordered' = DOMAIN ordered \cup {n + 1}
             /\ \A i \in DOMAIN ordered : ordered'[i] = ordered[i]
             /\ ordered'[n + 1] = e
  <2>1. ordered' = Append(ordered, e)
    BY <1>2 DEF Leave
  <2>2. /\ ordered' \in Seq(DOMAIN idx) /\ Len(ordered') = n + 1
        /\ \A i \in 1..n : ordered'[i] = ordered[i]
        /\ ordered'[n + 1] = e
    BY <2>1, AppendProperties
  <2>3. DOMAIN ordered' = 1..(n + 1)
    BY <2>2, LenProperties
  <2>4. QED
    BY <1>1, <2>2, <2>3
<1>3. ASSUME HasRoom PROVE Placed' = Placed \cup {e} /\ Last(ordered') = e
  <2>1. Placed' = {ordered'[i] : i \in DOMAIN ordered'}
    BY DEF Placed, ToSet
  <2>2. Placed = {ordered[i] : i \in DOMAIN ordered}
    BY DEF Placed, ToSet
  <2>3. QED
    BY <1>2, <1>3, <2>1, <2>2 DEF Last
<1>4. ASSUME ~HasRoom PROVE ordered' = ordered /\ Placed' = Placed
  BY <1>4 DEF Leave, Placed
<1>5. QED
  BY <1>1, <1>2, <1>3, <1>4

\* All that a package needs is settled when it leaves: placed before it, or
\* still on the stack and then in need of it.
LEMMA LeaveSound ==
    ASSUME NEW A \in ClosedSets, Sound(A), Leave
    PROVE  Sound(A)' /\ (Cardinality(A) <= MaxPlan => Settled' = Settled)
<1> DEFINE n == Len(stack)
           m == Len(ordered)
<1>1. /\ Stacked /\ PathOK /\ NoneTwice /\ Settled \subseteq A /\ ordered \in Seq(DOMAIN idx)
      /\ DOMAIN ordered = 1..m /\ m \in Nat
  BY LenProperties DEF Sound
<1>2. UNCHANGED catalog /\ idx' = idx
  BY DEF Leave, catalog
<1>3. /\ \A f : Reach(f)' = Reach(f) /\ Picks(f)' = Picks(f)
      /\ \A x : Pick(x)' = Pick(x)
      /\ \A k : SeenBy(stack[k])' = SeenBy(stack'[k])
  BY <1>2, SameReach, SamePicks, SameSeen
<1>4. PICK e : e = Top.e
  OBVIOUS
<1>5. /\ Stacked' /\ n \in Nat \ {0} /\ n \in DOMAIN stack /\ DOMAIN stack = 1..n
      /\ DOMAIN stack' = DOMAIN stack \ {n}
      /\ \A k \in DOMAIN stack' : stack'[k] = stack[k]
      /\ e = stack[n].e /\ e \in DOMAIN idx /\ e \in OnStack
      /\ e \notin Placed /\ OnStack' = OnStack \ {e}
      /\ SeenBy(stack[n]) = ToSet(Deps(e))
  BY <1>1, <1>4, AfterLeave
<1>6. e \in A
  BY <1>1, <1>5 DEF Settled
<1>7. Cardinality(A) <= MaxPlan => HasRoom
  BY <1>5, <1>6, PlanHasRoom
<1>8. /\ (ordered \in Seq(DOMAIN idx))'
      /\ HasRoom => /\ DOMAIN ordered' = DOMAIN ordered \cup {m + 1}
                    /\ \A i \in DOMAIN ordered : ordered'[i] = ordered[i]
                    /\ ordered'[m + 1] = e
                    /\ Placed' = Placed \cup {e}
      /\ ~HasRoom => ordered' = ordered /\ Placed' = Placed
  BY <1>1, <1>4, <1>5, AfterPlacing
<1>9. /\ HasRoom => Settled' = Settled
      /\ Settled' \subseteq A
  BY <1>1, <1>5, <1>8 DEF Settled
<1>10. PathOK'
  BY <1>1, <1>4, <1>8, LeavePath
<1>11. NoneTwice'
  <2>1. \A i, j \in DOMAIN ordered : ordered[i] = ordered[j] => i = j
    BY <1>1 DEF NoneTwice, IsInjective
  <2>2. \A i \in DOMAIN ordered : ordered[i] # e
    BY <1>5 DEF Placed, ToSet
  <2>3. \A i, j \in DOMAIN ordered' : ordered'[i] = ordered'[j] => i = j
    BY <1>8, <2>1, <2>2
  <2>4. QED
    BY <2>3 DEF NoneTwice, IsInjective
<1>12. ASSUME Cardinality(A) <= MaxPlan, NEW d \in Picks(e)
       PROVE  d \in Settled
  <2>1. SettledOK
    BY <1>12 DEF Sound
  <2>2. PICK i \in DOMAIN Deps(e) : d = Pick(Deps(e)[i])
    BY DEF Picks, Deps
  <2>3. Deps(e)[i] \in SeenBy(stack[n]) /\ d # NoEntry
    BY <1>5, <2>2 DEF ToSet, Picks
  <2>4. QED
    BY <1>5, <2>1, <2>2, <2>3 DEF SettledOK
<1>13. ASSUME Cardinality(A) <= MaxPlan PROVE SettledOK'
  <2>1. SettledOK /\ HasRoom
    BY <1>7, <1>13 DEF Sound
  <2>2. \A k \in DOMAIN stack' : \A t \in SeenBy(stack'[k]) : Pick(t) \in Settled' \cup {NoEntry}
    BY <1>5, <1>9, <2>1 DEF SettledOK
  <2>3. \A f \in Placed' : Picks(f) \subseteq Settled'
    BY <1>8, <1>9, <1>12, <1>13, <2>1 DEF SettledOK
  <2>4. QED
    BY <1>3, <2>2, <2>3 DEF SettledOK
<1>14. ASSUME Cardinality(A) <= MaxPlan,
              NEW i \in DOMAIN ordered', NEW d \in Picks(ordered'[i])
       PROVE  (\E j \in 1..(i - 1) : ordered'[j] = d) \/ ordered'[i] \in Reach(d)
  <2>1. HasRoom /\ InOrder
    BY <1>7, <1>14 DEF Sound
  <2>2. CASE i \in DOMAIN ordered
    <3>1. ordered'[i] = ordered[i] /\ \A j \in 1..(i - 1) : ordered'[j] = ordered[j]
      BY <1>1, <1>8, <2>1, <2>2
    <3>2. (\E j \in 1..(i - 1) : ordered[j] = d) \/ ordered[i] \in Reach(d)
      BY <1>14, <2>1, <2>2, <3>1 DEF InOrder
    <3>3. QED
      BY <3>1, <3>2
  <2>3. CASE i = m + 1
    <3>1. ordered'[i] = e /\ \A j \in 1..(i - 1) : j \in DOMAIN ordered /\ ordered'[j] = ordered[j]
      BY <1>1, <1>8, <2>1, <2>3
    <3>2. d \in Settled
      BY <1>12, <1>14, <3>1
    <3>3. CASE d \in Placed
      BY <1>1, <2>3, <3>1, <3>3 DEF Placed, ToSet
    <3>4. CASE d \in OnStack
      <4>1. PICK k \in DOMAIN stack : d = stack[k].e
        BY <3>4 DEF OnStack
      <4>2. e \in Reach(stack[k].e)
        BY <1>1, <1>5 DEF PathOK
      <4>3. QED
        BY <3>1, <4>1, <4>2
    <3>5. QED
      BY <3>2, <3>3, <3>4 DEF Settled
  <2>4. QED
    BY <1>8, <2>1, <2>2, <2>3
<1>15. Cardinality(A) <= MaxPlan => InOrder'
  BY <1>3, <1>14 DEF InOrder
<1>16. QED
  BY <1>5, <1>7, <1>8, <1>9, <1>10, <1>11, <1>13, <1>15 DEF Sound

\* While the tables have room nothing that was seen is lost.
LEMMA VisitSound ==
    ASSUME NEW A \in ClosedSets, Sound(A), Visit
    PROVE  Sound(A)' /\ (Cardinality(A) <= MaxPlan => Settled \subseteq Settled')
<1>1. CASE Descend
  <2>1. MoreDeps /\ Dep # NoEntry /\ UNCHANGED catalog /\ UNCHANGED ordered
    BY <1>1 DEF Descend
  <2>2. CASE Enters(Dep)
    <3>1. stack' = Append(Advanced, Frame(Dep))
      BY <1>1, <2>2 DEF Descend
    <3>2. QED
      BY <2>1, <2>2, <3>1, EnterSound
  <2>3. CASE ~Enters(Dep)
    <3>1. stack' = Advanced
      BY <1>1, <2>3 DEF Descend
    <3>2. ASSUME Cardinality(A) <= MaxPlan, Dep \notin Settled PROVE FALSE
      <4>1. Stacked /\ PathOK /\ OnStack \subseteq A
        BY DEF Sound, Settled
      <4>2. Dep \in A
        BY <2>1, <4>1, DepNeeded
      <4>3. Len(stack) < MaxPlan
        BY <3>2, <4>2, StackHasRoom DEF Settled
      <4>4. QED
        BY <2>3, <3>2, <4>3 DEF Enters, Settled
    <3>3. QED
      BY <2>1, <3>1, <3>2, LookSound
  <2>4. QED
    BY <2>2, <2>3
<1>2. CASE Unresolvable
  <2>1. /\ MoreDeps /\ Dep = NoEntry /\ UNCHANGED catalog /\ UNCHANGED ordered
        /\ stack' = Advanced
    BY <1>2 DEF Unresolvable
  <2>2. QED
    BY <2>1, LookSound
<1>3. CASE Leave
  BY <1>3, LeaveSound
<1>4. QED
  BY <1>1, <1>2, <1>3 DEF Visit

\* Nothing is seen yet.
LEMMA SoundEmpty == ASSUME Catalog, ordered = <<>>, stack = <<>>, NEW A
                    PROVE  Sound(A) /\ Settled = {}
<1>1. DOMAIN <<>> = {} /\ Len(<<>>) = 0 /\ <<>> \in Seq(Frames) /\ <<>> \in Seq(DOMAIN idx)
  BY EmptySeq
<1>2. OnStack = {} /\ Placed = {}
  BY <1>1 DEF OnStack, Placed, ToSet
<1>3. PathOK /\ SettledOK /\ InOrder /\ NoneTwice
  BY <1>1, <1>2 DEF PathOK, SettledOK, InOrder, NoneTwice, IsInjective
<1>4. QED
  BY <1>1, <1>2, <1>3 DEF Sound, Stacked, Settled

\* The selected package is entered, unless an earlier call has placed it.
LEMMA SelectSound ==
    ASSUME NEW A \in ClosedSets, Sound(A), stack = <<>>, NEW e \in A,
           stack' = IF Enters(e) THEN <<Frame(e)>> ELSE <<>>,
           UNCHANGED catalog, UNCHANGED ordered
    PROVE  /\ Sound(A)' /\ Settled \subseteq Settled' /\ e \in Settled'
           /\ stack' # <<>> => stack'[1].e = e
<1>1. /\ Catalog /\ NoneTwice /\ Settled \subseteq A /\ ordered \in Seq(DOMAIN idx) /\ idx' = idx
      /\ DOMAIN <<>> = {} /\ Len(<<>>) = 0 /\ <<>> \in Seq(Frames) /\ e \in DOMAIN idx
  BY EmptySeq DEF Sound, Stacked, catalog, ClosedSets
<1>2. /\ \A f : Reach(f)' = Reach(f) /\ Picks(f)' = Picks(f)
      /\ \A x : Pick(x)' = Pick(x)
      /\ \A k : SeenBy(stack[k])' = SeenBy(stack'[k])
  BY SameReach, SamePicks, SameSeen
<1>3. OnStack = {} /\ Settled = Placed
  BY <1>1 DEF OnStack, Settled
<1>4. Placed' = Placed /\ NoneTwice' /\ (ordered \in Seq(DOMAIN idx))'
  BY <1>1, SamePlan
<1>5. ASSUME Cardinality(A) <= MaxPlan PROVE (\A f \in Placed : Picks(f) \subseteq Placed) /\ InOrder'
  <2>1. SettledOK /\ InOrder
    BY <1>5 DEF Sound
  <2>2. QED
    BY <1>3, <2>1, SamePlan DEF SettledOK
<1>6. CASE Enters(e)
  <2>1. Frame(e) \in Frames /\ Frame(e).e = e
    BY <1>1 DEF Frame, Frames
  <2>2. /\ stack' \in Seq(Frames) /\ DOMAIN stack' = {1} /\ stack'[1] = Frame(e)
        /\ stack'[1].e = e
    <3> HIDE DEF Frames
    <3> QED BY <1>6, <2>1
  <2>3. SeenBy(stack'[1]) = {}
    BY <1>1, <2>2, SeesNone
  <2>4. OnStack' = {e} /\ Settled' = Placed \cup {e} /\ e \notin Placed
    BY <1>4, <1>6, <2>2 DEF OnStack, Settled, Enters
  <2>5. PathOK'
    <3>1. stack'[1].e \in Reach(stack'[1].e)
      BY <1>1, <2>2, ReachSelf
    <3>2. \A k \in DOMAIN stack' : \A j \in 1..k : stack'[k].e \in Reach(stack'[j].e)
      BY <2>2, <3>1
    <3>3. QED
      BY <1>2, <1>4, <2>2, <2>4, <3>2 DEF PathOK
  <2>6. Cardinality(A) <= MaxPlan => SettledOK'
    BY <1>2, <1>4, <1>5, <2>2, <2>3, <2>4 DEF SettledOK
  <2>7. Stacked'
    BY <1>1, <2>2 DEF Stacked, Catalog, Frames
  <2>8. QED
    BY <1>1, <1>3, <1>4, <1>5, <2>2, <2>4, <2>5, <2>6, <2>7 DEF Sound
<1>7. CASE ~Enters(e)
  <2>1. stack' = <<>>
    BY <1>7
  <2>2. OnStack' = {} /\ Settled' = Placed
    BY <1>1, <1>4, <2>1 DEF OnStack, Settled
  <2>3. e \in Placed
    BY <1>1, <1>3, <1>7, ResolverConstants DEF Enters
  <2>4. PathOK'
    BY <1>1, <2>1, <2>2 DEF PathOK
  <2>5. Cardinality(A) <= MaxPlan => SettledOK'
    BY <1>1, <1>2, <1>4, <1>5, <2>1, <2>2 DEF SettledOK
  <2>6. Stacked'
    BY <1>1, <2>1 DEF Stacked, Catalog, Frames
  <2>7. QED
    BY <1>1, <1>3, <1>4, <1>5, <2>1, <2>2, <2>3, <2>4, <2>5, <2>6 DEF Sound
<1>8. QED
  BY <1>6, <1>7

-----------------------------------------------------------------------------
(***************************************************************************)
(* Every step of the resolver preserves its invariant.                     *)
(***************************************************************************)
LEMMA ClosureClosed == ASSUME TypeOK
                       PROVE  /\ Closure \in ClosedSets
                              /\ root # NoEntry => root \in Closure /\ Closure = Reach(root)
                              /\ Fits <=> Cardinality(Closure) <= MaxPlan
<1>1. Catalog
  BY DEF TypeOK, Catalog
<1>2. CASE root = NoEntry
  <2>1. Cardinality({}) <= MaxPlan
    BY FS_EmptySet, ResolverConstants
  <2>2. QED
    BY <1>2, <2>1 DEF Closure, ClosedSets, Fits
<1>3. CASE root # NoEntry
  <2>1. root \in DOMAIN idx /\ Closure = Reach(root)
    BY <1>3 DEF TypeOK, Closure
  <2>2. Reach(root) \in ClosedSets
    BY <1>1, ReachWithin, ReachCloses DEF ClosedSets
  <2>3. QED
    BY <1>3, <2>1, <2>2, ReachSelf DEF Fits
<1>4. QED
  BY <1>2, <1>3

LEMMA SameClosure == ASSUME UNCHANGED catalog, UNCHANGED root
                     PROVE  /\ Closure' = Closure
                            /\ Reach(root)' = Reach(root)
                            /\ Fits' <=> Fits
<1>1. \A e : Reach(e)' = Reach(e)
  BY SameReach
<1>2. QED
  BY <1>1 DEF Closure, Fits

\* A target is added to those reported.
LEMMA Reports ==
    ASSUME missing \in Seq(Targets), NEW t \in Targets
    PROVE  /\ Append(missing, t) \in Seq(Targets)
           /\ Len(Append(missing, t)) = Len(missing) + 1
           /\ ToSet(Append(missing, t)) = ToSet(missing) \cup {t}
<1>1. /\ Append(missing, t) \in Seq(Targets) /\ Len(Append(missing, t)) = Len(missing) + 1
      /\ \A i \in 1..Len(missing) : Append(missing, t)[i] = missing[i]
      /\ Append(missing, t)[Len(missing) + 1] = t
  BY AppendProperties
<1>2. /\ Len(missing) \in Nat /\ DOMAIN missing = 1..Len(missing)
      /\ DOMAIN Append(missing, t) = 1..(Len(missing) + 1)
  BY <1>1, LenProperties
<1>3. QED
  BY <1>1, <1>2 DEF ToSet

LEMMA VisitTypes ==
    ASSUME TypeOK, Sound(Closure), Sound(Closure)', Visit
    PROVE  TypeOK'
<1>1. /\ UNCHANGED catalog /\ idx' = idx /\ cpu' = cpu /\ root' = root
      /\ Stacked /\ PathOK /\ ordered \in Seq(DOMAIN idx)
      /\ Stacked' /\ (ordered \in Seq(DOMAIN idx))'
  BY DEF Visit, Descend, Unresolvable, Leave, catalog, Sound
<1>2. Len(stack) \in Nat /\ Len(stack) <= MaxPlan /\ Len(ordered) \in Nat /\ Len(ordered) <= MaxPlan
  BY LenProperties DEF TypeOK
<1>3. Len(missing) \in Nat /\ Len(missing) <= MaxPlan /\ missing \in Seq(Targets)
  BY LenProperties DEF TypeOK
<1>4. stack' \in Seq([e : DOMAIN idx, next : Nat \ {0}]) /\ ordered' \in Seq(DOMAIN idx)
  BY <1>1 DEF Stacked, Frames
<1>5. OnStack \subseteq Closure /\ Closure \in ClosedSets
  BY ClosureClosed DEF Sound, Settled
<1>6. CASE Descend
  <2>1. MoreDeps /\ ordered' = ordered /\ missing' = missing /\ Dep # NoEntry
    BY <1>6 DEF Descend
  <2>2. CASE Enters(Dep)
    <3>1. Len(stack') = Len(stack) + 1
      <4>1. Dep \in DOMAIN idx
        BY <1>1, <1>5, <2>1, DepNeeded
      <4>2. stack' = Append(Advanced, Frame(Dep))
        BY <1>6, <2>2 DEF Descend
      <4>3. QED
        BY <1>1, <2>1, <4>1, <4>2, AfterEntry
    <3>2. Len(stack') <= MaxPlan
      BY <1>2, <2>2, <3>1, ResolverConstants DEF Enters
    <3>3. QED
      BY <1>1, <1>2, <1>3, <1>4, <2>1, <3>2 DEF TypeOK
  <2>3. CASE ~Enters(Dep)
    <3>1. stack' = Advanced
      BY <1>6, <2>3 DEF Descend
    <3>2. Len(stack') = Len(stack)
      BY <1>1, <2>1, <3>1, AfterLook
    <3>3. QED
      BY <1>1, <1>2, <1>3, <1>4, <2>1, <3>2 DEF TypeOK
  <2>4. QED
    BY <2>2, <2>3
<1>7. CASE Unresolvable
  <2>1. /\ MoreDeps /\ ordered' = ordered /\ stack' = Advanced
        /\ missing' = IF Len(missing) < MaxPlan THEN Append(missing, Looked) ELSE missing
    BY <1>7 DEF Unresolvable, Looked, Deps
  <2>2. Looked \in Targets
    BY <1>1, <1>5, <2>1, DepNeeded
  <2>3. missing' \in Seq(Targets) /\ Len(missing') <= MaxPlan
    BY <1>3, <2>1, <2>2, Reports, ResolverConstants
  <2>4. Len(stack') = Len(stack)
    BY <1>1, <2>1, AfterLook
  <2>5. QED
    BY <1>1, <1>2, <1>4, <2>1, <2>3, <2>4 DEF TypeOK
<1>8. CASE Leave
  <2>1. missing' = missing
    BY <1>8 DEF Leave
  <2>2. Len(stack') <= MaxPlan /\ Top.e \in DOMAIN idx /\ Top.e \notin Placed
    <3>1. /\ Len(stack') = Len(stack) - 1
          /\ Top.e \in DOMAIN idx /\ Top.e \notin Placed
      BY <1>1, <1>8, AfterLeave
    <3>2. QED
      BY <1>2, <3>1, ResolverConstants
  <2>3. Len(ordered') <= MaxPlan
    <3>1. CASE HasRoom
      <4>1. Len(ordered') = Len(ordered) + 1
        BY <1>1, <1>8, <2>2, <3>1, AfterPlacing
      <4>2. QED
        BY <1>2, <3>1, <4>1, ResolverConstants DEF HasRoom
    <3>2. CASE ~HasRoom
      BY <1>2, <1>8, <3>2 DEF Leave
    <3>3. QED
      BY <3>1, <3>2
  <2>4. QED
    BY <1>1, <1>3, <1>4, <2>1, <2>2, <2>3 DEF TypeOK
<1>9. QED
  BY <1>6, <1>7, <1>8 DEF Visit

LEMMA VisitRoot ==
    ASSUME TypeOK, Sound(Closure), RootOK, Visit,
           Fits => Settled \subseteq Settled'
    PROVE  RootOK'
<1>1. /\ UNCHANGED catalog /\ idx' = idx /\ root' = root
      /\ Stacked /\ PathOK /\ ordered \in Seq(DOMAIN idx) /\ stack # <<>>
  BY DEF Visit, Descend, Unresolvable, Leave, MoreDeps, catalog, Sound
<1>2. root # NoEntry /\ stack[1].e = root /\ (Fits => root \in Settled) /\ (Fits' <=> Fits)
  BY <1>1, SameClosure DEF RootOK
<1>3. 1 \in DOMAIN stack
  BY <1>1, TopFacts
<1>4. OnStack \subseteq Closure /\ Closure \in ClosedSets /\ (Fits <=> Cardinality(Closure) <= MaxPlan)
  BY ClosureClosed DEF Sound, Settled
<1>5. CASE Descend \/ Unresolvable
  <2>1. MoreDeps
    BY <1>5 DEF Descend, Unresolvable
  <2>2. stack' = Advanced \/ (Dep # NoEntry /\ stack' = Append(Advanced, Frame(Dep)))
    BY <1>5 DEF Descend, Unresolvable
  <2>3. stack' # <<>> /\ stack'[1].e = root
    <3>1. CASE stack' = Advanced
      BY <1>1, <1>2, <1>3, <2>1, <3>1, AfterLook
    <3>2. CASE Dep # NoEntry /\ stack' = Append(Advanced, Frame(Dep))
      <4>1. Dep \in DOMAIN idx
        BY <1>1, <1>4, <2>1, <3>2, DepNeeded
      <4>2. QED
        BY <1>1, <1>2, <1>3, <2>1, <3>2, <4>1, AfterEntry
    <3>3. QED
      BY <2>2, <3>1, <3>2
  <2>4. QED
    BY <1>1, <1>2, <2>3 DEF RootOK
<1>6. CASE Leave
  <2>1. /\ DOMAIN stack' = DOMAIN stack \ {Len(stack)}
        /\ Len(stack) \in Nat \ {0} /\ Len(stack') = Len(stack) - 1
        /\ (stack' = <<>> => Len(stack) = 1)
        /\ \A k \in DOMAIN stack' : stack'[k] = stack[k]
        /\ Top.e = stack[Len(stack)].e /\ Top.e \in DOMAIN idx
        /\ Top.e \notin Placed /\ Top.e \in OnStack
    BY <1>1, <1>6, AfterLeave
  <2>2. ASSUME stack' # <<>> PROVE stack'[1].e = root
    <3>1. Len(stack) # 1
      <4>1. Stacked'
        BY <1>1, <1>6, AfterLeave
      <4>2. Len(stack') # 0
        BY <2>2, <4>1, EmptySeq DEF Stacked
      <4>3. QED
        BY <2>1, <4>2
    <3>2. 1 \in DOMAIN stack'
      BY <1>3, <2>1, <3>1
    <3>3. QED
      BY <1>2, <2>1, <3>2
  <2>3. ASSUME Fits, stack' = <<>> PROVE ordered' # <<>> /\ Last(ordered') = root
    <3>1. Top.e = root
      BY <1>2, <2>1, <2>3
    <3>2. HasRoom
      BY <1>4, <2>1, <2>3, PlanHasRoom
    <3>3. Last(ordered') = Top.e /\ Len(ordered') = Len(ordered) + 1 /\ Len(ordered) \in Nat
      BY <1>1, <1>6, <2>1, <3>2, AfterPlacing, LenProperties
    <3>4. QED
      BY <3>1, <3>3, EmptySeq
  <2>4. QED
    BY <1>1, <1>2, <2>2, <2>3 DEF RootOK
<1>7. QED
  BY <1>5, <1>6 DEF Visit

\* What is reported, from what is reported of each frame and placed package.
LEMMA ReportedFrom ==
    ASSUME UNCHANGED catalog, UNCHANGED root,
           root # NoEntry =>
               /\ ToSet(missing') \subseteq UNION {Lost(e) : e \in Reach(root)}
               /\ Len(missing') < MaxPlan =>
                   /\ \A e \in Placed' : Lost(e) \subseteq ToSet(missing')
                   /\ \A k \in DOMAIN stack' : \A t \in SeenBy(stack'[k]) :
                          Pick(t) = NoEntry => t \in ToSet(missing')
    PROVE  MissingOK'
<1>1. /\ \A e : Reach(e)' = Reach(e)
      /\ \A x : Pick(x)' = Pick(x)
      /\ \A k : SeenBy(stack[k])' = SeenBy(stack'[k])
      /\ \A e : Lost(e)' = Lost(e)
  BY SameReach, SamePicks, SameSeen
<1>2. ToSet(missing)' = ToSet(missing')
  BY DEF ToSet
<1>3. QED
  BY <1>1, <1>2 DEF MissingOK

LEMMA VisitMissing ==
    ASSUME TypeOK, Sound(Closure), RootOK, MissingOK, Visit
    PROVE  MissingOK'
<1>1. /\ UNCHANGED catalog /\ UNCHANGED root
      /\ Stacked /\ PathOK /\ ordered \in Seq(DOMAIN idx) /\ stack # <<>>
  BY DEF Visit, Descend, Unresolvable, Leave, MoreDeps, Sound
<1>2. root # NoEntry /\ Closure = Reach(root)
  BY <1>1 DEF RootOK, Closure
<1>3. OnStack \subseteq Closure /\ Closure \in ClosedSets
  BY ClosureClosed DEF Sound, Settled
<1>4. /\ ToSet(missing) \subseteq UNION {Lost(e) : e \in Reach(root)}
      /\ Len(missing) < MaxPlan =>
          /\ \A e \in Placed : Lost(e) \subseteq ToSet(missing)
          /\ \A k \in DOMAIN stack : \A t \in SeenBy(stack[k]) :
                 Pick(t) = NoEntry => t \in ToSet(missing)
  BY <1>2 DEF MissingOK
<1>5. missing \in Seq(Targets) /\ Len(missing) \in Nat
  BY LenProperties DEF TypeOK
<1>6. CASE Descend
  <2>1. /\ MoreDeps /\ ordered' = ordered /\ missing' = missing /\ Dep # NoEntry
        /\ stack' = Advanced \/ stack' = Append(Advanced, Frame(Dep))
    BY <1>6 DEF Descend
  <2>2. Pick(Looked) # NoEntry /\ Dep \in DOMAIN idx
    BY <1>1, <1>3, <2>1, DepNeeded
  <2>3. \A k \in DOMAIN stack' : \A x \in SeenBy(stack'[k]) :
            k \in DOMAIN stack /\ (x \in SeenBy(stack[k]) \/ x = Looked)
    <3>1. CASE stack' = Advanced
      BY <1>1, <2>1, <3>1, AfterLook
    <3>2. CASE stack' = Append(Advanced, Frame(Dep))
      BY <1>1, <2>1, <2>2, <3>2, AfterEntry
    <3>3. QED
      BY <2>1, <3>1, <3>2
  <2>4. Placed' = Placed
    BY <2>1 DEF Placed
  <2>5. QED
    BY <1>1, <1>4, <2>1, <2>2, <2>3, <2>4, ReportedFrom
<1>7. CASE Unresolvable
  <2>1. /\ MoreDeps /\ ordered' = ordered /\ stack' = Advanced /\ Dep = NoEntry
        /\ missing' = IF Len(missing) < MaxPlan THEN Append(missing, Looked) ELSE missing
    BY <1>7 DEF Unresolvable, Looked, Deps
  <2>2. Looked \in Targets /\ Looked \in Lost(Top.e) /\ Top.e \in Reach(root)
    BY <1>1, <1>2, <1>3, <2>1, DepNeeded DEF Lost
  <2>3. ToSet(missing') \subseteq UNION {Lost(e) : e \in Reach(root)}
    BY <1>4, <1>5, <2>1, <2>2, Reports
  <2>4. ASSUME Len(missing') < MaxPlan
        PROVE  /\ Len(missing) < MaxPlan
               /\ ToSet(missing') = ToSet(missing) \cup {Looked}
    <3>1. Len(missing) < MaxPlan
      BY <2>1, <2>4
    <3>2. QED
      BY <1>5, <2>1, <2>2, <3>1, Reports
  <2>5. /\ DOMAIN stack' = DOMAIN stack
        /\ \A k \in DOMAIN stack : \A x \in SeenBy(stack'[k]) : x \in SeenBy(stack[k]) \/ x = Looked
    BY <1>1, <2>1, AfterLook
  <2>6. Placed' = Placed
    BY <2>1 DEF Placed
  <2>7. Len(missing') < MaxPlan =>
            /\ \A e \in Placed' : Lost(e) \subseteq ToSet(missing')
            /\ \A k \in DOMAIN stack' : \A t \in SeenBy(stack'[k]) :
                   Pick(t) = NoEntry => t \in ToSet(missing')
    BY <1>4, <2>4, <2>5, <2>6
  <2>8. QED
    BY <1>1, <2>3, <2>7, ReportedFrom
<1>8. CASE Leave
  <2>1. /\ DOMAIN stack' = DOMAIN stack \ {Len(stack)} /\ Len(stack) \in DOMAIN stack
        /\ \A k \in DOMAIN stack' : stack'[k] = stack[k]
        /\ Top.e \in DOMAIN idx /\ Top.e \notin Placed
        /\ SeenBy(stack[Len(stack)]) = ToSet(Deps(Top.e))
    BY <1>1, <1>8, AfterLeave
  <2>2. missing' = missing
    BY <1>8 DEF Leave
  <2>3. Placed' \subseteq Placed \cup {Top.e}
    BY <1>1, <1>8, <2>1, AfterPlacing
  <2>4. Len(missing) < MaxPlan => Lost(Top.e) \subseteq ToSet(missing)
    BY <1>4, <2>1 DEF Lost
  <2>5. Len(missing') < MaxPlan =>
            /\ \A e \in Placed' : Lost(e) \subseteq ToSet(missing')
            /\ \A k \in DOMAIN stack' : \A t \in SeenBy(stack'[k]) :
                   Pick(t) = NoEntry => t \in ToSet(missing')
    BY <1>4, <2>1, <2>2, <2>3, <2>4
  <2>6. QED
    BY <1>1, <1>4, <2>2, <2>5, ReportedFrom
<1>9. QED
  BY <1>6, <1>7, <1>8 DEF Visit

LEMMA VisitStep == ASSUME Inv, Visit PROVE Inv'
<1>1. TypeOK /\ Sound(Closure) /\ RootOK /\ MissingOK
  BY DEF Inv
<1>2. UNCHANGED catalog /\ UNCHANGED root
  BY DEF Visit, Descend, Unresolvable, Leave
<1>3. Closure \in ClosedSets /\ (Fits <=> Cardinality(Closure) <= MaxPlan) /\ Closure' = Closure
  BY <1>1, <1>2, ClosureClosed, SameClosure
<1>4. PICK A \in ClosedSets : A = Closure
  BY <1>3
<1>5. Sound(A)' /\ (Cardinality(A) <= MaxPlan => Settled \subseteq Settled')
  BY <1>1, <1>4, VisitSound
<1>6. Sound(Closure)'
  BY <1>3, <1>4, <1>5 DEF Sound
<1>7. Fits => Settled \subseteq Settled'
  BY <1>3, <1>4, <1>5
<1>8. QED
  BY <1>1, <1>6, <1>7, VisitTypes, VisitRoot, VisitMissing DEF Inv

LEMMA SameSound ==
    ASSUME UNCHANGED catalog, UNCHANGED ordered, UNCHANGED stack, NEW A, Sound(A)
    PROVE  Sound(A)' /\ Settled' = Settled
<1>1. /\ idx' = idx
      /\ \A f : Reach(f)' = Reach(f) /\ Picks(f)' = Picks(f)
      /\ \A x : Pick(x)' = Pick(x)
      /\ \A k : SeenBy(stack[k])' = SeenBy(stack'[k])
  BY SameReach, SamePicks, SameSeen DEF catalog
<1>2. OnStack' = OnStack /\ Placed' = Placed /\ Settled' = Settled
  BY DEF OnStack, Placed, Settled
<1>3. Stacked' /\ (ordered \in Seq(DOMAIN idx))' /\ PathOK' /\ NoneTwice'
  BY <1>1, <1>2 DEF Sound, Stacked, Catalog, Frames, PathOK, NoneTwice
<1>4. SettledOK => SettledOK'
  BY <1>1, <1>2 DEF SettledOK
<1>5. InOrder => InOrder'
  BY SamePlan
<1>6. QED
  BY <1>2, <1>3, <1>4, <1>5 DEF Sound

LEMMA FindWithin == ASSUME Catalog, NEW t
                    PROVE  /\ Find(t) \in DOMAIN idx \cup {NoEntry}
                           /\ NoEntry \notin DOMAIN idx
  BY FindFinds, Positions DEF Find

\* The one call of a process.
LEMMA SelectStep ==
    ASSUME Inv, root = NoEntry, missing = <<>>, NEW t \in Targets, Select(t)
    PROVE  Inv'
<1>1. /\ UNCHANGED catalog /\ UNCHANGED ordered /\ idx' = idx /\ cpu' = cpu
      /\ ordered = <<>> /\ stack = <<>> /\ root' = Find(t)
      /\ TypeOK /\ Catalog
  BY DEF catalog, Select, Inv, RootOK, TypeOK, Catalog
<1>2. /\ Find(t) \in DOMAIN idx \cup {NoEntry} /\ NoEntry \notin DOMAIN idx
      /\ MaxPlan \in Nat \ {0} /\ DOMAIN <<>> = {} /\ Len(<<>>) = 0 /\ <<>> \in Seq(Frames)
  BY <1>1, FindWithin, ResolverConstants, EmptySeq
<1>3. Placed' = {}
  BY <1>1, <1>2 DEF Placed, ToSet
<1>4. CASE Find(t) = NoEntry
  <2>1. /\ root' = NoEntry /\ stack' = <<>> /\ missing' = Append(missing, t) /\ Closure' = {}
    BY <1>1, <1>2, <1>4 DEF Select, Closure
  <2>2. missing' \in Seq(Targets) /\ Len(missing') = 1
    BY <1>1, <1>2, <2>1, Reports DEF TypeOK
  <2>3. TypeOK'
    BY <1>1, <1>2, <2>1, <2>2 DEF TypeOK, Frames
  <2>4. Catalog'
    BY <1>1 DEF Catalog
  <2>5. (ordered = <<>> /\ stack = <<>>)'
    BY <1>1, <2>1
  <2>6. Sound({})'
    <3>1. PICK A : A = {}
      OBVIOUS
    <3>2. Sound(A)
      BY <1>1, SoundEmpty
    <3>3. Sound(A)'
      BY <1>1, <2>1, <3>2, SameSound
    <3>4. QED
      BY <3>1, <3>3 DEF Sound
  <2>7. Sound(Closure)'
    BY <2>1, <2>6 DEF Sound
  <2>8. RootOK' /\ MissingOK'
    BY <1>1, <2>1 DEF RootOK, MissingOK
  <2>9. QED
    BY <2>3, <2>7, <2>8 DEF Inv
<1>5. CASE Find(t) # NoEntry
  <2>1. PICK e \in DOMAIN idx : e = Find(t)
    BY <1>2, <1>5
  <2>2. /\ stack' = IF Enters(e) THEN <<Frame(e)>> ELSE <<>>
        /\ missing' = <<>> /\ root' = e /\ e # NoEntry
    BY <1>1, <1>2, <1>5, <2>1 DEF Select
  <2>3. PICK A : A = Reach(e)
    OBVIOUS
  <2>4. A \in ClosedSets /\ e \in A
    BY <1>1, <2>3, ReachWithin, ReachCloses, ReachSelf DEF ClosedSets
  <2>5. Sound(A)
    BY <1>1, SoundEmpty
  <2>6. /\ Sound(A)' /\ e \in Settled'
        /\ stack' # <<>> => stack'[1].e = e
    BY <1>1, <2>2, <2>4, <2>5, SelectSound
  <2>7. Closure' = A
    <3>1. \A f : Reach(f)' = Reach(f)
      BY <1>1, SameReach
    <3>2. QED
      BY <2>2, <2>3, <3>1 DEF Closure
  <2>8. Sound(Closure)'
    BY <2>6, <2>7 DEF Sound
  <2>9. Enters(e)
    <3>1. Placed = {} /\ OnStack = {} /\ Len(stack) = 0
      BY <1>1, <1>2 DEF Placed, OnStack, ToSet
    <3>2. QED
      BY <1>2, <3>1 DEF Enters
  <2>10. stack' = <<Frame(e)>> /\ stack' # <<>> /\ Len(stack') = 1
    BY <2>2, <2>9
  <2>11. TypeOK'
    <3>1. stack' \in Seq(Frames)
      BY <1>1, <2>6 DEF Sound, Stacked, Frames
    <3>2. QED
      BY <1>1, <1>2, <2>2, <2>10, <3>1, EmptySeq DEF TypeOK, Frames
  <2>12. RootOK'
    BY <2>2, <2>6, <2>10 DEF RootOK
  <2>13. MissingOK'
    <3>1. DOMAIN stack' = {1} /\ stack'[1] = Frame(e)
      BY <2>10
    <3>2. SeenBy(stack'[1]) = {}
      BY <1>1, <3>1, SeesNone
    <3>3. \A k : SeenBy(stack[k])' = SeenBy(stack'[k])
      BY <1>1, SameSeen
    <3>4. \A k \in DOMAIN stack' : \A x : x \notin SeenBy(stack[k])'
      BY <3>1, <3>2, <3>3
    <3>5. ToSet(missing)' = {}
      BY <1>2, <2>2 DEF ToSet
    <3>6. QED
      BY <1>3, <3>4, <3>5 DEF MissingOK
  <2>14. QED
    BY <2>8, <2>11, <2>12, <2>13 DEF Inv
<1>6. QED
  BY <1>4, <1>5

LEMMA Start == ASSUME Init PROVE Inv
<1>1. /\ Catalog /\ cpu \in -1..6 /\ MaxPlan \in Nat
      /\ root = NoEntry /\ ordered = <<>> /\ missing = <<>> /\ stack = <<>>
  BY ResolverConstants DEF Init, Catalog
<1>2. TypeOK
  BY <1>1, EmptySeq DEF TypeOK, Catalog
<1>3. Sound(Closure)
  BY <1>1, SoundEmpty
<1>4. RootOK /\ MissingOK
  BY <1>1 DEF RootOK, MissingOK
<1>5. QED
  BY <1>2, <1>3, <1>4 DEF Inv

LEMMA Stutter == ASSUME Inv, UNCHANGED resolver PROVE Inv'
<1>1. /\ UNCHANGED catalog /\ idx' = idx /\ cpu' = cpu
      /\ root' = root /\ ordered' = ordered /\ missing' = missing /\ stack' = stack
      /\ TypeOK /\ Sound(Closure) /\ RootOK /\ MissingOK
  BY DEF resolver, catalog, Inv
<1>2. Closure' = Closure /\ (Fits' <=> Fits) /\ Reach(root)' = Reach(root)
  BY <1>1, SameClosure
<1>3. PICK A : A = Closure
  OBVIOUS
<1>4. Sound(A)' /\ Settled' = Settled
  BY <1>1, <1>3, SameSound
<1>5. Sound(Closure)'
  BY <1>2, <1>3, <1>4 DEF Sound
<1>6. TypeOK'
  BY <1>1 DEF TypeOK
<1>7. RootOK'
  BY <1>1, <1>2, <1>4 DEF RootOK
<1>8. Placed' = Placed
  BY <1>1 DEF Placed
<1>9. MissingOK'
  BY <1>1, <1>8, ReportedFrom DEF MissingOK
<1>10. QED
  BY <1>5, <1>6, <1>7, <1>9 DEF Inv

-----------------------------------------------------------------------------
(***************************************************************************)
(* The theorems.                                                           *)
(***************************************************************************)
\* The invariant holds for every catalog, CPU and size of the tables.
THEOREM InvAlways == Spec => []Inv
<1>1. Init => Inv
  BY Start
<1>2. Inv /\ [Next]_resolver => Inv'
  <2> SUFFICES ASSUME Inv, [Next]_resolver PROVE Inv'
    OBVIOUS
  <2>1. CASE Visit
    BY <2>1, VisitStep
  <2>2. CASE root = NoEntry /\ missing = <<>> /\ \E t \in Targets : Select(t)
    BY <2>2, SelectStep
  <2>3. CASE UNCHANGED resolver
    BY <2>3, Stutter
  <2>4. QED
    BY <2>1, <2>2, <2>3 DEF Next
<1>3. QED
  BY <1>1, <1>2, PTL DEF Spec

\* The tables of ares_result and the recursion of visit never leave their
\* bounds, whatever the catalog.
THEOREM ResolverTypes == Spec => []TypeOK
<1>1. Inv => TypeOK
  BY DEF Inv
<1>2. QED
  BY <1>1, InvAlways, PTL

\* When all is seen, the plan is the closure of the selected package.
LEMMA WholeClosure == ASSUME Inv, Resolved, Fits
                      PROVE  Placed = Reach(root) /\ Last(ordered) = root
<1>1. /\ TypeOK /\ Sound(Closure) /\ RootOK /\ root # NoEntry /\ stack = <<>>
      /\ DOMAIN <<>> = {}
  BY EmptySeq DEF Inv, Resolved
<1>2. Closure = Reach(root) /\ Cardinality(Closure) <= MaxPlan
  BY <1>1, ClosureClosed
<1>3. OnStack = {} /\ Settled = Placed
  BY <1>1 DEF OnStack, Settled
<1>4. SettledOK /\ Placed \subseteq Reach(root) /\ Placed \subseteq DOMAIN idx
  BY <1>1, <1>2, <1>3 DEF Sound, Placed, ToSet
<1>5. Placed \in ClosedSets
  BY <1>3, <1>4 DEF ClosedSets, SettledOK
<1>6. root \in Placed /\ Last(ordered) = root
  BY <1>1, <1>3 DEF RootOK
<1>7. QED
  BY <1>4, <1>5, <1>6, ReachLeast

LEMMA PlanIsCorrect == ASSUME Inv PROVE PlanCorrect
<1>1. DepsFirst /\ NoneTwice
  BY ClosureClosed DEF Inv, Sound, DepsFirst, InOrder
<1>2. PlanComplete
  BY WholeClosure DEF PlanComplete
<1>3. MissingReported
  <2> SUFFICES ASSUME Resolved, Fits, Len(missing) < MaxPlan
               PROVE  ToSet(missing) = UNION {Lost(e) : e \in Reach(root)}
    BY DEF MissingReported, Lost, Deps
  <2>1. Placed = Reach(root)
    BY WholeClosure
  <2>2. MissingOK /\ root # NoEntry
    BY DEF Inv, Resolved
  <2>3. QED
    BY <2>1, <2>2 DEF MissingOK
<1>4. QED
  BY <1>1, <1>2, <1>3 DEF PlanCorrect

\* ares_resolve keeps the promise of resolve.h for every catalog: whatever
\* cycles and repeated needs there are, the plan is the closure of the
\* selected package, each package once and after what it needs, and what no
\* package provides is reported - as far as the tables hold the closure.
THEOREM PlansCorrect == Spec => []PlanCorrect
<1>1. Inv => PlanCorrect
  BY PlanIsCorrect
<1>2. QED
  BY <1>1, InvAlways, PTL

LEMMA BestIsPlanned == ASSUME Inv PROVE BestVariant
<1> SUFFICES ASSUME Resolved, Fits, NEW f \in Placed, NEW t \in ToSet(idx[f].deps),
                    Find(t) = NoEntry, {g \in Providers(t) : Satisfies(g)} # {}
             PROVE  \E e \in Placed \cap {g \in Providers(t) : Satisfies(g)} :
                        \A g \in {g \in Providers(t) : Satisfies(g)} :
                            idx[g].floor <= idx[e].floor
  BY DEF BestVariant
<1> DEFINE able == {g \in Providers(t) : Satisfies(g)}
<1>1. Catalog /\ Placed = Reach(root)
  BY WholeClosure DEF Inv, TypeOK, Catalog
<1>2. Pick(t) \in able /\ \A g \in able : idx[g].floor <= idx[Pick(t)].floor
  BY <1>1, PickIsBest
<1>3. Pick(t) \in DOMAIN idx /\ NoEntry \notin DOMAIN idx
  BY <1>1, <1>2, Positions DEF Providers
<1>4. Pick(t) \in Picks(f)
  BY <1>3 DEF Picks, ToSet
<1>5. Pick(t) \in Placed
  BY <1>1, <1>4, ReachCloses
<1>6. QED
  BY <1>2, <1>5

\* Of the builds of a package that run on this machine the plan holds the
\* best, whatever the catalog's order.
THEOREM BestVariantPlanned == Spec => []BestVariant
<1>1. Inv => BestVariant
  BY BestIsPlanned
<1>2. QED
  BY <1>1, InvAlways, PTL
=============================================================================
