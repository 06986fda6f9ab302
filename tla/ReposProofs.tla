---------------------------- MODULE ReposProofs ----------------------------
(***************************************************************************)
(* Theorems about Repos, for any number of repositories, catalogs and      *)
(* keys, and any number of edits, publications, updates and power cuts.    *)
(***************************************************************************)
EXTENDS Repos, SequenceTheorems, WellFoundedInduction, TLAPS

(***************************************************************************)
(* The inductive invariant.                                                *)
(***************************************************************************)
\* The list as it is or, while it is being written, will be.
Current == IF saving # <<>> THEN saving ELSE Loaded

IsList(s) == s \in Seq(Entry) /\ Len(s) <= MaxRepos
OneEach(s) == \A i, j \in DOMAIN s : s[i].id = s[j].id => i = j
GoodList(s) == IsList(s) /\ OneEach(s)

\* Of a repository that never left the list or changed its key, s tells the
\* key that the list has.
Agrees(s) == \A j \in DOMAIN s : s[j].id \notin dropped => Keeps(Current, s[j])

ListOK ==
    /\ GoodList(file) /\ GoodList(shown) /\ GoodList(saving)
    /\ saving # <<>> => file = <<>>
    /\ window \in BOOLEAN /\ dropped \subseteq Ids

ServerOK ==
    /\ server \in [Urls -> Catalogs \cup {Junk, Down}]
    /\ steady \subseteq Urls /\ crashes \in Nat

UpdateOK ==
    /\ GoodList(l)
    /\ pc \in {"idle", "next", "json", "sig", "check", "write"}
    /\ k \in 1..(Len(l) + 1) /\ (pc \notin {"idle", "next"} => k \in DOMAIN l)
    /\ got \in Catalogs \cup {Junk, NoFile} /\ sig \in Catalogs \cup {Junk, NoFile}
    /\ ok \in 0..(k - 1)
    /\ pc = "write" => Acceptable

CacheTypeOK == cache \in [Ids -> Catalogs \cup {Junk, NoFile}]

\* A catalog in the cache was accepted for the key its id still has.
Trusted ==
    /\ Agrees(shown) /\ Agrees(l) /\ Agrees(DefaultList)
    /\ \A id \in Ids : cache[id] \in Catalogs /\ id \notin dropped =>
           \E j \in DOMAIN Current :
               /\ Current[j].id = id
               /\ Current[j].key = Unsigned \/ SignedBy[cache[id]] = Current[j].key

\* What was fetched from a steady URL is what it still answers, and the
\* repositories before the update's place are done.
FetchedOK(e) ==
    e.url \in steady =>
        /\ pc \in {"sig", "check", "write"} => got = server[e.url]
        /\ pc \in {"check", "write"} /\ e.key # Unsigned => sig = server[e.url]
DoneOK(e) ==
    LET c == server[e.url]
    IN e.on /\ e.url \in steady /\ Readable(c) /\ Vouched(e, c, c) => cache[e.id] = c
Progress ==
    /\ pc \notin {"idle", "next"} => FetchedOK(E)
    /\ \A j \in 1..(k - 1) : DoneOK(l[j])

Inv ==
    /\ ListOK /\ ServerOK /\ UpdateOK /\ CacheTypeOK
    /\ Trusted /\ Progress /\ CatalogsUsable

-----------------------------------------------------------------------------
(***************************************************************************)
(* Lists: what a search finds, and what an edit leaves of a good list.     *)
(***************************************************************************)
LEMMA AtFinds == ASSUME NEW s, NEW id \in IdsOf(s)
                 PROVE  At(s, id) \in DOMAIN s /\ s[At(s, id)].id = id
  BY DEF At, IdsOf

LEMMA EmptyGood == GoodList(<<>>)
<1>1. <<>> \in Seq(Entry) /\ Len(<<>>) = 0
  BY EmptySeq
<1>2. DOMAIN <<>> = {}
  OBVIOUS
<1>3. QED
  BY <1>1, <1>2, ReposConstants DEF GoodList, IsList, OneEach

LEMMA DefaultGood ==
    /\ GoodList(DefaultList) /\ DOMAIN DefaultList = {1} /\ DefaultList # <<>>
    /\ DefaultList[1] = [id |-> Official, url |-> Home, key |-> HomeKey, on |-> TRUE]
<1> DEFINE e == [id |-> Official, url |-> Home, key |-> HomeKey, on |-> TRUE]
<1>1. e \in Entry
  BY ReposConstants DEF Entry
<1>2. DefaultList = <<e>>
  BY DEF DefaultList
<1> HIDE DEF e
<1>3. <<e>> \in Seq(Entry) /\ Len(<<e>>) = 1 /\ DOMAIN <<e>> = {1} /\ <<e>>[1] = e
  BY <1>1
<1>4. GoodList(DefaultList) /\ DOMAIN DefaultList = {1} /\ DefaultList[1] = e
  BY <1>2, <1>3, ReposConstants DEF GoodList, IsList, OneEach
<1>5. DefaultList # <<>>
  BY <1>4
<1>6. QED
  BY <1>4, <1>5 DEF e

LEMMA GoodDomain == ASSUME NEW s, GoodList(s)
                    PROVE  /\ Len(s) \in Nat /\ Len(s) <= MaxRepos /\ DOMAIN s = 1..Len(s)
                           /\ \A j \in DOMAIN s : s[j] \in Entry
                           /\ s \in Seq(Entry)
                           /\ IdsOf(s) \subseteq Ids
<1>1. s \in Seq(Entry) /\ Len(s) <= MaxRepos
  BY DEF GoodList, IsList
<1>2. Len(s) \in Nat /\ DOMAIN s = 1..Len(s) /\ s \in [1..Len(s) -> Entry]
  BY <1>1, LenProperties
<1>3. QED
  BY <1>1, <1>2 DEF IdsOf, Entry

LEMMA AppendGood == ASSUME NEW s, GoodList(s), NEW e \in Entry, CanAdd(s, e)
                    PROVE  GoodList(Append(s, e))
<1> DEFINE t == Append(s, e)
<1>1. /\ s \in Seq(Entry) /\ Len(s) \in Nat /\ DOMAIN s = 1..Len(s)
  BY GoodDomain
<1>2. /\ t \in Seq(Entry) /\ Len(t) = Len(s) + 1
      /\ \A i \in 1..Len(s) : t[i] = s[i]
      /\ t[Len(s) + 1] = e
  BY <1>1, AppendProperties
<1>3. DOMAIN t = 1..(Len(s) + 1)
  BY <1>2, LenProperties
<1> HIDE DEF t
<1>4. \A i \in DOMAIN s : s[i].id # e.id
  BY DEF CanAdd, IdsOf
<1>5. ASSUME NEW i \in DOMAIN t, NEW j \in DOMAIN t, t[i].id = t[j].id PROVE i = j
  <2>1. CASE i \in 1..Len(s) /\ j \in 1..Len(s)
    BY <1>1, <1>2, <1>5, <2>1 DEF GoodList, OneEach
  <2>2. CASE i = Len(s) + 1 /\ j \in 1..Len(s)
    BY <1>1, <1>2, <1>4, <1>5, <2>2
  <2>3. CASE j = Len(s) + 1 /\ i \in 1..Len(s)
    BY <1>1, <1>2, <1>4, <1>5, <2>3
  <2>4. QED
    BY <1>1, <1>3, <2>1, <2>2, <2>3
<1>6. Len(t) <= MaxRepos
  BY <1>1, <1>2, ReposConstants DEF CanAdd
<1>7. QED
  BY <1>2, <1>5, <1>6 DEF GoodList, IsList, OneEach, t

LEMMA RemoveGood == ASSUME NEW s, GoodList(s), NEW m \in DOMAIN s
                    PROVE  GoodList(RemoveAt(s, m))
<1> DEFINE a == SubSeq(s, 1, m - 1)
           b == SubSeq(s, m + 1, Len(s))
           t == a \o b
           from(i) == IF i < m THEN i ELSE i + 1
<1>1. /\ s \in Seq(Entry) /\ Len(s) \in Nat /\ DOMAIN s = 1..Len(s)
      /\ \A j \in 1..Len(s) : s[j] \in Entry
  BY GoodDomain
<1>2. m \in 1..Len(s) /\ m - 1 \in Int /\ m + 1 \in Int
  BY <1>1
<1>3. /\ a \in Seq(Entry) /\ Len(a) = m - 1 /\ \A i \in 1..(m - 1) : a[i] = s[i]
  <2>1. \A i \in 1..(m - 1) : s[i] \in Entry
    BY <1>1, <1>2
  <2>2. /\ a \in Seq(Entry)
        /\ Len(a) = IF 1 <= m - 1 THEN (m - 1) - 1 + 1 ELSE 0
        /\ \A i \in 1..((m - 1) - 1 + 1) : a[i] = s[1 + i - 1]
    BY <1>2, <2>1, SubSeqProperties
  <2> HIDE DEF a
  <2>3. QED
    BY <1>2, <2>2
<1>4. /\ b \in Seq(Entry) /\ Len(b) = Len(s) - m
      /\ \A i \in 1..(Len(s) - m) : b[i] = s[m + i]
  <2>1. \A i \in (m + 1)..Len(s) : s[i] \in Entry
    BY <1>1, <1>2
  <2>2. /\ b \in Seq(Entry)
        /\ Len(b) = IF m + 1 <= Len(s) THEN Len(s) - (m + 1) + 1 ELSE 0
        /\ \A i \in 1..(Len(s) - (m + 1) + 1) : b[i] = s[(m + 1) + i - 1]
    BY <1>1, <1>2, <2>1, SubSeqProperties
  <2> HIDE DEF b
  <2>3. Len(b) = Len(s) - m
    <3>1. CASE m + 1 <= Len(s)
      BY <1>1, <1>2, <2>2, <3>1
    <3>2. CASE m = Len(s)
      BY <1>1, <1>2, <2>2, <3>2
    <3>3. QED
      BY <1>1, <1>2, <3>1, <3>2
  <2>4. ASSUME NEW i \in 1..(Len(s) - m) PROVE b[i] = s[m + i]
    <3>1. i \in 1..(Len(s) - (m + 1) + 1) /\ (m + 1) + i - 1 = m + i
      BY <1>1, <1>2
    <3>2. QED
      BY <2>2, <3>1
  <2>5. QED
    BY <2>2, <2>3, <2>4
<1> HIDE DEF a, b
<1>5. /\ t \in Seq(Entry) /\ Len(t) = Len(s) - 1
      /\ \A i \in 1..(Len(s) - 1) : t[i] = IF i <= m - 1 THEN a[i] ELSE b[i - (m - 1)]
  <2>1. /\ t \in Seq(Entry) /\ Len(t) = Len(a) + Len(b)
        /\ \A i \in 1..(Len(a) + Len(b)) : t[i] = IF i <= Len(a) THEN a[i] ELSE b[i - Len(a)]
    BY <1>3, <1>4, ConcatProperties
  <2> HIDE DEF t
  <2>2. QED
    BY <1>1, <1>2, <1>3, <1>4, <2>1
<1>6. DOMAIN t = 1..(Len(s) - 1)
  BY <1>5, LenProperties
<1> HIDE DEF t
<1>7. ASSUME NEW i \in DOMAIN t PROVE from(i) \in DOMAIN s /\ t[i] = s[from(i)]
  <2>1. CASE i <= m - 1
    BY <1>1, <1>2, <1>3, <1>5, <1>6, <2>1
  <2>2. CASE ~(i <= m - 1)
    <3>1. i - (m - 1) \in 1..(Len(s) - m) /\ m + (i - (m - 1)) = i + 1
      BY <1>1, <1>2, <1>6, <2>2
    <3>2. t[i] = b[i - (m - 1)]
      BY <1>5, <1>6, <2>2
    <3>3. t[i] = s[i + 1]
      BY <1>4, <3>1, <3>2
    <3>4. i + 1 \in 1..Len(s) /\ ~(i < m)
      BY <1>1, <1>2, <1>6, <2>2
    <3>5. QED
      BY <1>1, <3>3, <3>4
  <2>3. QED
    BY <2>1, <2>2
<1>8. ASSUME NEW i \in DOMAIN t, NEW j \in DOMAIN t, t[i].id = t[j].id PROVE i = j
  <2>1. from(i) = from(j)
    BY <1>7, <1>8 DEF GoodList, OneEach
  <2>2. QED
    BY <1>1, <1>2, <1>6, <2>1
<1>9. Len(t) <= MaxRepos
  BY <1>1, <1>5, ReposConstants DEF GoodList, IsList
<1>10. GoodList(t)
  BY <1>5, <1>8, <1>9 DEF GoodList, IsList, OneEach
<1>11. QED
  BY <1>10 DEF RemoveAt, t, a, b

\* A list changed in place, its ids only reordered.
LEMMA PermutedGood ==
    ASSUME NEW s, GoodList(s), NEW t, NEW from \in [DOMAIN s -> DOMAIN s],
           t \in Seq(Entry), Len(t) = Len(s),
           \A i, j \in DOMAIN s : from[i] = from[j] => i = j,
           \A i \in DOMAIN s : t[i].id = s[from[i]].id
    PROVE  GoodList(t)
<1>1. DOMAIN t = DOMAIN s
  BY GoodDomain, LenProperties
<1>2. ASSUME NEW i \in DOMAIN t, NEW j \in DOMAIN t, t[i].id = t[j].id PROVE i = j
  BY <1>1, <1>2 DEF GoodList, OneEach
<1>3. QED
  BY <1>2 DEF GoodList, IsList, OneEach

LEMMA SwitchGood == ASSUME NEW s, GoodList(s), NEW id \in IdsOf(s)
                    PROVE  GoodList(Switch(s, id))
<1> DEFINE m == At(s, id)
           e == [s[m] EXCEPT !.on = ~@]
           t == [s EXCEPT ![m] = e]
<1>1. m \in DOMAIN s
  BY AtFinds
<1> HIDE DEF m
<1>2. s[m] \in Entry /\ m \in 1..Len(s) /\ s \in Seq(Entry) /\ DOMAIN s = 1..Len(s)
  BY <1>1, GoodDomain
<1>3. e \in Entry /\ e.id = s[m].id
  BY <1>2 DEF Entry
<1> HIDE DEF e
<1>4. /\ t \in Seq(Entry) /\ Len(t) = Len(s)
      /\ \A j \in 1..Len(s) : t[j] = IF j = m THEN e ELSE s[j]
  BY <1>2, <1>3, ExceptSeq
<1> HIDE DEF t
<1>5. \A j \in DOMAIN s : t[j].id = s[j].id
  BY <1>2, <1>3, <1>4
<1> DEFINE same == [j \in DOMAIN s |-> j]
<1>6. /\ same \in [DOMAIN s -> DOMAIN s]
      /\ \A i, j \in DOMAIN s : same[i] = same[j] => i = j
      /\ \A j \in DOMAIN s : t[j].id = s[same[j]].id
  BY <1>5
<1> HIDE DEF same
<1>7. GoodList(t)
  BY <1>4, <1>6, PermutedGood
<1>8. Switch(s, id) = t
  BY DEF Switch, t, e, m
<1>9. QED
  BY <1>7, <1>8

LEMMA MoveGood == ASSUME NEW s, GoodList(s), NEW id \in IdsOf(s), NEW delta \in {-1, 1}
                  PROVE  GoodList(Move(s, id, delta))
<1> DEFINE a == At(s, id)
           b == a + delta
           u == [s EXCEPT ![a] = s[b]]
           t == [u EXCEPT ![b] = s[a]]
           swap == [j \in DOMAIN s |-> IF j = a THEN b ELSE IF j = b THEN a ELSE j]
<1>1. CASE b \notin DOMAIN s
  BY <1>1 DEF Move
<1>2. CASE b \in DOMAIN s
  <2>1. a \in DOMAIN s
    BY AtFinds
  <2>2. Move(s, id, delta) = t
    BY <1>2 DEF Move
  <2>3. a # b
    BY <2>1, GoodDomain
  <2> HIDE DEF a, b
  <2>4. /\ a \in 1..Len(s) /\ b \in 1..Len(s) /\ s[a] \in Entry /\ s[b] \in Entry
        /\ s \in Seq(Entry) /\ DOMAIN s = 1..Len(s)
    BY <1>2, <2>1, GoodDomain
  <2>5. /\ u \in Seq(Entry) /\ Len(u) = Len(s)
        /\ \A j \in 1..Len(s) : u[j] = IF j = a THEN s[b] ELSE s[j]
    BY <2>4, ExceptSeq
  <2> HIDE DEF u
  <2>6. b \in 1..Len(u)
    BY <2>4, <2>5
  <2>7. /\ t \in Seq(Entry) /\ Len(t) = Len(u)
        /\ \A j \in 1..Len(u) : t[j] = IF j = b THEN s[a] ELSE u[j]
    BY <2>4, <2>5, <2>6, ExceptSeq
  <2> HIDE DEF t
  <2>8. swap \in [DOMAIN s -> DOMAIN s]
    BY <1>2, <2>1
  <2>9. \A i, j \in DOMAIN s : swap[i] = swap[j] => i = j
    BY <2>3
  <2>10. \A j \in DOMAIN s : t[j].id = s[swap[j]].id
    BY <2>3, <2>4, <2>5, <2>7
  <2> HIDE DEF swap
  <2>11. Len(t) = Len(s)
    BY <2>5, <2>7
  <2>12. GoodList(t)
    BY <2>7, <2>8, <2>9, <2>10, <2>11, PermutedGood
  <2>13. QED
    BY <2>2, <2>12
<1>3. QED
  BY <1>1, <1>2

\* An edit of a good list, one id listed once and no more than fit, is a good list.
LEMMA EditedGood == ASSUME NEW s, GoodList(s), NEW t \in Edited(s) PROVE GoodList(t)
<1>1. CASE \E e \in Addable : CanAdd(s, e) /\ t = Append(s, e)
  <2>1. PICK e \in Addable : CanAdd(s, e) /\ t = Append(s, e)
    BY <1>1
  <2>2. e \in Entry
    BY ReposConstants
  <2>3. QED
    BY <2>1, <2>2, AppendGood
<1>2. CASE \E id \in IdsOf(s) : t = RemoveAt(s, At(s, id))
  BY <1>2, AtFinds, RemoveGood
<1>3. CASE \E id \in IdsOf(s) : t = Switch(s, id)
  BY <1>3, SwitchGood
<1>4. CASE \E id \in IdsOf(s), delta \in {-1, 1} : t = Move(s, id, delta)
  BY <1>4, MoveGood
<1>5. QED
  BY <1>1, <1>2, <1>3, <1>4 DEF Edited

\* AMIPKG_REPO_URL changes where the official repository is fetched from, and
\* no repository's name or key.
LEMMA OverriddenGood ==
    ASSUME NEW s, GoodList(s), NEW o \in Overrides
    PROVE  /\ GoodList(Overridden(s, o))
           /\ DOMAIN Overridden(s, o) = DOMAIN s
           /\ \A j \in DOMAIN s : /\ Overridden(s, o)[j].id = s[j].id
                                  /\ Overridden(s, o)[j].key = s[j].key
<1>1. CASE o = Unset \/ Official \notin IdsOf(s)
  BY <1>1 DEF Overridden
<1>2. CASE o # Unset /\ Official \in IdsOf(s)
  <2> DEFINE m == At(s, Official)
             e == [s[m] EXCEPT !.url = o]
             t == [s EXCEPT ![m] = e]
             same == [j \in DOMAIN s |-> j]
  <2>1. m \in DOMAIN s
    BY <1>2, AtFinds
  <2>2. Overridden(s, o) = t
    BY <1>2 DEF Overridden
  <2> HIDE DEF m
  <2>3. s[m] \in Entry /\ m \in 1..Len(s) /\ s \in Seq(Entry) /\ DOMAIN s = 1..Len(s)
    BY <2>1, GoodDomain
  <2>4. e \in Entry /\ e.id = s[m].id /\ e.key = s[m].key
    BY <1>2, <2>3, ReposConstants DEF Entry
  <2> HIDE DEF e
  <2>5. /\ t \in Seq(Entry) /\ Len(t) = Len(s)
        /\ \A j \in 1..Len(s) : t[j] = IF j = m THEN e ELSE s[j]
    BY <2>3, <2>4, ExceptSeq
  <2> HIDE DEF t
  <2>6. \A j \in DOMAIN s : t[j].id = s[j].id /\ t[j].key = s[j].key
    BY <2>3, <2>4, <2>5
  <2>7. /\ same \in [DOMAIN s -> DOMAIN s]
        /\ \A i, j \in DOMAIN s : same[i] = same[j] => i = j
        /\ \A j \in DOMAIN s : t[j].id = s[same[j]].id
    BY <2>6
  <2> HIDE DEF same
  <2>8. GoodList(t)
    BY <2>5, <2>7, PermutedGood
  <2>9. DOMAIN t = DOMAIN s
    BY <2>3, <2>5, LenProperties
  <2>10. QED
    BY <2>2, <2>6, <2>8, <2>9
<1>3. QED
  BY <1>1, <1>2

-----------------------------------------------------------------------------
(***************************************************************************)
(* Edits.                                                                  *)
(***************************************************************************)
LEMMA LoadedGood == ASSUME ListOK
                    PROVE  /\ GoodList(Loaded) /\ Loaded # <<>>
                           /\ GoodList(Current) /\ Current # <<>>
                           /\ saving = <<>> => Current = Loaded
                           /\ saving # <<>> => Loaded = DefaultList
  BY DefaultGood DEF ListOK, Loaded, Current

\* An id that an edit does not mark as dropped keeps its key.
LEMMA EditKeeps ==
    ASSUME ListOK, NEW s, Edit(s), NEW d, d.id \notin dropped', Keeps(Current, d)
    PROVE  Keeps(Current', d)
<1>1. saving = <<>> /\ Current = Loaded
  BY LoadedGood DEF Edit
<1>2. PICK j \in DOMAIN Loaded : Loaded[j].id = d.id /\ Loaded[j].key = d.key
  BY <1>1 DEF Keeps
<1>3. Loaded[j] \in ToSet(Loaded)
  BY DEF ToSet
<1>4. Keeps(saving', Loaded[j])
  BY <1>2, <1>3 DEF Edit
<1>5. PICK i \in DOMAIN saving' : saving'[i].id = d.id /\ saving'[i].key = d.key
  BY <1>2, <1>4 DEF Keeps
<1>6. saving' # <<>>
  BY <1>5
<1>7. QED
  BY <1>5, <1>6 DEF Current, Keeps

LEMMA EditTrusted ==
    ASSUME ListOK, CacheTypeOK, Trusted, NEW s, GoodList(s), Edit(s), GoodList(shown'),
           shown' \in {shown, DefaultList}, window' \in BOOLEAN
    PROVE  ListOK' /\ Trusted'
<1>1. GoodList(saving')
  BY EditedGood DEF Edit
<1>2. \A e \in {f \in ToSet(Loaded) : ~Keeps(saving', f)} : e.id \in Ids
  BY LoadedGood, GoodDomain DEF ToSet, Entry
<1>3. dropped' \subseteq Ids /\ dropped \subseteq dropped'
  BY <1>2 DEF Edit, ListOK
<1>4. ListOK'
  BY <1>1, <1>3, EmptyGood DEF Edit, ListOK
<1>5. \A d : d.id \notin dropped' /\ Keeps(Current, d) => Keeps(Current', d)
  BY EditKeeps
<1>6. ASSUME NEW t, Agrees(t) PROVE \A j \in DOMAIN t : t[j].id \notin dropped' => Keeps(Current', t[j])
  BY <1>3, <1>5, <1>6 DEF Agrees
<1>7. Agrees(DefaultList)' /\ Agrees(shown)' /\ Agrees(l)'
  <2>1. \A j \in DOMAIN DefaultList : DefaultList[j].id \notin dropped' => Keeps(Current', DefaultList[j])
    BY <1>6 DEF Trusted
  <2>2. \A j \in DOMAIN shown : shown[j].id \notin dropped' => Keeps(Current', shown[j])
    BY <1>6 DEF Trusted
  <2>3. \A j \in DOMAIN l : l[j].id \notin dropped' => Keeps(Current', l[j])
    BY <1>6 DEF Trusted
  <2>4. l' = l
    BY DEF Edit, upd
  <2>5. Agrees(DefaultList)'
    BY <2>1 DEF Agrees, DefaultList
  <2>6. QED
    BY <2>1, <2>2, <2>3, <2>4, <2>5 DEF Agrees
<1>8. ASSUME NEW id \in Ids, cache'[id] \in Catalogs, id \notin dropped'
      PROVE  \E j \in DOMAIN Current' :
                 /\ Current'[j].id = id
                 /\ Current'[j].key = Unsigned \/ SignedBy[cache'[id]] = Current'[j].key
  <2>1. cache' = cache
    BY DEF Edit
  <2>2. PICK j \in DOMAIN Current :
            /\ Current[j].id = id
            /\ Current[j].key = Unsigned \/ SignedBy[cache[id]] = Current[j].key
    BY <1>3, <1>8, <2>1 DEF Trusted
  <2>3. Keeps(Current, Current[j])
    BY DEF Keeps
  <2>4. Keeps(Current', Current[j])
    BY <1>5, <1>8, <2>2, <2>3
  <2>5. QED
    BY <2>1, <2>2, <2>4 DEF Keeps
<1>9. QED
  BY <1>4, <1>7, <1>8 DEF Trusted

-----------------------------------------------------------------------------
(***************************************************************************)
(* What a step leaves alone.                                               *)
(***************************************************************************)
LEMMA ListSame == ASSUME ListOK, UNCHANGED list PROVE ListOK'
  BY DEF ListOK, list, GoodList, IsList, OneEach

LEMMA TrustedSame == ASSUME Trusted, UNCHANGED <<list, cache, l>> PROVE Trusted'
  BY DEF Trusted, Agrees, Current, Loaded, Keeps, list, DefaultList

LEMMA ServerSame == ASSUME ServerOK, UNCHANGED <<server, steady, crashes>> PROVE ServerOK'
  BY DEF ServerOK

LEMMA UpdateSame == ASSUME UpdateOK, UNCHANGED upd PROVE UpdateOK'
  BY DEF UpdateOK, upd, GoodList, IsList, OneEach, Acceptable, Vouched, Readable, E

LEMMA CacheSame == ASSUME CacheTypeOK, UNCHANGED cache PROVE CacheTypeOK'
  BY DEF CacheTypeOK

LEMMA ProgressSame == ASSUME Progress, UNCHANGED <<upd, server, cache, steady>> PROVE Progress'
  BY DEF Progress, upd, FetchedOK, DoneOK, E, Readable, Vouched

LEMMA UsableSame == ASSUME CatalogsUsable, UNCHANGED <<cache, pc, l, k, crashes>>
                    PROVE  CatalogsUsable'
  BY DEF CatalogsUsable, E

-----------------------------------------------------------------------------
(***************************************************************************)
(* The steps.                                                              *)
(***************************************************************************)
LEMMA InitInv == ASSUME Init PROVE Inv
<1>1. file = <<>> /\ shown = DefaultList /\ saving = <<>> /\ l = <<>> /\ Current = DefaultList
  BY DEF Init, Current, Loaded
<1>2. ListOK
  BY <1>1, EmptyGood, DefaultGood DEF Init, ListOK
<1>3. Len(l) = 0 /\ DOMAIN l = {}
  BY <1>1
<1>4. UpdateOK
  BY <1>1, <1>3, EmptyGood DEF Init, UpdateOK
<1>5. ServerOK
  BY DEF Init, ServerOK
<1>6. PICK c \in {d \in Catalogs : SignedBy[d] = HomeKey /\ Readable(d)} \cup {NoFile} :
          cache = [id \in Ids |-> IF id = Official THEN c ELSE NoFile]
  BY DEF Init
<1>7. CacheTypeOK
  BY <1>6 DEF CacheTypeOK
<1>8. Trusted
  <2>1. Agrees(DefaultList) /\ Agrees(shown) /\ Agrees(l)
    BY <1>1, <1>3 DEF Agrees, Keeps
  <2>2. ASSUME NEW id \in Ids, cache[id] \in Catalogs
        PROVE  id = Official /\ SignedBy[cache[id]] = HomeKey
    BY <1>6, <2>2, ReposConstants
  <2>3. QED
    BY <1>1, <2>1, <2>2, DefaultGood DEF Trusted
<1>9. Progress
  BY <1>3 DEF Init, Progress
<1>10. CatalogsUsable
  BY <1>6 DEF CatalogsUsable, Readable
<1>11. QED
  BY <1>2, <1>4, <1>5, <1>7, <1>8, <1>9, <1>10 DEF Inv

LEMMA ListSteps == ASSUME Inv, CmdRepo \/ WindowButton \/ Saved \/ WindowOpens PROVE Inv'
<1>1. ListOK /\ Trusted /\ CacheTypeOK /\ GoodList(shown) /\ GoodList(Loaded)
  BY LoadedGood DEF Inv, ListOK
<1>2. UNCHANGED <<cache, server, upd, steady, crashes>>
  BY DEF CmdRepo, WindowButton, Saved, WindowOpens, Edit, counts
<1>3. ListOK' /\ Trusted'
  <2>1. CASE CmdRepo
    BY <1>1, <2>1, EditTrusted DEF CmdRepo
  <2>2. CASE WindowButton
    <3>1. Edit(shown) /\ window' \in BOOLEAN /\ shown' \in {shown, DefaultList}
      BY <2>2 DEF WindowButton
    <3>2. GoodList(shown')
      BY <1>1, <3>1, DefaultGood
    <3>3. QED
      BY <1>1, <3>1, <3>2, EditTrusted
  <2>3. CASE Saved
    <3>1. /\ saving # <<>> /\ file' = saving /\ saving' = <<>> /\ dropped' = dropped
          /\ Current = saving /\ Current' = Current /\ shown' \in {shown, saving}
          /\ window' = FALSE
      BY <2>3 DEF Saved, Current, Loaded
    <3>2. ListOK'
      BY <1>1, <3>1, EmptyGood DEF ListOK
    <3>3. Agrees(shown)'
      BY <1>1, <3>1 DEF Trusted, Agrees, Keeps
    <3>4. Agrees(l)' /\ Agrees(DefaultList)'
      BY <1>1, <1>2, <3>1 DEF Trusted, Agrees, Keeps, upd, DefaultList
    <3>5. QED
      BY <1>1, <1>2, <3>1, <3>2, <3>3, <3>4 DEF Trusted
  <2>4. CASE WindowOpens
    <3>1. /\ UNCHANGED <<file, saving, window, dropped, l>> /\ shown' = Loaded
          /\ Current' = Current
      BY <1>2, <2>4 DEF WindowOpens, Current, Loaded, upd
    <3>2. ListOK'
      BY <1>1, <3>1 DEF ListOK
    <3>3. Agrees(Loaded)
      BY <1>1, LoadedGood DEF Trusted, Agrees, Keeps
    <3>4. Agrees(shown)'
      BY <3>1, <3>3 DEF Agrees
    <3>5. Agrees(l)' /\ Agrees(DefaultList)'
      BY <1>1, <3>1 DEF Trusted, Agrees, DefaultList
    <3>6. QED
      BY <1>1, <1>2, <3>1, <3>2, <3>4, <3>5 DEF Trusted
  <2>5. QED
    BY <2>1, <2>2, <2>3, <2>4
<1>4. UpdateOK' /\ ServerOK' /\ CacheTypeOK' /\ Progress' /\ CatalogsUsable'
  BY <1>2, UpdateSame, ServerSame, CacheSame, ProgressSame, UsableSame DEF Inv, upd
<1>5. QED
  BY <1>3, <1>4 DEF Inv

LEMMA PublishStep == ASSUME Inv, NEW u \in Urls, NEW a \in Catalogs \cup {Junk, Down}, Publish(u, a)
                     PROVE  Inv'
<1>1. /\ UNCHANGED <<list, cache, upd, crashes, l, pc, k, got, sig>>
      /\ server' = [server EXCEPT ![u] = a] /\ steady' = steady \ {u}
  BY DEF Publish, upd
<1>2. ServerOK'
  BY <1>1 DEF Inv, ServerOK
<1>3. \A v \in steady' : v \in steady /\ server'[v] = server[v]
  BY <1>1 DEF Inv, ServerOK
<1>4. Progress'
  <2>1. \A e : FetchedOK(e) => FetchedOK(e)'
    BY <1>1, <1>3 DEF FetchedOK
  <2>2. \A e : DoneOK(e) => DoneOK(e)'
    BY <1>1, <1>3 DEF DoneOK, Readable, Vouched
  <2>3. E' = E
    BY <1>1 DEF E
  <2>4. pc' \notin {"idle", "next"} => FetchedOK(E)'
    BY <1>1, <2>1, <2>3 DEF Inv, Progress, FetchedOK
  <2>5. \A j \in 1..(k' - 1) : DoneOK(l[j])'
    BY <1>1, <2>2 DEF Inv, Progress, DoneOK
  <2>6. QED
    BY <2>4, <2>5 DEF Progress
<1>5. QED
  BY <1>1, <1>2, <1>4, ListSame, TrustedSame, UpdateSame, CacheSame, UsableSame DEF Inv

LEMMA BeginStep == ASSUME Inv, NEW o \in Overrides, BeginUpdate(o) PROVE Inv'
<1>1. /\ UNCHANGED <<list, cache, server, got, sig, crashes>>
      /\ l' = Overridden(Loaded, o) /\ k' = 1 /\ ok' = 0 /\ pc' = "next" /\ steady' = Urls
  BY DEF BeginUpdate
<1>2. GoodList(Loaded)
  BY LoadedGood DEF Inv
<1>3. /\ GoodList(l') /\ DOMAIN l' = DOMAIN Loaded
      /\ \A j \in DOMAIN Loaded : l'[j].id = Loaded[j].id /\ l'[j].key = Loaded[j].key
  BY <1>1, <1>2, OverriddenGood
<1>4. Len(l') \in Nat
  BY <1>3, GoodDomain
<1>5. UpdateOK'
  BY <1>1, <1>3, <1>4 DEF Inv, UpdateOK
<1>6. Trusted'
  <2>1. Agrees(Loaded)
    BY LoadedGood DEF Inv, Trusted, Agrees, Keeps
  <2>2. Current' = Current /\ dropped' = dropped /\ shown' = shown
    BY <1>1 DEF Current, Loaded, list
  <2>3. Agrees(l)'
    BY <1>3, <2>1, <2>2 DEF Agrees, Keeps
  <2>4. Agrees(shown)' /\ Agrees(DefaultList)'
    BY <2>2 DEF Inv, Trusted, Agrees, DefaultList
  <2>5. QED
    BY <1>1, <2>2, <2>3, <2>4 DEF Inv, Trusted
<1>7. ServerOK' /\ Progress'
  BY <1>1 DEF Inv, ServerOK, Progress
<1>8. CatalogsUsable'
  <2>1. pc = "idle"
    BY DEF BeginUpdate
  <2>2. QED
    BY <1>1, <2>1 DEF Inv, CatalogsUsable
<1>9. QED
  BY <1>1, <1>5, <1>6, <1>7, <1>8, ListSame, CacheSame DEF Inv

\* A step of the update that leaves the catalog files alone.
StepsAside == NextRepo \/ FetchCatalog \/ FetchSignature \/ Refuse

LEMMA StepsAsideInv == ASSUME Inv, StepsAside PROVE Inv'
<1>1. UNCHANGED <<list, cache, server, l, steady, crashes>>
  BY DEF StepsAside, NextRepo, FetchCatalog, FetchSignature, Refuse, counts
<1>2. /\ GoodList(l) /\ Len(l) \in Nat /\ DOMAIN l = 1..Len(l)
      /\ k \in 1..(Len(l) + 1)
  BY GoodDomain DEF Inv, UpdateOK
<1>3. k \in DOMAIN l /\ E \in Entry
  BY <1>2, GoodDomain DEF StepsAside, NextRepo, FetchCatalog, FetchSignature, Refuse, Inv, UpdateOK, E
<1>4. server[E.url] \in Catalogs \cup {Junk, Down}
  BY <1>3 DEF Inv, ServerOK, Entry
<1>5. /\ k' \in 1..(Len(l) + 1) /\ ok' \in 0..(k' - 1) /\ ok' = ok
      /\ pc' \in {"next", "json", "sig", "check"}
      /\ pc' # "next" => k' \in DOMAIN l
      /\ got' \in Catalogs \cup {Junk, NoFile} /\ sig' \in Catalogs \cup {Junk, NoFile}
  <2>1. CASE NextRepo
    BY <1>2, <1>3, <2>1 DEF NextRepo, Inv, UpdateOK
  <2>2. CASE FetchCatalog
    BY <1>2, <1>3, <1>4, <2>2 DEF FetchCatalog, Fail, GoOn, Inv, UpdateOK
  <2>3. CASE FetchSignature
    BY <1>2, <1>3, <1>4, <2>3 DEF FetchSignature, Fail, GoOn, Inv, UpdateOK
  <2>4. CASE Refuse
    BY <1>2, <1>3, <2>4 DEF Refuse, Fail, GoOn, Inv, UpdateOK
  <2>5. QED
    BY <2>1, <2>2, <2>3, <2>4 DEF StepsAside
<1>6. UpdateOK'
  <2>1. GoodList(l)'
    BY <1>1, <1>2 DEF GoodList, IsList, OneEach
  <2>2. QED
    BY <1>1, <1>5, <2>1 DEF UpdateOK
<1>7. Progress'
  <2>1. ~Readable(Down)
    BY ReposConstants DEF Readable
  <2> PICK e : e = E
    OBVIOUS
  <2>2. /\ k' = k \/ (k' = k + 1 /\ DoneOK(e) /\ pc' = "next")
        /\ pc' # "next" => k' = k /\ FetchedOK(e)'
    <3>1. CASE NextRepo
      <4>1. CASE e.on
        BY <3>1, <4>1 DEF NextRepo, FetchedOK
      <4>2. CASE ~e.on
        BY <3>1, <4>2 DEF NextRepo, DoneOK
      <4>3. QED
        BY <4>1, <4>2
    <3>2. CASE FetchCatalog
      <4>1. CASE server[e.url] = Down
        BY <2>1, <3>2, <4>1 DEF FetchCatalog, Fail, GoOn, DoneOK
      <4>2. CASE server[e.url] # Down
        BY <1>1, <3>2, <4>2 DEF FetchCatalog, FetchedOK
      <4>3. QED
        BY <4>1, <4>2
    <3>3. CASE FetchSignature
      <4>1. FetchedOK(e) /\ pc = "sig"
        BY <3>3 DEF FetchSignature, Inv, Progress
      <4>2. CASE server[e.url] = Down
        BY <2>1, <3>3, <4>2 DEF FetchSignature, Fail, GoOn, DoneOK
      <4>3. CASE server[e.url] # Down
        BY <1>1, <3>3, <4>1, <4>3 DEF FetchSignature, FetchedOK
      <4>4. QED
        BY <4>2, <4>3
    <3>4. CASE Refuse
      <4>1. FetchedOK(e) /\ pc = "check" /\ ~(Vouched(e, got, sig) /\ Readable(got))
        BY <3>4 DEF Refuse, Acceptable, Inv, Progress
      <4>2. DoneOK(e)
        BY <4>1 DEF FetchedOK, DoneOK, Vouched
      <4>3. QED
        BY <3>4, <4>2 DEF Refuse, Fail, GoOn
    <3>5. QED
      BY <3>1, <3>2, <3>3, <3>4 DEF StepsAside
  <2>3. pc' \notin {"idle", "next"} => E' = e
    BY <1>1, <2>2 DEF E
  <2>4. pc' \notin {"idle", "next"} => FetchedOK(E)'
    BY <2>2, <2>3 DEF FetchedOK
  <2>5. ASSUME NEW j \in 1..(k' - 1) PROVE DoneOK(l[j])
    <3>1. CASE k' = k
      BY <3>1 DEF Inv, Progress
    <3>2. CASE k' = k + 1
      <4>1. j \in 1..(k - 1) \/ j = k
        BY <1>2, <3>2
      <4>2. DoneOK(e)
        BY <1>2, <2>2, <3>2
      <4>3. QED
        BY <4>1, <4>2 DEF Inv, Progress, E
    <3>3. QED
      BY <2>2, <3>1, <3>2
  <2>6. \A j \in 1..(k' - 1) : DoneOK(l[j])'
    BY <1>1, <2>5 DEF DoneOK, Readable, Vouched
  <2>7. QED
    BY <2>4, <2>6 DEF Progress
<1>8. CatalogsUsable'
  <2>1. pc # "write"
    BY DEF StepsAside, NextRepo, FetchCatalog, FetchSignature, Refuse
  <2>2. QED
    BY <1>1, <2>1 DEF Inv, CatalogsUsable
<1>9. QED
  BY <1>1, <1>6, <1>7, <1>8, ListSame, TrustedSame, ServerSame, CacheSame DEF Inv

LEMMA OverwriteInv == ASSUME Inv, Overwrite PROVE Inv'
<1>1. /\ UNCHANGED <<list, server, l, k, got, sig, ok, steady, crashes>>
      /\ cache' = [cache EXCEPT ![E.id] = Junk] /\ pc = "check" /\ pc' = "write" /\ Acceptable
  BY DEF Overwrite, counts
<1>2. k \in DOMAIN l /\ E \in Entry
  BY <1>1, GoodDomain DEF Inv, UpdateOK, E
<1>3. E.id \in Ids
  BY <1>2 DEF Entry
<1>4. CacheTypeOK'
  BY <1>1, <1>3 DEF Inv, CacheTypeOK
<1>5. UpdateOK'
  BY <1>1, <1>2 DEF Inv, UpdateOK, GoodList, IsList, OneEach, Acceptable, Vouched, Readable, E
<1>6. \A id \in Ids : cache'[id] = IF id = E.id THEN Junk ELSE cache[id]
  BY <1>1, <1>3 DEF Inv, CacheTypeOK
<1>7. Trusted'
  <2>1. Current' = Current
    BY <1>1 DEF Current, Loaded, list
  <2>2. Agrees(shown)' /\ Agrees(l)' /\ Agrees(DefaultList)'
    BY <1>1, <2>1 DEF Inv, Trusted, Agrees, list, DefaultList
  <2>3. \A id \in Ids : cache'[id] \in Catalogs => cache'[id] = cache[id]
    BY <1>6, ReposConstants
  <2>4. QED
    BY <1>1, <2>1, <2>2, <2>3 DEF Inv, Trusted, list
<1>8. Progress'
  <2>1. E' = E
    BY <1>1 DEF E
  <2>2. FetchedOK(E)'
    BY <1>1, <2>1 DEF Inv, Progress, FetchedOK
  <2>3. ASSUME NEW j \in 1..(k - 1) PROVE DoneOK(l[j])'
    <3>1. j \in DOMAIN l /\ j # k
      BY <1>2, GoodDomain DEF Inv, UpdateOK
    <3>2. l[j].id # E.id /\ l[j].id \in Ids
      BY <1>2, <3>1, GoodDomain DEF Inv, UpdateOK, GoodList, OneEach, E, Entry
    <3>3. cache'[l[j].id] = cache[l[j].id]
      BY <1>6, <3>2
    <3>4. QED
      BY <1>1, <3>3 DEF Inv, Progress, DoneOK, Readable, Vouched
  <2>4. QED
    BY <1>1, <2>2, <2>3 DEF Progress
<1>9. CatalogsUsable'
  BY <1>1, <1>6 DEF Inv, CatalogsUsable, E
<1>10. QED
  BY <1>1, <1>4, <1>5, <1>7, <1>8, <1>9, ListSame, ServerSame DEF Inv

LEMMA WriteInv == ASSUME Inv, Write PROVE Inv'
<1>1. /\ UNCHANGED <<list, server, l, steady, crashes>>
      /\ cache' = [cache EXCEPT ![E.id] = got] /\ pc = "write" /\ pc' = "next" /\ Acceptable
      /\ k' = k + 1 /\ ok' = ok + 1 /\ got' = NoFile /\ sig' = NoFile
  BY DEF Write, GoOn, counts, Inv, UpdateOK
<1>2. k \in DOMAIN l /\ E \in Entry /\ Len(l) \in Nat /\ DOMAIN l = 1..Len(l)
  BY <1>1, GoodDomain DEF Inv, UpdateOK, E
<1>3. E.id \in Ids
  BY <1>2 DEF Entry
<1>4. CacheTypeOK'
  BY <1>1, <1>3 DEF Inv, CacheTypeOK, UpdateOK
<1>5. UpdateOK'
  BY <1>1, <1>2 DEF Inv, UpdateOK, GoodList, IsList, OneEach
<1>6. \A id \in Ids : cache'[id] = IF id = E.id THEN got ELSE cache[id]
  BY <1>1, <1>3 DEF Inv, CacheTypeOK
<1>7. Trusted'
  <2>1. Current' = Current /\ dropped' = dropped
    BY <1>1 DEF Current, Loaded, list
  <2>2. Agrees(shown)' /\ Agrees(l)' /\ Agrees(DefaultList)'
    BY <1>1, <2>1 DEF Inv, Trusted, Agrees, list, DefaultList
  <2>3. ASSUME NEW id \in Ids, cache'[id] \in Catalogs, id \notin dropped
        PROVE  \E j \in DOMAIN Current :
                   /\ Current[j].id = id
                   /\ Current[j].key = Unsigned \/ SignedBy[cache'[id]] = Current[j].key
    <3>1. CASE id = E.id
      <4>1. Keeps(Current, E)
        BY <1>2, <2>3, <3>1 DEF Inv, Trusted, Agrees, E
      <4>2. E.key = Unsigned \/ SignedBy[got] = E.key
        BY <1>1 DEF Acceptable, Vouched
      <4>3. QED
        BY <1>6, <3>1, <4>1, <4>2 DEF Keeps
    <3>2. CASE id # E.id
      BY <1>6, <2>3, <3>2 DEF Inv, Trusted
    <3>3. QED
      BY <3>1, <3>2
  <2>4. QED
    BY <2>1, <2>2, <2>3 DEF Trusted
<1>8. Progress'
  <2> PICK e : e = E
    OBVIOUS
  <2>1. DoneOK(e)'
    <3>1. e.url \in steady => got = server[e.url]
      BY <1>1 DEF Inv, Progress, FetchedOK
    <3>2. cache'[e.id] = got
      BY <1>3, <1>6
    <3>3. QED
      BY <1>1, <3>1, <3>2 DEF DoneOK
  <2>2. ASSUME NEW j \in 1..(k - 1) PROVE DoneOK(l[j])'
    <3>1. j \in DOMAIN l /\ j # k
      BY <1>2
    <3>2. l[j].id # E.id /\ l[j].id \in Ids
      BY <1>2, <3>1, GoodDomain DEF Inv, UpdateOK, GoodList, OneEach, E, Entry
    <3>3. cache'[l[j].id] = cache[l[j].id]
      BY <1>6, <3>2
    <3>4. QED
      BY <1>1, <3>3 DEF Inv, Progress, DoneOK, Readable, Vouched
  <2>3. ASSUME NEW j \in 1..(k' - 1) PROVE DoneOK(l[j])'
    <3>1. j \in 1..(k - 1) \/ j = k
      BY <1>1, <1>2
    <3>2. CASE j = k
      BY <1>1, <2>1, <3>2 DEF DoneOK, E
    <3>3. QED
      BY <2>2, <3>1, <3>2
  <2>4. QED
    BY <1>1, <2>3 DEF Progress
<1>9. CatalogsUsable'
  BY <1>1, <1>6 DEF Inv, CatalogsUsable, E, Acceptable, Readable
<1>10. QED
  BY <1>1, <1>4, <1>5, <1>7, <1>8, <1>9, ListSame, ServerSame DEF Inv

LEMMA EndInv == ASSUME Inv, EndUpdate PROVE Inv'
<1>1. /\ UNCHANGED <<list, cache, server, got, sig, steady, crashes>>
      /\ pc = "next" /\ pc' = "idle" /\ l' = <<>> /\ k' = 1 /\ ok' = 0
  BY DEF EndUpdate, counts
<1>2. GoodList(l') /\ Len(l') = 0 /\ DOMAIN l' = {}
  BY <1>1, EmptyGood
<1>3. UpdateOK'
  BY <1>1, <1>2 DEF Inv, UpdateOK
<1>4. Trusted'
  BY <1>1, <1>2 DEF Inv, Trusted, Agrees, Current, Loaded, Keeps, list, DefaultList
<1>5. Progress' /\ CatalogsUsable'
  BY <1>1 DEF Inv, Progress, CatalogsUsable
<1>6. QED
  BY <1>1, <1>3, <1>4, <1>5, ListSame, ServerSame, CacheSame DEF Inv

LEMMA CrashInv == ASSUME Inv, Crash PROVE Inv'
<1>1. /\ UNCHANGED <<file, cache, server, steady>> /\ crashes' = crashes + 1
      /\ pc' = "idle" /\ l' = <<>> /\ k' = 1 /\ ok' = 0 /\ got' = NoFile /\ sig' = NoFile
      /\ saving' = <<>> /\ window' = FALSE /\ shown' = Loaded
      /\ dropped' = dropped \cup IdsOf(saving)
  BY DEF Crash
<1>2. GoodList(l') /\ Len(l') = 0 /\ DOMAIN l' = {}
  BY <1>1, EmptyGood
<1>3. UpdateOK' /\ ServerOK' /\ Progress' /\ CatalogsUsable' /\ CacheTypeOK'
  BY <1>1, <1>2 DEF Inv, UpdateOK, ServerOK, Progress, CatalogsUsable, CacheTypeOK
<1>4. ListOK'
  <2>1. GoodList(Loaded) /\ IdsOf(saving) \subseteq Ids
    BY LoadedGood, GoodDomain DEF Inv, ListOK
  <2>2. QED
    BY <1>1, <2>1, EmptyGood DEF Inv, ListOK
<1>5. Current' = Loaded
  BY <1>1 DEF Current, Loaded
<1>6. ASSUME NEW d, d.id \notin dropped', Keeps(Current, d) PROVE Keeps(Loaded, d)
  <2>1. CASE saving = <<>>
    BY <1>6, <2>1 DEF Current
  <2>2. CASE saving # <<>>
    BY <1>1, <1>6, <2>2 DEF Current, Keeps, IdsOf
  <2>3. QED
    BY <2>1, <2>2
<1>7. Trusted'
  <2>1. Agrees(shown)'
    BY <1>1, <1>5 DEF Agrees, Keeps
  <2>2. Agrees(l)'
    BY <1>2 DEF Agrees
  <2>3. Agrees(DefaultList)'
    BY <1>1, <1>5, <1>6 DEF Inv, Trusted, Agrees, DefaultList
  <2>4. ASSUME NEW id \in Ids, cache[id] \in Catalogs, id \notin dropped'
        PROVE  \E j \in DOMAIN Loaded :
                   /\ Loaded[j].id = id
                   /\ Loaded[j].key = Unsigned \/ SignedBy[cache[id]] = Loaded[j].key
    <3>1. PICK j \in DOMAIN Current :
              /\ Current[j].id = id
              /\ Current[j].key = Unsigned \/ SignedBy[cache[id]] = Current[j].key
      BY <1>1, <2>4 DEF Inv, Trusted
    <3>2. Keeps(Current, Current[j])
      BY DEF Keeps
    <3>3. Keeps(Loaded, Current[j])
      BY <1>6, <2>4, <3>1, <3>2
    <3>4. QED
      BY <3>1, <3>3 DEF Keeps
  <2>5. QED
    BY <1>1, <1>5, <2>1, <2>2, <2>3, <2>4 DEF Trusted
<1>8. QED
  BY <1>3, <1>4, <1>7 DEF Inv

LEMMA InvNext == ASSUME Inv, [Next]_vars PROVE Inv'
<1>1. CASE Step
  BY <1>1, StepsAsideInv, OverwriteInv, WriteInv, EndInv DEF Step, StepsAside
<1>2. CASE CmdRepo \/ WindowButton \/ Saved \/ WindowOpens
  BY <1>2, ListSteps
<1>3. CASE Crash
  BY <1>3, CrashInv
<1>4. CASE \E o \in Overrides : BeginUpdate(o)
  BY <1>4, BeginStep
<1>5. CASE \E u \in Urls, a \in Catalogs \cup {Junk, Down} : Publish(u, a)
  BY <1>5, PublishStep
<1>6. CASE UNCHANGED vars
  <2>1. UNCHANGED <<list, upd, cache, server, steady, crashes, l, pc, k>>
    BY <1>6 DEF vars, counts, upd
  <2>2. QED
    BY <2>1, ListSame, TrustedSame, ServerSame, UpdateSame, CacheSame, ProgressSame, UsableSame
       DEF Inv
<1>7. QED
  BY <1>1, <1>2, <1>3, <1>4, <1>5, <1>6 DEF Next

THEOREM InvAlways == Spec => []Inv
<1>1. Init => Inv
  BY InitInv
<1>2. Inv /\ [Next]_vars => Inv'
  BY InvNext
<1>3. QED
  BY <1>1, <1>2, PTL DEF Spec

-----------------------------------------------------------------------------
(***************************************************************************)
(* What follows.                                                           *)
(***************************************************************************)
\* The list file, the window's copy, a save under way and the update's copy
\* hold lists that fit (AREPO_MAX), whoever overwrites whose; the update's
\* place in its list is one.
THEOREM ReposTypes == Spec => []TypeOK
<1>1. ASSUME Inv PROVE TypeOK
  <2>1. Len(l) \in Nat /\ Len(l) <= MaxRepos /\ DOMAIN l = 1..Len(l)
    BY <1>1, GoodDomain DEF Inv, UpdateOK
  <2>2. k \in 1..(MaxRepos + 1) /\ ok \in 0..MaxRepos
    BY <1>1, <2>1, ReposConstants DEF Inv, UpdateOK
  <2>3. QED
    BY <1>1, <2>2 DEF Inv, TypeOK, ListOK, ServerOK, UpdateOK, CacheTypeOK, GoodList, IsList
<1>2. QED
  BY <1>1, InvAlways, PTL

\* No id is ever listed twice, however shell and window overwrite each
\* other's list (arepo_add refuses an id its own list has).
THEOREM OneOfEachId == Spec => []IdsUnique
<1>1. ASSUME Inv PROVE IdsUnique
  BY <1>1 DEF Inv, ListOK, GoodList, OneEach, IdsUnique, IsInjective
<1>2. QED
  BY <1>1, InvAlways, PTL

\* Without a power cut, no answer of a server makes a catalog file unusable.
THEOREM UsableCatalogs == Spec => []CatalogsUsable
<1>1. Inv => CatalogsUsable
  BY DEF Inv
<1>2. QED
  BY <1>1, InvAlways, PTL

\* A signed repository that stayed in the list under its key serves a catalog
\* that key signed: also after power cuts, and when the list changes, or the
\* publisher replaces the files, while the update runs.
THEOREM OwnKeyOnly == Spec => []KeyVouches
<1>1. ASSUME Inv PROVE KeyVouches
  <2>1. ASSUME NEW j \in DOMAIN Loaded, Loaded[j].key # Unsigned, Loaded[j].id \notin dropped,
               cache[Loaded[j].id] \in Catalogs
        PROVE  SignedBy[cache[Loaded[j].id]] = Loaded[j].key
    <3>1. GoodList(Loaded) /\ GoodList(Current)
      BY <1>1, LoadedGood DEF Inv
    <3>2. Loaded[j] \in Entry
      BY <3>1, GoodDomain
    <3>3. Keeps(Current, Loaded[j])
      BY <1>1, <2>1, LoadedGood DEF Inv, Trusted, Agrees, Keeps
    <3>4. PICK i \in DOMAIN Current : Current[i].id = Loaded[j].id /\ Current[i].key = Loaded[j].key
      BY <3>3 DEF Keeps
    <3>5. PICK h \in DOMAIN Current :
              /\ Current[h].id = Loaded[j].id
              /\ Current[h].key = Unsigned \/ SignedBy[cache[Loaded[j].id]] = Current[h].key
      BY <1>1, <2>1, <3>2 DEF Inv, Trusted, Entry
    <3>6. h = i
      BY <3>1, <3>4, <3>5 DEF GoodList, OneEach
    <3>7. QED
      BY <2>1, <3>4, <3>5, <3>6
  <2>2. QED
    BY <2>1 DEF KeyVouches
<1>2. QED
  BY <1>1, InvAlways, PTL

\* However many repositories fail before or after it, one whose server answers
\* all the time with a catalog its key vouches for is updated.
THEOREM LiveOnesUpdated == Spec => LiveReposUpdated
<1>1. ASSUME Inv, pc = "next", k > Len(l), NEW j \in DOMAIN l,
             l[j].on, l[j].url \in steady, Readable(server[l[j].url]),
             Vouched(l[j], server[l[j].url], server[l[j].url])
      PROVE  cache[l[j].id] = server[l[j].url]
  <2>1. j \in 1..(k - 1)
    BY <1>1, GoodDomain DEF Inv, UpdateOK
  <2>2. DoneOK(l[j])
    BY <1>1, <2>1 DEF Inv, Progress
  <2>3. QED
    BY <1>1, <2>2 DEF DoneOK
<1>2. Inv /\ [Next]_vars =>
        [pc = "next" /\ pc' = "idle" /\ k > Len(l) =>
           \A j \in DOMAIN l :
               LET c == server[l[j].url] IN
               l[j].on /\ l[j].url \in steady /\ Readable(c) /\ Vouched(l[j], c, c) =>
                   cache[l[j].id] = c]_vars
  BY <1>1
<1>3. QED
  BY <1>2, InvAlways, PTL DEF Spec, LiveReposUpdated

-----------------------------------------------------------------------------
(***************************************************************************)
(* The merged catalog.                                                     *)
(***************************************************************************)
LEMMA Least == ASSUME NEW S, S \subseteq Nat, S # {}
               PROVE  \E m \in S : \A n \in S : m <= n
<1>1. PICK m \in S : \A n \in S : ~(<<n, m>> \in OpToRel(<, Nat))
  BY WFMin, NatLessThanWellFounded
<1>2. \A n \in S : ~(n < m)
  BY <1>1 DEF OpToRel
<1>3. QED
  BY <1>2

\* Entry j of list s offers package p; the ids that the first n entries of s
\* come first with.
Brings(s, j, p) == Serves(s[j]) /\ p \in Offers[cache[s[j].id]]

Firsts(s, n) ==
    {o \in (UNION {Offers[c] : c \in Catalogs}) \X {s[j].id : j \in 1..n} :
        \E j \in 1..n : /\ Brings(s, j, o[1]) /\ o[2] = s[j].id
                        /\ \A h \in 1..(j - 1) : ~Brings(s, h, o[1])}

LEMMA FirstsMeans ==
    ASSUME NEW s, NEW n \in Nat
    PROVE  \A o : o \in Firsts(s, n) <=>
               \E j \in 1..n : /\ Brings(s, j, o[1]) /\ o = <<o[1], s[j].id>>
                               /\ \A h \in 1..(j - 1) : ~Brings(s, h, o[1])
<1>1. \A j, p : Brings(s, j, p) => p \in UNION {Offers[c] : c \in Catalogs}
  BY DEF Brings, Serves
<1>2. QED
  BY <1>1 DEF Firsts

\* Whoever is brought by some of the first n is brought by a first one.
LEMMA SomeFirst ==
    ASSUME NEW s, NEW n \in Nat, NEW p, NEW h \in 1..n, Brings(s, h, p)
    PROVE  \E o \in Firsts(s, n) : o[1] = p
<1> DEFINE S == {j \in Nat : j \in 1..n /\ Brings(s, j, p)}
<1>1. S \subseteq Nat /\ S # {}
  OBVIOUS
<1>2. PICK j \in S : \A i \in S : j <= i
  <2> HIDE DEF S
  <2>1. QED
    BY <1>1, Least
<1>3. j \in 1..n /\ Brings(s, j, p)
  OBVIOUS
<1>4. \A i \in 1..(j - 1) : ~Brings(s, i, p)
  <2> SUFFICES ASSUME NEW i \in 1..(j - 1), Brings(s, i, p) PROVE FALSE
    OBVIOUS
  <2>1. i \in 1..n /\ i < j
    BY <1>3
  <2>2. i \in S
    BY <2>1
  <2>3. QED
    BY <1>2, <2>1, <2>2
<1>5. <<p, s[j].id>> \in Firsts(s, n)
  BY <1>3, <1>4, FirstsMeans
<1>6. QED
  BY <1>5

\* One turn of arepo_load_merged's loop.
LEMMA MergeTurn ==
    ASSUME NEW s, NEW n \in Nat
    PROVE  Firsts(s, n + 1) = MergeOne(Firsts(s, n), s[n + 1])
<1> DEFINE i == n + 1
<1>1. \A j : j \in 1..(n + 1) <=> j \in 1..n \/ j = n + 1
  OBVIOUS
<1>2. i - 1 = n
  OBVIOUS
<1>3. ASSUME NEW o
      PROVE  o \in Firsts(s, i) <=>
                 \/ o \in Firsts(s, n)
                 \/ /\ Brings(s, i, o[1]) /\ o = <<o[1], s[i].id>>
                    /\ \A h \in 1..n : ~Brings(s, h, o[1])
  <2>1. i \in Nat
    OBVIOUS
  <2>2. o \in Firsts(s, n) <=>
            \E j \in 1..n : /\ Brings(s, j, o[1]) /\ o = <<o[1], s[j].id>>
                            /\ \A h \in 1..(j - 1) : ~Brings(s, h, o[1])
    BY FirstsMeans
  <2>3. o \in Firsts(s, i) <=>
            \E j \in 1..i : /\ Brings(s, j, o[1]) /\ o = <<o[1], s[j].id>>
                            /\ \A h \in 1..(j - 1) : ~Brings(s, h, o[1])
    BY <2>1, FirstsMeans
  <2>4. QED
    BY <1>1, <1>2, <2>2, <2>3
<1>4. CASE ~Serves(s[i])
  <2>1. \A p : ~Brings(s, i, p)
    BY <1>4 DEF Brings
  <2>2. \A o : o \in Firsts(s, i) <=> o \in Firsts(s, n)
    BY <1>3, <2>1
  <2>3. Firsts(s, i) = Firsts(s, n)
    BY <2>2
  <2>4. QED
    BY <1>4, <2>3 DEF MergeOne
<1>5. CASE Serves(s[i])
  <2>1. \A p : Brings(s, i, p) <=> p \in Offers[cache[s[i].id]]
    BY <1>5 DEF Brings
  <2>2. ASSUME NEW p
        PROVE  (\A h \in 1..n : ~Brings(s, h, p)) <=> \A h \in Firsts(s, n) : h[1] # p
    <3>1. ASSUME NEW h \in 1..n, Brings(s, h, p) PROVE \E o \in Firsts(s, n) : o[1] = p
      BY <3>1, SomeFirst
    <3>2. ASSUME NEW o \in Firsts(s, n) PROVE \E h \in 1..n : Brings(s, h, o[1])
      BY FirstsMeans
    <3>3. QED
      BY <3>1, <3>2
  <2>3. MergeOne(Firsts(s, n), s[i]) =
            Firsts(s, n) \cup {o \in Offers[cache[s[i].id]] \X {s[i].id} :
                                   \A h \in Firsts(s, n) : h[1] # o[1]}
    BY <1>5 DEF MergeOne
  <2>4. ASSUME NEW o
        PROVE  o \in Firsts(s, i) <=>
                   \/ o \in Firsts(s, n)
                   \/ /\ o \in Offers[cache[s[i].id]] \X {s[i].id}
                      /\ \A h \in Firsts(s, n) : h[1] # o[1]
    <3>1. o \in Offers[cache[s[i].id]] \X {s[i].id} <=>
              o[1] \in Offers[cache[s[i].id]] /\ o = <<o[1], s[i].id>>
      OBVIOUS
    <3>2. QED
      BY <1>3, <2>1, <2>2, <3>1
  <2>5. \A o : o \in Firsts(s, i) <=> o \in MergeOne(Firsts(s, n), s[i])
    BY <2>3, <2>4
  <2>6. QED
    BY <2>5
<1>6. QED
  BY <1>4, <1>5

LEMMA MergedIsFirsts ==
    ASSUME Len(Loaded) \in Nat
    PROVE  Merged = Firsts(Loaded, Len(Loaded))
<1> DEFINE N == Len(Loaded)
    IsMerge(f) == f = [j \in 0..N |-> IF j = 0 THEN {} ELSE MergeOne(f[j - 1], Loaded[j])]
    f == [j \in 0..N |-> Firsts(Loaded, j)]
    c == CHOOSE g : IsMerge(g)
<1>1. Firsts(Loaded, 0) = {}
  BY DEF Firsts
<1>2. \A j \in 1..N : Firsts(Loaded, j) = MergeOne(Firsts(Loaded, j - 1), Loaded[j])
  <2> SUFFICES ASSUME NEW j \in 1..N
               PROVE  Firsts(Loaded, j) = MergeOne(Firsts(Loaded, j - 1), Loaded[j])
    OBVIOUS
  <2>1. PICK n \in Nat : n = j - 1 /\ n + 1 = j
    OBVIOUS
  <2>2. Firsts(Loaded, n + 1) = MergeOne(Firsts(Loaded, n), Loaded[n + 1])
    BY MergeTurn
  <2>3. QED
    BY <2>1, <2>2
<1>3. IsMerge(f)
  <2>1. \A j \in 0..N : f[j] = IF j = 0 THEN {} ELSE MergeOne(f[j - 1], Loaded[j])
    <3>1. \A j \in 0..N : j # 0 => j \in 1..N /\ j - 1 \in 0..N
      BY <1>1
    <3>2. QED
      BY <1>1, <1>2, <3>1
  <2>2. QED
    BY <2>1
<1>4. IsMerge(c)
  BY <1>3
<1>5. Merged = c[N]
  BY DEF Merged
<1> HIDE DEF c
<1>6. /\ c[0] = {}
      /\ \A j \in 1..N : c[j] = MergeOne(c[j - 1], Loaded[j])
  <2>1. 0 \in 0..N /\ \A j \in 1..N : j \in 0..N /\ j # 0
    OBVIOUS
  <2>2. QED
    BY <1>4, <2>1
<1>7. \A j \in 0..N : c[j] = Firsts(Loaded, j)
  <2> DEFINE Wrong == {j \in Nat : j \in 0..N /\ c[j] # Firsts(Loaded, j)}
  <2>1. SUFFICES ASSUME Wrong # {} PROVE FALSE
    OBVIOUS
  <2>2. Wrong \subseteq Nat
    OBVIOUS
  <2>3. PICK j \in Wrong : \A i \in Wrong : j <= i
    <3> HIDE DEF Wrong
    <3>1. QED
      BY <2>1, <2>2, Least
  <2>4. j \in 0..N /\ j # 0
    BY <1>1, <1>6
  <2>5. j - 1 \notin Wrong
    BY <2>3, <2>4
  <2>6. c[j - 1] = Firsts(Loaded, j - 1) /\ j \in 1..N
    BY <2>4, <2>5
  <2>7. c[j] = Firsts(Loaded, j)
    BY <1>2, <1>6, <2>6
  <2>8. QED
    BY <2>7
<1>8. N \in 0..N
  OBVIOUS
<1>9. QED
  BY <1>5, <1>7, <1>8

\* "first match wins": however the list was edited and the catalogs replaced,
\* the merged catalog has a package from the topmost enabled repository that
\* offers it, and from no other.
THEOREM TopmostWins == Spec => []FirstMatchWins
<1>1. ASSUME Inv PROVE FirstMatchWins
  <2>1. DOMAIN Loaded = 1..Len(Loaded) /\ Len(Loaded) \in Nat
    <3>1. GoodList(Loaded)
      BY <1>1, LoadedGood DEF Inv
    <3>2. QED
      BY <3>1, LenProperties DEF GoodList, IsList
  <2>2. Merged = Firsts(Loaded, Len(Loaded))
    BY <2>1, MergedIsFirsts
  <2>3. PICK s, N, M : s = Loaded /\ N = Len(Loaded) /\ M = Merged
    OBVIOUS
  <2>4. N \in Nat /\ DOMAIN s = 1..N /\ M = Firsts(s, N)
    BY <2>1, <2>2, <2>3
  <2>5. ASSUME NEW p
        PROVE  LET can == {j \in 1..N : Brings(s, j, p)}
               IN {o[2] : o \in {m \in M : m[1] = p}} =
                      {s[j].id : j \in {i \in can : \A h \in can : i <= h}}
    <3> DEFINE can == {j \in 1..N : Brings(s, j, p)}
        A == {o[2] : o \in {m \in M : m[1] = p}}
        B == {s[j].id : j \in {i \in can : \A h \in can : i <= h}}
    <3>1. ASSUME NEW j \in 1..N, Brings(s, j, p)
          PROVE  (\A h \in 1..(j - 1) : ~Brings(s, h, p)) <=> \A h \in can : j <= h
      <4>1. \A h \in 1..N : j <= h \/ h \in 1..(j - 1)
        BY <2>4
      <4>2. \A h \in 1..(j - 1) : h \in 1..N /\ ~(j <= h)
        BY <2>4
      <4>3. QED
        BY <4>1, <4>2
    <3>2. ASSUME NEW o \in M, o[1] = p PROVE o[2] \in B
      <4>1. PICK j \in 1..N : /\ Brings(s, j, p) /\ o = <<o[1], s[j].id>>
                              /\ \A h \in 1..(j - 1) : ~Brings(s, h, p)
        BY <2>4, <3>2, FirstsMeans
      <4>2. j \in can /\ \A h \in can : j <= h
        BY <3>1, <4>1
      <4>3. o[2] = s[j].id
        BY <4>1
      <4>4. QED
        BY <4>2, <4>3
    <3>3. ASSUME NEW j \in can, \A h \in can : j <= h PROVE s[j].id \in A
      <4>1. \A h \in 1..(j - 1) : ~Brings(s, h, p)
        BY <3>1, <3>3
      <4>2. <<p, s[j].id>> \in M
        BY <2>4, <4>1, FirstsMeans
      <4>3. QED
        BY <4>2
    <3>4. A = B
      BY <3>2, <3>3
    <3>5. QED
      BY <3>4
  <2>6. ASSUME NEW p
        PROVE  {j \in DOMAIN Loaded : Serves(Loaded[j]) /\ p \in Offers[cache[Loaded[j].id]]}
                   = {j \in 1..N : Brings(s, j, p)}
    BY <2>3, <2>4 DEF Brings
  <2>7. ASSUME NEW p
        PROVE  LET can == {j \in DOMAIN Loaded :
                              Serves(Loaded[j]) /\ p \in Offers[cache[Loaded[j].id]]}
               IN {o[2] : o \in {m \in Merged : m[1] = p}} =
                      {Loaded[j].id : j \in {i \in can : \A h \in can : i <= h}}
    <3>1. PICK can : can = {j \in 1..N : Brings(s, j, p)}
      OBVIOUS
    <3>2. {o[2] : o \in {m \in M : m[1] = p}} =
              {s[j].id : j \in {i \in can : \A h \in can : i <= h}}
      BY <2>5, <3>1
    <3>3. can = {j \in DOMAIN Loaded : Serves(Loaded[j]) /\ p \in Offers[cache[Loaded[j].id]]}
      BY <2>6, <3>1
    <3>4. QED
      BY <2>3, <3>2, <3>3
  <2>8. QED
    BY <2>7 DEF FirstMatchWins
<1>2. QED
  BY <1>1, InvAlways, PTL
=============================================================================
