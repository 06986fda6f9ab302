--------------------------- MODULE AlgorithmProofs ---------------------------
(***************************************************************************)
(* Theorems about the pure algorithms, for inputs of any size: the order   *)
(* of versions, the glob loop, recipes, floppy images, and what the run of *)
(* MCAlgorithms checks on small ones.                                      *)
(***************************************************************************)
EXTENDS MCAlgorithms, SequenceTheorems, FiniteSetTheorems, FunctionTheorems,
        WellFoundedInduction, TLAPS

-----------------------------------------------------------------------------
(***************************************************************************)
(* Least numbers, induction, loops and maps.                               *)
(***************************************************************************)
LEMMA Least == ASSUME NEW S, S \subseteq Nat, S # {}
               PROVE  Min(S) \in S /\ \A n \in S : Min(S) <= n
<1>1. PICK m \in S : \A n \in S : ~(<<n, m>> \in OpToRel(<, Nat))
  BY WFMin, NatLessThanWellFounded
<1>2. \A n \in S : ~(n < m)
  BY <1>1 DEF OpToRel
<1>3. \A n \in S : m <= n
  BY <1>2
<1>4. QED
  BY <1>3 DEF Min

LEMMA MinIs == ASSUME NEW S, S \subseteq Nat, NEW m \in S, \A n \in S : m <= n
               PROVE  Min(S) = m
<1>1. Min(S) \in S /\ Min(S) <= m
  BY Least
<1>2. m <= Min(S)
  BY <1>1
<1>3. m \in Nat /\ Min(S) \in Nat
  BY <1>1
<1>4. QED
  BY <1>1, <1>2, <1>3

LEMMA Induct == ASSUME NEW S, 0 \in S, \A n \in Nat : n \in S => n + 1 \in S
                PROVE  Nat \subseteq S
<1> DEFINE Rest == {n \in Nat : n \notin S}
<1>1. SUFFICES ASSUME Rest # {} PROVE FALSE
  OBVIOUS
<1>2. Rest \subseteq Nat
  OBVIOUS
<1> HIDE DEF Rest
<1>3. Min(Rest) \in Rest /\ \A n \in Rest : Min(Rest) <= n
  BY <1>1, <1>2, Least
<1>4. PICK m \in Rest : \A n \in Rest : m <= n
  BY <1>3
<1>5. m \in Nat /\ m \notin S /\ \A n \in Nat : n < m => n \in S
  BY <1>2, <1>4 DEF Rest
<1>6. m # 0
  BY <1>5
<1>7. m - 1 \in Nat /\ m - 1 < m /\ (m - 1) + 1 = m
  BY <1>5, <1>6
<1>8. m - 1 \in S
  BY <1>5, <1>7
<1>9. QED
  BY <1>5, <1>7, <1>8

\* F[<<n, x>>] is the state after turn n begun in state x.
Runs(f, N, S, a, F) ==
    /\ f \in [0..N -> S]
    /\ \A n \in 0..N : f[n] = IF n = 0 THEN a ELSE F[<<n, f[n - 1]>>]

LEMMA Iteration ==
    ASSUME NEW N \in Nat, NEW S, NEW a \in S, NEW F,
           \A n \in 1..N, x \in S : F[<<n, x>>] \in S
    PROVE  \E f : Runs(f, N, S, a, F)
<1> DEFINE Good(f, m) == Runs(f, m, S, a, F)
    T == {m \in Nat : m <= N => \E f : Good(f, m)}
<1>1. 0 \in T
  <2>1. Good([n \in 0..0 |-> a], 0)
    BY DEF Runs
  <2> HIDE DEF Good
  <2>2. QED
    BY <2>1
<1>2. ASSUME NEW m \in Nat, m \in T PROVE m + 1 \in T
  <2> SUFFICES ASSUME m + 1 <= N PROVE \E f : Good(f, m + 1)
    OBVIOUS
  <2>0. PICK f : Good(f, m)
    BY <1>2
  <2>1. /\ f \in [0..m -> S]
        /\ \A n \in 0..m : f[n] = IF n = 0 THEN a ELSE F[<<n, f[n - 1]>>]
    BY <2>0 DEF Runs
  <2>2. f[m] \in S
    BY <2>1
  <2>3. PICK y \in S : y = F[<<m + 1, f[m]>>]
    BY <2>2
  <2>4. PICK h : h = [n \in 0..(m + 1) |-> IF n = m + 1 THEN y ELSE f[n]]
    OBVIOUS
  <2>5. h[m + 1] = y /\ \A n \in 0..m : h[n] = f[n]
    BY <2>4
  <2>6. h \in [0..(m + 1) -> S]
    BY <2>1, <2>4
  <2>7. ASSUME NEW n \in 0..(m + 1)
        PROVE  h[n] = IF n = 0 THEN a ELSE F[<<n, h[n - 1]>>]
    <3>1. CASE n = m + 1
      <4>1. n # 0 /\ n - 1 = m /\ m \in 0..m
        BY <3>1
      <4>2. QED
        BY <2>3, <2>5, <3>1, <4>1
    <3>2. CASE n \in 0..m
      <4>1. n # 0 => n - 1 \in 0..m
        BY <3>2
      <4>2. f[n] = IF n = 0 THEN a ELSE F[<<n, f[n - 1]>>]
        BY <2>1, <3>2
      <4>3. QED
        BY <2>5, <3>2, <4>1, <4>2
    <3>3. QED
      BY <3>1, <3>2
  <2>8. Good(h, m + 1)
    BY <2>6, <2>7 DEF Runs
  <2>9. QED
    BY <2>8
<1> HIDE DEF T
<1>3. N \in T
  BY <1>1, <1>2, Induct
<1>4. QED
  BY <1>3 DEF T

\* Arithmetic that several proofs need, free of their contexts.
LEMMA UpOne == \A n \in Nat : \A k \in 1..n : /\ k + 1 \in 1..(n + 1) /\ k + 1 \in 0..(n + 1) /\ k \in Nat
                                            /\ k \in 0..n /\ k \in 1..(n + 1) /\ k \in 0..(n + 1)
  OBVIOUS

LEMMA AtOwn == \A k \in Nat : k # 0 => /\ k < k + 1 /\ k \in 1..k /\ (k + 1)..((k + 1) - 1) = {}
                                     /\ k - k = (k + 1) - (k + 1)
  OBVIOUS

LEMMA Beyond == \A a, b \in Nat : \A k \in 1..(a + b) : ~(k <= a) => k - a \in 1..b
  OBVIOUS

OffsetBy(p, q, i, j, l, m) ==
    /\ i - 1 \in 0..p /\ j - 1 \in 0..q /\ i - 1 \in Nat /\ j - 1 \in Nat
    /\ m - 1 \in Nat /\ m - 1 <= l /\ m >= 1 /\ (m - 1) + 1 = m
    /\ (i - 1) + (m - 1) <= p /\ (j - 1) + (m - 1) <= q
    /\ (i - 1) + l = p /\ (j - 1) + l = q
    /\ \A k \in 1..(m - 1) : k \in 1..l

LEMMA Offset ==
    ASSUME NEW p \in Nat, NEW q \in Nat, NEW i \in 1..p, NEW j \in 1..q, NEW l \in Nat,
           l = p - (i - 1), l = q - (j - 1), NEW m \in 1..(l + 1)
    PROVE  OffsetBy(p, q, i, j, l, m)
  BY DEF OffsetBy

LEMMA WithOneBefore ==
    \A p \in Nat : \A i \in 1..(p + 1) : /\ i - 1 \in (i - 1)..p
                                      /\ \A m \in i..p : m - 1 \in (i - 1)..p /\ m \in (i - 1)..p
  OBVIOUS

LEMMA Shifted == \A n, f, i, j, a \in Int : n >= f + 1 /\ i - a = j - f => n + (i - a) >= j + 1 /\ n + (i - a) \in Int
  OBVIOUS

LEMMA SmallerOfTwo == \A l, n \in Nat : Min({l, n}) = IF l <= n THEN l ELSE n
<1> SUFFICES ASSUME NEW l \in Nat, NEW n \in Nat PROVE Min({l, n}) = IF l <= n THEN l ELSE n
  OBVIOUS
<1> DEFINE S == {l, n}
    m == IF l <= n THEN l ELSE n
<1>1. S \subseteq Nat /\ m \in S /\ \A k \in S : m <= k
  OBVIOUS
<1> HIDE DEF S, m
<1>2. Min(S) = m
  BY <1>1, MinIs
<1>3. QED
  BY <1>2 DEF S, m

LEMMA Mapped == ASSUME NEW S, NEW n \in Nat, NEW f \in [1..n -> S]
                PROVE  f \in Seq(S) /\ Len(f) = n
  OBVIOUS

-----------------------------------------------------------------------------
(***************************************************************************)
(* Versions.                                                               *)
(*                                                                         *)
(* A version is compared segment by segment, a segment character by        *)
(* character: both are lexicographic.  A comparison is here a function, so *)
(* that one lemma serves all of them.                                      *)
(***************************************************************************)
\* One looks at a pair from its other end.
Opposed(m, n) == (m = 1 /\ n = -1) \/ (m = 0 /\ n = 0) \/ (m = -1 /\ n = 1)

\* g compares the elements of X and orders them, some perhaps alike.
Preorder(g, X) ==
    /\ g \in [X \X X -> {-1, 0, 1}]
    /\ \A x, y \in X : Opposed(g[<<x, y>>], g[<<y, x>>])
    /\ \A x, y, z \in X : g[<<x, y>>] >= 0 /\ g[<<y, z>>] >= 0 => g[<<x, z>>] >= 0

\* Lexicographic, with a function for Cmp.
Lex(g, s, t) ==
    LET D == {k \in DOMAIN s \cap DOMAIN t : g[<<s[k], t[k]>>] # 0}
    IN IF D = {} THEN Sign(Len(s) - Len(t)) ELSE g[<<s[Min(D)], t[Min(D)]>>]

-----------------------------------------------------------------------------
(***************************************************************************)
(* Lexicographic comparison.  At one place the end of a sequence counts as *)
(* less than any element; the first place that is not alike decides.       *)
(***************************************************************************)
At(g, s, t, k) ==
    IF k \in DOMAIN s THEN IF k \in DOMAIN t THEN g[<<s[k], t[k]>>] ELSE 1
    ELSE IF k \in DOMAIN t THEN -1 ELSE 0

Alike(g, s, t, m) == \A j \in 1..m : At(g, s, t, j) = 0
Decides(g, s, t, m) == At(g, s, t, m) # 0 /\ Alike(g, s, t, m - 1)

LEMMA Strict ==
    ASSUME NEW X, NEW g, Preorder(g, X), NEW x \in X, NEW y \in X, NEW z \in X,
           g[<<x, y>>] >= 0, g[<<y, z>>] >= 0
    PROVE  /\ g[<<x, z>>] >= 0
           /\ g[<<x, z>>] = 0 <=> g[<<x, y>>] = 0 /\ g[<<y, z>>] = 0
<1>1. \A v, w \in X : g[<<v, w>>] \in {-1, 0, 1} /\ Opposed(g[<<v, w>>], g[<<w, v>>])
  BY DEF Preorder
<1>2. g[<<x, z>>] >= 0
  BY DEF Preorder
<1>3. CASE g[<<x, z>>] = 0
  <2>1. g[<<z, x>>] >= 0
    BY <1>1, <1>3 DEF Opposed
  <2>2. g[<<z, y>>] >= 0 /\ g[<<y, x>>] >= 0
    BY <2>1 DEF Preorder
  <2>3. Opposed(g[<<z, y>>], g[<<y, z>>]) /\ Opposed(g[<<y, x>>], g[<<x, y>>])
    BY <1>1
  <2>4. g[<<x, y>>] \in {-1, 0, 1} /\ g[<<y, z>>] \in {-1, 0, 1}
    BY <1>1
  <2>5. QED
    BY <1>3, <2>2, <2>3, <2>4 DEF Opposed
<1>4. CASE g[<<x, y>>] = 0 /\ g[<<y, z>>] = 0
  <2>1. g[<<z, y>>] >= 0 /\ g[<<y, x>>] >= 0
    BY <1>1, <1>4 DEF Opposed
  <2>2. g[<<z, x>>] >= 0
    BY <2>1 DEF Preorder
  <2>3. Opposed(g[<<x, z>>], g[<<z, x>>]) /\ g[<<z, x>>] \in {-1, 0, 1}
    BY <1>1
  <2>4. QED
    BY <1>2, <1>4, <2>2, <2>3 DEF Opposed
<1>5. QED
  BY <1>2, <1>3, <1>4

LEMMA AtOrder ==
    ASSUME NEW X, NEW g, Preorder(g, X), NEW s \in Seq(X), NEW t \in Seq(X), NEW k
    PROVE  At(g, s, t, k) \in {-1, 0, 1} /\ Opposed(At(g, s, t, k), At(g, t, s, k))
<1>1. (k \in DOMAIN s => s[k] \in X) /\ (k \in DOMAIN t => t[k] \in X)
  BY ElementOfSeq, LenProperties
<1>2. \A v, w \in X : g[<<v, w>>] \in {-1, 0, 1} /\ Opposed(g[<<v, w>>], g[<<w, v>>])
  BY DEF Preorder
<1>3. QED
  BY <1>1, <1>2 DEF At, Opposed

LEMMA AtStrict ==
    ASSUME NEW X, NEW g, Preorder(g, X), NEW s \in Seq(X), NEW t \in Seq(X), NEW u \in Seq(X), NEW k,
           At(g, s, t, k) >= 0, At(g, t, u, k) >= 0
    PROVE  /\ At(g, s, u, k) >= 0
           /\ At(g, s, u, k) = 0 <=> At(g, s, t, k) = 0 /\ At(g, t, u, k) = 0
<1>1. /\ (k \in DOMAIN s => s[k] \in X) /\ (k \in DOMAIN t => t[k] \in X)
      /\ (k \in DOMAIN u => u[k] \in X)
  BY ElementOfSeq, LenProperties
<1>2. CASE k \in DOMAIN s /\ k \in DOMAIN t /\ k \in DOMAIN u
  BY <1>1, <1>2, Strict DEF At
<1>3. CASE ~(k \in DOMAIN s /\ k \in DOMAIN t /\ k \in DOMAIN u)
  BY <1>3 DEF At
<1>4. QED
  BY <1>2, <1>3

LEMMA Decided ==
    ASSUME NEW X, NEW g, Preorder(g, X), NEW s \in Seq(X), NEW t \in Seq(X),
           NEW m \in Nat \ {0}, Decides(g, s, t, m)
    PROVE  Lex(g, s, t) = At(g, s, t, m)
<1> DEFINE D == {k \in DOMAIN s \cap DOMAIN t : g[<<s[k], t[k]>>] # 0}
<1>1. /\ Len(s) \in Nat /\ DOMAIN s = 1..Len(s)
      /\ Len(t) \in Nat /\ DOMAIN t = 1..Len(t)
  BY LenProperties
<1>2. \A k \in D : At(g, s, t, k) # 0
  BY DEF At
<1>3. \A k \in D : k \in Nat /\ k >= m
  <2> SUFFICES ASSUME NEW k \in D PROVE k \in Nat /\ k >= m
    OBVIOUS
  <2>1. k \in Nat /\ k >= 1
    BY <1>1
  <2>2. k \notin 1..(m - 1)
    BY <1>2 DEF Decides, Alike
  <2>3. QED
    BY <2>1, <2>2
<1>4. CASE m \in DOMAIN s /\ m \in DOMAIN t
  <2>1. m \in D
    BY <1>4 DEF Decides, At
  <2>2. D \subseteq Nat /\ \A k \in D : m <= k
    BY <1>3
  <2> HIDE DEF D
  <2>3. Min(D) = m
    BY <2>1, <2>2, MinIs
  <2>4. Lex(g, s, t) = g[<<s[m], t[m]>>]
    BY <2>1, <2>3 DEF Lex, D
  <2>5. QED
    BY <1>4, <2>4 DEF At
<1>5. CASE m \in DOMAIN s /\ m \notin DOMAIN t
  <2>1. Len(t) < m /\ m <= Len(s)
    BY <1>1, <1>5
  <2>2. D = {}
    BY <1>1, <1>3, <2>1
  <2>3. Sign(Len(s) - Len(t)) = 1
    BY <1>1, <2>1 DEF Sign
  <2>4. QED
    BY <1>5, <2>2, <2>3 DEF Lex, At
<1>6. CASE m \notin DOMAIN s /\ m \in DOMAIN t
  <2>1. Len(s) < m /\ m <= Len(t)
    BY <1>1, <1>6
  <2>2. D = {}
    BY <1>1, <1>3, <2>1
  <2>3. Sign(Len(s) - Len(t)) = -1
    BY <1>1, <2>1 DEF Sign
  <2>4. QED
    BY <1>6, <2>2, <2>3 DEF Lex, At
<1>7. m \in DOMAIN s \/ m \in DOMAIN t
  BY DEF Decides, At
<1>8. QED
  BY <1>4, <1>5, <1>6, <1>7

LEMMA Undecided ==
    ASSUME NEW X, NEW g, Preorder(g, X), NEW s \in Seq(X), NEW t \in Seq(X),
           \A k \in Nat \ {0} : At(g, s, t, k) = 0
    PROVE  Lex(g, s, t) = 0
<1>1. /\ Len(s) \in Nat /\ DOMAIN s = 1..Len(s)
      /\ Len(t) \in Nat /\ DOMAIN t = 1..Len(t)
  BY LenProperties
<1>2. ASSUME NEW k \in DOMAIN s \cap DOMAIN t PROVE g[<<s[k], t[k]>>] = 0
  BY <1>1 DEF At
<1>3. Len(s) = Len(t)
  <2>1. Len(s) + 1 \in Nat \ {0} /\ Len(s) + 1 \notin DOMAIN s
    BY <1>1
  <2>2. Len(t) + 1 \in Nat \ {0} /\ Len(t) + 1 \notin DOMAIN t
    BY <1>1
  <2>3. At(g, s, t, Len(s) + 1) = 0 /\ At(g, s, t, Len(t) + 1) = 0
    BY <2>1, <2>2
  <2>4. Len(s) + 1 \notin DOMAIN t
    BY <2>1, <2>3 DEF At
  <2>5. Len(t) + 1 \notin DOMAIN s
    BY <2>2, <2>3 DEF At
  <2>6. ~(Len(s) + 1 <= Len(t)) /\ ~(Len(t) + 1 <= Len(s))
    BY <1>1, <2>4, <2>5
  <2>7. Len(s) \in Nat /\ Len(t) \in Nat
    BY <1>1
  <2>8. QED
    BY <2>6, <2>7
<1>4. Sign(Len(s) - Len(t)) = 0
  BY <1>1, <1>3 DEF Sign
<1>5. QED
  BY <1>2, <1>4 DEF Lex

LEMMA SomeDecides ==
    ASSUME NEW g, NEW s, NEW t, NEW k \in Nat \ {0}, At(g, s, t, k) # 0
    PROVE  \E m \in Nat \ {0} : Decides(g, s, t, m) /\ m <= k
<1> DEFINE S == {m \in Nat \ {0} : At(g, s, t, m) # 0}
    m == Min(S)
<1>1. S \subseteq Nat /\ k \in S
  OBVIOUS
<1> HIDE DEF S
<1>2. m \in S /\ \A n \in S : m <= n
  BY <1>1, Least
<1> HIDE DEF m
<1>3. m \in Nat \ {0} /\ At(g, s, t, m) # 0 /\ \A n \in Nat \ {0} : At(g, s, t, n) # 0 => m <= n
  BY <1>2 DEF S
<1>4. Alike(g, s, t, m - 1)
  <2> SUFFICES ASSUME NEW j \in 1..(m - 1) PROVE At(g, s, t, j) = 0
    BY DEF Alike
  <2>1. j \in Nat \ {0} /\ ~(m <= j)
    BY <1>3
  <2>2. QED
    BY <1>3, <2>1
<1>5. QED
  BY <1>1, <1>2, <1>3, <1>4 DEF Decides

LEMMA Opposite == \A x, y \in Int : x + y = 0 => x = -y
  OBVIOUS

LexFn(g, X) == [p \in Seq(X) \X Seq(X) |-> Lex(g, p[1], p[2])]

LEMMA LexPreorder ==
    ASSUME NEW X, NEW g, Preorder(g, X) PROVE Preorder(LexFn(g, X), Seq(X))
<1>1. ASSUME NEW s \in Seq(X), NEW t \in Seq(X)
      PROVE  Lex(g, s, t) \in {-1, 0, 1} /\ Opposed(Lex(g, s, t), Lex(g, t, s))
  <2>1. CASE \A k \in Nat \ {0} : At(g, s, t, k) = 0
    <3>1. \A k \in Nat \ {0} : At(g, t, s, k) = 0
      BY <2>1, AtOrder DEF Opposed
    <3>2. Lex(g, s, t) = 0 /\ Lex(g, t, s) = 0
      BY <2>1, <3>1, Undecided
    <3>3. QED
      BY <3>2 DEF Opposed
  <2>2. CASE \E k \in Nat \ {0} : At(g, s, t, k) # 0
    <3>1. PICK m \in Nat \ {0} : Decides(g, s, t, m)
      BY <2>2, SomeDecides
    <3>2. \A k : At(g, s, t, k) \in {-1, 0, 1} /\ Opposed(At(g, t, s, k), At(g, s, t, k))
      BY AtOrder
    <3>3. Decides(g, t, s, m)
      BY <3>1, <3>2 DEF Decides, Alike, Opposed
    <3>4. Lex(g, s, t) = At(g, s, t, m) /\ Lex(g, t, s) = At(g, t, s, m)
      BY <3>1, <3>3, Decided
    <3>5. At(g, s, t, m) \in {-1, 0, 1} /\ Opposed(At(g, t, s, m), At(g, s, t, m))
      BY <3>2
    <3>6. QED
      BY <3>4, <3>5 DEF Opposed
  <2>3. QED
    BY <2>1, <2>2
<1>2. ASSUME NEW s \in Seq(X), NEW t \in Seq(X), NEW u \in Seq(X),
             Lex(g, s, t) >= 0, Lex(g, t, u) >= 0
      PROVE  Lex(g, s, u) >= 0
  <2>1. CASE \A k \in Nat \ {0} : At(g, s, u, k) = 0
    <3>1. Lex(g, s, u) = 0
      BY <2>1, Undecided
    <3>2. QED
      BY <3>1
  <2>2. CASE \E k \in Nat \ {0} : At(g, s, u, k) # 0
    <3>1. PICK m \in Nat \ {0} : Decides(g, s, u, m)
      BY <2>2, SomeDecides
    <3>2. \A j \in 1..(m - 1) : At(g, s, u, j) = 0
      BY <3>1 DEF Decides, Alike
    <3> DEFINE S == {k \in 1..m : At(g, s, t, k) # 0 \/ At(g, t, u, k) # 0}
    <3>3. S # {}
      <4> SUFFICES ASSUME S = {} PROVE FALSE
        OBVIOUS
      <4>1. m \in 1..m
        OBVIOUS
      <4>2. At(g, s, t, m) = 0 /\ At(g, t, u, m) = 0
        BY <4>1
      <4>3. At(g, s, u, m) = 0
        BY <4>2, AtStrict
      <4>4. QED
        BY <3>1, <4>3 DEF Decides
    <3> DEFINE p == Min(S)
    <3>4. p \in S /\ \A n \in S : p <= n
      <4>1. S \subseteq Nat
        OBVIOUS
      <4> HIDE DEF S
      <4>2. QED
        BY <3>3, <4>1, Least
    <3> HIDE DEF p
    <3>5. p \in Nat \ {0} /\ p \in 1..m /\ (At(g, s, t, p) # 0 \/ At(g, t, u, p) # 0)
      BY <3>4
    <3>6. \A j \in 1..(p - 1) : At(g, s, t, j) = 0 /\ At(g, t, u, j) = 0
      <4> SUFFICES ASSUME NEW j \in 1..(p - 1) PROVE At(g, s, t, j) = 0 /\ At(g, t, u, j) = 0
        OBVIOUS
      <4>1. j \in 1..m /\ ~(p <= j)
        BY <3>5
      <4>2. QED
        BY <3>4, <4>1
    <3> HIDE DEF S
    <3>7. At(g, s, t, p) >= 0
      <4>1. CASE At(g, s, t, p) = 0
        BY <4>1
      <4>2. CASE At(g, s, t, p) # 0
        <5>1. Decides(g, s, t, p)
          BY <3>6, <4>2 DEF Decides, Alike
        <5>2. QED
          BY <1>2, <3>5, <5>1, Decided
      <4>3. QED
        BY <4>1, <4>2
    <3>8. At(g, t, u, p) >= 0
      <4>1. CASE At(g, t, u, p) = 0
        BY <4>1
      <4>2. CASE At(g, t, u, p) # 0
        <5>1. Decides(g, t, u, p)
          BY <3>6, <4>2 DEF Decides, Alike
        <5>2. QED
          BY <1>2, <3>5, <5>1, Decided
      <4>3. QED
        BY <4>1, <4>2
    <3>9. At(g, s, u, p) >= 0 /\ At(g, s, u, p) # 0
      BY <3>5, <3>7, <3>8, AtStrict
    <3>10. p = m
      BY <3>2, <3>5, <3>9
    <3>11. Lex(g, s, u) = At(g, s, u, m)
      BY <3>1, Decided
    <3>12. QED
      BY <3>9, <3>10, <3>11
  <2>3. QED
    BY <2>1, <2>2
<1> DEFINE f == LexFn(g, X)
<1>3. \A s, t \in Seq(X) : f[<<s, t>>] = Lex(g, s, t)
  BY DEF LexFn
<1>4. f \in [Seq(X) \X Seq(X) -> {-1, 0, 1}]
  BY <1>1 DEF LexFn
<1> HIDE DEF f
<1>5. QED
  BY <1>1, <1>2, <1>3, <1>4 DEF Preorder, f
-----------------------------------------------------------------------------
(***************************************************************************)
(* Characters, numbers, texts and segments.                                *)
(***************************************************************************)
Segment == {s \in Seq(Nat) : s # <<>>}

Coded   == [p \in Nat \X Nat |-> CmpCode(p[1], p[2])]
Folded  == [p \in Nat \X Nat |-> CmpCode(Fold(p[1]), Fold(p[2]))]
Numeric == [p \in Segment \X Segment |-> CmpNumeric(p[1], p[2])]
BySegment == [p \in Segment \X Segment |-> CmpSegment(p[1], p[2])]

LEMMA Signs ==
    \A x, y \in Int :
        /\ CmpCode(x, y) \in {-1, 0, 1} /\ Opposed(CmpCode(x, y), CmpCode(y, x))
        /\ CmpCode(x, y) >= 0 <=> x >= y
<1> SUFFICES ASSUME NEW x \in Int, NEW y \in Int
             PROVE  /\ CmpCode(x, y) \in {-1, 0, 1} /\ Opposed(CmpCode(x, y), CmpCode(y, x))
                    /\ CmpCode(x, y) >= 0 <=> x >= y
  OBVIOUS
<1>1. QED
  BY DEF CmpCode, Sign, Opposed

LEMMA CodesOrdered == Preorder(Coded, Nat)
<1>1. \A x, y \in Nat : Coded[<<x, y>>] = CmpCode(x, y)
  BY DEF Coded
<1>2. Coded \in [Nat \X Nat -> {-1, 0, 1}]
  BY Signs DEF Coded
<1>3. ASSUME NEW x \in Nat, NEW y \in Nat PROVE Opposed(Coded[<<x, y>>], Coded[<<y, x>>])
  <2>1. Coded[<<x, y>>] = CmpCode(x, y) /\ Coded[<<y, x>>] = CmpCode(y, x)
    BY <1>1
  <2>2. Opposed(CmpCode(x, y), CmpCode(y, x))
    BY Signs
  <2>3. QED
    BY <2>1, <2>2 DEF Opposed
<1>4. ASSUME NEW x \in Nat, NEW y \in Nat, NEW z \in Nat, Coded[<<x, y>>] >= 0, Coded[<<y, z>>] >= 0
      PROVE  Coded[<<x, z>>] >= 0
  <2>1. x >= y /\ y >= z
    BY <1>1, <1>4, Signs
  <2>2. x >= z
    BY <2>1
  <2>3. QED
    BY <1>1, <2>2, Signs
<1>5. QED
  BY <1>2, <1>3, <1>4 DEF Preorder

LEMMA FoldedOrdered == Preorder(Folded, Nat)
<1>1. \A x \in Nat : Fold(x) \in Nat
  BY DEF Fold
<1>2. \A x, y \in Nat : Folded[<<x, y>>] = Coded[<<Fold(x), Fold(y)>>]
  BY <1>1 DEF Coded, Folded
<1>3. \A x, y \in Nat : Folded[<<x, y>>] \in {-1, 0, 1}
  BY <1>1, <1>2, CodesOrdered DEF Preorder
<1>4. Folded = [p \in Nat \X Nat |-> Folded[<<p[1], p[2]>>]]
  BY DEF Folded
<1>5. Folded \in [Nat \X Nat -> {-1, 0, 1}]
  BY <1>3, <1>4
<1>6. ASSUME NEW x \in Nat, NEW y \in Nat, NEW z \in Nat
      PROVE  /\ Opposed(Folded[<<x, y>>], Folded[<<y, x>>])
             /\ Folded[<<x, y>>] >= 0 /\ Folded[<<y, z>>] >= 0 => Folded[<<x, z>>] >= 0
  <2> DEFINE u == Fold(x)  v == Fold(y)  w == Fold(z)
  <2>1. /\ Folded[<<x, y>>] = Coded[<<u, v>>] /\ Folded[<<y, x>>] = Coded[<<v, u>>]
        /\ Folded[<<y, z>>] = Coded[<<v, w>>] /\ Folded[<<x, z>>] = Coded[<<u, w>>]
        /\ u \in Nat /\ v \in Nat /\ w \in Nat
    BY <1>1, <1>2
  <2> HIDE DEF u, v, w
  <2>2. /\ Opposed(Coded[<<u, v>>], Coded[<<v, u>>])
        /\ Coded[<<u, v>>] >= 0 /\ Coded[<<v, w>>] >= 0 => Coded[<<u, w>>] >= 0
    BY <2>1, CodesOrdered DEF Preorder
  <2>3. QED
    BY <2>1, <2>2 DEF Opposed
<1>7. QED
  BY <1>5, <1>6 DEF Preorder

LEMMA ByCodes == ASSUME NEW s \in Seq(Nat), NEW t \in Seq(Nat)
                 PROVE  Lexicographic(s, t, CmpCode) = LexFn(Coded, Nat)[<<s, t>>]
<1> DEFINE D == {k \in DOMAIN s \cap DOMAIN t : CmpCode(s[k], t[k]) # 0}
<1>1. \A k \in DOMAIN s \cap DOMAIN t : s[k] \in Nat /\ t[k] \in Nat /\ k \in Nat
  BY ElementOfSeq, LenProperties
<1>2. \A k \in DOMAIN s \cap DOMAIN t : Coded[<<s[k], t[k]>>] = CmpCode(s[k], t[k])
  BY <1>1 DEF Coded
<1>3. D = {k \in DOMAIN s \cap DOMAIN t : Coded[<<s[k], t[k]>>] # 0}
  BY <1>2
<1>4. D # {} => Min(D) \in D
  <2>1. D \subseteq Nat
    BY <1>1
  <2> HIDE DEF D
  <2>2. QED
    BY <2>1, Least
<1>5. D # {} => Min(D) \in DOMAIN s \cap DOMAIN t
  BY <1>4
<1>6. Lexicographic(s, t, CmpCode) =
          IF D = {} THEN Sign(Len(s) - Len(t)) ELSE CmpCode(s[Min(D)], t[Min(D)])
  BY DEF Lexicographic
<1>7. Lex(Coded, s, t) = IF D = {} THEN Sign(Len(s) - Len(t)) ELSE Coded[<<s[Min(D)], t[Min(D)]>>]
  BY <1>3 DEF Lex
<1> HIDE DEF D
<1>8. Lexicographic(s, t, CmpCode) = Lex(Coded, s, t)
  BY <1>2, <1>5, <1>6, <1>7
<1>9. QED
  BY <1>8 DEF LexFn

LEMMA ByFolded == ASSUME NEW s \in Seq(Nat), NEW t \in Seq(Nat)
                  PROVE  CmpAlphaCi(s, t) = LexFn(Folded, Nat)[<<s, t>>]
<1> DEFINE D == {k \in DOMAIN s \cap DOMAIN t : CmpCode(Fold(s[k]), Fold(t[k])) # 0}
<1>1. \A k \in DOMAIN s \cap DOMAIN t : s[k] \in Nat /\ t[k] \in Nat /\ k \in Nat
  BY ElementOfSeq, LenProperties
<1>2. \A k \in DOMAIN s \cap DOMAIN t : Folded[<<s[k], t[k]>>] = CmpCode(Fold(s[k]), Fold(t[k]))
  BY <1>1 DEF Folded
<1>3. D = {k \in DOMAIN s \cap DOMAIN t : Folded[<<s[k], t[k]>>] # 0}
  BY <1>2
<1>4. D # {} => Min(D) \in D
  <2>1. D \subseteq Nat
    BY <1>1
  <2> HIDE DEF D
  <2>2. QED
    BY <2>1, Least
<1>5. D # {} => Min(D) \in DOMAIN s \cap DOMAIN t
  BY <1>4
<1>6. CmpAlphaCi(s, t) =
          IF D = {} THEN Sign(Len(s) - Len(t)) ELSE CmpCode(Fold(s[Min(D)]), Fold(t[Min(D)]))
  BY DEF CmpAlphaCi, Lexicographic
<1>7. Lex(Folded, s, t) = IF D = {} THEN Sign(Len(s) - Len(t)) ELSE Folded[<<s[Min(D)], t[Min(D)]>>]
  BY <1>3 DEF Lex
<1> HIDE DEF D
<1>8. CmpAlphaCi(s, t) = Lex(Folded, s, t)
  BY <1>2, <1>5, <1>6, <1>7
<1>9. QED
  BY <1>8 DEF LexFn

\* A number without its zeros is still a number.
LEMMA StrippedTyped == \A d \in Segment : Stripped(d) \in Seq(Nat)
<1> SUFFICES ASSUME NEW d \in Segment PROVE Stripped(d) \in Seq(Nat)
  OBVIOUS
<1> DEFINE first == {k \in DOMAIN d : d[k] # Zero \/ k = Len(d)}
<1>1. /\ d \in Seq(Nat) /\ Len(d) \in Nat /\ DOMAIN d = 1..Len(d) /\ Len(d) # 0
  BY LenProperties, EmptySeq DEF Segment
<1>2. first \subseteq 1..Len(d) /\ Len(d) \in first
  BY <1>1
<1> HIDE DEF first
<1>3. Min(first) \in 1..Len(d)
  <2>1. first \subseteq Nat /\ first # {}
    BY <1>2
  <2>2. QED
    BY <1>2, <2>1, Least
<1>4. Stripped(d) = SubSeq(d, Min(first), Len(d))
  BY DEF Stripped, first
<1>5. QED
  BY <1>1, <1>3, <1>4, SubSeqProperties

LEMMA NumericOrdered == Preorder(Numeric, Segment)
<1> DEFINE g == LexFn(Coded, Nat)
    L(a) == Len(Stripped(a))
<1>1. Preorder(g, Seq(Nat))
  BY CodesOrdered, LexPreorder
<1>2. ASSUME NEW a \in Segment, NEW b \in Segment
      PROVE  Numeric[<<a, b>>] = IF L(a) # L(b) THEN CmpCode(L(a), L(b))
                                 ELSE g[<<Stripped(a), Stripped(b)>>]
  <2>1. Stripped(a) \in Seq(Nat) /\ Stripped(b) \in Seq(Nat)
    BY StrippedTyped
  <2>2. Lexicographic(Stripped(a), Stripped(b), CmpCode) = g[<<Stripped(a), Stripped(b)>>]
    BY <2>1, ByCodes
  <2>3. Numeric[<<a, b>>] = CmpNumeric(a, b)
    BY DEF Numeric
  <2>4. QED
    BY <2>2, <2>3 DEF CmpNumeric, CmpCode
<1>3. \A a \in Segment : L(a) \in Int
  BY StrippedTyped, LenProperties
<1> HIDE DEF g, L
<1>4. ASSUME NEW a \in Segment, NEW b \in Segment
      PROVE  Numeric[<<a, b>>] \in {-1, 0, 1} /\ Opposed(Numeric[<<a, b>>], Numeric[<<b, a>>])
  <2>1. CASE L(a) # L(b)
    BY <1>2, <1>3, <2>1, Signs
  <2>2. CASE L(a) = L(b)
    <3>1. Numeric[<<a, b>>] = g[<<Stripped(a), Stripped(b)>>] /\ Numeric[<<b, a>>] = g[<<Stripped(b), Stripped(a)>>]
      BY <1>2, <2>2
    <3>2. \A x, y \in Seq(Nat) : g[<<x, y>>] \in {-1, 0, 1} /\ Opposed(g[<<x, y>>], g[<<y, x>>])
      BY <1>1 DEF Preorder
    <3>3. QED
      BY <3>1, <3>2, StrippedTyped
  <2>3. QED
    BY <2>1, <2>2
<1>5. ASSUME NEW a \in Segment, NEW b \in Segment, NEW c \in Segment,
             Numeric[<<a, b>>] >= 0, Numeric[<<b, c>>] >= 0
      PROVE  Numeric[<<a, c>>] >= 0
  <2>1. L(a) \in Int /\ L(b) \in Int /\ L(c) \in Int
    BY <1>3
  <2>2. L(a) >= L(b) /\ L(b) >= L(c)
    <3>1. L(a) # L(b) => CmpCode(L(a), L(b)) >= 0
      BY <1>2, <1>5
    <3>2. L(b) # L(c) => CmpCode(L(b), L(c)) >= 0
      BY <1>2, <1>5
    <3>3. QED
      BY <2>1, <3>1, <3>2, Signs
  <2>3. CASE L(a) # L(c)
    <3>1. L(a) >= L(c)
      BY <2>1, <2>2
    <3>2. Numeric[<<a, c>>] = CmpCode(L(a), L(c))
      BY <1>2, <2>3
    <3>3. QED
      BY <2>1, <3>1, <3>2, Signs
  <2>4. CASE L(a) = L(c)
    <3>1. L(a) = L(b) /\ L(b) = L(c)
      BY <2>1, <2>2, <2>4
    <3>2. /\ Numeric[<<a, b>>] = g[<<Stripped(a), Stripped(b)>>]
          /\ Numeric[<<b, c>>] = g[<<Stripped(b), Stripped(c)>>]
          /\ Numeric[<<a, c>>] = g[<<Stripped(a), Stripped(c)>>]
      BY <1>2, <3>1
    <3>3. \A x, y, z \in Seq(Nat) : g[<<x, y>>] >= 0 /\ g[<<y, z>>] >= 0 => g[<<x, z>>] >= 0
      BY <1>1 DEF Preorder
    <3>4. QED
      BY <1>5, <3>2, <3>3, StrippedTyped
  <2>5. QED
    BY <2>3, <2>4
<1>6. Numeric = [p \in Segment \X Segment |-> Numeric[<<p[1], p[2]>>]]
  BY DEF Numeric
<1>7. Numeric \in [Segment \X Segment -> {-1, 0, 1}]
  BY <1>4, <1>6
<1>8. QED
  BY <1>4, <1>5, <1>7 DEF Preorder

LEMMA SegmentsOrdered == Preorder(BySegment, Segment)
<1> DEFINE g == LexFn(Folded, Nat)
    isNumber(s) == Class(s[1]) = "number"
<1>1. Preorder(g, Seq(Nat)) /\ Preorder(Numeric, Segment)
  BY FoldedOrdered, NumericOrdered, LexPreorder
<1>2. ASSUME NEW a \in Segment, NEW b \in Segment
      PROVE  /\ isNumber(a) /\ isNumber(b) => BySegment[<<a, b>>] = Numeric[<<a, b>>]
             /\ ~isNumber(a) /\ ~isNumber(b) => BySegment[<<a, b>>] = g[<<a, b>>]
             /\ isNumber(a) /\ ~isNumber(b) => BySegment[<<a, b>>] = 1
             /\ ~isNumber(a) /\ isNumber(b) => BySegment[<<a, b>>] = -1
  <2>1. CmpAlphaCi(a, b) = g[<<a, b>>]
    BY ByFolded DEF Segment
  <2>2. Numeric[<<a, b>>] = CmpNumeric(a, b) /\ BySegment[<<a, b>>] = CmpSegment(a, b)
    BY DEF Numeric, BySegment
  <2>3. QED
    BY <2>1, <2>2 DEF CmpSegment
<1> HIDE DEF g, isNumber
<1>3. \A x, y, z \in Segment :
          /\ Numeric[<<x, y>>] \in {-1, 0, 1} /\ Opposed(Numeric[<<x, y>>], Numeric[<<y, x>>])
          /\ Numeric[<<x, y>>] >= 0 /\ Numeric[<<y, z>>] >= 0 => Numeric[<<x, z>>] >= 0
  BY <1>1 DEF Preorder
<1>4. \A x, y, z \in Segment :
          /\ g[<<x, y>>] \in {-1, 0, 1} /\ Opposed(g[<<x, y>>], g[<<y, x>>])
          /\ g[<<x, y>>] >= 0 /\ g[<<y, z>>] >= 0 => g[<<x, z>>] >= 0
  BY <1>1 DEF Preorder, Segment
<1>5. ASSUME NEW a \in Segment, NEW b \in Segment
      PROVE  BySegment[<<a, b>>] \in {-1, 0, 1} /\ Opposed(BySegment[<<a, b>>], BySegment[<<b, a>>])
  <2>1. CASE isNumber(a) /\ isNumber(b)
    <3>1. BySegment[<<a, b>>] = Numeric[<<a, b>>] /\ BySegment[<<b, a>>] = Numeric[<<b, a>>]
      BY <1>2, <2>1
    <3>2. QED
      BY <1>3, <3>1 DEF Opposed
  <2>2. CASE ~isNumber(a) /\ ~isNumber(b)
    <3>1. BySegment[<<a, b>>] = g[<<a, b>>] /\ BySegment[<<b, a>>] = g[<<b, a>>]
      BY <1>2, <2>2
    <3>2. QED
      BY <1>4, <3>1 DEF Opposed
  <2>3. CASE isNumber(a) /\ ~isNumber(b)
    <3>1. BySegment[<<a, b>>] = 1 /\ BySegment[<<b, a>>] = -1
      BY <1>2, <2>3
    <3>2. QED
      BY <3>1 DEF Opposed
  <2>4. CASE ~isNumber(a) /\ isNumber(b)
    <3>1. BySegment[<<a, b>>] = -1 /\ BySegment[<<b, a>>] = 1
      BY <1>2, <2>4
    <3>2. QED
      BY <3>1 DEF Opposed
  <2>5. QED
    BY <2>1, <2>2, <2>3, <2>4
<1>6. ASSUME NEW a \in Segment, NEW b \in Segment, NEW c \in Segment,
             BySegment[<<a, b>>] >= 0, BySegment[<<b, c>>] >= 0
      PROVE  BySegment[<<a, c>>] >= 0
  <2>1. ~isNumber(a) => ~isNumber(b)
    BY <1>2, <1>6
  <2>2. ~isNumber(b) => ~isNumber(c)
    BY <1>2, <1>6
  <2>3. CASE isNumber(c)
    <3>1. isNumber(a) /\ isNumber(b)
      BY <2>1, <2>2, <2>3
    <3>2. /\ BySegment[<<a, b>>] = Numeric[<<a, b>>] /\ BySegment[<<b, c>>] = Numeric[<<b, c>>]
          /\ BySegment[<<a, c>>] = Numeric[<<a, c>>]
      BY <1>2, <2>3, <3>1
    <3>3. QED
      BY <1>3, <1>6, <3>2
  <2>4. CASE ~isNumber(a)
    <3>1. ~isNumber(b) /\ ~isNumber(c)
      BY <2>1, <2>2, <2>4
    <3>2. /\ BySegment[<<a, b>>] = g[<<a, b>>] /\ BySegment[<<b, c>>] = g[<<b, c>>]
          /\ BySegment[<<a, c>>] = g[<<a, c>>]
      BY <1>2, <2>4, <3>1
    <3>3. QED
      BY <1>4, <1>6, <3>2
  <2>5. CASE isNumber(a) /\ ~isNumber(c)
    BY <1>2, <2>5
  <2>6. QED
    BY <2>3, <2>4, <2>5
<1>7. BySegment = [p \in Segment \X Segment |-> BySegment[<<p[1], p[2]>>]]
  BY DEF BySegment
<1>8. BySegment \in [Segment \X Segment -> {-1, 0, 1}]
  BY <1>5, <1>7
<1>9. QED
  BY <1>5, <1>6, <1>8 DEF Preorder
-----------------------------------------------------------------------------
(***************************************************************************)
(* The segments of a text: none is empty.                                  *)
(***************************************************************************)
\* f holds the segments of the first n characters of v, and all before.
UpTo(f, v, n) == f = [k \in 0..n |-> IF k = 0 THEN <<>> ELSE Continue(f[k - 1], v, k)]

LEMMA SomeUpTo == ASSUME NEW v, NEW n \in Nat PROVE \E f : UpTo(f, v, n)
<1> DEFINE N == {k \in Nat : \E f : UpTo(f, v, k)}
<1>1. 0 \in N
  <2>1. UpTo([k \in 0..0 |-> <<>>], v, 0)
    BY DEF UpTo
  <2>2. QED
    BY <2>1
<1>2. ASSUME NEW k \in Nat, k \in N PROVE k + 1 \in N
  <2>1. PICK f : UpTo(f, v, k)
    BY <1>2
  <2>2. PICK y : y = Continue(f[k], v, k + 1)
    OBVIOUS
  <2>3. PICK h : h = [j \in 0..(k + 1) |-> IF j = k + 1 THEN y ELSE f[j]]
    OBVIOUS
  <2>4. h[k + 1] = y /\ \A j \in 0..k : h[j] = f[j]
    BY <2>3
  <2>5. ASSUME NEW j \in 0..(k + 1)
        PROVE  h[j] = IF j = 0 THEN <<>> ELSE Continue(h[j - 1], v, j)
    <3>1. CASE j = k + 1
      <4>1. j # 0 /\ j - 1 = k /\ k \in 0..k
        BY <3>1
      <4>2. QED
        BY <2>2, <2>4, <3>1, <4>1
    <3>2. CASE j \in 0..k
      <4>1. f[j] = IF j = 0 THEN <<>> ELSE Continue(f[j - 1], v, j)
        BY <2>1, <3>2 DEF UpTo
      <4>2. j # 0 => j - 1 \in 0..k
        BY <3>2
      <4>3. QED
        BY <2>4, <3>2, <4>1, <4>2
    <3>3. QED
      BY <3>1, <3>2
  <2>6. UpTo(h, v, k + 1)
    BY <2>3, <2>5 DEF UpTo
  <2>7. QED
    BY <2>6
<1> HIDE DEF N
<1>3. n \in N
  BY <1>1, <1>2, Induct
<1>4. QED
  BY <1>3 DEF N

LEMMA Longer == ASSUME NEW S, NEW d \in Seq(S), NEW c \in S
                PROVE  Append(d, c) \in Seq(S) /\ Append(d, c) # <<>>
  BY AppendProperties

\* After a digit or a letter there is a last segment for the next to go on with.
LEMMA ContinueTyped ==
    ASSUME NEW v \in Seq(Nat), NEW n \in 1..Len(v), NEW segs \in Seq(Segment),
           n > 1 /\ Class(v[n - 1]) # "separator" => segs # <<>>
    PROVE  /\ Continue(segs, v, n) \in Seq(Segment)
           /\ Class(v[n]) # "separator" => Continue(segs, v, n) # <<>>
<1>1. v[n] \in Nat
  BY ElementOfSeq
<1>2. CASE Class(v[n]) = "separator"
  BY <1>2 DEF Continue
<1>3. CASE Class(v[n]) # "separator" /\ n > 1 /\ Class(v[n - 1]) = Class(v[n])
  <2> DEFINE last == Len(segs)  more == Append(segs[last], v[n])
  <2>1. segs # <<>>
    BY <1>3
  <2>2. last \in 1..Len(segs) /\ Len(segs) # 0
    BY <2>1, LenProperties, EmptySeq
  <2>3. segs[last] \in Seq(Nat)
    <3>1. segs[last] \in Segment
      BY <2>2, ElementOfSeq
    <3>2. QED
      BY <3>1 DEF Segment
  <2>4. more \in Segment
    BY <1>1, <2>3, Longer DEF Segment
  <2>5. Continue(segs, v, n) = [segs EXCEPT ![last] = more]
    BY <1>3 DEF Continue
  <2> HIDE DEF last, more
  <2>6. [segs EXCEPT ![last] = more] \in Seq(Segment) /\ Len([segs EXCEPT ![last] = more]) = Len(segs)
    BY <2>2, <2>4, ExceptSeq
  <2>7. [segs EXCEPT ![last] = more] # <<>>
    BY <2>2, <2>6, EmptySeq
  <2>8. QED
    BY <2>5, <2>6, <2>7
<1>4. CASE Class(v[n]) # "separator" /\ ~(n > 1 /\ Class(v[n - 1]) = Class(v[n]))
  <2> DEFINE new == <<v[n]>>
  <2>1. new \in Segment
    BY <1>1 DEF Segment
  <2>2. Continue(segs, v, n) = Append(segs, new)
    BY <1>4 DEF Continue
  <2> HIDE DEF new
  <2>3. Append(segs, new) \in Seq(Segment) /\ Append(segs, new) # <<>>
    BY <2>1, AppendProperties
  <2>4. QED
    BY <2>2, <2>3
<1>5. QED
  BY <1>2, <1>3, <1>4

\* f holds the segments of the beginnings of v.
Splits(f, v) ==
    /\ f \in [0..Len(v) -> Seq(Segment)] /\ f[0] = <<>>
    /\ \A n \in 1..Len(v) :
          /\ f[n] = Continue(f[n - 1], v, n)
          /\ n > 1 /\ Class(v[n - 1]) # "separator" => f[n - 1] # <<>>

LEMMA Splitting == ASSUME NEW v \in Seq(Nat)
                   PROVE  \E f : Splits(f, v) /\ Segments(v) = f[Len(v)]
<1> DEFINE f == CHOOSE g : UpTo(g, v, Len(v))
    Fine(k) == f[k] \in Seq(Segment) /\ (k > 0 /\ Class(v[k]) # "separator" => f[k] # <<>>)
    N == {k \in Nat : k <= Len(v) => Fine(k)}
<1>1. Len(v) \in Nat
  BY LenProperties
<1>2. UpTo(f, v, Len(v))
  BY <1>1, SomeUpTo
<1>3. Segments(v) = f[Len(v)]
  BY DEF Segments, UpTo
<1> HIDE DEF f
<1>4. \A k \in 0..Len(v) : f[k] = IF k = 0 THEN <<>> ELSE Continue(f[k - 1], v, k)
  BY <1>2 DEF UpTo
<1>5. 0 \in N
  <2>1. f[0] = <<>>
    BY <1>1, <1>4
  <2>2. f[0] \in Seq(Segment) /\ ~(0 > 0)
    BY <2>1, EmptySeq
  <2>3. Fine(0)
    BY <2>2
  <2> HIDE DEF Fine
  <2>4. QED
    BY <2>3
<1>6. ASSUME NEW k \in Nat, k \in N PROVE k + 1 \in N
  <2> SUFFICES ASSUME k + 1 <= Len(v) PROVE Fine(k + 1)
    OBVIOUS
  <2>1. k + 1 \in 1..Len(v) /\ k + 1 \in 0..Len(v) /\ k + 1 # 0 /\ (k + 1) - 1 = k /\ k <= Len(v)
    BY <1>1
  <2>2. f[k] \in Seq(Segment) /\ (k > 0 /\ Class(v[k]) # "separator" => f[k] # <<>>)
    BY <1>6, <2>1
  <2>3. f[k + 1] = Continue(f[k], v, k + 1)
    BY <1>4, <2>1
  <2>4. k + 1 > 1 /\ Class(v[(k + 1) - 1]) # "separator" => f[k] # <<>>
    BY <2>1, <2>2
  <2>5. /\ Continue(f[k], v, k + 1) \in Seq(Segment)
        /\ Class(v[k + 1]) # "separator" => Continue(f[k], v, k + 1) # <<>>
    BY <2>1, <2>2, <2>4, ContinueTyped
  <2>6. QED
    BY <2>3, <2>5
<1> HIDE DEF N
<1>7. Nat \subseteq N
  BY <1>5, <1>6, Induct
<1>8. ASSUME NEW k \in 0..Len(v) PROVE Fine(k)
  BY <1>1, <1>7 DEF N
<1>9. \A k \in 0..Len(v) : f[k] \in Seq(Segment)
  BY <1>8
<1>10. f \in [0..Len(v) -> Seq(Segment)]
  <2>1. f = [k \in 0..Len(v) |-> f[k]]
    BY <1>2 DEF UpTo
  <2>2. QED
    BY <1>9, <2>1
<1>11. ASSUME NEW n \in 1..Len(v)
       PROVE  /\ f[n] = Continue(f[n - 1], v, n)
              /\ n > 1 /\ Class(v[n - 1]) # "separator" => f[n - 1] # <<>>
  <2>1. n \in 0..Len(v) /\ n # 0 /\ n - 1 \in 0..Len(v) /\ (n > 1 => n - 1 > 0)
    BY <1>1
  <2>2. Fine(n - 1)
    BY <1>8, <2>1
  <2>3. QED
    BY <1>4, <2>1, <2>2
<1>12. f[0] = <<>>
  BY <1>1, <1>4
<1>13. Splits(f, v)
  BY <1>10, <1>11, <1>12 DEF Splits
<1>14. QED
  BY <1>3, <1>13

LEMMA SegmentsTyped == ASSUME NEW v \in Seq(Nat) PROVE Segments(v) \in Seq(Segment)
<1>1. PICK f : Splits(f, v) /\ Segments(v) = f[Len(v)]
  BY Splitting
<1>2. Len(v) \in 0..Len(v)
  BY LenProperties
<1>3. QED
  BY <1>1, <1>2 DEF Splits

-----------------------------------------------------------------------------
LEMMA Compared ==
    ASSUME NEW a \in Seq(Nat), NEW b \in Seq(Nat)
    PROVE  AverCompare(a, b) = LexFn(BySegment, Segment)[<<Segments(a), Segments(b)>>]
<1> DEFINE s == Segments(a)  t == Segments(b)
    D == {k \in DOMAIN s \cap DOMAIN t : CmpSegment(s[k], t[k]) # 0}
<1>1. s \in Seq(Segment) /\ t \in Seq(Segment)
  BY SegmentsTyped
<1>2. AverCompare(a, b) =
          IF D = {} THEN Sign(Len(s) - Len(t)) ELSE CmpSegment(s[Min(D)], t[Min(D)])
  BY DEF AverCompare, Lexicographic
<1> HIDE DEF s, t
<1>3. \A k \in DOMAIN s \cap DOMAIN t : s[k] \in Segment /\ t[k] \in Segment /\ k \in Nat
  BY <1>1, ElementOfSeq, LenProperties
<1>4. \A k \in DOMAIN s \cap DOMAIN t : BySegment[<<s[k], t[k]>>] = CmpSegment(s[k], t[k])
  BY <1>3 DEF BySegment
<1>5. D = {k \in DOMAIN s \cap DOMAIN t : BySegment[<<s[k], t[k]>>] # 0}
  BY <1>4
<1>6. D # {} => Min(D) \in D
  <2>1. D \subseteq Nat
    BY <1>3
  <2> HIDE DEF D
  <2>2. QED
    BY <2>1, Least
<1>7. D # {} => Min(D) \in DOMAIN s \cap DOMAIN t
  BY <1>6
<1>8. Lex(BySegment, s, t) =
          IF D = {} THEN Sign(Len(s) - Len(t)) ELSE BySegment[<<s[Min(D)], t[Min(D)]>>]
  BY <1>5 DEF Lex
<1> HIDE DEF D
<1>9. AverCompare(a, b) = Lex(BySegment, s, t)
  BY <1>2, <1>4, <1>7, <1>8
<1>10. LexFn(BySegment, Segment)[<<s, t>>] = Lex(BySegment, s, t)
  BY <1>1 DEF LexFn
<1>11. QED
  BY <1>9, <1>10 DEF s, t

LEMMA Comparison ==
    ASSUME NEW a \in Seq(Nat), NEW b \in Seq(Nat)
    PROVE  AverCompare(a, b) \in {-1, 0, 1} /\ Opposed(AverCompare(a, b), AverCompare(b, a))
<1> DEFINE g == LexFn(BySegment, Segment)
<1>1. Preorder(g, Seq(Segment)) /\ Segments(a) \in Seq(Segment) /\ Segments(b) \in Seq(Segment)
  BY SegmentsOrdered, LexPreorder, SegmentsTyped
<1>2. /\ AverCompare(a, b) = g[<<Segments(a), Segments(b)>>]
      /\ AverCompare(b, a) = g[<<Segments(b), Segments(a)>>]
  BY Compared
<1> HIDE DEF g
<1>3. /\ g[<<Segments(a), Segments(b)>>] \in {-1, 0, 1}
      /\ Opposed(g[<<Segments(a), Segments(b)>>], g[<<Segments(b), Segments(a)>>])
  BY <1>1 DEF Preorder
<1>4. QED
  BY <1>2, <1>3 DEF Opposed

LEMMA Transitive ==
    ASSUME NEW a \in Seq(Nat), NEW b \in Seq(Nat), NEW c \in Seq(Nat),
           AverCompare(a, b) >= 0, AverCompare(b, c) >= 0
    PROVE  /\ AverCompare(a, c) >= 0
           /\ AverCompare(a, c) = 0 <=> AverCompare(a, b) = 0 /\ AverCompare(b, c) = 0
<1> DEFINE g == LexFn(BySegment, Segment)
<1>1. /\ Preorder(g, Seq(Segment))
      /\ Segments(a) \in Seq(Segment) /\ Segments(b) \in Seq(Segment) /\ Segments(c) \in Seq(Segment)
  BY SegmentsOrdered, LexPreorder, SegmentsTyped
<1>2. /\ AverCompare(a, b) = g[<<Segments(a), Segments(b)>>]
      /\ AverCompare(b, c) = g[<<Segments(b), Segments(c)>>]
      /\ AverCompare(a, c) = g[<<Segments(a), Segments(c)>>]
  BY Compared
<1> HIDE DEF g
<1>3. QED
  BY <1>1, <1>2, Strict

\* Versions are totally preordered, whatever their texts: of two either is the
\* newer or they are alike, seen from both sides, and newer than newer is newer
\* (aver_compare, which orders catalogs, variants and upgrades).
THEOREM VersionsTotallyPreordered == \A a, b, c \in Seq(Nat) : Ordered(a, b, c)
<1> SUFFICES ASSUME NEW a \in Seq(Nat), NEW b \in Seq(Nat), NEW c \in Seq(Nat)
             PROVE  Ordered(a, b, c)
  OBVIOUS
<1>1. AverCompare(a, b) = -AverCompare(b, a)
  <2> DEFINE m == AverCompare(a, b)  n == AverCompare(b, a)
  <2>1. Opposed(m, n)
    BY Comparison
  <2> HIDE DEF m, n
  <2>2. m \in Int /\ n \in Int /\ m + n = 0
    BY <2>1 DEF Opposed
  <2>3. m = -n
    BY <2>2, Opposite
  <2>4. QED
    BY <2>3 DEF m, n
<1>2. AverCompare(a, b) >= 0 /\ AverCompare(b, c) >= 0 => AverCompare(a, c) >= 0
  BY Transitive
<1>3. QED
  BY <1>1, <1>2 DEF Ordered

\* No version is newer than one that is newer than it, and newer than newer is
\* newer, so no chain of newer versions leads back to its start (aver_is_newer,
\* which upgrade and the marks of the lists go by); unknown versions included.
THEOREM NewerIsStrict ==
    \A a, b, c \in Seq(Nat) :
        /\ IsNewer(a, b) => ~IsNewer(b, a)
        /\ IsNewer(a, b) /\ IsNewer(b, c) => IsNewer(a, c)
<1> SUFFICES ASSUME NEW a \in Seq(Nat), NEW b \in Seq(Nat), NEW c \in Seq(Nat)
             PROVE  /\ IsNewer(a, b) => ~IsNewer(b, a)
                    /\ IsNewer(a, b) /\ IsNewer(b, c) => IsNewer(a, c)
  OBVIOUS
<1>1. IsNewer(a, b) => ~IsNewer(b, a)
  <2> DEFINE m == AverCompare(a, b)  n == AverCompare(b, a)
  <2>1. Opposed(m, n)
    BY Comparison
  <2>2. (IsNewer(a, b) => m > 0) /\ (IsNewer(b, a) => n > 0)
    BY DEF IsNewer
  <2> HIDE DEF m, n
  <2>3. ~(m > 0 /\ n > 0)
    BY <2>1 DEF Opposed
  <2>4. QED
    BY <2>2, <2>3
<1>2. ASSUME IsNewer(a, b), IsNewer(b, c) PROVE IsNewer(a, c)
  <2>1. AverCompare(a, b) > 0 /\ AverCompare(b, c) > 0
    BY <1>2 DEF IsNewer
  <2>2. AverCompare(a, b) \in {-1, 0, 1} /\ AverCompare(b, c) \in {-1, 0, 1} /\ AverCompare(a, c) \in {-1, 0, 1}
    BY Comparison
  <2>3. AverCompare(a, c) >= 0 /\ AverCompare(a, c) # 0
    BY <2>1, <2>2, Transitive
  <2>4. QED
    BY <1>2, <2>2, <2>3 DEF IsNewer
<1>3. QED
  BY <1>1, <1>2

-----------------------------------------------------------------------------
(***************************************************************************)
(* Numbers: the one segment of a text of digits, and its value.            *)
(***************************************************************************)
Number == {d \in Seq(48..57) : d # <<>>}

LEMMA NumberTyped == ASSUME NEW d \in Number
                     PROVE  /\ d \in Segment /\ Len(d) \in Nat /\ Len(d) >= 1 /\ DOMAIN d = 1..Len(d)
                            /\ \A k \in 1..Len(d) : d[k] \in 48..57
<1>1. d \in Seq(48..57) /\ d # <<>>
  BY DEF Number
<1>2. /\ Len(d) \in Nat /\ DOMAIN d = 1..Len(d) /\ d \in [1..Len(d) -> 48..57]
      /\ \A k \in 1..Len(d) : d[k] \in 48..57
  BY <1>1, LenProperties, ElementOfSeq
<1>3. Len(d) # 0
  BY <1>1, EmptySeq
<1>4. d \in Seq(Nat)
  <2>1. d \in [1..Len(d) -> Nat]
    BY <1>2
  <2>2. QED
    BY <1>2, <2>1
<1>5. QED
  BY <1>1, <1>2, <1>3, <1>4 DEF Segment

\* f holds the values of the beginnings of d.
Counts(f, d) ==
    /\ f \in [0..Len(d) -> Nat] /\ f[0] = 0
    /\ \A n \in 1..Len(d) : f[n] = 10 * f[n - 1] + (d[n] - Zero)

LEMMA Counting == ASSUME NEW d \in Number PROVE \E f : Counts(f, d) /\ Value(d) = f[Len(d)]
<1> DEFINE F == [p \in (1..Len(d)) \X Nat |-> 10 * p[2] + (d[p[1]] - Zero)]
    Is(f) == f = [n \in 0..Len(d) |-> IF n = 0 THEN 0 ELSE 10 * f[n - 1] + (d[n] - Zero)]
<1>1. Len(d) \in Nat /\ \A k \in 1..Len(d) : d[k] \in 48..57
  BY NumberTyped
<1>2. \A n \in 1..Len(d), x \in Nat : F[<<n, x>>] = 10 * x + (d[n] - Zero)
  OBVIOUS
<1>3. ASSUME NEW n \in 1..Len(d), NEW x \in Nat PROVE F[<<n, x>>] \in Nat
  <2>1. PICK c \in 48..57 : c = d[n]
    BY <1>1
  <2>2. 10 * x + (c - 48) \in Nat
    OBVIOUS
  <2>3. QED
    BY <1>2, <2>1, <2>2 DEF Zero
<1> HIDE DEF F
<1>4. PICK h : Runs(h, Len(d), Nat, 0, F)
  <2>1. 0 \in Nat /\ \A n \in 1..Len(d), x \in Nat : F[<<n, x>>] \in Nat
    BY <1>3
  <2>2. QED
    BY <1>1, <2>1, Iteration
<1>5. Is(h)
  <2>1. /\ h \in [0..Len(d) -> Nat]
        /\ \A n \in 0..Len(d) : h[n] = IF n = 0 THEN 0 ELSE F[<<n, h[n - 1]>>]
    BY <1>4 DEF Runs
  <2>2. ASSUME NEW n \in 0..Len(d), n # 0 PROVE h[n] = 10 * h[n - 1] + (d[n] - Zero)
    <3>1. n \in 1..Len(d) /\ n - 1 \in 0..Len(d)
      BY <1>1, <2>2
    <3>2. QED
      BY <1>2, <2>1, <2>2, <3>1
  <2>3. QED
    BY <2>1, <2>2
<1> DEFINE f == CHOOSE g : Is(g)
<1>6. Is(f)
  BY <1>5
<1>7. Value(d) = f[Len(d)]
  BY DEF Value
<1> HIDE DEF f
<1>8. /\ f = [n \in 0..Len(d) |-> f[n]] /\ f[0] = 0
      /\ \A n \in 1..Len(d) : f[n] = 10 * f[n - 1] + (d[n] - Zero)
  BY <1>1, <1>6
<1>9. \A n \in Nat : n <= Len(d) => f[n] \in Nat
  <2> DEFINE N == {n \in Nat : n <= Len(d) => f[n] \in Nat}
  <2>1. 0 \in N
    BY <1>8
  <2>2. ASSUME NEW n \in Nat, n \in N PROVE n + 1 \in N
    <3> SUFFICES ASSUME n + 1 <= Len(d) PROVE f[n + 1] \in Nat
      OBVIOUS
    <3>1. n + 1 \in 1..Len(d) /\ (n + 1) - 1 = n /\ f[n] \in Nat
      BY <1>1, <2>2
    <3>2. f[n + 1] = 10 * f[n] + (d[n + 1] - Zero)
      BY <1>8, <3>1
    <3>3. PICK c \in 48..57, x \in Nat : c = d[n + 1] /\ x = f[n]
      BY <1>1, <3>1
    <3>4. 10 * x + (c - 48) \in Nat
      OBVIOUS
    <3>5. QED
      BY <3>2, <3>3, <3>4 DEF Zero
  <2> HIDE DEF N
  <2>3. Nat \subseteq N
    BY <2>1, <2>2, Induct
  <2>4. QED
    BY <2>3 DEF N
<1>10. f \in [0..Len(d) -> Nat]
  <2>1. \A n \in 0..Len(d) : f[n] \in Nat
    BY <1>1, <1>9
  <2>2. QED
    BY <1>8, <2>1
<1>11. Counts(f, d)
  BY <1>8, <1>10 DEF Counts
<1>12. QED
  BY <1>7, <1>11

\* One digit more: who is ahead stays ahead, and who is level stays level as
\* long as the digits are the same.
LEMMA OneMore ==
    ASSUME NEW a \in Number, NEW b \in Number, NEW f, NEW h, Counts(f, a), Counts(h, b),
           NEW x \in 1..Len(a), NEW y \in 1..Len(b)
    PROVE  /\ f[x] \in Nat /\ h[y] \in Nat /\ f[x - 1] \in Nat /\ h[y - 1] \in Nat
           /\ f[x - 1] > h[y - 1] => f[x] > h[y]
           /\ f[x - 1] = h[y - 1] /\ a[x] = b[y] => f[x] = h[y]
           /\ f[x - 1] = h[y - 1] /\ a[x] > b[y] => f[x] > h[y]
<1>1. /\ Len(a) \in Nat /\ Len(b) \in Nat
      /\ \A k \in 1..Len(a) : a[k] \in 48..57
      /\ \A k \in 1..Len(b) : b[k] \in 48..57
  BY NumberTyped
<1>2. x - 1 \in 0..Len(a) /\ y - 1 \in 0..Len(b) /\ x \in 0..Len(a) /\ y \in 0..Len(b)
  BY <1>1
<1>3. /\ f[x - 1] \in Nat /\ h[y - 1] \in Nat /\ f[x] \in Nat /\ h[y] \in Nat
      /\ f[x] = 10 * f[x - 1] + (a[x] - 48) /\ h[y] = 10 * h[y - 1] + (b[y] - 48)
  BY <1>2 DEF Counts, Zero
<1>4. PICK p \in Nat, q \in Nat, c \in 48..57, e \in 48..57 :
          p = f[x - 1] /\ q = h[y - 1] /\ c = a[x] /\ e = b[y]
  BY <1>1, <1>3
<1>5. /\ p > q => 10 * p + (c - 48) > 10 * q + (e - 48)
      /\ p = q /\ c = e => 10 * p + (c - 48) = 10 * q + (e - 48)
      /\ p = q /\ c > e => 10 * p + (c - 48) > 10 * q + (e - 48)
  OBVIOUS
<1>6. QED
  BY <1>3, <1>4, <1>5

LEMMA Ahead ==
    ASSUME NEW a \in Number, NEW b \in Number, NEW f, NEW h, Counts(f, a), Counts(h, b),
           NEW x \in 0..Len(a), NEW y \in 0..Len(b), Len(a) - x = Len(b) - y, f[x] > h[y]
    PROVE  f[Len(a)] > h[Len(b)]
<1> DEFINE N == {m \in Nat : x + m <= Len(a) => f[x + m] > h[y + m]}
<1>1. Len(a) \in Nat /\ Len(b) \in Nat
  BY NumberTyped
<1>2. 0 \in N
  <2>1. x + 0 = x /\ y + 0 = y
    BY <1>1
  <2>2. QED
    BY <2>1
<1>3. ASSUME NEW m \in Nat, m \in N PROVE m + 1 \in N
  <2> SUFFICES ASSUME x + (m + 1) <= Len(a) PROVE f[x + (m + 1)] > h[y + (m + 1)]
    OBVIOUS
  <2>1. /\ x + (m + 1) \in 1..Len(a) /\ y + (m + 1) \in 1..Len(b)
        /\ (x + (m + 1)) - 1 = x + m /\ (y + (m + 1)) - 1 = y + m /\ x + m <= Len(a)
    BY <1>1
  <2>2. f[x + m] > h[y + m]
    BY <1>3, <2>1
  <2> DEFINE u == x + (m + 1)  w == y + (m + 1)
  <2>3. u \in 1..Len(a) /\ w \in 1..Len(b) /\ f[u - 1] > h[w - 1]
    BY <2>1, <2>2
  <2> HIDE DEF u, w
  <2>4. f[u] > h[w]
    BY <2>3, OneMore
  <2>5. QED
    BY <2>4 DEF u, w
<1> HIDE DEF N
<1>4. Len(a) - x \in N
  <2>1. Len(a) - x \in Nat
    BY <1>1
  <2>2. QED
    BY <1>2, <1>3, <2>1, Induct
<1>5. x + (Len(a) - x) = Len(a) /\ y + (Len(a) - x) = Len(b)
  BY <1>1
<1>6. Len(a) <= Len(a)
  BY <1>1
<1>7. QED
  BY <1>4, <1>5, <1>6 DEF N

\* The n digits behind these places are the same.
SameBehind(a, x, b, y, n) == \A k \in 1..n : a[x + k] = b[y + k]

LEMMA Level ==
    ASSUME NEW a \in Number, NEW b \in Number, NEW f, NEW h, Counts(f, a), Counts(h, b),
           NEW x \in 0..Len(a), NEW y \in 0..Len(b), f[x] = h[y],
           NEW n \in Nat, x + n <= Len(a), y + n <= Len(b),
           SameBehind(a, x, b, y, n)
    PROVE  f[x + n] = h[y + n]
<1> DEFINE N == {m \in Nat : m <= n => f[x + m] = h[y + m]}
<1>1. Len(a) \in Nat /\ Len(b) \in Nat
  BY NumberTyped
<1>2. 0 \in N
  <2>1. x + 0 = x /\ y + 0 = y
    BY <1>1
  <2>2. QED
    BY <2>1
<1>3. ASSUME NEW m \in Nat, m \in N PROVE m + 1 \in N
  <2> SUFFICES ASSUME m + 1 <= n PROVE f[x + (m + 1)] = h[y + (m + 1)]
    OBVIOUS
  <2> DEFINE u == x + (m + 1)  w == y + (m + 1)
  <2>1. /\ u \in 1..Len(a) /\ w \in 1..Len(b)
        /\ u - 1 = x + m /\ w - 1 = y + m /\ m <= n /\ m + 1 \in 1..n
    BY <1>1
  <2>2. f[u - 1] = h[w - 1] /\ a[u] = b[w]
    BY <1>3, <2>1 DEF SameBehind
  <2> HIDE DEF u, w
  <2>3. f[u] = h[w]
    BY <2>1, <2>2, OneMore
  <2>4. QED
    BY <2>3 DEF u, w
<1> HIDE DEF N
<1>4. n \in N
  BY <1>2, <1>3, Induct
<1>5. n <= n
  OBVIOUS
<1>6. QED
  BY <1>4, <1>5 DEF N

\* i is the first digit of d that counts: all before are zeros.
Bare(d, f, i) ==
    /\ i \in 1..Len(d)
    /\ Stripped(d) \in Seq(Nat) /\ Len(Stripped(d)) = Len(d) - (i - 1)
    /\ \A k \in 1..Len(Stripped(d)) : Stripped(d)[k] = d[(i - 1) + k]
    /\ f[i - 1] = 0 /\ (i < Len(d) => f[i] > 0)

LEMMA Zeros == ASSUME NEW d \in Number, NEW f, Counts(f, d) PROVE \E i : Bare(d, f, i)
<1> DEFINE first == {k \in DOMAIN d : d[k] # Zero \/ k = Len(d)}
    i == Min(first)
    s == SubSeq(d, i, Len(d))
<1>1. /\ d \in Seq(Nat) /\ Len(d) \in Nat /\ DOMAIN d = 1..Len(d) /\ Len(d) >= 1
      /\ \A k \in 1..Len(d) : d[k] \in 48..57
  BY NumberTyped DEF Segment
<1>2. first \subseteq Nat /\ first \subseteq 1..Len(d) /\ Len(d) \in first
  BY <1>1
<1>3. Stripped(d) = s
  BY DEF Stripped
<1> HIDE DEF first
<1>4. i \in first /\ \A k \in first : i <= k
  BY <1>2, Least
<1> HIDE DEF i
<1>5. i \in 1..Len(d) /\ \A k \in 1..Len(d) : k < i => d[k] = 48 /\ k # Len(d)
  <2>1. i \in 1..Len(d)
    BY <1>2, <1>4
  <2>2. ASSUME NEW k \in 1..Len(d), k < i PROVE k \notin first
    BY <1>4, <2>1, <2>2
  <2>3. QED
    BY <1>1, <2>1, <2>2 DEF first, Zero
<1>50. i \in Nat /\ Len(d) \in Nat /\ 1 <= i /\ i <= Len(d)
  <2>1. Len(d) \in Nat /\ i \in 1..Len(d)
    BY <1>1, <1>5
  <2>2. QED
    BY <2>1
<1>6. s \in Seq(Nat) /\ Len(s) = Len(d) - (i - 1) /\ \A k \in 1..Len(s) : s[k] = d[(i - 1) + k]
  <2>1. /\ i \in 1..(Len(d) + 1) /\ Len(d) \in (i - 1)..Len(d) /\ Len(d) - i + 1 = Len(d) - (i - 1)
    BY <1>50
  <2>2. /\ s \in Seq(Nat) /\ Len(s) = IF i <= Len(d) THEN Len(d) - i + 1 ELSE 0
        /\ \A k \in 1..(Len(d) - i + 1) : s[k] = d[i + k - 1]
    BY <1>1, <2>1, SubSeqProperties
  <2>3. i <= Len(d) /\ \A k \in Nat : i + k - 1 = (i - 1) + k
    BY <1>5
  <2>4. Len(s) = Len(d) - i + 1
    BY <2>2, <2>3
  <2>5. \A k \in 1..Len(s) : k \in Nat /\ k \in 1..(Len(d) - i + 1)
    BY <1>50, <2>4
  <2>6. \A k \in 1..Len(s) : s[k] = d[(i - 1) + k]
    BY <2>2, <2>3, <2>5
  <2>7. QED
    BY <2>1, <2>2, <2>4, <2>6
<1> HIDE DEF s
<1>7. f[i - 1] = 0
  <2> DEFINE N == {k \in Nat : k < i => f[k] = 0}
  <2>1. 0 \in N
    BY DEF Counts
  <2>2. ASSUME NEW k \in Nat, k \in N PROVE k + 1 \in N
    <3> SUFFICES ASSUME k + 1 < i PROVE f[k + 1] = 0
      OBVIOUS
    <3>1. k + 1 \in 1..Len(d) /\ (k + 1) - 1 = k /\ k < i
      BY <1>50
    <3>2. f[k] = 0 /\ d[k + 1] = 48
      BY <1>5, <2>2, <3>1
    <3>3. f[k + 1] = 10 * f[k] + (d[k + 1] - 48)
      BY <3>1 DEF Counts, Zero
    <3>4. QED
      BY <3>2, <3>3
  <2> HIDE DEF N
  <2>3. i - 1 \in Nat /\ i - 1 < i
    BY <1>50
  <2>4. i - 1 \in N
    BY <2>1, <2>2, <2>3, Induct
  <2>5. QED
    BY <2>3, <2>4 DEF N
<1>8. i < Len(d) => f[i] > 0
  <2> SUFFICES ASSUME i < Len(d) PROVE f[i] > 0
    OBVIOUS
  <2>1. d[i] # 48
    BY <1>1, <1>4, <1>5 DEF first, Zero
  <2>2. f[i] = 10 * f[i - 1] + (d[i] - 48)
    BY <1>5 DEF Counts, Zero
  <2>3. d[i] \in 48..57
    BY <1>1, <1>5
  <2>4. QED
    BY <1>7, <2>1, <2>2, <2>3
<1>9. Bare(d, f, i)
  BY <1>3, <1>5, <1>6, <1>7, <1>8 DEF Bare
<1>10. QED
  BY <1>9

\* More digits that count: the larger number.
LEMMA MoreDigits ==
    ASSUME NEW a \in Number, NEW b \in Number, Len(Stripped(a)) > Len(Stripped(b))
    PROVE  Value(a) > Value(b)
<1>1. PICK f : Counts(f, a) /\ Value(a) = f[Len(a)]
  BY Counting
<1>2. PICK h : Counts(h, b) /\ Value(b) = h[Len(b)]
  BY Counting
<1>3. PICK i : Bare(a, f, i)
  BY <1>1, Zeros
<1>4. PICK j : Bare(b, h, j)
  BY <1>2, Zeros
<1>5. /\ Len(a) \in Nat /\ Len(b) \in Nat /\ i \in 1..Len(a) /\ j \in 1..Len(b)
      /\ Len(a) - (i - 1) > Len(b) - (j - 1)
  BY <1>3, <1>4, NumberTyped DEF Bare
<1> DEFINE x == Len(a) - (Len(b) - (j - 1))
<1>6. x \in i..Len(a) /\ x \in 0..Len(a) /\ i < Len(a) /\ j - 1 \in 0..Len(b)
      /\ Len(a) - x = Len(b) - (j - 1)
  BY <1>5
<1> HIDE DEF x
<1>7. f[x] > 0
  <2> DEFINE N == {m \in Nat : i + m <= Len(a) => f[i + m] > 0}
  <2>1. 0 \in N
    <3>1. i + 0 = i
      BY <1>5
    <3>2. QED
      BY <1>3, <1>6, <3>1 DEF Bare
  <2>2. ASSUME NEW m \in Nat, m \in N PROVE m + 1 \in N
    <3> SUFFICES ASSUME i + (m + 1) <= Len(a) PROVE f[i + (m + 1)] > 0
      OBVIOUS
    <3>1. PICK n \in 1..Len(a) : n = i + (m + 1)
      BY <1>5
    <3>2. n - 1 = i + m /\ i + m <= Len(a) /\ n \in 0..Len(a) /\ n - 1 \in 0..Len(a)
      BY <1>5, <3>1
    <3>3. f[n - 1] > 0
      BY <2>2, <3>2
    <3>4. f[n] = 10 * f[n - 1] + (a[n] - 48) /\ f[n - 1] \in Nat
      BY <1>1, <3>2 DEF Counts, Zero
    <3>5. a[n] \in 48..57
      BY NumberTyped
    <3>6. PICK p \in Nat, c \in 48..57 : p = f[n - 1] /\ c = a[n]
      BY <3>4, <3>5
    <3>7. p > 0 => 10 * p + (c - 48) > 0
      OBVIOUS
    <3>8. f[n] > 0
      BY <3>3, <3>4, <3>6, <3>7
    <3>9. QED
      BY <3>1, <3>8
  <2> HIDE DEF N
  <2>3. x - i \in Nat /\ i + (x - i) = x /\ x <= Len(a)
    BY <1>5, <1>6
  <2>4. x - i \in N
    BY <2>1, <2>2, <2>3, Induct
  <2>5. QED
    BY <2>3, <2>4 DEF N
<1>8. h[j - 1] = 0
  BY <1>4 DEF Bare
<1>9. f[Len(a)] > h[Len(b)]
  BY <1>1, <1>2, <1>6, <1>7, <1>8, Ahead
<1>10. QED
  BY <1>1, <1>2, <1>9

\* The same digits that count, up to the m-th: then the larger digit decides.
LEMMA SameDigits ==
    ASSUME NEW a \in Number, NEW b \in Number, Len(Stripped(a)) = Len(Stripped(b)),
           NEW m \in 1..(Len(Stripped(a)) + 1),
           \A k \in 1..(m - 1) : Stripped(a)[k] = Stripped(b)[k]
    PROVE  /\ m = Len(Stripped(a)) + 1 => Value(a) = Value(b)
           /\ m <= Len(Stripped(a)) /\ Stripped(a)[m] > Stripped(b)[m] => Value(a) > Value(b)
<1>1. PICK f : Counts(f, a) /\ Value(a) = f[Len(a)]
  BY Counting
<1>2. PICK h : Counts(h, b) /\ Value(b) = h[Len(b)]
  BY Counting
<1>3. PICK i : Bare(a, f, i)
  BY <1>1, Zeros
<1>4. PICK j : Bare(b, h, j)
  BY <1>2, Zeros
<1> DEFINE L == Len(Stripped(a))
<1>5. /\ Len(a) \in Nat /\ Len(b) \in Nat /\ i \in 1..Len(a) /\ j \in 1..Len(b)
      /\ L = Len(a) - (i - 1) /\ L = Len(b) - (j - 1)
      /\ \A k \in 1..L : Stripped(a)[k] = a[(i - 1) + k] /\ Stripped(b)[k] = b[(j - 1) + k]
      /\ f[i - 1] = 0 /\ h[j - 1] = 0
  BY <1>3, <1>4, NumberTyped DEF Bare
<1> HIDE DEF L
<1>6. m \in 1..(L + 1) /\ \A k \in 1..(m - 1) : Stripped(a)[k] = Stripped(b)[k]
  BY DEF L
<1>7. L \in Nat
  BY <1>5
<1>70. /\ L \in Nat /\ Len(a) \in Nat /\ Len(b) \in Nat /\ i \in 1..Len(a) /\ j \in 1..Len(b)
       /\ L = Len(a) - (i - 1) /\ L = Len(b) - (j - 1) /\ m \in 1..(L + 1)
  BY <1>5, <1>6, <1>7
<1>71. /\ i - 1 \in 0..Len(a) /\ j - 1 \in 0..Len(b) /\ i - 1 \in Nat /\ j - 1 \in Nat
       /\ m - 1 \in Nat /\ m - 1 <= L /\ m >= 1 /\ (m - 1) + 1 = m
       /\ (i - 1) + (m - 1) <= Len(a) /\ (j - 1) + (m - 1) <= Len(b)
       /\ (i - 1) + L = Len(a) /\ (j - 1) + L = Len(b)
       /\ \A k \in 1..(m - 1) : k \in 1..L
  <2>1. OffsetBy(Len(a), Len(b), i, j, L, m)
    BY <1>70, Offset
  <2>2. QED
    BY <2>1 DEF OffsetBy
<1> DEFINE x == i - 1  y == j - 1  n == m - 1
<1>8. /\ x \in 0..Len(a) /\ y \in 0..Len(b) /\ n \in Nat /\ n <= L
      /\ x + n <= Len(a) /\ y + n <= Len(b) /\ x + L = Len(a) /\ y + L = Len(b)
      /\ \A k \in 1..n : k \in 1..L
  BY <1>71
<1>9. f[x] = h[y] /\ \A k \in 1..L : Stripped(a)[k] = a[x + k] /\ Stripped(b)[k] = b[y + k]
  BY <1>5
<1>10. \A k \in 1..n : Stripped(a)[k] = Stripped(b)[k]
  BY <1>6
<1>11. n + 1 = m
  BY <1>71
<1>110. /\ L \in Nat /\ Len(a) \in Nat /\ Len(b) \in Nat /\ x \in Nat /\ y \in Nat /\ n \in Nat
        /\ m \in Nat /\ m >= 1 /\ x + L = Len(a) /\ y + L = Len(b) /\ n + 1 = m
  BY <1>70, <1>71
<1> HIDE DEF x, y, n
<1>12. \A k \in 1..n : a[x + k] = b[y + k]
  BY <1>8, <1>9, <1>10
<1>13. f[x + n] = h[y + n]
  <2>1. /\ x \in 0..Len(a) /\ y \in 0..Len(b) /\ f[x] = h[y] /\ n \in Nat
        /\ x + n <= Len(a) /\ y + n <= Len(b)
    BY <1>8, <1>9
  <2>2. Counts(f, a) /\ Counts(h, b)
    BY <1>1, <1>2
  <2>3. SameBehind(a, x, b, y, n)
    BY <1>12 DEF SameBehind
  <2>4. QED
    BY <2>1, <2>2, <2>3, Level
<1>14. m = L + 1 => Value(a) = Value(b)
  <2> SUFFICES ASSUME m = L + 1 PROVE Value(a) = Value(b)
    OBVIOUS
  <2>1. n = L
    BY <1>7, <1>8, <1>11
  <2>2. QED
    BY <1>1, <1>2, <1>8, <1>13, <2>1
<1>15. m <= L /\ Stripped(a)[m] > Stripped(b)[m] => Value(a) > Value(b)
  <2> SUFFICES ASSUME m <= L, Stripped(a)[m] > Stripped(b)[m] PROVE Value(a) > Value(b)
    OBVIOUS
  <2>1. m \in 1..L
    BY <1>6, <1>7
  <2> DEFINE u == x + m  w == y + m
  <2>2. a[u] > b[w]
    BY <1>9, <2>1
  <2>3. /\ u \in 1..Len(a) /\ w \in 1..Len(b) /\ u - 1 = x + n /\ w - 1 = y + n
        /\ u \in 0..Len(a) /\ w \in 0..Len(b) /\ Len(a) - u = Len(b) - w
    <3>1. m <= L
      BY <2>1
    <3>2. QED
      BY <1>110, <3>1
  <2> HIDE DEF u, w
  <2>4. f[u] > h[w]
    BY <1>1, <1>2, <1>13, <2>2, <2>3, OneMore
  <2>5. f[Len(a)] > h[Len(b)]
    BY <1>1, <1>2, <2>3, <2>4, Ahead
  <2>6. QED
    BY <1>1, <1>2, <2>5
<1>16. QED
  BY <1>14, <1>15 DEF L

LEMMA ValueTyped == ASSUME NEW d \in Number PROVE Value(d) \in Nat
<1>1. PICK f : Counts(f, d) /\ Value(d) = f[Len(d)]
  BY Counting
<1>2. Len(d) \in 0..Len(d)
  BY NumberTyped
<1>3. QED
  BY <1>1, <1>2 DEF Counts

\* Numbers count by their value.
LEMMA NumericByValue ==
    ASSUME NEW a \in Number, NEW b \in Number PROVE CmpNumeric(a, b) = Sign(Value(a) - Value(b))
<1> DEFINE s == Stripped(a)  t == Stripped(b)  m == Value(a)  n == Value(b)
    D == {k \in DOMAIN s \cap DOMAIN t : CmpCode(s[k], t[k]) # 0}
<1>1. m \in Nat /\ n \in Nat
  BY ValueTyped
<1>2. /\ s \in Seq(Nat) /\ t \in Seq(Nat) /\ Len(s) \in Nat /\ Len(t) \in Nat
      /\ DOMAIN s = 1..Len(s) /\ DOMAIN t = 1..Len(t)
      /\ (\A k \in 1..Len(s) : s[k] \in Nat) /\ (\A k \in 1..Len(t) : t[k] \in Nat)
  <2>1. s \in Seq(Nat) /\ t \in Seq(Nat)
    BY NumberTyped, StrippedTyped
  <2> HIDE DEF s, t
  <2>2. QED
    BY <2>1, LenProperties, ElementOfSeq
<1>3. CmpNumeric(a, b) = IF Len(s) # Len(t) THEN Sign(Len(s) - Len(t))
                         ELSE IF D = {} THEN Sign(Len(s) - Len(t)) ELSE CmpCode(s[Min(D)], t[Min(D)])
  BY DEF CmpNumeric, Lexicographic
<1>4. Len(s) > Len(t) => m > n
  BY MoreDigits
<1>5. Len(t) > Len(s) => n > m
  BY MoreDigits
<1>6. ASSUME Len(s) = Len(t), NEW k \in 1..(Len(s) + 1), \A l \in 1..(k - 1) : s[l] = t[l]
      PROVE  /\ k = Len(s) + 1 => m = n
             /\ k <= Len(s) /\ s[k] > t[k] => m > n
             /\ k <= Len(s) /\ t[k] > s[k] => n > m
  BY <1>6, SameDigits
<1> HIDE DEF s, t, m, n
<1>7. CASE Len(s) # Len(t)
  <2>1. CmpNumeric(a, b) = Sign(Len(s) - Len(t))
    BY <1>3, <1>7
  <2>2. CASE Len(s) > Len(t)
    <3>1. m > n
      BY <1>4, <2>2
    <3>2. Sign(Len(s) - Len(t)) = 1 /\ Sign(m - n) = 1
      BY <1>1, <1>2, <2>2, <3>1 DEF Sign
    <3>3. QED
      BY <2>1, <3>2 DEF m, n
  <2>3. CASE Len(t) > Len(s)
    <3>1. n > m
      BY <1>5, <2>3
    <3>2. Sign(Len(s) - Len(t)) = -1 /\ Sign(m - n) = -1
      BY <1>1, <1>2, <2>3, <3>1 DEF Sign
    <3>3. QED
      BY <2>1, <3>2 DEF m, n
  <2>4. Len(s) > Len(t) \/ Len(t) > Len(s)
    <3>1. \A x, y \in Nat : x # y => x > y \/ y > x
      OBVIOUS
    <3>2. QED
      BY <1>2, <1>7, <3>1
  <2>5. QED
    BY <2>2, <2>3, <2>4
<1>8. CASE Len(s) = Len(t) /\ D = {}
  <2>1. \A k \in 1..Len(s) : s[k] = t[k]
    <3> SUFFICES ASSUME NEW k \in 1..Len(s) PROVE s[k] = t[k]
      OBVIOUS
    <3>1. CmpCode(s[k], t[k]) = 0
      BY <1>2, <1>8
    <3>2. s[k] \in Nat /\ t[k] \in Nat
      BY <1>2, <1>8
    <3>3. QED
      BY <3>1, <3>2 DEF CmpCode, Sign
  <2>2. Len(s) + 1 \in 1..(Len(s) + 1) /\ (Len(s) + 1) - 1 = Len(s)
    BY <1>2
  <2>3. m = n
    BY <1>6, <1>8, <2>1, <2>2
  <2>4. Sign(m - n) = 0 /\ Sign(Len(s) - Len(t)) = 0
    BY <1>1, <1>2, <1>8, <2>3 DEF Sign
  <2>5. QED
    BY <1>3, <1>8, <2>4 DEF m, n
<1>9. CASE Len(s) = Len(t) /\ D # {}
  <2> DEFINE k == Min(D)
  <2>1. k \in D /\ \A l \in D : k <= l
    <3>1. D \subseteq Nat
      BY <1>2
    <3> HIDE DEF D
    <3>2. QED
      BY <1>9, <3>1, Least
  <2> HIDE DEF k
  <2>2. k \in 1..Len(s) /\ k \in DOMAIN s /\ k \in DOMAIN t /\ CmpCode(s[k], t[k]) # 0
    BY <1>2, <2>1
  <2>3. \A l \in 1..(k - 1) : s[l] = t[l]
    <3> SUFFICES ASSUME NEW l \in 1..(k - 1) PROVE s[l] = t[l]
      OBVIOUS
    <3>1. l \in 1..Len(s) /\ ~(k <= l)
      BY <1>2, <2>2
    <3>2. CmpCode(s[l], t[l]) = 0
      BY <1>2, <1>9, <2>1, <3>1
    <3>3. s[l] \in Nat /\ t[l] \in Nat
      BY <1>2, <1>9, <3>1
    <3>4. QED
      BY <3>2, <3>3 DEF CmpCode, Sign
  <2>4. k \in 1..(Len(s) + 1) /\ k <= Len(s)
    BY <1>2, <2>2
  <2>5. (s[k] > t[k] => m > n) /\ (t[k] > s[k] => n > m)
    BY <1>6, <1>9, <2>3, <2>4
  <2>6. s[k] \in Nat /\ t[k] \in Nat
    BY <1>2, <1>9, <2>2
  <2>7. CmpCode(s[k], t[k]) = Sign(m - n)
    <3>1. CASE s[k] > t[k]
      <4>1. m > n
        BY <2>5, <3>1
      <4>2. QED
        BY <1>1, <2>6, <3>1, <4>1 DEF CmpCode, Sign
    <3>2. CASE t[k] > s[k]
      <4>1. n > m
        BY <2>5, <3>2
      <4>2. QED
        BY <1>1, <2>6, <3>2, <4>1 DEF CmpCode, Sign
    <3>3. s[k] # t[k]
      BY <2>2, <2>6 DEF CmpCode, Sign
    <3>4. QED
      BY <2>6, <3>1, <3>2, <3>3
  <2>8. CmpNumeric(a, b) = CmpCode(s[k], t[k])
    BY <1>3, <1>9 DEF k
  <2>9. QED
    BY <2>7, <2>8 DEF m, n
<1>10. QED
  BY <1>7, <1>8, <1>9

\* A text of digits is one segment.
LEMMA OneSegment == ASSUME NEW d \in Number PROVE Segments(d) = <<d>>
<1> DEFINE N == {n \in Nat : n >= 1 /\ n <= Len(d) => \E s \in Seq(Nat) :
                        /\ Len(s) = n /\ \A k \in 1..n : s[k] = d[k]
                        /\ \A f : Splits(f, d) => f[n] = <<s>>}
<1>1. /\ d \in Seq(Nat) /\ Len(d) \in Nat /\ Len(d) >= 1 /\ DOMAIN d = 1..Len(d)
      /\ \A k \in 1..Len(d) : d[k] \in 48..57
  BY NumberTyped DEF Segment
<1>2. \A k \in 1..Len(d) : Class(d[k]) = "number" /\ d[k] \in Nat
  BY <1>1 DEF Class, IsDigit
<1>3. 0 \in N
  OBVIOUS
<1>4. ASSUME NEW n \in Nat, n \in N PROVE n + 1 \in N
  <2> SUFFICES ASSUME n + 1 <= Len(d)
               PROVE  \E s \in Seq(Nat) : /\ Len(s) = n + 1 /\ \A k \in 1..(n + 1) : s[k] = d[k]
                                          /\ \A f : Splits(f, d) => f[n + 1] = <<s>>
    OBVIOUS
  <2>1. n + 1 \in 1..Len(d) /\ (n + 1) - 1 = n /\ n <= Len(d)
    BY <1>1
  <2>2. d[n + 1] \in Nat /\ Class(d[n + 1]) = "number"
    BY <1>2, <2>1
  <2>3. \A f : Splits(f, d) => f[n + 1] = Continue(f[n], d, n + 1) /\ f[0] = <<>>
    BY <2>1 DEF Splits
  <2>4. CASE n = 0
    <3> DEFINE s == <<d[1]>>
    <3>1. s \in Seq(Nat) /\ Len(s) = n + 1 /\ \A k \in 1..(n + 1) : s[k] = d[k]
      BY <2>2, <2>4
    <3>2. ASSUME NEW f, Splits(f, d) PROVE f[n + 1] = <<s>>
      <4>1. f[n + 1] = Continue(<<>>, d, n + 1)
        BY <2>3, <2>4, <3>2
      <4>2. Continue(<<>>, d, n + 1) = Append(<<>>, <<d[n + 1]>>)
        BY <2>2, <2>4 DEF Continue
      <4>3. Append(<<>>, <<d[n + 1]>>) = <<s>>
        BY <2>4
      <4>4. QED
        BY <4>1, <4>2, <4>3
    <3> HIDE DEF s
    <3>3. QED
      BY <3>1, <3>2
  <2>5. CASE n >= 1
    <3>1. PICK s \in Seq(Nat) : /\ Len(s) = n /\ \A k \in 1..n : s[k] = d[k]
                                /\ \A f : Splits(f, d) => f[n] = <<s>>
      BY <1>4, <2>1, <2>5
    <3>2. PICK t \in Seq(Nat) : t = Append(s, d[n + 1])
      BY <2>2, AppendProperties
    <3>3. Len(t) = n + 1 /\ \A k \in 1..(n + 1) : t[k] = d[k]
      <4>1. Len(t) = n + 1 /\ t[n + 1] = d[n + 1] /\ \A k \in 1..n : t[k] = s[k]
        BY <2>2, <3>1, <3>2, AppendProperties
      <4>2. \A k \in 1..(n + 1) : k = n + 1 \/ k \in 1..n
        OBVIOUS
      <4>3. QED
        BY <3>1, <4>1, <4>2
    <3>4. ASSUME NEW f, Splits(f, d) PROVE f[n + 1] = <<t>>
      <4>1. f[n] = <<s>> /\ f[n + 1] = Continue(f[n], d, n + 1)
        BY <2>3, <3>1, <3>4
      <4>2. n \in 1..Len(d) /\ n + 1 > 1
        BY <2>1, <2>5
      <4>3. Class(d[(n + 1) - 1]) = Class(d[n + 1])
        BY <1>2, <2>1, <2>2, <4>2
      <4>4. Continue(<<s>>, d, n + 1) = [<<s>> EXCEPT ![1] = Append(s, d[n + 1])]
        BY <2>2, <4>2, <4>3 DEF Continue
      <4>5. \A x : [<<s>> EXCEPT ![1] = x] = <<x>>
        OBVIOUS
      <4>6. QED
        BY <3>2, <4>1, <4>4, <4>5
    <3>5. QED
      BY <3>3, <3>4
  <2>6. n = 0 \/ n >= 1
    OBVIOUS
  <2>7. QED
    BY <2>4, <2>5, <2>6
<1> HIDE DEF N
<1>5. Len(d) \in N
  BY <1>1, <1>3, <1>4, Induct
<1>6. Len(d) <= Len(d)
  BY <1>1
<1>7. PICK s \in Seq(Nat) : /\ Len(s) = Len(d) /\ \A k \in 1..Len(d) : s[k] = d[k]
                            /\ \A f : Splits(f, d) => f[Len(d)] = <<s>>
  BY <1>1, <1>5, <1>6 DEF N
<1>8. s = d
  BY <1>1, <1>7, SeqEqual
<1>9. PICK f : Splits(f, d) /\ Segments(d) = f[Len(d)]
  BY <1>1, Splitting
<1>10. QED
  BY <1>7, <1>8, <1>9

LEMMA NumbersCompared ==
    ASSUME NEW a \in Number, NEW b \in Number PROVE AverCompare(a, b) = Sign(Value(a) - Value(b))
<1> DEFINE s == <<a>>  t == <<b>>
    D == {k \in DOMAIN s \cap DOMAIN t : CmpSegment(s[k], t[k]) # 0}
<1>1. Segments(a) = s /\ Segments(b) = t
  BY OneSegment
<1>2. AverCompare(a, b) = IF D = {} THEN Sign(Len(s) - Len(t)) ELSE CmpSegment(s[Min(D)], t[Min(D)])
  BY <1>1 DEF AverCompare, Lexicographic
<1>3. CmpSegment(a, b) = CmpNumeric(a, b)
  <2>1. 1 \in 1..Len(a) /\ 1 \in 1..Len(b)
    BY NumberTyped
  <2>2. a[1] \in 48..57 /\ b[1] \in 48..57
    BY <2>1, NumberTyped
  <2>3. Class(a[1]) = "number" /\ Class(b[1]) = "number"
    BY <2>2 DEF Class, IsDigit
  <2>4. QED
    BY <2>3 DEF CmpSegment
<1>4. DOMAIN s = {1} /\ DOMAIN t = {1} /\ s[1] = a /\ t[1] = b /\ Len(s) = 1 /\ Len(t) = 1
  OBVIOUS
<1> HIDE DEF s, t
<1>5. CASE CmpSegment(a, b) = 0
  <2>1. D = {}
    BY <1>4, <1>5
  <2>2. Sign(Len(s) - Len(t)) = 0
    BY <1>4 DEF Sign
  <2>3. QED
    BY <1>2, <1>3, <1>5, <2>1, <2>2, NumericByValue
<1>6. CASE CmpSegment(a, b) # 0
  <2>1. D = {1}
    BY <1>4, <1>6
  <2>2. Min(D) = 1
    BY <2>1, MinIs
  <2>3. QED
    BY <1>2, <1>3, <1>4, <2>1, <2>2, NumericByValue
<1>7. QED
  BY <1>5, <1>6

-----------------------------------------------------------------------------
(***************************************************************************)
(* A version that goes on after a separator.                               *)
(***************************************************************************)
AppendsBehind(s, t, c) == Append(s \o t, c) = s \o Append(t, c)

LEMMA ConcatAppend ==
    ASSUME NEW S, NEW s \in Seq(S), NEW t \in Seq(S), NEW c \in S
    PROVE  AppendsBehind(s, t, c)
<1> DEFINE u == s \o t  v == Append(t, c)
<1>1. /\ u \in Seq(S) /\ Len(u) = Len(s) + Len(t)
      /\ \A i \in 1..Len(u) : u[i] = IF i <= Len(s) THEN s[i] ELSE t[i - Len(s)]
  BY ConcatProperties
<1>2. /\ v \in Seq(S) /\ Len(v) = Len(t) + 1 /\ v[Len(t) + 1] = c
      /\ \A i \in 1..Len(t) : v[i] = t[i]
  BY AppendProperties
<1> HIDE DEF u, v
<1> DEFINE x == Append(u, c)  y == s \o v
<1>3. /\ x \in Seq(S) /\ Len(x) = Len(u) + 1 /\ x[Len(u) + 1] = c
      /\ \A i \in 1..Len(u) : x[i] = u[i]
  <2>1. PICK w \in Seq(S) : w = u
    BY <1>1
  <2>2. /\ Append(w, c) \in Seq(S) /\ Len(Append(w, c)) = Len(w) + 1 /\ Append(w, c)[Len(w) + 1] = c
        /\ \A i \in 1..Len(w) : Append(w, c)[i] = w[i]
    BY AppendProperties
  <2>3. QED
    BY <2>1, <2>2
<1>4. /\ y \in Seq(S) /\ Len(y) = Len(s) + Len(v)
      /\ \A i \in 1..Len(y) : y[i] = IF i <= Len(s) THEN s[i] ELSE v[i - Len(s)]
  <2>1. PICK w \in Seq(S) : w = v
    BY <1>2
  <2>2. /\ s \o w \in Seq(S) /\ Len(s \o w) = Len(s) + Len(w)
        /\ \A i \in 1..Len(s \o w) : (s \o w)[i] = IF i <= Len(s) THEN s[i] ELSE w[i - Len(s)]
    BY ConcatProperties
  <2>3. QED
    BY <2>1, <2>2
<1> HIDE DEF x, y
<1>5. PICK p \in Nat, q \in Nat : p = Len(s) /\ q = Len(t)
  BY LenProperties
<1>6. Len(x) = (p + q) + 1 /\ Len(y) = p + (q + 1) /\ Len(u) = p + q
  BY <1>1, <1>2, <1>3, <1>4, <1>5
<1>7. Len(x) = Len(y)
  BY <1>6
<1>8. ASSUME NEW i \in 1..((p + q) + 1) PROVE x[i] = y[i]
  <2>1. i \in 1..Len(y)
    BY <1>6
  <2>2. CASE i = (p + q) + 1
    <3>1. x[i] = c
      BY <1>3, <1>6, <2>2
    <3>2. ~(i <= p) /\ i - p = q + 1
      BY <2>2
    <3>3. y[i] = v[q + 1]
      BY <1>4, <1>5, <2>1, <3>2
    <3>4. QED
      BY <1>2, <1>5, <3>1, <3>3
  <2>3. CASE i \in 1..(p + q)
    <3>1. x[i] = IF i <= p THEN s[i] ELSE t[i - p]
      BY <1>1, <1>3, <1>5, <1>6, <2>3
    <3>2. y[i] = IF i <= p THEN s[i] ELSE v[i - p]
      BY <1>4, <1>5, <2>1
    <3>3. ~(i <= p) => i - p \in 1..q
      BY <2>3
    <3>4. QED
      BY <1>2, <1>5, <3>1, <3>2, <3>3
  <2>4. i = (p + q) + 1 \/ i \in 1..(p + q)
    OBVIOUS
  <2>5. QED
    BY <2>2, <2>3, <2>4
<1>9. x = y
  BY <1>3, <1>4, <1>6, <1>7, <1>8, SeqEqual
<1>10. QED
  BY <1>9 DEF AppendsBehind, u, v, x, y

LEMMA ConcatLast ==
    ASSUME NEW S, NEW s \in Seq(S), NEW t \in Seq(S), t # <<>>, NEW c \in S
    PROVE  /\ (s \o t)[Len(s \o t)] = t[Len(t)]
           /\ [s \o t EXCEPT ![Len(s \o t)] = c] = s \o [t EXCEPT ![Len(t)] = c]
<1> DEFINE u == s \o t  v == [t EXCEPT ![Len(t)] = c]
<1>1. /\ u \in Seq(S) /\ Len(u) = Len(s) + Len(t)
      /\ \A i \in 1..Len(u) : u[i] = IF i <= Len(s) THEN s[i] ELSE t[i - Len(s)]
  BY ConcatProperties
<1>2. PICK p \in Nat, q \in Nat : p = Len(s) /\ q = Len(t) /\ q # 0
  BY LenProperties, EmptySeq
<1>3. q \in 1..Len(t)
  BY <1>2
<1>4. v \in Seq(S) /\ Len(v) = q /\ \A i \in 1..q : v[i] = IF i = q THEN c ELSE t[i]
  BY <1>2, <1>3, ExceptSeq
<1> HIDE DEF u, v
<1>5. Len(u) = p + q /\ p + q \in 1..Len(u)
  BY <1>1, <1>2
<1> DEFINE x == [u EXCEPT ![Len(u)] = c]  y == s \o v
<1>6. x \in Seq(S) /\ Len(x) = p + q /\ \A i \in 1..(p + q) : x[i] = IF i = p + q THEN c ELSE u[i]
  BY <1>1, <1>5, ExceptSeq
<1>7. /\ y \in Seq(S) /\ Len(y) = p + q
      /\ \A i \in 1..(p + q) : y[i] = IF i <= p THEN s[i] ELSE v[i - p]
  <2>1. PICK w \in Seq(S) : w = v
    BY <1>4
  <2>2. /\ s \o w \in Seq(S) /\ Len(s \o w) = Len(s) + Len(w)
        /\ \A i \in 1..Len(s \o w) : (s \o w)[i] = IF i <= Len(s) THEN s[i] ELSE w[i - Len(s)]
    BY ConcatProperties
  <2>3. QED
    BY <1>2, <1>4, <2>1, <2>2
<1> HIDE DEF x, y
<1>8. ASSUME NEW i \in 1..(p + q) PROVE x[i] = y[i]
  <2>1. /\ x[i] = (IF i = p + q THEN c ELSE u[i])
        /\ y[i] = (IF i <= p THEN s[i] ELSE v[i - p])
    BY <1>6, <1>7
  <2>2. u[i] = IF i <= p THEN s[i] ELSE t[i - p]
    BY <1>1, <1>2, <1>5
  <2>3. CASE i <= p
    <3>1. i # p + q
      BY <1>2, <2>3
    <3>2. QED
      BY <2>1, <2>2, <2>3, <3>1
  <2>4. CASE ~(i <= p)
    <3>1. i - p \in 1..q /\ (i - p = q <=> i = p + q)
      BY <2>4
    <3>2. v[i - p] = IF i = p + q THEN c ELSE t[i - p]
      BY <1>4, <3>1
    <3>3. QED
      BY <2>1, <2>2, <2>4, <3>2
  <2>5. QED
    BY <2>3, <2>4
<1>9. x = y
  BY <1>6, <1>7, <1>8, SeqEqual
<1>10. u[Len(u)] = t[Len(t)]
  <2>1. ~(p + q <= p) /\ (p + q) - p = q
    BY <1>2
  <2>2. QED
    BY <1>1, <1>2, <1>5, <2>1
<1>11. QED
  BY <1>9, <1>10 DEF u, v, x, y

LEMMA DashSeparates == Class(Dash) = "separator" /\ Class(Space) = "separator"
<1>1. ~IsDigit(45) /\ ~IsAlpha(45) /\ ~IsDigit(32) /\ ~IsAlpha(32)
  BY DEF IsDigit, IsAlpha
<1>2. QED
  BY <1>1 DEF Class, Dash, Space

\* u is s and t behind it.
Joins(u, s, t) ==
    /\ Len(u) = Len(s) + Len(t)
    /\ \A i \in 1..(Len(s) + Len(t)) : u[i] = IF i <= Len(s) THEN s[i] ELSE t[i - Len(s)]

LEMMA Both ==
    ASSUME NEW S, NEW s \in Seq(S), NEW t \in Seq(S)
    PROVE  s \o t \in Seq(S) /\ Joins(s \o t, s, t)
<1>1. /\ s \o t \in Seq(S) /\ Len(s \o t) = Len(s) + Len(t)
      /\ \A i \in 1..Len(s \o t) : (s \o t)[i] = IF i <= Len(s) THEN s[i] ELSE t[i - Len(s)]
  BY ConcatProperties
<1>2. QED
  BY <1>1 DEF Joins

\* v is a, a dash and b.
GoneOn(v, a, b) ==
    /\ Len(v) = (Len(a) + 1) + Len(b)
    /\ \A k \in 1..Len(a) : v[k] = a[k]
    /\ v[Len(a) + 1] = Dash
    /\ \A k \in 1..Len(b) : v[(Len(a) + 1) + k] = b[k]

LEMMA GoesOn ==
    ASSUME NEW a \in Seq(Nat), NEW b \in Seq(Nat)
    PROVE  a \o <<Dash>> \o b \in Seq(Nat) /\ GoneOn(a \o <<Dash>> \o b, a, b)
<1>1. PICK p \in Nat, q \in Nat : p = Len(a) /\ q = Len(b)
  BY LenProperties
<1>2. PICK d \in Seq(Nat) : d = <<Dash>> /\ Len(d) = 1 /\ d[1] = Dash
  <2>1. Dash \in Nat
    BY DEF Dash
  <2>2. <<Dash>> \in Seq(Nat) /\ Len(<<Dash>>) = 1 /\ <<Dash>>[1] = Dash
    BY <2>1
  <2>3. QED
    BY <2>2
<1>3. PICK u \in Seq(Nat) : /\ u = a \o d /\ Len(u) = p + 1
                            /\ \A i \in 1..(p + 1) : u[i] = IF i <= p THEN a[i] ELSE d[i - p]
  <2>1. a \o d \in Seq(Nat) /\ Joins(a \o d, a, d)
    BY <1>2, Both
  <2>2. QED
    BY <1>1, <1>2, <2>1 DEF Joins
<1>4. PICK v \in Seq(Nat) : /\ v = u \o b /\ Len(v) = (p + 1) + q
                            /\ \A i \in 1..((p + 1) + q) : v[i] = IF i <= p + 1 THEN u[i] ELSE b[i - (p + 1)]
  <2>1. u \o b \in Seq(Nat) /\ Joins(u \o b, u, b)
    BY <1>3, Both
  <2>2. Len(u) = p + 1
    BY <1>3
  <2>3. QED
    <3>1. PICK w \in Seq(Nat) : w = u \o b /\ Joins(w, u, b)
      BY <2>1
    <3>2. Len(w) = (p + 1) + q /\ \A i \in 1..((p + 1) + q) : w[i] = IF i <= p + 1 THEN u[i] ELSE b[i - (p + 1)]
      BY <1>1, <2>2, <3>1 DEF Joins
    <3>3. QED
      BY <3>1, <3>2
<1>5. ASSUME NEW k \in 1..p PROVE v[k] = a[k]
  <2>1. k \in 1..((p + 1) + q) /\ k <= p + 1 /\ k \in 1..(p + 1) /\ k <= p
    OBVIOUS
  <2>2. QED
    BY <1>3, <1>4, <2>1
<1>6. v[p + 1] = Dash
  <2>1. p + 1 \in 1..((p + 1) + q) /\ p + 1 <= p + 1 /\ p + 1 \in 1..(p + 1) /\ ~(p + 1 <= p) /\ (p + 1) - p = 1
    OBVIOUS
  <2>2. QED
    BY <1>2, <1>3, <1>4, <2>1
<1>7. ASSUME NEW k \in 1..q PROVE v[(p + 1) + k] = b[k]
  <2>1. (p + 1) + k \in 1..((p + 1) + q) /\ ~((p + 1) + k <= p + 1) /\ ((p + 1) + k) - (p + 1) = k
    OBVIOUS
  <2>2. QED
    BY <1>4, <2>1
<1>8. v = a \o <<Dash>> \o b
  BY <1>2, <1>3, <1>4
<1>9. GoneOn(v, a, b)
  BY <1>1, <1>4, <1>5, <1>6, <1>7 DEF GoneOn
<1>10. QED
  BY <1>4, <1>8, <1>9

LEMMA SegmentsGoOn ==
    ASSUME NEW a \in Seq(Nat), NEW b \in Seq(Nat)
    PROVE  Segments(a \o <<Dash>> \o b) = Segments(a) \o Segments(b)
<1>1. PICK p \in Nat, q \in Nat : p = Len(a) /\ q = Len(b)
  BY LenProperties
<1>2. PICK v \in Seq(Nat) :
          /\ v = a \o <<Dash>> \o b /\ Len(v) = (p + 1) + q
          /\ \A k \in 1..p : v[k] = a[k]
          /\ v[p + 1] = Dash
          /\ \A k \in 1..q : v[(p + 1) + k] = b[k]
  <2>1. PICK v \in Seq(Nat) : v = a \o <<Dash>> \o b /\ GoneOn(v, a, b)
    BY GoesOn
  <2>2. QED
    BY <1>1, <2>1 DEF GoneOn
<1>3. PICK f : Splits(f, v) /\ Segments(v) = f[Len(v)]
  BY Splitting
<1>4. PICK g : Splits(g, a) /\ Segments(a) = g[Len(a)]
  BY Splitting
<1>5. PICK h : Splits(h, b) /\ Segments(b) = h[Len(b)]
  BY Splitting
<1>6. /\ f[0] = <<>> /\ g[0] = <<>> /\ h[0] = <<>>
      /\ \A n \in 1..((p + 1) + q) : f[n] = Continue(f[n - 1], v, n)
      /\ \A n \in 1..p : g[n] = Continue(g[n - 1], a, n)
      /\ \A n \in 1..q : h[n] = Continue(h[n - 1], b, n)
      /\ \A n \in 1..q : n > 1 /\ Class(b[n - 1]) # "separator" => h[n - 1] # <<>>
      /\ \A n \in 0..p : g[n] \in Seq(Segment)
      /\ \A n \in 0..q : h[n] \in Seq(Segment)
  BY <1>1, <1>2, <1>3, <1>4, <1>5 DEF Splits
<1>7. f[p] = g[p]
  <2> DEFINE N == {n \in Nat : n <= p => f[n] = g[n]}
  <2>1. 0 \in N
    BY <1>6
  <2>2. ASSUME NEW n \in Nat, n \in N PROVE n + 1 \in N
    <3> SUFFICES ASSUME n + 1 <= p PROVE f[n + 1] = g[n + 1]
      OBVIOUS
    <3>1. n + 1 \in 1..p /\ n + 1 \in 1..((p + 1) + q) /\ (n + 1) - 1 = n /\ n <= p
      OBVIOUS
    <3>2. f[n] = g[n] /\ v[n + 1] = a[n + 1]
      BY <1>2, <2>2, <3>1
    <3>3. f[n + 1] = Continue(f[n], v, n + 1) /\ g[n + 1] = Continue(g[n], a, n + 1)
      BY <1>6, <3>1
    <3>4. n + 1 > 1 => n \in 1..p
      BY <3>1
    <3>5. n + 1 > 1 => v[(n + 1) - 1] = a[(n + 1) - 1]
      BY <1>2, <3>1, <3>4
    <3>6. Continue(f[n], v, n + 1) = Continue(g[n], a, n + 1)
      BY <3>2, <3>5 DEF Continue
    <3>7. QED
      BY <3>3, <3>6
  <2> HIDE DEF N
  <2>3. Nat \subseteq N
    BY <2>1, <2>2, Induct
  <2>4. p \in N /\ p <= p
    BY <2>3
  <2>5. QED
    BY <2>4 DEF N
<1>8. f[p + 1] = g[p]
  <2>1. p + 1 \in 1..((p + 1) + q) /\ (p + 1) - 1 = p
    OBVIOUS
  <2>2. f[p + 1] = Continue(f[p], v, p + 1)
    BY <1>6, <2>1
  <2>3. Class(v[p + 1]) = "separator"
    BY <1>2, DashSeparates
  <2>4. QED
    BY <1>7, <2>2, <2>3 DEF Continue
<1> DEFINE s == g[p]
<1>9. s \in Seq(Segment)
  BY <1>6
<1> HIDE DEF s
<1>12. \A t \in Seq(Segment), c \in Segment : AppendsBehind(s, t, c)
  BY <1>9, ConcatAppend
<1>10. f[(p + 1) + q] = s \o h[q]
  <2> DEFINE N == {n \in Nat : n <= q => f[(p + 1) + n] = s \o h[n]}
  <2>1. 0 \in N
    <3>1. (p + 1) + 0 = p + 1
      OBVIOUS
    <3>2. s \o <<>> = s
      BY <1>9
    <3>3. QED
      BY <1>6, <1>8, <3>1, <3>2 DEF s
  <2>2. ASSUME NEW n \in Nat, n \in N PROVE n + 1 \in N
    <3> SUFFICES ASSUME n + 1 <= q PROVE f[(p + 1) + (n + 1)] = s \o h[n + 1]
      OBVIOUS
    <3>1. PICK m \in Nat : m = (p + 1) + (n + 1)
      OBVIOUS
    <3>2. /\ n + 1 \in 1..q /\ n \in 0..q /\ n + 1 \in 0..q /\ m \in 1..((p + 1) + q) /\ m > 1
          /\ (n + 1) - 1 = n /\ m - 1 = (p + 1) + n /\ n <= q
      BY <3>1
    <3>3. f[m - 1] = s \o h[n] /\ v[m] = b[n + 1]
      BY <1>2, <2>2, <3>1, <3>2
    <3>4. f[m] = Continue(f[m - 1], v, m) /\ h[n + 1] = Continue(h[n], b, n + 1)
      BY <1>6, <3>2
    <3>5. PICK t \in Seq(Segment) : t = h[n]
      BY <1>6, <3>2
    <3>6. b[n + 1] \in Nat
      BY <1>1, <3>2, ElementOfSeq
    <3>7. CASE Class(b[n + 1]) = "separator"
      BY <3>1, <3>3, <3>4, <3>7 DEF Continue
    <3>8. CASE Class(b[n + 1]) # "separator" /\ n + 1 > 1 /\ Class(b[n]) = Class(b[n + 1])
      <4>1. n \in 1..q
        BY <3>2, <3>8
      <4>2. v[m - 1] = b[n]
        BY <1>2, <3>2, <4>1
      <4>3. t # <<>>
        BY <1>6, <3>2, <3>5, <3>8
      <4> DEFINE u == s \o t
      <4>4. f[m] = [u EXCEPT ![Len(u)] = Append(u[Len(u)], b[n + 1])]
        BY <3>2, <3>3, <3>4, <3>5, <3>8, <4>2 DEF Continue
      <4>5. h[n + 1] = [t EXCEPT ![Len(t)] = Append(t[Len(t)], b[n + 1])]
        BY <3>2, <3>4, <3>5, <3>8 DEF Continue
      <4>6. t[Len(t)] \in Segment
        <5>1. Len(t) \in Nat /\ Len(t) # 0
          BY <4>3, LenProperties, EmptySeq
        <5>2. Len(t) \in 1..Len(t)
          BY <5>1
        <5>3. QED
          BY <5>2, ElementOfSeq
      <4>7. PICK c \in Segment : c = Append(t[Len(t)], b[n + 1])
        <5>1. t[Len(t)] \in Seq(Nat)
          BY <4>6 DEF Segment
        <5>2. Append(t[Len(t)], b[n + 1]) \in Segment
          BY <3>6, <5>1, Longer DEF Segment
        <5>3. QED
          BY <5>2
      <4>8. u[Len(u)] = t[Len(t)] /\ [u EXCEPT ![Len(u)] = c] = s \o [t EXCEPT ![Len(t)] = c]
        BY <1>9, <4>3, ConcatLast
      <4> HIDE DEF u
      <4>9. QED
        BY <3>1, <4>4, <4>5, <4>7, <4>8
    <3>9. CASE Class(b[n + 1]) # "separator" /\ ~(n + 1 > 1 /\ Class(b[n]) = Class(b[n + 1]))
      <4>1. Class(v[m - 1]) # Class(b[n + 1])
        <5>1. CASE n = 0
          <6>1. m - 1 = p + 1
            BY <3>2, <5>1
          <6>2. Class(v[m - 1]) = "separator"
            BY <1>2, <6>1, DashSeparates
          <6>3. QED
            BY <3>9, <6>2
        <5>2. CASE n # 0
          <6>1. n \in 1..q /\ n + 1 > 1
            BY <3>2, <5>2
          <6>2. v[m - 1] = b[n]
            BY <1>2, <3>2, <6>1
          <6>3. QED
            BY <3>9, <6>1, <6>2
        <5>3. QED
          BY <5>1, <5>2
      <4>2. f[m] = Append(s \o t, <<b[n + 1]>>)
        BY <3>3, <3>4, <3>5, <3>9, <4>1 DEF Continue
      <4>3. h[n + 1] = Append(t, <<b[n + 1]>>)
        BY <3>2, <3>4, <3>5, <3>9 DEF Continue
      <4>4. PICK c \in Segment : c = <<b[n + 1]>>
        <5>1. <<b[n + 1]>> \in Segment
          BY <3>6 DEF Segment
        <5>2. QED
          BY <5>1
      <4>5. Append(s \o t, c) = s \o Append(t, c)
        BY <1>12, <3>5, <4>4 DEF AppendsBehind
      <4>6. QED
        BY <3>1, <4>2, <4>3, <4>4, <4>5
    <3>10. QED
      BY <3>7, <3>8, <3>9
  <2> HIDE DEF N
  <2>3. Nat \subseteq N
    BY <2>1, <2>2, Induct
  <2>4. q \in N /\ q <= q
    BY <2>3
  <2>5. QED
    BY <2>4 DEF N
<1>11. QED
  BY <1>1, <1>2, <1>3, <1>4, <1>5, <1>10 DEF s

\* Of two versions of which one goes on, the longer is newer.
LEMMA MoreIsNewer ==
    ASSUME NEW a \in Seq(Nat), NEW b \in Seq(Nat)
    PROVE  AverCompare(a \o <<Dash>> \o b, a) = IF Segments(b) = <<>> THEN 0 ELSE 1
<1>1. PICK s \in Seq(Segment), t \in Seq(Segment) : s = Segments(a) /\ t = Segments(b)
  BY SegmentsTyped
<1>2. PICK p \in Nat, q \in Nat : p = Len(s) /\ q = Len(t) /\ DOMAIN s = 1..p
  BY LenProperties
<1>3. PICK u \in Seq(Segment) :
          /\ u = s \o t /\ Len(u) = p + q
          /\ \A i \in 1..(p + q) : u[i] = IF i <= p THEN s[i] ELSE t[i - p]
  <2>1. s \o t \in Seq(Segment) /\ Joins(s \o t, s, t)
    BY <1>1, Both
  <2>2. QED
    BY <1>2, <2>1 DEF Joins
<1> DEFINE D == {k \in DOMAIN u \cap DOMAIN s : CmpSegment(u[k], s[k]) # 0}
<1>4. AverCompare(a \o <<Dash>> \o b, a) =
          IF D = {} THEN Sign(Len(u) - Len(s)) ELSE CmpSegment(u[Min(D)], s[Min(D)])
  BY <1>1, <1>3, SegmentsGoOn DEF AverCompare, Lexicographic
<1>5. D = {}
  <2> SUFFICES ASSUME NEW k \in DOMAIN u \cap DOMAIN s PROVE CmpSegment(u[k], s[k]) = 0
    OBVIOUS
  <2>1. k \in 1..p /\ k \in 1..(p + q) /\ k <= p
    BY <1>2
  <2>2. u[k] = s[k] /\ s[k] \in Segment
    BY <1>2, <1>3, <2>1, ElementOfSeq
  <2>3. PICK c \in Segment : c = s[k]
    BY <2>2
  <2>4. BySegment[<<c, c>>] = CmpSegment(c, c)
    BY DEF BySegment
  <2>5. Opposed(BySegment[<<c, c>>], BySegment[<<c, c>>])
    BY SegmentsOrdered DEF Preorder
  <2>6. BySegment[<<c, c>>] = 0
    BY <2>5 DEF Opposed
  <2>7. QED
    BY <2>2, <2>3, <2>4, <2>6
<1>6. AverCompare(a \o <<Dash>> \o b, a) = Sign(Len(u) - Len(s))
  BY <1>4, <1>5
<1>7. Sign((p + q) - p) = IF q = 0 THEN 0 ELSE 1
  BY DEF Sign
<1>8. q = 0 <=> t = <<>>
  BY <1>2, EmptySeq
<1>9. QED
  BY <1>1, <1>2, <1>3, <1>6, <1>7, <1>8

-----------------------------------------------------------------------------
(***************************************************************************)
(* The case of letters and the kind of separators.                         *)
(***************************************************************************)
Each(F, s) == [k \in DOMAIN s |-> F[s[k]]]

IsEach(u, F, s) == Len(u) = Len(s) /\ \A k \in 1..Len(s) : u[k] = F[s[k]]

LEMMA EachTyped == ASSUME NEW S, NEW T, NEW F \in [S -> T], NEW s \in Seq(S)
                   PROVE  Each(F, s) \in Seq(T) /\ IsEach(Each(F, s), F, s)
<1>1. PICK n \in Nat : n = Len(s) /\ DOMAIN s = 1..n /\ \A k \in 1..n : s[k] \in S
  BY LenProperties, ElementOfSeq
<1>2. Each(F, s) = [k \in 1..n |-> F[s[k]]]
  BY <1>1 DEF Each
<1>3. Each(F, s) \in [1..n -> T]
  BY <1>1, <1>2
<1>4. Each(F, s) \in Seq(T) /\ Len(Each(F, s)) = n
  BY <1>3, Mapped
<1>5. QED
  BY <1>1, <1>2, <1>4 DEF IsEach

EachAppends(F, s, c) == Each(F, Append(s, c)) = Append(Each(F, s), F[c])

LEMMA EachAppended == ASSUME NEW S, NEW T, NEW F \in [S -> T], NEW s \in Seq(S), NEW c \in S
                      PROVE  EachAppends(F, s, c)
<1> DEFINE x == Each(F, Append(s, c))  y == Append(Each(F, s), F[c])
<1>1. PICK n \in Nat : n = Len(s)
  BY LenProperties
<1>2. PICK t \in Seq(S) : t = Append(s, c) /\ Len(t) = n + 1 /\ t[n + 1] = c /\ \A k \in 1..n : t[k] = s[k]
  <2>1. /\ Append(s, c) \in Seq(S) /\ Len(Append(s, c)) = Len(s) + 1 /\ Append(s, c)[Len(s) + 1] = c
        /\ \A k \in 1..Len(s) : Append(s, c)[k] = s[k]
    BY AppendProperties
  <2>2. QED
    BY <1>1, <2>1
<1>3. PICK u \in Seq(T) : u = Each(F, s) /\ Len(u) = n /\ \A k \in 1..n : u[k] = F[s[k]]
  <2>1. Each(F, s) \in Seq(T) /\ IsEach(Each(F, s), F, s)
    BY EachTyped
  <2>2. QED
    BY <1>1, <2>1 DEF IsEach
<1>4. x \in Seq(T) /\ Len(x) = n + 1 /\ \A k \in 1..(n + 1) : x[k] = F[t[k]]
  <2>1. Each(F, t) \in Seq(T) /\ IsEach(Each(F, t), F, t)
    BY <1>2, EachTyped
  <2>2. Len(t) = n + 1
    BY <1>2
  <2>3. Each(F, t) \in Seq(T) /\ Len(Each(F, t)) = n + 1 /\ \A k \in 1..(n + 1) : Each(F, t)[k] = F[t[k]]
    BY <2>1, <2>2 DEF IsEach
  <2>4. QED
    BY <1>2, <2>3
<1>5. F[c] \in T
  OBVIOUS
<1>6. y \in Seq(T) /\ Len(y) = n + 1 /\ y[n + 1] = F[c] /\ \A k \in 1..n : y[k] = u[k]
  BY <1>3, <1>5, AppendProperties
<1> HIDE DEF x, y
<1>7. \A k \in 1..(n + 1) : k = n + 1 \/ k \in 1..n
  OBVIOUS
<1>8. ASSUME NEW k \in 1..(n + 1) PROVE x[k] = y[k]
  <2>1. x[k] = F[t[k]]
    BY <1>4
  <2>2. CASE k = n + 1
    BY <1>2, <1>6, <2>1, <2>2
  <2>3. CASE k \in 1..n
    <3>1. y[k] = u[k] /\ u[k] = F[s[k]] /\ t[k] = s[k]
      BY <1>2, <1>3, <1>6, <2>3
    <3>2. QED
      BY <2>1, <3>1
  <2>4. QED
    BY <1>7, <2>2, <2>3
<1>9. x = y
  <2>1. \A k \in 1..Len(x) : x[k] = y[k]
    BY <1>4, <1>8
  <2>2. QED
    BY <1>4, <1>6, <2>1, SeqEqual
<1>10. QED
  BY <1>9 DEF EachAppends, x, y

EachReplaces(F, s, n, c) == Each(F, [s EXCEPT ![n] = c]) = [Each(F, s) EXCEPT ![n] = F[c]]

LEMMA EachReplaced == ASSUME NEW S, NEW T, NEW F \in [S -> T], NEW s \in Seq(S), NEW n \in 1..Len(s), NEW c \in S
                      PROVE  EachReplaces(F, s, n, c)
<1> DEFINE t == [s EXCEPT ![n] = c]
<1>1. DOMAIN t = DOMAIN s /\ \A k \in DOMAIN s : t[k] = IF k = n THEN c ELSE s[k]
  <2>1. n \in DOMAIN s
    BY LenProperties
  <2>2. QED
    BY <2>1
<1> HIDE DEF t
<1>2. Each(F, t) = [k \in DOMAIN s |-> IF k = n THEN F[c] ELSE F[s[k]]]
  BY <1>1 DEF Each
<1>3. [Each(F, s) EXCEPT ![n] = F[c]] = [k \in DOMAIN s |-> IF k = n THEN F[c] ELSE F[s[k]]]
  BY DEF Each
<1>4. QED
  BY <1>2, <1>3 DEF EachReplaces, t

FoldChar    == [c \in Nat |-> Fold(c)]
FoldSegment == [s \in Segment |-> Each(FoldChar, s)]
PlainText(v) == [k \in DOMAIN v |-> IF Class(v[k]) = "separator" THEN Space ELSE Fold(v[k])]

LEMMA FoldedClass ==
    \A c \in Nat : /\ Fold(c) \in Nat /\ Class(Fold(c)) = Class(c) /\ Fold(Fold(c)) = Fold(c)
                   /\ Class(c) = "number" => Fold(c) = c
<1> SUFFICES ASSUME NEW c \in Nat
             PROVE  /\ Fold(c) \in Nat /\ Class(Fold(c)) = Class(c) /\ Fold(Fold(c)) = Fold(c)
                    /\ Class(c) = "number" => Fold(c) = c
  OBVIOUS
<1>1. CASE c \in 65..90
  <2>1. Fold(c) = c + 32
    BY <1>1 DEF Fold
  <2>2. /\ c + 32 \in 97..122 /\ c + 32 \notin 48..57 /\ c \notin 48..57 /\ c + 32 \notin 65..90 /\ c + 32 \in Nat
    BY <1>1
  <2>3. Class(c) = "text" /\ Class(c + 32) = "text"
    BY <1>1, <2>2 DEF Class, IsDigit, IsAlpha
  <2>4. Fold(c + 32) = c + 32
    BY <2>2 DEF Fold
  <2>5. QED
    BY <2>1, <2>2, <2>3, <2>4
<1>2. CASE c \notin 65..90
  <2>1. Fold(c) = c
    BY <1>2 DEF Fold
  <2>2. QED
    BY <2>1
<1>3. QED
  BY <1>1, <1>2

LEMMA FoldTyped ==
    /\ FoldChar \in [Nat -> Nat] /\ FoldSegment \in [Segment -> Segment]
    /\ \A s \in Segment : /\ Len(FoldSegment[s]) = Len(s)
                          /\ \A k \in 1..Len(s) : FoldSegment[s][k] = Fold(s[k])
<1>1. FoldChar \in [Nat -> Nat]
  BY FoldedClass DEF FoldChar
<1>2. ASSUME NEW s \in Segment
      PROVE  /\ FoldSegment[s] \in Segment /\ Len(FoldSegment[s]) = Len(s)
             /\ \A k \in 1..Len(s) : FoldSegment[s][k] = Fold(s[k])
  <2>1. PICK t \in Seq(Nat) : t = s /\ t # <<>>
    BY DEF Segment
  <2>2. /\ Each(FoldChar, t) \in Seq(Nat) /\ Len(Each(FoldChar, t)) = Len(t)
        /\ \A k \in 1..Len(t) : Each(FoldChar, t)[k] = FoldChar[t[k]]
    <3>1. Each(FoldChar, t) \in Seq(Nat) /\ IsEach(Each(FoldChar, t), FoldChar, t)
      BY <1>1, <2>1, EachTyped
    <3>2. QED
      BY <3>1 DEF IsEach
  <2>3. Len(t) # 0
    BY <2>1, EmptySeq
  <2>4. Each(FoldChar, t) # <<>>
    BY <2>2, <2>3, EmptySeq
  <2>5. FoldSegment[s] = Each(FoldChar, t)
    BY <2>1 DEF FoldSegment
  <2>6. \A k \in 1..Len(t) : t[k] \in Nat
    BY <2>1, ElementOfSeq
  <2>7. \A k \in 1..Len(t) : FoldChar[t[k]] = Fold(t[k])
    BY <2>6 DEF FoldChar
  <2>8. Each(FoldChar, t) \in Segment
    BY <2>2, <2>4 DEF Segment
  <2>9. QED
    BY <2>1, <2>2, <2>5, <2>7, <2>8
<1>3. FoldSegment \in [Segment -> Segment]
  <2>1. FoldSegment = [s \in Segment |-> FoldSegment[s]]
    BY DEF FoldSegment
  <2>2. QED
    BY <1>2, <2>1
<1>4. QED
  BY <1>1, <1>2, <1>3

LEMMA PlainTyped ==
    ASSUME NEW v \in Seq(Nat)
    PROVE  /\ PlainText(v) \in Seq(Nat) /\ Len(PlainText(v)) = Len(v)
           /\ \A k \in 1..Len(v) :
                 /\ Class(PlainText(v)[k]) = Class(v[k])
                 /\ Class(v[k]) # "separator" => PlainText(v)[k] = Fold(v[k])
<1>1. PICK n \in Nat : n = Len(v) /\ DOMAIN v = 1..n /\ \A k \in 1..n : v[k] \in Nat
  BY LenProperties, ElementOfSeq
<1> DEFINE p == PlainText(v)
<1>2. \A k \in 1..n : p[k] = IF Class(v[k]) = "separator" THEN Space ELSE Fold(v[k])
  BY <1>1 DEF PlainText
<1>3. p = [k \in 1..n |-> p[k]]
  BY <1>1 DEF PlainText
<1> HIDE DEF p
<1>4. ASSUME NEW k \in 1..n
      PROVE  /\ p[k] \in Nat /\ Class(p[k]) = Class(v[k])
             /\ Class(v[k]) # "separator" => p[k] = Fold(v[k])
  <2>1. Space \in Nat
    BY DEF Space
  <2>2. v[k] \in Nat
    BY <1>1
  <2>3. QED
    BY <1>2, <2>1, <2>2, DashSeparates, FoldedClass
<1>5. p \in [1..n -> Nat]
  BY <1>3, <1>4
<1>6. p \in Seq(Nat) /\ Len(p) = n
  BY <1>5, Mapped
<1>7. QED
  BY <1>1, <1>4, <1>6 DEF p

\* A segment changes its case with its text, and with it all others.
LEMMA PlainSegments == ASSUME NEW v \in Seq(Nat)
                       PROVE  Segments(PlainText(v)) = Each(FoldSegment, Segments(v))
<1>1. PICK N \in Nat : N = Len(v) /\ \A k \in 1..N : v[k] \in Nat
  BY LenProperties, ElementOfSeq
<1>2. PICK p \in Seq(Nat) :
          /\ p = PlainText(v) /\ Len(p) = N
          /\ \A k \in 1..N : Class(p[k]) = Class(v[k]) /\ (Class(v[k]) # "separator" => p[k] = Fold(v[k]))
  BY <1>1, PlainTyped
<1>3. PICK f : Splits(f, v) /\ Segments(v) = f[Len(v)]
  BY Splitting
<1>4. PICK g : Splits(g, p) /\ Segments(p) = g[Len(p)]
  BY <1>2, Splitting
<1>5. /\ f[0] = <<>> /\ g[0] = <<>>
      /\ \A n \in 1..N : f[n] = Continue(f[n - 1], v, n) /\ g[n] = Continue(g[n - 1], p, n)
      /\ \A n \in 1..N : n > 1 /\ Class(v[n - 1]) # "separator" => f[n - 1] # <<>>
      /\ \A n \in 0..N : f[n] \in Seq(Segment)
  BY <1>1, <1>2, <1>3, <1>4 DEF Splits
<1> DEFINE M == {n \in Nat : n <= N => g[n] = Each(FoldSegment, f[n])}
<1>6. 0 \in M
  <2>1. Each(FoldSegment, <<>>) = <<>>
    BY DEF Each
  <2>2. QED
    BY <1>5, <2>1
<1>7. ASSUME NEW n \in Nat, n \in M PROVE n + 1 \in M
  <2> SUFFICES ASSUME n + 1 <= N PROVE g[n + 1] = Each(FoldSegment, f[n + 1])
    OBVIOUS
  <2>1. n + 1 \in 1..N /\ n \in 0..N /\ (n + 1) - 1 = n /\ n <= N /\ (n + 1 > 1 => n \in 1..N)
    OBVIOUS
  <2>2. PICK t \in Seq(Segment) : t = f[n]
    BY <1>5, <2>1
  <2>3. PICK u \in Seq(Segment) : u = g[n] /\ u = Each(FoldSegment, t) /\ IsEach(u, FoldSegment, t)
    <3>1. g[n] = Each(FoldSegment, t)
      BY <1>7, <2>1, <2>2
    <3>2. Each(FoldSegment, t) \in Seq(Segment) /\ IsEach(Each(FoldSegment, t), FoldSegment, t)
      BY <2>2, FoldTyped, EachTyped
    <3>3. QED
      BY <3>1, <3>2
  <2>4. PICK c \in Nat, d \in Nat : c = v[n + 1] /\ d = p[n + 1]
    <3>1. p[n + 1] \in Nat
      BY <1>2, <2>1, ElementOfSeq
    <3>2. QED
      BY <1>1, <2>1, <3>1
  <2>5. Class(d) = Class(c) /\ (Class(c) # "separator" => d = Fold(c))
    BY <1>2, <2>1, <2>4
  <2>6. n + 1 > 1 => Class(p[n]) = Class(v[n])
    BY <1>2, <2>1
  <2>7. f[n + 1] = Continue(t, v, n + 1) /\ g[n + 1] = Continue(u, p, n + 1)
    BY <1>5, <2>1, <2>2, <2>3
  <2>8. CASE Class(c) = "separator"
    <3>1. f[n + 1] = t /\ g[n + 1] = u
      BY <2>4, <2>5, <2>7, <2>8 DEF Continue
    <3>2. QED
      BY <2>3, <3>1
  <2>9. CASE Class(c) # "separator" /\ n + 1 > 1 /\ Class(v[n]) = Class(c)
    <3>1. t # <<>>
      BY <1>5, <2>1, <2>2, <2>9
    <3>2. Len(t) \in Nat /\ Len(t) # 0
      BY <2>2, <3>1, LenProperties, EmptySeq
    <3>3. Len(t) \in 1..Len(t)
      BY <3>2
    <3>4. PICK x \in Segment : x = t[Len(t)]
      BY <2>2, <3>3, ElementOfSeq
    <3>5. u[Len(u)] = FoldSegment[x] /\ Len(u) = Len(t)
      BY <2>3, <3>3, <3>4 DEF IsEach
    <3>6. x \in Seq(Nat)
      BY DEF Segment
    <3>7. PICK y \in Segment : y = Append(x, c)
      <4>1. Append(x, c) \in Segment
        BY <3>6, Longer DEF Segment
      <4>2. QED
        BY <4>1
    <3>8. FoldSegment[y] = Append(FoldSegment[x], d)
      <4>1. EachAppends(FoldChar, x, c)
        BY <3>6, FoldTyped, EachAppended
      <4>2. FoldChar[c] = d
        BY <2>5, <2>9 DEF FoldChar
      <4>3. FoldSegment[y] = Each(FoldChar, y) /\ FoldSegment[x] = Each(FoldChar, x)
        BY DEF FoldSegment
      <4>4. QED
        BY <3>7, <4>1, <4>2, <4>3 DEF EachAppends
    <3>9. f[n + 1] = [t EXCEPT ![Len(t)] = y]
      BY <2>1, <2>4, <2>7, <2>9, <3>4, <3>7 DEF Continue
    <3>10. g[n + 1] = [u EXCEPT ![Len(t)] = FoldSegment[y]]
      BY <2>1, <2>4, <2>5, <2>6, <2>7, <2>9, <3>5, <3>8 DEF Continue
    <3>11. EachReplaces(FoldSegment, t, Len(t), y)
      BY <2>2, <3>3, FoldTyped, EachReplaced
    <3>12. QED
      BY <2>3, <3>9, <3>10, <3>11 DEF EachReplaces
  <2>10. CASE Class(c) # "separator" /\ ~(n + 1 > 1 /\ Class(v[n]) = Class(c))
    <3>1. PICK x \in Segment : x = <<c>> /\ Len(x) = 1 /\ x[1] = c
      <4>1. <<c>> \in Segment /\ Len(<<c>>) = 1 /\ <<c>>[1] = c
        BY <2>4 DEF Segment
      <4>2. QED
        BY <4>1
    <3>2. FoldSegment[x] = <<d>>
      <4>1. FoldSegment[x] = [k \in DOMAIN x |-> FoldChar[x[k]]]
        BY DEF FoldSegment, Each
      <4>2. DOMAIN x = {1}
        BY <3>1
      <4>3. FoldChar[c] = d
        BY <2>5, <2>10 DEF FoldChar
      <4>4. FoldSegment[x] = [k \in {1} |-> d]
        BY <3>1, <4>1, <4>2, <4>3
      <4>5. QED
        BY <4>4
    <3>3. f[n + 1] = Append(t, x)
      BY <2>1, <2>4, <2>7, <2>10, <3>1 DEF Continue
    <3>4. g[n + 1] = Append(u, FoldSegment[x])
      BY <2>1, <2>4, <2>5, <2>6, <2>7, <2>10, <3>2 DEF Continue
    <3>5. EachAppends(FoldSegment, t, x)
      BY <2>2, FoldTyped, EachAppended
    <3>6. QED
      BY <2>3, <3>3, <3>4, <3>5 DEF EachAppends
  <2>11. QED
    BY <2>8, <2>9, <2>10
<1> HIDE DEF M
<1>8. Nat \subseteq M
  BY <1>6, <1>7, Induct
<1>9. N \in M /\ N <= N
  BY <1>8
<1>10. QED
  BY <1>1, <1>2, <1>3, <1>4, <1>9 DEF M

\* The characters of a segment are of one kind.
Pure == {s \in Segment : \A j \in 1..Len(s) : Class(s[j]) = Class(s[1])}

LEMMA PureGrows == ASSUME NEW s \in Pure, NEW c \in Nat, Class(c) = Class(s[1])
                   PROVE  Append(s, c) \in Pure /\ Append(s, c)[1] = s[1]
<1>1. PICK n \in Nat : n = Len(s) /\ n # 0
  BY LenProperties, EmptySeq DEF Pure, Segment
<1>2. s \in Seq(Nat)
  BY DEF Pure, Segment
<1>3. PICK t \in Seq(Nat) : t = Append(s, c) /\ Len(t) = n + 1 /\ t[n + 1] = c /\ \A k \in 1..n : t[k] = s[k]
  <2>1. /\ Append(s, c) \in Seq(Nat) /\ Len(Append(s, c)) = Len(s) + 1 /\ Append(s, c)[Len(s) + 1] = c
        /\ \A k \in 1..Len(s) : Append(s, c)[k] = s[k]
    BY <1>2, AppendProperties
  <2>2. QED
    BY <1>1, <2>1
<1>4. t \in Segment
  BY <1>3, EmptySeq DEF Segment
<1>5. 1 \in 1..n /\ \A k \in 1..(n + 1) : k = n + 1 \/ k \in 1..n
  BY <1>1
<1>6. t[1] = s[1]
  BY <1>3, <1>5
<1>7. \A k \in 1..n : Class(s[k]) = Class(s[1])
  BY <1>1 DEF Pure
<1>8. \A k \in 1..(n + 1) : Class(t[k]) = Class(t[1])
  BY <1>3, <1>5, <1>6, <1>7
<1>9. QED
  BY <1>3, <1>4, <1>6, <1>8 DEF Pure

LEMMA SegmentsPure == ASSUME NEW v \in Seq(Nat) PROVE Segments(v) \in Seq(Pure)
<1>1. PICK N \in Nat : N = Len(v) /\ \A k \in 1..N : v[k] \in Nat
  BY LenProperties, ElementOfSeq
<1>2. PICK f : Splits(f, v) /\ Segments(v) = f[Len(v)]
  BY Splitting
<1> DEFINE Fine(k) == /\ f[k] \in Seq(Pure)
                      /\ k > 0 /\ Class(v[k]) # "separator" =>
                            f[k] # <<>> /\ Class(f[k][Len(f[k])][1]) = Class(v[k])
    M == {k \in Nat : k <= N => Fine(k)}
<1>3. 0 \in M
  <2>1. f[0] = <<>>
    BY <1>2 DEF Splits
  <2>2. f[0] \in Seq(Pure) /\ ~(0 > 0)
    BY <2>1, EmptySeq
  <2>3. Fine(0)
    BY <2>2
  <2> HIDE DEF Fine
  <2>4. QED
    BY <2>3
<1>4. ASSUME NEW n \in Nat, n \in M PROVE n + 1 \in M
  <2> SUFFICES ASSUME n + 1 <= N PROVE Fine(n + 1)
    OBVIOUS
  <2>1. n + 1 \in 1..N /\ (n + 1) - 1 = n /\ n <= N /\ (n + 1 > 1 => n > 0)
    OBVIOUS
  <2>2. PICK t \in Seq(Pure) : t = f[n] /\ (n > 0 /\ Class(v[n]) # "separator" =>
                                                t # <<>> /\ Class(t[Len(t)][1]) = Class(v[n]))
    BY <1>4, <2>1
  <2>3. PICK c \in Nat : c = v[n + 1]
    BY <1>1, <2>1
  <2>4. f[n + 1] = Continue(t, v, n + 1)
    BY <1>1, <1>2, <2>1, <2>2 DEF Splits
  <2>5. CASE Class(c) = "separator"
    <3>1. f[n + 1] = t
      BY <2>3, <2>4, <2>5 DEF Continue
    <3>2. QED
      BY <2>2, <2>3, <2>5, <3>1
  <2>6. CASE Class(c) # "separator" /\ n + 1 > 1 /\ Class(v[n]) = Class(c)
    <3>1. t # <<>> /\ Class(t[Len(t)][1]) = Class(c)
      BY <2>1, <2>2, <2>6
    <3>2. Len(t) \in Nat /\ Len(t) # 0
      BY <2>2, <3>1, LenProperties, EmptySeq
    <3>3. Len(t) \in 1..Len(t)
      BY <3>2
    <3>4. PICK x \in Pure : x = t[Len(t)]
      BY <2>2, <3>3, ElementOfSeq
    <3>5. PICK y \in Pure : y = Append(x, c) /\ y[1] = x[1]
      BY <3>1, <3>4, PureGrows
    <3>6. f[n + 1] = [t EXCEPT ![Len(t)] = y]
      BY <2>1, <2>3, <2>4, <2>6, <3>4, <3>5 DEF Continue
    <3>7. PICK m \in 1..Len(t) : m = Len(t)
      BY <3>3
    <3>8. /\ [t EXCEPT ![m] = y] \in Seq(Pure) /\ Len([t EXCEPT ![m] = y]) = Len(t)
          /\ \A i \in 1..Len(t) : [t EXCEPT ![m] = y][i] = IF i = m THEN y ELSE t[i]
      BY <2>2, <3>7, ExceptSeq
    <3>9. PICK z \in Seq(Pure) : z = f[n + 1] /\ Len(z) = m /\ z[m] = y
      BY <3>6, <3>7, <3>8
    <3>10. z # <<>> /\ Class(z[Len(z)][1]) = Class(c)
      BY <3>1, <3>2, <3>4, <3>5, <3>7, <3>9, EmptySeq
    <3>11. QED
      BY <2>3, <3>9, <3>10
  <2>7. CASE Class(c) # "separator" /\ ~(n + 1 > 1 /\ Class(v[n]) = Class(c))
    <3>1. PICK x \in Pure : x = <<c>> /\ x[1] = c
      <4>1. <<c>> \in Segment /\ Len(<<c>>) = 1 /\ <<c>>[1] = c
        BY <2>3 DEF Segment
      <4>2. <<c>> \in Pure
        BY <4>1 DEF Pure
      <4>3. QED
        BY <4>1, <4>2
    <3>2. f[n + 1] = Append(t, x)
      BY <2>1, <2>3, <2>4, <2>7, <3>1 DEF Continue
    <3>3. /\ Append(t, x) \in Seq(Pure) /\ Append(t, x) # <<>> /\ Len(Append(t, x)) = Len(t) + 1
          /\ Append(t, x)[Len(t) + 1] = x
      BY <2>2, <3>1, AppendProperties
    <3>4. PICK z \in Seq(Pure) : z = f[n + 1] /\ z # <<>> /\ z[Len(z)] = x
      BY <3>2, <3>3
    <3>5. QED
      BY <2>3, <3>1, <3>4
  <2>8. QED
    BY <2>5, <2>6, <2>7
<1> HIDE DEF M
<1>5. Nat \subseteq M
  BY <1>3, <1>4, Induct
<1>6. N \in M /\ N <= N
  BY <1>5
<1>7. Fine(N)
  BY <1>6 DEF M
<1>8. QED
  BY <1>1, <1>2, <1>7

LexSame(F, g, h, s, t) == Lex(h, Each(F, s), Each(F, t)) = Lex(g, s, t)
Carries(F, g, h, S) == \A x, y \in S : h[<<F[x], F[y]>>] = g[<<x, y>>]

LEMMA LexEach ==
    ASSUME NEW S, NEW T, NEW F \in [S -> T], NEW g, NEW h, NEW s \in Seq(S), NEW t \in Seq(S),
           Carries(F, g, h, S)
    PROVE  LexSame(F, g, h, s, t)
<1>1. PICK u \in Seq(T) : u = Each(F, s) /\ IsEach(u, F, s)
  BY EachTyped
<1>2. PICK w \in Seq(T) : w = Each(F, t) /\ IsEach(w, F, t)
  BY EachTyped
<1>3. /\ DOMAIN s = 1..Len(s) /\ DOMAIN t = 1..Len(t) /\ DOMAIN u = 1..Len(s) /\ DOMAIN w = 1..Len(t)
      /\ Len(u) = Len(s) /\ Len(w) = Len(t) /\ Len(s) \in Nat /\ Len(t) \in Nat
  BY <1>1, <1>2, LenProperties DEF IsEach
<1> DEFINE D == {k \in DOMAIN s \cap DOMAIN t : g[<<s[k], t[k]>>] # 0}
    E == {k \in DOMAIN u \cap DOMAIN w : h[<<u[k], w[k]>>] # 0}
<1>4. ASSUME NEW k \in DOMAIN s \cap DOMAIN t PROVE h[<<u[k], w[k]>>] = g[<<s[k], t[k]>>]
  <2>1. u[k] = F[s[k]] /\ w[k] = F[t[k]] /\ s[k] \in S /\ t[k] \in S
    BY <1>1, <1>2, <1>3, ElementOfSeq DEF IsEach
  <2>2. QED
    BY <2>1 DEF Carries
<1>5. E = D
  BY <1>3, <1>4
<1>6. D # {} => Min(D) \in DOMAIN s \cap DOMAIN t
  <2>1. D \subseteq Nat /\ D \subseteq DOMAIN s \cap DOMAIN t
    BY <1>3
  <2> HIDE DEF D
  <2>2. QED
    BY <2>1, Least
<1>7. Lex(g, s, t) = IF D = {} THEN Sign(Len(s) - Len(t)) ELSE g[<<s[Min(D)], t[Min(D)]>>]
  BY DEF Lex
<1>8. Lex(h, u, w) = IF E = {} THEN Sign(Len(u) - Len(w)) ELSE h[<<u[Min(E)], w[Min(E)]>>]
  BY DEF Lex
<1> HIDE DEF D, E
<1>9. D # {} => h[<<u[Min(D)], w[Min(D)]>>] = g[<<s[Min(D)], t[Min(D)]>>]
  BY <1>4, <1>6
<1>10. QED
  BY <1>1, <1>2, <1>3, <1>5, <1>7, <1>8, <1>9 DEF LexSame

LEMMA SegmentAlike ==
    ASSUME NEW x \in Pure, NEW y \in Pure
    PROVE  BySegment[<<FoldSegment[x], FoldSegment[y]>>] = BySegment[<<x, y>>]
<1>1. PICK u \in Segment, w \in Segment :
          /\ u = FoldSegment[x] /\ Len(u) = Len(x) /\ \A k \in 1..Len(x) : u[k] = Fold(x[k])
          /\ w = FoldSegment[y] /\ Len(w) = Len(y) /\ \A k \in 1..Len(y) : w[k] = Fold(y[k])
  <2>1. x \in Segment /\ y \in Segment
    BY DEF Pure
  <2>2. FoldSegment[x] \in Segment /\ FoldSegment[y] \in Segment
    BY <2>1, FoldTyped
  <2>3. Len(FoldSegment[x]) = Len(x) /\ \A k \in 1..Len(x) : FoldSegment[x][k] = Fold(x[k])
    BY <2>1, FoldTyped
  <2>4. Len(FoldSegment[y]) = Len(y) /\ \A k \in 1..Len(y) : FoldSegment[y][k] = Fold(y[k])
    BY <2>1, FoldTyped
  <2>5. QED
    BY <2>2, <2>3, <2>4
<1>2. \A s \in Pure : /\ s \in Seq(Nat) /\ s \in Segment /\ Len(s) \in Nat /\ 1 \in 1..Len(s)
                      /\ \A k \in 1..Len(s) : s[k] \in Nat /\ Class(s[k]) = Class(s[1])
  <2> SUFFICES ASSUME NEW s \in Pure
               PROVE  /\ s \in Seq(Nat) /\ s \in Segment /\ Len(s) \in Nat /\ 1 \in 1..Len(s)
                      /\ \A k \in 1..Len(s) : s[k] \in Nat /\ Class(s[k]) = Class(s[1])
    OBVIOUS
  <2>1. s \in Seq(Nat) /\ s # <<>> /\ s \in Segment
    BY DEF Pure, Segment
  <2>2. Len(s) \in Nat /\ Len(s) # 0 /\ \A k \in 1..Len(s) : s[k] \in Nat
    BY <2>1, LenProperties, EmptySeq, ElementOfSeq
  <2>3. 1 \in 1..Len(s)
    BY <2>2
  <2>4. QED
    BY <2>1, <2>2, <2>3 DEF Pure
<1>3. Class(u[1]) = Class(x[1]) /\ Class(w[1]) = Class(y[1])
  BY <1>1, <1>2, FoldedClass
<1>4. BySegment[<<u, w>>] = CmpSegment(u, w) /\ BySegment[<<x, y>>] = CmpSegment(x, y)
  BY <1>2 DEF BySegment
<1>5. ASSUME NEW s \in Pure, NEW t \in Segment, Class(s[1]) = "number",
             Len(t) = Len(s), \A k \in 1..Len(s) : t[k] = Fold(s[k])
      PROVE  t = s
  <2>1. \A k \in 1..Len(s) : t[k] = s[k]
    BY <1>2, <1>5, FoldedClass
  <2>2. t \in Seq(Nat) /\ s \in Seq(Nat)
    BY <1>2 DEF Segment
  <2>3. QED
    BY <1>5, <2>1, <2>2, SeqEqual
<1>6. CASE Class(x[1]) = "number" /\ Class(y[1]) = "number"
  <2>1. u = x /\ w = y
    BY <1>1, <1>5, <1>6
  <2>2. QED
    BY <1>1, <2>1
<1>7. CASE Class(x[1]) # "number" /\ Class(y[1]) # "number"
  <2>1. CmpSegment(u, w) = CmpAlphaCi(u, w) /\ CmpSegment(x, y) = CmpAlphaCi(x, y)
    BY <1>3, <1>7 DEF CmpSegment
  <2>2. /\ CmpAlphaCi(u, w) = LexFn(Folded, Nat)[<<u, w>>]
        /\ CmpAlphaCi(x, y) = LexFn(Folded, Nat)[<<x, y>>]
    BY <1>2, ByFolded DEF Segment
  <2>3. /\ LexFn(Folded, Nat)[<<u, w>>] = Lex(Folded, u, w)
        /\ LexFn(Folded, Nat)[<<x, y>>] = Lex(Folded, x, y)
    BY <1>2 DEF LexFn, Segment
  <2>4. u = Each(FoldChar, x) /\ w = Each(FoldChar, y)
    BY <1>1, <1>2 DEF FoldSegment
  <2>5. \A c, d \in Nat : Folded[<<FoldChar[c], FoldChar[d]>>] = Folded[<<c, d>>]
    <3> SUFFICES ASSUME NEW c \in Nat, NEW d \in Nat PROVE Folded[<<FoldChar[c], FoldChar[d]>>] = Folded[<<c, d>>]
      OBVIOUS
    <3>1. FoldChar[c] = Fold(c) /\ FoldChar[d] = Fold(d) /\ Fold(c) \in Nat /\ Fold(d) \in Nat
      BY FoldedClass DEF FoldChar
    <3>2. Folded[<<Fold(c), Fold(d)>>] = CmpCode(Fold(Fold(c)), Fold(Fold(d)))
      BY <3>1 DEF Folded
    <3>3. Folded[<<c, d>>] = CmpCode(Fold(c), Fold(d))
      BY DEF Folded
    <3>4. Fold(Fold(c)) = Fold(c) /\ Fold(Fold(d)) = Fold(d)
      BY FoldedClass
    <3>5. QED
      BY <3>1, <3>2, <3>3, <3>4
  <2>6. Lex(Folded, Each(FoldChar, x), Each(FoldChar, y)) = Lex(Folded, x, y)
    <3>1. Carries(FoldChar, Folded, Folded, Nat)
      BY <2>5 DEF Carries
    <3>2. LexSame(FoldChar, Folded, Folded, x, y)
      BY <1>2, <3>1, FoldTyped, LexEach
    <3>3. QED
      BY <3>2 DEF LexSame
  <2>7. QED
    BY <1>1, <1>4, <2>1, <2>2, <2>3, <2>4, <2>6
<1>8. CASE (Class(x[1]) = "number") # (Class(y[1]) = "number")
  <2>1. CmpSegment(u, w) = CmpSegment(x, y)
    BY <1>3, <1>8 DEF CmpSegment
  <2>2. QED
    BY <1>1, <1>4, <2>1
<1>9. QED
  BY <1>6, <1>7, <1>8

LEMMA PlainCompared ==
    ASSUME NEW a \in Seq(Nat), NEW b \in Seq(Nat)
    PROVE  AverCompare(PlainText(a), PlainText(b)) = AverCompare(a, b)
<1>1. PICK s \in Seq(Pure), t \in Seq(Pure) : s = Segments(a) /\ t = Segments(b)
  BY SegmentsPure
<1>2. PICK p \in Seq(Nat), q \in Seq(Nat) : p = PlainText(a) /\ q = PlainText(b)
  BY PlainTyped
<1>3. Segments(p) = Each(FoldSegment, s) /\ Segments(q) = Each(FoldSegment, t)
  BY <1>1, <1>2, PlainSegments
<1>4. \A c, d \in Seq(Nat) : AverCompare(c, d) = Lex(BySegment, Segments(c), Segments(d))
  BY Compared, SegmentsTyped DEF LexFn
<1> DEFINE F == [x \in Pure |-> FoldSegment[x]]
<1>5. F \in [Pure -> Segment]
  BY FoldTyped DEF Pure
<1>6. \A x, y \in Pure : BySegment[<<F[x], F[y]>>] = BySegment[<<x, y>>]
  BY SegmentAlike
<1>7. Each(F, s) = Each(FoldSegment, s) /\ Each(F, t) = Each(FoldSegment, t)
  <2>1. \A r \in Seq(Pure) : \A k \in DOMAIN r : r[k] \in Pure
    BY ElementOfSeq, LenProperties
  <2>2. QED
    BY <1>1, <2>1 DEF Each
<1> HIDE DEF F
<1>8. Lex(BySegment, Each(F, s), Each(F, t)) = Lex(BySegment, s, t)
  <2>1. Carries(F, BySegment, BySegment, Pure)
    BY <1>6 DEF Carries
  <2>2. LexSame(F, BySegment, BySegment, s, t)
    BY <1>1, <1>5, <2>1, LexEach
  <2>3. QED
    BY <2>2 DEF LexSame
<1>9. QED
  BY <1>1, <1>2, <1>3, <1>4, <1>7, <1>8

\* Numbers count by their value, a version that goes on is newer, case and the
\* kind of separator do not matter, and the unknown is neither newer nor older,
\* for texts of any length (aver_compare, aver_is_newer).
THEOREM EveryVersionSensible == \A a, b \in Seq(Nat) : Sensible(a, b)
<1> SUFFICES ASSUME NEW a \in Seq(Nat), NEW b \in Seq(Nat) PROVE Sensible(a, b)
  OBVIOUS
<1>1. ASSUME \A k \in DOMAIN a : IsDigit(a[k]), \A k \in DOMAIN b : IsDigit(b[k]), a # <<>>, b # <<>>
      PROVE  AverCompare(a, b) = Sign(Value(a) - Value(b))
  <2>1. ASSUME NEW d \in Seq(Nat), \A k \in DOMAIN d : IsDigit(d[k]), d # <<>> PROVE d \in Number
    <3>1. Len(d) \in Nat /\ DOMAIN d = 1..Len(d) /\ d \in [1..Len(d) -> Nat]
      BY LenProperties
    <3>2. \A k \in 1..Len(d) : d[k] \in 48..57
      BY <2>1, <3>1 DEF IsDigit
    <3>3. d \in [1..Len(d) -> 48..57]
      BY <3>1, <3>2
    <3>4. d \in Seq(48..57)
      <4>1. PICK n \in Nat : n = Len(d)
        BY <3>1
      <4>2. d \in [1..n -> 48..57]
        BY <3>3, <4>1
      <4>3. QED
        BY <4>2, Mapped
    <3>5. QED
      BY <2>1, <3>4 DEF Number
  <2>2. a \in Number /\ b \in Number
    BY <1>1, <2>1
  <2>3. QED
    BY <2>2, NumbersCompared
<1>2. AverCompare(a \o <<Dash>> \o b, a) = IF Segments(b) = <<>> THEN 0 ELSE 1
  BY MoreIsNewer
<1>3. AverCompare(PlainText(a), PlainText(b)) = AverCompare(a, b)
  BY PlainCompared
<1>4. IsNewer(a, b) => ~IsNewer(b, a) /\ ~IsUnknown(a) /\ ~IsUnknown(b)
  <2>1. IsNewer(a, b) => ~IsNewer(b, a)
    BY NewerIsStrict
  <2>2. QED
    BY <2>1 DEF IsNewer
<1>5. ASSUME ~IsUnknown(a), ~IsUnknown(b), ~IsNewer(a, b), ~IsNewer(b, a) PROVE AverCompare(a, b) = 0
  <2> DEFINE m == AverCompare(a, b)  n == AverCompare(b, a)
  <2>1. Opposed(m, n)
    BY Comparison
  <2>2. ~(m > 0) /\ ~(n > 0)
    BY <1>5 DEF IsNewer
  <2> HIDE DEF m, n
  <2>3. m = 0
    BY <2>1, <2>2 DEF Opposed
  <2>4. QED
    BY <2>3 DEF m
<1>6. QED
  BY <1>1, <1>2, <1>3, <1>4, <1>5 DEF Sensible, PlainText

-----------------------------------------------------------------------------
(***************************************************************************)
(* The names of a list.                                                    *)
(***************************************************************************)
\* name holds the beginnings of the name that begins behind i.
Named(name, list, i, j) ==
    name = [n \in i..(j - 1) |->
               IF n = i THEN <<>>
               ELSE IF list[n] = Space THEN name[n - 1] ELSE Append(name[n - 1], list[n])]

LEMMA SomeNamed == ASSUME NEW list, NEW i \in Nat, NEW j \in Nat, i < j
                   PROVE  \E name : Named(name, list, i, j)
<1> DEFINE N == {m \in Nat : \E name : Named(name, list, i, (i + m) + 1)}
<1>1. 0 \in N
  <2> DEFINE h == [n \in i..i |-> <<>>]
  <2>1. ((i + 0) + 1) - 1 = i /\ \A n \in i..i : n = i
    OBVIOUS
  <2>2. h = [n \in i..i |->
               IF n = i THEN <<>>
               ELSE IF list[n] = Space THEN h[n - 1] ELSE Append(h[n - 1], list[n])]
    BY <2>1
  <2> HIDE DEF h
  <2>3. Named(h, list, i, (i + 0) + 1)
    BY <2>1, <2>2 DEF Named
  <2>4. QED
    BY <2>3
<1>2. ASSUME NEW m \in Nat, m \in N PROVE m + 1 \in N
  <2>1. PICK f : Named(f, list, i, (i + m) + 1)
    BY <1>2
  <2>2. PICK k \in Nat : k = i + m
    OBVIOUS
  <2>3. k + 1 = i + (m + 1) /\ (k + 1) - 1 = k /\ ((k + 1) + 1) - 1 = k + 1 /\ i <= k
    BY <2>2
  <2>4. f = [n \in i..k |-> IF n = i THEN <<>>
                            ELSE IF list[n] = Space THEN f[n - 1] ELSE Append(f[n - 1], list[n])]
    BY <2>1, <2>2, <2>3 DEF Named
  <2>5. PICK y : y = IF list[k + 1] = Space THEN f[k] ELSE Append(f[k], list[k + 1])
    OBVIOUS
  <2>6. PICK h : h = [n \in i..(k + 1) |-> IF n = k + 1 THEN y ELSE f[n]]
    OBVIOUS
  <2>7. h[k + 1] = y /\ \A n \in i..k : h[n] = f[n]
    BY <2>3, <2>6
  <2>8. ASSUME NEW n \in i..(k + 1)
        PROVE  h[n] = IF n = i THEN <<>>
                      ELSE IF list[n] = Space THEN h[n - 1] ELSE Append(h[n - 1], list[n])
    <3>1. CASE n = k + 1
      <4>1. n # i /\ n - 1 = k /\ k \in i..k
        BY <2>3, <3>1
      <4>2. QED
        BY <2>5, <2>7, <3>1, <4>1
    <3>2. CASE n \in i..k
      <4>1. f[n] = IF n = i THEN <<>>
                   ELSE IF list[n] = Space THEN f[n - 1] ELSE Append(f[n - 1], list[n])
        BY <2>4, <3>2
      <4>2. n # i => n - 1 \in i..k
        BY <3>2
      <4>3. QED
        BY <2>7, <3>2, <4>1, <4>2
    <3>3. QED
      BY <3>1, <3>2
  <2>9. h = [n \in i..(k + 1) |-> IF n = i THEN <<>>
                ELSE IF list[n] = Space THEN h[n - 1] ELSE Append(h[n - 1], list[n])]
    BY <2>6, <2>8
  <2>10. Named(h, list, i, (i + (m + 1)) + 1)
    BY <2>3, <2>9 DEF Named
  <2>11. QED
    BY <2>10
<1> HIDE DEF N
<1>3. Nat \subseteq N
  BY <1>1, <1>2, Induct
<1>4. PICK m \in Nat : m = (j - i) - 1 /\ (i + m) + 1 = j
  <2>1. (j - i) - 1 \in Nat /\ (i + ((j - i) - 1)) + 1 = j
    OBVIOUS
  <2>2. QED
    BY <2>1
<1>5. m \in N
  BY <1>3
<1>6. QED
  BY <1>4, <1>5 DEF N

\* Two of them agree as far as both go.
LEMMA NamedAlike ==
    ASSUME NEW list, NEW i \in Nat, NEW j \in Nat, NEW k \in Nat, i < j, j <= k,
           NEW f, Named(f, list, i, j), NEW h, Named(h, list, i, k)
    PROVE  f[j - 1] = h[j - 1]
<1> DEFINE N == {m \in Nat : i + m <= j - 1 => f[i + m] = h[i + m]}
<1>1. /\ \A n \in i..(j - 1) : f[n] = IF n = i THEN <<>>
                  ELSE IF list[n] = Space THEN f[n - 1] ELSE Append(f[n - 1], list[n])
      /\ \A n \in i..(k - 1) : h[n] = IF n = i THEN <<>>
                  ELSE IF list[n] = Space THEN h[n - 1] ELSE Append(h[n - 1], list[n])
  BY DEF Named
<1>2. 0 \in N
  <2>1. i + 0 = i /\ i \in i..(j - 1) /\ i \in i..(k - 1)
    OBVIOUS
  <2>2. QED
    BY <1>1, <2>1
<1>3. ASSUME NEW m \in Nat, m \in N PROVE m + 1 \in N
  <2> SUFFICES ASSUME i + (m + 1) <= j - 1 PROVE f[i + (m + 1)] = h[i + (m + 1)]
    OBVIOUS
  <2>1. PICK n \in Nat : n = i + (m + 1)
    OBVIOUS
  <2>2. n \in i..(j - 1) /\ n \in i..(k - 1) /\ n # i /\ n - 1 = i + m /\ i + m <= j - 1
    BY <2>1
  <2>3. f[n - 1] = h[n - 1]
    BY <1>3, <2>2
  <2>4. f[n] = h[n]
    BY <1>1, <2>2, <2>3
  <2>5. QED
    BY <2>1, <2>4
<1> HIDE DEF N
<1>4. Nat \subseteq N
  BY <1>2, <1>3, Induct
<1>5. PICK m \in Nat : i + m = j - 1 /\ i + m <= j - 1
  <2>1. (j - 1) - i \in Nat /\ i + ((j - 1) - i) = j - 1 /\ i + ((j - 1) - i) <= j - 1
    OBVIOUS
  <2>2. QED
    BY <2>1
<1>6. m \in N
  BY <1>4
<1>7. QED
  BY <1>5, <1>6 DEF N

LEMMA NameBegins == ASSUME NEW list, NEW i \in Nat PROVE NameBetween(list, i, i + 1) = <<>>
<1>1. PICK k \in Nat : k = i + 1 /\ i < k /\ k - 1 = i
  OBVIOUS
<1> DEFINE f == CHOOSE name : Named(name, list, i, k)
<1>2. Named(f, list, i, k)
  BY <1>1, SomeNamed
<1>3. NameBetween(list, i, k) = f[k - 1]
  BY DEF NameBetween, Named
<1> HIDE DEF f
<1>4. i \in i..(k - 1)
  BY <1>1
<1>5. f[i] = <<>>
  BY <1>2, <1>4 DEF Named
<1>6. QED
  BY <1>1, <1>3, <1>5

LEMMA NameGrows ==
    ASSUME NEW list, NEW i \in Nat, NEW j \in Nat, i < j
    PROVE  NameBetween(list, i, j + 1) =
               IF list[j] = Space THEN NameBetween(list, i, j) ELSE Append(NameBetween(list, i, j), list[j])
<1>1. PICK k \in Nat : k = j + 1 /\ i < k /\ k - 1 = j /\ j <= k
  OBVIOUS
<1> DEFINE f == CHOOSE name : Named(name, list, i, j)
    h == CHOOSE name : Named(name, list, i, k)
<1>2. Named(f, list, i, j)
  BY SomeNamed
<1>3. Named(h, list, i, k)
  BY <1>1, SomeNamed
<1>4. NameBetween(list, i, j) = f[j - 1] /\ NameBetween(list, i, k) = h[k - 1]
  BY DEF NameBetween, Named
<1> HIDE DEF f, h
<1>5. f[j - 1] = h[j - 1]
  BY <1>1, <1>2, <1>3, NamedAlike
<1>6. j \in i..(k - 1) /\ j # i
  BY <1>1
<1>7. h[j] = IF list[j] = Space THEN h[j - 1] ELSE Append(h[j - 1], list[j])
  BY <1>3, <1>6 DEF Named
<1>8. QED
  BY <1>1, <1>4, <1>5, <1>7

BeginsWith(x, c) ==
    Beginning(Append(x, c)) = IF Len(Beginning(x)) < MaxToken THEN Append(Beginning(x), c) ELSE Beginning(x)

LEMMA BeginningGrows ==
    ASSUME NEW x \in Seq(Nat), NEW c \in Nat
    PROVE  Beginning(x) \in Seq(Nat) /\ BeginsWith(x, c)
<1>1. PICK n \in Nat, m \in Nat : n = Len(x) /\ m = MaxToken
  BY VersionAssumption, LenProperties
<1>2. PICK t \in Seq(Nat) : t = Append(x, c) /\ Len(t) = n + 1 /\ \A k \in 1..n : t[k] = x[k]
  <2>1. /\ Append(x, c) \in Seq(Nat) /\ Len(Append(x, c)) = Len(x) + 1
        /\ \A k \in 1..Len(x) : Append(x, c)[k] = x[k]
    BY AppendProperties
  <2>2. QED
    BY <1>1, <2>1
<1>3. CASE n < m
  <2>1. n <= m /\ n + 1 <= m
    BY <1>3
  <2>2. Beginning(x) = x /\ Beginning(t) = t
    BY <1>1, <1>2, <2>1 DEF Beginning
  <2>3. QED
    BY <1>1, <1>2, <1>3, <2>2 DEF BeginsWith
<1>4. CASE m <= n
  <2> DEFINE u == SubSeq(x, 1, m)  w == SubSeq(t, 1, m)
  <2>1. 1 \in 1..(n + 1) /\ m \in (1 - 1)..n /\ 1 \in 1..((n + 1) + 1) /\ m \in (1 - 1)..(n + 1) /\ m - 1 + 1 = m
    BY <1>4
  <2>2. /\ u \in Seq(Nat) /\ Len(u) = (IF 1 <= m THEN m - 1 + 1 ELSE 0)
        /\ \A k \in 1..(m - 1 + 1) : u[k] = x[1 + k - 1]
    BY <1>1, <2>1, SubSeqProperties
  <2>3. /\ w \in Seq(Nat) /\ Len(w) = (IF 1 <= m THEN m - 1 + 1 ELSE 0)
        /\ \A k \in 1..(m - 1 + 1) : w[k] = t[1 + k - 1]
    BY <1>2, <2>1, SubSeqProperties
  <2> HIDE DEF u, w
  <2>4. (IF 1 <= m THEN m - 1 + 1 ELSE 0) = m /\ m - 1 + 1 = m
    OBVIOUS
  <2>5. Len(u) = m /\ Len(w) = m
    BY <2>2, <2>3, <2>4
  <2>6. \A k \in 1..m : 1 + k - 1 = k /\ k \in 1..n
    BY <1>4
  <2>7. \A k \in 1..m : u[k] = x[k] /\ w[k] = t[k] /\ t[k] = x[k]
    BY <1>2, <2>2, <2>3, <2>4, <2>6
  <2>8. u = w
    BY <2>2, <2>3, <2>5, <2>7, SeqEqual
  <2>9. Beginning(x) = u
    <3>1. CASE n = m
      <4>1. \A k \in 1..m : u[k] = x[k]
        BY <2>7
      <4>2. u = x
        BY <1>1, <2>2, <2>5, <3>1, <4>1, SeqEqual
      <4>3. n <= m
        BY <3>1
      <4>4. QED
        BY <1>1, <4>2, <4>3 DEF Beginning
    <3>2. CASE n > m
      <4>1. ~(n <= m)
        BY <3>2
      <4>2. QED
        BY <1>1, <4>1 DEF Beginning, u
    <3>3. QED
      BY <1>4, <3>1, <3>2
  <2>10. Beginning(t) = w
    <3>1. ~(n + 1 <= m)
      BY <1>4
    <3>2. QED
      BY <1>1, <1>2, <3>1 DEF Beginning, w
  <2>11. ~(Len(u) < m)
    BY <2>5
  <2>12. QED
    BY <1>1, <1>2, <2>2, <2>8, <2>9, <2>10, <2>11 DEF BeginsWith
<1>5. n < m \/ m <= n
  OBVIOUS
<1>6. QED
  BY <1>3, <1>4, <1>5

LEMMA BeginningEmpty == Beginning(<<>>) = <<>>
<1>1. Len(<<>>) <= MaxToken
  BY VersionAssumption
<1>2. QED
  BY <1>1 DEF Beginning

\* One of the names between two neighbours of C runs here.
Names(list, C, h) ==
    \E i, j \in C : /\ i < j /\ C \cap (i + 1)..(j - 1) = {}
                    /\ OneArchRunsOn(Beginning(NameBetween(list, i, j)), h)

LEMMA OneNameMore ==
    ASSUME NEW list, NEW h, NEW n \in Nat, NEW C \in SUBSET (0..n), NEW i \in C, \A k \in C : k <= i
    PROVE  Names(list, C \cup {n + 1}, h) <=>
               Names(list, C, h) \/ OneArchRunsOn(Beginning(NameBetween(list, i, n + 1)), h)
<1> DEFINE E == C \cup {n + 1}
    Here(p, q) == OneArchRunsOn(Beginning(NameBetween(list, p, q)), h)
<1> HIDE DEF Here
<1>1. \A k \in C : k \in Nat /\ k <= n /\ k < n + 1 /\ k <= i
  OBVIOUS
<1>2. ASSUME NEW p \in C, NEW q \in C, p < q, C \cap (p + 1)..(q - 1) = {}, Here(p, q)
      PROVE  \E x, y \in E : x < y /\ E \cap (x + 1)..(y - 1) = {} /\ Here(x, y)
  <2>1. n + 1 \notin (p + 1)..(q - 1)
    BY <1>1
  <2>2. E \cap (p + 1)..(q - 1) = {}
    BY <1>2, <2>1
  <2>3. QED
    BY <1>2, <2>2
<1>3. ASSUME Here(i, n + 1)
      PROVE  \E x, y \in E : x < y /\ E \cap (x + 1)..(y - 1) = {} /\ Here(x, y)
  <2>1. i < n + 1
    BY <1>1
  <2>2. ASSUME NEW k \in E PROVE k \notin (i + 1)..((n + 1) - 1)
    BY <1>1
  <2>3. E \cap (i + 1)..((n + 1) - 1) = {}
    BY <2>2
  <2>4. i \in E /\ n + 1 \in E
    OBVIOUS
  <2>5. QED
    BY <1>3, <2>1, <2>3, <2>4
<1>4. ASSUME NEW p \in E, NEW q \in E, p < q, E \cap (p + 1)..(q - 1) = {}, Here(p, q)
      PROVE  (\E x, y \in C : x < y /\ C \cap (x + 1)..(y - 1) = {} /\ Here(x, y)) \/ Here(i, n + 1)
  <2>1. p # n + 1
    BY <1>1, <1>4
  <2>2. p \in C
    BY <2>1
  <2>3. CASE q = n + 1
    <3>1. ~(p < i)
      <4> SUFFICES ASSUME p < i PROVE FALSE
        OBVIOUS
      <4>1. i \in (p + 1)..(q - 1)
        BY <1>1, <2>2, <2>3
      <4>2. QED
        BY <1>4, <4>1
    <3>2. p = i
      BY <1>1, <2>2, <3>1
    <3>3. QED
      BY <1>4, <2>3, <3>2
  <2>4. CASE q \in C
    <3>1. C \cap (p + 1)..(q - 1) = {}
      BY <1>4
    <3>2. QED
      BY <1>4, <2>2, <2>4, <3>1
  <2>5. QED
    BY <2>3, <2>4
<1>5. Names(list, E, h) <=> \E x, y \in E : x < y /\ E \cap (x + 1)..(y - 1) = {} /\ Here(x, y)
  BY DEF Names, Here
<1>6. Names(list, C, h) <=> \E x, y \in C : x < y /\ C \cap (x + 1)..(y - 1) = {} /\ Here(x, y)
  BY DEF Names, Here
<1> HIDE DEF E
<1>7. Names(list, E, h) => Names(list, C, h) \/ Here(i, n + 1)
  BY <1>4, <1>5, <1>6
<1>8. Names(list, C, h) \/ Here(i, n + 1) => Names(list, E, h)
  BY <1>2, <1>3, <1>5, <1>6
<1>9. QED
  BY <1>7, <1>8 DEF E, Here

Token == [tok : Seq(Nat), runs : BOOLEAN]

\* f holds what is read of the list after each character.
Reads(f, list, h) ==
    /\ f[0] = [tok |-> <<>>, runs |-> FALSE]
    /\ \A n \in 1..Len(list) : f[n] = Read(f[n - 1], list[n], h)

LEMMA ReadTyped == ASSUME NEW acc \in Token, NEW c \in Nat, NEW h PROVE Read(acc, c, h) \in Token
<1>1. PICK t \in Seq(Nat), r \in BOOLEAN : acc = [tok |-> t, runs |-> r]
  BY DEF Token
<1>2. acc.tok = t /\ acc.runs = r
  BY <1>1
<1>3. PICK u \in Seq(Nat) : u = Append(t, c)
  BY <1>1, AppendProperties
<1>4. PICK b \in BOOLEAN : b = (r \/ OneArchRunsOn(t, h))
  <2>1. (r \/ OneArchRunsOn(t, h)) \in BOOLEAN
    OBVIOUS
  <2>2. QED
    BY <2>1
<1>5. CASE c = Comma
  <2>1. Read(acc, c, h) = [tok |-> <<>>, runs |-> b]
    BY <1>2, <1>4, <1>5 DEF Read
  <2>2. <<>> \in Seq(Nat)
    BY EmptySeq
  <2>3. QED
    BY <2>1, <2>2 DEF Token
<1>6. CASE c # Comma /\ c # Space /\ Len(acc.tok) < MaxToken
  <2>1. Read(acc, c, h) = [tok |-> u, runs |-> r]
    BY <1>1, <1>2, <1>3, <1>6 DEF Read
  <2>2. QED
    BY <1>3, <2>1 DEF Token
<1>7. CASE ~(c = Comma) /\ ~(c # Comma /\ c # Space /\ Len(acc.tok) < MaxToken)
  BY <1>7 DEF Read
<1>8. QED
  BY <1>5, <1>6, <1>7

LEMMA Reading ==
    ASSUME NEW list \in Seq(Nat), NEW h
    PROVE  \E f : /\ Reads(f, list, h)
                  /\ ListRunsOn(list, h) <=> f[Len(list)].runs \/ OneArchRunsOn(f[Len(list)].tok, h)
<1> DEFINE a == [tok |-> <<>>, runs |-> FALSE]
    F == [p \in (1..Len(list)) \X Token |-> Read(p[2], list[p[1]], h)]
    Is(f) == f = [n \in 0..Len(list) |-> IF n = 0 THEN a ELSE Read(f[n - 1], list[n], h)]
<1>1. PICK N \in Nat : N = Len(list) /\ \A k \in 1..N : list[k] \in Nat
  BY LenProperties, ElementOfSeq
<1>2. a \in Token
  BY EmptySeq DEF Token
<1>3. \A n \in 1..N, x \in Token : F[<<n, x>>] = Read(x, list[n], h)
  BY <1>1
<1>4. \A n \in 1..N, x \in Token : F[<<n, x>>] \in Token
  BY <1>1, <1>3, ReadTyped
<1> HIDE DEF a, F
<1>5. PICK e : Runs(e, N, Token, a, F)
  BY <1>1, <1>2, <1>4, Iteration
<1>6. Is(e)
  <2>1. /\ e \in [0..N -> Token]
        /\ \A n \in 0..N : e[n] = IF n = 0 THEN a ELSE F[<<n, e[n - 1]>>]
    BY <1>5 DEF Runs
  <2>2. ASSUME NEW n \in 0..N, n # 0 PROVE e[n] = Read(e[n - 1], list[n], h)
    <3>1. n \in 1..N /\ n - 1 \in 0..N
      BY <2>2
    <3>2. QED
      BY <1>3, <2>1, <2>2, <3>1
  <2>3. e = [n \in 0..N |-> IF n = 0 THEN a ELSE Read(e[n - 1], list[n], h)]
    BY <2>1, <2>2
  <2>4. QED
    BY <1>1, <2>3
<1> DEFINE f == CHOOSE g : Is(g)
<1>7. Is(f)
  BY <1>6
<1>8. ListRunsOn(list, h) <=> f[Len(list)].runs \/ OneArchRunsOn(f[Len(list)].tok, h)
  BY DEF ListRunsOn, a
<1> HIDE DEF f
<1>9. \A n \in 0..N : f[n] = IF n = 0 THEN a ELSE Read(f[n - 1], list[n], h)
  BY <1>1, <1>7
<1>10. 0 \in 0..N /\ \A n \in 1..N : n \in 0..N /\ n # 0
  OBVIOUS
<1>11. Reads(f, list, h)
  BY <1>1, <1>9, <1>10 DEF Reads, a
<1>12. QED
  BY <1>8, <1>11

CommasUpTo(list, n) == {0} \cup {k \in 1..n : list[k] = Comma}

\* What is read is the name begun behind the last comma, and whether one before runs.
ReadSoFar(list, n, x, h) ==
    LET C == CommasUpTo(list, n) IN
    x \in Token /\ \E i \in C :
        /\ \A k \in C : k <= i
        /\ NameBetween(list, i, n + 1) \in Seq(Nat)
        /\ x.tok = Beginning(NameBetween(list, i, n + 1))
        /\ x.runs <=> Names(list, C, h)

LEMMA ReadOn ==
    ASSUME NEW list \in Seq(Nat), NEW h, NEW f, Reads(f, list, h), NEW n \in Nat, n <= Len(list)
    PROVE  ReadSoFar(list, n, f[n], h)
<1>1. PICK N \in Nat : N = Len(list) /\ \A k \in 1..N : list[k] \in Nat
  BY LenProperties, ElementOfSeq
<1> DEFINE M == {m \in Nat : m <= N => ReadSoFar(list, m, f[m], h)}
<1>2. 0 \in M
  <2>1. f[0].tok = <<>> /\ f[0].runs = FALSE
    BY DEF Reads
  <2>2. CommasUpTo(list, 0) = {0}
    BY DEF CommasUpTo
  <2>3. NameBetween(list, 0, 0 + 1) = <<>>
    BY NameBegins
  <2>4. ~Names(list, {0}, h)
    BY DEF Names
  <2>5. <<>> \in Seq(Nat) /\ 0 <= 0
    BY EmptySeq
  <2>50. f[0] \in Token
    BY <2>5 DEF Reads, Token
  <2>6. ReadSoFar(list, 0, f[0], h)
    BY <2>1, <2>50, <2>2, <2>3, <2>4, <2>5, BeginningEmpty DEF ReadSoFar
  <2>7. QED
    BY <2>6
<1>3. ASSUME NEW m \in Nat, m \in M PROVE m + 1 \in M
  <2> SUFFICES ASSUME m + 1 <= N PROVE ReadSoFar(list, m + 1, f[m + 1], h)
    OBVIOUS
  <2>1. m + 1 \in 1..N /\ (m + 1) - 1 = m /\ m <= N
    OBVIOUS
  <2> DEFINE C == CommasUpTo(list, m)  E == CommasUpTo(list, m + 1)
  <2>2. PICK i \in C : /\ \A k \in C : k <= i
                       /\ NameBetween(list, i, m + 1) \in Seq(Nat)
                       /\ f[m].tok = Beginning(NameBetween(list, i, m + 1))
                       /\ f[m].runs <=> Names(list, C, h)
    BY <1>3, <2>1 DEF ReadSoFar
  <2>3. PICK c \in Nat : c = list[m + 1]
    BY <1>1, <2>1
  <2>4. f[m + 1] = Read(f[m], c, h)
    BY <1>1, <2>1, <2>3 DEF Reads
  <2>5. C \in SUBSET (0..m) /\ i \in Nat /\ i < m + 1
    BY DEF CommasUpTo
  <2>6. E = IF c = Comma THEN C \cup {m + 1} ELSE C
    <3>1. \A k \in 1..(m + 1) : k = m + 1 \/ k \in 1..m
      OBVIOUS
    <3>2. m + 1 \in 1..(m + 1) /\ m + 1 \notin 1..m /\ \A k \in 1..m : k \in 1..(m + 1)
      OBVIOUS
    <3>3. QED
      BY <2>3, <3>1, <3>2 DEF CommasUpTo
  <2>7. PICK x \in Seq(Nat) : x = NameBetween(list, i, m + 1) /\ f[m].tok = Beginning(x)
    BY <2>2
  <2>8. NameBetween(list, i, (m + 1) + 1) = IF c = Space THEN x ELSE Append(x, c)
    <3>1. PICK j \in Nat : j = m + 1 /\ i < j
      BY <2>5
    <3>2. NameBetween(list, i, j + 1) =
              IF list[j] = Space THEN NameBetween(list, i, j) ELSE Append(NameBetween(list, i, j), list[j])
      BY <2>5, <3>1, NameGrows
    <3>3. QED
      BY <2>3, <2>7, <3>1, <3>2
  <2>12. f[m] \in Token
    BY <1>3, <2>1 DEF ReadSoFar
  <2>13. f[m + 1] \in Token
    BY <2>4, <2>12, ReadTyped
  <2> HIDE DEF C, E
  <2>9. CASE c = Comma
    <3>1. f[m + 1].tok = <<>> /\ f[m + 1].runs = (f[m].runs \/ OneArchRunsOn(f[m].tok, h))
      BY <2>4, <2>9 DEF Read
    <3>2. Names(list, E, h) <=> Names(list, C, h) \/ OneArchRunsOn(Beginning(NameBetween(list, i, m + 1)), h)
      BY <2>2, <2>5, <2>6, <2>9, OneNameMore
    <3>3. f[m + 1].runs <=> Names(list, E, h)
      BY <2>2, <3>1, <3>2
    <3>4. NameBetween(list, m + 1, (m + 1) + 1) = <<>>
      BY NameBegins
    <3>5. <<>> \in Seq(Nat)
      BY EmptySeq
    <3>6. m + 1 \in E /\ \A k \in E : k <= m + 1
      BY <2>5, <2>6, <2>9
    <3>7. QED
      BY <2>13, <3>1, <3>3, <3>4, <3>5, <3>6, BeginningEmpty DEF ReadSoFar, E
  <2>10. CASE c # Comma
    <3>1. E = C
      BY <2>6, <2>10
    <3>2. f[m + 1].runs = f[m].runs
      BY <2>4, <2>10 DEF Read
    <3>3. PICK y \in Seq(Nat) : y = NameBetween(list, i, (m + 1) + 1)
      <4>1. Append(x, c) \in Seq(Nat)
        BY AppendProperties
      <4>2. QED
        BY <2>8, <4>1
    <3>4. f[m + 1].tok = Beginning(y)
      <4>1. CASE c = Space
        <5>1. f[m + 1] = f[m]
          BY <2>4, <2>10, <4>1 DEF Read
        <5>2. y = x
          BY <2>8, <3>3, <4>1
        <5>3. QED
          BY <2>7, <5>1, <5>2
      <4>2. CASE c # Space
        <5>1. y = Append(x, c)
          BY <2>8, <3>3, <4>2
        <5>2. BeginsWith(x, c)
          BY BeginningGrows
        <5>3. CASE Len(f[m].tok) < MaxToken
          <6>1. f[m + 1] = [f[m] EXCEPT !.tok = Append(f[m].tok, c)]
            BY <2>4, <2>10, <4>2, <5>3 DEF Read
          <6>2. f[m + 1].tok = Append(Beginning(x), c)
            BY <2>7, <2>12, <6>1 DEF Token
          <6>3. QED
            BY <2>7, <5>1, <5>2, <5>3, <6>2 DEF BeginsWith
        <5>4. CASE ~(Len(f[m].tok) < MaxToken)
          <6>1. f[m + 1] = f[m]
            BY <2>4, <2>10, <5>4 DEF Read
          <6>2. QED
            BY <2>7, <5>1, <5>2, <5>4, <6>1 DEF BeginsWith
        <5>5. QED
          BY <5>3, <5>4
      <4>3. QED
        BY <4>1, <4>2
    <3>5. f[m + 1].runs <=> Names(list, E, h)
      BY <2>2, <3>1, <3>2
    <3>6. i \in E /\ \A k \in E : k <= i
      BY <2>2, <3>1 DEF C
    <3>7. QED
      BY <2>13, <3>3, <3>4, <3>5, <3>6 DEF ReadSoFar, E
  <2>11. QED
    BY <2>9, <2>10
<1> HIDE DEF M
<1>4. Nat \subseteq M
  BY <1>2, <1>3, Induct
<1>5. QED
  BY <1>1, <1>4 DEF M

LEMMA ListByNames ==
    ASSUME NEW list \in Seq(Nat), NEW h
    PROVE  ListRunsOn(list, h) = SomeNameRuns(list, h)
<1>1. PICK f : /\ Reads(f, list, h)
               /\ ListRunsOn(list, h) <=> f[Len(list)].runs \/ OneArchRunsOn(f[Len(list)].tok, h)
  BY Reading
<1>2. PICK N \in Nat : N = Len(list) /\ DOMAIN list = 1..N /\ N <= Len(list)
  BY LenProperties
<1>3. ReadSoFar(list, N, f[N], h)
  BY <1>1, <1>2, ReadOn
<1> DEFINE C == CommasUpTo(list, N)
<1>4. PICK i \in C : /\ \A k \in C : k <= i
                     /\ f[N].tok = Beginning(NameBetween(list, i, N + 1))
                     /\ f[N].runs <=> Names(list, C, h)
  BY <1>3 DEF ReadSoFar
<1>5. C \in SUBSET (0..N) /\ C \cup {N + 1} = {0, N + 1} \cup {k \in DOMAIN list : list[k] = Comma}
  BY <1>2 DEF CommasUpTo
<1> HIDE DEF C
<1>6. Names(list, C \cup {N + 1}, h) <=> Names(list, C, h) \/ OneArchRunsOn(Beginning(NameBetween(list, i, N + 1)), h)
  BY <1>4, <1>5, OneNameMore
<1>7. SomeNameRuns(list, h) <=> Names(list, C \cup {N + 1}, h)
  BY <1>2, <1>5 DEF SomeNameRuns, Names
<1>8. ListRunsOn(list, h) <=> SomeNameRuns(list, h)
  BY <1>1, <1>2, <1>4, <1>6, <1>7
<1>9. ListRunsOn(list, h) \in BOOLEAN /\ SomeNameRuns(list, h) \in BOOLEAN
  BY DEF ListRunsOn, SomeNameRuns
<1>10. QED
  BY <1>8, <1>9

\* A name of the program's own is read whole.
LEMMA NameRead ==
    ASSUME NEW p, IsName(p)
    PROVE  NameBetween(p, 0, Len(p) + 1) = p /\ Beginning(p) = p
<1>1. PICK N \in Nat : N = Len(p) /\ DOMAIN p = 1..N /\ \A k \in 1..N : p[k] \in Nat
  BY LenProperties, ElementOfSeq DEF IsName
<1>2. p \in Seq(Nat) /\ N <= MaxToken /\ \A k \in 1..N : p[k] # Space
  BY <1>1 DEF IsName
<1> DEFINE M == {m \in Nat : m <= N => NameBetween(p, 0, m + 1) = SubSeq(p, 1, m)}
<1>3. 0 \in M
  <2>1. NameBetween(p, 0, 0 + 1) = <<>>
    BY NameBegins
  <2>2. SubSeq(p, 1, 0) = <<>>
    BY <1>2, SubSeqEmpty
  <2>3. QED
    BY <2>1, <2>2
<1>4. ASSUME NEW m \in Nat, m \in M PROVE m + 1 \in M
  <2> SUFFICES ASSUME m + 1 <= N PROVE NameBetween(p, 0, (m + 1) + 1) = SubSeq(p, 1, m + 1)
    OBVIOUS
  <2>1. PICK j \in Nat : j = m + 1 /\ 0 < j /\ j \in 1..N /\ j - 1 = m /\ m <= N /\ 1 <= j
    OBVIOUS
  <2>2. NameBetween(p, 0, j) = SubSeq(p, 1, m)
    BY <1>4, <2>1
  <2>3. NameBetween(p, 0, j + 1) =
            IF p[j] = Space THEN NameBetween(p, 0, j) ELSE Append(NameBetween(p, 0, j), p[j])
    BY <2>1, NameGrows
  <2>4. NameBetween(p, 0, j + 1) = Append(SubSeq(p, 1, m), p[j])
    BY <1>2, <2>1, <2>2, <2>3
  <2>5. SubSeq(p, 1, j) = Append(SubSeq(p, 1, m), p[j])
    BY <1>1, <1>2, <2>1
  <2>6. QED
    BY <2>1, <2>4, <2>5
<1> HIDE DEF M
<1>5. N \in M
  BY <1>3, <1>4, Induct
<1>6. SubSeq(p, 1, N) = p
  BY <1>1, <1>2, SubSeqFull
<1>7. QED
  BY <1>1, <1>2, <1>5, <1>6 DEF M, Beginning

\* A name alone in a list.
LEMMA LoneName ==
    ASSUME NEW p, IsName(p), NEW h
    PROVE  SomeNameRuns(p, h) <=> OneArchRunsOn(p, h)
<1>1. PICK N \in Nat : N = Len(p) /\ DOMAIN p = 1..N
  BY LenProperties DEF IsName
<1>2. {0, Len(p) + 1} \cup {k \in DOMAIN p : p[k] = Comma} = {0, N + 1}
  BY <1>1 DEF IsName
<1>3. SomeNameRuns(p, h) <=>
          \E i, j \in {0, N + 1} : /\ i < j /\ {0, N + 1} \cap (i + 1)..(j - 1) = {}
                                   /\ OneArchRunsOn(Beginning(NameBetween(p, i, j)), h)
  BY <1>2 DEF SomeNameRuns
<1>4. OneArchRunsOn(Beginning(NameBetween(p, 0, N + 1)), h) = OneArchRunsOn(p, h)
  BY <1>1, NameRead
<1>5. /\ 0 < N + 1 /\ {0, N + 1} \cap (0 + 1)..((N + 1) - 1) = {}
      /\ \A i, j \in {0, N + 1} : i < j => i = 0 /\ j = N + 1
  OBVIOUS
<1>6. QED
  BY <1>3, <1>4, <1>5

\* A package runs on a machine iff one of the names between its commas is the
\* host's, the generic one or, on a host that runs it, m68k's; and one without an
\* architecture iff the host is an m68k or runs it.  Whatever the list and the
\* host (aidx_arch_runs_on, which reads the list character by character).
THEOREM EveryArchListByNames ==
    \A list, host \in Seq(Nat) : ArchRunsOn(list, host) = RunsHere(list, host)
<1> SUFFICES ASSUME NEW list \in Seq(Nat), NEW host \in Seq(Nat)
             PROVE  ArchRunsOn(list, host) = RunsHere(list, host)
  OBVIOUS
<1> DEFINE h == OrM68k(host)
<1>1. IsName(M68k) /\ M68k \in Seq(Nat) /\ Generic # M68k
  BY VersionAssumption DEF IsName
<1>2. OrM68k(list) \in Seq(Nat)
  BY <1>1 DEF OrM68k
<1> HIDE DEF h
<1>3. ArchRunsOn(list, host) = ListRunsOn(OrM68k(list), h)
  BY DEF ArchRunsOn, h
<1>4. ListRunsOn(OrM68k(list), h) = SomeNameRuns(OrM68k(list), h)
  BY <1>2, ListByNames
<1>5. CASE list # <<>>
  BY <1>3, <1>4, <1>5 DEF OrM68k, RunsHere, h
<1>6. CASE list = <<>>
  <2>1. OrM68k(list) = M68k
    BY <1>6 DEF OrM68k
  <2>2. SomeNameRuns(M68k, h) <=> OneArchRunsOn(M68k, h)
    BY <1>1, LoneName
  <2>3. FoldName(M68k) = M68k
    <3>1. \A k \in DOMAIN M68k : Fold(M68k[k]) = M68k[k]
      BY <1>1 DEF IsName
    <3>2. FoldName(M68k) = [k \in DOMAIN M68k |-> M68k[k]]
      BY <3>1 DEF FoldName
    <3>3. [k \in DOMAIN M68k |-> M68k[k]] = M68k
      <4>1. PICK N \in Nat : DOMAIN M68k = 1..N /\ M68k \in [1..N -> Nat]
        BY <1>1, LenProperties, ElementOfSeq
      <4>2. QED
        BY <4>1
    <3>4. QED
      BY <3>2, <3>3
  <2>4. OneArchRunsOn(M68k, h) <=> FoldName(h) \in {M68k} \cup Emulating
    BY <1>1, <2>3 DEF OneArchRunsOn
  <2>5. RunsHere(list, host) <=> FoldName(h) \in {M68k} \cup Emulating
    BY <1>6 DEF RunsHere, h
  <2>6. SomeNameRuns(M68k, h) \in BOOLEAN /\ RunsHere(list, host) \in BOOLEAN
    BY <1>6 DEF SomeNameRuns, RunsHere
  <2>7. QED
    BY <1>3, <1>4, <2>1, <2>2, <2>4, <2>5, <2>6
<1>7. QED
  BY <1>5, <1>6

-----------------------------------------------------------------------------
\* The run's property, for texts, lists and hosts of any length over any characters.
AnyVersionInput ==
    \/ input \in [topic : {"versions"}, a : Seq(Nat), b : Seq(Nat)]
    \/ input \in [topic : {"arch"}, list : Seq(Nat), host : Seq(Nat)]

THEOREM VersionsOrderedAlways == AnyVersionInput => VersionsOrdered
<1>1. CASE input \in [topic : {"versions"}, a : Seq(Nat), b : Seq(Nat)]
  <2>1. input.topic = "versions" /\ input.a \in Seq(Nat) /\ input.b \in Seq(Nat)
    BY <1>1
  <2>2. Sensible(input.a, input.b)
    BY <2>1, EveryVersionSensible
  <2>3. Texts({48, 49, 66, 97, 46}, 2) \subseteq Seq(Nat)
    <3> SUFFICES ASSUME NEW k \in 0..2, NEW c \in [1..k -> {48, 49, 66, 97, 46}] PROVE c \in Seq(Nat)
      BY DEF Texts
    <3>1. k \in Nat /\ c \in [1..k -> Nat]
      OBVIOUS
    <3>2. QED
      BY <3>1, Mapped
  <2>4. \A c \in Texts({48, 49, 66, 97, 46}, 2) : Ordered(input.a, input.b, c)
    BY <2>1, <2>3, VersionsTotallyPreordered
  <2>5. QED
    BY <2>1, <2>2, <2>4 DEF VersionsOrdered
<1>2. CASE input \in [topic : {"arch"}, list : Seq(Nat), host : Seq(Nat)]
  <2>1. input.topic = "arch" /\ input.list \in Seq(Nat) /\ input.host \in Seq(Nat)
    BY <1>2
  <2>2. QED
    BY <2>1, EveryArchListByNames DEF VersionsOrdered
<1>3. QED
  BY <1>1, <1>2 DEF AnyVersionInput

-----------------------------------------------------------------------------
(***************************************************************************)
(* The glob loop.  Rest(pat, str, i, j): the pattern from i on means the   *)
(* text from j on.                                                         *)
(***************************************************************************)
Piece(pat, str, cut, k) ==
    IF pat[k] = Star THEN cut[k - 1] <= cut[k]
    ELSE cut[k] = cut[k - 1] + 1 /\ Fits(pat[k], str[cut[k]])

Cuts(pat, str, cut, i, j) ==
    /\ cut \in [(i - 1)..Len(pat) -> 0..Len(str)]
    /\ cut[i - 1] = j - 1 /\ cut[Len(pat)] = Len(str)
    /\ \A k \in i..Len(pat) : Piece(pat, str, cut, k)

Rest(pat, str, i, j) == \E cut : Cuts(pat, str, cut, i, j)

LEMMA RestFromStart ==
    ASSUME NEW pat \in Seq(Nat), NEW str \in Seq(Nat)
    PROVE  Means(pat, str) <=> Rest(pat, str, 1, 1)
<1>1. Len(pat) \in Nat /\ DOMAIN pat = 1..Len(pat) /\ Len(str) \in Nat
  BY LenProperties
<1>2. 1 - 1 = 0
  OBVIOUS
<1>3. \A cut : Cuts(pat, str, cut, 1, 1) <=>
          /\ cut \in [0..Len(pat) -> 0..Len(str)]
          /\ cut[0] = 0 /\ cut[Len(pat)] = Len(str)
          /\ \A k \in DOMAIN pat : Piece(pat, str, cut, k)
  BY <1>1, <1>2 DEF Cuts
<1>4. QED
  BY <1>3 DEF Means, Rest, Piece

LEMMA CutsGrow ==
    ASSUME NEW pat \in Seq(Nat), NEW str \in Seq(Nat), NEW i \in 1..(Len(pat) + 1), NEW j,
           NEW cut, Cuts(pat, str, cut, i, j), NEW k \in (i - 1)..Len(pat)
    PROVE  cut[k] >= j - 1
<1> DEFINE T == {n \in Nat : i - 1 + n <= Len(pat) => cut[i - 1 + n] >= j - 1}
<1>1. Len(pat) \in Nat /\ Len(str) \in Nat
  BY LenProperties
<1>2. \A n \in (i - 1)..Len(pat) : cut[n] \in Int
  <2>1. cut \in [(i - 1)..Len(pat) -> 0..Len(str)] /\ 0..Len(str) \subseteq Int
    BY <1>1 DEF Cuts
  <2>2. QED
    BY <2>1
<1>3. 0 \in T
  <2>1. i - 1 + 0 = i - 1 /\ i - 1 \in (i - 1)..Len(pat)
    <3>1. i - 1 \in (i - 1)..Len(pat) /\ i \in Int
      BY <1>1, WithOneBefore
    <3>2. QED
      BY <3>1
  <2>2. cut[i - 1] = j - 1 /\ cut[i - 1] \in Int
    BY <1>2, <2>1 DEF Cuts
  <2>3. cut[i - 1 + 0] >= j - 1
    BY <2>1, <2>2
  <2>4. QED
    BY <2>3
<1>4. ASSUME NEW n \in Nat, n \in T PROVE n + 1 \in T
  <2> SUFFICES ASSUME i - 1 + (n + 1) <= Len(pat) PROVE cut[i - 1 + (n + 1)] >= j - 1
    OBVIOUS
  <2>1. PICK m \in i..Len(pat) : m = i - 1 + (n + 1) /\ m - 1 = i - 1 + n
    BY <1>1
  <2>2. cut[m - 1] >= j - 1
    BY <1>1, <1>4, <2>1
  <2>3. cut[m - 1] <= cut[m]
    <3>1. Piece(pat, str, cut, m)
      BY <2>1 DEF Cuts
    <3>2. m - 1 \in (i - 1)..Len(pat) /\ m \in (i - 1)..Len(pat)
      BY <1>1, <2>1, WithOneBefore
    <3>3. cut[m - 1] \in Int /\ cut[m] \in Int
      BY <1>2, <3>2
    <3>4. cut[m - 1] <= cut[m] \/ cut[m] = cut[m - 1] + 1
      BY <3>1 DEF Piece
    <3>5. \A a, b \in Int : a <= b \/ b = a + 1 => a <= b
      OBVIOUS
    <3>6. QED
      BY <3>3, <3>4, <3>5
  <2>4. cut[m] \in Int /\ cut[m - 1] \in Int /\ j - 1 \in Int
    <3>1. m - 1 \in (i - 1)..Len(pat) /\ m \in (i - 1)..Len(pat) /\ i - 1 \in (i - 1)..Len(pat)
      BY <1>1, <2>1, WithOneBefore
    <3>2. cut[i - 1] = j - 1
      BY DEF Cuts
    <3>3. cut[i - 1] \in Int /\ cut[m] \in Int /\ cut[m - 1] \in Int
      BY <1>2, <3>1
    <3>4. QED
      BY <3>2, <3>3
  <2>5. QED
    BY <2>1, <2>2, <2>3, <2>4
<1> HIDE DEF T
<1>5. Nat \subseteq T
  BY <1>3, <1>4, Induct
<1>6. PICK n \in Nat : n = k - (i - 1) /\ k = i - 1 + n
  BY <1>1
<1>7. n \in T
  BY <1>5
<1>8. QED
  BY <1>6, <1>7 DEF T

\* At the end of the text only stars mean the rest of it.
LEMMA RestAtEnd ==
    ASSUME NEW pat \in Seq(Nat), NEW str \in Seq(Nat), NEW i \in 1..(Len(pat) + 1)
    PROVE  Rest(pat, str, i, Len(str) + 1) <=> \A k \in i..Len(pat) : pat[k] = Star
<1>1. Len(pat) \in Nat /\ Len(str) \in Nat
  BY LenProperties
<1>2. ASSUME \A k \in i..Len(pat) : pat[k] = Star PROVE Rest(pat, str, i, Len(str) + 1)
  <2> DEFINE cut == [k \in (i - 1)..Len(pat) |-> Len(str)]
  <2>1. Cuts(pat, str, cut, i, Len(str) + 1)
    BY <1>1, <1>2 DEF Cuts, Piece
  <2>2. QED
    BY <2>1 DEF Rest
<1>3. ASSUME NEW cut, Cuts(pat, str, cut, i, Len(str) + 1), NEW k \in i..Len(pat)
      PROVE  pat[k] = Star
  <2>1. k \in (i - 1)..Len(pat) /\ k - 1 \in (i - 1)..Len(pat)
    BY <1>1
  <2>2. cut[k - 1] >= Len(str)
    <3>1. PICK j : j = Len(str) + 1
      OBVIOUS
    <3>2. cut[k - 1] >= j - 1
      BY <1>3, <2>1, <3>1, CutsGrow
    <3>3. j - 1 = Len(str)
      BY <1>1, <3>1
    <3>4. QED
      BY <3>2, <3>3
  <2>3. cut[k] \in 0..Len(str) /\ cut[k - 1] \in 0..Len(str)
    BY <1>3, <2>1 DEF Cuts
  <2>4. ~(cut[k] = cut[k - 1] + 1)
    BY <1>1, <2>2, <2>3
  <2>5. QED
    BY <1>3, <2>4 DEF Cuts, Piece
<1>4. QED
  BY <1>2, <1>3 DEF Rest

\* A character of the pattern that is no star takes the next of the text.
LEMMA RestAtChar ==
    ASSUME NEW pat \in Seq(Nat), NEW str \in Seq(Nat), NEW i \in 1..Len(pat), NEW j \in 1..Len(str),
           pat[i] # Star
    PROVE  Rest(pat, str, i, j) <=> Fits(pat[i], str[j]) /\ Rest(pat, str, i + 1, j + 1)
<1>1. Len(pat) \in Nat /\ Len(str) \in Nat
  BY LenProperties
<1>2. ASSUME NEW cut, Cuts(pat, str, cut, i, j)
      PROVE  Fits(pat[i], str[j]) /\ Rest(pat, str, i + 1, j + 1)
  <2>1. cut[i] = cut[i - 1] + 1 /\ Fits(pat[i], str[cut[i]]) /\ cut[i - 1] = j - 1
    BY <1>1, <1>2 DEF Cuts, Piece
  <2>2. cut[i] = j
    BY <1>1, <2>1
  <2> DEFINE new == [k \in ((i + 1) - 1)..Len(pat) |-> cut[k]]
  <2>3. Cuts(pat, str, new, i + 1, j + 1)
    <3>1. new \in [((i + 1) - 1)..Len(pat) -> 0..Len(str)]
      BY <1>1, <1>2 DEF Cuts
    <3>2. new[(i + 1) - 1] = (j + 1) - 1 /\ new[Len(pat)] = Len(str)
      BY <1>1, <1>2, <2>2 DEF Cuts
    <3>3. ASSUME NEW k \in (i + 1)..Len(pat) PROVE Piece(pat, str, new, k)
      <4>1. new[k] = cut[k] /\ new[k - 1] = cut[k - 1] /\ k \in i..Len(pat)
        BY <1>1
      <4>2. Piece(pat, str, cut, k)
        BY <1>2, <4>1 DEF Cuts
      <4>3. QED
        BY <4>1, <4>2 DEF Piece
    <3>4. QED
      BY <3>1, <3>2, <3>3 DEF Cuts
  <2>4. QED
    BY <2>1, <2>2, <2>3 DEF Rest
<1>3. ASSUME Fits(pat[i], str[j]), NEW cut, Cuts(pat, str, cut, i + 1, j + 1)
      PROVE  Rest(pat, str, i, j)
  <2> DEFINE new == [k \in (i - 1)..Len(pat) |-> IF k = i - 1 THEN j - 1 ELSE cut[k]]
  <2>1. cut \in [i..Len(pat) -> 0..Len(str)] /\ cut[i] = j /\ cut[Len(pat)] = Len(str)
    BY <1>1, <1>3 DEF Cuts
  <2>2. \A k \in (i - 1)..Len(pat) : k = i - 1 \/ k \in i..Len(pat)
    BY <1>1
  <2>3. new \in [(i - 1)..Len(pat) -> 0..Len(str)] /\ new[i - 1] = j - 1 /\ new[Len(pat)] = Len(str)
    <3>1. j - 1 \in 0..Len(str)
      BY <1>1
    <3>2. \A k \in i..Len(pat) : cut[k] \in 0..Len(str)
      BY <2>1
    <3>3. \A k \in (i - 1)..Len(pat) : (IF k = i - 1 THEN j - 1 ELSE cut[k]) \in 0..Len(str)
      BY <2>2, <3>1, <3>2
    <3>4. i - 1 \in (i - 1)..Len(pat) /\ Len(pat) \in (i - 1)..Len(pat) /\ Len(pat) # i - 1
      BY <1>1
    <3>5. QED
      BY <2>1, <3>3, <3>4
  <2>4. ASSUME NEW k \in i..Len(pat) PROVE Piece(pat, str, new, k)
    <3>1. CASE k = i
      <4>1. new[k] = j /\ new[k - 1] = j - 1
        BY <1>1, <2>1, <3>1
      <4>2. QED
        BY <1>3, <3>1, <4>1 DEF Piece
    <3>2. CASE k # i
      <4>1. k \in (i + 1)..Len(pat) /\ new[k] = cut[k] /\ new[k - 1] = cut[k - 1]
        BY <1>1, <3>2
      <4>2. Piece(pat, str, cut, k)
        BY <1>3, <4>1 DEF Cuts
      <4>3. QED
        BY <4>1, <4>2 DEF Piece
    <3>3. QED
      BY <3>1, <3>2
  <2>5. Cuts(pat, str, new, i, j)
    BY <2>3, <2>4 DEF Cuts
  <2>6. QED
    BY <2>5 DEF Rest
<1>4. QED
  BY <1>2, <1>3 DEF Rest

\* A star takes any piece.
LEMMA RestAtStar ==
    ASSUME NEW pat \in Seq(Nat), NEW str \in Seq(Nat), NEW i \in 1..Len(pat),
           NEW j \in 1..(Len(str) + 1), pat[i] = Star
    PROVE  Rest(pat, str, i, j) <=> \E m \in j..(Len(str) + 1) : Rest(pat, str, i + 1, m)
<1>1. Len(pat) \in Nat /\ Len(str) \in Nat
  BY LenProperties
<1>2. ASSUME NEW cut, Cuts(pat, str, cut, i, j)
      PROVE  \E m \in j..(Len(str) + 1) : Rest(pat, str, i + 1, m)
  <2> DEFINE new == [k \in ((i + 1) - 1)..Len(pat) |-> cut[k]]
  <2>1. cut[i] \in 0..Len(str) /\ cut[i - 1] <= cut[i] /\ cut[i - 1] = j - 1
    <3>1. i \in i..Len(pat) /\ i \in (i - 1)..Len(pat)
      BY <1>1
    <3>2. Piece(pat, str, cut, i) /\ cut[i] \in 0..Len(str) /\ cut[i - 1] = j - 1
      BY <1>2, <3>1 DEF Cuts
    <3>3. QED
      BY <3>2 DEF Piece
  <2>2. PICK m \in j..(Len(str) + 1) : m = cut[i] + 1
    BY <1>1, <2>1
  <2>3. Cuts(pat, str, new, i + 1, m)
    <3>1. new \in [((i + 1) - 1)..Len(pat) -> 0..Len(str)]
      BY <1>1, <1>2 DEF Cuts
    <3>2. new[(i + 1) - 1] = m - 1 /\ new[Len(pat)] = Len(str)
      BY <1>1, <1>2, <2>1, <2>2 DEF Cuts
    <3>3. ASSUME NEW k \in (i + 1)..Len(pat) PROVE Piece(pat, str, new, k)
      <4>1. new[k] = cut[k] /\ new[k - 1] = cut[k - 1] /\ k \in i..Len(pat)
        BY <1>1
      <4>2. Piece(pat, str, cut, k)
        BY <1>2, <4>1 DEF Cuts
      <4>3. QED
        BY <4>1, <4>2 DEF Piece
    <3>4. QED
      BY <3>1, <3>2, <3>3 DEF Cuts
  <2>4. QED
    BY <2>3 DEF Rest
<1>3. ASSUME NEW m \in j..(Len(str) + 1), NEW cut, Cuts(pat, str, cut, i + 1, m)
      PROVE  Rest(pat, str, i, j)
  <2> DEFINE new == [k \in (i - 1)..Len(pat) |-> IF k = i - 1 THEN j - 1 ELSE cut[k]]
  <2>1. cut \in [i..Len(pat) -> 0..Len(str)] /\ cut[i] = m - 1 /\ cut[Len(pat)] = Len(str)
    BY <1>1, <1>3 DEF Cuts
  <2>2. \A k \in (i - 1)..Len(pat) : k = i - 1 \/ k \in i..Len(pat)
    BY <1>1
  <2>3. new \in [(i - 1)..Len(pat) -> 0..Len(str)] /\ new[i - 1] = j - 1 /\ new[Len(pat)] = Len(str)
    <3>1. j - 1 \in 0..Len(str)
      BY <1>1
    <3>2. \A k \in i..Len(pat) : cut[k] \in 0..Len(str)
      BY <2>1
    <3>3. \A k \in (i - 1)..Len(pat) : (IF k = i - 1 THEN j - 1 ELSE cut[k]) \in 0..Len(str)
      BY <2>2, <3>1, <3>2
    <3>4. i - 1 \in (i - 1)..Len(pat) /\ Len(pat) \in (i - 1)..Len(pat) /\ Len(pat) # i - 1
      BY <1>1
    <3>5. QED
      BY <2>1, <3>3, <3>4
  <2>4. ASSUME NEW k \in i..Len(pat) PROVE Piece(pat, str, new, k)
    <3>1. CASE k = i
      <4>1. new[k] = m - 1 /\ new[k - 1] = j - 1
        BY <1>1, <2>1, <3>1
      <4>2. QED
        BY <1>1, <3>1, <4>1 DEF Piece
    <3>2. CASE k # i
      <4>1. k \in (i + 1)..Len(pat) /\ new[k] = cut[k] /\ new[k - 1] = cut[k - 1]
        BY <1>1, <3>2
      <4>2. Piece(pat, str, cut, k)
        BY <1>3, <4>1 DEF Cuts
      <4>3. QED
        BY <4>1, <4>2 DEF Piece
    <3>3. QED
      BY <3>1, <3>2
  <2>5. Cuts(pat, str, new, i, j)
    BY <2>3, <2>4 DEF Cuts
  <2>6. QED
    BY <2>5 DEF Rest
<1>4. QED
  BY <1>2, <1>3 DEF Rest

\* Past its end the pattern means no text but the empty one.
LEMMA RestNone ==
    ASSUME NEW pat \in Seq(Nat), NEW str \in Seq(Nat), NEW j \in 1..Len(str)
    PROVE  ~Rest(pat, str, Len(pat) + 1, j)
<1>1. Len(pat) \in Nat /\ Len(str) \in Nat
  BY LenProperties
<1>2. ASSUME NEW cut, Cuts(pat, str, cut, Len(pat) + 1, j) PROVE FALSE
  <2>1. (Len(pat) + 1) - 1 = Len(pat) /\ j - 1 # Len(str)
    BY <1>1
  <2>2. QED
    BY <1>2, <2>1 DEF Cuts
<1>3. QED
  BY <1>2 DEF Rest

\* A star takes nothing, or one character and then any piece.
LEMMA StarOnce ==
    ASSUME NEW pat \in Seq(Nat), NEW str \in Seq(Nat), NEW i \in 1..Len(pat),
           NEW j \in 1..(Len(str) + 1), pat[i] = Star
    PROVE  Rest(pat, str, i, j) <=> Rest(pat, str, i + 1, j) \/ (j <= Len(str) /\ Rest(pat, str, i, j + 1))
<1>1. Len(str) \in Nat
  BY LenProperties
<1>2. \A k \in 1..(Len(str) + 1) :
          Rest(pat, str, i, k) <=> \E m \in k..(Len(str) + 1) : Rest(pat, str, i + 1, m)
  BY RestAtStar
<1>3. j <= Len(str) => j + 1 \in 1..(Len(str) + 1)
  BY <1>1
<1>4. \A m \in j..(Len(str) + 1) : m = j \/ (j <= Len(str) /\ m \in (j + 1)..(Len(str) + 1))
  BY <1>1
<1>5. (j + 1)..(Len(str) + 1) \subseteq j..(Len(str) + 1) /\ j \in j..(Len(str) + 1)
  BY <1>1
<1>6. QED
  BY <1>2, <1>3, <1>4, <1>5

\* A piece of the pattern without stars takes as many characters as it has.
LEMMA RestAfterPlain ==
    ASSUME NEW pat \in Seq(Nat), NEW str \in Seq(Nat), NEW a \in 1..(Len(pat) + 1),
           NEW i \in a..(Len(pat) + 1), NEW m \in 1..(Len(str) + 1),
           \A k \in a..(i - 1) : pat[k] # Star, Rest(pat, str, a, m)
    PROVE  m + (i - a) <= Len(str) + 1 /\ Rest(pat, str, i, m + (i - a))
<1> DEFINE Good(n) == m + n <= Len(str) + 1 /\ Rest(pat, str, a + n, m + n)
    T == {n \in Nat : n <= i - a => Good(n)}
<1>1. Len(pat) \in Nat /\ Len(str) \in Nat
  BY LenProperties
<1>2. 0 \in T
  <2>1. a + 0 = a /\ m + 0 = m /\ m <= Len(str) + 1
    BY <1>1
  <2>2. QED
    BY <2>1
<1>3. ASSUME NEW n \in Nat, n \in T PROVE n + 1 \in T
  <2> SUFFICES ASSUME n + 1 <= i - a PROVE Good(n + 1)
    OBVIOUS
  <2>1. PICK k \in a..(i - 1) : k = a + n /\ k + 1 = a + (n + 1) /\ k \in 1..Len(pat)
    BY <1>1
  <2>2. PICK j \in 1..(Len(str) + 1) : j = m + n /\ j + 1 = m + (n + 1)
    <3>1. n <= i - a
      BY <1>1
    <3>2. m + n <= Len(str) + 1
      BY <1>3, <3>1
    <3>3. QED
      BY <1>1, <3>2
  <2>3. Rest(pat, str, k, j) /\ pat[k] # Star
    <3>1. n <= i - a
      BY <1>1
    <3>2. QED
      BY <1>3, <2>1, <2>2, <3>1
  <2>4. j # Len(str) + 1
    <3>1. k \in k..Len(pat) /\ k \in 1..(Len(pat) + 1)
      BY <1>1, <2>1
    <3>2. QED
      BY <2>3, <3>1, RestAtEnd
  <2>5. j \in 1..Len(str)
    BY <1>1, <2>2, <2>4
  <2>6. Rest(pat, str, k + 1, j + 1)
    BY <2>1, <2>3, <2>5, RestAtChar
  <2>7. j + 1 <= Len(str) + 1
    BY <1>1, <2>5
  <2>8. QED
    BY <2>1, <2>2, <2>6, <2>7
<1> HIDE DEF T
<1>4. PICK n \in Nat : n = i - a /\ a + n = i
  BY <1>1
<1>5. n \in T
  BY <1>2, <1>3, Induct
<1>6. QED
  BY <1>4, <1>5 DEF T

-----------------------------------------------------------------------------
(***************************************************************************)
(* What holds between the turns of the loop: the answer, if any, is right; *)
(* before the first star the question is what the rest means, and after it *)
(* that or whether the last star can take more.                            *)
(***************************************************************************)
States(pat, str) ==
    [i : 1..(Len(pat) + 1), j : 1..(Len(str) + 1), star : 0..Len(pat), from : 0..(Len(str) + 1),
     answer : {"none", "yes", "no"}]

Held(pat, x) ==
    IF x.star = 0 THEN x.from = 0
    ELSE /\ x.star < x.i /\ pat[x.star] = Star
         /\ x.from \in 1..x.j /\ x.j - x.from = x.i - (x.star + 1)
         /\ \A k \in (x.star + 1)..(x.i - 1) : pat[k] # Star

More(pat, str, x) ==
    x.star # 0 /\ x.from <= Len(str) /\ Rest(pat, str, x.star, x.from + 1)

Right(pat, str, x) ==
    CASE x.answer = "yes"  -> Means(pat, str)
      [] x.answer = "no"   -> ~Means(pat, str)
      [] x.answer = "none" -> Means(pat, str) <=> Rest(pat, str, x.i, x.j) \/ More(pat, str, x)

Kept(pat, str) == {x \in States(pat, str) : Held(pat, x) /\ Right(pat, str, x)}

\* What the last star could still take leaves room for what came after it.
LEMMA MoreGoesOn ==
    ASSUME NEW pat \in Seq(Nat), NEW str \in Seq(Nat), NEW x \in States(pat, str), Held(pat, x),
           More(pat, str, x)
    PROVE  \E m \in (x.j + 1)..(Len(str) + 1) : Rest(pat, str, x.i, m)
<1>1. Len(pat) \in Nat /\ Len(str) \in Nat
  BY LenProperties
<1>2. /\ x.i \in 1..(Len(pat) + 1) /\ x.j \in 1..(Len(str) + 1)
      /\ x.star \in 0..Len(pat) /\ x.from \in 0..(Len(str) + 1)
  BY DEF States
<1>3. /\ x.star \in 1..Len(pat) /\ x.from \in 1..Len(str) /\ Rest(pat, str, x.star, x.from + 1)
      /\ x.star < x.i /\ pat[x.star] = Star /\ x.j - x.from = x.i - (x.star + 1)
      /\ \A k \in (x.star + 1)..(x.i - 1) : pat[k] # Star
  BY <1>1, <1>2 DEF Held, More
<1>4. PICK a \in 1..(Len(pat) + 1) : a = x.star + 1 /\ x.i \in a..(Len(pat) + 1)
  <2>1. x.star + 1 \in 1..(Len(pat) + 1)
    BY <1>1, <1>3, UpOne
  <2>2. x.i \in (x.star + 1)..(Len(pat) + 1)
    <3>1. x.star \in Int /\ x.star < x.i
      BY <1>3
    <3>2. QED
      BY <1>1, <1>2, <3>1
  <2>3. QED
    BY <2>1, <2>2
<1>5. PICK j \in 1..(Len(str) + 1) : j = x.from + 1
  BY <1>1, <1>3, UpOne
<1>6. PICK n \in j..(Len(str) + 1) : Rest(pat, str, a, n)
  BY <1>3, <1>4, <1>5, RestAtStar
<1>7. n \in 1..(Len(str) + 1) /\ \A k \in a..(x.i - 1) : pat[k] # Star
  BY <1>1, <1>3, <1>4, <1>5
<1>8. n + (x.i - a) <= Len(str) + 1 /\ Rest(pat, str, x.i, n + (x.i - a))
  BY <1>4, <1>6, <1>7, RestAfterPlain
<1>9. n + (x.i - a) \in (x.j + 1)..(Len(str) + 1)
  <2>1. n \in Int /\ n >= x.from + 1
    BY <1>5, <1>6, <1>7
  <2>2. x.i \in Int /\ x.j \in Int /\ x.from \in Int /\ x.star \in Int
    BY <1>2
  <2>3. x.i - a = x.j - x.from
    BY <1>3, <1>4
  <2>4. n + (x.i - a) >= x.j + 1 /\ n + (x.i - a) \in Int
    <3>1. a \in Int
      BY <1>4, <2>2
    <3>2. QED
      BY <2>1, <2>2, <2>3, <3>1, Shifted
  <2>5. QED
    BY <1>1, <1>8, <2>2, <2>4
<1>10. QED
  BY <1>8, <1>9

\* The four ways a turn goes on, and the two ways it ends.
AtEnd(str, x) == x.j > Len(str)
AtStar(pat, str, x) == ~AtEnd(str, x) /\ x.i <= Len(pat) /\ pat[x.i] = Star
AtChar(pat, str, x) ==
    ~AtEnd(str, x) /\ x.i <= Len(pat) /\ pat[x.i] # Star /\ Fits(pat[x.i], str[x.j])
Stuck(pat, str, x) ==
    ~AtEnd(str, x) /\ (x.i <= Len(pat) => pat[x.i] # Star /\ ~Fits(pat[x.i], str[x.j]))

LEMMA StuckMeansNothing ==
    ASSUME NEW pat \in Seq(Nat), NEW str \in Seq(Nat), NEW x \in States(pat, str), Stuck(pat, str, x)
    PROVE  ~Rest(pat, str, x.i, x.j)
<1>1. Len(pat) \in Nat /\ Len(str) \in Nat
  BY LenProperties
<1>2. x.i \in 1..(Len(pat) + 1) /\ x.j \in 1..(Len(str) + 1)
  BY DEF States
<1>3. x.j \in 1..Len(str)
  BY <1>1, <1>2 DEF Stuck, AtEnd
<1>4. CASE x.i = Len(pat) + 1
  BY <1>3, <1>4, RestNone
<1>5. CASE x.i # Len(pat) + 1
  <2>1. x.i \in 1..Len(pat) /\ x.i <= Len(pat)
    BY <1>1, <1>2, <1>5
  <2>2. pat[x.i] # Star /\ ~Fits(pat[x.i], str[x.j])
    BY <2>1 DEF Stuck
  <2>3. QED
    BY <1>3, <2>1, <2>2, RestAtChar
<1>6. QED
  BY <1>4, <1>5

LEMMA EndKept ==
    ASSUME NEW pat \in Seq(Nat), NEW str \in Seq(Nat), NEW x \in Kept(pat, str),
           x.answer = "none", AtEnd(str, x)
    PROVE  Turn(pat, str, x) \in Kept(pat, str) /\ Turn(pat, str, x).answer # "none"
<1>1. Len(pat) \in Nat /\ Len(str) \in Nat
  BY LenProperties
<1>2. /\ x \in States(pat, str) /\ Held(pat, x)
      /\ Means(pat, str) <=> Rest(pat, str, x.i, x.j) \/ More(pat, str, x)
  BY DEF Kept, Right
<1>3. x.i \in 1..(Len(pat) + 1) /\ x.j \in 1..(Len(str) + 1)
  BY <1>2 DEF States
<1>4. x.j = Len(str) + 1
  BY <1>1, <1>3 DEF AtEnd
<1>5. Rest(pat, str, x.i, x.j) <=> \A k \in x.i..Len(pat) : pat[k] = Star
  BY <1>3, <1>4, RestAtEnd
<1>6. ~More(pat, str, x)
  <2>1. (x.j + 1)..(Len(str) + 1) = {}
    BY <1>1, <1>4
  <2>2. QED
    BY <1>2, <2>1, MoreGoesOn
<1> DEFINE end == IF \A k \in x.i..Len(pat) : pat[k] = Star THEN "yes" ELSE "no"
    y == [x EXCEPT !.answer = end]
<1>7. Turn(pat, str, x) = y
  BY DEF Turn, AtEnd
<1>8. end \in {"yes", "no"} /\ (end = "yes" <=> Means(pat, str))
  BY <1>2, <1>5, <1>6
<1> HIDE DEF end
<1>9. /\ y \in States(pat, str) /\ y.answer = end
      /\ y.i = x.i /\ y.j = x.j /\ y.star = x.star /\ y.from = x.from
  BY <1>2, <1>8 DEF States
<1> HIDE DEF y
<1>10. Held(pat, y) /\ Right(pat, str, y)
  BY <1>2, <1>8, <1>9 DEF Held, Right
<1>11. QED
  BY <1>7, <1>8, <1>9, <1>10 DEF Kept

LEMMA StarKept ==
    ASSUME NEW pat \in Seq(Nat), NEW str \in Seq(Nat), NEW x \in Kept(pat, str),
           x.answer = "none", AtStar(pat, str, x)
    PROVE  Turn(pat, str, x) \in Kept(pat, str)
<1>1. Len(pat) \in Nat /\ Len(str) \in Nat
  BY LenProperties
<1>2. /\ x \in States(pat, str) /\ Held(pat, x)
      /\ Means(pat, str) <=> Rest(pat, str, x.i, x.j) \/ More(pat, str, x)
  BY DEF Kept, Right
<1>3. x.i \in 1..Len(pat) /\ x.j \in 1..Len(str) /\ pat[x.i] = Star
  <2>1. x.i \in 1..(Len(pat) + 1) /\ x.j \in 1..(Len(str) + 1)
    BY <1>2 DEF States
  <2>2. QED
    BY <1>1, <2>1 DEF AtStar, AtEnd
<1> DEFINE y == [x EXCEPT !.i = x.i + 1, !.star = x.i, !.from = x.j]
<1>4. Turn(pat, str, x) = y
  BY <1>3 DEF Turn, AtStar, AtEnd
<1>5. /\ y \in States(pat, str) /\ y.answer = "none"
      /\ y.i = x.i + 1 /\ y.j = x.j /\ y.star = x.i /\ y.from = x.j
  <2>1. x.i + 1 \in 1..(Len(pat) + 1) /\ x.i \in 0..Len(pat) /\ x.j \in 0..(Len(str) + 1)
    BY <1>1, <1>3, UpOne
  <2>2. QED
    BY <1>2, <2>1 DEF States
<1> HIDE DEF y
<1>6. Held(pat, y)
  <2>0. PICK a \in Nat, c \in Nat : a = x.i /\ c = x.j /\ a # 0 /\ c # 0
    <3>1. \A n \in Nat : \A k \in 1..n : k \in Nat /\ k # 0
      BY UpOne
    <3>2. QED
      BY <1>1, <1>3, <3>1
  <2>01. y.i = a + 1 /\ y.star = a /\ y.j = c /\ y.from = c /\ pat[a] = Star
    BY <1>3, <1>5, <2>0
  <2>02. a < a + 1 /\ c \in 1..c /\ (a + 1)..((a + 1) - 1) = {} /\ c - c = 0 /\ (a + 1) - (a + 1) = 0
    BY <2>0, AtOwn
  <2>1. y.star # 0 /\ y.star < y.i /\ pat[y.star] = Star /\ y.from \in 1..y.j
    BY <2>0, <2>01, <2>02
  <2>2. y.j - y.from = y.i - (y.star + 1) /\ (y.star + 1)..(y.i - 1) = {}
    BY <2>01, <2>02
  <2>3. QED
    BY <2>1, <2>2 DEF Held
<1>7. More(pat, str, x) => Rest(pat, str, x.i, x.j)
  <2> SUFFICES ASSUME More(pat, str, x) PROVE Rest(pat, str, x.i, x.j)
    OBVIOUS
  <2>1. PICK m \in (x.j + 1)..(Len(str) + 1) : Rest(pat, str, x.i, m)
    BY <1>2, MoreGoesOn
  <2>2. m \in 1..(Len(str) + 1) /\ x.j \in 1..(Len(str) + 1) /\ m..(Len(str) + 1) \subseteq x.j..(Len(str) + 1)
    BY <1>1, <1>3, <2>1
  <2>3. PICK n \in m..(Len(str) + 1) : Rest(pat, str, x.i + 1, n)
    BY <1>3, <2>1, <2>2, RestAtStar
  <2>4. QED
    BY <1>3, <2>2, <2>3, RestAtStar
<1>8. Rest(pat, str, x.i, x.j) <=> Rest(pat, str, x.i + 1, x.j) \/ Rest(pat, str, x.i, x.j + 1)
  <2>1. x.j \in 1..(Len(str) + 1) /\ x.j <= Len(str)
    BY <1>1, <1>3
  <2>2. QED
    BY <1>3, <2>1, StarOnce
<1>9. More(pat, str, y) <=> Rest(pat, str, x.i, x.j + 1)
  <2>1. y.star # 0 /\ y.from <= Len(str)
    BY <1>1, <1>3, <1>5
  <2>2. QED
    BY <1>5, <2>1 DEF More
<1>10. Right(pat, str, y)
  BY <1>2, <1>5, <1>7, <1>8, <1>9 DEF Right
<1>11. QED
  BY <1>4, <1>5, <1>6, <1>10 DEF Kept

LEMMA CharKept ==
    ASSUME NEW pat \in Seq(Nat), NEW str \in Seq(Nat), NEW x \in Kept(pat, str),
           x.answer = "none", AtChar(pat, str, x)
    PROVE  Turn(pat, str, x) \in Kept(pat, str)
<1>1. Len(pat) \in Nat /\ Len(str) \in Nat
  BY LenProperties
<1>2. /\ x \in States(pat, str) /\ Held(pat, x)
      /\ Means(pat, str) <=> Rest(pat, str, x.i, x.j) \/ More(pat, str, x)
  BY DEF Kept, Right
<1>3. x.i \in 1..Len(pat) /\ x.j \in 1..Len(str) /\ pat[x.i] # Star /\ Fits(pat[x.i], str[x.j])
  <2>1. x.i \in 1..(Len(pat) + 1) /\ x.j \in 1..(Len(str) + 1)
    BY <1>2 DEF States
  <2>2. QED
    BY <1>1, <2>1 DEF AtChar, AtEnd
<1> DEFINE y == [x EXCEPT !.i = x.i + 1, !.j = x.j + 1]
<1>4. Turn(pat, str, x) = y
  BY <1>3 DEF Turn, AtChar, AtEnd
<1>5. /\ y \in States(pat, str) /\ y.answer = "none"
      /\ y.i = x.i + 1 /\ y.j = x.j + 1 /\ y.star = x.star /\ y.from = x.from
  <2>1. x.i \in 1..Len(pat) /\ x.j \in 1..Len(str)
    BY <1>3
  <2>2. x.i + 1 \in 1..(Len(pat) + 1) /\ x.j + 1 \in 1..(Len(str) + 1)
    BY <1>1, <2>1, UpOne
  <2>3. QED
    BY <1>2, <2>2 DEF States
<1> HIDE DEF y
<1>6. Held(pat, y)
  <2>1. CASE x.star = 0
    BY <1>2, <1>5, <2>1 DEF Held
  <2>2. CASE x.star # 0
    <3>1. /\ x.star < x.i /\ pat[x.star] = Star /\ x.from \in 1..x.j
          /\ x.j - x.from = x.i - (x.star + 1) /\ \A k \in (x.star + 1)..(x.i - 1) : pat[k] # Star
      BY <1>2, <2>2 DEF Held
    <3>2. x.star \in Int
      BY <1>1, <1>2 DEF States
    <3>3. x.star < y.i /\ x.from \in 1..y.j /\ y.j - x.from = y.i - (x.star + 1)
      <4>1. x.star < x.i /\ x.from \in 1..x.j /\ x.j - x.from = x.i - (x.star + 1)
        BY <3>1
      <4>2. x.i \in Int /\ x.j \in Int /\ x.from \in Int /\ x.from >= 1 /\ x.from <= x.j
        <5>1. x.i \in 1..Len(pat) /\ x.j \in 1..Len(str)
          BY <1>3
        <5>2. QED
          BY <1>1, <4>1, <5>1
      <4>3. y.i = x.i + 1 /\ y.j = x.j + 1
        BY <1>5
      <4>4. x.star < y.i
        BY <3>2, <4>1, <4>2, <4>3
      <4>5. x.from \in 1..y.j
        BY <4>2, <4>3
      <4>6. y.j - x.from = y.i - (x.star + 1)
        <5>1. PICK a, b, c, d \in Int : a = x.j /\ b = x.from /\ c = x.i /\ d = x.star
          BY <3>2, <4>2
        <5>2. a - b = c - (d + 1)
          BY <4>1, <5>1
        <5>3. (a + 1) - b = (c + 1) - (d + 1)
          BY <5>2
        <5>4. QED
          BY <4>3, <5>1, <5>3
      <4>7. QED
        BY <4>4, <4>5, <4>6
    <3>4. \A k \in (x.star + 1)..(y.i - 1) : k = x.i \/ k \in (x.star + 1)..(x.i - 1)
      BY <1>1, <1>3, <1>5, <3>2
    <3>5. \A k \in (x.star + 1)..(y.i - 1) : pat[k] # Star
      BY <1>3, <3>1, <3>4
    <3>6. y.star # 0 /\ pat[y.star] = Star /\ y.star < y.i /\ y.from \in 1..y.j
      BY <1>5, <2>2, <3>1, <3>3
    <3>7. y.j - y.from = y.i - (y.star + 1)
      BY <1>5, <3>3
    <3>8. \A k \in (y.star + 1)..(y.i - 1) : pat[k] # Star
      BY <1>5, <3>5
    <3>9. QED
      BY <3>6, <3>7, <3>8 DEF Held
  <2>3. QED
    BY <2>1, <2>2
<1>7. Rest(pat, str, x.i, x.j) <=> Rest(pat, str, y.i, y.j)
  <2>1. Rest(pat, str, x.i, x.j) <=> Rest(pat, str, x.i + 1, x.j + 1)
    BY <1>3, RestAtChar
  <2>2. QED
    BY <1>5, <2>1
<1>8. Right(pat, str, y)
  BY <1>2, <1>5, <1>7 DEF Right, More
<1>9. QED
  BY <1>4, <1>5, <1>6, <1>8 DEF Kept

LEMMA StuckKept ==
    ASSUME NEW pat \in Seq(Nat), NEW str \in Seq(Nat), NEW x \in Kept(pat, str),
           x.answer = "none", Stuck(pat, str, x)
    PROVE  Turn(pat, str, x) \in Kept(pat, str)
<1>1. Len(pat) \in Nat /\ Len(str) \in Nat
  BY LenProperties
<1>2. /\ x \in States(pat, str) /\ Held(pat, x)
      /\ Means(pat, str) <=> Rest(pat, str, x.i, x.j) \/ More(pat, str, x)
  BY DEF Kept, Right
<1>3. x.j \in 1..Len(str)
  <2>1. x.j \in 1..(Len(str) + 1)
    BY <1>2 DEF States
  <2>2. QED
    BY <1>1, <2>1 DEF Stuck, AtEnd
<1>4. Means(pat, str) <=> More(pat, str, x)
  BY <1>2, StuckMeansNothing
<1>5. CASE x.star = 0
  <2> DEFINE y == [x EXCEPT !.answer = "no"]
  <2>1. Turn(pat, str, x) = y
    BY <1>5 DEF Turn, Stuck, AtEnd
  <2>2. ~More(pat, str, x)
    BY <1>5 DEF More
  <2>3. /\ y \in States(pat, str) /\ y.answer = "no"
        /\ y.i = x.i /\ y.j = x.j /\ y.star = x.star /\ y.from = x.from
    BY <1>2 DEF States
  <2> HIDE DEF y
  <2>4. Held(pat, y) /\ Right(pat, str, y)
    BY <1>2, <1>4, <2>2, <2>3 DEF Held, Right
  <2>5. QED
    BY <2>1, <2>3, <2>4 DEF Kept
<1>6. CASE x.star # 0
  <2> DEFINE y == [x EXCEPT !.i = x.star + 1, !.j = x.from + 1, !.from = x.from + 1]
  <2>1. Turn(pat, str, x) = y
    BY <1>6 DEF Turn, Stuck, AtEnd
  <2>2. x.star \in 1..Len(pat) /\ x.from \in 1..Len(str) /\ pat[x.star] = Star
    <3>1. x.from \in 1..x.j /\ pat[x.star] = Star /\ x.star \in 0..Len(pat)
      BY <1>2, <1>6 DEF Held, States
    <3>2. QED
      BY <1>1, <1>3, <1>6, <3>1
  <2>3. /\ y \in States(pat, str) /\ y.answer = "none"
        /\ y.i = x.star + 1 /\ y.j = x.from + 1 /\ y.star = x.star /\ y.from = x.from + 1
    <3>1. x.star \in 1..Len(pat) /\ x.from \in 1..Len(str)
      BY <2>2
    <3>2. /\ x.star + 1 \in 1..(Len(pat) + 1) /\ x.from + 1 \in 1..(Len(str) + 1)
          /\ x.from + 1 \in 0..(Len(str) + 1)
      BY <1>1, <3>1, UpOne
    <3>3. QED
      BY <1>2, <3>2 DEF States
  <2> HIDE DEF y
  <2>4. Held(pat, y)
    <3>0. PICK a \in Nat, c \in Nat : a = x.star /\ c = x.from + 1 /\ a # 0 /\ c # 0
      <4>1. \A n \in Nat : \A k \in 1..n : k \in Nat /\ k # 0 /\ k + 1 \in Nat /\ k + 1 # 0
        BY UpOne
      <4>2. x.star \in Nat /\ x.star # 0 /\ x.from + 1 \in Nat /\ x.from + 1 # 0
        BY <1>1, <2>2, <4>1
      <4>3. QED
        BY <4>2
    <3>01. y.i = a + 1 /\ y.star = a /\ y.j = c /\ y.from = c /\ pat[a] = Star
      BY <2>2, <2>3, <3>0
    <3>02. a < a + 1 /\ c \in 1..c /\ (a + 1)..((a + 1) - 1) = {} /\ c - c = 0 /\ (a + 1) - (a + 1) = 0
      BY <3>0, AtOwn
    <3>1. y.star # 0 /\ y.star < y.i /\ pat[y.star] = Star /\ y.from \in 1..y.j
      BY <3>0, <3>01, <3>02
    <3>2. y.j - y.from = y.i - (y.star + 1) /\ (y.star + 1)..(y.i - 1) = {}
      BY <3>01, <3>02
    <3>3. QED
      BY <3>1, <3>2 DEF Held
  <2>5. PICK j \in 1..(Len(str) + 1) : j = x.from + 1
    <3>1. x.from + 1 \in 1..(Len(str) + 1)
      BY <1>1, <2>2
    <3>2. QED
      BY <3>1
  <2>6. More(pat, str, x) <=> Rest(pat, str, x.star, j)
    <3>1. x.from <= Len(str)
      BY <1>1, <2>2
    <3>2. QED
      BY <1>6, <2>5, <3>1 DEF More
  <2>7. Rest(pat, str, x.star, j) <=>
            Rest(pat, str, x.star + 1, j) \/ (j <= Len(str) /\ Rest(pat, str, x.star, j + 1))
    BY <2>2, StarOnce
  <2>8. More(pat, str, y) <=> j <= Len(str) /\ Rest(pat, str, x.star, j + 1)
    BY <1>6, <2>3, <2>5 DEF More
  <2>9. Rest(pat, str, y.i, y.j) <=> Rest(pat, str, x.star + 1, j)
    BY <2>3, <2>5
  <2>10. Right(pat, str, y)
    BY <1>4, <2>3, <2>6, <2>7, <2>8, <2>9 DEF Right
  <2>11. QED
    BY <2>1, <2>3, <2>4, <2>10 DEF Kept
<1>7. QED
  BY <1>5, <1>6

-----------------------------------------------------------------------------
(***************************************************************************)
(* The loop ends: with each turn a star has taken more, or one gets on in  *)
(* the pattern or the text.                                                *)
(***************************************************************************)
LEMMA Times == \A a, b, k \in Nat : a < b => a * k + k <= b * k /\ a * k \in Nat /\ b * k \in Nat
<1> SUFFICES ASSUME NEW a \in Nat, NEW b \in Nat, NEW k \in Nat, a < b
             PROVE  a * k + k <= b * k /\ a * k \in Nat /\ b * k \in Nat
  OBVIOUS
<1>1. PICK c \in Nat : c = b - a - 1 /\ b = a + 1 + c
  OBVIOUS
<1>2. a * k \in Nat /\ b * k \in Nat /\ c * k \in Nat
  OBVIOUS
<1>3. b * k = a * k + k + c * k
  BY <1>1
<1>4. QED
  BY <1>2, <1>3

Left(pat, str, x) ==
    (Len(str) + 1 - x.from) * (Len(pat) + Len(str) + 1)
        + ((Len(pat) + 1 - x.i) + (Len(str) + 1 - x.j))

LEMMA Fewer ==
    ASSUME NEW p \in Nat, NEW q \in Nat, NEW f \in 0..(q + 1), NEW g \in 0..(q + 1),
           NEW i \in 1..(p + 1), NEW j \in 1..(q + 1), NEW m \in 1..(p + 1), NEW n \in 1..(q + 1),
           g > f \/ (g = f /\ m + n > i + j)
    PROVE  (q + 1 - g) * (p + q + 1) + ((p + 1 - m) + (q + 1 - n))
               < (q + 1 - f) * (p + q + 1) + ((p + 1 - i) + (q + 1 - j))
<1>1. PICK a, b, k \in Nat : a = q + 1 - g /\ b = q + 1 - f /\ k = p + q + 1
  OBVIOUS
<1>2. PICK u, v \in Nat : u = (p + 1 - m) + (q + 1 - n) /\ v = (p + 1 - i) + (q + 1 - j) /\ u < k
  BY <1>1
<1>3. CASE g > f
  <2>1. a < b
    BY <1>1, <1>3
  <2>2. a * k + k <= b * k /\ a * k \in Nat /\ b * k \in Nat
    BY <2>1, Times
  <2>3. a * k + u < b * k + v
    BY <1>2, <2>2
  <2>4. QED
    BY <1>1, <1>2, <2>3
<1>4. CASE g = f /\ m + n > i + j
  <2>1. a = b /\ u < v
    BY <1>1, <1>2, <1>4
  <2>2. a * k \in Nat
    OBVIOUS
  <2>3. a * k + u < b * k + v
    BY <2>1, <2>2
  <2>4. QED
    BY <1>1, <1>2, <2>3
<1>5. QED
  BY <1>3, <1>4

LEMMA LeftTyped ==
    ASSUME NEW pat \in Seq(Nat), NEW str \in Seq(Nat), NEW x \in Kept(pat, str)
    PROVE  Left(pat, str, x) \in Nat
<1>1. Len(pat) \in Nat /\ Len(str) \in Nat
  BY LenProperties
<1>2. x.i \in 1..(Len(pat) + 1) /\ x.j \in 1..(Len(str) + 1) /\ x.from \in 0..(Len(str) + 1)
  BY DEF Kept, States
<1>3. PICK a, k, u \in Nat :
          /\ a = Len(str) + 1 - x.from /\ k = Len(pat) + Len(str) + 1
          /\ u = (Len(pat) + 1 - x.i) + (Len(str) + 1 - x.j)
  <2>1. Len(str) + 1 - x.from \in Nat /\ Len(pat) + Len(str) + 1 \in Nat
    BY <1>1, <1>2
  <2>2. (Len(pat) + 1 - x.i) + (Len(str) + 1 - x.j) \in Nat
    BY <1>1, <1>2
  <2>3. QED
    BY <2>1, <2>2
<1>4. a * k + u \in Nat
  OBVIOUS
<1>5. QED
  BY <1>3, <1>4 DEF Left

LEMMA TurnKept ==
    ASSUME NEW pat \in Seq(Nat), NEW str \in Seq(Nat), NEW x \in Kept(pat, str)
    PROVE  Turn(pat, str, x) \in Kept(pat, str)
<1>1. CASE x.answer # "none"
  BY <1>1 DEF Turn
<1>2. CASE x.answer = "none"
  <2>1. AtEnd(str, x) \/ AtStar(pat, str, x) \/ AtChar(pat, str, x) \/ Stuck(pat, str, x)
    BY DEF AtStar, AtChar, Stuck
  <2>2. QED
    BY <1>2, <2>1, EndKept, StarKept, CharKept, StuckKept
<1>3. QED
  BY <1>1, <1>2

LEMMA TurnCounts ==
    ASSUME NEW pat \in Seq(Nat), NEW str \in Seq(Nat), NEW x \in Kept(pat, str),
           x.answer = "none", Turn(pat, str, x).answer = "none"
    PROVE  Left(pat, str, Turn(pat, str, x)) < Left(pat, str, x)
<1> DEFINE y == Turn(pat, str, x)
<1>1. Len(pat) \in Nat /\ Len(str) \in Nat
  BY LenProperties
<1>2. x \in States(pat, str) /\ Held(pat, x) /\ y \in States(pat, str)
  BY TurnKept DEF Kept
<1>3. /\ x.i \in 1..(Len(pat) + 1) /\ x.j \in 1..(Len(str) + 1) /\ x.from \in 0..(Len(str) + 1)
      /\ x.star \in 0..Len(pat)
  BY <1>2 DEF States
<1>4. y.i \in 1..(Len(pat) + 1) /\ y.j \in 1..(Len(str) + 1) /\ y.from \in 0..(Len(str) + 1)
  <2> HIDE DEF y
  <2>1. QED
    BY <1>2 DEF States
<1>5. y.from > x.from \/ (y.from = x.from /\ y.i + y.j > x.i + x.j)
  <2>1. ~AtEnd(str, x)
    BY EndKept
  <2>2. CASE AtStar(pat, str, x)
    <3>1. y = [x EXCEPT !.i = x.i + 1, !.star = x.i, !.from = x.j]
      BY <2>2 DEF Turn, AtStar, AtEnd
    <3>2. y.from = x.j /\ y.i = x.i + 1 /\ y.j = x.j
      BY <1>2, <3>1 DEF States
    <3>3. x.from <= x.j
      BY <1>2, <1>3 DEF Held
    <3>4. QED
      BY <1>1, <1>3, <3>2, <3>3
  <2>3. CASE AtChar(pat, str, x)
    <3>1. y = [x EXCEPT !.i = x.i + 1, !.j = x.j + 1]
      BY <2>3 DEF Turn, AtChar, AtEnd
    <3>2. y.from = x.from /\ y.i = x.i + 1 /\ y.j = x.j + 1
      BY <1>2, <3>1 DEF States
    <3>3. QED
      BY <1>1, <1>3, <3>2
  <2>4. CASE Stuck(pat, str, x)
    <3>1. x.star # 0
      <4>1. SUFFICES ASSUME x.star = 0 PROVE FALSE
        OBVIOUS
      <4>2. y = [x EXCEPT !.answer = "no"]
        BY <2>4, <4>1 DEF Turn, Stuck, AtEnd
      <4>3. y.answer = "no"
        BY <1>2, <4>2 DEF States
      <4>4. QED
        BY <4>3
    <3>2. y = [x EXCEPT !.i = x.star + 1, !.j = x.from + 1, !.from = x.from + 1]
      BY <2>4, <3>1 DEF Turn, Stuck, AtEnd
    <3>3. y.from = x.from + 1
      BY <1>2, <3>2 DEF States
    <3>4. QED
      BY <1>1, <1>3, <3>3
  <2>5. QED
    BY <2>1, <2>2, <2>3, <2>4 DEF AtStar, AtChar, Stuck
<1> HIDE DEF y
<1>6. Left(pat, str, y) < Left(pat, str, x)
  <2>1. PICK p, q \in Nat : p = Len(pat) /\ q = Len(str)
    BY <1>1
  <2>2. PICK f, g \in 0..(q + 1), i, m \in 1..(p + 1), j, n \in 1..(q + 1) :
            /\ f = x.from /\ i = x.i /\ j = x.j
            /\ g = y.from /\ m = y.i /\ n = y.j
    BY <1>3, <1>4, <2>1
  <2>3. g > f \/ (g = f /\ m + n > i + j)
    BY <1>5, <2>2
  <2>4. (q + 1 - g) * (p + q + 1) + ((p + 1 - m) + (q + 1 - n))
            < (q + 1 - f) * (p + q + 1) + ((p + 1 - i) + (q + 1 - j))
    BY <2>3, Fewer
  <2>5. QED
    BY <2>1, <2>2, <2>4 DEF Left
<1>7. QED
  BY <1>6 DEF y

\* arun_glob_match says yes exactly to the texts fnmatch would, for every
\* pattern and every text: it never gives up a match by taking too little for
\* a star, and it ends.
THEOREM GlobMatchIsFnmatch == \A pat, str \in Seq(Nat) : GlobMeansFnmatch(pat, str)
<1> SUFFICES ASSUME NEW pat \in Seq(Nat), NEW str \in Seq(Nat) PROVE GlobMeansFnmatch(pat, str)
  OBVIOUS
<1> DEFINE S == Kept(pat, str)
    T == Turns(pat, str)
    After(f) == f = [n \in 0..T |-> IF n = 0 THEN Started ELSE Turn(pat, str, f[n - 1])]
    F == [p \in (1..T) \X S |-> Turn(pat, str, p[2])]
<1>1. Len(pat) \in Nat /\ Len(str) \in Nat
  BY LenProperties
<1>2. T \in Nat /\ T = Left(pat, str, Started) + 1
  <2>1. PICK p, q \in Nat : p = Len(pat) /\ q = Len(str)
    BY <1>1
  <2>2. PICK k \in Nat : k = p + q + 1
    OBVIOUS
  <2>3. (q + 2) * k = (q + 1) * k + k /\ (q + 2) * k \in Nat /\ (q + 1) * k \in Nat
    OBVIOUS
  <2>4. T = (q + 2) * k
    BY <2>1, <2>2 DEF Turns
  <2>5. Left(pat, str, Started) = (q + 1 - 0) * k + ((p + 1 - 1) + (q + 1 - 1))
    BY <2>1, <2>2 DEF Left, Started
  <2>6. QED
    BY <2>2, <2>3, <2>4, <2>5
<1>3. Started \in S
  <2>1. Started \in States(pat, str)
    BY <1>1 DEF Started, States
  <2>2. Held(pat, Started)
    BY DEF Started, Held
  <2>3. ~More(pat, str, Started)
    BY DEF Started, More
  <2>4. Right(pat, str, Started)
    BY <2>3, RestFromStart DEF Started, Right
  <2>5. QED
    BY <2>1, <2>2, <2>4 DEF Kept
<1>4. \A n \in 1..T, x \in S : F[<<n, x>>] = Turn(pat, str, x) /\ F[<<n, x>>] \in S
  BY TurnKept
<1> HIDE DEF S, T, F
<1>5. \E f : After(f)
  <2>0. PICK f : Runs(f, T, S, Started, F)
    <3>1. T \in Nat
      BY <1>2
    <3>2. \A n \in 1..T, x \in S : F[<<n, x>>] \in S
      BY <1>4
    <3>3. QED
      BY <1>3, <3>1, <3>2, Iteration
  <2>1. /\ f \in [0..T -> S]
        /\ \A n \in 0..T : f[n] = IF n = 0 THEN Started ELSE F[<<n, f[n - 1]>>]
    BY <2>0 DEF Runs
  <2>2. ASSUME NEW n \in 0..T PROVE f[n] = IF n = 0 THEN Started ELSE Turn(pat, str, f[n - 1])
    <3>1. n # 0 => n \in 1..T /\ n - 1 \in 0..T
      BY <1>2
    <3>2. QED
      BY <1>4, <2>1, <3>1
  <2>3. After(f)
    BY <2>1, <2>2
  <2>4. QED
    BY <2>3
<1> DEFINE f == CHOOSE g : After(g)
<1>6. After(f)
  BY <1>5
<1>7. GlobMatch(pat, str) <=> f[T].answer = "yes"
  BY DEF GlobMatch, T
<1> HIDE DEF f
<1>8. \A n \in 0..T : f[n] = IF n = 0 THEN Started ELSE Turn(pat, str, f[n - 1])
  BY <1>6
<1> HIDE DEF After
<1> DEFINE Counted(n) == f[n] \in S /\ (f[n].answer = "none" => Left(pat, str, f[n]) <= T - 1 - n)
    N == {n \in Nat : n <= T => Counted(n)}
<1>9. 0 \in N
  <2>1. f[0] = Started
    BY <1>2, <1>8
  <2>2. Left(pat, str, Started) <= T - 1 - 0
    <3>1. PICK k \in Nat : k = Left(pat, str, Started)
      BY <1>3, LeftTyped DEF S
    <3>2. T = k + 1
      BY <1>2, <3>1
    <3>3. QED
      BY <3>1, <3>2
  <2>3. QED
    BY <1>3, <2>1, <2>2
<1>10. ASSUME NEW n \in Nat, n \in N PROVE n + 1 \in N
  <2> SUFFICES ASSUME n + 1 <= T PROVE Counted(n + 1)
    OBVIOUS
  <2>1. n <= T /\ n + 1 \in 0..T /\ n + 1 # 0 /\ (n + 1) - 1 = n
    BY <1>2
  <2>2. f[n] \in S /\ (f[n].answer = "none" => Left(pat, str, f[n]) <= T - 1 - n)
    BY <1>10, <2>1
  <2>3. f[n + 1] = Turn(pat, str, f[n])
    BY <1>8, <2>1
  <2>4. PICK x, y : x = f[n] /\ y = f[n + 1] /\ y = Turn(pat, str, x)
    BY <2>3
  <2>5. x \in Kept(pat, str) /\ y \in Kept(pat, str)
    BY <2>2, <2>4, TurnKept DEF S
  <2>6. ASSUME y.answer = "none" PROVE Left(pat, str, y) <= T - 1 - (n + 1)
    <3>1. x.answer = "none"
      <4>1. x.answer # "none" => y = x
        BY <2>4 DEF Turn
      <4>2. QED
        BY <2>6, <4>1
    <3>2. Left(pat, str, y) < Left(pat, str, x)
      BY <2>4, <2>5, <2>6, <3>1, TurnCounts
    <3>3. Left(pat, str, x) <= T - 1 - n
      BY <2>2, <2>4, <3>1
    <3>4. Left(pat, str, x) \in Nat /\ Left(pat, str, y) \in Nat
      BY <2>5, LeftTyped
    <3>5. QED
      BY <1>2, <3>2, <3>3, <3>4
  <2>7. QED
    BY <2>4, <2>5, <2>6 DEF S
<1> HIDE DEF N
<1>11. T \in N
  BY <1>2, <1>9, <1>10, Induct
<1>12. f[T] \in Kept(pat, str) /\ f[T].answer # "none"
  <2>1. f[T] \in S /\ (f[T].answer = "none" => Left(pat, str, f[T]) <= T - 1 - T)
    BY <1>2, <1>11 DEF N
  <2>2. f[T] \in S => Left(pat, str, f[T]) \in Nat
    BY LeftTyped DEF S
  <2>3. QED
    BY <1>2, <2>1, <2>2 DEF S
<1>13. f[T].answer = "yes" <=> Means(pat, str)
  <2>1. PICK x \in Kept(pat, str) : x = f[T] /\ x.answer # "none"
    BY <1>12
  <2>2. x.answer \in {"yes", "no"} /\ Right(pat, str, x)
    BY <2>1 DEF Kept, States
  <2>3. QED
    BY <2>1, <2>2 DEF Right
<1>14. QED
  BY <1>7, <1>13 DEF GlobMeansFnmatch

-----------------------------------------------------------------------------
(***************************************************************************)
(* Flattening.  What a flattened sequence has, its pieces have, and how    *)
(* many of some kind it has can be counted piece by piece.                 *)
(***************************************************************************)
Hits(s, K) == {k \in DOMAIN s : s[k] \in K}

\* The sequences f[1], f[2], ... that a flattening goes through.
Flattens(f, S, ss) ==
    /\ f \in [1..Len(ss) -> Seq(S)]
    /\ f[1] = ss[1]
    /\ \A n \in 2..Len(ss) : f[n] = f[n - 1] \o ss[n]
    /\ FlattenSeq(ss) = f[Len(ss)]

LEMMA Flattening ==
    ASSUME NEW S, NEW ss \in Seq(Seq(S)), ss # <<>>
    PROVE  \E f : Flattens(f, S, ss)
<1> DEFINE N == Len(ss)
    F == [p \in (1..N) \X Seq(S) |-> IF p[1] = 1 THEN ss[1] ELSE p[2] \o ss[p[1]]]
    Is(f) == f = [n \in 1..N |-> IF n = 1 THEN ss[n] ELSE f[n - 1] \o ss[n]]
<1>1. N \in Nat /\ N # 0 /\ DOMAIN ss = 1..N /\ \A n \in 1..N : ss[n] \in Seq(S)
  BY EmptySeq, LenProperties, ElementOfSeq
<1>2. FlattenSeq(ss) = (CHOOSE f : Is(f))[N]
  BY <1>1 DEF FlattenSeq
<1> HIDE DEF N
<1>3. \A n \in 1..N, x \in Seq(S) : F[<<n, x>>] = IF n = 1 THEN ss[1] ELSE x \o ss[n]
  OBVIOUS
<1>4. \A n \in 1..N, x \in Seq(S) : F[<<n, x>>] \in Seq(S)
  <2> SUFFICES ASSUME NEW n \in 1..N, NEW x \in Seq(S) PROVE F[<<n, x>>] \in Seq(S)
    OBVIOUS
  <2>1. 1 \in 1..N
    BY <1>1
  <2>2. x \o ss[n] \in Seq(S)
    BY <1>1, ConcatProperties
  <2>3. QED
    BY <1>1, <1>3, <2>1, <2>2
<1> HIDE DEF F
<1>5. PICK g : Runs(g, N, Seq(S), <<>>, F)
  <2>1. <<>> \in Seq(S)
    BY EmptySeq
  <2>2. QED
    BY <1>1, <1>4, <2>1, Iteration
<1>6. /\ g \in [0..N -> Seq(S)]
      /\ \A n \in 0..N : g[n] = IF n = 0 THEN <<>> ELSE F[<<n, g[n - 1]>>]
  BY <1>5 DEF Runs
<1> DEFINE h == [n \in 1..N |-> g[n]]
<1>7. ASSUME NEW n \in 1..N PROVE g[n] = IF n = 1 THEN ss[n] ELSE g[n - 1] \o ss[n]
  <2>1. n \in 0..N /\ n # 0 /\ n - 1 \in 0..N
    BY <1>1
  <2>2. g[n] = F[<<n, g[n - 1]>>] /\ g[n - 1] \in Seq(S)
    BY <1>6, <2>1
  <2>3. QED
    BY <1>3, <2>2
<1>8. ASSUME NEW n \in 1..N PROVE h[n] = IF n = 1 THEN ss[n] ELSE h[n - 1] \o ss[n]
  <2>1. n # 1 => n - 1 \in 1..N
    BY <1>1
  <2>2. QED
    BY <1>7, <2>1
<1>9. Is(h)
  BY <1>8
<1>10. PICK f : Is(f) /\ FlattenSeq(ss) = f[N]
  BY <1>2, <1>9
<1>11. \A n \in 1..N : f[n] = IF n = 1 THEN ss[n] ELSE f[n - 1] \o ss[n]
  BY <1>10
<1> HIDE DEF h
<1> DEFINE T == {n \in Nat : n + 1 <= N => f[n + 1] \in Seq(S)}
<1>12. 0 \in T
  BY <1>1, <1>11
<1>13. ASSUME NEW n \in Nat, n \in T PROVE n + 1 \in T
  <2> SUFFICES ASSUME (n + 1) + 1 <= N PROVE f[(n + 1) + 1] \in Seq(S)
    OBVIOUS
  <2>1. PICK m \in 1..N : m = (n + 1) + 1 /\ m # 1 /\ m - 1 = n + 1
    BY <1>1
  <2>2. f[m - 1] \in Seq(S)
    BY <1>1, <1>13, <2>1
  <2>3. f[m] = f[m - 1] \o ss[m]
    BY <1>11, <2>1
  <2>4. f[m] \in Seq(S)
    BY <1>1, <2>2, <2>3, ConcatProperties
  <2>5. QED
    BY <2>1, <2>4
<1> HIDE DEF T
<1>14. ASSUME NEW n \in 1..N PROVE f[n] \in Seq(S)
  <2>1. PICK m \in Nat : m + 1 = n
    BY <1>1
  <2>2. m \in T
    BY <1>12, <1>13, Induct
  <2>3. m + 1 <= N
    BY <1>1, <2>1
  <2>4. f[m + 1] \in Seq(S)
    BY <2>2, <2>3 DEF T
  <2>5. QED
    BY <2>1, <2>4
<1>15. f \in [1..N -> Seq(S)]
  BY <1>10, <1>14
<1>16. 1 \in 1..N /\ f[1] = ss[1]
  BY <1>1, <1>11
<1>17. ASSUME NEW n \in 2..N PROVE f[n] = f[n - 1] \o ss[n]
  <2>1. n \in 1..N /\ n # 1
    BY <1>1
  <2>2. QED
    BY <1>11, <2>1
<1>18. QED
  BY <1>10, <1>15, <1>16, <1>17 DEF Flattens, N

\* The elements of the flattened sequence are those of its pieces.
LEMMA FlattenedFrom ==
    ASSUME NEW S, NEW ss \in Seq(Seq(S))
    PROVE  /\ FlattenSeq(ss) \in Seq(S)
           /\ \A k \in DOMAIN FlattenSeq(ss) :
                 \E n \in DOMAIN ss : \E m \in DOMAIN ss[n] : FlattenSeq(ss)[k] = ss[n][m]
<1> DEFINE From(s) == s \in Seq(S) /\ \A k \in DOMAIN s : \E n \in DOMAIN ss : \E m \in DOMAIN ss[n] : s[k] = ss[n][m]
<1>1. Len(ss) \in Nat /\ DOMAIN ss = 1..Len(ss) /\ \A n \in 1..Len(ss) : ss[n] \in Seq(S)
  BY LenProperties, ElementOfSeq
<1>2. CASE ss = <<>>
  <2>1. FlattenSeq(ss) = <<>>
    BY <1>2, EmptySeq DEF FlattenSeq
  <2>2. <<>> \in Seq(S) /\ DOMAIN <<>> = {}
    BY EmptySeq
  <2>3. QED
    BY <2>1, <2>2
<1>3. CASE ss # <<>>
  <2>1. PICK f : Flattens(f, S, ss)
    BY <1>3, Flattening
  <2>2. Len(ss) # 0 /\ f[1] = ss[1] /\ f \in [1..Len(ss) -> Seq(S)]
    BY <1>3, <2>1, EmptySeq DEF Flattens
  <2> DEFINE T == {n \in Nat : n + 1 <= Len(ss) => From(f[n + 1])}
  <2>3. 0 \in T
    <3>1. 1 \in 1..Len(ss) /\ 0 + 1 = 1
      BY <1>1, <2>2
    <3>2. From(f[1])
      BY <1>1, <2>2, <3>1
    <3> HIDE DEF From
    <3>3. QED
      BY <3>1, <3>2
  <2>4. ASSUME NEW n \in Nat, n \in T PROVE n + 1 \in T
    <3> SUFFICES ASSUME (n + 1) + 1 <= Len(ss) PROVE From(f[(n + 1) + 1])
      OBVIOUS
    <3>1. PICK m \in 2..Len(ss) : m = (n + 1) + 1 /\ m - 1 = n + 1 /\ m \in 1..Len(ss)
      BY <1>1
    <3>2. From(f[m - 1])
      <4>1. n + 1 <= Len(ss)
        BY <1>1
      <4>2. QED
        BY <2>4, <3>1, <4>1
    <3>3. PICK s, t \in Seq(S) : s = f[m - 1] /\ t = ss[m] /\ f[m] = s \o t
      BY <1>1, <2>1, <3>1, <3>2 DEF Flattens
    <3>4. /\ Len(s) \in Nat /\ Len(t) \in Nat /\ DOMAIN s = 1..Len(s) /\ DOMAIN t = 1..Len(t)
          /\ f[m] \in Seq(S) /\ DOMAIN f[m] = 1..(Len(s) + Len(t))
          /\ \A k \in 1..(Len(s) + Len(t)) : f[m][k] = IF k <= Len(s) THEN s[k] ELSE t[k - Len(s)]
      <4>1. Len(s) \in Nat /\ Len(t) \in Nat /\ DOMAIN s = 1..Len(s) /\ DOMAIN t = 1..Len(t)
        BY LenProperties
      <4>2. s \o t \in Seq(S) /\ Len(s \o t) = Len(s) + Len(t)
        BY ConcatProperties
      <4>3. DOMAIN (s \o t) = 1..(Len(s) + Len(t))
        BY <4>2, LenProperties
      <4>4. \A k \in 1..(Len(s) + Len(t)) : (s \o t)[k] = IF k <= Len(s) THEN s[k] ELSE t[k - Len(s)]
        BY ConcatProperties
      <4>5. QED
        BY <3>3, <4>1, <4>2, <4>3, <4>4
    <3>5. ASSUME NEW k \in DOMAIN f[m]
          PROVE  \E i \in DOMAIN ss : \E j \in DOMAIN ss[i] : f[m][k] = ss[i][j]
      <4>1. CASE k <= Len(s)
        <5>1. k \in DOMAIN s /\ f[m][k] = s[k]
          BY <3>4, <4>1
        <5>2. QED
          BY <3>2, <3>3, <5>1
      <4>2. CASE ~(k <= Len(s))
        <5>0. k \in 1..(Len(s) + Len(t)) /\ k - Len(s) \in 1..Len(t)
          BY <3>4, <4>2, Beyond
        <5>1. k - Len(s) \in DOMAIN t /\ f[m][k] = t[k - Len(s)]
          BY <3>4, <4>2, <5>0
        <5>2. QED
          BY <1>1, <3>1, <3>3, <5>1
      <4>3. QED
        BY <4>1, <4>2
    <3>6. From(f[m])
      BY <3>4, <3>5
    <3> HIDE DEF From
    <3>7. QED
      BY <3>1, <3>6
  <2> HIDE DEF T
  <2>5. PICK n \in Nat : n + 1 = Len(ss)
    <3>1. Len(ss) - 1 \in Nat /\ (Len(ss) - 1) + 1 = Len(ss)
      BY <1>1, <2>2
    <3>2. QED
      BY <3>1
  <2>6. n \in T
    BY <2>3, <2>4, Induct
  <2>7. From(f[Len(ss)])
    <3> HIDE DEF From
    <3>1. QED
      BY <1>1, <2>5, <2>6 DEF T
  <2>8. FlattenSeq(ss) = f[Len(ss)]
    BY <2>1 DEF Flattens
  <2>9. QED
    BY <2>7, <2>8
<1>4. QED
  BY <1>2, <1>3

LEMMA HitsFinite ==
    ASSUME NEW S, NEW s \in Seq(S), NEW K
    PROVE  /\ IsFiniteSet(Hits(s, K)) /\ Cardinality(Hits(s, K)) \in Nat
           /\ Hits(s, K) \subseteq 1..Len(s)
           /\ Cardinality(Hits(s, K)) = 0 <=> Hits(s, K) = {}
<1>1. Len(s) \in Nat /\ DOMAIN s = 1..Len(s)
  BY LenProperties
<1>2. Hits(s, K) \subseteq 1..Len(s) /\ IsFiniteSet(1..Len(s))
  BY <1>1, FS_Interval DEF Hits
<1>3. IsFiniteSet(Hits(s, K))
  BY <1>2, FS_Subset
<1>4. QED
  BY <1>2, <1>3, FS_CardinalityType, FS_EmptySet

LEMMA HitsConcat ==
    ASSUME NEW S, NEW s \in Seq(S), NEW t \in Seq(S), NEW K
    PROVE  Cardinality(Hits(s \o t, K)) = Cardinality(Hits(s, K)) + Cardinality(Hits(t, K))
<1> DEFINE A == Hits(s, K)
    B == {k \in (Len(s) + 1)..(Len(s) + Len(t)) : t[k - Len(s)] \in K}
    f == [k \in Hits(t, K) |-> Len(s) + k]
<1>1. Len(s) \in Nat /\ Len(t) \in Nat /\ DOMAIN s = 1..Len(s) /\ DOMAIN t = 1..Len(t)
  BY LenProperties
<1>2. /\ s \o t \in Seq(S) /\ DOMAIN (s \o t) = 1..(Len(s) + Len(t))
      /\ \A k \in 1..(Len(s) + Len(t)) : (s \o t)[k] = IF k <= Len(s) THEN s[k] ELSE t[k - Len(s)]
  <2>1. s \o t \in Seq(S) /\ Len(s \o t) = Len(s) + Len(t)
    BY ConcatProperties
  <2>2. DOMAIN (s \o t) = 1..(Len(s) + Len(t))
    BY <2>1, LenProperties
  <2>3. \A k \in 1..(Len(s) + Len(t)) : (s \o t)[k] = IF k <= Len(s) THEN s[k] ELSE t[k - Len(s)]
    BY ConcatProperties
  <2>4. QED
    BY <2>1, <2>2, <2>3
<1>3. Hits(s \o t, K) = A \cup B
  <2>1. ASSUME NEW k \in Hits(s \o t, K) PROVE k \in A \cup B
    <3>1. k \in 1..(Len(s) + Len(t)) /\ (s \o t)[k] \in K
      BY <1>2 DEF Hits
    <3>2. CASE k <= Len(s)
      <4>1. k \in DOMAIN s /\ s[k] \in K
        BY <1>1, <1>2, <3>1, <3>2
      <4>2. QED
        BY <4>1 DEF Hits
    <3>3. CASE ~(k <= Len(s))
      <4>1. k \in (Len(s) + 1)..(Len(s) + Len(t)) /\ t[k - Len(s)] \in K
        BY <1>1, <1>2, <3>1, <3>3
      <4>2. QED
        BY <4>1
    <3>4. QED
      BY <3>2, <3>3
  <2>2. ASSUME NEW k \in A PROVE k \in Hits(s \o t, K)
    <3>1. k \in 1..Len(s) /\ s[k] \in K
      BY <1>1 DEF Hits
    <3>2. k \in 1..(Len(s) + Len(t)) /\ k <= Len(s)
      BY <1>1, <3>1
    <3>3. QED
      BY <1>2, <3>1, <3>2 DEF Hits
  <2>3. ASSUME NEW k \in B PROVE k \in Hits(s \o t, K)
    <3>1. k \in 1..(Len(s) + Len(t)) /\ ~(k <= Len(s)) /\ t[k - Len(s)] \in K
      BY <1>1
    <3>2. QED
      BY <1>2, <3>1 DEF Hits
  <2>4. QED
    BY <2>1, <2>2, <2>3
<1>4. A \cap B = {}
  <2>1. A \subseteq 1..Len(s)
    BY HitsFinite
  <2>2. \A k \in B : k > Len(s)
    BY <1>1
  <2>3. \A k \in 1..Len(s) : ~(k > Len(s))
    BY <1>1
  <2>4. QED
    BY <2>1, <2>2, <2>3
<1>5. f \in Bijection(Hits(t, K), B)
  <2>1. ASSUME NEW k \in Hits(t, K) PROVE f[k] \in B /\ f[k] - Len(s) = k /\ k \in Int
    <3>1. k \in 1..Len(t) /\ t[k] \in K
      BY <1>1 DEF Hits
    <3>2. Len(s) + k \in (Len(s) + 1)..(Len(s) + Len(t)) /\ (Len(s) + k) - Len(s) = k
      BY <1>1, <3>1
    <3>3. QED
      BY <3>1, <3>2
  <2>2. ASSUME NEW k \in B PROVE k - Len(s) \in Hits(t, K) /\ f[k - Len(s)] = k
    <3>1. k - Len(s) \in 1..Len(t) /\ t[k - Len(s)] \in K /\ Len(s) + (k - Len(s)) = k
      BY <1>1
    <3>2. k - Len(s) \in Hits(t, K)
      BY <1>1, <3>1 DEF Hits
    <3>3. QED
      BY <3>1, <3>2
  <2>3. f \in [Hits(t, K) -> B]
    BY <2>1
  <2> HIDE DEF f, B
  <2>4. \A a, b \in Hits(t, K) : f[a] = f[b] => a = b
    BY <2>1
  <2>5. \A b \in B : \E a \in Hits(t, K) : f[a] = b
    BY <2>2
  <2>6. QED
    BY <2>3, <2>4, <2>5 DEF Bijection, Injection, Surjection, IsInjective
<1> HIDE DEF f, A, B
<1>6. IsFiniteSet(B) /\ Cardinality(B) = Cardinality(Hits(t, K))
  <2>1. IsFiniteSet(Hits(t, K))
    BY HitsFinite
  <2>2. ExistsBijection(Hits(t, K), B)
    BY <1>5 DEF ExistsBijection
  <2>3. QED
    BY <2>1, <2>2, FS_Bijection
<1>7. IsFiniteSet(A) /\ Cardinality(A) \in Nat /\ Cardinality(B) \in Nat
  BY <1>6, HitsFinite DEF A
<1>8. Cardinality(A \cup B) = Cardinality(A) + Cardinality(B)
  <2>1. Cardinality(A \cup B) = Cardinality(A) + Cardinality(B) - Cardinality(A \cap B)
    BY <1>6, <1>7, FS_Union
  <2>2. Cardinality(A \cap B) = 0
    BY <1>4, FS_EmptySet
  <2>3. QED
    BY <1>7, <2>1, <2>2
<1>9. QED
  BY <1>3, <1>6, <1>8 DEF A

LEMMA HitsFlattened ==
    ASSUME NEW S, NEW ss \in Seq(Seq(S)), NEW K,
           \A n \in DOMAIN ss : Cardinality(Hits(ss[n], K)) <= 1
    PROVE  Cardinality(Hits(FlattenSeq(ss), K)) = Cardinality({n \in DOMAIN ss : Hits(ss[n], K) # {}})
<1> DEFINE C(m) == {n \in 1..m : Hits(ss[n], K) # {}}
<1>1. Len(ss) \in Nat /\ DOMAIN ss = 1..Len(ss) /\ \A n \in 1..Len(ss) : ss[n] \in Seq(S)
  BY LenProperties, ElementOfSeq
<1>2. ASSUME NEW n \in 1..Len(ss)
      PROVE  /\ Cardinality(Hits(ss[n], K)) = IF Hits(ss[n], K) # {} THEN 1 ELSE 0
  <2>1. Cardinality(Hits(ss[n], K)) \in Nat /\ (Cardinality(Hits(ss[n], K)) = 0 <=> Hits(ss[n], K) = {})
    BY <1>1, HitsFinite
  <2>2. Cardinality(Hits(ss[n], K)) <= 1
    BY <1>1
  <2>3. QED
    BY <2>1, <2>2
<1>3. ASSUME NEW m \in Nat PROVE IsFiniteSet(C(m)) /\ Cardinality(C(m)) \in Nat
  <2>1. IsFiniteSet(1..m) /\ C(m) \subseteq 1..m
    BY FS_Interval
  <2> HIDE DEF C
  <2>2. IsFiniteSet(C(m))
    BY <2>1, FS_Subset
  <2>3. QED
    BY <2>2, FS_CardinalityType
<1>4. ASSUME NEW m \in Nat, m + 1 <= Len(ss)
      PROVE  Cardinality(C(m + 1)) = Cardinality(C(m)) + Cardinality(Hits(ss[m + 1], K))
  <2>1. m + 1 \in 1..Len(ss) /\ m + 1 \notin C(m)
    BY <1>1, <1>4
  <2>2. 1..(m + 1) = 1..m \cup {m + 1}
    OBVIOUS
  <2>3. CASE Hits(ss[m + 1], K) = {}
    <3>1. C(m + 1) = C(m)
      BY <2>2, <2>3
    <3>2. Cardinality(Hits(ss[m + 1], K)) = 0
      BY <2>3, FS_EmptySet
    <3> HIDE DEF C
    <3>3. Cardinality(C(m)) \in Nat
      BY <1>3
    <3>4. QED
      BY <3>1, <3>2, <3>3
  <2>4. CASE Hits(ss[m + 1], K) # {}
    <3>1. C(m + 1) = C(m) \cup {m + 1}
      BY <2>2, <2>4
    <3>2. Cardinality(Hits(ss[m + 1], K)) = 1
      BY <1>2, <2>1, <2>4
    <3> HIDE DEF C
    <3>3. IsFiniteSet(C(m)) /\ m + 1 \notin C(m)
      BY <1>3, <2>1
    <3>4. Cardinality(C(m) \cup {m + 1}) = Cardinality(C(m)) + 1
      BY <3>3, FS_AddElement
    <3>5. QED
      BY <3>1, <3>2, <3>4
  <2>5. QED
    BY <2>3, <2>4
<1>5. C(0) = {} /\ Cardinality(C(0)) = 0
  <2>1. C(0) = {}
    OBVIOUS
  <2>2. QED
    BY <2>1, FS_EmptySet
<1>6. CASE ss = <<>>
  <2>1. FlattenSeq(ss) = <<>> /\ Len(ss) = 0
    BY <1>6, EmptySeq DEF FlattenSeq
  <2>2. Hits(<<>>, K) = {}
    BY DEF Hits
  <2>3. {n \in DOMAIN ss : Hits(ss[n], K) # {}} = {}
    BY <1>1, <2>1
  <2>4. QED
    BY <2>1, <2>2, <2>3
<1>7. CASE ss # <<>>
  <2>1. PICK f : Flattens(f, S, ss)
    BY <1>7, Flattening
  <2>2. /\ Len(ss) # 0 /\ f[1] = ss[1] /\ f \in [1..Len(ss) -> Seq(S)]
        /\ \A n \in 2..Len(ss) : f[n] = f[n - 1] \o ss[n]
    BY <1>7, <2>1, EmptySeq DEF Flattens
  <2> DEFINE T == {m \in Nat : m + 1 <= Len(ss) => Cardinality(Hits(f[m + 1], K)) = Cardinality(C(m + 1))}
  <2> HIDE DEF C
  <2>3. 0 \in T
    <3>1. Cardinality(C(0 + 1)) = Cardinality(C(0)) + Cardinality(Hits(ss[0 + 1], K))
      BY <1>1, <1>4, <2>2
    <3>2. Cardinality(Hits(ss[1], K)) \in Nat /\ 0 + 1 = 1
      <4>1. 1 \in 1..Len(ss)
        BY <1>1, <2>2
      <4>2. ss[1] \in Seq(S)
        BY <1>1, <4>1
      <4>3. QED
        BY <4>2, HitsFinite
    <3>3. QED
      BY <1>5, <2>2, <3>1, <3>2
  <2>4. ASSUME NEW m \in Nat, m \in T PROVE m + 1 \in T
    <3> SUFFICES ASSUME (m + 1) + 1 <= Len(ss)
                 PROVE  Cardinality(Hits(f[(m + 1) + 1], K)) = Cardinality(C((m + 1) + 1))
      OBVIOUS
    <3>1. PICK n \in 2..Len(ss) : n = (m + 1) + 1 /\ n - 1 = m + 1 /\ n \in 1..Len(ss) /\ n - 1 \in 1..Len(ss)
      BY <1>1
    <3>2. f[n] = f[n - 1] \o ss[n] /\ f[n - 1] \in Seq(S) /\ ss[n] \in Seq(S)
      BY <1>1, <2>2, <3>1
    <3>3. Cardinality(Hits(f[n], K)) = Cardinality(Hits(f[n - 1], K)) + Cardinality(Hits(ss[n], K))
      BY <3>2, HitsConcat
    <3>4. Cardinality(Hits(f[n - 1], K)) = Cardinality(C(n - 1))
      <4>1. m + 1 <= Len(ss)
        BY <1>1
      <4>2. QED
        BY <2>4, <3>1, <4>1
    <3>5. Cardinality(C(n)) = Cardinality(C(n - 1)) + Cardinality(Hits(ss[n], K))
      <4>1. Cardinality(C((m + 1) + 1)) = Cardinality(C(m + 1)) + Cardinality(Hits(ss[(m + 1) + 1], K))
        BY <1>4
      <4>2. QED
        BY <3>1, <4>1
    <3>6. QED
      BY <3>1, <3>3, <3>4, <3>5
  <2> HIDE DEF T
  <2>5. PICK n \in Nat : n + 1 = Len(ss)
    <3>1. Len(ss) - 1 \in Nat /\ (Len(ss) - 1) + 1 = Len(ss)
      BY <1>1, <2>2
    <3>2. QED
      BY <3>1
  <2>6. n \in T
    BY <2>3, <2>4, Induct
  <2>7. Cardinality(Hits(f[Len(ss)], K)) = Cardinality(C(Len(ss)))
    BY <1>1, <2>5, <2>6 DEF T
  <2>8. FlattenSeq(ss) = f[Len(ss)]
    BY <2>1 DEF Flattens
  <2>9. QED
    BY <1>1, <2>7, <2>8 DEF C
<1>8. QED
  BY <1>6, <1>7

-----------------------------------------------------------------------------
(***************************************************************************)
(* Recipes.                                                                *)
(***************************************************************************)
OpRecord  == [op : STRING, src : Seq(Nat), dest : Seq(Nat), rename : Seq(Nat)]
Entry     == [path : Seq(Nat), dir : BOOLEAN]
PlannedOp == [kind : {"copy", "setExec", "script"}, src : Seq(Nat), dest : Seq(Nat)]

LEMMA Greatest == ASSUME NEW N \in Nat, NEW S, S \subseteq 0..N, S # {}
                  PROVE  Max(S) \in S /\ \A n \in S : n <= Max(S)
<1> DEFINE D == {N - n : n \in S}
<1>1. D \subseteq Nat /\ D # {}
  <2>1. \A n \in S : N - n \in Nat
    OBVIOUS
  <2>2. QED
    BY <2>1
<1> HIDE DEF D
<1>2. Min(D) \in D /\ \A d \in D : Min(D) <= d
  BY <1>1, Least
<1>3. PICK m \in S : Min(D) = N - m
  BY <1>2 DEF D
<1>4. ASSUME NEW n \in S PROVE n <= m
  <2>1. N - m <= N - n
    BY <1>2, <1>3 DEF D
  <2>2. m \in Int /\ n \in Int
    OBVIOUS
  <2>3. QED
    BY <2>1, <2>2
<1>5. QED
  BY <1>4 DEF Max

\* A table that holds all of a sequence cuts nothing of it.
LEMMA CutNothing == ASSUME NEW S, NEW s \in Seq(S), NEW n \in Nat, Len(s) <= n
                    PROVE  SubSeq(s, 1, Min({Len(s), n})) = s
<1>1. Len(s) \in Nat
  BY LenProperties
<1>2. Min({Len(s), n}) = Len(s)
  <2> DEFINE T == {Len(s), n}
  <2>1. T \subseteq Nat /\ Len(s) \in T /\ \A k \in T : Len(s) <= k
    BY <1>1
  <2> HIDE DEF T
  <2>2. Min(T) = Len(s)
    BY <2>1, MinIs
  <2>3. QED
    BY <2>2 DEF T
<1>3. QED
  BY <1>2, SubSeqFull

CutTo(S, s, t) == \E m \in 0..Len(s) : /\ t \in Seq(S) /\ DOMAIN t = 1..m
                                       /\ \A k \in 1..m : t[k] = s[k]

LEMMA CutShorter ==
    ASSUME NEW S, NEW s \in Seq(S), NEW n \in Nat
    PROVE  CutTo(S, s, SubSeq(s, 1, Min({Len(s), n})))
<1>1. Len(s) \in Nat /\ DOMAIN s = 1..Len(s) /\ \A k \in 1..Len(s) : s[k] \in S
  BY LenProperties, ElementOfSeq
<1>2. PICK m \in 0..Len(s) : m = Min({Len(s), n})
  BY <1>1, SmallerOfTwo
<1>3. SubSeq(s, 1, m) \in Seq(S) /\ DOMAIN SubSeq(s, 1, m) = 1..m /\ \A k \in 1..m : SubSeq(s, 1, m)[k] = s[k]
  BY <1>1
<1>4. QED
  BY <1>2, <1>3 DEF CutTo

LEMMA Normalized == ASSUME NEW s \in Seq(Nat)
                    PROVE  Normalize(s) \in Seq(Nat) /\ (HasStar(Normalize(s)) <=> HasStar(s))
<1>1. Len(s) \in Nat /\ DOMAIN s = 1..Len(s) /\ \A k \in 1..Len(s) : s[k] \in Nat
  BY LenProperties, ElementOfSeq
<1>2. \A k \in 1..Len(s) : Normalize(s)[k] = IF s[k] = 92 THEN 47 ELSE s[k]
  BY <1>1 DEF Normalize, Backslash, Slash
<1>3. Normalize(s) \in [1..Len(s) -> Nat] /\ DOMAIN Normalize(s) = 1..Len(s)
  BY <1>1 DEF Normalize, Backslash, Slash
<1>4. \A k \in 1..Len(s) : Normalize(s)[k] = 42 <=> s[k] = 42
  BY <1>2
<1>5. Normalize(s) \in Seq(Nat)
  BY <1>1, <1>3, Mapped
<1>6. QED
  BY <1>1, <1>3, <1>4, <1>5 DEF HasStar, Star

LEMMA Basename == ASSUME NEW s \in Seq(Nat)
                  PROVE  /\ BasenameOf(s) \in Seq(Nat)
                         /\ \A k \in DOMAIN BasenameOf(s) : BasenameOf(s)[k] # Slash
<1> DEFINE slashes == {k \in DOMAIN s : s[k] = Slash}
<1>1. Len(s) \in Nat /\ DOMAIN s = 1..Len(s) /\ \A k \in 1..Len(s) : s[k] \in Nat
  BY LenProperties, ElementOfSeq
<1>2. {0} \cup slashes \subseteq 0..Len(s)
  BY <1>1
<1>3. \A k \in 1..Len(s) : s[k] = Slash => k \in slashes
  BY <1>1
<1>4. BasenameOf(s) = SubSeq(s, 1 + Max({0} \cup slashes), Len(s))
  BY DEF BasenameOf
<1> HIDE DEF slashes
<1>5. PICK m \in 0..Len(s) : m = Max({0} \cup slashes) /\ \A k \in slashes : k <= m
  <2>1. {0} \cup slashes # {}
    OBVIOUS
  <2>2. QED
    BY <1>1, <1>2, <2>1, Greatest
<1>6. PICK a \in 1..(Len(s) + 1) : a = 1 + m
  BY <1>1
<1>7. \A k \in a..Len(s) : s[k] \in Nat /\ k \in 1..Len(s)
  BY <1>1
<1>8. /\ SubSeq(s, a, Len(s)) \in Seq(Nat)
      /\ Len(SubSeq(s, a, Len(s))) = IF a <= Len(s) THEN Len(s) - a + 1 ELSE 0
      /\ \A k \in 1..(Len(s) - a + 1) : SubSeq(s, a, Len(s))[k] = s[a + k - 1]
  BY <1>1, <1>7, SubSeqProperties
<1>9. BasenameOf(s) = SubSeq(s, a, Len(s))
  BY <1>4, <1>5, <1>6
<1>10. ASSUME NEW k \in DOMAIN SubSeq(s, a, Len(s)) PROVE SubSeq(s, a, Len(s))[k] # Slash
  <2>1. k \in 1..Len(SubSeq(s, a, Len(s)))
    BY <1>8, LenProperties
  <2>2. k \in 1..(Len(s) - a + 1)
    BY <1>1, <1>8, <2>1
  <2>3. PICK n \in 1..Len(s) : n = a + k - 1 /\ n > m
    <3>1. a + k - 1 \in 1..Len(s) /\ a + k - 1 > m
      BY <1>1, <1>6, <2>2
    <3>2. QED
      BY <3>1
  <2>4. s[n] # Slash
    <3>1. n \in slashes => n <= m
      BY <1>5
    <3>2. ~(n <= m)
      BY <2>3
    <3>3. QED
      BY <1>3, <3>1, <3>2
  <2>5. QED
    BY <1>8, <2>2, <2>3, <2>4
<1>11. QED
  BY <1>8, <1>9, <1>10

\* An op takes the entries it means.
LEMMA SelectsMeant ==
    ASSUME NEW op \in OpRecord, NEW e \in Entry, op.op \in {"copyGlob", "placeFile"}
    PROVE  Selects(op, e) <=> Meant(op, e)
<1> DEFINE glob == Normalize(op.src)
<1>1. op.src \in Seq(Nat) /\ e.path \in Seq(Nat)
  BY DEF OpRecord, Entry
<1>2. glob \in Seq(Nat) /\ (HasStar(glob) <=> HasStar(op.src))
  BY <1>1, Normalized
<1>3. BasenameOf(e.path) \in Seq(Nat)
  BY <1>1, Basename
<1> HIDE DEF glob
<1>4. GlobMatch(glob, e.path) <=> Means(glob, e.path)
  BY <1>1, <1>2, GlobMatchIsFnmatch DEF GlobMeansFnmatch
<1>5. ~IsJunk(BasenameOf(e.path)) <=>
          /\ BasenameOf(e.path) \notin JunkNames
          /\ ~\E pre \in JunkPrefixes : IsPrefix(pre, BasenameOf(e.path))
          /\ ~\E pat \in JunkPatterns : Means(pat, BasenameOf(e.path))
  <2>1. \A pat \in JunkPatterns : GlobMatch(pat, BasenameOf(e.path)) <=> Means(pat, BasenameOf(e.path))
    BY <1>3, RecipeAssumption, GlobMatchIsFnmatch DEF GlobMeansFnmatch
  <2>2. QED
    BY <2>1 DEF IsJunk
<1>6. Selects(op, e) <=>
          IF HasStar(glob) THEN /\ DepthOf(e.path) = DepthOf(glob) /\ GlobMatch(glob, e.path)
                                /\ ~e.dir /\ ~IsJunk(BasenameOf(e.path))
          ELSE e.path = glob
  BY DEF Selects, glob
<1>7. Meant(op, e) <=>
          \/ ~HasStar(op.src) /\ e.path = glob
          \/ /\ HasStar(op.src) /\ Means(glob, e.path)
             /\ DepthOf(e.path) = DepthOf(glob) /\ ~e.dir
             /\ BasenameOf(e.path) \notin JunkNames
             /\ ~\E pre \in JunkPrefixes : IsPrefix(pre, BasenameOf(e.path))
             /\ ~\E pat \in JunkPatterns : Means(pat, BasenameOf(e.path))
  BY DEF Meant, glob
<1>8. QED
  BY <1>2, <1>4, <1>5, <1>6, <1>7

LEMMA One == ASSUME NEW S, NEW c \in S
             PROVE  <<c>> \in Seq(S) /\ Len(<<c>>) = 1 /\ DOMAIN <<c>> = {1} /\ <<c>>[1] = c
<1>1. DOMAIN <<c>> = 1..1 /\ 1..1 = {1}
  OBVIOUS
<1>2. QED
  BY <1>1

LEMMA HitsOne == ASSUME NEW S, NEW c \in S, NEW K
                 PROVE  /\ Cardinality(Hits(<<c>>, K)) = IF c \in K THEN 1 ELSE 0
                        /\ Hits(<<c>>, K) # {} <=> c \in K
<1>1. DOMAIN <<c>> = {1} /\ <<c>>[1] = c
  BY One
<1>2. Hits(<<c>>, K) = IF c \in K THEN {1} ELSE {}
  BY <1>1 DEF Hits
<1>3. QED
  BY <1>2, FS_EmptySet, FS_Singleton

LEMMA HitsNone == ASSUME NEW K PROVE Hits(<<>>, K) = {} /\ Cardinality(Hits(<<>>, K)) = 0
<1>1. Hits(<<>>, K) = {}
  BY DEF Hits
<1>2. QED
  BY <1>1, FS_EmptySet

LEMMA Joined == ASSUME NEW dest \in Seq(Nat), NEW leaf \in Seq(Nat)
                PROVE  JoinPath(dest, leaf) \in Seq(Nat)
<1>1. <<Slash>> \in Seq(Nat)
  BY One DEF Slash
<1>2. dest \o leaf \in Seq(Nat) /\ dest \o <<Slash>> \in Seq(Nat)
  BY <1>1, ConcatProperties
<1>3. (dest \o <<Slash>>) \o leaf \in Seq(Nat)
  BY <1>2, ConcatProperties
<1>4. QED
  BY <1>2, <1>3 DEF JoinPath

LEMMA Copied == ASSUME NEW op \in OpRecord, NEW e \in Entry
                PROVE  CopyOf(op, e) \in PlannedOp /\ IsCopy(CopyOf(op, e)) /\ CopyOf(op, e).src = e.path
<1>1. op.rename \in Seq(Nat) /\ op.dest \in Seq(Nat) /\ e.path \in Seq(Nat)
  BY DEF OpRecord, Entry
<1>2. Normalize(op.rename) \in Seq(Nat) /\ Normalize(op.dest) \in Seq(Nat)
  BY <1>1, Normalized
<1>3. BasenameOf(Normalize(op.rename)) \in Seq(Nat) /\ BasenameOf(e.path) \in Seq(Nat)
  BY <1>1, <1>2, Basename
<1> DEFINE leaf == IF Renames(op)
                   THEN BasenameOf(Normalize(op.rename)) ELSE BasenameOf(e.path)
<1>4. CopyOf(op, e) = [kind |-> "copy", src |-> e.path, dest |-> JoinPath(Normalize(op.dest), leaf)]
  BY DEF CopyOf
<1>5. leaf \in Seq(Nat)
  BY <1>3
<1> HIDE DEF leaf
<1>6. PICK d \in Seq(Nat) : d = JoinPath(Normalize(op.dest), leaf)
  BY <1>2, <1>5, Joined
<1>7. CopyOf(op, e) = [kind |-> "copy", src |-> e.path, dest |-> d]
  BY <1>4, <1>6
<1>8. [kind |-> "copy", src |-> e.path, dest |-> d] \in PlannedOp
  BY <1>1 DEF PlannedOp
<1>9. QED
  BY <1>7, <1>8 DEF IsCopy

\* Trees as walked: no two entries of one path.
Walked == {t \in Seq(Entry) : \A j, k \in DOMAIN t : t[j].path = t[k].path => j = k}
CopiesOf(path) == {o \in PlannedOp : IsCopy(o) /\ o.src = path}

LEMMA PlanCopyCounts ==
    ASSUME NEW op \in OpRecord, op.op \in {"copyGlob", "placeFile"}, NEW tree \in Walked,
           NEW n \in DOMAIN tree
    PROVE  /\ PlanCopy(op, tree) \in Seq(PlannedOp)
           /\ Cardinality(Hits(PlanCopy(op, tree), CopiesOf(tree[n].path)))
                  = IF Meant(op, tree[n]) THEN 1 ELSE 0
           /\ \A k \in DOMAIN PlanCopy(op, tree) :
                 \E m \in DOMAIN tree : PlanCopy(op, tree)[k] = CopyOf(op, tree[m])
<1> DEFINE ss == [k \in DOMAIN tree |-> IF Selects(op, tree[k]) THEN <<CopyOf(op, tree[k])>> ELSE <<>>]
    K == CopiesOf(tree[n].path)
<1>1. /\ Len(tree) \in Nat /\ DOMAIN tree = 1..Len(tree) /\ \A k \in 1..Len(tree) : tree[k] \in Entry
      /\ \A j, k \in DOMAIN tree : tree[j].path = tree[k].path => j = k
  BY LenProperties, ElementOfSeq DEF Walked
<1>2. \A k \in DOMAIN tree :
          /\ CopyOf(op, tree[k]) \in PlannedOp /\ IsCopy(CopyOf(op, tree[k]))
          /\ CopyOf(op, tree[k]).src = tree[k].path
  BY <1>1, Copied
<1>3. \A k \in DOMAIN tree : ss[k] = IF Selects(op, tree[k]) THEN <<CopyOf(op, tree[k])>> ELSE <<>>
  OBVIOUS
<1>4. DOMAIN ss = 1..Len(tree)
  BY <1>1
<1>5. PlanCopy(op, tree) = FlattenSeq(ss)
  BY DEF PlanCopy
<1>6. ss = [k \in 1..Len(tree) |-> ss[k]]
  BY <1>1
<1> HIDE DEF ss
<1>7. \A k \in DOMAIN tree : ss[k] \in Seq(PlannedOp)
  <2> SUFFICES ASSUME NEW k \in DOMAIN tree PROVE ss[k] \in Seq(PlannedOp)
    OBVIOUS
  <2>1. <<CopyOf(op, tree[k])>> \in Seq(PlannedOp) /\ <<>> \in Seq(PlannedOp)
    BY <1>2, One, EmptySeq
  <2>2. QED
    BY <1>3, <2>1
<1>8. ss \in Seq(Seq(PlannedOp))
  <2>1. ss \in [1..Len(tree) -> Seq(PlannedOp)]
    BY <1>1, <1>6, <1>7
  <2>2. QED
    BY <1>1, <2>1, Mapped
<1>9. ASSUME NEW k \in DOMAIN tree
      PROVE  Cardinality(Hits(ss[k], K)) = IF k = n /\ Selects(op, tree[n]) THEN 1 ELSE 0
  <2>1. CASE Selects(op, tree[k])
    <3>1. ss[k] = <<CopyOf(op, tree[k])>>
      BY <1>3, <2>1
    <3>2. CopyOf(op, tree[k]) \in K <=> k = n
      BY <1>1, <1>2 DEF CopiesOf
    <3> HIDE DEF K
    <3>3. Cardinality(Hits(ss[k], K)) = IF CopyOf(op, tree[k]) \in K THEN 1 ELSE 0
      BY <1>2, <3>1, HitsOne
    <3>4. QED
      BY <2>1, <3>2, <3>3
  <2>2. CASE ~Selects(op, tree[k])
    <3>1. ss[k] = <<>>
      BY <1>3, <2>2
    <3>2. Cardinality(Hits(ss[k], K)) = 0
      BY <3>1, HitsNone
    <3>3. QED
      BY <2>2, <3>2
  <2>3. QED
    BY <2>1, <2>2
<1> HIDE DEF K
<1>10. Cardinality(Hits(FlattenSeq(ss), K)) = Cardinality({k \in DOMAIN ss : Hits(ss[k], K) # {}})
  <2>1. \A k \in DOMAIN ss : Cardinality(Hits(ss[k], K)) <= 1
    BY <1>1, <1>4, <1>9
  <2>2. QED
    BY <1>8, <2>1, HitsFlattened
<1>11. {k \in DOMAIN ss : Hits(ss[k], K) # {}} = IF Selects(op, tree[n]) THEN {n} ELSE {}
  <2>1. \A k \in DOMAIN ss : Hits(ss[k], K) # {} <=> Cardinality(Hits(ss[k], K)) # 0
    BY <1>1, <1>4, <1>7, HitsFinite
  <2>2. \A k \in DOMAIN ss : Hits(ss[k], K) # {} <=> k = n /\ Selects(op, tree[n])
    BY <1>1, <1>4, <1>9, <2>1
  <2>3. n \in DOMAIN ss
    BY <1>1, <1>4
  <2>4. QED
    BY <2>2, <2>3
<1>12. Selects(op, tree[n]) <=> Meant(op, tree[n])
  BY <1>1, SelectsMeant
<1>13. Cardinality({n}) = 1 /\ Cardinality({}) = 0
  BY FS_Singleton, FS_EmptySet
<1>14. Cardinality(Hits(PlanCopy(op, tree), K)) = IF Meant(op, tree[n]) THEN 1 ELSE 0
  BY <1>5, <1>10, <1>11, <1>12, <1>13
<1>15. ASSUME NEW k \in DOMAIN FlattenSeq(ss)
       PROVE  \E m \in DOMAIN tree : FlattenSeq(ss)[k] = CopyOf(op, tree[m])
  <2>1. PICK m \in DOMAIN ss : \E i \in DOMAIN ss[m] : FlattenSeq(ss)[k] = ss[m][i]
    BY <1>8, FlattenedFrom
  <2>2. PICK i \in DOMAIN ss[m] : FlattenSeq(ss)[k] = ss[m][i]
    BY <2>1
  <2>3. m \in DOMAIN tree
    BY <1>1, <1>4
  <2>4. Selects(op, tree[m])
    <3>1. ~Selects(op, tree[m]) => ss[m] = <<>>
      BY <1>3, <2>3
    <3>2. DOMAIN <<>> = {}
      OBVIOUS
    <3>3. QED
      BY <3>1, <3>2
  <2>5. ss[m] = <<CopyOf(op, tree[m])>>
    BY <1>3, <2>3, <2>4
  <2>6. i = 1 /\ ss[m][1] = CopyOf(op, tree[m])
    BY <1>2, <2>3, <2>5, One
  <2>7. QED
    BY <2>2, <2>3, <2>6
<1>16. FlattenSeq(ss) \in Seq(PlannedOp)
  BY <1>8, FlattenedFrom
<1>17. QED
  BY <1>5, <1>14, <1>15, <1>16 DEF K

LEMMA PlanOfCounts ==
    ASSUME NEW op \in OpRecord, NEW tree \in Walked, NEW n \in DOMAIN tree
    PROVE  Cardinality(Hits(PlanOf(op, tree), CopiesOf(tree[n].path))) = IF Meant(op, tree[n]) THEN 1 ELSE 0
<1> DEFINE K == CopiesOf(tree[n].path)
<1>1. CASE op.op \in {"copyGlob", "placeFile"}
  BY <1>1, PlanCopyCounts DEF PlanOf
<1>2. CASE op.op \notin {"copyGlob", "placeFile"}
  <2>1. ~Meant(op, tree[n])
    BY <1>2 DEF Meant
  <2>2. CASE op.op = "setExec"
    <3>1. PICK o : o = [kind |-> "setExec", src |-> <<>>, dest |-> <<>>] /\ PlanOf(op, tree) = <<o>>
      BY <2>2 DEF PlanOf
    <3>2. o \notin K
      BY <3>1 DEF CopiesOf, IsCopy
    <3>3. o \in {o}
      OBVIOUS
    <3>4. QED
      BY <2>1, <3>1, <3>2, <3>3, HitsOne
  <2>3. CASE op.op = "scriptInject"
    <3>1. PICK o : o = [kind |-> "script", src |-> op.src, dest |-> op.dest] /\ PlanOf(op, tree) = <<o>>
      BY <2>3 DEF PlanOf
    <3>2. o \notin K
      BY <3>1 DEF CopiesOf, IsCopy
    <3>3. o \in {o}
      OBVIOUS
    <3>4. QED
      BY <2>1, <3>1, <3>2, <3>3, HitsOne
  <2>4. CASE op.op \notin {"setExec", "scriptInject"}
    <3>1. PlanOf(op, tree) = <<>>
      BY <1>2, <2>4 DEF PlanOf
    <3>2. QED
      BY <2>1, <3>1, HitsNone
  <2>5. QED
    BY <2>2, <2>3, <2>4
<1>3. QED
  BY <1>1, <1>2

LEMMA PlanOfTyped ==
    ASSUME NEW op \in OpRecord, NEW tree \in Walked
    PROVE  /\ PlanOf(op, tree) \in Seq(PlannedOp)
           /\ \A k \in DOMAIN PlanOf(op, tree) :
                 IsCopy(PlanOf(op, tree)[k]) =>
                     \E m \in DOMAIN tree : PlanOf(op, tree)[k] = CopyOf(op, tree[m])
<1>1. op.src \in Seq(Nat) /\ op.dest \in Seq(Nat) /\ <<>> \in Seq(Nat) /\ <<>> \in Seq(PlannedOp)
  BY EmptySeq DEF OpRecord
<1>2. CASE op.op \in {"copyGlob", "placeFile"}
  <2>1. PlanOf(op, tree) = PlanCopy(op, tree)
    BY <1>2 DEF PlanOf
  <2>2. CASE DOMAIN tree # {}
    BY <1>2, <2>1, <2>2, PlanCopyCounts
  <2>3. CASE DOMAIN tree = {}
    <3> DEFINE ss == [k \in DOMAIN tree |-> IF Selects(op, tree[k]) THEN <<CopyOf(op, tree[k])>> ELSE <<>>]
    <3>1. ss = <<>>
      BY <2>3
    <3>2. PlanCopy(op, tree) = FlattenSeq(ss)
      BY DEF PlanCopy
    <3> HIDE DEF ss
    <3>3. PlanCopy(op, tree) = <<>>
      BY <3>1, <3>2 DEF FlattenSeq
    <3>4. QED
      BY <1>1, <2>1, <3>3
  <2>4. QED
    BY <2>2, <2>3
<1>3. CASE op.op = "setExec"
  <2>1. PICK o \in PlannedOp : PlanOf(op, tree) = <<o>> /\ ~IsCopy(o)
    <3>1. PlanOf(op, tree) = <<[kind |-> "setExec", src |-> <<>>, dest |-> <<>>]>>
      BY <1>3 DEF PlanOf
    <3>2. [kind |-> "setExec", src |-> <<>>, dest |-> <<>>] \in PlannedOp
      BY <1>1 DEF PlannedOp
    <3>3. ~IsCopy([kind |-> "setExec", src |-> <<>>, dest |-> <<>>])
      BY DEF IsCopy
    <3>4. QED
      BY <3>1, <3>2, <3>3
  <2>2. QED
    BY <2>1, One
<1>4. CASE op.op = "scriptInject"
  <2>1. PICK o \in PlannedOp : PlanOf(op, tree) = <<o>> /\ ~IsCopy(o)
    <3>1. PlanOf(op, tree) = <<[kind |-> "script", src |-> op.src, dest |-> op.dest]>>
      BY <1>4 DEF PlanOf
    <3>2. [kind |-> "script", src |-> op.src, dest |-> op.dest] \in PlannedOp
      BY <1>1 DEF PlannedOp
    <3>3. ~IsCopy([kind |-> "script", src |-> op.src, dest |-> op.dest])
      BY DEF IsCopy
    <3>4. QED
      BY <3>1, <3>2, <3>3
  <2>2. QED
    BY <2>1, One
<1>5. CASE op.op \notin {"copyGlob", "placeFile", "setExec", "scriptInject"}
  <2>1. PlanOf(op, tree) = <<>>
    BY <1>5 DEF PlanOf
  <2>2. QED
    BY <1>1, <2>1
<1>6. QED
  BY <1>2, <1>3, <1>4, <1>5

\* A drawer that is not the parent of an assign stays so with a name in it.
LEMMA JoinedOff ==
    ASSUME NEW dest \in Seq(Nat), NEW leaf \in Seq(Nat), OffTheParent(dest),
           \A k \in DOMAIN leaf : leaf[k] # Slash
    PROVE  OffTheParent(JoinPath(dest, leaf))
<1>1. /\ Len(dest) \in Nat /\ DOMAIN dest = 1..Len(dest)
      /\ Len(leaf) \in Nat /\ DOMAIN leaf = 1..Len(leaf)
  BY LenProperties
<1>2. CASE dest = <<>>
  <2>1. JoinPath(dest, leaf) = leaf
    BY <1>2 DEF JoinPath
  <2>2. \A k \in 1..(Len(leaf) - 1) : leaf[k + 1] # Slash
    <3>1. \A k \in 1..(Len(leaf) - 1) : k + 1 \in DOMAIN leaf
      BY <1>1
    <3>2. QED
      BY <3>1
  <2>3. QED
    BY <2>1, <2>2 DEF OffTheParent
<1>3. CASE dest # <<>> /\ dest[Len(dest)] = Colon
  <2>1. JoinPath(dest, leaf) = dest \o leaf
    BY <1>3 DEF JoinPath
  <2>2. /\ Len(dest \o leaf) = Len(dest) + Len(leaf)
        /\ \A k \in 1..(Len(dest) + Len(leaf)) :
              (dest \o leaf)[k] = IF k <= Len(dest) THEN dest[k] ELSE leaf[k - Len(dest)]
    BY ConcatProperties
  <2>3. ASSUME NEW k \in 1..(Len(dest \o leaf) - 1), (dest \o leaf)[k] = Colon
        PROVE  (dest \o leaf)[k + 1] # Slash
    <3>1. k \in 1..(Len(dest) + Len(leaf)) /\ k + 1 \in 1..(Len(dest) + Len(leaf))
      BY <1>1, <2>2
    <3>2. CASE k + 1 <= Len(dest)
      <4>1. k \in 1..(Len(dest) - 1) /\ k <= Len(dest)
        BY <1>1, <3>1, <3>2
      <4>2. (dest \o leaf)[k] = dest[k] /\ (dest \o leaf)[k + 1] = dest[k + 1]
        BY <2>2, <3>1, <3>2, <4>1
      <4>3. QED
        BY <2>3, <4>1, <4>2 DEF OffTheParent
    <3>3. CASE ~(k + 1 <= Len(dest))
      <4>1. (dest \o leaf)[k + 1] = leaf[(k + 1) - Len(dest)]
        BY <2>2, <3>1, <3>3
      <4>2. (k + 1) - Len(dest) \in DOMAIN leaf
        BY <1>1, <3>1, <3>3
      <4>3. QED
        BY <4>1, <4>2
    <3>4. QED
      BY <3>2, <3>3
  <2>4. QED
    BY <2>1, <2>3 DEF OffTheParent
<1>4. CASE dest # <<>> /\ dest[Len(dest)] # Colon
  <2> DEFINE one == dest \o <<Slash>>
      all == one \o leaf
  <2>0. <<Slash>> \in Seq(Nat) /\ Len(<<Slash>>) = 1 /\ <<Slash>>[1] = Slash
    BY One DEF Slash
  <2>1. JoinPath(dest, leaf) = all
    BY <1>4 DEF JoinPath
  <2>2. /\ one \in Seq(Nat) /\ Len(one) = Len(dest) + 1
        /\ \A k \in 1..(Len(dest) + 1) : one[k] = IF k <= Len(dest) THEN dest[k] ELSE <<Slash>>[k - Len(dest)]
    BY <2>0, ConcatProperties
  <2> HIDE DEF one
  <2>3. /\ Len(all) = Len(one) + Len(leaf)
        /\ \A k \in 1..(Len(one) + Len(leaf)) : all[k] = IF k <= Len(one) THEN one[k] ELSE leaf[k - Len(one)]
    <3>1. one \in Seq(Nat)
      BY <2>2
    <3>2. Len(all) = Len(one) + Len(leaf)
      BY <3>1, ConcatProperties
    <3>3. \A k \in 1..(Len(one) + Len(leaf)) : all[k] = IF k <= Len(one) THEN one[k] ELSE leaf[k - Len(one)]
      BY <3>1, ConcatProperties
    <3>4. QED
      BY <3>2, <3>3
  <2> HIDE DEF all
  <2>4. ASSUME NEW k \in 1..(Len(all) - 1), all[k] = Colon PROVE all[k + 1] # Slash
    <3>1. /\ k \in 1..(Len(one) + Len(leaf)) /\ k + 1 \in 1..(Len(one) + Len(leaf))
          /\ Len(one) = Len(dest) + 1
      BY <1>1, <2>2, <2>3
    <3>2. CASE k + 1 <= Len(dest)
      <4>1. k \in 1..(Len(dest) - 1) /\ k <= Len(dest) /\ k <= Len(one) /\ k + 1 <= Len(one)
            /\ k \in 1..(Len(dest) + 1) /\ k + 1 \in 1..(Len(dest) + 1)
        BY <1>1, <3>1, <3>2
      <4>2. all[k] = one[k] /\ all[k + 1] = one[k + 1]
        BY <2>3, <3>1, <4>1
      <4>3. one[k] = dest[k] /\ one[k + 1] = dest[k + 1]
        BY <2>2, <3>2, <4>1
      <4>4. QED
        BY <2>4, <4>1, <4>2, <4>3 DEF OffTheParent
    <3>3. CASE k = Len(dest)
      <4>1. k = Len(dest) /\ k <= Len(one) /\ k \in 1..(Len(dest) + 1) /\ k <= Len(dest)
        BY <1>1, <3>1, <3>3
      <4>2. all[k] = dest[k]
        BY <2>2, <2>3, <3>1, <4>1
      <4>3. QED
        BY <1>4, <2>4, <4>1, <4>2
    <3>4. CASE k > Len(dest)
      <4>1. (k + 1) - Len(one) \in DOMAIN leaf /\ ~(k + 1 <= Len(one))
        BY <1>1, <3>1, <3>4
      <4>2. all[k + 1] = leaf[(k + 1) - Len(one)]
        BY <2>3, <3>1, <4>1
      <4>3. QED
        BY <4>1, <4>2
    <3>5. \A a, b \in Int : a + 1 <= b \/ a = b \/ a > b
      OBVIOUS
    <3>6. k \in Int /\ Len(dest) \in Int
      BY <1>1
    <3>7. QED
      BY <3>2, <3>3, <3>4, <3>5, <3>6
  <2>5. QED
    BY <2>1, <2>4 DEF OffTheParent
<1>5. QED
  BY <1>2, <1>3, <1>4

RecipeRecord == [schema : Nat, ops : Seq(OpRecord)]

\* A planned copy's place is off the parents of assigns if the op's own is.
LEMMA CopiedOff ==
    ASSUME NEW op \in OpRecord, NEW e \in Entry, OffTheParent(Normalize(op.dest))
    PROVE  OffTheParent(CopyOf(op, e).dest)
<1>1. op.rename \in Seq(Nat) /\ op.dest \in Seq(Nat) /\ e.path \in Seq(Nat)
  BY DEF OpRecord, Entry
<1>2. Normalize(op.rename) \in Seq(Nat) /\ Normalize(op.dest) \in Seq(Nat)
  BY <1>1, Normalized
<1> DEFINE leaf == IF Renames(op)
                   THEN BasenameOf(Normalize(op.rename)) ELSE BasenameOf(e.path)
<1>3. leaf \in Seq(Nat) /\ \A k \in DOMAIN leaf : leaf[k] # Slash
  BY <1>1, <1>2, Basename
<1>4. CopyOf(op, e).dest = JoinPath(Normalize(op.dest), leaf)
  BY DEF CopyOf
<1> HIDE DEF leaf
<1>5. QED
  BY <1>2, <1>3, <1>4, JoinedOff

\* Whatever is carried out is a sequence of planned ops.
LEMMA PlanTyped ==
    ASSUME NEW r \in RecipeRecord, NEW tree \in Walked
    PROVE  Plan(r, SubSeq(tree, 1, Min({Len(tree), MaxEntries}))).ops \in Seq(PlannedOp)
<1> DEFINE t == SubSeq(tree, 1, Min({Len(tree), MaxEntries}))
    p == Parsed(r.ops)
    ss == [k \in DOMAIN p |-> PlanOf(p[k], t)]
<1>1. r.ops \in Seq(OpRecord) /\ tree \in Seq(Entry) /\ MaxOps \in Nat /\ MaxEntries \in Nat
  BY RecipeAssumption DEF RecipeRecord, Walked
<1>2. t \in Walked
  <2>1. PICK m \in 0..Len(tree) : t \in Seq(Entry) /\ DOMAIN t = 1..m /\ \A k \in 1..m : t[k] = tree[k]
    BY <1>1, CutShorter DEF CutTo
  <2>2. Len(tree) \in Nat /\ DOMAIN tree = 1..Len(tree) /\ \A k \in 1..m : k \in 1..Len(tree)
    BY <1>1, LenProperties
  <2> HIDE DEF t
  <2>3. \A j, k \in DOMAIN t : t[j].path = t[k].path => j = k
    BY <2>1, <2>2 DEF Walked
  <2>4. QED
    BY <2>1, <2>3 DEF Walked
<1>3. p \in Seq(OpRecord)
  <2>1. PICK m \in 0..Len(r.ops) : p \in Seq(OpRecord)
    BY <1>1, CutShorter DEF Parsed, CutTo
  <2>2. QED
    BY <2>1
<1> HIDE DEF t, p
<1>4. PICK N \in Nat : DOMAIN p = 1..N /\ \A k \in 1..N : p[k] \in OpRecord
  BY <1>3, LenProperties, ElementOfSeq
<1>5. ss \in [1..N -> Seq(PlannedOp)]
  <2>1. \A k \in 1..N : PlanOf(p[k], t) \in Seq(PlannedOp)
    BY <1>2, <1>4, PlanOfTyped
  <2>2. QED
    BY <1>4, <2>1
<1>6. ss \in Seq(Seq(PlannedOp))
  BY <1>5, Mapped
<1>7. Plan(r, t).ops = FlattenSeq(ss)
  BY DEF Plan, p
<1> HIDE DEF ss
<1>8. QED
  BY <1>6, <1>7, FlattenedFrom DEF t

\* The caller is told of nothing but copies, of all it has room for, and of none
\* only if there is none.
WellRecorded(S) == /\ Recorded(S) \subseteq S
                   /\ Cardinality(S) <= MaxPaths => Recorded(S) = S
                   /\ Recorded(S) = {} <=> S = {}

LEMMA RecordedRight ==
    ASSUME NEW N \in Nat, NEW S, S \subseteq 1..N
    PROVE  WellRecorded(S)
<1> DEFINE Before(k) == {j \in S : j < k}
<1>1. IsFiniteSet(S) /\ Cardinality(S) \in Nat
  <2>1. IsFiniteSet(1..N)
    BY FS_Interval
  <2>2. IsFiniteSet(S)
    BY <2>1, FS_Subset
  <2>3. QED
    BY <2>2, FS_CardinalityType
<1>2. Recorded(S) = {k \in S : Cardinality(Before(k)) < MaxPaths}
  BY DEF Recorded
<1>3. MaxPaths \in Nat /\ 0 < MaxPaths
  BY RecipeAssumption
<1>4. Recorded(S) \subseteq S
  BY <1>2
<1>5. ASSUME Cardinality(S) <= MaxPaths, NEW k \in S PROVE k \in Recorded(S)
  <2>1. Before(k) \subseteq S /\ k \notin Before(k)
    OBVIOUS
  <2>2. Before(k) # S
    BY <2>1
  <2> DEFINE B == Before(k)
  <2>3. B \in SUBSET S /\ B # S
    BY <2>1, <2>2
  <2>4. k \in Recorded(S) <=> Cardinality(B) < MaxPaths
    BY <1>2, <1>5
  <2> HIDE DEF B
  <2>5. IsFiniteSet(B) /\ Cardinality(B) <= Cardinality(S) /\ Cardinality(B) # Cardinality(S)
    BY <1>1, <2>3, FS_Subset
  <2>6. Cardinality(B) \in Nat
    BY <2>5, FS_CardinalityType
  <2>7. QED
    BY <1>1, <1>3, <1>5, <2>4, <2>5, <2>6
<1>6. ASSUME S # {} PROVE Recorded(S) # {}
  <2>1. S \subseteq Nat
    OBVIOUS
  <2>2. PICK m \in S : \A n \in S : m <= n
    BY <1>6, <2>1, Least
  <2>3. Before(m) = {}
    <3>1. \A n \in S : ~(n < m)
      BY <2>1, <2>2
    <3>2. QED
      BY <3>1
  <2>4. Cardinality(Before(m)) = 0
    BY <2>3, FS_EmptySet
  <2>5. QED
    BY <1>2, <1>3, <2>4
<1>7. QED
  BY <1>4, <1>5, <1>6 DEF WellRecorded

\* "Refuse a recipe we can't fully run": for every recipe, every archive and
\* whatever its scripts and copies do, either nothing is touched, or every op was
\* understood, every guard let it pass, and each file comes as often as ops mean
\* it, but for the copies that fail, in its place; and the caller's list is right
\* (arun_plan_build, amipkg_execute, amipkg_run_recipe).
THEOREM EveryRecipeRunAsMeant ==
    \A r \in RecipeRecord, tree \in Walked, broken \in SUBSET Nat, stuck \in SUBSET Nat :
        RunAsMeant(r, tree, broken, stuck)
<1> SUFFICES ASSUME NEW r \in RecipeRecord, NEW tree \in Walked, NEW broken \in SUBSET Nat,
                    NEW stuck \in SUBSET Nat
             PROVE  RunAsMeant(r, tree, broken, stuck)
  OBVIOUS
<1> DEFINE ops == r.ops
    run == RunRecipe(r, tree, broken, stuck)
    done == run.done
    copies == {k \in DOMAIN done : IsCopy(done[k])}
    From(S, n) == {k \in S : IsCopy(done[k]) /\ done[k].src = tree[n].path}
    ss == [k \in DOMAIN ops |-> PlanOf(ops[k], tree)]
    plan == Plan(r, SubSeq(tree, 1, Min({Len(tree), MaxEntries})))
    Whole == done # <<>> /\ Len(r.ops) <= MaxOps /\ Len(tree) <= MaxEntries =>
              /\ \A k \in DOMAIN r.ops : r.ops[k].op # "unknown"
              /\ r.schema <= 2
              /\ \A k \in DOMAIN r.ops : r.ops[k].op = "preScript" => k \notin broken
              /\ \A n \in DOMAIN tree :
                    Cardinality(From(run.placed, n)) =
                        IF tree[n].dir THEN 0
                        ELSE Cardinality({k \in DOMAIN r.ops : Meant(r.ops[k], tree[n])})
                                - Cardinality(From(DOMAIN done \cap stuck, n))
              /\ \A k \in run.placed : \E n \in DOMAIN tree : done[k].src = tree[n].path
              /\ (\A k \in DOMAIN r.ops : OffTheParent(Normalize(r.ops[k].dest)))
                    => \A k \in run.placed : OffTheParent(done[k].dest)
<1>a. /\ run.recorded = Recorded(run.placed)
      /\ run.placed = {k \in copies : k \notin stuck /\ ~NamesDrawer(tree, done[k].src)}
  BY DEF RunRecipe, Worked
<1>b. RunAsMeant(r, tree, broken, stuck) <=>
          /\ Whole
          /\ run.recorded \subseteq run.placed
          /\ Cardinality(run.placed) <= MaxPaths => run.recorded = run.placed
          /\ run.recorded = {} <=> run.placed = {}
  BY DEF RunAsMeant
<1>c. done = IF ScriptsOf(r, "preScript") \cap broken # {} \/ plan.refused THEN <<>> ELSE plan.ops
  BY DEF RunRecipe
<1>d. done \in Seq(PlannedOp)
  <2>1. plan.ops \in Seq(PlannedOp) /\ <<>> \in Seq(PlannedOp)
    BY PlanTyped, EmptySeq
  <2>2. QED
    BY <1>c, <2>1
<1> HIDE DEF run, plan
<1>e. PICK N \in Nat : DOMAIN done = 1..N
  BY <1>d, LenProperties
<1>f. run.placed \subseteq 1..N
  BY <1>a, <1>e
<1>g. /\ run.recorded \subseteq run.placed
      /\ Cardinality(run.placed) <= MaxPaths => run.recorded = run.placed
      /\ run.recorded = {} <=> run.placed = {}
  <2>1. WellRecorded(run.placed)
    BY <1>f, RecordedRight
  <2>2. QED
    BY <1>a, <2>1 DEF WellRecorded
<1> SUFFICES ASSUME done # <<>>, Len(ops) <= MaxOps, Len(tree) <= MaxEntries
             PROVE  /\ \A k \in DOMAIN ops : ops[k].op # "unknown"
                    /\ r.schema <= 2
                    /\ \A k \in DOMAIN ops : ops[k].op = "preScript" => k \notin broken
                    /\ \A n \in DOMAIN tree :
                          Cardinality(From(run.placed, n)) =
                              IF tree[n].dir THEN 0
                              ELSE Cardinality({k \in DOMAIN ops : Meant(ops[k], tree[n])})
                                      - Cardinality(From(DOMAIN done \cap stuck, n))
                    /\ \A k \in run.placed : \E n \in DOMAIN tree : done[k].src = tree[n].path
                    /\ (\A k \in DOMAIN ops : OffTheParent(Normalize(ops[k].dest)))
                          => \A k \in run.placed : OffTheParent(done[k].dest)
  BY <1>b, <1>g
<1>1. r.schema \in Nat /\ ops \in Seq(OpRecord) /\ tree \in Seq(Entry)
  BY DEF RecipeRecord, Walked
<1>2. Len(ops) \in Nat /\ DOMAIN ops = 1..Len(ops) /\ \A k \in DOMAIN ops : ops[k] \in OpRecord
  BY <1>1, LenProperties, ElementOfSeq
<1>3. \A n \in DOMAIN tree : tree[n] \in Entry
  BY <1>1, LenProperties, ElementOfSeq
<1>4. Parsed(ops) = ops
  BY <1>1, CutNothing, RecipeAssumption DEF Parsed
<1>5. SubSeq(tree, 1, Min({Len(tree), MaxEntries})) = tree
  BY <1>1, CutNothing, RecipeAssumption
<1> DEFINE pre == ScriptsOf(r, "preScript")
<1>50. plan = Plan(r, tree)
  BY <1>5 DEF plan
<1>6. done = IF pre \cap broken # {} \/ plan.refused THEN <<>> ELSE plan.ops
  BY <1>c
<1>7. pre \cap broken = {} /\ ~plan.refused /\ done = plan.ops
  BY <1>6
<1>8. /\ plan.ops = FlattenSeq(ss)
      /\ plan.refused = (HasUnknown(ops) \/ r.schema > 2 \/ Len(FlattenSeq(ss)) > MaxEntries)
  BY <1>4, <1>50 DEF Plan
<1>9. done = FlattenSeq(ss) /\ ~HasUnknown(ops) /\ ~(r.schema > 2)
  BY <1>7, <1>8
<1>10. pre = {k \in DOMAIN ops : ops[k].op = "preScript"}
  BY <1>4 DEF ScriptsOf
<1>11. DOMAIN ss = DOMAIN ops /\ \A k \in DOMAIN ops : ss[k] = PlanOf(ops[k], tree)
  OBVIOUS
<1>12. ss = [k \in 1..Len(ops) |-> ss[k]]
  BY <1>2
<1> HIDE DEF ss, done, pre
<1>13. \A k \in DOMAIN ops :
          /\ ss[k] \in Seq(PlannedOp)
          /\ \A m \in DOMAIN ss[k] : IsCopy(ss[k][m]) => \E n \in DOMAIN tree : ss[k][m] = CopyOf(ops[k], tree[n])
  BY <1>2, <1>11, PlanOfTyped
<1>14. ss \in Seq(Seq(PlannedOp))
  <2>1. ss \in [1..Len(ops) -> Seq(PlannedOp)]
    BY <1>2, <1>12, <1>13
  <2>2. QED
    BY <1>2, <2>1, Mapped
<1>15. /\ done \in Seq(PlannedOp)
       /\ \A k \in DOMAIN done : \E n \in DOMAIN ss : \E m \in DOMAIN ss[n] : done[k] = ss[n][m]
  BY <1>9, <1>14, FlattenedFrom
<1>16. ASSUME NEW k \in copies
       PROVE  \E i \in DOMAIN ops, n \in DOMAIN tree : done[k] = CopyOf(ops[i], tree[n])
  <2>1. k \in DOMAIN done /\ IsCopy(done[k])
    OBVIOUS
  <2>2. PICK i \in DOMAIN ss : \E m \in DOMAIN ss[i] : done[k] = ss[i][m]
    BY <1>15, <2>1
  <2>3. PICK m \in DOMAIN ss[i] : done[k] = ss[i][m]
    BY <2>2
  <2>4. i \in DOMAIN ops
    BY <1>11
  <2>5. PICK n \in DOMAIN tree : ss[i][m] = CopyOf(ops[i], tree[n])
    BY <1>13, <2>1, <2>3, <2>4
  <2>6. QED
    BY <2>3, <2>4, <2>5
<1>17. \A k \in DOMAIN ops : ops[k].op # "unknown"
  BY <1>4, <1>9 DEF HasUnknown
<1>18. r.schema <= 2
  BY <1>1, <1>9
<1>19. \A k \in DOMAIN ops : ops[k].op = "preScript" => k \notin broken
  BY <1>7, <1>10
<1>20. ASSUME NEW n \in DOMAIN tree
       PROVE  Cardinality({k \in copies : done[k].src = tree[n].path})
                  = Cardinality({k \in DOMAIN ops : Meant(ops[k], tree[n])})
  <2> DEFINE K == CopiesOf(tree[n].path)
  <2>1. Hits(done, K) = {k \in copies : done[k].src = tree[n].path}
    <3>1. \A k \in DOMAIN done : done[k] \in PlannedOp
      BY <1>15, LenProperties, ElementOfSeq
    <3>2. QED
      BY <3>1 DEF Hits, CopiesOf
  <2>2. \A k \in DOMAIN ops : Cardinality(Hits(ss[k], K)) = IF Meant(ops[k], tree[n]) THEN 1 ELSE 0
    BY <1>2, <1>11, PlanOfCounts
  <2> HIDE DEF K
  <2>3. Cardinality(Hits(FlattenSeq(ss), K)) = Cardinality({k \in DOMAIN ss : Hits(ss[k], K) # {}})
    <3>1. \A k \in DOMAIN ss : Cardinality(Hits(ss[k], K)) <= 1
      BY <1>11, <2>2
    <3>2. QED
      BY <1>14, <3>1, HitsFlattened
  <2>4. {k \in DOMAIN ss : Hits(ss[k], K) # {}} = {k \in DOMAIN ops : Meant(ops[k], tree[n])}
    <3>1. \A k \in DOMAIN ops : Hits(ss[k], K) # {} <=> Cardinality(Hits(ss[k], K)) # 0
      BY <1>13, HitsFinite
    <3>2. ASSUME NEW k \in DOMAIN ops PROVE Hits(ss[k], K) # {} <=> Meant(ops[k], tree[n])
      <4>1. CASE Meant(ops[k], tree[n])
        <5>1. Cardinality(Hits(ss[k], K)) = 1
          BY <2>2, <4>1
        <5>2. QED
          BY <3>1, <4>1, <5>1
      <4>2. CASE ~Meant(ops[k], tree[n])
        <5>1. Cardinality(Hits(ss[k], K)) = 0
          BY <2>2, <4>2
        <5>2. QED
          BY <3>1, <4>2, <5>1
      <4>3. QED
        BY <4>1, <4>2
    <3>3. QED
      BY <1>11, <3>2
  <2>5. QED
    BY <1>9, <2>1, <2>3, <2>4
<1>21. \A k \in copies : \E n \in DOMAIN tree : done[k].src = tree[n].path
  BY <1>2, <1>3, <1>16, Copied
<1>22. (\A k \in DOMAIN ops : OffTheParent(Normalize(ops[k].dest)))
           => \A k \in copies : OffTheParent(done[k].dest)
  BY <1>2, <1>3, <1>16, CopiedOff
<1>23. ASSUME NEW n \in DOMAIN tree
       PROVE  Cardinality(From(run.placed, n)) =
                  IF tree[n].dir THEN 0
                  ELSE Cardinality({k \in DOMAIN ops : Meant(ops[k], tree[n])})
                          - Cardinality(From(DOMAIN done \cap stuck, n))
  <2> DEFINE C == {k \in copies : done[k].src = tree[n].path}
  <2>1. NamesDrawer(tree, tree[n].path) <=> tree[n].dir
    BY DEF NamesDrawer, Walked
  <2>2. From(run.placed, n) = IF tree[n].dir THEN {} ELSE C \ stuck
    BY <1>a, <2>1
  <2>3. From(DOMAIN done \cap stuck, n) = C \cap stuck
    OBVIOUS
  <2>4. IsFiniteSet(C)
    BY <1>e, FS_Interval, FS_Subset
  <2>5. Cardinality(C) = Cardinality({k \in DOMAIN ops : Meant(ops[k], tree[n])})
    BY <1>20
  <2> HIDE DEF C
  <2>6. Cardinality(C \ stuck) = Cardinality(C) - Cardinality(C \cap stuck)
    BY <2>4, FS_Difference
  <2>7. Cardinality({}) = 0
    BY FS_EmptySet
  <2>8. QED
    BY <2>2, <2>3, <2>5, <2>6, <2>7
<1>24. run.placed \subseteq copies
  BY <1>a
<1>25. \A k \in run.placed : \E n \in DOMAIN tree : done[k].src = tree[n].path
  BY <1>21, <1>24
<1>26. (\A k \in DOMAIN ops : OffTheParent(Normalize(ops[k].dest)))
           => \A k \in run.placed : OffTheParent(done[k].dest)
  BY <1>22, <1>24
<1>27. QED
  BY <1>17, <1>18, <1>19, <1>23, <1>25, <1>26

\* The run's property, for patterns, texts, recipes and archives of any size.
AnyRecipeInput ==
    \/ input \in [topic : {"glob"}, pat : Seq(Nat), str : Seq(Nat)]
    \/ input \in [topic : {"recipe"}, r : RecipeRecord, tree : Walked, broken : SUBSET Nat,
                  stuck : SUBSET Nat]

THEOREM RecipesRunAsMeantAlways == AnyRecipeInput => RecipesRunAsMeant
<1>1. CASE input \in [topic : {"glob"}, pat : Seq(Nat), str : Seq(Nat)]
  <2>1. input.topic = "glob" /\ input.pat \in Seq(Nat) /\ input.str \in Seq(Nat)
    BY <1>1
  <2>2. GlobMeansFnmatch(input.pat, input.str)
    BY <2>1, GlobMatchIsFnmatch
  <2>3. QED
    BY <2>1, <2>2 DEF RecipesRunAsMeant
<1>2. CASE input \in [topic : {"recipe"}, r : RecipeRecord, tree : Walked, broken : SUBSET Nat,
                  stuck : SUBSET Nat]
  <2>1. /\ input.topic = "recipe" /\ input.r \in RecipeRecord
        /\ input.tree \in Walked /\ input.broken \in SUBSET Nat /\ input.stuck \in SUBSET Nat
    BY <1>2
  <2>2. RunAsMeant(input.r, input.tree, input.broken, input.stuck)
    BY <2>1, EveryRecipeRunAsMeant
  <2>3. QED
    BY <2>1, <2>2 DEF RecipesRunAsMeant
<1>3. QED
  BY <1>1, <1>2 DEF AnyRecipeInput

-----------------------------------------------------------------------------
(***************************************************************************)
(* Floppies.  A chain: the blocks along the links `next` from e on, as far *)
(* as there are blocks, at most max.                                       *)
(***************************************************************************)
Follows(nth, next, e, max) ==
    /\ nth \in [0..max -> DOMAIN next]
    /\ nth[0] = IF e \in DOMAIN next THEN e ELSE None
    /\ \A n \in 1..max :
          nth[n] = IF nth[n - 1] = None \/ next[nth[n - 1]] \notin DOMAIN next THEN None
                   ELSE next[nth[n - 1]]

\* What comes before the first None.
ChainOf(nth, max) == [k \in 1..Cardinality({n \in 0..(max - 1) : nth[n] # None}) |-> nth[k - 1]]

LEMMA SomeFollow ==
    ASSUME NEW D, D \subseteq Nat, 0 \in D, NEW next \in [D -> Nat], NEW e \in Nat, NEW max \in Nat
    PROVE  \E nth :
              /\ Follows(nth, next, e, max)
              /\ Followed(next, e, max) = ChainOf(nth, max)
<1> DEFINE readable(b) == IF b \in DOMAIN next THEN b ELSE None
    a == readable(e)
    After(b) == IF b = None THEN None ELSE readable(next[b])
    F == [p \in (1..max) \X D |-> After(p[2])]
    Is(f) == f = [n \in 0..max |-> IF n = 0 THEN readable(e)
                                   ELSE LET b == f[n - 1] IN IF b = None THEN None ELSE readable(next[b])]
<1>1. a \in D /\ DOMAIN next = D /\ None = 0
  BY DEF None
<1>2. \A n \in 1..max, x \in D : F[<<n, x>>] = After(x)
  OBVIOUS
<1>3. \A x \in D : After(x) \in D
  BY <1>1
<1>4. \A n \in 1..max, x \in D : F[<<n, x>>] \in D
  BY <1>2, <1>3
<1> HIDE DEF a, F, After
<1>5. PICK h : Runs(h, max, D, a, F)
  BY <1>1, <1>4, Iteration
<1>6. Is(h)
  <2>1. /\ h \in [0..max -> D]
        /\ \A n \in 0..max : h[n] = IF n = 0 THEN a ELSE F[<<n, h[n - 1]>>]
    BY <1>5 DEF Runs
  <2>2. ASSUME NEW n \in 0..max, n # 0 PROVE h[n] = After(h[n - 1])
    <3>1. n \in 1..max /\ n - 1 \in 0..max
      BY <2>2
    <3>2. QED
      BY <1>2, <2>1, <2>2, <3>1
  <2>3. \A n \in 0..max : h[n] = IF n = 0 THEN readable(e) ELSE After(h[n - 1])
    BY <2>1, <2>2 DEF a
  <2>4. QED
    BY <2>1, <2>3 DEF After
<1> DEFINE f == CHOOSE g : Is(g)
<1>7. Is(f)
  BY <1>6
<1>8. Followed(next, e, max) = ChainOf(f, max)
  BY DEF Followed, ChainOf
<1> HIDE DEF f
<1>9. DOMAIN f = 0..max /\ \A n \in 0..max : f[n] = IF n = 0 THEN a ELSE After(f[n - 1])
  BY <1>7 DEF a, After
<1>10. f \in [0..max -> D]
  <2> DEFINE T == {n \in Nat : n <= max => f[n] \in D}
  <2>1. 0 \in T
    BY <1>1, <1>9
  <2>2. ASSUME NEW n \in Nat, n \in T PROVE n + 1 \in T
    <3>1. n + 1 <= max => n + 1 \in 0..max /\ n + 1 # 0 /\ (n + 1) - 1 = n /\ n <= max
      OBVIOUS
    <3>2. n + 1 <= max => f[n + 1] = After(f[n])
      BY <1>9, <3>1
    <3>3. n + 1 <= max => f[n] \in D
      BY <2>2, <3>1
    <3>4. n + 1 <= max => f[n + 1] \in D
      BY <1>3, <3>2, <3>3
    <3>5. QED
      BY <3>4
  <2> HIDE DEF T
  <2>3. Nat \subseteq T
    BY <2>1, <2>2, Induct
  <2>4. \A n \in 0..max : f[n] \in D
    BY <2>3 DEF T
  <2>5. f = [n \in 0..max |-> IF n = 0 THEN readable(e)
                                   ELSE LET b == f[n - 1] IN IF b = None THEN None ELSE readable(next[b])]
    BY <1>7
  <2> HIDE DEF Is
  <2>6. QED
    BY <2>4, <2>5
<1>11. Follows(f, next, e, max)
  <2>1. ASSUME NEW n \in 1..max PROVE f[n] = After(f[n - 1])
    <3>1. n \in 0..max /\ n # 0
      OBVIOUS
    <3>2. QED
      BY <1>9, <3>1
  <2>2. f[0] = a
    BY <1>9
  <2>3. QED
    BY <1>1, <1>10, <2>1, <2>2 DEF Follows, a, After
<1>12. QED
  BY <1>8, <1>11

IsChain(s, next, e, max) ==
    LET B == DOMAIN next \ {None} IN
    /\ s \in Seq(B) /\ Len(s) <= max
    /\ s # <<>> => s[1] = e
    /\ max > 0 /\ e \in B => s # <<>>
    /\ \A k \in 2..Len(s) : s[k] = next[s[k - 1]]
    /\ s # <<>> /\ Len(s) < max => next[s[Len(s)]] \notin B

LEMMA Chained ==
    ASSUME NEW D, D \subseteq Nat, 0 \in D, NEW next \in [D -> Nat], NEW e \in Nat, NEW max \in Nat
    PROVE  IsChain(Followed(next, e, max), next, e, max)
<1>1. PICK nth : /\ Follows(nth, next, e, max)
                 /\ Followed(next, e, max) = ChainOf(nth, max)
  BY SomeFollow
<1>2. /\ DOMAIN next = D /\ None = 0 /\ nth \in [0..max -> D]
      /\ nth[0] = IF e \in D THEN e ELSE None
      /\ \A n \in 1..max :
            nth[n] = IF nth[n - 1] = None \/ next[nth[n - 1]] \notin D THEN None
                     ELSE next[nth[n - 1]]
  BY <1>1 DEF Follows, None
<1> DEFINE Ends == {n \in Nat : n < max => nth[n] = None}
<1>3. Ends \subseteq Nat /\ max \in Ends
  OBVIOUS
<1> HIDE DEF Ends
<1>4. PICK c \in Ends : \A n \in Ends : c <= n
  BY <1>3, Least
<1>5. c \in Nat /\ c <= max /\ (c < max => nth[c] = None) /\ \A n \in Nat : n < c => n < max /\ nth[n] # None
  BY <1>3, <1>4 DEF Ends
<1>6. \A n \in Nat : c <= n /\ n < max => nth[n] = None
  <2> DEFINE T == {n \in Nat : c + n < max => nth[c + n] = None}
  <2>1. 0 \in T
    BY <1>5
  <2>2. ASSUME NEW n \in Nat, n \in T PROVE n + 1 \in T
    <3>1. c + (n + 1) < max => c + n < max /\ c + (n + 1) \in 1..max /\ (c + (n + 1)) - 1 = c + n
      BY <1>5
    <3>2. QED
      BY <1>2, <2>2, <3>1
  <2> HIDE DEF T
  <2>3. Nat \subseteq T
    BY <2>1, <2>2, Induct
  <2>4. \A n \in Nat : c <= n => n - c \in Nat /\ c + (n - c) = n
    BY <1>5
  <2>5. QED
    BY <2>3, <2>4 DEF T
<1>7. {n \in 0..(max - 1) : nth[n] # None} = 0..(c - 1)
  BY <1>5, <1>6
<1>8. Cardinality(0..(c - 1)) = c
  BY <1>5, FS_Interval
<1>9. PICK s : s = [k \in 1..c |-> nth[k - 1]] /\ s = Followed(next, e, max)
  BY <1>1, <1>7, <1>8 DEF ChainOf
<1>10. \A k \in 1..c : k - 1 \in 0..max /\ k - 1 \in Nat /\ k - 1 < c
  BY <1>5
<1>11. \A k \in 1..c : s[k] = nth[k - 1] /\ s[k] \in D \ {None}
  BY <1>2, <1>5, <1>9, <1>10
<1>12. s \in Seq(D \ {None}) /\ Len(s) = c
  <2>1. s \in [1..c -> D \ {None}]
    BY <1>9, <1>11
  <2>2. QED
    BY <1>5, <2>1, Mapped
<1>13. s = <<>> <=> c = 0
  BY <1>12, EmptySeq
<1>14. c # 0 => s[1] = e
  BY <1>2, <1>5, <1>11
<1>15. max > 0 /\ e \in D \ {None} => c # 0
  BY <1>2, <1>5
<1>16. ASSUME NEW k \in 2..c PROVE s[k] = next[s[k - 1]]
  <2>1. k \in 1..c /\ k - 1 \in 1..c /\ k - 1 \in 1..max /\ (k - 1) - 1 = k - 2
    BY <1>5
  <2>2. s[k] = nth[k - 1] /\ s[k - 1] = nth[(k - 1) - 1] /\ s[k] # None
    BY <1>11, <2>1
  <2>3. QED
    BY <1>2, <2>1, <2>2
<1>17. c # 0 /\ c < max => next[s[c]] \notin D \ {None}
  <2> SUFFICES ASSUME c # 0, c < max PROVE next[s[c]] \notin D \ {None}
    OBVIOUS
  <2>1. c \in 1..c /\ c \in 1..max
    BY <1>5
  <2>2. s[c] = nth[c - 1] /\ nth[c - 1] # None
    BY <1>11, <2>1
  <2>3. nth[c] = None
    BY <1>5
  <2>4. QED
    BY <1>2, <2>1, <2>2, <2>3
<1>18. IsChain(s, next, e, max)
  BY <1>2, <1>5, <1>12, <1>13, <1>14, <1>15, <1>16, <1>17 DEF IsChain
<1>19. QED
  BY <1>9, <1>18

-----------------------------------------------------------------------------
\* Images, and what is written of a file.
Block ==
    [sec : {"root", "dir", "file", "other"}, table : [1..TableSize -> Nat], chain : Nat,
     used : Nat, ext : Nat, size : Nat, data : Nat]

IsImage(img) ==
    /\ DOMAIN img \subseteq Nat /\ IsFiniteSet(DOMAIN img) /\ None \in DOMAIN img
    /\ img \in [DOMAIN img -> Block]

Chunk == [block : Nat, bytes : Nat]
FileState == [stop : BOOLEAN, left : Nat, out : Seq(Chunk)]

LEMMA Bounds ==
    /\ MaxDepth \in Nat /\ MaxChain \in Nat /\ MaxBlocks \in Nat /\ TableSize \in Nat /\ BlockBytes \in Nat
    /\ MaxDepth + 1 \in Nat /\ MaxChain + 1 \in Nat
<1>1. MaxDepth \in Nat /\ MaxChain \in Nat /\ MaxBlocks \in Nat /\ TableSize \in Nat /\ BlockBytes \in Nat
  BY FloppyAssumption
<1>2. QED
  BY <1>1

LEMMA BlockTyped ==
    ASSUME NEW img, IsImage(img), NEW b \in DOMAIN img
    PROVE  /\ img[b] \in Block /\ img[b].chain \in Nat /\ img[b].used \in Nat /\ img[b].ext \in Nat
           /\ img[b].size \in Nat /\ img[b].data \in Nat
           /\ img[b].table \in [1..TableSize -> Nat]
           /\ img[b].table \in Seq(Nat) /\ Len(img[b].table) = TableSize
<1>1. img[b] \in Block
  BY DEF IsImage
<1>2. img[b].table \in [1..TableSize -> Nat]
  BY <1>1 DEF Block
<1>3. img[b].table \in Seq(Nat) /\ Len(img[b].table) = TableSize
  BY <1>2, Bounds, Mapped
<1>4. QED
  BY <1>1, <1>2, <1>3 DEF Block

\* The beginning of a sequence.
Begins(u, s, n) == Len(u) = (IF Len(s) <= n THEN Len(s) ELSE n) /\ \A k \in 1..Len(u) : u[k] = s[k]

LEMMA CutOff ==
    ASSUME NEW S, NEW s \in Seq(S), NEW n \in Nat
    PROVE  SubSeq(s, 1, Min({Len(s), n})) \in Seq(S) /\ Begins(SubSeq(s, 1, Min({Len(s), n})), s, n)
<1>1. PICK l \in Nat : l = Len(s) /\ DOMAIN s = 1..l /\ \A k \in 1..l : s[k] \in S
  BY LenProperties, ElementOfSeq
<1>2. PICK m \in Nat : m = IF l <= n THEN l ELSE n
  OBVIOUS
<1>4. Min({l, n}) = m
  BY <1>2, SmallerOfTwo
<1>5. \A k \in 1..m : k \in 1..l /\ s[k] \in S
  BY <1>1, <1>2
<1>6. 1 \in Int /\ m \in Int /\ (1 <= m => (m - 1) + 1 = m) /\ (~(1 <= m) => m = 0)
  BY <1>2
<1>7. /\ SubSeq(s, 1, m) \in Seq(S) /\ Len(SubSeq(s, 1, m)) = IF 1 <= m THEN m - 1 + 1 ELSE 0
      /\ \A k \in 1..(m - 1 + 1) : SubSeq(s, 1, m)[k] = s[1 + k - 1]
  BY <1>5, <1>6, SubSeqProperties
<1>8. Len(SubSeq(s, 1, m)) = m
  BY <1>6, <1>7
<1>9. \A k \in 1..m : SubSeq(s, 1, m)[k] = s[k]
  <2>1. \A k \in 1..m : k \in 1..(m - 1 + 1) /\ 1 + k - 1 = k
    OBVIOUS
  <2>2. QED
    BY <1>7, <2>1
<1>10. QED
  BY <1>1, <1>2, <1>4, <1>7, <1>8, <1>9 DEF Begins

LEMMA TableTyped ==
    ASSUME NEW img, IsImage(img), NEW b \in DOMAIN img
    PROVE  TableOf(img, b) \in Seq(Nat)
<1>1. PICK m \in Nat : m = Min({img[b].used, TableSize}) /\ m <= TableSize
  <2>1. {img[b].used, TableSize} \subseteq Nat /\ {img[b].used, TableSize} # {}
    BY BlockTyped, Bounds
  <2>2. Min({img[b].used, TableSize}) \in {img[b].used, TableSize}
        /\ \A n \in {img[b].used, TableSize} : Min({img[b].used, TableSize}) <= n
    BY <2>1, Least
  <2>3. QED
    BY <2>1, <2>2
<1>2. \A k \in 1..m : k \in 1..TableSize
  BY <1>1, Bounds
<1>3. \A k \in 1..m : img[b].table[k] \in Nat
  BY <1>2, BlockTyped
<1>4. 1 \in Int /\ m \in Int
  OBVIOUS
<1>5. SubSeq(img[b].table, 1, m) \in Seq(Nat)
  BY <1>3, <1>4, SubSeqProperties
<1>6. QED
  BY <1>1, <1>5 DEF TableOf

LEMMA BlocksTyped ==
    ASSUME NEW img, IsImage(img), NEW f \in DOMAIN img
    PROVE  FileBlocks(img, f) \in Seq(Nat)
<1> DEFINE next == [b \in DOMAIN img |-> img[b].ext]
    headers == Followed(next, f, MaxChain + 1)
    tables == [k \in DOMAIN headers |-> TableOf(img, headers[k])]
<1>1. PICK D : D = DOMAIN img /\ D \subseteq Nat /\ 0 \in D /\ f \in Nat
  BY DEF IsImage, None
<1>2. next \in [D -> Nat]
  BY <1>1, BlockTyped
<1>3. IsChain(headers, next, f, MaxChain + 1)
  <2> HIDE DEF next
  <2>1. QED
    BY <1>1, <1>2, Bounds, Chained
<1>4. headers \in Seq(D) /\ Len(headers) \in Nat /\ DOMAIN headers = 1..Len(headers)
  <2>1. headers \in Seq(D \ {None})
    BY <1>2, <1>3 DEF IsChain
  <2> HIDE DEF headers
  <2>2. QED
    BY <2>1, LenProperties
<1> HIDE DEF headers
<1>5. \A k \in 1..Len(headers) : TableOf(img, headers[k]) \in Seq(Nat)
  BY <1>1, <1>4, TableTyped
<1>6. tables \in Seq(Seq(Nat))
  <2>1. tables \in [1..Len(headers) -> Seq(Nat)]
    BY <1>4, <1>5
  <2> HIDE DEF tables
  <2>2. QED
    BY <1>4, <2>1, Mapped
<1> HIDE DEF tables
<1>7. FlattenSeq(tables) \in Seq(Nat)
  BY <1>6, FlattenedFrom
<1>8. PICK all \in Seq(Nat) : all = FlattenSeq(tables)
  BY <1>7
<1>9. SubSeq(all, 1, Min({Len(all), MaxBlocks})) \in Seq(Nat)
  BY Bounds, CutOff
<1>10. QED
  BY <1>8, <1>9 DEF FileBlocks, tables, headers

\* f[k] are the bytes of the first k pieces.
Totals(f, out) ==
    /\ f \in [0..Len(out) -> Nat] /\ f[0] = 0
    /\ \A k \in 1..Len(out) : f[k] = f[k - 1] + out[k].bytes

LEMMA Totalling ==
    ASSUME NEW out \in Seq(Chunk)
    PROVE  \E f : Totals(f, out) /\ BytesOf(out) = f[Len(out)]
<1> DEFINE F == [p \in (1..Len(out)) \X Nat |-> p[2] + out[p[1]].bytes]
    Is(f) == f = [k \in 0..Len(out) |-> IF k = 0 THEN 0 ELSE f[k - 1] + out[k].bytes]
<1>1. PICK N \in Nat : N = Len(out) /\ \A k \in 1..N : out[k].bytes \in Nat
  <2>1. Len(out) \in Nat /\ \A k \in 1..Len(out) : out[k] \in Chunk
    BY LenProperties, ElementOfSeq
  <2>2. QED
    BY <2>1 DEF Chunk
<1>2. \A n \in 1..N, x \in Nat : F[<<n, x>>] = x + out[n].bytes
  BY <1>1
<1>3. \A n \in 1..N, x \in Nat : F[<<n, x>>] \in Nat
  <2> HIDE DEF F
  <2>1. ASSUME NEW n \in 1..N, NEW x \in Nat PROVE F[<<n, x>>] \in Nat
    <3>1. F[<<n, x>>] = x + out[n].bytes /\ out[n].bytes \in Nat
      BY <1>1, <1>2
    <3>2. QED
      BY <3>1
  <2>2. QED
    BY <2>1
<1> HIDE DEF F
<1>4. PICK h : Runs(h, N, Nat, 0, F)
  BY <1>1, <1>3, Iteration
<1>5. Is(h)
  <2>1. /\ h \in [0..N -> Nat]
        /\ \A n \in 0..N : h[n] = IF n = 0 THEN 0 ELSE F[<<n, h[n - 1]>>]
    BY <1>4 DEF Runs
  <2>2. ASSUME NEW n \in 0..N, n # 0 PROVE h[n] = h[n - 1] + out[n].bytes
    <3>1. n \in 1..N /\ n - 1 \in 0..N
      BY <2>2
    <3>2. QED
      BY <1>2, <2>1, <2>2, <3>1
  <2>3. \A n \in 0..N : h[n] = IF n = 0 THEN 0 ELSE h[n - 1] + out[n].bytes
    BY <2>1, <2>2
  <2>4. QED
    BY <1>1, <2>1, <2>3
<1> DEFINE f == CHOOSE g : Is(g)
<1>6. Is(f)
  BY <1>5
<1>7. BytesOf(out) = f[Len(out)]
  BY DEF BytesOf
<1> HIDE DEF f
<1>8. DOMAIN f = 0..N /\ \A n \in 0..N : f[n] = IF n = 0 THEN 0 ELSE f[n - 1] + out[n].bytes
  BY <1>1, <1>6
<1>9. \A n \in 1..N : n \in 0..N /\ n # 0
  OBVIOUS
<1>10. f[0] = 0 /\ \A n \in 1..N : f[n] = f[n - 1] + out[n].bytes
  BY <1>8, <1>9
<1> DEFINE T == {n \in Nat : n <= N => f[n] \in Nat}
<1>11. 0 \in T
  BY <1>10
<1>12. ASSUME NEW n \in Nat, n \in T PROVE n + 1 \in T
  <2>1. n + 1 <= N => n + 1 \in 1..N /\ (n + 1) - 1 = n /\ n <= N
    OBVIOUS
  <2>2. n + 1 <= N => f[n] \in Nat /\ out[n + 1].bytes \in Nat /\ f[n + 1] = f[n] + out[n + 1].bytes
    BY <1>1, <1>10, <1>12, <2>1
  <2>3. QED
    BY <2>2
<1> HIDE DEF T
<1>13. Nat \subseteq T
  BY <1>11, <1>12, Induct
<1>14. \A n \in 0..N : f[n] \in Nat
  BY <1>13 DEF T
<1>15. f = [k \in 0..N |-> IF k = 0 THEN 0 ELSE f[k - 1] + out[k].bytes]
  BY <1>1, <1>6
<1> HIDE DEF Is
<1>16. f \in [0..N -> Nat]
  BY <1>14, <1>15
<1>17. QED
  BY <1>1, <1>7, <1>10, <1>16 DEF Totals

AgreeAt(f, g, n) == f[n] = g[n]

LEMMA TotalsAgree ==
    ASSUME NEW f, NEW g, NEW s, NEW t, Totals(f, s), Totals(g, t), NEW n \in Nat,
           n <= Len(s), n <= Len(t), Len(s) \in Nat, Len(t) \in Nat, \A k \in 1..n : s[k] = t[k]
    PROVE  AgreeAt(f, g, n)
<1> DEFINE T == {m \in Nat : m <= n => f[m] = g[m]}
<1>1. 0 \in T
  BY DEF Totals
<1>2. ASSUME NEW m \in Nat, m \in T PROVE m + 1 \in T
  <2>1. m + 1 <= n => /\ m + 1 \in 1..n /\ m + 1 \in 1..Len(s) /\ m + 1 \in 1..Len(t)
                      /\ (m + 1) - 1 = m /\ m <= n
    OBVIOUS
  <2>2. m + 1 <= n => f[m + 1] = f[m] + s[m + 1].bytes /\ g[m + 1] = g[m] + t[m + 1].bytes
    BY <2>1 DEF Totals
  <2>3. QED
    BY <1>2, <2>1, <2>2
<1> HIDE DEF T
<1>3. n \in T
  BY <1>1, <1>2, Induct
<1>4. QED
  BY <1>3 DEF T, AgreeAt

\* One more piece, and none.
LEMMA BytesAppended ==
    ASSUME NEW out \in Seq(Chunk), NEW x \in Chunk
    PROVE  BytesOf(out) \in Nat /\ BytesOf(Append(out, x)) = BytesOf(out) + x.bytes
<1>1. PICK u \in Seq(Chunk), n \in Nat :
          /\ u = Append(out, x) /\ n = Len(out) /\ Len(u) = n + 1 /\ u[n + 1] = x
          /\ \A k \in 1..n : u[k] = out[k]
  <2>1. /\ Append(out, x) \in Seq(Chunk) /\ Len(Append(out, x)) = Len(out) + 1
        /\ Append(out, x)[Len(out) + 1] = x /\ \A k \in 1..Len(out) : Append(out, x)[k] = out[k]
    BY AppendProperties
  <2>2. Len(out) \in Nat
    BY LenProperties
  <2>3. QED
    BY <2>1, <2>2
<1>2. PICK f : Totals(f, out) /\ BytesOf(out) = f[n]
  BY <1>1, Totalling
<1>3. PICK g : Totals(g, u) /\ BytesOf(u) = g[n + 1]
  BY <1>1, Totalling
<1>4. n <= Len(out) /\ n <= Len(u) /\ Len(out) \in Nat /\ Len(u) \in Nat
      /\ n + 1 \in 1..Len(u) /\ (n + 1) - 1 = n /\ n \in 0..Len(out)
  BY <1>1
<1>5. g[n] = f[n]
  <2>1. \A k \in 1..n : u[k] = out[k]
    BY <1>1
  <2>2. AgreeAt(g, f, n)
    BY <1>2, <1>3, <1>4, <2>1, TotalsAgree
  <2>3. QED
    BY <2>2 DEF AgreeAt
<1>6. g[n + 1] = g[n] + x.bytes /\ f[n] \in Nat
  BY <1>1, <1>2, <1>3, <1>4 DEF Totals
<1>7. QED
  BY <1>1, <1>2, <1>3, <1>5, <1>6

LEMMA NoBytes == BytesOf(<<>>) = 0
<1>1. PICK u \in Seq(Chunk) : u = <<>> /\ Len(u) = 0
  BY EmptySeq
<1>2. PICK f : Totals(f, u) /\ BytesOf(u) = f[0]
  BY <1>1, Totalling
<1>3. QED
  BY <1>1, <1>2 DEF Totals

\* Of a block is taken what is left, what it holds or what a block can hold,
\* whichever is least.
LEMMA TakenIs ==
    ASSUME NEW img, IsImage(img), NEW b \in DOMAIN img, NEW left \in Nat
    PROVE  /\ Taken(img, left, b) \in Nat /\ Taken(img, left, b) <= left
           /\ img[b].data = BlockBytes =>
                 Taken(img, left, b) = IF left <= BlockBytes THEN left ELSE BlockBytes
<1>1. img[b].data \in Nat /\ BlockBytes \in Nat
  BY BlockTyped, Bounds
<1> DEFINE S == {left, img[b].data, BlockBytes}
<1>2. S \subseteq Nat /\ S # {} /\ left \in S /\ BlockBytes \in S
  BY <1>1
<1>3. S = {left, img[b].data, BlockBytes}
  OBVIOUS
<1> HIDE DEF S
<1>4. Min(S) \in S /\ \A n \in S : Min(S) <= n
  BY <1>2, Least
<1>5. Taken(img, left, b) = Min(S)
  BY <1>3 DEF Taken
<1>6. PICK m \in Nat : m = Min(S) /\ m \in S /\ m <= left /\ m <= BlockBytes
  BY <1>2, <1>4
<1>7. QED
  BY <1>1, <1>3, <1>5, <1>6

-----------------------------------------------------------------------------
(***************************************************************************)
(* extract_file: what is written and what is left are together the size in *)
(* the header; before the loop stops every block read is written.          *)
(***************************************************************************)
Writes(x, img, f, blocks) ==
    /\ x[0] = [stop |-> FALSE, left |-> img[f].size, out |-> <<>>]
    /\ \A k \in 1..Len(blocks) : x[k] = WriteBlock(img, x[k - 1], blocks[k])

Wrote(img, x, b, z) ==
    /\ z \in FileState /\ BytesOf(z.out) + z.left = BytesOf(x.out) + x.left
    /\ IF x.stop \/ x.left = 0 \/ ~Readable(img, b)
       THEN z.stop = TRUE /\ z.left = x.left /\ z.out = x.out
       ELSE /\ z.stop = x.stop /\ z.left = x.left - Taken(img, x.left, b)
            /\ z.out = Append(x.out, [block |-> b, bytes |-> Taken(img, x.left, b)])

LEMMA WriteTyped ==
    ASSUME NEW img, IsImage(img), NEW x \in FileState, NEW b \in Nat
    PROVE  Wrote(img, x, b, WriteBlock(img, x, b))
<1>1. PICK t \in BOOLEAN, l \in Nat, o \in Seq(Chunk) : x = [stop |-> t, left |-> l, out |-> o]
  BY DEF FileState
<1>2. x.stop = t /\ x.left = l /\ x.out = o
  BY <1>1
<1>3. CASE t \/ l = 0 \/ ~Readable(img, b)
  <2> DEFINE y == [x EXCEPT !.stop = TRUE]
  <2>1. WriteBlock(img, x, b) = y
    BY <1>2, <1>3 DEF WriteBlock
  <2>2. y \in FileState /\ y.stop = TRUE /\ y.left = x.left /\ y.out = x.out
    BY DEF FileState
  <2> HIDE DEF y
  <2>3. QED
    BY <1>2, <1>3, <2>1, <2>2 DEF Wrote
<1>4. CASE ~(t \/ l = 0 \/ ~Readable(img, b))
  <2>1. PICK m \in Nat : m = Taken(img, l, b) /\ m <= l
    BY <1>4, TakenIs DEF Readable
  <2>2. PICK c \in Chunk : c = [block |-> b, bytes |-> m] /\ c.bytes = m
    <3>1. [block |-> b, bytes |-> m] \in Chunk
      BY DEF Chunk
    <3>2. [block |-> b, bytes |-> m].bytes = m
      OBVIOUS
    <3>3. QED
      BY <3>1, <3>2, Zenon
  <2>3. PICK u \in Seq(Chunk) : u = Append(o, c) /\ BytesOf(u) = BytesOf(o) + m /\ BytesOf(o) \in Nat
    <3>1. Append(o, c) \in Seq(Chunk)
      BY AppendProperties
    <3>2. BytesOf(o) \in Nat /\ BytesOf(Append(o, c)) = BytesOf(o) + c.bytes
      BY BytesAppended
    <3>3. QED
      BY <2>2, <3>1, <3>2
  <2>4. PICK n \in Nat : n = l - m /\ (BytesOf(o) + m) + n = BytesOf(o) + l
    <3>1. l - m \in Nat
      BY <2>1
    <3>2. \A k \in Nat : (k + m) + (l - m) = k + l
      OBVIOUS
    <3>3. QED
      BY <2>3, <3>1, <3>2
  <2> DEFINE y == [x EXCEPT !.left = n, !.out = u]
  <2>5. WriteBlock(img, x, b) = y
    BY <1>2, <1>4, <2>1, <2>2, <2>3, <2>4 DEF WriteBlock
  <2>6. y \in FileState /\ y.stop = x.stop /\ y.left = n /\ y.out = u
    BY DEF FileState
  <2> HIDE DEF y
  <2>7. BytesOf(y.out) + y.left = BytesOf(x.out) + x.left
    BY <1>2, <2>3, <2>4, <2>6
  <2>8. n = x.left - Taken(img, x.left, b)
        /\ u = Append(x.out, [block |-> b, bytes |-> Taken(img, x.left, b)])
    BY <1>2, <2>1, <2>2, <2>3, <2>4
  <2>9. QED
    BY <1>2, <1>4, <2>5, <2>6, <2>7, <2>8 DEF Wrote
<1>5. QED
  BY <1>3, <1>4

LEMMA Writing ==
    ASSUME NEW img, IsImage(img), NEW f \in DOMAIN img
    PROVE  \E x : /\ Writes(x, img, f, FileBlocks(img, f))
                  /\ x \in [0..Len(FileBlocks(img, f)) -> FileState]
                  /\ ExtractFile(img, f) = x[Len(FileBlocks(img, f))].out
<1> DEFINE blocks == FileBlocks(img, f)
    a == [stop |-> FALSE, left |-> img[f].size, out |-> <<>>]
    F == [p \in (1..Len(blocks)) \X FileState |-> WriteBlock(img, p[2], blocks[p[1]])]
    Is(g) == g = [k \in 0..Len(blocks) |-> IF k = 0 THEN [stop |-> FALSE, left |-> img[f].size, out |-> <<>>]
                                           ELSE WriteBlock(img, g[k - 1], blocks[k])]
<1>1. PICK N \in Nat : N = Len(blocks) /\ \A k \in 1..N : blocks[k] \in Nat
  BY BlocksTyped, LenProperties, ElementOfSeq
<1>2. a \in FileState
  <2>1. img[f].size \in Nat /\ <<>> \in Seq(Chunk)
    BY BlockTyped, EmptySeq
  <2>2. QED
    BY <2>1 DEF FileState
<1>3. \A n \in 1..N, x \in FileState : F[<<n, x>>] = WriteBlock(img, x, blocks[n])
  BY <1>1
<1>4. ASSUME NEW n \in 1..N, NEW x \in FileState PROVE WriteBlock(img, x, blocks[n]) \in FileState
  <2> HIDE DEF blocks
  <2>1. QED
    BY <1>1, WriteTyped DEF Wrote
<1>5. \A n \in 1..N, x \in FileState : F[<<n, x>>] \in FileState
  <2> HIDE DEF F
  <2>1. QED
    BY <1>3, <1>4
<1>6. ExtractFile(img, f) = (CHOOSE g : Is(g))[Len(blocks)].out
  BY DEF ExtractFile
<1> HIDE DEF F, blocks
<1>7. PICK h : Runs(h, N, FileState, a, F)
  <2> HIDE DEF a
  <2>1. QED
    BY <1>2, <1>5, Iteration
<1>8. /\ h \in [0..N -> FileState]
      /\ \A n \in 0..N : h[n] = IF n = 0 THEN a ELSE F[<<n, h[n - 1]>>]
  <2> HIDE DEF a
  <2>1. QED
    BY <1>7 DEF Runs
<1>9. Is(h)
  <2>1. ASSUME NEW n \in 0..N, n # 0 PROVE h[n] = WriteBlock(img, h[n - 1], blocks[n])
    <3>1. n \in 1..N /\ n - 1 \in 0..N
      BY <2>1
    <3>2. h[n - 1] \in FileState /\ h[n] = F[<<n, h[n - 1]>>]
      BY <1>8, <2>1, <3>1
    <3>3. QED
      BY <1>3, <3>1, <3>2
  <2>2. \A n \in 0..N : h[n] = IF n = 0 THEN a ELSE WriteBlock(img, h[n - 1], blocks[n])
    BY <1>8, <2>1
  <2>3. QED
    BY <1>1, <1>8, <2>2
<1> DEFINE x == CHOOSE g : Is(g)
<1>10. Is(x)
  BY <1>9
<1> HIDE DEF x
<1>11. DOMAIN x = 0..N /\ \A n \in 0..N : x[n] = IF n = 0 THEN a ELSE WriteBlock(img, x[n - 1], blocks[n])
  BY <1>1, <1>10
<1>12. \A n \in 1..N : n \in 0..N /\ n # 0
  OBVIOUS
<1>13. x[0] = a /\ \A n \in 1..N : x[n] = WriteBlock(img, x[n - 1], blocks[n])
  BY <1>11, <1>12
<1> DEFINE T == {n \in Nat : n <= N => x[n] \in FileState}
<1>14. 0 \in T
  BY <1>2, <1>13
<1>15. ASSUME NEW n \in Nat, n \in T PROVE n + 1 \in T
  <2>1. n + 1 <= N => n + 1 \in 1..N /\ (n + 1) - 1 = n /\ n <= N
    OBVIOUS
  <2>2. n + 1 <= N => x[n] \in FileState /\ x[n + 1] = WriteBlock(img, x[n], blocks[n + 1])
    BY <1>13, <1>15, <2>1
  <2>3. QED
    BY <1>4, <2>1, <2>2
<1> HIDE DEF T
<1>16. Nat \subseteq T
  BY <1>14, <1>15, Induct
<1>17. \A n \in 0..N : x[n] \in FileState
  BY <1>16 DEF T
<1>18. x \in [0..N -> FileState]
  BY <1>1, <1>10, <1>17
<1>19. Writes(x, img, f, blocks)
  BY <1>1, <1>13 DEF Writes
<1>20. ExtractFile(img, f) = x[N].out
  BY <1>1, <1>6 DEF x
<1>21. QED
  BY <1>1, <1>18, <1>19, <1>20 DEF blocks

\* After k blocks.
SoFar(img, f, blocks, k, y) ==
    /\ BytesOf(y.out) + y.left = img[f].size
    /\ Len(y.out) <= k /\ (~y.stop => Len(y.out) = k)
    /\ \A j \in 1..Len(y.out) : y.out[j].block = blocks[j]

LEMMA SoFarKept ==
    ASSUME NEW img, IsImage(img), NEW f \in DOMAIN img, NEW blocks, NEW k \in Nat,
           NEW y \in FileState, SoFar(img, f, blocks, k, y), blocks[k + 1] \in Nat
    PROVE  SoFar(img, f, blocks, k + 1, WriteBlock(img, y, blocks[k + 1]))
<1>1. PICK b \in Nat : b = blocks[k + 1]
  OBVIOUS
<1> DEFINE z == WriteBlock(img, y, b)
<1>2. Wrote(img, y, b, z)
  BY WriteTyped
<1> HIDE DEF z
<1>3. z \in FileState /\ BytesOf(z.out) + z.left = BytesOf(y.out) + y.left
  BY <1>2 DEF Wrote
<1>4. PICK o \in Seq(Chunk), n \in Nat : o = y.out /\ n = Len(o)
  <2>1. y.out \in Seq(Chunk)
    BY DEF FileState
  <2>2. QED
    BY <2>1, LenProperties
<1>5. n <= k /\ (~y.stop => n = k) /\ \A j \in 1..n : o[j].block = blocks[j]
  BY <1>4 DEF SoFar
<1>6. BytesOf(z.out) + z.left = img[f].size
  BY <1>3 DEF SoFar
<1>7. CASE y.stop \/ y.left = 0 \/ ~Readable(img, b)
  <2>1. z.stop = TRUE /\ z.out = o
    BY <1>2, <1>4, <1>7 DEF Wrote
  <2>2. n <= k + 1
    BY <1>5
  <2>3. QED
    BY <1>1, <1>4, <1>5, <1>6, <2>1, <2>2 DEF SoFar, z
<1>8. CASE ~(y.stop \/ y.left = 0 \/ ~Readable(img, b))
  <2>1. y.left \in Nat
    BY DEF FileState
  <2>2. PICK m \in Nat : m = Taken(img, y.left, b)
    BY <1>8, <2>1, TakenIs DEF Readable
  <2>3. PICK c \in Chunk : c = [block |-> b, bytes |-> m] /\ c.block = b
    <3>1. [block |-> b, bytes |-> m] \in Chunk
      BY DEF Chunk
    <3>2. [block |-> b, bytes |-> m].block = b
      OBVIOUS
    <3>3. QED
      BY <3>1, <3>2, Zenon
  <2>4. PICK u \in Seq(Chunk) : /\ u = Append(o, c) /\ Len(u) = n + 1 /\ u[n + 1] = c
                                /\ \A j \in 1..n : u[j] = o[j]
    <3>1. /\ Append(o, c) \in Seq(Chunk) /\ Len(Append(o, c)) = Len(o) + 1
          /\ Append(o, c)[Len(o) + 1] = c /\ \A j \in 1..Len(o) : Append(o, c)[j] = o[j]
      BY AppendProperties
    <3>2. QED
      BY <1>4, <3>1
  <2>5. z.out = u
    BY <1>2, <1>4, <1>8, <2>2, <2>3, <2>4 DEF Wrote
  <2>6. n = k
    BY <1>5, <1>8
  <2>7. ASSUME NEW j \in 1..(k + 1) PROVE u[j].block = blocks[j]
    <3>1. CASE j = k + 1
      BY <1>1, <2>3, <2>4, <2>6, <3>1
    <3>2. CASE j # k + 1
      <4>1. j \in 1..n
        BY <2>6, <3>2
      <4>2. QED
        BY <1>5, <2>4, <4>1
    <3>3. QED
      BY <3>1, <3>2
  <2>8. Len(u) = k + 1
    BY <2>4, <2>6
  <2>9. QED
    BY <1>1, <1>6, <2>5, <2>7, <2>8 DEF SoFar, z
<1>9. QED
  BY <1>7, <1>8

\* Every block is there and full.
Whole(img, blocks) ==
    \A k \in DOMAIN blocks : Readable(img, blocks[k]) /\ img[blocks[k]].data = BlockBytes

\* After k blocks of a whole file of n bytes.
AllSoFar(n, k, y) ==
    /\ y.stop => y.left = 0
    /\ y.left > 0 => y.left + BlockBytes * k = n
    /\ y.left = 0 => n <= BlockBytes * k

LEMMA OnceMore == \A k \in Nat : /\ BlockBytes * k \in Nat /\ BlockBytes * (k + 1) = BlockBytes * k + BlockBytes
                                 /\ BlockBytes * 0 = 0
<1>1. BlockBytes \in Nat
  BY Bounds
<1>2. QED
  BY <1>1

LEMMA NextRound ==
    ASSUME NEW k \in Nat
    PROVE  \E p \in Nat, q \in Nat, c \in Nat : /\ p = BlockBytes * k /\ q = BlockBytes * (k + 1)
                                               /\ c = BlockBytes /\ q = p + c
<1> DEFINE p == BlockBytes * k
           q == BlockBytes * (k + 1)
<1>1. p \in Nat /\ q = p + BlockBytes
  BY OnceMore
<1>2. BlockBytes \in Nat
  BY Bounds
<1> HIDE DEF p, q
<1>3. q \in Nat
  BY <1>1, <1>2
<1>4. p = BlockBytes * k /\ q = BlockBytes * (k + 1)
  BY DEF p, q
<1>5. QED
  BY <1>1, <1>2, <1>3, <1>4, Zenon

LEMMA AllSoFarKept ==
    ASSUME NEW img, IsImage(img), NEW n \in Nat, NEW k \in Nat, NEW b \in DOMAIN img,
           img[b].data = BlockBytes, NEW y \in FileState, AllSoFar(n, k, y)
    PROVE  AllSoFar(n, k + 1, WriteBlock(img, y, b))
<1> DEFINE z == WriteBlock(img, y, b)
<1>1. b \in Nat /\ Readable(img, b)
  BY DEF IsImage, Readable
<1>2. Wrote(img, y, b, z)
  BY <1>1, WriteTyped
<1> HIDE DEF z
<1>3. PICK l \in Nat : l = y.left
  BY DEF FileState
<1>4. PICK p \in Nat, q \in Nat, c \in Nat : /\ p = BlockBytes * k /\ q = BlockBytes * (k + 1)
                                             /\ c = BlockBytes /\ q = p + c
  BY NextRound, SMTT(60)
<1>5. (y.stop => l = 0) /\ (l > 0 => l + p = n) /\ (l = 0 => n <= p)
  BY <1>3, <1>4 DEF AllSoFar
<1>6. CASE y.stop \/ l = 0
  <2>1. z.left = l
    BY <1>2, <1>3, <1>6 DEF Wrote
  <2>2. l = 0 /\ n <= q
    BY <1>4, <1>5, <1>6
  <2>3. QED
    BY <1>4, <2>1, <2>2 DEF AllSoFar, z
<1>7. CASE ~(y.stop \/ l = 0)
  <2>1. PICK m \in Nat : m = Taken(img, l, b) /\ m = IF l <= c THEN l ELSE c
    BY <1>4, TakenIs
  <2>2. z.left = l - m /\ z.stop = y.stop
    BY <1>1, <1>2, <1>3, <1>7, <2>1 DEF Wrote
  <2>3. l + p = n
    BY <1>5, <1>7
  <2>4. l - m > 0 => (l - m) + q = n
    BY <1>4, <2>1, <2>3
  <2>5. l - m = 0 => n <= q
    BY <1>4, <2>1, <2>3
  <2>6. QED
    BY <1>4, <1>7, <2>2, <2>4, <2>5 DEF AllSoFar, z
<1>8. QED
  BY <1>6, <1>7

\* A file comes out as the beginning of its blocks, never with more bytes than
\* its header says, and whole if its blocks are.
FileIsRight(img, f, out) ==
    LET blocks == FileBlocks(img, f) IN
    /\ out \in Seq(Chunk) /\ BytesOf(out) \in Nat /\ BytesOf(out) <= img[f].size
    /\ Len(out) <= Len(blocks) /\ \A j \in 1..Len(out) : out[j].block = blocks[j]
    /\ Whole(img, blocks) => BytesOf(out) = Min({img[f].size, BlockBytes * Len(blocks)})

LEMMA FileRight ==
    ASSUME NEW img, IsImage(img), NEW f \in DOMAIN img
    PROVE  FileIsRight(img, f, ExtractFile(img, f))
<1>1. PICK blocks \in Seq(Nat), N \in Nat :
          /\ blocks = FileBlocks(img, f) /\ N = Len(blocks) /\ DOMAIN blocks = 1..N
          /\ \A k \in 1..N : blocks[k] \in Nat
  <2>1. PICK s \in Seq(Nat) : s = FileBlocks(img, f)
    BY BlocksTyped
  <2>2. Len(s) \in Nat /\ DOMAIN s = 1..Len(s) /\ \A k \in 1..Len(s) : s[k] \in Nat
    BY LenProperties, ElementOfSeq
  <2>3. QED
    BY <2>1, <2>2
<1>2. PICK x : /\ Writes(x, img, f, blocks) /\ x \in [0..N -> FileState]
               /\ ExtractFile(img, f) = x[N].out
  BY <1>1, Writing
<1>3. PICK n \in Nat : n = img[f].size
  BY BlockTyped
<1>4. x[0].stop = FALSE /\ x[0].left = n /\ x[0].out = <<>>
      /\ \A k \in 1..N : x[k] = WriteBlock(img, x[k - 1], blocks[k])
  BY <1>1, <1>2, <1>3 DEF Writes
<1> DEFINE T == {k \in Nat : k <= N => SoFar(img, f, blocks, k, x[k])}
<1>5. 0 \in T
  <2>1. Len(<<>>) = 0
    BY EmptySeq
  <2>2. BytesOf(x[0].out) + x[0].left = img[f].size
    BY <1>3, <1>4, NoBytes
  <2>3. SoFar(img, f, blocks, 0, x[0])
    BY <1>4, <2>1, <2>2 DEF SoFar
  <2>4. QED
    BY <2>3
<1>6. ASSUME NEW k \in Nat, k \in T PROVE k + 1 \in T
  <2> SUFFICES ASSUME k + 1 <= N PROVE SoFar(img, f, blocks, k + 1, x[k + 1])
    OBVIOUS
  <2>1. k \in 0..N /\ k + 1 \in 1..N /\ (k + 1) - 1 = k
    OBVIOUS
  <2>2. PICK y \in FileState : y = x[k] /\ SoFar(img, f, blocks, k, y)
    BY <1>2, <1>6, <2>1
  <2>3. blocks[k + 1] \in Nat
    BY <1>1, <2>1
  <2>4. SoFar(img, f, blocks, k + 1, WriteBlock(img, y, blocks[k + 1]))
    BY <2>2, <2>3, SoFarKept
  <2>5. QED
    BY <1>4, <2>1, <2>2, <2>4
<1> HIDE DEF T
<1>7. N \in T
  BY <1>5, <1>6, Induct
<1>8. PICK y \in FileState : y = x[N] /\ SoFar(img, f, blocks, N, y)
  BY <1>1, <1>2, <1>7 DEF T
<1>9. PICK out \in Seq(Chunk), l \in Nat : out = y.out /\ l = y.left
  BY DEF FileState
<1>10. PICK m \in Nat : m = BytesOf(out)
  <2>1. \A c \in Chunk : BytesOf(out) \in Nat
    BY BytesAppended
  <2>2. [block |-> 0, bytes |-> 0] \in Chunk
    BY DEF Chunk
  <2>3. QED
    BY <2>1, <2>2
<1>11. m + l = n /\ Len(out) <= N /\ \A j \in 1..Len(out) : out[j].block = blocks[j]
  BY <1>3, <1>8, <1>9, <1>10 DEF SoFar
<1>12. m <= n
  BY <1>11
<1>13. ASSUME Whole(img, blocks) PROVE m = Min({n, BlockBytes * N})
  <2> DEFINE U == {k \in Nat : k <= N => AllSoFar(n, k, x[k])}
  <2>1. 0 \in U
    <3>1. BlockBytes * 0 = 0 /\ n + 0 = n /\ (n = 0 => n <= 0)
      BY OnceMore
    <3>2. AllSoFar(n, 0, x[0])
      BY <1>4, <3>1 DEF AllSoFar
    <3>3. QED
      BY <3>2
  <2>2. ASSUME NEW k \in Nat, k \in U PROVE k + 1 \in U
    <3> SUFFICES ASSUME k + 1 <= N PROVE AllSoFar(n, k + 1, x[k + 1])
      OBVIOUS
    <3>1. k \in 0..N /\ k + 1 \in 1..N /\ (k + 1) - 1 = k
      OBVIOUS
    <3>2. PICK z \in FileState : z = x[k] /\ AllSoFar(n, k, z)
      BY <1>2, <2>2, <3>1
    <3>3. PICK b \in DOMAIN img : b = blocks[k + 1] /\ img[b].data = BlockBytes
      BY <1>1, <1>13, <3>1 DEF Whole, Readable
    <3>4. AllSoFar(n, k + 1, WriteBlock(img, z, b))
      BY <3>2, <3>3, AllSoFarKept
    <3>5. QED
      BY <1>4, <3>1, <3>2, <3>3, <3>4
  <2> HIDE DEF U
  <2>3. N \in U
    BY <2>1, <2>2, Induct
  <2>4. AllSoFar(n, N, y)
    BY <1>1, <1>8, <2>3 DEF U
  <2>5. PICK p \in Nat : p = BlockBytes * N
    BY <1>1, OnceMore
  <2>6. (l > 0 => l + p = n) /\ (l = 0 => n <= p)
    BY <1>9, <2>4, <2>5 DEF AllSoFar
  <2>7. m \in {n, p} /\ m <= n /\ m <= p
    BY <1>11, <2>6
  <2>8. {n, p} \subseteq Nat /\ \A k \in {n, p} : m <= k
    BY <2>7
  <2>9. Min({n, p}) = m
    <3> DEFINE S == {n, p}
    <3>1. S \subseteq Nat /\ m \in S /\ \A k \in S : m <= k
      BY <2>7, <2>8
    <3> HIDE DEF S
    <3>2. Min(S) = m
      BY <3>1, MinIs
    <3>3. QED
      BY <3>2 DEF S
  <2>10. QED
    BY <2>5, <2>9
<1>14. ExtractFile(img, f) = out
  BY <1>2, <1>8, <1>9
<1>15. QED
  BY <1>1, <1>3, <1>10, <1>11, <1>12, <1>13, <1>14 DEF FileIsRight

\* extract_file, file_blocks: from any image, however damaged, a file comes out
\* as the beginning of the blocks its tables name, in their order, and to the
\* end if every block can be read and is full.
THEOREM EveryFileExtracted ==
    \A img : IsImage(img) => \A f \in DOMAIN img : FileExtracted(img, f)
<1> SUFFICES ASSUME NEW img, IsImage(img), NEW f \in DOMAIN img PROVE FileExtracted(img, f)
  OBVIOUS
<1>1. PICK blocks \in Seq(Nat), N \in Nat : blocks = FileBlocks(img, f) /\ N = Len(blocks) /\ DOMAIN blocks = 1..N
  BY BlocksTyped, LenProperties
<1>2. FileIsRight(img, f, ExtractFile(img, f))
  BY FileRight
<1>3. PICK out \in Seq(Chunk), n \in Nat :
          out = ExtractFile(img, f) /\ n = Len(out) /\ DOMAIN out = 1..n /\ n <= N
          /\ \A j \in 1..n : out[j].block = blocks[j]
  <2>1. PICK o \in Seq(Chunk) : o = ExtractFile(img, f)
    BY <1>2 DEF FileIsRight
  <2>2. Len(o) \in Nat /\ DOMAIN o = 1..Len(o)
    BY LenProperties
  <2>3. QED
    BY <1>1, <1>2, <2>1, <2>2 DEF FileIsRight
<1> DEFINE s == [k \in DOMAIN out |-> out[k].block]
<1>4. \A k \in 1..n : k \in 1..N /\ s[k] = blocks[k] /\ blocks[k] \in Nat
  BY <1>1, <1>3, ElementOfSeq
<1>5. s \in Seq(Nat) /\ Len(s) = n
  <2>1. s \in [1..n -> Nat]
    BY <1>3, <1>4
  <2> HIDE DEF s
  <2>2. QED
    BY <2>1, Mapped
<1> HIDE DEF s
<1>6. SubSeq(s, 1, n) = SubSeq(blocks, 1, n)
  <2>1. 1 \in Int /\ n \in Int /\ (1 <= n => (n - 1) + 1 = n) /\ (~(1 <= n) => n = 0)
    OBVIOUS
  <2>2. \A k \in 1..n : s[k] \in Nat /\ blocks[k] \in Nat
    BY <1>4
  <2>3. /\ SubSeq(s, 1, n) \in Seq(Nat) /\ Len(SubSeq(s, 1, n)) = IF 1 <= n THEN n - 1 + 1 ELSE 0
        /\ \A k \in 1..(n - 1 + 1) : SubSeq(s, 1, n)[k] = s[1 + k - 1]
    BY <2>1, <2>2, SubSeqProperties
  <2>4. /\ SubSeq(blocks, 1, n) \in Seq(Nat) /\ Len(SubSeq(blocks, 1, n)) = IF 1 <= n THEN n - 1 + 1 ELSE 0
        /\ \A k \in 1..(n - 1 + 1) : SubSeq(blocks, 1, n)[k] = blocks[1 + k - 1]
    BY <2>1, <2>2, SubSeqProperties
  <2>5. \A k \in 1..n : k \in 1..(n - 1 + 1) /\ 1 + k - 1 = k
    OBVIOUS
  <2>6. \A k \in 1..n : SubSeq(s, 1, n)[k] = s[k] /\ SubSeq(blocks, 1, n)[k] = blocks[k]
    BY <2>3, <2>4, <2>5
  <2>7. \A k \in 1..n : SubSeq(s, 1, n)[k] = SubSeq(blocks, 1, n)[k]
    BY <1>4, <2>6
  <2>8. Len(SubSeq(s, 1, n)) = n /\ Len(SubSeq(blocks, 1, n)) = n
    BY <2>1, <2>3, <2>4
  <2>9. QED
    BY <2>3, <2>4, <2>7, <2>8, SeqEqual
<1>7. IsPrefix(s, blocks)
  BY <1>1, <1>3, <1>5, <1>6 DEF IsPrefix
<1>8. Whole(img, blocks) => BytesOf(out) = Min({img[f].size, BlockBytes * Len(blocks)})
  BY <1>1, <1>2, <1>3 DEF FileIsRight
<1>9. QED
  BY <1>1, <1>3, <1>7, <1>8 DEF FileExtracted, Whole, s

-----------------------------------------------------------------------------
(***************************************************************************)
(* Drawers: paths, and the files an entry brings.                          *)
(***************************************************************************)
FileRecord == [path : Seq(Nat), out : Seq(Chunk)]

InFront(e, q, p) ==
    /\ p \in Seq(Nat) /\ p # <<>> /\ Len(p) = Len(q) + 1 /\ p[1] = e
    /\ \A k \in 1..Len(q) : p[k + 1] = q[k]

LEMMA PutInFront == ASSUME NEW e \in Nat, NEW q \in Seq(Nat) PROVE InFront(e, q, <<e>> \o q)
<1>1. PICK s \in Seq(Nat) : s = <<e>> /\ Len(s) = 1 /\ s[1] = e
  BY One
<1>2. PICK n \in Nat : n = Len(q)
  BY LenProperties
<1>3. PICK p \in Seq(Nat) : p = s \o q /\ Joins(p, s, q)
  BY Both
<1>4. Len(p) = 1 + n /\ \A i \in 1..(1 + n) : p[i] = IF i <= 1 THEN s[i] ELSE q[i - 1]
  BY <1>1, <1>2, <1>3 DEF Joins
<1>5. 1 + n = n + 1 /\ 1 \in 1..(1 + n) /\ n + 1 # 0
      /\ \A k \in 1..n : k + 1 \in 1..(1 + n) /\ ~(k + 1 <= 1) /\ (k + 1) - 1 = k
  BY <1>2
<1>6. p[1] = e /\ \A k \in 1..n : p[k + 1] = q[k]
  <2>1. p[1] = e
    BY <1>1, <1>4, <1>5
  <2>2. ASSUME NEW k \in 1..n PROVE p[k + 1] = q[k]
    <3>1. PICK i \in 1..(1 + n) : i = k + 1 /\ ~(i <= 1) /\ i - 1 = k
      BY <1>5
    <3>2. p[i] = q[i - 1]
      BY <1>4, <3>1
    <3>3. QED
      BY <3>1, <3>2
  <2>3. QED
    BY <2>1, <2>2
<1>7. p # <<>>
  BY <1>4, <1>5, EmptySeq
<1>8. QED
  BY <1>1, <1>2, <1>3, <1>4, <1>5, <1>6, <1>7 DEF InFront

IsTail(p, q) == q \in Seq(Nat) /\ Len(q) = Len(p) - 1 /\ \A k \in 1..Len(q) : q[k] = p[k + 1]

LEMMA TailIs == ASSUME NEW p \in Seq(Nat), p # <<>> PROVE IsTail(p, Tail(p)) /\ p[1] \in Nat
<1>1. /\ Tail(p) \in Seq(Nat) /\ Len(Tail(p)) = Len(p) - 1
      /\ \A i \in 1..Len(Tail(p)) : Tail(p)[i] = p[i + 1]
  BY HeadTailProperties
<1>2. 1 \in 1..Len(p)
  BY EmptySeq, LenProperties
<1>3. p[1] \in Nat
  BY <1>2, ElementOfSeq
<1>4. QED
  BY <1>1, <1>3 DEF IsTail

\* A path is its first name and the rest of it.
Cut1(p, e, q) == (<<e>> \o q = p) <=> (e = p[1] /\ q = Tail(p))

LEMMA FrontOnly ==
    ASSUME NEW p \in Seq(Nat), p # <<>>, NEW e \in Nat, NEW q \in Seq(Nat)
    PROVE  Cut1(p, e, q)
<1>1. PICK w : w = <<e>> \o q /\ InFront(e, q, w)
  BY PutInFront
<1>2. PICK t : t = Tail(p) /\ IsTail(p, t)
  BY TailIs
<1>3. PICK n \in Nat, m \in Nat : n = Len(p) /\ m = Len(q) /\ n >= 1
  BY EmptySeq, LenProperties
<1>4. /\ w \in Seq(Nat) /\ Len(w) = m + 1 /\ w[1] = e /\ \A k \in 1..m : w[k + 1] = q[k]
      /\ t \in Seq(Nat) /\ Len(t) = n - 1 /\ \A k \in 1..(n - 1) : t[k] = p[k + 1]
  BY <1>1, <1>2, <1>3 DEF InFront, IsTail
<1>5. ASSUME w = p PROVE e = p[1] /\ q = t
  <2>1. m + 1 = n /\ m = n - 1
    BY <1>3, <1>4, <1>5
  <2>2. \A k \in 1..Len(q) : q[k] = t[k]
    BY <1>3, <1>4, <1>5, <2>1
  <2>3. Len(q) = Len(t)
    BY <1>3, <1>4, <2>1
  <2>4. q = t
    BY <1>4, <2>2, <2>3, SeqEqual
  <2>5. QED
    BY <1>4, <1>5, <2>4
<1>6. ASSUME e = p[1], q = t PROVE w = p
  <2>1. m = n - 1 /\ m + 1 = n
    BY <1>3, <1>4, <1>6
  <2>2. ASSUME NEW k \in 1..n PROVE w[k] = p[k]
    <3>1. CASE k = 1
      BY <1>4, <1>6, <3>1
    <3>2. CASE k # 1
      <4>1. PICK j \in 1..m : j + 1 = k
        <5>1. k - 1 \in 1..m /\ (k - 1) + 1 = k
          BY <2>1, <3>2
        <5>2. QED
          BY <5>1
      <4>2. w[j + 1] = q[j] /\ q[j] = p[j + 1]
        BY <1>4, <1>6, <2>1
      <4>3. QED
        BY <4>1, <4>2
    <3>3. QED
      BY <3>1, <3>2
  <2>3. Len(w) = n
    BY <1>4, <2>1
  <2>4. QED
    BY <1>3, <1>4, <2>2, <2>3, SeqEqual
<1>7. QED
  BY <1>1, <1>2, <1>5, <1>6 DEF Cut1

Placed(e, files) == [k \in DOMAIN files |-> [files[k] EXCEPT !.path = <<e>> \o files[k].path]]

IsPlaced(s, e, files) ==
    /\ s \in Seq(FileRecord) /\ Len(s) = Len(files) /\ DOMAIN s = DOMAIN files
    /\ \A k \in DOMAIN files : s[k].path = <<e>> \o files[k].path /\ s[k].out = files[k].out

LEMMA PlacedTyped == ASSUME NEW e \in Nat, NEW files \in Seq(FileRecord)
                     PROVE  IsPlaced(Placed(e, files), e, files)
<1>1. PICK n \in Nat : n = Len(files) /\ DOMAIN files = 1..n /\ \A k \in 1..n : files[k] \in FileRecord
  BY LenProperties, ElementOfSeq
<1> DEFINE s == Placed(e, files)
<1>2. ASSUME NEW k \in 1..n
      PROVE  s[k] \in FileRecord /\ s[k].path = <<e>> \o files[k].path /\ s[k].out = files[k].out
  <2>1. PICK x \in FileRecord : x = files[k]
    BY <1>1
  <2>2. x.path \in Seq(Nat)
    BY DEF FileRecord
  <2>3. PICK p \in Seq(Nat) : p = <<e>> \o x.path
    <3>1. InFront(e, x.path, <<e>> \o x.path)
      BY <2>2, PutInFront
    <3>2. QED
      BY <3>1 DEF InFront
  <2>4. s[k] = [x EXCEPT !.path = p]
    BY <1>1, <2>1, <2>3 DEF Placed
  <2>5. [x EXCEPT !.path = p] \in FileRecord /\ [x EXCEPT !.path = p].path = p /\ [x EXCEPT !.path = p].out = x.out
    BY DEF FileRecord
  <2>6. QED
    BY <2>1, <2>3, <2>4, <2>5
<1>3. s \in [1..n -> FileRecord]
  <2>1. DOMAIN s = 1..n /\ s = [k \in 1..n |-> s[k]]
    BY <1>1 DEF Placed
  <2> HIDE DEF s
  <2>2. QED
    BY <1>2, <2>1
<1> HIDE DEF s
<1>4. s \in Seq(FileRecord) /\ Len(s) = n
  BY <1>3, Mapped
<1>5. QED
  BY <1>1, <1>2, <1>3, <1>4 DEF IsPlaced, s

\* What an entry brings, by its kind.
Brings(img, e, inside, s) ==
    /\ s \in Seq(FileRecord)
    /\ img[e].sec = "dir" => IsPlaced(s, e, inside[e])
    /\ img[e].sec = "file" => s = <<[path |-> <<e>>, out |-> ExtractFile(img, e)]>>
    /\ img[e].sec \notin {"dir", "file"} => s = <<>>

LEMMA FileRecorded ==
    ASSUME NEW img, IsImage(img), NEW e \in DOMAIN img
    PROVE  /\ [path |-> <<e>>, out |-> ExtractFile(img, e)] \in FileRecord
           /\ [path |-> <<e>>, out |-> ExtractFile(img, e)].path = <<e>>
           /\ [path |-> <<e>>, out |-> ExtractFile(img, e)].out = ExtractFile(img, e)
<1>1. PICK p \in Seq(Nat) : p = <<e>>
  <2>1. e \in Nat
    BY DEF IsImage
  <2>2. QED
    BY <2>1, One
<1>2. PICK o \in Seq(Chunk) : o = ExtractFile(img, e)
  BY FileRight DEF FileIsRight
<1>3. [path |-> p, out |-> o] \in FileRecord
  BY DEF FileRecord
<1>4. [path |-> p, out |-> o].path = p /\ [path |-> p, out |-> o].out = o
  OBVIOUS
<1>5. QED
  BY <1>1, <1>2, <1>3, <1>4

LEMMA FromEntryBrings ==
    ASSUME NEW img, IsImage(img), NEW e \in DOMAIN img, NEW inside \in [DOMAIN img -> Seq(FileRecord)]
    PROVE  Brings(img, e, inside, FromEntry(img, e, inside))
<1>1. e \in Nat /\ inside[e] \in Seq(FileRecord)
  BY DEF IsImage
<1>2. CASE img[e].sec = "dir"
  <2>1. FromEntry(img, e, inside) = Placed(e, inside[e])
    BY <1>2 DEF FromEntry, Placed
  <2>2. IsPlaced(Placed(e, inside[e]), e, inside[e])
    BY <1>1, PlacedTyped
  <2>3. "dir" # "file"
    OBVIOUS
  <2>4. QED
    BY <1>2, <2>1, <2>2, <2>3 DEF Brings, IsPlaced
<1>3. CASE img[e].sec = "file"
  <2>1. FromEntry(img, e, inside) = <<[path |-> <<e>>, out |-> ExtractFile(img, e)]>>
    BY <1>3 DEF FromEntry
  <2>2. <<[path |-> <<e>>, out |-> ExtractFile(img, e)]>> \in Seq(FileRecord)
    BY FileRecorded, One
  <2>3. "dir" # "file"
    OBVIOUS
  <2>4. QED
    BY <1>3, <2>1, <2>2, <2>3 DEF Brings
<1>4. CASE img[e].sec \notin {"dir", "file"}
  <2>1. FromEntry(img, e, inside) = <<>>
    BY <1>4 DEF FromEntry
  <2>2. <<>> \in Seq(FileRecord)
    BY EmptySeq
  <2>3. QED
    BY <1>4, <2>1, <2>2 DEF Brings
<1>5. QED
  BY <1>2, <1>3, <1>4

-----------------------------------------------------------------------------
\* extract_dir, one level after the other.
SlotsOf(img, b) ==
    [k \in 1..TableSize |-> Followed([e \in DOMAIN img |-> img[e].chain], img[b].table[k], MaxChain)]
PartsOf(img, b, inside) ==
    [k \in DOMAIN EntriesOf(img, b) |-> FromEntry(img, EntriesOf(img, b)[k], inside)]
Deeper(img, inside) == [b \in DOMAIN img |-> FlattenSeq(PartsOf(img, b, inside))]

Levels(x, img, n) ==
    /\ x \in [0..n -> [DOMAIN img -> Seq(FileRecord)]]
    /\ \A b \in DOMAIN img : x[0][b] = <<>>
    /\ \A d \in 1..n : x[d] = Deeper(img, x[d - 1])

ChainsOf(img) == [e \in DOMAIN img |-> img[e].chain]

LEMMA SlotChained ==
    ASSUME NEW img, IsImage(img), NEW b \in DOMAIN img, NEW k \in 1..TableSize
    PROVE  /\ img[b].table[k] \in Nat
           /\ IsChain(SlotsOf(img, b)[k], ChainsOf(img), img[b].table[k], MaxChain)
<1>1. PICK next : next = ChainsOf(img) /\ next \in [DOMAIN img -> Nat]
  <2>1. \A e \in DOMAIN img : img[e].chain \in Nat
    BY BlockTyped
  <2>2. ChainsOf(img) \in [DOMAIN img -> Nat]
    BY <2>1 DEF ChainsOf
  <2>3. QED
    BY <2>2
<1>2. PICK D : D = DOMAIN img /\ D \subseteq Nat /\ 0 \in D
  BY DEF IsImage, None
<1>3. img[b].table[k] \in Nat
  BY BlockTyped
<1>4. IsChain(Followed(next, img[b].table[k], MaxChain), next, img[b].table[k], MaxChain)
  BY <1>1, <1>2, <1>3, Bounds, Chained
<1>5. SlotsOf(img, b)[k] = Followed(next, img[b].table[k], MaxChain)
  BY <1>1 DEF SlotsOf, ChainsOf
<1>6. QED
  BY <1>1, <1>3, <1>4, <1>5

LEMMA EntriesTyped ==
    ASSUME NEW img, IsImage(img), NEW b \in DOMAIN img
    PROVE  /\ SlotsOf(img, b) \in Seq(Seq(Headers(img))) /\ DOMAIN SlotsOf(img, b) = 1..TableSize
           /\ EntriesOf(img, b) = FlattenSeq(SlotsOf(img, b))
           /\ EntriesOf(img, b) \in Seq(Headers(img))
<1> DEFINE ss == SlotsOf(img, b)
<1>1. DOMAIN ss = 1..TableSize /\ ss = [k \in 1..TableSize |-> ss[k]]
  BY DEF SlotsOf
<1>2. EntriesOf(img, b) = FlattenSeq(ss)
  BY DEF EntriesOf, SlotsOf
<1>3. ASSUME NEW k \in 1..TableSize PROVE ss[k] \in Seq(Headers(img))
  <2>1. DOMAIN ChainsOf(img) = DOMAIN img
    BY DEF ChainsOf
  <2>2. QED
    BY <2>1, SlotChained DEF IsChain, Headers
<1> HIDE DEF ss
<1>4. ss \in [1..TableSize -> Seq(Headers(img))]
  BY <1>1, <1>3
<1>5. ss \in Seq(Seq(Headers(img)))
  BY <1>4, Bounds, Mapped
<1>6. FlattenSeq(ss) \in Seq(Headers(img))
  BY <1>5, FlattenedFrom
<1>7. QED
  BY <1>1, <1>2, <1>5, <1>6 DEF ss

LEMMA PartsTyped ==
    ASSUME NEW img, IsImage(img), NEW b \in DOMAIN img, NEW inside \in [DOMAIN img -> Seq(FileRecord)]
    PROVE  /\ PartsOf(img, b, inside) \in Seq(Seq(FileRecord))
           /\ DOMAIN PartsOf(img, b, inside) = DOMAIN EntriesOf(img, b)
           /\ \A k \in DOMAIN EntriesOf(img, b) :
                 /\ EntriesOf(img, b)[k] \in Headers(img)
                 /\ Brings(img, EntriesOf(img, b)[k], inside, PartsOf(img, b, inside)[k])
<1>1. PICK s \in Seq(Headers(img)), n \in Nat :
          s = EntriesOf(img, b) /\ n = Len(s) /\ DOMAIN s = 1..n /\ \A k \in 1..n : s[k] \in Headers(img)
  <2>1. PICK s \in Seq(Headers(img)) : s = EntriesOf(img, b)
    BY EntriesTyped
  <2>2. Len(s) \in Nat /\ DOMAIN s = 1..Len(s) /\ \A k \in 1..Len(s) : s[k] \in Headers(img)
    BY LenProperties, ElementOfSeq
  <2>3. QED
    BY <2>1, <2>2
<1> DEFINE ps == PartsOf(img, b, inside)
<1>2. DOMAIN ps = 1..n /\ ps = [k \in 1..n |-> ps[k]] /\ \A k \in 1..n : ps[k] = FromEntry(img, s[k], inside)
  BY <1>1 DEF PartsOf
<1>3. \A k \in 1..n : s[k] \in DOMAIN img
  BY <1>1 DEF Headers
<1>4. \A k \in 1..n : Brings(img, s[k], inside, ps[k])
  <2> HIDE DEF ps
  <2>1. QED
    BY <1>2, <1>3, FromEntryBrings
<1> HIDE DEF ps
<1>5. \A k \in 1..n : ps[k] \in Seq(FileRecord)
  BY <1>4 DEF Brings
<1>6. ps \in [1..n -> Seq(FileRecord)]
  BY <1>2, <1>5
<1>7. ps \in Seq(Seq(FileRecord))
  BY <1>6, Mapped
<1>8. QED
  BY <1>1, <1>2, <1>4, <1>7 DEF ps

LEMMA DeeperTyped ==
    ASSUME NEW img, IsImage(img), NEW inside \in [DOMAIN img -> Seq(FileRecord)]
    PROVE  Deeper(img, inside) \in [DOMAIN img -> Seq(FileRecord)]
<1>1. ASSUME NEW b \in DOMAIN img PROVE FlattenSeq(PartsOf(img, b, inside)) \in Seq(FileRecord)
  BY PartsTyped, FlattenedFrom
<1>2. QED
  BY <1>1 DEF Deeper

LEMMA Descending ==
    ASSUME NEW img, IsImage(img), NEW n \in Nat
    PROVE  \E x : Levels(x, img, n) /\ Inside(img, n) = x[n]
<1> DEFINE R == [DOMAIN img -> Seq(FileRecord)]
    a == [b \in DOMAIN img |-> <<>>]
    F == [p \in (1..n) \X R |-> Deeper(img, p[2])]
    Is(g) == g = [d \in 0..n |->
                    IF d = 0 THEN [b \in DOMAIN img |-> <<>>]
                    ELSE [b \in DOMAIN img |->
                            LET entries == EntriesOf(img, b)
                            IN FlattenSeq([k \in DOMAIN entries |-> FromEntry(img, entries[k], g[d - 1])])]]
<1>1. a \in R
  <2>1. <<>> \in Seq(FileRecord)
    BY EmptySeq
  <2>2. QED
    BY <2>1
<1>2. \A d \in 1..n, y \in R : F[<<d, y>>] = Deeper(img, y)
  OBVIOUS
<1>3. ASSUME NEW y \in R PROVE Deeper(img, y) \in R
  BY DeeperTyped
<1>5. Inside(img, n) = (CHOOSE g : Is(g))[n]
  BY DEF Inside
<1>6. \A g : Is(g) <=> g = [d \in 0..n |-> IF d = 0 THEN a ELSE Deeper(img, g[d - 1])]
  BY DEF Deeper, PartsOf
<1> HIDE DEF F, a, R, Is
<1>7. \A d \in 1..n, y \in R : F[<<d, y>>] \in R
  BY <1>2, <1>3
<1>8. PICK h : Runs(h, n, R, a, F)
  BY <1>1, <1>7, Iteration
<1>9. Is(h)
  <2>1. h \in [0..n -> R] /\ \A d \in 0..n : h[d] = IF d = 0 THEN a ELSE F[<<d, h[d - 1]>>]
    BY <1>8 DEF Runs
  <2>2. ASSUME NEW d \in 0..n, d # 0 PROVE h[d] = Deeper(img, h[d - 1])
    <3>1. d \in 1..n /\ d - 1 \in 0..n
      BY <2>2
    <3>2. h[d - 1] \in R /\ h[d] = F[<<d, h[d - 1]>>]
      BY <2>1, <2>2, <3>1
    <3>3. QED
      BY <1>2, <3>1, <3>2
  <2>3. \A d \in 0..n : h[d] = IF d = 0 THEN a ELSE Deeper(img, h[d - 1])
    BY <2>1, <2>2
  <2>4. h = [d \in 0..n |-> IF d = 0 THEN a ELSE Deeper(img, h[d - 1])]
    BY <2>1, <2>3
  <2>5. QED
    BY <1>6, <2>4
<1> DEFINE x == CHOOSE g : Is(g)
<1>10. Is(x)
  BY <1>9
<1>11. Inside(img, n) = x[n]
  BY <1>5
<1> HIDE DEF x
<1>12. x = [d \in 0..n |-> IF d = 0 THEN a ELSE Deeper(img, x[d - 1])]
  BY <1>6, <1>10
<1>13. x[0] = a /\ \A d \in 1..n : x[d] = Deeper(img, x[d - 1])
  <2>1. \A d \in 0..n : x[d] = IF d = 0 THEN a ELSE Deeper(img, x[d - 1])
    BY <1>12
  <2>2. 0 \in 0..n /\ \A d \in 1..n : d \in 0..n /\ d # 0
    OBVIOUS
  <2>3. QED
    BY <2>1, <2>2
<1> DEFINE T == {d \in Nat : d <= n => x[d] \in R}
<1>14. 0 \in T
  BY <1>1, <1>13
<1>15. ASSUME NEW d \in Nat, d \in T PROVE d + 1 \in T
  <2>1. d + 1 <= n => d + 1 \in 1..n /\ (d + 1) - 1 = d /\ d <= n
    OBVIOUS
  <2>2. d + 1 <= n => x[d] \in R /\ x[d + 1] = Deeper(img, x[d])
    BY <1>13, <1>15, <2>1
  <2>3. QED
    BY <1>3, <2>2
<1> HIDE DEF T
<1>16. Nat \subseteq T
  BY <1>14, <1>15, Induct
<1>17. \A d \in 0..n : x[d] \in R
  BY <1>16 DEF T
<1>18. x \in [0..n -> R]
  BY <1>12, <1>17
<1>19. \A b \in DOMAIN img : x[0][b] = <<>>
  BY <1>13 DEF a
<1>20. Levels(x, img, n)
  BY <1>13, <1>18, <1>19 DEF Levels, R
<1>21. QED
  BY <1>11, <1>20

\* Of any image: not too deep, not too large.
Bounded(img, d, r) ==
    /\ r.path # <<>> /\ Len(r.path) <= d /\ Last(r.path) \in DOMAIN img
    /\ BytesOf(r.out) <= img[Last(r.path)].size

LEMMA BoundedKept ==
    ASSUME NEW img, IsImage(img), NEW inside \in [DOMAIN img -> Seq(FileRecord)], NEW d \in Nat,
           \A b \in DOMAIN img : \A k \in DOMAIN inside[b] : Bounded(img, d, inside[b][k]),
           NEW b \in DOMAIN img, NEW k \in DOMAIN Deeper(img, inside)[b]
    PROVE  Bounded(img, d + 1, Deeper(img, inside)[b][k])
<1>1. Deeper(img, inside)[b] = FlattenSeq(PartsOf(img, b, inside))
  BY DEF Deeper
<1>2. PICK n \in DOMAIN PartsOf(img, b, inside) : \E m \in DOMAIN PartsOf(img, b, inside)[n] :
          Deeper(img, inside)[b][k] = PartsOf(img, b, inside)[n][m]
  <2>1. \A j \in DOMAIN FlattenSeq(PartsOf(img, b, inside)) :
            \E n \in DOMAIN PartsOf(img, b, inside) : \E m \in DOMAIN PartsOf(img, b, inside)[n] :
                FlattenSeq(PartsOf(img, b, inside))[j] = PartsOf(img, b, inside)[n][m]
    BY PartsTyped, FlattenedFrom
  <2>2. QED
    BY <1>1, <2>1
<1>3. PICK e \in Headers(img), s \in Seq(FileRecord) :
          /\ e = EntriesOf(img, b)[n] /\ s = PartsOf(img, b, inside)[n] /\ Brings(img, e, inside, s)
  BY PartsTyped DEF Brings
<1>4. PICK m \in DOMAIN s : Deeper(img, inside)[b][k] = s[m]
  BY <1>2, <1>3
<1>5. e \in DOMAIN img /\ e \in Nat
  BY DEF Headers, IsImage
<1>6. CASE img[e].sec = "dir"
  <2>1. IsPlaced(s, e, inside[e])
    BY <1>3, <1>6 DEF Brings
  <2>2. PICK r \in FileRecord : r = inside[e][m] /\ Bounded(img, d, r)
    <3>1. m \in DOMAIN inside[e]
      BY <1>4, <2>1 DEF IsPlaced
    <3>2. inside[e] \in Seq(FileRecord)
      BY <1>5
    <3>3. inside[e][m] \in FileRecord
      BY <3>1, <3>2, LenProperties, ElementOfSeq
    <3>4. QED
      BY <1>5, <3>1, <3>3
  <2>3. s[m].path = <<e>> \o r.path /\ s[m].out = r.out
    BY <1>4, <2>1, <2>2 DEF IsPlaced
  <2>4. PICK q \in Seq(Nat), l \in Nat : q = r.path /\ l = Len(q) /\ l >= 1 /\ l <= d
    <3>1. r.path \in Seq(Nat) /\ r.path # <<>>
      BY <2>2 DEF FileRecord, Bounded
    <3>2. Len(r.path) \in Nat /\ Len(r.path) >= 1
      BY <3>1, EmptySeq
    <3>3. QED
      BY <2>2, <3>1, <3>2 DEF Bounded
  <2>5. PICK p \in Seq(Nat) : p = <<e>> \o q /\ InFront(e, q, p)
    <3>1. InFront(e, q, <<e>> \o q)
      BY <1>5, PutInFront
    <3>2. QED
      BY <3>1 DEF InFront
  <2>6. p # <<>> /\ Len(p) = l + 1 /\ p[l + 1] = q[l]
    BY <2>4, <2>5 DEF InFront
  <2>7. Last(p) = Last(q) /\ Len(p) <= d + 1
    BY <2>4, <2>6 DEF Last
  <2>8. s[m].path = p /\ s[m].out = r.out /\ q = r.path
    BY <2>3, <2>4, <2>5
  <2>9. Last(p) \in DOMAIN img /\ BytesOf(r.out) <= img[Last(p)].size
    BY <2>2, <2>4, <2>7 DEF Bounded
  <2>10. Bounded(img, d + 1, s[m])
    BY <2>6, <2>7, <2>8, <2>9 DEF Bounded
  <2>11. QED
    BY <1>4, <2>10
<1>7. CASE img[e].sec = "file"
  <2>1. PICK r \in FileRecord : /\ r.path = <<e>> /\ r.out = ExtractFile(img, e)
                                /\ r = [path |-> <<e>>, out |-> ExtractFile(img, e)]
    BY <1>5, FileRecorded
  <2>2. s = <<r>>
    BY <1>3, <1>7, <2>1 DEF Brings
  <2>3. s[m] = r
    BY <1>4, <2>2, One
  <2>4. <<e>> # <<>> /\ Len(<<e>>) = 1 /\ Last(<<e>>) = e /\ 1 <= d + 1
    BY <1>5, One DEF Last
  <2>5. BytesOf(r.out) <= img[e].size
    BY <1>5, <2>1, FileRight DEF FileIsRight
  <2>6. QED
    BY <1>4, <1>5, <2>1, <2>3, <2>4, <2>5 DEF Bounded
<1>8. CASE img[e].sec \notin {"dir", "file"}
  BY <1>3, <1>4, <1>8 DEF Brings
<1>9. QED
  BY <1>6, <1>7, <1>8

LEMMA AlwaysBounded ==
    ASSUME NEW img, IsImage(img), NEW n \in Nat, NEW x, Levels(x, img, n), NEW d \in 0..n,
           NEW b \in DOMAIN img, NEW k \in DOMAIN x[d][b]
    PROVE  Bounded(img, d, x[d][b][k])
<1> DEFINE All(m) == \A c \in DOMAIN img : \A j \in DOMAIN x[m][c] : Bounded(img, m, x[m][c][j])
    T == {m \in Nat : m <= n => All(m)}
<1>1. 0 \in T
  <2>1. \A c \in DOMAIN img : DOMAIN x[0][c] = {}
    BY EmptySeq DEF Levels
  <2>2. QED
    BY <2>1
<1>2. ASSUME NEW m \in Nat, m \in T PROVE m + 1 \in T
  <2> SUFFICES ASSUME m + 1 <= n PROVE All(m + 1)
    OBVIOUS
  <2>1. m \in 0..n /\ m + 1 \in 1..n /\ (m + 1) - 1 = m
    OBVIOUS
  <2>2. PICK inside \in [DOMAIN img -> Seq(FileRecord)] : inside = x[m] /\ x[m + 1] = Deeper(img, inside)
    BY <2>1 DEF Levels
  <2>3. \A c \in DOMAIN img : \A j \in DOMAIN inside[c] : Bounded(img, m, inside[c][j])
    BY <1>2, <2>1, <2>2
  <2>4. ASSUME NEW c \in DOMAIN img, NEW j \in DOMAIN Deeper(img, inside)[c]
        PROVE  Bounded(img, m + 1, Deeper(img, inside)[c][j])
    BY <2>3, BoundedKept
  <2>5. QED
    BY <2>2, <2>4
<1> HIDE DEF T
<1>3. d \in T
  BY <1>1, <1>2, Induct
<1>4. All(d)
  BY <1>3 DEF T
<1>5. QED
  BY <1>4

-----------------------------------------------------------------------------
(***************************************************************************)
(* Sound images: one link leads to a block, so it has one place.           *)
(***************************************************************************)
IsDrawer(img, b) == b \in Headers(img) /\ img[b].sec \in {"root", "dir"}
IsEntry(img, e) == e \in Headers(img) /\ img[e].sec # "root"
HasHead(img, b, k) == IsDrawer(img, b) /\ k \in 1..TableSize /\ img[b].table[k] # None
HasNext(img, d) == IsEntry(img, d) /\ img[d].chain # None

WellLinked(img) ==
    /\ \A b, k : HasHead(img, b, k) => IsEntry(img, img[b].table[k])
    /\ \A d : HasNext(img, d) => IsEntry(img, img[d].chain)
    /\ \A b, k, c, l : HasHead(img, b, k) /\ HasHead(img, c, l) /\ img[b].table[k] = img[c].table[l]
                          => b = c /\ k = l
    /\ \A d, e : HasNext(img, d) /\ HasNext(img, e) /\ img[d].chain = img[e].chain => d = e
    /\ \A b, k, d : HasHead(img, b, k) /\ HasNext(img, d) => img[b].table[k] # img[d].chain

HeadsOf(img) == {h \in Headers(img) \X (1..TableSize) :
                     img[h[1]].sec \in {"root", "dir"} /\ img[h[1]].table[h[2]] # None}
LinksOf(img) == {d \in Headers(img) : img[d].sec # "root" /\ img[d].chain # None}
HeadsAt(img, e) == {h \in HeadsOf(img) : img[h[1]].table[h[2]] = e}
LinksAt(img, e) == {d \in LinksOf(img) : img[d].chain = e}

Lonely(A, B) == (\A x, y \in A : x = y) /\ (\A x, y \in B : x = y) /\ \A x \in A, y \in B : FALSE

LEMMA AtMostOne ==
    ASSUME NEW A, NEW B, IsFiniteSet(A), IsFiniteSet(B), Cardinality(A) + Cardinality(B) <= 1
    PROVE  Lonely(A, B)
<1>1. /\ Cardinality(A) \in Nat /\ Cardinality(B) \in Nat
      /\ (Cardinality(A) = 0 <=> A = {}) /\ (Cardinality(B) = 0 <=> B = {})
  BY FS_CardinalityType, FS_EmptySet
<1>2. A = {} \/ B = {}
  BY <1>1
<1>3. \A x, y \in A : x = y
  <2>1. CASE Cardinality(A) = 0
    BY <1>1, <2>1
  <2>2. CASE Cardinality(A) # 0
    <3>1. Cardinality(A) = 1
      BY <1>1, <2>2
    <3>2. \E z : A = {z}
      BY <3>1, FS_Singleton
    <3>3. QED
      BY <3>2
  <2>3. QED
    BY <2>1, <2>2
<1>4. \A x, y \in B : x = y
  <2>1. CASE Cardinality(B) = 0
    BY <1>1, <2>1
  <2>2. CASE Cardinality(B) # 0
    <3>1. Cardinality(B) = 1
      BY <1>1, <2>2
    <3>2. \E z : B = {z}
      BY <3>1, FS_Singleton
    <3>3. QED
      BY <3>2
  <2>3. QED
    BY <2>1, <2>2
<1>5. QED
  BY <1>2, <1>3, <1>4 DEF Lonely

LEMMA SoundLinks == ASSUME NEW img, IsImage(img), Sound(img) PROVE WellLinked(img)
<1>1. /\ \A h \in HeadsOf(img) : Readable(img, img[h[1]].table[h[2]])
      /\ \A h \in HeadsOf(img) : img[img[h[1]].table[h[2]]].sec # "root"
      /\ \A d \in LinksOf(img) : Readable(img, img[d].chain) /\ img[img[d].chain].sec # "root"
      /\ \A e \in Headers(img) : Cardinality(HeadsAt(img, e)) + Cardinality(LinksAt(img, e)) <= 1
  BY DEF Sound, HeadsOf, LinksOf, HeadsAt, LinksAt
<1>2. IsFiniteSet(Headers(img)) /\ IsFiniteSet(1..TableSize)
  <2>1. IsFiniteSet(DOMAIN img)
    BY DEF IsImage
  <2>2. Headers(img) \subseteq DOMAIN img
    BY DEF Headers
  <2>3. QED
    BY <2>1, <2>2, Bounds, FS_Subset, FS_Interval
<1>3. IsFiniteSet(HeadsOf(img)) /\ IsFiniteSet(LinksOf(img))
  <2>1. IsFiniteSet(Headers(img) \X (1..TableSize))
    BY <1>2, FS_Product
  <2>2. HeadsOf(img) \subseteq Headers(img) \X (1..TableSize) /\ LinksOf(img) \subseteq Headers(img)
    BY DEF HeadsOf, LinksOf
  <2>3. QED
    BY <1>2, <2>1, <2>2, FS_Subset
<1>4. ASSUME NEW e \in Headers(img) PROVE Lonely(HeadsAt(img, e), LinksAt(img, e))
  <2>1. HeadsAt(img, e) \subseteq HeadsOf(img) /\ LinksAt(img, e) \subseteq LinksOf(img)
    BY DEF HeadsAt, LinksAt
  <2>2. IsFiniteSet(HeadsAt(img, e)) /\ IsFiniteSet(LinksAt(img, e))
    BY <1>3, <2>1, FS_Subset
  <2>3. QED
    BY <1>1, <2>2, AtMostOne
<1>5. ASSUME NEW b, NEW k, HasHead(img, b, k)
      PROVE  IsEntry(img, img[b].table[k]) /\ <<b, k>> \in HeadsAt(img, img[b].table[k])
  <2>1. <<b, k>> \in HeadsOf(img)
    BY <1>5 DEF HasHead, IsDrawer, HeadsOf
  <2>2. Readable(img, img[b].table[k]) /\ img[img[b].table[k]].sec # "root"
    BY <1>1, <2>1
  <2>3. img[b].table[k] # None
    BY <1>5 DEF HasHead
  <2>4. QED
    BY <2>1, <2>2, <2>3 DEF IsEntry, Headers, Readable, HeadsAt
<1>6. ASSUME NEW d, HasNext(img, d)
      PROVE  IsEntry(img, img[d].chain) /\ d \in LinksAt(img, img[d].chain)
  <2>1. d \in LinksOf(img)
    BY <1>6 DEF HasNext, IsEntry, LinksOf
  <2>2. Readable(img, img[d].chain) /\ img[img[d].chain].sec # "root"
    BY <1>1, <2>1
  <2>3. img[d].chain # None
    BY <1>6 DEF HasNext
  <2>4. QED
    BY <2>1, <2>2, <2>3 DEF IsEntry, Headers, Readable, LinksAt
<1>7. ASSUME NEW b, NEW k, NEW c, NEW l, HasHead(img, b, k), HasHead(img, c, l), img[b].table[k] = img[c].table[l]
      PROVE  b = c /\ k = l
  <2>1. PICK e : e = img[b].table[k]
    OBVIOUS
  <2>2. <<b, k>> \in HeadsAt(img, e) /\ <<c, l>> \in HeadsAt(img, e) /\ e \in Headers(img)
    BY <1>5, <1>7, <2>1 DEF IsEntry
  <2>3. <<b, k>> = <<c, l>>
    BY <1>4, <2>2 DEF Lonely
  <2>4. QED
    BY <2>3
<1>8. ASSUME NEW d, NEW e, HasNext(img, d), HasNext(img, e), img[d].chain = img[e].chain
      PROVE  d = e
  <2>1. PICK t : t = img[d].chain
    OBVIOUS
  <2>2. d \in LinksAt(img, t) /\ e \in LinksAt(img, t) /\ t \in Headers(img)
    BY <1>6, <1>8, <2>1 DEF IsEntry
  <2>3. QED
    BY <1>4, <2>2 DEF Lonely
<1>9. ASSUME NEW b, NEW k, NEW d, HasHead(img, b, k), HasNext(img, d)
      PROVE  img[b].table[k] # img[d].chain
  <2>1. SUFFICES ASSUME img[b].table[k] = img[d].chain PROVE FALSE
    OBVIOUS
  <2>2. PICK t : t = img[d].chain
    OBVIOUS
  <2>3. <<b, k>> \in HeadsAt(img, t) /\ d \in LinksAt(img, t) /\ t \in Headers(img)
    BY <1>5, <1>6, <1>9, <2>1, <2>2 DEF IsEntry
  <2>4. QED
    BY <1>4, <2>3 DEF Lonely
<1>10. QED
  BY <1>5, <1>6, <1>7, <1>8, <1>9 DEF WellLinked

\* A slot's chain in such an image.
SlotRight(img, b, k, s) ==
    /\ s \in Seq(Headers(img)) /\ Len(s) <= MaxChain
    /\ \A j \in 1..Len(s) :
          /\ IsEntry(img, s[j])
          /\ j = 1 => HasHead(img, b, k) /\ s[j] = img[b].table[k]
          /\ j # 1 => j - 1 \in 1..Len(s) /\ HasNext(img, s[j - 1]) /\ s[j] = img[s[j - 1]].chain
    /\ MaxChain > 0 /\ HasHead(img, b, k) => s # <<>>
    /\ s # <<>> /\ Len(s) < MaxChain => ~HasNext(img, s[Len(s)])

LEMMA SlotIsRight ==
    ASSUME NEW img, IsImage(img), WellLinked(img), NEW b, IsDrawer(img, b), NEW k \in 1..TableSize
    PROVE  SlotRight(img, b, k, SlotsOf(img, b)[k])
<1>1. b \in DOMAIN img /\ IsDrawer(img, b)
  BY DEF IsDrawer, Headers
<1>2. PICK s, next : s = SlotsOf(img, b)[k] /\ next = ChainsOf(img)
  OBVIOUS
<1>3. IsChain(s, next, img[b].table[k], MaxChain)
  BY <1>1, <1>2, SlotChained
<1>4. DOMAIN next = DOMAIN img /\ \A e \in DOMAIN img : next[e] = img[e].chain
  BY <1>2 DEF ChainsOf
<1>5. PICK n \in Nat : n = Len(s) /\ n <= MaxChain
  <2>1. s \in Seq(Headers(img)) /\ Len(s) <= MaxChain
    BY <1>3, <1>4 DEF IsChain, Headers
  <2>2. QED
    BY <2>1, LenProperties
<1>6. /\ s \in Seq(Headers(img)) /\ (s = <<>> <=> n = 0)
      /\ \A j \in 1..n : s[j] \in Headers(img) /\ s[j] \in DOMAIN img
  <2>1. s \in Seq(Headers(img))
    BY <1>3, <1>4 DEF IsChain, Headers
  <2>2. \A j \in 1..n : s[j] \in Headers(img)
    BY <1>5, <2>1, ElementOfSeq
  <2>3. QED
    BY <1>5, <2>1, <2>2, EmptySeq DEF Headers
<1>7. n # 0 => s[1] = img[b].table[k]
  BY <1>3, <1>6 DEF IsChain
<1>8. \A j \in 2..n : s[j] = img[s[j - 1]].chain
  <2>1. \A j \in 2..n : s[j] = next[s[j - 1]]
    BY <1>3, <1>5 DEF IsChain
  <2>2. \A j \in 2..n : j - 1 \in 1..n
    OBVIOUS
  <2>3. QED
    BY <1>4, <1>6, <2>1, <2>2
<1> DEFINE At1(j) ==
          /\ IsEntry(img, s[j])
          /\ j = 1 => HasHead(img, b, k) /\ s[j] = img[b].table[k]
          /\ j # 1 => j - 1 \in 1..n /\ HasNext(img, s[j - 1]) /\ s[j] = img[s[j - 1]].chain
    T == {j \in Nat : j + 1 <= n => At1(j + 1)}
<1>9. 0 \in T
  <2> SUFFICES ASSUME 1 <= n PROVE At1(1)
    OBVIOUS
  <2>1. s[1] = img[b].table[k] /\ s[1] \in Headers(img)
    BY <1>6, <1>7
  <2>2. s[1] # None
    BY <2>1 DEF Headers
  <2>3. HasHead(img, b, k)
    BY <1>1, <2>1, <2>2 DEF HasHead
  <2>4. IsEntry(img, s[1])
    BY <2>1, <2>3 DEF WellLinked
  <2>5. QED
    BY <2>1, <2>3, <2>4
<1>10. ASSUME NEW j \in Nat, j \in T PROVE j + 1 \in T
  <2> SUFFICES ASSUME (j + 1) + 1 <= n PROVE At1((j + 1) + 1)
    OBVIOUS
  <2>1. PICK m \in 2..n : m = (j + 1) + 1 /\ m - 1 = j + 1 /\ m # 1 /\ m - 1 \in 1..n /\ m \in 1..n /\ j + 1 <= n
    <3>1. (j + 1) + 1 \in 2..n /\ ((j + 1) + 1) - 1 = j + 1 /\ j + 1 \in 1..n
      OBVIOUS
    <3>2. QED
      BY <3>1
  <2>2. IsEntry(img, s[m - 1])
    BY <1>10, <2>1
  <2>3. s[m] = img[s[m - 1]].chain /\ s[m] \in Headers(img)
    BY <1>6, <1>8, <2>1
  <2>4. s[m] # None
    BY <2>3 DEF Headers
  <2>5. HasNext(img, s[m - 1])
    BY <2>2, <2>3, <2>4 DEF HasNext
  <2>6. IsEntry(img, s[m])
    BY <2>3, <2>5 DEF WellLinked
  <2>7. At1(m)
    BY <2>1, <2>3, <2>5, <2>6
  <2> HIDE DEF At1
  <2>8. QED
    BY <2>1, <2>7
<1> HIDE DEF T
<1>11. Nat \subseteq T
  BY <1>9, <1>10, Induct
<1>12. ASSUME NEW j \in 1..n PROVE At1(j)
  <2>1. PICK i \in Nat : i + 1 = j
    <3>1. j - 1 \in Nat /\ (j - 1) + 1 = j
      OBVIOUS
    <3>2. QED
      BY <3>1
  <2>2. i + 1 <= n /\ i \in T
    BY <1>11, <2>1
  <2>3. At1(i + 1)
    BY <2>2 DEF T
  <2> HIDE DEF At1
  <2>4. QED
    BY <2>1, <2>3
<1>13. MaxChain > 0 /\ HasHead(img, b, k) => s # <<>>
  <2> SUFFICES ASSUME MaxChain > 0, HasHead(img, b, k) PROVE s # <<>>
    OBVIOUS
  <2>1. img[b].table[k] \in DOMAIN next \ {None}
    BY <1>4 DEF WellLinked, IsEntry, Headers
  <2>2. QED
    BY <1>3, <2>1 DEF IsChain
<1>14. s # <<>> /\ n < MaxChain => ~HasNext(img, s[n])
  <2> SUFFICES ASSUME s # <<>>, n < MaxChain, HasNext(img, s[n]) PROVE FALSE
    OBVIOUS
  <2>1. s[n] \in DOMAIN img
    BY <1>6
  <2>2. next[s[n]] \notin DOMAIN next \ {None}
    BY <1>3, <1>5 DEF IsChain
  <2>3. img[s[n]].chain \in Headers(img)
    BY DEF WellLinked, IsEntry
  <2>4. QED
    BY <1>4, <2>1, <2>2, <2>3 DEF Headers
<1>15. QED
  BY <1>2, <1>5, <1>6, <1>12, <1>13, <1>14 DEF SlotRight

\* Block e is the j-th of the chain in slot k of drawer b.
InSlot(img, b, k, j, e) ==
    /\ IsDrawer(img, b) /\ k \in 1..TableSize
    /\ j \in 1..Len(SlotsOf(img, b)[k]) /\ e = SlotsOf(img, b)[k][j]

PlacedBy(img, b, k, j, e) ==
    /\ j \in Nat /\ IsEntry(img, e)
    /\ j = 1 => HasHead(img, b, k) /\ e = img[b].table[k]
    /\ j # 1 => \E d : InSlot(img, b, k, j - 1, d) /\ HasNext(img, d) /\ e = img[d].chain

LEMMA PlaceOf ==
    ASSUME NEW img, IsImage(img), WellLinked(img), NEW b, NEW k, NEW j, NEW e, InSlot(img, b, k, j, e)
    PROVE  PlacedBy(img, b, k, j, e)
<1>1. IsDrawer(img, b) /\ k \in 1..TableSize
  BY DEF InSlot
<1>2. PICK s : s = SlotsOf(img, b)[k] /\ SlotRight(img, b, k, s)
  BY <1>1, SlotIsRight
<1>3. j \in 1..Len(s) /\ e = s[j]
  BY <1>2 DEF InSlot
<1>4. Len(s) \in Nat
  BY <1>2, LenProperties DEF SlotRight
<1>5. j \in Nat
  BY <1>3, <1>4
<1>6. /\ IsEntry(img, e)
      /\ j = 1 => HasHead(img, b, k) /\ e = img[b].table[k]
      /\ j # 1 => j - 1 \in 1..Len(s) /\ HasNext(img, s[j - 1]) /\ e = img[s[j - 1]].chain
  BY <1>2, <1>3 DEF SlotRight
<1>7. j # 1 => \E d : InSlot(img, b, k, j - 1, d) /\ HasNext(img, d) /\ e = img[d].chain
  BY <1>1, <1>2, <1>6 DEF InSlot
<1>8. QED
  BY <1>5, <1>6, <1>7 DEF PlacedBy

SamePlace(b, k, j, c, l, i) == b = c /\ k = l /\ j = i

LEMMA OnePlace ==
    ASSUME NEW img, IsImage(img), WellLinked(img), NEW b, NEW k, NEW j, NEW c, NEW l, NEW i, NEW e,
           InSlot(img, b, k, j, e), InSlot(img, c, l, i, e)
    PROVE  SamePlace(b, k, j, c, l, i)
<1> DEFINE T == {m \in Nat : \A b1, k1, j1, c1, l1, i1, e1 :
                    j1 = m + 1 /\ InSlot(img, b1, k1, j1, e1) /\ InSlot(img, c1, l1, i1, e1)
                        => SamePlace(b1, k1, j1, c1, l1, i1)}
<1>1. 0 \in T
  <2> SUFFICES ASSUME NEW b1, NEW k1, NEW j1, NEW c1, NEW l1, NEW i1, NEW e1,
                      j1 = 0 + 1, InSlot(img, b1, k1, j1, e1), InSlot(img, c1, l1, i1, e1)
               PROVE  SamePlace(b1, k1, j1, c1, l1, i1)
    OBVIOUS
  <2>1. j1 = 1 /\ PlacedBy(img, b1, k1, j1, e1) /\ PlacedBy(img, c1, l1, i1, e1)
    BY PlaceOf
  <2>2. HasHead(img, b1, k1) /\ e1 = img[b1].table[k1]
    BY <2>1 DEF PlacedBy
  <2>3. CASE i1 = 1
    <3>1. HasHead(img, c1, l1) /\ e1 = img[c1].table[l1]
      BY <2>1, <2>3 DEF PlacedBy
    <3>2. b1 = c1 /\ k1 = l1
      BY <2>2, <3>1 DEF WellLinked
    <3>3. QED
      BY <2>1, <2>3, <3>2 DEF SamePlace
  <2>4. CASE i1 # 1
    <3>1. \E d : HasNext(img, d) /\ e1 = img[d].chain
      BY <2>1, <2>4 DEF PlacedBy
    <3>2. QED
      BY <2>2, <3>1 DEF WellLinked
  <2>5. QED
    BY <2>3, <2>4
<1>2. ASSUME NEW m \in Nat, m \in T PROVE m + 1 \in T
  <2> SUFFICES ASSUME NEW b1, NEW k1, NEW j1, NEW c1, NEW l1, NEW i1, NEW e1,
                      j1 = (m + 1) + 1, InSlot(img, b1, k1, j1, e1), InSlot(img, c1, l1, i1, e1)
               PROVE  SamePlace(b1, k1, j1, c1, l1, i1)
    OBVIOUS
  <2>1. PlacedBy(img, b1, k1, j1, e1) /\ PlacedBy(img, c1, l1, i1, e1)
    BY PlaceOf
  <2>2. j1 # 1 /\ j1 - 1 = m + 1
    OBVIOUS
  <2>3. PICK d : InSlot(img, b1, k1, j1 - 1, d) /\ HasNext(img, d) /\ e1 = img[d].chain
    BY <2>1, <2>2 DEF PlacedBy
  <2>4. CASE i1 = 1
    <3>1. HasHead(img, c1, l1) /\ e1 = img[c1].table[l1]
      BY <2>1, <2>4 DEF PlacedBy
    <3>2. QED
      BY <2>3, <3>1 DEF WellLinked
  <2>5. CASE i1 # 1
    <3>1. PICK f : InSlot(img, c1, l1, i1 - 1, f) /\ HasNext(img, f) /\ e1 = img[f].chain
      BY <2>1, <2>5 DEF PlacedBy
    <3>2. d = f
      BY <2>3, <3>1 DEF WellLinked
    <3>3. SamePlace(b1, k1, j1 - 1, c1, l1, i1 - 1)
      BY <1>2, <2>2, <2>3, <3>1, <3>2
    <3>4. j1 \in Nat /\ i1 \in Nat
      BY <2>1 DEF PlacedBy
    <3>5. j1 = i1
      BY <3>3, <3>4 DEF SamePlace
    <3>6. QED
      BY <3>3, <3>5 DEF SamePlace
  <2>6. QED
    BY <2>4, <2>5
<1> HIDE DEF T
<1>3. Nat \subseteq T
  BY <1>1, <1>2, Induct
<1>4. PlacedBy(img, b, k, j, e) /\ j \in 1..Len(SlotsOf(img, b)[k])
  BY PlaceOf DEF InSlot
<1>5. PICK m \in Nat : j = m + 1
  <2>1. j \in Nat /\ j # 0
    BY <1>4 DEF PlacedBy
  <2>2. j - 1 \in Nat /\ j = (j - 1) + 1
    BY <2>1
  <2>3. QED
    BY <2>2
<1>6. m \in T
  BY <1>3
<1>7. QED
  BY <1>5, <1>6 DEF T

\* A sound image, no larger than a chain may be long.
Regular(img, root) ==
    /\ IsImage(img) /\ WellLinked(img)
    /\ root \in Headers(img) /\ img[root].sec = "root"
    /\ Cardinality(Headers(img)) <= MaxChain + 1

FullSlot(img, b, k, s) ==
    /\ SlotRight(img, b, k, s)
    /\ HasHead(img, b, k) => s # <<>>
    /\ s # <<>> => ~HasNext(img, s[Len(s)])
    /\ Len(s) <= Cardinality(Headers(img))

LEMMA NoneCutOff ==
    ASSUME NEW img, NEW root, Regular(img, root), NEW b, IsDrawer(img, b), NEW k \in 1..TableSize
    PROVE  FullSlot(img, b, k, SlotsOf(img, b)[k])
<1> DEFINE H == Headers(img)
    E == H \ {root}
<1>1. PICK s \in Seq(H), n \in Nat :
          s = SlotsOf(img, b)[k] /\ SlotRight(img, b, k, s) /\ n = Len(s) /\ DOMAIN s = 1..n
  <2>1. SlotRight(img, b, k, SlotsOf(img, b)[k])
    BY SlotIsRight DEF Regular
  <2>2. SlotsOf(img, b)[k] \in Seq(H)
    BY <2>1 DEF SlotRight
  <2>3. QED
    BY <2>1, <2>2, LenProperties
<1>2. IsImage(img) /\ WellLinked(img) /\ root \in H /\ img[root].sec = "root" /\ Cardinality(H) <= MaxChain + 1
  BY DEF Regular
<1>3. IsFiniteSet(H) /\ Cardinality(H) \in Nat
  <2>1. IsFiniteSet(DOMAIN img) /\ H \subseteq DOMAIN img
    BY <1>2 DEF IsImage, Headers
  <2>2. QED
    BY <2>1, FS_Subset, FS_CardinalityType
<1>4. PICK c \in Nat : IsFiniteSet(E) /\ c = Cardinality(E) /\ c <= MaxChain /\ c <= Cardinality(H)
  <2>1. IsFiniteSet(E) /\ Cardinality(E) = Cardinality(H) - 1
    BY <1>2, <1>3, FS_RemoveElement
  <2>2. Cardinality(E) \in Nat
    BY <2>1, FS_CardinalityType
  <2>3. Cardinality(E) <= MaxChain /\ Cardinality(E) <= Cardinality(H)
    BY <1>2, <1>3, <2>1, <2>2, Bounds
  <2>4. QED
    BY <2>1, <2>2, <2>3
<1>5. \A e : IsEntry(img, e) => e \in E
  BY <1>2 DEF IsEntry
<1>6. \A j \in 1..n : s[j] \in E /\ InSlot(img, b, k, j, s[j])
  BY <1>1, <1>5 DEF SlotRight, InSlot
<1>7. \A i, j \in 1..n : s[i] = s[j] => i = j
  BY <1>2, <1>6, OnePlace DEF SamePlace
<1>8. s \in [1..n -> E]
  <2>1. s = [j \in 1..n |-> s[j]]
    BY <1>1, SeqDef
  <2>2. QED
    BY <1>6, <2>1
<1>9. s \in Injection(1..n, E)
  BY <1>7, <1>8 DEF Injection, IsInjective
<1>10. Cardinality(1..n) = n
  BY FS_Interval
<1>11. n <= c /\ (n = c => s \in Surjection(1..n, E))
  BY <1>4, <1>9, <1>10, FS_Injection
<1>12. n <= MaxChain /\ n <= Cardinality(H)
  BY <1>3, <1>4, <1>11, Bounds
<1>13. HasHead(img, b, k) => s # <<>>
  <2> SUFFICES ASSUME HasHead(img, b, k) PROVE s # <<>>
    OBVIOUS
  <2>1. img[b].table[k] \in E
    BY <1>2, <1>5 DEF WellLinked
  <2>2. c # 0
    BY <1>4, <2>1, FS_EmptySet
  <2>3. MaxChain > 0
    BY <1>4, <2>2, Bounds
  <2>4. QED
    BY <1>1, <2>3 DEF SlotRight
<1>14. s # <<>> => ~HasNext(img, s[n])
  <2> SUFFICES ASSUME s # <<>>, HasNext(img, s[n]) PROVE FALSE
    OBVIOUS
  <2>1. n = MaxChain /\ n = c
    <3>1. ~(n < MaxChain)
      BY <1>1 DEF SlotRight
    <3>2. QED
      BY <1>4, <1>11, <1>12, <3>1, Bounds
  <2>2. PICK t \in E : t = img[s[n]].chain
    BY <1>2, <1>5 DEF WellLinked
  <2>3. PICK j \in 1..n : s[j] = t
    BY <1>11, <2>1 DEF Surjection
  <2>4. CASE j = 1
    <3>1. HasHead(img, b, k) /\ t = img[b].table[k]
      BY <1>1, <2>3, <2>4 DEF SlotRight
    <3>2. QED
      BY <1>2, <2>2, <3>1 DEF WellLinked
  <2>5. CASE j # 1
    <3>1. j - 1 \in 1..n /\ HasNext(img, s[j - 1]) /\ t = img[s[j - 1]].chain
      BY <1>1, <2>3, <2>5 DEF SlotRight
    <3>2. s[j - 1] = s[n]
      BY <1>2, <2>2, <3>1 DEF WellLinked
    <3>3. n \in 1..n
      BY <3>1
    <3>4. j - 1 = n
      BY <1>7, <3>1, <3>2, <3>3
    <3>5. QED
      BY <3>4
  <2>6. QED
    BY <2>4, <2>5
<1>15. QED
  BY <1>1, <1>12, <1>13, <1>14 DEF FullSlot

\* WithChained, one link after the other.
NextOf(img, W) == {img[d].chain : d \in W} \cap Headers(img)
Grows(w, img, S, N) ==
    /\ w \in [0..N -> SUBSET Headers(img)] /\ w[0] = S
    /\ \A n \in 1..N : w[n] = w[n - 1] \cup NextOf(img, w[n - 1])

LEMMA Growing ==
    ASSUME NEW img, NEW S, S \subseteq Headers(img), NEW N \in Nat, N = Cardinality(Headers(img))
    PROVE  \E w : Grows(w, img, S, N) /\ WithChained(img, S) = w[N]
<1> DEFINE R == SUBSET Headers(img)
    F == [p \in (1..N) \X R |-> p[2] \cup NextOf(img, p[2])]
    Is(g) == g = [n \in 0..N |-> IF n = 0 THEN S
                    ELSE g[n - 1] \cup ({img[b].chain : b \in g[n - 1]} \cap Headers(img))]
<1>1. S \in R
  OBVIOUS
<1>2. \A n \in 1..N, W \in R : F[<<n, W>>] = W \cup NextOf(img, W)
  OBVIOUS
<1>3. \A W \in R : W \cup NextOf(img, W) \in R
  BY DEF NextOf
<1>4. \A n \in 1..N, W \in R : F[<<n, W>>] \in R
  BY <1>2, <1>3
<1> HIDE DEF F, R
<1>5. PICK h : Runs(h, N, R, S, F)
  BY <1>1, <1>4, Iteration
<1>6. Is(h)
  <2>1. /\ h \in [0..N -> R]
        /\ \A n \in 0..N : h[n] = IF n = 0 THEN S ELSE F[<<n, h[n - 1]>>]
    BY <1>5 DEF Runs
  <2>2. ASSUME NEW n \in 0..N, n # 0 PROVE h[n] = h[n - 1] \cup NextOf(img, h[n - 1])
    <3>1. n \in 1..N /\ n - 1 \in 0..N
      BY <2>2
    <3>2. h[n - 1] \in R
      BY <2>1, <3>1
    <3>3. QED
      BY <1>2, <2>1, <2>2, <3>1, <3>2
  <2>3. \A n \in 0..N : h[n] = IF n = 0 THEN S ELSE h[n - 1] \cup NextOf(img, h[n - 1])
    BY <2>1, <2>2
  <2>4. h = [n \in 0..N |-> h[n]]
    BY <2>1
  <2>5. QED
    BY <2>3, <2>4 DEF NextOf
<1> DEFINE x == CHOOSE g : Is(g)
<1>7. Is(x)
  BY <1>6
<1>8. WithChained(img, S) = x[N]
  BY DEF WithChained
<1> HIDE DEF x
<1>9. \A n \in 0..N : x[n] = IF n = 0 THEN S ELSE x[n - 1] \cup NextOf(img, x[n - 1])
  BY <1>7 DEF NextOf
<1>10. DOMAIN x = 0..N /\ x = [n \in 0..N |-> x[n]]
  BY <1>7
<1>11. x[0] = S /\ \A n \in 1..N : x[n] = x[n - 1] \cup NextOf(img, x[n - 1])
  <2>1. 0 \in 0..N /\ \A n \in 1..N : n \in 0..N /\ n # 0
    OBVIOUS
  <2>2. QED
    BY <1>9, <2>1
<1> DEFINE T == {n \in Nat : n <= N => x[n] \in R}
<1>12. 0 \in T
  BY <1>1, <1>11
<1>13. ASSUME NEW n \in Nat, n \in T PROVE n + 1 \in T
  <2>1. n + 1 <= N => n + 1 \in 1..N /\ (n + 1) - 1 = n /\ n <= N
    OBVIOUS
  <2>2. n + 1 <= N => x[n] \in R /\ x[n + 1] = x[n] \cup NextOf(img, x[n])
    BY <1>11, <1>13, <2>1
  <2>3. QED
    BY <1>3, <2>2
<1> HIDE DEF T
<1>14. Nat \subseteq T
  BY <1>12, <1>13, Induct
<1>15. \A n \in 0..N : x[n] \in R
  BY <1>14 DEF T
<1>16. x \in [0..N -> R]
  BY <1>10, <1>15
<1>17. Grows(x, img, S, N)
  BY <1>11, <1>16 DEF Grows, R
<1>18. QED
  BY <1>8, <1>17

Found(img, b, e) == Holds(img, b, e) <=> \E k, j : InSlot(img, b, k, j, e)

\* What a drawer holds is what the reader finds in its slots.
LEMMA HeldFound ==
    ASSUME NEW img, NEW root, Regular(img, root), NEW b, IsDrawer(img, b), NEW e
    PROVE  Found(img, b, e)
<1> DEFINE H == Headers(img)
    S == {img[b].table[k] : k \in 1..TableSize} \cap H
    E == {x \in H : \E k, j : InSlot(img, b, k, j, x)}
<1>1. IsImage(img) /\ WellLinked(img) /\ b \in DOMAIN img /\ img[b].sec \in {"root", "dir"}
  BY DEF Regular, IsDrawer, Headers
<1>2. PICK N \in Nat : N = Cardinality(H)
  <2>1. IsFiniteSet(DOMAIN img) /\ H \subseteq DOMAIN img
    BY <1>1 DEF IsImage, Headers
  <2>2. QED
    BY <2>1, FS_Subset, FS_CardinalityType
<1>3. PICK w : Grows(w, img, S, N) /\ WithChained(img, S) = w[N]
  <2> DEFINE U == S
  <2>1. U \subseteq H
    OBVIOUS
  <2> HIDE DEF U
  <2>2. \E w : Grows(w, img, U, N) /\ WithChained(img, U) = w[N]
    BY <1>2, <2>1, Growing
  <2>3. QED
    BY <2>2 DEF U
<1>4. Holds(img, b, e) <=> e \in w[N]
  BY <1>1, <1>3 DEF Holds
<1>5. /\ \A n \in 0..N : w[n] \subseteq H
      /\ w[0] = S
      /\ \A n \in 1..N : w[n] = w[n - 1] \cup NextOf(img, w[n - 1])
  BY <1>3 DEF Grows
<1>6. \A k \in 1..TableSize : FullSlot(img, b, k, SlotsOf(img, b)[k])
  BY NoneCutOff
<1>7. ASSUME NEW k \in 1..TableSize, img[b].table[k] \in H
      PROVE  InSlot(img, b, k, 1, img[b].table[k])
  <2>1. HasHead(img, b, k)
    BY <1>7 DEF HasHead, Headers
  <2>2. PICK s \in Seq(H), n \in Nat :
            s = SlotsOf(img, b)[k] /\ SlotRight(img, b, k, s) /\ s # <<>> /\ n = Len(s)
    <3>1. PICK s : s = SlotsOf(img, b)[k] /\ SlotRight(img, b, k, s) /\ s # <<>>
      BY <1>6, <2>1 DEF FullSlot
    <3>2. s \in Seq(H)
      BY <3>1 DEF SlotRight
    <3>3. QED
      BY <3>1, <3>2, LenProperties
  <2>3. 1 \in 1..n
    BY <2>2, EmptySeq
  <2>4. s[1] = img[b].table[k]
    BY <2>2, <2>3 DEF SlotRight
  <2>5. QED
    BY <2>2, <2>3, <2>4 DEF InSlot
<1>8. S \subseteq E
  BY <1>7
<1>9. ASSUME NEW d \in E, img[d].chain \in H PROVE img[d].chain \in E
  <2>1. PICK k, j : InSlot(img, b, k, j, d)
    OBVIOUS
  <2>2. HasNext(img, d)
    <3>1. IsEntry(img, d)
      BY <1>1, <2>1, PlaceOf DEF PlacedBy
    <3>2. QED
      BY <1>9, <3>1 DEF HasNext, Headers
  <2>3. k \in 1..TableSize
    BY <2>1 DEF InSlot
  <2>4. PICK s : s = SlotsOf(img, b)[k] /\ FullSlot(img, b, k, s)
    BY <1>6, <2>3
  <2>5. PICK n \in Nat : n = Len(s)
    <3>1. s \in Seq(H)
      BY <2>4 DEF FullSlot, SlotRight
    <3>2. QED
      BY <3>1, LenProperties
  <2>6. j \in 1..n /\ d = s[j]
    BY <2>1, <2>4, <2>5 DEF InSlot
  <2>7. s # <<>>
    <3>1. s = <<>> => n = 0
      BY <2>5
    <3>2. QED
      BY <2>6, <3>1
  <2>8. j # n
    BY <2>2, <2>4, <2>5, <2>6, <2>7 DEF FullSlot
  <2>9. PICK i \in 1..n : i = j + 1 /\ i # 1 /\ i - 1 = j
    <3>1. j + 1 \in 1..n /\ j + 1 # 1 /\ (j + 1) - 1 = j
      BY <2>6, <2>8
    <3>2. QED
      BY <3>1
  <2>10. s[i] = img[d].chain
    BY <2>4, <2>5, <2>6, <2>9 DEF FullSlot, SlotRight
  <2>11. InSlot(img, b, k, i, img[d].chain)
    BY <2>1, <2>3, <2>4, <2>5, <2>9, <2>10 DEF InSlot
  <2>12. QED
    BY <1>9, <2>11
<1> HIDE DEF E
<1>10. w[N] \subseteq E
  <2> DEFINE T == {n \in Nat : n <= N => w[n] \subseteq E}
  <2>1. 0 \in T
    BY <1>5, <1>8
  <2>2. ASSUME NEW n \in Nat, n \in T PROVE n + 1 \in T
    <3>1. n + 1 <= N => n + 1 \in 1..N /\ (n + 1) - 1 = n /\ n <= N
      OBVIOUS
    <3>2. n + 1 <= N => w[n] \subseteq E /\ w[n + 1] = w[n] \cup NextOf(img, w[n])
      BY <1>5, <2>2, <3>1
    <3>3. n + 1 <= N => NextOf(img, w[n]) \subseteq E
      BY <1>9, <3>2 DEF NextOf
    <3>4. QED
      BY <3>2, <3>3
  <2> HIDE DEF T
  <2>3. N \in T
    BY <2>1, <2>2, Induct
  <2>4. QED
    BY <2>3 DEF T
<1>11. ASSUME NEW k, NEW j, InSlot(img, b, k, j, e) PROVE e \in w[N]
  <2> DEFINE T == {n \in Nat : n <= N => \A i, x : InSlot(img, b, k, i, x) /\ i <= n + 1 => x \in w[n]}
  <2>1. 0 \in T
    <3> SUFFICES ASSUME NEW i, NEW x, InSlot(img, b, k, i, x), i <= 0 + 1 PROVE x \in w[0]
      OBVIOUS
    <3>1. PlacedBy(img, b, k, i, x) /\ i \in 1..Len(SlotsOf(img, b)[k]) /\ k \in 1..TableSize
      BY <1>1, PlaceOf DEF InSlot
    <3>2. i = 1
      BY <3>1 DEF PlacedBy
    <3>3. x = img[b].table[k] /\ x \in H
      BY <3>1, <3>2 DEF PlacedBy, IsEntry
    <3>4. QED
      BY <1>5, <3>1, <3>3
  <2>2. ASSUME NEW n \in Nat, n \in T PROVE n + 1 \in T
    <3> SUFFICES ASSUME n + 1 <= N, NEW i, NEW x, InSlot(img, b, k, i, x), i <= (n + 1) + 1 PROVE x \in w[n + 1]
      OBVIOUS
    <3>1. n + 1 \in 1..N /\ (n + 1) - 1 = n /\ n <= N
      OBVIOUS
    <3>2. w[n + 1] = w[n] \cup NextOf(img, w[n])
      BY <1>5, <3>1
    <3>3. \A i1, x1 : InSlot(img, b, k, i1, x1) /\ i1 <= n + 1 => x1 \in w[n]
      BY <2>2, <3>1
    <3>4. CASE i <= n + 1
      BY <3>2, <3>3, <3>4
    <3>5. CASE ~(i <= n + 1)
      <4>1. PlacedBy(img, b, k, i, x)
        BY <1>1, PlaceOf
      <4>2. i \in Nat /\ i # 1 /\ i - 1 <= n + 1
        <5>1. i \in Nat
          BY <4>1 DEF PlacedBy
        <5>2. QED
          BY <3>5, <5>1
      <4>3. PICK d : InSlot(img, b, k, i - 1, d) /\ x = img[d].chain /\ x \in H
        BY <4>1, <4>2 DEF PlacedBy, IsEntry
      <4>4. d \in w[n]
        BY <3>3, <4>2, <4>3
      <4>5. QED
        BY <3>2, <4>3, <4>4 DEF NextOf
    <3>6. QED
      BY <3>4, <3>5
  <2> HIDE DEF T
  <2>3. N \in T
    BY <2>1, <2>2, Induct
  <2>4. j <= N + 1
    <3>1. k \in 1..TableSize /\ j \in 1..Len(SlotsOf(img, b)[k])
      BY <1>11 DEF InSlot
    <3>2. FullSlot(img, b, k, SlotsOf(img, b)[k])
      BY <1>6, <3>1
    <3>3. Len(SlotsOf(img, b)[k]) <= N /\ SlotsOf(img, b)[k] \in Seq(H)
      BY <1>2, <3>2 DEF FullSlot, SlotRight
    <3>4. PICK n \in Nat : n = Len(SlotsOf(img, b)[k])
      BY <3>3, LenProperties
    <3>5. j \in 1..n /\ n <= N
      BY <3>1, <3>3, <3>4
    <3>6. QED
      BY <3>5
  <2>5. QED
    BY <1>11, <2>3, <2>4 DEF T
<1>12. Holds(img, b, e) <=> \E k, j : InSlot(img, b, k, j, e)
  BY <1>4, <1>10, <1>11 DEF E
<1>13. QED
  BY <1>12 DEF Found

\* A set of at most one element.
LEMMA Lone == ASSUME NEW A, \A x, y \in A : x = y
              PROVE  /\ IsFiniteSet(A) /\ Cardinality(A) = (IF A = {} THEN 0 ELSE 1)
                     /\ Cardinality(A) <= 1
<1>1. CASE A = {}
  BY <1>1, FS_EmptySet
<1>2. CASE A # {}
  <2>1. PICK x : A = {x}
    BY <1>2
  <2>2. IsFiniteSet({x}) /\ Cardinality({x}) = 1
    BY FS_Singleton
  <2>3. IsFiniteSet(A) /\ Cardinality(A) = 1
    BY <2>1, <2>2
  <2>4. QED
    BY <1>2, <2>3
<1>3. QED
  BY <1>1, <1>2

\* An entry of a drawer is met once.
MetOnce(img, b, e) == Cardinality(Hits(EntriesOf(img, b), {e})) = IF Holds(img, b, e) THEN 1 ELSE 0

LEMMA EntryMetOnce ==
    ASSUME NEW img, NEW root, Regular(img, root), NEW b, IsDrawer(img, b), NEW e
    PROVE  MetOnce(img, b, e)
<1>1. IsImage(img) /\ WellLinked(img) /\ b \in DOMAIN img
  BY DEF Regular, IsDrawer, Headers
<1>2. PICK ss \in Seq(Seq(Headers(img))) : /\ ss = SlotsOf(img, b) /\ DOMAIN ss = 1..TableSize
                                           /\ EntriesOf(img, b) = FlattenSeq(ss)
  BY <1>1, EntriesTyped
<1>3. \A k \in 1..TableSize : ss[k] \in Seq(Headers(img)) /\ DOMAIN ss[k] = 1..Len(ss[k])
  <2>1. Len(ss) \in Nat /\ DOMAIN ss = 1..Len(ss)
    BY LenProperties
  <2>2. \A k \in 1..TableSize : ss[k] \in Seq(Headers(img))
    BY <1>2, <2>1, ElementOfSeq
  <2>3. QED
    BY <2>2, LenProperties
<1>4. ASSUME NEW k \in 1..TableSize, NEW j
      PROVE  j \in Hits(ss[k], {e}) <=> InSlot(img, b, k, j, e)
  <2>1. DOMAIN ss[k] = 1..Len(ss[k]) /\ ss[k] = SlotsOf(img, b)[k]
    BY <1>2, <1>3
  <2>2. j \in Hits(ss[k], {e}) <=> j \in DOMAIN ss[k] /\ ss[k][j] = e
    BY DEF Hits
  <2>3. QED
    BY <2>1, <2>2 DEF InSlot
<1>5. ASSUME NEW k \in 1..TableSize PROVE Cardinality(Hits(ss[k], {e})) <= 1
  <2>1. \A i, j \in Hits(ss[k], {e}) : i = j
    BY <1>1, <1>4, OnePlace DEF SamePlace
  <2>2. QED
    BY <2>1, Lone
<1> DEFINE K == {k \in DOMAIN ss : Hits(ss[k], {e}) # {}}
<1>6. Cardinality(Hits(FlattenSeq(ss), {e})) = Cardinality(K)
  <2> DEFINE Z == {e}
  <2>1. \A k \in DOMAIN ss : Cardinality(Hits(ss[k], Z)) <= 1
    BY <1>2, <1>5
  <2> HIDE DEF Z
  <2>2. Cardinality(Hits(FlattenSeq(ss), Z)) = Cardinality({k \in DOMAIN ss : Hits(ss[k], Z) # {}})
    BY <2>1, HitsFlattened
  <2>3. QED
    BY <2>2 DEF Z
<1>7. \A k, l \in K : k = l
  <2>1. ASSUME NEW k \in K, NEW l \in K PROVE k = l
    <3>1. k \in 1..TableSize /\ l \in 1..TableSize /\ Hits(ss[k], {e}) # {} /\ Hits(ss[l], {e}) # {}
      BY <1>2
    <3>2. PICK i, j : i \in Hits(ss[k], {e}) /\ j \in Hits(ss[l], {e})
      BY <3>1
    <3>3. InSlot(img, b, k, i, e) /\ InSlot(img, b, l, j, e)
      BY <1>4, <3>1, <3>2
    <3>4. QED
      BY <1>1, <3>3, OnePlace DEF SamePlace
  <2>2. QED
    BY <2>1
<1>8. K # {} <=> Holds(img, b, e)
  <2>1. K # {} <=> \E k \in 1..TableSize : \E j : j \in Hits(ss[k], {e})
    BY <1>2
  <2>2. K # {} <=> \E k \in 1..TableSize : \E j : InSlot(img, b, k, j, e)
    BY <1>4, <2>1
  <2>3. (\E k \in 1..TableSize : \E j : InSlot(img, b, k, j, e)) <=> \E k, j : InSlot(img, b, k, j, e)
    BY DEF InSlot
  <2>4. Holds(img, b, e) <=> \E k, j : InSlot(img, b, k, j, e)
    BY HeldFound DEF Found
  <2>5. QED
    BY <2>2, <2>3, <2>4
<1> HIDE DEF K
<1>9. Cardinality(K) = IF K = {} THEN 0 ELSE 1
  BY <1>7, Lone
<1>10. QED
  BY <1>2, <1>6, <1>8, <1>9 DEF MetOnce

\* It lies in one drawer.
LEMMA OneDrawer ==
    ASSUME NEW img, NEW root, Regular(img, root), NEW b, NEW c, IsDrawer(img, b), IsDrawer(img, c),
           NEW e, Holds(img, b, e), Holds(img, c, e)
    PROVE  b = c /\ IsEntry(img, e)
<1>1. IsImage(img) /\ WellLinked(img)
  BY DEF Regular
<1>2. \E k, j : InSlot(img, b, k, j, e)
  BY HeldFound DEF Found
<1>3. \E k, j : InSlot(img, c, k, j, e)
  BY HeldFound DEF Found
<1>4. PICK k, j, l, i : InSlot(img, b, k, j, e) /\ InSlot(img, c, l, i, e)
  BY <1>2, <1>3
<1>5. SamePlace(b, k, j, c, l, i) /\ PlacedBy(img, b, k, j, e)
  BY <1>1, <1>4, OnePlace, PlaceOf
<1>6. QED
  BY <1>5 DEF SamePlace, PlacedBy

-----------------------------------------------------------------------------
(***************************************************************************)
(* Every file of a sound image comes out once: how often a path occurs.    *)
(***************************************************************************)
OfPath(p) == {r \in FileRecord : r.path = p}

\* A file lies at p below b, at most d names away.
Goes(img, b, d, p) ==
    p # <<>> /\ Len(p) <= d /\ IsPath(img, b, p) /\ img[Last(p)].sec = "file"

\* The same, entry e being the first name and q the rest.
Below(img, e, d, q) ==
    \/ img[e].sec = "dir" /\ Goes(img, e, d, q)
    \/ img[e].sec = "file" /\ q = <<>>

OneStep(img, b, d, p) == Goes(img, b, d + 1, p) <=> Holds(img, b, p[1]) /\ Below(img, p[1], d, Tail(p))

LEMMA GoesFrom ==
    ASSUME NEW img, NEW b, NEW d \in Nat, NEW p \in Seq(Nat), p # <<>>
    PROVE  OneStep(img, b, d, p)
<1>1. PICK q \in Seq(Nat), e \in Nat, n \in Nat :
          q = Tail(p) /\ IsTail(p, q) /\ e = p[1] /\ n = Len(p) /\ n >= 1
  <2>1. IsTail(p, Tail(p)) /\ p[1] \in Nat
    BY TailIs
  <2>2. Tail(p) \in Seq(Nat)
    BY <2>1 DEF IsTail
  <2>3. PICK n \in Nat : n = Len(p) /\ n # 0
    BY EmptySeq, LenProperties
  <2>4. n >= 1
    BY <2>3
  <2>5. PICK q \in Seq(Nat), e \in Nat : q = Tail(p) /\ e = p[1]
    BY <2>1, <2>2
  <2>6. QED
    BY <2>1, <2>3, <2>4, <2>5
<1>2. PICK m \in Nat : m = n - 1
  BY <1>1
<1>3. q \in Seq(Nat) /\ Len(q) = m /\ (q = <<>> <=> m = 0) /\ \A k \in 1..m : q[k] = p[k + 1]
  <2>1. q \in Seq(Nat) /\ Len(q) = m /\ \A k \in 1..m : q[k] = p[k + 1]
    BY <1>1, <1>2 DEF IsTail
  <2>2. QED
    BY <2>1, EmptySeq
<1>4. CASE m = 0
  <2>1. q = <<>> /\ n = 1 /\ Len(p) <= d + 1
    BY <1>1, <1>2, <1>3, <1>4
  <2>2. Last(p) = e
    BY <1>1, <2>1 DEF Last
  <2>3. IsPath(img, b, p) <=> Holds(img, b, e)
    <3>1. 1..(Len(p) - 1) = {}
      BY <1>1, <2>1
    <3>2. QED
      BY <1>1, <3>1 DEF IsPath
  <2>4. Goes(img, b, d + 1, p) <=> Holds(img, b, e) /\ img[e].sec = "file"
    BY <2>1, <2>2, <2>3 DEF Goes
  <2>5. Below(img, e, d, q) <=> img[e].sec = "file"
    BY <2>1 DEF Below, Goes
  <2>6. QED
    BY <1>1, <2>4, <2>5 DEF OneStep
<1>5. CASE m # 0
  <2>1. q # <<>> /\ n - 1 = m /\ m \in 1..m /\ m + 1 = n
    BY <1>1, <1>2, <1>3, <1>5
  <2>2. Last(p) = Last(q)
    BY <1>1, <1>3, <2>1 DEF Last
  <2>3. Len(p) <= d + 1 <=> Len(q) <= d
    BY <1>1, <1>2, <1>3
  <2>4. IsPath(img, b, p) <=> Holds(img, b, e) /\ img[e].sec = "dir" /\ IsPath(img, e, q)
    <3>1. IsPath(img, b, p) <=> Holds(img, b, e)
              /\ \A k \in 1..m : img[p[k]].sec = "dir" /\ Holds(img, p[k], p[k + 1])
      BY <1>1, <2>1 DEF IsPath
    <3>2. IsPath(img, e, q) <=> Holds(img, e, q[1])
              /\ \A k \in 1..(m - 1) : img[q[k]].sec = "dir" /\ Holds(img, q[k], q[k + 1])
      BY <1>3, <2>1 DEF IsPath
    <3>3. q[1] = p[1 + 1] /\ 1 \in 1..m
      BY <1>3, <1>5
    <3>4. \A k \in 1..(m - 1) : q[k] = p[k + 1] /\ q[k + 1] = p[(k + 1) + 1] /\ k + 1 \in 1..m
      <4>1. ASSUME NEW k \in 1..(m - 1)
            PROVE  q[k] = p[k + 1] /\ q[k + 1] = p[(k + 1) + 1] /\ k + 1 \in 1..m
        <5>1. k \in 1..m /\ k + 1 \in 1..m
          OBVIOUS
        <5>2. PICK i \in 1..m : i = k + 1
          BY <5>1
        <5>3. q[i] = p[i + 1] /\ q[k] = p[k + 1]
          BY <1>3, <5>1
        <5>4. QED
          BY <5>1, <5>2, <5>3
      <4>2. QED
        BY <4>1
    <3>5. ASSUME IsPath(img, b, p)
          PROVE  Holds(img, b, e) /\ img[e].sec = "dir" /\ IsPath(img, e, q)
      <4>1. \A k \in 1..m : img[p[k]].sec = "dir" /\ Holds(img, p[k], p[k + 1])
        BY <3>1, <3>5
      <4>2. img[e].sec = "dir" /\ Holds(img, e, q[1])
        BY <1>1, <3>3, <4>1
      <4>3. \A k \in 1..(m - 1) : img[q[k]].sec = "dir" /\ Holds(img, q[k], q[k + 1])
        BY <3>4, <4>1
      <4>4. QED
        BY <3>1, <3>2, <3>5, <4>2, <4>3
    <3>6. ASSUME Holds(img, b, e), img[e].sec = "dir", IsPath(img, e, q)
          PROVE  IsPath(img, b, p)
      <4>1. ASSUME NEW k \in 1..m PROVE img[p[k]].sec = "dir" /\ Holds(img, p[k], p[k + 1])
        <5>1. CASE k = 1
          BY <1>1, <3>2, <3>3, <3>6, <5>1
        <5>2. CASE k # 1
          <6>1. PICK i \in 1..(m - 1) : i + 1 = k
            <7>1. k - 1 \in 1..(m - 1) /\ (k - 1) + 1 = k
              BY <5>2
            <7>2. QED
              BY <7>1
          <6>2. img[q[i]].sec = "dir" /\ Holds(img, q[i], q[i + 1])
            BY <3>2, <3>6
          <6>3. q[i] = p[i + 1] /\ q[i + 1] = p[(i + 1) + 1]
            BY <3>4
          <6>4. QED
            BY <6>1, <6>2, <6>3
        <5>3. QED
          BY <5>1, <5>2
      <4>2. QED
        BY <3>1, <3>6, <4>1
    <3>7. QED
      BY <3>5, <3>6
  <2>5. Below(img, e, d, q) <=> img[e].sec = "dir" /\ Goes(img, e, d, q)
    BY <2>1 DEF Below
  <2>6. Goes(img, e, d, q) <=> Len(q) <= d /\ IsPath(img, e, q) /\ img[Last(q)].sec = "file"
    BY <2>1 DEF Goes
  <2>7. Goes(img, b, d + 1, p) <=> Len(p) <= d + 1 /\ IsPath(img, b, p) /\ img[Last(p)].sec = "file"
    BY DEF Goes
  <2>8. QED
    BY <1>1, <2>2, <2>3, <2>4, <2>5, <2>6, <2>7 DEF OneStep
<1>6. QED
  BY <1>4, <1>5

CountedIn(img, inside, d, c, q) ==
    Cardinality(Hits(inside[c], OfPath(q))) = IF Goes(img, c, d, q) THEN 1 ELSE 0

PartHas(img, e, d, s, p) ==
    Cardinality(Hits(s, OfPath(p))) = IF p # <<>> /\ e = p[1] /\ Below(img, e, d, Tail(p)) THEN 1 ELSE 0

LEMMA PartCounted ==
    ASSUME NEW img, IsImage(img), NEW inside \in [DOMAIN img -> Seq(FileRecord)], NEW d \in Nat,
           \A c, q : IsDrawer(img, c) /\ q \in Seq(Nat) => CountedIn(img, inside, d, c, q),
           NEW e \in Headers(img), NEW s, Brings(img, e, inside, s), NEW p \in Seq(Nat)
    PROVE  PartHas(img, e, d, s, p)
<1>1. e \in DOMAIN img /\ e \in Nat /\ "dir" # "file"
  BY DEF Headers, IsImage
<1>2. CASE img[e].sec = "dir"
  <2>1. PICK files \in Seq(FileRecord) : files = inside[e] /\ IsPlaced(s, e, files)
    BY <1>1, <1>2 DEF Brings
  <2>2. /\ s \in Seq(FileRecord) /\ DOMAIN s = DOMAIN files
        /\ \A k \in DOMAIN files : s[k].path = <<e>> \o files[k].path
    BY <2>1 DEF IsPlaced
  <2>3. \A k \in DOMAIN files : files[k] \in FileRecord /\ s[k] \in FileRecord
    BY <2>2, LenProperties, ElementOfSeq
  <2>4. \A k \in DOMAIN files : files[k].path \in Seq(Nat)
    BY <2>3 DEF FileRecord
  <2>5. CASE p = <<>>
    <3>1. ASSUME NEW k \in DOMAIN files PROVE s[k].path # p
      <4>1. PICK t \in Seq(Nat) : t = files[k].path
        BY <2>4
      <4>2. InFront(e, t, <<e>> \o t)
        BY <1>1, PutInFront
      <4>3. QED
        BY <2>2, <2>5, <4>1, <4>2 DEF InFront
    <3>2. Hits(s, OfPath(p)) = {}
      BY <2>2, <3>1 DEF Hits, OfPath
    <3>3. QED
      BY <2>5, <3>2, FS_EmptySet DEF PartHas
  <2>6. CASE p # <<>>
    <3>1. PICK q \in Seq(Nat) : q = Tail(p)
      BY <2>6, TailIs DEF IsTail
    <3>2. ASSUME NEW k \in DOMAIN files PROVE s[k].path = p <=> e = p[1] /\ files[k].path = q
      <4>1. PICK t \in Seq(Nat) : t = files[k].path
        BY <2>4
      <4>2. Cut1(p, e, t)
        BY <1>1, <2>6, FrontOnly
      <4>3. QED
        BY <2>2, <3>1, <4>1, <4>2 DEF Cut1
    <3>3. CASE e = p[1]
      <4>1. Hits(s, OfPath(p)) = Hits(files, OfPath(q))
        <5>1. \A k \in DOMAIN files : s[k] \in OfPath(p) <=> files[k] \in OfPath(q)
          BY <2>3, <3>2, <3>3 DEF OfPath
        <5>2. QED
          BY <2>2, <5>1 DEF Hits
      <4>2. CountedIn(img, inside, d, e, q)
        BY <1>2, <3>1 DEF IsDrawer
      <4>3. Below(img, e, d, q) <=> Goes(img, e, d, q)
        BY <1>1, <1>2 DEF Below
      <4>4. QED
        BY <2>1, <2>6, <3>1, <3>3, <4>1, <4>2, <4>3 DEF CountedIn, PartHas
    <3>4. CASE e # p[1]
      <4>1. Hits(s, OfPath(p)) = {}
        BY <2>2, <3>2, <3>4 DEF Hits, OfPath
      <4>2. QED
        BY <3>4, <4>1, FS_EmptySet DEF PartHas
    <3>5. QED
      BY <3>3, <3>4
  <2>7. QED
    BY <2>5, <2>6
<1>3. CASE img[e].sec = "file"
  <2>1. PICK r \in FileRecord : r.path = <<e>> /\ s = <<r>>
    <3>1. s = <<[path |-> <<e>>, out |-> ExtractFile(img, e)]>>
      BY <1>3 DEF Brings
    <3>2. QED
      BY <1>1, <3>1, FileRecorded
  <2>2. Cardinality(Hits(s, OfPath(p))) = IF r \in OfPath(p) THEN 1 ELSE 0
    BY <2>1, HitsOne
  <2>3. r \in OfPath(p) <=> <<e>> = p
    BY <2>1 DEF OfPath
  <2>4. <<e>> = p <=> p # <<>> /\ e = p[1] /\ Tail(p) = <<>>
    <3>1. PICK u \in Seq(Nat) : u = <<e>> /\ Len(u) = 1 /\ u[1] = e /\ u # <<>>
      <4>1. <<e>> \in Seq(Nat) /\ Len(<<e>>) = 1 /\ <<e>>[1] = e
        BY <1>1, One
      <4>2. <<e>> # <<>>
        BY <4>1, EmptySeq
      <4>3. QED
        BY <4>1, <4>2
    <3>2. ASSUME u = p PROVE p # <<>> /\ e = p[1] /\ Tail(p) = <<>>
      <4>1. p # <<>> /\ Len(p) = 1
        BY <3>1, <3>2
      <4>2. IsTail(p, Tail(p))
        BY <4>1, TailIs
      <4>3. Tail(p) \in Seq(Nat) /\ Len(Tail(p)) = 0
        BY <4>1, <4>2 DEF IsTail
      <4>4. Tail(p) = <<>>
        BY <4>3, EmptySeq
      <4>5. QED
        BY <3>1, <3>2, <4>1, <4>4
    <3>3. ASSUME p # <<>>, e = p[1], Tail(p) = <<>> PROVE u = p
      <4>1. IsTail(p, Tail(p))
        BY <3>3, TailIs
      <4>2. PICK n \in Nat : n = Len(p)
        BY LenProperties
      <4>3. n - 1 = 0
        BY <3>3, <4>1, <4>2, EmptySeq DEF IsTail
      <4>4. n = 1
        BY <4>3
      <4>5. \A k \in 1..1 : u[k] = p[k]
        BY <3>1, <3>3
      <4>6. QED
        BY <3>1, <4>2, <4>4, <4>5, SeqEqual
    <3>4. QED
      BY <3>1, <3>2, <3>3
  <2>5. Below(img, e, d, Tail(p)) <=> Tail(p) = <<>>
    BY <1>1, <1>3 DEF Below
  <2>6. QED
    BY <2>2, <2>3, <2>4, <2>5 DEF PartHas
<1>4. CASE img[e].sec \notin {"dir", "file"}
  <2>1. s = <<>>
    BY <1>4 DEF Brings
  <2>2. Cardinality(Hits(s, OfPath(p))) = 0
    BY <2>1, HitsNone
  <2>3. ~Below(img, e, d, Tail(p))
    BY <1>4 DEF Below
  <2>4. QED
    BY <2>2, <2>3 DEF PartHas
<1>5. QED
  BY <1>2, <1>3, <1>4

LEMMA StepCounted ==
    ASSUME NEW img, NEW root, Regular(img, root), NEW inside \in [DOMAIN img -> Seq(FileRecord)],
           NEW d \in Nat,
           \A c, q : IsDrawer(img, c) /\ q \in Seq(Nat) => CountedIn(img, inside, d, c, q),
           NEW b, IsDrawer(img, b), NEW p \in Seq(Nat)
    PROVE  CountedIn(img, Deeper(img, inside), d + 1, b, p)
<1>1. IsImage(img) /\ b \in DOMAIN img
  BY DEF Regular, IsDrawer, Headers
<1>2. PICK ss \in Seq(Seq(FileRecord)), es \in Seq(Headers(img)) :
          /\ ss = PartsOf(img, b, inside) /\ es = EntriesOf(img, b) /\ DOMAIN ss = DOMAIN es
          /\ \A n \in DOMAIN es : es[n] \in Headers(img) /\ Brings(img, es[n], inside, ss[n])
  <2>1. EntriesOf(img, b) \in Seq(Headers(img))
    BY <1>1, EntriesTyped
  <2>2. QED
    BY <1>1, <2>1, PartsTyped
<1>3. Deeper(img, inside)[b] = FlattenSeq(ss)
  BY <1>1, <1>2 DEF Deeper
<1> DEFINE K == OfPath(p)
    F == {n \in DOMAIN ss : Hits(ss[n], K) # {}}
<1>4. \A n \in DOMAIN es : PartHas(img, es[n], d, ss[n], p)
  BY <1>1, <1>2, PartCounted
<1>5. ASSUME NEW n \in DOMAIN es
      PROVE  /\ Cardinality(Hits(ss[n], K)) <= 1
             /\ Hits(ss[n], K) # {} <=> p # <<>> /\ es[n] = p[1] /\ Below(img, es[n], d, Tail(p))
  <2>1. ss[n] \in Seq(FileRecord)
    BY <1>2, LenProperties, ElementOfSeq
  <2>2. Cardinality(Hits(ss[n], K)) \in Nat /\ (Cardinality(Hits(ss[n], K)) = 0 <=> Hits(ss[n], K) = {})
    BY <2>1, HitsFinite
  <2>3. Cardinality(Hits(ss[n], K)) =
            IF p # <<>> /\ es[n] = p[1] /\ Below(img, es[n], d, Tail(p)) THEN 1 ELSE 0
    BY <1>4 DEF PartHas
  <2>4. QED
    BY <2>2, <2>3
<1>6. Cardinality(Hits(FlattenSeq(ss), K)) = Cardinality(F)
  <2>1. \A n \in DOMAIN ss : Cardinality(Hits(ss[n], K)) <= 1
    BY <1>2, <1>5
  <2> HIDE DEF K
  <2>2. QED
    BY <2>1, HitsFlattened
<1>7. CASE p # <<>> /\ Below(img, p[1], d, Tail(p))
  <2>1. F = Hits(es, {p[1]})
    BY <1>2, <1>5, <1>7 DEF Hits
  <2>2. MetOnce(img, b, p[1])
    BY EntryMetOnce
  <2>3. OneStep(img, b, d, p)
    BY <1>7, GoesFrom
  <2>4. Goes(img, b, d + 1, p) <=> Holds(img, b, p[1])
    BY <1>7, <2>3 DEF OneStep
  <2>5. Cardinality(F) = IF Holds(img, b, p[1]) THEN 1 ELSE 0
    BY <1>2, <2>1, <2>2 DEF MetOnce
  <2>6. QED
    BY <1>3, <1>6, <2>4, <2>5 DEF CountedIn
<1>8. CASE ~(p # <<>> /\ Below(img, p[1], d, Tail(p)))
  <2>1. F = {}
    BY <1>2, <1>5, <1>8
  <2>2. ~Goes(img, b, d + 1, p)
    <3>1. CASE p = <<>>
      BY <3>1 DEF Goes
    <3>2. CASE p # <<>>
      BY <1>8, <3>2, GoesFrom DEF OneStep
    <3>3. QED
      BY <3>1, <3>2
  <2>3. QED
    BY <1>3, <1>6, <2>1, <2>2, FS_EmptySet DEF CountedIn
<1>9. QED
  BY <1>7, <1>8

LEMMA AllCounted ==
    ASSUME NEW img, NEW root, Regular(img, root), NEW n \in Nat, NEW x, Levels(x, img, n),
           NEW d \in 0..n, NEW b, IsDrawer(img, b), NEW p \in Seq(Nat)
    PROVE  CountedIn(img, x[d], d, b, p)
<1> DEFINE All(m) == \A c, q : IsDrawer(img, c) /\ q \in Seq(Nat) => CountedIn(img, x[m], m, c, q)
    T == {m \in Nat : m <= n => All(m)}
<1>1. 0 \in T
  <2> SUFFICES ASSUME NEW c, NEW q, IsDrawer(img, c), q \in Seq(Nat) PROVE CountedIn(img, x[0], 0, c, q)
    OBVIOUS
  <2>1. x[0][c] = <<>>
    BY DEF Levels, IsDrawer, Headers
  <2>2. Cardinality(Hits(x[0][c], OfPath(q))) = 0
    BY <2>1, HitsNone
  <2>3. ~Goes(img, c, 0, q)
    <3>1. q # <<>> => Len(q) \in Nat /\ Len(q) # 0
      BY EmptySeq, LenProperties
    <3>2. q # <<>> => ~(Len(q) <= 0)
      BY <3>1
    <3>3. QED
      BY <3>2 DEF Goes
  <2>4. QED
    BY <2>2, <2>3 DEF CountedIn
<1>2. ASSUME NEW m \in Nat, m \in T PROVE m + 1 \in T
  <2> SUFFICES ASSUME m + 1 <= n PROVE All(m + 1)
    OBVIOUS
  <2>1. m \in 0..n /\ m + 1 \in 1..n /\ (m + 1) - 1 = m
    OBVIOUS
  <2>2. PICK inside \in [DOMAIN img -> Seq(FileRecord)] : inside = x[m] /\ x[m + 1] = Deeper(img, inside)
    BY <2>1 DEF Levels
  <2>3. \A c, q : IsDrawer(img, c) /\ q \in Seq(Nat) => CountedIn(img, inside, m, c, q)
    BY <1>2, <2>1, <2>2
  <2>4. ASSUME NEW c, NEW q, IsDrawer(img, c), q \in Seq(Nat)
        PROVE  CountedIn(img, Deeper(img, inside), m + 1, c, q)
    BY <2>3, <2>4, StepCounted
  <2>5. QED
    BY <2>2, <2>4
<1> HIDE DEF T
<1>3. d \in T
  BY <1>1, <1>2, Induct
<1>4. All(d)
  BY <1>3 DEF T
<1>5. QED
  BY <1>4

\* The drawer a name of a path lies in.
Holder(root, p, k) == IF k = 1 THEN root ELSE p[k - 1]
HeldAt(img, root, p, k) ==
    /\ IsDrawer(img, Holder(root, p, k)) /\ Holds(img, Holder(root, p, k), p[k])
    /\ IsEntry(img, p[k])

LEMMA PathHeld ==
    ASSUME NEW img, NEW root, Regular(img, root), NEW p \in Seq(Nat), IsPath(img, root, p),
           NEW k \in 1..Len(p)
    PROVE  HeldAt(img, root, p, k)
<1>1. PICK n \in Nat : n = Len(p)
  BY LenProperties
<1> DEFINE T == {m \in Nat : m + 1 <= n => HeldAt(img, root, p, m + 1)}
<1>2. IsDrawer(img, root)
  BY DEF Regular, IsDrawer
<1>3. \A c, e : IsDrawer(img, c) /\ Holds(img, c, e) => IsEntry(img, e)
  BY OneDrawer
<1>4. Holds(img, root, p[1]) /\ \A j \in 1..(n - 1) : img[p[j]].sec = "dir" /\ Holds(img, p[j], p[j + 1])
  BY <1>1 DEF IsPath
<1>5. 0 \in T
  <2>1. Holder(root, p, 1) = root /\ IsEntry(img, p[1])
    BY <1>2, <1>3, <1>4 DEF Holder
  <2>2. HeldAt(img, root, p, 1)
    BY <1>2, <1>4, <2>1 DEF HeldAt
  <2>3. QED
    BY <2>2
<1>6. ASSUME NEW m \in Nat, m \in T PROVE m + 1 \in T
  <2> SUFFICES ASSUME (m + 1) + 1 <= n PROVE HeldAt(img, root, p, (m + 1) + 1)
    OBVIOUS
  <2>1. PICK j \in 1..(n - 1) : j = m + 1 /\ j + 1 # 1 /\ (j + 1) - 1 = j /\ m + 1 <= n
    <3>1. m + 1 \in 1..(n - 1) /\ (m + 1) + 1 # 1 /\ ((m + 1) + 1) - 1 = m + 1 /\ m + 1 <= n
      OBVIOUS
    <3>2. QED
      BY <3>1
  <2>2. IsEntry(img, p[j])
    BY <1>6, <2>1 DEF HeldAt
  <2>3. img[p[j]].sec = "dir" /\ Holds(img, p[j], p[j + 1])
    BY <1>4
  <2>4. IsDrawer(img, p[j])
    BY <2>2, <2>3 DEF IsDrawer, IsEntry
  <2>5. Holder(root, p, j + 1) = p[j]
    BY <2>1 DEF Holder
  <2>6. HeldAt(img, root, p, j + 1)
    BY <1>3, <2>3, <2>4, <2>5 DEF HeldAt
  <2>7. QED
    BY <2>1, <2>6
<1> HIDE DEF T
<1>7. Nat \subseteq T
  BY <1>5, <1>6, Induct
<1>8. k \in 1..n
  BY <1>1
<1>9. PICK m \in Nat : m + 1 = k /\ m + 1 <= n
  <2>1. k - 1 \in Nat /\ (k - 1) + 1 = k /\ k <= n
    BY <1>8
  <2>2. QED
    BY <2>1
<1>10. m \in T
  BY <1>7
<1>11. QED
  BY <1>9, <1>10 DEF T

FromBehind(p, q, i) == i < Len(p) /\ i < Len(q) => p[Len(p) - i] = q[Len(q) - i]

LEMMA SameFromBehind ==
    ASSUME NEW img, NEW root, Regular(img, root), NEW p \in Seq(Nat), NEW q \in Seq(Nat),
           IsPath(img, root, p), IsPath(img, root, q), Last(p) = Last(q), NEW i \in Nat
    PROVE  FromBehind(p, q, i)
<1>1. PICK a \in Nat, c \in Nat : a = Len(p) /\ c = Len(q)
  BY LenProperties
<1> DEFINE T == {m \in Nat : m < a /\ m < c => p[a - m] = q[c - m]}
<1>2. 0 \in T
  <2>1. p[a] = q[c]
    BY <1>1 DEF Last
  <2>2. a - 0 = a /\ c - 0 = c
    OBVIOUS
  <2>3. QED
    BY <2>1, <2>2
<1>3. ASSUME NEW m \in Nat, m \in T PROVE m + 1 \in T
  <2> SUFFICES ASSUME m + 1 < a, m + 1 < c PROVE p[a - (m + 1)] = q[c - (m + 1)]
    OBVIOUS
  <2>1. PICK k \in 1..a, l \in 1..c :
            /\ k = a - m /\ l = c - m /\ k # 1 /\ l # 1
            /\ k - 1 = a - (m + 1) /\ l - 1 = c - (m + 1) /\ m < a /\ m < c
    <3>1. /\ a - m \in 1..a /\ c - m \in 1..c /\ a - m # 1 /\ c - m # 1
          /\ (a - m) - 1 = a - (m + 1) /\ (c - m) - 1 = c - (m + 1) /\ m < a /\ m < c
      OBVIOUS
    <3>2. QED
      BY <3>1
  <2>2. p[k] = q[l]
    BY <1>3, <2>1
  <2>3. HeldAt(img, root, p, k) /\ HeldAt(img, root, q, l)
    BY <1>1, PathHeld
  <2>4. Holder(root, p, k) = p[k - 1] /\ Holder(root, q, l) = q[l - 1]
    BY <2>1 DEF Holder
  <2>5. p[k - 1] = q[l - 1]
    BY <2>2, <2>3, <2>4, OneDrawer DEF HeldAt
  <2>6. QED
    BY <2>1, <2>5
<1> HIDE DEF T
<1>4. i \in T
  BY <1>2, <1>3, Induct
<1>5. QED
  BY <1>1, <1>4 DEF T, FromBehind

LEMMA NotShorter ==
    ASSUME NEW img, NEW root, Regular(img, root), NEW p \in Seq(Nat), NEW q \in Seq(Nat),
           IsPath(img, root, p), IsPath(img, root, q), Last(p) = Last(q)
    PROVE  ~(Len(p) < Len(q))
<1> SUFFICES ASSUME Len(p) < Len(q) PROVE FALSE
  OBVIOUS
<1>1. PICK a \in Nat, c \in Nat : a = Len(p) /\ c = Len(q) /\ a >= 1 /\ a < c
  <2>1. p # <<>>
    BY DEF IsPath
  <2>2. Len(p) \in Nat /\ Len(q) \in Nat /\ Len(p) # 0
    BY <2>1, EmptySeq, LenProperties
  <2>3. QED
    BY <2>2
<1>2. PICK i \in Nat, l \in 1..c : i = a - 1 /\ a - i = 1 /\ l = c - i /\ l # 1 /\ l - 1 \in 1..c /\ i < a /\ i < c
  <2>1. /\ a - 1 \in Nat /\ a - (a - 1) = 1 /\ c - (a - 1) \in 1..c /\ c - (a - 1) # 1
        /\ (c - (a - 1)) - 1 \in 1..c /\ a - 1 < a /\ a - 1 < c
    BY <1>1
  <2>2. QED
    BY <2>1
<1>3. FromBehind(p, q, i)
  BY SameFromBehind
<1>4. p[1] = q[l]
  BY <1>1, <1>2, <1>3 DEF FromBehind
<1>5. 1 \in 1..a
  BY <1>1
<1>6. HeldAt(img, root, p, 1) /\ HeldAt(img, root, q, l) /\ HeldAt(img, root, q, l - 1)
  BY <1>1, <1>2, <1>5, PathHeld
<1>7. Holder(root, p, 1) = root /\ Holder(root, q, l) = q[l - 1]
  BY <1>2 DEF Holder
<1>8. root = q[l - 1]
  BY <1>4, <1>6, <1>7, OneDrawer DEF HeldAt
<1>9. QED
  BY <1>6, <1>8 DEF HeldAt, IsEntry, Regular

Alikes(p, q) == p = q

LEMMA OnePath ==
    ASSUME NEW img, NEW root, Regular(img, root), NEW p \in Seq(Nat), NEW q \in Seq(Nat),
           IsPath(img, root, p), IsPath(img, root, q), Last(p) = Last(q)
    PROVE  Alikes(p, q)
<1>1. ~(Len(p) < Len(q))
  BY NotShorter
<1>2. ~(Len(q) < Len(p))
  BY NotShorter
<1>3. PICK a \in Nat : a = Len(p) /\ a = Len(q)
  <2>1. Len(p) \in Nat /\ Len(q) \in Nat
    BY LenProperties
  <2>2. QED
    BY <1>1, <1>2, <2>1
<1>4. ASSUME NEW k \in 1..a PROVE p[k] = q[k]
  <2>1. PICK i \in Nat : a - i = k /\ i < a
    <3>1. a - k \in Nat /\ a - (a - k) = k /\ a - k < a
      BY <1>3
    <3>2. QED
      BY <3>1
  <2>2. FromBehind(p, q, i)
    BY SameFromBehind
  <2>3. QED
    BY <1>3, <2>1, <2>2 DEF FromBehind
<1>5. QED
  BY <1>3, <1>4, SeqEqual DEF Alikes

\* A file some path of at most n names leads to.
Reached(img, root, f) ==
    \E n \in 1..(MaxDepth + 1) : \E p \in [1..n -> Headers(img)] : p[n] = f /\ IsPath(img, root, p)
PlacesOf(files, f) == {k \in DOMAIN files : Last(files[k].path) = f}

\* extract_dir: a file comes out once if it can be reached, and otherwise not.
OutOnce(img, root, files, f) ==
    Cardinality(PlacesOf(files, f)) = IF Reached(img, root, f) THEN 1 ELSE 0

LEMMA FileOutOnce ==
    ASSUME NEW img, NEW root, Regular(img, root), NEW files \in Seq(FileRecord),
           \A p \in Seq(Nat) : Cardinality(Hits(files, OfPath(p))) =
                                   IF Goes(img, root, MaxDepth + 1, p) THEN 1 ELSE 0,
           \A k \in DOMAIN files : Goes(img, root, MaxDepth + 1, files[k].path),
           NEW f \in Headers(img), img[f].sec = "file"
    PROVE  OutOnce(img, root, files, f)
<1>1. \A k \in DOMAIN files : files[k] \in FileRecord /\ files[k].path \in Seq(Nat)
  <2>1. \A k \in DOMAIN files : files[k] \in FileRecord
    BY LenProperties, ElementOfSeq
  <2>2. QED
    BY <2>1 DEF FileRecord
<1>2. Headers(img) \subseteq Nat
  BY DEF Regular, IsImage, Headers
<1>3. CASE Reached(img, root, f)
  <2>1. PICK n \in 1..(MaxDepth + 1) : \E p \in [1..n -> Headers(img)] : p[n] = f /\ IsPath(img, root, p)
    BY <1>3 DEF Reached
  <2>2. PICK g \in [1..n -> Headers(img)] : g[n] = f /\ IsPath(img, root, g)
    BY <2>1
  <2>3. n \in Nat /\ n <= MaxDepth + 1
    BY Bounds
  <2>4. g \in [1..n -> Nat]
    BY <1>2
  <2>5. PICK p \in Seq(Nat) : p = g /\ Len(p) = n
    BY <2>3, <2>4, Mapped
  <2>6. Last(p) = f /\ IsPath(img, root, p) /\ Len(p) <= MaxDepth + 1 /\ p # <<>>
    BY <2>2, <2>3, <2>5 DEF Last, IsPath
  <2>7. Goes(img, root, MaxDepth + 1, p)
    BY <2>6 DEF Goes
  <2>8. PlacesOf(files, f) = Hits(files, OfPath(p))
    <3>1. ASSUME NEW k \in DOMAIN files PROVE Last(files[k].path) = f <=> files[k].path = p
      <4>1. PICK q \in Seq(Nat) : q = files[k].path /\ IsPath(img, root, q)
        BY <1>1 DEF Goes
      <4>2. ASSUME Last(q) = f PROVE q = p
        <5>1. Last(q) = Last(p)
          BY <2>6, <4>2
        <5>2. Alikes(q, p)
          BY <2>6, <4>1, <5>1, OnePath
        <5>3. QED
          BY <5>2 DEF Alikes
      <4>3. QED
        BY <2>6, <4>1, <4>2
    <3>2. QED
      BY <1>1, <3>1 DEF PlacesOf, Hits, OfPath
  <2>9. Cardinality(Hits(files, OfPath(p))) = 1
    BY <2>7
  <2>10. QED
    BY <1>3, <2>8, <2>9 DEF OutOnce
<1>4. CASE ~Reached(img, root, f)
  <2>1. ASSUME NEW k \in PlacesOf(files, f) PROVE FALSE
    <3>1. PICK p \in Seq(Nat) : p = files[k].path /\ Last(p) = f /\ Goes(img, root, MaxDepth + 1, p)
      BY <1>1 DEF PlacesOf
    <3>2. IsPath(img, root, p) /\ p # <<>> /\ Len(p) <= MaxDepth + 1
      BY <3>1 DEF Goes
    <3>3. PICK n \in Nat : n = Len(p)
      BY LenProperties
    <3>4. n \in 1..(MaxDepth + 1)
      BY <3>2, <3>3, EmptySeq, Bounds
    <3>5. \A j \in 1..n : p[j] \in Headers(img)
      BY <3>2, <3>3, PathHeld DEF HeldAt, IsEntry
    <3>6. p \in [1..n -> Headers(img)]
      <4>1. p = [j \in 1..n |-> p[j]]
        BY <3>3, SeqDef
      <4>2. QED
        BY <3>5, <4>1
    <3>7. p[n] = f
      BY <3>1, <3>3 DEF Last
    <3>8. QED
      BY <1>4, <3>2, <3>4, <3>6, <3>7 DEF Reached
  <2>2. PlacesOf(files, f) = {}
    BY <2>1
  <2>3. QED
    BY <1>4, <2>2, FS_EmptySet DEF OutOnce
<1>5. QED
  BY <1>3, <1>4

\* extract_dir, entry chains and all: of any image only files of drawers at most
\* MAX_DEPTH deep come out, none longer than its header says; of a sound one
\* that is not larger than a chain may be long, every file in reach comes out
\* once, at its place.
THEOREM EveryImageExtracted ==
    \A img : IsImage(img) /\ Cardinality(Headers(img)) <= MaxChain + 1
        => \A root \in Headers(img) : img[root].sec = "root" => ImageExtracted(img, root)
<1> SUFFICES ASSUME NEW img, IsImage(img), Cardinality(Headers(img)) <= MaxChain + 1,
                    NEW root \in Headers(img), img[root].sec = "root"
             PROVE  ImageExtracted(img, root)
  OBVIOUS
<1>1. PICK M \in Nat : M = MaxDepth + 1
  BY Bounds
<1>2. root \in DOMAIN img /\ IsDrawer(img, root)
  BY DEF Headers, IsDrawer
<1>3. PICK x : Levels(x, img, M) /\ Inside(img, M) = x[M]
  BY Descending
<1>4. M \in 0..M
  OBVIOUS
<1>5. PICK files \in Seq(FileRecord) : files = x[M][root] /\ files = Extract(img, root)
  <2>1. x[M][root] \in Seq(FileRecord)
    BY <1>2, <1>3, <1>4 DEF Levels
  <2>2. Extract(img, root) = x[M][root]
    BY <1>1, <1>2, <1>3 DEF Extract, Readable
  <2>3. QED
    BY <2>1, <2>2
<1>6. \A k \in DOMAIN files : Len(files[k].path) <= MaxDepth + 1 /\ BytesOf(files[k].out) <= img[Last(files[k].path)].size
  <2>1. \A k \in DOMAIN files : Bounded(img, M, files[k])
    BY <1>2, <1>3, <1>4, <1>5, AlwaysBounded
  <2>2. QED
    BY <1>1, <2>1 DEF Bounded
<1>7. ASSUME Sound(img)
      PROVE  /\ \A k \in DOMAIN files : IsPath(img, root, files[k].path)
             /\ \A f \in Headers(img) : img[f].sec = "file" => OutOnce(img, root, files, f)
  <2>1. WellLinked(img)
    BY <1>7, SoundLinks
  <2>2. Regular(img, root)
    BY <2>1 DEF Regular
  <2>3. ASSUME NEW p \in Seq(Nat)
        PROVE  Cardinality(Hits(files, OfPath(p))) = IF Goes(img, root, MaxDepth + 1, p) THEN 1 ELSE 0
    <3>1. CountedIn(img, x[M], M, root, p)
      BY <1>2, <1>3, <1>4, <2>2, AllCounted
    <3>2. QED
      BY <1>1, <1>5, <3>1 DEF CountedIn
  <2>4. ASSUME NEW k \in DOMAIN files PROVE Goes(img, root, MaxDepth + 1, files[k].path)
    <3>1. files[k] \in FileRecord
      BY LenProperties, ElementOfSeq
    <3>2. PICK p \in Seq(Nat) : p = files[k].path
      BY <3>1 DEF FileRecord
    <3>3. k \in Hits(files, OfPath(p))
      BY <3>1, <3>2 DEF Hits, OfPath
    <3>4. Cardinality(Hits(files, OfPath(p))) # 0
      BY <3>3, HitsFinite
    <3>5. QED
      BY <2>3, <3>2, <3>4
  <2>5. \A k \in DOMAIN files : IsPath(img, root, files[k].path)
    BY <2>4 DEF Goes
  <2>6. ASSUME NEW f \in Headers(img), img[f].sec = "file" PROVE OutOnce(img, root, files, f)
    BY <2>2, <2>3, <2>4, <2>6, FileOutOnce
  <2>7. QED
    BY <2>5, <2>6
<1>8. QED
  BY <1>5, <1>6, <1>7 DEF ImageExtracted, OutOnce, PlacesOf, Reached

\* The run's property, for images and files of any size.
AnyImageInput ==
    \/ /\ input.topic = "image" /\ IsImage(input.img)
       /\ 2 \in Headers(input.img) /\ input.img[2].sec = "root"
       /\ Cardinality(Headers(input.img)) <= MaxChain + 1
    \/ input.topic = "file" /\ IsImage(input.img) /\ 1 \in DOMAIN input.img

THEOREM FloppiesExtractedAlways == AnyImageInput => FloppiesExtracted
<1>1. "image" # "file"
  OBVIOUS
<1>2. ASSUME AnyImageInput, input.topic = "image" PROVE ImageExtracted(input.img, 2)
  <2>1. /\ IsImage(input.img) /\ 2 \in Headers(input.img) /\ input.img[2].sec = "root"
        /\ Cardinality(Headers(input.img)) <= MaxChain + 1
    BY <1>1, <1>2 DEF AnyImageInput
  <2>2. QED
    BY <2>1, EveryImageExtracted
<1>3. ASSUME AnyImageInput, input.topic = "file" PROVE FileExtracted(input.img, 1)
  <2>1. IsImage(input.img) /\ 1 \in DOMAIN input.img
    BY <1>1, <1>3 DEF AnyImageInput
  <2>2. QED
    BY <2>1, EveryFileExtracted
<1>4. QED
  BY <1>2, <1>3 DEF FloppiesExtracted
=============================================================================
