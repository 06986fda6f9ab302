-------------------------- MODULE BootScriptProofs --------------------------
(***************************************************************************)
(* Theorems about BootScript, for any number of packages, versions, lines, *)
(* commands and edits and every size of the buffer.                        *)
(*                                                                         *)
(* Scripts are read by recursive functions over their lines.  The first    *)
(* part shows what each of them does with one line more; from then on they *)
(* are reasoned about by induction on the script.                          *)
(***************************************************************************)
EXTENDS BootScript, FiniteSetTheorems, SequenceTheorems, TLAPS

(***************************************************************************)
(* A reader of whole blocks: between blocks, in the block of a package, or *)
(* lost over a line that does not belong there.                            *)
(***************************************************************************)
Free  == [at |-> "out",  of |-> "none"]
In(m) == [at |-> "in",   of |-> m]
Bad   == [at |-> "lost", of |-> "none"]
Places == {Free, Bad} \cup {In(m) : m \in Markers}

Reads(q, l) ==
    IF q = Free /\ l \in OwnOnes \cup {Blank} THEN Free
    ELSE IF q = Free /\ l.kind = "begin" THEN In(l.of)
    ELSE IF q = In(l.of) /\ l.kind = "body" THEN q
    ELSE IF q = In(l.of) /\ l.kind = "end" THEN Free
    ELSE Bad

ReadsAll(q, s) ==
    LET upTo[n \in 0..Len(s)] == IF n = 0 THEN q ELSE Reads(upTo[n - 1], s[n])
    IN upTo[Len(s)]

(***************************************************************************)
(* The inductive invariant.                                                *)
(***************************************************************************)
\* A job is about a known package; what is injected or recorded was stripped
\* before, or not installed; a script that is rewritten needs it.
JobOK ==
    /\ installed \in [Markers -> {0} \cup Versions]
    /\ pc \in {"idle", "strip", "inject", "open", "write", "record"}
    /\ damaged \in BOOLEAN
    /\ pc # "idle" =>
          /\ job.of \in Markers /\ job.ver \in {0} \cup Versions
          /\ ~Stripping => job.ver \in Versions
    /\ pc = "strip" => Stripping
    /\ pc \in {"inject", "record"} => ~Stripping
    /\ pc \in {"open", "write"} => ~NothingToDo(buffer)

\* While the file is written, the script is what the buffer holds of it.
Script == IF pc = "write" THEN buffer ELSE text

\* The image's block or none, and after it amipkg's block or none.
BlocksOf(m, t) == {<<>>} \cup {Block(m, t, v) : v \in Versions}
Whole(lines, m) ==
    \E h \in BlocksOf(m, "host"), a \in BlocksOf(m, "amipkg") : lines = h \o a

\* What a package has in the script.
Overlay(m) ==
    LET lines == Only(Script, LinesOf(m)) IN
    /\ Whole(lines, m)
    /\ m \notin failed =>
          IF pc = "record" /\ job.of = m THEN lines = Block(m, "amipkg", job.ver)
          ELSE IF installed[m] = 0 THEN lines = <<>>
          ELSE \E t \in Tools : lines = Block(m, t, installed[m])

\* A script that is not damaged consists of whole blocks and lines between
\* them.
Intact ==
    /\ Script \in Seq(Lines) /\ ReadsAll(Free, Script) = Free
    /\ Only(Script, OwnOnes) = theirs
    /\ \A m \in Markers : Overlay(m)

Inv == JobOK /\ (~damaged => Intact)

-----------------------------------------------------------------------------
(***************************************************************************)
(* Induction, and functions defined by recursion over a sequence.          *)
(***************************************************************************)
LEMMA Induct == ASSUME NEW S, 0 \in S, \A n \in Nat : n \in S => n + 1 \in S
                PROVE  Nat \subseteq S
<1> DEFINE Rest == {n \in Nat : n \notin S}
<1>1. SUFFICES ASSUME Rest # {} PROVE FALSE
  OBVIOUS
<1>2. Rest \subseteq Nat
  OBVIOUS
<1> HIDE DEF Rest
<1>3. PICK m \in Rest : \A n \in Rest : ~(<<n, m>> \in OpToRel(<, Nat))
  BY <1>1, <1>2, WFMin, NatLessThanWellFounded
<1>4. m \in Nat /\ m \notin S /\ \A n \in Nat : n < m => n \in S
  BY <1>2, <1>3 DEF OpToRel, Rest
<1>5. m # 0
  BY <1>4
<1>6. m - 1 \in Nat /\ m - 1 < m /\ (m - 1) + 1 = m
  BY <1>4, <1>5
<1>7. m - 1 \in S
  BY <1>4, <1>6
<1>8. QED
  BY <1>4, <1>6, <1>7

LEMMA SeqInduct ==
    ASSUME NEW L, NEW S, <<>> \in S,
           \A s \in Seq(L), x \in L : s \in S => Append(s, x) \in S
    PROVE  Seq(L) \subseteq S
<1> DEFINE N == {n \in Nat : \A s \in Seq(L) : Len(s) = n => s \in S}
<1>1. 0 \in N
  BY EmptySeq
<1>2. ASSUME NEW n \in Nat, n \in N PROVE n + 1 \in N
  <2> SUFFICES ASSUME NEW s \in Seq(L), Len(s) = n + 1 PROVE s \in S
    BY <1>2
  <2>1. s # <<>>
    BY EmptySeq
  <2>2. PICK r \in Seq(L), x \in L : s = Append(r, x)
    BY <2>1, SequenceEmptyOrAppend
  <2>3. Len(r) = n
    <3>1. Len(r) \in Nat /\ Len(s) = Len(r) + 1
      BY <2>2, AppendProperties, LenProperties
    <3>2. QED
      BY <3>1
  <2>4. r \in S
    BY <1>2, <2>3
  <2>5. QED
    BY <2>2, <2>4
<1> HIDE DEF N
<1>3. Nat \subseteq N
  BY <1>1, <1>2, Induct
<1>4. ASSUME NEW s \in Seq(L) PROVE s \in S
  <2>1. Len(s) \in N
    BY <1>3, LenProperties
  <2>2. QED
    BY <2>1 DEF N
<1>5. QED
  BY <1>4

\* The course of values of step g from b through s.
IsCourse(f, V, b, g, s) ==
    /\ f \in [0..Len(s) -> V] /\ f[0] = b
    /\ \A n \in 1..Len(s) : f[n] = g[<<f[n - 1], s[n]>>]

LEMMA Recursion ==
    ASSUME NEW V, NEW L, NEW b \in V, NEW g \in [V \X L -> V], NEW s \in Seq(L)
    PROVE  \E f : IsCourse(f, V, b, g, s)
<1> DEFINE Course(f, n) ==
        f \in [0..n -> V] /\ f[0] = b /\ \A k \in 1..n : f[k] = g[<<f[k - 1], s[k]>>]
    N == {n \in Nat : n <= Len(s) => \E f : Course(f, n)}
<1>1. 0 \in N
  <2>1. Course([k \in 0..0 |-> b], 0)
    OBVIOUS
  <2>2. QED
    BY <2>1
<1>2. ASSUME NEW n \in Nat, n \in N PROVE n + 1 \in N
  <2> SUFFICES ASSUME n + 1 <= Len(s) PROVE \E f : Course(f, n + 1)
    OBVIOUS
  <2>1. Len(s) \in Nat /\ n <= Len(s) /\ s[n + 1] \in L
    BY LenProperties, ElementOfSeq
  <2>2. PICK f : Course(f, n)
    BY <1>2, <2>1
  <2>3. PICK y : y = g[<<f[n], s[n + 1]>>]
    OBVIOUS
  <2>4. y \in V
    <3>1. f[n] \in V
      BY <2>2
    <3>2. <<f[n], s[n + 1]>> \in V \X L
      BY <2>1, <3>1
    <3>3. QED
      BY <2>3, <3>2
  <2>5. PICK h : h = [k \in 0..(n + 1) |-> IF k = n + 1 THEN y ELSE f[k]]
    OBVIOUS
  <2>6. h \in [0..(n + 1) -> V]
    BY <2>2, <2>4, <2>5
  <2>7. h[0] = b /\ h[n + 1] = y /\ \A k \in 0..n : h[k] = f[k]
    BY <2>2, <2>5
  <2>8. ASSUME NEW k \in 1..(n + 1) PROVE h[k] = g[<<h[k - 1], s[k]>>]
    <3>1. CASE k = n + 1
      BY <2>3, <2>7, <3>1
    <3>2. CASE k \in 1..n
      <4>1. k - 1 \in 0..n /\ k \in 0..n
        BY <3>2
      <4>2. QED
        BY <2>2, <2>7, <3>2, <4>1
    <3>3. QED
      BY <3>1, <3>2
  <2>9. QED
    BY <2>6, <2>7, <2>8
<1> HIDE DEF N
<1>3. Len(s) \in N
  BY <1>1, <1>2, Induct, LenProperties
<1>4. QED
  BY <1>3, LenProperties DEF N, IsCourse

\* Two courses that keep step are the same.
InStep(f, h, N) == f[0] = h[0] /\ \A n \in 1..N : f[n - 1] = h[n - 1] => f[n] = h[n]

LEMMA SameCourse == ASSUME NEW N \in Nat, NEW f, NEW h, InStep(f, h, N)
                    PROVE  \A n \in 0..N : f[n] = h[n]
<1> DEFINE S == {n \in Nat : n <= N => f[n] = h[n]}
<1>1. 0 \in S
  BY DEF InStep
<1>2. ASSUME NEW n \in Nat, n \in S PROVE n + 1 \in S
  <2> SUFFICES ASSUME n + 1 <= N PROVE f[n + 1] = h[n + 1]
    OBVIOUS
  <2>1. n + 1 \in 1..N /\ (n + 1) - 1 = n
    OBVIOUS
  <2>2. f[n] = h[n]
    BY <1>2
  <2>3. QED
    BY <2>1, <2>2 DEF InStep
<1> HIDE DEF S
<1>3. Nat \subseteq S
  BY <1>1, <1>2, Induct
<1>4. QED
  BY <1>3 DEF S

-----------------------------------------------------------------------------
(***************************************************************************)
(* What the readers do with one line more.                                 *)
(***************************************************************************)
LEMMA OneMore ==
    ASSUME NEW L, NEW s \in Seq(L), NEW x \in L
    PROVE  LET t == Append(s, x) IN
           /\ t \in Seq(L) /\ Len(t) = Len(s) + 1 /\ Len(s) \in Nat /\ t[Len(t)] = x
           /\ \A n \in 1..Len(s) : t[n] = s[n]
BY AppendProperties, LenProperties

\* The course of Only.
LEMMA OnlyCourse ==
    ASSUME NEW L, NEW s \in Seq(L), NEW K
    PROVE  \E f \in [0..Len(s) -> Seq(L)] :
               /\ f[0] = <<>> /\ Only(s, K) = f[Len(s)]
               /\ \A n \in 1..Len(s) :
                      f[n] = IF s[n] \in K THEN Append(f[n - 1], s[n]) ELSE f[n - 1]
<1> DEFINE IsOnly(f) ==
        f = [n \in 0..Len(s) |->
                IF n = 0 THEN <<>>
                ELSE IF s[n] \in K THEN Append(f[n - 1], s[n]) ELSE f[n - 1]]
    V == Seq(L)
    g == [p \in V \X L |-> IF p[2] \in K THEN Append(p[1], p[2]) ELSE p[1]]
    c == CHOOSE f : IsOnly(f)
<1>1. Len(s) \in Nat /\ \A n \in 1..Len(s) : s[n] \in L
  BY LenProperties, ElementOfSeq
<1>2. <<>> \in V
  BY EmptySeq
<1>3. \A v \in V, x \in L : g[<<v, x>>] = IF x \in K THEN Append(v, x) ELSE v
  OBVIOUS
<1>13. g \in [V \X L -> V]
  BY AppendProperties
<1> HIDE DEF V, g
<1>4. PICK f \in [0..Len(s) -> V] :
          f[0] = <<>> /\ \A n \in 1..Len(s) : f[n] = g[<<f[n - 1], s[n]>>]
  <2>1. PICK f : IsCourse(f, V, <<>>, g, s)
    BY <1>2, <1>13, Recursion
  <2>2. QED
    BY <2>1 DEF IsCourse
<1>5. \A n \in 1..Len(s) : f[n] = IF s[n] \in K THEN Append(f[n - 1], s[n]) ELSE f[n - 1]
  <2> SUFFICES ASSUME NEW n \in 1..Len(s)
               PROVE  f[n] = IF s[n] \in K THEN Append(f[n - 1], s[n]) ELSE f[n - 1]
    OBVIOUS
  <2>1. n - 1 \in 0..Len(s) /\ s[n] \in L
    BY <1>1
  <2>2. f[n - 1] \in V
    BY <1>4, <2>1
  <2>3. QED
    BY <1>3, <1>4, <2>1, <2>2
<1>6. IsOnly(f)
  <2>1. \A n \in 0..Len(s) : n # 0 => n \in 1..Len(s)
    BY <1>1
  <2>2. QED
    BY <1>4, <1>5, <2>1
<1>7. IsOnly(c)
  BY <1>6
<1>8. Only(s, K) = c[Len(s)]
  BY DEF Only
<1> HIDE DEF c
<1>9. /\ c[0] = <<>>
      /\ \A n \in 1..Len(s) : c[n] = IF s[n] \in K THEN Append(c[n - 1], s[n]) ELSE c[n - 1]
  <2>1. 0 \in 0..Len(s) /\ \A n \in 1..Len(s) : n \in 0..Len(s) /\ n # 0
    BY <1>1
  <2>2. QED
    BY <1>7, <2>1
<1>10. \A n \in 0..Len(s) : f[n] = c[n]
  <2>1. InStep(f, c, Len(s))
    BY <1>1, <1>4, <1>5, <1>9 DEF InStep
  <2>2. Len(s) \in Nat
    BY <1>1
  <2>3. QED
    BY <2>1, <2>2, SameCourse
<1>11. Only(s, K) = f[Len(s)]
  BY <1>1, <1>8, <1>10
<1>12. QED
  BY <1>4, <1>5, <1>11 DEF V

LEMMA OnlyEmpty == ASSUME NEW K PROVE Only(<<>>, K) = <<>>
<1>1. PICK L : L = {}
  OBVIOUS
<1>3. PICK s \in Seq(L) : s = <<>> /\ Len(s) = 0
  BY EmptySeq
<1>2. PICK f : f[0] = <<>> /\ Only(s, K) = f[Len(s)]
  BY OnlyCourse
<1>4. QED
  BY <1>2, <1>3

LEMMA OnlyAppend ==
    ASSUME NEW L, NEW s \in Seq(L), NEW x \in L, NEW K
    PROVE  Only(Append(s, x), K) = IF x \in K THEN Append(Only(s, K), x) ELSE Only(s, K)
<1>1. PICK t : t = Append(s, x)
  OBVIOUS
<1>2. /\ t \in Seq(L) /\ Len(t) = Len(s) + 1 /\ Len(s) \in Nat /\ t[Len(t)] = x
      /\ \A n \in 1..Len(s) : t[n] = s[n]
  BY <1>1, OneMore
<1>10. t \in Seq(L)
  BY <1>2
<1>3. PICK f : /\ f[0] = <<>> /\ Only(s, K) = f[Len(s)]
               /\ \A n \in 1..Len(s) :
                      f[n] = IF s[n] \in K THEN Append(f[n - 1], s[n]) ELSE f[n - 1]
  BY OnlyCourse
<1>4. PICK h : /\ h[0] = <<>> /\ Only(t, K) = h[Len(t)]
               /\ \A n \in 1..Len(t) :
                      h[n] = IF t[n] \in K THEN Append(h[n - 1], t[n]) ELSE h[n - 1]
  BY <1>10, OnlyCourse
<1>5. \A n \in 1..Len(s) : n \in 1..Len(t)
  BY <1>2
<1>6. \A n \in 0..Len(s) : f[n] = h[n]
  <2>1. InStep(f, h, Len(s))
    BY <1>2, <1>3, <1>4, <1>5 DEF InStep
  <2>2. Len(s) \in Nat
    BY <1>2
  <2>3. QED
    BY <2>1, <2>2, SameCourse
<1>7. Len(t) \in 1..Len(t) /\ Len(t) - 1 = Len(s) /\ Len(s) \in 0..Len(s)
  BY <1>2
<1>8. Only(t, K) = IF x \in K THEN Append(h[Len(s)], x) ELSE h[Len(s)]
  BY <1>2, <1>4, <1>7
<1>9. QED
  BY <1>1, <1>3, <1>6, <1>7, <1>8

\* The course of ReadsAll.
LEMMA ReadsWithin == ASSUME NEW q \in Places, NEW l \in Lines
                     PROVE  Reads(q, l) \in Places
<1>1. l.kind = "begin" => l.of \in Markers
  BY DEF Lines, OwnOnes, LinesOf, Own, Blank, BeginLine, EndLine, Body
<1>2. QED
  BY <1>1 DEF Reads, Places

LEMMA ReadsCourse ==
    ASSUME NEW q \in Places, NEW s \in Seq(Lines)
    PROVE  \E f \in [0..Len(s) -> Places] :
               /\ f[0] = q /\ ReadsAll(q, s) = f[Len(s)]
               /\ \A n \in 1..Len(s) : f[n] = Reads(f[n - 1], s[n])
<1> DEFINE IsRun(f) ==
        f = [n \in 0..Len(s) |-> IF n = 0 THEN q ELSE Reads(f[n - 1], s[n])]
    g == [p \in Places \X Lines |-> Reads(p[1], p[2])]
    c == CHOOSE f : IsRun(f)
<1>1. Len(s) \in Nat /\ \A n \in 1..Len(s) : s[n] \in Lines
  BY LenProperties, ElementOfSeq
<1>3. \A v \in Places, x \in Lines : g[<<v, x>>] = Reads(v, x)
  OBVIOUS
<1>2. g \in [Places \X Lines -> Places]
  BY ReadsWithin
<1> HIDE DEF g
<1>4. PICK f \in [0..Len(s) -> Places] :
          f[0] = q /\ \A n \in 1..Len(s) : f[n] = g[<<f[n - 1], s[n]>>]
  <2>1. PICK f : IsCourse(f, Places, q, g, s)
    BY <1>2, Recursion
  <2>2. QED
    BY <2>1 DEF IsCourse
<1>5. \A n \in 1..Len(s) : f[n] = Reads(f[n - 1], s[n])
  <2> SUFFICES ASSUME NEW n \in 1..Len(s) PROVE f[n] = Reads(f[n - 1], s[n])
    OBVIOUS
  <2>1. n - 1 \in 0..Len(s) /\ s[n] \in Lines
    BY <1>1
  <2>2. f[n - 1] \in Places
    BY <1>4, <2>1
  <2>3. QED
    BY <1>3, <1>4, <2>1, <2>2
<1>6. IsRun(f)
  <2>1. \A n \in 0..Len(s) : n # 0 => n \in 1..Len(s)
    BY <1>1
  <2>2. QED
    BY <1>4, <1>5, <2>1
<1>7. IsRun(c)
  BY <1>6
<1>8. ReadsAll(q, s) = c[Len(s)]
  BY DEF ReadsAll
<1> HIDE DEF c
<1>9. c[0] = q /\ \A n \in 1..Len(s) : c[n] = Reads(c[n - 1], s[n])
  <2>1. 0 \in 0..Len(s) /\ \A n \in 1..Len(s) : n \in 0..Len(s) /\ n # 0
    BY <1>1
  <2>2. QED
    BY <1>7, <2>1
<1>10. \A n \in 0..Len(s) : f[n] = c[n]
  <2>1. InStep(f, c, Len(s))
    BY <1>1, <1>4, <1>5, <1>9 DEF InStep
  <2>2. Len(s) \in Nat
    BY <1>1
  <2>3. QED
    BY <2>1, <2>2, SameCourse
<1>11. QED
  BY <1>1, <1>4, <1>5, <1>8, <1>10

LEMMA ReadsEmpty == ASSUME NEW q \in Places PROVE ReadsAll(q, <<>>) = q
<1>1. PICK s \in Seq(Lines) : s = <<>> /\ Len(s) = 0
  BY EmptySeq
<1>2. PICK f : f[0] = q /\ ReadsAll(q, s) = f[Len(s)]
  BY ReadsCourse
<1>3. QED
  BY <1>1, <1>2

LEMMA ReadsAppend ==
    ASSUME NEW q \in Places, NEW s \in Seq(Lines), NEW x \in Lines
    PROVE  /\ ReadsAll(q, s) \in Places
           /\ ReadsAll(q, Append(s, x)) = Reads(ReadsAll(q, s), x)
<1>1. PICK t : t = Append(s, x)
  OBVIOUS
<1>2. /\ t \in Seq(Lines) /\ Len(t) = Len(s) + 1 /\ Len(s) \in Nat /\ t[Len(t)] = x
      /\ \A n \in 1..Len(s) : t[n] = s[n]
  BY <1>1, OneMore
<1>10. t \in Seq(Lines)
  BY <1>2
<1>3. PICK f \in [0..Len(s) -> Places] :
          /\ f[0] = q /\ ReadsAll(q, s) = f[Len(s)]
          /\ \A n \in 1..Len(s) : f[n] = Reads(f[n - 1], s[n])
  BY ReadsCourse
<1>4. PICK h : /\ h[0] = q /\ ReadsAll(q, t) = h[Len(t)]
               /\ \A n \in 1..Len(t) : h[n] = Reads(h[n - 1], t[n])
  BY <1>10, ReadsCourse
<1>5. \A n \in 1..Len(s) : n \in 1..Len(t)
  BY <1>2
<1>6. \A n \in 0..Len(s) : f[n] = h[n]
  <2>1. InStep(f, h, Len(s))
    BY <1>2, <1>3, <1>4, <1>5 DEF InStep
  <2>2. Len(s) \in Nat
    BY <1>2
  <2>3. QED
    BY <2>1, <2>2, SameCourse
<1>7. Len(t) \in 1..Len(t) /\ Len(t) - 1 = Len(s) /\ Len(s) \in 0..Len(s)
  BY <1>2
<1>8. ReadsAll(q, t) = Reads(h[Len(s)], x)
  BY <1>2, <1>4, <1>7
<1>9. QED
  BY <1>1, <1>3, <1>6, <1>7, <1>8


\* The course of Scan.
Scans == [inside : BOOLEAN, out : Seq(Lines)]

LEMMA ScansWithin == ASSUME NEW a \in Scans, NEW x \in Lines, NEW m
                     PROVE  StripLine(a, x, m) \in Scans
<1>1. a.inside \in BOOLEAN /\ a.out \in Seq(Lines)
  BY DEF Scans
<1>2. Append(a.out, x) \in Seq(Lines)
  BY <1>1, AppendProperties
<1>3. \A b \in BOOLEAN : [a EXCEPT !.inside = b] \in Scans
  BY DEF Scans
<1>4. [a EXCEPT !.out = Append(@, x)] \in Scans
  BY <1>2 DEF Scans
<1>5. IsMark(x, "end", m) \in BOOLEAN
  BY DEF IsMark
<1>6. a.inside \/ ~a.inside
  OBVIOUS
<1>7. CASE a.inside
  BY <1>3, <1>5, <1>7 DEF StripLine
<1>8. CASE ~a.inside
  BY <1>3, <1>4, <1>8 DEF StripLine
<1>9. QED
  BY <1>7, <1>8

LEMMA ScanCourse ==
    ASSUME NEW s \in Seq(Lines), NEW m
    PROVE  \E f \in [0..Len(s) -> Scans] :
               /\ f[0] = Outside /\ Scan(s, m) = f[Len(s)]
               /\ \A n \in 1..Len(s) : f[n] = StripLine(f[n - 1], s[n], m)
<1> DEFINE IsRun(f) ==
        f = [n \in 0..Len(s) |-> IF n = 0 THEN Outside ELSE StripLine(f[n - 1], s[n], m)]
    g == [p \in Scans \X Lines |-> StripLine(p[1], p[2], m)]
    c == CHOOSE f : IsRun(f)
<1>1. Len(s) \in Nat /\ \A n \in 1..Len(s) : s[n] \in Lines
  BY LenProperties, ElementOfSeq
<1>3. \A v \in Scans, x \in Lines : g[<<v, x>>] = StripLine(v, x, m)
  OBVIOUS
<1>2. g \in [Scans \X Lines -> Scans]
  BY ScansWithin
<1>12. Outside \in Scans
  BY EmptySeq DEF Outside, Scans
<1> HIDE DEF g
<1>4. PICK f \in [0..Len(s) -> Scans] :
          f[0] = Outside /\ \A n \in 1..Len(s) : f[n] = g[<<f[n - 1], s[n]>>]
  <2>1. PICK f : IsCourse(f, Scans, Outside, g, s)
    BY <1>2, <1>12, Recursion
  <2>2. QED
    BY <2>1 DEF IsCourse
<1>5. \A n \in 1..Len(s) : f[n] = StripLine(f[n - 1], s[n], m)
  <2> SUFFICES ASSUME NEW n \in 1..Len(s) PROVE f[n] = StripLine(f[n - 1], s[n], m)
    OBVIOUS
  <2>1. n - 1 \in 0..Len(s) /\ s[n] \in Lines
    BY <1>1
  <2>2. f[n - 1] \in Scans
    BY <1>4, <2>1
  <2>3. QED
    BY <1>3, <1>4, <2>1, <2>2
<1>6. IsRun(f)
  <2>1. \A n \in 0..Len(s) : n # 0 => n \in 1..Len(s)
    BY <1>1
  <2>2. QED
    BY <1>4, <1>5, <2>1
<1>7. IsRun(c)
  BY <1>6
<1>8. Scan(s, m) = c[Len(s)]
  BY DEF Scan
<1> HIDE DEF c
<1>9. c[0] = Outside /\ \A n \in 1..Len(s) : c[n] = StripLine(c[n - 1], s[n], m)
  <2>1. 0 \in 0..Len(s) /\ \A n \in 1..Len(s) : n \in 0..Len(s) /\ n # 0
    BY <1>1
  <2>2. QED
    BY <1>7, <2>1
<1>10. \A n \in 0..Len(s) : f[n] = c[n]
  <2>1. InStep(f, c, Len(s))
    BY <1>1, <1>4, <1>5, <1>9 DEF InStep
  <2>2. Len(s) \in Nat
    BY <1>1
  <2>3. QED
    BY <2>1, <2>2, SameCourse
<1>11. QED
  BY <1>1, <1>4, <1>5, <1>8, <1>10

LEMMA ScanEmpty == ASSUME NEW m PROVE Scan(<<>>, m) = Outside
<1>1. PICK s \in Seq(Lines) : s = <<>> /\ Len(s) = 0
  BY EmptySeq
<1>2. PICK f : f[0] = Outside /\ Scan(s, m) = f[Len(s)]
  BY ScanCourse
<1>3. QED
  BY <1>1, <1>2

LEMMA ScanAppend ==
    ASSUME NEW s \in Seq(Lines), NEW x \in Lines, NEW m
    PROVE  /\ Scan(s, m) \in Scans
           /\ Scan(Append(s, x), m) = StripLine(Scan(s, m), x, m)
<1>1. PICK t : t = Append(s, x)
  OBVIOUS
<1>2. /\ t \in Seq(Lines) /\ Len(t) = Len(s) + 1 /\ Len(s) \in Nat /\ t[Len(t)] = x
      /\ \A n \in 1..Len(s) : t[n] = s[n]
  BY <1>1, OneMore
<1>10. t \in Seq(Lines)
  BY <1>2
<1>3. PICK f \in [0..Len(s) -> Scans] :
          /\ f[0] = Outside /\ Scan(s, m) = f[Len(s)]
          /\ \A n \in 1..Len(s) : f[n] = StripLine(f[n - 1], s[n], m)
  BY ScanCourse
<1>4. PICK h : /\ h[0] = Outside /\ Scan(t, m) = h[Len(t)]
               /\ \A n \in 1..Len(t) : h[n] = StripLine(h[n - 1], t[n], m)
  BY <1>10, ScanCourse
<1>5. \A n \in 1..Len(s) : n \in 1..Len(t)
  BY <1>2
<1>6. \A n \in 0..Len(s) : f[n] = h[n]
  <2>1. InStep(f, h, Len(s))
    BY <1>2, <1>3, <1>4, <1>5 DEF InStep
  <2>2. Len(s) \in Nat
    BY <1>2
  <2>3. QED
    BY <2>1, <2>2, SameCourse
<1>7. Len(t) \in 1..Len(t) /\ Len(t) - 1 = Len(s) /\ Len(s) \in 0..Len(s)
  BY <1>2
<1>8. Scan(t, m) = StripLine(h[Len(s)], x, m)
  BY <1>2, <1>4, <1>7
<1>9. QED
  BY <1>1, <1>3, <1>6, <1>7, <1>8

\* The course of HostBlocks.
Built == {m \in Markers : installed[m] # 0}

LEMMA BlockLines ==
    ASSUME NEW m \in Markers, NEW t \in Tools, NEW v \in Versions
    PROVE  /\ Block(m, t, v) \in Seq(Lines) /\ Len(Block(m, t, v)) = 3
           /\ BeginLine(m, t) \in Lines /\ Body(m, v) \in Lines /\ EndLine(m, t) \in Lines
<1>1. BeginLine(m, t) \in Lines /\ Body(m, v) \in Lines /\ EndLine(m, t) \in Lines
  BY DEF Lines, LinesOf
<1>2. QED
  BY <1>1 DEF Block

LEMMA HostCourse ==
    ASSUME NEW s \in Seq(Built), installed \in [Markers -> {0} \cup Versions]
    PROVE  \E f \in [0..Len(s) -> Seq(Lines)] :
               /\ f[0] = <<>> /\ HostBlocks(s) = f[Len(s)]
               /\ \A n \in 1..Len(s) :
                      f[n] = f[n - 1] \o Block(s[n], "host", installed[s[n]])
<1> DEFINE IsRun(f) ==
        f = [n \in 0..Len(s) |->
                IF n = 0 THEN <<>> ELSE f[n - 1] \o Block(s[n], "host", installed[s[n]])]
    V == Seq(Lines)
    g == [p \in V \X Built |-> p[1] \o Block(p[2], "host", installed[p[2]])]
    c == CHOOSE f : IsRun(f)
<1>1. Len(s) \in Nat /\ \A n \in 1..Len(s) : s[n] \in Built
  BY LenProperties, ElementOfSeq
<1>3. \A v \in V, x \in Built : g[<<v, x>>] = v \o Block(x, "host", installed[x])
  OBVIOUS
<1>2. g \in [V \X Built -> V]
  <2>1. ASSUME NEW v \in V, NEW x \in Built
        PROVE  v \o Block(x, "host", installed[x]) \in V
    <3>1. x \in Markers /\ "host" \in Tools /\ installed[x] \in Versions
      BY DEF Built, Tools
    <3>2. Block(x, "host", installed[x]) \in Seq(Lines)
      BY <3>1, BlockLines
    <3>3. QED
      BY <3>2, ConcatProperties
  <2>2. QED
    BY <2>1
<1>12. <<>> \in V
  BY EmptySeq
<1> HIDE DEF g, V
<1>4. PICK f \in [0..Len(s) -> V] :
          f[0] = <<>> /\ \A n \in 1..Len(s) : f[n] = g[<<f[n - 1], s[n]>>]
  <2>1. PICK f : IsCourse(f, V, <<>>, g, s)
    BY <1>2, <1>12, Recursion
  <2>2. QED
    BY <2>1 DEF IsCourse
<1>5. \A n \in 1..Len(s) : f[n] = f[n - 1] \o Block(s[n], "host", installed[s[n]])
  <2> SUFFICES ASSUME NEW n \in 1..Len(s)
               PROVE  f[n] = f[n - 1] \o Block(s[n], "host", installed[s[n]])
    OBVIOUS
  <2>1. n - 1 \in 0..Len(s) /\ s[n] \in Built
    BY <1>1
  <2>2. f[n - 1] \in V
    BY <1>4, <2>1
  <2>3. QED
    BY <1>3, <1>4, <2>1, <2>2
<1>6. IsRun(f)
  <2>1. \A n \in 0..Len(s) : n # 0 => n \in 1..Len(s)
    BY <1>1
  <2>2. QED
    BY <1>4, <1>5, <2>1
<1>7. IsRun(c)
  BY <1>6
<1>8. HostBlocks(s) = c[Len(s)]
  BY DEF HostBlocks
<1> HIDE DEF c
<1>9. /\ c[0] = <<>>
      /\ \A n \in 1..Len(s) : c[n] = c[n - 1] \o Block(s[n], "host", installed[s[n]])
  <2>1. 0 \in 0..Len(s) /\ \A n \in 1..Len(s) : n \in 0..Len(s) /\ n # 0
    BY <1>1
  <2>2. QED
    BY <1>7, <2>1
<1>10. \A n \in 0..Len(s) : f[n] = c[n]
  <2>1. InStep(f, c, Len(s))
    BY <1>1, <1>4, <1>5, <1>9 DEF InStep
  <2>2. Len(s) \in Nat
    BY <1>1
  <2>3. QED
    BY <2>1, <2>2, SameCourse
<1>11. HostBlocks(s) = f[Len(s)]
  BY <1>1, <1>8, <1>10
<1>13. QED
  BY <1>4, <1>5, <1>11 DEF V

LEMMA HostEmpty == ASSUME installed \in [Markers -> {0} \cup Versions]
                   PROVE  HostBlocks(<<>>) = <<>>
<1>1. PICK s \in Seq(Built) : s = <<>> /\ Len(s) = 0
  BY EmptySeq
<1>2. PICK f : f[0] = <<>> /\ HostBlocks(s) = f[Len(s)]
  BY HostCourse
<1>3. QED
  BY <1>1, <1>2

LEMMA HostAppend ==
    ASSUME NEW s \in Seq(Built), NEW x \in Built, installed \in [Markers -> {0} \cup Versions]
    PROVE  /\ HostBlocks(s) \in Seq(Lines)
           /\ HostBlocks(Append(s, x)) = HostBlocks(s) \o Block(x, "host", installed[x])
<1>1. PICK t : t = Append(s, x)
  OBVIOUS
<1>2. /\ t \in Seq(Built) /\ Len(t) = Len(s) + 1 /\ Len(s) \in Nat /\ t[Len(t)] = x
      /\ \A n \in 1..Len(s) : t[n] = s[n]
  BY <1>1, OneMore
<1>10. t \in Seq(Built)
  BY <1>2
<1>3. PICK f \in [0..Len(s) -> Seq(Lines)] :
          /\ f[0] = <<>> /\ HostBlocks(s) = f[Len(s)]
          /\ \A n \in 1..Len(s) : f[n] = f[n - 1] \o Block(s[n], "host", installed[s[n]])
  BY HostCourse
<1>4. PICK h :
          /\ h[0] = <<>> /\ HostBlocks(t) = h[Len(t)]
          /\ \A n \in 1..Len(t) : h[n] = h[n - 1] \o Block(t[n], "host", installed[t[n]])
  BY <1>10, HostCourse
<1>5. \A n \in 1..Len(s) : n \in 1..Len(t)
  BY <1>2
<1>6. \A n \in 0..Len(s) : f[n] = h[n]
  <2>1. InStep(f, h, Len(s))
    BY <1>2, <1>3, <1>4, <1>5 DEF InStep
  <2>2. Len(s) \in Nat
    BY <1>2
  <2>3. QED
    BY <2>1, <2>2, SameCourse
<1>7. Len(t) \in 1..Len(t) /\ Len(t) - 1 = Len(s) /\ Len(s) \in 0..Len(s)
  BY <1>2
<1>8. HostBlocks(t) = h[Len(s)] \o Block(x, "host", installed[x])
  BY <1>2, <1>4, <1>7
<1>9. QED
  BY <1>1, <1>3, <1>6, <1>7, <1>8

-----------------------------------------------------------------------------
(***************************************************************************)
(* Facts about sequences.                                                  *)
(***************************************************************************)
LEMMA ConcatAppend ==
    ASSUME NEW L, NEW a \in Seq(L), NEW b \in Seq(L), NEW x \in L
    PROVE  a \o Append(b, x) = Append(a \o b, x)
<1>1. PICK c : c = <<x>>
  OBVIOUS
<1>2. c \in Seq(L)
  BY <1>1
<1>3. Append(b, x) = b \o c
  BY <1>1, AppendIsConcat
<1>4. a \o b \in Seq(L)
  BY ConcatProperties
<1>5. Append(a \o b, x) = (a \o b) \o c
  BY <1>1, <1>4, AppendIsConcat
<1>6. (a \o b) \o c = a \o (b \o c)
  BY <1>2, ConcatAssociative
<1>7. QED
  BY <1>3, <1>5, <1>6

LEMMA ConcatThree ==
    ASSUME NEW L, NEW a \in Seq(L), NEW x \in L, NEW y \in L, NEW z \in L
    PROVE  a \o <<x, y, z>> = Append(Append(Append(a, x), y), z)
<1>1. <<x, y, z>> \in Seq(L) /\ Len(<<x, y, z>>) = 3
      /\ <<x, y, z>>[1] = x /\ <<x, y, z>>[2] = y /\ <<x, y, z>>[3] = z
  OBVIOUS
<1>2. PICK d : d = <<x, y, z>>
  OBVIOUS
<1>3. PICK b, c, e : b = Append(a, x) /\ c = Append(b, y) /\ e = Append(c, z)
  OBVIOUS
<1>4. /\ b \in Seq(L) /\ Len(b) = Len(a) + 1 /\ Len(a) \in Nat
      /\ b[Len(a) + 1] = x /\ \A i \in 1..Len(a) : b[i] = a[i]
  BY <1>3, AppendProperties, LenProperties
<1>5. /\ c \in Seq(L) /\ Len(c) = Len(b) + 1
      /\ c[Len(b) + 1] = y /\ \A i \in 1..Len(b) : c[i] = b[i]
  BY <1>3, <1>4, AppendProperties
<1>6. /\ e \in Seq(L) /\ Len(e) = Len(c) + 1
      /\ e[Len(c) + 1] = z /\ \A i \in 1..Len(c) : e[i] = c[i]
  BY <1>3, <1>5, AppendProperties
<1>7. PICK g : g = a \o d
  OBVIOUS
<1>8. /\ g \in Seq(L) /\ Len(g) = Len(a) + 3
      /\ \A i \in 1..Len(a) + 3 : g[i] = IF i <= Len(a) THEN a[i] ELSE d[i - Len(a)]
  BY <1>1, <1>2, <1>7, ConcatProperties
<1>9. ASSUME NEW i \in 1..Len(g) PROVE g[i] = e[i]
  <2>1. i \in Int /\ 1 <= i /\ i <= Len(a) + 3 /\ Len(e) = Len(a) + 3
    BY <1>4, <1>5, <1>6, <1>8
  <2>2. CASE i <= Len(a)
    <3>1. i \in 1..Len(a) /\ i \in 1..Len(b) /\ i \in 1..Len(c)
      BY <1>4, <1>5, <2>1, <2>2
    <3>2. QED
      BY <1>4, <1>5, <1>6, <1>8, <2>1, <2>2, <3>1
  <2>3. CASE i = Len(a) + 1
    <3>1. i - Len(a) = 1 /\ i \in 1..Len(b) /\ i \in 1..Len(c) /\ ~(i <= Len(a))
      BY <1>4, <1>5, <2>1, <2>3
    <3>2. g[i] = x
      BY <1>1, <1>2, <1>8, <2>1, <3>1
    <3>3. QED
      BY <1>4, <1>5, <1>6, <2>3, <3>1, <3>2
  <2>4. CASE i = Len(a) + 2
    <3>1. i - Len(a) = 2 /\ i = Len(b) + 1 /\ i \in 1..Len(c) /\ ~(i <= Len(a))
      BY <1>4, <1>5, <2>1, <2>4
    <3>2. g[i] = y
      BY <1>1, <1>2, <1>8, <2>1, <3>1
    <3>3. QED
      BY <1>5, <1>6, <3>1, <3>2
  <2>5. CASE i = Len(a) + 3
    <3>1. i - Len(a) = 3 /\ i = Len(c) + 1 /\ ~(i <= Len(a))
      BY <1>4, <1>5, <2>1, <2>5
    <3>2. g[i] = z
      BY <1>1, <1>2, <1>8, <2>1, <3>1
    <3>3. QED
      BY <1>6, <3>1, <3>2
  <2>6. i <= Len(a) \/ i = Len(a) + 1 \/ i = Len(a) + 2 \/ i = Len(a) + 3
    BY <1>4, <2>1
  <2>7. QED
    BY <2>2, <2>3, <2>4, <2>5, <2>6
<1>10. Len(g) = Len(e)
  BY <1>4, <1>5, <1>6, <1>8
<1>11. g = e
  BY <1>6, <1>8, <1>9, <1>10, SeqEqual
<1>12. QED
  BY <1>2, <1>3, <1>7, <1>11

\* A sequence cut at i.
LEMMA Cut ==
    ASSUME NEW L, NEW s \in Seq(L), NEW i \in 0..Len(s)
    PROVE  /\ SubSeq(s, 1, i) \in Seq(L) /\ SubSeq(s, i + 1, Len(s)) \in Seq(L)
           /\ Len(SubSeq(s, 1, i)) = i /\ \A k \in 1..i : SubSeq(s, 1, i)[k] = s[k]
           /\ s = SubSeq(s, 1, i) \o SubSeq(s, i + 1, Len(s))
<1>1. Len(s) \in Nat /\ i \in Int /\ i + 1 \in Int /\ 0 <= i /\ i <= Len(s)
  BY LenProperties
<1>2. \A k \in 1..i : s[k] \in L
  BY <1>1, ElementOfSeq
<1>3. \A k \in (i + 1)..Len(s) : s[k] \in L
  BY <1>1, ElementOfSeq
<1>4. SubSeq(s, 1, i) \in Seq(L) /\ Len(SubSeq(s, 1, i)) = IF 1 <= i THEN i - 1 + 1 ELSE 0
  BY <1>1, <1>2, SubSeqProperties
<1>5. \A k \in 1..(i - 1 + 1) : SubSeq(s, 1, i)[k] = s[1 + k - 1]
  BY <1>1, <1>2, SubSeqProperties
<1>6. SubSeq(s, i + 1, Len(s)) \in Seq(L)
  BY <1>1, <1>3, SubSeqProperties
<1>7. SubSeq(s, 1, i) \o SubSeq(s, i + 1, Len(s)) = SubSeq(s, 1, Len(s))
  <2>1. 1 \in 1..Len(s) + 1 /\ i \in (1 - 1)..Len(s) /\ Len(s) \in i..Len(s)
    BY <1>1
  <2>2. QED
    BY <2>1, ConcatAdjacentSubSeq
<1>8. SubSeq(s, 1, Len(s)) = s
  BY SubSeqFull
<1>9. Len(SubSeq(s, 1, i)) = i
  BY <1>1, <1>4
<1>10. \A k \in 1..i : SubSeq(s, 1, i)[k] = s[k]
  BY <1>1, <1>5
<1>11. QED
  BY <1>4, <1>6, <1>7, <1>8, <1>9, <1>10

LEMMA ToSetAppend ==
    ASSUME NEW L, NEW s \in Seq(L), NEW x \in L
    PROVE  ToSet(Append(s, x)) = ToSet(s) \cup {x}
<1>1. PICK t : t = Append(s, x)
  OBVIOUS
<1>2. /\ t \in Seq(L) /\ Len(t) = Len(s) + 1 /\ Len(s) \in Nat /\ t[Len(t)] = x
      /\ \A n \in 1..Len(s) : t[n] = s[n]
  BY <1>1, OneMore
<1>3. DOMAIN s = 1..Len(s) /\ DOMAIN t = 1..(Len(s) + 1)
  BY <1>2, LenProperties
<1>4. DOMAIN t = DOMAIN s \cup {Len(t)}
  BY <1>2, <1>3
<1>5. ToSet(t) = ToSet(s) \cup {x}
  BY <1>2, <1>3, <1>4 DEF ToSet
<1>6. QED
  BY <1>1, <1>5

LEMMA ToSetEmpty == ToSet(<<>>) = {}
BY DEF ToSet

-----------------------------------------------------------------------------
(***************************************************************************)
(* The readers over whole scripts.                                         *)
(***************************************************************************)
LEMMA OnlyIn == ASSUME NEW L, NEW s \in Seq(L), NEW K PROVE Only(s, K) \in Seq(L)
<1>1. PICK f \in [0..Len(s) -> Seq(L)] : Only(s, K) = f[Len(s)]
  BY OnlyCourse
<1>2. Len(s) \in 0..Len(s)
  BY LenProperties
<1>3. QED
  BY <1>1, <1>2

LEMMA OnlyConcat ==
    ASSUME NEW L, NEW a \in Seq(L), NEW b \in Seq(L), NEW K
    PROVE  Only(a \o b, K) = Only(a, K) \o Only(b, K)
<1> DEFINE S == {s \in Seq(L) : Only(a \o s, K) = Only(a, K) \o Only(s, K)}
<1>1. Only(a, K) \in Seq(L)
  BY OnlyIn
<1>2. <<>> \in S
  <2>1. a \o <<>> = a /\ Only(a, K) \o <<>> = Only(a, K)
    BY <1>1, ConcatEmptySeq
  <2>2. Only(<<>>, K) = <<>>
    BY OnlyEmpty
  <2>3. QED
    BY <2>1, <2>2, EmptySeq
<1>3. ASSUME NEW s \in Seq(L), NEW x \in L, s \in S PROVE Append(s, x) \in S
  <2>1. Append(s, x) \in Seq(L)
    BY AppendProperties
  <2>2. a \o s \in Seq(L) /\ a \o Append(s, x) = Append(a \o s, x)
    BY ConcatAppend, ConcatProperties
  <2>3. Only(Append(a \o s, x), K) =
            IF x \in K THEN Append(Only(a \o s, K), x) ELSE Only(a \o s, K)
    BY <2>2, OnlyAppend
  <2>4. Only(Append(s, x), K) = IF x \in K THEN Append(Only(s, K), x) ELSE Only(s, K)
    BY OnlyAppend
  <2>5. Only(s, K) \in Seq(L)
    BY OnlyIn
  <2>6. Only(a, K) \o Append(Only(s, K), x) = Append(Only(a, K) \o Only(s, K), x)
    BY <1>1, <2>5, ConcatAppend
  <2>7. Only(a \o s, K) = Only(a, K) \o Only(s, K)
    BY <1>3
  <2>8. QED
    BY <2>1, <2>2, <2>3, <2>4, <2>6, <2>7
<1>4. b \in S
  <2> HIDE DEF S
  <2>1. Seq(L) \subseteq S
    BY <1>2, <1>3, SeqInduct
  <2>2. QED
    BY <2>1
<1>5. QED
  BY <1>4

LEMMA OnlyWithin ==
    ASSUME NEW L, NEW s \in Seq(L), NEW K
    PROVE  ToSet(Only(s, K)) = ToSet(s) \cap K
<1> DEFINE S == {t \in Seq(L) : ToSet(Only(t, K)) = ToSet(t) \cap K}
<1>1. <<>> \in S
  BY OnlyEmpty, ToSetEmpty, EmptySeq
<1>2. ASSUME NEW t \in Seq(L), NEW x \in L, t \in S PROVE Append(t, x) \in S
  <2>1. Append(t, x) \in Seq(L) /\ Only(t, K) \in Seq(L)
    BY AppendProperties, OnlyIn
  <2>2. Only(Append(t, x), K) = IF x \in K THEN Append(Only(t, K), x) ELSE Only(t, K)
    BY OnlyAppend
  <2>3. ToSet(Append(t, x)) = ToSet(t) \cup {x}
    BY ToSetAppend
  <2>4. ToSet(Append(Only(t, K), x)) = ToSet(Only(t, K)) \cup {x}
    BY <2>1, ToSetAppend
  <2>5. ToSet(Only(t, K)) = ToSet(t) \cap K
    BY <1>2
  <2>6. QED
    BY <2>1, <2>2, <2>3, <2>4, <2>5
<1>3. s \in S
  <2> HIDE DEF S
  <2>1. Seq(L) \subseteq S
    BY <1>1, <1>2, SeqInduct
  <2>2. QED
    BY <2>1
<1>4. QED
  BY <1>3

LEMMA ReadsConcat ==
    ASSUME NEW q \in Places, NEW a \in Seq(Lines), NEW b \in Seq(Lines)
    PROVE  ReadsAll(q, a \o b) = ReadsAll(ReadsAll(q, a), b)
<1> DEFINE S == {s \in Seq(Lines) : ReadsAll(q, a \o s) = ReadsAll(ReadsAll(q, a), s)}
<1>1. ReadsAll(q, a) \in Places
  <2>1. PICK f \in [0..Len(a) -> Places] : ReadsAll(q, a) = f[Len(a)]
    BY ReadsCourse
  <2>2. Len(a) \in 0..Len(a)
    BY LenProperties
  <2>3. QED
    BY <2>1, <2>2
<1>2. <<>> \in S
  <2>1. a \o <<>> = a
    BY ConcatEmptySeq
  <2>2. ReadsAll(ReadsAll(q, a), <<>>) = ReadsAll(q, a)
    BY <1>1, ReadsEmpty
  <2>3. QED
    BY <2>1, <2>2, EmptySeq
<1>3. ASSUME NEW s \in Seq(Lines), NEW x \in Lines, s \in S PROVE Append(s, x) \in S
  <2>1. Append(s, x) \in Seq(Lines)
    BY AppendProperties
  <2>2. a \o s \in Seq(Lines) /\ a \o Append(s, x) = Append(a \o s, x)
    BY ConcatAppend, ConcatProperties
  <2>3. ReadsAll(q, Append(a \o s, x)) = Reads(ReadsAll(q, a \o s), x)
    BY <2>2, ReadsAppend
  <2>4. ReadsAll(ReadsAll(q, a), Append(s, x)) = Reads(ReadsAll(ReadsAll(q, a), s), x)
    BY <1>1, ReadsAppend
  <2>5. ReadsAll(q, a \o s) = ReadsAll(ReadsAll(q, a), s)
    BY <1>3
  <2>6. QED
    BY <2>1, <2>2, <2>3, <2>4, <2>5
<1>4. b \in S
  <2> HIDE DEF S
  <2>1. Seq(Lines) \subseteq S
    BY <1>2, <1>3, SeqInduct
  <2>2. QED
    BY <2>1
<1>5. QED
  BY <1>4

-----------------------------------------------------------------------------
(***************************************************************************)
(* Lines and blocks.                                                       *)
(***************************************************************************)
\* The kind of a line and its package tell the sets apart.
LEMMA Shapes ==
    ASSUME NEW x \in Lines
    PROVE  /\ x.kind \in {"own", "blank", "begin", "body", "end"}
           /\ x \in OwnOnes <=> x.kind = "own"
           /\ x = Blank <=> x.kind = "blank"
           /\ x.kind \in {"begin", "body", "end"} => x.of \in Markers
           /\ \A m \in Markers :
                  x \in LinesOf(m) <=> x.of = m /\ x.kind \in {"begin", "body", "end"}
<1>1. CASE x \in OwnOnes
  BY <1>1 DEF OwnOnes, Own, LinesOf, Blank, BeginLine, EndLine, Body
<1>2. CASE x = Blank
  BY <1>2 DEF OwnOnes, Own, LinesOf, Blank, BeginLine, EndLine, Body
<1>3. CASE \E n \in Markers : x \in LinesOf(n)
  <2>1. PICK n \in Markers : x \in LinesOf(n)
    BY <1>3
  <2>2. x.of = n /\ x.kind \in {"begin", "body", "end"}
    BY <2>1 DEF LinesOf, BeginLine, EndLine, Body
  <2>3. x \notin OwnOnes /\ x # Blank
    BY <2>2 DEF OwnOnes, Own, Blank
  <2>4. \A m \in Markers : x \in LinesOf(m) => x.of = m
    BY DEF LinesOf, BeginLine, EndLine, Body
  <2>5. QED
    BY <2>1, <2>2, <2>3, <2>4
<1>4. QED
  BY <1>1, <1>2, <1>3 DEF Lines

\* What the reader does with a line, by its kind.
LEMMA ReadsKinds ==
    ASSUME NEW q \in Places, NEW x \in Lines
    PROVE  /\ q = Bad => Reads(q, x) = Bad
           /\ x.kind \in {"own", "blank"} => Reads(q, x) = IF q = Free THEN Free ELSE Bad
           /\ x.kind = "begin" => Reads(q, x) = IF q = Free THEN In(x.of) ELSE Bad
           /\ x.kind = "body" => Reads(q, x) = IF q = In(x.of) THEN q ELSE Bad
           /\ x.kind = "end" => Reads(q, x) = IF q = In(x.of) THEN Free ELSE Bad
<1>1. x.kind \in {"own", "blank", "begin", "body", "end"}
  BY Shapes
<1>2. x \in OwnOnes \cup {Blank} <=> x.kind \in {"own", "blank"}
  BY Shapes
<1>3. Free # Bad /\ In(x.of) # Bad /\ In(x.of) # Free
  BY DEF Free, Bad, In
<1> QED
  BY <1>1, <1>2, <1>3 DEF Reads

LEMMA PlacesFacts ==
    /\ Free \in Places /\ Bad \in Places /\ \A m \in Markers : In(m) \in Places
    /\ Free # Bad /\ \A m : In(m) # Free /\ In(m) # Bad
    /\ \A m, n : In(m) = In(n) => m = n
BY DEF Free, Bad, In, Places

LEMMA BadStays == ASSUME NEW s \in Seq(Lines) PROVE ReadsAll(Bad, s) = Bad
<1> DEFINE S == {t \in Seq(Lines) : ReadsAll(Bad, t) = Bad}
<1>1. <<>> \in S
  BY ReadsEmpty, EmptySeq, PlacesFacts
<1>2. ASSUME NEW t \in Seq(Lines), NEW x \in Lines, t \in S PROVE Append(t, x) \in S
  <2>1. Append(t, x) \in Seq(Lines)
    BY AppendProperties
  <2>2. ReadsAll(Bad, Append(t, x)) = Reads(ReadsAll(Bad, t), x)
    BY ReadsAppend, PlacesFacts
  <2>3. ReadsAll(Bad, t) = Bad
    BY <1>2
  <2>4. Reads(Bad, x) = Bad
    BY ReadsKinds, PlacesFacts
  <2>5. QED
    BY <2>1, <2>2, <2>3, <2>4
<1>3. Seq(Lines) \subseteq S
  <2> HIDE DEF S
  <2>1. QED
    BY <1>1, <1>2, SeqInduct
<1>4. QED
  BY <1>3

\* Inside a block there is a begin line, and no end line since.
LEMMA Inside ==
    ASSUME NEW s \in Seq(Lines), NEW m \in Markers, ReadsAll(Free, s) = In(m)
    PROVE  \E b \in 1..Len(s) :
               /\ IsMark(s[b], "begin", m)
               /\ \A k \in b..Len(s) : ~IsMark(s[k], "end", m)
<1> DEFINE Opened(t) == \E b \in 1..Len(t) : /\ IsMark(t[b], "begin", m)
                                             /\ \A k \in b..Len(t) : ~IsMark(t[k], "end", m)
    S == {t \in Seq(Lines) : ReadsAll(Free, t) = In(m) => Opened(t)}
<1>1. <<>> \in S
  <2>1. ReadsAll(Free, <<>>) # In(m)
    BY ReadsEmpty, PlacesFacts
  <2>2. QED
    BY <2>1, EmptySeq
<1>2. ASSUME NEW t \in Seq(Lines), NEW x \in Lines, t \in S PROVE Append(t, x) \in S
  <2>1. PICK r : r = Append(t, x)
    OBVIOUS
  <2>2. /\ r \in Seq(Lines) /\ Len(r) = Len(t) + 1 /\ Len(t) \in Nat /\ r[Len(r)] = x
        /\ \A n \in 1..Len(t) : r[n] = t[n]
    BY <2>1, OneMore
  <2>3. SUFFICES ASSUME ReadsAll(Free, r) = In(m) PROVE Opened(r)
    BY <2>1, <2>2
  <2>4. ReadsAll(Free, t) \in Places /\ ReadsAll(Free, r) = Reads(ReadsAll(Free, t), x)
    BY <2>1, ReadsAppend, PlacesFacts
  <2>5. PICK q \in Places : q = ReadsAll(Free, t)
    BY <2>4
  <2>6. Reads(q, x) = In(m)
    BY <2>3, <2>4, <2>5
  <2>7. \/ x.kind = "begin" /\ In(x.of) = In(m)
        \/ x.kind = "body" /\ q = In(m)
    <3>1. Bad # In(m) /\ Free # In(m)
      BY PlacesFacts
    <3>2. x.kind \in {"own", "blank", "begin", "body", "end"}
      BY Shapes
    <3>3. CASE x.kind \in {"own", "blank"}
      BY <2>6, <3>1, <3>3, ReadsKinds
    <3>4. CASE x.kind = "begin"
      BY <2>6, <3>1, <3>4, ReadsKinds
    <3>5. CASE x.kind = "body"
      BY <2>6, <3>1, <3>5, ReadsKinds
    <3>6. CASE x.kind = "end"
      BY <2>6, <3>1, <3>6, ReadsKinds
    <3>7. QED
      BY <3>2, <3>3, <3>4, <3>5, <3>6
  <2>8. CASE x.kind = "begin" /\ In(x.of) = In(m)
    <3>1. x.of = m
      BY <2>8, PlacesFacts
    <3>2. IsMark(r[Len(r)], "begin", m) /\ ~IsMark(r[Len(r)], "end", m)
      BY <2>2, <2>8, <3>1 DEF IsMark
    <3>3. Len(r) \in 1..Len(r) /\ \A k \in Len(r)..Len(r) : k = Len(r)
      BY <2>2
    <3>4. QED
      BY <3>2, <3>3
  <2>9. CASE x.kind = "body" /\ q = In(m)
    <3>1. PICK b \in 1..Len(t) : /\ IsMark(t[b], "begin", m)
                                 /\ \A k \in b..Len(t) : ~IsMark(t[k], "end", m)
      BY <1>2, <2>5, <2>9
    <3>2. b \in 1..Len(r) /\ IsMark(r[b], "begin", m)
      BY <2>2, <3>1
    <3>3. ASSUME NEW k \in b..Len(r) PROVE ~IsMark(r[k], "end", m)
      <4>1. CASE k = Len(r)
        BY <2>2, <2>9, <4>1 DEF IsMark
      <4>2. CASE k \in b..Len(t)
        <5>1. k \in 1..Len(t)
          BY <2>2, <4>2
        <5>2. QED
          BY <2>2, <3>1, <4>2, <5>1
      <4>3. QED
        BY <2>2, <4>1, <4>2
    <3>4. QED
      BY <3>2, <3>3
  <2>10. QED
    BY <2>7, <2>8, <2>9
<1>3. Seq(Lines) \subseteq S
  <2> HIDE DEF S
  <2>1. QED
    BY <1>1, <1>2, SeqInduct
<1>4. Opened(s)
  BY <1>3
<1>5. QED
  BY <1>4

\* amipkg_strip_overlay takes the lines of its package and leaves the rest.
LEMMA StripsItsOwn ==
    ASSUME NEW s \in Seq(Lines), NEW m \in Markers, ReadsAll(Free, s) = Free
    PROVE  LET r == Scan(s, m).out IN
           /\ r \in Seq(Lines) /\ ReadsAll(Free, r) = Free /\ Len(r) <= Len(s)
           /\ Only(r, OwnOnes) = Only(s, OwnOnes) /\ Only(r, LinesOf(m)) = <<>>
           /\ \A n \in Markers \ {m} : Only(r, LinesOf(n)) = Only(s, LinesOf(n))
<1> DEFINE Right(t, a, q) ==
        /\ Len(a.out) <= Len(t)
        /\ a.inside <=> q = In(m)
        /\ ReadsAll(Free, a.out) = IF q = In(m) THEN Free ELSE q
        /\ Only(a.out, OwnOnes) = Only(t, OwnOnes)
        /\ Only(a.out, LinesOf(m)) = <<>>
        /\ \A n \in Markers \ {m} : Only(a.out, LinesOf(n)) = Only(t, LinesOf(n))
    S == {t \in Seq(Lines) : ReadsAll(Free, t) # Bad => Right(t, Scan(t, m), ReadsAll(Free, t))}
<1>1. <<>> \in S
  <2>1. PICK e \in Seq(Lines) : e = <<>> /\ Len(e) = 0
    BY EmptySeq
  <2>2. PICK a : a = Scan(e, m)
    OBVIOUS
  <2>3. a.out = e /\ a.inside = FALSE
    BY <2>1, <2>2, ScanEmpty DEF Outside
  <2>4. ReadsAll(Free, e) = Free /\ Free # In(m)
    BY <2>1, ReadsEmpty, PlacesFacts
  <2>5. Only(e, LinesOf(m)) = <<>>
    BY <2>1, OnlyEmpty
  <2>6. Right(e, a, Free)
    BY <2>1, <2>3, <2>4, <2>5
  <2>7. QED
    BY <2>1, <2>2, <2>4, <2>6
<1>2. ASSUME NEW t \in Seq(Lines), NEW x \in Lines, t \in S PROVE Append(t, x) \in S
  <2>1. PICK r : r = Append(t, x)
    OBVIOUS
  <2>2. r \in Seq(Lines) /\ Len(r) = Len(t) + 1 /\ Len(t) \in Nat
    BY <2>1, OneMore
  <2>3. SUFFICES ASSUME ReadsAll(Free, r) # Bad
                 PROVE  Right(r, Scan(r, m), ReadsAll(Free, r))
    BY <2>1, <2>2
  <2>4. ReadsAll(Free, t) \in Places /\ ReadsAll(Free, r) = Reads(ReadsAll(Free, t), x)
    BY <2>1, ReadsAppend, PlacesFacts
  <2>5. PICK q \in Places : q = ReadsAll(Free, t)
    BY <2>4
  <2>6. PICK z : z = Reads(q, x)
    OBVIOUS
  <2>7. z = ReadsAll(Free, r) /\ z # Bad /\ q # Bad
    BY <2>3, <2>4, <2>5, <2>6, ReadsKinds
  <2>8. Scan(t, m) \in Scans /\ Scan(r, m) = StripLine(Scan(t, m), x, m)
    BY <2>1, ScanAppend
  <2>9. PICK a \in Scans : a = Scan(t, m)
    BY <2>8
  <2>10. PICK c : c = StripLine(a, x, m)
    OBVIOUS
  <2>11. c = Scan(r, m)
    BY <2>8, <2>9, <2>10
  <2>12. Right(t, a, q)
    BY <1>2, <2>5, <2>7, <2>9
  <2>13. /\ a.out \in Seq(Lines) /\ a.inside \in BOOLEAN /\ Len(a.out) \in Nat
         /\ \A b : [a EXCEPT !.inside = b].out = a.out /\ [a EXCEPT !.inside = b].inside = b
         /\ \A b : [a EXCEPT !.out = b].out = b /\ [a EXCEPT !.out = b].inside = a.inside
    BY LenProperties DEF Scans
  <2>14. \A K : Only(r, K) = IF x \in K THEN Append(Only(t, K), x) ELSE Only(t, K)
    BY <2>1, OnlyAppend
  <2>15. /\ x.kind \in {"own", "blank", "begin", "body", "end"}
         /\ x \in OwnOnes <=> x.kind = "own"
         /\ \A n \in Markers :
                x \in LinesOf(n) <=> x.of = n /\ x.kind \in {"begin", "body", "end"}
    BY Shapes
  <2>16. Free # In(m) /\ In(m) # Bad /\ Free # Bad /\ (In(x.of) = In(m) => x.of = m)
    BY PlacesFacts
  <2>17. /\ x.kind \in {"own", "blank"} => q = Free /\ z = Free
         /\ x.kind = "begin" => q = Free /\ z = In(x.of)
         /\ x.kind = "body" => q = In(x.of) /\ z = q
         /\ x.kind = "end" => q = In(x.of) /\ z = Free
    BY <2>6, <2>7, ReadsKinds
  \* A line of the block that is taken out.
  <2>18. ASSUME x.of = m, x.kind \in {"begin", "body", "end"}, c.out = a.out
         PROVE  /\ Len(c.out) <= Len(r)
                /\ Only(c.out, OwnOnes) = Only(r, OwnOnes)
                /\ Only(c.out, LinesOf(m)) = <<>>
                /\ \A n \in Markers \ {m} : Only(c.out, LinesOf(n)) = Only(r, LinesOf(n))
    <3>1. x \notin OwnOnes /\ \A n \in Markers \ {m} : x \notin LinesOf(n)
      BY <2>15, <2>18
    <3>2. Only(r, OwnOnes) = Only(t, OwnOnes)
      BY <2>14, <3>1
    <3>3. \A n \in Markers \ {m} : Only(r, LinesOf(n)) = Only(t, LinesOf(n))
      BY <2>14, <3>1
    <3>4. Len(c.out) <= Len(r)
      BY <2>2, <2>12, <2>13, <2>18
    <3>5. QED
      BY <2>12, <2>18, <3>2, <3>3, <3>4
  <2>19. CASE a.inside
    <3>1. q = In(m)
      BY <2>12, <2>19
    <3>2. x.of = m /\ x.kind \in {"body", "end"}
      BY <2>15, <2>16, <2>17, <3>1
    <3>3. c.out = a.out /\ (c.inside <=> x.kind = "body")
      BY <2>10, <2>13, <2>19, <3>2 DEF StripLine, IsMark
    <3>4. z = IF x.kind = "body" THEN In(m) ELSE Free
      BY <2>17, <3>1, <3>2
    <3>5. ReadsAll(Free, c.out) = Free
      BY <2>12, <3>1, <3>3
    <3>6. Right(r, c, z)
      BY <2>16, <2>18, <3>2, <3>3, <3>4, <3>5
    <3>7. QED
      BY <2>7, <2>11, <3>6
  <2>20. CASE ~a.inside /\ IsMark(x, "begin", m)
    <3>1. x.of = m /\ x.kind = "begin"
      BY <2>20 DEF IsMark
    <3>2. c.out = a.out /\ c.inside = TRUE
      BY <2>10, <2>13, <2>20 DEF StripLine
    <3>3. q = Free /\ z = In(m)
      BY <2>17, <3>1
    <3>4. ReadsAll(Free, c.out) = Free
      BY <2>12, <2>16, <3>2, <3>3
    <3>5. Right(r, c, z)
      BY <2>18, <3>1, <3>2, <3>3, <3>4
    <3>6. QED
      BY <2>7, <2>11, <3>5
  <2>21. CASE ~a.inside /\ ~IsMark(x, "begin", m)
    <3>1. c.out = Append(a.out, x) /\ c.inside = a.inside
      BY <2>10, <2>13, <2>21 DEF StripLine
    <3>2. q # In(m) /\ ReadsAll(Free, a.out) = q
      BY <2>12, <2>21
    <3>3. ReadsAll(Free, c.out) = z
      <4>1. ReadsAll(Free, Append(a.out, x)) = Reads(ReadsAll(Free, a.out), x)
        BY <2>13, ReadsAppend, PlacesFacts
      <4>2. QED
        BY <2>6, <3>1, <3>2, <4>1
    <3>4. ~(x.kind = "begin" /\ x.of = m)
      BY <2>21 DEF IsMark
    <3>5. z # In(m)
      BY <2>15, <2>16, <2>17, <3>2, <3>4
    <3>6. x \notin LinesOf(m)
      BY <2>15, <2>17, <3>2, <3>4
    <3>7. \A K : Only(c.out, K) =
                     IF x \in K THEN Append(Only(a.out, K), x) ELSE Only(a.out, K)
      <4>1. PICK d \in Seq(Lines) : d = a.out
        BY <2>13
      <4>2. \A K : Only(Append(d, x), K) = IF x \in K THEN Append(Only(d, K), x) ELSE Only(d, K)
        BY OnlyAppend
      <4>3. QED
        BY <3>1, <4>1, <4>2
    <3>8. Only(c.out, OwnOnes) = Only(r, OwnOnes)
      BY <2>12, <2>14, <3>7
    <3>9. Only(c.out, LinesOf(m)) = <<>>
      BY <2>12, <3>6, <3>7
    <3>10. \A n \in Markers \ {m} : Only(c.out, LinesOf(n)) = Only(r, LinesOf(n))
      BY <2>12, <2>14, <3>7
    <3>11. Len(c.out) <= Len(r)
      <4>1. Len(c.out) = Len(a.out) + 1
        BY <2>13, <3>1, AppendProperties
      <4>2. QED
        BY <2>2, <2>12, <2>13, <4>1
    <3>12. Right(r, c, z)
      BY <2>21, <3>1, <3>3, <3>5, <3>8, <3>9, <3>10, <3>11
    <3>13. QED
      BY <2>7, <2>11, <3>12
  <2>22. QED
    BY <2>13, <2>19, <2>20, <2>21
<1>3. Seq(Lines) \subseteq S
  <2> HIDE DEF S
  <2>1. QED
    BY <1>1, <1>2, SeqInduct
<1>4. Right(s, Scan(s, m), Free)
  BY <1>3, PlacesFacts
<1>5. Scan(s, m).out \in Seq(Lines)
  <2>1. PICK f \in [0..Len(s) -> Scans] : Scan(s, m) = f[Len(s)]
    BY ScanCourse
  <2>2. Len(s) \in 0..Len(s)
    BY LenProperties
  <2>3. QED
    BY <2>1, <2>2 DEF Scans
<1>6. QED
  BY <1>4, <1>5, PlacesFacts

\* What the readers make of a block.
LEMMA BlockReads ==
    ASSUME NEW m \in Markers, NEW t \in Tools, NEW v \in Versions, NEW s \in Seq(Lines),
           ReadsAll(Free, s) = Free
    PROVE  LET r == s \o Block(m, t, v) IN
           /\ r \in Seq(Lines) /\ Len(r) = Len(s) + 3 /\ ReadsAll(Free, r) = Free
           /\ Only(r, OwnOnes) = Only(s, OwnOnes)
           /\ \A n \in Markers \ {m} : Only(r, LinesOf(n)) = Only(s, LinesOf(n))
           /\ Only(s, LinesOf(m)) = <<>> => Only(r, LinesOf(m)) = Block(m, t, v)
<1>1. PICK x, y, z : x = BeginLine(m, t) /\ y = Body(m, v) /\ z = EndLine(m, t)
  OBVIOUS
<1>2. x \in Lines /\ y \in Lines /\ z \in Lines
  BY <1>1, BlockLines
<1>3. PICK a, b, c : a = Append(s, x) /\ b = Append(a, y) /\ c = Append(b, z)
  OBVIOUS
<1>4. /\ a \in Seq(Lines) /\ b \in Seq(Lines) /\ c \in Seq(Lines) /\ Len(s) \in Nat
      /\ Len(a) = Len(s) + 1 /\ Len(b) = Len(a) + 1 /\ Len(c) = Len(b) + 1
  <2>1. a \in Seq(Lines) /\ Len(a) = Len(s) + 1 /\ Len(s) \in Nat
    BY <1>2, <1>3, AppendProperties, LenProperties
  <2>2. b \in Seq(Lines) /\ Len(b) = Len(a) + 1
    BY <1>2, <1>3, <2>1, AppendProperties
  <2>3. c \in Seq(Lines) /\ Len(c) = Len(b) + 1
    BY <1>2, <1>3, <2>2, AppendProperties
  <2>4. QED
    BY <2>1, <2>2, <2>3
<1>5. c = s \o Block(m, t, v)
  BY <1>1, <1>2, <1>3, ConcatThree DEF Block
<1>6. /\ x.kind = "begin" /\ x.of = m /\ y.kind = "body" /\ y.of = m
      /\ z.kind = "end" /\ z.of = m
  BY <1>1 DEF BeginLine, Body, EndLine
<1>7. ReadsAll(Free, c) = Free
  <2>1. Free \in Places /\ In(m) \in Places
    BY PlacesFacts
  <2>2. ReadsAll(Free, a) = Reads(Free, x)
    BY <1>2, <1>3, <2>1, ReadsAppend
  <2>3. Reads(Free, x) = In(m)
    BY <1>2, <1>6, <2>1, ReadsKinds
  <2>4. ReadsAll(Free, b) = Reads(ReadsAll(Free, a), y)
    BY <1>2, <1>3, <1>4, <2>1, ReadsAppend
  <2>5. Reads(In(m), y) = In(m)
    BY <1>2, <1>6, <2>1, ReadsKinds
  <2>6. ReadsAll(Free, c) = Reads(ReadsAll(Free, b), z)
    BY <1>2, <1>3, <1>4, <2>1, ReadsAppend
  <2>7. Reads(In(m), z) = Free
    BY <1>2, <1>6, <2>1, ReadsKinds
  <2>8. QED
    BY <2>2, <2>3, <2>4, <2>5, <2>6, <2>7
<1>8. /\ \A K : Only(a, K) = IF x \in K THEN Append(Only(s, K), x) ELSE Only(s, K)
      /\ \A K : Only(b, K) = IF y \in K THEN Append(Only(a, K), y) ELSE Only(a, K)
      /\ \A K : Only(c, K) = IF z \in K THEN Append(Only(b, K), z) ELSE Only(b, K)
  <2>1. \A K : Only(a, K) = IF x \in K THEN Append(Only(s, K), x) ELSE Only(s, K)
    BY <1>2, <1>3, OnlyAppend
  <2>2. \A K : Only(b, K) = IF y \in K THEN Append(Only(a, K), y) ELSE Only(a, K)
    <3>1. a \in Seq(Lines) /\ y \in Lines
      BY <1>2, <1>4
    <3>2. \A K : Only(Append(a, y), K) = IF y \in K THEN Append(Only(a, K), y) ELSE Only(a, K)
      BY <3>1, OnlyAppend
    <3>3. QED
      BY <1>3, <3>2
  <2>3. \A K : Only(c, K) = IF z \in K THEN Append(Only(b, K), z) ELSE Only(b, K)
    <3>1. b \in Seq(Lines) /\ z \in Lines
      BY <1>2, <1>4
    <3>2. \A K : Only(Append(b, z), K) = IF z \in K THEN Append(Only(b, K), z) ELSE Only(b, K)
      BY <3>1, OnlyAppend
    <3>3. QED
      BY <1>3, <3>2
  <2>4. QED
    BY <2>1, <2>2, <2>3
<1>9. ASSUME NEW K, x \notin K, y \notin K, z \notin K PROVE Only(c, K) = Only(s, K)
  BY <1>8, <1>9
<1>10. Only(c, OwnOnes) = Only(s, OwnOnes)
  <2>1. x \notin OwnOnes /\ y \notin OwnOnes /\ z \notin OwnOnes
    BY <1>2, <1>6, Shapes
  <2>2. QED
    BY <1>9, <2>1
<1>11. ASSUME NEW n \in Markers \ {m} PROVE Only(c, LinesOf(n)) = Only(s, LinesOf(n))
  <2>1. x \notin LinesOf(n) /\ y \notin LinesOf(n) /\ z \notin LinesOf(n)
    BY <1>2, <1>6, Shapes
  <2>2. QED
    BY <1>9, <2>1
<1>12. ASSUME Only(s, LinesOf(m)) = <<>> PROVE Only(c, LinesOf(m)) = Block(m, t, v)
  <2>1. x \in LinesOf(m) /\ y \in LinesOf(m) /\ z \in LinesOf(m)
    BY <1>2, <1>6, Shapes
  <2>2. Only(c, LinesOf(m)) = Append(Append(Append(<<>>, x), y), z)
    BY <1>8, <1>12, <2>1
  <2>3. <<>> \in Seq(Lines)
    BY EmptySeq
  <2>4. <<>> \o <<x, y, z>> = Append(Append(Append(<<>>, x), y), z)
    BY <1>2, <2>3, ConcatThree
  <2>5. Block(m, t, v) \in Seq(Lines) /\ Block(m, t, v) = <<x, y, z>>
    BY <1>1, BlockLines DEF Block
  <2>6. <<>> \o <<x, y, z>> = <<x, y, z>>
    BY <2>5, ConcatEmptySeq
  <2>7. QED
    BY <2>2, <2>4, <2>5, <2>6
<1>13. Len(c) = Len(s) + 3
  BY <1>4
<1>14. QED
  BY <1>4, <1>5, <1>7, <1>10, <1>11, <1>12, <1>13

\* Amiga Imager's blocks, one after the other.
LEMMA HostReads ==
    ASSUME NEW s \in Seq(Built), installed \in [Markers -> {0} \cup Versions],
           \A i, j \in 1..Len(s) : i # j => s[i] # s[j]
    PROVE  LET r == HostBlocks(s) IN
           /\ r \in Seq(Lines) /\ ReadsAll(Free, r) = Free /\ Only(r, OwnOnes) = <<>>
           /\ \A m \in Markers : Only(r, LinesOf(m)) =
                  IF m \in ToSet(s) THEN Block(m, "host", installed[m]) ELSE <<>>
<1> DEFINE Different(t) == \A i, j \in 1..Len(t) : i # j => t[i] # t[j]
    Right(r, M) ==
        /\ r \in Seq(Lines) /\ ReadsAll(Free, r) = Free /\ Only(r, OwnOnes) = <<>>
        /\ \A m \in Markers : Only(r, LinesOf(m)) =
               IF m \in M THEN Block(m, "host", installed[m]) ELSE <<>>
    S == {t \in Seq(Built) : Different(t) => Right(HostBlocks(t), ToSet(t))}
<1>1. <<>> \in S
  <2>1. PICK e \in Seq(Lines) : e = <<>>
    BY EmptySeq
  <2>2. HostBlocks(<<>>) = e
    BY <2>1, HostEmpty
  <2>3. ReadsAll(Free, e) = Free /\ \A K : Only(e, K) = <<>>
    BY <2>1, ReadsEmpty, OnlyEmpty, PlacesFacts
  <2>4. Right(e, {})
    BY <2>1, <2>3
  <2>5. QED
    BY <2>2, <2>4, ToSetEmpty, EmptySeq
<1>2. ASSUME NEW t \in Seq(Built), NEW x \in Built, t \in S PROVE Append(t, x) \in S
  <2>1. PICK u : u = Append(t, x)
    OBVIOUS
  <2>2. /\ u \in Seq(Built) /\ Len(u) = Len(t) + 1 /\ Len(t) \in Nat /\ u[Len(u)] = x
        /\ \A n \in 1..Len(t) : u[n] = t[n]
    BY <2>1, OneMore
  <2>3. SUFFICES ASSUME Different(u) PROVE Right(HostBlocks(u), ToSet(u))
    BY <2>1, <2>2
  <2>4. \A n \in 1..Len(t) : n \in 1..Len(u) /\ n # Len(u)
    BY <2>2
  <2>5. Len(u) \in 1..Len(u)
    BY <2>2
  <2>6. Different(t)
    BY <2>2, <2>3, <2>4
  <2>7. x \notin ToSet(t)
    <3>1. DOMAIN t = 1..Len(t)
      BY LenProperties
    <3>2. \A n \in 1..Len(t) : t[n] # x
      BY <2>2, <2>3, <2>4, <2>5
    <3>3. QED
      BY <3>1, <3>2 DEF ToSet
  <2>8. ToSet(u) = ToSet(t) \cup {x}
    BY <2>1, ToSetAppend
  <2>9. PICK r : r = HostBlocks(t)
    OBVIOUS
  <2>10. Right(r, ToSet(t))
    BY <1>2, <2>6, <2>9
  <2>11. x \in Markers /\ "host" \in Tools /\ installed[x] \in Versions
    BY DEF Built, Tools
  <2>12. PICK c : c = r \o Block(x, "host", installed[x])
    OBVIOUS
  <2>13. HostBlocks(u) = c
    BY <2>1, <2>9, <2>12, HostAppend
  <2>14. Only(r, LinesOf(x)) = <<>>
    BY <2>7, <2>10, <2>11
  <2>15. /\ c \in Seq(Lines) /\ ReadsAll(Free, c) = Free
         /\ Only(c, OwnOnes) = Only(r, OwnOnes)
         /\ \A n \in Markers \ {x} : Only(c, LinesOf(n)) = Only(r, LinesOf(n))
         /\ Only(c, LinesOf(x)) = Block(x, "host", installed[x])
    BY <2>10, <2>11, <2>12, <2>14, BlockReads
  <2>16. Right(c, ToSet(u))
    <3>1. ASSUME NEW n \in Markers
          PROVE  Only(c, LinesOf(n)) =
                     IF n \in ToSet(u) THEN Block(n, "host", installed[n]) ELSE <<>>
      <4>1. CASE n = x
        BY <2>8, <2>15, <4>1
      <4>2. CASE n # x
        <5>1. n \in ToSet(u) <=> n \in ToSet(t)
          BY <2>8, <4>2
        <5>2. QED
          BY <2>10, <2>15, <4>2, <5>1
      <4>3. QED
        BY <4>1, <4>2
    <3>2. QED
      BY <2>10, <2>15, <3>1
  <2>17. QED
    BY <2>13, <2>16
<1>3. Seq(Built) \subseteq S
  <2> HIDE DEF S
  <2>1. QED
    BY <1>1, <1>2, SeqInduct
<1>4. Right(HostBlocks(s), ToSet(s))
  BY <1>3
<1>5. QED
  BY <1>4

-----------------------------------------------------------------------------
(***************************************************************************)
(* The invariant holds initially.                                          *)
(***************************************************************************)
LEMMA BuiltOnce ==
    ASSUME NEW s \in SetToSeqs(Built)
    PROVE  /\ s \in Seq(Built) /\ ToSet(s) = Built
           /\ \A i, j \in 1..Len(s) : i # j => s[i] # s[j]
<1>1. IsFiniteSet(Built)
  <2>1. Built \in SUBSET Markers
    BY DEF Built
  <2>2. QED
    BY <2>1, BootScriptConstants, FS_Subset
<1>2. PICK N : N = Cardinality(Built)
  OBVIOUS
<1>3. N \in Nat
  BY <1>1, <1>2, FS_CardinalityType
<1>4. s \in [1..N -> Built] /\ \A i, j \in 1..N : i # j => s[i] # s[j]
  BY <1>2 DEF SetToSeqs
<1>5. s \in Seq(Built) /\ Len(s) = N /\ DOMAIN s = 1..N
  BY <1>3, <1>4
<1>6. s \in Injection(1..N, Built)
  BY <1>4 DEF Injection, IsInjective
<1>7. IsFiniteSet(1..N) /\ Cardinality(1..N) = N
  <2>1. 1 \in Int /\ N \in Int
    BY <1>3
  <2>2. IsFiniteSet(1..N) /\ Cardinality(1..N) = IF 1 > N THEN 0 ELSE N - 1 + 1
    BY <2>1, FS_Interval
  <2>3. QED
    BY <1>3, <2>2
<1>8. s \in Surjection(1..N, Built)
  BY <1>1, <1>2, <1>6, <1>7, FS_Injection
<1>9. ToSet(s) = Built
  BY <1>4, <1>5, <1>8 DEF Surjection, ToSet
<1>10. QED
  BY <1>4, <1>5, <1>9

LEMMA VersionFacts == Versions \subseteq Nat /\ 0 \notin Versions /\ Cap \in Nat
BY BootScriptConstants

\* The lines of a package, when there is or is not a begin line of it.
LEMMA BlockMarks ==
    ASSUME NEW m \in Markers, NEW t \in Tools, NEW v \in Versions
    PROVE  BeginLine(m, t) \in ToSet(Block(m, t, v)) /\ IsMark(BeginLine(m, t), "begin", m)
<1>1. PICK b : b = Block(m, t, v)
  OBVIOUS
<1>2. 1 \in DOMAIN b /\ b[1] = BeginLine(m, t)
  BY <1>1 DEF Block
<1>3. BeginLine(m, t) \in ToSet(b)
  BY <1>2 DEF ToSet
<1>4. QED
  BY <1>1, <1>3 DEF IsMark, BeginLine

\* What the lines of a package can be.
LEMMA WholeOnes ==
    ASSUME NEW m \in Markers
    PROVE  /\ Whole(<<>>, m)
           /\ \A t \in Tools, v \in Versions : Whole(Block(m, t, v), m)
<1>1. ASSUME NEW t \in Tools, NEW b \in BlocksOf(m, t) PROVE b \in Seq(Lines)
  <2>1. CASE b = <<>>
    BY <2>1, EmptySeq
  <2>2. ASSUME NEW v \in Versions, b = Block(m, t, v) PROVE b \in Seq(Lines)
    BY <2>2, BlockLines
  <2>3. QED
    BY <2>1, <2>2 DEF BlocksOf
<1>2. "host" \in Tools /\ "amipkg" \in Tools
  BY DEF Tools
<1>3. \A t : <<>> \in BlocksOf(m, t)
  BY DEF BlocksOf
<1>4. ASSUME NEW b \in BlocksOf(m, "host") PROVE Whole(b, m)
  <2>1. b \o <<>> = b
    BY <1>1, <1>2, ConcatEmptySeq
  <2>2. QED
    BY <1>3, <2>1 DEF Whole
<1>5. ASSUME NEW b \in BlocksOf(m, "amipkg") PROVE Whole(b, m)
  <2>1. <<>> \o b = b
    BY <1>1, <1>2, ConcatEmptySeq
  <2>2. QED
    BY <1>3, <2>1 DEF Whole
<1>6. ASSUME NEW t \in Tools, NEW v \in Versions PROVE Whole(Block(m, t, v), m)
  <2>1. Block(m, t, v) \in BlocksOf(m, t) /\ t \in {"host", "amipkg"}
    BY DEF BlocksOf, Tools
  <2>2. QED
    BY <1>4, <1>5, <2>1
<1>7. QED
  BY <1>3, <1>4, <1>6

LEMMA BlocksAreLines ==
    ASSUME NEW m \in Markers, NEW t \in Tools, NEW b \in BlocksOf(m, t)
    PROVE  b \in Seq(Lines)
<1>1. CASE b = <<>>
  BY <1>1, EmptySeq
<1>2. ASSUME NEW v \in Versions, b = Block(m, t, v) PROVE b \in Seq(Lines)
  BY <1>2, BlockLines
<1>3. QED
  BY <1>1, <1>2 DEF BlocksOf

LEMMA ToSetConcat ==
    ASSUME NEW L, NEW a \in Seq(L), NEW b \in Seq(L)
    PROVE  ToSet(a \o b) = ToSet(a) \cup ToSet(b)
<1> DEFINE S == {s \in Seq(L) : ToSet(a \o s) = ToSet(a) \cup ToSet(s)}
<1>1. <<>> \in S
  BY ConcatEmptySeq, ToSetEmpty, EmptySeq
<1>2. ASSUME NEW s \in Seq(L), NEW x \in L, s \in S PROVE Append(s, x) \in S
  <2>1. Append(s, x) \in Seq(L)
    BY AppendProperties
  <2>2. a \o s \in Seq(L) /\ a \o Append(s, x) = Append(a \o s, x)
    BY ConcatAppend, ConcatProperties
  <2>3. ToSet(Append(a \o s, x)) = ToSet(a \o s) \cup {x}
    <3>1. PICK c \in Seq(L) : c = a \o s
      BY <2>2
    <3>2. ToSet(Append(c, x)) = ToSet(c) \cup {x}
      BY ToSetAppend
    <3>3. QED
      BY <3>1, <3>2
  <2>4. ToSet(Append(s, x)) = ToSet(s) \cup {x}
    BY ToSetAppend
  <2>5. ToSet(a \o s) = ToSet(a) \cup ToSet(s)
    BY <1>2
  <2>6. QED
    BY <2>1, <2>2, <2>3, <2>4, <2>5
<1>3. b \in S
  <2> HIDE DEF S
  <2>1. Seq(L) \subseteq S
    BY <1>1, <1>2, SeqInduct
  <2>2. QED
    BY <2>1
<1>4. QED
  BY <1>3

\* Without a begin line there is no block; without one of amipkg's, none of it.
LEMMA NoBegin ==
    ASSUME NEW m \in Markers, NEW lines, Whole(lines, m)
    PROVE  /\ BeginLine(m, "amipkg") \notin ToSet(lines) => lines \in BlocksOf(m, "host")
           /\ (\A l \in ToSet(lines) : ~IsMark(l, "begin", m)) => lines = <<>>
<1>1. PICK h \in BlocksOf(m, "host"), a \in BlocksOf(m, "amipkg") : lines = h \o a
  BY DEF Whole
<1>2. "host" \in Tools /\ "amipkg" \in Tools
  BY DEF Tools
<1>3. h \in Seq(Lines) /\ a \in Seq(Lines)
  BY <1>2, BlocksAreLines
<1>4. ToSet(lines) = ToSet(h) \cup ToSet(a)
  BY <1>1, <1>3, ToSetConcat
<1>5. \A t \in Tools : \A b \in BlocksOf(m, t) :
          b = <<>> \/ (BeginLine(m, t) \in ToSet(b) /\ IsMark(BeginLine(m, t), "begin", m))
  BY BlockMarks DEF BlocksOf
<1>6. BeginLine(m, "amipkg") \notin ToSet(lines) => lines = h
  <2>1. SUFFICES ASSUME BeginLine(m, "amipkg") \notin ToSet(lines) PROVE lines = h
    OBVIOUS
  <2>2. a = <<>>
    BY <1>2, <1>4, <1>5, <2>1
  <2>3. QED
    BY <1>1, <1>3, <2>2, ConcatEmptySeq
<1>7. ASSUME \A l \in ToSet(lines) : ~IsMark(l, "begin", m) PROVE lines = <<>>
  <2>1. a = <<>> /\ h = <<>>
    BY <1>2, <1>4, <1>5, <1>7
  <2>2. QED
    BY <1>1, <1>3, <2>1, ConcatEmptySeq
<1>8. QED
  BY <1>6, <1>7

LEMMA InitInv == Init => Inv
<1> SUFFICES ASSUME Init PROVE Inv
  OBVIOUS
<1>1. installed \in [Markers -> {0} \cup Versions]
  BY DEF Init
<1>2. JobOK
  BY DEF Init, JobOK
<1>3. SUFFICES Intact
  BY <1>2 DEF Inv
<1>4. PICK us \in {<<>>} \cup {<<Own(u)>> : u \in OwnLines},
           s \in SetToSeqs(Built) : text = us \o HostBlocks(s) /\ theirs = us
  BY DEF Init, Built
<1>5. /\ s \in Seq(Built) /\ ToSet(s) = Built
      /\ \A i, j \in 1..Len(s) : i # j => s[i] # s[j]
  BY <1>4, BuiltOnce
<1>6. PICK r : r = HostBlocks(s)
  OBVIOUS
<1>7. /\ r \in Seq(Lines) /\ ReadsAll(Free, r) = Free /\ Only(r, OwnOnes) = <<>>
      /\ \A m \in Markers : Only(r, LinesOf(m)) =
             IF m \in Built THEN Block(m, "host", installed[m]) ELSE <<>>
  BY <1>1, <1>5, <1>6, HostReads
<1>8. /\ us \in Seq(Lines) /\ ReadsAll(Free, us) = Free /\ Only(us, OwnOnes) = us
      /\ \A m \in Markers : Only(us, LinesOf(m)) = <<>>
  <2>1. CASE us = <<>>
    <3>1. \A K : Only(us, K) = <<>>
      BY <2>1, OnlyEmpty
    <3>2. ReadsAll(Free, us) = Free
      BY <2>1, ReadsEmpty, PlacesFacts
    <3>3. us \in Seq(Lines)
      BY <2>1, EmptySeq
    <3>4. QED
      BY <2>1, <3>1, <3>2, <3>3
  <2>2. CASE \E u \in OwnLines : us = <<Own(u)>>
    <3>1. PICK x \in OwnOnes : us = <<x>>
      BY <2>2 DEF OwnOnes
    <3>2. x \in Lines
      BY <3>1 DEF Lines
    <3>3. x.kind = "own" /\ \A m \in Markers : x \notin LinesOf(m)
      BY <3>1, <3>2, Shapes
    <3>4. PICK e \in Seq(Lines) : e = <<>>
      BY EmptySeq
    <3>5. us = Append(e, x)
      BY <3>1, <3>4
    <3>6. \A K : Only(us, K) = IF x \in K THEN us ELSE <<>>
      <4>1. \A K : Only(Append(e, x), K) = IF x \in K THEN Append(Only(e, K), x) ELSE Only(e, K)
        BY <3>2, OnlyAppend
      <4>2. \A K : Only(e, K) = e
        BY <3>4, OnlyEmpty
      <4>3. QED
        BY <3>4, <3>5, <4>1, <4>2
    <3>7. ReadsAll(Free, us) = Free
      <4>1. ReadsAll(Free, us) = Reads(ReadsAll(Free, e), x)
        BY <3>2, <3>5, ReadsAppend, PlacesFacts
      <4>2. ReadsAll(Free, e) = Free
        BY <3>4, ReadsEmpty, PlacesFacts
      <4>3. Reads(Free, x) = Free
        BY <3>2, <3>3, ReadsKinds, PlacesFacts
      <4>4. QED
        BY <4>1, <4>2, <4>3
    <3>8. us \in Seq(Lines)
      BY <3>2, <3>5, AppendProperties
    <3>9. QED
      BY <3>1, <3>3, <3>6, <3>7, <3>8
  <2>3. QED
    BY <1>4, <2>1, <2>2
<1>9. Script = us \o r /\ Script \in Seq(Lines)
  <2>1. us \o r \in Seq(Lines)
    BY <1>7, <1>8, ConcatProperties
  <2>2. Script = text
    BY DEF Init, Script
  <2>3. QED
    BY <1>4, <1>6, <2>1, <2>2
<1>10. ReadsAll(Free, Script) = Free
  BY <1>7, <1>8, <1>9, ReadsConcat, PlacesFacts
<1>11. \A K : Only(Script, K) = Only(us, K) \o Only(r, K)
  BY <1>7, <1>8, <1>9, OnlyConcat
<1>12. Only(Script, OwnOnes) = theirs
  BY <1>4, <1>7, <1>8, <1>11, ConcatEmptySeq
<1>13. ASSUME NEW m \in Markers PROVE Overlay(m)
  <2>1. PICK lines : lines = Only(Script, LinesOf(m))
    OBVIOUS
  <2>2. Only(r, LinesOf(m)) \in Seq(Lines)
    BY <1>7, OnlyIn
  <2>3. lines = Only(r, LinesOf(m))
    BY <1>8, <1>11, <2>1, <2>2, ConcatEmptySeq
  <2>4. pc = "idle" /\ "host" \in Tools
    BY DEF Init, Tools
  <2>5. CASE installed[m] = 0
    <3>1. lines = <<>>
      BY <1>7, <2>3, <2>5 DEF Built
    <3>2. Whole(lines, m)
      BY <3>1, WholeOnes
    <3>3. QED
      BY <2>1, <2>4, <2>5, <3>1, <3>2 DEF Overlay
  <2>6. CASE installed[m] # 0
    <3>1. lines = Block(m, "host", installed[m])
      BY <1>7, <2>3, <2>6 DEF Built
    <3>2. Whole(lines, m)
      BY <1>1, <2>4, <2>6, <3>1, WholeOnes
    <3>3. QED
      BY <2>1, <2>4, <2>6, <3>1, <3>2 DEF Overlay
  <2>7. QED
    BY <2>5, <2>6
<1>14. QED
  BY <1>9, <1>10, <1>12, <1>13 DEF Intact

-----------------------------------------------------------------------------
(***************************************************************************)
(* Each action keeps the invariant.                                        *)
(***************************************************************************)
\* A package no command is about keeps what it has.
LEMMA OtherOverlay ==
    ASSUME NEW n \in Markers, Overlay(n), ~(pc = "record" /\ job.of = n),
           ~(pc' = "record" /\ job'.of = n),
           Only(Script', LinesOf(n)) = Only(Script, LinesOf(n)),
           installed'[n] = installed[n], n \in failed' <=> n \in failed
    PROVE  Overlay(n)'
<1>1. PICK lines : lines = Only(Script, LinesOf(n)) /\ lines = Only(Script', LinesOf(n))
  OBVIOUS
<1>2. QED
  BY <1>1 DEF Overlay

LEMMA StartStep ==
    ASSUME Inv, NEW m \in Markers,
           RemovePackage(m) \/ \E v \in Versions : InstallPackage(m, v)
    PROVE  Inv'
<1>1. /\ pc = "idle" /\ job'.of = m /\ job'.ver \in {0} \cup Versions
      /\ text' = text /\ theirs' = theirs /\ installed' = installed /\ damaged' = damaged
      /\ failed' = failed
      /\ pc' = (IF installed[m] # 0 THEN "strip" ELSE "inject")
      /\ installed[m] = 0 => job'.ver \in Versions
  BY DEF RemovePackage, InstallPackage
<1>2. JobOK'
  BY <1>1 DEF Inv, JobOK, Stripping
<1>3. SUFFICES ASSUME ~damaged' PROVE Intact'
  BY <1>2 DEF Inv
<1>4. Intact
  BY <1>1, <1>3 DEF Inv
<1>5. Script' = Script /\ pc # "record" /\ pc' # "record"
  BY <1>1 DEF Script
<1>6. ASSUME NEW n \in Markers PROVE Overlay(n)'
  BY <1>1, <1>4, <1>5, OtherOverlay DEF Intact
<1>7. QED
  BY <1>1, <1>4, <1>5, <1>6 DEF Intact

\* What is known when an edit ends.
LEMMA DoneFacts ==
    ASSUME JobOK, pc \in {"strip", "inject", "open", "write"}, NEW ok \in BOOLEAN,
           EditDone(ok), job' = job
    PROVE  /\ damaged' \in BOOLEAN => JobOK'
           /\ job.of \in Markers /\ installed'[job.of] = 0
           /\ \A n \in Markers \ {job.of} : installed'[n] = installed[n]
           /\ \A n \in Markers \ {job.of} : n \in failed' <=> n \in failed
           /\ pc' \in {"idle", "inject", "record"} /\ (pc' = "record" <=> ~Stripping)
           /\ job.of \notin failed' => ok /\ (~Stripping => job.of \notin failed)
           /\ ~Stripping => job.ver \in Versions
<1>1. /\ installed' = [installed EXCEPT ![job.of] = 0] /\ buffer' = <<>>
      /\ installed \in [Markers -> {0} \cup Versions]
      /\ job.of \in Markers /\ job.ver \in {0} \cup Versions
      /\ ~Stripping => job.ver \in Versions
  BY DEF EditDone, JobOK
<1>2. /\ installed' \in [Markers -> {0} \cup Versions] /\ installed'[job.of] = 0
      /\ \A n \in Markers \ {job.of} : installed'[n] = installed[n]
  BY <1>1
<1>3. pc' = CASE ~Stripping -> "record"
              [] Stripping /\ job.ver = 0 -> "idle"
              [] OTHER -> "inject"
  BY DEF EditDone
<1>4. /\ pc' \in {"idle", "inject", "record"} /\ (pc' = "record" <=> ~Stripping)
      /\ pc' = "inject" => Stripping /\ job.ver # 0
  BY <1>3
<1>5. failed' = CASE ~ok -> failed \cup {job.of}
                  [] ok /\ Stripping -> failed \ {job.of}
                  [] OTHER -> failed
  BY DEF EditDone
<1>6. /\ \A n \in Markers \ {job.of} : n \in failed' <=> n \in failed
      /\ job.of \notin failed' => ok /\ (~Stripping => job.of \notin failed)
  BY <1>5
<1>7. ~Stripping'
  BY <1>2 DEF Stripping
<1>8. pc' # "idle" => job.ver \in Versions
  BY <1>1, <1>4
<1>9. damaged' \in BOOLEAN => JobOK'
  BY <1>1, <1>2, <1>4, <1>7, <1>8 DEF JobOK
<1>10. QED
  BY <1>1, <1>2, <1>4, <1>6, <1>9

\* An edit that ends without rewriting the script, unless it counts as failed,
\* leaves one that is as it should be.
LEMMA LeftAlone ==
    ASSUME Inv, pc \in {"strip", "inject", "open"}, NEW ok \in BOOLEAN, EditDone(ok),
           job' = job, text' = text, theirs' = theirs, damaged' = damaged,
           ~damaged /\ Intact /\ ok /\ job.of \notin failed' => NothingToDo(text) /\ pc # "open"
    PROVE  Inv'
<1>1. JobOK /\ damaged \in BOOLEAN
  BY DEF Inv, JobOK
<1>2. /\ JobOK'
      /\ job.of \in Markers /\ installed'[job.of] = 0
      /\ \A n \in Markers \ {job.of} : installed'[n] = installed[n]
      /\ \A n \in Markers \ {job.of} : n \in failed' <=> n \in failed
      /\ pc' \in {"idle", "inject", "record"} /\ (pc' = "record" <=> ~Stripping)
      /\ job.of \notin failed' => ok /\ (~Stripping => job.of \notin failed)
  BY <1>1, DoneFacts
<1>3. SUFFICES ASSUME ~damaged' PROVE Intact'
  BY <1>2 DEF Inv
<1>4. Intact
  BY <1>3 DEF Inv
<1>5. Script' = Script /\ Script = text /\ pc # "record"
  BY <1>2 DEF Script
<1>6. ASSUME NEW n \in Markers PROVE Overlay(n)'
  <2>1. Overlay(n)
    BY <1>4 DEF Intact
  <2>2. CASE n # job.of
    BY <1>2, <1>5, <2>1, <2>2, OtherOverlay
  <2>3. CASE n = job.of
    <3>1. PICK lines : lines = Only(text, LinesOf(n))
      OBVIOUS
    <3>2. Whole(lines, n)
      BY <1>5, <2>1, <3>1 DEF Overlay
    <3>3. ASSUME n \notin failed' PROVE Stripping /\ lines = <<>>
      <4>1. NothingToDo(text)
        BY <1>2, <1>3, <1>4, <2>3, <3>3
      <4>2. ToSet(lines) = ToSet(text) \cap LinesOf(n)
        BY <1>4, <1>5, <3>1, OnlyWithin DEF Intact
      <4>3. CASE Stripping
        <5>1. \A l \in ToSet(lines) : ~IsMark(l, "begin", n)
          BY <2>3, <4>1, <4>2, <4>3 DEF NothingToDo
        <5>2. QED
          BY <3>2, <4>3, <5>1, NoBegin
      <4>4. CASE ~Stripping
        <5>1. BeginLine(n, "amipkg") \in ToSet(lines)
          BY <2>3, <4>1, <4>2, <4>4 DEF NothingToDo, LinesOf, Tools
        <5>2. n \notin failed /\ installed[n] = 0
          BY <1>2, <2>3, <3>3, <4>4 DEF Stripping
        <5>3. lines = <<>>
          BY <1>5, <2>1, <3>1, <5>2 DEF Overlay
        <5>4. QED
          BY <5>1, <5>3, ToSetEmpty
      <4>5. QED
        BY <4>3, <4>4
    <3>4. lines = Only(Script', LinesOf(n)) /\ installed'[n] = 0
      BY <1>2, <1>5, <2>3, <3>1
    <3>5. n \notin failed' => pc' # "record"
      BY <1>2, <3>3
    <3>6. QED
      BY <3>2, <3>3, <3>4, <3>5 DEF Overlay
  <2>4. QED
    BY <2>2, <2>3
<1>7. QED
  BY <1>4, <1>5, <1>6 DEF Intact

\* What is read is part of the script.
LEMMA ReadsPart ==
    ASSUME text \in Seq(Lines), NEW b \in Readable
    PROVE  ToSet(b) \subseteq ToSet(text)
<1>1. PICK n \in 0..Len(text) : b = SubSeq(text, 1, n) \/ b = <<>>
  <2>1. Len(text) \in Nat /\ Cap \in Nat
    BY LenProperties, BootScriptConstants
  <2>2. QED
    BY <2>1 DEF Readable
<1>2. CASE b = <<>>
  BY <1>2, ToSetEmpty
<1>3. CASE b = SubSeq(text, 1, n)
  <2>1. PICK c : c = SubSeq(text, n + 1, Len(text))
    OBVIOUS
  <2>2. b \in Seq(Lines) /\ c \in Seq(Lines) /\ text = b \o c
    BY <1>3, <2>1, Cut
  <2>3. QED
    BY <2>2, ToSetConcat
<1>4. QED
  BY <1>1, <1>2, <1>3

LEMMA ReadScriptStep == ASSUME Inv, NEW b \in Readable, ReadScript(b) PROVE Inv'
<1>1. /\ pc \in {"strip", "inject"} /\ text' = text /\ job' = job /\ theirs' = theirs
      /\ damaged' = damaged
  BY DEF ReadScript
<1>2. CASE NothingToDo(b)
  <2>1. PICK ok \in BOOLEAN : ok = (Stripping => b = text)
    OBVIOUS
  <2>2. EditDone(ok)
    BY <1>2, <2>1 DEF ReadScript
  <2>3. ASSUME Intact, ok PROVE NothingToDo(text)
    <3>1. CASE Stripping
      BY <1>2, <2>1, <2>3, <3>1
    <3>2. CASE ~Stripping
      <4>1. ToSet(b) \subseteq ToSet(text)
        <5>1. text \in Seq(Lines)
          BY <1>1, <2>3 DEF Intact, Script
        <5>2. QED
          BY <5>1, ReadsPart
      <4>2. QED
        BY <1>2, <3>2, <4>1 DEF NothingToDo
    <3>3. QED
      BY <3>1, <3>2
  <2>4. QED
    BY <1>1, <2>2, <2>3, LeftAlone
<1>3. CASE ~NothingToDo(b)
  <2>1. buffer' = b /\ pc' = "open" /\ installed' = installed /\ failed' = failed
    BY <1>3 DEF ReadScript
  <2>2. ~NothingToDo(buffer)'
    BY <1>1, <1>3, <2>1 DEF NothingToDo, Stripping
  <2>3. JobOK'
    BY <1>1, <2>1, <2>2 DEF Inv, JobOK, Stripping
  <2>4. SUFFICES ASSUME ~damaged' PROVE Intact'
    BY <2>3 DEF Inv
  <2>5. Intact /\ Script' = Script
    BY <1>1, <2>1, <2>4 DEF Inv, Script
  <2>6. ASSUME NEW n \in Markers PROVE Overlay(n)'
    BY <1>1, <2>1, <2>5, OtherOverlay DEF Intact
  <2>7. QED
    BY <1>1, <2>5, <2>6 DEF Intact
<1>4. QED
  BY <1>2, <1>3

LEMMA InjectFailsStep == ASSUME Inv, InjectFails PROVE Inv'
<1>1. /\ pc = "inject" /\ EditDone(FALSE) /\ text' = text /\ job' = job
      /\ theirs' = theirs /\ damaged' = damaged
  BY DEF InjectFails
<1>2. QED
  BY <1>1, LeftAlone

LEMMA OpenFailsStep == ASSUME Inv, OpenFails PROVE Inv'
<1>1. /\ pc = "open" /\ EditDone(FALSE) /\ text' = text /\ job' = job
      /\ theirs' = theirs /\ damaged' = damaged
  BY DEF OpenFails
<1>2. QED
  BY <1>1, LeftAlone

LEMMA OpenNewFileStep == ASSUME Inv, OpenNewFile PROVE Inv'
<1>1. /\ pc = "open" /\ pc' = "write" /\ buffer' = buffer /\ job' = job
      /\ damaged' = (damaged \/ buffer # text)
      /\ installed' = installed /\ failed' = failed /\ theirs' = theirs
  BY DEF OpenNewFile
<1>2. NothingToDo(buffer)' = NothingToDo(buffer)
  BY <1>1 DEF NothingToDo, Stripping
<1>3. JobOK'
  BY <1>1, <1>2 DEF Inv, JobOK, Stripping
<1>4. SUFFICES ASSUME ~damaged' PROVE Intact'
  BY <1>3 DEF Inv
<1>5. Intact /\ Script' = Script
  BY <1>1, <1>4 DEF Inv, Script
<1>6. ASSUME NEW n \in Markers PROVE Overlay(n)'
  BY <1>1, <1>5, OtherOverlay DEF Intact
<1>7. QED
  BY <1>1, <1>5, <1>6 DEF Intact

\* What a package has after its block was appended.
Appended(b) == Only(Edited(b), LinesOf(job.of)) =
                   Only(b, LinesOf(job.of)) \o Block(job.of, "amipkg", job.ver)

\* What an edit makes of an intact script it has read.
LEMMA Rewriting ==
    ASSUME JobOK, pc = "write", NEW b \in Seq(Lines), ReadsAll(Free, b) = Free
    PROVE  /\ Edited(b) \in Seq(Lines) /\ ReadsAll(Free, Edited(b)) = Free
           /\ Only(Edited(b), OwnOnes) = Only(b, OwnOnes)
           /\ \A n \in Markers \ {job.of} : Only(Edited(b), LinesOf(n)) = Only(b, LinesOf(n))
           /\ Stripping => Only(Edited(b), LinesOf(job.of)) = <<>>
           /\ ~Stripping => Appended(b)
<1> DEFINE m == job.of
    v == job.ver
<1>1. m \in Markers /\ (~Stripping => v \in Versions) /\ "amipkg" \in Tools
  BY DEF JobOK, Tools
<1>2. CASE Stripping
  <2>1. Edited(b) = Scan(b, m).out
    BY <1>2 DEF Edited
  <2>2. PICK r : r = Scan(b, m).out
    OBVIOUS
  <2>3. /\ r \in Seq(Lines) /\ ReadsAll(Free, r) = Free
        /\ Only(r, OwnOnes) = Only(b, OwnOnes) /\ Only(r, LinesOf(m)) = <<>>
        /\ \A n \in Markers \ {m} : Only(r, LinesOf(n)) = Only(b, LinesOf(n))
    BY <1>1, <2>2, StripsItsOwn
  <2>4. QED
    BY <1>2, <2>1, <2>2, <2>3
<1>3. CASE ~Stripping
  <2>1. Edited(b) = b \o <<Blank>> \o Block(m, "amipkg", v)
    BY <1>3 DEF Edited
  <2>2. Blank \in Lines
    BY DEF Lines
  <2>3. PICK s : s = Append(b, Blank)
    OBVIOUS
  <2>4. s \in Seq(Lines) /\ Edited(b) = s \o Block(m, "amipkg", v)
    <3>1. b \o <<Blank>> = s
      BY <2>2, <2>3, AppendIsConcat
    <3>2. s \in Seq(Lines)
      BY <2>2, <2>3, AppendProperties
    <3>3. QED
      BY <2>1, <3>1, <3>2
  <2>5. Blank.kind = "blank"
    BY DEF Blank
  <2>6. ReadsAll(Free, s) = Free
    <3>1. ReadsAll(Free, s) = Reads(ReadsAll(Free, b), Blank)
      BY <2>2, <2>3, ReadsAppend, PlacesFacts
    <3>2. Reads(Free, Blank) = Free
      BY <2>2, <2>5, ReadsKinds, PlacesFacts
    <3>3. QED
      BY <3>1, <3>2
  <2>7. /\ Only(s, OwnOnes) = Only(b, OwnOnes)
        /\ \A n \in Markers : Only(s, LinesOf(n)) = Only(b, LinesOf(n))
    <3>1. Blank \notin OwnOnes /\ \A n \in Markers : Blank \notin LinesOf(n)
      BY <2>2, <2>5, Shapes
    <3>2. \A K : Only(s, K) = IF Blank \in K THEN Append(Only(b, K), Blank) ELSE Only(b, K)
      <4>1. PICK y \in Lines : y = Blank
        BY <2>2
      <4>2. \A K : Only(Append(b, y), K) = IF y \in K THEN Append(Only(b, K), y) ELSE Only(b, K)
        BY OnlyAppend
      <4>3. QED
        BY <2>3, <4>1, <4>2
    <3>3. QED
      BY <3>1, <3>2
  <2>8. PICK k : k = Block(m, "amipkg", v)
    OBVIOUS
  <2>9. PICK r : r = s \o k
    OBVIOUS
  <2>10. /\ r \in Seq(Lines) /\ ReadsAll(Free, r) = Free
         /\ Only(r, OwnOnes) = Only(s, OwnOnes)
         /\ \A n \in Markers \ {m} : Only(r, LinesOf(n)) = Only(s, LinesOf(n))
    BY <1>1, <1>3, <2>4, <2>6, <2>8, <2>9, BlockReads
  <2>11. Only(r, LinesOf(m)) = Only(s, LinesOf(m)) \o k
    <3>1. k \in Seq(Lines)
      BY <1>1, <1>3, <2>8, BlockLines
    <3>2. Only(r, LinesOf(m)) = Only(s, LinesOf(m)) \o Only(k, LinesOf(m))
      BY <2>4, <2>9, <3>1, OnlyConcat
    <3>3. Only(k, LinesOf(m)) = k
      <4>1. PICK e \in Seq(Lines) : e = <<>>
        BY EmptySeq
      <4>2. e \o k = k
        BY <3>1, <4>1, ConcatEmptySeq
      <4>3. ReadsAll(Free, e) = Free /\ Only(e, LinesOf(m)) = <<>>
        BY <4>1, ReadsEmpty, OnlyEmpty, PlacesFacts
      <4>4. PICK w : w = e \o k
        OBVIOUS
      <4>5. Only(w, LinesOf(m)) = k
        BY <1>1, <1>3, <2>8, <4>3, <4>4, BlockReads
      <4>6. QED
        BY <4>2, <4>4, <4>5
    <3>4. QED
      BY <3>2, <3>3
  <2>12. Edited(b) = r
    BY <2>4, <2>8, <2>9
  <2>13. Appended(b)
    BY <1>1, <2>7, <2>8, <2>11, <2>12 DEF Appended
  <2>14. QED
    BY <1>3, <2>7, <2>10, <2>12, <2>13
<1>4. QED
  BY <1>2, <1>3

\* A write that is not short writes everything.
LEMMA WholeWrite ==
    ASSUME JobOK, pc = "write", Intact, NEW n \in 0..Len(Edited(buffer)),
           ~(n < Len(Edited(buffer))), text' = SubSeq(Edited(buffer), 1, n)
    PROVE  text' = Edited(buffer)
<1>1. buffer \in Seq(Lines) /\ ReadsAll(Free, buffer) = Free
  BY DEF Intact, Script
<1>2. PICK r \in Seq(Lines) : r = Edited(buffer)
  BY <1>1, Rewriting
<1>3. n = Len(r)
  <2>1. Len(r) \in Nat
    BY <1>2, LenProperties
  <2>2. QED
    BY <1>2, <2>1
<1>4. QED
  BY <1>2, <1>3, SubSeqFull

\* A block that is appended because amipkg's is not there makes one more.
LEMMA WholeAppended ==
    ASSUME NEW m \in Markers, NEW v \in Versions, NEW lines, Whole(lines, m),
           BeginLine(m, "amipkg") \notin ToSet(lines)
    PROVE  Whole(lines \o Block(m, "amipkg", v), m)
<1>1. lines \in BlocksOf(m, "host")
  BY NoBegin
<1>2. Block(m, "amipkg", v) \in BlocksOf(m, "amipkg")
  BY DEF BlocksOf
<1>3. QED
  BY <1>1, <1>2 DEF Whole

\* The file is written to the end.
LEMMA WrittenStep ==
    ASSUME Inv, Intact, pc = "write", text' = Edited(buffer), EditDone(TRUE),
           job' = job, theirs' = theirs
    PROVE  Intact'
<1> DEFINE m == job.of
<1>1. JobOK
  BY DEF Inv
<1>2. /\ m \in Markers /\ installed'[m] = 0 /\ ~NothingToDo(buffer)
      /\ \A n \in Markers \ {m} : installed'[n] = installed[n]
      /\ \A n \in Markers \ {m} : n \in failed' <=> n \in failed
      /\ pc' \in {"idle", "inject", "record"} /\ (pc' = "record" <=> ~Stripping)
      /\ m \notin failed' => (~Stripping => m \notin failed)
      /\ ~Stripping => job.ver \in Versions
  <2>1. ~NothingToDo(buffer)
    BY <1>1 DEF JobOK
  <2>2. QED
    BY <1>1, <2>1, DoneFacts
<1>3. Script = buffer /\ Script' = text'
  BY <1>2 DEF Script
<1>4. buffer \in Seq(Lines) /\ ReadsAll(Free, buffer) = Free /\ Only(buffer, OwnOnes) = theirs
  BY <1>3 DEF Intact
<1>5. /\ text' \in Seq(Lines) /\ ReadsAll(Free, text') = Free
      /\ Only(text', OwnOnes) = Only(buffer, OwnOnes)
      /\ \A n \in Markers \ {m} : Only(text', LinesOf(n)) = Only(buffer, LinesOf(n))
      /\ Stripping => Only(text', LinesOf(m)) = <<>>
      /\ ~Stripping => Only(text', LinesOf(m)) =
                           Only(buffer, LinesOf(m)) \o Block(m, "amipkg", job.ver)
  BY <1>1, <1>4, Rewriting DEF Appended
<1>6. ASSUME NEW n \in Markers PROVE Overlay(n)'
  <2>1. Overlay(n)
    BY DEF Intact
  <2>2. CASE n # m
    <3>1. Only(Script', LinesOf(n)) = Only(Script, LinesOf(n))
      BY <1>3, <1>5, <2>2
    <3>2. QED
      BY <1>2, <2>1, <2>2, <3>1, OtherOverlay
  <2>3. CASE n = m /\ Stripping
    <3>1. PICK lines : lines = Only(Script', LinesOf(n))
      OBVIOUS
    <3>2. lines = <<>> /\ Whole(lines, n)
      BY <1>3, <1>5, <2>3, <3>1, WholeOnes
    <3>3. installed'[n] = 0 /\ pc' # "record"
      BY <1>2, <2>3
    <3>4. QED
      BY <3>1, <3>2, <3>3 DEF Overlay
  <2>4. CASE n = m /\ ~Stripping
    <3>1. PICK old, lines, k : /\ old = Only(Script, LinesOf(n))
                               /\ lines = Only(Script', LinesOf(n))
                               /\ k = Block(n, "amipkg", job.ver)
      OBVIOUS
    <3>2. lines = old \o k
      BY <1>3, <1>5, <2>4, <3>1
    <3>3. Whole(old, n)
      BY <2>1, <3>1 DEF Overlay
    <3>4. BeginLine(n, "amipkg") \notin ToSet(old)
      <4>1. ToSet(old) = ToSet(buffer) \cap LinesOf(n)
        BY <1>3, <1>4, <3>1, OnlyWithin
      <4>2. BeginLine(n, "amipkg") \notin ToSet(buffer)
        BY <1>2, <2>4 DEF NothingToDo
      <4>3. QED
        BY <4>1, <4>2
    <3>5. Whole(lines, n)
      BY <1>2, <2>4, <3>1, <3>2, <3>3, <3>4, WholeAppended
    <3>6. n \notin failed' => lines = k
      <4>1. SUFFICES ASSUME n \notin failed' PROVE lines = k
        OBVIOUS
      <4>2. n \notin failed /\ installed[n] = 0
        BY <1>2, <2>4, <4>1 DEF Stripping
      <4>3. old = <<>>
        BY <2>1, <3>1, <4>2 DEF Overlay
      <4>4. k \in Seq(Lines)
        BY <1>2, <2>4, <3>1, BlockLines DEF Tools
      <4>5. QED
        BY <3>2, <4>3, <4>4, ConcatEmptySeq
    <3>7. pc' = "record" /\ job'.of = n /\ job'.ver = job.ver
      BY <1>2, <2>4
    <3>8. QED
      BY <3>1, <3>5, <3>6, <3>7 DEF Overlay
  <2>5. QED
    BY <2>2, <2>3, <2>4
<1>7. QED
  BY <1>3, <1>4, <1>5, <1>6 DEF Intact

LEMMA WriteScriptStep == ASSUME Inv, WriteScript PROVE Inv'
<1>1. /\ pc = "write" /\ Written /\ EditDone(TRUE) /\ job' = job /\ theirs' = theirs
  BY DEF WriteScript
<1>2. JobOK /\ (~damaged => Intact)
  BY DEF Inv
<1>3. PICK n \in 0..Len(Edited(buffer)) :
          /\ text' = SubSeq(Edited(buffer), 1, n)
          /\ damaged' = (damaged \/ n < Len(Edited(buffer)))
  BY <1>1 DEF Written
<1>4. JobOK'
  <2>1. damaged' \in BOOLEAN
    BY <1>3
  <2>2. QED
    BY <1>1, <1>2, <2>1, DoneFacts
<1>5. SUFFICES ASSUME ~damaged' PROVE Intact'
  BY <1>4 DEF Inv
<1>6. Intact /\ ~(n < Len(Edited(buffer)))
  BY <1>2, <1>3, <1>5
<1>7. text' = Edited(buffer)
  BY <1>1, <1>2, <1>3, <1>6, WholeWrite
<1>8. QED
  BY <1>1, <1>6, <1>7, WrittenStep

LEMMA PowerCutStep == ASSUME Inv, PowerCut PROVE Inv'
<1> DEFINE m == job.of
<1>1. /\ pc # "idle" /\ pc' = "idle" /\ job' = job /\ theirs' = theirs
      /\ pc # "write" => text' = text /\ damaged' = damaged
      /\ JobOK /\ (~damaged => Intact) /\ m \in Markers
      /\ installed \in [Markers -> {0} \cup Versions]
  BY DEF PowerCut, Inv, JobOK
<1>2. \/ pc = "strip" /\ installed' = installed /\ failed' = failed
      \/ /\ installed' = [installed EXCEPT ![m] = 0]
         /\ failed' = (IF Stripping \/ pc \in {"write", "record"}
                       THEN failed \cup {m} ELSE failed)
  BY DEF PowerCut
<1>3. /\ installed' \in [Markers -> {0} \cup Versions]
      /\ \A n \in Markers \ {m} : installed'[n] = installed[n]
      /\ \A n \in Markers \ {m} : n \in failed' <=> n \in failed
      /\ m \notin failed' => m \notin failed /\ pc \notin {"write", "record"}
                             /\ installed'[m] = installed[m]
  <2>1. CASE installed' = installed /\ failed' = failed /\ pc = "strip"
    BY <1>1, <2>1
  <2>2. CASE /\ installed' = [installed EXCEPT ![m] = 0]
             /\ failed' = (IF Stripping \/ pc \in {"write", "record"}
                           THEN failed \cup {m} ELSE failed)
    BY <1>1, <2>2 DEF Stripping
  <2>3. QED
    BY <1>2, <2>1, <2>2
<1>4. damaged' \in BOOLEAN
  BY <1>1 DEF PowerCut, Written, JobOK
<1>5. JobOK'
  BY <1>1, <1>3, <1>4 DEF JobOK
<1>6. SUFFICES ASSUME ~damaged' PROVE Intact'
  BY <1>5 DEF Inv
<1>7. CASE pc # "write"
  <2>1. Intact /\ Script' = Script
    BY <1>1, <1>6, <1>7 DEF Script
  <2>2. ASSUME NEW n \in Markers PROVE Overlay(n)'
    <3>1. Overlay(n)
      BY <2>1 DEF Intact
    <3>2. CASE n # m
      BY <1>1, <1>3, <2>1, <3>1, <3>2, OtherOverlay
    <3>3. CASE n = m
      <4>1. PICK lines : lines = Only(Script, LinesOf(n)) /\ lines = Only(Script', LinesOf(n))
        BY <2>1
      <4>2. n \notin failed' => n \notin failed /\ pc # "record" /\ installed'[n] = installed[n]
        BY <1>3, <3>3
      <4>3. QED
        BY <1>1, <3>1, <4>1, <4>2 DEF Overlay
    <3>4. QED
      BY <3>2, <3>3
  <2>3. QED
    BY <1>1, <2>1, <2>2 DEF Intact
<1>8. CASE pc = "write"
  <2>1. PICK n \in 0..Len(Edited(buffer)) :
            /\ text' = SubSeq(Edited(buffer), 1, n)
            /\ damaged' = (damaged \/ n < Len(Edited(buffer)))
    BY <1>8 DEF PowerCut, Written
  <2>2. Intact /\ ~(n < Len(Edited(buffer)))
    BY <1>1, <1>6, <2>1
  <2>3. text' = Edited(buffer)
    BY <1>1, <1>8, <2>1, <2>2, WholeWrite
  <2>4. Script = buffer /\ Script' = text'
    BY <1>1, <1>8 DEF Script
  <2>5. buffer \in Seq(Lines) /\ ReadsAll(Free, buffer) = Free /\ Only(buffer, OwnOnes) = theirs
    BY <2>2, <2>4 DEF Intact
  <2>6. /\ text' \in Seq(Lines) /\ ReadsAll(Free, text') = Free
        /\ Only(text', OwnOnes) = Only(buffer, OwnOnes)
        /\ \A k \in Markers \ {m} : Only(text', LinesOf(k)) = Only(buffer, LinesOf(k))
        /\ Stripping => Only(text', LinesOf(m)) = <<>>
        /\ ~Stripping => Only(text', LinesOf(m)) =
                             Only(buffer, LinesOf(m)) \o Block(m, "amipkg", job.ver)
    BY <1>1, <1>8, <2>3, <2>5, Rewriting DEF Appended
  <2>7. ASSUME NEW k \in Markers PROVE Overlay(k)'
    <3>1. Overlay(k)
      BY <2>2 DEF Intact
    <3>2. CASE k # m
      <4>1. Only(Script', LinesOf(k)) = Only(Script, LinesOf(k))
        BY <2>4, <2>6, <3>2
      <4>2. QED
        BY <1>1, <1>3, <1>8, <3>1, <3>2, <4>1, OtherOverlay
    <3>3. CASE k = m
      <4>1. k \in failed'
        BY <1>3, <1>8, <3>3
      <4>2. PICK old, lines : /\ old = Only(Script, LinesOf(k))
                              /\ lines = Only(Script', LinesOf(k))
        OBVIOUS
      <4>3. Whole(lines, k)
        <5>1. CASE Stripping
          BY <2>4, <2>6, <3>3, <4>2, <5>1, WholeOnes
        <5>2. CASE ~Stripping
          <6>1. lines = old \o Block(k, "amipkg", job.ver) /\ job.ver \in Versions
            BY <1>1, <1>8, <2>4, <2>6, <3>3, <4>2, <5>2 DEF JobOK
          <6>2. Whole(old, k)
            BY <3>1, <4>2 DEF Overlay
          <6>3. BeginLine(k, "amipkg") \notin ToSet(old)
            <7>1. ToSet(old) = ToSet(buffer) \cap LinesOf(k)
              BY <2>4, <2>5, <4>2, OnlyWithin
            <7>2. BeginLine(k, "amipkg") \notin ToSet(buffer)
              BY <1>1, <1>8, <3>3, <5>2 DEF NothingToDo, JobOK
            <7>3. QED
              BY <7>1, <7>2
          <6>4. QED
            BY <6>1, <6>2, <6>3, WholeAppended
        <5>3. QED
          BY <5>1, <5>2
      <4>4. QED
        BY <4>1, <4>2, <4>3 DEF Overlay
    <3>4. QED
      BY <3>2, <3>3
  <2>8. QED
    BY <1>1, <2>4, <2>5, <2>6, <2>7 DEF Intact
<1>9. QED
  BY <1>7, <1>8

LEMMA RecordStep == ASSUME Inv, Record PROVE Inv'
<1> DEFINE m == job.of
<1>1. /\ m \in Markers /\ job.ver \in Versions /\ pc = "record" /\ pc' = "idle"
      /\ installed' = [installed EXCEPT ![m] = job.ver]
      /\ installed \in [Markers -> {0} \cup Versions]
      /\ text' = text /\ theirs' = theirs /\ job' = job /\ failed' = failed
      /\ damaged' = damaged /\ damaged \in BOOLEAN
  BY DEF Record, Inv, JobOK
<1>2. /\ installed' \in [Markers -> {0} \cup Versions] /\ installed'[m] = job.ver
      /\ \A n \in Markers \ {m} : installed'[n] = installed[n]
  BY <1>1
<1>3. JobOK'
  BY <1>1, <1>2 DEF JobOK
<1>4. SUFFICES ASSUME ~damaged' PROVE Intact'
  BY <1>3 DEF Inv
<1>5. Intact /\ Script' = Script
  BY <1>1, <1>4 DEF Inv, Script
<1>6. ASSUME NEW n \in Markers PROVE Overlay(n)'
  <2>1. Overlay(n)
    BY <1>5 DEF Intact
  <2>2. CASE n = m
    <3>1. job.ver # 0 /\ "amipkg" \in Tools
      BY <1>1, VersionFacts DEF Tools
    <3>2. PICK lines : lines = Only(Script, LinesOf(n)) /\ lines = Only(Script', LinesOf(n))
      BY <1>5
    <3>3. QED
      BY <1>1, <1>2, <2>1, <2>2, <3>1, <3>2 DEF Overlay
  <2>3. CASE n # m
    BY <1>1, <1>2, <1>5, <2>1, <2>3, OtherOverlay
  <2>4. QED
    BY <2>2, <2>3
<1>7. QED
  BY <1>1, <1>5, <1>6 DEF Intact

LEMMA InstallFailsStep == ASSUME Inv, InstallFails PROVE Inv'
<1>1. /\ pc \in {"inject", "record"} /\ pc' = "idle"
      /\ failed' = (IF pc = "record" THEN failed \cup {job.of} ELSE failed)
      /\ text' = text /\ theirs' = theirs /\ installed' = installed /\ job' = job
      /\ damaged' = damaged
  BY DEF InstallFails
<1>2. JobOK'
  BY <1>1 DEF Inv, JobOK
<1>3. SUFFICES ASSUME ~damaged' PROVE Intact'
  BY <1>2 DEF Inv
<1>4. Intact /\ Script' = Script
  BY <1>1, <1>3 DEF Inv, Script
<1>5. ASSUME NEW n \in Markers PROVE Overlay(n)'
  <2>1. Overlay(n)
    BY <1>4 DEF Intact
  <2>2. CASE pc = "record" /\ n = job.of
    <3>1. PICK lines : lines = Only(Script, LinesOf(n)) /\ lines = Only(Script', LinesOf(n))
      BY <1>4
    <3>2. n \in failed' /\ Whole(lines, n)
      BY <1>1, <2>1, <2>2, <3>1 DEF Overlay
    <3>3. QED
      BY <3>1, <3>2 DEF Overlay
  <2>3. CASE ~(pc = "record" /\ n = job.of)
    <3>1. n \in failed' <=> n \in failed
      BY <1>1, <2>3
    <3>2. QED
      BY <1>1, <1>4, <2>1, <2>3, <3>1, OtherOverlay
  <2>4. QED
    BY <2>2, <2>3
<1>6. QED
  BY <1>1, <1>4, <1>5 DEF Intact

LEMMA UserWritesStep ==
    ASSUME Inv, NEW i \in 0..Len(text), NEW u \in OwnLines, UserWrites(i, u)
    PROVE  Inv'
<1> DEFINE x == Own(u)
<1>1. /\ ~(i \in DOMAIN text /\ InBlock(i) /\ text[i].kind # "end")
      /\ text' = InsertAt(text, i + 1, x)
      /\ theirs' = Only(text', OwnOnes) /\ pc # "write"
      /\ damaged' = damaged /\ buffer' = buffer
      /\ installed' = installed /\ pc' = pc /\ job' = job /\ failed' = failed
  BY DEF UserWrites
<1>2. JobOK'
  BY <1>1 DEF Inv, JobOK, Stripping, NothingToDo
<1>3. SUFFICES ASSUME ~damaged' PROVE Intact'
  BY <1>2 DEF Inv
<1>4. Intact /\ Script = text /\ Script' = text'
  BY <1>1, <1>3 DEF Inv, Script
<1>5. text \in Seq(Lines) /\ ReadsAll(Free, text) = Free
  BY <1>4 DEF Intact
<1>6. PICK a, b : a = SubSeq(text, 1, i) /\ b = SubSeq(text, i + 1, Len(text))
  OBVIOUS
<1>7. /\ a \in Seq(Lines) /\ b \in Seq(Lines) /\ text = a \o b /\ Len(a) = i
      /\ \A k \in 1..i : a[k] = text[k]
  BY <1>5, <1>6, Cut
<1>8. x \in OwnOnes /\ x \in Lines
  BY DEF OwnOnes, Lines
<1>9. x.kind = "own" /\ \A m \in Markers : x \notin LinesOf(m)
  BY <1>8, Shapes
<1>10. PICK s \in Seq(Lines) : s = Append(a, x)
  BY <1>7, <1>8, AppendProperties
<1>11. text' = s \o b
  <2>1. (i + 1) - 1 = i
    OBVIOUS
  <2>2. text' = SubSeq(text, 1, i) \o <<x>> \o SubSeq(text, i + 1, Len(text))
    BY <1>1, <2>1 DEF InsertAt
  <2>3. a \o <<x>> = s
    BY <1>7, <1>8, <1>10, AppendIsConcat
  <2>4. QED
    BY <1>6, <2>2, <2>3
<1>12. text' \in Seq(Lines)
  BY <1>7, <1>10, <1>11, ConcatProperties
<1>14. ReadsAll(Free, a) = Free
  <2>1. ReadsAll(Free, a) \in Places
    BY <1>7, <1>8, ReadsAppend, PlacesFacts
  <2>2. ReadsAll(Free, a) # Bad
    <3>1. ReadsAll(Free, text) = ReadsAll(ReadsAll(Free, a), b)
      BY <1>7, ReadsConcat, PlacesFacts
    <3>2. QED
      BY <1>5, <1>7, <3>1, BadStays, PlacesFacts
  <2>3. ASSUME NEW m \in Markers, ReadsAll(Free, a) = In(m) PROVE FALSE
    <3>1. PICK j \in 1..Len(a) : /\ IsMark(a[j], "begin", m)
                                 /\ \A k \in j..Len(a) : ~IsMark(a[k], "end", m)
      BY <1>7, <2>3, Inside
    <3>2. i \in Nat /\ j \in 1..i /\ i \in j..i /\ \A k \in j..i : k \in 1..i
      BY <1>7, <3>1
    <3>3. i \in DOMAIN text
      <4>1. Len(text) \in Nat /\ DOMAIN text = 1..Len(text)
        BY <1>5, LenProperties
      <4>2. QED
        BY <3>2, <4>1
    <3>4. IsMark(text[j], "begin", m) /\ \A k \in j..i : ~IsMark(text[k], "end", m)
      BY <1>7, <3>1, <3>2
    <3>5. InBlock(i)
      <4>1. \A k \in j..(i - 1) : k \in j..i
        BY <3>2
      <4>2. QED
        BY <3>2, <3>4, <4>1 DEF InBlock
    <3>6. text[i].kind = "end" /\ a[i] = text[i] /\ a[i] \in Lines
      <4>1. i \in 1..Len(a)
        BY <1>7, <3>2
      <4>2. QED
        BY <1>1, <1>7, <3>2, <3>3, <3>5, <4>1, ElementOfSeq
    <3>7. text[i].of # m
      BY <3>2, <3>4, <3>6 DEF IsMark
    <3>8. PICK r \in Seq(Lines), y \in Lines : a = Append(r, y)
      <4>1. a # <<>>
        <5>1. Len(a) # 0
          BY <1>7, <3>2
        <5>2. QED
          BY <5>1, EmptySeq
      <4>2. QED
        BY <1>7, <4>1, SequenceEmptyOrAppend
    <3>9. y = a[i]
      <4>1. Len(a) = Len(r) + 1 /\ Len(r) \in Nat /\ a[Len(r) + 1] = y
        BY <3>8, AppendProperties, LenProperties
      <4>2. QED
        BY <1>7, <4>1
    <3>10. ReadsAll(Free, a) = Reads(ReadsAll(Free, r), y) /\ ReadsAll(Free, r) \in Places
      BY <3>8, ReadsAppend, PlacesFacts
    <3>11. Reads(ReadsAll(Free, r), y) \in {Free, Bad}
      BY <3>6, <3>9, <3>10, ReadsKinds
    <3>12. QED
      BY <2>3, <3>10, <3>11, PlacesFacts
  <2>4. QED
    BY <2>1, <2>2, <2>3 DEF Places
<1>15. ReadsAll(Free, text') = Free
  <2>1. ReadsAll(Free, s) = Reads(ReadsAll(Free, a), x)
    BY <1>7, <1>8, <1>10, ReadsAppend, PlacesFacts
  <2>2. Reads(Free, x) = Free
    BY <1>8, <1>9, ReadsKinds, PlacesFacts
  <2>3. ReadsAll(Free, s \o b) = ReadsAll(ReadsAll(Free, s), b)
    BY <1>7, ReadsConcat, PlacesFacts
  <2>4. ReadsAll(Free, text) = ReadsAll(ReadsAll(Free, a), b)
    BY <1>7, ReadsConcat, PlacesFacts
  <2>5. QED
    BY <1>5, <1>11, <1>14, <2>1, <2>2, <2>3, <2>4
<1>16. /\ \A K : Only(text, K) = Only(a, K) \o Only(b, K)
       /\ \A K : Only(text', K) = Only(s, K) \o Only(b, K)
       /\ \A K : Only(s, K) = IF x \in K THEN Append(Only(a, K), x) ELSE Only(a, K)
  <2>1. \A K : Only(a \o b, K) = Only(a, K) \o Only(b, K)
    BY <1>7, OnlyConcat
  <2>2. \A K : Only(s \o b, K) = Only(s, K) \o Only(b, K)
    BY <1>7, OnlyConcat
  <2>3. \A K : Only(Append(a, x), K) = IF x \in K THEN Append(Only(a, K), x) ELSE Only(a, K)
    BY <1>7, <1>8, OnlyAppend
  <2>4. QED
    BY <1>7, <1>10, <1>11, <2>1, <2>2, <2>3
<1>17. /\ Script' \in Seq(Lines) /\ ReadsAll(Free, Script') = Free
       /\ Only(Script', OwnOnes) = theirs'
  BY <1>1, <1>4, <1>12, <1>15
<1>18. ASSUME NEW n \in Markers PROVE Overlay(n)'
  <2>1. Overlay(n)
    BY <1>4 DEF Intact
  <2>2. Only(text', LinesOf(n)) = Only(text, LinesOf(n))
    BY <1>9, <1>16
  <2>3. PICK lines : lines = Only(Script, LinesOf(n)) /\ lines = Only(Script', LinesOf(n))
    BY <1>4, <2>2
  <2>4. QED
    BY <1>1, <2>1, <2>3 DEF Overlay
<1>19. QED
  BY <1>17, <1>18 DEF Intact

LEMMA UserDeletesStep ==
    ASSUME Inv, NEW i \in 0..Len(text), UserDeletes(i)
    PROVE  Inv'
<1> DEFINE x == text[i]
<1>1. /\ i \in DOMAIN text /\ text' = RemoveAt(text, i)
      /\ theirs' = Only(text', OwnOnes) /\ pc # "write" /\ buffer' = buffer
      /\ damaged' = (damaged \/ x.kind \in {"begin", "body", "end"})
      /\ installed' = installed /\ pc' = pc /\ job' = job /\ failed' = failed
  BY DEF UserDeletes
<1>2. JobOK'
  BY <1>1 DEF Inv, JobOK, Stripping, NothingToDo
<1>3. SUFFICES ASSUME ~damaged' PROVE Intact'
  BY <1>2 DEF Inv
<1>4. /\ Intact /\ x.kind \notin {"begin", "body", "end"}
      /\ Script = text /\ Script' = text'
  BY <1>1, <1>3 DEF Inv, Script
<1>5. text \in Seq(Lines) /\ ReadsAll(Free, text) = Free
  BY <1>4 DEF Intact
<1>6. i \in 1..Len(text) /\ Len(text) \in Nat /\ x \in Lines
  <2>1. i \in 1..Len(text) /\ Len(text) \in Nat
    BY <1>1, <1>5, LenProperties
  <2>2. QED
    BY <1>5, <2>1, ElementOfSeq
<1>7. PICK a, b, s : /\ a = SubSeq(text, 1, i - 1) /\ b = SubSeq(text, i + 1, Len(text))
                     /\ s = SubSeq(text, 1, i)
  OBVIOUS
<1>8. /\ a \in Seq(Lines) /\ b \in Seq(Lines) /\ s \in Seq(Lines) /\ text = s \o b
      /\ Len(a) = i - 1 /\ Len(s) = i
      /\ \A k \in 1..(i - 1) : a[k] = text[k]
      /\ \A k \in 1..i : s[k] = text[k]
  <2>1. i \in 0..Len(text) /\ i - 1 \in 0..Len(text)
    BY <1>6
  <2>2. b \in Seq(Lines) /\ s \in Seq(Lines) /\ text = s \o b
        /\ Len(s) = i /\ \A k \in 1..i : s[k] = text[k]
    BY <1>5, <1>7, <2>1, Cut
  <2>3. PICK j \in 0..Len(text) : j = i - 1
    BY <2>1
  <2>4. /\ SubSeq(text, 1, j) \in Seq(Lines) /\ Len(SubSeq(text, 1, j)) = j
        /\ \A k \in 1..j : SubSeq(text, 1, j)[k] = text[k]
    BY <1>5, Cut
  <2>5. QED
    BY <1>7, <2>2, <2>3, <2>4
<1>9. s = Append(a, x)
  <2>1. PICK t : t = Append(a, x)
    OBVIOUS
  <2>2. /\ t \in Seq(Lines) /\ Len(t) = i /\ t[i] = x
        /\ \A k \in 1..(i - 1) : t[k] = text[k]
    <3>1. /\ t \in Seq(Lines) /\ Len(t) = Len(a) + 1 /\ t[Len(a) + 1] = x
          /\ \A k \in 1..Len(a) : t[k] = a[k]
      BY <1>6, <1>8, <2>1, AppendProperties
    <3>2. Len(a) + 1 = i
      BY <1>6, <1>8
    <3>3. QED
      BY <1>8, <3>1, <3>2
  <2>3. \A k \in 1..Len(s) : s[k] = t[k]
    <3>1. \A k \in 1..i : k = i \/ k \in 1..(i - 1)
      BY <1>6
    <3>2. QED
      BY <1>8, <2>2, <3>1
  <2>4. s = t
    BY <1>8, <2>2, <2>3, SeqEqual
  <2>5. QED
    BY <2>1, <2>4
<1>10. text' = a \o b
  BY <1>1, <1>7 DEF RemoveAt
<1>11. text' \in Seq(Lines) /\ Len(text') = Len(a) + Len(b)
  BY <1>8, <1>10, ConcatProperties
<1>13. ReadsAll(Free, text') = Free
  <2>1. ReadsAll(Free, s) = Reads(ReadsAll(Free, a), x) /\ ReadsAll(Free, a) \in Places
    <3>1. PICK y \in Lines : y = x
      BY <1>6
    <3>2. /\ ReadsAll(Free, Append(a, y)) = Reads(ReadsAll(Free, a), y)
          /\ ReadsAll(Free, a) \in Places
      BY <1>8, ReadsAppend, PlacesFacts
    <3>3. QED
      BY <1>9, <3>1, <3>2
  <2>2. x.kind \in {"own", "blank"}
    BY <1>4, <1>6, Shapes
  <2>3. Reads(ReadsAll(Free, a), x) = IF ReadsAll(Free, a) = Free THEN Free ELSE Bad
    BY <1>6, <2>1, <2>2, ReadsKinds
  <2>4. ReadsAll(Free, text) = ReadsAll(ReadsAll(Free, s), b)
    BY <1>8, ReadsConcat, PlacesFacts
  <2>5. ReadsAll(Free, s) # Bad
    BY <1>5, <1>8, <2>4, BadStays, PlacesFacts
  <2>6. ReadsAll(Free, a) = Free /\ ReadsAll(Free, s) = Free
    BY <2>1, <2>3, <2>5
  <2>7. ReadsAll(Free, a \o b) = ReadsAll(ReadsAll(Free, a), b)
    BY <1>8, ReadsConcat, PlacesFacts
  <2>8. QED
    BY <1>5, <1>10, <2>4, <2>6, <2>7
<1>14. /\ \A K : Only(text, K) = Only(s, K) \o Only(b, K)
       /\ \A K : Only(text', K) = Only(a, K) \o Only(b, K)
       /\ \A K : Only(s, K) = IF x \in K THEN Append(Only(a, K), x) ELSE Only(a, K)
  <2>1. \A K : Only(s \o b, K) = Only(s, K) \o Only(b, K)
    BY <1>8, OnlyConcat
  <2>2. \A K : Only(a \o b, K) = Only(a, K) \o Only(b, K)
    BY <1>8, OnlyConcat
  <2>3. PICK y \in Lines : y = x
    BY <1>6
  <2>4. \A K : Only(Append(a, y), K) = IF y \in K THEN Append(Only(a, K), y) ELSE Only(a, K)
    BY <1>8, OnlyAppend
  <2>5. QED
    BY <1>8, <1>9, <1>10, <2>1, <2>2, <2>3, <2>4
<1>15. /\ Script' \in Seq(Lines) /\ ReadsAll(Free, Script') = Free
       /\ Only(Script', OwnOnes) = theirs'
  BY <1>1, <1>4, <1>11, <1>13
<1>16. ASSUME NEW n \in Markers PROVE Overlay(n)'
  <2>1. Overlay(n)
    BY <1>4 DEF Intact
  <2>2. Only(text', LinesOf(n)) = Only(text, LinesOf(n))
    <3>1. x \notin LinesOf(n)
      BY <1>4, <1>6, Shapes
    <3>2. QED
      BY <1>14, <3>1
  <2>3. PICK lines : lines = Only(Script, LinesOf(n)) /\ lines = Only(Script', LinesOf(n))
    BY <1>4, <2>2
  <2>4. QED
    BY <1>1, <2>1, <2>3 DEF Overlay
<1>17. QED
  BY <1>15, <1>16 DEF Intact

-----------------------------------------------------------------------------
(***************************************************************************)
(* The theorems.                                                           *)
(***************************************************************************)
LEMMA StepInv == Inv /\ [Next]_vars => Inv'
<1> SUFFICES ASSUME Inv, [Next]_vars PROVE Inv'
  OBVIOUS
<1>1. ASSUME NEW m \in Markers,
             RemovePackage(m) \/ \E v \in Versions : InstallPackage(m, v)
      PROVE  Inv'
  BY <1>1, StartStep
<1>2. ASSUME NEW b \in Readable, ReadScript(b) PROVE Inv'
  BY <1>2, ReadScriptStep
<1>3. CASE InjectFails
  BY <1>3, InjectFailsStep
<1>4. CASE OpenNewFile
  BY <1>4, OpenNewFileStep
<1>5. CASE OpenFails
  BY <1>5, OpenFailsStep
<1>6. CASE WriteScript
  BY <1>6, WriteScriptStep
<1>7. CASE Record
  BY <1>7, RecordStep
<1>8. CASE InstallFails
  BY <1>8, InstallFailsStep
<1>9. CASE PowerCut
  BY <1>9, PowerCutStep
<1>10. ASSUME NEW i \in 0..Len(text), UserDeletes(i) PROVE Inv'
  BY <1>10, UserDeletesStep
<1>11. ASSUME NEW i \in 0..Len(text), NEW u \in OwnLines, UserWrites(i, u) PROVE Inv'
  BY <1>11, UserWritesStep
<1>12. CASE UNCHANGED vars
  <2>1. Script' = Script /\ NothingToDo(buffer)' = NothingToDo(buffer)
    BY <1>12 DEF vars, Script, NothingToDo, Stripping
  <2>2. JobOK' = JobOK
    BY <1>12, <2>1 DEF vars, JobOK, Stripping
  <2>3. Intact' = Intact
    BY <1>12, <2>1 DEF vars, Intact, Overlay
  <2>4. QED
    BY <1>12, <2>2, <2>3 DEF vars, Inv
<1>13. QED
  BY <1>1, <1>2, <1>3, <1>4, <1>5, <1>6, <1>7, <1>8, <1>9, <1>10, <1>11, <1>12 DEF Next

LEMMA InvAlways == Spec => []Inv
BY InitInv, StepInv, PTL DEF Spec

\* What the receipt says of a package's block follows from the invariant.
LEMMA InvBlocks == Inv => BlocksFollowReceipts
<1> SUFFICES ASSUME Inv, pc # "write", ~damaged, NEW m \in Markers
             PROVE  /\ Whole(Only(text, LinesOf(m)), m)
                    /\ (pc = "idle" \/ job.of # m) /\ m \notin failed =>
                          IF installed[m] = 0 THEN Only(text, LinesOf(m)) = <<>>
                          ELSE \E t \in Tools :
                                   Only(text, LinesOf(m)) = Block(m, t, installed[m])
  BY DEF BlocksFollowReceipts, Whole, BlocksOf
<1>1. Overlay(m) /\ Script = text
  BY DEF Inv, Intact, Script
<1>2. QED
  BY <1>1 DEF Overlay

\* amipkg edits its own blocks and nothing else: the lines the user saved are
\* all there, in their order, whatever was installed, upgraded, removed, failed
\* or cut off - unless the script changed between an edit's read and its
\* rewriting, did not fit the buffer, could not be read or not be written to the
\* end, or the user deleted a line of a block.
THEOREM OwnLinesAlwaysKept == Spec => []OwnLinesKept
<1>1. Inv => OwnLinesKept
  BY DEF Inv, Intact, OwnLinesKept, Script
<1>2. QED
  BY <1>1, InvAlways, PTL

\* Under the same conditions a package with a receipt has one block, of its own
\* version, a package without one has no line; and a package whose script step
\* failed or whose command the power cut has at most one whole block of the
\* image's and one of amipkg's.
THEOREM BlocksAlwaysFollow == Spec => []BlocksFollowReceipts
BY InvBlocks, InvAlways, PTL
=============================================================================
