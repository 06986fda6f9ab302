------------------------------ MODULE Versions ------------------------------
(***************************************************************************)
(* The order of versions (src/core/aver.c) and the test whether a package  *)
(* runs on this machine (src/core/aindex.c).                               *)
(*                                                                         *)
(* Data: a text is a sequence of ASCII codes, since the order is about     *)
(* them.                                                                   *)
(***************************************************************************)
EXTENDS Integers, Sequences, SequencesExt, FiniteSetsExt

CONSTANTS
    Generic, M68k,   \* "generic", "m68k-amigaos"
    Emulating,       \* hosts that run m68k too: "ppc-morphos", "ppc-amigaos"
    MaxToken         \* characters of an architecture's name: 31

Tab == 9      Space == 32     Comma == 44     Dash == 45     Zero == 48

IsDigit(c) == c \in 48..57
IsAlpha(c) == c \in 65..90 \cup 97..122
Fold(c)    == IF c \in 65..90 THEN c + 32 ELSE c      \* tolower
FoldName(p) == [k \in DOMAIN p |-> Fold(p[k])]
Class(c)   == IF IsDigit(c) THEN "number" ELSE IF IsAlpha(c) THEN "text" ELSE "separator"

\* A name of the program's own: in small letters, and read whole from a list.
IsName(p) ==
    /\ p \in Seq(Nat) /\ p # <<>> /\ Len(p) <= MaxToken
    /\ \A k \in DOMAIN p : p[k] \notin {Comma, Space} /\ Fold(p[k]) = p[k]

ASSUME VersionAssumption ==
    MaxToken \in Nat /\ IsName(Generic) /\ IsName(M68k) /\ Generic # M68k

Sign(n) == IF n < 0 THEN -1 ELSE IF n > 0 THEN 1 ELSE 0
\* The places at which two sequences first differ decide, then their lengths.
Lexicographic(s, t, Cmp(_, _)) ==
    LET D == {k \in DOMAIN s \cap DOMAIN t : Cmp(s[k], t[k]) # 0}
    IN IF D = {} THEN Sign(Len(s) - Len(t)) ELSE Cmp(s[Min(D)], t[Min(D)])
CmpCode(c, d) == Sign(c - d)

-----------------------------------------------------------------------------
\* NULL, empty, blank or a lone "-".
IsBlank(v) == \A k \in DOMAIN v : v[k] \in {Tab, Space}
IsUnknown(v) ==
    \/ IsBlank(v)
    \/ \E k \in DOMAIN v : /\ v[k] = Dash
                           /\ IsBlank(SubSeq(v, 1, k - 1))
                           /\ IsBlank(SubSeq(v, k + 1, Len(v)))

\* next_segment: the maximal runs of digits and of letters, in order.  The n-th
\* character goes on with the last of them or begins another.
Continue(segs, v, n) ==
    IF Class(v[n]) = "separator" THEN segs
    ELSE IF n > 1 /\ Class(v[n - 1]) = Class(v[n])
    THEN [segs EXCEPT ![Len(segs)] = Append(@, v[n])]
    ELSE Append(segs, <<v[n]>>)
Segments(v) ==
    LET upTo[n \in 0..Len(v)] == IF n = 0 THEN <<>> ELSE Continue(upTo[n - 1], v, n)
    IN upTo[Len(v)]

\* Leading zeros go, the last digit stays; longer wins, then the digits.
Stripped(d) ==
    LET first == {k \in DOMAIN d : d[k] # Zero \/ k = Len(d)}
    IN SubSeq(d, Min(first), Len(d))
CmpDigits(a, b) == Lexicographic(a, b, CmpCode)                       \* mutant
CmpNumeric(a, b) ==
    LET s == Stripped(a)  t == Stripped(b)
    IN IF Len(s) # Len(t) THEN Sign(Len(s) - Len(t)) ELSE Lexicographic(s, t, CmpCode)

CmpAlphaCi(a, b) == Lexicographic(a, b, LAMBDA c, d : CmpCode(Fold(c), Fold(d)))

CmpSegment(a, b) ==
    LET isNumber(s) == Class(s[1]) = "number" IN
    CASE isNumber(a) /\ isNumber(b)   -> CmpNumeric(a, b)
      [] ~isNumber(a) /\ ~isNumber(b) -> CmpAlphaCi(a, b)
      [] OTHER -> IF isNumber(a) THEN 1 ELSE -1

AverCompare(a, b) == Lexicographic(Segments(a), Segments(b), CmpSegment)

IsNewer(candidate, installed) ==
    /\ ~IsUnknown(candidate) /\ ~IsUnknown(installed)
    /\ AverCompare(candidate, installed) > 0

-----------------------------------------------------------------------------
\* One architecture against the host: the case does not matter.
OneArchRunsOn(p, h) ==
    \/ FoldName(p) \in {Generic, FoldName(h)}
    \/ FoldName(p) = M68k /\ FoldName(h) \in Emulating

\* The list is read in place, character by character; blanks do not count, of
\* a long name only its beginning.
Read(acc, c, h) ==
    CASE c = Comma -> [tok |-> <<>>, runs |-> acc.runs \/ OneArchRunsOn(acc.tok, h)]
      [] c # Comma /\ c # Space /\ Len(acc.tok) < MaxToken
                   -> [acc EXCEPT !.tok = Append(acc.tok, c)]
      [] OTHER     -> acc
ListRunsOn(list, h) ==
    LET after[n \in 0..Len(list)] ==
            IF n = 0 THEN [tok |-> <<>>, runs |-> FALSE] ELSE Read(after[n - 1], list[n], h)
        end == after[Len(list)]
    IN end.runs \/ OneArchRunsOn(end.tok, h)

\* A package without an architecture, and a host without one, is an m68k one.
OrM68k(arch) == IF arch = <<>> THEN M68k ELSE arch
ArchAnywhere(list, host) == list = <<>> \/ ListRunsOn(list, OrM68k(host))     \* mutant
ArchRunsOn(list, host) == ListRunsOn(OrM68k(list), OrM68k(host))

-----------------------------------------------------------------------------
(***************************************************************************)
(* What is expected of them, for versions a, b, c and a list of names.     *)
(***************************************************************************)
Value(d) ==
    LET upTo[n \in 0..Len(d)] == IF n = 0 THEN 0 ELSE 10 * upTo[n - 1] + (d[n] - Zero)
    IN upTo[Len(d)]

\* A total preorder: with it "the newest" exists and nothing is upgraded in
\* circles.
Ordered(a, b, c) ==
    /\ AverCompare(a, b) = -AverCompare(b, a)
    /\ AverCompare(a, b) >= 0 /\ AverCompare(b, c) >= 0 => AverCompare(a, c) >= 0

\* Numbers count by their value, whatever their zeros; a version that goes on is
\* newer; case and the kind of separator do not matter; unknown is never
\* newer nor older.
Sensible(a, b) ==
    /\ (\A k \in DOMAIN a : IsDigit(a[k])) /\ (\A k \in DOMAIN b : IsDigit(b[k]))
          /\ a # <<>> /\ b # <<>> => AverCompare(a, b) = Sign(Value(a) - Value(b))
    /\ LET more == a \o <<Dash>> \o b
       IN AverCompare(more, a) = IF Segments(b) = <<>> THEN 0 ELSE 1
    /\ LET plain(v) == [k \in DOMAIN v |->
                            IF Class(v[k]) = "separator" THEN Space ELSE Fold(v[k])]
       IN AverCompare(plain(a), plain(b)) = AverCompare(a, b)
    /\ IsNewer(a, b) => ~IsNewer(b, a) /\ ~IsUnknown(a) /\ ~IsUnknown(b)
    /\ ~IsUnknown(a) /\ ~IsUnknown(b) /\ ~IsNewer(a, b) /\ ~IsNewer(b, a)
          => AverCompare(a, b) = 0

\* A name between two commas, blanks left out.
NameBetween(list, i, j) ==
    LET name[n \in i..(j - 1)] ==
            IF n = i THEN <<>>
            ELSE IF list[n] = Space THEN name[n - 1] ELSE Append(name[n - 1], list[n])
    IN name[j - 1]
Beginning(name) == IF Len(name) <= MaxToken THEN name ELSE SubSeq(name, 1, MaxToken)

SomeNameRuns(list, h) ==
    LET commas == {0, Len(list) + 1} \cup {k \in DOMAIN list : list[k] = Comma}
    IN \E i, j \in commas :
           /\ i < j /\ commas \cap (i + 1)..(j - 1) = {}
           /\ OneArchRunsOn(Beginning(NameBetween(list, i, j)), h)

\* A package without an architecture runs on m68k and on what runs m68k, and
\* nowhere else; any other where one of the names it lists does.
RunsHere(list, host) ==
    IF list = <<>> THEN FoldName(OrM68k(host)) \in {M68k} \cup Emulating
    ELSE SomeNameRuns(list, OrM68k(host))
=============================================================================
