---------------------------- MODULE MCAlgorithms ----------------------------
(***************************************************************************)
(* The pure algorithms over all inputs of bounded size: one initial state  *)
(* per input.                                                              *)
(***************************************************************************)
EXTENDS Integers, Sequences, FiniteSets, Versions, Recipe, Floppy

CONSTANTS Floppies, Wide      \* bounds: entry of the image tables, of the texts

VARIABLE input

MCJunkNames    == {<<105>>}                \* "i"
MCJunkPrefixes == {<<117>>}                \* "u..."
MCJunkPatterns == {<<42, 74>>}             \* "*J"
MCGeneric == <<103>>
MCM68k    == <<104>>
MCEmulating == {<<120, 120>>}

Texts(S, n) == UNION {[1..k -> S] : k \in 0..n}

\* "0", "1", "a", "B", "."
VersionInputs ==
    [topic : {"versions"}, a : Texts({48, 49, 66, 97, 46}, Wide), b : Texts({48, 49, 66, 97, 46}, Wide)]
\* blanks and dashes
UnknownInputs ==
    [topic : {"versions"}, a : Texts({9, 32, 45, 49}, Wide), b : {<<49>>, <<45>>, <<32, 45>>}]
\* "G", "g" (generic), "h" (m68k), "x", "," and " "; on no host, "H" (m68k), "xx",
\* which runs m68k, and "x", which does not
ArchInputs ==
    [topic : {"arch"}, list : Texts({71, 103, 104, 120, 44, 32}, Wide + 1),
     host : {<<>>, <<72>>, <<120, 120>>, <<120>>}]

\* "a", "A", "b", "*", "?", "/"
GlobInputs ==
    [topic : {"glob"}, pat : Texts({97, 66, 98, 42, 63, 47}, 3), str : Texts({97, 98, 47}, Wide + 1)]

Op(op, src, dest, rename) == [op |-> op, src |-> src, dest |-> dest, rename |-> rename]
RecipeOps == {
    Op("copyGlob", <<42>>, <<99>>, <<>>),                     \* * to c
    Op("copyGlob", <<100, 92, 42>>, <<65, 58>>, <<>>),        \* d\* to A:
    Op("copyGlob", <<97>>, <<>>, <<101, 47, 120>>),           \* a as x
    Op("copyGlob", <<100>>, <<99>>, <<>>),                    \* d, a drawer, to c
    Op("placeFile", <<105>>, <<99>>, <<>>),                   \* i to c
    Op("setExec", <<>>, <<>>, <<>>), Op("scriptInject", <<97>>, <<83>>, <<>>),
    Op("preScript", <<>>, <<>>, <<>>), Op("postScript", <<>>, <<>>, <<>>),
    Op("unknown", <<>>, <<>>, <<>>)}
\* a, i (junk), u (junk), I and U (not: their case), the drawer d, d/bj (junk)
Trees == Texts([path : {<<97>>, <<105>>, <<117>>, <<73>>, <<85>>, <<100, 47, 98, 106>>}, dir : {FALSE}]
            \cup {[path |-> <<100>>, dir |-> TRUE]}, 3)
RecipeInputs ==
    [topic : {"recipe"}, r : [schema : {1, 3}, ops : Texts(RecipeOps, 2)],
     tree : {t \in Trees : \A j, k \in DOMAIN t : t[j].path = t[k].path => j = k},
     broken : {{}, {1}}, stuck : {{}, {1}}]

Blk(sec, t1, t2, chain) ==
    [sec |-> sec, table |-> <<t1, t2>>, chain |-> chain, used |-> 0, ext |-> 0, size |-> 0, data |-> 2]
Links == {0, 1, 3, 4}
Anything == {Blk("dir", t, 0, n) : t \in Links, n \in Links}
            \cup {Blk("file", 0, 0, n) : n \in Links}
            \cup {Blk("other", 0, 0, n) : n \in Floppies}
ImageInputs ==
    {[topic |-> "image",
      img |-> 0 :> Blk("other", 0, 0, 0) @@ 1 :> x @@ 2 :> Blk("root", t, u, 0) @@ 3 :> y @@ 4 :> z] :
        x \in Anything, y \in Anything, z \in Anything, t \in Links, u \in Floppies}

\* A file with one extension block and two data blocks, of which some may be
\* missing (7) or short.
FileInputs ==
    {[topic |-> "file",
      img |-> 0 :> Blk("other", 0, 0, 0)
           @@ 1 :> [Blk("file", s, t, 0) EXCEPT !.used = n, !.ext = e, !.size = z]
           @@ 3 :> [Blk("other", u, 4, 0) EXCEPT !.used = m, !.ext = e, !.data = d]
           @@ 4 :> Blk("other", 0, 0, 0)] :
        s \in {3, 4, 7}, t \in {3, 4}, u \in {3, 4, 7}, n \in 0..3, m \in 0..3,
        e \in {0, 3, 7}, z \in 0..7, d \in 0..3}

Init ==
    \/ input \in VersionInputs \/ input \in UnknownInputs \/ input \in ArchInputs
    \/ input \in GlobInputs \/ input \in RecipeInputs
    \/ input \in ImageInputs \/ input \in FileInputs
Next == UNCHANGED input
Spec == Init /\ [][Next]_input

-----------------------------------------------------------------------------
\* Versions are totally preordered, numbers by value, the unknown apart; a
\* package runs here iff one of its architectures does, and one that names none
\* where m68k runs (aver.c, aindex.c).
VersionsOrdered ==
    /\ input.topic = "versions" =>
          /\ Sensible(input.a, input.b)
          /\ Len(input.a) + Len(input.b) <= Wide + 1 =>
                \A c \in Texts({48, 49, 66, 97, 46}, 2) : Ordered(input.a, input.b, c)
    /\ input.topic = "arch" => ArchRunsOn(input.list, input.host) = RunsHere(input.list, input.host)

\* A recipe that is not understood touches nothing; of any other each file meant
\* is placed as often as ops mean it, but for the copies that fail, by the
\* patterns' meaning, and the caller's list is right (arun.c, install.c).
RecipesRunAsMeant ==
    /\ input.topic = "glob" => GlobMeansFnmatch(input.pat, input.str)
    /\ input.topic = "recipe" => RunAsMeant(input.r, input.tree, input.broken, input.stuck)

\* Every file of a sound floppy image comes out once, whole and at its place; a
\* damaged image ends in bounds (adfread.c).
FloppiesExtracted ==
    /\ input.topic = "image" => ImageExtracted(input.img, 2)
    /\ input.topic = "file" => FileExtracted(input.img, 1)
=============================================================================
