------------------------------- MODULE Recipe -------------------------------
(***************************************************************************)
(* Recipes (src/core/arecipe.c, arun.c and amipkg_run_recipe): the ops of  *)
(* the catalog are parsed into a table, planned against the unpacked tree, *)
(* and the plan is executed between the recipe's own scripts.              *)
(*                                                                         *)
(* Data: a text is a sequence of ASCII codes.  An op keeps the fields the  *)
(* planner reads.  What a script does is whether it fails.  Left out are   *)
(* the truncation of long paths and the meaning of tool types and assigns, *)
(* which the planner passes over.                                          *)
(***************************************************************************)
EXTENDS Integers, Sequences, SequencesExt, FiniteSetsExt

CONSTANTS
    MaxOps,       \* ARECIPE_MAX_OPS: ops a recipe is parsed into
    MaxEntries,   \* ARUN_MAX_OPS: entries of a tree that are looked at,
                  \* and ops of a plan
    MaxPaths,     \* paths the caller has room for: 256
    JunkNames, JunkPrefixes, JunkPatterns   \* of is_junk

ASSUME RecipeAssumption ==
    /\ MaxOps \in Nat /\ MaxEntries \in Nat /\ MaxPaths \in Nat \ {0}
    /\ JunkPatterns \subseteq Seq(Nat)

Star == 42   Question == 63   Slash == 47   Backslash == 92   Colon == 58

Lower(c) == IF c \in 65..90 THEN c + 32 ELSE c       \* tolower

-----------------------------------------------------------------------------
(***************************************************************************)
(* arun_glob_match: one turn of the loop, with i and j in pattern and text *)
(* and the place to come back to: the last star and the text tried there.  *)
(***************************************************************************)
Fits(p, c) == p = Question \/ Lower(p) = Lower(c)

Turn(pat, str, x) ==
    LET char == x.i <= Len(pat) IN
    IF x.answer # "none" THEN x
    ELSE IF x.j > Len(str)
    THEN [x EXCEPT !.answer = IF \A k \in x.i..Len(pat) : pat[k] = Star THEN "yes" ELSE "no"]
    ELSE IF char /\ pat[x.i] = Star
    THEN [x EXCEPT !.i = x.i + 1, !.star = x.i, !.from = x.j]
    ELSE IF char /\ Fits(pat[x.i], str[x.j])
    THEN [x EXCEPT !.i = x.i + 1, !.j = x.j + 1]
    ELSE IF x.star # 0
    THEN [x EXCEPT !.i = x.star + 1, !.j = x.from + 1, !.from = x.from + 1]
    ELSE [x EXCEPT !.answer = "no"]

\* That many turns are enough for an answer.
Turns(pat, str) == (Len(str) + 2) * (Len(pat) + Len(str) + 1)
Started == [i |-> 1, j |-> 1, star |-> 0, from |-> 0, answer |-> "none"]
GlobMatch(pat, str) ==
    LET after[n \in 0..Turns(pat, str)] ==
            IF n = 0 THEN Started ELSE Turn(pat, str, after[n - 1])
    IN after[Turns(pat, str)].answer = "yes"

-----------------------------------------------------------------------------
\* Paths.
Normalize(s) == [k \in DOMAIN s |-> IF s[k] = Backslash THEN Slash ELSE s[k]]
DepthOf(s) == 1 + Cardinality({k \in DOMAIN s : s[k] = Slash})
BasenameOf(s) ==
    LET slashes == {k \in DOMAIN s : s[k] = Slash}
    IN SubSeq(s, 1 + Max({0} \cup slashes), Len(s))

\* A system's own files, with their case; those of Installers, without.
IsJunk(base) ==
    \/ base \in JunkNames
    \/ \E pre \in JunkPrefixes : IsPrefix(pre, base)
    \/ \E pat \in JunkPatterns : GlobMatch(pat, base)

-----------------------------------------------------------------------------
(***************************************************************************)
(* Parsing and planning.                                                   *)
(***************************************************************************)
\* arecipe_parse: the first MaxOps ops; an unknown one among them is noticed.
Parsed(ops) == SubSeq(ops, 1, Min({Len(ops), MaxOps}))
HasUnknown(ops) == \E k \in DOMAIN Parsed(ops) : Parsed(ops)[k].op = "unknown"

\* Joined with "/", after an assign's ":" without.
JoinPath(dest, leaf) ==
    IF dest = <<>> THEN leaf
    ELSE IF dest[Len(dest)] = Colon THEN dest \o leaf
    ELSE dest \o <<Slash>> \o leaf

HasStar(glob) == \E k \in DOMAIN glob : glob[k] = Star

\* Does a copy op take this entry?  By pattern: files of the pattern's depth
\* that are no junk; by name: whatever has it.
Selects(op, e) ==
    LET glob == Normalize(op.src) IN
    IF HasStar(glob)
    THEN /\ DepthOf(e.path) = DepthOf(glob) /\ GlobMatch(glob, e.path)
         /\ ~e.dir /\ ~IsJunk(BasenameOf(e.path))
    ELSE e.path = glob

\* A rename is for a copyGlob of an exact name; placeFile's is never parsed.
Renames(op) == op.op = "copyGlob" /\ ~HasStar(op.src) /\ op.rename # <<>>
CopyOf(op, e) ==
    LET leaf == IF Renames(op)
                THEN BasenameOf(Normalize(op.rename)) ELSE BasenameOf(e.path)
    IN [kind |-> "copy", src |-> e.path, dest |-> JoinPath(Normalize(op.dest), leaf)]

PlanCopy(op, tree) ==
    FlattenSeq([k \in DOMAIN tree |->
                   IF Selects(op, tree[k]) THEN <<CopyOf(op, tree[k])>> ELSE <<>>])

PlanOf(op, tree) ==
    CASE op.op \in {"copyGlob", "placeFile"} -> PlanCopy(op, tree)
      [] op.op = "setExec"      -> <<[kind |-> "setExec", src |-> <<>>, dest |-> <<>>]>>
      [] op.op = "scriptInject" -> <<[kind |-> "script", src |-> op.src, dest |-> op.dest]>>
      [] OTHER                  -> <<>>

PlanIgnoringUnknown(r, tree) ==                                      \* mutant
    [ops |-> FlattenSeq([k \in DOMAIN Parsed(r.ops) |-> PlanOf(Parsed(r.ops)[k], tree)]),
     refused |-> FALSE]
\* arun_plan_build; a plan that overflows is refused by the caller.
Plan(r, tree) ==
    LET all == FlattenSeq([k \in DOMAIN Parsed(r.ops) |-> PlanOf(Parsed(r.ops)[k], tree)])
    IN [ops |-> all,
        refused |-> HasUnknown(r.ops) \/ r.schema > 2 \/ Len(all) > MaxEntries]

-----------------------------------------------------------------------------
(***************************************************************************)
(* amipkg_run_recipe and amipkg_execute.  `broken` are the scripts         *)
(* (positions of their ops) that end with rc 10 or more, `stuck` the       *)
(* copies and edits (positions in the plan) whose files cannot be opened.  *)
(***************************************************************************)
ScriptsOf(r, kind) == {k \in DOMAIN Parsed(r.ops) : Parsed(r.ops)[k].op = kind}

IsCopy(o) == o.kind = "copy"
NamesDrawer(tree, path) == \E n \in DOMAIN tree : tree[n].path = path /\ tree[n].dir

\* copy_file opens its source, so a drawer is never copied; a copy that fails is
\* passed over without a word, and so is an edit.
Worked(plan, tree, stuck) ==
    {k \in DOMAIN plan : k \notin stuck /\ (IsCopy(plan[k]) => ~NamesDrawer(tree, plan[k].src))}

\* The caller gets the paths of the first MaxPaths copies, and their number.
Recorded(placed) == {k \in placed : Cardinality({j \in placed : j < k}) < MaxPaths}

\* The pre-install scripts run in order up to the first that fails; then the
\* plan; the post-install scripts all run if anything was placed.
RunRecipe(r, tree, broken, stuck) ==
    LET pre    == ScriptsOf(r, "preScript")
        plan   == Plan(r, SubSeq(tree, 1, Min({Len(tree), MaxEntries})))
        done   == IF pre \cap broken # {} \/ plan.refused THEN <<>> ELSE plan.ops
        worked == Worked(done, tree, stuck)
        placed == {k \in worked : IsCopy(done[k])}
    IN [pre  |-> {k \in pre : \A j \in pre \cap broken : k <= j},
        done |-> done, placed |-> placed, edited |-> worked \ placed,
        recorded |-> Recorded(placed),
        post |-> IF Recorded(placed) # {} THEN ScriptsOf(r, "postScript") ELSE {}]

-----------------------------------------------------------------------------
(***************************************************************************)
(* What is expected of them.                                               *)
(***************************************************************************)
\* fnmatch with FNM_CASEFOLD and without FNM_PATHNAME: the text can be cut so
\* that each character of the pattern has a piece, which it fits.
Means(pat, str) ==
    \E cut \in [0..Len(pat) -> 0..Len(str)] :
        /\ cut[0] = 0 /\ cut[Len(pat)] = Len(str)
        /\ \A k \in DOMAIN pat :
              IF pat[k] = Star THEN cut[k - 1] <= cut[k]
              ELSE cut[k] = cut[k - 1] + 1 /\ Fits(pat[k], str[cut[k]])

GlobMeansFnmatch(pat, str) == GlobMatch(pat, str) <=> Means(pat, str)

\* The file of e is one that op means to copy.
Meant(op, e) ==
    /\ op.op \in {"copyGlob", "placeFile"}
    /\ \/ ~HasStar(op.src) /\ e.path = Normalize(op.src)
       \/ /\ HasStar(op.src) /\ Means(Normalize(op.src), e.path)
          /\ DepthOf(e.path) = DepthOf(Normalize(op.src)) /\ ~e.dir
          /\ BasenameOf(e.path) \notin JunkNames
          /\ ~\E pre \in JunkPrefixes : IsPrefix(pre, BasenameOf(e.path))
          /\ ~\E pat \in JunkPatterns : Means(pat, BasenameOf(e.path))

\* Not in the parent of an assign: no ":/".
OffTheParent(path) == \A k \in 1..(Len(path) - 1) : path[k] = Colon => path[k + 1] # Slash

\* "refuse a recipe we can't fully run": when a plan is begun, every op of the
\* recipe was understood, its schema is known and every guard it has let it
\* pass.  Of what its copy ops mean each file is placed once for each of them,
\* but for the copies that fail, in a drawer that is not the parent of an assign
\* unless the op itself says so.  The caller is told of nothing else, of
\* everything it has room for, and of a success iff anything was placed.  Exempt
\* are recipes with more ops and archives with more entries than the tables
\* hold: the code cuts both in silence.
RunAsMeant(r, tree, broken, stuck) ==
    LET run  == RunRecipe(r, tree, broken, stuck)
        done == run.done
        from(S, n) == {k \in S : IsCopy(done[k]) /\ done[k].src = tree[n].path}
    IN /\ done # <<>> /\ Len(r.ops) <= MaxOps /\ Len(tree) <= MaxEntries =>
              /\ \A k \in DOMAIN r.ops : r.ops[k].op # "unknown"
              /\ r.schema <= 2
              /\ \A k \in DOMAIN r.ops : r.ops[k].op = "preScript" => k \notin broken
              /\ \A n \in DOMAIN tree :
                    Cardinality(from(run.placed, n)) =
                        IF tree[n].dir THEN 0
                        ELSE Cardinality({k \in DOMAIN r.ops : Meant(r.ops[k], tree[n])})
                                - Cardinality(from(DOMAIN done \cap stuck, n))
              /\ \A k \in run.placed : \E n \in DOMAIN tree : done[k].src = tree[n].path
              /\ (\A k \in DOMAIN r.ops : OffTheParent(Normalize(r.ops[k].dest)))
                    => \A k \in run.placed : OffTheParent(done[k].dest)
       /\ run.recorded \subseteq run.placed
       /\ Cardinality(run.placed) <= MaxPaths => run.recorded = run.placed
       /\ run.recorded = {} <=> run.placed = {}
=============================================================================
