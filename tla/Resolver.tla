------------------------------ MODULE Resolver ------------------------------
(***************************************************************************)
(* ares_resolve (src/core/resolve.c): the depth-first expansion of one     *)
(* selected package into an install order.  The recursion of visit is an   *)
(* explicit stack of frames; a step looks at one dependency or leaves one  *)
(* package.                                                                *)
(*                                                                         *)
(* Data: a catalog is a sequence of entries, an entry is named by its      *)
(* position (the code compares entry pointers), CPUs and CPU floors are    *)
(* their cpu_rank: -1 for none or unknown.                                 *)
(***************************************************************************)
EXTENDS Integers, SequencesExt

CONSTANTS
    Targets,   \* names a dependency may carry: ids and virtual ids
    Catalogs,  \* the catalogs a behaviour may start with
    Cpus,      \* the machines: amipkg_cpu
    MaxPlan        \* ARES_MAX

Entry == [id : Targets, provides : SUBSET Targets, floor : -1..6, deps : Seq(Targets)]

ASSUME ResolverConstants ==
    /\ Catalogs \subseteq Seq(Entry)
    /\ Cpus \subseteq -1..6
    /\ MaxPlan \in Nat \ {0}

VARIABLES
    idx,      \* the parsed catalog
    cpu,
    root,     \* the position of the selected package
    ordered,  \* result->ordered
    missing,  \* result->missing
    stack     \* the calls of visit under way: [e: entry, next: dependency]

catalog  == <<idx, cpu>>
resolver == <<catalog, root, ordered, missing, stack>>

NoEntry == 0
Frame(e) == [e |-> e, next |-> 1]
OnStack == {stack[i].e : i \in DOMAIN stack}
Placed == ToSet(ordered)

-----------------------------------------------------------------------------
(***************************************************************************)
(* pick: the entry a dependency stands for.                                *)
(***************************************************************************)
\* aidx_find: the first entry of that id.
Find(t) ==
    IF \E e \in DOMAIN idx : idx[e].id = t
      THEN CHOOSE e \in DOMAIN idx :
               idx[e].id = t /\ \A f \in DOMAIN idx : f < e => idx[f].id # t
      ELSE NoEntry

\* The highest CPU floor; the first one in the index among equals.
FirstProvider(S) == CHOOSE e \in S : \A f \in S : e <= f         \* mutant
Best(S) ==
    CHOOSE e \in S : \A f \in S :
        \/ idx[f].floor < idx[e].floor
        \/ idx[f].floor = idx[e].floor /\ e <= f

Providers(t) == {e \in DOMAIN idx : t \in idx[e].provides}

\* No floor, an unknown floor, or a CPU at least as good.
Satisfies(e) == cpu >= idx[e].floor

Pick(t) ==
    LET able == {e \in Providers(t) : Satisfies(e)} IN
    IF Find(t) # NoEntry THEN Find(t)
    ELSE IF able # {} THEN Best(able)
    ELSE IF Providers(t) # {} THEN Best(Providers(t))
    ELSE NoEntry

Picks(e) == {Pick(idx[e].deps[i]) : i \in DOMAIN idx[e].deps} \ {NoEntry}

-----------------------------------------------------------------------------
Init ==
    /\ idx \in Catalogs /\ cpu \in Cpus
    /\ root = NoEntry
    /\ ordered = <<>> /\ missing = <<>> /\ stack = <<>>

\* visit's early returns: placed, a cycle, too deep.
EntersTooDeep(e) == e \notin Placed \cup OnStack /\ Len(stack) <= MaxPlan  \* mutant
Enters(e) == e \notin Placed \cup OnStack /\ Len(stack) < MaxPlan

Select(t) ==
    /\ stack = <<>>
    /\ root' = Find(t)
    /\ missing' = IF Find(t) = NoEntry /\ Len(missing) < MaxPlan THEN Append(missing, t) ELSE missing
    /\ stack' = IF Find(t) # NoEntry /\ Enters(Find(t)) THEN <<Frame(Find(t))>> ELSE <<>>
    /\ UNCHANGED <<catalog, ordered>>

Top == stack[Len(stack)]
Dep == Pick(idx[Top.e].deps[Top.next])
Advanced == [stack EXCEPT ![Len(stack)].next = @ + 1]
MoreDepsButLast == stack # <<>> /\ Top.next < Len(idx[Top.e].deps)   \* mutant
MoreDeps == stack # <<>> /\ Top.next <= Len(idx[Top.e].deps)

Descend ==
    /\ MoreDeps /\ Dep # NoEntry
    /\ stack' = IF Enters(Dep) THEN Append(Advanced, Frame(Dep)) ELSE Advanced
    /\ UNCHANGED <<catalog, root, ordered, missing>>

\* Unresolvable targets are reported, up to the size of the table.
Unresolvable ==
    /\ MoreDeps /\ Dep = NoEntry
    /\ missing' = IF Len(missing) < MaxPlan THEN Append(missing, idx[Top.e].deps[Top.next])
                  ELSE missing
    /\ stack' = Advanced
    /\ UNCHANGED <<catalog, root, ordered>>

\* All dependencies seen: the package itself takes its place.
HasRoom == Len(ordered) < MaxPlan
Leave ==
    /\ stack # <<>> /\ ~MoreDeps
    /\ ordered' = IF HasRoom /\ Top.e \notin Placed
                    THEN Append(ordered, Top.e) ELSE ordered
    /\ stack' = Front(stack)
    /\ UNCHANGED <<catalog, root, missing>>

Visit == Descend \/ Unresolvable \/ Leave

\* On its own the resolver is called once per process.
Next ==
    \/ Visit
    \/ root = NoEntry /\ missing = <<>> /\ \E t \in Targets : Select(t)

Spec == Init /\ [][Next]_resolver

-----------------------------------------------------------------------------
(***************************************************************************)
(* Reference definitions.                                                  *)
(***************************************************************************)
\* Sets of packages that hold what their members depend on; all packages
\* that e needs, directly or not, and e itself, are the least such set.
ClosedSets == {S \in SUBSET DOMAIN idx : \A f \in S : Picks(f) \subseteq S}
Reach(e) == LET closed == {S \in ClosedSets : e \in S} IN {f \in DOMAIN idx : \A S \in closed : f \in S}

Resolved == root # NoEntry /\ stack = <<>>
Fits == root # NoEntry => Cardinality(Reach(root)) <= MaxPlan

-----------------------------------------------------------------------------
\* Frames and results are entries of the catalog and within their tables.
TypeOK ==
    /\ idx \in Seq(Entry) /\ cpu \in -1..6
    /\ root \in DOMAIN idx \cup {NoEntry}
    /\ ordered \in Seq(DOMAIN idx) /\ Len(ordered) <= MaxPlan
    /\ missing \in Seq(Targets) /\ Len(missing) <= MaxPlan
    /\ stack \in Seq([e : DOMAIN idx, next : Nat \ {0}]) /\ Len(stack) <= MaxPlan

\* "dependencies precede dependents": unless a dependency needs its
\* dependent in turn, or the closure is larger than the table.
DepsFirst ==
    Fits => \A i \in DOMAIN ordered : \A d \in Picks(ordered[i]) :
        \/ \E j \in 1..(i - 1) : ordered[j] = d
        \/ ordered[i] \in Reach(d)

\* No package is installed twice, however often and along whatever cycles it
\* is needed.
NoneTwice == IsInjective(ordered)

\* The plan is the whole closure of the selected package, the package itself
\* last, and nothing else.
PlanComplete ==
    Resolved /\ Fits => Placed = Reach(root) /\ Last(ordered) = root

\* "unresolvable targets reported not dropped".
MissingReported ==
    Resolved /\ Fits /\ Len(missing) < MaxPlan =>
        ToSet(missing) = UNION {{t \in ToSet(idx[e].deps) : Pick(t) = NoEntry} : e \in Reach(root)}

\* What ares_resolve promises of its result (resolve.h:4-7), in one.
PlanCorrect == DepsFirst /\ NoneTwice /\ PlanComplete /\ MissingReported

\* "highest satisfiable minCPU wins": where some provider of a virtual id
\* runs on this machine, the plan holds the best that does, whatever else in
\* the catalog provides it.
BestVariant ==
    Resolved /\ Fits =>
        \A f \in Placed : \A t \in ToSet(idx[f].deps) :
            LET able == {g \in Providers(t) : Satisfies(g)} IN
            Find(t) = NoEntry /\ able # {} =>
                \E e \in Placed \cap able : \A g \in able : idx[g].floor <= idx[e].floor
=============================================================================
