-------------------------- MODULE InstallerProofs --------------------------
(***************************************************************************)
(* Theorems about Installer, for every catalog, machine, size of the plan, *)
(* outcome of an install and behaviour of the allocator.                   *)
(*                                                                         *)
(* The plan of a command grows over several resolutions, and what of it    *)
(* lies in freed memory changes with every one.  What holds is said of     *)
(* each block: the pointers into it are in the order of their needs.  It   *)
(* holds until the table is full, and the packages on the stack will take  *)
(* a place each.                                                           *)
(***************************************************************************)
EXTENDS Installer, ResolverProofs

InstallerTypes ==
    /\ Catalog
    /\ state \in [Ids -> States] /\ fate \in [Ids -> Fates]
    /\ pc \in {"idle", "load", "select", "resolve", "loop"}
    /\ todo \in Seq(asked) /\ (pc = "idle" <=> todo = <<>>)
    /\ i \in Nat \ {0}
    /\ pc # "resolve" => stack = <<>>
    /\ pc # "loop" => i = 1 /\ rc = 0

\* Every pointer is one of an entry, good when that lies in the current block.
Pointers ==
    /\ ordered \in Seq(Int) /\ DOMAIN from \subseteq DOMAIN ordered
    /\ \A k \in DOMAIN ordered :
           /\ Points(ordered[k]) \in DOMAIN idx
           /\ Dangling(ordered[k]) <=> BlockOf(k) # block

\* What a package needs is before it in its block, unless it needs it in turn.
Arranged(k) ==
    \A d \in Picks(Points(ordered[k])) :
        \/ \E j \in 1..(k - 1) : BlockOf(j) = BlockOf(k) /\ Points(ordered[j]) = d
        \/ Points(ordered[k]) \in Reach(d)

\* What the packages on the stack have seen is settled.
SeenSettled ==
    \A k \in DOMAIN stack : \A t \in SeenBy(stack[k]) : Pick(t) \in Settled \cup {NoEntry}

Roomy == Len(ordered) + Len(stack) < MaxPlan

PlanKept ==
    /\ Stacked /\ PathOK /\ Pointers
    /\ Roomy => SeenSettled /\ \A k \in DOMAIN ordered : Arranged(k)

\* The package being installed is in the catalog and, once it is resolved, in
\* the plan.
TargetOK ==
    /\ pc \in {"select", "resolve", "loop"} => Find(Target) # NoEntry
    /\ pc \in {"resolve", "loop"} /\ Roomy => Find(Target) \in Settled

\* What the loop has passed is installed, and up to date if it is the target.
Passed(e) ==
    /\ PkgInstalled(IdOf(e)) \/ IdOf(e) \in BuildOnly
    /\ IdOf(e) = Target => state[Target] = "new"

LoopOK ==
    pc = "loop" /\ rc = 0 =>
        \A j \in DOMAIN ordered : j < i /\ ~Dangling(ordered[j]) => Passed(ordered[j])

\* Of what the command was asked for, the rest is up to date.
Done ==
    Roomy => \A t \in asked : t \in ToSet(todo) \cup failed \/ (t \in Ids /\ state[t] = "new")

InstallerInv == InstallerTypes /\ PlanKept /\ TargetOK /\ LoopOK /\ Done

-----------------------------------------------------------------------------
(***************************************************************************)
(* What stays as it is.                                                    *)
(***************************************************************************)
LEMMA FindIs == ASSUME Catalog, NEW t, Find(t) # NoEntry
                PROVE  Find(t) \in DOMAIN idx /\ idx[Find(t)].id = t
  BY FindFinds DEF Find

LEMMA SameFind == ASSUME UNCHANGED catalog, NEW t PROVE Find(t)' = Find(t)
<1>1. idx' = idx
  BY DEF catalog
<1>2. QED
  BY <1>1 DEF Find

LEMMA SamePointers ==
    ASSUME UNCHANGED catalog, UNCHANGED ordered, UNCHANGED from, UNCHANGED block
    PROVE  /\ Pointers => Pointers'
           /\ \A k : Arranged(k) => Arranged(k)'
           /\ Placed' = Placed
<1>1. idx' = idx /\ \A e : Reach(e)' = Reach(e) /\ Picks(e)' = Picks(e)
  BY SameReach DEF catalog
<1>2. Pointers => Pointers'
  BY <1>1 DEF Pointers, Points, Dangling, BlockOf
<1>3. \A k : Arranged(k) => Arranged(k)'
  BY <1>1 DEF Arranged, Points, Dangling, BlockOf
<1>4. QED
  BY <1>2, <1>3 DEF Placed

LEMMA SameKeeping ==
    ASSUME UNCHANGED catalog, UNCHANGED ordered, UNCHANGED stack,
           UNCHANGED from, UNCHANGED block, PlanKept
    PROVE  PlanKept' /\ Settled' = Settled /\ (Roomy' <=> Roomy)
<1>1. /\ idx' = idx
      /\ \A e : Reach(e)' = Reach(e) /\ Picks(e)' = Picks(e)
      /\ \A t : Pick(t)' = Pick(t)
      /\ \A k : SeenBy(stack[k])' = SeenBy(stack[k])
  BY SameReach, SamePicks, SameSeen DEF catalog
<1>2. Settled' = Settled /\ Placed' = Placed /\ OnStack' = OnStack
  BY DEF Settled, Placed, OnStack
<1>3. Stacked' /\ PathOK'
  BY <1>1, <1>2 DEF PlanKept, Stacked, Catalog, Frames, PathOK
<1>4. Pointers' /\ \A k : Arranged(k) => Arranged(k)'
  BY SamePointers DEF PlanKept
<1>5. SeenSettled => SeenSettled'
  BY <1>1, <1>2 DEF SeenSettled
<1>6. Roomy' <=> Roomy
  BY DEF Roomy
<1>7. QED
  BY <1>2, <1>3, <1>4, <1>5, <1>6 DEF PlanKept

\* Command and catalog stay as they are as well.
LEMMA SameTypes ==
    ASSUME InstallerTypes, UNCHANGED catalog, UNCHANGED fate
    PROVE  Catalog' /\ fate' \in [Ids' -> Fates] /\ Ids' = Ids
<1>1. idx' = idx /\ Ids' = Ids
  BY DEF catalog, Ids
<1>2. QED
  BY <1>1 DEF InstallerTypes, Catalog

LEMMA TargetAsked == ASSUME InstallerTypes, pc # "idle"
                     PROVE  /\ todo # <<>> /\ Target \in asked /\ Target \in ToSet(todo)
                            /\ todo \in Seq(asked)
<1>1. todo \in Seq(asked) /\ todo # <<>>
  BY DEF InstallerTypes
<1>2. Len(todo) \in Nat \ {0} /\ DOMAIN todo = 1..Len(todo)
  BY <1>1, EmptySeq, LenProperties
<1>3. 1 \in DOMAIN todo /\ todo[1] \in asked /\ Target = todo[1]
  BY <1>1, <1>2, ElementOfSeq DEF Target
<1>4. QED
  BY <1>1, <1>3 DEF ToSet

LEMMA Returns ==
    ASSUME InstallerTypes, pc # "idle", NEW result, Return(result), UNCHANGED asked
    PROVE  /\ todo' \in Seq(asked') /\ (pc' = "idle" <=> todo' = <<>>)
           /\ i' = 1 /\ rc' = 0 /\ pc' \in {"idle", "load"}
           /\ ToSet(todo) \subseteq ToSet(todo)' \cup {Target}
           /\ failed' = IF result = 0 THEN failed ELSE failed \cup {Target}
<1>1. todo # <<>> /\ todo \in Seq(asked)
  BY TargetAsked
<1>2. /\ Tail(todo) \in Seq(asked) /\ Len(Tail(todo)) = Len(todo) - 1
      /\ \A k \in 1..Len(Tail(todo)) : Tail(todo)[k] = todo[k + 1]
      /\ Len(todo) \in Nat \ {0} /\ DOMAIN todo = 1..Len(todo)
      /\ DOMAIN Tail(todo) = 1..Len(Tail(todo))
  BY <1>1, HeadTailProperties, EmptySeq, LenProperties
<1>3. ASSUME NEW t \in ToSet(todo), t # Target PROVE t \in ToSet(Tail(todo))
  <2>1. PICK k \in 1..Len(todo) : t = todo[k]
    BY <1>2, <1>3 DEF ToSet
  <2>2. k # 1
    BY <1>3, <2>1 DEF Target
  <2>3. (k - 1) \in DOMAIN Tail(todo) /\ Tail(todo)[k - 1] = todo[k]
    BY <1>2, <2>1, <2>2
  <2>4. QED
    BY <2>1, <2>3 DEF ToSet
<1>4. todo' = Tail(todo)
  BY DEF Return
<1>5. ToSet(todo)' = ToSet(Tail(todo))
  BY <1>4 DEF ToSet
<1>6. QED
  BY <1>2, <1>3, <1>4, <1>5 DEF Return

\* The end of one install.
LEMMA ReturnStep ==
    ASSUME InstallerInv, pc # "idle", stack = <<>>, NEW result, Return(result),
           UNCHANGED <<resolver, block, from, state, fate, asked, commands>>,
           result = 0 /\ Roomy => Target \in Ids /\ state[Target] = "new"
    PROVE  InstallerInv'
<1>1. /\ UNCHANGED catalog /\ UNCHANGED ordered /\ UNCHANGED stack /\ UNCHANGED asked
      /\ UNCHANGED from /\ UNCHANGED block /\ UNCHANGED state /\ UNCHANGED fate
      /\ InstallerTypes /\ PlanKept /\ Done
  BY DEF resolver, InstallerInv
<1>2. /\ todo' \in Seq(asked') /\ (pc' = "idle" <=> todo' = <<>>)
      /\ i' = 1 /\ rc' = 0 /\ pc' \in {"idle", "load"}
      /\ ToSet(todo) \subseteq ToSet(todo)' \cup {Target}
      /\ failed' = IF result = 0 THEN failed ELSE failed \cup {Target}
  BY <1>1, Returns
<1>3. Catalog' /\ fate' \in [Ids' -> Fates] /\ Ids' = Ids
  BY <1>1, SameTypes
<1>4. InstallerTypes'
  BY <1>1, <1>2, <1>3 DEF InstallerTypes
<1>5. PlanKept' /\ (Roomy' <=> Roomy)
  BY <1>1, SameKeeping
<1>6. TargetOK' /\ LoopOK'
  BY <1>2 DEF TargetOK, LoopOK
<1>7. Done'
  <2> SUFFICES ASSUME Roomy, NEW t \in asked
               PROVE  t \in ToSet(todo)' \cup failed' \/ (t \in Ids /\ state[t] = "new")
    BY <1>1, <1>3, <1>5 DEF Done
  <2>1. t \in ToSet(todo) \cup failed \/ (t \in Ids /\ state[t] = "new")
    BY <1>1 DEF Done
  <2>2. QED
    BY <1>2, <2>1
<1>8. QED
  BY <1>4, <1>5, <1>6, <1>7 DEF InstallerInv

LEMMA RefusedStep == ASSUME InstallerInv, Refused PROVE InstallerInv'
<1>1. /\ pc = "load" /\ stack = <<>> /\ Return(5)
      /\ UNCHANGED <<resolver, block, from, state, fate, asked, commands>>
  BY DEF Refused, InstallerInv, InstallerTypes
<1>2. QED
  BY <1>1, ReturnStep

\* The loop moves on, or gives up.
LEMMA LoopStep ==
    ASSUME InstallerInv, pc = "loop",
           UNCHANGED <<resolver, block, from, fate, pc, todo, asked, failed, commands>>,
           i' \in Nat \ {0}, state' \in [Ids -> States],
           rc' = 0 =>
               \A j \in DOMAIN ordered : j < i' /\ ~Dangling(ordered[j]) =>
                   /\ PkgInstalled(IdOf(ordered[j]))' \/ IdOf(ordered[j]) \in BuildOnly
                   /\ IdOf(ordered[j]) = Target => state'[Target] = "new",
           \A t \in Ids : t \notin ToSet(todo) /\ state[t] = "new" => state'[t] = "new"
    PROVE  InstallerInv'
<1>1. /\ UNCHANGED catalog /\ UNCHANGED ordered /\ UNCHANGED stack /\ UNCHANGED asked
      /\ UNCHANGED from /\ UNCHANGED block
      /\ UNCHANGED fate /\ pc' = pc /\ todo' = todo /\ failed' = failed /\ idx' = idx
      /\ InstallerTypes /\ PlanKept /\ TargetOK /\ LoopOK /\ Done
  BY DEF resolver, catalog, InstallerInv
<1>2. Catalog' /\ fate' \in [Ids' -> Fates] /\ Ids' = Ids
  BY <1>1, SameTypes
<1>3. PlanKept' /\ Settled' = Settled /\ (Roomy' <=> Roomy)
  BY <1>1, SameKeeping
<1>4. InstallerTypes'
  BY <1>1, <1>2 DEF InstallerTypes
<1>5. TargetOK'
  <2>1. Target' = Target
    BY <1>1 DEF Target
  <2>2. Find(Target)' = Find(Target)
    BY <1>1, <2>1 DEF Find
  <2>3. QED
    BY <1>1, <1>2, <1>3, <2>2 DEF TargetOK
<1>6. LoopOK'
  <2>1. \A e : IdOf(e)' = IdOf(e) /\ (Dangling(e)' <=> Dangling(e))
    BY <1>1 DEF IdOf, Points, Dangling
  <2>2. QED
    BY <1>1, <2>1 DEF LoopOK, Passed, PkgInstalled, Target
<1>7. Done'
  <2>1. ToSet(todo)' = ToSet(todo)
    BY <1>1 DEF ToSet
  <2>2. QED
    BY <1>1, <1>2, <1>3, <2>1 DEF Done
<1>8. QED
  BY <1>3, <1>4, <1>5, <1>6, <1>7 DEF InstallerInv

-----------------------------------------------------------------------------
(***************************************************************************)
(* The loop of cmd_install2.                                               *)
(***************************************************************************)
\* Every pointer leads to an entry of the catalog.
LEMMA Entries ==
    ASSUME Pointers, NEW k \in DOMAIN ordered
    PROVE  /\ k \in Nat \ {0} /\ ordered[k] \in Int
           /\ Points(ordered[k]) \in DOMAIN idx /\ IdOf(ordered[k]) \in Ids
<1>1. ordered \in Seq(Int) /\ Points(ordered[k]) \in DOMAIN idx
  BY DEF Pointers
<1>2. k \in Nat \ {0} /\ ordered[k] \in Int
  BY <1>1, LenProperties, ElementOfSeq
<1>3. QED
  BY <1>1, <1>2 DEF IdOf, Ids

LEMMA AtPlace ==
    ASSUME InstallerInv, InLoop
    PROVE  /\ i \in DOMAIN ordered /\ pc = "loop" /\ rc = 0 /\ stack = <<>> /\ i \in Nat \ {0}
           /\ Pointers /\ Points(Current) \in DOMAIN idx /\ IdOf(Current) \in Ids
           /\ \A j \in DOMAIN ordered : j < i /\ ~Dangling(ordered[j]) => Passed(ordered[j])
<1>1. /\ pc = "loop" /\ i <= Len(ordered) /\ rc = 0 /\ i \in Nat \ {0} /\ stack = <<>>
      /\ Pointers /\ LoopOK
  BY DEF InLoop, InstallerInv, InstallerTypes, PlanKept
<1>2. i \in DOMAIN ordered
  BY <1>1, LenProperties DEF Pointers
<1>3. Points(Current) \in DOMAIN idx /\ IdOf(Current) \in Ids
  BY <1>1, <1>2, Entries DEF Current
<1>4. QED
  BY <1>1, <1>2, <1>3 DEF LoopOK

LEMMA SkipStep == ASSUME InstallerInv, Skip PROVE InstallerInv'
<1>1. /\ InLoop /\ (Skips(Current) \/ Dangling(Current)) /\ i' = i + 1 /\ rc' = rc
      /\ state' = state
      /\ UNCHANGED <<resolver, block, from, fate, pc, todo, asked, failed, commands>>
  BY DEF Skip
<1>2. \/ Dangling(Current)
      \/ ~(IdOf(Current) = Target) /\ (PkgInstalled(IdOf(Current)) \/ IdOf(Current) \in BuildOnly)
  BY <1>1 DEF Skips, IsTarget
<1>3. /\ pc = "loop" /\ i \in Nat \ {0} /\ Pointers
      /\ \A j \in DOMAIN ordered : j < i /\ ~Dangling(ordered[j]) => Passed(ordered[j])
  BY <1>1, AtPlace
<1>4. state' \in [Ids -> States] /\ i' \in Nat \ {0}
  BY <1>1, <1>3 DEF InstallerInv, InstallerTypes
<1>5. ASSUME NEW j \in DOMAIN ordered, j < i', ~Dangling(ordered[j])
      PROVE  /\ PkgInstalled(IdOf(ordered[j]))' \/ IdOf(ordered[j]) \in BuildOnly
             /\ IdOf(ordered[j]) = Target => state'[Target] = "new"
  <2>1. j \in Nat
    BY <1>3, Entries
  <2>2. ordered' = ordered /\ idx' = idx
    BY <1>1 DEF resolver, catalog
  <2>3. j < i \/ j = i
    BY <1>1, <1>3, <1>5, <2>1
  <2>4. Passed(ordered[j])
    BY <1>2, <1>3, <1>5, <2>3 DEF Passed, Current
  <2>5. QED
    BY <1>1, <2>2, <2>4 DEF Passed, PkgInstalled, IdOf, Points, Dangling
<1>6. QED
  BY <1>1, <1>3, <1>4, <1>5, LoopStep

LEMMA DependencyRefusedStep == ASSUME InstallerInv, DependencyRefused PROVE InstallerInv'
<1>1. /\ InLoop /\ i' = i /\ rc' = 5 /\ state' = state
      /\ UNCHANGED <<resolver, block, from, fate, pc, todo, asked, failed, commands>>
  BY DEF DependencyRefused
<1>2. pc = "loop" /\ i \in Nat \ {0}
  BY <1>1, AtPlace
<1>3. state' \in [Ids -> States]
  BY <1>1 DEF InstallerInv, InstallerTypes
<1>4. QED
  BY <1>1, <1>2, <1>3, LoopStep

\* What an install does to the packages, from freed memory too.
LEMMA Touches ==
    ASSUME InstallerInv, InstallEntry
    PROVE  LET t == IdOf(Current) IN
           /\ t \in Ids /\ (~PkgInstalled(t) \/ t = Target)
           /\ state' \in [Ids -> States]
           /\ \A u \in Ids : u # t => state'[u] = state[u]
           /\ rc' = 0 => state'[t] = "new"
<1> DEFINE t == IdOf(Current)
<1>1. /\ InLoop /\ ~Skips(Current)
      /\ state' = [state EXCEPT ![t] = Outcome(t)] /\ rc' = ResultOf(t)
  BY DEF InstallEntry
<1>2. t \in Ids
  BY <1>1, AtPlace
<1>3. ~PkgInstalled(t) \/ t = Target
  BY <1>1 DEF Skips, IsTarget
<1>4. state \in [Ids -> States] /\ fate[t] \in Fates
  BY <1>2 DEF InstallerInv, InstallerTypes
<1>5. Outcome(t) \in States /\ (rc' = 0 => Outcome(t) = "new")
  BY <1>1, <1>2, <1>4 DEF Outcome, ResultOf, Fates, States
<1> HIDE DEF t
<1>6. /\ state' \in [Ids -> States]
      /\ \A u \in Ids : u # t => state'[u] = state[u]
      /\ state'[t] = Outcome(t)
  BY <1>1, <1>2, <1>4, <1>5
<1>7. QED
  BY <1>1, <1>2, <1>3, <1>5, <1>6 DEF t

LEMMA InstallEntryStep == ASSUME InstallerInv, InstallEntry PROVE InstallerInv'
<1>1. PICK t : t = IdOf(Current)
  OBVIOUS
<1>2. /\ InLoop /\ i' = i + 1 /\ InstallerTypes
      /\ UNCHANGED <<resolver, block, from, fate, pc, todo, asked, failed, commands>>
  BY DEF InstallEntry, InstallerInv
<1>3. /\ t \in Ids /\ (~PkgInstalled(t) \/ t = Target)
      /\ state' \in [Ids -> States]
      /\ \A u \in Ids : u # t => state'[u] = state[u]
      /\ rc' = 0 => state'[t] = "new"
  BY <1>1, Touches
<1>4. /\ pc = "loop" /\ i \in Nat \ {0} /\ Pointers
      /\ \A j \in DOMAIN ordered : j < i /\ ~Dangling(ordered[j]) => Passed(ordered[j])
  BY <1>2, AtPlace
<1>5. ASSUME rc' = 0, NEW j \in DOMAIN ordered, j < i', ~Dangling(ordered[j])
      PROVE  /\ PkgInstalled(IdOf(ordered[j]))' \/ IdOf(ordered[j]) \in BuildOnly
             /\ IdOf(ordered[j]) = Target => state'[Target] = "new"
  <2>1. PICK u : u = IdOf(ordered[j])
    OBVIOUS
  <2>2. j \in Nat /\ u \in Ids
    BY <1>4, <2>1, Entries
  <2>3. u = t \/ Passed(ordered[j])
    BY <1>1, <1>2, <1>4, <1>5, <2>1, <2>2 DEF Current
  <2>4. u = t \/ state'[u] = state[u]
    BY <1>3, <2>2
  <2>5. (state'[u] # "absent" \/ u \in BuildOnly) /\ (u = Target => state'[u] = "new")
    BY <1>3, <1>5, <2>1, <2>3, <2>4 DEF Passed, PkgInstalled
  <2>6. IdOf(ordered[j])' = u
    BY <1>2, <2>1 DEF resolver, catalog, IdOf, Points, Dangling
  <2>7. QED
    BY <2>1, <2>5, <2>6 DEF PkgInstalled
<1>6. ASSUME NEW u \in Ids, u \notin ToSet(todo), state[u] = "new" PROVE state'[u] = "new"
  <2>1. Target \in ToSet(todo)
    BY <1>2, <1>4, TargetAsked
  <2>2. u # t
    BY <1>3, <1>6, <2>1 DEF PkgInstalled
  <2>3. QED
    BY <1>3, <1>6, <2>2
<1>7. i' \in Nat \ {0}
  BY <1>2, <1>4
<1>8. QED
  BY <1>2, <1>3, <1>4, <1>5, <1>6, <1>7, LoopStep

\* A loop that ends without a failure has passed its target.
LEMMA LoopEndsStep == ASSUME InstallerInv, LoopEnds PROVE InstallerInv'
<1>1. /\ pc = "loop" /\ LoopOver /\ Return(rc)
      /\ UNCHANGED <<resolver, block, from, state, fate, asked, commands>>
  BY DEF LoopEnds
<1>2. /\ stack = <<>> /\ InstallerTypes /\ Pointers /\ TargetOK /\ LoopOK /\ Catalog
      /\ i \in Nat \ {0}
  BY <1>1 DEF InstallerInv, InstallerTypes, PlanKept
<1>3. ASSUME rc = 0, Roomy PROVE Target \in Ids /\ state[Target] = "new"
  <2>1. i > Len(ordered)
    BY <1>1, <1>3 DEF LoopOver
  <2>2. PICK e : e = Find(Target)
    OBVIOUS
  <2>3. e # NoEntry /\ e \in Settled
    BY <1>1, <1>2, <1>3, <2>2 DEF TargetOK
  <2>4. e \in DOMAIN idx /\ idx[e].id = Target /\ e \in Nat
    BY <1>2, <2>2, <2>3, FindIs, Positions
  <2>5. ~Dangling(e) /\ IdOf(e) = Target
    BY <2>4 DEF IdOf, Points, Dangling
  <2>6. Settled = Placed
    BY <1>2, EmptySeq DEF Settled, OnStack
  <2>7. PICK j \in DOMAIN ordered : ordered[j] = e
    BY <2>3, <2>6 DEF Placed, ToSet
  <2>8. j < i
    BY <1>2, <2>1, <2>7, LenProperties DEF Pointers
  <2>9. Passed(e)
    BY <1>1, <1>2, <1>3, <2>5, <2>7, <2>8 DEF LoopOK
  <2>10. QED
    BY <2>4, <2>5, <2>9 DEF Passed, Ids
<1>4. QED
  BY <1>1, <1>2, <1>3, ReturnStep

-----------------------------------------------------------------------------
(***************************************************************************)
(* The plan grows, and its blocks change.                                  *)
(***************************************************************************)
LEMMA PlanLengths ==
    ASSUME PlanKept
    PROVE  /\ Len(ordered) \in Nat /\ DOMAIN ordered = 1..Len(ordered)
           /\ Len(stack) \in Nat /\ DOMAIN stack = 1..Len(stack)
           /\ Catalog /\ DOMAIN idx \subseteq Nat \ {0} /\ MaxPlan \in Nat \ {0}
<1>1. ordered \in Seq(Int) /\ stack \in Seq(Frames) /\ Catalog
  BY DEF PlanKept, Pointers, Stacked
<1>2. DOMAIN idx = 1..Len(idx) /\ Len(idx) \in Nat
  BY <1>1, Positions
<1>3. QED
  BY <1>1, <1>2, LenProperties, ResolverConstants

\* The catalog is parsed anew: every block keeps its pointers and their order.
LEMMA ParsedKeeps ==
    ASSUME PlanKept, stack = <<>>, NEW b, ParsedInto(b), UNCHANGED catalog, UNCHANGED stack
    PROVE  PlanKept' /\ (Roomy' <=> Roomy)
<1> DEFINE n == Len(ordered)
           p(k) == IF BlockOf(k) = b THEN Points(ordered[k]) ELSE -Points(ordered[k])
<1>1. /\ n \in Nat /\ DOMAIN ordered = 1..n /\ Catalog /\ DOMAIN idx \subseteq Nat \ {0}
      /\ Pointers
  BY PlanLengths DEF PlanKept
<1>2. /\ block' = b /\ from' = [k \in 1..n |-> BlockOf(k)] /\ ordered' = [k \in 1..n |-> p(k)]
      /\ idx' = idx
  BY <1>1 DEF ParsedInto, catalog
<1>3. ASSUME NEW k \in 1..n
      PROVE  /\ p(k) \in Int /\ Points(p(k)) = Points(ordered[k])
             /\ Dangling(p(k)) <=> BlockOf(k) # b
  <2>1. PICK q : q = Points(ordered[k])
    OBVIOUS
  <2>2. q \in Nat \ {0}
    BY <1>1, <2>1 DEF Pointers
  <2>3. QED
    BY <2>1, <2>2 DEF Points, Dangling
<1>4. ordered' \in Seq(Int) /\ Len(ordered') = n /\ DOMAIN ordered' = 1..n
  <2>1. ordered' \in [1..n -> Int]
    BY <1>2, <1>3
  <2>2. ordered' \in Seq(Int)
    BY <1>1, <2>1, IsASeq
  <2>3. QED
    BY <1>1, <2>1, <2>2, LenProperties
<1>5. ASSUME NEW k \in 1..n
      PROVE  /\ BlockOf(k)' = BlockOf(k) /\ Points(ordered'[k]) = Points(ordered[k])
             /\ Dangling(ordered'[k]) <=> BlockOf(k) # b
  <2>1. ordered'[k] = p(k)
    BY <1>2
  <2>2. DOMAIN from' = 1..n /\ from'[k] = BlockOf(k)
    BY <1>2
  <2>3. BlockOf(k)' = from'[k]
    BY <2>2 DEF BlockOf
  <2>4. QED
    BY <1>3, <2>1, <2>2, <2>3
<1>6. Pointers'
  <2>1. DOMAIN from' = 1..n
    BY <1>2
  <2>2. \A k \in 1..n : Points(ordered'[k]) \in DOMAIN idx'
    BY <1>1, <1>2, <1>5 DEF Pointers
  <2>3. \A k \in 1..n : Dangling(ordered'[k]) <=> BlockOf(k)' # block'
    BY <1>2, <1>5
  <2>4. QED
    BY <1>4, <2>1, <2>2, <2>3 DEF Pointers
<1>7. ASSUME NEW k \in 1..n, Arranged(k) PROVE Arranged(k)'
  <2>1. /\ \A e : Reach(e)' = Reach(e) /\ Picks(e)' = Picks(e)
        /\ \A j \in 1..(k - 1) : j \in 1..n
    BY <1>1, SameReach
  <2>2. QED
    BY <1>5, <1>7, <2>1 DEF Arranged
<1>8. /\ OnStack' = {} /\ DOMAIN stack' = {} /\ Stacked'
  BY <1>2, EmptySeq DEF PlanKept, Stacked, Catalog, Frames, OnStack
<1>9. PathOK' /\ SeenSettled'
  BY <1>8 DEF PathOK, SeenSettled
<1>10. Roomy' <=> Roomy
  BY <1>4 DEF Roomy
<1>11. QED
  BY <1>1, <1>4, <1>6, <1>7, <1>8, <1>9, <1>10 DEF PlanKept

\* A dependency is looked at and not entered: it is settled.
LEMMA LookKeeps ==
    ASSUME PlanKept, MoreDeps, stack' = Advanced,
           UNCHANGED catalog, UNCHANGED ordered, UNCHANGED from, UNCHANGED block,
           Roomy => Dep \in Settled \cup {NoEntry}
    PROVE  PlanKept' /\ Settled' = Settled /\ (Roomy' <=> Roomy)
<1>1. Stacked /\ PathOK /\ Pointers
  BY DEF PlanKept
<1>2. /\ \A e : Reach(e)' = Reach(e)
      /\ \A x : Pick(x)' = Pick(x)
      /\ \A k : SeenBy(stack[k])' = SeenBy(stack'[k])
  BY SameReach, SamePicks, SameSeen
<1>3. /\ Stacked' /\ DOMAIN stack' = DOMAIN stack /\ Len(stack') = Len(stack) /\ OnStack' = OnStack
      /\ \A k \in DOMAIN stack : stack'[k].e = stack[k].e
      /\ \A k \in DOMAIN stack : \A x \in SeenBy(stack'[k]) : x \in SeenBy(stack[k]) \/ x = Looked
  BY <1>1, AfterLook
<1>4. Pointers' /\ (\A k : Arranged(k) => Arranged(k)') /\ Placed' = Placed
  BY <1>1, SamePointers
<1>5. Settled' = Settled /\ (Roomy' <=> Roomy)
  BY <1>3, <1>4 DEF Settled, Roomy
<1>6. PathOK'
  BY <1>1, <1>2, <1>3, <1>4 DEF PathOK
<1>7. ASSUME Roomy PROVE SeenSettled'
  <2>1. Dep = Pick(Looked)
    BY DEF Dep, Looked, Deps
  <2>2. \A k \in DOMAIN stack : \A x \in SeenBy(stack'[k]) : Pick(x) \in Settled \cup {NoEntry}
    BY <1>3, <1>7, <2>1 DEF PlanKept, SeenSettled
  <2>3. QED
    BY <1>2, <1>3, <1>5, <2>2 DEF SeenSettled
<1>8. QED
  BY <1>3, <1>4, <1>5, <1>6, <1>7 DEF PlanKept

\* A dependency is entered: there is one more to take a place.
LEMMA EnterKeeps ==
    ASSUME PlanKept, MoreDeps, NEW d \in DOMAIN idx, d = Dep, Enters(d),
           stack' = Append(Advanced, Frame(d)),
           UNCHANGED catalog, UNCHANGED ordered, UNCHANGED from, UNCHANGED block
    PROVE  PlanKept' /\ Settled' = Settled \cup {d} /\ (Roomy' => Roomy)
<1> DEFINE n == Len(stack)
<1>1. Stacked /\ PathOK /\ Pointers /\ n \in Nat /\ Len(ordered) \in Nat /\ MaxPlan \in Nat
  BY PlanLengths DEF PlanKept
<1>2. /\ \A x : Pick(x)' = Pick(x)
      /\ \A k : SeenBy(stack[k])' = SeenBy(stack'[k])
  BY SamePicks, SameSeen
<1>3. /\ Stacked' /\ DOMAIN stack' = DOMAIN stack \cup {n + 1} /\ Len(stack') = n + 1
      /\ OnStack' = OnStack \cup {d}
      /\ SeenBy(stack'[n + 1]) = {}
      /\ \A k \in DOMAIN stack : \A x \in SeenBy(stack'[k]) : x \in SeenBy(stack[k]) \/ x = Looked
  BY <1>1, AfterEntry
<1>4. Pointers' /\ (\A k : Arranged(k) => Arranged(k)') /\ Placed' = Placed
  BY <1>1, SamePointers
<1>5. PathOK'
  BY <1>1, <1>4, EnterPath DEF Enters
<1>6. Settled' = Settled \cup {d}
  BY <1>3, <1>4 DEF Settled
<1>7. Roomy' => Roomy
  <2>1. Len(ordered') = Len(ordered)
    OBVIOUS
  <2>2. QED
    BY <1>1, <1>3, <2>1 DEF Roomy
<1>8. ASSUME Roomy PROVE SeenSettled'
  <2>1. d = Pick(Looked)
    BY DEF Dep, Looked, Deps
  <2>2. \A k \in DOMAIN stack' : \A x \in SeenBy(stack'[k]) : Pick(x) \in Settled \cup {d, NoEntry}
    BY <1>3, <1>8, <2>1 DEF PlanKept, SeenSettled
  <2>3. QED
    BY <1>2, <1>6, <2>2 DEF SeenSettled
<1>9. QED
  BY <1>3, <1>4, <1>5, <1>6, <1>7, <1>8 DEF PlanKept

\* A package takes its place: what it needs is in its block before it, or on
\* the stack and in need of it.
LEMMA Places ==
    ASSUME PlanKept, Leave, HasRoom, UNCHANGED from, UNCHANGED block
    PROVE  PlanKept' /\ Settled' = Settled /\ (Roomy' <=> Roomy)
<1> DEFINE n == Len(stack)
           m == Len(ordered)
<1>1. /\ Stacked /\ PathOK /\ Pointers /\ DOMAIN ordered = 1..m /\ m \in Nat
      /\ Catalog /\ DOMAIN idx \subseteq Nat \ {0} /\ ordered \in Seq(Int)
  BY PlanLengths DEF PlanKept, Pointers
<1>2. UNCHANGED catalog /\ idx' = idx
  BY DEF Leave, catalog
<1>3. /\ \A f : Reach(f)' = Reach(f) /\ Picks(f)' = Picks(f)
      /\ \A x : Pick(x)' = Pick(x)
      /\ \A k : SeenBy(stack[k])' = SeenBy(stack'[k])
  BY <1>2, SameReach, SamePicks, SameSeen
<1>4. PICK e : e = Top.e
  OBVIOUS
<1>5. /\ Stacked' /\ n \in Nat \ {0} /\ n \in DOMAIN stack /\ DOMAIN stack = 1..n
      /\ DOMAIN stack' = DOMAIN stack \ {n} /\ Len(stack') = n - 1
      /\ \A k \in DOMAIN stack' : stack'[k] = stack[k]
      /\ e = stack[n].e /\ e \in DOMAIN idx /\ e \in OnStack
      /\ e \notin Placed /\ OnStack' = OnStack \ {e}
      /\ SeenBy(stack[n]) = ToSet(Deps(e))
  BY <1>1, <1>4, AfterLeave
<1>6. e \in Nat \ {0}
  BY <1>1, <1>5
<1>7. /\ ordered' \in Seq(Int) /\ Len(ordered') = m + 1
      /\ DOMAIN ordered' = DOMAIN ordered \cup {m + 1}
      /\ \A k \in DOMAIN ordered : ordered'[k] = ordered[k]
      /\ ordered'[m + 1] = e
  <2>1. ordered' = Append(ordered, e)
    BY <1>4, <1>5 DEF Leave
  <2>2. /\ Append(ordered, e) \in Seq(Int) /\ Len(Append(ordered, e)) = m + 1
        /\ \A k \in 1..m : Append(ordered, e)[k] = ordered[k]
        /\ Append(ordered, e)[m + 1] = e
    <3>1. e \in Int
      BY <1>6
    <3>2. QED
      BY <1>1, <3>1, AppendProperties
  <2>3. DOMAIN ordered' = 1..(m + 1)
    BY <2>1, <2>2, LenProperties
  <2>4. QED
    BY <1>1, <2>1, <2>2, <2>3
<1>8. Placed' = Placed \cup {e}
  <2>1. Placed' = {ordered'[k] : k \in DOMAIN ordered'}
    BY DEF Placed, ToSet
  <2>2. Placed = {ordered[k] : k \in DOMAIN ordered}
    BY DEF Placed, ToSet
  <2>3. QED
    BY <1>7, <2>1, <2>2
<1>9. Settled' = Settled
  BY <1>5, <1>8 DEF Settled
<1>10. Roomy' <=> Roomy
  <2>1. MaxPlan \in Nat
    BY ResolverConstants
  <2>2. QED
    BY <1>1, <1>5, <1>7, <2>1 DEF Roomy
<1>11. PathOK'
  BY <1>1, <1>4, <1>8, LeavePath
<1>12. \A k : BlockOf(k)' = BlockOf(k)
  BY DEF BlockOf
<1>13. BlockOf(m + 1) = block /\ Points(e) = e /\ ~Dangling(e)
  <2>1. m + 1 \notin DOMAIN from
    BY <1>1 DEF Pointers
  <2>2. QED
    BY <1>6, <2>1 DEF BlockOf, Points, Dangling
<1>14. Pointers'
  <2>1. ASSUME NEW k \in DOMAIN ordered'
        PROVE  /\ Points(ordered'[k]) \in DOMAIN idx
               /\ Dangling(ordered'[k]) <=> BlockOf(k) # block
    <3>1. CASE k \in DOMAIN ordered
      BY <1>1, <1>7, <3>1 DEF Pointers
    <3>2. CASE k = m + 1
      BY <1>5, <1>7, <1>13, <3>2
    <3>3. QED
      BY <1>7, <2>1, <3>1, <3>2
  <2>2. DOMAIN from' \subseteq DOMAIN ordered'
    BY <1>1, <1>7 DEF Pointers
  <2>3. QED
    BY <1>2, <1>7, <1>12, <2>1, <2>2 DEF Pointers
<1>15. ASSUME Roomy PROVE SeenSettled'
  <2>1. \A k \in DOMAIN stack' : \A t \in SeenBy(stack'[k]) : Pick(t) \in Settled \cup {NoEntry}
    BY <1>5, <1>15 DEF PlanKept, SeenSettled
  <2>2. QED
    BY <1>3, <1>9, <2>1 DEF SeenSettled
<1>16. ASSUME Roomy, NEW d \in Picks(e)
       PROVE  (\E j \in 1..m : BlockOf(j) = block /\ Points(ordered[j]) = d) \/ e \in Reach(d)
  <2>1. PICK k \in DOMAIN Deps(e) : d = Pick(Deps(e)[k])
    BY DEF Picks, Deps
  <2>2. Deps(e)[k] \in SeenBy(stack[n]) /\ d # NoEntry
    BY <1>5, <2>1 DEF ToSet, Picks
  <2>3. d \in Settled
    BY <1>5, <1>16, <2>1, <2>2 DEF PlanKept, SeenSettled
  <2>4. CASE d \in Placed
    <3>1. PICK j \in DOMAIN ordered : ordered[j] = d
      BY <2>4 DEF Placed, ToSet
    <3>2. d \in DOMAIN idx
      BY <1>1, PicksFind
    <3>3. d \in Nat
      BY <1>1, <3>2
    <3>4. ~Dangling(d) /\ Points(d) = d
      BY <3>3 DEF Dangling, Points
    <3>5. BlockOf(j) = block
      BY <1>1, <3>1, <3>4 DEF Pointers
    <3>6. QED
      BY <1>1, <3>1, <3>4, <3>5
  <2>5. CASE d \in OnStack
    <3>1. PICK j \in DOMAIN stack : d = stack[j].e
      BY <2>5 DEF OnStack
    <3>2. e \in Reach(stack[j].e)
      BY <1>1, <1>5 DEF PathOK
    <3>3. QED
      BY <3>1, <3>2
  <2>6. QED
    BY <2>3, <2>4, <2>5 DEF Settled
<1>17. ASSUME Roomy, NEW k \in DOMAIN ordered' PROVE Arranged(k)'
  <2>1. CASE k \in DOMAIN ordered
    <3>1. ordered'[k] = ordered[k]
      BY <1>7, <2>1
    <3>2. \A j \in 1..(k - 1) : j \in DOMAIN ordered
      BY <1>1, <2>1
    <3>3. \A j \in 1..(k - 1) : ordered'[j] = ordered[j]
      BY <1>7, <3>2
    <3>4. Arranged(k)
      BY <1>17, <2>1 DEF PlanKept
    <3>5. QED
      BY <1>3, <1>12, <3>1, <3>3, <3>4 DEF Arranged
  <2>2. CASE k = m + 1
    <3>1. /\ ordered'[k] = e /\ BlockOf(k) = block /\ 1..(k - 1) = 1..m
          /\ \A j \in 1..m : ordered'[j] = ordered[j]
      BY <1>1, <1>7, <1>13, <2>2
    <3>2. QED
      BY <1>3, <1>12, <1>13, <1>16, <1>17, <3>1 DEF Arranged
  <2>3. QED
    BY <1>7, <1>17, <2>1, <2>2
<1>18. QED
  BY <1>5, <1>9, <1>10, <1>11, <1>14, <1>15, <1>17 DEF PlanKept

\* The table is full: the package is left out.
LEMMA LeftOut ==
    ASSUME PlanKept, Leave, ~HasRoom, UNCHANGED from, UNCHANGED block
    PROVE  PlanKept' /\ ~Roomy'
<1>1. /\ Stacked /\ PathOK /\ Pointers /\ Len(ordered) \in Nat /\ MaxPlan \in Nat
  BY PlanLengths DEF PlanKept
<1>2. UNCHANGED catalog /\ UNCHANGED ordered
  BY DEF Leave
<1>3. Stacked' /\ Len(stack') = Len(stack) - 1 /\ Len(stack) \in Nat \ {0}
  BY <1>1, AfterLeave
<1>4. Pointers' /\ Placed' = Placed
  BY <1>1, <1>2, SamePointers
<1>5. PathOK'
  BY <1>1, <1>4, LeavePath
<1>6. ~Roomy'
  BY <1>1, <1>2, <1>3 DEF Roomy, HasRoom
<1>7. QED
  BY <1>3, <1>4, <1>5, <1>6 DEF PlanKept

LEMMA VisitKeeps ==
    ASSUME PlanKept, Visit, UNCHANGED from, UNCHANGED block
    PROVE  PlanKept' /\ (Roomy' => Roomy /\ Settled \subseteq Settled')
<1>1. CASE Descend
  <2>1. MoreDeps /\ Dep # NoEntry /\ UNCHANGED catalog /\ UNCHANGED ordered
    BY <1>1 DEF Descend
  <2>2. PICK d \in DOMAIN idx : d = Dep
    <3>1. Stacked /\ PathOK /\ Catalog /\ DOMAIN idx \in ClosedSets /\ OnStack \subseteq DOMAIN idx
      <4>1. Stacked /\ PathOK /\ Catalog /\ stack \in Seq(Frames)
        BY DEF PlanKept, Stacked
      <4>2. \A k \in DOMAIN stack : stack[k] \in Frames
        BY <4>1, LenProperties, ElementOfSeq
      <4>3. \A f \in Frames : f.e \in DOMAIN idx
        BY DEF Frames
      <4>4. QED
        BY <4>1, <4>2, <4>3, AllClosed DEF OnStack
    <3>2. QED
      BY <2>1, <3>1, DepNeeded
  <2>3. CASE Enters(Dep)
    <3>1. stack' = Append(Advanced, Frame(d))
      BY <1>1, <2>2, <2>3 DEF Descend
    <3>2. QED
      BY <2>1, <2>2, <2>3, <3>1, EnterKeeps
  <2>4. CASE ~Enters(Dep)
    <3>1. stack' = Advanced
      BY <1>1, <2>4 DEF Descend
    <3>2. Roomy => Dep \in Settled
      <4>1. Roomy => Len(stack) < MaxPlan
        BY PlanLengths DEF Roomy
      <4>2. QED
        BY <2>4, <4>1 DEF Enters, Settled
    <3>3. QED
      BY <2>1, <3>1, <3>2, LookKeeps
  <2>5. QED
    BY <2>3, <2>4
<1>2. CASE Unresolvable
  <2>1. /\ MoreDeps /\ Dep = NoEntry /\ UNCHANGED catalog /\ UNCHANGED ordered
        /\ stack' = Advanced
    BY <1>2 DEF Unresolvable
  <2>2. QED
    BY <2>1, LookKeeps
<1>3. CASE Leave
  BY <1>3, Places, LeftOut
<1>4. QED
  BY <1>1, <1>2, <1>3 DEF Visit

\* The selected package is entered, unless its block holds it already.
LEMMA SelectKeeps ==
    ASSUME PlanKept, stack = <<>>, NEW e \in DOMAIN idx,
           stack' = IF Enters(e) THEN <<Frame(e)>> ELSE <<>>,
           UNCHANGED catalog, UNCHANGED ordered, UNCHANGED from, UNCHANGED block
    PROVE  PlanKept' /\ (Roomy' => Roomy /\ e \in Settled')
<1>1. /\ Stacked /\ Catalog /\ Pointers /\ idx' = idx /\ Len(ordered) \in Nat /\ MaxPlan \in Nat \ {0}
      /\ DOMAIN <<>> = {} /\ Len(<<>>) = 0 /\ <<>> \in Seq(Frames)
  BY PlanLengths, EmptySeq DEF PlanKept, catalog
<1>2. /\ \A f : Reach(f)' = Reach(f)
      /\ \A k : SeenBy(stack[k])' = SeenBy(stack'[k])
  BY SameReach, SameSeen
<1>3. Pointers' /\ (\A k : Arranged(k) => Arranged(k)') /\ Placed' = Placed
  BY <1>1, SamePointers
<1>4. OnStack = {}
  BY <1>1 DEF OnStack
<1>5. CASE Enters(e)
  <2>1. Frame(e) \in Frames /\ Frame(e).e = e
    BY <1>1 DEF Frame, Frames
  <2>2. /\ stack' \in Seq(Frames) /\ DOMAIN stack' = {1} /\ stack'[1] = Frame(e)
        /\ stack'[1].e = e /\ Len(stack') = 1
    <3> HIDE DEF Frames
    <3> QED BY <1>5, <2>1
  <2>3. SeenBy(stack'[1]) = {}
    BY <1>1, <2>2, SeesNone
  <2>4. OnStack' = {e} /\ e \in Settled' /\ e \notin Placed
    BY <1>5, <2>2 DEF OnStack, Settled, Enters
  <2>5. PathOK'
    <3>1. stack'[1].e \in Reach(stack'[1].e)
      BY <1>1, <2>2, ReachSelf
    <3>2. \A k \in DOMAIN stack' : \A j \in 1..k : stack'[k].e \in Reach(stack'[j].e)
      BY <2>2, <3>1
    <3>3. QED
      BY <1>2, <1>3, <2>2, <2>4, <3>2 DEF PathOK
  <2>6. SeenSettled' /\ Stacked'
    BY <1>1, <1>2, <2>2, <2>3 DEF SeenSettled, Stacked, Catalog, Frames
  <2>7. Roomy' => Roomy
    <3>1. Len(ordered') = Len(ordered)
      OBVIOUS
    <3>2. QED
      BY <1>1, <2>2, <3>1 DEF Roomy
  <2>8. QED
    BY <1>3, <2>4, <2>5, <2>6, <2>7 DEF PlanKept
<1>6. CASE ~Enters(e)
  <2>1. stack' = <<>>
    BY <1>6
  <2>2. e \in Placed
    BY <1>1, <1>4, <1>6 DEF Enters
  <2>3. PlanKept' /\ Settled' = Settled /\ (Roomy' <=> Roomy)
    BY <2>1, SameKeeping
  <2>4. QED
    BY <2>2, <2>3 DEF Settled
<1>7. QED
  BY <1>5, <1>6

\* A step of the resolver leaves the command and the packages alone.
LEMMA PlanStep ==
    ASSUME InstallerInv, pc \in {"select", "resolve"}, pc' = "resolve",
           UNCHANGED catalog,
           UNCHANGED <<state, fate, todo, i, rc, asked, failed, commands>>,
           PlanKept', Roomy' => Roomy /\ Find(Target) \in Settled'
    PROVE  InstallerInv'
<1>1. /\ InstallerTypes /\ Done /\ TargetOK /\ UNCHANGED fate /\ idx' = idx
  BY DEF InstallerInv, catalog
<1>2. Catalog' /\ fate' \in [Ids' -> Fates] /\ Ids' = Ids
  BY <1>1, SameTypes
<1>3. InstallerTypes'
  BY <1>1, <1>2 DEF InstallerTypes
<1>4. TargetOK'
  <2>1. Find(Target)' = Find(Target)
    BY <1>1 DEF Find, Target
  <2>2. QED
    BY <1>1, <2>1 DEF TargetOK
<1>5. LoopOK'
  BY DEF LoopOK
<1>6. Done'
  <2>1. ToSet(todo)' = ToSet(todo)
    BY DEF ToSet
  <2>2. QED
    BY <1>1, <1>2, <2>1 DEF Done
<1>7. QED
  BY <1>3, <1>4, <1>5, <1>6 DEF InstallerInv

LEMMA LoadStep == ASSUME InstallerInv, Load PROVE InstallerInv'
<1>1. /\ pc = "load" /\ Find(Target) # NoEntry /\ pc' = "select"
      /\ UNCHANGED <<catalog, root, missing, stack, state, fate, todo, i, rc, asked, failed, commands>>
  BY DEF Load
<1>2. /\ InstallerTypes /\ PlanKept /\ Done /\ stack = <<>> /\ i = 1 /\ rc = 0
      /\ UNCHANGED catalog /\ UNCHANGED asked /\ UNCHANGED stack /\ UNCHANGED fate /\ idx' = idx
  BY <1>1 DEF InstallerInv, InstallerTypes, catalog
<1>3. Catalog' /\ fate' \in [Ids' -> Fates] /\ Ids' = Ids
  BY <1>2, SameTypes
<1>4. InstallerTypes'
  BY <1>1, <1>2, <1>3 DEF InstallerTypes
<1>5. PICK b \in Blocks : ParsedInto(b)
  BY DEF Load
<1>6. PlanKept' /\ (Roomy' <=> Roomy)
  BY <1>2, <1>5, ParsedKeeps
<1>7. TargetOK'
  <2>1. Find(Target)' = Find(Target)
    BY <1>1, <1>2 DEF Find, Target
  <2>2. QED
    BY <1>1, <2>1 DEF TargetOK
<1>8. LoopOK'
  BY <1>1 DEF LoopOK
<1>9. Done'
  <2>1. ToSet(todo)' = ToSet(todo)
    BY <1>1 DEF ToSet
  <2>2. QED
    BY <1>1, <1>2, <1>3, <1>6, <2>1 DEF Done
<1>10. QED
  BY <1>4, <1>6, <1>7, <1>8, <1>9 DEF InstallerInv

LEMMA ResolveStep == ASSUME InstallerInv, Resolve PROVE InstallerInv'
<1>1. /\ pc = "select" /\ pc' = "resolve" /\ Select(Target)
      /\ UNCHANGED <<block, from, state, fate, todo, i, rc, asked, failed, commands>>
  BY DEF Resolve
<1>2. /\ UNCHANGED catalog /\ UNCHANGED ordered /\ stack = <<>>
      /\ Catalog /\ PlanKept /\ Find(Target) # NoEntry
  BY <1>1 DEF Select, InstallerInv, InstallerTypes, TargetOK
<1>3. PICK e \in DOMAIN idx : e = Find(Target)
  BY <1>2, FindIs
<1>4. stack' = IF Enters(e) THEN <<Frame(e)>> ELSE <<>>
  BY <1>1, <1>2, <1>3 DEF Select
<1>5. PlanKept' /\ (Roomy' => Roomy /\ e \in Settled')
  BY <1>1, <1>2, <1>4, SelectKeeps
<1>6. QED
  BY <1>1, <1>2, <1>3, <1>5, PlanStep

LEMMA ExpandStep == ASSUME InstallerInv, Expand PROVE InstallerInv'
<1>1. pc = "resolve" /\ pc' = "resolve" /\ Visit /\ UNCHANGED installer
  BY DEF Expand, installer
<1>2. /\ UNCHANGED <<state, fate, todo, i, rc, asked, failed, commands>>
      /\ UNCHANGED catalog /\ UNCHANGED from /\ UNCHANGED block
      /\ PlanKept /\ TargetOK
  BY <1>1 DEF installer, Visit, Descend, Unresolvable, Leave, InstallerInv
<1>3. PlanKept' /\ (Roomy' => Roomy /\ Settled \subseteq Settled')
  BY <1>1, <1>2, VisitKeeps
<1>4. Roomy' => Roomy /\ Find(Target) \in Settled'
  BY <1>1, <1>2, <1>3 DEF TargetOK
<1>5. QED
  BY <1>1, <1>2, <1>3, <1>4, PlanStep

\* The whole dependency tree is seen: the loop starts.
LEMMA ExpandedStep == ASSUME InstallerInv, Expanded PROVE InstallerInv'
<1>1. /\ pc = "resolve" /\ pc' = "loop" /\ stack = <<>>
      /\ UNCHANGED <<resolver, block, from, state, fate, todo, i, rc, asked, failed, commands>>
  BY DEF Expanded
<1>2. /\ UNCHANGED catalog /\ UNCHANGED ordered /\ UNCHANGED stack /\ UNCHANGED asked
      /\ UNCHANGED from /\ UNCHANGED block /\ UNCHANGED fate /\ idx' = idx
      /\ InstallerTypes /\ PlanKept /\ TargetOK /\ Done /\ i = 1 /\ rc = 0
  BY <1>1 DEF resolver, catalog, InstallerInv, InstallerTypes
<1>3. Catalog' /\ fate' \in [Ids' -> Fates] /\ Ids' = Ids
  BY <1>2, SameTypes
<1>4. InstallerTypes'
  BY <1>1, <1>2, <1>3 DEF InstallerTypes
<1>5. PlanKept' /\ Settled' = Settled /\ (Roomy' <=> Roomy)
  BY <1>2, SameKeeping
<1>6. TargetOK'
  <2>1. Find(Target)' = Find(Target)
    BY <1>1, <1>2 DEF Find, Target
  <2>2. QED
    BY <1>1, <1>2, <1>5, <2>1 DEF TargetOK
<1>7. LoopOK'
  <2>1. i' = 1
    BY <1>1, <1>2
  <2>2. \A j \in DOMAIN ordered' : j \in Nat \ {0}
    BY <1>5, LenProperties DEF PlanKept, Pointers
  <2>3. QED
    BY <2>1, <2>2 DEF LoopOK
<1>8. Done'
  <2>1. ToSet(todo)' = ToSet(todo)
    BY <1>1 DEF ToSet
  <2>2. QED
    BY <1>1, <1>2, <1>3, <1>5, <2>1 DEF Done
<1>9. QED
  BY <1>4, <1>5, <1>6, <1>7, <1>8 DEF InstallerInv

-----------------------------------------------------------------------------
(***************************************************************************)
(* The commands.                                                           *)
(***************************************************************************)
LEMMA NothingPlanned ==
    ASSUME Catalog, ordered = <<>>, stack = <<>>, from = <<>>
    PROVE  PlanKept
<1>1. DOMAIN <<>> = {} /\ <<>> \in Seq(Frames) /\ <<>> \in Seq(Int)
  BY EmptySeq
<1>2. OnStack = {}
  BY <1>1 DEF OnStack
<1>3. PathOK /\ SeenSettled /\ Pointers
  BY <1>1, <1>2 DEF PathOK, SeenSettled, Pointers
<1>4. QED
  BY <1>1, <1>3 DEF PlanKept, Stacked

LEMMA BeginStep ==
    ASSUME InstallerInv, NEW ids, ids \in Seq(ToSet(ids)), ids # <<>>, Begin(ids)
    PROVE  InstallerInv'
<1>1. /\ pc = "idle" /\ pc' = "load" /\ todo' = ids /\ asked' = ToSet(ids) /\ failed' = {}
      /\ ordered' = <<>> /\ from' = <<>> /\ idx' = idx /\ stack' = stack
      /\ state' = state /\ fate' = fate /\ i' = i /\ rc' = rc
  BY DEF Begin, catalog
<1>2. InstallerTypes /\ Catalog /\ stack = <<>> /\ i = 1 /\ rc = 0
  BY <1>1 DEF InstallerInv, InstallerTypes
<1>3. Catalog' /\ Ids' = Ids
  BY <1>1, <1>2 DEF Catalog, Ids
<1>4. InstallerTypes'
  BY <1>1, <1>2, <1>3 DEF InstallerTypes
<1>5. PlanKept'
  <2>1. (Catalog /\ ordered = <<>> /\ stack = <<>> /\ from = <<>> => PlanKept)'
    BY NothingPlanned, PTL
  <2>2. QED
    BY <1>1, <1>2, <1>3, <2>1
<1>6. TargetOK' /\ LoopOK'
  BY <1>1 DEF TargetOK, LoopOK
<1>7. Done'
  BY <1>1 DEF Done, ToSet
<1>8. QED
  BY <1>4, <1>5, <1>6, <1>7 DEF InstallerInv

LEMMA OneAsked == ASSUME NEW t PROVE <<t>> \in Seq(ToSet(<<t>>)) /\ <<t>> # <<>>
<1>1. t \in ToSet(<<t>>)
  BY DEF ToSet
<1>2. QED
  BY <1>1

LEMMA CommandStep ==
    ASSUME InstallerInv, (\E t \in Targets : Install(t) \/ UpgradeOne(t)) \/ UpgradeAll
    PROVE  InstallerInv'
<1>1. ASSUME NEW t, Install(t) \/ UpgradeOne(t) PROVE InstallerInv'
  <2>1. Begin(<<t>>)
    BY <1>1 DEF Install, UpgradeOne
  <2>2. QED
    BY <2>1, OneAsked, BeginStep
<1>2. CASE UpgradeAll
  <2>1. PICK s \in SetToSeqs(OutOfDate) : Begin(s)
    BY <1>2 DEF UpgradeAll
  <2>2. PICK n : n = Cardinality(OutOfDate)
    OBVIOUS
  <2>3. n \in Nat \ {0}
    <3>1. IsFiniteSet(Ids)
      <4>1. IsFiniteSet(DOMAIN idx)
        BY Positions DEF InstallerInv, InstallerTypes
      <4>2. [e \in DOMAIN idx |-> idx[e].id] \in Surjection(DOMAIN idx, Ids)
        BY DEF Surjection, Ids
      <4>3. QED
        BY <4>1, <4>2, FS_Surjection
    <3>2. IsFiniteSet(OutOfDate)
      BY <3>1, FS_Subset DEF OutOfDate
    <3>3. OutOfDate # {}
      BY <1>2 DEF UpgradeAll
    <3>4. QED
      BY <2>2, <3>2, <3>3, FS_CardinalityType, FS_EmptySet
  <2>4. s \in [1..n -> OutOfDate]
    BY <2>1, <2>2 DEF SetToSeqs
  <2>5. DOMAIN s = 1..n /\ s = [k \in 1..n |-> s[k]] /\ \A k \in 1..n : s[k] \in ToSet(s)
    BY <2>4 DEF ToSet
  <2>6. s \in Seq(ToSet(s))
    BY <2>3, <2>5
  <2>7. s # <<>>
    BY <2>3, <2>5, EmptySeq
  <2>8. QED
    BY <2>1, <2>6, <2>7, BeginStep
<1>3. QED
  BY <1>1, <1>2

LEMMA InstallerStart == ASSUME InstallerInit PROVE InstallerInv
<1>1. /\ Catalog /\ ordered = <<>> /\ stack = <<>> /\ from = <<>>
      /\ pc = "idle" /\ todo = <<>> /\ i = 1 /\ rc = 0 /\ asked = {}
      /\ state \in [Ids -> {"absent", "old"}] /\ fate \in [Ids -> Fates]
  BY ResolverConstants DEF InstallerInit, Init, Catalog
<1>2. InstallerTypes
  <2>1. state \in [Ids -> States]
    BY <1>1 DEF States
  <2>2. QED
    BY <1>1, <2>1, EmptySeq DEF InstallerTypes
<1>3. PlanKept
  BY <1>1, NothingPlanned
<1>4. QED
  BY <1>1, <1>2, <1>3 DEF InstallerInv, TargetOK, LoopOK, Done

LEMMA InstallerStutter == ASSUME InstallerInv, UNCHANGED allVars PROVE InstallerInv'
<1>1. /\ UNCHANGED catalog /\ UNCHANGED ordered /\ UNCHANGED stack /\ UNCHANGED asked
      /\ UNCHANGED from /\ UNCHANGED block
      /\ UNCHANGED fate /\ idx' = idx /\ state' = state /\ pc' = pc /\ todo' = todo
      /\ i' = i /\ rc' = rc /\ failed' = failed
      /\ InstallerTypes /\ PlanKept /\ TargetOK /\ LoopOK /\ Done
  BY DEF allVars, resolver, installer, catalog, InstallerInv
<1>2. Catalog' /\ fate' \in [Ids' -> Fates] /\ Ids' = Ids
  BY <1>1, SameTypes
<1>3. PlanKept' /\ Settled' = Settled /\ (Roomy' <=> Roomy)
  BY <1>1, SameKeeping
<1>4. InstallerTypes'
  BY <1>1, <1>2 DEF InstallerTypes
<1>5. Target' = Target
  BY <1>1 DEF Target
<1>6. Find(Target)' = Find(Target) /\ ToSet(todo)' = ToSet(todo)
  BY <1>1, <1>5 DEF Find, ToSet
<1>7. TargetOK'
  BY <1>1, <1>3, <1>6 DEF TargetOK
<1>8. LoopOK'
  <2>1. \A e : IdOf(e)' = IdOf(e) /\ (Dangling(e)' <=> Dangling(e))
    BY <1>1 DEF IdOf, Points, Dangling
  <2>2. QED
    BY <1>1, <1>5, <2>1 DEF LoopOK, Passed, PkgInstalled
<1>9. Done'
  BY <1>1, <1>2, <1>3, <1>6 DEF Done
<1>10. QED
  BY <1>3, <1>4, <1>7, <1>8, <1>9 DEF InstallerInv

LEMMA StepKeeps == ASSUME InstallerInv, [InstallerNext]_allVars PROVE InstallerInv'
<1>1. CASE Step
  BY <1>1, RefusedStep, LoadStep, ResolveStep, ExpandStep, ExpandedStep, SkipStep,
     DependencyRefusedStep, InstallEntryStep, LoopEndsStep DEF Step
<1>2. CASE (\E t \in Targets : Install(t) \/ UpgradeOne(t)) \/ UpgradeAll
  BY <1>2, CommandStep
<1>3. CASE UNCHANGED allVars
  BY <1>3, InstallerStutter
<1>4. QED
  BY <1>1, <1>2, <1>3 DEF InstallerNext

-----------------------------------------------------------------------------
(***************************************************************************)
(* The theorems.                                                           *)
(***************************************************************************)
\* The invariant holds for every catalog, machine and outcome.
THEOREM InstallerInvAlways == InstallerSpec => []InstallerInv
<1>1. InstallerInit => InstallerInv
  BY InstallerStart
<1>2. InstallerInv /\ [InstallerNext]_allVars => InstallerInv'
  BY StepKeeps
<1>3. QED
  BY <1>1, <1>2, PTL DEF InstallerSpec

\* Only install_entry touches a package.
LEMMA OnlyInstalls ==
    ASSUME [InstallerNext]_allVars, state' # state
    PROVE  InstallEntry
BY DEF InstallerNext, Step, Refused, Load, Resolve, Expand, Expanded, Skip,
       DependencyRefused, LoopEnds, Install, UpgradeOne, UpgradeAll, Begin, installer, allVars

\* cmd_install2 leaves alone what is installed and was not asked for.
THEOREM OthersLeftAlone == InstallerSpec => OthersUntouched
<1> DEFINE Untouched ==
        \A t \in Ids : PkgInstalled(t) /\ t \notin asked => state'[t] = state[t]
<1>1. InstallerInv /\ [InstallerNext]_allVars => [Untouched]_allVars
  <2> SUFFICES ASSUME InstallerInv, [InstallerNext]_allVars PROVE Untouched
    OBVIOUS
  <2>1. CASE state' = state
    BY <2>1
  <2>2. CASE state' # state
    <3>1. InstallEntry
      BY <2>2, OnlyInstalls
    <3>2. PICK u : u = IdOf(Current)
      OBVIOUS
    <3>3. /\ ~PkgInstalled(u) \/ u = Target
          /\ \A t \in Ids : t # u => state'[t] = state[t]
      BY <3>1, <3>2, Touches
    <3>4. Target \in asked
      BY <3>1, TargetAsked DEF InstallEntry, InLoop, InstallerInv
    <3>5. QED
      BY <3>3, <3>4
  <2>3. QED
    BY <2>1, <2>2
<1>2. QED
  BY <1>1, InstallerInvAlways, PTL DEF InstallerSpec, OthersUntouched

\* A command that reports no failure and has not filled its table has
\* installed all it was asked for.
THEOREM ReportsAreTruthful == InstallerSpec => ReportTruthful
<1> DEFINE Truthful ==
        pc # "idle" /\ pc' = "idle" /\ failed' = {} /\ HasRoom => \A t \in asked : state'[t] = "new"
<1>1. InstallerInv /\ InstallerInv' /\ [InstallerNext]_allVars => [Truthful]_allVars
  <2> SUFFICES ASSUME InstallerInv', [InstallerNext]_allVars, HasRoom,
                      pc # "idle", pc' = "idle", failed' = {}
               PROVE  \A t \in asked : state'[t] = "new"
    OBVIOUS
  <2>1. ordered' = ordered /\ UNCHANGED asked
    BY DEF InstallerNext, Step, Refused, Load, Resolve, Expand, Expanded, Skip,
           DependencyRefused, InstallEntry, LoopEnds, Install, UpgradeOne, UpgradeAll,
           Begin, installer, allVars, resolver
  <2>2. /\ todo' = <<>> /\ Done' /\ stack' = <<>> /\ ordered' \in Seq(Int)
    BY DEF InstallerInv, InstallerTypes, PlanKept, Pointers
  <2>3. Roomy'
    <3>1. Len(stack') = 0 /\ Len(ordered') \in Nat /\ Len(ordered') < MaxPlan
      BY <2>1, <2>2, EmptySeq, LenProperties DEF HasRoom
    <3>2. QED
      BY <3>1 DEF Roomy
  <2>4. ToSet(todo)' = {}
    BY <2>2, EmptySeq DEF ToSet
  <2>5. QED
    BY <2>1, <2>2, <2>3, <2>4 DEF Done
<1>2. QED
  BY <1>1, InstallerInvAlways, PTL DEF InstallerSpec, ReportTruthful

\* Dependencies come first, through every retry and every plan kept from an
\* earlier install, while the table has room.
THEOREM DependenciesComeFirst == InstallerSpec => DependenciesFirst
<1> DEFINE First ==
        HasRoom /\ state' # state /\ ~Dangling(Current) =>
            \A d \in Picks(Current) :
                PkgInstalled(IdOf(d)) \/ IdOf(d) \in BuildOnly \/ Current \in Reach(d)
<1>1. InstallerInv /\ [InstallerNext]_allVars => [First]_allVars
  <2> SUFFICES ASSUME InstallerInv, [InstallerNext]_allVars, HasRoom, state' # state,
                      ~Dangling(Current), NEW d \in Picks(Current)
               PROVE  PkgInstalled(IdOf(d)) \/ IdOf(d) \in BuildOnly \/ Current \in Reach(d)
    OBVIOUS
  <2>1. InstallEntry /\ InLoop
    BY OnlyInstalls DEF InstallEntry
  <2>2. /\ i \in DOMAIN ordered /\ i \in Nat \ {0} /\ stack = <<>> /\ Pointers
        /\ \A j \in DOMAIN ordered : j < i /\ ~Dangling(ordered[j]) => Passed(ordered[j])
    BY <2>1, AtPlace
  <2>3. Roomy
    <3>1. Len(stack) = 0 /\ Len(ordered) \in Nat
      BY <2>2, EmptySeq, LenProperties DEF Pointers
    <3>2. QED
      BY <3>1 DEF HasRoom, Roomy
  <2>4. Arranged(i) /\ Catalog
    BY <2>2, <2>3 DEF InstallerInv, PlanKept, Stacked
  <2>5. Points(Current) = Current /\ BlockOf(i) = block
    BY <2>2 DEF Pointers, Points, Current
  <2>6. CASE Current \in Reach(d)
    BY <2>6
  <2>7. ASSUME NEW j \in 1..(i - 1), BlockOf(j) = block, Points(ordered[j]) = d
        PROVE  PkgInstalled(IdOf(d)) \/ IdOf(d) \in BuildOnly
    <3>1. j \in DOMAIN ordered /\ j < i
      <4>1. DOMAIN ordered = 1..Len(ordered) /\ Len(ordered) \in Nat
        BY <2>2, LenProperties DEF Pointers
      <4>2. QED
        BY <2>2, <4>1
    <3>2. ~Dangling(ordered[j])
      BY <2>2, <2>7, <3>1 DEF Pointers
    <3>3. ordered[j] = d
      BY <2>7, <3>2 DEF Points
    <3>4. QED
      BY <2>2, <3>1, <3>2, <3>3 DEF Passed
  <2>8. QED
    BY <2>4, <2>5, <2>6, <2>7 DEF Arranged, Current
<1>2. QED
  BY <1>1, InstallerInvAlways, PTL DEF InstallerSpec, DependenciesFirst
=============================================================================
