----------------------------- MODULE Installer -----------------------------
(***************************************************************************)
(* cmd_install2 and cmd_upgrade (src/amiga/main.c) over the resolver: the  *)
(* packages of a plan are installed one by one, and an upgrade calls       *)
(* cmd_install for every package out of date.  The result of ares_resolve  *)
(* is static: between the installs of one upgrade it is never reset, and   *)
(* its pointers lead into catalogs that have been freed.  Every install    *)
(* parses the catalog into a block of memory of its own; where malloc      *)
(* hands out a freed block again, pointers into it are good again.         *)
(*                                                                         *)
(* Data: a pointer of the plan is the position of its entry, negative      *)
(* while its block is freed.  placed compares pointers, so it does not     *)
(* recognise an entry of another block.  What freed memory holds is        *)
(* undefined: the entry it held, intact, or something that is skipped or   *)
(* refused.  A freed entry that a new block covers in part, read as a      *)
(* third package, is left out.                                             *)
(*                                                                         *)
(* An installed package is old or new.  What install_entry does to a       *)
(* package (PackageStore has its steps) is fate: it succeeds, fails while  *)
(* the old version is still there, or fails after removing it.             *)
(***************************************************************************)
EXTENDS Resolver

CONSTANTS
    Self,        \* "amipkg": replaced in place, never removed first
    Unfit,       \* ids that need another machine: floors_ok is false
    BuildOnly,   \* ids that only Amiga Imager can install
    Blocks,      \* memory that malloc may hand out for a catalog
    MaxFaulty,   \* bound: packages whose install fails
    MaxCommands  \* bound: commands a behaviour runs

ASSUME InstallerConstants ==
    /\ Unfit \subseteq Targets /\ BuildOnly \subseteq Targets
    /\ Blocks # {}
    /\ MaxFaulty \in Nat /\ MaxCommands \in Nat

States == {"absent", "old", "new"}
Fates  == {"ok", "refuses", "breaks"}

VARIABLES
    block,      \* where the current catalog lies
    from,       \* the blocks of the plan's entries of earlier installs
    state,      \* state[id]: installed.txt and the drawer of the package
    fate,       \* fate[id]: how its install_entry ends
    pc,
    todo,       \* ids still to install: one, or cmd_upgrade's snapshot
    i,          \* the loop of cmd_install2
    rc,         \* its result
    asked,      \* ids of this command
    failed,     \* the result of the command: ids whose install failed
    commands

installer == <<block, from, state, fate, pc, todo, i, rc, asked, failed, commands>>
allVars == <<resolver, installer>>

Ids == {idx[e].id : e \in DOMAIN idx}
Target == Head(todo)

Dangling(e) == e < 0
Points(e) == IF Dangling(e) THEN -e ELSE e
IdOf(e) == idx[Points(e)].id
IsTarget(e) == IdOf(e) = Target
BlockOf(k) == IF k \in DOMAIN from THEN from[k] ELSE block
PkgInstalled(t) == state[t] # "absent"

InstallerInit ==
    /\ Init
    /\ block \in Blocks /\ from = <<>>
    /\ state \in [Ids -> {"absent", "old"}]
    /\ fate \in [Ids -> Fates]
    /\ Self \in Ids => fate[Self] # "breaks"
    /\ Cardinality({t \in Ids : fate[t] # "ok"}) <= MaxFaulty
    /\ pc = "idle" /\ todo = <<>> /\ i = 1 /\ rc = 0
    /\ asked = {} /\ failed = {} /\ commands = 0

-----------------------------------------------------------------------------
(***************************************************************************)
(* The commands: a fresh process each.                                     *)
(***************************************************************************)
Begin(ids) ==
    /\ pc = "idle" /\ commands < MaxCommands
    /\ todo' = ids /\ asked' = ToSet(ids) /\ failed' = {}
    /\ commands' = commands + 1
    /\ ordered' = <<>> /\ missing' = <<>> /\ root' = NoEntry /\ from' = <<>>
    /\ pc' = "load"
    /\ UNCHANGED <<catalog, stack, block, state, fate, i, rc>>

Install(t) == Begin(<<t>>)

\* The snapshot: everything installed that the catalog has a newer version of,
\* in the order of installed.txt; or the one package named.
OutOfDate == {t \in Ids : state[t] = "old"}
UpgradeAll == OutOfDate # {} /\ \E s \in SetToSeqs(OutOfDate) : Begin(s)
UpgradeOne(t) == t \in OutOfDate /\ Begin(<<t>>)

-----------------------------------------------------------------------------
(***************************************************************************)
(* cmd_install2.                                                           *)
(***************************************************************************)
\* One install is over; the upgrade goes on with the next whatever happened.
Return(result) ==
    /\ failed' = IF result = 0 THEN failed ELSE failed \cup {Target}
    /\ todo' = Tail(todo)
    /\ i' = 1 /\ rc' = 0
    /\ pc' = IF Tail(todo) = <<>> THEN "idle" ELSE "load"

\* Not in the index, build-time only, wrong machine.
Refused ==
    /\ pc = "load"
    /\ Find(Target) = NoEntry \/ Target \in BuildOnly \cup Unfit
    /\ Return(5)
    /\ UNCHANGED <<resolver, block, from, state, fate, asked, commands>>

\* The catalog is parsed anew, into some block: pointers of earlier installs
\* that lead into it are good, all the others dangle.
ParsedInto(b) ==
    /\ block' = b
    /\ from' = [k \in DOMAIN ordered |-> BlockOf(k)]
    /\ ordered' = [k \in DOMAIN ordered |->
                      IF BlockOf(k) = b THEN Points(ordered[k]) ELSE -Points(ordered[k])]

Load ==
    /\ pc = "load"
    /\ Find(Target) # NoEntry /\ Target \notin BuildOnly \cup Unfit
    /\ \E b \in Blocks : ParsedInto(b)
    /\ pc' = "select"
    /\ UNCHANGED <<catalog, root, missing, stack, state, fate, todo, i, rc, asked, failed, commands>>

Resolve ==
    /\ pc = "select"
    /\ Select(Target)
    /\ pc' = "resolve"
    /\ UNCHANGED <<block, from, state, fate, todo, i, rc, asked, failed, commands>>

Expand == pc = "resolve" /\ Visit /\ UNCHANGED installer

Expanded ==
    /\ pc = "resolve" /\ stack = <<>>
    /\ pc' = "loop"
    /\ UNCHANGED <<resolver, block, from, state, fate, todo, i, rc, asked, failed, commands>>

Current == ordered[i]
InLoop == pc = "loop" /\ i <= Len(ordered) /\ rc = 0

\* A dependency that is there, or that only a build can bring.
SkipsTarget(e) == PkgInstalled(IdOf(e)) \/ IdOf(e) \in BuildOnly          \* mutant
SkipsNothing(e) == ~IsTarget(e) /\ IdOf(e) \in BuildOnly                 \* mutant
Skips(e) == ~IsTarget(e) /\ (PkgInstalled(IdOf(e)) \/ IdOf(e) \in BuildOnly)

Skip ==
    /\ InLoop
    /\ Skips(Current) \/ Dangling(Current)
    /\ i' = i + 1
    /\ UNCHANGED <<resolver, block, from, state, fate, pc, todo, rc, asked, failed, commands>>

\* The dependency needs another machine, or is no entry any more.
NeedsOther(e) == ~Skips(e) /\ ~IsTarget(e) /\ IdOf(e) \in Unfit
DependencyRefused ==
    /\ InLoop
    /\ NeedsOther(Current) \/ Dangling(Current)
    /\ rc' = 5
    /\ UNCHANGED <<resolver, block, from, state, fate, pc, todo, i, asked, failed, commands>>

\* install_entry.
Outcome(t) ==
    CASE fate[t] = "ok"      -> "new"
      [] fate[t] = "refuses" -> state[t]
      [] fate[t] = "breaks"  -> "absent"

IgnoresFailure(t) == 0                                                    \* mutant
ResultOf(t) == IF fate[t] = "ok" THEN 0 ELSE 10

InstallEntry ==
    LET t == IdOf(Current) IN
    /\ InLoop /\ ~Skips(Current) /\ ~NeedsOther(Current)
    /\ state' = [state EXCEPT ![t] = Outcome(t)]
    /\ rc' = ResultOf(t)
    /\ i' = i + 1
    /\ UNCHANGED <<resolver, block, from, fate, pc, todo, asked, failed, commands>>

LoopOverAtEnd == i > Len(ordered)                                         \* mutant
LoopOver == i > Len(ordered) \/ rc # 0

LoopEnds ==
    /\ pc = "loop" /\ LoopOver
    /\ Return(rc)
    /\ UNCHANGED <<resolver, block, from, state, fate, asked, commands>>

Step ==
    \/ Refused \/ Load \/ Resolve \/ Expand \/ Expanded
    \/ Skip \/ DependencyRefused \/ InstallEntry \/ LoopEnds

InstallerNext ==
    \/ Step
    \/ \E t \in Targets : Install(t) \/ UpgradeOne(t)
    \/ UpgradeAll

InstallerSpec == InstallerInit /\ [][InstallerNext]_allVars
FairSpec == InstallerSpec /\ WF_allVars(Step)

-----------------------------------------------------------------------------
\* "(dependencies first)": an install touches the package at the loop's place
\* only when what that depends on is there, save a build-time package or one
\* that depends on it in turn; no retry and no plan of an earlier install
\* changes the order.  A full table has left packages out, and what is
\* installed from freed memory has its dependencies there too: both exempt.
DependenciesFirst ==
    [][HasRoom /\ state' # state /\ ~Dangling(Current) =>
         \A d \in Picks(Current) :
             PkgInstalled(IdOf(d)) \/ IdOf(d) \in BuildOnly \/ Current \in Reach(d)]_allVars

\* "Dependencies already present are satisfied; the TARGET always
\* (re)installs": what was installed and was not asked for is left alone.
OthersUntouched ==
    [][\A t \in Ids : PkgInstalled(t) /\ t \notin asked => state'[t] = state[t]]_allVars

\* A command that reports no failure has brought every package it was asked
\* for to the catalog's version, whatever became of the pointers of its plan,
\* unless that filled the table.
ReportTruthful ==
    [][pc # "idle" /\ pc' = "idle" /\ failed' = {} /\ HasRoom =>
         \A t \in asked : state'[t] = "new"]_allVars

\* Every install and upgrade ends.
InstallEnds == pc # "idle" ~> pc = "idle"

\* main.c:1212 "With no argument it upgrades everything out of date": a
\* package whose own plan installs is upgraded, whatever became of others.
Needs(t) == IF Find(t) = NoEntry THEN {} ELSE Reach(Find(t))
UpgradesEverything ==
    [][pc # "idle" /\ pc' = "idle" =>
         \A t \in asked :
             Needs(t) # {} /\ (\A e \in Needs(t) :
                 fate[IdOf(e)] = "ok" /\ IdOf(e) \notin Unfit \cup BuildOnly)
             => state'[t] = "new"]_allVars
=============================================================================
