---------------------------- MODULE PackageStore ----------------------------
(***************************************************************************)
(* The receipt database of amipkg and the two commands that live on it:    *)
(* install_entry and cmd_remove (src/amiga/main.c), with adopt, the start- *)
(* up self-seeding of src/amiga/install.c, user edits between commands and *)
(* a power cut between any two steps.  One program runs at a time; a step  *)
(* is one file the program creates, overwrites or deletes, and emptying a  *)
(* copy's destination, or installed.txt, is a step apart from writing it.  *)
(*                                                                         *)
(* Data: a file is its content; a content names the package and version    *)
(* whose archive it came from, so two files have equal digests iff they    *)
(* have equal contents.  Archive entries and disk paths are model values   *)
(* and Dest says where an entry of a package lands.                        *)
(***************************************************************************)
EXTENDS Integers, SequencesExt

CONSTANTS
    Pkgs,        \* package ids
    Self,        \* the id "amipkg"
    Recipes,     \* packages installed by a recipe; the others are generic
    MaxVersion,  \* bound: catalog versions per package
    Entries,     \* names inside archives
    Paths,       \* places on disk (case folded)
    Ships,       \* Ships[p][v]: the entries of the archive of p, version v
    Match,       \* Match[p]: the entries a recipe of p copies (generic: all)
    Dest,        \* Dest[p][e]: where entry e lands when p is installed
    LibOf,       \* LibOf[e]: the LIBS: path of a bundled library, or None
    Hooks,       \* Hooks[p] \subseteq {"edits", "remove"}: recipe operations
    SelfBin,     \* the path of the amipkg binary
    SelfFiles,   \* the six program files self-seeding looks for
    Home,        \* paths inside amipkg's own drawer
    Runtime,     \* paths under cache/, db/ and config/
    Drawers,     \* drawers a user may point "adopt" at (sets of paths)
    InUse,       \* paths another program holds open
    MaxFiles,    \* MAX_FILES: inventory lines one pass loads
    MaxRecord,   \* paths[256]: files a recipe run reports
    DiskFull,    \* may a copy run out of disk space?
    MaxCrashes,  \* bound: power cuts
    MaxCommands, \* bound: commands started
    MaxEdits,    \* bound: changes the user makes between commands
    None, Edited, Cut \* no file; the user's own bytes; an emptied file or a
                      \* part of a copy

Versions == 1..MaxVersion
Content  == (Pkgs \X Versions) \cup {Edited, Cut}
File     == Content \cup {None}
Line     == [path : Paths, digest : File]  \* digest None: none recorded

ASSUME ConstantsType ==
    /\ Self \in Pkgs /\ Recipes \subseteq Pkgs
    /\ MaxVersion \in Nat \ {0}
    /\ Ships \in [Pkgs -> [Versions -> SUBSET Entries]]
    /\ Match \in [Pkgs -> SUBSET Entries]
    /\ Dest \in [Pkgs -> [Entries -> Paths]]
    /\ LibOf \in [Entries -> Paths \cup {None}]
    /\ Hooks \in [Pkgs -> SUBSET {"edits", "remove"}]
    /\ SelfBin \in SelfFiles /\ SelfFiles \subseteq Paths
    /\ Drawers \subseteq SUBSET Paths
    /\ IsFiniteSet(Paths) /\ None \notin Paths
    /\ MaxFiles \in Nat \ {0} /\ MaxRecord \in Nat /\ DiskFull \in BOOLEAN
    /\ MaxCrashes \in Nat /\ MaxCommands \in Nat /\ MaxEdits \in Nat

ASSUME MarkersAreNoContents ==
    /\ None \notin Content /\ Edited # Cut
    /\ {None, Edited, Cut} \cap (Pkgs \X Versions) = {}
    /\ None \notin Versions \cup {0} /\ None \notin Entries

VARIABLES
    disk,      \* disk[f]: content of the file at f, or None
    extract,   \* cache/extract, by entry name
    inv,       \* inv[p]: the lines of db/files/<p>.files
    db,        \* db[p]: the versions on p's lines of db/installed.txt
    hooks,     \* hooks[p]: which of scripts/<p>.edits, .remove exist
    boot,      \* packages with an overlay block in S:User-Startup
    cat,       \* cat[p]: version in the cached catalog
    pc, job,   \* where the program is, and its command
    doomed,    \* paths still to delete
    todo, libs,\* entries still to copy / to promote to LIBS:
    lines,     \* receipt lines not yet on disk
    placed,    \* paths[]: what this install reports it wrote
    writing,   \* the entry copy_file is writing out, or None
    saved,     \* installed.txt as loaded, while the file is truncated
    crashes, commands, edits

store == <<disk, extract, inv, db, hooks, boot>>
temp  == <<doomed, todo, libs, lines, placed, writing, saved>>
bounds == <<crashes, commands, edits>>
vars  == <<store, cat, pc, job, temp, bounds>>

\* An upgrade removes the old version with FORCE.
Job(kind, p, v) ==
    [kind |-> kind, id |-> p, ver |-> v, force |-> kind = "install"]
JobKinds == {"none", "start", "install", "remove", "adopt"}
Jobs == [kind : JobKinds, id : Pkgs, ver : Versions \cup {0}, force : BOOLEAN]
NoJob == Job("none", Self, 0)
StartJob == Job("start", Self, 0)
Empty == [p \in Pkgs |-> <<>>]

PathsOf(s) == {s[i].path : i \in DOMAIN s}
Installed(p) == db[p] # <<>>
Generic(p) == p \notin Recipes

\* The lines load_files_for returns: the first MaxFiles of the inventory.
Loaded(p) == SubSeq(inv[p], 1, IF Len(inv[p]) < MaxFiles THEN Len(inv[p]) ELSE MaxFiles)

\* A path another installed package's receipt lists.
FirstLineShared(p, f) ==                                      \* mutant
    \E q \in Pkgs \ {p} : Installed(q) /\ inv[q] # <<>> /\ f = inv[q][1].path
Shared(p, f) == \E q \in Pkgs \ {p} : Installed(q) /\ f \in PathsOf(Loaded(q))

\* Lines that stop a removal without FORCE: no digest, or another content.
BlocksOnMissingDigest(p, l) == ~Shared(p, l.path) /\ l.digest = None   \* mutant
Blocks(p, l) ==
    /\ ~Shared(p, l.path)
    /\ \/ l.digest = None
       \/ disk[l.path] # None /\ disk[l.path] # l.digest

\* What the second pass of a removal deletes.
Doomed(p) == {f \in PathsOf(Loaded(p)) \ Runtime : disk[f] # None /\ ~Shared(p, f)}

\* The records a rewrite of installed.txt keeps, and the inventory lines a
\* pass over a large package leaves for the next one.
KeepAllRecords(p) == db                                       \* mutant
KeepOwnRecord(p) == [Empty EXCEPT ![p] = db[p]]               \* mutant
OtherRecords(p) == [db EXCEPT ![p] = <<>>]
TailWithoutFirst(p) == SubSeq(inv[p], MaxFiles + 2, Len(inv[p]))   \* mutant
Unprocessed(p) == SubSeq(inv[p], MaxFiles + 1, Len(inv[p]))

Idle == pc = "off"

\* The program ends: all it held in memory is gone.
End ==
    /\ pc' = "off" /\ job' = NoJob
    /\ doomed' = {} /\ todo' = {} /\ libs' = {} /\ lines' = <<>>
    /\ placed' = {} /\ writing' = None /\ saved' = Empty

-----------------------------------------------------------------------------
Init ==
    /\ disk = [f \in Paths |-> IF f \in SelfFiles THEN <<Self, 1>> ELSE None]
    /\ extract = [e \in Entries |-> None]
    /\ inv = Empty /\ db = Empty
    /\ hooks = [p \in Pkgs |-> {}] /\ boot = {}
    /\ cat = [p \in Pkgs |-> 1]
    /\ pc = "off" /\ job = NoJob
    /\ doomed = {} /\ todo = {} /\ libs = {} /\ lines = <<>>
    /\ placed = {} /\ writing = None /\ saved = Empty
    /\ crashes = 0 /\ commands = 0 /\ edits = 0

(***************************************************************************)
(* Between commands: the catalog moves on, the user edits or deletes.      *)
(***************************************************************************)
Publish(p) ==
    /\ Idle /\ cat[p] < MaxVersion
    /\ cat' = [cat EXCEPT ![p] = @ + 1]
    /\ UNCHANGED <<store, pc, job, temp, bounds>>

UserWrites(f, c) ==
    /\ Idle /\ edits < MaxEdits /\ f \notin SelfFiles
    /\ disk' = [disk EXCEPT ![f] = c]
    /\ edits' = edits + 1
    /\ UNCHANGED <<extract, inv, db, hooks, boot, cat, pc, job, temp, crashes, commands>>

(***************************************************************************)
(* amipkg_ensure_dirs at every start: the receipt must name the version of *)
(* the binary that runs; a missing amipkg line is appended and its files   *)
(* are listed without digests.                                             *)
(***************************************************************************)
RunningNext == disk[SelfBin][2] + 1                           \* mutant
Running == disk[SelfBin][2]

SeedLines ==
    SetToSeq({[path |-> f, digest |-> None] : f \in {g \in SelfFiles : disk[g] # None}})

CanStart ==
    /\ Idle /\ commands < MaxCommands
    /\ disk[SelfBin] \in {Self} \X Versions
    /\ commands' = commands + 1

\* The receipt agrees with the binary.
Start ==
    /\ CanStart /\ Installed(Self) /\ db[Self][1] = Running
    /\ pc' = "ready"
    /\ UNCHANGED <<store, cat, job, temp, crashes, edits>>

\* No line for amipkg: append it, then list its files.
StartUnrecorded ==
    /\ CanStart /\ ~Installed(Self)
    /\ db' = [db EXCEPT ![Self] = <<Running>>]
    /\ job' = StartJob
    /\ pc' = "seed"
    /\ UNCHANGED <<disk, extract, inv, hooks, boot, cat, temp, crashes, edits>>

Seed ==
    /\ pc = "seed"
    /\ inv' = [inv EXCEPT ![Self] = SeedLines]
    /\ pc' = "ready" /\ job' = NoJob
    /\ UNCHANGED <<disk, extract, db, hooks, boot, cat, temp, bounds>>

\* The line names another version: installed.txt is written anew.
StartOutdated ==
    /\ CanStart /\ Installed(Self) /\ db[Self][1] # Running
    /\ saved' = [db EXCEPT ![Self] = [i \in DOMAIN @ |-> Running]]
    /\ db' = Empty
    /\ job' = StartJob
    /\ pc' = "rewrite"
    /\ UNCHANGED <<disk, extract, inv, hooks, boot, cat,
                   doomed, todo, libs, lines, placed, writing, crashes, edits>>

(***************************************************************************)
(* install_entry: extraction into cache/extract, which nothing ever        *)
(* empties; then the non-emptiness test; then the old version.             *)
(***************************************************************************)
UnpackMissing(p, S) ==                                        \* mutant
    extract' = [e \in Entries |->
                   IF e \in S /\ extract[e] = None THEN <<p, cat[p]>> ELSE extract[e]]
Unpack(p, S) ==
    extract' = [e \in Entries |-> IF e \in S THEN <<p, cat[p]>> ELSE extract[e]]

\* A new package is copied at once, an old version is removed first; only
\* amipkg itself is replaced in place.
AlwaysRemoveFirst(p) == IF Installed(p) THEN "classify" ELSE "run"  \* mutant
AfterExtract(p) ==
    IF ~Installed(p) THEN "run" ELSE IF p = Self THEN "forget" ELSE "classify"

ExtractFails(p) ==
    /\ pc = "ready"
    /\ \E S \in SUBSET Ships[p][cat[p]] : Unpack(p, S)
    /\ End
    /\ UNCHANGED <<disk, inv, db, hooks, boot, cat, bounds>>

Extract(p) ==
    /\ pc = "ready"
    /\ Unpack(p, Ships[p][cat[p]])
    /\ IF \A e \in Entries : extract'[e] = None
         THEN End
         ELSE /\ job' = Job("install", p, cat[p])
              /\ pc' = AfterExtract(p)
              /\ UNCHANGED temp
    /\ UNCHANGED <<disk, inv, db, hooks, boot, cat, bounds>>

\* receipt_forget: the self-upgrade drops the record and keeps the files.
Forget ==
    /\ pc = "forget"
    /\ doomed' = PathsOf(Loaded(Self))
    /\ inv' = [inv EXCEPT ![Self] = <<>>]
    /\ pc' = "unlist"
    /\ UNCHANGED <<disk, extract, db, hooks, boot, cat, job,
                   todo, libs, lines, placed, writing, saved, bounds>>

-----------------------------------------------------------------------------
(***************************************************************************)
(* cmd_remove, alone or as the first half of an upgrade.                   *)
(***************************************************************************)
CmdRemove(p, force) ==
    /\ pc = "ready" /\ Installed(p)
    /\ job' = [kind |-> "remove", id |-> p, ver |-> 0, force |-> force]
    /\ pc' = "classify"
    /\ UNCHANGED <<store, cat, temp, bounds>>

\* First pass.  A blocked removal changes nothing; otherwise the uninstall
\* script runs, is deleted, and the second pass begins.
Classify ==
    LET p == job.id IN
    /\ pc = "classify"
    /\ IF ~job.force /\ \E i \in DOMAIN Loaded(p) : Blocks(p, Loaded(p)[i])
         THEN /\ End
              /\ UNCHANGED hooks
         ELSE /\ doomed' = Doomed(p)
              /\ hooks' = [hooks EXCEPT ![p] = @ \ {"remove"}]
              /\ pc' = "delete"
              /\ UNCHANGED <<job, todo, libs, lines, placed, writing, saved>>
    /\ UNCHANGED <<disk, extract, inv, db, boot, cat, bounds>>

\* Second pass: one file; a file in use stays.
RetryDelete(f) ==                                             \* mutant
    /\ pc = "delete" /\ f \in doomed
    /\ disk' = [disk EXCEPT ![f] = IF f \in InUse THEN @ ELSE None]
    /\ doomed' = doomed \ ({f} \ InUse)
    /\ UNCHANGED <<extract, inv, db, hooks, boot, cat, pc, job,
                   todo, libs, lines, placed, writing, saved, bounds>>
DeleteOne(f) ==
    /\ pc = "delete" /\ f \in doomed
    /\ disk' = [disk EXCEPT ![f] = IF f \in InUse THEN @ ELSE None]
    /\ doomed' = doomed \ {f}
    /\ UNCHANGED <<extract, inv, db, hooks, boot, cat, pc, job,
                   todo, libs, lines, placed, writing, saved, bounds>>

\* More lines than one pass loads: keep the DB entry, leave the tail.
KeepTail ==
    LET p == job.id IN
    /\ pc = "delete" /\ doomed = {} /\ Len(inv[p]) > MaxFiles
    /\ lines' = Unprocessed(p)                     \* <id>.files.new
    /\ inv' = [inv EXCEPT ![p] = <<>>]
    /\ pc' = "tail"
    /\ UNCHANGED <<disk, extract, db, hooks, boot, cat, job,
                   doomed, todo, libs, placed, writing, saved, bounds>>

\* cmd_remove returns: to install_entry, which ignores the result, or to DOS.
ReturnFromRemove ==
    IF job.kind = "install"
      THEN /\ pc' = "run" /\ lines' = <<>> /\ saved' = Empty
           /\ UNCHANGED <<job, doomed, todo, libs, placed, writing>>
      ELSE End

RenameTail ==
    /\ pc = "tail"
    /\ inv' = [inv EXCEPT ![job.id] = lines]
    /\ ReturnFromRemove
    /\ UNCHANGED <<disk, extract, db, hooks, boot, cat, bounds>>

\* fopen(installed.txt, "wb") empties the file: at the end of a removal, in
\* receipt_forget and in receipt_remove_installed ...
TruncateDb ==
    /\ \/ pc = "unlist"
       \/ pc = "delete" /\ doomed = {} /\ Len(inv[job.id]) <= MaxFiles
    /\ saved' = OtherRecords(job.id)
    /\ db' = Empty
    /\ pc' = "rewrite"
    /\ UNCHANGED <<disk, extract, inv, hooks, boot, cat, job,
                   doomed, todo, libs, lines, placed, writing, bounds>>

\* ... and fclose writes it back without this id.
WriteDb ==
    /\ pc = "rewrite"
    /\ db' = saved
    /\ pc' = IF job.kind = "start" THEN "ready"
             ELSE IF job.kind = "install" /\ job.id = Self THEN "run" ELSE "dropinv"
    /\ job' = IF job.kind = "start" THEN NoJob ELSE job
    /\ saved' = Empty
    /\ UNCHANGED <<disk, extract, inv, hooks, boot, cat,
                   doomed, todo, libs, lines, placed, writing, bounds>>

DropInventory ==
    /\ pc = "dropinv"
    /\ inv' = [inv EXCEPT ![job.id] = <<>>]
    /\ pc' = IF job.kind = "adopt" THEN "adopt" ELSE "strip"
    /\ UNCHANGED <<disk, extract, db, hooks, boot, cat, job, temp, bounds>>

\* The script's result is not looked at: a block that could not be stripped
\* stays, and what was known of it goes.
StripOverlay ==
    /\ pc = "strip"
    /\ boot' \in IF "edits" \in hooks[job.id] THEN {boot, boot \ {job.id}} ELSE {boot}
    /\ hooks' = [hooks EXCEPT ![job.id] = @ \ {"edits"}]
    /\ ReturnFromRemove
    /\ UNCHANGED <<disk, extract, inv, db, cat, bounds>>

-----------------------------------------------------------------------------
(***************************************************************************)
(* install_entry, second half: the copy, the receipt, the commit.          *)
(***************************************************************************)
Matched(p) == {e \in Entries : extract[e] # None /\ (Generic(p) \/ e \in Match[p])}

\* A pre-install script fails, or the recipe yields no plan: nothing copied.
RecipeRefuses ==
    /\ pc = "run" /\ job.id \in Recipes
    /\ End
    /\ UNCHANGED <<store, cat, bounds>>

Run ==
    /\ pc = "run"
    /\ todo' = Matched(job.id)
    /\ boot' = IF "edits" \in Hooks[job.id] THEN boot \cup {job.id} ELSE boot
    /\ pc' = "copy"
    /\ UNCHANGED <<disk, extract, inv, db, hooks, cat, job,
                   doomed, libs, lines, placed, writing, saved, bounds>>

\* copy_file never looks at what Write returns: a full disk leaves a short
\* file that counts as copied and whose digest is the one recorded.
Outcomes(c) == {c} \cup (IF DiskFull THEN {Cut} ELSE {})

\* A recipe run stops reporting after MaxRecord files; generic installs don't.
FirstRecords == Cardinality(placed) < MaxRecord               \* mutant
Reported == Generic(job.id) \/ Cardinality(placed) < MaxRecord

\* Its destination is opened MODE_NEWFILE, which empties it; then it is written.
OpenTarget(e, f) ==
    /\ pc = "copy" /\ writing = None /\ f \notin InUse
    /\ disk' = [disk EXCEPT ![f] = Cut]
    /\ writing' = e
    /\ UNCHANGED <<extract, inv, db, hooks, boot, cat, pc, job,
                   doomed, todo, libs, lines, placed, saved, bounds>>

PlaceAt(f, c) ==
    IF f \in InUse
      THEN UNCHANGED <<disk, placed, lines>>
      ELSE /\ disk' = [disk EXCEPT ![f] = c]
           /\ IF Reported
                THEN /\ placed' = placed \cup {f}
                     /\ lines' = Append(lines, [path |-> f, digest |-> c])
                ELSE UNCHANGED <<placed, lines>>

\* One file of the archive; one that is in use is passed over.
OpenCopy(e) == e \in todo /\ OpenTarget(e, Dest[job.id][e])

CopyOne(e) ==
    /\ pc = "copy" /\ e \in todo
    /\ writing = IF Dest[job.id][e] \in InUse THEN None ELSE e
    /\ \E c \in Outcomes(extract[e]) : PlaceAt(Dest[job.id][e], c)
    /\ todo' = todo \ {e} /\ writing' = None
    /\ libs' = IF Generic(job.id) /\ LibOf[e] # None /\ Dest[job.id][e] \notin InUse
                 THEN libs \cup {e} ELSE libs
    /\ UNCHANGED <<extract, inv, db, hooks, boot, cat, pc, job, doomed, saved, bounds>>

\* A bundled library goes to LIBS: too, unless one is there already.
OpenPromotion(e) ==
    /\ todo = {} /\ e \in libs /\ disk[LibOf[e]] = None
    /\ OpenTarget(e, LibOf[e])

Promote(e) ==
    /\ pc = "copy" /\ todo = {} /\ e \in libs
    /\ \/ /\ writing = None /\ (disk[LibOf[e]] # None \/ LibOf[e] \in InUse)
          /\ UNCHANGED <<disk, placed, lines>>
       \/ /\ writing = e
          /\ \E c \in Outcomes(disk[Dest[job.id][e]]) : PlaceAt(LibOf[e], c)
    /\ libs' = libs \ {e} /\ writing' = None
    /\ UNCHANGED <<extract, inv, db, hooks, boot, cat, pc, job, doomed, todo, saved, bounds>>

\* A generic install writes lines while it copies (stdio flushes when its
\* buffer fills), a recipe install after the last copy.
Record ==
    /\ pc = "copy" /\ writing = None /\ lines # <<>>
    /\ Generic(job.id) \/ todo = {}
    /\ inv' = [inv EXCEPT ![job.id] = Append(@, Head(lines))]
    /\ lines' = Tail(lines)
    /\ UNCHANGED <<disk, extract, db, hooks, boot, cat, pc, job,
                   doomed, todo, libs, placed, writing, saved, bounds>>

Copied == pc = "copy" /\ todo = {} /\ libs = {} /\ lines = <<>>

NothingInstalled ==
    /\ Copied /\ placed = {}
    /\ End
    /\ UNCHANGED <<store, cat, bounds>>

\* Self-upgrade: delete what the old version shipped and the new does not,
\* inside the home drawer only.  Then the recipe's .edits and .remove.
Prunable == {f \in doomed \cap Home : f \notin placed /\ f \notin InUse}

Finish ==
    LET p == job.id IN
    /\ Copied /\ placed # {}
    /\ disk' = [f \in Paths |-> IF p = Self /\ f \in Prunable THEN None ELSE disk[f]]
    /\ hooks' = [hooks EXCEPT ![p] = @ \cup (Hooks[p] \cap {"edits", "remove"})]
    /\ doomed' = {}
    /\ pc' = "commit"
    /\ UNCHANGED <<extract, inv, db, boot, cat, job,
                   todo, libs, lines, placed, writing, saved, bounds>>

Commit ==
    /\ pc = "commit"
    /\ db' = [db EXCEPT ![job.id] = Append(@, job.ver)]
    /\ End
    /\ UNCHANGED <<disk, extract, inv, hooks, boot, cat, bounds>>

-----------------------------------------------------------------------------
(***************************************************************************)
(* cmd_adopt: drop any old receipt, list the drawer, append the line.      *)
(***************************************************************************)
Adopt(p) ==
    /\ pc = "ready"
    /\ job' = Job("adopt", p, 0)
    /\ pc' = IF Installed(p) THEN "unlist" ELSE "adopt"
    /\ UNCHANGED <<store, cat, temp, bounds>>

\* Not in the catalog, or the drawer cannot be read.
AdoptFails ==
    /\ pc = "adopt"
    /\ End
    /\ UNCHANGED <<store, cat, bounds>>

AdoptInventory(d, v) ==
    LET p == job.id
        found == {f \in d : disk[f] # None /\ ~(p = Self /\ f \in Runtime)}
    IN
    /\ pc = "adopt"
    /\ inv' = [inv EXCEPT ![p] =
                  SetToSeq({[path |-> f, digest |-> disk[f]] : f \in found})]
    /\ IF found = {} THEN End
       ELSE /\ pc' = "commit" /\ job' = Job("adopt", p, v)
            /\ UNCHANGED temp
    /\ UNCHANGED <<disk, extract, db, hooks, boot, cat, bounds>>

-----------------------------------------------------------------------------
Crash ==
    /\ ~Idle /\ crashes < MaxCrashes
    /\ crashes' = crashes + 1
    /\ End
    /\ UNCHANGED <<store, cat, commands, edits>>

\* The steps of a command that is under way: the program takes them unasked.
Step ==
    \/ Seed \/ Forget \/ Classify \/ KeepTail \/ RenameTail \/ TruncateDb \/ WriteDb
    \/ DropInventory \/ StripOverlay \/ Run \/ Record \/ NothingInstalled
    \/ RecipeRefuses \/ Finish \/ Commit \/ AdoptFails
    \/ \E f \in Paths : DeleteOne(f)
    \/ \E e \in Entries : OpenCopy(e) \/ CopyOne(e) \/ OpenPromotion(e) \/ Promote(e)
    \/ \E d \in Drawers, v \in Versions \cup {0} : AdoptInventory(d, v)

Command ==
    \E p \in Pkgs :
        \/ ExtractFails(p) \/ Extract(p) \/ Adopt(p)
        \/ \E force \in BOOLEAN : CmdRemove(p, force)

World ==
    \/ \E p \in Pkgs : Publish(p)
    \/ \E f \in Paths, c \in {Edited, None} : UserWrites(f, c)

Begin == Start \/ StartUnrecorded \/ StartOutdated

Next == Begin \/ Command \/ Step \/ Crash \/ World

Spec == Init /\ [][Next]_vars
FairSpec == Spec /\ WF_vars(Command) /\ WF_vars(Step)

-----------------------------------------------------------------------------
(***************************************************************************)
(* Properties                                                              *)
(***************************************************************************)
Lines(p) == {inv[p][i] : i \in DOMAIN inv[p]}

StoreTypeOK ==
    /\ disk \in [Paths -> File]
    /\ extract \in [Entries -> File]
    /\ inv \in [Pkgs -> Seq(Line)]
    /\ db \in [Pkgs -> Seq(Versions \cup {0})]
    /\ hooks \in [Pkgs -> SUBSET {"edits", "remove"}]
    /\ boot \subseteq Pkgs
    /\ cat \in [Pkgs -> Versions]

CommandTypeOK ==
    /\ pc \in {"off", "ready", "seed", "forget", "unlist", "classify", "delete", "tail",
               "rewrite", "dropinv", "strip", "run", "copy", "commit", "adopt"}
    /\ job \in Jobs
    /\ doomed \subseteq Paths /\ placed \subseteq Paths
    /\ todo \subseteq Entries /\ libs \subseteq {e \in Entries : LibOf[e] # None}
    /\ lines \in Seq(Line) /\ writing \in Entries \cup {None}
    /\ saved \in [Pkgs -> Seq(Versions \cup {0})]

\* Every variable holds a value of its kind, the program counter one of the
\* places where install_entry, cmd_remove or cmd_adopt can be interrupted.
TypeOK ==
    /\ StoreTypeOK /\ CommandTypeOK
    /\ crashes \in Nat /\ commands \in Nat /\ edits \in Nat

\* cmd_remove without FORCE deletes a file only while its content is the one
\* the package's own receipt recorded: what the user changed after the
\* install survives, whatever stale or doubled lines the receipt holds.
ModifiedSurvives ==
    [][pc = "delete" /\ ~job.force =>
         \A f \in Paths : disk'[f] # disk[f] =>
             [path |-> f, digest |-> disk[f]] \in Lines(job.id)]_vars

\* A removal (also the one inside an upgrade) never deletes a path that the
\* receipt of another installed package lists, as far as one pass reads it.
SharedSurvives ==
    [][pc = "delete" =>
         \A f \in Paths : disk[f] # None /\ disk'[f] = None =>
             \A q \in Pkgs \ {job.id} :
                 Installed(q) /\ Len(inv[q]) <= MaxFiles => f \notin PathsOf(inv[q])]_vars

\* installed.txt names a package at most once ("this append leaves exactly
\* one"), whatever was interrupted before.
OneLine == \A p \in Pkgs : Len(db[p]) <= 1

\* The binary itself is being copied to its place.
WritingBinary == writing \in todo /\ Dest[job.id][writing] = SelfBin

\* While any install or upgrade runs there is a complete amipkg binary in the
\* home drawer, of the old or of the new version, but for the time in which
\* copy_file writes that very file ("install straight over the previous version
\* and prune the leftovers AFTERWARDS", main.c:968).
SelfWhole ==
    job.kind = "install" /\ ~WritingBinary => disk[SelfBin] \in {Self} \X Versions

\* Paths the receipt of p still accounts for; during the tail rewrite the
\* lines are in <p>.files.new.
Held(p) == PathsOf(inv[p]) \cup
           (IF pc = "tail" /\ job.id = p THEN PathsOf(lines) ELSE {})

\* "never silently drop files from a removal": a path leaves a receipt only
\* when the file is gone, another package lists it, or it is runtime state.
\* Two commands give records up on purpose: adopt and the self-upgrade.
NeverForgetsFiles ==
    [][job.kind # "adopt" /\ pc # "forget" =>
         \A p \in Pkgs : \A f \in Held(p) \ Held(p)' :
             \/ disk'[f] = None
             \/ f \in Runtime
             \/ \E q \in Pkgs \ {p} : f \in PathsOf(inv[q])]_vars

\* A generic install is uncapped and self-recording: when it commits, every
\* file it found in cache/extract and could write is in the receipt.
ReceiptCovers ==
    pc = "commit" /\ job.kind = "install" /\ Generic(job.id) =>
        \A e \in Matched(job.id) :
            Dest[job.id][e] \in InUse \cup PathsOf(inv[job.id])

\* "amipkg install <id> repairs it": when an install commits, every file the
\* archive ships for it has the archive's content, whatever was there.
InstallRepairs ==
    pc = "commit" /\ job.kind = "install" =>
        \A e \in Ships[job.id][job.ver] \cap Matched(job.id) :
            Dest[job.id][e] \notin InUse =>
                disk[Dest[job.id][e]] = <<job.id, job.ver>>

\* A command that has started ends, whatever it finds on disk.
CommandEnds == pc # "off" ~> pc = "off"

\* The record installed.txt stands for, also while it is being rewritten.
RecordsOf(d) == [p \in Pkgs |-> IF d[p] = <<>> THEN None ELSE d[p][Len(d[p])]]
have == RecordsOf(IF pc = "rewrite" THEN saved ELSE db)

\* Without power cuts the database is a ledger: each step changes the record
\* of one package at most, although every change rewrites the whole file.
Ledger == INSTANCE Ledger WITH Versions <- Versions \cup {0}
LedgerSpec == Ledger!Spec

(***************************************************************************)
(* What comments and texts of the repository say and the code does not do. *)
(***************************************************************************)
\* install.c:791 "never destroy an install on the strength of an empty
\* extraction": an archive without files deletes nothing.
EmptyArchiveKeepsInstall ==
    [][job.kind = "install" /\ Ships[job.id][job.ver] = {} =>
         \A f \in Paths : disk[f] # None => disk'[f] # None]_vars
=============================================================================
