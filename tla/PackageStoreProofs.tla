------------------------- MODULE PackageStoreProofs -------------------------
(***************************************************************************)
(* Theorems about PackageStore, for every value of its constants.          *)
(***************************************************************************)
EXTENDS PackageStore, FiniteSetTheorems, SequenceTheorems, TLAPS

-----------------------------------------------------------------------------
(***************************************************************************)
(* The lines a listing produces.                                           *)
(***************************************************************************)

\* A listing of a finite set of lines is a sequence of those lines.
LEMMA ListingType ==
    ASSUME NEW T, NEW S \in SUBSET T, IsFiniteSet(S)
    PROVE  SetToSeq(S) \in Seq(T)
<1>1. Cardinality(S) \in Nat /\ ExistsBijection(1..Cardinality(S), S)
  BY FS_CardinalityType
<1>2. PICK f \in Bijection(1..Cardinality(S), S) : TRUE
  BY <1>1 DEF ExistsBijection
<1>3. f \in [1..Cardinality(S) -> S] /\ IsInjective(f)
  BY <1>2 DEF Bijection, Injection, IsInjective
<1>4. SetToSeq(S) \in [1..Cardinality(S) -> S]
  BY <1>3 DEF SetToSeq
<1>5. QED
  BY <1>1, <1>4
\* The paths of a sequence of lines are places on disk.
LEMMA PathsOfType ==
    ASSUME NEW s \in Seq(Line)
    PROVE  PathsOf(s) \subseteq Paths
<1>1. \A i \in DOMAIN s : s[i] \in Line
  BY ElementOfSeq, LenProperties
<1>2. QED
  BY <1>1 DEF PathsOf, Line

\* The part of an inventory one pass loads, and the part it leaves, are
\* inventories; the loaded lines are lines of the inventory.
LEMMA LoadedType ==
    ASSUME TypeOK, NEW p \in Pkgs
    PROVE  /\ Loaded(p) \in Seq(Line)
           /\ PathsOf(Loaded(p)) \subseteq Paths
           /\ \A i \in DOMAIN Loaded(p) : i \in DOMAIN inv[p] /\ Loaded(p)[i] = inv[p][i]
           /\ Unprocessed(p) \in Seq(Line)
<1>1. inv[p] \in Seq(Line)
  BY DEF TypeOK, StoreTypeOK
<1>2. /\ Len(inv[p]) \in Nat
      /\ DOMAIN inv[p] = 1..Len(inv[p])
      /\ \A i \in 1..Len(inv[p]) : inv[p][i] \in Line
  BY <1>1, LenProperties, ElementOfSeq
<1> DEFINE k == IF Len(inv[p]) < MaxFiles THEN Len(inv[p]) ELSE MaxFiles
<1>a. k \in 0..Len(inv[p])
  BY <1>2, ConstantsType
<1>3. k \in 0..Len(inv[p]) /\ Loaded(p) = SubSeq(inv[p], 1, k)
  BY <1>a DEF Loaded
<1> HIDE DEF k
<1>4. \A i \in 1..k : inv[p][i] \in Line
  BY <1>2, <1>3
<1>5. /\ Loaded(p) \in Seq(Line) /\ Len(Loaded(p)) = k
      /\ \A i \in 1..k : Loaded(p)[i] = inv[p][i]
  <2>1. k \in Int /\ 1 \in Int /\ k - 1 + 1 = k /\ (1 <= k \/ k = 0)
        /\ \A i \in 1..k : 1 + i - 1 = i
    BY <1>2, <1>3
  <2>2. /\ Loaded(p) \in Seq(Line)
        /\ Len(Loaded(p)) = IF 1 <= k THEN k - 1 + 1 ELSE 0
        /\ \A i \in 1..k - 1 + 1 : Loaded(p)[i] = inv[p][1 + i - 1]
    BY <2>1, <1>3, <1>4, SubSeqProperties
  <2>3. QED
    BY <2>1, <2>2
<1>6. DOMAIN Loaded(p) = 1..k
  BY <1>5, LenProperties
<1>7. \A i \in MaxFiles + 1 .. Len(inv[p]) : inv[p][i] \in Line
  BY <1>2, ConstantsType
<1>8. Unprocessed(p) \in Seq(Line)
  BY <1>2, <1>7, SubSeqProperties, ConstantsType DEF Unprocessed
<1>9. \A i \in DOMAIN Loaded(p) : i \in DOMAIN inv[p] /\ Loaded(p)[i] = inv[p][i]
  BY <1>2, <1>3, <1>5, <1>6
<1>10. QED
  BY <1>5, <1>8, <1>9, PathsOfType

\* What the program starts from, and what it falls back to when it ends.
LEMMA JobType ==
    /\ \A kind \in JobKinds, p \in Pkgs, v \in Versions \cup {0} :
             /\ Job(kind, p, v) \in Jobs
             /\ Job(kind, p, v).kind = kind /\ Job(kind, p, v).id = p
             /\ Job(kind, p, v).force = (kind = "install")
    /\ NoJob \in Jobs /\ NoJob.kind = "none"
    /\ StartJob \in Jobs /\ StartJob.kind = "start"
<1>1. Self \in Pkgs
  BY ConstantsType
<1>2. QED
  BY <1>1 DEF Job, NoJob, StartJob, Jobs, JobKinds

LEMMA EmptyType ==
    /\ Empty \in [Pkgs -> Seq(Versions \cup {0})]
    /\ Empty \in [Pkgs -> Seq(Line)]
    /\ <<>> \in Seq(Line)
  BY EmptySeq DEF Empty

LEMMA EndType == ASSUME End PROVE CommandTypeOK'
  BY EmptyType, JobType DEF End, CommandTypeOK

\* Dropping the record of one package leaves a database.
LEMMA OtherRecordsType ==
    ASSUME TypeOK, NEW p \in Pkgs
    PROVE  OtherRecords(p) \in [Pkgs -> Seq(Versions \cup {0})]
  BY EmptySeq DEF OtherRecords, TypeOK, StoreTypeOK

\* The image of a finite set is finite.
LEMMA FiniteImage ==
    ASSUME NEW S, IsFiniteSet(S), NEW T, NEW g \in [S -> T]
    PROVE  IsFiniteSet({g[x] : x \in S})
<1>1. g \in Surjection(S, {g[x] : x \in S})
  BY DEF Surjection
<1>2. QED
  BY <1>1, FS_Surjection

\* The lines self-seeding writes, and those adopt writes, are an inventory.
LEMMA LinesOfPathsType ==
    ASSUME NEW F \in SUBSET Paths, NEW d \in [F -> File]
    PROVE  SetToSeq({[path |-> f, digest |-> d[f]] : f \in F}) \in Seq(Line)
<1> DEFINE g == [f \in F |-> [path |-> f, digest |-> d[f]]]
           S == {[path |-> f, digest |-> d[f]] : f \in F}
<1>1. g \in [F -> Line]
  BY DEF Line
<1>2. S = {g[f] : f \in F}
  OBVIOUS
<1>3. IsFiniteSet(F)
  BY ConstantsType, FS_Subset
<1> HIDE DEF g, S
<1>4. IsFiniteSet(S)
  BY <1>1, <1>2, <1>3, FiniteImage
<1>5. S \subseteq Line
  BY <1>1, <1>2
<1>6. SetToSeq(S) \in Seq(Line)
  BY <1>4, <1>5, ListingType
<1>7. QED
  BY <1>6 DEF S

LEMMA SeedLinesType == SeedLines \in Seq(Line)
<1> DEFINE F == {g \in SelfFiles : disk[g] # None}
           d == [f \in F |-> None]
<1>1. F \in SUBSET Paths /\ d \in [F -> File]
  BY ConstantsType DEF File
<1>2. SeedLines = SetToSeq({[path |-> f, digest |-> d[f]] : f \in F})
  <2>1. {[path |-> f, digest |-> None] : f \in F}
        = {[path |-> f, digest |-> d[f]] : f \in F}
    OBVIOUS
  <2>2. QED
    BY <2>1 DEF SeedLines
<1>3. QED
  BY <1>1, <1>2, LinesOfPathsType

-----------------------------------------------------------------------------
(***************************************************************************)
(* The type invariant.                                                     *)
(***************************************************************************)
LEMMA TypeInit == Init => TypeOK
<1> SUFFICES ASSUME Init PROVE TypeOK
  OBVIOUS
<1>1. 1 \in Versions /\ Self \in Pkgs
  BY ConstantsType DEF Versions
<1>2. StoreTypeOK
  BY <1>1, EmptyType DEF Init, StoreTypeOK, File, Content
<1>3. CommandTypeOK
  BY EmptyType, JobType DEF Init, CommandTypeOK
<1>4. QED
  BY <1>2, <1>3 DEF Init, TypeOK

\* The steps between commands and those that begin one.
LEMMA TypeWorld ==
    ASSUME TypeOK, World \/ Begin PROVE TypeOK'
<1> USE DEF TypeOK, StoreTypeOK, CommandTypeOK, store, temp, bounds
<1>1. ASSUME NEW p \in Pkgs, Publish(p) PROVE TypeOK'
  BY <1>1, ConstantsType DEF Publish, Versions
<1>2. ASSUME NEW f \in Paths, NEW c \in {Edited, None}, UserWrites(f, c) PROVE TypeOK'
  BY <1>2 DEF UserWrites, File, Content
<1>3. CASE Start
  BY <1>3 DEF Start, CanStart
<1>4. CanStart => Running \in Versions /\ Self \in Pkgs
  BY ConstantsType DEF CanStart, Running
<1>5. CASE StartUnrecorded
  BY <1>4, <1>5, JobType DEF StartUnrecorded, CanStart
<1>6. CASE StartOutdated
  <2>1. db[Self] \in Seq(Versions \cup {0}) /\ Running \in Versions
    BY <1>4, <1>6, ConstantsType DEF StartOutdated
  <2>2. [i \in DOMAIN db[Self] |-> Running] \in Seq(Versions \cup {0})
    <3>1. Len(db[Self]) \in Nat /\ DOMAIN db[Self] = 1..Len(db[Self])
      BY <2>1, LenProperties
    <3>2. [i \in 1..Len(db[Self]) |-> Running]
          \in [1..Len(db[Self]) -> Versions \cup {0}]
      BY <2>1
    <3>3. QED
      BY <3>1, <3>2
  <2>3. saved' \in [Pkgs -> Seq(Versions \cup {0})]
    BY <2>2, <1>6 DEF StartOutdated
  <2>4. StoreTypeOK'
    BY <1>6, EmptyType DEF StartOutdated
  <2>5. CommandTypeOK'
    BY <2>3, <1>6, JobType DEF StartOutdated
  <2> HIDE DEF StoreTypeOK, CommandTypeOK
  <2>6. QED
    BY <2>4, <2>5, <1>6 DEF StartOutdated, CanStart
<1>7. QED
  BY <1>1, <1>2, <1>3, <1>5, <1>6 DEF World, Begin

\* cmd_remove.
LEMMA TypeRemove ==
    ASSUME TypeOK,
           \/ Classify \/ KeepTail \/ RenameTail \/ TruncateDb \/ WriteDb
           \/ DropInventory \/ StripOverlay \/ Forget \/ Seed
           \/ \E f \in Paths : DeleteOne(f)
           \/ \E p \in Pkgs, force \in BOOLEAN : CmdRemove(p, force)
    PROVE  TypeOK'
<1> USE DEF TypeOK, StoreTypeOK, CommandTypeOK, store, temp, bounds
<1>1. job.id \in Pkgs /\ Self \in Pkgs
  BY ConstantsType DEF Jobs
<1>2. CASE Classify
  <2>1. Doomed(job.id) \subseteq Paths
    BY <1>1, LoadedType DEF Doomed
  <2>2. StoreTypeOK'
    <3>1. hooks' \in [Pkgs -> SUBSET {"edits", "remove"}]
      BY <1>1, <1>2 DEF Classify
    <3>2. UNCHANGED <<disk, extract, inv, db, boot, cat>>
      BY <1>2 DEF Classify
    <3>3. QED
      BY <3>1, <3>2
  <2>3. CommandTypeOK'
    BY <1>2, <2>1, EndType DEF Classify
  <2>4. QED
    BY <1>2, <2>2, <2>3 DEF Classify
<1>3. CASE KeepTail
  BY <1>1, <1>3, LoadedType, EmptyType DEF KeepTail
<1>4. CASE RenameTail
  BY <1>1, <1>4, EndType, EmptyType DEF RenameTail, ReturnFromRemove
<1>5. CASE TruncateDb
  BY <1>1, <1>5, OtherRecordsType, EmptyType DEF TruncateDb
<1>6. CASE WriteDb
  BY <1>6, JobType, EmptyType DEF WriteDb
<1>7. CASE DropInventory
  BY <1>1, <1>7, EmptyType DEF DropInventory
<1>8. CASE StripOverlay
  BY <1>1, <1>8, EndType, EmptyType DEF StripOverlay, ReturnFromRemove
<1>9. CASE Forget
  BY <1>1, <1>9, LoadedType, EmptyType DEF Forget
<1>10. CASE Seed
  BY <1>1, <1>10, SeedLinesType, JobType DEF Seed
<1>11. ASSUME NEW f \in Paths, DeleteOne(f) PROVE TypeOK'
  BY <1>11 DEF DeleteOne, File
<1>12. ASSUME NEW p \in Pkgs, NEW force \in BOOLEAN, CmdRemove(p, force)
       PROVE  TypeOK'
  BY <1>12 DEF CmdRemove, Jobs, JobKinds
<1>13. QED
  BY <1>2, <1>3, <1>4, <1>5, <1>6, <1>7, <1>8, <1>9, <1>10, <1>11, <1>12

\* install_entry, and cmd_adopt.
LEMMA TypeInstall ==
    ASSUME TypeOK,
           \/ Run \/ Record \/ NothingInstalled \/ RecipeRefuses \/ Finish \/ Commit
           \/ AdoptFails \/ Crash
           \/ \E e \in Entries : OpenCopy(e) \/ CopyOne(e) \/ OpenPromotion(e) \/ Promote(e)
           \/ \E d \in Drawers, v \in Versions \cup {0} : AdoptInventory(d, v)
           \/ \E p \in Pkgs : ExtractFails(p) \/ Extract(p) \/ Adopt(p)
    PROVE  TypeOK'
<1> USE DEF TypeOK, StoreTypeOK, CommandTypeOK, store, temp, bounds
<1>1. job.id \in Pkgs /\ job.ver \in Versions \cup {0}
  BY DEF Jobs
<1>2. CASE Run
  BY <1>1, <1>2 DEF Run, Matched
<1>3. CASE Record
  BY <1>1, <1>3, AppendProperties, HeadTailProperties DEF Record
<1>4. CASE NothingInstalled \/ RecipeRefuses \/ AdoptFails
  BY <1>4, EndType DEF NothingInstalled, RecipeRefuses, AdoptFails
<1>5. CASE Finish
  BY <1>1, <1>5, ConstantsType DEF Finish, File
<1>6. CASE Commit
  <2>1. Append(db[job.id], job.ver) \in Seq(Versions \cup {0})
    BY <1>1, AppendProperties
  <2>2. QED
    BY <1>1, <1>6, <2>1, EndType DEF Commit
<1>7. CASE Crash
  BY <1>7, EndType DEF Crash
<1>8. ASSUME NEW f \in Paths, NEW c \in File, PlaceAt(f, c)
      PROVE  disk' \in [Paths -> File] /\ placed' \subseteq Paths /\ lines' \in Seq(Line)
  <2>1. Append(lines, [path |-> f, digest |-> c]) \in Seq(Line)
    BY AppendProperties DEF Line
  <2>2. QED
    BY <1>8, <2>1 DEF PlaceAt
<1>9. ASSUME NEW e \in Entries, CopyOne(e) PROVE TypeOK'
  <2>1. PICK c \in Outcomes(extract[e]) : PlaceAt(Dest[job.id][e], c)
    BY <1>9 DEF CopyOne
  <2>2. c \in File /\ Dest[job.id][e] \in Paths
    BY <1>1, <2>1, ConstantsType DEF Outcomes, File, Content
  <2>3. disk' \in [Paths -> File] /\ placed' \subseteq Paths /\ lines' \in Seq(Line)
    BY <2>1, <2>2, <1>8
  <2>4. QED
    BY <1>9, <2>3 DEF CopyOne
<1>10. ASSUME NEW e \in Entries, Promote(e) PROVE TypeOK'
  <2>1. CASE UNCHANGED <<disk, placed, lines>>
    BY <1>10, <2>1 DEF Promote
  <2>2. ASSUME NEW c \in Outcomes(disk[Dest[job.id][e]]), PlaceAt(LibOf[e], c)
        PROVE  TypeOK'
    <3>1. c \in File /\ LibOf[e] \in Paths
      BY <1>1, <1>10, ConstantsType DEF Promote, Outcomes, File, Content
    <3>2. disk' \in [Paths -> File] /\ placed' \subseteq Paths /\ lines' \in Seq(Line)
      BY <2>2, <3>1, <1>8
    <3>3. QED
      BY <1>10, <3>2 DEF Promote
  <2>3. QED
    BY <1>10, <2>1, <2>2 DEF Promote
<1>11. ASSUME NEW d \in Drawers, NEW v \in Versions \cup {0}, AdoptInventory(d, v)
       PROVE  TypeOK'
  <2> DEFINE F == {f \in d : disk[f] # None /\ ~(job.id = Self /\ f \in Runtime)}
             g == [f \in F |-> disk[f]]
  <2>1. F \in SUBSET Paths /\ g \in [F -> File]
    BY <1>11, ConstantsType
  <2>2. SetToSeq({[path |-> f, digest |-> disk[f]] : f \in F}) \in Seq(Line)
    <3>1. {[path |-> f, digest |-> g[f]] : f \in F}
          = {[path |-> f, digest |-> disk[f]] : f \in F}
      OBVIOUS
    <3>2. SetToSeq({[path |-> f, digest |-> g[f]] : f \in F}) \in Seq(Line)
      BY <2>1, LinesOfPathsType
    <3>3. QED
      BY <3>1, <3>2
  <2>3. StoreTypeOK'
    BY <1>1, <1>11, <2>2 DEF AdoptInventory
  <2>4. CommandTypeOK'
    BY <1>1, <1>11, EndType, JobType DEF AdoptInventory, JobKinds
  <2>5. QED
    BY <1>11, <2>3, <2>4 DEF AdoptInventory
<1>12. ASSUME NEW p \in Pkgs, Adopt(p) PROVE TypeOK'
  BY <1>12, JobType DEF Adopt, JobKinds
<1>13. ASSUME NEW p \in Pkgs, NEW S, Unpack(p, S) PROVE extract' \in [Entries -> File]
  BY <1>13 DEF Unpack, File, Content
<1>14. ASSUME NEW p \in Pkgs, ExtractFails(p) PROVE TypeOK'
  BY <1>13, <1>14, EndType DEF ExtractFails
<1>15. ASSUME NEW p \in Pkgs, Extract(p) PROVE TypeOK'
  <2>1. StoreTypeOK'
    BY <1>13, <1>15 DEF Extract
  <2>2. CommandTypeOK'
    BY <1>15, EndType, JobType DEF Extract, AfterExtract, JobKinds
  <2>3. QED
    BY <1>15, <2>1, <2>2 DEF Extract
<1>16. ASSUME NEW e \in Entries, OpenCopy(e) \/ OpenPromotion(e) PROVE TypeOK'
  <2>1. PICK f \in Paths : OpenTarget(e, f)
    BY <1>1, <1>16, ConstantsType DEF OpenCopy, OpenPromotion
  <2>2. disk' \in [Paths -> File] /\ writing' \in Entries \cup {None}
    BY <2>1 DEF OpenTarget, File, Content
  <2>3. QED
    BY <2>1, <2>2 DEF OpenTarget
<1>17. QED
  BY <1>2, <1>3, <1>4, <1>5, <1>6, <1>7, <1>9, <1>10, <1>11, <1>12, <1>14, <1>15, <1>16

LEMMA TypeNext == TypeOK /\ [Next]_vars => TypeOK'
<1> SUFFICES ASSUME TypeOK, [Next]_vars PROVE TypeOK'
  OBVIOUS
<1>1. CASE UNCHANGED vars
  BY <1>1 DEF TypeOK, StoreTypeOK, CommandTypeOK, vars, store, temp, bounds
<1>2. CASE World \/ Begin
  BY <1>2, TypeWorld
<1>3. CASE Command
  BY <1>3, TypeRemove, TypeInstall DEF Command
<1>4. CASE Step
  BY <1>4, TypeRemove, TypeInstall DEF Step
<1>5. CASE Crash
  BY <1>5, TypeInstall
<1>6. QED
  BY <1>1, <1>2, <1>3, <1>4, <1>5 DEF Next

\* Whatever the packages, archives, drawers and bounds, and wherever power
\* cuts strike, every variable keeps a value of its kind: in particular an
\* inventory only ever lists places on disk with a content or no digest.
THEOREM TypeCorrect == Spec => []TypeOK
<1>1. QED
  BY TypeInit, TypeNext, PTL DEF Spec

-----------------------------------------------------------------------------
(***************************************************************************)
(* Removal.  Between the first pass of cmd_remove and the last file of the *)
(* second, what the first pass found must still be true of every path that *)
(* is yet to be deleted.                                                   *)
(***************************************************************************)
Justified(p, f) ==
    /\ disk[f] # None
    /\ [path |-> f, digest |-> disk[f]] \in Lines(p)

DeletionOK ==
    pc = "delete" =>
        /\ \A f \in doomed : ~Shared(job.id, f)
        /\ ~job.force => \A f \in doomed : Justified(job.id, f)

\* What the first pass lets through.
LEMMA ClassifyJustifies ==
    ASSUME TypeOK, NEW p \in Pkgs, NEW f \in Doomed(p),
           \A i \in DOMAIN Loaded(p) : ~Blocks(p, Loaded(p)[i])
    PROVE  Justified(p, f)
<1>1. PICK i \in DOMAIN Loaded(p) : Loaded(p)[i].path = f
  BY DEF Doomed, PathsOf
<1>2. disk[f] # None /\ ~Shared(p, f)
  BY DEF Doomed
<1>3. Loaded(p)[i].digest = disk[f]
  BY <1>1, <1>2 DEF Blocks
<1>4. i \in DOMAIN inv[p] /\ Loaded(p)[i] = inv[p][i] /\ inv[p] \in Seq(Line)
  BY <1>1, LoadedType DEF TypeOK, StoreTypeOK
<1>5. Loaded(p)[i] \in Line
  BY <1>4, LenProperties, ElementOfSeq
<1>6. Loaded(p)[i] = [path |-> f, digest |-> disk[f]]
  BY <1>1, <1>3, <1>5 DEF Line
<1>7. QED
  BY <1>2, <1>4, <1>6 DEF Justified, Lines

\* Who shares a path, and which lines a receipt holds, only changes with the
\* receipts and with installed.txt.
LEMMA SameReceipts ==
    ASSUME inv' = inv, db' = db
    PROVE  \A q : /\ \A f : Shared(q, f)' <=> Shared(q, f)
                  /\ Lines(q)' = Lines(q)
<1>1. \A q : Installed(q)' <=> Installed(q)
  BY DEF Installed
<1>2. \A q : Loaded(q)' = Loaded(q)
  BY DEF Loaded
<1>3. \A q : PathsOf(Loaded(q))' = PathsOf(Loaded(q))
  BY <1>2 DEF PathsOf
<1>4. \A q : Lines(q)' = Lines(q)
  BY DEF Lines
<1>5. QED
  BY <1>1, <1>3, <1>4 DEF Shared

LEMMA DeletionInit == Init => DeletionOK
  BY DEF Init, DeletionOK

LEMMA DeletionNext == TypeOK /\ DeletionOK /\ [Next]_vars => DeletionOK'
<1> SUFFICES ASSUME TypeOK, DeletionOK, [Next]_vars, pc' = "delete" PROVE DeletionOK'
  BY DEF DeletionOK
<1>1. job.id \in Pkgs
  BY DEF TypeOK, CommandTypeOK, Jobs
<1>2. CASE UNCHANGED vars
  BY <1>2, SameReceipts DEF DeletionOK, Justified, vars, store, temp
<1>3. CASE Classify
  <2>1. /\ job' = job /\ disk' = disk /\ inv' = inv /\ db' = db
        /\ doomed' = Doomed(job.id)
        /\ job.force \/ \A i \in DOMAIN Loaded(job.id) : ~Blocks(job.id, Loaded(job.id)[i])
    BY <1>3 DEF Classify, End
  <2>2. \A f \in Doomed(job.id) : ~Shared(job.id, f)
    BY DEF Doomed
  <2>3. ~job.force => \A f \in Doomed(job.id) : Justified(job.id, f)
    BY <1>1, <2>1, ClassifyJustifies
  <2>4. QED
    BY <2>1, <2>2, <2>3, SameReceipts DEF DeletionOK, Justified
<1>4. ASSUME NEW g \in Paths, DeleteOne(g) PROVE DeletionOK'
  <2>1. /\ job' = job /\ inv' = inv /\ db' = db /\ pc = "delete"
        /\ doomed' = doomed \ {g}
        /\ \A f \in doomed' : disk'[f] = disk[f]
    BY <1>4 DEF DeleteOne, TypeOK, StoreTypeOK, CommandTypeOK
  <2>2. QED
    BY <2>1, SameReceipts DEF DeletionOK, Justified
<1>5. QED
  BY <1>2, <1>3, <1>4
     DEF Next, World, Begin, Command, Step, Crash, End, Publish, UserWrites, Start, CanStart,
         StartUnrecorded, StartOutdated, ExtractFails, Extract, AfterExtract, Adopt,
         CmdRemove, Seed, Forget, KeepTail, RenameTail, ReturnFromRemove, TruncateDb,
         WriteDb, DropInventory, StripOverlay, Run, Record, NothingInstalled,
         RecipeRefuses, Finish, Commit, AdoptFails, CopyOne, OpenCopy, OpenPromotion, OpenTarget, Promote, AdoptInventory, Idle

THEOREM DeletionCorrect == Spec => []DeletionOK
<1>1. QED
  BY DeletionInit, DeletionNext, TypeCorrect, PTL DEF Spec

\* While files are being deleted the only thing that changes the disk is the
\* deletion of one path the first pass chose.
LEMMA OnlyDoomedChange ==
    ASSUME TypeOK, Next, pc = "delete", NEW f \in Paths, disk'[f] # disk[f]
    PROVE  f \in doomed
<1>1. CASE \E g \in Paths : DeleteOne(g)
  BY <1>1 DEF DeleteOne, TypeOK, StoreTypeOK
<1>2. CASE KeepTail \/ TruncateDb \/ Crash
  BY <1>2 DEF KeepTail, TruncateDb, Crash, store
<1>3. ~(World \/ Begin \/ Command)
  BY DEF World, Publish, UserWrites, Begin, Start, StartUnrecorded, StartOutdated, CanStart,
         Idle, Command, ExtractFails, Extract, Adopt, CmdRemove
<1>4. Step => KeepTail \/ TruncateDb \/ \E g \in Paths : DeleteOne(g)
  BY DEF Step, Seed, Forget, Classify, RenameTail, WriteDb, DropInventory, StripOverlay, Run,
         Record, NothingInstalled, RecipeRefuses, Finish, Copied, Commit, AdoptFails,
         CopyOne, OpenCopy, OpenPromotion, OpenTarget, Promote, AdoptInventory
<1>5. QED
  BY <1>1, <1>2, <1>3, <1>4 DEF Next

\* Without FORCE, cmd_remove deletes a file only if the package's receipt
\* holds a line with the file's path and its present content.
THEOREM ModifiedFilesSurvive == Spec => ModifiedSurvives
<1>1. ASSUME TypeOK, DeletionOK, [Next]_vars
      PROVE  [pc = "delete" /\ ~job.force =>
                \A f \in Paths : disk'[f] # disk[f] =>
                    [path |-> f, digest |-> disk[f]] \in Lines(job.id)]_vars
  <2>1. SUFFICES ASSUME Next, pc = "delete", ~job.force,
                        NEW f \in Paths, disk'[f] # disk[f]
                 PROVE  [path |-> f, digest |-> disk[f]] \in Lines(job.id)
    BY <1>1
  <2>2. f \in doomed
    BY <1>1, <2>1, OnlyDoomedChange
  <2>3. QED
    BY <1>1, <2>1, <2>2 DEF DeletionOK, Justified
<1>2. QED
  BY <1>1, TypeCorrect, DeletionCorrect, PTL DEF Spec, ModifiedSurvives

\* No removal deletes a path listed by another installed package whose
\* inventory fits into one pass.
THEOREM SharedFilesSurvive == Spec => SharedSurvives
<1>1. ASSUME TypeOK, DeletionOK, [Next]_vars
      PROVE  [pc = "delete" =>
                \A f \in Paths : disk[f] # None /\ disk'[f] = None =>
                    \A q \in Pkgs \ {job.id} :
                        Installed(q) /\ Len(inv[q]) <= MaxFiles
                            => f \notin PathsOf(inv[q])]_vars
  <2>1. SUFFICES ASSUME Next, pc = "delete", NEW f \in Paths,
                        disk[f] # None, disk'[f] = None,
                        NEW q \in Pkgs \ {job.id}, Installed(q), Len(inv[q]) <= MaxFiles
                 PROVE  f \notin PathsOf(inv[q])
    BY <1>1
  <2>2. ~Shared(job.id, f)
    BY <1>1, <2>1, OnlyDoomedChange DEF DeletionOK
  <2>3. Loaded(q) = inv[q]
    <3>1. inv[q] \in Seq(Line) /\ Len(inv[q]) \in Nat
      BY <1>1, LenProperties DEF TypeOK, StoreTypeOK
    <3>2. (IF Len(inv[q]) < MaxFiles THEN Len(inv[q]) ELSE MaxFiles) = Len(inv[q])
      BY <2>1, <3>1, ConstantsType
    <3>3. QED
      BY <3>1, <3>2, SubSeqFull DEF Loaded
  <2>4. QED
    BY <2>1, <2>2, <2>3 DEF Shared
<1>2. QED
  BY <1>1, TypeCorrect, DeletionCorrect, PTL DEF Spec, SharedSurvives

-----------------------------------------------------------------------------
(***************************************************************************)
(* installed.txt implements the ledger as long as no power cut hits one of *)
(* its rewrites.                                                           *)
(***************************************************************************)
LEMMA RecordsOfEmptied ==
    ASSUME NEW d \in [Pkgs -> Seq(Versions \cup {0})], NEW p \in Pkgs
    PROVE  RecordsOf([d EXCEPT ![p] = <<>>]) = [RecordsOf(d) EXCEPT ![p] = None]
  BY DEF RecordsOf

LEMMA RecordsOfWritten ==
    ASSUME NEW d \in [Pkgs -> Seq(Versions \cup {0})], NEW p \in Pkgs,
           NEW s \in Seq(Versions \cup {0}), s # <<>>
    PROVE  RecordsOf([d EXCEPT ![p] = s]) = [RecordsOf(d) EXCEPT ![p] = s[Len(s)]]
  BY DEF RecordsOf

\* A step that neither touches the database nor rewrites it.
LEMMA SameRecords ==
    ASSUME pc # "rewrite", pc' # "rewrite", db' = db
    PROVE  have' = have
  BY DEF have, RecordsOf

LEMMA LedgerInit == Init => Ledger!Init
<1> SUFFICES ASSUME Init PROVE have = [p \in Pkgs |-> None]
  BY DEF Ledger!Init
<1>1. QED
  BY DEF Init, have, RecordsOf, Empty

\* The steps that change the record: each maps to one step of the ledger.
LEMMA LedgerSteps ==
    ASSUME TypeOK,
           StartUnrecorded \/ StartOutdated \/ TruncateDb \/ WriteDb \/ Commit
    PROVE  [Ledger!Next]_have
<1>1. /\ db \in [Pkgs -> Seq(Versions \cup {0})] /\ job.id \in Pkgs /\ Self \in Pkgs
      /\ job.ver \in Versions \cup {0}
  BY ConstantsType DEF TypeOK, StoreTypeOK, CommandTypeOK, Jobs
<1>2. ASSUME NEW p \in Pkgs, have' = [have EXCEPT ![p] = None] PROVE Ledger!Next
  BY <1>2 DEF Ledger!Next, Ledger!DropRecord
<1>3. ASSUME NEW p \in Pkgs, NEW v \in Versions \cup {0}, have' = [have EXCEPT ![p] = v]
      PROVE  Ledger!Next
  BY <1>3 DEF Ledger!Next, Ledger!RecordVersion
<1>4. ASSUME CanStart PROVE Running \in Versions \cup {0}
  BY <1>4 DEF CanStart, Running
<1>5. CASE StartUnrecorded
  <2> DEFINE s == <<Running>>
  <2>1. s \in Seq(Versions \cup {0}) /\ s # <<>> /\ s[Len(s)] = Running
    BY <1>4, <1>5 DEF StartUnrecorded
  <2> HIDE DEF s
  <2>2. have = RecordsOf(db) /\ have' = RecordsOf([db EXCEPT ![Self] = s])
    BY <1>5 DEF StartUnrecorded, CanStart, Idle, have, s
  <2>3. RecordsOf([db EXCEPT ![Self] = s]) = [RecordsOf(db) EXCEPT ![Self] = s[Len(s)]]
    BY <1>1, <2>1, RecordsOfWritten
  <2>4. have' = [have EXCEPT ![Self] = Running]
    BY <2>1, <2>2, <2>3
  <2>5. QED
    BY <1>1, <1>3, <1>4, <1>5, <2>4 DEF StartUnrecorded
<1>6. CASE StartOutdated
  <2> DEFINE s == [i \in DOMAIN db[Self] |-> Running]
  <2>1. s \in Seq(Versions \cup {0}) /\ s # <<>> /\ s[Len(s)] = Running
    <3>1. Len(db[Self]) \in Nat \ {0} /\ DOMAIN db[Self] = 1..Len(db[Self])
      BY <1>1, <1>6, LenProperties, EmptySeq DEF StartOutdated, Installed
    <3>2. s \in [1..Len(db[Self]) -> Versions \cup {0}]
      BY <3>1, <1>4, <1>6 DEF StartOutdated
    <3>3. s \in Seq(Versions \cup {0}) /\ Len(s) = Len(db[Self])
      BY <3>1, <3>2
    <3>4. QED
      BY <3>1, <3>3, EmptySeq
  <2> HIDE DEF s
  <2>2. have = RecordsOf(db) /\ have' = RecordsOf([db EXCEPT ![Self] = s])
    BY <1>6 DEF StartOutdated, CanStart, Idle, have, s
  <2>3. RecordsOf([db EXCEPT ![Self] = s]) = [RecordsOf(db) EXCEPT ![Self] = s[Len(s)]]
    BY <1>1, <2>1, RecordsOfWritten
  <2>4. have' = [have EXCEPT ![Self] = Running]
    BY <2>1, <2>2, <2>3
  <2>5. QED
    BY <1>1, <1>3, <1>4, <1>6, <2>4 DEF StartOutdated
<1>8. CASE TruncateDb
  BY <1>1, <1>2, <1>8, RecordsOfEmptied DEF TruncateDb, OtherRecords, have
<1>9. CASE WriteDb
  BY <1>9 DEF WriteDb, have, RecordsOf
<1>10. CASE Commit
  <2> DEFINE s == Append(db[job.id], job.ver)
  <2>1. s \in Seq(Versions \cup {0}) /\ s # <<>> /\ s[Len(s)] = job.ver
    <3>1. db[job.id] \in Seq(Versions \cup {0})
      BY <1>1
    <3>2. QED
      BY <1>1, <3>1, AppendProperties
  <2> HIDE DEF s
  <2>2. have = RecordsOf(db) /\ have' = RecordsOf([db EXCEPT ![job.id] = s])
    BY <1>10 DEF Commit, End, have, s
  <2>3. RecordsOf([db EXCEPT ![job.id] = s]) = [RecordsOf(db) EXCEPT ![job.id] = s[Len(s)]]
    BY <1>1, <2>1, RecordsOfWritten
  <2>4. have' = [have EXCEPT ![job.id] = job.ver]
    BY <2>1, <2>2, <2>3
  <2>5. QED
    BY <1>1, <1>3, <2>4
<1>11. QED
  BY <1>5, <1>6, <1>8, <1>9, <1>10

LEMMA LedgerNext ==
    ASSUME MaxCrashes = 0, TypeOK, [Next]_vars PROVE [Ledger!Next]_have
<1>1. CASE UNCHANGED vars
  BY <1>1 DEF vars, store, temp, have, RecordsOf
<1>2. ~Crash
  BY DEF Crash, TypeOK
<1>3. CASE World \/ Start
  BY <1>3, SameRecords DEF World, Publish, UserWrites, Start, CanStart, Idle, store
<1>4. CASE Command
  BY <1>4, SameRecords
     DEF Command, ExtractFails, Extract, End, AfterExtract, Adopt, CmdRemove, store
<1>5. CASE /\ Step
           /\ ~(TruncateDb \/ WriteDb \/ Commit)
  BY <1>5, SameRecords
     DEF Step, Seed, Forget, Classify, KeepTail, RenameTail, ReturnFromRemove,
         DropInventory, StripOverlay, Run, Record, NothingInstalled, RecipeRefuses, Finish,
         Copied, AdoptFails, AdoptInventory, CopyOne, OpenCopy, OpenPromotion, OpenTarget, Promote, DeleteOne, End, store
<1>6. QED
  BY <1>1, <1>2, <1>3, <1>4, <1>5, LedgerSteps DEF Next, Begin

\* Without power cuts every step of every command changes the record of at
\* most one package, although each change rewrites the whole of
\* installed.txt: install, upgrade, removal and adopt implement the ledger.
THEOREM LedgerImplemented == ASSUME MaxCrashes = 0 PROVE Spec => LedgerSpec
<1>1. Init => Ledger!Init
  BY LedgerInit
<1>2. TypeOK /\ [Next]_vars => [Ledger!Next]_have
  BY LedgerNext
<1>3. QED
  BY <1>1, <1>2, TypeCorrect, PTL DEF Spec, LedgerSpec, Ledger!Spec
-----------------------------------------------------------------------------
(***************************************************************************)
(* What an install leaves behind: its receipt, its line in installed.txt,  *)
(* the files of its archive, and amipkg's own binary.                      *)
(***************************************************************************)

(***************************************************************************)
(* What is in memory at each place of the program.                         *)
(***************************************************************************)
Places ==
    /\ pc \in {"off", "ready"} => job.kind = "none"
    /\ pc = "seed" => job.kind = "start"
    /\ job.kind = "start" => pc \in {"seed", "rewrite"} /\ job.id = Self
    /\ pc = "rewrite" => job.kind # "none"
    /\ pc = "forget" => job.kind = "install" /\ job.id = Self
    /\ pc = "unlist" => job.kind = "adopt" \/ (job.kind = "install" /\ job.id = Self)
    /\ pc = "adopt" => job.kind = "adopt"
    /\ pc = "dropinv" => job.kind \in {"install", "remove", "adopt"}
    /\ pc \in {"classify", "delete", "tail", "strip"} => job.kind \in {"install", "remove"}
    /\ pc \in {"classify", "delete", "tail", "dropinv", "strip"} /\ job.kind = "install" =>
           job.id # Self
    /\ pc \in {"run", "copy"} => job.kind = "install"
    /\ pc = "commit" => job.kind \in {"install", "adopt"}

\* A copy under way is of an entry that is still to be copied, or promoted,
\* and has emptied its target.
HalfWritten ==
    writing # None =>
        /\ pc = "copy"
        /\ \/ writing \in todo
           \/ todo = {} /\ writing \in libs /\ disk[LibOf[writing]] = Cut

MemoryOK ==
    /\ Places
    /\ HalfWritten
    /\ pc \notin {"copy", "commit"} => placed = {} /\ libs = {}
    /\ pc \notin {"copy", "tail"} => lines = <<>>
    /\ job.kind = "install" =>
           /\ job.force /\ job.ver \in Versions
           /\ \A e \in Ships[job.id][job.ver] : extract[e] = <<job.id, job.ver>>
    /\ pc = "copy" => todo \subseteq Matched(job.id)

LEMMA MemoryInit == Init => MemoryOK
  BY JobType DEF Init, MemoryOK, HalfWritten, Places, NoJob, Job

\* A program that has ended holds nothing.
LEMMA MemoryEnd == ASSUME End PROVE MemoryOK'
  BY JobType DEF End, MemoryOK, HalfWritten, Places

\* What can be extracted is what the catalog names.
LEMMA UnpackedContent ==
    ASSUME TypeOK, NEW p \in Pkgs, Unpack(p, Ships[p][cat[p]])
    PROVE  \A e \in Ships[p][cat[p]] : extract'[e] = <<p, cat[p]>>
<1>1. cat[p] \in Versions /\ Ships[p][cat[p]] \subseteq Entries
  BY ConstantsType DEF TypeOK, StoreTypeOK
<1>2. QED
  BY <1>1 DEF Unpack

\* A library is promoted to a place on disk.
LEMMA LibraryPath ==
    ASSUME TypeOK, NEW e \in libs PROVE LibOf[e] \in Paths
  BY ConstantsType DEF TypeOK, CommandTypeOK

\* The first step of a copy empties a file and does nothing else: the target
\* of an entry still to copy, or an absent library.
OpenedAt(e) ==
    /\ pc = "copy" /\ writing = None /\ writing' = e
    /\ UNCHANGED <<extract, inv, db, hooks, boot, cat, pc, job,
                   doomed, todo, libs, lines, placed, saved, bounds>>
    /\ \E f \in Paths : /\ disk' = [disk EXCEPT ![f] = Cut]
                       /\ \/ e \in todo /\ f = Dest[job.id][e]
                          \/ disk[f] = None

LEMMA Opening ==
    ASSUME TypeOK, NEW e \in Entries, OpenCopy(e) \/ OpenPromotion(e)
    PROVE  OpenedAt(e)
<1>1. job.id \in Pkgs
  BY DEF TypeOK, CommandTypeOK, Jobs
<1>2. CASE OpenCopy(e)
  <2>1. Dest[job.id][e] \in Paths
    BY <1>1, ConstantsType
  <2>2. QED
    BY <1>2, <2>1 DEF OpenCopy, OpenTarget, OpenedAt
<1>3. CASE OpenPromotion(e)
  <2>1. LibOf[e] \in Paths
    BY <1>3, LibraryPath DEF OpenPromotion
  <2>2. QED
    BY <1>3, <2>1 DEF OpenPromotion, OpenTarget, OpenedAt
<1>4. QED
  BY <1>2, <1>3

LEMMA MemoryNext == TypeOK /\ MemoryOK /\ [Next]_vars => MemoryOK'
<1> SUFFICES ASSUME TypeOK, MemoryOK, [Next]_vars PROVE MemoryOK'
  OBVIOUS
<1> USE DEF MemoryOK, HalfWritten, Places
<1>1. CASE UNCHANGED vars
  BY <1>1 DEF vars, store, temp, Matched
<1>2. CASE World \/ Start
  BY <1>2 DEF World, Publish, UserWrites, Start, CanStart, Idle, store, temp
<1>3. CASE StartUnrecorded \/ StartOutdated
  BY <1>3, JobType DEF StartUnrecorded, StartOutdated, CanStart, Idle, temp, StartJob, Job
<1>4. ASSUME NEW p \in Pkgs, ExtractFails(p) PROVE MemoryOK'
  BY <1>4, MemoryEnd DEF ExtractFails
<1>5. ASSUME NEW p \in Pkgs, Extract(p) PROVE MemoryOK'
  <2>1. CASE End
    BY <2>1, MemoryEnd
  <2>2. CASE job' = Job("install", p, cat[p]) /\ pc' = AfterExtract(p) /\ UNCHANGED temp
    <3>1. cat[p] \in Versions
      BY DEF TypeOK, StoreTypeOK
    <3>2. /\ \/ pc' = "run"
             \/ pc' = "forget" /\ p = Self
             \/ pc' = "classify" /\ p # Self
          /\ job'.id = p /\ job'.kind = "install" /\ job'.ver = cat[p] /\ job'.force
      BY <2>2 DEF AfterExtract, Job
    <3>3. placed' = {} /\ libs' = {} /\ lines' = <<>> /\ writing' = None
      BY <1>5, <2>2 DEF Extract, temp
    <3>4. \A e \in Ships[p][cat[p]] : extract'[e] = <<p, cat[p]>>
      BY <1>5, UnpackedContent DEF Extract
    <3>5. QED
      BY <3>1, <3>2, <3>3, <3>4
  <2>3. QED
    BY <1>5, <2>1, <2>2 DEF Extract
<1>6. ASSUME NEW p \in Pkgs, Adopt(p) \/ \E force \in BOOLEAN : CmdRemove(p, force)
      PROVE  MemoryOK'
  BY <1>6 DEF Adopt, CmdRemove, Job, store, temp
<1>7. CASE Crash \/ NothingInstalled \/ RecipeRefuses \/ AdoptFails \/ Commit
  <2>1. End
    BY <1>7 DEF Crash, NothingInstalled, RecipeRefuses, AdoptFails, Commit
  <2>2. QED
    BY <2>1, MemoryEnd
<1>8. CASE Seed \/ Forget \/ KeepTail \/ TruncateDb \/ WriteDb \/ DropInventory
  <2>1. job.kind \in JobKinds /\ NoJob.kind = "none"
    BY JobType DEF TypeOK, CommandTypeOK, Jobs
  <2>2. CASE Seed \/ WriteDb
    BY <2>1, <2>2 DEF Seed, WriteDb, JobKinds, temp
  <2>3. QED
    BY <1>8, <2>2 DEF Forget, KeepTail, TruncateDb, DropInventory, temp
<1>9. CASE Classify
  <2>1. CASE End
    BY <2>1, MemoryEnd
  <2>2. QED
    BY <1>9, <2>1 DEF Classify
<1>10. CASE RenameTail \/ StripOverlay
  <2>1. CASE End
    BY <2>1, MemoryEnd
  <2>2. QED
    BY <1>10, <2>1 DEF RenameTail, StripOverlay, ReturnFromRemove
<1>11. CASE Run
  BY <1>11 DEF Run, Matched
<1>12. CASE Record \/ Finish
  BY <1>12 DEF Record, Finish, Copied, Matched
<1>13. ASSUME NEW f \in Paths, DeleteOne(f) PROVE MemoryOK'
  BY <1>13 DEF DeleteOne
<1>14. ASSUME NEW e \in Entries, CopyOne(e) \/ Promote(e) PROVE MemoryOK'
  BY <1>14 DEF CopyOne, Promote, Matched
<1>15. ASSUME NEW d \in Drawers, NEW v \in Versions \cup {0}, AdoptInventory(d, v)
       PROVE  MemoryOK'
  <2>1. CASE End
    BY <2>1, MemoryEnd
  <2>2. QED
    BY <1>15, <2>1 DEF AdoptInventory, Job, temp
<1>16. ASSUME NEW e \in Entries, OpenCopy(e) \/ OpenPromotion(e) PROVE MemoryOK'
  <2>1. OpenedAt(e)
    BY <1>16, Opening
  <2>2. e \in todo \/ (todo = {} /\ e \in libs /\ disk'[LibOf[e]] = Cut)
    BY <1>16, LibraryPath DEF OpenCopy, OpenPromotion, OpenTarget, TypeOK, StoreTypeOK
  <2>3. QED
    BY <2>1, <2>2 DEF OpenedAt, Matched
<1>17. QED
  BY <1>1, <1>2, <1>3, <1>4, <1>5, <1>6, <1>7, <1>8, <1>9, <1>10, <1>11, <1>12, <1>13, <1>14,
     <1>15, <1>16 DEF Next, Begin, Command, Step

LEMMA MemoryAlways == Spec => [](TypeOK /\ MemoryOK)
  BY TypeInit, TypeNext, MemoryInit, MemoryNext, PTL DEF Spec

(***************************************************************************)
(* The receipt covers what was copied.                                     *)
(***************************************************************************)
Written(p) == InUse \cup PathsOf(inv[p]) \cup PathsOf(lines)
CoverOK ==
    /\ pc = "copy" /\ Generic(job.id) =>
           \A e \in Matched(job.id) \ todo : Dest[job.id][e] \in Written(job.id)
    /\ ReceiptCovers

\* The paths of a receipt grow with the line appended to it, and moving the
\* first pending line to the receipt loses none.
LEMMA PathsOfAppend ==
    ASSUME NEW s \in Seq(Line), NEW l \in Line
    PROVE  PathsOf(Append(s, l)) = PathsOf(s) \cup {l.path}
<1>1. /\ DOMAIN s = 1..Len(s) /\ Len(s) \in Nat
      /\ DOMAIN Append(s, l) = 1..Len(s) + 1
      /\ \A i \in 1..Len(s) : Append(s, l)[i] = s[i]
      /\ Append(s, l)[Len(s) + 1] = l
  BY LenProperties, AppendProperties
<1>2. 1..Len(s) + 1 = 1..Len(s) \cup {Len(s) + 1}
  BY <1>1
<1>3. QED
  BY <1>1, <1>2 DEF PathsOf

LEMMA PathsOfTail ==
    ASSUME NEW s \in Seq(Line), s # <<>>
    PROVE  /\ Head(s) \in Line /\ Tail(s) \in Seq(Line)
           /\ PathsOf(s) = {Head(s).path} \cup PathsOf(Tail(s))
<1>1. /\ Len(s) \in Nat /\ DOMAIN s = 1..Len(s)
      /\ Head(s) = s[1] /\ Head(s) \in Line
      /\ Tail(s) \in Seq(Line) /\ Len(Tail(s)) = Len(s) - 1
      /\ \A i \in 1..Len(Tail(s)) : Tail(s)[i] = s[i + 1]
  BY LenProperties, HeadTailProperties, ElementOfSeq
<1>2. Len(s) >= 1 /\ DOMAIN Tail(s) = 1..Len(s) - 1
  BY <1>1, LenProperties, EmptySeq
<1>3. PathsOf(s) \subseteq {Head(s).path} \cup PathsOf(Tail(s))
  <2>1. SUFFICES ASSUME NEW i \in 1..Len(s) PROVE s[i].path \in {Head(s).path} \cup PathsOf(Tail(s))
    BY <1>1 DEF PathsOf
  <2>2. CASE i = 1
    BY <1>1, <2>2
  <2>3. CASE i # 1
    <3>1. i - 1 \in 1..Len(s) - 1 /\ (i - 1) + 1 = i
      BY <1>1, <2>3
    <3>2. Tail(s)[i - 1] = s[i]
      BY <1>1, <3>1
    <3>3. QED
      BY <1>2, <3>1, <3>2 DEF PathsOf
  <2>4. QED
    BY <2>2, <2>3
<1>4. {Head(s).path} \cup PathsOf(Tail(s)) \subseteq PathsOf(s)
  <2>1. Head(s).path \in PathsOf(s)
    BY <1>1, <1>2 DEF PathsOf
  <2>2. ASSUME NEW i \in 1..Len(s) - 1 PROVE Tail(s)[i].path \in PathsOf(s)
    <3>1. i + 1 \in 1..Len(s) /\ Tail(s)[i] = s[i + 1]
      BY <1>1, <2>2
    <3>2. QED
      BY <1>1, <3>1 DEF PathsOf
  <2>3. QED
    BY <1>2, <2>1, <2>2 DEF PathsOf
<1>5. QED
  BY <1>1, <1>3, <1>4

\* What one copy does, to the disk and to the lines of the receipt.
LEMMA Placement ==
    ASSUME TypeOK, NEW f \in Paths, NEW c \in File, PlaceAt(f, c)
    PROVE  /\ PathsOf(lines) \subseteq PathsOf(lines')
           /\ Reported => f \in InUse \cup PathsOf(lines')
           /\ placed \subseteq placed' /\ placed' \subseteq placed \cup {f}
           /\ PathsOf(lines') \subseteq PathsOf(lines) \cup {f}
           /\ \A g \in Paths : disk'[g] = IF g = f /\ f \notin InUse THEN c ELSE disk[g]
           /\ Reported /\ f \notin InUse => f \in placed'
           /\ placed' = {} => lines' = lines
<1>1. lines \in Seq(Line) /\ disk \in [Paths -> File]
  BY DEF TypeOK, StoreTypeOK, CommandTypeOK
<1>2. [path |-> f, digest |-> c] \in Line
  BY DEF Line
<1>3. PathsOf(Append(lines, [path |-> f, digest |-> c])) = PathsOf(lines) \cup {f}
  BY <1>1, <1>2, PathsOfAppend
<1>4. QED
  BY <1>1, <1>3 DEF PlaceAt

LEMMA CopyPlacement ==
    ASSUME TypeOK, NEW e \in Entries, CopyOne(e)
    PROVE  /\ Dest[job.id][e] \in Paths /\ extract[e] \in File
           /\ \E c \in File : /\ c \in Outcomes(extract[e])
                              /\ PlaceAt(Dest[job.id][e], c)
<1>1. job.id \in Pkgs /\ extract[e] \in File
  BY DEF TypeOK, StoreTypeOK, CommandTypeOK, Jobs
<1>2. \A c \in Outcomes(extract[e]) : c \in File
  BY <1>1 DEF Outcomes, File, Content
<1>3. QED
  BY <1>1, <1>2, ConstantsType DEF CopyOne

LEMMA PromotePlacement ==
    ASSUME TypeOK, NEW e \in Entries, Promote(e)
    PROVE  /\ LibOf[e] \in Paths
           /\ \/ UNCHANGED <<disk, placed, lines>>
              \/ /\ MemoryOK => disk[LibOf[e]] = Cut
                 /\ \E c \in File : PlaceAt(LibOf[e], c)
<1>1. job.id \in Pkgs /\ LibOf[e] \in Paths /\ disk[Dest[job.id][e]] \in File
  BY ConstantsType DEF TypeOK, StoreTypeOK, CommandTypeOK, Jobs, Promote
<1>2. \A c \in Outcomes(disk[Dest[job.id][e]]) : c \in File
  BY <1>1 DEF Outcomes, File, Content
<1>3. writing = e /\ todo = {} /\ MemoryOK => disk[LibOf[e]] = Cut
  BY MarkersAreNoContents DEF MemoryOK, HalfWritten
<1>4. QED
  BY <1>1, <1>2, <1>3 DEF Promote

LEMMA CoverInit == Init => CoverOK
  BY DEF Init, CoverOK, ReceiptCovers

\* The steps that reach or stay in the copy and the commit.
LEMMA IntoCommit ==
    ASSUME [Next]_vars, pc' \in {"copy", "commit"}
    PROVE  \/ UNCHANGED vars \/ Run \/ Record \/ Finish
           \/ \E e \in Entries : OpenCopy(e) \/ CopyOne(e) \/ OpenPromotion(e) \/ Promote(e)
           \/ \E d \in Drawers, v \in Versions \cup {0} : AdoptInventory(d, v)
  BY DEF Next, World, Begin, Command, Step, Crash, End, Publish, UserWrites, Start, CanStart,
         StartUnrecorded, StartOutdated, ExtractFails, Extract, AfterExtract, Adopt,
         CmdRemove, Seed, Forget, Classify, KeepTail, RenameTail, ReturnFromRemove,
         TruncateDb, WriteDb, DropInventory, StripOverlay, NothingInstalled, RecipeRefuses,
         Commit, AdoptFails, DeleteOne, Idle

LEMMA CoverNext == TypeOK /\ MemoryOK /\ CoverOK /\ [Next]_vars => CoverOK'
<1> SUFFICES ASSUME TypeOK, MemoryOK, CoverOK, [Next]_vars PROVE CoverOK'
  OBVIOUS
<1>0. job.id \in Pkgs /\ inv \in [Pkgs -> Seq(Line)] /\ lines \in Seq(Line)
  BY DEF TypeOK, StoreTypeOK, CommandTypeOK, Jobs
<1>1. CASE UNCHANGED vars
  BY <1>1 DEF CoverOK, ReceiptCovers, Written, Matched, PathsOf, vars, store, temp
<1>2. CASE Run
  BY <1>2 DEF Run, CoverOK, ReceiptCovers, Matched
<1>3. ASSUME NEW e \in Entries, CopyOne(e) PROVE CoverOK'
  <2>1. PICK c \in File : PlaceAt(Dest[job.id][e], c)
    BY <1>3, CopyPlacement
  <2>2. /\ pc = "copy" /\ pc' = pc /\ job' = job /\ todo' = todo \ {e}
        /\ inv' = inv /\ extract' = extract
    BY <1>3 DEF CopyOne
  <2>3. SUFFICES ASSUME Generic(job.id), NEW g \in Matched(job.id) \ todo'
                 PROVE  Dest[job.id][g] \in InUse \cup PathsOf(inv'[job.id]) \cup PathsOf(lines')
    BY <2>2 DEF CoverOK, ReceiptCovers, Written, Matched, PathsOf, Generic
  <2>4. Dest[job.id][e] \in Paths /\ Reported
    BY <1>0, <2>3, ConstantsType DEF Reported
  <2>5. /\ PathsOf(lines) \subseteq PathsOf(lines')
        /\ Dest[job.id][e] \in InUse \cup PathsOf(lines')
    BY <2>1, <2>4, Placement
  <2>6. CASE g = e
    BY <2>5, <2>6
  <2>7. CASE g # e
    BY <2>2, <2>3, <2>5, <2>7 DEF CoverOK, Written
  <2>8. QED
    BY <2>6, <2>7
<1>4. ASSUME NEW e \in Entries, Promote(e) PROVE CoverOK'
  <2>1. PathsOf(lines) \subseteq PathsOf(lines')
    BY <1>4, PromotePlacement, Placement
  <2>2. /\ pc = "copy" /\ pc' = pc /\ job' = job /\ todo' = todo
        /\ inv' = inv /\ extract' = extract
    BY <1>4 DEF Promote
  <2>3. QED
    BY <2>1, <2>2 DEF CoverOK, ReceiptCovers, Written, Matched, PathsOf, Generic
<1>5. CASE Record
  <2>1. /\ lines # <<>> /\ inv'[job.id] = Append(inv[job.id], Head(lines))
        /\ lines' = Tail(lines) /\ inv[job.id] \in Seq(Line)
    BY <1>0, <1>5 DEF Record
  <2>2. /\ PathsOf(inv'[job.id]) = PathsOf(inv[job.id]) \cup {Head(lines).path}
        /\ PathsOf(lines) = {Head(lines).path} \cup PathsOf(lines')
    BY <1>0, <2>1, PathsOfAppend, PathsOfTail
  <2>3. /\ pc = "copy" /\ pc' = pc /\ job' = job /\ todo' = todo /\ extract' = extract
    BY <1>5 DEF Record
  <2>4. QED
    BY <2>2, <2>3 DEF CoverOK, ReceiptCovers, Written, Matched, Generic
<1>6. CASE Finish
  <2>1. /\ pc = "copy" /\ pc' = "commit" /\ todo = {} /\ lines = <<>>
        /\ job' = job /\ inv' = inv /\ extract' = extract
    BY <1>6 DEF Finish, Copied
  <2>2. PathsOf(lines) = {}
    BY <2>1 DEF PathsOf
  <2>3. QED
    BY <2>1, <2>2 DEF CoverOK, ReceiptCovers, Written, Matched, PathsOf, Generic
<1>7. ASSUME NEW d \in Drawers, NEW v \in Versions \cup {0}, AdoptInventory(d, v)
      PROVE  CoverOK'
  BY <1>7 DEF AdoptInventory, End, Job, CoverOK, ReceiptCovers
<1>8. ASSUME NEW e \in Entries, OpenCopy(e) \/ OpenPromotion(e) PROVE CoverOK'
  <2>1. OpenedAt(e)
    BY <1>8, Opening
  <2>2. QED
    BY <2>1 DEF OpenedAt, CoverOK, ReceiptCovers, Written, Matched, PathsOf, Generic
<1>9. QED
  BY <1>1, <1>2, <1>3, <1>4, <1>5, <1>6, <1>7, <1>8, IntoCommit DEF CoverOK, ReceiptCovers

\* When a generic install commits, its receipt lists every extracted file
\* that could be written, whatever cache/extract held before and whatever the
\* old version left in the receipt.
THEOREM ReceiptComplete == Spec => []ReceiptCovers
<1>1. Spec => []CoverOK
  BY MemoryAlways, CoverInit, CoverNext, PTL DEF Spec
<1>2. CoverOK => ReceiptCovers
  BY DEF CoverOK
<1>3. QED
  BY <1>1, <1>2, PTL

(***************************************************************************)
(* One line for each package.                                              *)
(***************************************************************************)
FitsOnePass == \A p \in Pkgs : Len(inv[p]) <= MaxFiles
OneOK ==
    /\ \A p \in Pkgs : Len(db[p]) <= 1 /\ Len(saved[p]) <= 1
    /\ pc # "tail"
    /\ pc \in {"run", "copy", "commit", "adopt", "dropinv", "strip"} => db[job.id] = <<>>
    /\ pc = "rewrite" /\ job.kind # "start" => saved[job.id] = <<>>
    /\ pc = "seed" => job.kind = "start"

LEMMA OneInit == Init => OneOK
  BY EmptyType, EmptySeq DEF Init, OneOK, Empty

LEMMA EmptyLines == Len(<<>>) = 0 /\ \A p \in Pkgs : Empty[p] = <<>>
  BY DEF Empty

\* A program that ends leaves installed.txt as it is.
LEMMA OneEnd == ASSUME OneOK, End, db' = db PROVE OneOK'
  BY EmptyLines, JobType DEF OneOK, End

LEMMA OneNext == TypeOK /\ FitsOnePass /\ OneOK /\ [Next]_vars => OneOK'
<1> SUFFICES ASSUME TypeOK, FitsOnePass, OneOK, [Next]_vars PROVE OneOK'
  OBVIOUS
<1>0. /\ job.id \in Pkgs /\ Self \in Pkgs /\ job.ver \in Versions \cup {0}
      /\ db \in [Pkgs -> Seq(Versions \cup {0})]
  BY ConstantsType DEF TypeOK, StoreTypeOK, CommandTypeOK, Jobs
<1>1. CASE UNCHANGED vars
  BY <1>1 DEF OneOK, vars, store, temp
<1>2. CASE World \/ Start
  BY <1>2 DEF OneOK, World, Publish, UserWrites, Start, CanStart, Idle, store, temp
<1>3. CASE StartUnrecorded
  <2>1. Len(<<Running>>) = 1
    OBVIOUS
  <2>2. \A p \in Pkgs : Len(db'[p]) <= 1
    BY <1>0, <1>3, <2>1 DEF OneOK, StartUnrecorded
  <2>3. QED
    BY <1>3, <2>2, JobType DEF OneOK, StartUnrecorded, CanStart, Idle, temp
<1>4. CASE StartOutdated
  <2> DEFINE s == [i \in DOMAIN db[Self] |-> Running]
  <2>1. Len(s) = Len(db[Self])
    <3>1. Len(db[Self]) \in Nat /\ DOMAIN db[Self] = 1..Len(db[Self])
      BY <1>0, LenProperties
    <3>2. QED
      BY <3>1
  <2>2. saved' = [db EXCEPT ![Self] = s]
    BY <1>4 DEF StartOutdated
  <2> HIDE DEF s
  <2>3. \A p \in Pkgs : Len(saved'[p]) <= 1
    BY <1>0, <2>1, <2>2 DEF OneOK
  <2>4. QED
    BY <1>4, <2>3, EmptyLines, JobType DEF OneOK, StartOutdated
<1>5. ASSUME NEW p \in Pkgs, ExtractFails(p) \/ Extract(p) \/ Adopt(p) PROVE OneOK'
  <2>1. CASE End
    BY <1>5, <2>1, OneEnd DEF ExtractFails, Extract, Adopt, store
  <2>2. CASE Extract(p) /\ ~End
    BY <1>5, <2>2 DEF OneOK, Extract, AfterExtract, Job, Installed, temp
  <2>3. CASE Adopt(p)
    BY <1>5, <2>3 DEF OneOK, Adopt, Job, Installed, store, temp
  <2>4. QED
    BY <1>5, <2>1, <2>2, <2>3 DEF ExtractFails
<1>6. ASSUME NEW p \in Pkgs, NEW force \in BOOLEAN, CmdRemove(p, force) PROVE OneOK'
  BY <1>6 DEF OneOK, CmdRemove, store, temp
<1>7. CASE Crash \/ NothingInstalled \/ RecipeRefuses \/ AdoptFails
  BY <1>7, OneEnd DEF Crash, NothingInstalled, RecipeRefuses, AdoptFails, store
<1>8. CASE Seed \/ Forget \/ Classify \/ DropInventory \/ StripOverlay
  <2>1. CASE End
    BY <1>8, <2>1, OneEnd
       DEF Seed, Forget, Classify, DropInventory, StripOverlay, store
  <2>2. CASE ~End
    BY <1>8, <2>2, EmptyLines, JobType
       DEF OneOK, Seed, Forget, Classify, DropInventory, StripOverlay, ReturnFromRemove, temp
  <2>3. QED
    BY <2>1, <2>2
<1>9. ~KeepTail /\ ~RenameTail
  <2>1. inv[job.id] \in Seq(Line)
    BY <1>0 DEF TypeOK, StoreTypeOK
  <2>2. Len(inv[job.id]) \in Nat /\ MaxFiles \in Nat
    BY <2>1, LenProperties, ConstantsType
  <2>3. QED
    BY <1>0, <2>2 DEF KeepTail, RenameTail, FitsOnePass, OneOK
<1>10. CASE TruncateDb
  <2>1. \A p \in Pkgs : Len(saved'[p]) <= 1
    BY <1>0, <1>10, EmptyLines DEF OneOK, TruncateDb, OtherRecords
  <2>2. saved'[job.id] = <<>>
    BY <1>0, <1>10 DEF TruncateDb, OtherRecords
  <2>3. QED
    BY <1>10, <2>1, <2>2, EmptyLines DEF OneOK, TruncateDb
<1>11. CASE WriteDb
  BY <1>0, <1>11, EmptyLines, JobType DEF OneOK, WriteDb
<1>12. CASE Run \/ Record \/ Finish \/ \E f \in Paths : DeleteOne(f)
  BY <1>12 DEF OneOK, Run, Record, Finish, Copied, DeleteOne
<1>13. CASE Commit
  <2>1. db[job.id] = <<>>
    BY <1>13 DEF Commit, OneOK
  <2>2. Len(Append(<<>>, job.ver)) = 1
    BY <1>0, EmptySeq, AppendProperties
  <2>3. \A p \in Pkgs : Len(db'[p]) <= 1
    BY <1>0, <1>13, <2>1, <2>2 DEF Commit, OneOK
  <2>4. QED
    BY <1>13, <2>3, EmptyLines, JobType DEF Commit, End, OneOK
<1>14. ASSUME NEW e \in Entries,
              OpenCopy(e) \/ CopyOne(e) \/ OpenPromotion(e) \/ Promote(e)
       PROVE  OneOK'
  BY <1>14 DEF OneOK, CopyOne, OpenCopy, OpenPromotion, OpenTarget, Promote
<1>15. ASSUME NEW d \in Drawers, NEW v \in Versions \cup {0}, AdoptInventory(d, v)
       PROVE  OneOK'
  <2>1. CASE End
    BY <1>15, <2>1, OneEnd DEF AdoptInventory
  <2>2. CASE ~End
    BY <1>15, <2>2 DEF OneOK, AdoptInventory, Job, temp
  <2>3. QED
    BY <2>1, <2>2
<1>16. QED
  BY <1>1, <1>2, <1>3, <1>4, <1>5, <1>6, <1>7, <1>8, <1>9, <1>10, <1>11, <1>12, <1>13,
     <1>14, <1>15 DEF Next, Begin, Command, Step

\* As long as each inventory fits into one pass, power cuts and failures of
\* any kind leave installed.txt with at most one line for a package.  (The
\* removal of a larger package keeps its line, and the install that follows
\* in an upgrade appends another.)
THEOREM OneLineEach == Spec /\ []FitsOnePass => []OneLine
<1>1. Spec /\ []FitsOnePass => []OneOK
  BY TypeCorrect, OneInit, OneNext, PTL DEF Spec
<1>2. OneOK => OneLine
  BY DEF OneOK, OneLine
<1>3. QED
  BY <1>1, <1>2, PTL

(***************************************************************************)
(* What an archive may contain, for an install to leave the files it ships.*)
(***************************************************************************)
Copyable(p) == {e \in Entries : Generic(p) \/ e \in Match[p]}
Targets(p) == {Dest[p][e] : e \in Copyable(p)}
\* Two entries do not land on one path; no disk is full; the report of a
\* self-upgrade does not overflow.
OrderlyArchives ==
    /\ ~DiskFull
    /\ \A p \in Pkgs : \A e, g \in Copyable(p) : Dest[p][e] = Dest[p][g] => e = g
    /\ Generic(Self) \/ Cardinality(Targets(Self)) <= MaxRecord
RepairOK ==
    /\ pc = "copy" =>
           \A e \in (Ships[job.id][job.ver] \cap Matched(job.id)) \ todo :
               LET f == Dest[job.id][e] IN
               f \notin InUse => /\ disk[f] = <<job.id, job.ver>>
                                 /\ job.id = Self => f \in placed
    /\ pc = "copy" /\ ~Generic(job.id) => libs = {} /\ placed \subseteq Targets(job.id)
    /\ InstallRepairs

\* A recipe run has a record left for a target it has not reported.
LEMMA RecordLeft ==
    ASSUME NEW p \in Pkgs, NEW S \in SUBSET Targets(p), NEW f \in Targets(p) \ S,
           Cardinality(Targets(p)) <= MaxRecord
    PROVE  Cardinality(S) < MaxRecord
<1>1. Targets(p) \subseteq Paths
  BY ConstantsType DEF Targets, Copyable
<1>2. IsFiniteSet(Targets(p))
  BY <1>1, ConstantsType, FS_Subset
<1>3. S # Targets(p)
  OBVIOUS
<1>4. /\ Cardinality(S) \in Nat /\ Cardinality(Targets(p)) \in Nat
      /\ Cardinality(S) < Cardinality(Targets(p))
  BY <1>2, <1>3, FS_Subset, FS_CardinalityType
<1>5. QED
  BY <1>4, ConstantsType

\* What one copy reports of a package whose archive fits.
LEMMA CopyReported ==
    ASSUME TypeOK, NEW e \in Entries, CopyOne(e), MemoryOK,
           Generic(job.id) \/ Cardinality(Targets(job.id)) <= MaxRecord,
           ~Generic(job.id) => placed \subseteq Targets(job.id),
           Dest[job.id][e] \notin InUse
    PROVE  Dest[job.id][e] \in placed'
<1>1. job.id \in Pkgs
  BY DEF TypeOK, CommandTypeOK, Jobs
<1>2. PICK c \in File : PlaceAt(Dest[job.id][e], c) /\ Dest[job.id][e] \in Paths
  BY CopyPlacement
<1>3. /\ placed \subseteq placed'
      /\ Reported => Dest[job.id][e] \in placed'
  BY <1>2, Placement
<1>4. CASE Dest[job.id][e] \in placed
  BY <1>3, <1>4
<1>5. CASE ~Generic(job.id) /\ Dest[job.id][e] \notin placed
  <2>1. e \in Matched(job.id)
    BY DEF CopyOne, MemoryOK, Places
  <2>2. Dest[job.id][e] \in Targets(job.id) \ placed
    BY <1>5, <2>1 DEF Targets, Copyable, Matched
  <2>3. Cardinality(placed) < MaxRecord
    BY <1>1, <1>5, <2>2, RecordLeft
  <2>4. QED
    BY <1>3, <2>3 DEF Reported
<1>6. QED
  BY <1>3, <1>4, <1>5 DEF Reported

\* A recipe install only ever places targets of its recipe.
LEMMA CopyTargets ==
    ASSUME TypeOK, NEW e \in Entries, CopyOne(e), MemoryOK
    PROVE  placed' \subseteq placed \cup Targets(job.id)
<1>1. e \in Matched(job.id)
  BY DEF CopyOne, MemoryOK, Places
<1>2. Dest[job.id][e] \in Targets(job.id)
  BY <1>1 DEF Targets, Copyable, Matched
<1>3. QED
  BY <1>2, CopyPlacement, Placement

LEMMA RepairInit == Init => RepairOK
  BY DEF Init, RepairOK, InstallRepairs

LEMMA RepairNext ==
    ASSUME OrderlyArchives PROVE TypeOK /\ MemoryOK /\ RepairOK /\ [Next]_vars => RepairOK'
<1> SUFFICES ASSUME TypeOK, MemoryOK, RepairOK, [Next]_vars PROVE RepairOK'
  OBVIOUS
<1>0. job.id \in Pkgs /\ disk \in [Paths -> File] /\ lines \in Seq(Line)
  BY DEF TypeOK, StoreTypeOK, CommandTypeOK, Jobs
<1>1. CASE UNCHANGED vars
  BY <1>1 DEF RepairOK, InstallRepairs, Matched, vars, store, temp
<1>2. CASE Run
  BY <1>2 DEF Run, RepairOK, InstallRepairs, MemoryOK, Places, Matched
<1>3. ASSUME NEW e \in Entries, CopyOne(e) PROVE RepairOK'
  <2> DEFINE f == Dest[job.id][e]
  <2>1. PICK c \in File : c \in Outcomes(extract[e]) /\ PlaceAt(f, c) /\ f \in Paths
    BY <1>3, CopyPlacement
  <2>2. /\ pc = "copy" /\ pc' = pc /\ job' = job /\ todo' = todo \ {e}
        /\ extract' = extract /\ e \in todo
        /\ Generic(job.id) \/ libs' = libs
    BY <1>3 DEF CopyOne
  <2>3. /\ c = extract[e] /\ e \in Matched(job.id)
        /\ job.kind = "install" /\ job.ver \in Versions
    BY <2>1, <2>2 DEF OrderlyArchives, Outcomes, MemoryOK, Places
  <2>4. /\ placed \subseteq placed'
        /\ \A h \in Paths : disk'[h] = IF h = f /\ f \notin InUse THEN c ELSE disk[h]
    BY <2>1, Placement
  <2>5. ASSUME NEW g \in (Ships[job.id][job.ver] \cap Matched(job.id)) \ todo',
               Dest[job.id][g] \notin InUse
        PROVE  /\ disk'[Dest[job.id][g]] = <<job.id, job.ver>>
               /\ job.id = Self => Dest[job.id][g] \in placed'
    <3>1. CASE g = e
      <4>1. disk'[f] = <<job.id, job.ver>>
        BY <2>1, <2>3, <2>4, <2>5, <3>1 DEF MemoryOK, Places
      <4>2. job.id = Self => f \in placed'
        BY <1>3, <2>2, <2>5, <3>1, CopyReported DEF OrderlyArchives, RepairOK
      <4>3. QED
        BY <3>1, <4>1, <4>2
    <3>2. CASE g # e
      <4>1. g \in (Ships[job.id][job.ver] \cap Matched(job.id)) \ todo
        BY <2>2, <2>5, <3>2
      <4>2. /\ disk[Dest[job.id][g]] = <<job.id, job.ver>>
            /\ job.id = Self => Dest[job.id][g] \in placed
        BY <2>2, <2>5, <4>1 DEF RepairOK
      <4>3. e \in Copyable(job.id) /\ g \in Copyable(job.id) /\ Dest[job.id][g] \in Paths
        BY <1>0, <2>3, <4>1, ConstantsType DEF Copyable, Matched
      <4>4. Dest[job.id][g] # f
        BY <1>0, <3>2, <4>3 DEF OrderlyArchives
      <4>5. QED
        BY <2>4, <4>2, <4>3, <4>4
    <3>3. QED
      BY <3>1, <3>2
  <2>6. ~Generic(job.id) => libs' = {} /\ placed' \subseteq Targets(job.id)
    BY <1>3, <2>2, CopyTargets DEF RepairOK
  <2>7. QED
    BY <2>2, <2>5, <2>6 DEF RepairOK, InstallRepairs, Matched, Generic
<1>4. ASSUME NEW e \in Entries, Promote(e) PROVE RepairOK'
  <2>1. /\ pc = "copy" /\ pc' = pc /\ job' = job /\ todo' = todo /\ extract' = extract
        /\ e \in libs
    BY <1>4 DEF Promote
  <2>2. Generic(job.id)
    BY <2>1 DEF RepairOK
  <2>3. /\ placed \subseteq placed'
        /\ \A h \in Paths : disk[h] # Cut => disk'[h] = disk[h]
    BY <1>4, PromotePlacement, Placement
  <2>4. /\ job.kind = "install" /\ job.ver \in Versions /\ <<job.id, job.ver>> # Cut
    BY <1>0, <2>1, MarkersAreNoContents DEF MemoryOK, Places, Content
  <2>5. \A g \in Matched(job.id) : Dest[job.id][g] \in Paths
    BY <1>0, ConstantsType DEF Matched
  <2>6. QED
    BY <2>1, <2>2, <2>3, <2>4, <2>5 DEF RepairOK, InstallRepairs, Matched, Generic
<1>5. CASE Record
  BY <1>5 DEF Record, RepairOK, InstallRepairs, Matched, Generic
<1>6. CASE Finish
  <2>1. /\ pc = "copy" /\ pc' = "commit" /\ todo = {} /\ job' = job /\ extract' = extract
        /\ \A h \in Paths : h \in placed \/ job.id # Self => disk'[h] = disk[h]
    BY <1>6 DEF Finish, Copied, Prunable
  <2>2. \A g \in Matched(job.id) : Dest[job.id][g] \in Paths
    BY <1>0, ConstantsType DEF Matched
  <2>3. QED
    BY <2>1, <2>2 DEF RepairOK, InstallRepairs, Matched
<1>7. ASSUME NEW d \in Drawers, NEW v \in Versions \cup {0}, AdoptInventory(d, v)
      PROVE  RepairOK'
  BY <1>7 DEF AdoptInventory, End, Job, RepairOK, InstallRepairs
<1>8. ASSUME NEW e \in Entries, OpenCopy(e) \/ OpenPromotion(e) PROVE RepairOK'
  <2>1. OpenedAt(e)
    BY <1>8, Opening
  <2>2. PICK f \in Paths : /\ disk' = [disk EXCEPT ![f] = Cut]
                         /\ \/ e \in todo /\ f = Dest[job.id][e]
                            \/ disk[f] = None
    BY <2>1 DEF OpenedAt
  <2>3. /\ pc = "copy" /\ pc' = pc /\ job' = job /\ todo' = todo /\ libs' = libs
        /\ placed' = placed /\ extract' = extract
    BY <2>1 DEF OpenedAt
  <2>4. job.kind = "install" /\ job.ver \in Versions /\ <<job.id, job.ver>> # None
    BY <1>0, <2>3, MarkersAreNoContents DEF MemoryOK, Places, Content
  <2>5. ASSUME NEW g \in (Ships[job.id][job.ver] \cap Matched(job.id)) \ todo,
               Dest[job.id][g] \notin InUse
        PROVE  disk'[Dest[job.id][g]] = disk[Dest[job.id][g]]
    <3>1. Dest[job.id][g] \in Paths /\ g \in Copyable(job.id)
      BY <1>0, <2>5, ConstantsType DEF Matched, Copyable
    <3>2. disk[Dest[job.id][g]] # None
      BY <2>3, <2>4, <2>5 DEF RepairOK
    <3>3. e \in todo => e \in Copyable(job.id)
      BY <2>3 DEF MemoryOK, Matched, Copyable
    <3>4. Dest[job.id][g] # f
      BY <1>0, <2>2, <2>5, <3>1, <3>2, <3>3 DEF OrderlyArchives
    <3>5. QED
      BY <1>0, <2>2, <3>1, <3>4
  <2>6. QED
    BY <2>3, <2>5 DEF RepairOK, InstallRepairs, Matched, Generic
<1>9. QED
  BY <1>1, <1>2, <1>3, <1>4, <1>5, <1>6, <1>7, <1>8, IntoCommit DEF RepairOK, InstallRepairs

\* For archives whose entries land on paths of their own, on a disk with
\* room: when an install commits, every file its archive ships is on disk
\* with the archive's content, unless another program held it open; the
\* clean-up of a self-upgrade takes none of them away.
THEOREM InstallsRepair == ASSUME OrderlyArchives PROVE Spec => []InstallRepairs
<1>1. TypeOK /\ MemoryOK /\ RepairOK /\ [Next]_vars => RepairOK'
  BY RepairNext
<1>2. Spec => []RepairOK
  BY <1>1, MemoryAlways, RepairInit, PTL DEF Spec
<1>3. RepairOK => InstallRepairs
  BY DEF RepairOK
<1>4. QED
  BY <1>2, <1>3, PTL

(***************************************************************************)
(* Only amipkg itself ships the amipkg binary, in every version, and no    *)
(* drawer the user adopts holds it.                                        *)
(***************************************************************************)
SelfEntries == {e \in Copyable(Self) : Dest[Self][e] = SelfBin}
SelfContained ==
    /\ ~DiskFull
    /\ SelfEntries # {} /\ \A v \in Versions : SelfEntries \subseteq Ships[Self][v]
    /\ \A p \in Pkgs \ {Self} : SelfBin \notin Targets(p)
    /\ \A d \in Drawers : SelfBin \notin d
    /\ Generic(Self) \/ Cardinality(Targets(Self)) <= MaxRecord
BinaryThere == disk[SelfBin] \in {Self} \X Versions
\* No receipt but amipkg's own lists it ...
Unclaimed ==
    /\ \A p \in Pkgs \ {Self} : SelfBin \notin PathsOf(inv[p])
    /\ job.id # Self => SelfBin \notin PathsOf(lines)
\* ... the removal of another package's old version does not choose it ...
NotChosen == job.kind = "install" /\ pc = "delete" => SelfBin \notin doomed
\* ... and once a copy has passed it the clean-up will leave it alone.
Renewed ==
    pc = "copy" /\ job.id = Self =>
        /\ \A e \in SelfEntries \ todo : SelfBin \in placed \cup InUse
        /\ ~Generic(Self) => libs = {} /\ placed \subseteq Targets(Self)
SelfOK ==
    /\ job.kind \in {"install", "start"} \/ pc = "ready" => WritingBinary \/ BinaryThere
    /\ Unclaimed /\ NotChosen /\ Renewed

\* One pass and what it leaves are together the inventory.
LEMMA PathsOfPasses ==
    ASSUME TypeOK, NEW p \in Pkgs
    PROVE  PathsOf(inv[p]) = PathsOf(Loaded(p)) \cup PathsOf(Unprocessed(p))
<1> DEFINE n == Len(inv[p])
           k == IF n < MaxFiles THEN n ELSE MaxFiles
<1>1. /\ inv[p] \in Seq(Line) /\ n \in Nat /\ DOMAIN inv[p] = 1..n
      /\ \A i \in 1..n : inv[p][i] \in Line
  <2>1. inv[p] \in Seq(Line)
    BY DEF TypeOK, StoreTypeOK
  <2>2. QED
    BY <2>1, LenProperties, ElementOfSeq
<1>2. k \in 0..n /\ MaxFiles \in Nat /\ (k = MaxFiles \/ (k = n /\ n < MaxFiles))
  BY <1>1, ConstantsType
<1>3. Loaded(p) = SubSeq(inv[p], 1, k) /\ Unprocessed(p) = SubSeq(inv[p], MaxFiles + 1, n)
  BY DEF Loaded, Unprocessed
<1> HIDE DEF n, k
<1>4. /\ DOMAIN Loaded(p) = 1..k
      /\ \A i \in 1..k : Loaded(p)[i] = inv[p][i]
  <2>1. CASE k = 0
    <3>1. Len(Loaded(p)) = 0 /\ Loaded(p) \in Seq(Line)
      BY <1>1, <1>2, <1>3, <2>1, SubSeqProperties
    <3>2. QED
      BY <2>1, <3>1, LenProperties
  <2>2. CASE k # 0
    <3>1. k - 1 + 1 = k /\ 1 <= k /\ \A i \in 1..k : 1 + i - 1 = i /\ inv[p][i] \in Line
      BY <1>1, <1>2, <2>2
    <3>2. /\ Loaded(p) \in Seq(Line) /\ Len(Loaded(p)) = k
          /\ \A i \in 1..k : Loaded(p)[i] = inv[p][i]
      BY <1>1, <1>2, <1>3, <3>1, SubSeqProperties
    <3>3. QED
      BY <3>2, LenProperties
  <2>3. QED
    BY <2>1, <2>2
<1>5. CASE n <= MaxFiles
  <2>1. k = n
    BY <1>1, <1>2, <1>5
  <2>2. Len(Unprocessed(p)) = 0 /\ Unprocessed(p) \in Seq(Line)
    BY <1>1, <1>2, <1>3, <1>5, SubSeqProperties
  <2>3. DOMAIN Unprocessed(p) = {}
    BY <2>2, LenProperties
  <2>4. QED
    BY <1>1, <1>4, <2>1, <2>3 DEF PathsOf
<1>6. CASE n > MaxFiles
  <2>1. k = MaxFiles
    BY <1>1, <1>2, <1>6
  <2>2. /\ n - (MaxFiles + 1) + 1 = n - MaxFiles /\ MaxFiles + 1 <= n
        /\ \A i \in 1..n - MaxFiles : (MaxFiles + 1) + i - 1 = MaxFiles + i
    BY <1>1, <1>2, <1>6
  <2>3. /\ Unprocessed(p) \in Seq(Line) /\ Len(Unprocessed(p)) = n - MaxFiles
        /\ \A i \in 1..n - MaxFiles : Unprocessed(p)[i] = inv[p][MaxFiles + i]
    BY <1>1, <1>2, <1>3, <2>2, SubSeqProperties
  <2>4. DOMAIN Unprocessed(p) = 1..n - MaxFiles
    BY <2>3, LenProperties
  <2>5. ASSUME NEW i \in 1..n
        PROVE  inv[p][i].path \in PathsOf(Loaded(p)) \cup PathsOf(Unprocessed(p))
    <3>1. CASE i <= MaxFiles
      BY <1>2, <1>4, <2>1, <3>1 DEF PathsOf
    <3>2. CASE i > MaxFiles
      <4>1. i - MaxFiles \in 1..n - MaxFiles /\ MaxFiles + (i - MaxFiles) = i
        BY <1>1, <1>2, <3>2
      <4>2. Unprocessed(p)[i - MaxFiles] = inv[p][i]
        BY <2>3, <4>1
      <4>3. QED
        BY <2>4, <4>1, <4>2 DEF PathsOf
    <3>3. QED
      BY <1>1, <1>2, <3>1, <3>2
  <2>6. ASSUME NEW i \in 1..n - MaxFiles PROVE Unprocessed(p)[i].path \in PathsOf(inv[p])
    <3>1. MaxFiles + i \in 1..n
      BY <1>1, <1>2
    <3>2. QED
      BY <1>1, <2>3, <3>1 DEF PathsOf
  <2>7. ASSUME NEW i \in 1..k PROVE Loaded(p)[i].path \in PathsOf(inv[p])
    BY <1>1, <1>2, <1>4 DEF PathsOf
  <2>8. PathsOf(inv[p]) = {inv[p][i].path : i \in 1..n}
    BY <1>1 DEF PathsOf
  <2>9. PathsOf(Unprocessed(p)) = {Unprocessed(p)[i].path : i \in 1..n - MaxFiles}
    BY <2>4 DEF PathsOf
  <2>10. PathsOf(Loaded(p)) = {Loaded(p)[i].path : i \in 1..k}
    BY <1>4 DEF PathsOf
  <2>11. QED
    BY <2>5, <2>6, <2>7, <2>8, <2>9, <2>10
<1>7. QED
  BY <1>1, <1>2, <1>5, <1>6

\* A listing mentions only the paths it lists.
LEMMA ListedPaths ==
    ASSUME NEW F \in SUBSET Paths, NEW d \in [F -> File]
    PROVE  PathsOf(SetToSeq({[path |-> f, digest |-> d[f]] : f \in F})) \subseteq F
<1> DEFINE g == [f \in F |-> [path |-> f, digest |-> d[f]]]
           S == {[path |-> f, digest |-> d[f]] : f \in F}
<1>1. g \in [F -> Line] /\ S = {g[f] : f \in F}
  BY DEF Line
<1>2. IsFiniteSet(F)
  BY ConstantsType, FS_Subset
<1>3. \A l \in S : l.path \in F
  OBVIOUS
<1> HIDE DEF S, g
<1>4. IsFiniteSet(S)
  BY <1>1, <1>2, FiniteImage
<1>5. SetToSeq(S) \in Seq(S)
  BY <1>4, ListingType
<1>6. \A i \in DOMAIN SetToSeq(S) : SetToSeq(S)[i] \in S
  BY <1>5, LenProperties, ElementOfSeq
<1>7. PathsOf(SetToSeq(S)) \subseteq F
  BY <1>3, <1>6 DEF PathsOf
<1>8. QED
  BY <1>7 DEF S

LEMMA SelfInit == Init => SelfOK
<1> SUFFICES ASSUME Init PROVE SelfOK
  OBVIOUS
<1>1. job.kind = "none" /\ job.id = Self /\ pc = "off"
  BY JobType DEF Init, NoJob, Job
<1>2. \A p \in Pkgs : PathsOf(inv[p]) = {}
  BY DEF Init, Empty, PathsOf
<1>3. QED
  BY <1>1, <1>2 DEF SelfOK, Unclaimed, NotChosen, Renewed

\* Only a self-upgrade writes the binary.
LEMMA WritesOwnBinary ==
    ASSUME SelfContained, TypeOK, MemoryOK, WritingBinary
    PROVE  /\ pc = "copy" /\ job.kind = "install" /\ job.id = Self
           /\ writing \in SelfEntries
<1>1. writing \in todo /\ Dest[job.id][writing] = SelfBin /\ writing # None
  BY MarkersAreNoContents DEF WritingBinary, TypeOK, CommandTypeOK
<1>2. pc = "copy" /\ job.kind = "install" /\ job.id \in Pkgs
  BY <1>1 DEF MemoryOK, HalfWritten, Places, TypeOK, CommandTypeOK, Jobs
<1>3. writing \in Copyable(job.id)
  BY <1>1, <1>2 DEF MemoryOK, Matched, Copyable
<1>4. job.id = Self
  BY <1>1, <1>2, <1>3 DEF SelfContained, Targets
<1>5. QED
  BY <1>1, <1>2, <1>3, <1>4 DEF SelfEntries

\* What a copy does to the binary: it is there afterwards, unless the copy has
\* just emptied it to write it.
LEMMA CopyLeavesBinary ==
    ASSUME SelfContained, TypeOK, MemoryOK, WritingBinary \/ BinaryThere,
           NEW e \in Entries, CopyOne(e) \/ Promote(e)
    PROVE  /\ BinaryThere'
           /\ job.id # Self /\ SelfBin \notin PathsOf(lines) => SelfBin \notin PathsOf(lines')
<1>0. /\ job.id \in Pkgs /\ SelfBin \in Paths /\ Self \in Pkgs
      /\ BinaryThere => disk[SelfBin] \in {Self} \X Versions /\ disk[SelfBin] # Cut
  BY ConstantsType, MarkersAreNoContents
     DEF TypeOK, CommandTypeOK, Jobs, BinaryThere, Content
<1>1. CASE CopyOne(e)
  <2> DEFINE f == Dest[job.id][e]
  <2>1. PICK c \in File : c \in Outcomes(extract[e]) /\ PlaceAt(f, c) /\ f \in Paths
    BY <1>1, CopyPlacement
  <2>2. /\ PathsOf(lines') \subseteq PathsOf(lines) \cup {f}
        /\ disk'[SelfBin] = IF SelfBin = f /\ f \notin InUse THEN c ELSE disk[SelfBin]
    BY <1>0, <2>1, Placement
  <2>3. /\ e \in Copyable(job.id) /\ job.kind = "install" /\ job.ver \in Versions
        /\ writing = IF f \in InUse THEN None ELSE e
    BY <1>1 DEF CopyOne, MemoryOK, Places, Matched, Copyable
  <2>4. job.id # Self => f # SelfBin
    BY <1>0, <2>3 DEF SelfContained, Targets
  <2>5. f = SelfBin => c \in {Self} \X Versions
    <3>1. SUFFICES ASSUME f = SelfBin PROVE c \in {Self} \X Versions
      OBVIOUS
    <3>2. e \in Ships[Self][job.ver] /\ job.id = Self
      BY <2>3, <2>4, <3>1 DEF SelfContained, SelfEntries
    <3>3. c = extract[e] /\ extract[e] = <<Self, job.ver>>
      BY <2>1, <2>3, <3>2 DEF SelfContained, Outcomes, MemoryOK, Places
    <3>4. QED
      BY <2>3, <3>3
  <2>6. WritingBinary => f = SelfBin /\ f \notin InUse
    BY <2>3, MarkersAreNoContents DEF WritingBinary, TypeOK, CommandTypeOK
  <2>7. QED
    BY <1>0, <2>2, <2>4, <2>5, <2>6 DEF BinaryThere
<1>2. CASE Promote(e)
  <2>0. BinaryThere
    BY <1>2 DEF Promote, WritingBinary
  <2>1. CASE UNCHANGED <<disk, placed, lines>>
    BY <1>0, <2>0, <2>1 DEF BinaryThere, PathsOf
  <2>2. CASE disk[LibOf[e]] = Cut /\ \E c \in File : PlaceAt(LibOf[e], c)
    <3>1. LibOf[e] # SelfBin /\ LibOf[e] \in Paths
      BY <1>0, <1>2, <2>0, <2>2, PromotePlacement
    <3>2. /\ PathsOf(lines') \subseteq PathsOf(lines) \cup {LibOf[e]}
          /\ disk'[SelfBin] = disk[SelfBin]
      BY <1>0, <2>2, <3>1, Placement
    <3>3. QED
      BY <1>0, <2>0, <3>1, <3>2 DEF BinaryThere
  <2>3. QED
    BY <1>2, <2>1, <2>2, PromotePlacement
<1>3. QED
  BY <1>1, <1>2

LEMMA OpenLeavesBinary ==
    ASSUME SelfContained, TypeOK, MemoryOK, BinaryThere, NEW e \in Entries,
           OpenCopy(e) \/ OpenPromotion(e)
    PROVE  WritingBinary' \/ BinaryThere'
<1>0. /\ SelfBin \in Paths /\ disk \in [Paths -> File] /\ disk[SelfBin] # None
  BY ConstantsType, MarkersAreNoContents DEF TypeOK, StoreTypeOK, BinaryThere, Content
<1>1. OpenedAt(e)
  BY Opening
<1>2. PICK f \in Paths : /\ disk' = [disk EXCEPT ![f] = Cut]
                       /\ \/ e \in todo /\ f = Dest[job.id][e]
                          \/ disk[f] = None
  BY <1>1 DEF OpenedAt
<1>3. CASE f # SelfBin
  BY <1>0, <1>2, <1>3 DEF BinaryThere
<1>4. CASE f = SelfBin
  BY <1>0, <1>1, <1>2, <1>4 DEF OpenedAt, WritingBinary
<1>5. QED
  BY <1>3, <1>4

\* Which steps change the disk at all.
LEMMA DiskSteps ==
    ASSUME [Next]_vars, disk' # disk
    PROVE  \/ \E f \in Paths : DeleteOne(f)
           \/ \E e \in Entries : OpenCopy(e) \/ CopyOne(e) \/ OpenPromotion(e) \/ Promote(e)
           \/ \E f \in Paths, c \in {Edited, None} : UserWrites(f, c)
           \/ Finish
  BY DEF Next, vars, store, World, Begin, Command, Step, Crash, Publish, Start, StartUnrecorded,
         StartOutdated, ExtractFails, Extract, Adopt, CmdRemove, Seed, Forget, Classify,
         KeepTail, RenameTail, TruncateDb, WriteDb, DropInventory, StripOverlay, Run, Record,
         NothingInstalled, RecipeRefuses, Commit, AdoptFails, AdoptInventory

\* A command comes to install, or to start, only over the binary.
LEMMA BinaryBefore ==
    ASSUME TypeOK, MemoryOK, SelfOK, [Next]_vars, ~WritingBinary,
           job'.kind \in {"install", "start"} \/ pc' = "ready"
    PROVE  BinaryThere /\ (disk' # disk => job.kind = "install")
<1>0. NoJob.kind = "none" /\ StartJob.kind = "start"
  BY JobType
<1>1. CASE UNCHANGED vars
  BY <1>1 DEF vars, store, SelfOK
<1>2. CASE World
  BY <1>2 DEF World, Publish, UserWrites, Idle, MemoryOK, Places
<1>3. CASE Begin
  BY <1>3 DEF Begin, Start, StartUnrecorded, StartOutdated, CanStart, BinaryThere, store
<1>4. CASE Crash
  BY <1>0, <1>4 DEF Crash, End
<1>5. CASE Command
  <2>1. pc = "ready" /\ disk' = disk
    BY <1>5 DEF Command, ExtractFails, Extract, Adopt, CmdRemove, store
  <2>2. QED
    BY <2>1 DEF SelfOK
<1>6. CASE Step /\ End
  BY <1>0, <1>6 DEF End
<1>7. CASE Seed \/ WriteDb
  BY <1>0, <1>7 DEF Seed, WriteDb, MemoryOK, Places, SelfOK
<1>8. CASE Step /\ ~End /\ ~Seed /\ ~WriteDb
  <2>1. CASE \E d \in Drawers, v \in Versions \cup {0} : AdoptInventory(d, v)
    BY <1>8, <2>1 DEF AdoptInventory, Job
  <2>2. CASE job' = job /\ pc' # "ready" /\ pc # "off"
    <3>1. job.kind = "start" => pc \notin {"run", "copy"}
      BY DEF MemoryOK, Places
    <3>2. ASSUME disk' # disk PROVE pc \in {"delete", "run", "copy"}
      BY <1>8, <2>2, <3>2, DiskSteps DEF DeleteOne, CopyOne, OpenCopy, OpenPromotion, OpenTarget, Promote, UserWrites, Finish, Idle, Copied
    <3>3. job.kind = "start" => pc # "delete"
      BY DEF MemoryOK, Places
    <3>4. QED
      BY <2>2, <3>1, <3>2, <3>3 DEF SelfOK
  <2>3. \/ job' = job /\ pc' # "ready" /\ pc # "off"
        \/ \E d \in Drawers, v \in Versions \cup {0} : AdoptInventory(d, v)
    BY <1>8 DEF Step, Forget, Classify, KeepTail, RenameTail, TruncateDb, DropInventory,
         StripOverlay, ReturnFromRemove, Run, Record, NothingInstalled, RecipeRefuses, Finish,
         Copied, Commit, AdoptFails, DeleteOne, CopyOne, OpenCopy, OpenPromotion, OpenTarget, Promote
  <2>4. QED
    BY <2>1, <2>2, <2>3
<1>9. QED
  BY <1>1, <1>2, <1>3, <1>4, <1>5, <1>6, <1>7, <1>8 DEF Next

\* While the binary is written nothing but the copy of it goes on.
LEMMA WhileWriting ==
    ASSUME WritingBinary, pc = "copy", writing # None, [Next]_vars
    PROVE  \/ UNCHANGED vars \/ Crash
           \/ \E e \in Entries : CopyOne(e)
<1>1. todo # {}
  BY DEF WritingBinary
<1>2. ~World /\ ~Begin /\ ~Command
  BY DEF World, Publish, UserWrites, Begin, Start, StartUnrecorded, StartOutdated, CanStart,
         Idle, Command, ExtractFails, Extract, Adopt, CmdRemove
<1>3. Step => \E e \in Entries : CopyOne(e)
  BY <1>1
     DEF Step, Seed, Forget, Classify, KeepTail, RenameTail, TruncateDb, WriteDb,
         DropInventory, StripOverlay, Run, Record, OpenCopy, OpenPromotion, OpenTarget,
         Promote, Finish, Copied, DeleteOne, NothingInstalled, RecipeRefuses, Commit,
         AdoptFails, AdoptInventory
<1>4. QED
  BY <1>2, <1>3 DEF Next

LEMMA BinaryNext ==
    ASSUME SelfContained, TypeOK, MemoryOK, SelfOK, [Next]_vars,
           job'.kind \in {"install", "start"} \/ pc' = "ready"
    PROVE  WritingBinary' \/ BinaryThere'
<1>0. CASE WritingBinary
  <2>1. pc = "copy" /\ writing # None
    BY <1>0, WritesOwnBinary, MarkersAreNoContents DEF SelfEntries, Copyable
  <2>2. CASE UNCHANGED vars
    BY <1>0, <2>2 DEF WritingBinary, vars, temp
  <2>3. ~Crash
    BY JobType DEF Crash, End
  <2>4. ASSUME NEW e \in Entries, CopyOne(e) PROVE BinaryThere'
    BY <1>0, <2>4, CopyLeavesBinary
  <2>5. QED
    BY <1>0, <2>1, <2>2, <2>3, <2>4, WhileWriting
<1> SUFFICES ASSUME ~WritingBinary PROVE WritingBinary' \/ BinaryThere'
  BY <1>0
<1>1. BinaryThere /\ (disk' # disk => job.kind = "install")
  BY BinaryBefore
<1>2. SelfBin \in Paths /\ disk \in [Paths -> File]
  BY ConstantsType DEF TypeOK, StoreTypeOK
<1>3. CASE disk' = disk
  BY <1>1, <1>3 DEF BinaryThere
<1>4. ASSUME disk' # disk, NEW f \in Paths, DeleteOne(f) PROVE BinaryThere'
  <2>1. f # SelfBin
    BY <1>1, <1>4 DEF DeleteOne, SelfOK, NotChosen
  <2>2. QED
    BY <1>1, <1>2, <1>4, <2>1 DEF DeleteOne, BinaryThere
<1>5. ASSUME NEW e \in Entries, CopyOne(e) \/ Promote(e) PROVE BinaryThere'
  BY <1>1, <1>5, CopyLeavesBinary
<1>6. CASE Finish
  <2>1. job.id = Self => SelfBin \in placed \cup InUse
    BY <1>6 DEF Finish, Copied, SelfContained, SelfOK, Renewed
  <2>2. disk'[SelfBin] = disk[SelfBin]
    BY <1>2, <1>6, <2>1 DEF Finish, Prunable
  <2>3. QED
    BY <1>1, <2>2 DEF BinaryThere
<1>7. ASSUME disk' # disk, NEW f \in Paths, NEW c \in {Edited, None}, UserWrites(f, c) PROVE FALSE
  BY <1>1, <1>7 DEF UserWrites, Idle, MemoryOK, Places
<1>8. ASSUME NEW e \in Entries, OpenCopy(e) \/ OpenPromotion(e)
      PROVE  WritingBinary' \/ BinaryThere'
  BY <1>1, <1>8, OpenLeavesBinary
<1>9. QED
  BY <1>3, <1>4, <1>5, <1>6, <1>7, <1>8, DiskSteps

\* Which steps change an inventory.
LEMMA InventorySteps ==
    ASSUME [Next]_vars, inv' # inv
    PROVE  \/ Seed \/ Forget \/ KeepTail \/ RenameTail \/ DropInventory \/ Record
           \/ \E d \in Drawers, v \in Versions \cup {0} : AdoptInventory(d, v)
  BY DEF Next, vars, store, World, Publish, UserWrites, Begin, Command, Step, Crash, Start,
         StartUnrecorded, StartOutdated, ExtractFails, Extract, Adopt, CmdRemove, Classify,
         TruncateDb, WriteDb, StripOverlay, Run, CopyOne, OpenCopy, OpenPromotion, OpenTarget, Promote, DeleteOne, Finish,
         NothingInstalled, RecipeRefuses, Commit, AdoptFails

\* Which steps leave lines in memory.
LEMMA LineSteps ==
    ASSUME [Next]_vars, pc' \in {"copy", "tail"}
    PROVE  /\ job' = job
           /\ \/ lines' = lines \/ KeepTail \/ Record
              \/ \E e \in Entries : OpenCopy(e) \/ CopyOne(e) \/ OpenPromotion(e) \/ Promote(e)
  BY DEF Next, vars, store, temp, World, Publish, UserWrites, Begin, Command, Step, Crash,
         Start, CanStart, StartUnrecorded, StartOutdated, ExtractFails, Extract, AfterExtract,
         Adopt, CmdRemove, Seed, Forget, Classify, RenameTail, ReturnFromRemove, TruncateDb,
         WriteDb, DropInventory, StripOverlay, Run, DeleteOne, Finish, NothingInstalled,
         RecipeRefuses, Commit, AdoptFails, AdoptInventory, KeepTail, Record, CopyOne, OpenCopy, OpenPromotion, OpenTarget,
         Promote, End, Idle

\* A drawer without the binary is listed without it.
LEMMA AdoptedPaths ==
    ASSUME TypeOK, NEW d \in Drawers, NEW v \in Versions \cup {0}, AdoptInventory(d, v)
    PROVE  PathsOf(inv'[job.id]) \subseteq d
<1> DEFINE F == {f \in d : disk[f] # None /\ ~(job.id = Self /\ f \in Runtime)}
           g == [f \in F |-> disk[f]]
<1>1. F \in SUBSET Paths /\ g \in [F -> File] /\ job.id \in Pkgs
  BY ConstantsType DEF TypeOK, StoreTypeOK, CommandTypeOK, Jobs
<1>2. {[path |-> f, digest |-> g[f]] : f \in F} = {[path |-> f, digest |-> disk[f]] : f \in F}
  OBVIOUS
<1>3. inv'[job.id] = SetToSeq({[path |-> f, digest |-> disk[f]] : f \in F})
  BY <1>1 DEF AdoptInventory, TypeOK, StoreTypeOK
<1>4. PathsOf(SetToSeq({[path |-> f, digest |-> g[f]] : f \in F})) \subseteq F
  BY <1>1, ListedPaths
<1>5. QED
  BY <1>2, <1>3, <1>4

\* No step brings the binary into another package's receipt.
LEMMA UnclaimedNext ==
    ASSUME SelfContained, TypeOK, MemoryOK, SelfOK, [Next]_vars
    PROVE  Unclaimed'
<1>0. /\ job.id \in Pkgs /\ inv \in [Pkgs -> Seq(Line)] /\ lines \in Seq(Line)
      /\ PathsOf(<<>>) = {} /\ Unclaimed
  BY DEF TypeOK, StoreTypeOK, CommandTypeOK, Jobs, SelfOK, PathsOf
<1>1. ASSUME Record
      PROVE  /\ PathsOf(inv'[job.id]) = PathsOf(inv[job.id]) \cup {Head(lines).path}
             /\ PathsOf(lines) = {Head(lines).path} \cup PathsOf(lines')
  <2>1. /\ lines # <<>> /\ inv'[job.id] = Append(inv[job.id], Head(lines))
        /\ lines' = Tail(lines) /\ inv[job.id] \in Seq(Line)
    BY <1>0, <1>1 DEF Record
  <2>2. QED
    BY <1>0, <2>1, PathsOfAppend, PathsOfTail
<1>2. ASSUME NEW p \in Pkgs \ {Self} PROVE SelfBin \notin PathsOf(inv'[p])
  <2>0. SelfBin \notin PathsOf(inv[p])
    BY <1>0 DEF Unclaimed
  <2>1. CASE inv'[p] = inv[p] \/ inv'[p] = <<>>
    BY <1>0, <2>0, <2>1
  <2>2. CASE RenameTail
    BY <1>0, <2>0, <2>2 DEF RenameTail, Unclaimed
  <2>3. CASE Record
    BY <1>0, <1>1, <2>0, <2>3 DEF Record, Unclaimed
  <2>4. ASSUME NEW d \in Drawers, NEW v \in Versions \cup {0}, AdoptInventory(d, v)
        PROVE  SelfBin \notin PathsOf(inv'[p])
    <3>1. CASE p = job.id
      BY <2>4, <3>1, AdoptedPaths DEF SelfContained
    <3>2. CASE p # job.id
      BY <1>0, <2>0, <2>4, <3>2 DEF AdoptInventory
    <3>3. QED
      BY <3>1, <3>2
  <2>5. CASE Seed \/ Forget \/ KeepTail \/ DropInventory
    BY <1>0, <2>1, <2>5, ConstantsType DEF Seed, Forget, KeepTail, DropInventory
  <2>6. QED
    BY <2>1, <2>2, <2>3, <2>4, <2>5, InventorySteps
<1>3. ASSUME job'.id # Self PROVE SelfBin \notin PathsOf(lines')
  <2>1. CASE pc' \notin {"copy", "tail"}
    <3>1. lines' = <<>>
      BY <2>1, MemoryNext DEF MemoryOK, Places
    <3>2. QED
      BY <1>0, <3>1
  <2>2. CASE pc' \in {"copy", "tail"}
    <3>1. job' = job /\ SelfBin \notin PathsOf(lines)
      BY <1>0, <1>3, <2>2, LineSteps DEF Unclaimed
    <3>2. CASE KeepTail
      BY <1>0, <1>3, <3>1, <3>2, PathsOfPasses DEF KeepTail, Unclaimed
    <3>3. CASE Record
      BY <1>1, <3>1, <3>3
    <3>4. ASSUME NEW e \in Entries, CopyOne(e) \/ Promote(e) PROVE SelfBin \notin PathsOf(lines')
      <4>1. WritingBinary \/ BinaryThere
        BY <3>4 DEF CopyOne, Promote, MemoryOK, Places, SelfOK
      <4>2. QED
        BY <1>3, <3>1, <3>4, <4>1, CopyLeavesBinary
    <3>5. ASSUME NEW e \in Entries, OpenCopy(e) \/ OpenPromotion(e) PROVE lines' = lines
      BY <3>5 DEF OpenCopy, OpenPromotion, OpenTarget
    <3>6. QED
      BY <1>0, <2>2, <3>1, <3>2, <3>3, <3>4, <3>5, LineSteps
  <2>3. QED
    BY <2>1, <2>2
<1>4. QED
  BY <1>2, <1>3 DEF Unclaimed

\* Which steps reach or stay in the second pass of a removal.
LEMMA IntoDelete ==
    ASSUME [Next]_vars, pc' = "delete"
    PROVE  UNCHANGED vars \/ Classify \/ \E f \in Paths : DeleteOne(f)
<1>1. ~World /\ ~Begin /\ ~Crash
  BY DEF World, Publish, UserWrites, Begin, Start, StartUnrecorded, StartOutdated, Crash, End,
         Idle
<1>2. ~Command
  BY DEF Command, ExtractFails, Extract, AfterExtract, End, Adopt, CmdRemove
<1>3. ASSUME Step PROVE Classify \/ \E f \in Paths : DeleteOne(f)
  BY <1>3
     DEF Step, Seed, Forget, KeepTail, RenameTail, ReturnFromRemove, TruncateDb, WriteDb,
         DropInventory, StripOverlay, Run, Record, CopyOne, OpenCopy, OpenPromotion, OpenTarget, Promote, Finish, Copied,
         NothingInstalled, RecipeRefuses, Commit, AdoptFails, AdoptInventory, End
<1>4. QED
  BY <1>1, <1>2, <1>3 DEF Next

LEMMA NotChosenNext ==
    ASSUME TypeOK, MemoryOK, SelfOK, [Next]_vars PROVE NotChosen'
<1> SUFFICES ASSUME job'.kind = "install", pc' = "delete" PROVE SelfBin \notin doomed'
  BY DEF NotChosen
<1>0. job.id \in Pkgs /\ NotChosen /\ Unclaimed
  BY DEF TypeOK, CommandTypeOK, Jobs, SelfOK
<1>1. CASE UNCHANGED vars
  BY <1>0, <1>1 DEF NotChosen, vars, temp
<1>2. CASE Classify
  <2>1. job' = job /\ job.id # Self /\ doomed' = Doomed(job.id)
    BY <1>2 DEF Classify, End, MemoryOK, Places
  <2>2. Doomed(job.id) \subseteq PathsOf(inv[job.id])
    BY <1>0, PathsOfPasses DEF Doomed
  <2>3. QED
    BY <1>0, <2>1, <2>2 DEF Unclaimed
<1>3. ASSUME NEW f \in Paths, DeleteOne(f) PROVE SelfBin \notin doomed'
  BY <1>0, <1>3 DEF DeleteOne, NotChosen
<1>4. \/ UNCHANGED vars \/ Classify
      \/ \E f \in Paths : DeleteOne(f)
  BY IntoDelete
<1>5. QED
  BY <1>1, <1>2, <1>3, <1>4

LEMMA RenewedNext ==
    ASSUME SelfContained, TypeOK, MemoryOK, SelfOK, [Next]_vars PROVE Renewed'
<1> SUFFICES ASSUME pc' = "copy", job'.id = Self
             PROVE  /\ \A e \in SelfEntries \ todo' : SelfBin \in placed' \cup InUse
                    /\ ~Generic(Self) => libs' = {} /\ placed' \subseteq Targets(Self)
  BY DEF Renewed
<1>0. job' = job /\ job.id = Self /\ Renewed /\ Self \in Pkgs
  BY LineSteps, ConstantsType DEF SelfOK
<1>1. CASE UNCHANGED vars
  BY <1>0, <1>1 DEF Renewed, vars, temp
<1>2. CASE Run
  <2>1. job.kind = "install" /\ job.ver \in Versions /\ placed = {} /\ libs = {}
    BY <1>2 DEF Run, MemoryOK, Places
  <2>2. <<Self, job.ver>> # None
    BY <1>0, <2>1, MarkersAreNoContents DEF Content
  <2>3. \A e \in SelfEntries : extract[e] = <<Self, job.ver>>
    BY <1>0, <2>1 DEF SelfContained, MemoryOK, Places
  <2>4. SelfEntries \subseteq Matched(Self)
    BY <2>2, <2>3 DEF SelfEntries, Copyable, Matched
  <2>5. QED
    BY <1>0, <1>2, <2>1, <2>4 DEF Run
<1>3. ASSUME NEW e \in Entries, CopyOne(e)
      PROVE  /\ \A g \in SelfEntries \ todo' : SelfBin \in placed' \cup InUse
             /\ ~Generic(Self) => libs' = {} /\ placed' \subseteq Targets(Self)
  <2>1. pc = "copy" /\ todo' = todo \ {e} /\ (Generic(Self) \/ libs' = libs)
    BY <1>0, <1>3 DEF CopyOne
  <2>2. placed \subseteq placed' /\ placed' \subseteq placed \cup Targets(Self)
    BY <1>0, <1>3, CopyPlacement, Placement, CopyTargets
  <2>3. ASSUME e \in SelfEntries PROVE SelfBin \in placed' \cup InUse
    BY <1>0, <1>3, <2>1, <2>3, CopyReported DEF SelfContained, SelfEntries, Renewed
  <2>4. QED
    BY <1>0, <2>1, <2>2, <2>3 DEF Renewed
<1>4. ASSUME NEW e \in Entries, Promote(e)
      PROVE  /\ \A g \in SelfEntries \ todo' : SelfBin \in placed' \cup InUse
             /\ ~Generic(Self) => libs' = {} /\ placed' \subseteq Targets(Self)
  <2>1. pc = "copy" /\ todo' = todo /\ e \in libs
    BY <1>4 DEF Promote
  <2>2. placed \subseteq placed'
    BY <1>4, PromotePlacement, Placement
  <2>3. QED
    BY <1>0, <2>1, <2>2 DEF Renewed
<1>5. CASE Record
  BY <1>0, <1>5 DEF Record, Renewed
<1>6. CASE Finish
  BY <1>6 DEF Finish
<1>7. ASSUME NEW d \in Drawers, NEW v \in Versions \cup {0}, AdoptInventory(d, v) PROVE FALSE
  BY <1>7 DEF AdoptInventory, End
<1>8. ASSUME NEW e \in Entries, OpenCopy(e) \/ OpenPromotion(e)
      PROVE  /\ \A g \in SelfEntries \ todo' : SelfBin \in placed' \cup InUse
             /\ ~Generic(Self) => libs' = {} /\ placed' \subseteq Targets(Self)
  <2>1. pc = "copy" /\ todo' = todo /\ libs' = libs /\ placed' = placed
    BY <1>8 DEF OpenCopy, OpenPromotion, OpenTarget
  <2>2. QED
    BY <1>0, <2>1 DEF Renewed
<1>9. QED
  BY <1>1, <1>2, <1>3, <1>4, <1>5, <1>6, <1>7, <1>8, IntoCommit

\* If amipkg alone ships its binary, in every version, then at every step of
\* an install or an upgrade, of amipkg itself or of any other package, the
\* file at the path of the binary is the one of some version of amipkg, but
\* while copy_file writes it, whatever was interrupted before.
THEOREM BinaryStays == ASSUME SelfContained PROVE Spec => []SelfWhole
<1>1. TypeOK /\ MemoryOK /\ SelfOK /\ [Next]_vars => SelfOK'
  <2>1. SUFFICES ASSUME TypeOK, MemoryOK, SelfOK, [Next]_vars PROVE SelfOK'
    OBVIOUS
  <2>2. (job.kind \in {"install", "start"} \/ pc = "ready" => WritingBinary \/ BinaryThere)'
    BY <2>1, BinaryNext
  <2>3. Unclaimed' /\ NotChosen' /\ Renewed'
    BY <2>1, UnclaimedNext, NotChosenNext, RenewedNext
  <2>4. QED
    BY <2>2, <2>3 DEF SelfOK
<1>2. Spec => []SelfOK
  BY <1>1, MemoryAlways, SelfInit, PTL DEF Spec
<1>3. SelfOK => SelfWhole
  BY DEF SelfOK, SelfWhole, BinaryThere
<1>4. QED
  BY <1>2, <1>3, PTL

(***************************************************************************)
(* What a removal may forget.                                              *)
(***************************************************************************)
Settled(p, f) ==
    \/ disk[f] = None \/ f \in Runtime \/ f \in InUse
    \/ \E q \in Pkgs \ {p} : f \in PathsOf(inv[q])
\* Without a line in installed.txt, and not while the file is being written.
Unlisted(p) == IF pc = "rewrite" THEN saved[p] = <<>> ELSE db[p] = <<>>
BeingListed ==
    \/ pc \in {"rewrite", "dropinv"} /\ job.kind # "start"
    \/ pc = "copy" /\ placed # {}
    \/ pc = "commit"
\* What the first pass spares it leaves settled.
Spared ==
    /\ pc = "delete" => \A f \in PathsOf(Loaded(job.id)) : f \in doomed \/ Settled(job.id, f)
    /\ pc \in {"rewrite", "dropinv"} /\ job.kind \in {"install", "remove"} =>
           \A f \in PathsOf(inv[job.id]) : Settled(job.id, f)
\* Where the receipt has been emptied.
Emptied ==
    /\ pc = "tail" => inv[job.id] = <<>>
    /\ pc \in {"unlist", "rewrite", "run"} /\ job.id = Self /\ job.kind = "install" =>
           inv[Self] = <<>>
    /\ pc = "seed" => inv[Self] = <<>>
\* Only a package with a line has an inventory, except while it is written.
LinedUp ==
    /\ pc = "seed" => db[Self] # <<>>
    /\ pc \in {"classify", "delete", "tail"} => db[job.id] # <<>>
    /\ pc = "copy" /\ placed = {} => lines = <<>>
    /\ \A p \in Pkgs : Unlisted(p) /\ inv[p] # <<>> => p = job.id /\ BeingListed
ForgetOK == Spared /\ Emptied /\ LinedUp

LEMMA ForgetInit == Init => ForgetOK
<1> SUFFICES ASSUME Init PROVE ForgetOK
  OBVIOUS
<1>1. pc = "off" /\ \A p \in Pkgs : inv[p] = <<>>
  BY DEF Init, Empty
<1>2. QED
  BY <1>1 DEF ForgetOK, Spared, Emptied, LinedUp

LEMMA NoCrash == ASSUME MaxCrashes = 0, TypeOK PROVE ~Crash
  BY DEF Crash, TypeOK

\* A listing of nothing is empty.
LEMMA EmptyListing == SetToSeq({}) = <<>>
<1>1. SetToSeq({}) \in Seq({})
  BY ListingType, FS_EmptySet
<1>2. CASE SetToSeq({}) # <<>>
  <2>1. 1 \in 1..Len(SetToSeq({}))
    BY <1>1, <1>2, EmptySeq
  <2>2. QED
    BY <1>1, <2>1, ElementOfSeq
<1>3. QED
  BY <1>2

\* An inventory that fits into one pass is loaded whole.
LEMMA WholePass ==
    ASSUME TypeOK, NEW p \in Pkgs, Len(inv[p]) <= MaxFiles PROVE Loaded(p) = inv[p]
<1>1. inv[p] \in Seq(Line)
  BY DEF TypeOK, StoreTypeOK
<1>2. Len(inv[p]) \in Nat
  BY <1>1, LenProperties
<1>3. (IF Len(inv[p]) < MaxFiles THEN Len(inv[p]) ELSE MaxFiles) = Len(inv[p])
  BY <1>2, ConstantsType
<1>4. QED
  BY <1>1, <1>3, SubSeqFull DEF Loaded

\* What the first pass does not choose is settled.
LEMMA SparedIsSettled ==
    ASSUME TypeOK, NEW p \in Pkgs, NEW f \in PathsOf(Loaded(p)), f \notin Doomed(p)
    PROVE  Settled(p, f)
<1>1. CASE Shared(p, f)
  <2>1. PICK q \in Pkgs \ {p} : f \in PathsOf(Loaded(q))
    BY <1>1 DEF Shared
  <2>2. f \in PathsOf(inv[q])
    BY <2>1, PathsOfPasses
  <2>3. QED
    BY <2>2 DEF Settled
<1>2. QED
  BY <1>1 DEF Doomed, Settled

\* What is settled stays so while files disappear.
LEMMA SettledStays ==
    ASSUME inv' = inv, NEW p, NEW f, Settled(p, f), disk[f] = None => disk'[f] = None
    PROVE  Settled(p, f)'
  BY DEF Settled

LEMMA IntoRewrite ==
    ASSUME [Next]_vars, pc' \in {"rewrite", "dropinv"}, job'.kind # "start"
    PROVE  \/ UNCHANGED vars \/ TruncateDb
           \/ WriteDb /\ job' = job
<1>1. ~World /\ ~Begin /\ ~Crash /\ ~Command
  BY JobType
     DEF World, Publish, UserWrites, Begin, Start, StartUnrecorded, StartOutdated, Crash, End,
         Idle, Command, ExtractFails, Extract, AfterExtract, Adopt, CmdRemove
<1>2. ASSUME Step PROVE TruncateDb \/ (WriteDb /\ job' = job)
  BY <1>2
     DEF Step, Seed, Forget, Classify, KeepTail, RenameTail, ReturnFromRemove, WriteDb,
         DropInventory, StripOverlay, Run, Record, CopyOne, OpenCopy, OpenPromotion, OpenTarget, Promote, Finish, Copied, DeleteOne,
         NothingInstalled, RecipeRefuses, Commit, AdoptFails, AdoptInventory, End
<1>3. QED
  BY <1>1, <1>2 DEF Next

LEMMA SparedNext ==
    ASSUME TypeOK, MemoryOK, ForgetOK, [Next]_vars PROVE Spared'
<1>0. job.id \in Pkgs /\ Spared /\ Emptied /\ disk \in [Paths -> File]
  BY DEF TypeOK, StoreTypeOK, CommandTypeOK, Jobs, ForgetOK
<1>1. ASSUME pc' = "delete", NEW f \in PathsOf(Loaded(job.id))', f \notin doomed'
      PROVE  Settled(job.id, f)'
  <2>1. CASE UNCHANGED vars
    <3>1. /\ pc' = pc /\ job' = job /\ inv' = inv /\ disk' = disk /\ doomed' = doomed
      BY <2>1 DEF vars, store, temp
    <3>2. Settled(job.id, f)
      BY <1>0, <1>1, <3>1 DEF Spared, Loaded
    <3>3. QED
      BY <3>1, <3>2 DEF Settled
  <2>2. CASE Classify
    <3>1. /\ job' = job /\ inv' = inv /\ disk' = disk /\ doomed' = Doomed(job.id)
      BY <1>1, <2>2 DEF Classify, End
    <3>2. f \in PathsOf(Loaded(job.id))
      BY <1>1, <3>1 DEF Loaded
    <3>3. Settled(job.id, f)
      BY <1>0, <1>1, <3>1, <3>2, SparedIsSettled
    <3>4. QED
      BY <3>1, <3>3 DEF Settled
  <2>3. ASSUME NEW g \in Paths, DeleteOne(g) PROVE Settled(job.id, f)'
    <3>1. /\ pc = "delete" /\ job' = job /\ inv' = inv /\ doomed' = doomed \ {g}
          /\ disk' = [disk EXCEPT ![g] = IF g \in InUse THEN @ ELSE None]
      BY <2>3 DEF DeleteOne
    <3>2. f \in PathsOf(Loaded(job.id))
      BY <1>1, <3>1 DEF Loaded
    <3>3. CASE f = g
      BY <1>0, <3>1, <3>3, <2>3 DEF Settled
    <3>4. CASE f # g
      <4>1. Settled(job.id, f) /\ (disk[f] = None => disk'[f] = None)
        BY <1>0, <1>1, <3>1, <3>2, <3>4 DEF Spared
      <4>2. QED
        BY <3>1, <4>1 DEF Settled
    <3>5. QED
      BY <3>3, <3>4
  <2>4. QED
    BY <1>1, <2>1, <2>2, <2>3, IntoDelete
<1>2. ASSUME pc' \in {"rewrite", "dropinv"}, job'.kind \in {"remove", "install"},
             NEW f \in PathsOf(inv[job.id])'
      PROVE  Settled(job.id, f)'
  <2>1. \/ UNCHANGED vars \/ TruncateDb
        \/ WriteDb /\ job' = job
    BY <1>2, IntoRewrite
  <2>2. job' = job /\ inv' = inv /\ disk' = disk
    BY <2>1 DEF TruncateDb, WriteDb, vars, store
  <2>3. f \in PathsOf(inv[job.id])
    BY <1>2, <2>2
  <2>4. Settled(job.id, f)
    <3>1. CASE UNCHANGED vars \/ WriteDb
      BY <1>0, <1>2, <2>2, <2>3, <3>1 DEF Spared, WriteDb, vars
    <3>2. CASE TruncateDb /\ pc = "unlist"
      <4>1. inv[job.id] = <<>>
        BY <1>0, <1>2, <2>2, <3>2 DEF MemoryOK, Places, Emptied
      <4>2. QED
        BY <2>3, <4>1 DEF PathsOf
    <3>3. CASE TruncateDb /\ pc # "unlist"
      <4>1. pc = "delete" /\ doomed = {} /\ Len(inv[job.id]) <= MaxFiles
        BY <3>3 DEF TruncateDb
      <4>2. f \in PathsOf(Loaded(job.id))
        BY <1>0, <2>3, <4>1, WholePass
      <4>3. QED
        BY <1>0, <4>1, <4>2 DEF Spared
    <3>4. QED
      BY <2>1, <3>1, <3>2, <3>3
  <2>5. QED
    BY <2>2, <2>4 DEF Settled
<1>3. QED
  BY <1>1, <1>2 DEF Spared

\* Before a command has begun, a package without a line has no inventory.
LEMMA NothingBetween ==
    ASSUME LinedUp, pc \in {"off", "ready"}, NEW p \in Pkgs, db[p] = <<>>
    PROVE  inv[p] = <<>>
  BY DEF LinedUp, Unlisted, BeingListed

LEMMA IntoRun ==
    ASSUME [Next]_vars, pc' \in {"unlist", "run"}, job'.kind = "install", job'.id = Self,
           MemoryOK
    PROVE  \/ UNCHANGED vars \/ Forget
           \/ WriteDb /\ job' = job
           \/ \E p \in Pkgs : Extract(p)
<1>1. ~World /\ ~Begin /\ ~Crash
  BY JobType
     DEF World, Publish, UserWrites, Begin, Start, StartUnrecorded, StartOutdated, Crash, End,
         Idle
<1>2. ASSUME Command PROVE \E p \in Pkgs : Extract(p)
  BY <1>2 DEF Command, ExtractFails, Adopt, CmdRemove, End, Job
<1>3. ~RenameTail /\ ~StripOverlay
  BY DEF RenameTail, StripOverlay, ReturnFromRemove, End, MemoryOK, Places
<1>4. ASSUME Step PROVE Forget \/ (WriteDb /\ job' = job)
  BY <1>3, <1>4
     DEF Step, Seed, Classify, KeepTail, TruncateDb, WriteDb, DropInventory, Run, Record,
         CopyOne, OpenCopy, OpenPromotion, OpenTarget, Promote, Finish, Copied, DeleteOne, NothingInstalled, RecipeRefuses, Commit,
         AdoptFails, AdoptInventory, End
<1>5. QED
  BY <1>1, <1>2, <1>4 DEF Next

LEMMA EmptiedNext ==
    ASSUME TypeOK, MemoryOK, ForgetOK, [Next]_vars PROVE Emptied'
<1>0. /\ job.id \in Pkgs /\ Self \in Pkgs /\ Emptied /\ LinedUp
      /\ inv \in [Pkgs -> Seq(Line)]
  BY ConstantsType DEF TypeOK, StoreTypeOK, CommandTypeOK, Jobs, ForgetOK
<1>1. ASSUME pc' = "tail" PROVE inv'[job'.id] = <<>>
  <2>1. UNCHANGED vars \/ KeepTail
    BY <1>1
       DEF Next, World, Publish, UserWrites, Begin, Command, Step, Crash, Start, StartUnrecorded,
           StartOutdated, ExtractFails, Extract, AfterExtract, Adopt, CmdRemove, Seed, Forget,
           Classify, RenameTail, ReturnFromRemove, TruncateDb, WriteDb, DropInventory,
           StripOverlay, Run, Record, CopyOne, OpenCopy, OpenPromotion, OpenTarget, Promote, Finish, DeleteOne, NothingInstalled,
           RecipeRefuses, Commit, AdoptFails, AdoptInventory, End, Idle
  <2>2. CASE UNCHANGED vars
    BY <1>0, <1>1, <2>2 DEF Emptied, vars, store
  <2>3. CASE KeepTail
    BY <1>0, <2>3 DEF KeepTail
  <2>4. QED
    BY <2>1, <2>2, <2>3
<1>2. ASSUME pc' \in {"unlist", "run"}, job'.id = Self, job'.kind = "install"
      PROVE  inv'[Self] = <<>>
  <2>1. CASE UNCHANGED vars
    BY <1>0, <1>2, <2>1 DEF Emptied, vars, store
  <2>2. CASE Forget
    BY <1>0, <2>2 DEF Forget
  <2>3. CASE WriteDb /\ job' = job
    BY <1>0, <1>2, <2>3 DEF WriteDb, Emptied
  <2>4. ASSUME NEW p \in Pkgs, Extract(p) PROVE inv'[Self] = <<>>
    <3>1. p = Self /\ pc = "ready" /\ inv' = inv /\ pc' = "run" /\ ~Installed(Self)
      BY <1>2, <2>4 DEF Extract, AfterExtract, Job, End
    <3>2. QED
      BY <1>0, <3>1, NothingBetween DEF Installed
  <2>5. QED
    BY <1>2, <2>1, <2>2, <2>3, <2>4, IntoRun
<1>3. ASSUME pc' = "rewrite", job'.id = Self, job'.kind = "install"
      PROVE  inv'[Self] = <<>>
  <2>1. UNCHANGED vars \/ TruncateDb
    BY <1>3, IntoRewrite DEF WriteDb
  <2>2. /\ job' = job /\ inv' = inv
        /\ pc \in {"unlist", "rewrite", "delete"}
    BY <1>3, <2>1 DEF TruncateDb, vars, store
  <2>3. QED
    BY <1>0, <1>3, <2>2 DEF Emptied, MemoryOK, Places
<1>4. ASSUME pc' = "seed" PROVE inv'[Self] = <<>>
  <2>1. UNCHANGED vars \/ StartUnrecorded
    BY <1>4
       DEF Next, World, Publish, UserWrites, Begin, Command, Step, Crash, Start, StartOutdated,
           ExtractFails, Extract, AfterExtract, Adopt, CmdRemove, Seed, Forget, Classify,
           KeepTail, RenameTail, ReturnFromRemove, TruncateDb, WriteDb, DropInventory,
           StripOverlay, Run, Record, CopyOne, OpenCopy, OpenPromotion, OpenTarget, Promote, Finish, Copied, DeleteOne,
           NothingInstalled, RecipeRefuses, Commit, AdoptFails, AdoptInventory, End, Idle
  <2>2. CASE UNCHANGED vars
    BY <1>0, <1>4, <2>2 DEF Emptied, vars, store
  <2>3. CASE StartUnrecorded
    BY <1>0, <2>3, NothingBetween DEF StartUnrecorded, CanStart, Idle, Installed
  <2>4. QED
    BY <2>1, <2>2, <2>3
<1>5. QED
  BY <1>1, <1>2, <1>3, <1>4 DEF Emptied

\* A removal runs for a package with a line.
LEMMA RemovalIsListed ==
    ASSUME TypeOK, LinedUp, [Next]_vars, pc' \in {"classify", "delete", "tail"}
    PROVE  db'[job'.id] # <<>>
<1>1. CASE UNCHANGED vars
  BY <1>1 DEF LinedUp, vars, store
<1>2. ~World /\ ~Begin /\ ~Crash
  BY DEF World, Publish, UserWrites, Begin, Start, StartUnrecorded, StartOutdated, Crash, End,
         Idle
<1>3. CASE Command
  BY <1>3 DEF Command, ExtractFails, Extract, AfterExtract, Installed, Adopt, CmdRemove, Job,
              End, store
<1>4. CASE Step
  <2>1. /\ pc \in {"classify", "delete", "tail"}
        /\ db' = db /\ job' = job
    BY <1>4
       DEF Step, Seed, Forget, Classify, KeepTail, RenameTail, ReturnFromRemove, TruncateDb,
           WriteDb, DropInventory, StripOverlay, Run, Record, CopyOne, OpenCopy, OpenPromotion, OpenTarget, Promote, Finish, Copied,
           DeleteOne, NothingInstalled, RecipeRefuses, Commit, AdoptFails, AdoptInventory, End
  <2>2. QED
    BY <2>1 DEF LinedUp
<1>5. QED
  BY <1>1, <1>2, <1>3, <1>4 DEF Next

\* A line in memory belongs to something placed.
LEMMA LinesArePlaced ==
    ASSUME TypeOK, MemoryOK, LinedUp, [Next]_vars, pc' = "copy", placed' = {}
    PROVE  lines' = <<>>
<1>1. CASE UNCHANGED vars
  BY <1>1 DEF LinedUp, vars, temp
<1>2. CASE Run
  BY <1>2 DEF Run, MemoryOK
<1>3. ASSUME NEW e \in Entries, CopyOne(e) PROVE lines' = <<>>
  <2>1. placed = {} /\ lines' = lines
    BY <1>3, CopyPlacement, Placement
  <2>2. QED
    BY <1>3, <2>1 DEF CopyOne, LinedUp
<1>4. ASSUME NEW e \in Entries, Promote(e) PROVE lines' = <<>>
  <2>1. placed = {} /\ lines' = lines
    BY <1>4, PromotePlacement, Placement
  <2>2. QED
    BY <1>4, <2>1 DEF Promote, LinedUp
<1>5. CASE Record
  BY <1>5 DEF Record, LinedUp
<1>6. ASSUME NEW e \in Entries, OpenCopy(e) \/ OpenPromotion(e) PROVE lines' = <<>>
  BY <1>6 DEF OpenCopy, OpenPromotion, OpenTarget, LinedUp
<1>7. QED
  BY <1>1, <1>2, <1>3, <1>4, <1>5, <1>6, IntoCommit DEF Finish, AdoptInventory, End

\* The receipts and lines of the packages no command is at work on.
LEMMA OthersLinedUp ==
    ASSUME TypeOK, MemoryOK, LinedUp, [Next]_vars, ~Crash,
           NEW p \in Pkgs, p # job.id \/ pc \in {"off", "ready"}, Unlisted(p)'
    PROVE  inv'[p] = <<>>
<1>0. /\ job.id \in Pkgs /\ Self \in Pkgs
      /\ db \in [Pkgs -> Seq(Versions \cup {0})] /\ saved \in [Pkgs -> Seq(Versions \cup {0})]
      /\ inv \in [Pkgs -> Seq(Line)]
  BY ConstantsType DEF TypeOK, StoreTypeOK, CommandTypeOK, Jobs
<1>1. Unlisted(p) => inv[p] = <<>>
  BY DEF LinedUp, BeingListed
<1>2. inv'[p] = inv[p] \/ inv'[p] = <<>>
  <2>1. CASE Seed
    <3>1. p = Self => db[p] # <<>>
      BY <2>1 DEF Seed, LinedUp
    <3>2. p # Self
      BY <2>1, <3>1 DEF Seed, Unlisted
    <3>3. QED
      BY <1>0, <2>1, <3>2 DEF Seed
  <2>2. QED
    BY <1>0, <2>1, InventorySteps
       DEF Forget, KeepTail, RenameTail, DropInventory, Record, AdoptInventory
<1>3. Unlisted(p)
  <2>1. CASE UNCHANGED vars
    BY <2>1 DEF Unlisted, vars, store, temp
  <2>2. CASE World \/ Start
    BY <2>2 DEF World, Publish, UserWrites, Start, CanStart, Idle, Unlisted, store
  <2>3. CASE StartUnrecorded
    BY <1>0, <2>3 DEF StartUnrecorded, CanStart, Idle, Unlisted
  <2>4. CASE StartOutdated
    <3>1. saved'[p] = <<>> /\ pc = "off"
      BY <2>4 DEF StartOutdated, CanStart, Idle, Unlisted
    <3>2. CASE p = Self
      <4>1. db[Self] \in Seq(Versions \cup {0}) /\ db[Self] # <<>>
        BY <1>0, <2>4 DEF StartOutdated, Installed
      <4>2. 1 \in DOMAIN db[Self]
        BY <4>1, EmptySeq, LenProperties
      <4>3. saved'[Self] = [k \in DOMAIN db[Self] |-> Running] /\ DOMAIN <<>> = {}
        BY <1>0, <2>4 DEF StartOutdated
      <4>4. QED
        BY <3>1, <3>2, <4>2, <4>3
    <3>3. CASE p # Self
      BY <1>0, <2>4, <3>1, <3>3 DEF StartOutdated, Unlisted
    <3>4. QED
      BY <3>2, <3>3
  <2>5. CASE Command
    BY <2>5 DEF Command, ExtractFails, Extract, AfterExtract, Adopt, CmdRemove, End, Unlisted,
                store
  <2>6. CASE TruncateDb
    BY <1>0, <2>6 DEF TruncateDb, OtherRecords, Unlisted
  <2>7. CASE WriteDb
    BY <2>7 DEF WriteDb, Unlisted
  <2>8. CASE Commit
    BY <1>0, <2>8 DEF Commit, End, Unlisted
  <2>9. CASE Step /\ ~TruncateDb /\ ~WriteDb /\ ~Commit
    <3>1. db' = db /\ pc # "rewrite" /\ pc' # "rewrite"
      BY <2>9
         DEF Step, Seed, Forget, Classify, KeepTail, RenameTail, ReturnFromRemove,
             DropInventory, StripOverlay, Run, Record, CopyOne, OpenCopy, OpenPromotion, OpenTarget, Promote, Finish, Copied,
             DeleteOne, NothingInstalled, RecipeRefuses, AdoptFails, AdoptInventory, End, store
    <3>2. QED
      BY <3>1 DEF Unlisted
  <2>10. QED
    BY <2>1, <2>2, <2>3, <2>4, <2>5, <2>6, <2>7, <2>8, <2>9 DEF Next, Begin
<1>4. QED
  BY <1>1, <1>2, <1>3

LEMMA Appended == ASSUME NEW S, NEW s \in Seq(S), NEW x \in S PROVE Append(s, x) # <<>>
  BY AppendProperties

\* The receipt and the line of the package at work.
LEMMA OwnLinedUp ==
    ASSUME TypeOK, MemoryOK, ForgetOK, Step, [Next]_vars,
           NEW p \in Pkgs, p = job.id, Unlisted(p)', inv'[p] # <<>>
    PROVE  job'.id = p /\ BeingListed'
<1>0. /\ job.id \in Pkgs /\ Self \in Pkgs /\ LinedUp /\ Emptied
      /\ db \in [Pkgs -> Seq(Versions \cup {0})] /\ inv \in [Pkgs -> Seq(Line)]
      /\ job.ver \in Versions \cup {0}
  BY ConstantsType DEF TypeOK, StoreTypeOK, CommandTypeOK, Jobs, ForgetOK
<1>1. Unlisted(p) /\ inv[p] # <<>> => BeingListed
  BY <1>0 DEF LinedUp
<1>2. ~Seed /\ ~Forget /\ ~KeepTail /\ ~DropInventory
  <2>1. ~Seed
    BY <1>0 DEF Seed, LinedUp, Unlisted, MemoryOK, Places
  <2>2. ~Forget /\ ~KeepTail /\ ~DropInventory
    BY <1>0 DEF Forget, KeepTail, DropInventory, MemoryOK, Places
  <2>3. QED
    BY <2>1, <2>2
<1>3. ~RenameTail
  BY <1>0 DEF RenameTail, ReturnFromRemove, End, LinedUp, Unlisted
<1>4. ASSUME ~BeingListed, pc # "rewrite", pc' # "rewrite", db' = db, inv' = inv PROVE FALSE
  BY <1>1, <1>4 DEF Unlisted
<1>5. ~Classify /\ ~StripOverlay /\ ~Run /\ ~RecipeRefuses /\ ~NothingInstalled /\ ~AdoptFails
      /\ ~\E f \in Paths : DeleteOne(f)
  BY <1>4
     DEF BeingListed, Classify, StripOverlay, ReturnFromRemove, Run, RecipeRefuses,
         NothingInstalled, Copied, AdoptFails, DeleteOne, End, store
<1>6. CASE TruncateDb
  BY <1>6 DEF TruncateDb, BeingListed, MemoryOK, Places
<1>7. CASE WriteDb
  <2>1. pc = "rewrite" /\ Unlisted(p) /\ inv' = inv
    BY <1>7 DEF WriteDb, Unlisted
  <2>2. job.kind # "start" /\ job' = job
    BY <1>1, <1>7, <2>1 DEF WriteDb, BeingListed
  <2>3. ~(job.kind = "install" /\ job.id = Self)
    BY <1>0, <2>1 DEF Emptied
  <2>4. QED
    BY <1>7, <2>2, <2>3 DEF WriteDb, BeingListed
<1>8. CASE Record
  BY <1>0, <1>8 DEF Record, LinedUp, BeingListed
<1>9. ASSUME NEW e \in Entries,
             OpenCopy(e) \/ CopyOne(e) \/ OpenPromotion(e) \/ Promote(e)
      PROVE  job'.id = p /\ BeingListed'
  <2>1. /\ pc = "copy" /\ pc' = pc /\ job' = job /\ db' = db /\ inv' = inv
        /\ OpenCopy(e) \/ OpenPromotion(e) => placed' = placed
    BY <1>9 DEF CopyOne, OpenCopy, OpenPromotion, OpenTarget, Promote
  <2>2. placed \subseteq placed'
    BY <1>9, <2>1, CopyPlacement, PromotePlacement, Placement
  <2>3. placed # {}
    BY <1>4, <2>1 DEF BeingListed
  <2>4. QED
    BY <2>1, <2>2, <2>3 DEF BeingListed
<1>10. CASE Finish
  BY <1>10 DEF Finish, BeingListed
<1>11. ~Commit
  <2>1. SUFFICES ASSUME Commit PROVE FALSE
    OBVIOUS
  <2>2. db'[job.id] = Append(db[job.id], job.ver) /\ pc' = "off"
    BY <1>0, <2>1 DEF Commit, End
  <2>3. db[job.id] \in Seq(Versions \cup {0}) /\ job.ver \in Versions \cup {0}
    BY <1>0
  <2>4. Append(db[job.id], job.ver) # <<>>
    BY <2>3, Appended
  <2>5. QED
    BY <2>2, <2>4 DEF Unlisted
<1>12. ASSUME NEW d \in Drawers, NEW v \in Versions \cup {0}, AdoptInventory(d, v)
       PROVE  job'.id = p /\ BeingListed'
  <2> DEFINE found == {f \in d : disk[f] # None /\ ~(job.id = Self /\ f \in Runtime)}
  <2>1. found # {}
    <3>1. SUFFICES ASSUME found = {} PROVE FALSE
      OBVIOUS
    <3>2. {[path |-> f, digest |-> disk[f]] : f \in found} = {}
      BY <3>1
    <3>3. inv'[job.id] = SetToSeq({[path |-> f, digest |-> disk[f]] : f \in found})
      BY <1>0, <1>12 DEF AdoptInventory
    <3>4. QED
      BY <3>2, <3>3, EmptyListing
  <2>2. QED
    BY <1>12, <2>1 DEF AdoptInventory, Job, BeingListed
<1>13. QED
  BY <1>2, <1>3, <1>5, <1>6, <1>7, <1>8, <1>9, <1>10, <1>11, <1>12 DEF Step

LEMMA LinedUpNext ==
    ASSUME MaxCrashes = 0, TypeOK, MemoryOK, ForgetOK, [Next]_vars PROVE LinedUp'
<1>0. LinedUp /\ ~Crash /\ Self \in Pkgs /\ db \in [Pkgs -> Seq(Versions \cup {0})]
  BY NoCrash, ConstantsType DEF ForgetOK, TypeOK, StoreTypeOK
<1>1. ASSUME pc' = "seed" PROVE db'[Self] # <<>>
  <2>1. UNCHANGED vars \/ StartUnrecorded
    BY <1>1
       DEF Next, World, Publish, UserWrites, Begin, Command, Step, Crash, Start, StartOutdated,
           ExtractFails, Extract, AfterExtract, Adopt, CmdRemove, Seed, Forget, Classify,
           KeepTail, RenameTail, ReturnFromRemove, TruncateDb, WriteDb, DropInventory,
           StripOverlay, Run, Record, CopyOne, OpenCopy, OpenPromotion, OpenTarget, Promote, Finish, Copied, DeleteOne,
           NothingInstalled, RecipeRefuses, Commit, AdoptFails, AdoptInventory, End, Idle
  <2>2. CASE UNCHANGED vars
    BY <1>0, <1>1, <2>2 DEF LinedUp, vars, store
  <2>3. CASE StartUnrecorded
    BY <1>0, <2>3 DEF StartUnrecorded
  <2>4. QED
    BY <2>1, <2>2, <2>3
<1>2. pc' \in {"classify", "delete", "tail"} => db'[job'.id] # <<>>
  BY <1>0, RemovalIsListed
<1>3. pc' = "copy" /\ placed' = {} => lines' = <<>>
  BY <1>0, LinesArePlaced
<1>4. ASSUME NEW p \in Pkgs, Unlisted(p)', inv'[p] # <<>>
      PROVE  p = job'.id /\ BeingListed'
  <2>1. p = job.id /\ pc \notin {"off", "ready"}
    BY <1>0, <1>4, OthersLinedUp
  <2>2. CASE UNCHANGED vars
    <3>1. Unlisted(p) /\ inv[p] # <<>> /\ job' = job
      BY <1>4, <2>2 DEF Unlisted, vars, store, temp
    <3>2. BeingListed
      BY <1>0, <3>1 DEF LinedUp
    <3>3. QED
      BY <2>1, <2>2, <3>1, <3>2 DEF BeingListed, vars, temp
  <2>3. CASE Step
    BY <1>4, <2>1, <2>3, OwnLinedUp
  <2>4. UNCHANGED vars \/ Step
    BY <1>0, <2>1
       DEF Next, World, Publish, UserWrites, Begin, Start, StartUnrecorded, StartOutdated,
           CanStart, Command, ExtractFails, Extract, Adopt, CmdRemove, Idle
  <2>5. QED
    BY <2>2, <2>3, <2>4
<1>5. QED
  BY <1>1, <1>2, <1>3, <1>4 DEF LinedUp

\* The lines a receipt loses in one step: none that is not settled.
LEMMA LosesOnlySettled ==
    ASSUME MaxCrashes = 0, TypeOK, MemoryOK, ForgetOK, Next,
           job.kind # "adopt", pc # "forget",
           NEW p \in Pkgs, NEW f \in Held(p), f \notin Held(p)'
    PROVE  disk' = disk /\ Settled(p, f)
<1>0. /\ job.id \in Pkgs /\ Self \in Pkgs /\ ~Crash
      /\ Spared /\ Emptied /\ LinedUp /\ PathsOf(<<>>) = {}
      /\ inv \in [Pkgs -> Seq(Line)] /\ lines \in Seq(Line)
  BY NoCrash, ConstantsType
     DEF TypeOK, StoreTypeOK, CommandTypeOK, Jobs, ForgetOK, PathsOf
<1>1. f \notin PathsOf(inv'[p])
  BY DEF Held
<1>2. CASE RenameTail
  <2>1. pc = "tail" /\ inv[job.id] = <<>> /\ inv' = [inv EXCEPT ![job.id] = lines]
    BY <1>0, <1>2 DEF RenameTail, Emptied
  <2>2. CASE p = job.id
    BY <1>0, <1>1, <2>1, <2>2 DEF Held
  <2>3. CASE p # job.id
    BY <1>0, <1>1, <2>1, <2>3 DEF Held
  <2>4. QED
    BY <2>2, <2>3
<1>3. ASSUME ~RenameTail PROVE f \in PathsOf(inv[p])
  <2>1. SUFFICES ASSUME pc = "tail", job.id = p, f \in PathsOf(lines) PROVE FALSE
    BY DEF Held
  <2>2. pc' = "tail" /\ job' = job /\ lines' = lines
    BY <1>0, <1>3, <2>1
       DEF Next, World, Publish, UserWrites, Begin, Start, StartUnrecorded, StartOutdated,
           CanStart, Command, ExtractFails, Extract, Adopt, CmdRemove, Step, Seed, Forget,
           Classify, KeepTail, TruncateDb, WriteDb, DropInventory, StripOverlay, Run, Record,
           CopyOne, OpenCopy, OpenPromotion, OpenTarget, Promote, Finish, Copied, DeleteOne, NothingInstalled, RecipeRefuses,
           Commit, AdoptFails, AdoptInventory, Idle
  <2>3. QED
    BY <2>1, <2>2 DEF Held
<1>4. CASE KeepTail
  <2>1. /\ pc = "delete" /\ doomed = {} /\ pc' = "tail" /\ job' = job /\ disk' = disk
        /\ lines' = Unprocessed(job.id) /\ inv' = [inv EXCEPT ![job.id] = <<>>]
    BY <1>4 DEF KeepTail
  <2>2. f \in PathsOf(inv[p])
    BY <1>3, <2>1 DEF RenameTail
  <2>3. p = job.id
    BY <1>0, <1>1, <2>1, <2>2
  <2>4. f \notin PathsOf(Unprocessed(p))
    BY <2>1, <2>3 DEF Held
  <2>5. f \in PathsOf(Loaded(p))
    BY <2>2, <2>4, PathsOfPasses
  <2>6. QED
    BY <1>0, <2>1, <2>3, <2>5 DEF Spared
<1>5. CASE DropInventory
  <2>1. pc = "dropinv" /\ disk' = disk /\ inv' = [inv EXCEPT ![job.id] = <<>>]
    BY <1>5 DEF DropInventory
  <2>2. f \in PathsOf(inv[p])
    BY <1>3, <2>1 DEF RenameTail
  <2>3. p = job.id
    BY <1>0, <1>1, <2>1, <2>2
  <2>4. job.kind \in {"remove", "install"}
    BY <2>1 DEF MemoryOK, Places
  <2>5. QED
    BY <1>0, <2>1, <2>2, <2>3, <2>4 DEF Spared
<1>6. CASE Seed
  <2>1. /\ inv[Self] = <<>> /\ pc = "seed"
        /\ inv' = [inv EXCEPT ![Self] = SeedLines]
    BY <1>0, <1>6 DEF Seed, Emptied
  <2>2. f \in PathsOf(inv[p])
    BY <1>3, <2>1 DEF RenameTail
  <2>3. p # Self
    BY <1>0, <2>1, <2>2
  <2>4. QED
    BY <1>0, <1>1, <2>1, <2>2, <2>3
<1>7. CASE Record
  <2>1. /\ lines # <<>> /\ inv' = [inv EXCEPT ![job.id] = Append(inv[job.id], Head(lines))]
        /\ pc = "copy"
    BY <1>7 DEF Record
  <2>2. f \in PathsOf(inv[p])
    BY <1>3, <2>1 DEF RenameTail
  <2>3. p = job.id
    BY <1>0, <1>1, <2>1, <2>2
  <2>4. inv[p] \in Seq(Line) /\ Head(lines) \in Line
    BY <1>0, <2>1, PathsOfTail
  <2>5. inv'[p] = Append(inv[p], Head(lines))
    BY <1>0, <2>1, <2>3
  <2>6. PathsOf(inv'[p]) = PathsOf(inv[p]) \cup {Head(lines).path}
    BY <2>4, <2>5, PathsOfAppend
  <2>7. QED
    BY <1>1, <2>2, <2>6
<1>8. ~Forget /\ \A d \in Drawers, v \in Versions \cup {0} : ~AdoptInventory(d, v)
  BY DEF Forget, AdoptInventory, MemoryOK, Places
<1>9. inv' # inv \/ RenameTail
  BY <1>1, <1>3
<1>10. QED
  BY <1>2, <1>4, <1>5, <1>6, <1>7, <1>8, <1>9, InventorySteps

\* A file is forgotten only while another program holds it open.
ForgetsOnlyBusyFiles ==
    [][job.kind # "adopt" /\ pc # "forget" =>
         \A p \in Pkgs : \A f \in Held(p) \ Held(p)' :
             \/ disk'[f] = None
             \/ f \in Runtime
             \/ f \in InUse
             \/ \E q \in Pkgs \ {p} : f \in PathsOf(inv[q])]_vars

\* Without power cuts no step of a removal, an install or a start-up drops
\* from a receipt a path whose file is still there and that no other package
\* accounts for, unless the file was in use and could not be deleted: however
\* many passes an inventory needs, and whatever lines it repeats.
THEOREM OnlyBusyFilesForgotten ==
    ASSUME MaxCrashes = 0 PROVE Spec => ForgetsOnlyBusyFiles
<1>1. TypeOK /\ MemoryOK /\ ForgetOK /\ [Next]_vars => ForgetOK'
  BY SparedNext, EmptiedNext, LinedUpNext DEF ForgetOK
<1>2. Spec => []ForgetOK
  BY <1>1, MemoryAlways, ForgetInit, PTL DEF Spec
<1>3. ASSUME TypeOK, MemoryOK, ForgetOK, [Next]_vars
      PROVE  [job.kind # "adopt" /\ pc # "forget" =>
                \A p \in Pkgs : \A f \in Held(p) \ Held(p)' :
                    \/ disk'[f] = None
                    \/ f \in Runtime
                    \/ f \in InUse
                    \/ \E q \in Pkgs \ {p} : f \in PathsOf(inv[q])]_vars
  <2>1. SUFFICES ASSUME Next, job.kind # "adopt", pc # "forget",
                        NEW p \in Pkgs, NEW f \in Held(p), f \notin Held(p)'
                 PROVE  \/ disk'[f] = None
                        \/ f \in Runtime
                        \/ f \in InUse
                        \/ \E q \in Pkgs \ {p} : f \in PathsOf(inv[q])
    BY <1>3
  <2>2. disk' = disk /\ Settled(p, f)
    BY <1>3, <2>1, LosesOnlySettled
  <2>3. QED
    BY <2>2 DEF Settled
<1>4. QED
  BY <1>2, <1>3, MemoryAlways, PTL DEF Spec, ForgetsOnlyBusyFiles

\* Where no file is in use, none is forgotten.
THEOREM NoFileForgotten ==
    ASSUME MaxCrashes = 0, InUse = {} PROVE Spec => NeverForgetsFiles
<1>1. [job.kind # "adopt" /\ pc # "forget" =>
         \A p \in Pkgs : \A f \in Held(p) \ Held(p)' :
             \/ disk'[f] = None
             \/ f \in Runtime
             \/ f \in InUse
             \/ \E q \in Pkgs \ {p} : f \in PathsOf(inv[q])]_vars
      => [job.kind # "adopt" /\ pc # "forget" =>
            \A p \in Pkgs : \A f \in Held(p) \ Held(p)' :
                \/ disk'[f] = None
                \/ f \in Runtime
                \/ \E q \in Pkgs \ {p} : f \in PathsOf(inv[q])]_vars
  OBVIOUS
<1>2. QED
  BY <1>1, OnlyBusyFilesForgotten, PTL DEF NeverForgetsFiles, ForgetsOnlyBusyFiles
=============================================================================
