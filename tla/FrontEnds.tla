----------------------------- MODULE FrontEnds -----------------------------
(***************************************************************************)
(* The two front-ends: gui.c (GadTools) and mui.c (MUI).  A window shows   *)
(* the database or the catalog, keeps a selected row, and starts the CLI   *)
(* detached through files in RAM: named after its program.  It learns the  *)
(* result by polling for one of them, while a shell, other windows, second *)
(* copies of the same program among them, and the commands themselves      *)
(* change what the list was built from.                                    *)
(*                                                                         *)
(* Data: a version is a number, Unknown is "-".  A catalog is a sequence   *)
(* of entries, an installed line an id with a version.  The done file is   *)
(* the rc in it; 10 stands for every failure.  Left out: layout, wording,  *)
(* the progress line, the order "Newest", and dependencies, which          *)
(* Installer has.  A window's row is there while its program runs.         *)
(***************************************************************************)
EXTENDS Integers, Sequences, FiniteSets

CONSTANTS
    GadTools, Muis,     \* the copies of amipkg-gui and of amipkg-mui
    Ids, NoId,          \* package ids; none
    Foreign,            \* ids of a repository that can be switched off
    Runs,               \* ids made for an architecture this machine runs
    Catalogs,           \* what all repositories publish, one after the other
    FirstDb, FirstCat,  \* the database and the catalogs at the beginning
    Filters,            \* what a Find text and a category leave of Ids
    MaxTicks,           \* the watchdog: ticks in 30 minutes
    MaxWindows,         \* bounds: programs running at once,
    MaxChanges          \* changes of the disk

Windows == GadTools \cup Muis
Repositories == {"official", "other"}
Unknown == 0
NoSort  == 0            \* an entry without sortVersion

Entry == [id : Ids, ver : Nat, sort : Nat]
Line  == [id : Ids, ver : Nat]

ASSUME FrontEndConstants ==
    /\ GadTools \cap Muis = {} /\ NoId \notin Ids
    /\ Foreign \subseteq Ids /\ Runs \subseteq Ids
    /\ Catalogs \in Seq(Seq(Entry)) /\ Catalogs # <<>>
    /\ FirstDb \in Seq(Line) /\ FirstCat \in 0..1
    /\ Filters \subseteq SUBSET Ids /\ Ids \in Filters
    /\ MaxTicks \in Nat /\ MaxWindows \in Nat /\ MaxChanges \in Nat

VARIABLES
    db,            \* db/installed.txt
    cat,           \* which catalog of each repository is on disk (0: none)
    pub,           \* the last catalogs published
    off,           \* is the other repository switched off?
    script,        \* the detached script a window waits for, or NoScript
    orphans,       \* of each program: may scripts it gave up still be running?
    done,          \* the done file of each program
    changes,       \* changes of the disk so far
    running,       \* the front-ends that are running
    busy, ticks,   \* g_busy, g_busy_ticks
    view, filter,  \* g_view; g_filter and g_cat_sel
    rows, sel,     \* the list on display, the selected row (0: none)
    can,           \* the buttons that are not disabled
    asks,          \* the requester that is open
    lit,           \* the id last shown as selected (history)
    fresh          \* no change on disk since the list was built (history)

disk  == <<db, cat, pub, off, changes>>
async == <<script, orphans, done, busy, ticks>>
list  == <<view, filter, rows, sel, can, lit, fresh>>
vars  == <<disk, running, async, list, asks>>

NoAsk == [op |-> "none", id |-> NoId]
Report == [op |-> "report", id |-> NoId]

-----------------------------------------------------------------------------
(***************************************************************************)
(* What a window reads from the disk.                                      *)
(***************************************************************************)
\* The lines or entries about packages of S.
Where(s, S) ==
    LET upTo[n \in 0..Len(s)] ==
            IF n = 0 THEN <<>>
            ELSE IF s[n].id \in S THEN Append(upTo[n - 1], s[n])
            ELSE upTo[n - 1]
    IN upTo[Len(s)]

\* arepo_load_merged: the catalogs of the repositories that are on.
Enabled == IF off THEN {"official"} ELSE Repositories
Published ==
    [c \in 0..Len(Catalogs) |-> [r \in Repositories |->
        IF c = 0 THEN <<>>
        ELSE Where(Catalogs[c], IF r = "other" THEN Foreign ELSE Ids \ Foreign)]]
HasCatalog == \E r \in Enabled : cat[r] # 0
Entries ==
    Published[cat["official"]]["official"]
        \o (IF off THEN <<>> ELSE Published[cat["other"]]["other"])

IsInstalled(id) == \E j \in DOMAIN db : db[j].id = id

Newer(v, w) == v # Unknown /\ w # Unknown /\ v > w

\* pkg_has_update: the version shown against the receipt's.
HasUpdateAnyVersion(id) ==                                       \* mutant
    \E i \in DOMAIN db, j \in DOMAIN Entries :
        db[i].id = id /\ Entries[j].id = id /\ Entries[j].ver # db[i].ver
HasUpdate(id) ==
    \E i \in DOMAIN db, j \in DOMAIN Entries :
        db[i].id = id /\ Entries[j].id = id /\ Newer(Entries[j].ver, db[i].ver)

\* cmd_upgrade: the comparable version against the receipt's.
Comparable(e) == IF e.sort # NoSort THEN e.sort ELSE e.ver
Outdated(id) ==
    \E i \in DOMAIN db, j \in DOMAIN Entries :
        /\ db[i].id = id /\ Entries[j].id = id
        /\ Newer(Comparable(Entries[j]), db[i].ver)

RowsOf(s) == [j \in DOMAIN s |-> [id |-> s[j].id, update |-> HasUpdate(s[j].id)]]

\* rebuild_list: lines of the database, or entries this machine can run.
Listed(w) ==
    IF view[w] = "installed"
    THEN RowsOf(Where(db, filter[w]))
    ELSE RowsOf(Where(Entries, filter[w] \cap Runs))

Selected(w) == IF sel[w] # 0 /\ sel[w] \in DOMAIN rows[w] THEN rows[w][sel[w]].id ELSE NoId

Buttons == {"info", "install", "remove", "run", "adopt", "upgrade",
            "update", "upgradeAll", "refresh"}
\* update_action_state: the buttons that apply to the selection, and while an
\* operation runs none but Info.
Offered(w) ==
    LET id == Selected(w) IN
    {x \in Buttons :
        \/ x = "info" /\ id # NoId
        \/ /\ ~busy[w]
           /\ \/ x \in {"update", "upgradeAll", "refresh"}
              \/ x = "adopt" /\ id # NoId
              \/ x = "install" /\ id # NoId /\ view[w] = "available"
              \/ x \in {"remove", "run"} /\ IsInstalled(id)
              \/ x = "upgrade" /\ HasUpdate(id)}

Relabel(w) == can' = [can EXCEPT ![w] = Offered(w)']

FirstView(w) == IF w \in Muis THEN "available" ELSE "installed"

Rebuild(w) ==
    /\ rows' = [rows EXCEPT ![w] = Listed(w)']
    /\ lit' = [lit EXCEPT ![w] = NoId]

-----------------------------------------------------------------------------
(***************************************************************************)
(* Commands: what the CLI does to the disk (PackageStore, Installer and    *)
(* Repos have the detail).  A command that fails has done part of its work.*)
(***************************************************************************)
Command(do, id) == [do |-> do, id |-> id]
Echo == Command("echo", NoId)      \* Echo $RC >done

\* The script of an operation; Update All and the MUI's check refresh the
\* catalog first.
Script(op, id) ==
    CASE op = "upgradeAll" -> <<Command("update", NoId), Command("upgrade", NoId), Echo>>
      [] op = "check"      -> <<Command("update", NoId), Command("read", NoId), Echo>>
      [] op = "submit"     -> <<Command("read", NoId), Echo>>
      [] op = "installTo"  -> <<Command("install", id), Echo>>
      [] OTHER             -> <<Command(op, id), Echo>>

Without(S) == Where(db, Ids \ S)
OfferedVersions(id) == {Entries[j].ver : j \in {i \in DOMAIN Entries : Entries[i].id = id}}
\* Upgrading removes a package's line and appends the new one.
Upgraded(S) ==
    LET old == Where(db, S)
    IN Without(S) \o [j \in DOMAIN old |->
           [id |-> old[j].id, ver |-> CHOOSE v \in OfferedVersions(old[j].id) : TRUE]]

ToUpgrade(c) == {id \in Ids : (c.id = NoId \/ id = c.id) /\ Outdated(id)}

\* The databases a successful command may leave.
Databases(c) ==
    CASE c.do = "install" -> {Append(Without({c.id}), [id |-> c.id, ver |-> v]) :
                                  v \in OfferedVersions(c.id)}
      [] c.do = "adopt"   -> {Append(Without({c.id}), [id |-> c.id, ver |-> v]) :
                                  v \in OfferedVersions(c.id) \cup {Unknown}}
      [] c.do = "remove"  -> IF IsInstalled(c.id) THEN {Without({c.id})} ELSE {}
      [] c.do = "upgrade" -> {Upgraded(ToUpgrade(c))}
      [] OTHER            -> {db}

\* And one that fails: a package's old version goes before the new one comes,
\* adopt drops the line first, and upgrade goes on with the other packages.
Remains(c) ==
    CASE c.do \in {"install", "adopt"} -> {db, Without({c.id})}
      [] c.do = "upgrade" -> {db} \cup {Where(Upgraded(S), Ids \ lost) :
                                 S \in (SUBSET ToUpgrade(c)) \ {ToUpgrade(c)},
                                 lost \in SUBSET ToUpgrade(c)}
      [] OTHER            -> {db}

\* update succeeds when one of the enabled repositories could be updated.
Refreshed(R) == [r \in Repositories |-> IF r \in R THEN pub ELSE cat[r]]
Execute(c, rc) ==
    \/ /\ c.do = "update" /\ UNCHANGED db
       /\ \E R \in SUBSET Enabled : (rc = 0 <=> R # {}) /\ cat' = Refreshed(R)
    \/ /\ c.do # "update" /\ UNCHANGED cat
       /\ db' \in IF rc = 0 THEN Databases(c) ELSE Remains(c)

\* A list is fresh as long as the disk is as it was when the list was built.
Aged ==
    IF <<db, cat, off>>' = <<db, cat, off>> THEN UNCHANGED <<fresh, changes>>
    ELSE /\ changes < MaxChanges /\ changes' = changes + 1
         /\ fresh' = [w \in Windows |-> FALSE]

NoFile == -1
NoScript == [left |-> <<>>, rc |-> 0, alone |-> TRUE]

\* The files in RAM: have one name per program, and nothing keeps a second
\* copy from starting.
Programs == {"amipkg-gui", "amipkg-mui"}
Program(w) == IF w \in GadTools THEN "amipkg-gui" ELSE "amipkg-mui"
Copies(w)  == {v \in Windows \ {w} : Program(v) = Program(w)}
ASYNC_DONE(w) == Program(w)

\* One line of a detached script.  The programs it starts may hang: no
\* fairness.
Alive(w) == script[w].left # <<>>
RunLine(w) ==
    /\ Alive(w) /\ Head(script[w].left) # Echo
    /\ \E rc \in {0, 10} :
          /\ Execute(Head(script[w].left), rc)
          /\ script' = [script EXCEPT ![w].left = Tail(@), ![w].rc = rc]
    /\ UNCHANGED off /\ Aged
    /\ UNCHANGED <<pub, running, orphans, done, busy, ticks, view, filter, rows, sel, can, lit, asks>>

\* Echo $RC >ASYNC_DONE.
WriteDone(w) ==
    /\ Alive(w) /\ Head(script[w].left) = Echo
    /\ script' = [script EXCEPT ![w].left = <<>>]
    /\ done' = [done EXCEPT ![ASYNC_DONE(w)] = script[w].rc]
    /\ UNCHANGED <<disk, running, orphans, busy, ticks, list, asks>>

\* A script nobody waits for ends, too.  What its commands do meanwhile is
\* among what a shell may do.
OrphanEnds(p) ==
    /\ orphans[p] /\ \E more \in BOOLEAN : orphans' = [orphans EXCEPT ![p] = more]
    /\ \E rc \in {0, 10} : done' = [done EXCEPT ![p] = rc]
    /\ UNCHANGED <<disk, running, script, busy, ticks, list, asks>>

ShellCommands ==
    {Command(do, NoId) : do \in {"update", "upgrade"}}
        \cup {Command(do, id) : do \in {"install", "remove", "upgrade", "adopt"}, id \in Ids}

\* Somebody uses a shell, or switches the other repository; publishers work.
ShellCommand ==
    /\ changes < MaxChanges
    /\ \/ /\ \E c \in ShellCommands, rc \in {0, 10} : Execute(c, rc)
          /\ UNCHANGED off
       \/ off' = ~off /\ UNCHANGED <<db, cat>>
    /\ Aged
    /\ UNCHANGED <<pub, running, async, view, filter, rows, sel, can, lit, asks>>

Publish ==
    /\ pub < Len(Catalogs) /\ pub' = pub + 1
    /\ UNCHANGED <<db, cat, off, changes, running, async, list, asks>>

-----------------------------------------------------------------------------
(***************************************************************************)
(* Starting an operation and learning how it ended.                        *)
(***************************************************************************)
StaleDone(w) == done                                              \* mutant
NoDone(w) == [done EXCEPT ![ASYNC_DONE(w)] = NoFile]

\* Will another script write the file this window's operation waits for?
Contended(w) == orphans[Program(w)] \/ \E v \in Copies(w) : Alive(v)

\* run_async with a free window: the old files go, the script is written and
\* launched, the buttons are locked.  A copy that waits is not alone any more.
Launches(w, op, id) ==
    /\ ~busy[w]
    /\ UNCHANGED <<disk, running, orphans, view, filter, rows, sel, lit, fresh>>
    /\ done' = NoDone(w)
    /\ script' = [v \in Windows |->
           IF v = w THEN [left |-> Script(op, id), rc |-> 0, alone |-> ~Contended(w)]
           ELSE IF v \in Copies(w) /\ busy[v] THEN [script[v] EXCEPT !.alone = FALSE]
           ELSE script[v]]
    /\ busy' = [busy EXCEPT ![w] = TRUE] /\ ticks' = [ticks EXCEPT ![w] = 0]
    /\ asks' = [asks EXCEPT ![w] = NoAsk]
    /\ Relabel(w)

\* The script cannot be written (a copy's is running), or the system cannot
\* start it; a busy window refuses before it touches the files.
LaunchFails(w) ==
    /\ done' = IF busy[w] THEN done ELSE NoDone(w)
    /\ asks' = [asks EXCEPT ![w] = NoAsk]
    /\ UNCHANGED <<disk, running, script, orphans, busy, ticks, list>>

RunAsync(w, op, id) == Launches(w, op, id) \/ LaunchFails(w)

\* poll_async runs in the event loop: never while a requester is open.
ListensAlways(w) == w \in running                                \* mutant
Listening(w) == w \in running /\ asks[w] = NoAsk

\* A script still running when its window stops waiting becomes an orphan.
StopsWaiting(w) ==
    /\ script' = [script EXCEPT ![w] = NoScript]
    /\ orphans' = [orphans EXCEPT ![Program(w)] = @ \/ Alive(w)]

KeepsSelection(w) == UNCHANGED sel                               \* mutant
Deselect(w) == sel' = [sel EXCEPT ![w] = 0]

\* The done file is there: report, rebuild, and tell of a failure or of a new
\* amipkg in a requester before the buttons come back.
Finished(w) ==
    /\ busy[w] /\ Listening(w) /\ done[ASYNC_DONE(w)] # NoFile
    /\ UNCHANGED <<disk, running, view, filter>>
    /\ busy' = [busy EXCEPT ![w] = FALSE] /\ ticks' = [ticks EXCEPT ![w] = 0]
    /\ done' = NoDone(w)
    /\ StopsWaiting(w)
    /\ Rebuild(w) /\ Deselect(w) /\ fresh' = [fresh EXCEPT ![w] = TRUE]
    /\ \/ asks' = [asks EXCEPT ![w] = Report] /\ UNCHANGED can
       \/ done[ASYNC_DONE(w)] = 0 /\ Relabel(w) /\ UNCHANGED asks

NeverGivesUp(w) == FALSE                                         \* mutant
GivesUp(w) == ticks[w] = MaxTicks

\* No done file yet; when the watchdog fires the window gives the operation
\* up, the script goes on.
Waits(w) ==
    /\ busy[w] /\ Listening(w) /\ done[ASYNC_DONE(w)] = NoFile
    /\ UNCHANGED <<disk, running, done, view, filter, rows, sel, lit, fresh, asks>>
    /\ \/ /\ ticks[w] < MaxTicks /\ ticks' = [ticks EXCEPT ![w] = @ + 1]
          /\ UNCHANGED <<script, orphans, busy, can>>
       \/ /\ GivesUp(w)
          /\ busy' = [busy EXCEPT ![w] = FALSE] /\ ticks' = [ticks EXCEPT ![w] = 0]
          /\ StopsWaiting(w) /\ Relabel(w)

Poll(w) == Finished(w) \/ Waits(w)

-----------------------------------------------------------------------------
(***************************************************************************)
(* The list.                                                               *)
(***************************************************************************)
AtRest(w) == w \in running /\ asks[w] = NoAsk

\* A click on row s (0: on no row): the selection, the buttons, the status.
Select(w, s) ==
    /\ AtRest(w) /\ s \in 0..Len(rows[w])
    /\ UNCHANGED <<disk, running, async, view, filter, rows, fresh, asks>>
    /\ sel' = [sel EXCEPT ![w] = s]
    /\ lit' = [lit EXCEPT ![w] = Selected(w)']
    /\ Relabel(w)

\* switch_view, Find, the category and Refresh: another list, nothing selected.
Show(w, v, f) ==
    /\ AtRest(w)
    /\ UNCHANGED <<disk, running, async, asks>>
    /\ view' = [view EXCEPT ![w] = v] /\ filter' = [filter EXCEPT ![w] = f]
    /\ Rebuild(w) /\ Deselect(w) /\ fresh' = [fresh EXCEPT ![w] = TRUE]
    /\ Relabel(w)

\* The program is quit, also while an operation runs, and started again with
\* its own first view; its files and its script stay.
Restart(w) ==
    /\ AtRest(w)
    /\ UNCHANGED <<disk, running, done, asks>>
    /\ busy' = [busy EXCEPT ![w] = FALSE] /\ ticks' = [ticks EXCEPT ![w] = 0]
    /\ StopsWaiting(w)
    /\ view' = [view EXCEPT ![w] = FirstView(w)] /\ filter' = [filter EXCEPT ![w] = Ids]
    /\ Rebuild(w) /\ Deselect(w) /\ fresh' = [fresh EXCEPT ![w] = TRUE]
    /\ Relabel(w)

-----------------------------------------------------------------------------
(***************************************************************************)
(* The handlers.  A requester (also asl.library's) holds up the program;   *)
(* what it leads to is in Confirm.  A handler that only refuses is no step.*)
(***************************************************************************)
Ask(w, op, id) ==
    /\ AtRest(w) /\ asks' = [asks EXCEPT ![w] = [op |-> op, id |-> id]]
    /\ UNCHANGED <<disk, running, async, list>>

AskSelected(w, op) == Selected(w) # NoId /\ Ask(w, op, Selected(w))

\* GadTools.
GuiUpdateCatalog(w)  == AtRest(w) /\ RunAsync(w, "update", NoId)
GuiCheck(w)          == HasCatalog /\ (\E id \in Ids : Outdated(id)) /\ Ask(w, "note", NoId)
GuiUpgradeAll(w)     == ~busy[w] /\ Ask(w, "upgradeAll", NoId)
GuiInfo(w)           == HasCatalog /\ Selected(w) # NoId /\ Ask(w, "note", NoId)
GuiAdopt(w)          == ~busy[w] /\ IF Selected(w) = NoId THEN Ask(w, "note", NoId)
                                    ELSE AskSelected(w, "adopt")
GuiSetDir(w)         == Ask(w, "note", NoId)
GuiInstallTo(w)      == ~busy[w] /\ AskSelected(w, "installTo")
GuiUpdateSelected(w) == /\ AtRest(w) /\ ~busy[w] /\ Selected(w) # NoId
                        /\ RunAsync(w, "upgrade", Selected(w))
GuiRemove(w)         == ~busy[w] /\ AskSelected(w, "remove")
GuiInstall(w)        == ~busy[w] /\ AskSelected(w, "install")
GuiSubmit(w)         == ~busy[w] /\ Ask(w, "submit", NoId)

\* The repository window is modal.  When it closes after a change the list is
\* rebuilt, but the buttons are left as they are.
GuiRepos(w) == ~busy[w] /\ Ask(w, "repos", NoId)
GuiSwitchRepo(w) ==
    /\ asks[w].op \in {"repos", "reposChanged"}
    /\ off' = ~off /\ asks' = [asks EXCEPT ![w].op = "reposChanged"]
    /\ UNCHANGED <<db, cat>> /\ Aged
    /\ UNCHANGED <<pub, running, async, view, filter, rows, sel, can, lit>>
GuiReposClosed(w) ==
    /\ asks[w].op = "reposChanged" /\ asks' = [asks EXCEPT ![w] = NoAsk]
    /\ UNCHANGED <<disk, running, async, view, filter, can>>
    /\ Rebuild(w) /\ Deselect(w) /\ fresh' = [fresh EXCEPT ![w] = TRUE]

\* MUI.  Its check is an operation, its repository page is not modal and does
\* not care about a running operation.  Emptying the list unselects its row,
\* which MUI reports like a click (ID_SELECT): the buttons follow.
MuiUpdateCatalog(w)  == AtRest(w) /\ RunAsync(w, "update", NoId)
MuiCheck(w)          == AtRest(w) /\ RunAsync(w, "check", NoId)
MuiUpgradeAll(w)     == ~busy[w] /\ Ask(w, "upgradeAll", NoId)
MuiInfo(w)           == HasCatalog /\ Selected(w) # NoId /\ Ask(w, "note", NoId)
MuiInstall(w)        == ~busy[w] /\ AskSelected(w, "install")
MuiRemove(w)         == ~busy[w] /\ AskSelected(w, "remove")
MuiAdopt(w)          == ~busy[w] /\ IF Selected(w) = NoId THEN Ask(w, "note", NoId)
                                    ELSE AskSelected(w, "adopt")
MuiInstallTo(w)      == AskSelected(w, "installTo")
MuiUpdateSelected(w) == AtRest(w) /\ Selected(w) # NoId /\ RunAsync(w, "upgrade", Selected(w))
MuiSetDir(w)         == Ask(w, "note", NoId)
MuiSubmit(w)         == AtRest(w) /\ ~busy[w] /\ RunAsync(w, "submit", NoId)
MuiSwitchRepo(w) ==
    /\ AtRest(w) /\ off' = ~off /\ changes < MaxChanges /\ changes' = changes + 1
    /\ UNCHANGED <<db, cat, pub, running, async, view, filter, asks>>
    /\ Rebuild(w) /\ Deselect(w) /\ fresh' = [v \in Windows |-> v = w]
    /\ Relabel(w)

Operations == {"upgradeAll", "install", "installTo", "remove", "adopt", "submit"}
\* The package a confirmed operation names: GadTools copies the id of an
\* install before it asks; everything else reads the selected row afterwards.
Target(w) ==
    CASE asks[w].op \in {"upgradeAll", "submit"}      -> NoId
      [] asks[w].op = "install" /\ w \in GadTools     -> asks[w].id
      [] OTHER                                        -> Selected(w)

Confirm(w) == asks[w].op \in Operations /\ RunAsync(w, asks[w].op, Target(w))

\* Cancel, or OK on a message: poll_async goes on to set the buttons.
Dismiss(w) ==
    /\ asks[w] # NoAsk /\ asks[w].op # "reposChanged"
    /\ UNCHANGED <<disk, running, async, view, filter, rows, sel, lit, fresh>>
    /\ asks' = [asks EXCEPT ![w] = NoAsk]
    /\ \/ asks[w] = Report /\ Relabel(w)
       \/ asks[w] # Report /\ UNCHANGED can

GuiHandler(w) ==
    \/ GuiUpdateCatalog(w) \/ GuiCheck(w) \/ GuiUpgradeAll(w) \/ GuiInfo(w)
    \/ GuiAdopt(w) \/ GuiSetDir(w) \/ GuiInstallTo(w) \/ GuiUpdateSelected(w)
    \/ GuiRemove(w) \/ GuiInstall(w) \/ GuiSubmit(w)
    \/ GuiRepos(w) \/ GuiSwitchRepo(w) \/ GuiReposClosed(w)

MuiHandler(w) ==
    \/ MuiUpdateCatalog(w) \/ MuiCheck(w) \/ MuiUpgradeAll(w) \/ MuiInfo(w)
    \/ MuiInstall(w) \/ MuiRemove(w) \/ MuiAdopt(w) \/ MuiInstallTo(w)
    \/ MuiUpdateSelected(w) \/ MuiSetDir(w) \/ MuiSubmit(w) \/ MuiSwitchRepo(w)

Init ==
    /\ db = FirstDb /\ cat = [r \in Repositories |-> FirstCat]
    /\ pub = 1 /\ changes = 0 /\ off = FALSE
    /\ script = [w \in Windows |-> NoScript] /\ orphans = [p \in Programs |-> FALSE]
    /\ done = [p \in Programs |-> NoFile]
    /\ running \in SUBSET Windows /\ Cardinality(running) \in 1..MaxWindows
    /\ busy = [w \in Windows |-> FALSE] /\ ticks = [w \in Windows |-> 0]
    /\ view = [w \in Windows |-> FirstView(w)] /\ filter = [w \in Windows |-> Ids]
    /\ rows = [w \in Windows |-> Listed(w)] /\ sel = [w \in Windows |-> 0]
    /\ can = [w \in Windows |-> Offered(w)] /\ asks = [w \in Windows |-> NoAsk]
    /\ lit = [w \in Windows |-> NoId] /\ fresh = [w \in Windows |-> TRUE]

Next ==
    \/ \E w \in Windows :
          \/ RunLine(w) \/ WriteDone(w)
          \/ Restart(w) \/ Poll(w) \/ Confirm(w) \/ Dismiss(w)
          \/ \E s \in 0..Len(rows[w]) : Select(w, s)
          \/ \E v \in {"installed", "available"}, f \in Filters : Show(w, v, f)
    \/ \E w \in GadTools : GuiHandler(w)
    \/ \E w \in Muis : MuiHandler(w)
    \/ \E p \in Programs : OrphanEnds(p)
    \/ ShellCommand \/ Publish

Spec == Init /\ [][Next]_vars

\* The MUI program polls every 250 ms.  INTUITICKS, which call the GadTools
\* program, come only while its window is the active one: no fairness there,
\* nor for scripts, which may hang, nor for users, who may leave a requester open.
FairSpec == Spec /\ \A w \in Muis : SF_vars(Poll(w))

-----------------------------------------------------------------------------
TypeOK ==
    /\ db \in Seq(Line) /\ cat \in [Repositories -> 0..Len(Catalogs)] /\ pub \in 1..Len(Catalogs)
    /\ off \in BOOLEAN /\ changes \in 0..MaxChanges
    /\ running \subseteq Windows
    /\ done \in [Programs -> {0, 10, NoFile}]
    /\ busy \in [Windows -> BOOLEAN] /\ ticks \in [Windows -> 0..MaxTicks]
    /\ view \in [Windows -> {"installed", "available"}] /\ filter \in [Windows -> Filters]
    /\ \A w \in Windows :
          /\ rows[w] \in Seq([id : Ids, update : BOOLEAN])
          /\ sel[w] \in 0..Len(rows[w]) /\ can[w] \subseteq Buttons
          /\ ~busy[w] => script[w] = NoScript
    /\ orphans \in [Programs -> BOOLEAN]
    /\ lit \in [Windows -> Ids \cup {NoId}] /\ fresh \in [Windows -> BOOLEAN]

\* What a window finds in the done file is the result of the operation it
\* waits for, after all its commands ended, and the rc of the last: not of an
\* earlier operation, not of the other program's.  Exempt are operations beside
\* another script of the same program, a copy's or one given up: those may find
\* its result in the file.
OwnResult ==
    \A w \in Windows :
        busy[w] /\ script[w].alone /\ done[ASYNC_DONE(w)] # NoFile =>
            ~Alive(w) /\ done[ASYNC_DONE(w)] = script[w].rc

\* A script names the package the user was shown: the one the requester names,
\* else the one last shown as selected, although lists are rebuilt behind
\* selections, requesters and repository pages.
ActsOnPicked ==
    [][\A w \in Windows :
         ~busy[w] /\ busy'[w] =>
             LET c == Head(script'[w].left)
                 shown == IF asks[w] = NoAsk THEN lit[w] ELSE asks[w].id
             IN c.do \in {"install", "remove", "adopt", "upgrade"} =>
                    c.id # NoId /\ c.id = shown]_vars

\* While an operation runs nothing that changes something is offered.  As long
\* as the disk is as it was when the list was built, "Update Selected" is
\* offered exactly on rows marked UPDATE and, unless the entry has a
\* sortVersion, exactly when "upgrade <id>" would install something; "Remove"
\* exactly for installed packages.
ButtonsTruthful ==
    \A w \in Windows :
        /\ busy[w] => can[w] \subseteq {"info"}
        /\ w \in running /\ Selected(w) # NoId /\ fresh[w] /\ ~busy[w] /\ asks[w] # Report =>
              LET r == rows[w][sel[w]] IN
              /\ "upgrade" \in can[w] <=> r.update
              /\ "remove" \in can[w] <=> IsInstalled(r.id)
              /\ (\A j \in DOMAIN Entries : Entries[j].id = r.id => Entries[j].sort = NoSort)
                    => (r.update <=> Outdated(r.id))

\* The MUI window does not stay busy, even if its script hangs, unless the user
\* leaves requesters open.
WaitEnds == \A w \in Muis : []<>Listening(w) => (busy[w] ~> ~busy[w])
=============================================================================
