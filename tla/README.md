# amipkg: TLA+ models, model checks and proofs

`amipkg` is a package manager for AmigaOS: a command line program, two GUI front-ends (`gui.c` on
GadTools, `mui.c` on MUI) and a portable core of parsers and algorithms.  This directory holds TLA+
models of the parts that keep state on the user's disk, of the windows over them and of the algorithms
they rely on, TLC runs over small instances, and theorems that TLAPS has checked.  Paths below are relative to `src/` of the repository's
own `src/` (so `amiga/main.c` is `src/src/amiga/main.c`).

## 1. Inventory

### Components, their state, their operations

| Component | State | Operations | What makes it correct |
|---|---|---|---|
| Receipt database (`core/store.c`, `core/receipts.c`, writers in `main.c`, `install.c`) | `db/installed.txt`, `db/files/<id>.files` (and `.new`), `db/scripts/<id>.edits`, `.remove` | append a line, rewrite without an id, append inventory lines, keep the tail of an oversize inventory, drop | one line per package; a change concerns one package; nothing on disk without an owner |
| Install engine (`install_entry`, `amipkg_execute`, `gen_install_rec`) | the disk, `cache/extract`, the receipt being written | extract, test for emptiness, remove the old version or forget it (self-upgrade), copy, promote libraries, record, prune, hooks, commit | the new version's files have the archive's content and are recorded; the old version goes only when the new one is there; amipkg itself never disappears but for the moment it is overwritten |
| Removal (`cmd_remove`) | the same | classify, delete, keep the tail, rewrite, strip overlays | user-modified and shared files survive; nothing is forgotten |
| Adoption (`cmd_adopt`) | the same | drop the old receipt, list a drawer, commit | the database stays a ledger |
| Start-up (`amipkg_ensure_dirs`, `selfseed_receipt`) | amipkg's own line and inventory | seed, rewrite the version | the line agrees with the running binary |
| Download (`fetch_verified`, `http_get_file`, `do_get`) | `cache/<name>`, `cache/<name>.part` | cached?, open, request, redirect, restart, receive, next mirror, verify, replace | what is used is what was pinned; the cache holds whole archives; retries make progress |
| Resolver (`core/resolve.c`) | the plan and the list of missing targets, 64 entries each | pick, visit | whole closure, dependencies first, nobody twice, missing targets reported |
| Install and upgrade loops (`cmd_install2`, `cmd_upgrade`) | a *static* resolver result, the upgrade's snapshot | refuse, load, resolve, loop | order, bystanders untouched, truthful result, every outdated package tried |
| Repositories (`core/arepo.c`, `cmd_repo`, `cmd_update`, the repository windows) | `config/repos`, a catalog file per repository, the window's copy of the list | add, remove, switch, move, update, merge | unique ids, own key vouches, one dead mirror blocks nobody, first match wins |
| GUI background operations (`run_async`, `run_async2`, `poll_async`) | script, output and done file in `RAM:`, `g_busy`, `g_busy_ticks` | launch a detached script, poll, watchdog | one operation at a time, its own result, nobody waits for ever |
| GUI lists, buttons, handlers (`gui.c`, `mui.c`) | the rows, the selection, view, filter, disabled buttons, an open requester | rebuild, select, switch view, ask, confirm | the command names what the user picked; buttons say what the commands would do |
| Recipes (`core/arecipe.c`, `core/arun.c`, `amipkg_run_recipe`) | a plan of at most `ARUN_MAX_OPS` operations | parse, glob, plan, run | a recipe that is begun was understood and is run as it is meant; what is reported is what was placed |
| Versions and architectures (`core/aver.c`, `core/aindex.c`) | none | compare, `aidx_arch_runs_on` | a total preorder; numbers by value; the unknown apart; an empty list means m68k |
| Boot scripts (`inject_script`, `amipkg_strip_overlay`) | lines of `S:User-Startup` | read, empty, write; both editors | one block per package, of its version; the user's lines untouched |
| Floppy images (`core/adfread.c`) | none | walk drawers, follow block tables | every file once, whole, at its place; damaged images end in bounds |
| Catalog and JSON parsing, SHA-256, Ed25519, GUI layout, queries, submission | none that survives | | see section 6 |

### How they interact

A command is one process.  `main` runs `amipkg_ensure_dirs` (self-seeding) and then `dispatch`.
`install` and `upgrade` load the merged catalog, resolve, and call `install_entry` for each package
of the plan; `install_entry` calls `fetch_verified`, extracts into the shared `cache/extract`, and, for a
package that is installed, calls `cmd_remove` with FORCE.  `remove` and `adopt` work on the same database.
`update` reads `config/repos` once and fetches catalog after catalog.  The GUIs start the same
commands detached, as AmigaDOS scripts in `RAM:`, and learn their result by polling for a file; only
their repository window writes a file (`config/repos`) itself, from a list it read earlier.  Nothing
locks anything: shells, windows and commands meet in the files.

### What is hard

* **Crashes**: files are rewritten in place (emptied, later written), in several places.
* **Unreliable peers**: bodies cut short, other archives under the same URL, ignored ranges.
* **Limits**: `MAX_FILES` lines of an inventory per pass, 256 reported paths, 64 plan entries.
* **Stale state**: `cache/extract` is never emptied, `ares_result` is never reset, the window's
  list is old, a removed repository's catalog stays.
* **Partial failure**: results ignored (`Write`, `remove`, `cmd_remove`).
* **Interleaving**: shell, GUI window and a running update over `config/repos`; a user's save
  between an edit's read and its rewriting of the boot script; lists that are rebuilt behind a selection, an open requester or a running operation.
* **Timeouts**: after 30 minutes a window gives an operation up that goes on, and starts the next; the files
  they share have one name per program.
* **Damaged input**: images, recipes and version texts of any shape.

`PROJECT.json` lists each hazard at its line with the properties that watch it.

## 2. Modules

| Module | Models | EXTENDS / uses |
|---|---|---|
| `PackageStore` | database, install, remove, adopt, self-seeding, power cuts | instance of `Ledger` |
| `Ledger` | what the database promises, abstractly | |
| `Download` | cache and transfer | |
| `Resolver` | `ares_resolve` as a machine with an explicit stack | |
| `Installer` | `cmd_install2`, `cmd_upgrade` | extends `Resolver` |
| `Repos` | list, update, merged catalog | |
| `FrontEnds` | `gui.c` and `mui.c`: lists, buttons, handlers, background operations | |
| `BootScript` | the boot script line by line, with the user editing it | |
| `Versions` | the order of versions, the test of architectures | |
| `Recipe` | globs, planning, running a recipe | |
| `Floppy` | the reader of floppy images | |
| `MCStore`, `MCDownload`, `MCResolver`, `MCInstaller`, `MCRepos`, `MCFrontEnds`, `MCBootScript` | the instances TLC runs | extend the above |
| `MCAlgorithms` | inputs for the three pure modules | extends `Versions`, `Recipe` and `Floppy` |
| `PackageStoreProofs`, `DownloadProofs`, `FrontEndProofs`, `ReposProofs`, `ResolverProofs` | theorems about one module each | extend the module and `TLAPS` |
| `InstallerProofs` | theorems about the install and upgrade loops | extends `Installer` and `ResolverProofs` |
| `BootScriptProofs` | theorems about the two editors of the boot script | extends `BootScript` |
| `AlgorithmProofs` | theorems about the pure modules, for inputs of any size | extends `MCAlgorithms` |

Each module starts with the abstraction it makes of the data.  Definitions with the trailing comment
`mutant` are deliberately wrong variants of the definition that follows; no specification uses them.  They
show that a property notices the bug.

### PackageStore

`disk`, `extract`, `inv`, `db`, `hooks`, `boot` are what survives a power cut; `cat` is the cached catalog; the
other variables are the running program's memory and vanish with `End`.  A file is its content, named by
the package and version it came from, `Edited` (the user's bytes) or `Cut` (an emptied
file, or a part of a copy).  `copy_file` is two steps: opening the destination empties it (`OpenTarget`), writing fills it, and
the power may fail in between.
Digests are equal iff contents are.

| Actions | Code |
|---|---|
| `Start`, `StartUnrecorded`, `Seed`, `StartOutdated` | `selfseed_receipt`, `seed_amipkg_file_inventory` |
| `Extract`, `ExtractFails` | `amipkg_extract`, `amipkg_extract_nonempty`, the branch on `pkg_installed` |
| `Forget`, then `TruncateDb`, `WriteDb` | `receipt_forget` (self-upgrade) |
| `CmdRemove`, `Classify`, `DeleteOne`, `KeepTail`, `RenameTail`, `TruncateDb`, `WriteDb`, `DropInventory`, `StripOverlay` | `cmd_remove` from top to bottom |
| `RecipeRefuses`, `Run`, `OpenCopy`, `CopyOne`, `OpenPromotion`, `Promote`, `Record`, `NothingInstalled`, `Finish`, `Commit` | the second half of `install_entry`, with `amipkg_run_recipe`, `amipkg_execute`, `amipkg_install_generic_recorded` |
| `Adopt`, `AdoptFails`, `AdoptInventory` | `cmd_adopt`, `amipkg_adopt_inventory` |
| `Publish`, `UserWrites`, `Crash` | the world |

Deliberate simplifications: the blocks of a copy are written in one step; seeding and `Finish` (prune and hook files) are single steps; the overlay is
injected in `Run`, before the copies; the order of lines of different packages in `installed.txt`, the
cap of 320 packages, the 512-entry walk, the space preflight, the choice of a single top drawer, the routing of
system drawers, and the copy of the new binaries to other homes (`amipkg_selfupdate_mirror`) are left out.
`lha` is external: it adds to `cache/extract` and overwrites.

### Download

`pkg` is the catalog entry being fetched, `url` 0 for `archive_url` and m for its m-th mirror, `have` the length
of `.part` when the transfer from this URL started.  `Answer(a)` lets a server send *any* archive from
that offset on, `BodyEnds` lets it stop *anywhere* (the code never compares with `Content-Length`),
`RangeIgnored` restarts the file, `Redirect` costs a hop.  With `Faithful = TRUE` servers send the
pinned archive to its end; that is the assumption under which a retry ought to succeed.

### Resolver and Installer

Entries are positions in the catalog, because the C code compares pointers.  The recursion of `visit` is a stack of
frames, so that the depth limit and the cycle guard are what they are in C.  In `Installer` the result
is carried from one install of an upgrade to the next.  Every install parses the catalog into some `block` of memory;
`from` says in which block each pointer of the result lies, and a pointer into a block that is freed is negative.  It is good
again when `malloc` hands that block out again.  `placed` compares pointers, so an entry of another block is appended once
more.  What the loop reads through a pointer into freed memory is undefined: the old entry, intact (then it is skipped,
installed or refused as its id says), or something that is skipped or refused (`Skip`, `DependencyRefused`, `InstallEntry`).
Left out is a freed entry that a new block covers in part and that reads as a third package.
What `install_entry` does to one package is a `fate`: ok, refuses (the old version stays), breaks
(fails after the removal).  `amipkg` itself never breaks, which `SelfWhole` in `PackageStore` justifies.

### Repos

`file` is `config/repos`; a save empties it and writes it later (`saving`).  `shown` is the window's copy, from
which its buttons work.  `Publish` changes what a URL answers between any two steps.  A signature is
modelled by the catalog it signs.  The history variables `steady` (URLs that did not change during this update)
and `dropped` (ids that left the list or got another key) occur in properties only.  The `.sig`
file is written and never read again by the program, so it has no variable.  One save runs at a time; failing
`fopen`s and full disks are left out; URL syntax, key syntax and the confirmation of unsigned
repositories are folded into the set `Addable`; a list edited by hand is not considered.

### FrontEnds

One module for both programs, because they were written to behave alike; where they differ (first view,
what is confirmed when, the modal or free repository page, which handlers test `g_busy`) there is
a handler for each, `Gui...` and `Mui...`.

| State | Code |
|---|---|
| `busy`, `ticks`, `done`, `script[w]` | `g_busy`, `g_busy_ticks`, the file `ASYNC_DONE` of each program, the detached script that runs |
| `rows`, `sel`, `view`, `filter`, `can` | the list, `g_selected` or the active row, `g_view`, Find and category, buttons not `GA_Disabled` |
| `asks` | the requester the program hangs in |
| `orphans` | for each program: may scripts still run whose window gave them up or was quit, and write its done file? |
| `db`, `cat`, `pub`, `off` | the database, each repository's catalog on disk, what is published, a repository switched off |

`Windows` are copies of the two programs; the copies of one program share its files in `RAM:` (`Copies`, `ASYNC_DONE`), and a
launch deletes the done file another copy may be waiting for.  A script is a list of commands run one by one, each with rc 0 or
10, and `Echo $RC >done` at the end.  What a command does to the disk is its effect as a whole (`PackageStore`, `Installer` and
`Repos` have the steps): `update` returns 0 when any repository was refreshed, and a command that fails has done part of
its work.  `lit`, `fresh` and the field `alone` of a script are history: they occur in properties only.  Left
out: layout, the order "Newest", the progress line, `action_run`, the texts of the forms, dependencies, scripts whose launch
fails after the command was started, and the buttons that are never disabled (Check, Set Directory, Submit): `Buttons` has
those a property can say something about.

### BootScript

A line has a kind, a package and a writer.  A removal strips, an installation injects, an upgrade does both.  Either edit
reads the script and closes it (`ReadScript`), opens it again, which empties it (`OpenNewFile`), and writes it
(`WriteScript`); the user inserts and deletes lines between any two of these steps but the last.  Any open or read may fail (a script
that cannot be read counts as empty), nobody looks at what `Write` returns, so the writes get as far as they get, and
`PowerCut` comes at any step.  `InjectFails` and `InstallFails` are the ways an installation goes wrong around the script.
`failed` holds the packages whose edit went wrong, `damaged` says that lines were lost or the user edited a line of a block.  Blocks
that Amiga Imager put there carry another tool's token.  The 16 KB buffer is `Cap` lines.

### Versions, Recipe, Floppy

Operators without state, translated from the C functions and compared with a definition of what they
should compute: `Ordered` and `Sensible` for the order, `Means` (the usual meaning of `*` and `?`)
for the glob loop with its single point to come back to, `RunsHere` for lists of architectures (an empty one is
`m68k-amigaos`), `RunAsMeant` for planning and running a recipe, with copies and edits that fail,
`ImageExtracted` and `FileExtracted` for the reader.  Loops and recursions of the C code are recursive functions over the
number of turns, characters or levels.  `AlgorithmProofs` proves all three modules right for inputs of any size (section 5).

## 3. Runs

| Run | Question | Result |
|---|---|---|
| `store_large` | inventories beyond one removal pass, user edits, no power cuts | holds |
| `store_crash` | a power cut between any two steps, also between emptying and writing a file, a file in use | holds |
| `store_empty` | does an empty extraction never destroy an install (`install.c:791`)? | violated |
| `download` | colliding names, changing pins, any servers, power cuts | holds |
| `download_stuck` | does the next attempt resume `.part` (`main.c:704`)? | violated |
| `resolver` | every catalog of four entries of the given shape, three CPUs | holds |
| `install` | installs and upgrades over five catalogs, failing packages, pointers into freed catalogs | holds |
| `upgrade_all` | does `upgrade` upgrade everything (`main.c:1212`)? | violated |
| `repos` | an update beside a shell, a window, publishers, a power cut | holds |
| `gui` | a window of either program beside a shell, publishers and scripts that fail half way, hang or outlive it | holds |
| `boot_script` | three commands, their failures, two user edits and power cuts over one boot script | holds |
| `algorithms` | every input up to a size of the pure algorithms | holds |

Properties of the passing runs:

* `store_large`: `TypeOK`; `ReceiptCovers` (a generic install records all it could write); `InstallRepairs`
  (an install puts the archive's content back, whatever was there); `ModifiedSurvives` (without FORCE only
  recorded contents are deleted); `NeverForgetsFiles` (a path leaves a receipt only when the file is gone, another package
  lists it or it is runtime state); `LedgerSpec` (refinement of `Ledger`).
* `store_crash`: `OneLine`, `SelfWhole` (a complete amipkg binary during every install, but for the step that writes it), `SharedSurvives`,
  `CommandEnds`.
* `download`: `TypeOK`, `FetchedIsPinned`, `CacheWhole`, `GivenUpForVerified`, `FetchEnds`.
* `resolver`: `TypeOK`; `PlanCorrect` (the plan is the closure, dependencies first, nobody twice, and
  what has no provider is reported, within the bounds of the tables); `BestVariant`.
* `install`: `DependenciesFirst` (an install touches a package only when what it depends on is there); `OthersUntouched`
  (what is there and was not asked for stays); `ReportTruthful` (no failure reported means everything asked for is new, whatever
  became of the plan's pointers); `InstallEnds`.
* `repos`: `TypeOK`, `IdsUnique`, `FirstMatchWins`, `CatalogsUsable`, `KeyVouches`, `LiveReposUpdated`,
  `UpdateEnds`.
* `gui`: `TypeOK`; `OwnResult` (a done file found is the own operation's, complete, with the last
  rc, unless another script of the same program ran beside it); `ActsOnPicked` (the command names the package of the requester or of the status line);
  `ButtonsTruthful` (locked while busy, and otherwise agreeing with the marks in the list, the database and what
  `upgrade` would do); `WaitEnds` (a MUI window
  does not stay busy).
* `boot_script`: `OwnLinesKept` (the user's lines outside blocks survive, in their order, through every
  edit of a script that was read and written in full);
  `BlocksFollowReceipts` (an installed package has exactly its version's block, another none, nobody two of amipkg's,
  also after an edit that failed).
* `algorithms`: `VersionsOrdered`, `RecipesRunAsMeant`, `FloppiesExtracted`.

### What the properties exempt

Where the code gives no guarantee a property says so instead of leaving the case out of the model:

* `PlanCorrect`, `DependenciesFirst`, `ReportTruthful`: a table that has been full (`HasRoom`), because `ares_resolve` drops what does
  not fit in silence.  `DependenciesFirst` also exempts a package installed through a pointer into freed memory, whose dependencies
  are read there too.
* `SelfWhole`: the step between emptying and writing the binary (`WritingBinary`).
* `OwnResult`: operations beside another script of the same program (`alone`), a copy's or one the watchdog gave up.
* `OwnLinesKept`, `BlocksFollowReceipts`: a script that changed between an edit's read and its rewriting, did not fit the buffer,
  could not be read or was not written to the end, or a block the user edited (`damaged`); a package whose edit failed has at most one
  block of each tool until a removal strips it (`failed`).
* `RecipesRunAsMeant`: recipes and archives larger than the tables; `ButtonsTruthful`: entries with a `sortVersion`.

### Bounds and why they are enough

* *Store*: amipkg, a generic package that bundles a library, and a recipe package that owns the same
  library in `LIBS:`; two versions each, one of them an empty archive.  That is one instance of every branch of
  `install_entry`.  Three commands reach install, upgrade or second install, removal; a violation of `OneLine`
  needs two.  `MaxFiles = 2` makes three lines oversize (reinstalls double the lines); `MaxFiles = 9` in
  `store_crash` is never reached, which separates the two causes of doubled lines.  `NeverForgetsFiles` runs without power
  cuts and files in use: with either the code does forget files (see the hazards at `main.c:1515` and
  `main.c:1543`).  `DiskFull` is FALSE: with TRUE `SelfWhole` fails at once, as `copy_file`
  ignores the result of `Write`.  `Runtime` is empty.
* *Download*: archives of one and two blocks, so that a prefix, a whole file, an overlong and a mixed file exist; two
  packages with one cache name; one mirror; all four hops; one new pin and one fault.
* *Resolver*: two packages with up to two dependencies each on any name (cycles, diamonds, missing and virtual
  targets included) and two builds of a virtual package with their own dependencies.  The table has three
  entries and four packages exist, so that full tables occur.
* *Installer*: chains, cycles, a build-time and an unfit dependency, a virtual one; one failing package;
  every choice of installed packages; one command, as a command starts a fresh process.  Two blocks of memory: the next
  catalog lies where the last one lay, or elsewhere, and a block can come back.  A plan of five has room for the
  closure of every package, and duplicates fill it, so that full tables occur too.
* *Repos*: two repositories, three ways to add one, two edits, one publication, one update, one power cut.
  Two edits are needed to remove a repository and add it again.
* *FrontEnds*: two packages, one of them from a repository that can be switched off and, in the second
  catalog published, with a `sortVersion` that differs from its version; both views, all packages or one of
  them found; the watchdog fires at the second tick.  In one behaviour one of the two programs runs (`MaxWindows = 1`), which
  meets scripts an earlier run of the program left behind: what another window could do to the database is among what the shell
  does, and that windows of both programs and any number of copies do not mix up results is proved.  `MaxChanges = 1` bounds changes of the disk: one change
  makes a list stale, and every change that can is tried.  Restarts, launches and requesters are not bounded.
* *BootScript*: two packages and two versions (an upgrade must replace the block), two lines of the
  user's, blocks of both tools in the first state; two edits can destroy a begin and an end line.  With
  three commands a package is installed, upgraded and removed, and two blocks and an own line pass the
  buffer of eight lines.  Packages are alike, and so are the user's lines (`SYMMETRY`).  States after the damage are not looked at
  (`CONSTRAINT`): a damaged script stays damaged, and the properties say nothing of it.
* *Algorithms*: version texts of up to three characters over two digits, two letters and a separator, all
  pairs, and triples of the shorter ones; architecture lists of up to four characters with names cut at two;
  patterns of three and texts of four characters; recipes of two operations out of nine over trees of three
  entries, with tables that hold two and three; images of four blocks besides the boot block, where every link
  can lead anywhere, and files of two tables.

Deadlock is checked in the `download` runs and in `algorithms`.  In the others users may have used up the bounded
number of commands or close everything, so the runs say `CHECK_DEADLOCK FALSE`; `CommandEnds`, `InstallEnds` and
`UpdateEnds` show that no command hangs, `WaitEnds` that no MUI window does.

### Fairness

A running program takes its next step without anybody's help: weak fairness of `Step` in each
module.  `PackageStore` adds weak fairness of `Command`: a process that has started (`pc = "ready"`) goes on to its
command.  Neither `Crash`, `Publish`, user edits nor new commands are fair.  `FetchEnds` relies on `Step` alone.
`FetchRecovers` assumes strong fairness of `Fetch` as well, that is a user who keeps trying; the violation
shows that even this user is not served.

`FrontEnds` assumes strong fairness of `Poll` for MUI windows only.  The MUI program asks `timer.device` for a
signal every 250 ms (if the device opens, `timer_ok`, `mui.c:1728`); strong, because a requester holds the event loop up again and again, and
a signal waits until it returns.  The GadTools program polls at `IDCMP_INTUITICKS`, which Intuition
sends to the active window only, so a window in the background may wait for ever and nothing is
assumed.  Nothing is assumed of scripts, which may hang (`WaitEnds` then rests on the watchdog), nor of users:
`WaitEnds` is about users who close their requesters again and again.

## 4. Findings

Three violated properties state sentences of the repository; `PROJECT.json` quotes them.

1. `store_empty`: `cache/extract` is never emptied.  After any other package was unpacked, an archive without files passes
   the emptiness test and the old version is deleted.
2. `download_stuck`: a complete `.part` (power cut or failing rename before it moved) is resumed with a range
   beyond its end; the error leaves it in place, for ever.
3. `upgrade_all`: the static resolver result makes the loop of a later package stop at an entry of an
   earlier plan.

More disagreements were met while reading and have no run of their own; the properties are stated so
that they hold of the code as it is:

* A package whose inventory exceeds `MAX_FILES` keeps its line after the forced removal inside an upgrade
  (`cmd_remove` stops early and returns 0), and the commit appends a second one (`main.c:1088`).  `OneLine` is
  therefore checked with inventories of one pass.
* The GUIs' question before a removal promises to keep modified files (`gui.c:1443`); the command that follows says FORCE
  (`gui.c:1448`, `mui.c:827`), which deletes them.  `ModifiedSurvives` is about removals without FORCE.
* Removing a repository keeps its catalog file; a repository added later under the id serves it until its own update
  (`main.c:634`, against `README.md:109`).  `KeyVouches` is about what an update accepts.
* `upgrade` compares the catalog's `sortVersion` with the receipt (`main.c:1229`), but the receipt records `version`
  (`main.c:1091`), as the GUIs' mark does (`gui.c:676`): such a package can be offered again after every
  upgrade.  `ButtonsTruthful` demands the agreement for entries without a `sortVersion`.
* "The previous version stays until the new one is installed" (`main.c:973`): `copy_file` empties the binary before it writes it
  (`install.c:94`), so a power cut there leaves neither.  `SelfWhole` exempts that step.
* "The TARGET always (re)installs" (`main.c:1140`): the entries of freed catalogs in the static result are not recognised
  (`resolve.c:34`) and are appended again; when the table is full the target is left out (`resolve.c:80`), what was read intact is
  skipped as installed, and the install ends with rc 0.
* "INTUITICKS polls its completion sentinel for the return code" (`gui.c:125-127`): the sentinel has one name per program
  (`gui.c:132`), and nothing keeps a second copy from starting.  A script the watchdog gave up, or another copy's, writes the file the
  next operation waits for.
* "Update All must never act on a stale index" (`gui.c:797-799`): `update` returns 0 when one of several repositories was
  refreshed (`main.c:532`), and the script goes on past a failing one.
* `amipkg remove` "strips its own User-Startup blocks - nothing else" (`dist/amipkg.readme:35-36`): the script is overwritten
  with what was read earlier (`install.c:566`), so a line saved in between is gone; and a strip that fails is ignored
  (`main.c:1582`), which leaves the block without a receipt.

## 5. Proofs

TLAPS checks the following for *all* values of the constants that satisfy the named assumptions of the
modules (`ConstantsType`, `ReposConstants`, `ResolverConstants`, `InstallerConstants`, `FrontEndConstants`, `BootScriptConstants`, `VersionAssumption`, `RecipeAssumption`, `FloppyAssumption`: finite paths, markers that
are no contents and the like).  Where a theorem has a hypothesis of its own, the last column says so.

| Theorem | States | Under |
|---|---|---|
| `PackageStoreProofs!TypeCorrect` | `Spec => []TypeOK` | |
| `PackageStoreProofs!DeletionCorrect` | the strengthening for the next two | |
| `PackageStoreProofs!ModifiedFilesSurvive` | `Spec => ModifiedSurvives` | |
| `PackageStoreProofs!SharedFilesSurvive` | `Spec => SharedSurvives` | |
| `PackageStoreProofs!LedgerImplemented` | `Spec => LedgerSpec` | `MaxCrashes = 0` |
| `PackageStoreProofs!ReceiptComplete` | `Spec => []ReceiptCovers` | |
| `PackageStoreProofs!InstallsRepair` | `Spec => []InstallRepairs` | `OrderlyArchives` |
| `PackageStoreProofs!OneLineEach` | `Spec /\ []FitsOnePass => []OneLine` | `FitsOnePass` always |
| `PackageStoreProofs!BinaryStays` | `Spec => []SelfWhole` | `SelfContained` |
| `PackageStoreProofs!OnlyBusyFilesForgotten` | `Spec => ForgetsOnlyBusyFiles` | `MaxCrashes = 0` |
| `PackageStoreProofs!NoFileForgotten` | `Spec => NeverForgetsFiles` | `MaxCrashes = 0`, `InUse = {}` |
| `DownloadProofs!TypeCorrect` | `Spec => []TypeOK` | |
| `DownloadProofs!FetchIsTrustworthy` | `Spec => []FetchedIsPinned` | |
| `DownloadProofs!CacheIsWhole` | `Spec => []CacheWhole` | |
| `DownloadProofs!OldArchiveKept` | `Spec => GivenUpForVerified` | |
| `ResolverProofs!ResolverTypes` | `Spec => []TypeOK` | |
| `ResolverProofs!PlansCorrect` | `Spec => []PlanCorrect` | |
| `ResolverProofs!BestVariantPlanned` | `Spec => []BestVariant` | |
| `InstallerProofs!OthersLeftAlone` | `InstallerSpec => OthersUntouched` | |
| `InstallerProofs!ReportsAreTruthful` | `InstallerSpec => ReportTruthful` | |
| `InstallerProofs!DependenciesComeFirst` | `InstallerSpec => DependenciesFirst` | |
| `ReposProofs!ReposTypes` | `Spec => []TypeOK` | |
| `ReposProofs!OneOfEachId` | `Spec => []IdsUnique` | |
| `ReposProofs!TopmostWins` | `Spec => []FirstMatchWins` | |
| `ReposProofs!UsableCatalogs` | `Spec => []CatalogsUsable` | |
| `ReposProofs!OwnKeyOnly` | `Spec => []KeyVouches` | |
| `ReposProofs!LiveOnesUpdated` | `Spec => LiveReposUpdated` | |
| `FrontEndProofs!FrontEndTypes` | `Spec => []TypeOK` | |
| `FrontEndProofs!OwnResultOnly` | `Spec => []OwnResult` | |
| `FrontEndProofs!OperationsNameThePick` | `Spec => ActsOnPicked` | |
| `FrontEndProofs!ButtonsTell` | `Spec => []ButtonsTruthful` | |
| `BootScriptProofs!OwnLinesAlwaysKept` | `Spec => []OwnLinesKept` | |
| `BootScriptProofs!BlocksAlwaysFollow` | `Spec => []BlocksFollowReceipts` | |
| `AlgorithmProofs!VersionsTotallyPreordered` | `\A a, b, c \in Seq(Nat) : Ordered(a, b, c)` | |
| `AlgorithmProofs!NewerIsStrict` | `IsNewer` is asymmetric and transitive on `Seq(Nat)` | |
| `AlgorithmProofs!EveryVersionSensible` | `\A a, b \in Seq(Nat) : Sensible(a, b)` | |
| `AlgorithmProofs!EveryArchListByNames` | `ArchRunsOn(list, host) = RunsHere(list, host)` for all lists and hosts | |
| `AlgorithmProofs!VersionsOrderedAlways` | `AnyVersionInput => VersionsOrdered` | |
| `AlgorithmProofs!GlobMatchIsFnmatch` | `GlobMeansFnmatch(pat, str)` for all patterns and texts | |
| `AlgorithmProofs!EveryRecipeRunAsMeant` | `RunAsMeant(r, tree, broken, stuck)` for all recipes, archives, failing scripts and failing ops | |
| `AlgorithmProofs!RecipesRunAsMeantAlways` | `AnyRecipeInput => RecipesRunAsMeant` | |
| `AlgorithmProofs!EveryFileExtracted` | `FileExtracted(img, f)` for all images and files | |
| `AlgorithmProofs!EveryImageExtracted` | `ImageExtracted(img, root)` for all images | at most `MaxChain + 1` header blocks |
| `AlgorithmProofs!FloppiesExtractedAlways` | `AnyImageInput => FloppiesExtracted` | at most `MaxChain + 1` header blocks |

Every inductive invariant named below was first checked by TLC with the constants of the runs.

*Deletion.*  Neither survival property is inductive, because the decision (first pass) and the deletion (second
pass) are different steps.  The strengthening says that in the second pass everything still in `doomed` is a path of a loaded
line of this package, shared with no other installed one, and, unless FORCE was given, that the content on disk is
a recorded one.  It is preserved because nothing else writes the disk, the database or the inventories while `pc = "delete"`: deleting
one file leaves the others' contents alone, and the other actions start from other places.

*Ledger.*  `have` reads `saved` while `installed.txt` is being rewritten and `db` otherwise; the lemma is that
`saved` is meaningful exactly then.  Without the assumption on crashes the refinement is false: a power cut
between `TruncateDb` and `WriteDb` drops every record.

*Installs.*  The six theorems from `ReceiptComplete` to `NoFileForgotten` rest on `MemoryAlways`, which says what the program's memory is at every place (which
kind of command can be there, that its ids and versions are known ones, that an unused variable is empty); a power cut
or the end of a command empties it.

* `ReceiptComplete`: the place of every entry that has left `todo` is in use, in the receipt, or among the lines that
  `Record` is about to add (`CoverOK`).
* `InstallsRepair`: what has left `todo` has the archive's content (`RepairOK`).  `OrderlyArchives` asks that the entries of
  one package land on different paths (a flattening recipe may copy two over each other), that the disk has
  room (`copy_file` ignores what `Write` returns) and that the report of a recipe's self-upgrade holds its files, since what it does
  not hold the prune deletes.  Without any of the three the code does leave other content.
* `OneLineEach`: a line is appended only after the package's own line is gone, in `db` and in what a rewrite will
  write (`OneOK`).  With an inventory of more than one pass it is false: the removal stops early and the
  commit appends a second line (section 4), so `FitsOnePass` is assumed of the whole behaviour.
* `BinaryStays`: the binary's path is listed by amipkg's receipt alone (`Unclaimed`), so no other package's removal takes it
  (`NotChosen`), and amipkg's own upgrade overwrites it before the prune, which it then survives (`Renewed`).  The
  invariant `SelfOK` says that the binary is complete or being written: no step but its own copy opens it, and that copy's next step
  writes it, or a power cut ends the install.  `SelfContained`: only amipkg's
  archives hold the binary, all of them do, no adopted drawer holds it, the disk has room, and the report of its
  upgrade holds its files.  There may be any number of power cuts.
* `OnlyBusyFilesForgotten`: in a removal every loaded path is doomed, spared for a reason the property names,
  or no longer on disk (`Spared`), and one pass and what it leaves are together the inventory.  `Emptied` says where the
  receipt has been given up, and `LinedUp` that, except while it is being written, only a package with a line in `installed.txt`
  has an inventory, so that a new inventory never replaces one.  A file in use survives `DeleteFile` and is still dropped from the
  receipt (`main.c:1515`), hence the exception; with a power cut the property is false (`main.c:1543`).  `NoFileForgotten` is the
  property of the run.

The instances in `MCStore` satisfy `OrderlyArchives` and `SelfContained`, and `store_crash` satisfies `FitsOnePass`.

*Download.*  The strengthening follows the file through the program: in `replace` and `rename` the `.part` of this
entry is the whole pinned archive (the pin cannot change while the program runs), so that `Rename` moves
exactly that, and a cache hit was compared with the pin in the step that ends the fetch.

*Resolver.*  The closure `Reach(e)` is the least set of entries that holds e and all picks of its members.  The invariant is
`Sound(A)`, for a set A of entries that holds all its members need: only A is ever seen; the stack is a path of needs on which
nobody is twice and nobody is placed (`PathOK`); and, while A fits the table, every dependency a frame has
looked at is placed or on the stack, and so are all dependencies of a placed package (`SettledOK`).  When a package leaves the
stack its dependencies are therefore placed before it or still on the stack, and who is still on the stack needs it: that is
`InOrder`, which alone is not inductive.  That neither the table nor the depth limit is hit
before is a counting argument (`Pigeonhole`): a list of different members of A that leaves one out is shorter
than A is large.  For one selection A is the closure of the selected package; `RootOK` keeps that package at the bottom of the
stack and `MissingOK` follows the reported targets in the same way.  At the end the stack is empty, so what
is placed is closed and contains the closure.  `BestIsBest` and `FindFinds` show that the choices of `pick` exist, from the
least element of a set of numbers.

*Install and upgrade loops.*  The static result grows through all the selections of one command, with pointers into several
blocks.  What holds is said of each block: what a package needs is before it in its own block, unless it needs it in turn
(`Arranged`), and what the packages on the stack have seen is placed or on the stack (`SeenSettled`).  Both hold as long as the result
and the stack together fit the table (`Roomy`); a table that was full once stays full, so the exemption is permanent.  `Pointers` says that
a pointer dangles exactly if its block is not the current one, so a new catalog in an old block makes its pointers good
without disturbing their order.  `TargetOK` keeps the target in the catalog and, once it is resolved, among what is placed.  `LoopOK` says
that what the loop has passed through good pointers is installed or build-time only, and the target new; `Done` that the packages the
command has finished with are new or reported as failed.  A later plan cannot touch them again, since they are installed and no longer its
target.  No assumption is made about fates, the allocator, what freed memory reads as among the outcomes of the model, or the
order in which an upgrade meets its packages.  `InstallerInv` was model-checked over the catalogs of `MCInstaller`.

*Repositories.*  The lists the program reads hold one entry per id; an edit of such a list gives such a list, and both
writers, also the window with its old copy, only save edits (`ListOK`).  `Trusted` relates the cache to the list: for an id that
never left the list nor changed its key, every list that is around (the file, the one being
saved, the window's, the update's) has the key of the current one, and the catalog in the cache was accepted
for that key.  That is what `KeyVouches` needs when the update writes a catalog under a list it read long before.
`Progress` says that the repositories before the update's place are done, if their servers did not change.
`TopmostWins` needs only that the list is a sequence: after n turns of the merging loop the merged catalog is `Firsts(Loaded, n)`,
each package with the first of the n entries that brings it (`MergeTurn`, `MergedIsFirsts`).

*Front-ends.*  Four invariants, over the same steps.  `AsyncOK`: a window that does not wait has no script, and a script that runs alone has
no orphan of its program and no other copy's script beside it, so that only its own last line can have written the program's
done file; `OwnResult` alone says nothing of windows at rest.  A launch ends the loneliness of the copies that wait.  `PickOK`: the id last shown is the
id of the selected row, and a requester about a package is about that one; it holds because a rebuilt list
deselects in the same step, and no list is rebuilt behind a requester of its own window.  `TruthOK`: a busy window
offers Info at most (`Locked`), the buttons of one at rest follow the selected row (`Followed`), and the marks of the rows say what
the disk says, unless it changed since the list was made (`Labelled`).  `TypeInv` adds the types: rows and database
are lists of known packages because `Where` takes nothing but lines of the list it filters (`WhereSelects`), and because an adoption,
which would record any id, is started with the selected one only (`Startable`).  The theorems hold
for any number of copies of both programs, which the run `gui` does not try.

*Boot script.*  `ReadsAll` is a reader of whole blocks: it is between blocks, in the block of one package, or lost over a
line that does not belong there.  While the file is written, the script the invariant `Inv` speaks of is what the buffer holds (`Script`).  `Inv` says of a
script that is not damaged that the reader is never lost and ends
between blocks, that the user's lines in it are `theirs`, and that each package has one block or none, which the
receipts and `failed` account for (`Overlay`).  `JobOK` says where a command can be: what is opened or written needs the edit, and what is injected
was stripped before.  A script that changed since it was read, or is written in part, is damaged by the step that loses the lines, so no
step has to be undone in the proof.  Without the reader nothing is inductive: a block whose END line is
missing would be stripped up to the end of the script.  `StripsItsOwn` is the heart: over such a script
`amipkg_strip_overlay` is inside a block exactly when the reader is inside that package's, so what it writes is again read
to the end, with everybody else's lines.  `Inside` shows that whoever writes where the reader is in a block, writes in a block.
All this is by induction on the script; `Recursion` and `SameCourse` unfold the recursive functions
(`Only`, `Scan`, `HostBlocks`, `ReadsAll`) by one line, from the well-foundedness of the naturals, since the library's induction
theorems cannot be used.  What the run exempts is exempt here.

*Versions.*  Versions are compared segment by segment, words character by character, numbers by length and then digit by
digit, so one lemma does most of the work: if `g` is a total preorder of X, the lexicographic order by `g` is one of
`Seq(X)` (`LexPreorder`).  It looks at the first place where two sequences are not alike, the end of one counting as less than
any element (`Decided`, `Undecided`), and at the first such place of either of two pairs for transitivity.  A comparison is a
function there, not an operator parameter, which the provers cannot instantiate; `ByCodes`, `ByFolded` and `Compared` pass from
one to the other.  Two segments are ordered because numbers are above words (`SegmentsOrdered`), and comparing first
characters makes sense because no segment is empty (`SegmentsTyped`, by induction on the text).  That a version
is never newer than one that is newer than it holds for texts of any length; the run tries short ones.

`Sensible` needs to know what `Segments` computes.  `Splitting` unfolds its recursion once and for all, and the rest are
inductions over the places of the text: a text of digits is one segment (`OneSegment`), a text, a dash and another text have
the segments of both (`SegmentsGoOn`, the dash keeps the last segment of the first from going on), and a text that differs in case
and separators only has the same segments up to case (`PlainSegments`).  Numbers of equal length count by the first
digit that differs, because who is ahead after one digit stays ahead (`Ahead`).  For a list of architectures the
invariant of the reader is that the name it holds is the beginning of what stands, blanks left out, between the last
comma and the place it has come to.  An empty list stands for `m68k-amigaos` on both sides of the question, the package's
and the host's (`OrM68k`).

*Glob.*  `arun_glob_match` remembers its last star only.  The invariant says that what is left of the pattern and the text
matches, or the text can be tried again from that star, exactly if the whole matches; it is kept because a star takes nothing or
one character more (`StarOnce`), and because whatever an earlier star could still have taken, the later one can take over (`MoreGoesOn`).  A measure that every turn decreases, from the place of the star, the text
tried there and the text read, shows that `Turns` turns give an answer.

*Recipes.*  A plan is a sequence of sequences, flattened.  `FlattenedFrom` says that what stands in the whole stands in a part, and `HitsFlattened` counts: if each part holds at most one operation of some kind, the whole holds as many as parts hold one.
So the copies of an entry are as many as the operations that mean it, since an archive has no path twice (`Walked`) and the glob loop
takes what the pattern means.  Of these the copies that fail are passed over (`Worked`), so each is subtracted once; what is recorded is the
first of what was placed, as much as the caller has room for.  A copied file lies in no parent of an assign, since `JoinPath` puts no slash behind a
colon and a name from `BasenameOf` holds none.

*Floppies.*  `Chained` says what following links gives: each block is the link of the one before, and the chain ends where a link leads nowhere or
the cap is reached.  For a file, the loop invariant `SoFar` (what came out and what is left make up the size, and no
block was passed over) holds for any image, and `AllSoFar` adds that of whole blocks none is taken in part before the last.
For drawers, `Bounded` is kept from each level to the next, whatever the links are.  A sound image has one link to a block at
most (`SoundLinks`), so an entry has one drawer, one slot and one place in its chain (`OnePlace`), and no chain returns to itself.
Then no chain is cut off (`NoneCutOff`): one that reaches the cap holds more blocks than there are, by counting.  This
is where the number of header blocks matters.  The code caps chains at 4096 entries, and the largest floppy has 3520 blocks in
all, so the hypothesis excludes no floppy; of a larger image the reader really leaves entries out.
So the entries of a drawer are the blocks it holds (`HeldFound`), and by induction on the levels the files that come out at a
path are one if the path leads to them and none otherwise (`AllCounted`).  Two paths to one block are the same, compared from
their ends (`OnePath`); the root, which nothing links to, rules out that one is longer.

### Only model-checked

Liveness (`CommandEnds`, `FetchEnds`, `InstallEnds`, `UpdateEnds`, `WaitEnds`) is out of the prover's reach, and so are
the three violated properties, which are false.  Every invariant and action property of the passing runs is a theorem, under the hypotheses of the table.  The library's induction
theorems cannot be used; the modules with theorems write recursion as functions, and where a proof needs to know what
one computes it has an induction of its own (`Induct`, `Least`), for that function.

## 6. Not modelled, and the plan

Not modelled: cryptographic primitives (ideal here); JSON and catalog parsing, which keeps no state (a catalog is
a value in every module); GUI layout; queries (`list`, `search`, `info`, `check`, `verify`,
`doctor`) and `submit`, which change no state of the other modules.  Left out of modelled parts: the space preflight
and the routing of system drawers in the install engine, assigns and the repair of `PROGDIR:` lines at start-up,
the per-package install drawer of an adoption, the truncation of over-long fields and paths.

Planned, in this order:

1. Recipes and dependencies across repositories: recipes are read from the official `packages.json`
   (`main.c:912`) whatever repository the entry came from, and `repo:id` loads one repository only although dependencies are said
   to resolve across repositories (`README.md:93`).  This needs catalogs with recipes in `Repos`.
2. `NeverForgetsFiles` with power cuts: the window at `main.c:1543`.
3. An atomic install (old version or new version) as an abstract specification that `PackageStore`
   implements for packages without oversize inventories.
