----------------------------- MODULE BootScript -----------------------------
(***************************************************************************)
(* S:User-Startup as amipkg edits it (src/amiga/install.c, main.c): the    *)
(* installation of a recipe package with a scriptInject op appends a block *)
(* between two marker lines, its removal strips the block again, while the *)
(* user edits the same file.                                               *)
(*                                                                         *)
(* Data: the script is a sequence of lines, each with its kind, whose it   *)
(* is and, for a block, who wrote it or which version's overlay it holds.  *)
(* The buffer of 16 KB is Cap lines.  FAILAT lines belong to the body.  An *)
(* upgrade is a removal and an installation in one command (PackageStore   *)
(* has the rest of both).                                                  *)
(***************************************************************************)
EXTENDS Integers, Sequences, SequencesExt, FiniteSets

CONSTANTS
    Markers,        \* packages with an overlay, named by their markers
    OwnLines,       \* lines a user may write
    Cap,            \* how much of the script fits the buffer
    Versions,       \* versions of the packages
    MaxEdits, MaxCommands  \* bounds: edits by the user, commands

ASSUME BootScriptConstants ==
    /\ IsFiniteSet(Markers) /\ Cap \in Nat /\ Versions \subseteq Nat \ {0}
    /\ MaxEdits \in Nat /\ MaxCommands \in Nat

VARIABLES
    text,       \* the lines of S:User-Startup
    buffer,     \* what an edit has read of it, until it is written
    installed,  \* the version in the receipt with its .edits file, or 0
    pc, job,    \* the command: "idle", or its next step
    theirs,     \* the user's own lines when they last saved the script (history)
    failed,     \* packages a command of which went wrong at the script
    damaged,    \* lines were lost, or a line of a block was edited (history)
    edits, commands

vars == <<text, buffer, installed, pc, job, theirs, failed, damaged, edits, commands>>

Tools == {"amipkg", "host"}     \* the version token of a marker line

Own(u)        == [kind |-> "own",   of |-> u,      by |-> "user",   ver |-> 0]
Blank         == [kind |-> "blank", of |-> "none", by |-> "amipkg", ver |-> 0]
BeginLine(m, t) == [kind |-> "begin", of |-> m, by |-> t, ver |-> 0]
EndLine(m, t)   == [kind |-> "end",   of |-> m, by |-> t, ver |-> 0]
Body(m, v)    == [kind |-> "body",  of |-> m, by |-> "recipe", ver |-> v]

Block(m, t, v) == <<BeginLine(m, t), Body(m, v), EndLine(m, t)>>
IsMark(l, kind, m) == l.kind = kind /\ l.of = m     \* whatever the tool

OwnOnes == {Own(u) : u \in OwnLines}
LinesOf(m) == {BeginLine(m, t) : t \in Tools} \cup {EndLine(m, t) : t \in Tools}
                  \cup {Body(m, v) : v \in Versions}
Lines == OwnOnes \cup {Blank} \cup UNION {LinesOf(m) : m \in Markers}

\* The lines of a text that are in K, in their order.
Only(s, K) ==
    LET upTo[n \in 0..Len(s)] ==
            IF n = 0 THEN <<>>
            ELSE IF s[n] \in K THEN Append(upTo[n - 1], s[n]) ELSE upTo[n - 1]
    IN upTo[Len(s)]

NoJob == [of |-> "none", ver |-> 0]

\* The removal of a package strips its block, its installation injects one.
Stripping == installed[job.of] # 0

\* What Read brings in: as much as fits, or nothing of a script that cannot be
\* opened or read.
Readable == {SubSeq(text, 1, IF Len(text) <= Cap THEN Len(text) ELSE Cap), <<>>}

-----------------------------------------------------------------------------
(***************************************************************************)
(* The two edits.                                                          *)
(***************************************************************************)
\* amipkg_strip_overlay: one pass over the lines; a block ends with its own
\* END line or with the script.
StripLineNoReset(acc, l, m) ==                                    \* mutant
    IF acc.inside \/ IsMark(l, "begin", m) THEN [acc EXCEPT !.inside = TRUE]
    ELSE [acc EXCEPT !.out = Append(@, l)]
StripLineOwnTool(acc, l, m) ==                                    \* mutant
    CASE acc.inside -> [acc EXCEPT !.inside = l # EndLine(m, "amipkg")]
      [] l = BeginLine(m, "amipkg") -> [acc EXCEPT !.inside = TRUE]
      [] OTHER -> [acc EXCEPT !.out = Append(@, l)]
StripLine(acc, l, m) ==
    CASE acc.inside -> [acc EXCEPT !.inside = ~IsMark(l, "end", m)]
      [] ~acc.inside /\ IsMark(l, "begin", m) -> [acc EXCEPT !.inside = TRUE]
      [] OTHER -> [acc EXCEPT !.out = Append(@, l)]

Outside == [inside |-> FALSE, out |-> <<>>]
Scan(s, m) ==
    LET upTo[n \in 0..Len(s)] ==
            IF n = 0 THEN Outside ELSE StripLine(upTo[n - 1], s[n], m)
    IN upTo[Len(s)]

\* Whether an edit leaves a script with the lines b as it is: no begin line to
\* strip, or the begin line to inject already there.
NothingToDo(b) ==
    IF Stripping THEN \A l \in ToSet(b) : ~IsMark(l, "begin", job.of)
    ELSE BeginLine(job.of, "amipkg") \in ToSet(b)

\* What the edit makes of the buffer; a new block follows an empty line.
Edited(b) ==
    IF Stripping THEN Scan(b, job.of).out
    ELSE b \o <<Blank>> \o Block(job.of, "amipkg", job.ver)

\* Lines of blocks, from a begin line to the nearest end line of its package.
InBlock(i) ==
    \E m \in Markers, b \in 1..i :
        /\ IsMark(text[b], "begin", m)
        /\ \A k \in b..(i - 1) : ~IsMark(text[k], "end", m)

-----------------------------------------------------------------------------
(***************************************************************************)
(* Commands.                                                               *)
(***************************************************************************)
\* Installing removes the installed version first.
InstallPackage(m, v) ==
    /\ pc = "idle" /\ commands < MaxCommands /\ commands' = commands + 1
    /\ job' = [of |-> m, ver |-> v]
    /\ pc' = IF installed[m] # 0 THEN "strip" ELSE "inject"
    /\ UNCHANGED <<text, buffer, installed, theirs, failed, damaged, edits>>

RemovePackage(m) ==
    /\ pc = "idle" /\ commands < MaxCommands /\ commands' = commands + 1
    /\ installed[m] # 0
    /\ job' = [of |-> m, ver |-> 0] /\ pc' = "strip"
    /\ UNCHANGED <<text, buffer, installed, theirs, failed, damaged, edits>>

\* After the edit, whatever came of it: the removal deletes the .edits file,
\* the installation goes on to its receipt.
EditDone(ok) ==
    /\ buffer' = <<>>
    /\ installed' = [installed EXCEPT ![job.of] = 0]
    /\ pc' = CASE ~Stripping -> "record"
               [] Stripping /\ job.ver = 0 -> "idle"
               [] OTHER -> "inject"
    /\ failed' = CASE ~ok -> failed \cup {job.of}
                   [] ok /\ Stripping -> failed \ {job.of}
                   [] OTHER -> failed

\* The edit opens the script, reads it and closes it.
ReadScript(b) ==
    /\ pc \in {"strip", "inject"} /\ b \in Readable
    /\ IF NothingToDo(b)
       THEN EditDone(Stripping => b = text)
       ELSE /\ buffer' = b /\ pc' = "open"
            /\ UNCHANGED <<installed, failed>>
    /\ UNCHANGED <<text, job, theirs, damaged, edits, commands>>

\* No overlay file in the archive.
InjectFails ==
    /\ pc = "inject" /\ EditDone(FALSE)
    /\ UNCHANGED <<text, job, theirs, damaged, edits, commands>>

\* It opens the script again, which empties it: what is in the script and not
\* in the buffer is lost.
OpenNewFile ==
    /\ pc = "open" /\ pc' = "write"
    /\ text' = <<>> /\ damaged' = (damaged \/ buffer # text)
    /\ UNCHANGED <<buffer, installed, job, theirs, failed, edits, commands>>

OpenFails ==
    /\ pc = "open" /\ EditDone(FALSE)
    /\ UNCHANGED <<text, job, theirs, damaged, edits, commands>>

\* The writes get as far as the disk or the power lasts.
Written ==
    \E n \in 0..Len(Edited(buffer)) :
        /\ text' = SubSeq(Edited(buffer), 1, n)
        /\ damaged' = (damaged \/ n < Len(Edited(buffer)))

\* Nobody looks at what Write returns.
WriteScript ==
    /\ pc = "write" /\ Written /\ EditDone(TRUE)
    /\ UNCHANGED <<job, theirs, edits, commands>>

Record ==
    /\ pc = "record" /\ pc' = "idle"
    /\ installed' = [installed EXCEPT ![job.of] = job.ver]
    /\ UNCHANGED <<text, buffer, job, theirs, failed, damaged, edits, commands>>

\* The archive or its copies fail, before or after the script was edited: no
\* receipt.
InstallFails ==
    /\ pc \in {"inject", "record"} /\ pc' = "idle"
    /\ failed' = IF pc = "record" THEN failed \cup {job.of} ELSE failed
    /\ UNCHANGED <<text, buffer, installed, job, theirs, damaged, edits, commands>>

\* The machine is switched off.  A removal has deleted the package's record
\* before it strips the block, so that nobody strips it any more.
PowerCut ==
    /\ pc # "idle" /\ pc' = "idle" /\ buffer' = <<>>
    /\ IF pc = "write" THEN Written ELSE UNCHANGED <<text, damaged>>
    /\ \/ pc = "strip" /\ UNCHANGED <<installed, failed>>
       \/ /\ installed' = [installed EXCEPT ![job.of] = 0]
          /\ failed' = IF Stripping \/ pc \in {"write", "record"}
                       THEN failed \cup {job.of} ELSE failed
    /\ UNCHANGED <<job, theirs, edits, commands>>

\* The user inserts a line of their own outside the blocks, ...
UserWrites(i, u) ==
    /\ pc # "write" /\ edits < MaxEdits /\ edits' = edits + 1
    /\ i \in 0..Len(text) /\ ~(i \in DOMAIN text /\ InBlock(i) /\ text[i].kind # "end")
    /\ text' = InsertAt(text, i + 1, Own(u))
    /\ theirs' = Only(text', OwnOnes)
    /\ UNCHANGED <<buffer, installed, pc, job, failed, damaged, commands>>

\* ... or deletes any line; the script cannot be saved while amipkg writes it.
UserDeletes(i) ==
    /\ pc # "write" /\ edits < MaxEdits /\ edits' = edits + 1
    /\ i \in DOMAIN text /\ text' = RemoveAt(text, i)
    /\ theirs' = Only(text', OwnOnes)
    /\ damaged' = (damaged \/ text[i].kind \in {"begin", "body", "end"})
    /\ UNCHANGED <<buffer, installed, pc, job, failed, commands>>

-----------------------------------------------------------------------------
\* The user's script; packages Amiga Imager put on the image, with its blocks.
HostBlocks(s) ==
    LET upTo[n \in 0..Len(s)] ==
            IF n = 0 THEN <<>> ELSE upTo[n - 1] \o Block(s[n], "host", installed[s[n]])
    IN upTo[Len(s)]

Init ==
    /\ installed \in [Markers -> {0} \cup Versions]
    /\ \E us \in {<<>>} \cup {<<Own(u)>> : u \in OwnLines},
          s \in SetToSeqs({m \in Markers : installed[m] # 0}) :
          /\ text = us \o HostBlocks(s)
          /\ theirs = us
    /\ buffer = <<>> /\ pc = "idle" /\ job = NoJob
    /\ failed = {} /\ damaged = FALSE /\ edits = 0 /\ commands = 0

Next ==
    \/ \E m \in Markers : RemovePackage(m) \/ \E v \in Versions : InstallPackage(m, v)
    \/ \E b \in Readable : ReadScript(b)
    \/ InjectFails \/ OpenNewFile \/ OpenFails \/ WriteScript
    \/ Record \/ InstallFails \/ PowerCut
    \/ \E i \in 0..Len(text) : UserDeletes(i) \/ \E u \in OwnLines : UserWrites(i, u)

Spec == Init /\ [][Next]_vars

-----------------------------------------------------------------------------
\* The lines the user saved outside blocks are all there, in their order, after any
\* sequence of installs, upgrades, failing commands, power cuts, removals and
\* edits - unless the script changed between an edit's read and its rewriting,
\* did not fit the buffer, could not be read or not be written to the end, or
\* the user deleted a line of a block.
OwnLinesKept == pc # "write" /\ ~damaged => Only(text, OwnOnes) = theirs

\* A package that is installed has one block with its own version's overlay; a
\* package that is not installed has no line.  Exempt is a package whose script
\* step failed, or whose command the power cut, until a removal strips it: it
\* has at most the image's block and after it one whole block of amipkg's,
\* whatever happened.
BlocksFollowReceipts ==
    pc # "write" /\ ~damaged =>
    \A m \in Markers :
        LET lines == Only(text, LinesOf(m))
            Blocks(t) == {<<>>} \cup {Block(m, t, v) : v \in Versions}
        IN
        /\ \E h \in Blocks("host"), a \in Blocks("amipkg") : lines = h \o a
        /\ (pc = "idle" \/ job.of # m) /\ m \notin failed =>
              IF installed[m] = 0 THEN lines = <<>>
              ELSE \E t \in Tools : lines = Block(m, t, installed[m])
=============================================================================
