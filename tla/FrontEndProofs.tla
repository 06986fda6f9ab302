--------------------------- MODULE FrontEndProofs ---------------------------
(***************************************************************************)
(* Theorems about FrontEnds, for any number of windows of both programs,   *)
(* running at once or not, and every set of packages and catalogs.         *)
(***************************************************************************)
EXTENDS FrontEnds, SequenceTheorems, WellFoundedInduction, TLAPS

IsScript(s) == s = [left |-> s.left, rc |-> s.rc, alone |-> s.alone]

AsyncTypeOK ==
    /\ done = [p \in Programs |-> done[p]]
    /\ busy \in [Windows -> BOOLEAN]
    /\ orphans \in [Programs -> BOOLEAN]
    /\ script = [w \in Windows |-> script[w]]
    /\ \A w \in Windows : IsScript(script[w]) /\ script[w].alone \in BOOLEAN

\* A window that does not wait has no script; beside a script that is alone no
\* orphan and no copy's script can write the done file, and it writes it last.
WaitOK(w) ==
    /\ ~busy[w] => script[w] = NoScript
    /\ busy[w] /\ script[w].alone => ~orphans[Program(w)] /\ \A v \in Copies(w) : ~Alive(v)
    /\ busy[w] /\ script[w].alone /\ done[Program(w)] # NoFile =>
           ~Alive(w) /\ done[Program(w)] = script[w].rc

AsyncOK == AsyncTypeOK /\ \A w \in Windows : WaitOK(w)

LEMMA ProgramTyped == \A w : Program(w) \in Programs /\ ASYNC_DONE(w) = Program(w)
  BY DEF Program, Programs, ASYNC_DONE

\* Other windows are copies, or have another done file.
LEMMA CopyOrNot ==
    ASSUME NEW w \in Windows, NEW v \in Windows, v # w
    PROVE  v \in Copies(w) <=> Program(v) = Program(w)
  BY DEF Copies

LEMMA AsyncInit == ASSUME Init PROVE AsyncOK
<1>1. /\ script = [w \in Windows |-> NoScript] /\ done = [p \in Programs |-> NoFile]
      /\ busy = [w \in Windows |-> FALSE] /\ orphans = [p \in Programs |-> FALSE]
  BY DEF Init
<1>2. IsScript(NoScript) /\ NoScript.alone \in BOOLEAN
  BY DEF IsScript, NoScript
<1>3. AsyncTypeOK
  BY <1>1, <1>2 DEF AsyncTypeOK
<1>4. ASSUME NEW w \in Windows PROVE WaitOK(w)
  BY <1>1 DEF WaitOK
<1>5. QED
  BY <1>3, <1>4 DEF AsyncOK

\* A step of one script, seen by the windows that wait: they are not alone, or
\* it writes another program's file.
LEMMA WaitElsewhere ==
    ASSUME AsyncOK, AsyncTypeOK', NEW w \in Windows, Alive(w),
           UNCHANGED <<busy, orphans>>,
           \A v \in Windows \ {w} : script'[v] = script[v],
           \A p \in Programs \ {Program(w)} : done'[p] = done[p]
    PROVE  \A v \in Windows \ {w} : WaitOK(v)'
<1> SUFFICES ASSUME NEW v \in Windows, v # w PROVE WaitOK(v)'
  OBVIOUS
<1>1. WaitOK(v) /\ script'[v] = script[v] /\ Program(v) \in Programs
  BY ProgramTyped DEF AsyncOK
<1>2. CASE busy[v] /\ script[v].alone
  <2>1. ~orphans[Program(v)] /\ \A x \in Copies(v) : ~Alive(x)
    BY <1>1, <1>2 DEF WaitOK
  <2>2. w \notin Copies(v) /\ Program(v) # Program(w)
    BY <2>1, CopyOrNot
  <2>3. \A x \in Copies(v) : script'[x] = script[x]
    BY <2>2 DEF Copies
  <2>4. \A x \in Copies(v) : ~Alive(x)'
    BY <2>1, <2>3 DEF Alive
  <2>5. done'[Program(v)] = done[Program(v)]
    BY <1>1, <2>2
  <2>6. QED
    BY <1>1, <1>2, <2>1, <2>4, <2>5 DEF WaitOK, Alive
<1>3. CASE ~(busy[v] /\ script[v].alone)
  BY <1>1, <1>3 DEF WaitOK
<1>4. QED
  BY <1>2, <1>3

\* A window's own actions leave the others' scripts alone.
LEMMA RunLineKeeps == ASSUME AsyncOK, NEW w \in Windows, RunLine(w) PROVE AsyncOK'
<1>1. PICK rc \in {0, 10} : script' = [script EXCEPT ![w].left = Tail(@), ![w].rc = rc]
  BY DEF RunLine
<1>2. UNCHANGED <<done, busy, orphans>> /\ Alive(w)
  BY DEF RunLine
<1>3. script'[w] = [script[w] EXCEPT !.left = Tail(@), !.rc = rc]
  BY <1>1 DEF AsyncOK, AsyncTypeOK
<1>4. IsScript(script'[w]) /\ script'[w].alone = script[w].alone
  BY <1>3 DEF AsyncOK, AsyncTypeOK, IsScript
<1>5. \A v \in Windows \ {w} : script'[v] = script[v]
  BY <1>1 DEF AsyncOK, AsyncTypeOK
<1>6. script' = [v \in Windows |-> script'[v]]
  BY <1>1 DEF AsyncOK, AsyncTypeOK
<1>7. AsyncTypeOK'
  BY <1>2, <1>4, <1>5, <1>6 DEF AsyncOK, AsyncTypeOK
<1>8. WaitOK(w)'
  <2>1. WaitOK(w) /\ script[w].alone \in BOOLEAN /\ (Alive(w) => script[w] # NoScript)
    BY DEF AsyncOK, AsyncTypeOK, Alive, NoScript
  <2>2. \A v \in Copies(w) : Alive(v)' = Alive(v)
    BY <1>5 DEF Copies, Alive
  <2>3. QED
    BY <1>2, <1>4, <2>1, <2>2 DEF WaitOK
<1>9. QED
  BY <1>2, <1>5, <1>7, <1>8, WaitElsewhere DEF AsyncOK

LEMMA WriteDoneKeeps == ASSUME AsyncOK, NEW w \in Windows, WriteDone(w) PROVE AsyncOK'
<1>1. /\ script' = [script EXCEPT ![w].left = <<>>]
      /\ done' = [done EXCEPT ![Program(w)] = script[w].rc]
      /\ UNCHANGED <<busy, orphans>> /\ Alive(w)
  BY ProgramTyped DEF WriteDone
<1>2. script'[w] = [script[w] EXCEPT !.left = <<>>]
  BY <1>1 DEF AsyncOK, AsyncTypeOK
<1>3. /\ IsScript(script'[w]) /\ script'[w].alone = script[w].alone
      /\ script'[w].rc = script[w].rc /\ script'[w].left = <<>>
  BY <1>2 DEF AsyncOK, AsyncTypeOK, IsScript
<1>4. \A v \in Windows \ {w} : script'[v] = script[v]
  BY <1>1 DEF AsyncOK, AsyncTypeOK
<1>5. script' = [v \in Windows |-> script'[v]]
  BY <1>1 DEF AsyncOK, AsyncTypeOK
<1>6. /\ done' = [p \in Programs |-> done'[p]]
      /\ \A p \in Programs \ {Program(w)} : done'[p] = done[p]
      /\ done'[Program(w)] = script[w].rc
  BY <1>1, ProgramTyped DEF AsyncOK, AsyncTypeOK
<1>7. AsyncTypeOK'
  BY <1>1, <1>3, <1>4, <1>5, <1>6 DEF AsyncOK, AsyncTypeOK
<1>8. WaitOK(w)'
  <2>1. WaitOK(w) /\ (Alive(w) => script[w] # NoScript)
    BY DEF AsyncOK, Alive, NoScript
  <2>2. \A v \in Copies(w) : Alive(v)' = Alive(v)
    BY <1>4 DEF Copies, Alive
  <2>3. ~Alive(w)'
    BY <1>3 DEF Alive
  <2>4. QED
    BY <1>1, <1>3, <1>6, <2>1, <2>2, <2>3 DEF WaitOK
<1>9. QED
  BY <1>1, <1>4, <1>6, <1>7, <1>8, WaitElsewhere DEF AsyncOK

LEMMA OrphanEndsKeeps == ASSUME AsyncOK, NEW p \in Programs, OrphanEnds(p) PROVE AsyncOK'
<1>1. PICK more \in BOOLEAN, rc \in {0, 10} :
          orphans' = [orphans EXCEPT ![p] = more] /\ done' = [done EXCEPT ![p] = rc]
  BY DEF OrphanEnds
<1>2. UNCHANGED <<busy, script>> /\ orphans[p]
  BY DEF OrphanEnds
<1>3. AsyncTypeOK'
  BY <1>1, <1>2 DEF AsyncOK, AsyncTypeOK
<1>4. ASSUME NEW v \in Windows PROVE WaitOK(v)'
  <2>1. WaitOK(v) /\ Program(v) \in Programs
    BY ProgramTyped DEF AsyncOK
  <2>2. CASE Program(v) = p
    BY <1>2, <2>1, <2>2 DEF WaitOK
  <2>3. CASE Program(v) # p
    <3>1. orphans'[Program(v)] = orphans[Program(v)] /\ done'[Program(v)] = done[Program(v)]
      BY <1>1, <2>1, <2>3 DEF AsyncOK, AsyncTypeOK
    <3>2. QED
      BY <1>2, <2>1, <3>1 DEF WaitOK, Alive
  <2>4. QED
    BY <2>2, <2>3
<1>5. QED
  BY <1>3, <1>4 DEF AsyncOK

\* Nothing but the done file of one program goes.
LEMMA NoDoneKeeps ==
    ASSUME AsyncOK, NEW w \in Windows, UNCHANGED <<script, orphans, busy>>,
           done' = done \/ done' = NoDone(w)
    PROVE  AsyncOK'
<1>1. AsyncTypeOK'
  BY DEF AsyncOK, AsyncTypeOK, NoDone
<1>2. ASSUME NEW v \in Windows PROVE WaitOK(v)'
  <2>1. WaitOK(v) /\ Program(v) \in Programs
    BY ProgramTyped DEF AsyncOK
  <2>2. done'[Program(v)] \in {done[Program(v)], NoFile}
    BY <2>1 DEF AsyncOK, AsyncTypeOK, NoDone
  <2>3. QED
    BY <2>1, <2>2 DEF WaitOK, Alive
<1>3. QED
  BY <1>1, <1>2 DEF AsyncOK

LEMMA RunAsyncKeeps ==
    ASSUME AsyncOK, NEW w \in Windows, NEW op, NEW id, RunAsync(w, op, id) PROVE AsyncOK'
<1>1. CASE Launches(w, op, id)
  <2>1. /\ UNCHANGED orphans /\ done' = NoDone(w) /\ busy' = [busy EXCEPT ![w] = TRUE]
        /\ script' = [v \in Windows |->
               IF v = w THEN [left |-> Script(op, id), rc |-> 0, alone |-> ~Contended(w)]
               ELSE IF v \in Copies(w) /\ busy[v] THEN [script[v] EXCEPT !.alone = FALSE]
               ELSE script[v]]
    BY <1>1 DEF Launches
  <2>2. script'[w] = [left |-> Script(op, id), rc |-> 0, alone |-> ~Contended(w)]
    BY <2>1
  <2>3. IsScript(script'[w]) /\ script'[w].alone \in BOOLEAN
    BY <2>2 DEF IsScript, Contended
  <2>4. ASSUME NEW v \in Windows, v # w
        PROVE  /\ IsScript(script'[v]) /\ script'[v].alone \in BOOLEAN
               /\ script'[v].left = script[v].left /\ script'[v].rc = script[v].rc
               /\ ~busy[v] => script'[v] = script[v]
               /\ v \in Copies(w) /\ busy[v] => ~script'[v].alone
               /\ script'[v].alone => script[v].alone
    <3>1. IsScript(script[v]) /\ script[v].alone \in BOOLEAN
      BY DEF AsyncOK, AsyncTypeOK
    <3>2. CASE v \in Copies(w) /\ busy[v]
      <4>1. script'[v] = [script[v] EXCEPT !.alone = FALSE]
        BY <2>1, <2>4, <3>2
      <4>2. QED
        BY <3>1, <3>2, <4>1 DEF IsScript
    <3>3. CASE ~(v \in Copies(w) /\ busy[v])
      <4>1. script'[v] = script[v]
        BY <2>1, <2>4, <3>3
      <4>2. QED
        BY <3>1, <3>3, <4>1
    <3>4. QED
      BY <3>2, <3>3
  <2>5. script' = [v \in Windows |-> script'[v]]
    BY <2>1
  <2>6. /\ done' = [p \in Programs |-> done'[p]] /\ done'[Program(w)] = NoFile
        /\ \A p \in Programs \ {Program(w)} : done'[p] = done[p]
    BY <2>1, ProgramTyped DEF AsyncOK, AsyncTypeOK, NoDone
  <2>7. busy' \in [Windows -> BOOLEAN] /\ orphans' \in [Programs -> BOOLEAN]
    BY <2>1 DEF AsyncOK, AsyncTypeOK
  <2>8. AsyncTypeOK'
    BY <2>3, <2>4, <2>5, <2>6, <2>7 DEF AsyncTypeOK
  <2>9. WaitOK(w)'
    <3>1. busy'[w] /\ UNCHANGED orphans
      BY <2>1 DEF AsyncOK, AsyncTypeOK
    <3>2. \A v \in Copies(w) : Alive(v)' = Alive(v)
      BY <2>4 DEF Copies, Alive
    <3>3. script'[w].alone => ~orphans[Program(w)] /\ \A v \in Copies(w) : ~Alive(v)
      <4>1. script'[w].alone = ~Contended(w)
        BY <2>2
      <4>2. QED
        BY <4>1 DEF Contended
    <3>4. QED
      BY <2>6, <3>1, <3>2, <3>3 DEF WaitOK
  <2>10. ASSUME NEW v \in Windows, v # w PROVE WaitOK(v)'
    <3>1. WaitOK(v) /\ busy'[v] = busy[v] /\ UNCHANGED orphans
      BY <2>1, <2>10 DEF AsyncOK, AsyncTypeOK
    <3>2. CASE busy[v] /\ script'[v].alone
      <4>1. script[v].alone /\ v \notin Copies(w)
        BY <2>4, <2>10, <3>2
      <4>2. Program(v) # Program(w) /\ w \notin Copies(v)
        BY <2>10, <4>1, CopyOrNot
      <4>3. \A x \in Copies(v) : Alive(x)' = Alive(x)
        BY <2>4, <4>2 DEF Copies, Alive
      <4>4. done'[Program(v)] = done[Program(v)]
        BY <2>6, <4>2, ProgramTyped
      <4>5. Alive(v)' = Alive(v) /\ script'[v].rc = script[v].rc
        BY <2>4, <2>10 DEF Alive
      <4>6. QED
        BY <3>1, <3>2, <4>1, <4>3, <4>4, <4>5 DEF WaitOK
    <3>3. CASE ~(busy[v] /\ script'[v].alone)
      BY <2>4, <2>10, <3>1, <3>3 DEF WaitOK
    <3>4. QED
      BY <3>2, <3>3
  <2>11. QED
    BY <2>8, <2>9, <2>10 DEF AsyncOK
<1>2. CASE LaunchFails(w)
  BY <1>2, NoDoneKeeps DEF LaunchFails
<1>3. QED
  BY <1>1, <1>2 DEF RunAsync

\* The window stops waiting: the result came, or did not, or it is quit.
LEMMA StopsWaitingKeeps ==
    ASSUME AsyncOK, NEW w \in Windows, StopsWaiting(w),
           busy' = [busy EXCEPT ![w] = FALSE], done' = done \/ done' = NoDone(w)
    PROVE  AsyncOK'
<1>1. /\ script' = [script EXCEPT ![w] = NoScript]
      /\ orphans' = [orphans EXCEPT ![Program(w)] = @ \/ Alive(w)]
  BY DEF StopsWaiting
<1>2. IsScript(NoScript) /\ NoScript.alone \in BOOLEAN /\ NoScript.left = <<>>
  BY DEF IsScript, NoScript
<1>3. orphans' \in [Programs -> BOOLEAN]
  BY <1>1 DEF AsyncOK, AsyncTypeOK
<1>4. done' = [p \in Programs |-> done'[p]] /\ \A p \in Programs : done'[p] \in {done[p], NoFile}
  BY DEF AsyncOK, AsyncTypeOK, NoDone
<1>5. script'[w] = NoScript /\ \A v \in Windows \ {w} : script'[v] = script[v]
  BY <1>1 DEF AsyncOK, AsyncTypeOK
<1>6. busy' \in [Windows -> BOOLEAN] /\ ~busy'[w] /\ \A v \in Windows \ {w} : busy'[v] = busy[v]
  BY DEF AsyncOK, AsyncTypeOK
<1>7. AsyncTypeOK'
  BY <1>1, <1>2, <1>3, <1>4, <1>5, <1>6 DEF AsyncOK, AsyncTypeOK
<1>8. WaitOK(w)'
  BY <1>5, <1>6 DEF WaitOK
<1>9. ASSUME NEW v \in Windows, v # w PROVE WaitOK(v)'
  <2>1. WaitOK(v) /\ Program(v) \in Programs /\ script'[v] = script[v] /\ busy'[v] = busy[v]
    BY <1>5, <1>6, <1>9, ProgramTyped DEF AsyncOK
  <2>2. CASE busy[v] /\ script[v].alone
    <3>1. ~orphans[Program(v)] /\ \A x \in Copies(v) : ~Alive(x)
      BY <2>1, <2>2 DEF WaitOK
    <3>2. ~orphans'[Program(v)]
      <4>1. Program(w) = Program(v) => ~Alive(w)
        BY <1>9, <3>1, CopyOrNot
      <4>2. QED
        BY <1>1, <2>1, <3>1, <4>1 DEF AsyncOK, AsyncTypeOK
    <3>3. \A x \in Copies(v) : ~Alive(x)'
      BY <1>2, <1>5, <3>1 DEF Copies, Alive
    <3>4. done'[Program(v)] \in {done[Program(v)], NoFile}
      BY <1>4, <2>1
    <3>5. QED
      BY <2>1, <2>2, <3>2, <3>3, <3>4 DEF WaitOK, Alive
  <2>3. CASE ~(busy[v] /\ script[v].alone)
    BY <2>1, <2>3 DEF WaitOK
  <2>4. QED
    BY <2>2, <2>3
<1>10. QED
  BY <1>7, <1>8, <1>9 DEF AsyncOK

LEMMA AsyncUnchanged == ASSUME AsyncOK, UNCHANGED <<script, orphans, done, busy>> PROVE AsyncOK'
  BY DEF AsyncOK, AsyncTypeOK, WaitOK, IsScript, Alive

LEMMA AskKeeps ==
    ASSUME NEW w, NEW op, NEW id, Ask(w, op, id)
    PROVE  UNCHANGED <<script, orphans, done, busy>>
  BY DEF Ask, async

LEMMA AskSelectedKeeps ==
    ASSUME NEW w, NEW op, AskSelected(w, op)
    PROVE  UNCHANGED <<script, orphans, done, busy>>
  BY AskKeeps DEF AskSelected

LEMMA PollKeeps == ASSUME AsyncOK, NEW w \in Windows, Poll(w) PROVE AsyncOK'
<1>1. CASE Finished(w)
  BY <1>1, StopsWaitingKeeps DEF Finished
<1>2. CASE Waits(w) /\ UNCHANGED <<script, orphans, busy>>
  BY <1>2, AsyncUnchanged DEF Waits
<1>3. CASE Waits(w) /\ StopsWaiting(w) /\ busy' = [busy EXCEPT ![w] = FALSE]
  BY <1>3, StopsWaitingKeeps DEF Waits
<1>4. QED
  BY <1>1, <1>2, <1>3 DEF Poll, Waits

\* A handler starts an operation, opens a requester, or touches neither.
LEMMA GuiHandlerKeeps == ASSUME AsyncOK, NEW w \in Windows, GuiHandler(w) PROVE AsyncOK'
<1>1. CASE \E op, id : RunAsync(w, op, id)
  BY <1>1, RunAsyncKeeps
<1>2. CASE \E op, id : Ask(w, op, id)
  BY <1>2, AskKeeps, AsyncUnchanged
<1>3. CASE GuiSwitchRepo(w) \/ GuiReposClosed(w)
  BY <1>3, AsyncUnchanged DEF GuiSwitchRepo, GuiReposClosed, async
<1>4. QED
  BY <1>1, <1>2, <1>3 DEF GuiHandler, GuiUpdateCatalog, GuiCheck, GuiUpgradeAll, GuiInfo, GuiAdopt,
     GuiSetDir, GuiInstallTo, GuiUpdateSelected, GuiRemove, GuiInstall, GuiSubmit, GuiRepos, AskSelected

LEMMA MuiHandlerKeeps == ASSUME AsyncOK, NEW w \in Windows, MuiHandler(w) PROVE AsyncOK'
<1>1. CASE \E op, id : RunAsync(w, op, id)
  BY <1>1, RunAsyncKeeps
<1>2. CASE \E op, id : Ask(w, op, id)
  BY <1>2, AskKeeps, AsyncUnchanged
<1>3. CASE MuiSwitchRepo(w)
  BY <1>3, AsyncUnchanged DEF MuiSwitchRepo, async
<1>4. QED
  BY <1>1, <1>2, <1>3 DEF MuiHandler, MuiUpdateCatalog, MuiCheck, MuiUpgradeAll, MuiInfo, MuiAdopt,
     MuiSetDir, MuiInstallTo, MuiUpdateSelected, MuiRemove, MuiInstall, MuiSubmit, AskSelected

LEMMA AsyncNext == AsyncOK /\ [Next]_vars => AsyncOK'
<1> SUFFICES ASSUME AsyncOK, [Next]_vars PROVE AsyncOK'
  OBVIOUS
<1>1. CASE UNCHANGED vars
  BY <1>1, AsyncUnchanged DEF vars, async
<1>2. ASSUME NEW w \in Windows, RunLine(w) \/ WriteDone(w) PROVE AsyncOK'
  BY <1>2, RunLineKeeps, WriteDoneKeeps
<1>3. ASSUME NEW w \in Windows, Restart(w) PROVE AsyncOK'
  BY <1>3, StopsWaitingKeeps DEF Restart
<1>4. ASSUME NEW w \in Windows, Confirm(w) PROVE AsyncOK'
  BY <1>4, RunAsyncKeeps DEF Confirm
<1>5. ASSUME NEW w \in Windows, Dismiss(w) PROVE AsyncOK'
  BY <1>5, AsyncUnchanged DEF Dismiss, async
<1>6. ASSUME NEW w \in Windows, NEW s, Select(w, s) PROVE AsyncOK'
  BY <1>6, AsyncUnchanged DEF Select, async
<1>7. ASSUME NEW w \in Windows, NEW v, NEW f, Show(w, v, f) PROVE AsyncOK'
  BY <1>7, AsyncUnchanged DEF Show, async
<1>8. CASE ShellCommand \/ Publish
  BY <1>8, AsyncUnchanged DEF ShellCommand, Publish, async
<1>9. QED
  BY <1>1, <1>2, <1>3, <1>4, <1>5, <1>6, <1>7, <1>8, OrphanEndsKeeps, PollKeeps, GuiHandlerKeeps, MuiHandlerKeeps
     DEF Next, Windows

\* What a window reports is the result of its own operation (poll_async,
\* run_async), with every number of copies of both programs, whatever their
\* scripts do: unless another script of the same program ran beside it.
THEOREM OwnResultOnly == Spec => []OwnResult
<1>1. AsyncOK => OwnResult
  BY ProgramTyped DEF AsyncOK, WaitOK, OwnResult
<1>2. QED
  BY <1>1, AsyncInit, AsyncNext, PTL DEF Spec

-----------------------------------------------------------------------------
\* The id last shown is the selected one, and an open requester about a package
\* is about that one, too: lists are rebuilt only where no requester is open.
PackageAsks == {"install", "installTo", "remove", "adopt"}
IsAsk(a) == a = [op |-> a.op, id |-> a.id]

PickTypeOK ==
    /\ sel = [w \in Windows |-> sel[w]] /\ lit = [w \in Windows |-> lit[w]]
    /\ rows = [w \in Windows |-> rows[w]] /\ asks = [w \in Windows |-> asks[w]]
    /\ \A w \in Windows : IsAsk(asks[w])

PickedOK(w) ==
    /\ lit[w] = Selected(w)
    /\ asks[w].op \in PackageAsks => asks[w].id # NoId /\ asks[w].id = Selected(w)

PickOK == PickTypeOK /\ \A w \in Windows : PickedOK(w)

LEMMA AskFacts ==
    /\ IsAsk(NoAsk) /\ NoAsk.op \notin PackageAsks
    /\ IsAsk(Report) /\ Report.op \notin PackageAsks
  BY DEF IsAsk, NoAsk, Report, PackageAsks

LEMMA PickInit == ASSUME Init PROVE PickOK
<1>1. PickTypeOK
  BY AskFacts DEF Init, PickTypeOK
<1>2. ASSUME NEW w \in Windows PROVE PickedOK(w)
  BY AskFacts DEF Init, PickedOK, Selected
<1>3. QED
  BY <1>1, <1>2 DEF PickOK

\* The list stays; a requester opens or closes.
LEMMA PickAsk ==
    ASSUME PickOK, UNCHANGED <<rows, sel, lit>>, NEW w \in Windows, NEW a, IsAsk(a),
           asks' = [asks EXCEPT ![w] = a],
           a.op \in PackageAsks => a.id # NoId /\ a.id = Selected(w)
    PROVE  PickOK'
<1>1. PickTypeOK'
  BY DEF PickOK, PickTypeOK
<1>2. PickedOK(w)'
  BY DEF PickOK, PickTypeOK, PickedOK, Selected
<1>3. ASSUME NEW v \in Windows, v # w PROVE PickedOK(v)'
  BY <1>3 DEF PickOK, PickTypeOK, PickedOK, Selected
<1>4. QED
  BY <1>1, <1>2, <1>3 DEF PickOK

LEMMA PickUnchanged == ASSUME PickOK, UNCHANGED <<rows, sel, lit, asks>> PROVE PickOK'
  BY DEF PickOK, PickTypeOK, PickedOK, Selected, IsAsk

\* The list is rebuilt and nothing is selected.
LEMMA PickRebuild ==
    ASSUME PickOK, NEW w \in Windows, Rebuild(w), Deselect(w), NEW a, IsAsk(a),
           asks' = [asks EXCEPT ![w] = a], a.op \notin PackageAsks
    PROVE  PickOK'
<1>1. PickTypeOK'
  BY DEF PickOK, PickTypeOK, Rebuild, Deselect
<1>2. PickedOK(w)'
  BY DEF PickOK, PickTypeOK, PickedOK, Selected, Rebuild, Deselect
<1>3. ASSUME NEW v \in Windows, v # w PROVE PickedOK(v)'
  BY <1>3 DEF PickOK, PickTypeOK, PickedOK, Selected, Rebuild, Deselect
<1>4. QED
  BY <1>1, <1>2, <1>3 DEF PickOK

\* Most rebuilds happen with no requester open.
LEMMA PickRebuildAtRest ==
    ASSUME PickOK, NEW w \in Windows, Rebuild(w), Deselect(w), asks[w] = NoAsk, UNCHANGED asks
    PROVE  PickOK'
<1>1. asks' = [asks EXCEPT ![w] = NoAsk]
  BY DEF PickOK, PickTypeOK
<1>2. QED
  BY <1>1, PickRebuild, AskFacts

LEMMA PickSelect == ASSUME PickOK, NEW w \in Windows, NEW s, Select(w, s) PROVE PickOK'
<1>1. /\ UNCHANGED <<rows, asks>> /\ asks[w] = NoAsk
      /\ sel' = [sel EXCEPT ![w] = s] /\ lit' = [lit EXCEPT ![w] = Selected(w)']
  BY DEF Select, AtRest
<1>2. PickTypeOK'
  BY <1>1 DEF PickOK, PickTypeOK
<1>3. PickedOK(w)'
  BY <1>1, AskFacts DEF PickOK, PickTypeOK, PickedOK
<1>4. ASSUME NEW v \in Windows, v # w PROVE PickedOK(v)'
  BY <1>1, <1>4 DEF PickOK, PickTypeOK, PickedOK, Selected
<1>5. QED
  BY <1>2, <1>3, <1>4 DEF PickOK

LEMMA PickRunAsync ==
    ASSUME PickOK, NEW w \in Windows, NEW op, NEW id, RunAsync(w, op, id) PROVE PickOK'
<1>1. UNCHANGED <<rows, sel, lit>> /\ asks' = [asks EXCEPT ![w] = NoAsk]
  BY DEF RunAsync, Launches, LaunchFails, list
<1>2. QED
  BY <1>1, PickAsk, AskFacts

LEMMA PickNote ==
    ASSUME PickOK, NEW w \in Windows, NEW op, NEW id, op \notin PackageAsks, Ask(w, op, id)
    PROVE  PickOK'
<1>1. IsAsk([op |-> op, id |-> id]) /\ [op |-> op, id |-> id].op \notin PackageAsks
  BY DEF IsAsk
<1>2. UNCHANGED <<rows, sel, lit>> /\ asks' = [asks EXCEPT ![w] = [op |-> op, id |-> id]]
  BY DEF Ask, list
<1>3. QED
  BY <1>1, <1>2, PickAsk

LEMMA PickAskSelected ==
    ASSUME PickOK, NEW w \in Windows, NEW op, AskSelected(w, op) PROVE PickOK'
<1> DEFINE a == [op |-> op, id |-> Selected(w)]
<1>1. IsAsk(a) /\ a.id # NoId /\ a.id = Selected(w)
  BY DEF IsAsk, AskSelected
<1>2. UNCHANGED <<rows, sel, lit>> /\ asks' = [asks EXCEPT ![w] = a]
  BY DEF AskSelected, Ask, list
<1> HIDE DEF a
<1>3. QED
  BY <1>1, <1>2, PickAsk

LEMMA PickGuiHandler == ASSUME PickOK, NEW w \in Windows, GuiHandler(w) PROVE PickOK'
<1>1. CASE \E op, id : RunAsync(w, op, id)
  BY <1>1, PickRunAsync
<1>2. CASE \E op : AskSelected(w, op)
  BY <1>2, PickAskSelected
<1>3. CASE \E op, id : op \notin PackageAsks /\ Ask(w, op, id)
  BY <1>3, PickNote
<1>4. CASE GuiSwitchRepo(w)
  <2> DEFINE a == [asks[w] EXCEPT !.op = "reposChanged"]
  <2>1. UNCHANGED <<rows, sel, lit>> /\ asks' = [asks EXCEPT ![w] = a]
    BY <1>4 DEF GuiSwitchRepo
  <2>2. IsAsk(a) /\ a.op \notin PackageAsks
    BY DEF PickOK, PickTypeOK, IsAsk, PackageAsks
  <2> HIDE DEF a
  <2>3. QED
    BY <2>1, <2>2, PickAsk
<1>5. CASE GuiReposClosed(w)
  BY <1>5, PickRebuild, AskFacts DEF GuiReposClosed
<1>6. QED
  BY <1>1, <1>2, <1>3, <1>4, <1>5 DEF GuiHandler, GuiUpdateCatalog, GuiCheck, GuiUpgradeAll, GuiInfo,
     GuiAdopt, GuiSetDir, GuiInstallTo, GuiUpdateSelected, GuiRemove, GuiInstall, GuiSubmit,
     GuiRepos, PackageAsks

LEMMA PickMuiHandler == ASSUME PickOK, NEW w \in Windows, MuiHandler(w) PROVE PickOK'
<1>1. CASE \E op, id : RunAsync(w, op, id)
  BY <1>1, PickRunAsync
<1>2. CASE \E op : AskSelected(w, op)
  BY <1>2, PickAskSelected
<1>3. CASE \E op, id : op \notin PackageAsks /\ Ask(w, op, id)
  BY <1>3, PickNote
<1>4. CASE MuiSwitchRepo(w)
  BY <1>4, PickRebuildAtRest DEF MuiSwitchRepo, AtRest
<1>5. QED
  BY <1>1, <1>2, <1>3, <1>4 DEF MuiHandler, MuiUpdateCatalog, MuiCheck, MuiUpgradeAll, MuiInfo,
     MuiAdopt, MuiSetDir, MuiInstallTo, MuiUpdateSelected, MuiRemove, MuiInstall, MuiSubmit,
     PackageAsks

LEMMA PickPoll == ASSUME PickOK, NEW w \in Windows, Poll(w) PROVE PickOK'
<1>1. CASE Finished(w) /\ asks' = [asks EXCEPT ![w] = Report]
  BY <1>1, PickRebuild, AskFacts DEF Finished
<1>2. CASE Finished(w) /\ UNCHANGED asks
  BY <1>2, PickRebuildAtRest DEF Finished, Listening
<1>3. CASE Waits(w)
  BY <1>3, PickUnchanged DEF Waits
<1>4. QED
  BY <1>1, <1>2, <1>3 DEF Poll, Finished

LEMMA PickNext == PickOK /\ [Next]_vars => PickOK'
<1> SUFFICES ASSUME PickOK, [Next]_vars PROVE PickOK'
  OBVIOUS
<1>1. CASE UNCHANGED vars
  BY <1>1, PickUnchanged DEF vars, list
<1>2. ASSUME NEW w, RunLine(w) \/ WriteDone(w) \/ OrphanEnds(w) PROVE PickOK'
  BY <1>2, PickUnchanged DEF RunLine, WriteDone, OrphanEnds, list
<1>3. ASSUME NEW w \in Windows, Restart(w) PROVE PickOK'
  BY <1>3, PickRebuildAtRest DEF Restart, AtRest
<1>4. ASSUME NEW w \in Windows, Confirm(w) PROVE PickOK'
  BY <1>4, PickRunAsync DEF Confirm
<1>5. ASSUME NEW w \in Windows, Dismiss(w) PROVE PickOK'
  BY <1>5, PickAsk, AskFacts DEF Dismiss
<1>6. ASSUME NEW w \in Windows, NEW v, NEW f, Show(w, v, f) PROVE PickOK'
  BY <1>6, PickRebuildAtRest DEF Show, AtRest
<1>7. CASE ShellCommand \/ Publish
  BY <1>7, PickUnchanged DEF ShellCommand, Publish, list
<1>8. QED
  BY <1>1, <1>2, <1>3, <1>4, <1>5, <1>6, <1>7, PickSelect, PickPoll, PickGuiHandler, PickMuiHandler
     DEF Next, Windows

-----------------------------------------------------------------------------
\* What was shown when an operation starts.
Shown(w) == IF asks[w] = NoAsk THEN lit[w] ELSE asks[w].id
PackageOps == {"install", "remove", "adopt", "upgrade"}

\* A window gets busy only by its own launch, ...
LEMMA OthersStartNothing ==
    ASSUME AsyncTypeOK, NEW w \in Windows, ~busy[w], busy'[w],
           NEW v \in Windows, NEW op, NEW id, RunAsync(v, op, id)
    PROVE  v = w /\ Launches(w, op, id)
<1>1. CASE LaunchFails(v)
  BY <1>1 DEF LaunchFails
<1>2. CASE Launches(v, op, id) /\ v # w
  BY <1>2 DEF Launches, AsyncTypeOK
<1>3. QED
  BY <1>1, <1>2 DEF RunAsync

\* ... and that names the package shown, or none.
Truthful(w, op, id) ==
    Launches(w, op, id) /\ (op \in PackageOps \cup {"installTo"} => id # NoId /\ id = Shown(w))

LEMMA StartFromGui ==
    ASSUME AsyncTypeOK, PickOK, NEW w \in Windows, ~busy[w], busy'[w],
           NEW v \in Windows, GuiHandler(v)
    PROVE  \E op, id : Truthful(w, op, id)
<1>1. CASE GuiUpdateSelected(v)
  <2>1. AtRest(v) /\ Selected(v) # NoId /\ RunAsync(v, "upgrade", Selected(v))
    BY <1>1 DEF GuiUpdateSelected
  <2>2. v = w /\ Launches(w, "upgrade", Selected(w))
    BY <2>1, OthersStartNothing
  <2>3. QED
    BY <2>1, <2>2 DEF Truthful, Shown, PickOK, PickedOK, AtRest
<1>2. CASE GuiUpdateCatalog(v)
  BY <1>2, OthersStartNothing DEF GuiUpdateCatalog, Truthful, PackageOps
<1>3. CASE UNCHANGED busy
  BY <1>3
<1>4. QED
  BY <1>1, <1>2, <1>3, AskKeeps, AskSelectedKeeps DEF GuiHandler, GuiCheck, GuiUpgradeAll, GuiInfo,
     GuiAdopt, GuiSetDir, GuiInstallTo, GuiRemove, GuiInstall, GuiSubmit, GuiRepos, GuiSwitchRepo,
     GuiReposClosed, async

LEMMA StartFromMui ==
    ASSUME AsyncTypeOK, PickOK, NEW w \in Windows, ~busy[w], busy'[w],
           NEW v \in Windows, MuiHandler(v)
    PROVE  \E op, id : Truthful(w, op, id)
<1>1. CASE MuiUpdateSelected(v)
  <2>1. AtRest(v) /\ Selected(v) # NoId /\ RunAsync(v, "upgrade", Selected(v))
    BY <1>1 DEF MuiUpdateSelected
  <2>2. v = w /\ Launches(w, "upgrade", Selected(w))
    BY <2>1, OthersStartNothing
  <2>3. QED
    BY <2>1, <2>2 DEF Truthful, Shown, PickOK, PickedOK, AtRest
<1>2. CASE MuiUpdateCatalog(v) \/ MuiCheck(v) \/ MuiSubmit(v)
  BY <1>2, OthersStartNothing DEF MuiUpdateCatalog, MuiCheck, MuiSubmit, Truthful, PackageOps
<1>3. CASE UNCHANGED busy
  BY <1>3
<1>4. QED
  BY <1>1, <1>2, <1>3, AskKeeps, AskSelectedKeeps DEF MuiHandler, MuiUpgradeAll, MuiInfo, MuiAdopt,
     MuiSetDir, MuiInstallTo, MuiRemove, MuiInstall, MuiSwitchRepo, async

LEMMA StartConfirmed ==
    ASSUME AsyncTypeOK, PickOK, NEW w \in Windows, ~busy[w], busy'[w],
           NEW v \in Windows, Confirm(v)
    PROVE  \E op, id : Truthful(w, op, id)
<1>1. asks[v].op \in Operations /\ RunAsync(v, asks[v].op, Target(v))
  BY DEF Confirm
<1>2. v = w /\ Launches(w, asks[w].op, Target(w))
  BY <1>1, OthersStartNothing
<1>3. asks[w] # NoAsk
  BY <1>1, <1>2 DEF NoAsk, Operations
<1>4. asks[w].op \in PackageOps \cup {"installTo"} => asks[w].op \in PackageAsks
  BY <1>1, <1>2 DEF PackageOps, PackageAsks, Operations
<1>5. asks[w].op \in PackageAsks => Target(w) = asks[w].id /\ asks[w].id # NoId
  BY DEF Target, PickOK, PickedOK, PackageAsks
<1>6. QED
  BY <1>2, <1>3, <1>4, <1>5 DEF Truthful, Shown

LEMMA StartsTruthful ==
    ASSUME AsyncTypeOK, PickOK, [Next]_vars, NEW w \in Windows, ~busy[w], busy'[w]
    PROVE  \E op, id : Truthful(w, op, id)
<1>1. CASE UNCHANGED busy
  BY <1>1
<1>2. ASSUME NEW v \in Windows, Restart(v) \/ Poll(v) PROVE FALSE
  BY <1>2 DEF Restart, Poll, Finished, Waits, AsyncTypeOK
<1>3. QED
  BY <1>1, <1>2, StartFromGui, StartFromMui, StartConfirmed DEF Next, RunLine, WriteDone, OrphanEnds,
     Dismiss, Select, Show, ShellCommand, Publish, async, vars, Windows

LEMMA FirstCommand ==
    ASSUME NEW op, NEW id, Head(Script(op, id)).do \in PackageOps
    PROVE  op \in PackageOps \cup {"installTo"} /\ Head(Script(op, id)).id = id
<1>1. op # "upgradeAll" /\ op # "check" /\ op # "submit"
  BY DEF Script, Command, PackageOps
<1>2. CASE op = "installTo"
  BY <1>2 DEF Script, Command
<1>3. CASE op # "installTo"
  BY <1>1, <1>3 DEF Script, Command
<1>4. QED
  BY <1>2, <1>3

\* The command names the package the user was asked about, or had selected
\* (action_remove and its siblings), whatever the lists did meanwhile.
THEOREM OperationsNameThePick == Spec => ActsOnPicked
<1>1. ASSUME AsyncOK, PickOK, [Next]_vars, NEW w \in Windows, ~busy[w], busy'[w],
             Head(script'[w].left).do \in PackageOps
      PROVE  Head(script'[w].left).id # NoId /\ Head(script'[w].left).id = Shown(w)
  <2>1. PICK op, id : Truthful(w, op, id)
    BY <1>1, StartsTruthful DEF AsyncOK
  <2>2. script'[w].left = Script(op, id)
    BY <1>1, <2>1 DEF Truthful, Launches, AsyncOK, AsyncTypeOK
  <2>3. QED
    BY <1>1, <2>1, <2>2, FirstCommand DEF Truthful
<1>2. AsyncOK /\ PickOK /\ [Next]_vars =>
          [\A w \in Windows :
             ~busy[w] /\ busy'[w] =>
                 LET c == Head(script'[w].left)
                     shown == IF asks[w] = NoAsk THEN lit[w] ELSE asks[w].id
                 IN c.do \in {"install", "remove", "adopt", "upgrade"} =>
                        c.id # NoId /\ c.id = shown]_vars
  BY <1>1 DEF Shown, PackageOps
<1>3. Init => AsyncOK /\ PickOK
  BY AsyncInit, PickInit
<1>4. AsyncOK /\ PickOK /\ [Next]_vars => AsyncOK' /\ PickOK'
  BY AsyncNext, PickNext
<1>5. QED
  BY <1>2, <1>3, <1>4, PTL DEF Spec, ActsOnPicked
-----------------------------------------------------------------------------
\* A row of a fresh list is marked UPDATE as the disk says; a window that waits
\* offers Info at most; the buttons are those of the selected row, except while
\* a report holds them up.
Labelled(w) ==
    fresh[w] => \A j \in DOMAIN rows[w] : rows[w][j].update = HasUpdate(rows[w][j].id)
Locked(w) == busy[w] => can[w] \subseteq {"info"}
Followed(w) ==
    Selected(w) # NoId /\ fresh[w] /\ ~busy[w] /\ asks[w] # Report => can[w] = Offered(w)

TruthTypeOK ==
    /\ can = [w \in Windows |-> can[w]] /\ view = [w \in Windows |-> view[w]]
    /\ fresh \in [Windows -> BOOLEAN]

TruthOK == TruthTypeOK /\ \A w \in Windows : Labelled(w) /\ Locked(w) /\ Followed(w)

LEMMA ReadSame == ASSUME UNCHANGED <<db, cat, off>>
                  PROVE  /\ \A id : HasUpdate(id)' = HasUpdate(id)
                         /\ \A id : IsInstalled(id)' = IsInstalled(id)
<1>1. Entries' = Entries
  BY DEF Entries
<1>2. QED
  BY <1>1 DEF HasUpdate, IsInstalled

\* Every list a window builds is labelled by the disk it is built from.
LEMMA ListedLabelled ==
    ASSUME NEW w \in Windows
    PROVE  \A j \in DOMAIN Listed(w) : Listed(w)[j].update = HasUpdate(Listed(w)[j].id)
<1>1. ASSUME NEW s PROVE \A j \in DOMAIN RowsOf(s) : RowsOf(s)[j].update = HasUpdate(RowsOf(s)[j].id)
  BY DEF RowsOf
<1>2. QED
  BY <1>1 DEF Listed

\* What a step leaves of a window whose list and buttons it does not touch.
LEMMA TruthKept ==
    ASSUME NEW w \in Windows, TruthTypeOK, Labelled(w), Locked(w), Followed(w),
           fresh'[w] \in {fresh[w], FALSE}, fresh'[w] => UNCHANGED <<db, cat, off>>,
           rows'[w] = rows[w], sel'[w] = sel[w], can'[w] = can[w], busy'[w] = busy[w],
           view'[w] = view[w], asks[w] = Report => asks'[w] = Report
    PROVE  Labelled(w)' /\ Locked(w)' /\ Followed(w)'
<1>1. Labelled(w)'
  BY ReadSame DEF Labelled
<1>2. Locked(w)'
  BY DEF Locked
<1>3. Followed(w)'
  <2>1. Selected(w)' = Selected(w)
    BY DEF Selected
  <2>2. CASE fresh'[w]
    <3>1. Offered(w)' = Offered(w)
      BY <2>1, <2>2, ReadSame DEF Offered
    <3>2. fresh[w]
      BY <2>2
    <3>3. QED
      BY <2>1, <3>1, <3>2 DEF Followed
  <2>3. QED
    BY <2>2 DEF Followed
<1>4. QED
  BY <1>1, <1>2, <1>3

\* update_action_state after a rebuild, or with the list as it was.
LEMMA TruthRelabelled ==
    ASSUME NEW w \in Windows, can'[w] = Offered(w)', Labelled(w)'
    PROVE  Labelled(w)' /\ Locked(w)' /\ Followed(w)'
  BY DEF Locked, Followed, Offered

LEMMA RelabelSets == ASSUME TruthTypeOK, NEW w \in Windows, Relabel(w)
                     PROVE  /\ can'[w] = Offered(w)'
                            /\ can' = [v \in Windows |-> can'[v]]
                            /\ \A v \in Windows \ {w} : can'[v] = can[v]
  BY DEF TruthTypeOK, Relabel

LEMMA RebuildLabels == ASSUME PickOK, NEW w \in Windows, Rebuild(w)
                       PROVE  /\ Labelled(w)'
                              /\ \A v \in Windows \ {w} : rows'[v] = rows[v]
<1>1. rows' = [rows EXCEPT ![w] = Listed(w)']
  BY DEF Rebuild
<1>2. rows'[w] = Listed(w)' /\ \A v \in Windows \ {w} : rows'[v] = rows[v]
  BY <1>1 DEF PickOK, PickTypeOK
<1>3. (\A j \in DOMAIN Listed(w) : Listed(w)[j].update = HasUpdate(Listed(w)[j].id))'
  BY ListedLabelled, PTL
<1>4. QED
  BY <1>2, <1>3 DEF Labelled

\* Of a list the window has rebuilt nothing is selected.
LEMMA TruthDeselected ==
    ASSUME NEW w \in Windows, TruthTypeOK, PickOK, Locked(w),
           Rebuild(w), Deselect(w), UNCHANGED can, busy'[w] \in {busy[w], FALSE}
    PROVE  Labelled(w)' /\ Locked(w)' /\ Followed(w)'
<1>1. Labelled(w)'
  BY RebuildLabels
<1>2. Locked(w)'
  BY DEF Locked
<1>3. sel'[w] = 0
  BY DEF Deselect, PickOK, PickTypeOK
<1>4. Followed(w)'
  BY <1>3 DEF Followed, Selected
<1>5. QED
  BY <1>1, <1>2, <1>4

\* One window's step, seen by another.
Elsewhere(v) ==
    /\ fresh'[v] \in {fresh[v], FALSE}
    /\ fresh'[v] => UNCHANGED <<db, cat, off>>
    /\ rows'[v] = rows[v] /\ sel'[v] = sel[v] /\ can'[v] = can[v] /\ busy'[v] = busy[v]
    /\ view'[v] = view[v] /\ asks'[v] = asks[v]

LEMMA TruthWindow ==
    ASSUME TruthOK, TruthTypeOK', NEW w \in Windows, Labelled(w)', Locked(w)', Followed(w)',
           \A v \in Windows \ {w} : Elsewhere(v)
    PROVE  TruthOK'
<1>1. ASSUME NEW v \in Windows, v # w PROVE Labelled(v)' /\ Locked(v)' /\ Followed(v)'
  <2>1. Elsewhere(v) /\ v \in Windows
    BY <1>1
  <2>2. TruthTypeOK /\ Labelled(v) /\ Locked(v) /\ Followed(v)
    BY DEF TruthOK
  <2>3. /\ fresh'[v] \in {fresh[v], FALSE} /\ (fresh'[v] => UNCHANGED <<db, cat, off>>)
        /\ rows'[v] = rows[v] /\ sel'[v] = sel[v] /\ can'[v] = can[v] /\ busy'[v] = busy[v]
        /\ view'[v] = view[v] /\ (asks[v] = Report => asks'[v] = Report)
    BY <2>1 DEF Elsewhere
  <2> HIDE DEF Elsewhere, Labelled, Locked, Followed, TruthTypeOK
  <2>4. QED
    BY <2>1, <2>2, <2>3, TruthKept
<1>2. QED
  BY <1>1 DEF TruthOK

\* No list and no button changes; what is on disk may, and then no list is fresh.
LEMMA TruthQuiet ==
    ASSUME TruthOK, UNCHANGED <<rows, sel, can, busy, view, asks>>,
           UNCHANGED <<fresh, db, cat, off>> \/ fresh' = [w \in Windows |-> FALSE]
    PROVE  TruthOK'
<1>1. TruthTypeOK'
  BY DEF TruthOK, TruthTypeOK
<1>2. ASSUME NEW w \in Windows PROVE Labelled(w)' /\ Locked(w)' /\ Followed(w)'
  BY <1>2, TruthKept DEF TruthOK
<1>3. QED
  BY <1>1, <1>2 DEF TruthOK

LEMMA AgedQuiet == ASSUME Aged
                   PROVE  \/ UNCHANGED <<fresh, db, cat, off>>
                          \/ fresh' = [w \in Windows |-> FALSE]
  BY DEF Aged

\* A requester opens or closes, or a result arrives, that changes no list.
LEMMA TruthAsks ==
    ASSUME TruthOK, PickOK, NEW w \in Windows, NEW a, asks' = [asks EXCEPT ![w] = a],
           asks[w] # Report, UNCHANGED <<rows, sel, can, busy, view>>,
           UNCHANGED <<fresh, db, cat, off>> \/ fresh' = [v \in Windows |-> FALSE]
    PROVE  TruthOK'
<1>1. TruthTypeOK'
  BY DEF TruthOK, TruthTypeOK
<1>2. ASSUME NEW v \in Windows PROVE Labelled(v)' /\ Locked(v)' /\ Followed(v)'
  <2>1. asks[v] = Report => asks'[v] = Report
    BY DEF PickOK, PickTypeOK
  <2>2. QED
    BY <2>1, TruthKept DEF TruthOK
<1>3. QED
  BY <1>1, <1>2 DEF TruthOK

LEMMA TruthRunAsync ==
    ASSUME AsyncOK, PickOK, TruthOK, NEW w \in Windows, NEW op, NEW id, asks[w] # Report,
           RunAsync(w, op, id)
    PROVE  TruthOK'
<1>1. CASE LaunchFails(w)
  BY <1>1, TruthAsks DEF LaunchFails, list, disk
<1>2. CASE Launches(w, op, id)
  <2>1. /\ UNCHANGED <<db, cat, off, rows, sel, view, fresh>> /\ Relabel(w)
        /\ busy' = [busy EXCEPT ![w] = TRUE] /\ asks' = [asks EXCEPT ![w] = NoAsk]
    BY <1>2 DEF Launches, disk
  <2>2. /\ can'[w] = Offered(w)' /\ can' = [v \in Windows |-> can'[v]]
        /\ \A v \in Windows \ {w} : can'[v] = can[v]
    BY <2>1, RelabelSets DEF TruthOK
  <2>3. TruthTypeOK'
    BY <2>1, <2>2 DEF TruthOK, TruthTypeOK
  <2>4. Labelled(w)'
    BY <2>1, ReadSame DEF TruthOK, Labelled
  <2>5. Locked(w)' /\ Followed(w)'
    BY <2>2, <2>4, TruthRelabelled
  <2>6. ASSUME NEW v \in Windows, v # w PROVE Elsewhere(v)
    BY <2>1, <2>2, <2>6 DEF Elsewhere, TruthOK, TruthTypeOK, PickOK, PickTypeOK, AsyncOK, AsyncTypeOK
  <2>7. QED
    BY <2>3, <2>4, <2>5, <2>6, TruthWindow
<1>3. QED
  BY <1>1, <1>2 DEF RunAsync

\* The list is rebuilt; the buttons follow, or are as they were.
LEMMA TruthRebuild ==
    ASSUME AsyncOK, PickOK, TruthOK, NEW w \in Windows, Rebuild(w), Deselect(w),
           Relabel(w) \/ UNCHANGED can,
           \/ UNCHANGED <<db, cat, off>> /\ fresh' = [fresh EXCEPT ![w] = TRUE]
           \/ fresh' = [v \in Windows |-> v = w],
           UNCHANGED busy \/ busy' = [busy EXCEPT ![w] = FALSE],
           UNCHANGED asks \/ \E a : asks' = [asks EXCEPT ![w] = a],
           UNCHANGED view \/ \E x : view' = [view EXCEPT ![w] = x]
    PROVE  TruthOK'
<1>1. Labelled(w)' /\ \A v \in Windows \ {w} : rows'[v] = rows[v]
  BY RebuildLabels
<1>2. /\ can' = [v \in Windows |-> can'[v]]
      /\ \A v \in Windows \ {w} : can'[v] = can[v]
  BY RelabelSets DEF TruthOK, TruthTypeOK
<1>3. TruthTypeOK'
  BY <1>2 DEF TruthOK, TruthTypeOK
<1>4. Locked(w)' /\ Followed(w)'
  <2>1. CASE Relabel(w)
    BY <1>1, <2>1, RelabelSets, TruthRelabelled DEF TruthOK
  <2>2. CASE UNCHANGED can
    <3>1. busy'[w] \in {busy[w], FALSE}
      BY DEF AsyncOK, AsyncTypeOK
    <3>2. QED
      BY <2>2, <3>1, TruthDeselected DEF TruthOK
  <2>3. QED
    BY <2>1, <2>2
<1>5. ASSUME NEW v \in Windows, v # w PROVE Elsewhere(v)
  <2>1. /\ fresh'[v] \in {fresh[v], FALSE}
        /\ fresh'[v] => UNCHANGED <<db, cat, off>>
    BY <1>5 DEF TruthOK, TruthTypeOK
  <2>2. sel'[v] = sel[v] /\ busy'[v] = busy[v] /\ view'[v] = view[v] /\ asks'[v] = asks[v]
    BY <1>5 DEF Deselect, TruthOK, TruthTypeOK, PickOK, PickTypeOK, AsyncOK, AsyncTypeOK
  <2>3. QED
    BY <1>1, <1>2, <1>5, <2>1, <2>2 DEF Elsewhere
<1>6. QED
  BY <1>1, <1>3, <1>4, <1>5, TruthWindow

\* The buttons follow, and the list stays.
LEMMA TruthFollows ==
    ASSUME AsyncOK, PickOK, TruthOK, NEW w \in Windows, Relabel(w),
           UNCHANGED <<db, cat, off, rows, view, fresh>>,
           UNCHANGED sel \/ \E x : sel' = [sel EXCEPT ![w] = x],
           UNCHANGED busy \/ busy' = [busy EXCEPT ![w] = FALSE],
           UNCHANGED asks \/ \E a : asks' = [asks EXCEPT ![w] = a]
    PROVE  TruthOK'
<1>1. /\ can'[w] = Offered(w)' /\ can' = [v \in Windows |-> can'[v]]
      /\ \A v \in Windows \ {w} : can'[v] = can[v]
  BY RelabelSets DEF TruthOK
<1>2. TruthTypeOK'
  BY <1>1 DEF TruthOK, TruthTypeOK
<1>3. Labelled(w)'
  BY ReadSame DEF TruthOK, Labelled
<1>4. Locked(w)' /\ Followed(w)'
  BY <1>1, <1>3, TruthRelabelled
<1>5. ASSUME NEW v \in Windows, v # w PROVE Elsewhere(v)
  BY <1>1, <1>5 DEF Elsewhere, TruthOK, TruthTypeOK, PickOK, PickTypeOK, AsyncOK, AsyncTypeOK
<1>6. QED
  BY <1>2, <1>3, <1>4, <1>5, TruthWindow

LEMMA TruthPoll == ASSUME AsyncOK, PickOK, TruthOK, NEW w \in Windows, Poll(w) PROVE TruthOK'
<1>1. CASE Finished(w)
  <2>1. /\ Rebuild(w) /\ Deselect(w) /\ UNCHANGED <<db, cat, off, view>>
        /\ busy' = [busy EXCEPT ![w] = FALSE] /\ fresh' = [fresh EXCEPT ![w] = TRUE]
    BY <1>1 DEF Finished, disk
  <2>2. \/ asks' = [asks EXCEPT ![w] = Report] /\ UNCHANGED can
        \/ Relabel(w) /\ UNCHANGED asks
    BY <1>1 DEF Finished
  <2>3. QED
    BY <2>1, <2>2, TruthRebuild
<1>2. CASE Waits(w)
  <2>1. UNCHANGED <<db, cat, off, rows, sel, view, fresh, asks>>
    BY <1>2 DEF Waits, disk
  <2>2. CASE UNCHANGED <<busy, can>>
    BY <2>1, <2>2, TruthQuiet
  <2>3. CASE busy' = [busy EXCEPT ![w] = FALSE] /\ Relabel(w)
    BY <2>1, <2>3, TruthFollows
  <2>4. QED
    BY <1>2, <2>2, <2>3 DEF Waits
<1>3. QED
  BY <1>1, <1>2 DEF Poll

LEMMA TruthDismiss == ASSUME AsyncOK, PickOK, TruthOK, NEW w \in Windows, Dismiss(w) PROVE TruthOK'
<1>1. /\ UNCHANGED <<db, cat, off, rows, sel, view, fresh, busy>>
      /\ asks' = [asks EXCEPT ![w] = NoAsk]
  BY DEF Dismiss, disk, async
<1>2. CASE Relabel(w)
  BY <1>1, <1>2, TruthFollows
<1>3. CASE asks[w] # Report /\ UNCHANGED can
  BY <1>1, <1>3, TruthAsks
<1>4. QED
  BY <1>2, <1>3 DEF Dismiss

LEMMA TruthList ==
    ASSUME AsyncOK, PickOK, TruthOK, NEW w \in Windows,
           Restart(w) \/ (\E s : Select(w, s)) \/ (\E v, f : Show(w, v, f))
    PROVE  TruthOK'
<1>1. CASE Restart(w)
  <2>1. /\ Rebuild(w) /\ Deselect(w) /\ Relabel(w) /\ UNCHANGED <<db, cat, off, asks>>
        /\ busy' = [busy EXCEPT ![w] = FALSE] /\ fresh' = [fresh EXCEPT ![w] = TRUE]
        /\ view' = [view EXCEPT ![w] = FirstView(w)]
    BY <1>1 DEF Restart, disk
  <2>2. QED
    BY <2>1, TruthRebuild
<1>2. ASSUME NEW s, Select(w, s) PROVE TruthOK'
  <2>1. /\ Relabel(w) /\ UNCHANGED <<db, cat, off, rows, view, fresh, asks, busy>>
        /\ sel' = [sel EXCEPT ![w] = s]
    BY <1>2 DEF Select, disk, async
  <2>2. QED
    BY <2>1, TruthFollows
<1>3. ASSUME NEW v, NEW f, Show(w, v, f) PROVE TruthOK'
  <2>1. /\ Rebuild(w) /\ Deselect(w) /\ Relabel(w) /\ UNCHANGED <<db, cat, off, asks, busy>>
        /\ fresh' = [fresh EXCEPT ![w] = TRUE] /\ view' = [view EXCEPT ![w] = v]
    BY <1>3 DEF Show, disk, async
  <2>2. QED
    BY <2>1, TruthRebuild
<1>4. QED
  BY <1>1, <1>2, <1>3

LEMMA TruthAsk ==
    ASSUME AsyncOK, PickOK, TruthOK, NEW w \in Windows, NEW op, NEW id, Ask(w, op, id)
    PROVE  TruthOK'
<1>1. /\ UNCHANGED <<db, cat, off, rows, sel, view, fresh, busy, can>> /\ asks[w] = NoAsk
      /\ asks' = [asks EXCEPT ![w] = [op |-> op, id |-> id]]
  BY DEF Ask, AtRest, disk, async, list
<1>2. NoAsk # Report
  BY DEF NoAsk, Report
<1>3. QED
  BY <1>1, <1>2, TruthAsks

LEMMA TruthGuiHandler ==
    ASSUME AsyncOK, PickOK, TruthOK, NEW w \in Windows, GuiHandler(w) PROVE TruthOK'
<1>1. CASE \E op, id : AtRest(w) /\ RunAsync(w, op, id)
  BY <1>1, TruthRunAsync DEF AtRest, NoAsk, Report
<1>2. CASE \E op, id : Ask(w, op, id)
  BY <1>2, TruthAsk
<1>3. CASE GuiSwitchRepo(w)
  <2>1. /\ UNCHANGED <<rows, sel, view, busy, can>> /\ asks[w] # Report /\ Aged
        /\ asks' = [asks EXCEPT ![w] = [asks[w] EXCEPT !.op = "reposChanged"]]
    BY <1>3 DEF GuiSwitchRepo, async, Report
  <2>2. QED
    BY <2>1, AgedQuiet, TruthAsks
<1>4. CASE GuiReposClosed(w)
  <2>1. /\ Rebuild(w) /\ Deselect(w) /\ UNCHANGED <<db, cat, off, view, busy, can>>
        /\ fresh' = [fresh EXCEPT ![w] = TRUE] /\ asks' = [asks EXCEPT ![w] = NoAsk]
    BY <1>4 DEF GuiReposClosed, disk, async
  <2>2. QED
    BY <2>1, TruthRebuild
<1>5. QED
  BY <1>1, <1>2, <1>3, <1>4 DEF GuiHandler, GuiUpdateCatalog, GuiCheck, GuiUpgradeAll, GuiInfo,
     GuiAdopt, GuiSetDir, GuiInstallTo, GuiUpdateSelected, GuiRemove, GuiInstall, GuiSubmit,
     GuiRepos, AskSelected

LEMMA TruthMuiHandler ==
    ASSUME AsyncOK, PickOK, TruthOK, NEW w \in Windows, MuiHandler(w) PROVE TruthOK'
<1>1. CASE \E op, id : AtRest(w) /\ RunAsync(w, op, id)
  BY <1>1, TruthRunAsync DEF AtRest, NoAsk, Report
<1>2. CASE \E op, id : Ask(w, op, id)
  BY <1>2, TruthAsk
<1>3. CASE MuiSwitchRepo(w)
  <2>1. /\ Rebuild(w) /\ Deselect(w) /\ Relabel(w) /\ UNCHANGED <<view, busy, asks>>
        /\ fresh' = [v \in Windows |-> v = w]
    BY <1>3 DEF MuiSwitchRepo, async
  <2>2. QED
    BY <2>1, TruthRebuild
<1>4. QED
  BY <1>1, <1>2, <1>3 DEF MuiHandler, MuiUpdateCatalog, MuiCheck, MuiUpgradeAll, MuiInfo,
     MuiAdopt, MuiSetDir, MuiInstallTo, MuiUpdateSelected, MuiRemove, MuiInstall, MuiSubmit,
     AskSelected

LEMMA TruthInit == ASSUME Init PROVE TruthOK
<1>1. TruthTypeOK
  BY DEF Init, TruthTypeOK
<1>2. ASSUME NEW w \in Windows PROVE Labelled(w) /\ Locked(w) /\ Followed(w)
  <2>1. rows[w] = Listed(w) /\ can[w] = Offered(w) /\ busy[w] = FALSE
    BY DEF Init
  <2>2. QED
    BY <2>1, ListedLabelled DEF Labelled, Locked, Followed
<1>3. QED
  BY <1>1, <1>2 DEF TruthOK

LEMMA TruthNext == ASSUME AsyncOK, PickOK, TruthOK, [Next]_vars PROVE TruthOK'
<1>1. CASE UNCHANGED vars
  BY <1>1, TruthQuiet DEF vars, disk, async, list
<1>2. ASSUME NEW w, RunLine(w) \/ WriteDone(w) \/ OrphanEnds(w) PROVE TruthOK'
  <2>1. UNCHANGED <<rows, sel, can, busy, view, asks>>
    BY <1>2 DEF RunLine, WriteDone, OrphanEnds, list
  <2>2. UNCHANGED <<fresh, db, cat, off>> \/ fresh' = [v \in Windows |-> FALSE]
    BY <1>2, AgedQuiet DEF RunLine, WriteDone, OrphanEnds, list, disk
  <2>3. QED
    BY <2>1, <2>2, TruthQuiet
<1>3. CASE ShellCommand \/ Publish
  <2>1. UNCHANGED <<rows, sel, can, busy, view, asks>>
    BY <1>3 DEF ShellCommand, Publish, list, async
  <2>2. UNCHANGED <<fresh, db, cat, off>> \/ fresh' = [v \in Windows |-> FALSE]
    BY <1>3, AgedQuiet DEF ShellCommand, Publish, list
  <2>3. QED
    BY <2>1, <2>2, TruthQuiet
<1>4. ASSUME NEW w \in Windows, Confirm(w) PROVE TruthOK'
  <2>1. asks[w] # Report
    BY <1>4 DEF Confirm, Operations, Report
  <2>2. QED
    BY <1>4, <2>1, TruthRunAsync DEF Confirm
<1>5. QED
  BY <1>1, <1>2, <1>3, <1>4, TruthPoll, TruthDismiss, TruthList, TruthGuiHandler, TruthMuiHandler
     DEF Next, Windows

\* What a window offers is true (update_action_state, pkg_has_update,
\* rebuild_list): with every number of windows and whatever requester, report
\* or repository page is open while lists and database change behind them.
THEOREM ButtonsTell == Spec => []ButtonsTruthful
<1>1. ASSUME TruthOK PROVE ButtonsTruthful
  <2>1. ASSUME NEW w \in Windows, Selected(w) # NoId, fresh[w], ~busy[w], asks[w] # Report
        PROVE  LET r == rows[w][sel[w]] IN
               /\ "upgrade" \in can[w] <=> r.update
               /\ "remove" \in can[w] <=> IsInstalled(r.id)
               /\ (\A j \in DOMAIN Entries : Entries[j].id = r.id => Entries[j].sort = NoSort)
                     => (r.update <=> Outdated(r.id))
    <3> DEFINE r == rows[w][sel[w]]
    <3>1. sel[w] \in DOMAIN rows[w] /\ r.id = Selected(w)
      BY <2>1 DEF Selected
    <3>2. r.update = HasUpdate(r.id) /\ can[w] = Offered(w)
      BY <1>1, <2>1, <3>1 DEF TruthOK, Labelled, Followed
    <3>3. "upgrade" \in Offered(w) <=> HasUpdate(Selected(w))
      BY <2>1 DEF Offered, Buttons
    <3>4. "remove" \in Offered(w) <=> IsInstalled(Selected(w))
      BY <2>1 DEF Offered, Buttons
    <3>5. (\A j \in DOMAIN Entries : Entries[j].id = r.id => Entries[j].sort = NoSort)
              => (HasUpdate(r.id) <=> Outdated(r.id))
      BY DEF HasUpdate, Outdated, Comparable
    <3> HIDE DEF r
    <3>6. QED
      BY <3>1, <3>2, <3>3, <3>4, <3>5 DEF r
  <2>2. QED
    BY <1>1, <2>1 DEF ButtonsTruthful, TruthOK, Locked
<1>2. Init => AsyncOK /\ PickOK /\ TruthOK
  BY AsyncInit, PickInit, TruthInit
<1>3. AsyncOK /\ PickOK /\ TruthOK /\ [Next]_vars => AsyncOK' /\ PickOK' /\ TruthOK'
  BY AsyncNext, PickNext, TruthNext
<1>4. QED
  BY <1>1, <1>2, <1>3, PTL DEF Spec
-----------------------------------------------------------------------------
(***************************************************************************)
(* Types.  What a window shows, and what the database becomes, is taken    *)
(* line by line from the lists on the disk: first, that Where takes        *)
(* nothing else.                                                           *)
(***************************************************************************)
LEMMA Induct == ASSUME NEW S, 0 \in S, \A n \in Nat : n \in S => n + 1 \in S
                PROVE  Nat \subseteq S
<1> DEFINE Rest == {n \in Nat : n \notin S}
<1>1. SUFFICES ASSUME Rest # {} PROVE FALSE
  OBVIOUS
<1>2. Rest \subseteq Nat
  OBVIOUS
<1> HIDE DEF Rest
<1>3. PICK m \in Rest : \A n \in Rest : ~(<<n, m>> \in OpToRel(<, Nat))
  BY <1>1, <1>2, WFMin, NatLessThanWellFounded
<1>4. m \in Nat /\ m \notin S /\ \A n \in Nat : n < m => n \in S
  BY <1>2, <1>3 DEF OpToRel, Rest
<1>5. m # 0
  BY <1>4
<1>6. m - 1 \in Nat /\ m - 1 < m /\ (m - 1) + 1 = m
  BY <1>4, <1>5
<1>7. m - 1 \in S
  BY <1>4, <1>6
<1>8. QED
  BY <1>4, <1>6, <1>7

\* f is what the first n lines of s about packages of S are, and all before.
Takes(f, s, S, n) ==
    f = [k \in 0..n |->
            IF k = 0 THEN <<>>
            ELSE IF s[k].id \in S THEN Append(f[k - 1], s[k])
            ELSE f[k - 1]]

LEMMA SomeTakes == ASSUME NEW s, NEW S, NEW n \in Nat PROVE \E f : Takes(f, s, S, n)
<1> DEFINE N == {k \in Nat : \E f : Takes(f, s, S, k)}
<1>1. 0 \in N
  <2>1. Takes([k \in 0..0 |-> <<>>], s, S, 0)
    BY DEF Takes
  <2>2. QED
    BY <2>1
<1>2. ASSUME NEW k \in Nat, k \in N PROVE k + 1 \in N
  <2>1. PICK f : Takes(f, s, S, k)
    BY <1>2
  <2>2. PICK y : y = IF s[k + 1].id \in S THEN Append(f[k], s[k + 1]) ELSE f[k]
    OBVIOUS
  <2>3. PICK h : h = [j \in 0..(k + 1) |-> IF j = k + 1 THEN y ELSE f[j]]
    OBVIOUS
  <2>4. h[k + 1] = y /\ \A j \in 0..k : h[j] = f[j]
    BY <2>3
  <2>5. ASSUME NEW j \in 0..(k + 1)
        PROVE  h[j] = IF j = 0 THEN <<>>
                      ELSE IF s[j].id \in S THEN Append(h[j - 1], s[j])
                      ELSE h[j - 1]
    <3>1. CASE j = k + 1
      <4>1. j # 0 /\ j - 1 = k /\ k \in 0..k
        BY <3>1
      <4>2. QED
        BY <2>2, <2>4, <3>1, <4>1
    <3>2. CASE j \in 0..k
      <4>1. f[j] = IF j = 0 THEN <<>>
                   ELSE IF s[j].id \in S THEN Append(f[j - 1], s[j])
                   ELSE f[j - 1]
        BY <2>1, <3>2 DEF Takes
      <4>2. j # 0 => j - 1 \in 0..k
        BY <3>2
      <4>3. QED
        BY <2>4, <3>2, <4>1, <4>2
    <3>3. QED
      BY <3>1, <3>2
  <2>6. h = [j \in 0..(k + 1) |->
                IF j = 0 THEN <<>>
                ELSE IF s[j].id \in S THEN Append(h[j - 1], s[j])
                ELSE h[j - 1]]
    BY <2>3, <2>5
  <2>7. Takes(h, s, S, k + 1)
    BY <2>6 DEF Takes
  <2>8. QED
    BY <2>7
<1> HIDE DEF N
<1>3. n \in N
  BY <1>1, <1>2, Induct
<1>4. QED
  BY <1>3 DEF N

LEMMA WhereSelects ==
    ASSUME NEW L, NEW s \in Seq(L), NEW S PROVE Where(s, S) \in Seq({x \in L : x.id \in S})
<1> DEFINE f == CHOOSE g : Takes(g, s, S, Len(s))
    K == {x \in L : x.id \in S}
    N == {k \in Nat : k <= Len(s) => f[k] \in Seq(K)}
<1>1. Len(s) \in Nat /\ \A k \in 1..Len(s) : s[k] \in L
  BY LenProperties, ElementOfSeq
<1>2. Takes(f, s, S, Len(s))
  BY <1>1, SomeTakes
<1>3. Where(s, S) = f[Len(s)]
  BY DEF Where, Takes
<1> HIDE DEF f
<1>4. \A k \in 0..Len(s) : f[k] = IF k = 0 THEN <<>>
                                  ELSE IF s[k].id \in S THEN Append(f[k - 1], s[k])
                                  ELSE f[k - 1]
  BY <1>2 DEF Takes
<1>5. 0 \in N
  <2>1. f[0] = <<>>
    BY <1>1, <1>4
  <2>2. QED
    BY <2>1, EmptySeq
<1>6. ASSUME NEW k \in Nat, k \in N PROVE k + 1 \in N
  <2> SUFFICES ASSUME k + 1 <= Len(s) PROVE f[k + 1] \in Seq(K)
    OBVIOUS
  <2>1. f[k] \in Seq(K) /\ s[k + 1] \in L
    BY <1>1, <1>6
  <2>2. k + 1 \in 0..Len(s) /\ k + 1 # 0 /\ (k + 1) - 1 = k
    BY <1>1
  <2>3. f[k + 1] = IF s[k + 1].id \in S THEN Append(f[k], s[k + 1]) ELSE f[k]
    BY <1>4, <2>2
  <2>4. CASE s[k + 1].id \in S
    <3>1. s[k + 1] \in K
      BY <2>1, <2>4
    <3> HIDE DEF K
    <3>2. QED
      BY <2>1, <2>3, <2>4, <3>1, AppendProperties
  <2>5. QED
    BY <2>1, <2>3, <2>4
<1> HIDE DEF N
<1>7. Len(s) \in N
  BY <1>1, <1>5, <1>6, Induct
<1>8. QED
  BY <1>1, <1>3, <1>7 DEF N

LEMMA SeqOfMore == ASSUME NEW K, NEW L, K \subseteq L PROVE Seq(K) \subseteq Seq(L)
<1>1. \A n \in Nat : [1..n -> K] \subseteq [1..n -> L]
  OBVIOUS
<1>2. QED
  BY <1>1, SeqDef

LEMMA WhereTyped == ASSUME NEW L, NEW s \in Seq(L), NEW S PROVE Where(s, S) \in Seq(L)
<1> DEFINE K == {x \in L : x.id \in S}
<1>1. K \subseteq L
  OBVIOUS
<1>2. Where(s, S) \in Seq(K)
  BY WhereSelects
<1> HIDE DEF K
<1>3. QED
  BY <1>1, <1>2, SeqOfMore

LEMMA MapTyped == ASSUME NEW L, NEW s \in Seq(L), NEW f, NEW R, DOMAIN f = DOMAIN s,
                         f = [j \in DOMAIN f |-> f[j]], \A j \in DOMAIN s : f[j] \in R
                  PROVE  f \in Seq(R) /\ Len(f) = Len(s)
<1>1. Len(s) \in Nat /\ DOMAIN s = 1..Len(s)
  BY LenProperties
<1>2. f \in [1..Len(s) -> R]
  BY <1>1
<1>3. f \in Seq(R)
  BY <1>1, <1>2, SeqDef
<1>4. Len(f) \in Nat /\ 1..Len(f) = 1..Len(s)
  BY <1>1, <1>3, LenProperties
<1>5. QED
  BY <1>1, <1>3, <1>4

-----------------------------------------------------------------------------
(***************************************************************************)
(* The disk.  A command that adopts names a package: Databases would put   *)
(* any id it is given into the database.                                   *)
(***************************************************************************)
Doings == {"update", "upgrade", "read", "echo", "install", "remove", "adopt"}
Commands == {c \in [do : Doings, id : Ids \cup {NoId}] : c.do = "adopt" => c.id \in Ids}

DiskTypes ==
    /\ db \in Seq(Line) /\ cat \in [Repositories -> 0..Len(Catalogs)] /\ pub \in 1..Len(Catalogs)
    /\ off \in BOOLEAN /\ changes \in 0..MaxChanges

LEMMA EntriesTyped == DiskTypes => Entries \in Seq(Entry)
<1> SUFFICES ASSUME DiskTypes PROVE Entries \in Seq(Entry)
  OBVIOUS
<1>1. ASSUME NEW r \in Repositories PROVE Published[cat[r]][r] \in Seq(Entry)
  <2> DEFINE S == IF r = "other" THEN Foreign ELSE Ids \ Foreign
  <2>1. cat[r] \in 0..Len(Catalogs)
    BY DEF DiskTypes
  <2>2. Published[cat[r]][r] = IF cat[r] = 0 THEN <<>> ELSE Where(Catalogs[cat[r]], S)
    BY <2>1 DEF Published
  <2> HIDE DEF S
  <2>3. CASE cat[r] = 0
    BY <2>2, <2>3, EmptySeq
  <2>4. CASE cat[r] # 0
    <3>1. cat[r] \in 1..Len(Catalogs)
      BY <2>1, <2>4, FrontEndConstants, LenProperties
    <3>2. Catalogs[cat[r]] \in Seq(Entry)
      BY <3>1, FrontEndConstants, ElementOfSeq
    <3>3. QED
      BY <2>2, <2>4, <3>2, WhereTyped
  <2>5. QED
    BY <2>3, <2>4
<1>2. PICK a \in Seq(Entry), b \in Seq(Entry) : Entries = a \o (IF off THEN <<>> ELSE b)
  <2>1. "official" \in Repositories /\ "other" \in Repositories
    BY DEF Repositories
  <2>2. QED
    BY <1>1, <2>1 DEF Entries
<1>3. (IF off THEN <<>> ELSE b) \in Seq(Entry)
  BY <1>2, EmptySeq
<1>4. QED
  BY <1>2, <1>3, ConcatProperties

LEMMA VersionsTyped == DiskTypes => \A id : OfferedVersions(id) \subseteq Nat
<1> SUFFICES ASSUME DiskTypes PROVE \A id : OfferedVersions(id) \subseteq Nat
  OBVIOUS
<1>1. \A j \in DOMAIN Entries : Entries[j] \in Entry
  BY EntriesTyped, ElementOfSeq, LenProperties
<1>2. QED
  BY <1>1 DEF OfferedVersions, Entry

\* Upgrading appends one line for every line it removes.
LEMMA UpgradedTyped ==
    ASSUME DiskTypes, NEW S \in SUBSET Ids, \A id \in S : Outdated(id)
    PROVE  Upgraded(S) \in Seq(Line)
<1> DEFINE old == Where(db, S)
    Ver(id) == CHOOSE v \in OfferedVersions(id) : TRUE
    new == [j \in DOMAIN old |-> [id |-> old[j].id, ver |-> Ver(old[j].id)]]
<1>1. Without(S) \in Seq(Line)
  BY WhereTyped DEF Without, DiskTypes
<1>2. old \in Seq({l \in Line : l.id \in S})
  BY WhereSelects DEF DiskTypes
<1>3. \A id \in S : Ver(id) \in Nat
  <2>1. \A id \in S : OfferedVersions(id) # {}
    BY DEF Outdated, OfferedVersions
  <2>2. QED
    BY <2>1, VersionsTyped
<1>4. Upgraded(S) = Without(S) \o new
  BY DEF Upgraded
<1> HIDE DEF old, Ver
<1>5. \A j \in DOMAIN old : old[j] \in Line /\ old[j].id \in S
  BY <1>2, ElementOfSeq, LenProperties
<1>6. \A j \in DOMAIN old : new[j] \in Line
  BY <1>3, <1>5 DEF Line
<1>7. DOMAIN new = DOMAIN old /\ new = [j \in DOMAIN new |-> new[j]]
  OBVIOUS
<1> HIDE DEF new
<1>8. new \in Seq(Line)
  BY <1>2, <1>6, <1>7, MapTyped
<1>9. QED
  BY <1>1, <1>4, <1>8, ConcatProperties

LEMMA ExecuteTyped ==
    ASSUME DiskTypes, NEW c \in Commands, NEW rc, Execute(c, rc)
    PROVE  db' \in Seq(Line) /\ cat' \in [Repositories -> 0..Len(Catalogs)]
<1>1. Len(Catalogs) \in Nat /\ pub \in 0..Len(Catalogs)
  BY FrontEndConstants, LenProperties DEF DiskTypes
<1>2. cat' \in [Repositories -> 0..Len(Catalogs)]
  <2>1. CASE UNCHANGED cat
    BY <2>1 DEF DiskTypes
  <2>2. ASSUME NEW T, cat' = Refreshed(T) PROVE cat' \in [Repositories -> 0..Len(Catalogs)]
    BY <1>1, <2>2 DEF Refreshed, DiskTypes
  <2>3. QED
    BY <2>1, <2>2 DEF Execute
<1>3. CASE UNCHANGED db
  BY <1>2, <1>3 DEF DiskTypes
<1>4. CASE db' \in Databases(c)
  <2>1. Without({c.id}) \in Seq(Line)
    BY WhereTyped DEF Without, DiskTypes
  <2>2. ASSUME NEW v \in Nat, c.id \in Ids
        PROVE  Append(Without({c.id}), [id |-> c.id, ver |-> v]) \in Seq(Line)
    <3>1. [id |-> c.id, ver |-> v] \in Line
      BY <2>2 DEF Line
    <3>2. QED
      BY <2>1, <3>1, AppendProperties
  <2>3. CASE c.do = "install"
    <3>1. PICK v \in OfferedVersions(c.id) : db' = Append(Without({c.id}), [id |-> c.id, ver |-> v])
      BY <1>4, <2>3 DEF Databases
    <3>2. PICK j \in DOMAIN Entries : Entries[j].id = c.id
      BY <3>1 DEF OfferedVersions
    <3>3. c.id \in Ids
      <4>1. Entries[j] \in Entry
        BY <3>2, EntriesTyped, ElementOfSeq, LenProperties
      <4>2. QED
        BY <3>2, <4>1 DEF Entry
    <3>4. v \in Nat
      BY <3>1, VersionsTyped
    <3>5. QED
      BY <1>2, <2>2, <3>1, <3>3, <3>4
  <2>4. CASE c.do = "adopt"
    <3>1. PICK v \in OfferedVersions(c.id) \cup {Unknown} :
              db' = Append(Without({c.id}), [id |-> c.id, ver |-> v])
      BY <1>4, <2>4 DEF Databases
    <3>2. c.id \in Ids /\ v \in Nat
      BY <2>4, <3>1, VersionsTyped DEF Commands, Unknown
    <3>3. QED
      BY <1>2, <2>2, <3>1, <3>2
  <2>5. CASE c.do = "remove"
    BY <1>2, <1>4, <2>1, <2>5 DEF Databases
  <2>6. CASE c.do = "upgrade"
    <3>1. db' = Upgraded(ToUpgrade(c))
      BY <1>4, <2>6 DEF Databases
    <3>2. QED
      BY <1>2, <3>1, UpgradedTyped DEF ToUpgrade
  <2>7. CASE c.do \notin {"install", "adopt", "remove", "upgrade"}
    BY <1>2, <1>4, <2>7 DEF Databases, DiskTypes
  <2>8. QED
    BY <2>3, <2>4, <2>5, <2>6, <2>7
<1>5. CASE db' \in Remains(c)
  <2>1. CASE c.do \in {"install", "adopt"}
    <3>1. Without({c.id}) \in Seq(Line)
      BY WhereTyped DEF Without, DiskTypes
    <3>2. db' \in {db, Without({c.id})}
      BY <1>5, <2>1 DEF Remains
    <3>3. QED
      BY <1>2, <3>1, <3>2 DEF DiskTypes
  <2>2. CASE c.do = "upgrade"
    <3>1. CASE db' = db
      BY <1>2, <3>1 DEF DiskTypes
    <3>2. CASE db' # db
      <4>1. PICK S \in SUBSET ToUpgrade(c), lost \in SUBSET ToUpgrade(c) :
                db' = Where(Upgraded(S), Ids \ lost)
        <5>1. Remains(c) = {db} \cup {Where(Upgraded(S), Ids \ lost) :
                                  S \in (SUBSET ToUpgrade(c)) \ {ToUpgrade(c)},
                                  lost \in SUBSET ToUpgrade(c)}
          BY <2>2 DEF Remains
        <5>2. db' \in {Where(Upgraded(S), Ids \ lost) :
                          S \in (SUBSET ToUpgrade(c)) \ {ToUpgrade(c)}, lost \in SUBSET ToUpgrade(c)}
          BY <1>5, <3>2, <5>1
        <5>3. \E S \in (SUBSET ToUpgrade(c)) \ {ToUpgrade(c)}, lost \in SUBSET ToUpgrade(c) :
                 db' = Where(Upgraded(S), Ids \ lost)
          BY <5>2
        <5>4. QED
          BY <5>3
      <4>2. Upgraded(S) \in Seq(Line)
        BY UpgradedTyped DEF ToUpgrade
      <4>3. QED
        BY <1>2, <4>1, <4>2, WhereTyped
    <3>3. QED
      BY <3>1, <3>2
  <2>3. CASE c.do \notin {"install", "adopt", "upgrade"}
    BY <1>2, <1>5, <2>3 DEF Remains, DiskTypes
  <2>4. QED
    BY <2>1, <2>2, <2>3
<1>6. QED
  BY <1>3, <1>4, <1>5 DEF Execute

LEMMA AgedTyped == ASSUME DiskTypes, Aged PROVE changes' \in 0..MaxChanges
<1>1. MaxChanges \in Nat
  BY FrontEndConstants
<1>2. QED
  BY <1>1 DEF DiskTypes, Aged

-----------------------------------------------------------------------------
(***************************************************************************)
(* Windows: their scripts, and what they show.                             *)
(***************************************************************************)
Row == [id : Ids, update : BOOLEAN]

RunTypes(w) ==
    /\ script[w].left \in Seq(Commands) /\ script[w].rc \in {0, 10}
    /\ ticks[w] \in 0..MaxTicks

Results == {0, 10, NoFile}
RunsTyped ==
    /\ ticks = [w \in Windows |-> ticks[w]] /\ \A w \in Windows : RunTypes(w)
    /\ \A p \in Programs : done[p] \in Results

ListTypes(w) ==
    /\ view[w] \in {"installed", "available"} /\ filter[w] \in Filters
    /\ rows[w] \in Seq(Row) /\ sel[w] \in 0..Len(rows[w])
    /\ can[w] \subseteq Buttons /\ lit[w] \in Ids \cup {NoId}

ListsTyped ==
    /\ running \subseteq Windows /\ filter = [w \in Windows |-> filter[w]]
    /\ \A w \in Windows : ListTypes(w)

TypeInv == AsyncOK /\ PickOK /\ TruthOK /\ DiskTypes /\ RunsTyped /\ ListsTyped

LEMMA RowsTyped == ASSUME NEW L, NEW s \in Seq(L), \A x \in L : x.id \in Ids
                   PROVE  RowsOf(s) \in Seq(Row)
<1> DEFINE f == RowsOf(s)
<1>1. \A j \in DOMAIN s : s[j].id \in Ids
  BY ElementOfSeq, LenProperties
<1>2. \A id : HasUpdate(id) \in BOOLEAN
  BY DEF HasUpdate
<1>3. DOMAIN f = DOMAIN s /\ \A j \in DOMAIN s : f[j] = [id |-> s[j].id, update |-> HasUpdate(s[j].id)]
  BY DEF RowsOf
<1>4. \A j \in DOMAIN s : f[j] \in Row
  BY <1>1, <1>2, <1>3 DEF Row
<1>5. f = [j \in DOMAIN f |-> f[j]]
  BY DEF RowsOf
<1> HIDE DEF f
<1>6. f \in Seq(Row)
  BY <1>3, <1>4, <1>5, MapTyped
<1>7. QED
  BY <1>6 DEF f

LEMMA ListedTyped == ASSUME NEW w \in Windows PROVE DiskTypes => Listed(w) \in Seq(Row)
<1> SUFFICES ASSUME DiskTypes PROVE Listed(w) \in Seq(Row)
  OBVIOUS
<1>1. Where(db, filter[w]) \in Seq(Line) /\ Where(Entries, filter[w] \cap Runs) \in Seq(Entry)
  BY WhereTyped, EntriesTyped DEF DiskTypes
<1>2. (\A x \in Line : x.id \in Ids) /\ (\A x \in Entry : x.id \in Ids)
  BY DEF Line, Entry
<1>3. RowsOf(Where(db, filter[w])) \in Seq(Row) /\ RowsOf(Where(Entries, filter[w] \cap Runs)) \in Seq(Row)
  BY <1>1, <1>2, RowsTyped
<1>4. QED
  BY <1>3 DEF Listed

LEMMA SelectedTyped ==
    ASSUME NEW w \in Windows PROVE rows[w] \in Seq(Row) => Selected(w) \in Ids \cup {NoId}
<1> SUFFICES ASSUME rows[w] \in Seq(Row) PROVE Selected(w) \in Ids \cup {NoId}
  OBVIOUS
<1>1. \A j \in DOMAIN rows[w] : rows[w][j] \in Row
  BY ElementOfSeq, LenProperties
<1>2. QED
  BY <1>1 DEF Selected, Row

Starts == {"update", "check", "upgradeAll", "upgrade", "install", "installTo", "remove", "adopt", "submit"}

LEMMA CommandsOfScript ==
    ASSUME NEW op \in Starts, NEW id \in Ids \cup {NoId}, op = "adopt" => id \in Ids
    PROVE  Script(op, id) \in Seq(Commands)
<1>1. ASSUME NEW a \in Commands PROVE <<a, Echo>> \in Seq(Commands)
  <2>1. Echo \in Commands
    BY DEF Commands, Echo, Command, Doings
  <2> HIDE DEF Commands
  <2>2. QED
    BY <1>1, <2>1
<1>2. ASSUME NEW a \in Commands, NEW b \in Commands PROVE <<a, b, Echo>> \in Seq(Commands)
  <2>1. Echo \in Commands
    BY DEF Commands, Echo, Command, Doings
  <2> HIDE DEF Commands
  <2>2. QED
    BY <1>2, <2>1
<1>3. /\ Command("update", NoId) \in Commands /\ Command("upgrade", NoId) \in Commands
      /\ Command("read", NoId) \in Commands /\ Command("install", id) \in Commands
  BY DEF Commands, Command, Doings
<1>4. op \notin {"upgradeAll", "check", "submit", "installTo"} => Command(op, id) \in Commands
  BY DEF Commands, Command, Doings, Starts
<1> HIDE DEF Commands
<1>5. CASE op = "upgradeAll"
  BY <1>2, <1>3, <1>5 DEF Script
<1>6. CASE op = "check"
  BY <1>2, <1>3, <1>6 DEF Script
<1>7. CASE op = "submit"
  BY <1>1, <1>3, <1>7 DEF Script
<1>8. CASE op = "installTo"
  BY <1>1, <1>3, <1>8 DEF Script
<1>9. CASE op \notin {"upgradeAll", "check", "submit", "installTo"}
  BY <1>1, <1>4, <1>9 DEF Script
<1>10. QED
  BY <1>5, <1>6, <1>7, <1>8, <1>9
\* What a step leaves of the scripts of other windows, and of the files.
LEMMA RunsElsewhere ==
    ASSUME RunsTyped, AsyncOK, NEW w \in Windows, RunTypes(w)',
           \A v \in Windows \ {w} : script'[v].left = script[v].left /\ script'[v].rc = script[v].rc,
           UNCHANGED done \/ \E p \in Programs, x \in Results : done' = [done EXCEPT ![p] = x],
           UNCHANGED ticks \/ \E x : ticks' = [ticks EXCEPT ![w] = x]
    PROVE  RunsTyped'
<1>1. ASSUME NEW v \in Windows, v # w PROVE RunTypes(v)'
  <2>1. script'[v].left = script[v].left /\ script'[v].rc = script[v].rc /\ ticks'[v] = ticks[v]
    BY <1>1 DEF RunsTyped
  <2>2. QED
    BY <1>1, <2>1 DEF RunsTyped, RunTypes
<1>2. ticks' = [v \in Windows |-> ticks'[v]]
  BY DEF RunsTyped
<1>3. \A p \in Programs : done'[p] \in Results
  BY DEF RunsTyped, AsyncOK, AsyncTypeOK
<1>4. QED
  BY <1>1, <1>2, <1>3 DEF RunsTyped

LEMMA RunsUnchanged == ASSUME RunsTyped, UNCHANGED <<script, done, ticks>> PROVE RunsTyped'
  BY DEF RunsTyped, RunTypes

LEMMA RunsOrphan ==
    ASSUME RunsTyped, AsyncOK, NEW p \in Programs, OrphanEnds(p) PROVE RunsTyped'
<1>1. UNCHANGED <<script, ticks>> /\ \E rc \in {0, 10} : done' = [done EXCEPT ![p] = rc]
  BY DEF OrphanEnds
<1>2. \A x \in Programs : done'[x] \in Results
  BY <1>1 DEF RunsTyped, AsyncOK, AsyncTypeOK, Results
<1>3. QED
  BY <1>1, <1>2 DEF RunsTyped, RunTypes

LEMMA NoFileThere == ASSUME NEW w, NEW f, f = done \/ f = NoDone(w)
                     PROVE  f = done \/ \E p \in Programs, x \in Results : f = [done EXCEPT ![p] = x]
<1>1. NoDone(w) = [done EXCEPT ![Program(w)] = NoFile] /\ Program(w) \in Programs
  BY ProgramTyped DEF NoDone
<1>2. NoFile \in Results
  BY DEF Results
<1>3. QED
  BY <1>1, <1>2

LEMMA RunsScript ==
    ASSUME RunsTyped, AsyncOK, NEW w \in Windows, RunLine(w) \/ WriteDone(w)
    PROVE  RunsTyped'
<1>1. RunTypes(w) /\ script = [v \in Windows |-> script[v]] /\ IsScript(script[w])
  BY DEF RunsTyped, AsyncOK, AsyncTypeOK
<1>2. CASE RunLine(w)
  <2>1. UNCHANGED <<done, ticks>> /\ script[w].left # <<>>
    BY <1>2 DEF RunLine, Alive
  <2>2. PICK rc \in {0, 10} : script' = [script EXCEPT ![w].left = Tail(@), ![w].rc = rc]
    BY <1>2 DEF RunLine
  <2>3. script'[w].left = Tail(script[w].left) /\ script'[w].rc = rc
    BY <1>1, <2>2 DEF IsScript
  <2>4. Tail(script[w].left) \in Seq(Commands)
    BY <1>1, <2>1, HeadTailProperties DEF RunTypes
  <2>5. RunTypes(w)'
    BY <1>1, <2>1, <2>3, <2>4 DEF RunTypes
  <2>6. \A v \in Windows \ {w} : script'[v] = script[v]
    BY <1>1, <2>2
  <2>7. QED
    BY <2>1, <2>5, <2>6, RunsElsewhere
<1>3. CASE WriteDone(w)
  <2>1. /\ script' = [script EXCEPT ![w].left = <<>>]
        /\ done' = [done EXCEPT ![Program(w)] = script[w].rc] /\ UNCHANGED ticks
    BY <1>3, ProgramTyped DEF WriteDone
  <2>2. script'[w].left = <<>> /\ script'[w].rc = script[w].rc
    BY <1>1, <2>1 DEF IsScript
  <2>3. RunTypes(w)'
    BY <1>1, <2>1, <2>2, EmptySeq DEF RunTypes
  <2>4. \A v \in Windows \ {w} : script'[v] = script[v]
    BY <1>1, <2>1
  <2>5. script[w].rc \in Results /\ Program(w) \in Programs
    BY <1>1, ProgramTyped DEF RunTypes, Results
  <2>6. QED
    BY <2>1, <2>3, <2>4, <2>5, RunsElsewhere
<1>4. QED
  BY <1>2, <1>3

\* What may be started: an adoption names a package.
Startable(op, id) == op \in Starts /\ id \in Ids \cup {NoId} /\ (op = "adopt" => id \in Ids)

LEMMA RunsStart ==
    ASSUME RunsTyped, AsyncOK, NEW w \in Windows, NEW op, NEW id, Startable(op, id), RunAsync(w, op, id)
    PROVE  RunsTyped'
<1>1. RunTypes(w) /\ ticks = [v \in Windows |-> ticks[v]]
  BY DEF RunsTyped
<1>2. CASE LaunchFails(w)
  <2>1. UNCHANGED <<script, ticks>> /\ (done' = done \/ done' = NoDone(w))
    BY <1>2 DEF LaunchFails
  <2>2. UNCHANGED done \/ \E p \in Programs, x \in Results : done' = [done EXCEPT ![p] = x]
    BY <2>1, NoFileThere
  <2>3. RunTypes(w)'
    BY <1>1, <2>1 DEF RunTypes
  <2>4. QED
    BY <2>1, <2>2, <2>3, RunsElsewhere
<1>3. CASE Launches(w, op, id)
  <2>1. /\ done' = NoDone(w) /\ ticks' = [ticks EXCEPT ![w] = 0]
        /\ script' = [v \in Windows |->
               IF v = w THEN [left |-> Script(op, id), rc |-> 0, alone |-> ~Contended(w)]
               ELSE IF v \in Copies(w) /\ busy[v] THEN [script[v] EXCEPT !.alone = FALSE]
               ELSE script[v]]
    BY <1>3 DEF Launches
  <2>2. Script(op, id) \in Seq(Commands)
    BY CommandsOfScript DEF Startable
  <2>3. 0 \in 0..MaxTicks
    BY FrontEndConstants
  <2>4. script'[w] = [left |-> Script(op, id), rc |-> 0, alone |-> ~Contended(w)]
    BY <2>1
  <2>5. RunTypes(w)'
    BY <1>1, <2>1, <2>2, <2>3, <2>4 DEF RunTypes
  <2>6. ASSUME NEW v \in Windows, v # w
        PROVE  script'[v].left = script[v].left /\ script'[v].rc = script[v].rc
    <3>1. script'[v] = script[v] \/ script'[v] = [script[v] EXCEPT !.alone = FALSE]
      BY <2>1, <2>6
    <3>2. IsScript(script[v])
      BY DEF AsyncOK, AsyncTypeOK
    <3>3. QED
      BY <3>1, <3>2 DEF IsScript
  <2>7. UNCHANGED done \/ \E p \in Programs, x \in Results : done' = [done EXCEPT ![p] = x]
    BY <2>1, NoFileThere
  <2>8. QED
    BY <2>1, <2>5, <2>6, <2>7, RunsElsewhere
<1>4. QED
  BY <1>2, <1>3 DEF RunAsync

LEMMA RunsStop ==
    ASSUME RunsTyped, AsyncOK, NEW w \in Windows, StopsWaiting(w), ticks' = [ticks EXCEPT ![w] = 0],
           UNCHANGED done \/ done' = NoDone(w)
    PROVE  RunsTyped'
<1>1. /\ RunTypes(w) /\ script = [v \in Windows |-> script[v]]
      /\ ticks = [v \in Windows |-> ticks[v]] /\ script' = [script EXCEPT ![w] = NoScript]
  BY DEF RunsTyped, AsyncOK, AsyncTypeOK, StopsWaiting
<1>2. 0 \in 0..MaxTicks
  BY FrontEndConstants
<1>3. script'[w].left = <<>> /\ script'[w].rc = 0
  BY <1>1 DEF NoScript
<1>4. RunTypes(w)'
  BY <1>1, <1>2, <1>3, EmptySeq DEF RunTypes
<1>5. UNCHANGED done \/ \E p \in Programs, x \in Results : done' = [done EXCEPT ![p] = x]
  BY NoFileThere
<1>6. \A v \in Windows \ {w} : script'[v] = script[v]
  BY <1>1
<1>7. QED
  BY <1>1, <1>4, <1>5, <1>6, RunsElsewhere

LEMMA RunsPoll ==
    ASSUME RunsTyped, AsyncOK, NEW w \in Windows, Poll(w) PROVE RunsTyped'
<1>1. CASE Finished(w)
  BY <1>1, RunsStop DEF Finished
<1>2. CASE Waits(w) /\ StopsWaiting(w) /\ ticks' = [ticks EXCEPT ![w] = 0]
  BY <1>2, RunsStop DEF Waits
<1>3. CASE Waits(w) /\ ticks[w] < MaxTicks /\ ticks' = [ticks EXCEPT ![w] = @ + 1] /\ UNCHANGED script
  <2>1. ticks'[w] = ticks[w] + 1 /\ RunTypes(w) /\ UNCHANGED done
    BY <1>3 DEF RunsTyped, Waits
  <2>2. MaxTicks \in Nat
    BY FrontEndConstants
  <2>3. RunTypes(w)'
    BY <1>3, <2>1, <2>2 DEF RunTypes
  <2>4. QED
    BY <1>3, <2>1, <2>3, RunsElsewhere
<1>4. QED
  BY <1>1, <1>2, <1>3 DEF Poll, Waits

LEMMA RunsGui == ASSUME RunsTyped, AsyncOK, ListsTyped, NEW w \in Windows, GuiHandler(w) PROVE RunsTyped'
<1>1. Selected(w) \in Ids \cup {NoId}
  BY SelectedTyped DEF ListsTyped, ListTypes
<1>2. CASE \E op, id : Startable(op, id) /\ RunAsync(w, op, id)
  BY <1>2, RunsStart
<1>3. CASE UNCHANGED <<script, done, ticks>>
  BY <1>3, RunsUnchanged
<1>4. Startable("update", NoId) /\ Startable("upgrade", Selected(w))
  BY <1>1 DEF Startable, Starts
<1>5. CASE GuiUpdateCatalog(w) \/ GuiUpdateSelected(w)
  BY <1>2, <1>4, <1>5 DEF GuiUpdateCatalog, GuiUpdateSelected
<1>6. CASE \E op, id : Ask(w, op, id)
  BY <1>3, <1>6 DEF Ask, async
<1>7. QED
  BY <1>3, <1>5, <1>6 DEF GuiHandler, GuiCheck, GuiUpgradeAll, GuiInfo, GuiAdopt,
     GuiSetDir, GuiInstallTo, GuiRemove, GuiInstall, GuiSubmit, GuiRepos, AskSelected,
     GuiSwitchRepo, GuiReposClosed, async

LEMMA RunsMui == ASSUME RunsTyped, AsyncOK, ListsTyped, NEW w \in Windows, MuiHandler(w) PROVE RunsTyped'
<1>1. Selected(w) \in Ids \cup {NoId}
  BY SelectedTyped DEF ListsTyped, ListTypes
<1>2. CASE \E op, id : Startable(op, id) /\ RunAsync(w, op, id)
  BY <1>2, RunsStart
<1>3. CASE UNCHANGED <<script, done, ticks>>
  BY <1>3, RunsUnchanged
<1>4. /\ Startable("update", NoId) /\ Startable("upgrade", Selected(w))
      /\ Startable("check", NoId) /\ Startable("submit", NoId)
  BY <1>1 DEF Startable, Starts
<1>5. CASE MuiUpdateCatalog(w) \/ MuiUpdateSelected(w) \/ MuiCheck(w) \/ MuiSubmit(w)
  BY <1>2, <1>4, <1>5 DEF MuiUpdateCatalog, MuiUpdateSelected, MuiCheck, MuiSubmit
<1>6. CASE \E op, id : Ask(w, op, id)
  BY <1>3, <1>6 DEF Ask, async
<1>7. QED
  BY <1>3, <1>5, <1>6 DEF MuiHandler, MuiUpgradeAll, MuiInfo, MuiAdopt,
     MuiSetDir, MuiInstallTo, MuiRemove, MuiInstall, AskSelected, MuiSwitchRepo, async

LEMMA RunsConfirm ==
    ASSUME RunsTyped, AsyncOK, PickOK, ListsTyped, NEW w \in Windows, Confirm(w) PROVE RunsTyped'
<1>1. Selected(w) \in Ids \cup {NoId}
  BY SelectedTyped DEF ListsTyped, ListTypes
<1>2. /\ asks[w].op \in Operations /\ RunAsync(w, asks[w].op, Target(w))
      /\ asks[w].op \in PackageAsks => asks[w].id # NoId /\ asks[w].id = Selected(w)
  BY DEF Confirm, PickOK, PickedOK
<1>3. Target(w) \in Ids \cup {NoId} /\ (asks[w].op = "adopt" => Target(w) \in Ids)
  BY <1>1, <1>2 DEF Target, PackageAsks
<1>4. Startable(asks[w].op, Target(w))
  BY <1>2, <1>3 DEF Startable, Starts, Operations
<1>5. QED
  BY <1>2, <1>4, RunsStart

LEMMA RunsNext == ASSUME TypeInv, [Next]_vars PROVE RunsTyped'
<1>1. RunsTyped /\ AsyncOK /\ PickOK /\ ListsTyped
  BY DEF TypeInv
<1>2. CASE UNCHANGED <<script, done, ticks>>
  BY <1>1, <1>2, RunsUnchanged
<1>3. ASSUME NEW w \in Windows, Restart(w) PROVE RunsTyped'
  BY <1>1, <1>3, RunsStop DEF Restart
<1>4. QED
  BY <1>1, <1>2, <1>3, RunsScript, RunsOrphan, RunsPoll, RunsConfirm, RunsGui, RunsMui DEF Next, Windows,
     Dismiss, Select, Show, ShellCommand, Publish, vars, async
-----------------------------------------------------------------------------
LEMMA DiskRunLine ==
    ASSUME DiskTypes, RunsTyped, NEW w \in Windows, RunLine(w) PROVE DiskTypes'
<1>1. /\ script[w].left \in Seq(Commands) /\ script[w].left # <<>>
      /\ \E rc \in {0, 10} : Execute(Head(script[w].left), rc)
      /\ UNCHANGED <<off, pub>> /\ Aged
  BY DEF RunsTyped, RunTypes, RunLine, Alive
<1>2. Head(script[w].left) \in Commands
  BY <1>1, HeadTailProperties
<1>3. db' \in Seq(Line) /\ cat' \in [Repositories -> 0..Len(Catalogs)]
  BY <1>1, <1>2, ExecuteTyped
<1>4. QED
  BY <1>1, <1>3, AgedTyped DEF DiskTypes

LEMMA DiskShell == ASSUME DiskTypes, ShellCommand PROVE DiskTypes'
<1>1. changes' \in 0..MaxChanges /\ UNCHANGED pub
  BY AgedTyped DEF ShellCommand
<1>2. ASSUME NEW c \in ShellCommands, NEW rc, Execute(c, rc)
      PROVE  db' \in Seq(Line) /\ cat' \in [Repositories -> 0..Len(Catalogs)]
  <2>1. c \in Commands
    BY DEF Commands, Command, Doings, ShellCommands
  <2>2. QED
    BY <1>2, <2>1, ExecuteTyped
<1>3. db' \in Seq(Line) /\ cat' \in [Repositories -> 0..Len(Catalogs)] /\ off' \in BOOLEAN
  BY <1>2 DEF ShellCommand, DiskTypes
<1>4. QED
  BY <1>1, <1>3 DEF DiskTypes

LEMMA DiskNext == ASSUME TypeInv, [Next]_vars PROVE DiskTypes'
<1>1. DiskTypes /\ RunsTyped /\ MaxChanges \in Nat /\ Len(Catalogs) \in Nat
  BY FrontEndConstants, LenProperties DEF TypeInv
<1>2. CASE UNCHANGED disk
  BY <1>1, <1>2 DEF DiskTypes, disk
<1>3. CASE Publish
  BY <1>1, <1>3 DEF Publish, DiskTypes
<1>4. ASSUME NEW w \in Windows, GuiSwitchRepo(w) PROVE DiskTypes'
  BY <1>1, <1>4, AgedTyped DEF GuiSwitchRepo, DiskTypes
<1>5. ASSUME NEW w \in Windows, MuiSwitchRepo(w) PROVE DiskTypes'
  BY <1>1, <1>5 DEF MuiSwitchRepo, DiskTypes
<1>6. ASSUME NEW w \in Windows, NEW op, NEW id, RunAsync(w, op, id) PROVE UNCHANGED disk
  BY <1>6 DEF RunAsync, Launches, LaunchFails
<1>7. ASSUME NEW w \in Windows, NEW op, NEW id, Ask(w, op, id) PROVE UNCHANGED disk
  BY <1>7 DEF Ask
<1>8. ASSUME NEW w \in Windows, GuiHandler(w) PROVE DiskTypes'
  BY <1>2, <1>4, <1>6, <1>7, <1>8 DEF GuiHandler, GuiUpdateCatalog, GuiCheck, GuiUpgradeAll, GuiInfo,
     GuiAdopt, GuiSetDir, GuiInstallTo, GuiUpdateSelected, GuiRemove, GuiInstall, GuiSubmit,
     GuiRepos, AskSelected, GuiReposClosed
<1>9. ASSUME NEW w \in Windows, MuiHandler(w) PROVE DiskTypes'
  BY <1>2, <1>5, <1>6, <1>7, <1>9 DEF MuiHandler, MuiUpdateCatalog, MuiCheck, MuiUpgradeAll, MuiInfo,
     MuiAdopt, MuiSetDir, MuiInstallTo, MuiUpdateSelected, MuiRemove, MuiInstall, MuiSubmit, AskSelected
<1>10. ASSUME NEW w \in Windows,
              \/ WriteDone(w) \/ Restart(w) \/ Poll(w) \/ Confirm(w) \/ Dismiss(w)
              \/ \E s : Select(w, s)
              \/ \E v, f : Show(w, v, f)
       PROVE  DiskTypes'
  BY <1>2, <1>6, <1>10 DEF WriteDone, Restart, Poll, Finished, Waits, Confirm, Dismiss,
     Select, Show
<1>11. ASSUME NEW p \in Programs, OrphanEnds(p) PROVE DiskTypes'
  BY <1>2, <1>11 DEF OrphanEnds
<1>12. QED
  BY <1>1, <1>2, <1>3, <1>8, <1>9, <1>10, <1>11, DiskRunLine, DiskShell DEF Next, Windows, vars

-----------------------------------------------------------------------------
LEMMA ListsElsewhere ==
    ASSUME ListsTyped, PickOK, TruthOK, running' \subseteq Windows, NEW w \in Windows, ListTypes(w)',
           UNCHANGED view \/ \E x : view' = [view EXCEPT ![w] = x],
           UNCHANGED filter \/ \E x : filter' = [filter EXCEPT ![w] = x],
           UNCHANGED rows \/ \E x : rows' = [rows EXCEPT ![w] = x],
           UNCHANGED sel \/ \E x : sel' = [sel EXCEPT ![w] = x],
           UNCHANGED can \/ \E x : can' = [can EXCEPT ![w] = x],
           UNCHANGED lit \/ \E x : lit' = [lit EXCEPT ![w] = x]
    PROVE  ListsTyped'
<1>1. ASSUME NEW v \in Windows, v # w PROVE ListTypes(v)'
  <2>1. view'[v] = view[v] /\ filter'[v] = filter[v] /\ can'[v] = can[v]
    BY <1>1 DEF ListsTyped, TruthOK, TruthTypeOK
  <2>2. rows'[v] = rows[v] /\ sel'[v] = sel[v] /\ lit'[v] = lit[v]
    BY <1>1 DEF PickOK, PickTypeOK
  <2>3. QED
    BY <1>1, <2>1, <2>2 DEF ListsTyped, ListTypes
<1>2. filter' = [v \in Windows |-> filter'[v]]
  BY DEF ListsTyped
<1>3. QED
  BY <1>1, <1>2 DEF ListsTyped

LEMMA ListsUnchanged ==
    ASSUME ListsTyped, UNCHANGED <<running, view, filter, rows, sel, can, lit>> PROVE ListsTyped'
  BY DEF ListsTyped, ListTypes

LEMMA RelabelTyped ==
    ASSUME TruthOK, NEW w \in Windows, Relabel(w) \/ UNCHANGED can, can[w] \subseteq Buttons
    PROVE  can'[w] \subseteq Buttons /\ (UNCHANGED can \/ \E x : can' = [can EXCEPT ![w] = x])
<1>1. CASE Relabel(w)
  <2>1. Offered(w)' \subseteq Buttons
    BY DEF Offered
  <2>2. can' = [can EXCEPT ![w] = Offered(w)']
    BY <1>1 DEF Relabel
  <2>3. can'[w] = Offered(w)'
    BY <1>1, RelabelSets DEF TruthOK
  <2>4. QED
    BY <2>1, <2>2, <2>3
<1>2. QED
  BY <1>1

\* The buttons follow, or stay; the list stays.
LEMMA ListsButtons ==
    ASSUME ListsTyped, PickOK, TruthOK, NEW w \in Windows, Relabel(w) \/ UNCHANGED can,
           UNCHANGED <<running, view, filter, rows, sel, lit>>
    PROVE  ListsTyped'
<1>1. ListTypes(w) /\ running \subseteq Windows
  BY DEF ListsTyped
<1>2. can'[w] \subseteq Buttons /\ (UNCHANGED can \/ \E x : can' = [can EXCEPT ![w] = x])
  BY <1>1, RelabelTyped DEF ListTypes
<1>3. ListTypes(w)'
  BY <1>1, <1>2 DEF ListTypes
<1>4. QED
  BY <1>1, <1>2, <1>3, ListsElsewhere

LEMMA ListsSelect ==
    ASSUME ListsTyped, PickOK, TruthOK, NEW w \in Windows, NEW s, Select(w, s) PROVE ListsTyped'
<1>1. /\ ListTypes(w) /\ running \subseteq Windows /\ UNCHANGED <<running, view, filter, rows>>
      /\ s \in 0..Len(rows[w]) /\ Relabel(w)
      /\ sel' = [sel EXCEPT ![w] = s] /\ lit' = [lit EXCEPT ![w] = Selected(w)']
  BY DEF ListsTyped, Select
<1>2. can'[w] \subseteq Buttons /\ (UNCHANGED can \/ \E x : can' = [can EXCEPT ![w] = x])
  BY <1>1, RelabelTyped DEF ListTypes
<1>3. Selected(w)' \in Ids \cup {NoId}
  <2>1. rows'[w] \in Seq(Row)
    BY <1>1 DEF ListTypes
  <2>2. (rows[w] \in Seq(Row) => Selected(w) \in Ids \cup {NoId})'
    BY SelectedTyped, PTL
  <2>3. QED
    BY <2>1, <2>2
<1>4. sel'[w] = s /\ lit'[w] = Selected(w)'
  BY <1>1 DEF PickOK, PickTypeOK
<1>5. ListTypes(w)'
  BY <1>1, <1>2, <1>3, <1>4 DEF ListTypes
<1>6. QED
  BY <1>1, <1>2, <1>5, ListsElsewhere

\* The list is built from the disk as it then is.
LEMMA ListsRebuilt ==
    ASSUME ListsTyped, PickOK, TruthOK, DiskTypes', NEW w \in Windows, Rebuild(w), Deselect(w),
           Relabel(w) \/ UNCHANGED can, UNCHANGED running,
           \/ UNCHANGED view
           \/ \E v \in {"installed", "available"} : view' = [view EXCEPT ![w] = v],
           UNCHANGED filter \/ \E f \in Filters : filter' = [filter EXCEPT ![w] = f]
    PROVE  ListsTyped'
<1>1. ListTypes(w) /\ running \subseteq Windows
  BY DEF ListsTyped
<1>2. can'[w] \subseteq Buttons /\ (UNCHANGED can \/ \E x : can' = [can EXCEPT ![w] = x])
  BY <1>1, RelabelTyped DEF ListTypes
<1>3. /\ rows' = [rows EXCEPT ![w] = Listed(w)'] /\ lit' = [lit EXCEPT ![w] = NoId]
      /\ sel' = [sel EXCEPT ![w] = 0]
  BY DEF Rebuild, Deselect
<1>4. rows'[w] = Listed(w)' /\ lit'[w] = NoId /\ sel'[w] = 0
  BY <1>3 DEF PickOK, PickTypeOK
<1>5. Listed(w)' \in Seq(Row)
  <2>1. (DiskTypes => Listed(w) \in Seq(Row))'
    BY ListedTyped, PTL
  <2>2. QED
    BY <2>1
<1>6. view'[w] \in {"installed", "available"} /\ filter'[w] \in Filters
  BY <1>1 DEF ListsTyped, ListTypes, TruthOK, TruthTypeOK
<1>7. 0 \in 0..Len(rows'[w])
  BY <1>4, <1>5, LenProperties
<1>8. ListTypes(w)'
  BY <1>2, <1>4, <1>5, <1>6, <1>7 DEF ListTypes
<1>9. QED
  BY <1>1, <1>2, <1>3, <1>8, ListsElsewhere

LEMMA ListsPoll ==
    ASSUME ListsTyped, PickOK, TruthOK, DiskTypes', NEW w \in Windows, Poll(w) PROVE ListsTyped'
<1>1. CASE Finished(w)
  BY <1>1, ListsRebuilt DEF Finished
<1>2. CASE Waits(w)
  BY <1>2, ListsButtons DEF Waits
<1>3. QED
  BY <1>1, <1>2 DEF Poll

LEMMA ListsStart ==
    ASSUME ListsTyped, PickOK, TruthOK, NEW w \in Windows, NEW op, NEW id, RunAsync(w, op, id)
    PROVE  ListsTyped'
<1>1. CASE Launches(w, op, id)
  BY <1>1, ListsButtons DEF Launches
<1>2. CASE LaunchFails(w)
  BY <1>2, ListsUnchanged DEF LaunchFails, list
<1>3. QED
  BY <1>1, <1>2 DEF RunAsync

LEMMA ListsAsk ==
    ASSUME ListsTyped, NEW w \in Windows, NEW op, NEW id, Ask(w, op, id) PROVE ListsTyped'
  BY ListsUnchanged DEF Ask, list

LEMMA ListsHandlers ==
    ASSUME ListsTyped, PickOK, TruthOK, DiskTypes', NEW w \in Windows, GuiHandler(w) \/ MuiHandler(w)
    PROVE  ListsTyped'
<1>1. CASE \E op, id : RunAsync(w, op, id)
  BY <1>1, ListsStart
<1>2. CASE \E op, id : Ask(w, op, id)
  BY <1>2, ListsAsk
<1>3. CASE GuiSwitchRepo(w)
  BY <1>3, ListsUnchanged DEF GuiSwitchRepo
<1>4. CASE GuiReposClosed(w)
  BY <1>4, ListsRebuilt DEF GuiReposClosed
<1>5. CASE MuiSwitchRepo(w)
  BY <1>5, ListsRebuilt DEF MuiSwitchRepo
<1>6. CASE GuiHandler(w)
  BY <1>1, <1>2, <1>3, <1>4, <1>6 DEF GuiHandler, GuiUpdateCatalog, GuiCheck, GuiUpgradeAll, GuiInfo,
     GuiAdopt, GuiSetDir, GuiInstallTo, GuiUpdateSelected, GuiRemove, GuiInstall, GuiSubmit,
     GuiRepos, AskSelected
<1>7. CASE MuiHandler(w)
  BY <1>1, <1>2, <1>5, <1>7 DEF MuiHandler, MuiUpdateCatalog, MuiCheck, MuiUpgradeAll, MuiInfo,
     MuiAdopt, MuiSetDir, MuiInstallTo, MuiUpdateSelected, MuiRemove, MuiInstall, MuiSubmit,
     AskSelected
<1>8. QED
  BY <1>6, <1>7

LEMMA ListsNext == ASSUME TypeInv, DiskTypes', [Next]_vars PROVE ListsTyped'
<1>1. ListsTyped /\ PickOK /\ TruthOK
  BY DEF TypeInv
<1>2. CASE UNCHANGED <<running, view, filter, rows, sel, can, lit>>
  BY <1>1, <1>2, ListsUnchanged
<1>3. ASSUME NEW w \in Windows, Restart(w) PROVE ListsTyped'
  <2>1. FirstView(w) \in {"installed", "available"} /\ Ids \in Filters
    BY FrontEndConstants DEF FirstView
  <2>2. QED
    BY <1>1, <1>3, <2>1, ListsRebuilt DEF Restart
<1>4. ASSUME NEW w \in Windows, Dismiss(w) PROVE ListsTyped'
  BY <1>1, <1>4, ListsButtons DEF Dismiss
<1>5. ASSUME NEW w \in Windows, NEW v \in {"installed", "available"}, NEW f \in Filters, Show(w, v, f)
      PROVE  ListsTyped'
  BY <1>1, <1>5, ListsRebuilt DEF Show
<1>6. ASSUME NEW w \in Windows, Confirm(w) PROVE ListsTyped'
  BY <1>1, <1>6, ListsStart DEF Confirm
<1>7. QED
  BY <1>1, <1>2, <1>3, <1>4, <1>5, <1>6, ListsSelect, ListsPoll, ListsHandlers DEF Next, Windows,
     RunLine, WriteDone, OrphanEnds, ShellCommand, Publish, vars, list

-----------------------------------------------------------------------------
LEMMA TypeInit == ASSUME Init PROVE TypeInv
<1>1. AsyncOK /\ PickOK /\ TruthOK
  BY AsyncInit, PickInit, TruthInit
<1>2. DiskTypes
  <2>1. Len(Catalogs) \in Nat /\ Len(Catalogs) # 0
    BY FrontEndConstants, LenProperties, EmptySeq
  <2>2. FirstCat \in 0..Len(Catalogs) /\ 1 \in 1..Len(Catalogs) /\ 0 \in 0..MaxChanges
    BY <2>1, FrontEndConstants
  <2>3. QED
    BY <2>2, FrontEndConstants DEF Init, DiskTypes
<1>3. RunsTyped
  <2>1. NoScript.left = <<>> /\ NoScript.rc = 0 /\ 0 \in 0..MaxTicks
    BY FrontEndConstants DEF NoScript
  <2>2. QED
    BY <2>1, EmptySeq DEF Init, RunsTyped, RunTypes, Results
<1>4. ListsTyped
  <2>1. ASSUME NEW w \in Windows PROVE ListTypes(w)
    <3>1. /\ view[w] = FirstView(w) /\ filter[w] = Ids /\ rows[w] = Listed(w) /\ sel[w] = 0
          /\ can[w] = Offered(w) /\ lit[w] = NoId
      BY DEF Init
    <3>2. view[w] \in {"installed", "available"} /\ filter[w] \in Filters /\ can[w] \subseteq Buttons
      BY <3>1, FrontEndConstants DEF FirstView, Offered
    <3>3. rows[w] \in Seq(Row)
      BY <1>2, <3>1, ListedTyped
    <3>4. 0 \in 0..Len(rows[w])
      BY <3>3, LenProperties
    <3>5. QED
      BY <3>1, <3>2, <3>3, <3>4 DEF ListTypes
  <2>2. running \subseteq Windows /\ filter = [w \in Windows |-> filter[w]]
    BY DEF Init
  <2>3. QED
    BY <2>1, <2>2 DEF ListsTyped
<1>5. QED
  BY <1>1, <1>2, <1>3, <1>4 DEF TypeInv

\* What is on the disk, on display and on offer is what it should be, whatever
\* lists are rebuilt behind a selection (rebuild_list, update_action_state),
\* commands replace lines of the database, and scripts outlive their window.
THEOREM FrontEndTypes == Spec => []TypeOK
<1>1. ASSUME TypeInv PROVE TypeOK
  <2>1. done \in [Programs -> {0, 10, NoFile}] /\ ticks \in [Windows -> 0..MaxTicks]
    BY <1>1 DEF TypeInv, RunsTyped, RunTypes, AsyncOK, AsyncTypeOK, Results
  <2>2. /\ view \in [Windows -> {"installed", "available"}] /\ filter \in [Windows -> Filters]
        /\ lit \in [Windows -> Ids \cup {NoId}]
    BY <1>1 DEF TypeInv, ListsTyped, ListTypes, TruthOK, TruthTypeOK, PickOK, PickTypeOK
  <2>3. busy \in [Windows -> BOOLEAN] /\ orphans \in [Programs -> BOOLEAN] /\ fresh \in [Windows -> BOOLEAN]
    BY <1>1 DEF TypeInv, AsyncOK, AsyncTypeOK, TruthOK, TruthTypeOK
  <2>4. \A w \in Windows :
          /\ rows[w] \in Seq([id : Ids, update : BOOLEAN])
          /\ sel[w] \in 0..Len(rows[w]) /\ can[w] \subseteq Buttons
          /\ ~busy[w] => script[w] = NoScript
    BY <1>1 DEF TypeInv, ListsTyped, ListTypes, Row, AsyncOK, WaitOK
  <2>5. running \subseteq Windows
    BY <1>1 DEF TypeInv, ListsTyped
  <2>6. QED
    BY <1>1, <2>1, <2>2, <2>3, <2>4, <2>5 DEF TypeOK, TypeInv, DiskTypes
<1>2. Init => TypeInv
  BY TypeInit
<1>3. TypeInv /\ [Next]_vars => TypeInv'
  <2> SUFFICES ASSUME TypeInv, [Next]_vars PROVE TypeInv'
    OBVIOUS
  <2>1. AsyncOK' /\ PickOK' /\ TruthOK'
    BY AsyncNext, PickNext, TruthNext DEF TypeInv
  <2>2. DiskTypes' /\ RunsTyped'
    BY DiskNext, RunsNext
  <2>3. ListsTyped'
    BY <2>2, ListsNext
  <2>4. QED
    BY <2>1, <2>2, <2>3 DEF TypeInv
<1>4. QED
  BY <1>1, <1>2, <1>3, PTL DEF Spec
=============================================================================
