------------------------------- MODULE Repos -------------------------------
(***************************************************************************)
(* The repository list (src/core/arepo.c), "amipkg repo" and "amipkg       *)
(* update" (src/amiga/main.c).  The update loads the list once and fetches *)
(* one catalog after the other; meanwhile a shell or the GUI's repository  *)
(* window, which edits the list as it last read it, may rewrite the list,  *)
(* publishers replace their files, and the power may fail.                 *)
(*                                                                         *)
(* Data: a catalog is a value; SignedBy says whose key its .sig was made   *)
(* with, Offers which package ids it lists.  Anything else a file may hold *)
(* (an error page, half a catalog, nothing yet) is Junk.                   *)
(***************************************************************************)
EXTENDS Integers, SequencesExt

CONSTANTS
    Ids, Official,  \* repository ids; the reserved one
    Urls, Home,     \* Home: AMIPKG_OFFICIAL_URL
    Keys, HomeKey,  \* pinned keys; HomeKey: AMIPKG_OFFICIAL_PUBKEY
    Unsigned,       \* the empty key
    Catalogs, SignedBy, Offers,
    Addable,        \* repositories the user may add
    Overrides,      \* values AMIPKG_REPO_URL may have, Unset among them
    Unset,
    Junk, NoFile, Down,
    MaxRepos,       \* AREPO_MAX
    MaxEdits, MaxPublishes, MaxUpdates, MaxCrashes   \* bounds

Entry == [id : Ids, url : Urls, key : Keys \cup {Unsigned}, on : BOOLEAN]

ASSUME ReposConstants ==
    /\ Official \in Ids /\ Home \in Urls /\ HomeKey \in Keys /\ Unsigned \notin Keys
    /\ SignedBy \in [Catalogs -> Keys \cup {Unsigned}]
    /\ Addable \subseteq {e \in Entry : e.on}
    /\ Unset \in Overrides /\ Overrides \ {Unset} \subseteq Urls
    /\ {Junk, NoFile, Down} \cap Catalogs = {}
    /\ MaxRepos \in Nat \ {0}
    /\ MaxEdits \in Nat /\ MaxPublishes \in Nat /\ MaxUpdates \in Nat /\ MaxCrashes \in Nat

VARIABLES
    file,      \* the entries of config/repos; <<>> when missing or emptied
    cache,     \* cache[id]: the catalog file of a repository
    server,    \* server[u]: what URL u answers
    shown,     \* the list as the repository window last read it
    saving,    \* the list a save under way will write, or <<>>
    window,    \* is that save the window's?
    pc,        \* where the update is
    l, k,      \* the list it loaded and the entry it is at
    got, sig,  \* cache/packages.json.new; the catalog its .sig.new signs
    ok,        \* repositories updated
    steady,    \* URLs that answered the same since the update began
    dropped,   \* ids that at some time left the list or got another key
    edits, publishes, updates, crashes

list   == <<file, shown, saving, window, dropped>>
upd    == <<pc, l, k, got, sig, ok>>
counts == <<edits, publishes, updates, crashes>>
vars   == <<list, cache, server, upd, steady, counts>>

-----------------------------------------------------------------------------
(***************************************************************************)
(* The list.                                                               *)
(***************************************************************************)
DefaultList == <<[id |-> Official, url |-> Home, key |-> HomeKey, on |-> TRUE]>>

\* arepo_load: a missing, emptied or unreadable list is the official repo.
Loaded == IF file = <<>> THEN DefaultList ELSE file

IdsOf(s) == {s[j].id : j \in DOMAIN s}
At(s, id) == CHOOSE j \in DOMAIN s : s[j].id = id
EntryOf(s, id) == s[At(s, id)]

AddsAgain(s, e) == Len(s) < MaxRepos                             \* mutant
CanAdd(s, e) == Len(s) < MaxRepos /\ e.id \notin IdsOf(s)

Keeps(s, e) == \E j \in DOMAIN s : s[j].id = e.id /\ s[j].key = e.key

\* arepo_move by one place, clamped at both ends.
Move(s, id, delta) ==
    LET a == At(s, id)
        b == a + delta
    IN IF b \in DOMAIN s THEN [s EXCEPT ![a] = s[b], ![b] = s[a]] ELSE s

Switch(s, id) == [s EXCEPT ![At(s, id)].on = ~@]

\* The lists one edit of list s can lead to.
Edited(s) ==
    {Append(s, e) : e \in {f \in Addable : CanAdd(s, f)}}
        \cup {RemoveAt(s, At(s, id)) : id \in IdsOf(s)}
        \cup {Switch(s, id) : id \in IdsOf(s)}
        \cup {Move(s, id, delta) : id \in IdsOf(s), delta \in {-1, 1}}

-----------------------------------------------------------------------------
(***************************************************************************)
(* Catalogs.                                                               *)
(***************************************************************************)
\* aidx_parse succeeds and finds an entry.
AnyText(c) == c # NoFile                                         \* mutant
Readable(c) == c \in Catalogs /\ Offers[c] # {}

\* A signed repository needs a signature by its own key over these bytes.
AnyKnownKey(e, c, s) == e.key = Unsigned \/ (s = c /\ c \in Catalogs /\ SignedBy[c] \in Keys)  \* mutant
Vouched(e, c, s) == e.key = Unsigned \/ (s = c /\ c \in Catalogs /\ SignedBy[c] = e.key)

\* arepo_load_merged: the lists of the enabled repositories top-down; an id
\* is taken from the first that offers it.
Serves(e) == e.on /\ cache[e.id] \in Catalogs
LastWins(have, e) ==                                             \* mutant
    IF ~Serves(e) THEN have
    ELSE {o \in have : o[1] \notin Offers[cache[e.id]]} \cup (Offers[cache[e.id]] \X {e.id})
MergeOne(have, e) ==
    IF ~Serves(e) THEN have
    ELSE have \cup {o \in Offers[cache[e.id]] \X {e.id} : \A h \in have : h[1] # o[1]}
Merged ==
    LET upTo[j \in 0..Len(Loaded)] ==
            IF j = 0 THEN {} ELSE MergeOne(upTo[j - 1], Loaded[j])
    IN upTo[Len(Loaded)]

-----------------------------------------------------------------------------
Init ==
    /\ file = <<>> /\ shown = DefaultList /\ saving = <<>> /\ window = FALSE /\ dropped = {}
    /\ \E c \in {d \in Catalogs : SignedBy[d] = HomeKey /\ Readable(d)} \cup {NoFile} :
           cache = [id \in Ids |-> IF id = Official THEN c ELSE NoFile]
    /\ server \in [Urls -> Catalogs \cup {Junk, Down}]
    /\ pc = "idle" /\ l = <<>> /\ k = 1 /\ got = NoFile /\ sig = NoFile /\ ok = 0
    /\ steady = Urls
    /\ edits = 0 /\ publishes = 0 /\ updates = 0 /\ crashes = 0

\* A publisher replaces its files, a mirror goes down or comes back.
Publish(u, a) ==
    /\ publishes < MaxPublishes
    /\ server' = [server EXCEPT ![u] = a]
    /\ steady' = steady \ {u}
    /\ publishes' = publishes + 1
    /\ UNCHANGED <<list, cache, upd, edits, updates, crashes>>

(***************************************************************************)
(* An edit of the list: cmd_repo works on the list it loads, a button of   *)
(* the window on the list it shows.  arepo_save empties the file, then     *)
(* writes it.                                                              *)
(***************************************************************************)
Edit(s) ==
    /\ saving = <<>> /\ edits < MaxEdits
    /\ saving' \in Edited(s)
    /\ file' = <<>>
    /\ dropped' = dropped \cup {e.id : e \in {f \in ToSet(Loaded) : ~Keeps(saving', f)}}
    /\ edits' = edits + 1
    /\ UNCHANGED <<cache, server, upd, steady, publishes, updates, crashes>>

CmdRepo == Edit(Loaded) /\ window' = FALSE /\ shown' = shown

\* The window reads the list again after its save; a list without entries is
\* an empty file, and comes back as the official repository.
WindowButton ==
    /\ Edit(shown)
    /\ window' = (saving' # <<>>)
    /\ shown' = IF saving' = <<>> THEN DefaultList ELSE shown

Saved ==
    /\ saving # <<>>
    /\ file' = saving /\ saving' = <<>>
    /\ window' = FALSE /\ shown' = IF window THEN saving ELSE shown
    /\ UNCHANGED <<cache, server, upd, steady, dropped, counts>>

WindowOpens ==
    /\ ~window /\ shown # Loaded
    /\ shown' = Loaded
    /\ UNCHANGED <<cache, server, upd, steady, file, saving, window, dropped, counts>>

-----------------------------------------------------------------------------
(***************************************************************************)
(* cmd_update and update_one_repo.                                         *)
(***************************************************************************)
Overridden(s, o) ==
    IF o = Unset \/ Official \notin IdsOf(s) THEN s
    ELSE [s EXCEPT ![At(s, Official)].url = o]

BeginUpdate(o) ==
    /\ pc = "idle" /\ updates < MaxUpdates
    /\ l' = Overridden(Loaded, o) /\ k' = 1 /\ ok' = 0
    /\ pc' = "next"
    /\ steady' = Urls /\ updates' = updates + 1
    /\ UNCHANGED <<list, cache, server, got, sig, edits, publishes, crashes>>

E == l[k]

\* This repository is done with, updated or not; the next one's turn.
SkipsOne == k' = k + 2 /\ pc' = "next" /\ got' = NoFile /\ sig' = NoFile   \* mutant
GoOn ==
    /\ k' = k + 1 /\ pc' = "next"
    /\ got' = NoFile /\ sig' = NoFile

GivesUp ==                                                       \* mutant
    /\ k' = Len(l) + 1 /\ pc' = "next"
    /\ got' = NoFile /\ sig' = NoFile /\ ok' = ok
RetriesIt == k' = k /\ pc' = "next" /\ got' = NoFile /\ sig' = NoFile /\ ok' = ok  \* mutant
Fail == GoOn /\ ok' = ok

NextRepo ==
    /\ pc = "next" /\ k <= Len(l)
    /\ IF E.on THEN pc' = "json" /\ k' = k ELSE k' = k + 1 /\ pc' = pc
    /\ UNCHANGED <<list, cache, server, l, got, sig, ok, steady, counts>>

FetchCatalog ==
    /\ pc = "json"
    /\ IF server[E.url] = Down THEN Fail
       ELSE /\ got' = server[E.url]
            /\ pc' = IF E.key = Unsigned THEN "check" ELSE "sig"
            /\ UNCHANGED <<k, sig, ok>>
    /\ UNCHANGED <<list, cache, server, l, steady, counts>>

\* A second request: by now the server may hold another catalog's .sig.
FetchSignature ==
    /\ pc = "sig"
    /\ IF server[E.url] = Down THEN Fail
       ELSE sig' = server[E.url] /\ pc' = "check" /\ UNCHANGED <<k, got, ok>>
    /\ UNCHANGED <<list, cache, server, l, steady, counts>>

Acceptable == Vouched(E, got, sig) /\ Readable(got)

\* "keeping the current catalog."
Refuse ==
    /\ pc = "check" /\ ~Acceptable
    /\ Fail
    /\ UNCHANGED <<list, cache, server, l, steady, counts>>

Overwrite ==
    /\ pc = "check" /\ Acceptable
    /\ cache' = [cache EXCEPT ![E.id] = Junk]
    /\ pc' = "write"
    /\ UNCHANGED <<list, server, l, k, got, sig, ok, steady, counts>>

Write ==
    /\ pc = "write"
    /\ cache' = [cache EXCEPT ![E.id] = got]
    /\ GoOn /\ ok' = ok + 1
    /\ UNCHANGED <<list, server, l, steady, counts>>

EndUpdate ==
    /\ pc = "next" /\ k > Len(l)
    /\ pc' = "idle" /\ l' = <<>> /\ k' = 1 /\ ok' = 0
    /\ UNCHANGED <<list, cache, server, got, sig, steady, counts>>

Crash ==
    /\ crashes < MaxCrashes /\ (pc # "idle" \/ saving # <<>>)
    /\ crashes' = crashes + 1
    /\ pc' = "idle" /\ l' = <<>> /\ k' = 1 /\ ok' = 0 /\ got' = NoFile /\ sig' = NoFile
    /\ saving' = <<>> /\ window' = FALSE /\ shown' = Loaded
    /\ dropped' = dropped \cup IdsOf(saving)
    /\ UNCHANGED <<file, cache, server, steady, edits, publishes, updates>>

Step ==
    \/ NextRepo \/ FetchCatalog \/ FetchSignature \/ Refuse \/ Overwrite \/ Write \/ EndUpdate

Next ==
    \/ Step \/ CmdRepo \/ WindowButton \/ Saved \/ WindowOpens \/ Crash
    \/ \E o \in Overrides : BeginUpdate(o)
    \/ \E u \in Urls, a \in Catalogs \cup {Junk, Down} : Publish(u, a)

Spec == Init /\ [][Next]_vars
FairSpec == Spec /\ WF_vars(Step)

-----------------------------------------------------------------------------
TypeOK ==
    /\ file \in Seq(Entry) /\ shown \in Seq(Entry) /\ saving \in Seq(Entry)
    /\ l \in Seq(Entry) /\ \A s \in {file, shown, saving, l} : Len(s) <= MaxRepos
    /\ cache \in [Ids -> Catalogs \cup {Junk, NoFile}]
    /\ server \in [Urls -> Catalogs \cup {Junk, Down}]
    /\ pc \in {"idle", "next", "json", "sig", "check", "write"}
    /\ k \in 1..(MaxRepos + 1) /\ (pc \notin {"idle", "next"} => k \in DOMAIN l)
    /\ got \in Catalogs \cup {Junk, NoFile} /\ sig \in Catalogs \cup {Junk, NoFile}
    /\ ok \in 0..MaxRepos
    /\ window \in BOOLEAN /\ steady \subseteq Urls /\ dropped \subseteq Ids

\* A name stands for one repository: however shell and window overwrite each
\* other's list, no id is ever listed twice.
IdsUnique == \A s \in {file, shown, saving} : IsInjective([j \in DOMAIN s |-> s[j].id])

\* "first match wins": in the merged catalog an id comes from the topmost
\* enabled repository whose catalog is readable and offers it.
FirstMatchWins ==
    \A id \in UNION {Offers[c] : c \in Catalogs} :
        LET can == {j \in DOMAIN Loaded : Serves(Loaded[j]) /\ id \in Offers[cache[Loaded[j].id]]}
        IN {o[2] : o \in {m \in Merged : m[1] = id}} =
               {Loaded[j].id : j \in {i \in can : \A h \in can : i <= h}}

\* "a truncated or HTML error page must not replace a working index": without
\* a power cut every catalog file is absent, usable or being written.
CatalogsUsable ==
    crashes = 0 => \A id \in Ids :
        \/ cache[id] = NoFile
        \/ cache[id] \in Catalogs /\ Offers[cache[id]] # {}
        \/ pc = "write" /\ id = E.id

\* "Each repository is verified against its own pinned public key": a signed
\* repository serves what its own key signed, also when its files are
\* replaced between the two requests or the list changes during an update.
\* Ids that left the list or got another key are exempt: a removed repository's
\* catalog stays, and is served to whoever takes the id, until the next update.
KeyVouches ==
    \A j \in DOMAIN Loaded :
        LET e == Loaded[j] IN
        e.key # Unsigned /\ e.id \notin dropped /\ cache[e.id] \in Catalogs =>
            SignedBy[cache[e.id]] = e.key

\* "one dead mirror cannot block the others": when an update ends, every
\* repository it was to update, and whose server answered all the time with
\* a catalog its key vouches for, has that catalog.
LiveReposUpdated ==
    [][pc = "next" /\ pc' = "idle" /\ k > Len(l) =>
         \A j \in DOMAIN l :
             LET c == server[l[j].url] IN
             l[j].on /\ l[j].url \in steady /\ Readable(c) /\ Vouched(l[j], c, c) =>
                 cache[l[j].id] = c]_vars

\* An update ends, whatever the servers answer.
UpdateEnds == pc # "idle" ~> pc = "idle"
=============================================================================
