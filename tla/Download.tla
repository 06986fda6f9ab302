------------------------------ MODULE Download ------------------------------
(***************************************************************************)
(* fetch_verified (src/amiga/main.c) and the resuming transfer under it,   *)
(* http_get_file and do_get (src/amiga/http.c): one archive at a time goes *)
(* through <name>.part into the cache, from the catalog's URL or a mirror, *)
(* and is used only if its SHA-256 is the pinned one.                      *)
(*                                                                         *)
(* Data: a file is a number of blocks of one archive; blocks of several    *)
(* sources glued together are Junk.  Digests are equal iff files are.      *)
(***************************************************************************)
EXTENDS Integers

CONSTANTS
    Pkgs,      \* catalog entries with an archive and a pin
    Archives,  \* archives that exist on some server
    Size,      \* Size[a]: blocks of archive a
    Names,     \* file names in the cache
    Name,      \* Name[p]: basename_of(archive_url), not unique
    Mirrors,   \* Mirrors[p]: how many mirrors the entry has
    MaxHops,   \* 4: requests per URL, redirects and restarts together
    Faithful,  \* do all servers serve the pinned archive, to the end?
    MaxPublishes, MaxFaults,  \* bounds: new pins; power cuts, failing renames
    None, Junk

ASSUME ConstantsType ==
    /\ Size \in [Archives -> Nat \ {0}]
    /\ Name \in [Pkgs -> Names]
    /\ Mirrors \in [Pkgs -> Nat]
    /\ MaxHops \in Nat \ {0} /\ Faithful \in BOOLEAN
    /\ MaxPublishes \in Nat /\ MaxFaults \in Nat
    /\ Junk \notin Archives /\ None \notin Archives

Stored == [of : Archives \cup {Junk}, len : Nat \ {0}]
ASSUME NoneIsNoFile == None \notin Stored

VARIABLES
    pin,       \* pin[p]: the archive whose digest the catalog pins
    cache,     \* cache/<name>: a file or None
    part,      \* cache/<name>.part: a file or None
    pc, pkg,   \* where the program is, and for which entry
    url,       \* 0: archive_url, m: the m-th mirror
    have,      \* bytes of .part when the transfer from this URL began
    hops,
    body,      \* the archive the server is sending
    publishes, faults

disk     == <<cache, part>>
transfer == <<url, have, hops, body>>
vars     == <<pin, disk, pc, pkg, transfer, publishes, faults>>

Whole(a) == [of |-> a, len |-> Size[a]]
LenOf(f) == IF f = None THEN 0 ELSE f.len
MyName == Name[pkg]

\* The file after one more block of archive a.
Grown(f, a) ==
    IF f = None THEN [of |-> a, len |-> 1]
    ELSE [of |-> IF f.of = a THEN a ELSE Junk, len |-> f.len + 1]

Return(result) ==
    /\ pc' = result
    /\ url' = 0 /\ have' = 0 /\ hops' = 0 /\ body' = Junk

Init ==
    /\ pin \in [Pkgs -> Archives]
    /\ cache = [n \in Names |-> None] /\ part = [n \in Names |-> None]
    /\ pc = "idle" /\ pkg \in Pkgs
    /\ url = 0 /\ have = 0 /\ hops = 0 /\ body = Junk
    /\ publishes = 0 /\ faults = 0

\* The catalog pins another archive under the same URL.
Publish(p, a) ==
    /\ pc = "idle" /\ publishes < MaxPublishes
    /\ pin' = [pin EXCEPT ![p] = a]
    /\ publishes' = publishes + 1
    /\ UNCHANGED <<disk, pc, pkg, transfer, faults>>

\* "Already cached + verified? skip the download."
AcceptsAnyCached(p) == cache[Name[p]] # None                  \* mutant
Cached(p) == cache[Name[p]] = Whole(pin[p])

Fetch(p) ==
    /\ pc = "idle"
    /\ pkg' = p
    /\ IF Cached(p) THEN Return("done")
       ELSE pc' = "open" /\ UNCHANGED transfer
    /\ UNCHANGED <<pin, disk, publishes, faults>>

-----------------------------------------------------------------------------
(***************************************************************************)
(* http_get_file: how much is there, then up to MaxHops requests.          *)
(***************************************************************************)
Open ==
    /\ pc = "open"
    /\ have' = LenOf(part[MyName]) /\ hops' = 0
    /\ pc' = "get"
    /\ UNCHANGED <<pin, disk, pkg, url, body, publishes, faults>>

\* A URL that fails gives way to the next mirror; .part stays.
SameUrlAgain ==                                               \* mutant
    pc' = "open" /\ body' = Junk /\ UNCHANGED <<url, have, hops>>
OneMirrorMore ==                                              \* mutant
    IF url <= Mirrors[pkg]
      THEN /\ url' = url + 1 /\ pc' = "open" /\ body' = Junk
           /\ UNCHANGED <<have, hops>>
      ELSE Return("idle")
NextUrl ==
    IF url < Mirrors[pkg]
      THEN /\ url' = url + 1 /\ pc' = "open" /\ body' = Junk
           /\ UNCHANGED <<have, hops>>
      ELSE Return("idle")

\* No connection, an error status, no header: do_get returns 1.  A server
\* that has nothing beyond .part answers 416.
GetFails ==
    /\ pc = "get" /\ hops < MaxHops
    /\ Faithful => have >= Size[pin[pkg]]
    /\ NextUrl
    /\ UNCHANGED <<pin, disk, pkg, publishes, faults>>

UseHop == hops' = hops + 1

Redirect ==
    /\ pc = "get" /\ hops < MaxHops /\ ~Faithful
    /\ UseHop
    /\ UNCHANGED <<pin, disk, pc, pkg, url, have, body, publishes, faults>>

\* 200 to a Range request: start the file over.
RangeIgnored ==
    /\ pc = "get" /\ hops < MaxHops /\ ~Faithful /\ have > 0
    /\ part' = [part EXCEPT ![MyName] = None]
    /\ have' = 0
    /\ UseHop
    /\ UNCHANGED <<pin, cache, pc, pkg, url, body, publishes, faults>>

TooManyHops ==
    /\ pc = "get" /\ hops = MaxHops
    /\ NextUrl
    /\ UNCHANGED <<pin, disk, pkg, publishes, faults>>

\* 200, or 206 to a Range request: the body of archive a from have on.
Answer(a) ==
    /\ pc = "get" /\ hops < MaxHops /\ have < Size[a]
    /\ Faithful => a = pin[pkg]
    /\ body' = a
    /\ pc' = "body"
    /\ UNCHANGED <<pin, disk, pkg, url, have, hops, publishes, faults>>

Receive ==
    /\ pc = "body" /\ LenOf(part[MyName]) < Size[body]
    /\ part' = [part EXCEPT ![MyName] = Grown(@, body)]
    /\ UNCHANGED <<pin, cache, pc, pkg, transfer, publishes, faults>>

\* The connection closes.  do_get never compares what arrived with the
\* Content-Length: a body cut short counts as complete.
BodyEnds ==
    /\ pc = "body"
    /\ Faithful => LenOf(part[MyName]) = Size[body]
    /\ pc' = "verify"
    /\ UNCHANGED <<pin, disk, pkg, transfer, publishes, faults>>

-----------------------------------------------------------------------------
\* The digest decides; a file of another digest is deleted.
VerifiesLength(f, a) == LenOf(f) = Size[a]                    \* mutant
Verified(f, a) == f = Whole(a)

Verify ==
    /\ pc = "verify"
    /\ IF Verified(part[MyName], pin[pkg])
         THEN pc' = "replace" /\ UNCHANGED <<part, transfer>>
         ELSE part' = [part EXCEPT ![MyName] = None] /\ Return("idle")
    /\ UNCHANGED <<pin, cache, pkg, publishes, faults>>

\* remove(dest_out): the stale copy in the cache.
RemoveStale ==
    /\ pc = "replace"
    /\ cache' = [cache EXCEPT ![MyName] = None]
    /\ pc' = "rename"
    /\ UNCHANGED <<pin, part, pkg, transfer, publishes, faults>>

Rename ==
    /\ pc = "rename"
    /\ cache' = [cache EXCEPT ![MyName] = part[MyName]]
    /\ part' = [part EXCEPT ![MyName] = None]
    /\ Return("done")
    /\ UNCHANGED <<pin, pkg, publishes, faults>>

\* "cannot move into the cache": .part stays, complete.
RenameFails ==
    /\ pc = "rename" /\ faults < MaxFaults
    /\ Return("idle") /\ faults' = faults + 1
    /\ UNCHANGED <<pin, disk, pkg, publishes>>

\* The caller unpacks the archive and the command ends.
Use ==
    /\ pc = "done"
    /\ pc' = "idle"
    /\ UNCHANGED <<pin, disk, pkg, transfer, publishes, faults>>

Crash ==
    /\ pc # "idle" /\ faults < MaxFaults
    /\ Return("idle") /\ faults' = faults + 1
    /\ UNCHANGED <<pin, disk, pkg, publishes>>

-----------------------------------------------------------------------------
Step ==
    \/ Open \/ GetFails \/ Redirect \/ RangeIgnored \/ TooManyHops \/ Receive \/ BodyEnds
    \/ Verify \/ RemoveStale \/ Rename \/ RenameFails \/ Use
    \/ \E a \in Archives : Answer(a)

Next ==
    \/ Step \/ Crash
    \/ \E p \in Pkgs : Fetch(p) \/ \E a \in Archives : Publish(p, a)

Spec == Init /\ [][Next]_vars
FairSpec == Spec /\ WF_vars(Step) /\ \A p \in Pkgs : SF_vars(Fetch(p))

-----------------------------------------------------------------------------
TypeOK ==
    /\ pin \in [Pkgs -> Archives]
    /\ cache \in [Names -> Stored \cup {None}]
    /\ part \in [Names -> Stored \cup {None}]
    /\ pc \in {"idle", "open", "get", "body", "verify", "replace", "rename", "done"}
    /\ pkg \in Pkgs
    /\ url \in 0..Mirrors[pkg] /\ (pc \in {"idle", "done"} => url = 0)
    /\ have \in Nat /\ hops \in 0..MaxHops
    /\ body \in Archives \cup {Junk} /\ (pc = "body" => body \in Archives)
    /\ publishes \in Nat /\ faults \in Nat

\* The trust contract: when fetch_verified succeeds, the file under the
\* cache name is the pinned archive, also when names collide, the pin has
\* moved on, or .part was glued together from several servers and runs.
FetchedIsPinned == pc = "done" => cache[MyName] = Whole(pin[pkg])

\* The cache never holds a partial or mixed file, wherever a power cut or a
\* failing rename strikes.
CacheWhole ==
    \A n \in Names : cache[n] # None => \E a \in Archives : cache[n] = Whole(a)

\* A cached archive is given up only when its replacement lies complete and
\* verified beside it.
GivenUpForVerified ==
    [][\A n \in Names : cache[n] # None /\ cache'[n] # cache[n] =>
          n = MyName /\ part[n] = Whole(pin[pkg])]_vars

\* Redirects, restarts and mirrors are finite: a fetch ends.
FetchEnds == pc # "idle" ~> pc = "idle"

\* main.c:704 ".part stays - the next attempt resumes it": with servers that
\* serve the pinned archive, fetching again succeeds again and again.
FetchRecovers == []<>(pc = "done")
=============================================================================
