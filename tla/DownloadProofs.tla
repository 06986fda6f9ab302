--------------------------- MODULE DownloadProofs ---------------------------
(***************************************************************************)
(* Theorems about Download: the trust contract of the archive cache, for   *)
(* every set of entries, archives, file names and mirrors.                 *)
(***************************************************************************)
EXTENDS Download, TLAPS

\* A file stays a file when a block is added, and its length is a number.
LEMMA FileFacts ==
    /\ \A f \in Stored \cup {None} : LenOf(f) \in Nat
    /\ \A f \in Stored \cup {None}, a \in Archives : Grown(f, a) \in Stored
    /\ \A a \in Archives : Whole(a) \in Stored /\ Whole(a) # None
<1>1. \A f \in Stored \cup {None} : LenOf(f) \in Nat
  BY NoneIsNoFile DEF LenOf, Stored
<1>2. \A f \in Stored \cup {None}, a \in Archives : Grown(f, a) \in Stored
  BY NoneIsNoFile DEF Grown, Stored
<1>3. \A a \in Archives : Whole(a) \in Stored
  BY ConstantsType DEF Whole, Stored
<1>4. QED
  BY <1>1, <1>2, <1>3, NoneIsNoFile

LEMMA TypeInit == Init => TypeOK
  BY ConstantsType DEF Init, TypeOK

\* Where a transfer that fails goes next.
LEMMA NextUrlType ==
    ASSUME TypeOK, NextUrl, pkg' = pkg, UNCHANGED <<pin, disk, publishes, faults>>
    PROVE  TypeOK'
  BY ConstantsType DEF TypeOK, NextUrl, Return, disk

LEMMA TypeNext == TypeOK /\ [Next]_vars => TypeOK'
<1> SUFFICES ASSUME TypeOK, [Next]_vars PROVE TypeOK'
  OBVIOUS
<1>1. MyName \in Names
  BY ConstantsType DEF TypeOK, MyName
<1>2. CASE UNCHANGED vars
  BY <1>2 DEF TypeOK, vars, disk, transfer
<1>3. ASSUME NEW p \in Pkgs, Fetch(p) PROVE TypeOK'
  BY <1>3, ConstantsType DEF TypeOK, Fetch, Return, disk, transfer
<1>4. ASSUME NEW p \in Pkgs, NEW a \in Archives, Publish(p, a) PROVE TypeOK'
  BY <1>4 DEF TypeOK, Publish, disk, transfer
<1>5. CASE Open
  BY <1>1, <1>5, FileFacts, ConstantsType DEF TypeOK, Open, disk
<1>6. CASE GetFails \/ TooManyHops
  BY <1>6, NextUrlType DEF GetFails, TooManyHops
<1>7. CASE Redirect
  BY <1>7, ConstantsType DEF TypeOK, Redirect, UseHop, disk
<1>8. CASE RangeIgnored
  BY <1>1, <1>8, ConstantsType DEF TypeOK, RangeIgnored, UseHop, disk
<1>9. ASSUME NEW a \in Archives, Answer(a) PROVE TypeOK'
  BY <1>9 DEF TypeOK, Answer, disk
<1>10. CASE Receive
  BY <1>1, <1>10, FileFacts DEF TypeOK, Receive, transfer
<1>11. CASE BodyEnds
  BY <1>11 DEF TypeOK, BodyEnds, disk, transfer
<1>12. CASE Verify
  BY <1>1, <1>12, ConstantsType DEF TypeOK, Verify, Return, transfer
<1>13. CASE RemoveStale
  BY <1>1, <1>13 DEF TypeOK, RemoveStale, transfer
<1>14. CASE Rename
  BY <1>1, <1>14, ConstantsType DEF TypeOK, Rename, Return
<1>15. CASE RenameFails \/ Crash
  BY <1>15, ConstantsType DEF TypeOK, RenameFails, Crash, Return, disk
<1>16. CASE Use
  BY <1>16 DEF TypeOK, Use, disk, transfer
<1>17. QED
  BY <1>2, <1>3, <1>4, <1>5, <1>6, <1>7, <1>8, <1>9, <1>10, <1>11, <1>12, <1>13,
     <1>14, <1>15, <1>16 DEF Next, Step

THEOREM TypeCorrect == Spec => []TypeOK
  BY TypeInit, TypeNext, PTL DEF Spec

-----------------------------------------------------------------------------
(***************************************************************************)
(* Between the comparison of the digests and the rename, .part must still  *)
(* be the file that was verified.                                          *)
(***************************************************************************)
PartVerified == pc \in {"replace", "rename"} => part[MyName] = Whole(pin[pkg])

Trust == PartVerified /\ FetchedIsPinned /\ CacheWhole

LEMMA TrustInit == Init => Trust
  BY DEF Init, Trust, PartVerified, FetchedIsPinned, CacheWhole

LEMMA TrustNext == TypeOK /\ Trust /\ [Next]_vars => Trust'
<1> SUFFICES ASSUME TypeOK, Trust, [Next]_vars PROVE Trust'
  OBVIOUS
<1> USE DEF Trust, PartVerified, FetchedIsPinned, CacheWhole
<1>1. MyName \in Names /\ pin[pkg] \in Archives
  BY ConstantsType DEF TypeOK, MyName
<1>2. CASE UNCHANGED vars
  BY <1>2 DEF vars, disk, MyName, transfer
<1>3. ASSUME NEW p \in Pkgs, Fetch(p) PROVE Trust'
  BY <1>3 DEF Fetch, Return, Cached, MyName, disk
<1>4. ASSUME NEW p \in Pkgs, NEW a \in Archives, Publish(p, a) PROVE Trust'
  BY <1>4 DEF Publish, disk
<1>5. CASE Open \/ GetFails \/ Redirect \/ TooManyHops \/ BodyEnds \/ RenameFails \/ Crash \/ Use
  BY <1>5 DEF Open, GetFails, Redirect, TooManyHops, BodyEnds, RenameFails, Crash, Use,
              NextUrl, Return, disk
<1>6. CASE RangeIgnored \/ Receive
  BY <1>6 DEF RangeIgnored, Receive
<1>7. ASSUME NEW a \in Archives, Answer(a) PROVE Trust'
  BY <1>7 DEF Answer, disk
<1>8. CASE Verify
  BY <1>8 DEF Verify, Verified, Return, MyName
<1>9. CASE RemoveStale
  BY <1>1, <1>9 DEF RemoveStale, MyName, TypeOK
<1>10. CASE Rename
  BY <1>1, <1>10 DEF Rename, Return, MyName, TypeOK
<1>11. QED
  BY <1>2, <1>3, <1>4, <1>5, <1>6, <1>7, <1>8, <1>9, <1>10 DEF Next, Step

LEMMA TrustCorrect == Spec => []Trust
  BY TrustInit, TrustNext, TypeCorrect, PTL DEF Spec

\* Whatever the servers send and wherever the power fails, a fetch that
\* succeeds leaves the pinned archive under its cache name.
THEOREM FetchIsTrustworthy == Spec => []FetchedIsPinned
<1>1. Trust => FetchedIsPinned
  BY DEF Trust
<1>2. QED
  BY <1>1, TrustCorrect, PTL

\* Nothing but whole archives ever gets into the cache.
THEOREM CacheIsWhole == Spec => []CacheWhole
<1>1. Trust => CacheWhole
  BY DEF Trust
<1>2. QED
  BY <1>1, TrustCorrect, PTL

\* An old archive leaves the cache only when its successor is verified.
THEOREM OldArchiveKept == Spec => GivenUpForVerified
<1>1. ASSUME TypeOK, Trust, [Next]_vars
      PROVE  [\A n \in Names : cache[n] # None /\ cache'[n] # cache[n] =>
                 n = MyName /\ part[n] = Whole(pin[pkg])]_vars
  <2>1. SUFFICES ASSUME Next, NEW n \in Names, cache'[n] # cache[n]
                 PROVE  n = MyName /\ part[n] = Whole(pin[pkg])
    BY <1>1
  <2>2. CASE RemoveStale
    BY <1>1, <2>1, <2>2 DEF RemoveStale, TypeOK, Trust, PartVerified
  <2>3. CASE Rename
    BY <1>1, <2>1, <2>3 DEF Rename, TypeOK, Trust, PartVerified
  <2>4. QED
    BY <2>1, <2>2, <2>3
       DEF Next, Step, Open, GetFails, Redirect, RangeIgnored, TooManyHops, Receive, BodyEnds,
           Verify, RenameFails, Use, Crash, Fetch, Publish, Answer, disk
<1>2. QED
  BY <1>1, TypeCorrect, TrustCorrect, PTL DEF Spec, GivenUpForVerified
=============================================================================
