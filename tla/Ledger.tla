------------------------------- MODULE Ledger -------------------------------
(***************************************************************************)
(* What the receipt database promises: for each package the version on     *)
(* record, or None.  A step records, replaces or drops ONE package.        *)
(***************************************************************************)
CONSTANTS Pkgs, Versions, None

VARIABLE have

Init == have = [p \in Pkgs |-> None]

RecordVersion(p, v) == have' = [have EXCEPT ![p] = v]

DropRecord(p) == have' = [have EXCEPT ![p] = None]

Next == \E p \in Pkgs : DropRecord(p) \/ \E v \in Versions : RecordVersion(p, v)

Spec == Init /\ [][Next]_have
=============================================================================
