----------------------------- MODULE MCDownload -----------------------------
(***************************************************************************)
(* Two packages whose archives have the same file name in the cache, two   *)
(* archives of different sizes, one mirror.                                *)
(***************************************************************************)
EXTENDS Download

CONSTANTS p1, p2, small, large, lha

MCSize    == [a \in Archives |-> IF a = small THEN 1 ELSE 2]
MCName    == [p \in Pkgs |-> lha]
MCMirrors == [p \in Pkgs |-> 1]
=============================================================================
