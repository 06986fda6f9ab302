----------------------------- MODULE MCResolver -----------------------------
(***************************************************************************)
(* Every catalog of two packages that depend on up to two names in any     *)
(* order, and of two builds of a virtual package for different CPUs.       *)
(***************************************************************************)
EXTENDS Resolver

CONSTANTS a, b, plain, turbo, virt, gone, lost

MCCpus == {-1, 0, 3}
MCTargets == {a, b, plain, turbo, virt, gone, lost}
Names == MCTargets \ {lost}
Pairs == {<<s, t>> : s, t \in Names} \ {<<s, s>> : s \in Names \ {b}}
Free(id, deps) == [id |-> id, provides |-> {}, floor |-> -1, deps |-> deps]
Build(id, floor, deps) == [id |-> id, provides |-> {virt}, floor |-> floor, deps |-> deps]

MCCatalogs ==
    {<<Free(a, d1), Free(b, d2), Build(plain, 0, d3), Build(turbo, 2, d4)>> :
        d1 \in Pairs,
        d2 \in {<<>>} \cup {<<t>> : t \in Names},
        d3 \in {<<>>, <<a>>}, d4 \in {<<>>, <<lost>>, <<virt>>}}
=============================================================================
