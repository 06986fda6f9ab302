---------------------------- MODULE MCFrontEnds ----------------------------
(***************************************************************************)
(* Both front-ends on one database of two packages; the second comes from  *)
(* a repository that can be switched off, and gets a sortVersion.          *)
(***************************************************************************)
EXTENDS FrontEnds

CONSTANTS p, q, g, m

MCIds == {p, q}
MCFilters == {MCIds, {q}}
MCCatalogs == <<
    <<[id |-> p, ver |-> 1, sort |-> 0], [id |-> q, ver |-> 1, sort |-> 0]>>,
    <<[id |-> p, ver |-> 2, sort |-> 0], [id |-> q, ver |-> 1, sort |-> 2]>> >>
MCFirstDb == <<[id |-> p, ver |-> 1], [id |-> q, ver |-> 1]>>
=============================================================================
