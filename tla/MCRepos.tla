------------------------------ MODULE MCRepos ------------------------------
(***************************************************************************)
(* The official repository and one of the user's own; one good catalog     *)
(* each, and one package that both offer.  The user adds their own with or *)
(* without its key, or puts it in the place of the official one.           *)
(***************************************************************************)
EXTENDS Repos

CONSTANTS official, mine, home, host, keyH, keyM, catH, catM, p, q

MCIds == {official, mine}
MCUrls == {home, host}
MCKeys == {keyH, keyM}
MCCatalogs == {catH, catM}
MCSignedBy == [c \in MCCatalogs |-> IF c = catM THEN keyM ELSE keyH]
MCOffers == [c \in MCCatalogs |->
    IF c = catH THEN {p} ELSE {p, q}]
MCAddable == {
    [id |-> mine, url |-> host, key |-> keyM, on |-> TRUE],
    [id |-> mine, url |-> host, key |-> Unsigned, on |-> TRUE],
    [id |-> official, url |-> host, key |-> keyM, on |-> TRUE]}
=============================================================================
