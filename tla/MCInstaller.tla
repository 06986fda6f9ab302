---------------------------- MODULE MCInstaller ----------------------------
(***************************************************************************)
(* Installs and upgrades over catalogs of four packages: a chain, a cycle, *)
(* a shared and a build-time dependency, a virtual one.                    *)
(***************************************************************************)
EXTENDS Installer

CONSTANTS a, b, c, self, host, virt, gone, x, y

MCTargets == {a, b, c, self, host, virt, gone}
MCCpus == {0}
Pkg(id, deps) == [id |-> id, provides |-> {}, floor |-> -1, deps |-> deps]

MCCatalogs == {
    <<Pkg(a, <<b>>), Pkg(b, <<c, gone>>), Pkg(c, <<>>), Pkg(self, <<>>)>>,
    <<Pkg(a, <<b, c>>), Pkg(b, <<a>>), Pkg(c, <<b>>), Pkg(self, <<>>)>>,
    <<Pkg(a, <<host, c>>), Pkg(b, <<c>>), Pkg(c, <<>>), Pkg(host, <<>>)>>,
    <<Pkg(a, <<virt>>), [Pkg(b, <<a>>) EXCEPT !.provides = {virt}],
      [Pkg(c, <<>>) EXCEPT !.provides = {virt}, !.floor = 2], Pkg(self, <<c>>)>>,
    <<Pkg(a, <<b>>), Pkg(b, <<self>>), Pkg(c, <<a>>), Pkg(self, <<>>)>>}
=============================================================================
