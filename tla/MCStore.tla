------------------------------ MODULE MCStore ------------------------------
(***************************************************************************)
(* PackageStore on a small instance: amipkg itself, a generic package      *)
(* "app" that bundles a library, and a recipe package "lib" that owns the  *)
(* same library in LIBS: and whose second archive is empty.                *)
(***************************************************************************)
EXTENDS PackageStore

CONSTANTS self, app, lib, bin, tool, mui, hBin, hTool, aBin, aTool, aLib, sLib

MCPkgs    == {self, app, lib}
MCRecipes == {self, lib}
MCEntries == {bin, tool, mui}
MCPaths   == {hBin, hTool, aBin, aTool, aLib, sLib}
MCHome    == {hBin, hTool}

MCShips == [p \in MCPkgs |->
    CASE p = self -> <<{bin, tool}, {bin}>>
      [] p = app  -> <<{tool, mui}, {tool}>>
      [] p = lib  -> <<{mui}, {}>>]

MCMatch == [p \in MCPkgs |->
    CASE p = self -> {bin, tool}
      [] p = app  -> MCEntries
      [] p = lib  -> {mui}]

MCDest == [p \in MCPkgs |->
    CASE p = self -> [e \in MCEntries |-> IF e = bin THEN hBin ELSE hTool]
      [] p = app  -> [e \in MCEntries |->
                        CASE e = bin -> aBin [] e = tool -> aTool [] e = mui -> aLib]
      [] p = lib  -> [e \in MCEntries |-> sLib]]

MCLibOf == [e \in MCEntries |-> IF e = mui THEN sLib ELSE None]

MCHooks == [p \in MCPkgs |-> IF p = lib THEN {"edits", "remove"} ELSE {}]

MCDrawers == {{aTool, aLib}}
=============================================================================
