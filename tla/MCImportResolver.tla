-------------------------- MODULE MCImportResolver --------------------------
(***************************************************************************)
(* Model checking of ImportResolver on the file systems made of            *)
(*    main.truk, b.truk, pkg/lib.truk, pkg/b.truk and inc/b.truk           *)
(* where inc is an include directory and pkg is imported as a directory.   *)
(***************************************************************************)
EXTENDS ImportResolver

MCPlaces == {"main", "b", "pkg", "pkg/lib", "pkg/b", "inc/b"}
MCNames == {"main", "b", "pkg"}

InPkg == [main |-> "main", b |-> "pkg/b", pkg |-> "pkg"]
InInc == [main |-> "main", b |-> "inc/b", pkg |-> "pkg"]
InRoot == [main |-> "main", b |-> "b", pkg |-> "pkg"]

MCBeside ==
  [p \in MCPlaces |-> CASE p \in {"pkg/lib", "pkg/b"} -> InPkg
                        [] p = "inc/b" -> InInc
                        [] OTHER -> InRoot]

MCIncluded == [x \in MCNames |-> IF x = "b" THEN <<"inc/b">> ELSE << >>]
MCLibOf == [p \in MCPlaces |-> IF p = "pkg" THEN "pkg/lib" ELSE None]

(* What is at each place: the entry can be read, pkg is a directory or not *)
(* there, the other places hold a file or nothing; b and pkg/lib may be    *)
(* broken.                                                                 *)
MCSystems ==
  {s \in [MCPlaces -> Kinds] :
     /\ s["main"] = "source"
     /\ s["pkg"] \in {"directory", "absent"}
     /\ \A p \in MCPlaces \ {"pkg"} : s[p] # "directory"
     /\ s["pkg/b"] # "broken" /\ s["inc/b"] # "broken"
     /\ s["pkg"] = "absent" => s["pkg/lib"] = "absent" /\ s["pkg/b"] = "absent"}

MCTexts ==
  {<<Decl>>}
    \cup {<<x, Decl>> : x \in MCNames}
    \cup {<<Decl, x>> : x \in MCNames}
    \cup {<<x, y, Decl>> : x, y \in MCNames}
=============================================================================
