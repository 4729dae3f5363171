------------------------------ MODULE MCLoader ------------------------------
(***************************************************************************)
(* A program that needs libA; libA and libB need each other, libA by its   *)
(* SONAME; a plug-in libC that needs libB and libD, found by its RUNPATH   *)
(* when it is there at all.  g is defined by both libB and libD.           *)
(***************************************************************************)
EXTENDS Loader
R(type, sym) == [type |-> type, sym |-> sym]
Name(n) == [dir |-> "bare", name |-> n]
Path(d, n) == [dir |-> d, name |-> n]
O(soname, needs, runpath, defs, rels, array, func) ==
    [soname |-> soname, needs |-> needs, runpath |-> runpath, defs |-> defs,
     rels |-> rels, array |-> array, func |-> func]
MCObject == [
    main |-> O("none", <<Name("libA")>>, <<>>, {"x", "v"},
               <<R("SLOT", "f"), R("COPY", "v")>>, 1, FALSE),
    A |-> O("soA", <<Name("libB")>>, <<>>, {"f", "v"},
            <<R("RELATIVE", ""), R("ABS", "g"), R("ABS", "v")>>, 2, TRUE),
    B |-> O("libB", <<Name("soA")>>, <<>>, {"g"}, <<R("SLOT", "f"), R("ABS", "x")>>, 0, TRUE),
    C |-> O("libC", <<Name("libB"), Name("libD")>>, <<"opt">>, {"p"},
            <<R("ABS", "g"), R("SLOT", "q")>>, 1, TRUE),
    D |-> O("libD", <<>>, <<>>, {"q", "g"}, <<R("RELATIVE", "")>>, 0, FALSE)]
MCNames == {"libA", "libB", "libC", "libD", "soA", "none"}
MCDirs == {"lib", "opt"}
D0(d, n) == CASE n = "libB" -> "B" \* in both directories
              [] n = "libA" /\ d = "lib" -> "A"
              [] n = "soA" /\ d = "lib" -> "A"
              [] n = "libC" /\ d = "lib" -> "C"
              [] OTHER -> "nofile"
Base == [p \in MCDirs \X MCNames |-> D0(p[1], p[2])]
MCDisks == {Base, [Base EXCEPT !["opt", "libD"] = "D"],
            [Base EXCEPT !["lib", "libB"] = "nofile", !["opt", "libD"] = "D"]}
MCAsked == {Name("libA"), Name("libC"), Name("libD"), Path("lib", "soA")}
MCLdPath == <<"opt">>
=============================================================================
