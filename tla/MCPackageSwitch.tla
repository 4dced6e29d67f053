----------------------------- MODULE MCPackageSwitch -----------------------------
(* Instances of PackageSwitch for TLC. *)
EXTENDS PackageSwitch

\* Two nodes whose layers have one name for different bytes; a third, in every version,
\* with the first's bytes under another name; and one the first contains.
MCNodes == {"libA", "libB", "libC", "libD"}
MCNames == {"dx", "extra"}
MCContents == {"X1", "X2"}
MCClaims == [n \in MCNodes |-> CASE n = "libA" -> {<<"dx", "X1">>}
                                 [] n = "libB" -> {<<"dx", "X2">>}
                                 [] n = "libC" -> {<<"extra", "X1">>}
                                 [] n = "libD" -> {}]
MCRefs == [n \in MCNodes |-> IF n = "libA" THEN {"libD"} ELSE {}]
MCVersions == {{"libA", "libC", "libD"}, {"libB", "libC"}}
MCOthers == {{}, {"libA"}}
================================================================================
