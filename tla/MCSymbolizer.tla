----------------------------- MODULE MCSymbolizer -----------------------------
(* Two interchangeable addresses; two libraries with one file name.        *)
EXTENDS Symbolizer, TLC

CONSTANTS a1, a2

MCAddress == {a1, a2}
AddressSymmetry == Permutations(MCAddress)

MCPath == {"/perflens", "/a/lib", "/b/lib", "[anon]"}
MCReadable == MCPath \ {"[anon]"}
MCName == {"perflens", "lib", "f", "g", Unknown}
MCFileName == [p \in MCPath |-> CASE p = "/perflens" -> "perflens"
                                  [] p = "[anon]"    -> "f"
                                  [] OTHER           -> "lib"]
MCSymbol == [p \in MCPath |-> [l \in {1} |-> IF p = "/b/lib" THEN "f" ELSE "g"]]

Text(p) == [path |-> p, location |-> 1, executable |-> TRUE]
MCRunnerMapping == Text("/perflens")
MCMapping == {Text(p) : p \in MCPath}
=============================================================================
