----------------------------- MODULE MCOmapScan -----------------------------
(***************************************************************************)
(* OmapScan with the empty key and three more; the last but one has a NUL, *)
(* and a prefix selects the last two.                                      *)
(***************************************************************************)
EXTENDS OmapScan

CONSTANTS p, badPrefix

MCPrefixes == {p, badPrefix}
MCMatching == [f \in MCPrefixes |-> IF f = p THEN {2, 3} ELSE {}]
MCKeyLists == {{}, {0, 1, 2}, {2, 3}}
MCHasNul == {2, badPrefix}

=============================================================================
