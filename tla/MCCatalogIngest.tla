-------------------------- MODULE MCCatalogIngest --------------------------
(* Two items and two files: a film Plex may match to either of two titles.    *)
EXTENDS CatalogIngest
CONSTANTS p1, p2, g1, g2, none
MCRatingKeys == {1, 2}
MCDated == {1}
MCPaths == {p1, p2}
MCGuids == {g1, g2}
MCBudgets == {[disk |-> 2, plex |-> 1, colls |-> 0], [disk |-> 1, plex |-> 2, colls |-> 0],
              [disk |-> 0, plex |-> 2, colls |-> 1]}
MCComeback == {[disk |-> 0, plex |-> 2, colls |-> 0]}
MCSymmetry == Permutations(MCPaths) \cup Permutations(MCGuids)
=============================================================================
