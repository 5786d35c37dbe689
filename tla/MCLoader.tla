------------------------------ MODULE MCLoader ------------------------------
(***************************************************************************)
(* Instances of Loader for TLC.                                            *)
(***************************************************************************)
EXTENDS Loader, TLC

CONSTANTS s1, s2, u1, u2, fileA, fileB, fileX, configA, configB

\* Two valid Caddyfiles and, where a run wants one, one that Adapt refuses.
ValidFiles == {fileA, fileB}
AllFiles   == {fileA, fileB, fileX}
AllConfigs == {configA, configB}
AdaptFiles == [c \in Caddyfiles |-> CASE c = fileA -> configA
                                      [] c = fileB -> configB
                                      [] OTHER     -> Invalid]
FilesAX    == {fileA, fileX}

ListOne   == {<<s1>>}
ListPair  == {<<s1, s2>>}

\* Updates never overlap, start only while another converts its Caddyfile, or
\* start at any time.
NoOverlap    == {}
AdaptOverlap == {"adapt"}
FullOverlap  == Phases

Symmetry == Permutations(Updates)
=============================================================================
