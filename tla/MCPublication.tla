--------------------------- MODULE MCPublication ---------------------------
(***************************************************************************)
(* Instances of Publication for TLC.                                       *)
(***************************************************************************)
EXTENDS Publication, TLC

CONSTANTS s1, u1, u2, fileA, fileB, fileX, configA, configB, a, b

AllConfigs == {configA, configB}
AdaptFiles == [c \in Caddyfiles |-> CASE c = fileA -> configA
                                      [] c = fileB -> configB
                                      [] OTHER     -> Invalid]
ListOne  == {<<s1>>}
NoOverlap == {}

\* Two publishers, and Caddyfiles with global blocks, ports and lists of hosts.
\* A and B share a host; B has one site with two, X refuses conversion.
BothPublishers == [enabled |-> TRUE, caddyHost |-> TRUE,
                   technitium |-> "on", avahi |-> TRUE]
Block(kind, keys) == [kind |-> kind, keys |-> keys]
FileBlocks ==
    [c \in {fileA, fileB, fileX} |->
        CASE c = fileA -> <<Block("global", <<>>), Block("site", <<{a}>>)>>
          [] c = fileB -> <<Block("snippet", <<{}>>), Block("site", <<{a}, {b}>>)>>
          [] OTHER     -> <<Block("site", <<{}>>), Block("site", <<{a, b}, {a}>>)>>]
=============================================================================
