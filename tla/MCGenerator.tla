----------------------------- MODULE MCGenerator -----------------------------
(***************************************************************************)
(* Instances of Generator for TLC: two Docker hosts, and sites, snippets   *)
(* and labels that meet in every way the merging code tells apart.         *)
(***************************************************************************)
EXTENDS Generator

CONSTANTS web, app, bad, svc, com, alt, fail, front, back, u1, u2

\* The name of a snippet, site addresses, and one with a comma.
Log    == 1
A      == 2
B      == 3
C      == 4
D      == 5
E      == 6
DComma == 7

AddressOf(k) == IF k = DComma THEN D ELSE k

Site(keys, body) == [keys |-> keys, order |-> MaxOrder, body |-> body]
At(i, keys, body) == [keys |-> keys, order |-> i, body |-> body]

Object(id, blocks, nets) ==
    [id |-> id, blocks |-> blocks, networks |-> nets, override |-> {},
     controlled |-> FALSE]

\* The Caddyfile at CaddyfilePath: global options, and a site that imports a
\* snippet which a label defines.
File == << At(0, <<>>, {<<"email">>}), At(1, <<A>>, {<<"base">>, Import(Log)}) >>

Config == << At(0, <<D>>, {<<"respond">>}) >>

\* A controlled server that shares A with the file.
Web == [Object(web, {Site(<<A, B>>, {Upstreams})}, {front, back})
            EXCEPT !.controlled = TRUE]

\* The snippet, and a site on a network of its own choice.
App == [Object(app, {Site(<<Log>>, {<<"log">>}), Site(<<C>>, {Upstreams})}, {back})
            EXCEPT !.override = {back}]

\* A bad block, with a sound one whose addresses are both taken already.
Bad == Object(bad, {Site(<<B, C>>, {Invalid}), Site(<<A, D>>, {<<"header">>})},
              {front})

\* A service that shares a key with two others.
Svc == [Object(svc, {Site(<<B, C>>, {Upstreams, <<"tls">>})}, {front})
            EXCEPT !.controlled = TRUE]

\* "D, E", where the config writes "D", and blocks with E and with a site of
\* App: without the latter, and without the config, Caddy accepts the former.
Com == Object(com, {Site(<<DComma, E>>, {<<"header">>})}, {front})
Alt == Object(alt, {Site(<<E>>, {<<"log">>}), Site(<<C>>, {<<"log">>})}, {front})

\* A controlled server with a label whose template fails.
Broken == [Object(fail, {}, {back}) EXCEPT !.controlled = TRUE]

World(first, second, services, swarm) ==
    [file       |-> File,
     configs    |-> <<<<Config>>, <<>>>>,
     containers |-> <<first, second>>,
     services   |-> <<services, <<>>>>,
     swarm      |-> swarm]

AllSound == World(<<App>>, <<Web>>, <<Svc>>, {1, 2})
WithBad  == World(<<App, Bad>>, <<Broken, Web>>, <<Svc>>, {1, 2})
OneSwarm == World(<<Web, Alt, App>>, <<Com>>, <<Svc>>, {1})
AllWorlds == {AllSound, WithBad, OneSwarm}

Setup(worlds, updates, merge, process, tasks, named, import) ==
    [worlds  |-> worlds,
     updates |-> updates,
     options |-> [mergeSites |-> merge, process |-> process, tasks |-> tasks,
                  named |-> named, defaultImport |-> import, server |-> TRUE]]

\* The default settings, and with --merge-sites; without processing and tasks;
\* without --ingress-networks; and two updates that overlap.
SomeSetups ==
    { Setup(AllWorlds, {u1}, FALSE, TRUE, TRUE, TRUE, {Log}),
      Setup(AllWorlds, {u1}, TRUE, TRUE, TRUE, TRUE, {}),
      Setup({AllSound}, {u1}, FALSE, FALSE, FALSE, TRUE, {}),
      Setup({AllSound}, {u1}, FALSE, TRUE, TRUE, FALSE, {}),
      Setup({AllSound}, {u1, u2}, FALSE, TRUE, TRUE, TRUE, {}) }
=============================================================================
