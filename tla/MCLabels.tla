------------------------------ MODULE MCLabels ------------------------------
(***************************************************************************)
(* Docker objects for Labels: a service with a site, its replica, and a    *)
(* container with a global option, a snippet and the same site.            *)
(***************************************************************************)
EXTENDS Labels

\* A part of a path: "name", "name_0", "1_name".
Part(name)       == [order |-> MaxOrder, name |-> name, suffix |-> 0]
Suffixed(name, n) == [Part(name) EXCEPT !.suffix = n]
Ordered(n, name) == [Part(name) EXCEPT !.order = n]

Caddy(rest)     == <<Part("caddy")>> \o rest
CaddyN(n, rest) == <<Suffixed("caddy", n)>> \o rest

\* Upstreams with a subdirective, and a token with a line break.
Service(upstream, value) ==
       Caddy(<<>>) :> <<"a.com">>
    @@ Caddy(<<Part("reverse_proxy")>>) :> <<"*", upstream>>
    @@ Caddy(<<Part("reverse_proxy"), Part("header")>>) :> <<"two_lines", value>>
    @@ Caddy(<<Part("import")>>) :> <<"(tls)">>

\* Two routes that the suffix keeps apart.
Routes ==
       Caddy(<<>>) :> <<"a.com">>
    @@ Caddy(<<Suffixed("route", 1), Part("respond")>>) :> <<"x:1">>
    @@ Caddy(<<Suffixed("route", 2), Part("respond")>>) :> <<"y:2">>

\* A global option, a snippet and a site, whose matcher must come first and
\* whose directives have an order of their own.
Others ==
       CaddyN(1, <<Part("debug")>>) :> <<>>
    @@ CaddyN(2, <<>>) :> <<"(tls)">>
    @@ CaddyN(2, <<Part("respond")>>) :> <<"two_lines">>
    @@ CaddyN(3, <<Part("@m")>>) :> <<"x:1">>
    @@ CaddyN(3, <<Ordered(1, "respond")>>) :> <<"@m", "y:2">>
    @@ CaddyN(3, <<Ordered(2, "import")>>) :> <<"(tls)">>
    @@ CaddyN(3, <<>>) :> <<"a.com">>

Catalogue == [x      |-> Service("x:1", "x:1"),
              y      |-> Service("y:2", "z"),
              routes |-> Routes,
              others |-> Others]

OneOrTwo == {<<"others">>, <<"routes">>, <<"x", "y">>, <<"x", "x">>, <<"routes", "x">>}

Order == <<"(tls)", "*", "@m", "a.com", "debug", "header", "import", "respond",
           "reverse_proxy", "route", "two_lines", "x:1", "y:2", "z">>
=============================================================================
