---------------------------- MODULE MCTechnitium ----------------------------
(***************************************************************************)
(* Instances of Technitium for TLC.                                        *)
(***************************************************************************)
EXTENDS Technitium

CONSTANTS app, App, web, out, ip, oldip

LowerCase(n) == IF n = App THEN app ELSE n

Rec(n, t, v, m) == [name |-> n, type |-> t, value |-> v, managed |-> m]

\* app and web belong to the zone, out does not.
Sets == {{App}, {out, web, app}, {out}}

\* An empty zone; records of an earlier run with another caddyHost, next to
\* one of a type that is not looked at; a record made by somebody else next to
\* a managed record of another type.
Zones == { {},
           {Rec(app, "A", oldip, TRUE), Rec(web, "A", ip, TRUE),
            Rec(app, "TXT", ip, TRUE)},
           {Rec(app, "A", oldip, FALSE), Rec(web, "CNAME", oldip, TRUE)} }
=============================================================================
