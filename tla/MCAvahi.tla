------------------------------ MODULE MCAvahi -------------------------------
(***************************************************************************)
(* Instances of Avahi for TLC.                                             *)
(***************************************************************************)
EXTENDS Avahi

CONSTANTS app, web, out, ip1, ip2

\* app and web end in .local, out does not.
Sets      == {{app}, {app, web, out}, {out}}
Addrs     == {{ip1}, {ip1, ip2}}
=============================================================================
