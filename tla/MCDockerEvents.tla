--------------------------- MODULE MCDockerEvents ---------------------------
(***************************************************************************)
(* Instances of DockerEvents for TLC.                                      *)
(***************************************************************************)
EXTENDS DockerEvents

CONSTANTS u1, u2

UpdatesTwo == {u1, u2}

\* One event that asks for an update and one that does not.
EventsTwo == {<<"container", "start">>, <<"container", "exec_start">>}

=============================================================================
