------------------------------ MODULE Rollout ------------------------------
(***************************************************************************)
(* What the DockerLoader promises of the configurations it generates: each *)
(* server goes from one to a newer one, never back, may leave some out,    *)
(* and reaches the newest, unless it stops answering.  Which goroutine     *)
(* sends what when, and what the controller remembers, is not said.        *)
(***************************************************************************)
EXTENDS Integers

CONSTANTS
    Servers,   \* controlled servers
    Configs,   \* JSON configurations
    Nothing    \* no configuration

VARIABLES
    newest,    \* the newest configuration, with its number
    running,   \* the configuration of each server
    silent     \* the servers that keep a request

Init ==
    /\ newest = [config |-> Nothing, commit |-> 0]
    /\ running = [s \in Servers |-> newest]
    /\ silent = {}

\* A valid Caddyfile gives a configuration.
Generated ==
    /\ \E c \in Configs : newest' = [config |-> c, commit |-> newest.commit + 1]
    /\ UNCHANGED <<running, silent>>

\* A server loads a configuration that is no older than the one it runs.
Load(s) ==
    /\ running' = [running EXCEPT ![s] = running'[s]]
    /\ running'[s].commit \in running[s].commit .. newest.commit
    /\ running'[s].config \in Configs
    /\ running'[s].commit = newest.commit => running'[s] = newest
    /\ UNCHANGED <<newest, silent>>

Silence ==
    /\ silent' \subseteq Servers
    /\ UNCHANGED <<newest, running>>

vars == <<newest, running, silent>>
Next == Generated \/ Silence \/ \E s \in Servers : Load(s)

Spec == Init /\ [][Next]_vars

\* Every server reaches the newest configuration again and again, but for one
\* that keeps a request for ever.
Reached == \A s \in Servers : <>[](s \in silent) \/ []<>(running[s] = newest)
=============================================================================
