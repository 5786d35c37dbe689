---------------------------- MODULE NamePublish ----------------------------
(***************************************************************************)
(* The manager that publishes the site names of the Caddyfile to external  *)
(* name systems (manager.go, extract.go, build.go).                        *)
(*                                                                         *)
(* MaybePublish is called by the updateServer() goroutines of the loader;  *)
(* its critical section is one step.  Each publication is a goroutine of   *)
(* its own that calls one publisher after the other.  What a publisher     *)
(* does is the subject of modules Technitium and Avahi: here its call      *)
(* returns in the end, with an error or without one.                       *)
(***************************************************************************)
EXTENDS Integers, SequencesExt

CONSTANTS
    Options,     \* config.NamePublishOptions
    Blocks,      \* for each Caddyfile its top-level blocks, or Unreadable
    Unreadable,  \* the error of Unmarshal
    BadOptions   \* the error of BuildPublishers

VARIABLES
    remembered,    \* Manager.lastVersion and lastHash
    publications   \* the goroutines of publish(), in the order of their start

\* The publishers of Manager, in the order of their calls; none, no manager.
BuildPublishers ==
    CASE ~Options.enabled                   -> <<>>
      [] ~Options.caddyHost                 -> BadOptions
      [] Options.technitium = "incomplete"  -> BadOptions
      [] OTHER ->
            (IF Options.technitium = "on" THEN <<"technitium">> ELSE <<>>)
         \o (IF Options.avahi THEN <<"avahi">> ELSE <<>>)

\* The hosts in the keys of all sites.  A key has several when it is a list
\* with commas, and none when it is only a port.
ExtractDesiredNames(caddyfile) ==
    LET sites == SelectSeq(Blocks[caddyfile], LAMBDA b : b.kind = "site")
    IN  UNION {UNION Range(sites[k].keys) : k \in DOMAIN sites}

\* The names a call of MaybePublish may publish; none after an error.
NamesOf(caddyfile) ==
    IF Blocks[caddyfile] = Unreadable THEN {} ELSE ExtractDesiredNames(caddyfile)

\* Start returns an error when BuildPublishers does.
Init ==
    /\ BuildPublishers # BadOptions
    /\ remembered = [version |-> 0, names |-> {}]
    /\ publications = <<>>

\* Mutants of MaybePublish: the manager forgets what it has published, or goes
\* by the names alone.
MaybePublishAlways(version, caddyfile) ==
    LET names == NamesOf(caddyfile)
    IN  IF BuildPublishers = <<>> \/ names = {} THEN UNCHANGED <<remembered, publications>>
        ELSE /\ publications' = Append(publications,
                    [version |-> version, names |-> names, called |-> 0])
             /\ UNCHANGED remembered
MaybePublishByName(version, caddyfile) ==
    LET names == NamesOf(caddyfile)
    IN  IF \/ BuildPublishers = <<>> \/ names = {}
           \/ \E k \in DOMAIN publications : publications[k].names = names
        THEN UNCHANGED <<remembered, publications>>
        ELSE /\ publications' = Append(publications,
                    [version |-> version, names |-> names, called |-> 0])
             /\ remembered' = [version |-> version, names |-> names]

\* A publication starts unless there is no manager, nothing to publish, or the
\* newest one was for the same version and names.
MaybePublish(version, caddyfile) ==
    LET names == NamesOf(caddyfile)
    IN  IF \/ BuildPublishers = <<>>
           \/ names = {}
           \/ remembered = [version |-> version, names |-> names]
        THEN UNCHANGED <<remembered, publications>>
        ELSE /\ remembered' = [version |-> version, names |-> names]
             /\ publications' = Append(publications,
                    [version |-> version, names |-> names, called |-> 0])

\* A mutant of Publish: the publication ends with the first error.
PublishUntilError(k) ==
    /\ publications[k].called < Len(BuildPublishers)
    /\ \/ publications' = [publications EXCEPT ![k].called = @ + 1]
       \/ publications' = RemoveAt(publications, k)
    /\ UNCHANGED remembered

\* The next publisher returns; its error is logged, and the loop goes on.
Publish(k) ==
    /\ publications[k].called < Len(BuildPublishers)
    /\ publications' = [publications EXCEPT ![k].called = @ + 1]
    /\ UNCHANGED remembered
=============================================================================
