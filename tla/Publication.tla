---------------------------- MODULE Publication ----------------------------
(***************************************************************************)
(* The loader and the manager that publishes names: updateServer() calls   *)
(* MaybePublish when a server has loaded its configuration, with the       *)
(* version that was sent and the Caddyfile that is the last one by then.   *)
(***************************************************************************)
EXTENDS Loader

CONSTANTS
    Options, Blocks, Unreadable, BadOptions,   \* as in NamePublish
    MaxPublications                            \* bound: those whose fairness
                                               \* is stated
ASSUME BlocksAssumption == Caddyfiles \subseteq DOMAIN Blocks

VARIABLES remembered, publications

Manager == INSTANCE NamePublish

manager == <<remembered, publications>>
allVars == <<vars, manager>>

PublicationInit == Init /\ Manager!Init

\* The last call that updateServer() makes before it returns.
Publish(p) ==
    /\ MaybePublish(p)
    /\ Manager!MaybePublish(version[p], lastCaddyfile)

\* A publication that has started goes on by itself.
Continue(k) == Manager!Publish(k) /\ UNCHANGED vars

PublicationNext ==
    \/ /\ \/ \E u \in Updates : Fire(u) \/ Run(u)
          \/ \E p \in Pushes : Deliver(p)
          \/ Environment
       /\ UNCHANGED manager
    \/ \E p \in Pushes : Publish(p)
    \/ \E k \in DOMAIN publications : Continue(k)

PublicationSpec == PublicationInit /\ [][PublicationNext]_allVars

\* A publisher returns in the end: Technitium!PublishReturns, and the lookup of
\* Avahi ends at the deadline of the publication.
FairPublicationSpec ==
    /\ PublicationSpec
    /\ Fairness
    /\ \A k \in 1 .. MaxPublications :
           WF_allVars(k \in DOMAIN publications /\ Continue(k))

-----------------------------------------------------------------------------
\* Both variables of the manager have their type, and what it remembers is the
\* newest publication.
ManagerTypeOK ==
    /\ \A k \in DOMAIN publications :
          /\ publications[k].version \in Nat \ {0}
          /\ publications[k].names # {}
          /\ publications[k].called \in 0 .. Len(Manager!BuildPublishers)
    /\ remembered = IF publications = <<>> THEN [version |-> 0, names |-> {}]
                    ELSE [version |-> publications[Len(publications)].version,
                          names   |-> publications[Len(publications)].names]

\* When Docker stops changing and its Caddyfile is valid and has names, the
\* newest publication ends up being for these names, and all publishers have
\* been called for it, as long as one server answers: neither a late answer, nor
\* a Caddyfile that was not converted, nor a publisher that fails prevents it.
NamesFollow ==
    <>[](/\ Adapt[desired] # Invalid
         /\ Manager!NamesOf(desired) # {}
         /\ Manager!BuildPublishers # <<>>
         /\ \E s \in Servers : \A p \in late : ServerOf(p) # s
         => /\ publications # <<>>
            /\ LET newest == publications[Len(publications)]
               IN  /\ newest.names = Manager!NamesOf(desired)
                   /\ newest.called = Len(Manager!BuildPublishers))
=============================================================================
