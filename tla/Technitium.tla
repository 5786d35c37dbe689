----------------------------- MODULE Technitium -----------------------------
(***************************************************************************)
(* The Technitium publisher (namepublish/technitium.go) and the goroutines *)
(* that run it.                                                            *)
(*                                                                         *)
(* The manager of name publication starts one goroutine per set of names   *)
(* (module NamePublish); each calls Publish, which makes the zone of a DNS *)
(* server hold a managed record for every name, one API call after         *)
(* another, and starts over after an error.  Goroutines of several calls   *)
(* can run at the same time.  The zone is external: others edit it too,    *)
(* and an API call is one atomic step of the server that can fail before   *)
(* or after it takes effect.                                               *)
(***************************************************************************)
EXTENDS Integers

CONSTANTS
    Names,         \* site names as they are written, and names of records
    Normal(_),     \* external: the name under which the server keeps a name,
                   \* in lower case and without a final dot
    ZoneNames,     \* names of records that belong to the configured zone
    NameSets,      \* sets of names that the manager may ask to publish
    NoName,        \* no name
    Values,        \* values of records
    RecordType,    \* type of the record for caddyHost (recordParams)
    RecordValue,   \* value of that record
    InitialZones,  \* records the zone may hold when the controller starts
    MaxJobs,       \* bound: calls of Publish
    MaxAttempts,   \* len(retryDelays) + 1
    MaxEdits       \* bound: edits of the zone by others

ASSUME ZoneAssumption == ZoneNames \subseteq Names
ASSUME NormalAssumption ==
    \A n \in Names : Normal(n) \in Names /\ Normal(Normal(n)) = Normal(n)
ASSUME SetsAssumption == NameSets \subseteq SUBSET Names
ASSUME NoNameAssumption == NoName \notin Names
ASSUME BoundsAssumption == /\ MaxJobs \in Nat
                           /\ MaxAttempts \in Nat \ {0}
                           /\ MaxEdits \in Nat

\* isSupportedType; the zone holds records of other types as well.
SupportedTypes == {"A", "AAAA", "CNAME"}
Types          == SupportedTypes \cup {"TXT"}

\* managed: the comment is technitiumManagedComment.
Records == [name : {Normal(n) : n \in Names}, type : Types, value : Values,
            managed : BOOLEAN]

\* The server keeps a record once per name, type and value, and a name and type
\* has one managed record at most, since addRecord overwrites.
WellFormed(records) ==
    \A r, q \in records :
        (/\ r.name = q.name
         /\ r.type = q.type
         /\ r.value = q.value \/ (r.managed /\ q.managed)) => r = q

ASSUME RecordAssumption == /\ RecordType \in SupportedTypes
                           /\ RecordValue \in Values
                           /\ InitialZones \subseteq SUBSET Records
                           /\ \A records \in InitialZones : WellFormed(records)

VARIABLES
    zone,      \* external: the records of the zone
    edits,     \* how often others have edited it
    started,   \* how many calls of Publish have been made
    pc,        \* where each call is
    names,     \* its names that belong to the zone, as they are written
    attempt,   \* its failed attempts
    snapshot,  \* the records that its getZoneRecords returned
    left,      \* records it still has to delete before its next step
    todo,      \* names that its loop over filteredNames has not finished
    at,        \* the one of them that it is at
    disturbed  \* ghost: the calls during which another one ran, or an edit
               \* was made

vars == <<zone, edits, started, pc, names, attempt, snapshot, left, todo, at,
          disturbed>>

Jobs   == 1 .. MaxJobs
Active == {"get", "purge", "name", "sleep"}
Phases == {"idle", "ok", "failed"} \cup Active

\* filterNamesForZone: names are compared in their normal form, and kept as they
\* are written.
FilterNamesForZone(ns) == {n \in ns : Normal(n) \in ZoneNames}

NamesInZone == FilterNamesForZone(Names)

TypeOK ==
    /\ zone \in SUBSET Records
    /\ edits \in 0 .. MaxEdits
    /\ started \in 0 .. MaxJobs
    /\ pc \in [Jobs -> Phases]
    /\ names \in [Jobs -> SUBSET NamesInZone]
    /\ attempt \in [Jobs -> 0 .. MaxAttempts - 1]
    /\ snapshot \in [Jobs -> SUBSET Records]
    /\ left \in [Jobs -> SUBSET Records]
    /\ todo \in [Jobs -> SUBSET NamesInZone]
    /\ at \in [Jobs -> NamesInZone \cup {NoName}]
    /\ disturbed \subseteq Jobs

Init ==
    /\ zone \in InitialZones
    /\ edits = 0
    /\ started = 0
    /\ pc = [j \in Jobs |-> "idle"]
    /\ names = [j \in Jobs |-> {}]
    /\ attempt = [j \in Jobs |-> 0]
    /\ snapshot = [j \in Jobs |-> {}]
    /\ left = [j \in Jobs |-> {}]
    /\ todo = [j \in Jobs |-> {}]
    /\ at = [j \in Jobs |-> NoName]
    /\ disturbed = {}

Running == {j \in Jobs : pc[j] \in Active}

Goto(j, phase) == pc' = [pc EXCEPT ![j] = phase]

\* Back to the caller, with the local variables gone.
Return(j, phase) ==
    /\ Goto(j, phase)
    /\ attempt' = [attempt EXCEPT ![j] = 0]
    /\ snapshot' = [snapshot EXCEPT ![j] = {}]
    /\ left' = [left EXCEPT ![j] = {}]
    /\ todo' = [todo EXCEPT ![j] = {}]
    /\ at' = [at EXCEPT ![j] = NoName]

\* The manager calls Publish; with no name in the zone it returns at once.
Publish(ns) ==
    LET j == started + 1
    IN  /\ started < MaxJobs
        /\ started' = j
        /\ names' = [names EXCEPT ![j] = FilterNamesForZone(ns)]
        /\ Goto(j, IF FilterNamesForZone(ns) = {} THEN "ok" ELSE "get")
        /\ disturbed' = IF Running = {} THEN disturbed
                        ELSE disturbed \cup Running \cup {j}
        /\ UNCHANGED <<zone, edits, attempt, snapshot, left, todo, at>>

-----------------------------------------------------------------------------
(* publishOnce.  Its decisions are taken on the snapshot, not on the zone,  *)
(* and it looks for records by names as they are written.                  *)

Supported(records) == {r \in records : r.type \in SupportedTypes}

\* The managed records of names that are not desired.
Undesired(j, records) ==
    {r \in Supported(records) : r.managed /\ r.name \notin names[j]}

OfName(j, n) == {r \in Supported(snapshot[j]) : r.name = n}
SameType(rs) == {r \in rs : r.type = RecordType}
Managed(rs)  == {r \in rs : r.managed}

\* hasUnmanaged(existingByNameType[key])
HasUnmanaged(j, n) == \E r \in SameType(OfName(j, n)) : ~r.managed

\* A mutant of AlreadyRight: the value is not compared.
AlreadyThere(j, n) == Managed(SameType(OfName(j, n))) # {}

\* managedSameType[0].value() == rdataValue
AlreadyRight(j, n) ==
    \E r \in Managed(SameType(OfName(j, n))) : r.value = RecordValue

\* The records to delete before a record is added for n: all managed records
\* of other types and, when they are wrong, those of the same type.
ToReplace(j, n) ==
    IF HasUnmanaged(j, n) THEN {}
    ELSE {r \in Managed(OfName(j, n)) : r.type = RecordType => ~AlreadyRight(j, n)}

\* deleteRecord: by name, type and value; the comment is not looked at.
Delete(records, r) ==
    {x \in records : ~(x.name = r.name /\ x.type = r.type /\ x.value = r.value)}

\* addRecord with overwrite=true.
Add(records, n) ==
    {x \in records : ~(x.name = Normal(n) /\ x.type = RecordType)}
        \cup {[name |-> Normal(n), type |-> RecordType, value |-> RecordValue,
               managed |-> TRUE]}

\* A mutant of Failed: the attempts are not counted.
FailedForever(j) ==
    /\ Goto(j, "sleep")
    /\ UNCHANGED <<attempt, snapshot, left, todo, at>>

\* A mutant of Failed: one attempt too many.
FailedLate(j) ==
    IF attempt[j] = MaxAttempts
    THEN Return(j, "failed")
    ELSE /\ Goto(j, "sleep")
         /\ attempt' = [attempt EXCEPT ![j] = @ + 1]
         /\ UNCHANGED <<snapshot, left, todo, at>>

\* publishOnce returns an error.  Publish sleeps and tries again, unless it
\* was the last attempt.
Failed(j) ==
    IF attempt[j] + 1 = MaxAttempts
    THEN Return(j, "failed")
    ELSE /\ Goto(j, "sleep")
         /\ attempt' = [attempt EXCEPT ![j] = @ + 1]
         /\ snapshot' = [snapshot EXCEPT ![j] = {}]
         /\ left' = [left EXCEPT ![j] = {}]
         /\ todo' = [todo EXCEPT ![j] = {}]
         /\ at' = [at EXCEPT ![j] = NoName]

\* continue in the loop over filteredNames: nothing is to be done for the name.
Skips(j) == HasUnmanaged(j, at[j]) \/ AlreadyRight(j, at[j])

\* A job is about to delete or to add a record.
Writes(j) == \/ pc[j] \in {"purge", "name"} /\ left[j] # {}
             \/ pc[j] = "name" /\ ~Skips(j)

\* The API call that a job is about to make fails: the request is lost or
\* refused, or the 10s timeout or that of ctx expires.
CallFails(j) ==
    /\ pc[j] = "get" \/ Writes(j)
    /\ Failed(j)
    /\ UNCHANGED <<zone, edits, started, names, disturbed>>

\* An error that is not retryable: the name does not belong to the zone.
CallRefused(j) ==
    /\ Writes(j)
    /\ Return(j, "failed")
    /\ UNCHANGED <<zone, edits, started, names, disturbed>>

\* The delay is over / ctx is done first, and Publish returns the error.
Retry(j) ==
    /\ pc[j] = "sleep"
    /\ Goto(j, "get")
    /\ UNCHANGED <<zone, edits, started, names, attempt, snapshot, left, todo,
                   at, disturbed>>

TimeOut(j) ==
    /\ pc[j] = "sleep"
    /\ Return(j, "failed")
    /\ UNCHANGED <<zone, edits, started, names, disturbed>>

\* getZoneRecords
GetZoneRecords(j) ==
    /\ pc[j] = "get"
    /\ snapshot' = [snapshot EXCEPT ![j] = zone]
    /\ left' = [left EXCEPT ![j] = Undesired(j, zone)]
    /\ Goto(j, "purge")
    /\ UNCHANGED <<zone, edits, started, names, attempt, todo, at, disturbed>>

\* Deleting the next record of left.  A call whose answer is lost fails after
\* it has taken effect.
DeleteRecord(j) ==
    /\ pc[j] \in {"purge", "name"}
    /\ \E r \in left[j] :
         /\ zone' = Delete(zone, r)
         /\ \/ /\ left' = [left EXCEPT ![j] = @ \ {r}]
               /\ UNCHANGED <<pc, attempt, snapshot, todo, at>>
            \/ Failed(j)
    /\ UNCHANGED <<edits, started, names, disturbed>>

\* The loop over filteredNames comes to one of the names that are left.  (The
\* order of the list does not matter to anything below; any order is taken.)
EnterName(j, rest) ==
    \E n \in rest : /\ todo' = [todo EXCEPT ![j] = rest]
                     /\ at' = [at EXCEPT ![j] = n]
                     /\ left' = [left EXCEPT ![j] = ToReplace(j, n)]

BeginNames(j) ==
    /\ pc[j] = "purge"
    /\ left[j] = {}
    /\ EnterName(j, names[j])
    /\ Goto(j, "name")
    /\ UNCHANGED <<zone, edits, started, names, attempt, snapshot, disturbed>>

\* The loop goes on, or publishOnce and Publish return nil.
NextName(j) ==
    IF todo[j] = {at[j]}
    THEN Return(j, "ok")
    ELSE /\ EnterName(j, todo[j] \ {at[j]})
         /\ UNCHANGED <<pc, attempt, snapshot>>

\* continue: the name has an unmanaged record or the right one.
SkipName(j) ==
    /\ pc[j] = "name"
    /\ left[j] = {}
    /\ Skips(j)
    /\ NextName(j)
    /\ UNCHANGED <<zone, edits, started, names, disturbed>>

\* A mutant of AddRecord: the snapshot is not searched for unmanaged records.
AddRecordBlindly(j) ==
    /\ pc[j] = "name"
    /\ left[j] = {}
    /\ ~AlreadyRight(j, at[j])
    /\ zone' = Add(zone, at[j])
    /\ NextName(j) \/ Failed(j)
    /\ UNCHANGED <<edits, started, names, disturbed>>

AddRecord(j) ==
    /\ pc[j] = "name"
    /\ left[j] = {}
    /\ ~Skips(j)
    /\ zone' = Add(zone, at[j])
    /\ NextName(j) \/ Failed(j)
    /\ UNCHANGED <<edits, started, names, disturbed>>

-----------------------------------------------------------------------------
\* Somebody else adds an unmanaged record, or makes a record unmanaged (name,
\* type and value are the key of a record), or removes a record.
Edit ==
    /\ edits < MaxEdits
    /\ edits' = edits + 1
    /\ \/ \E r \in Records : /\ ~r.managed
                             /\ r.type = RecordType
                             /\ zone' = Delete(zone, r) \cup {r}
       \/ \E r \in zone : zone' = zone \ {r}
    /\ disturbed' = disturbed \cup Running
    /\ UNCHANGED <<started, pc, names, attempt, snapshot, left, todo, at>>

Step(j) ==
    \/ CallFails(j) \/ CallRefused(j) \/ Retry(j) \/ TimeOut(j)
    \/ GetZoneRecords(j) \/ DeleteRecord(j) \/ BeginNames(j)
    \/ SkipName(j) \/ AddRecord(j)

Next ==
    \/ \E ns \in NameSets : Publish(ns)
    \/ \E j \in Jobs : Step(j)
    \/ Edit

Spec == Init /\ [][Next]_vars

\* Every API call ends (client.Timeout) and every delay is over in the end.
FairSpec == Spec /\ \A j \in Jobs : WF_vars(Step(j))

-----------------------------------------------------------------------------
(* Properties.                                                             *)

\* A name of a call is written in another way than the server writes it.
Respelled(j, n) == \E x \in names[j] : x # n /\ Normal(x) = n

\* Publishing never deletes or overwrites a record that somebody else made and
\* that the call found in the zone, in any interleaving of calls, edits, errors
\* and retries.  (What is put there after getZoneRecords it does not see.)
\* Excepted are records whose name a Caddyfile writes in another way: publishOnce
\* does not find "app" under "App", and the server overwrites it.
UnmanagedKept ==
    [][\A j \in Jobs : Step(j) =>
          {r \in zone \cap snapshot[j] : ~r.managed /\ ~Respelled(j, r.name)}
              \subseteq zone']_vars

\* What a successful call promises: every name of the zone has its record,
\* unless somebody else's record stands in its place, and no managed record
\* of another name, another type or another value is left.
Exact(desired, records) ==
    LET foreign(n) == \E r \in records : /\ r.name = n
                                         /\ r.type = RecordType
                                         /\ ~r.managed
    IN  /\ \A n \in desired :
              \/ foreign(n)
              \/ [name |-> n, type |-> RecordType, value |-> RecordValue,
                  managed |-> TRUE] \in records
        /\ \A r \in Managed(Supported(records)) :
              /\ r.name \in desired
              /\ \/ foreign(r.name)
                 \/ r.type = RecordType /\ r.value = RecordValue

\* The names of a call are written as the server writes them.
InNormalForm(j) == \A n \in names[j] : Normal(n) = n

\* A call that succeeds, be it after attempts that failed half way, leaves the
\* zone exactly as desired, if no other call and no edit got in its way, and its
\* names are in normal form.
SuccessIsExact ==
    [][\A j \in Jobs \ disturbed :
          InNormalForm(j) /\ pc[j] \in Active /\ pc'[j] = "ok" =>
              Exact(names[j], zone')]_vars

\* Every call of Publish returns: retries are bounded.
PublishReturns == \A j \in Jobs : (pc[j] \in Active) ~> (pc[j] \notin Active)
=============================================================================
