-------------------------- MODULE TechnitiumProofs --------------------------
(***************************************************************************)
(* Proofs about the Technitium publisher, for any number of calls that run *)
(* at the same time, any zone and any number of retries and edits.         *)
(***************************************************************************)
EXTENDS Technitium, TLAPS

-----------------------------------------------------------------------------
(* The inductive invariant.                                                *)

\* The zone and what the calls have read of it are well formed.
KeptOnce == /\ WellFormed(zone)
            /\ \A j \in Jobs : WellFormed(snapshot[j])

\* What a call still has to delete, it has found in its snapshot, and it is at
\* a name that it has not finished.
Aimed(j) ==
    /\ pc[j] = "purge" => left[j] \subseteq Undesired(j, snapshot[j])
    /\ pc[j] = "name" => /\ at[j] \in todo[j]
                         /\ todo[j] \subseteq names[j]
                         /\ left[j] \subseteq ToReplace(j, at[j])

Aims == \A j \in Jobs : Aimed(j)

Guarded == TypeOK /\ KeptOnce /\ Aims

\* Calls that have not been made have not begun.
Future == \A j \in Jobs : j > started => pc[j] = "idle"

\* The record that a name is to have.
Goal(n) == [name |-> n, type |-> RecordType, value |-> RecordValue,
            managed |-> TRUE]

\* A name is done: somebody else's record stands in its place, or it has its
\* record and no other managed one.
Settled(j, n, records) ==
    \/ HasUnmanaged(j, n)
    \/ /\ Goal(n) \in records
       /\ \A r \in Managed(Supported(records)) : r.name = n => r = Goal(n)

\* In the loop over the names, the zone is the snapshot without the records of
\* names that are not desired, as far as the loop has not changed it ...
Untouched(j, records) ==
    /\ \A r \in Records :
          ~r.managed => (r \in records <=> r \in snapshot[j])
    /\ \A r \in Managed(Supported(records)) :
          /\ r.name \in names[j]
          /\ r \in snapshot[j] \/ r = Goal(r.name)
    /\ \A n \in names[j] : Goal(n) \in snapshot[j] => Goal(n) \in records

\* ... and the names it has finished are done.
Finished(j) == \A n \in names[j] \ todo[j] : Settled(j, n, zone)

\* The zone in which nothing but this call has changed anything.
Followed(j) ==
    /\ \A i \in Jobs \ {j} : pc[i] \notin Active
    /\ pc[j] = "purge" =>
          zone = snapshot[j] \ (Undesired(j, snapshot[j]) \ left[j])
    /\ pc[j] = "name" => /\ Untouched(j, zone)
                         /\ Finished(j)
                         /\ (ToReplace(j, at[j]) \ left[j]) \cap zone = {}

Undisturbed == \A j \in Running \ disturbed : InNormalForm(j) => Followed(j)

-----------------------------------------------------------------------------
(* What the calls of the API do to well-formed records.                    *)

LEMMA DeleteKeepsWellFormed ==
    ASSUME NEW records \in SUBSET Records, WellFormed(records), NEW r
    PROVE  /\ Delete(records, r) \in SUBSET Records
           /\ Delete(records, r) \subseteq records
           /\ WellFormed(Delete(records, r))
<1>1. Delete(records, r) \subseteq records
    BY DEF Delete
<1> QED
    BY <1>1 DEF WellFormed

LEMMA GoalIsRecord ==
    ASSUME NEW n \in Names, Normal(n) = n
    PROVE  /\ Goal(n) \in Records
           /\ Goal(n).name = n /\ Goal(n).type = RecordType
           /\ Goal(n).value = RecordValue /\ Goal(n).managed
    BY RecordAssumption DEF Goal, Records, Types

LEMMA AddKeepsWellFormed ==
    ASSUME NEW records \in SUBSET Records, WellFormed(records), NEW n \in Names
    PROVE  /\ Add(records, n) \in SUBSET Records
           /\ WellFormed(Add(records, n))
<1> DEFINE m == Normal(n)
<1>1. Goal(m) \in Records /\ Goal(m).name = m /\ Goal(m).type = RecordType
    BY NormalAssumption, GoalIsRecord
<1>2. Add(records, n) = {x \in records : ~(x.name = m /\ x.type = RecordType)}
                            \cup {Goal(m)}
    BY DEF Add, Goal
<1>3. ASSUME NEW x \in Add(records, n), NEW y \in Add(records, n),
             x.name = y.name, x.type = y.type,
             x.value = y.value \/ (x.managed /\ y.managed)
      PROVE  x = y
    <2>1. CASE x = Goal(m) \/ y = Goal(m)
        BY <1>1, <1>2, <1>3, <2>1
    <2>2. CASE x # Goal(m) /\ y # Goal(m)
        BY <1>2, <1>3, <2>2 DEF WellFormed
    <2> QED
        BY <2>1, <2>2
<1>4. WellFormed(Add(records, n))
    BY <1>3 DEF WellFormed
<1> QED
    BY <1>1, <1>2, <1>4

\* A managed record and somebody else's are never the same to the server.
LEMMA ManagedApart ==
    ASSUME NEW records \in SUBSET Records, WellFormed(records),
           NEW r \in records, r.managed, NEW x \in records, ~x.managed
    PROVE  ~(x.name = r.name /\ x.type = r.type /\ x.value = r.value)
    BY DEF WellFormed

-----------------------------------------------------------------------------
(* Types and aims.                                                         *)

\* publishOnce is over: its local variables are gone.
Ends(j) ==
    /\ \E x \in {"ok", "failed", "sleep"} : pc' = [pc EXCEPT ![j] = x]
    /\ attempt' \in [Jobs -> 0 .. MaxAttempts - 1]
    /\ snapshot' = [snapshot EXCEPT ![j] = {}]
    /\ left' = [left EXCEPT ![j] = {}]
    /\ todo' = [todo EXCEPT ![j] = {}]
    /\ at' = [at EXCEPT ![j] = NoName]

LEMMA ReturnEnds ==
    ASSUME TypeOK, NEW j \in Jobs, NEW x \in {"ok", "failed"}, Return(j, x)
    PROVE  Ends(j)
<1>1. 0 \in 0 .. MaxAttempts - 1
    BY BoundsAssumption
<1>2. attempt \in [Jobs -> 0 .. MaxAttempts - 1]
    BY DEF TypeOK
<1> QED
    BY <1>1, <1>2 DEF Return, Goto, Ends

LEMMA FailedEnds ==
    ASSUME TypeOK, NEW j \in Jobs, Failed(j)
    PROVE  Ends(j)
<1>1. CASE attempt[j] + 1 = MaxAttempts
    BY <1>1, ReturnEnds DEF Failed
<1>2. CASE attempt[j] + 1 # MaxAttempts
    <2>1. attempt \in [Jobs -> 0 .. MaxAttempts - 1]
        BY DEF TypeOK
    <2>2. attempt[j] + 1 \in 0 .. MaxAttempts - 1
        <3>1. attempt[j] \in 0 .. MaxAttempts - 1
            BY <2>1
        <3> QED
            BY <1>2, <3>1, BoundsAssumption
    <2> QED
        BY <1>2, <2>1, <2>2 DEF Failed, Goto, Ends
<1> QED
    BY <1>1, <1>2

\* What a call decides depends on its own snapshot and names alone.
LEMMA AimStays ==
    ASSUME NEW j \in Jobs, Aimed(j),
           pc'[j] = pc[j], names'[j] = names[j], snapshot'[j] = snapshot[j],
           todo'[j] = todo[j], at'[j] = at[j], left'[j] \subseteq left[j]
    PROVE  Aimed(j)'
<1>1. Undesired(j, snapshot[j])' = Undesired(j, snapshot[j])
    BY DEF Undesired
<1>2. ToReplace(j, at[j])' = ToReplace(j, at[j])
    BY DEF ToReplace, HasUnmanaged, AlreadyRight, OfName
<1> QED
    BY <1>1, <1>2 DEF Aimed

LEMMA GuardedInit == Init => Guarded
<1> SUFFICES ASSUME Init PROVE Guarded
    OBVIOUS
<1> USE BoundsAssumption, RecordAssumption DEF Init
<1>1. TypeOK
    <2>1. 0 \in 0 .. MaxEdits /\ 0 \in 0 .. MaxJobs /\ 0 \in 0 .. MaxAttempts - 1
        BY BoundsAssumption
    <2>2. zone \in SUBSET Records
        BY RecordAssumption
    <2> QED
        BY <2>1, <2>2 DEF TypeOK, Phases
<1>2. KeptOnce
    BY DEF KeptOnce, WellFormed
<1>3. Aims
    BY DEF Aims, Aimed
<1> QED
    BY <1>1, <1>2, <1>3 DEF Guarded

LEMMA GuardedInductive == Guarded /\ [Next]_vars => Guarded'
<1> SUFFICES ASSUME Guarded, [Next]_vars PROVE Guarded'
    OBVIOUS
<1> USE DEF Guarded
<1>1. /\ zone \in SUBSET Records
      /\ edits \in 0 .. MaxEdits
      /\ started \in 0 .. MaxJobs
      /\ pc \in [Jobs -> Phases]
      /\ names \in [Jobs -> SUBSET NamesInZone]
      /\ attempt \in [Jobs -> 0 .. MaxAttempts - 1]
      /\ snapshot \in [Jobs -> SUBSET Records]
      /\ left \in [Jobs -> SUBSET Records]
      /\ todo \in [Jobs -> SUBSET NamesInZone]
      /\ at \in [Jobs -> NamesInZone \cup {NoName}]
      /\ disturbed \subseteq Jobs
    BY DEF TypeOK
<1>2. WellFormed(zone) /\ \A j \in Jobs : WellFormed(snapshot[j])
    BY DEF KeptOnce
<1>3. \A j \in Jobs : Aimed(j)
    BY DEF Aims
<1>4. WellFormed({})
    BY DEF WellFormed
<1>5. ASSUME NEW ns \in NameSets, Publish(ns) PROVE Guarded'
    <2> DEFINE j == started + 1
    <2>1. j \in Jobs /\ started' = j /\ j \in 0 .. MaxJobs
        BY <1>1, <1>5, BoundsAssumption DEF Publish, Jobs
    <2>2. FilterNamesForZone(ns) \subseteq NamesInZone
        BY SetsAssumption DEF FilterNamesForZone, NamesInZone
    <2>3. PICK x \in {"ok", "get"} : pc' = [pc EXCEPT ![j] = x]
        BY <1>5 DEF Publish, Goto
    <2>4. /\ names' \in [Jobs -> SUBSET NamesInZone]
          /\ \A i \in Jobs \ {j} : names'[i] = names[i]
        BY <1>1, <1>5, <2>1, <2>2 DEF Publish
    <2>5. disturbed' \subseteq Jobs
        BY <1>1, <1>5, <2>1 DEF Publish, Running
    <2>6. UNCHANGED <<zone, edits, attempt, snapshot, left, todo, at>>
        BY <1>5 DEF Publish
    <2>7. pc' \in [Jobs -> Phases]
        BY <1>1, <2>1, <2>3 DEF Phases, Active
    <2>8. TypeOK'
        BY <1>1, <2>1, <2>4, <2>5, <2>6, <2>7 DEF TypeOK
    <2>9. KeptOnce'
        BY <1>2, <2>6 DEF KeptOnce
    <2>10. \A i \in Jobs : Aimed(i)'
        <3> TAKE i \in Jobs
        <3>1. CASE i = j
            <4>1. pc'[i] \in {"ok", "get"}
                BY <1>1, <2>1, <2>3, <3>1
            <4> QED
                BY <4>1 DEF Aimed
        <3>2. CASE i # j
            <4>1. pc'[i] = pc[i] /\ names'[i] = names[i]
                BY <1>1, <2>1, <2>3, <2>4, <3>2
            <4> QED
                BY <1>3, <2>6, <4>1, AimStays
        <3> QED
            BY <3>1, <3>2
    <2> QED
        BY <2>8, <2>9, <2>10 DEF Aims
<1>6. ASSUME NEW j \in Jobs, Ends(j), zone' \in SUBSET Records, WellFormed(zone'),
             UNCHANGED <<edits, started, names, disturbed>>
      PROVE  Guarded'
    <2>1. PICK x \in {"ok", "failed", "sleep"} : pc' = [pc EXCEPT ![j] = x]
        BY <1>6 DEF Ends
    <2>2. /\ snapshot' = [snapshot EXCEPT ![j] = {}]
          /\ left' = [left EXCEPT ![j] = {}]
          /\ todo' = [todo EXCEPT ![j] = {}]
          /\ at' = [at EXCEPT ![j] = NoName]
          /\ attempt' \in [Jobs -> 0 .. MaxAttempts - 1]
        BY <1>6 DEF Ends
    <2>3. pc' \in [Jobs -> Phases]
        BY <1>1, <2>1 DEF Phases, Active
    <2>4. TypeOK'
        BY <1>1, <1>6, <2>2, <2>3 DEF TypeOK
    <2>5. KeptOnce'
        BY <1>1, <1>2, <1>4, <1>6, <2>2 DEF KeptOnce
    <2>6. \A i \in Jobs : Aimed(i)'
        <3> TAKE i \in Jobs
        <3>1. CASE i = j
            <4>1. pc'[i] \in {"ok", "failed", "sleep"}
                BY <1>1, <2>1, <3>1
            <4> QED
                BY <4>1 DEF Aimed
        <3>2. CASE i # j
            <4>1. /\ pc'[i] = pc[i] /\ names'[i] = names[i] /\ left'[i] = left[i]
                  /\ snapshot'[i] = snapshot[i] /\ todo'[i] = todo[i]
                  /\ at'[i] = at[i]
                BY <1>1, <1>6, <2>1, <2>2, <3>2
            <4> QED
                BY <1>3, <4>1, AimStays
        <3> QED
            BY <3>1, <3>2
    <2> QED
        BY <2>4, <2>5, <2>6 DEF Aims
<1>7. ASSUME NEW j \in Jobs, zone' \in SUBSET Records, WellFormed(zone'),
             UNCHANGED <<edits, started, names, attempt, disturbed>>,
             NEW x \in Active, pc' = [pc EXCEPT ![j] = x],
             snapshot' \in [Jobs -> SUBSET Records], WellFormed(snapshot'[j]),
             left' \in [Jobs -> SUBSET Records],
             todo' \in [Jobs -> SUBSET NamesInZone],
             at' \in [Jobs -> NamesInZone \cup {NoName}],
             \A i \in Jobs \ {j} :
                 /\ snapshot'[i] = snapshot[i] /\ left'[i] = left[i]
                 /\ todo'[i] = todo[i] /\ at'[i] = at[i],
             Aimed(j)'
      PROVE  Guarded'
    <2>1. pc' \in [Jobs -> Phases]
        BY <1>1, <1>7 DEF Phases
    <2>2. TypeOK'
        BY <1>1, <1>7, <2>1 DEF TypeOK
    <2>3. KeptOnce'
        BY <1>2, <1>7 DEF KeptOnce
    <2>4. \A i \in Jobs : Aimed(i)'
        <3> TAKE i \in Jobs
        <3>1. CASE i = j
            BY <1>7, <3>1
        <3>2. CASE i # j
            <4>1. /\ pc'[i] = pc[i] /\ names'[i] = names[i] /\ left'[i] = left[i]
                  /\ snapshot'[i] = snapshot[i] /\ todo'[i] = todo[i]
                  /\ at'[i] = at[i]
                BY <1>1, <1>7, <3>2
            <4> QED
                BY <1>3, <4>1, AimStays
        <3> QED
            BY <3>1, <3>2
    <2> QED
        BY <2>2, <2>3, <2>4 DEF Aims
<1>8. ASSUME NEW j \in Jobs, zone' \in SUBSET Records, WellFormed(zone'),
             UNCHANGED <<edits, started, names, attempt, snapshot, disturbed>>,
             pc' = [pc EXCEPT ![j] = "name"],
             NEW rest \in SUBSET names[j], EnterName(j, rest)
      PROVE  Guarded'
    <2>1. PICK n \in rest : /\ todo' = [todo EXCEPT ![j] = rest]
                            /\ at' = [at EXCEPT ![j] = n]
                            /\ left' = [left EXCEPT ![j] = ToReplace(j, n)]
        BY <1>8 DEF EnterName
    <2>2. rest \subseteq NamesInZone /\ n \in NamesInZone
        BY <1>1
    <2>3. ToReplace(j, n) \subseteq snapshot[j] /\ snapshot[j] \subseteq Records
        BY <1>1 DEF ToReplace, Managed, OfName, Supported
    <2>4. /\ todo' \in [Jobs -> SUBSET NamesInZone]
          /\ at' \in [Jobs -> NamesInZone \cup {NoName}]
          /\ left' \in [Jobs -> SUBSET Records]
        BY <1>1, <2>1, <2>2, <2>3
    <2>5. \A i \in Jobs \ {j} : /\ snapshot'[i] = snapshot[i] /\ left'[i] = left[i]
                                /\ todo'[i] = todo[i] /\ at'[i] = at[i]
        BY <1>1, <1>8, <2>1
    <2>6. /\ pc'[j] = "name" /\ todo'[j] = rest /\ at'[j] = n
          /\ left'[j] = ToReplace(j, n) /\ names'[j] = names[j]
          /\ snapshot' = snapshot
        BY <1>1, <1>8, <2>1
    <2>7. \A i \in Jobs : \A y : ToReplace(i, y)' = ToReplace(i, y)
        BY <2>6 DEF ToReplace, HasUnmanaged, AlreadyRight, OfName
    <2>8. Aimed(j)'
        BY <2>1, <2>6, <2>7 DEF Aimed
    <2>9. "name" \in Active
        BY DEF Active
    <2> QED
        BY <1>1, <1>2, <1>7, <1>8, <2>4, <2>5, <2>6, <2>8, <2>9
<1>9. ASSUME NEW j \in Jobs, pc[j] = "name", zone' \in SUBSET Records,
             WellFormed(zone'), NextName(j),
             UNCHANGED <<edits, started, names, disturbed>>
      PROVE  Guarded'
    <2>1. CASE todo[j] = {at[j]}
        BY <1>6, <1>9, <2>1, ReturnEnds DEF NextName
    <2>2. CASE todo[j] # {at[j]}
        <3>1. todo[j] \ {at[j]} \in SUBSET names[j]
            BY <1>3, <1>9 DEF Aimed
        <3>2. pc' = [pc EXCEPT ![j] = "name"]
            BY <1>1, <1>9, <2>2 DEF NextName
        <3>3. /\ EnterName(j, todo[j] \ {at[j]})
              /\ UNCHANGED <<attempt, snapshot>>
            BY <1>9, <2>2 DEF NextName
        <3> QED
            BY <1>8, <1>9, <3>1, <3>2, <3>3
    <2> QED
        BY <2>1, <2>2
<1>10. ASSUME NEW j \in Jobs, CallFails(j) PROVE Guarded'
    BY <1>1, <1>2, <1>6, <1>10, FailedEnds DEF CallFails
<1>11. ASSUME NEW j \in Jobs, CallRefused(j) PROVE Guarded'
    BY <1>1, <1>2, <1>6, <1>11, ReturnEnds DEF CallRefused
<1>12. ASSUME NEW j \in Jobs, Retry(j) PROVE Guarded'
    <2>1. pc'[j] = "get"
        BY <1>1, <1>12 DEF Retry, Goto
    <2>2. Aimed(j)'
        BY <2>1 DEF Aimed
    <2>3. "get" \in Active
        BY DEF Active
    <2> QED
        BY <1>1, <1>2, <1>7, <1>12, <2>2, <2>3 DEF Retry, Goto
<1>13. ASSUME NEW j \in Jobs, TimeOut(j) PROVE Guarded'
    BY <1>1, <1>2, <1>6, <1>13, ReturnEnds DEF TimeOut
<1>14. ASSUME NEW j \in Jobs, GetZoneRecords(j) PROVE Guarded'
    <2>1. /\ snapshot' = [snapshot EXCEPT ![j] = zone]
          /\ left' = [left EXCEPT ![j] = Undesired(j, zone)]
          /\ pc' = [pc EXCEPT ![j] = "purge"]
          /\ UNCHANGED <<zone, edits, started, names, attempt, todo, at, disturbed>>
        BY <1>14 DEF GetZoneRecords, Goto
    <2>2. Undesired(j, zone) \subseteq zone
        BY DEF Undesired, Supported
    <2>3. /\ snapshot' \in [Jobs -> SUBSET Records]
          /\ left' \in [Jobs -> SUBSET Records]
          /\ snapshot'[j] = zone
          /\ \A i \in Jobs \ {j} : snapshot'[i] = snapshot[i] /\ left'[i] = left[i]
        BY <1>1, <2>1, <2>2
    <2>4. Aimed(j)'
        BY <1>1, <2>1, <2>3 DEF Aimed, Undesired
    <2>5. "purge" \in Active
        BY DEF Active
    <2> QED
        BY <1>1, <1>2, <1>7, <2>1, <2>3, <2>4, <2>5
<1>15. ASSUME NEW j \in Jobs, DeleteRecord(j) PROVE Guarded'
    <2>1. PICK r \in left[j] :
             /\ zone' = Delete(zone, r)
             /\ \/ /\ left' = [left EXCEPT ![j] = @ \ {r}]
                   /\ UNCHANGED <<pc, attempt, snapshot, todo, at>>
                \/ Failed(j)
        BY <1>15 DEF DeleteRecord
    <2>2. zone' \in SUBSET Records /\ WellFormed(zone')
        BY <1>1, <1>2, <2>1, DeleteKeepsWellFormed
    <2>3. UNCHANGED <<edits, started, names, disturbed>> /\ pc[j] \in {"purge", "name"}
        BY <1>15 DEF DeleteRecord
    <2>4. CASE Failed(j)
        BY <1>6, <2>2, <2>3, <2>4, FailedEnds
    <2>5. CASE /\ left' = [left EXCEPT ![j] = @ \ {r}]
               /\ UNCHANGED <<pc, attempt, snapshot, todo, at>>
        <3>1. /\ left' \in [Jobs -> SUBSET Records]
              /\ left'[j] \subseteq left[j]
              /\ \A i \in Jobs \ {j} : left'[i] = left[i]
            BY <1>1, <2>5
        <3>2. Aimed(j)
            BY <1>3
        <3>3. Aimed(j)'
            BY <2>3, <2>5, <3>1, <3>2, AimStays
        <3>4. pc' = [pc EXCEPT ![j] = pc[j]] /\ pc[j] \in Active
            BY <1>1, <2>3, <2>5 DEF Active
        <3> QED
            BY <1>1, <1>2, <1>7, <2>2, <2>3, <2>5, <3>1, <3>3, <3>4
    <2> QED
        BY <2>1, <2>4, <2>5
<1>16. ASSUME NEW j \in Jobs, BeginNames(j) PROVE Guarded'
    BY <1>1, <1>2, <1>8, <1>16 DEF BeginNames, Goto
<1>17. ASSUME NEW j \in Jobs, SkipName(j) PROVE Guarded'
    BY <1>1, <1>2, <1>9, <1>17 DEF SkipName
<1>18. ASSUME NEW j \in Jobs, AddRecord(j) PROVE Guarded'
    <2>1. at[j] \in Names
        BY <1>1, <1>3, <1>18 DEF Aimed, AddRecord, NamesInZone, FilterNamesForZone
    <2>2. zone' \in SUBSET Records /\ WellFormed(zone')
        BY <1>1, <1>2, <1>18, <2>1, AddKeepsWellFormed DEF AddRecord
    <2> QED
        BY <1>6, <1>9, <1>18, <2>2, FailedEnds DEF AddRecord
<1>19. ASSUME Edit PROVE Guarded'
    <2>1. zone' \in SUBSET Records /\ WellFormed(zone')
        <3>1. CASE \E r \in zone : zone' = zone \ {r}
            BY <1>1, <1>2, <3>1 DEF WellFormed
        <3>2. ASSUME NEW r \in Records, ~r.managed, zone' = Delete(zone, r) \cup {r}
              PROVE  zone' \in SUBSET Records /\ WellFormed(zone')
            <4>1. /\ Delete(zone, r) \in SUBSET Records
                  /\ WellFormed(Delete(zone, r))
                BY <1>1, <1>2, DeleteKeepsWellFormed
            <4>2. \A x \in Delete(zone, r) :
                     ~(x.name = r.name /\ x.type = r.type /\ x.value = r.value)
                BY DEF Delete
            <4> QED
                BY <3>2, <4>1, <4>2 DEF WellFormed
        <3> QED
            BY <1>19, <3>1, <3>2 DEF Edit
    <2>2. edits' \in 0 .. MaxEdits
        BY <1>1, <1>19, BoundsAssumption DEF Edit
    <2>3. disturbed' \subseteq Jobs
        BY <1>1, <1>19 DEF Edit, Running
    <2>4. UNCHANGED <<started, pc, names, attempt, snapshot, left, todo, at>>
        BY <1>19 DEF Edit
    <2>5. TypeOK'
        BY <1>1, <2>1, <2>2, <2>3, <2>4 DEF TypeOK
    <2>6. KeptOnce'
        BY <1>2, <2>1, <2>4 DEF KeptOnce
    <2>7. Aims'
        BY <1>3, <2>4, AimStays DEF Aims
    <2> QED
        BY <2>5, <2>6, <2>7
<1>20. CASE UNCHANGED vars
    <2>1. TypeOK'
        BY <1>1, <1>20 DEF vars, TypeOK
    <2>2. KeptOnce'
        BY <1>2, <1>20 DEF vars, KeptOnce
    <2>3. Aims'
        BY <1>3, <1>20, AimStays DEF vars, Aims
    <2> QED
        BY <2>1, <2>2, <2>3
<1> QED
    BY <1>5, <1>10, <1>11, <1>12, <1>13, <1>14, <1>15, <1>16, <1>17, <1>18,
       <1>19, <1>20 DEF Next, Step

\* The variables have their types in every state of the publisher, whatever the
\* zone holds and however many calls, errors and edits there are.
THEOREM TypeCorrect == Spec => []TypeOK
<1>1. Guarded => TypeOK
    BY DEF Guarded
<1> QED
    BY <1>1, GuardedInit, GuardedInductive, PTL DEF Spec

-----------------------------------------------------------------------------
(* Records of others.                                                      *)

LEMMA LeftIsOurs ==
    ASSUME Guarded, NEW j \in Jobs, pc[j] \in {"purge", "name"}, NEW r \in left[j]
    PROVE  r \in snapshot[j] /\ r.managed
<1>1. Aimed(j)
    BY DEF Guarded, Aims
<1> QED
    BY <1>1 DEF Aimed, Undesired, ToReplace, OfName, Managed, Supported

\* Only DeleteRecord and AddRecord write to the zone.
LEMMA WritesOfStep ==
    ASSUME NEW j \in Jobs, Step(j)
    PROVE  \/ zone' = zone
           \/ /\ pc[j] \in {"purge", "name"}
              /\ \E r \in left[j] : zone' = Delete(zone, r)
           \/ pc[j] = "name" /\ ~Skips(j) /\ zone' = Add(zone, at[j])
    BY DEF Step, CallFails, CallRefused, Retry, TimeOut, GetZoneRecords,
           DeleteRecord, BeginNames, SkipName, AddRecord

LEMMA UnmanagedStays ==
    ASSUME Guarded, NEW j \in Jobs, Step(j),
           NEW x \in zone \cap snapshot[j], ~x.managed, ~Respelled(j, x.name)
    PROVE  x \in zone'
<1>1. /\ snapshot[j] \in SUBSET Records
      /\ WellFormed(snapshot[j])
    BY DEF Guarded, TypeOK, KeptOnce
<1>2. CASE zone' = zone
    BY <1>2
<1>3. ASSUME pc[j] \in {"purge", "name"}, NEW r \in left[j], zone' = Delete(zone, r)
      PROVE  x \in zone'
    <2>1. r \in snapshot[j] /\ r.managed
        BY <1>3, LeftIsOurs
    <2>2. ~(x.name = r.name /\ x.type = r.type /\ x.value = r.value)
        BY <1>1, <2>1, ManagedApart
    <2> QED
        BY <1>3, <2>2 DEF Delete
<1>4. CASE pc[j] = "name" /\ ~Skips(j) /\ zone' = Add(zone, at[j])
    <2>1. ~(x.name = at[j] /\ x.type = RecordType)
        BY <1>4, RecordAssumption
        DEF Skips, HasUnmanaged, SameType, OfName, Supported
    <2>2. at[j] \in names[j]
        BY <1>4 DEF Guarded, Aims, Aimed
    <2>3. x.name = Normal(at[j]) => x.name = at[j]
        BY <2>2 DEF Respelled
    <2> QED
        BY <1>4, <2>1, <2>3 DEF Add
<1> QED
    BY <1>2, <1>3, <1>4, WritesOfStep

\* Publishing never deletes or overwrites a record that somebody else made and
\* that the call found in the zone (publishOnce: hasUnmanaged, the comment of
\* the records it deletes), in any interleaving of calls, edits and errors, but
\* for records whose name the call has in another spelling.
THEOREM OthersRecordsAreKept == Spec => UnmanagedKept
<1>1. Guarded /\ [Next]_vars =>
         [\A j \in Jobs : Step(j) =>
             {r \in zone \cap snapshot[j] : ~r.managed /\ ~Respelled(j, r.name)}
                 \subseteq zone']_vars
    BY UnmanagedStays
<1> QED
    BY <1>1, GuardedInit, GuardedInductive, PTL DEF Spec, UnmanagedKept

-----------------------------------------------------------------------------
(* A call that nothing disturbs.                                           *)

\* The predicates of a call depend on its own variables and on the zone.
LEMMA FollowedStays ==
    ASSUME NEW j \in Jobs, Followed(j),
           zone' = zone, \A i \in Jobs \ {j} : pc'[i] \notin Active,
           pc'[j] = pc[j], names'[j] = names[j], snapshot'[j] = snapshot[j],
           todo'[j] = todo[j], at'[j] = at[j], left'[j] = left[j]
    PROVE  Followed(j)'
<1>1. Undesired(j, snapshot[j])' = Undesired(j, snapshot[j])
    BY DEF Undesired
<1>2. ToReplace(j, at[j])' = ToReplace(j, at[j])
    BY DEF ToReplace, HasUnmanaged, AlreadyRight, OfName
<1>3. Untouched(j, zone)' <=> Untouched(j, zone)
    BY DEF Untouched
<1>4. Finished(j)' <=> Finished(j)
    BY DEF Finished, Settled, HasUnmanaged, OfName
<1> QED
    BY <1>1, <1>2, <1>3, <1>4 DEF Followed

\* getZoneRecords has answered and every record of left is deleted in turn.
LEMMA PurgeLeavesDesired ==
    ASSUME Guarded, NEW j \in Jobs, pc[j] = "purge", left[j] = {}, Followed(j)
    PROVE  Untouched(j, zone)
<1>1. zone = snapshot[j] \ Undesired(j, snapshot[j])
    BY DEF Followed
<1>2. \A r \in Undesired(j, snapshot[j]) : r.managed
    BY DEF Undesired
<1>3. \A r \in Managed(Supported(zone)) : r.name \in names[j] /\ r \in snapshot[j]
    BY <1>1 DEF Managed, Supported, Undesired
<1>4. \A n \in names[j] : Goal(n) \notin Undesired(j, snapshot[j])
    BY DEF Goal, Undesired
<1> QED
    BY <1>1, <1>2, <1>3, <1>4 DEF Untouched

\* Deleting a managed record of the snapshot deletes that record alone.
LEMMA DeleteIsExact ==
    ASSUME NEW records \in SUBSET Records, NEW found \in SUBSET Records,
           WellFormed(found), NEW r \in found, r.managed,
           \A x \in records : ~x.managed => x \in found
    PROVE  Delete(records, r) = records \ {r}
<1>1. ASSUME NEW x \in records, x.name = r.name, x.type = r.type, x.value = r.value
      PROVE  x = r
    <2>1. x.managed
        BY <1>1, ManagedApart
    <2> QED
        BY <1>1, <2>1 DEF Records
<1> QED
    BY <1>1 DEF Delete

LEMMA DeleteFollowed ==
    ASSUME Guarded, NEW j \in Jobs, pc[j] \in {"purge", "name"}, Followed(j),
           NEW r \in left[j], zone' = Delete(zone, r),
           left'[j] = left[j] \ {r}, UNCHANGED <<pc, names, snapshot, todo, at>>
    PROVE  Followed(j)'
<1>1. /\ zone \in SUBSET Records /\ snapshot[j] \in SUBSET Records
      /\ WellFormed(snapshot[j])
      /\ Aimed(j)
    BY DEF Guarded, TypeOK, KeptOnce, Aims
<1>2. r \in snapshot[j] /\ r.managed
    BY LeftIsOurs
<1>3. \A i \in Jobs \ {j} : pc'[i] \notin Active
    BY DEF Followed
<1>4. CASE pc[j] = "purge"
    <2>1. /\ zone = snapshot[j] \ (Undesired(j, snapshot[j]) \ left[j])
          /\ left[j] \subseteq Undesired(j, snapshot[j])
        BY <1>1, <1>4 DEF Followed, Aimed
    <2>2. zone' = zone \ {r}
        BY <1>1, <1>2, <2>1, DeleteIsExact
    <2>3. zone' = snapshot[j] \ (Undesired(j, snapshot[j]) \ left'[j])
        BY <2>1, <2>2
    <2>4. Undesired(j, snapshot[j])' = Undesired(j, snapshot[j])
        BY DEF Undesired
    <2> QED
        BY <1>3, <1>4, <2>3, <2>4 DEF Followed
<1>5. CASE pc[j] = "name"
    <2>1. /\ Untouched(j, zone) /\ Finished(j)
          /\ (ToReplace(j, at[j]) \ left[j]) \cap zone = {}
          /\ r \in ToReplace(j, at[j]) /\ at[j] \in todo[j]
        BY <1>1, <1>5 DEF Followed, Aimed
    <2>2. zone' = zone \ {r}
        BY <1>1, <1>2, <2>1, DeleteIsExact DEF Untouched
    <2>3. \A n \in names[j] : Goal(n) \in snapshot[j] => Goal(n) # r
        BY <2>1 DEF ToReplace, AlreadyRight, Managed, SameType, OfName, Goal
    <2>4. Untouched(j, zone)'
        BY <1>2, <2>1, <2>2, <2>3 DEF Untouched, Managed, Supported
    <2>5. r.name = at[j]
        BY <2>1 DEF ToReplace, Managed, OfName
    <2>6. Finished(j)'
        <3>1. ASSUME NEW n \in names[j] \ todo[j], ~HasUnmanaged(j, n)
              PROVE  /\ Goal(n) \in zone \ {r}
                     /\ \A x \in Managed(Supported(zone \ {r})) :
                           x.name = n => x = Goal(n)
            <4>1. n # at[j]
                BY <2>1
            <4>2. Goal(n) # r
                BY <2>5, <4>1 DEF Goal
            <4> QED
                BY <2>1, <3>1, <4>2 DEF Finished, Settled, Managed, Supported
        <3>2. \A n : HasUnmanaged(j, n)' <=> HasUnmanaged(j, n)
            BY DEF HasUnmanaged, OfName
        <3> QED
            BY <2>2, <3>1, <3>2 DEF Finished, Settled
    <2>7. ToReplace(j, at[j])' = ToReplace(j, at[j])
        BY DEF ToReplace, HasUnmanaged, AlreadyRight, OfName
    <2>8. (ToReplace(j, at[j]) \ left'[j]) \cap zone' = {}
        BY <2>1, <2>2
    <2> QED
        BY <1>3, <1>5, <2>4, <2>6, <2>7, <2>8 DEF Followed
<1> QED
    BY <1>4, <1>5

\* continue is right: the name that is skipped is done.
LEMMA SkippedIsSettled ==
    ASSUME Guarded, NEW j \in Jobs, pc[j] = "name", left[j] = {}, Followed(j),
           Skips(j)
    PROVE  Settled(j, at[j], zone)
<1> DEFINE n == at[j]
<1>1. CASE HasUnmanaged(j, n)
    BY <1>1 DEF Settled
<1>2. CASE ~HasUnmanaged(j, n)
    <2>1. /\ Untouched(j, zone) /\ ToReplace(j, n) \cap zone = {}
          /\ snapshot[j] \in SUBSET Records /\ WellFormed(snapshot[j])
          /\ n \in names[j]
        BY DEF Followed, Guarded, TypeOK, KeptOnce, Aims, Aimed
    <2>2. PICK g \in Managed(SameType(OfName(j, n))) : g.value = RecordValue
        BY <1>2 DEF Skips, AlreadyRight
    <2>3. /\ g \in snapshot[j] /\ g.name = n /\ g.type = RecordType /\ g.managed
          /\ AlreadyRight(j, n)
        BY <2>2 DEF Managed, SameType, OfName, Supported, AlreadyRight
    <2>4. g = Goal(n)
        BY <2>1, <2>2, <2>3 DEF Records, Goal
    <2>5. Goal(n) \in zone
        BY <2>1, <2>3, <2>4 DEF Untouched
    <2>6. ASSUME NEW r \in Managed(Supported(zone)), r.name = n, r # Goal(n)
          PROVE  FALSE
        <3>1. r \in snapshot[j] /\ r.managed /\ r \in zone /\ r \in OfName(j, n)
            BY <2>1, <2>6 DEF Untouched, Managed, Supported, OfName
        <3>2. r.type # RecordType
            BY <2>1, <2>3, <2>4, <2>6, <3>1 DEF WellFormed
        <3>3. r \in ToReplace(j, n)
            BY <1>2, <3>1, <3>2 DEF ToReplace, Managed
        <3> QED
            BY <2>1, <3>1, <3>3
    <2> QED
        BY <2>5, <2>6 DEF Settled
<1> QED
    BY <1>1, <1>2

\* Adding the record of the name settles it and leaves the others alone.
LEMMA AddedIsSettled ==
    ASSUME Guarded, NEW j \in Jobs, pc[j] = "name", left[j] = {}, Followed(j),
           InNormalForm(j), ~Skips(j)
    PROVE  /\ Untouched(j, Add(zone, at[j]))
           /\ Settled(j, at[j], Add(zone, at[j]))
           /\ \A n \in names[j] \ todo[j] : Settled(j, n, Add(zone, at[j]))
<1> DEFINE m == at[j]
           Z == Add(zone, m)
<1>1. /\ Untouched(j, zone) /\ Finished(j) /\ ToReplace(j, m) \cap zone = {}
      /\ zone \in SUBSET Records /\ snapshot[j] \in SUBSET Records
      /\ WellFormed(snapshot[j])
      /\ m \in names[j] /\ m \in todo[j] /\ names[j] \subseteq Names
      /\ \A n \in names[j] : Normal(n) = n
    BY DEF Followed, Guarded, TypeOK, KeptOnce, Aims, Aimed, InNormalForm,
           NamesInZone, FilterNamesForZone
<1>2. /\ Goal(m) \in Records /\ Goal(m).name = m /\ Goal(m).type = RecordType
      /\ Goal(m).managed
    BY <1>1, GoalIsRecord
<1>3. Z = {x \in zone : ~(x.name = m /\ x.type = RecordType)} \cup {Goal(m)}
    BY <1>1 DEF Add, Goal
<1>4. ~HasUnmanaged(j, m) /\ ~AlreadyRight(j, m)
    BY DEF Skips
<1>5. \A x \in snapshot[j] : ~x.managed => ~(x.name = m /\ x.type = RecordType)
    BY <1>4, RecordAssumption DEF HasUnmanaged, SameType, OfName, Supported
<1>6. Untouched(j, Z)
    <2>1. ASSUME NEW r \in Records, ~r.managed
          PROVE  r \in Z <=> r \in snapshot[j]
        BY <1>1, <1>2, <1>3, <1>5, <2>1 DEF Untouched
    <2>2. ASSUME NEW r \in Managed(Supported(Z))
          PROVE  r.name \in names[j] /\ (r \in snapshot[j] \/ r = Goal(r.name))
        <3>1. CASE r = Goal(m)
            BY <1>1, <1>2, <3>1
        <3>2. CASE r # Goal(m)
            <4>1. r \in Managed(Supported(zone))
                BY <1>3, <2>2, <3>2 DEF Managed, Supported
            <4> QED
                BY <1>1, <4>1 DEF Untouched
        <3> QED
            BY <3>1, <3>2
    <2>3. ASSUME NEW n \in names[j], Goal(n) \in snapshot[j]
          PROVE  Goal(n) \in Z
        <3>1. CASE n = m
            BY <1>3, <3>1
        <3>2. CASE n # m
            <4>1. Goal(n) \in zone /\ Goal(n).name = n
                BY <1>1, <2>3, GoalIsRecord DEF Untouched
            <4> QED
                BY <1>3, <3>2, <4>1
        <3> QED
            BY <3>1, <3>2
    <2> QED
        BY <2>1, <2>2, <2>3 DEF Untouched
<1>7. Settled(j, m, Z)
    <2>1. ASSUME NEW r \in Managed(Supported(Z)), r.name = m, r # Goal(m)
          PROVE  FALSE
        <3>1. r \in Managed(Supported(zone)) /\ r.type # RecordType
            BY <1>3, <2>1 DEF Managed, Supported
        <3>2. r \in zone /\ r.managed /\ r \in OfName(j, m)
            BY <1>1, <2>1, <3>1 DEF Untouched, Managed, Supported, OfName
        <3>3. r \in ToReplace(j, m)
            BY <1>4, <3>1, <3>2 DEF ToReplace, Managed
        <3> QED
            BY <1>1, <3>2, <3>3
    <2> QED
        BY <1>3, <2>1 DEF Settled
<1>8. ASSUME NEW n \in names[j] \ todo[j] PROVE Settled(j, n, Z)
    <2>1. Settled(j, n, zone) /\ n # m /\ n \in Names /\ Normal(n) = n
        BY <1>1, <1>8 DEF Finished
    <2>2. Goal(n).name = n
        BY <2>1, GoalIsRecord
    <2>3. \A r \in Managed(Supported(Z)) : r.name = n => r \in Managed(Supported(zone))
        BY <1>2, <1>3, <2>1 DEF Managed, Supported
    <2> QED
        BY <1>3, <2>1, <2>2, <2>3 DEF Settled
<1> QED
    BY <1>6, <1>7, <1>8

\* The loop goes on to another name or the call returns, with every name that
\* it has left behind done.
LEMMA NextNameFollowed ==
    ASSUME Guarded, NEW j \in Jobs, pc[j] = "name", Followed(j),
           NextName(j), UNCHANGED names,
           Untouched(j, zone'), Settled(j, at[j], zone'),
           \A n \in names[j] \ todo[j] : Settled(j, n, zone')
    PROVE  /\ \A i \in Jobs \ {j} : pc'[i] \notin Active
           /\ pc'[j] \in Active => Followed(j)'
           /\ pc'[j] = "ok" => /\ Untouched(j, zone')
                               /\ \A n \in names[j] : Settled(j, n, zone')
<1>1. /\ pc \in [Jobs -> Phases] /\ snapshot \in [Jobs -> SUBSET Records]
      /\ todo \in [Jobs -> SUBSET NamesInZone] /\ left \in [Jobs -> SUBSET Records]
      /\ at \in [Jobs -> NamesInZone \cup {NoName}]
    BY DEF Guarded, TypeOK
<1>2. \A i \in Jobs \ {j} : pc[i] \notin Active
    BY DEF Followed
<1>3. \A n \in names[j] \ (todo[j] \ {at[j]}) : Settled(j, n, zone')
    OBVIOUS
<1>4. CASE todo[j] = {at[j]}
    <2>1. pc' = [pc EXCEPT ![j] = "ok"]
        BY <1>4 DEF NextName, Return, Goto
    <2>2. pc'[j] = "ok" /\ \A i \in Jobs \ {j} : pc'[i] = pc[i]
        BY <1>1, <2>1
    <2> QED
        BY <1>2, <1>3, <1>4, <2>2 DEF Active
<1>5. CASE todo[j] # {at[j]}
    <2>1. UNCHANGED <<pc, attempt, snapshot>>
        BY <1>5 DEF NextName
    <2>2. PICK n \in todo[j] \ {at[j]} :
             /\ todo' = [todo EXCEPT ![j] = todo[j] \ {at[j]}]
             /\ at' = [at EXCEPT ![j] = n]
             /\ left' = [left EXCEPT ![j] = ToReplace(j, n)]
        BY <1>5 DEF NextName, EnterName
    <2>3. /\ todo'[j] = todo[j] \ {at[j]} /\ at'[j] = n
          /\ left'[j] = ToReplace(j, n)
        BY <1>1, <2>2
    <2>4. Untouched(j, zone)'
        BY <2>1 DEF Untouched
    <2>5. \A y : HasUnmanaged(j, y)' <=> HasUnmanaged(j, y)
        BY <2>1 DEF HasUnmanaged, OfName
    <2>6. Finished(j)'
        BY <1>3, <2>3, <2>5 DEF Finished, Settled
    <2>7. ToReplace(j, n)' = ToReplace(j, n)
        BY <2>1 DEF ToReplace, HasUnmanaged, AlreadyRight, OfName
    <2>8. Followed(j)'
        BY <1>2, <2>1, <2>3, <2>4, <2>6, <2>7 DEF Followed
    <2> QED
        BY <1>2, <2>1, <2>8
<1> QED
    BY <1>4, <1>5

\* A name of the loop that is skipped or gets its record.
LEMMA LoopFollowed ==
    ASSUME Guarded, NEW j \in Jobs, Followed(j), InNormalForm(j),
           SkipName(j) \/ AddRecord(j)
    PROVE  /\ pc'[j] \in Active => Followed(j)'
           /\ pc'[j] = "ok" => /\ Untouched(j, zone')
                               /\ \A n \in names[j] : Settled(j, n, zone')
<1>1. pc[j] = "name" /\ left[j] = {} /\ UNCHANGED names
    BY DEF SkipName, AddRecord
<1>2. Untouched(j, zone) /\ Finished(j)
    BY <1>1 DEF Followed
<1>3. CASE SkipName(j)
    <2>1. Skips(j) /\ zone' = zone /\ NextName(j)
        BY <1>3 DEF SkipName
    <2>2. Settled(j, at[j], zone)
        BY <1>1, <2>1, SkippedIsSettled
    <2>3. \A n \in names[j] \ todo[j] : Settled(j, n, zone')
        BY <1>2, <2>1 DEF Finished
    <2>4. Untouched(j, zone') /\ Settled(j, at[j], zone')
        BY <1>2, <2>1, <2>2
    <2> QED
        BY <1>1, <2>1, <2>3, <2>4, NextNameFollowed
<1>4. CASE AddRecord(j)
    <2>1. ~Skips(j) /\ zone' = Add(zone, at[j])
        BY <1>4 DEF AddRecord
    <2>2. /\ Untouched(j, zone') /\ Settled(j, at[j], zone')
          /\ \A n \in names[j] \ todo[j] : Settled(j, n, zone')
        BY <1>1, <2>1, AddedIsSettled
    <2>3. CASE NextName(j)
        BY <1>1, <2>2, <2>3, NextNameFollowed
    <2>4. CASE Failed(j)
        <3>1. PICK x \in {"ok", "failed", "sleep"} : pc' = [pc EXCEPT ![j] = x]
            BY <2>4, FailedEnds DEF Ends, Guarded
        <3>2. pc \in [Jobs -> Phases] /\ pc' = [pc EXCEPT ![j] = pc'[j]]
            BY <3>1 DEF Guarded, TypeOK
        <3>3. pc'[j] # "ok"
            BY <2>4, <3>2 DEF Failed, Return, Goto
        <3>4. pc'[j] \notin {"purge", "name"}
              /\ \A i \in Jobs \ {j} : pc'[i] = pc[i]
            BY <3>1, <3>2
        <3> QED
            BY <3>3, <3>4 DEF Followed
    <2> QED
        BY <1>4, <2>3, <2>4 DEF AddRecord
<1> QED
    BY <1>3, <1>4

\* A call comes to be in a phase where nothing is said about the zone.
LEMMA RestartFollowed ==
    ASSUME Guarded, NEW j \in Jobs, Followed(j),
           NEW x \in {"ok", "failed", "sleep", "get"}, pc' = [pc EXCEPT ![j] = x]
    PROVE  Followed(j)'
<1>1. pc \in [Jobs -> Phases]
    BY DEF Guarded, TypeOK
<1>2. pc'[j] \notin {"purge", "name"} /\ \A i \in Jobs \ {j} : pc'[i] = pc[i]
    BY <1>1
<1> QED
    BY <1>2 DEF Followed

LEMMA StepFollowed ==
    ASSUME Guarded, NEW j \in Jobs, Followed(j), InNormalForm(j), Step(j),
           pc'[j] \in Active
    PROVE  Followed(j)'
<1>1. /\ pc \in [Jobs -> Phases] /\ names \in [Jobs -> SUBSET NamesInZone]
      /\ snapshot \in [Jobs -> SUBSET Records]
      /\ todo \in [Jobs -> SUBSET NamesInZone] /\ left \in [Jobs -> SUBSET Records]
      /\ at \in [Jobs -> NamesInZone \cup {NoName}]
    BY DEF Guarded, TypeOK
<1>2. \A i \in Jobs \ {j} : pc[i] \notin Active
    BY DEF Followed
<1>3. ASSUME Ends(j) PROVE Followed(j)'
    BY <1>3, RestartFollowed DEF Ends
<1>4. CASE CallFails(j)
    BY <1>3, <1>4, FailedEnds DEF CallFails, Guarded
<1>5. CASE CallRefused(j)
    BY <1>3, <1>5, ReturnEnds DEF CallRefused, Guarded
<1>6. CASE Retry(j)
    BY <1>6, RestartFollowed DEF Retry, Goto
<1>7. CASE TimeOut(j)
    BY <1>3, <1>7, ReturnEnds DEF TimeOut, Guarded
<1>8. CASE GetZoneRecords(j)
    <2>1. /\ pc'[j] = "purge" /\ snapshot'[j] = zone /\ zone' = zone
          /\ left'[j] = Undesired(j, zone) /\ names' = names
          /\ \A i \in Jobs \ {j} : pc'[i] = pc[i]
        BY <1>1, <1>8 DEF GetZoneRecords, Goto
    <2>2. Undesired(j, snapshot[j])' = left'[j]
        BY <2>1 DEF Undesired
    <2> QED
        BY <1>2, <2>1, <2>2 DEF Followed
<1>9. CASE DeleteRecord(j)
    <2>1. PICK r \in left[j] :
             /\ zone' = Delete(zone, r)
             /\ \/ /\ left' = [left EXCEPT ![j] = @ \ {r}]
                   /\ UNCHANGED <<pc, attempt, snapshot, todo, at>>
                \/ Failed(j)
        BY <1>9 DEF DeleteRecord
    <2>2. CASE Failed(j)
        BY <1>3, <2>2, FailedEnds DEF Guarded
    <2>3. CASE /\ left' = [left EXCEPT ![j] = @ \ {r}]
               /\ UNCHANGED <<pc, attempt, snapshot, todo, at>>
        <3>1. left'[j] = left[j] \ {r}
            BY <1>1, <2>3
        <3>2. pc[j] \in {"purge", "name"} /\ names' = names
            BY <1>9 DEF DeleteRecord
        <3> QED
            BY <2>1, <2>3, <3>1, <3>2, DeleteFollowed
    <2> QED
        BY <2>1, <2>2, <2>3
<1>10. CASE BeginNames(j)
    <2>1. PICK n \in names[j] : /\ todo' = [todo EXCEPT ![j] = names[j]]
                                /\ at' = [at EXCEPT ![j] = n]
                                /\ left' = [left EXCEPT ![j] = ToReplace(j, n)]
        BY <1>10 DEF BeginNames, EnterName
    <2>2. /\ pc[j] = "purge" /\ left[j] = {} /\ pc' = [pc EXCEPT ![j] = "name"]
          /\ UNCHANGED <<zone, names, snapshot>>
        BY <1>10 DEF BeginNames, Goto
    <2>3. /\ todo'[j] = names'[j] /\ at'[j] = n /\ left'[j] = ToReplace(j, n)
          /\ pc'[j] = "name" /\ \A i \in Jobs \ {j} : pc'[i] = pc[i]
        BY <1>1, <2>1, <2>2
    <2>4. Untouched(j, zone)
        BY <2>2, PurgeLeavesDesired
    <2>5. Untouched(j, zone)'
        BY <2>2, <2>4 DEF Untouched
    <2>6. Finished(j)'
        BY <2>3 DEF Finished
    <2>7. ToReplace(j, n)' = ToReplace(j, n)
        BY <2>2 DEF ToReplace, HasUnmanaged, AlreadyRight, OfName
    <2> QED
        BY <1>2, <2>3, <2>5, <2>6, <2>7 DEF Followed
<1>11. CASE SkipName(j) \/ AddRecord(j)
    BY <1>11, LoopFollowed
<1> QED
    BY <1>4, <1>5, <1>6, <1>7, <1>8, <1>9, <1>10, <1>11 DEF Step

\* A step of one call moves that call only.
LEMMA StepOfOne ==
    ASSUME Guarded, NEW j \in Jobs, Step(j)
    PROVE  /\ pc[j] \in Active
           /\ \A i \in Jobs \ {j} : pc'[i] = pc[i]
           /\ UNCHANGED <<names, disturbed>>
<1>1. pc \in [Jobs -> Phases]
    BY DEF Guarded, TypeOK
<1>2. UNCHANGED <<names, disturbed>>
    BY DEF Step, CallFails, CallRefused, Retry, TimeOut, GetZoneRecords,
           DeleteRecord, BeginNames, SkipName, AddRecord
<1>3. pc[j] \in Active
    BY DEF Step, CallFails, CallRefused, Retry, TimeOut, GetZoneRecords,
           DeleteRecord, BeginNames, SkipName, AddRecord, Writes, Active
<1>4. pc' = pc \/ \E x : pc' = [pc EXCEPT ![j] = x]
    BY DEF Step, CallFails, CallRefused, Retry, TimeOut, GetZoneRecords,
           DeleteRecord, BeginNames, SkipName, AddRecord, NextName, Failed,
           Return, Goto
<1> QED
    BY <1>1, <1>2, <1>3, <1>4

LEMMA FutureInductive == Guarded /\ Future /\ [Next]_vars => Future'
<1> SUFFICES ASSUME Guarded, Future, [Next]_vars,
                    NEW j \in Jobs, j > started', pc'[j] # "idle"
             PROVE  FALSE
    BY DEF Future
<1>1. /\ pc \in [Jobs -> Phases] /\ started \in 0 .. MaxJobs
      /\ Jobs \subseteq Nat
    BY DEF Guarded, TypeOK, Jobs
<1>2. ASSUME NEW ns \in NameSets, Publish(ns) PROVE FALSE
    <2>1. started' = started + 1 /\ \E x : pc' = [pc EXCEPT ![started + 1] = x]
        BY <1>2 DEF Publish, Goto
    <2>2. j > started /\ j # started + 1
        BY <1>1, <2>1
    <2> QED
        BY <1>1, <2>1, <2>2 DEF Future
<1>3. ASSUME NEW i \in Jobs, Step(i) PROVE FALSE
    <2>1. started' = started
        BY <1>3 DEF Step, CallFails, CallRefused, Retry, TimeOut, GetZoneRecords,
                    DeleteRecord, BeginNames, SkipName, AddRecord
    <2>2. pc[i] \in Active /\ \A h \in Jobs \ {i} : pc'[h] = pc[h]
        BY <1>3, StepOfOne
    <2> QED
        BY <2>1, <2>2 DEF Future, Active
<1>4. CASE Edit \/ UNCHANGED vars
    BY <1>4 DEF Edit, vars, Future
<1> QED
    BY <1>2, <1>3, <1>4 DEF Next

LEMMA UndisturbedInductive ==
    Guarded /\ Undisturbed /\ [Next]_vars => Undisturbed'
<1> SUFFICES ASSUME Guarded, Undisturbed, [Next]_vars,
                    NEW j \in Jobs, pc'[j] \in Active, j \notin disturbed',
                    InNormalForm(j)'
             PROVE  Followed(j)'
    BY DEF Undisturbed, Running
<1>1. /\ pc \in [Jobs -> Phases] /\ started \in 0 .. MaxJobs
    BY DEF Guarded, TypeOK
<1>2. CASE \E ns \in NameSets : Publish(ns)
    <2>1. PICK ns \in NameSets : Publish(ns)
        BY <1>2
    <2>2. Running = {}
        <3>1. CASE Running # {}
            <4>1. /\ disturbed' = disturbed \cup Running \cup {started + 1}
                  /\ \E x : pc' = [pc EXCEPT ![started + 1] = x]
                BY <2>1, <3>1 DEF Publish, Goto
            <4>2. pc'[j] = pc[j]
                BY <1>1, <4>1
            <4> QED
                BY <4>1, <4>2 DEF Running
        <3> QED
            BY <3>1
    <2>3. \E x \in {"ok", "get"} : pc' = [pc EXCEPT ![started + 1] = x]
        BY <2>1 DEF Publish, Goto
    <2>4. \A i \in Jobs : pc[i] \notin Active
        BY <2>2 DEF Running
    <2>5. j = started + 1 /\ \A i \in Jobs \ {j} : pc'[i] = pc[i]
        BY <1>1, <2>3, <2>4
    <2>6. pc'[j] \in {"ok", "get"}
        BY <1>1, <2>3, <2>5
    <2> QED
        BY <2>4, <2>5, <2>6 DEF Followed
<1>3. ASSUME NEW i \in Jobs, Step(i) PROVE Followed(j)'
    <2>1. /\ pc[i] \in Active /\ disturbed' = disturbed /\ InNormalForm(j)
          /\ \A h \in Jobs \ {i} : pc'[h] = pc[h]
        BY <1>3, StepOfOne DEF InNormalForm
    <2>2. j = i
        BY <2>1 DEF Undisturbed, Running, Followed
    <2>3. Followed(j)
        BY <2>1, <2>2 DEF Undisturbed, Running
    <2> QED
        BY <1>3, <2>1, <2>2, <2>3, StepFollowed
<1>4. CASE Edit
    BY <1>4 DEF Edit, Running
<1>5. CASE UNCHANGED vars
    <2>1. UNCHANGED <<zone, pc, names, snapshot, left, todo, at, disturbed>>
        BY <1>5 DEF vars
    <2>2. Followed(j)
        BY <2>1 DEF Undisturbed, Running, InNormalForm
    <2>3. \A i \in Jobs \ {j} : pc'[i] \notin Active
        BY <2>1, <2>2 DEF Followed
    <2> QED
        BY <2>1, <2>2, <2>3, FollowedStays
<1> QED
    BY <1>2, <1>3, <1>4, <1>5 DEF Next

\* What is done for every name, and no record of another name: that is Exact.
LEMMA SettledIsExact ==
    ASSUME Guarded, NEW j \in Jobs, NEW records \in SUBSET Records,
           Untouched(j, records), \A n \in names[j] : Settled(j, n, records)
    PROVE  Exact(names[j], records)
<1> DEFINE foreign(n) == \E r \in records : /\ r.name = n
                                            /\ r.type = RecordType
                                            /\ ~r.managed
<1>1. \A n \in names[j] : HasUnmanaged(j, n) => foreign(n)
    <2>1. snapshot[j] \in SUBSET Records
        BY DEF Guarded, TypeOK
    <2> QED
        BY <2>1 DEF HasUnmanaged, SameType, OfName, Supported, Untouched
<1>2. \A n \in names[j] : foreign(n) \/ Goal(n) \in records
    BY <1>1 DEF Settled
<1>3. \A r \in Managed(Supported(records)) :
         /\ r.name \in names[j]
         /\ foreign(r.name) \/ (r.type = RecordType /\ r.value = RecordValue)
    <2> TAKE r \in Managed(Supported(records))
    <2>1. r.name \in names[j]
        BY DEF Untouched
    <2>2. HasUnmanaged(j, r.name) \/ r = Goal(r.name)
        BY <2>1 DEF Settled
    <2>3. Goal(r.name).type = RecordType /\ Goal(r.name).value = RecordValue
        BY DEF Goal
    <2> QED
        BY <1>1, <2>1, <2>2, <2>3
<1> QED
    BY <1>2, <1>3 DEF Exact, Goal

\* Publish returns nil only from the last name of the loop.
LEMMA OkIsExact ==
    ASSUME Guarded, Guarded', Undisturbed, Future, [Next]_vars,
           NEW j \in Jobs \ disturbed, InNormalForm(j),
           pc[j] \in Active, pc'[j] = "ok"
    PROVE  Exact(names[j], zone')
<1>1. Followed(j) /\ pc \in [Jobs -> Phases] /\ started \in 0 .. MaxJobs
    BY DEF Undisturbed, Running, Guarded, TypeOK
<1>2. "ok" \notin Active
    BY DEF Active
<1>3. zone' \in SUBSET Records
    BY DEF Guarded, TypeOK
<1>4. CASE \E ns \in NameSets : Publish(ns)
    <2>1. PICK ns \in NameSets : Publish(ns)
        BY <1>4
    <2> QED
        <3>1. pc[started + 1] \notin Active /\ (started + 1 \in Nat)
            BY <1>1, <2>1, BoundsAssumption DEF Future, Publish, Jobs, Active
        <3>2. \E x : pc' = [pc EXCEPT ![started + 1] = x]
            BY <2>1 DEF Publish, Goto
        <3> QED
            BY <1>1, <1>2, <3>1, <3>2
<1>5. ASSUME NEW i \in Jobs, Step(i) PROVE SkipName(j) \/ AddRecord(j)
    <2>1. i = j
        BY <1>1, <1>2, <1>5, StepOfOne
    <2>2. ASSUME Failed(j) PROVE FALSE
        BY <1>1, <2>2 DEF Failed, Return, Goto
    <2>3. ASSUME Return(j, "failed") PROVE FALSE
        BY <1>1, <2>3 DEF Return, Goto
    <2>4. ASSUME pc' = pc \/ pc' = [pc EXCEPT ![j] = "get"]
                 \/ pc' = [pc EXCEPT ![j] = "purge"]
                 \/ pc' = [pc EXCEPT ![j] = "name"]
          PROVE  FALSE
        BY <1>1, <1>2, <2>4
    <2> QED
        BY <1>5, <2>1, <2>2, <2>3, <2>4
        DEF Step, CallFails, CallRefused, Retry, TimeOut, GetZoneRecords,
            DeleteRecord, BeginNames, Goto
<1>6. CASE Edit \/ UNCHANGED vars
    BY <1>2, <1>6 DEF Edit, vars
<1>7. CASE \E i \in Jobs : Step(i)
    <2>1. SkipName(j) \/ AddRecord(j)
        BY <1>5, <1>7
    <2> QED
        BY <1>1, <1>3, <2>1, LoopFollowed, SettledIsExact
<1> QED
    BY <1>4, <1>6, <1>7 DEF Next

\* A call of Publish that returns nil leaves the zone exactly as desired, be it
\* after attempts that failed half way, if no other call and no edit got in its
\* way and its names are in normal form: every name has its record or somebody
\* else's stands in its place, and no other managed record is left (publishOnce).
THEOREM SuccessfulCallsAreExact == Spec => SuccessIsExact
<1>1. Init => Guarded /\ Undisturbed /\ Future
    <2>1. Init => Undisturbed /\ Future
        BY DEF Init, Undisturbed, Running, Active, Future
    <2> QED
        BY <2>1, GuardedInit
<1>2. Guarded /\ Guarded' /\ Undisturbed /\ Future /\ [Next]_vars =>
         [\A j \in Jobs \ disturbed :
             InNormalForm(j) /\ pc[j] \in Active /\ pc'[j] = "ok" =>
                 Exact(names[j], zone')]_vars
    BY OkIsExact
<1> QED
    BY <1>1, <1>2, GuardedInductive, UndisturbedInductive, FutureInductive, PTL
    DEF Spec, SuccessIsExact

=============================================================================
