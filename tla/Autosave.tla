------------------------------ MODULE Autosave ------------------------------
(***************************************************************************)
(* The file Caddyfile.autosave: update() of loader.go writes every new     *)
(* Caddyfile to Caddyfile.autosave.tmp and renames that file.              *)
(*                                                                         *)
(* os.WriteFile opens (and truncates) and then writes, and what it writes  *)
(* goes to the file it opened, whatever name that has by then.  So files   *)
(* are numbered, and the two names refer to files.  The controller can     *)
(* crash between any two steps and start again with the files it finds.    *)
(***************************************************************************)
EXTENDS Integers, FiniteSets

CONSTANTS
    Updates,      \* goroutines that can run update()
    Caddyfiles,   \* what GenerateCaddyfile can return
    Files,        \* files that the two names can refer to
    Missing,      \* no file has the name
    Torn,         \* the content of a file that is not a whole Caddyfile
    Overlap,      \* updates may run at the same time
    MaxCrashes    \* bound: crashes of the controller

ASSUME FilesAssumption ==
    /\ Missing \notin Files
    /\ Torn \notin Caddyfiles
    /\ IsFiniteSet(Updates) /\ IsFiniteSet(Files)
    /\ Cardinality(Files) > Cardinality(Updates) + 1
ASSUME RegimeAssumption == Overlap \in BOOLEAN /\ MaxCrashes \in Nat

VARIABLES
    content,   \* what each file contains
    tmp,       \* the file named tmpPath
    autosave,  \* the file named CaddyfileAutosavePath
    pc,        \* where each update() goroutine is
    caddyfile, \* the new Caddyfile it saves
    open,      \* the file it has opened
    crashes    \* how often the controller has crashed

vars == <<content, tmp, autosave, pc, caddyfile, open, crashes>>

TypeOK ==
    /\ content \in [Files -> Caddyfiles \cup {Torn}]
    /\ {tmp, autosave} \subseteq Files \cup {Missing}
    /\ pc \in [Updates -> {"idle", "open", "write", "rename"}]
    /\ caddyfile \in [Updates -> Caddyfiles]
    /\ open \in [Updates -> Files \cup {Missing}]
    /\ crashes \in 0 .. MaxCrashes

Init ==
    /\ content = [f \in Files |-> Torn]
    /\ tmp = Missing
    /\ autosave = Missing
    /\ pc = [u \in Updates |-> "idle"]
    /\ caddyfile \in [Updates -> Caddyfiles]
    /\ open = [u \in Updates |-> Missing]
    /\ crashes = 0

Goto(u, phase) == pc' = [pc EXCEPT ![u] = phase]

\* An update has found that its Caddyfile is new.
NewCaddyfile(u) ==
    /\ pc[u] = "idle"
    /\ Overlap \/ \A w \in Updates : pc[w] = "idle"
    /\ \E c \in Caddyfiles : caddyfile' = [caddyfile EXCEPT ![u] = c]
    /\ Goto(u, "open")
    /\ UNCHANGED <<content, tmp, autosave, open, crashes>>

\* Files that no name and no goroutine refers to.
Unused == Files \ ({tmp, autosave} \cup {open[u] : u \in Updates})

\* A mutant of OpenTmp: the autosave file itself is written.
OpenAutosave(u) ==
    /\ pc[u] = "open"
    /\ \E f \in IF autosave = Missing THEN Unused ELSE {autosave} :
         /\ autosave' = f
         /\ open' = [open EXCEPT ![u] = f]
         /\ content' = [content EXCEPT ![f] = Torn]
    /\ Goto(u, "write")
    /\ UNCHANGED <<tmp, caddyfile, crashes>>

\* os.WriteFile(tmpPath, ...): the file is created or truncated.
OpenTmp(u) ==
    /\ pc[u] = "open"
    /\ \E f \in IF tmp = Missing THEN Unused ELSE {tmp} :
         /\ tmp' = f
         /\ open' = [open EXCEPT ![u] = f]
         /\ content' = [content EXCEPT ![f] = Torn]
    /\ Goto(u, "write")
    /\ UNCHANGED <<autosave, caddyfile, crashes>>

\* A mutant of WriteTmp: the file is appended to.
WriteTmpAppending(u) ==
    /\ pc[u] = "write"
    /\ content' = [content EXCEPT ![open[u]] = <<@, caddyfile[u]>>]
    /\ open' = [open EXCEPT ![u] = Missing]
    /\ Goto(u, "rename")
    /\ UNCHANGED <<tmp, autosave, caddyfile, crashes>>

\* os.WriteFile: the write.  Over what another update has written meanwhile,
\* the tail of a longer Caddyfile may remain.
WriteTmp(u) ==
    /\ pc[u] = "write"
    /\ \E c \in IF content[open[u]] \in {Torn, caddyfile[u]}
                THEN {caddyfile[u]} ELSE {caddyfile[u], Torn} :
         content' = [content EXCEPT ![open[u]] = c]
    /\ open' = [open EXCEPT ![u] = Missing]
    /\ Goto(u, "rename")
    /\ UNCHANGED <<tmp, autosave, caddyfile, crashes>>

\* A mutant of SaveFails: the error of a write does not prevent the rename.
SaveFailsIgnored(u) ==
    /\ pc[u] # "idle"
    /\ Goto(u, IF pc[u] = "write" THEN "rename" ELSE "idle")
    /\ open' = [open EXCEPT ![u] = Missing]
    /\ UNCHANGED <<content, tmp, autosave, caddyfile, crashes>>

\* An error of the disk in any step: update() goes on without the autosave.
SaveFails(u) ==
    /\ pc[u] # "idle"
    /\ Goto(u, "idle")
    /\ open' = [open EXCEPT ![u] = Missing]
    /\ UNCHANGED <<content, tmp, autosave, caddyfile, crashes>>

\* os.Rename(tmpPath, CaddyfileAutosavePath), which fails when there is no tmp.
RenameTmp(u) ==
    /\ pc[u] = "rename"
    /\ tmp # Missing
    /\ autosave' = tmp
    /\ tmp' = Missing
    /\ Goto(u, "idle")
    /\ UNCHANGED <<content, caddyfile, open, crashes>>

\* The process ends; a write under way may have been done in part only.
Crash ==
    /\ crashes < MaxCrashes
    /\ crashes' = crashes + 1
    /\ pc' = [u \in Updates |-> "idle"]
    /\ open' = [u \in Updates |-> Missing]
    /\ UNCHANGED <<content, tmp, autosave, caddyfile>>

Next ==
    \/ \E u \in Updates : \/ NewCaddyfile(u) \/ OpenTmp(u) \/ WriteTmp(u)
                          \/ SaveFails(u) \/ RenameTmp(u)
    \/ Crash

Spec == Init /\ [][Next]_vars

-----------------------------------------------------------------------------
\* Whatever fails and whenever the controller crashes, the autosave file is a
\* whole Caddyfile (updates that do not overlap).
AutosaveWhole == autosave # Missing => content[autosave] \in Caddyfiles

\* A step that replaces the autosave file puts the Caddyfile of the update
\* that makes it in its place.
AutosaveIsNew ==
    [][autosave' # autosave =>
         \E u \in Updates : /\ pc[u] = "rename" /\ pc'[u] = "idle"
                            /\ content'[autosave'] = caddyfile[u]]_vars
=============================================================================
