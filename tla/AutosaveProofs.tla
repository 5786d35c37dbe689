--------------------------- MODULE AutosaveProofs ---------------------------
(***************************************************************************)
(* Proofs about Autosave for every set of updates, files and Caddyfiles    *)
(* and any number of crashes.                                              *)
(***************************************************************************)
EXTENDS Autosave, TLAPS

LEMMA InitType == Init => TypeOK
BY RegimeAssumption DEF Init, TypeOK

LEMMA TypeInductive == TypeOK /\ [Next]_vars => TypeOK'
<1> SUFFICES ASSUME TypeOK, [Next]_vars PROVE TypeOK'
    OBVIOUS
<1> USE RegimeAssumption DEF TypeOK, Goto
<1>1. ASSUME NEW u \in Updates, NewCaddyfile(u) PROVE TypeOK'
    BY <1>1 DEF NewCaddyfile
<1>2. ASSUME NEW u \in Updates, OpenTmp(u) PROVE TypeOK'
    <2>1. PICK f \in Files : /\ tmp' = f
                             /\ open' = [open EXCEPT ![u] = f]
                             /\ content' = [content EXCEPT ![f] = Torn]
        BY <1>2 DEF OpenTmp, Unused
    <2> QED
        BY <1>2, <2>1 DEF OpenTmp
<1>3. ASSUME NEW u \in Updates, WriteTmp(u) PROVE TypeOK'
    <2>1. PICK c \in {caddyfile[u], Torn} :
             content' = [content EXCEPT ![open[u]] = c]
        BY <1>3 DEF WriteTmp
    <2>2. content' \in [Files -> Caddyfiles \cup {Torn}]
        BY <2>1
    <2> QED
        BY <1>3, <2>2 DEF WriteTmp
<1>4. ASSUME NEW u \in Updates, SaveFails(u) PROVE TypeOK'
    BY <1>4 DEF SaveFails
<1>5. ASSUME NEW u \in Updates, RenameTmp(u) PROVE TypeOK'
    BY <1>5 DEF RenameTmp
<1>6. CASE Crash
    BY <1>6 DEF Crash
<1>7. CASE UNCHANGED vars
    BY <1>7 DEF vars
<1> QED
    BY <1>1, <1>2, <1>3, <1>4, <1>5, <1>6, <1>7 DEF Next

\* Names and goroutines refer to files, and files contain Caddyfiles or what
\* is left of one, also when updates overlap.
THEOREM TypeCorrect == Spec => []TypeOK
BY InitType, TypeInductive, PTL DEF Spec

-----------------------------------------------------------------------------
(* Updates that do not overlap.                                            *)

OneSaving == \A u, w \in Updates : u # w => pc[u] = "idle" \/ pc[w] = "idle"

\* The temporary file is never the autosave file, though one becomes the other.
Apart == tmp # Missing => tmp # autosave

\* What is opened is the temporary file, which is empty until it is written, ...
OpenedTmp ==
    \A u \in Updates : pc[u] = "write" => /\ tmp # Missing
                                          /\ open[u] = tmp
                                          /\ content[tmp] = Torn

\* and what is renamed is the Caddyfile that is being saved.
WrittenTmp ==
    \A u \in Updates : pc[u] = "rename" => /\ tmp # Missing
                                           /\ content[tmp] = caddyfile[u]

Whole == TypeOK /\ OneSaving /\ Apart /\ OpenedTmp /\ WrittenTmp /\ AutosaveWhole

LEMMA InitWhole == Init => Whole
BY InitType DEF Init, Whole, OneSaving, Apart, OpenedTmp, WrittenTmp, AutosaveWhole

LEMMA WholeInductive ==
    ASSUME Overlap = FALSE, Whole, [Next]_vars
    PROVE  Whole'
<1> USE DEF Whole
<1>1. /\ content \in [Files -> Caddyfiles \cup {Torn}]
      /\ {tmp, autosave} \subseteq Files \cup {Missing}
      /\ pc \in [Updates -> {"idle", "open", "write", "rename"}]
      /\ caddyfile \in [Updates -> Caddyfiles]
      /\ open \in [Updates -> Files \cup {Missing}]
    BY DEF TypeOK
<1>2. TypeOK'
    BY TypeInductive
<1>3. ASSUME NEW u \in Updates, NewCaddyfile(u) PROVE Whole'
    <2>1. \A w \in Updates \ {u} : pc'[w] = "idle"
        BY <1>1, <1>3 DEF NewCaddyfile, Goto
    <2>2. pc'[u] = "open" /\ UNCHANGED <<content, tmp, autosave>>
        BY <1>1, <1>3 DEF NewCaddyfile, Goto
    <2> QED
        BY <1>2, <2>1, <2>2 DEF OneSaving, Apart, OpenedTmp, WrittenTmp, AutosaveWhole
<1>4. ASSUME NEW u \in Updates, OpenTmp(u) PROVE Whole'
    <2>1. PICK f \in IF tmp = Missing THEN Unused ELSE {tmp} :
             /\ tmp' = f
             /\ open' = [open EXCEPT ![u] = f]
             /\ content' = [content EXCEPT ![f] = Torn]
        BY <1>4 DEF OpenTmp
    <2>2. f \in Files /\ f # autosave /\ autosave' = autosave
        BY <1>1, <1>4, <2>1 DEF OpenTmp, Unused, Apart
    <2>3. pc' = [pc EXCEPT ![u] = "write"] /\ pc[u] = "open"
        BY <1>4 DEF OpenTmp, Goto
    <2>4. \A w \in Updates \ {u} : pc'[w] = "idle" /\ pc[w] = "idle"
        BY <1>1, <2>3 DEF OneSaving
    <2>5. /\ tmp' # Missing /\ open'[u] = tmp' /\ content'[tmp'] = Torn
          /\ pc'[u] = "write"
        BY <1>1, <2>1, <2>2, <2>3, FilesAssumption
    <2>6. AutosaveWhole'
        BY <1>1, <2>1, <2>2 DEF AutosaveWhole
    <2> QED
        BY <1>2, <2>1, <2>2, <2>4, <2>5, <2>6 DEF OneSaving, Apart, OpenedTmp, WrittenTmp
<1>5. ASSUME NEW u \in Updates, WriteTmp(u) PROVE Whole'
    <2>1. /\ pc[u] = "write" /\ pc' = [pc EXCEPT ![u] = "rename"]
          /\ UNCHANGED <<tmp, autosave, caddyfile>>
        BY <1>5 DEF WriteTmp, Goto
    <2>2. tmp # Missing /\ open[u] = tmp /\ content[tmp] = Torn
        BY <2>1 DEF OpenedTmp
    <2>3. content' = [content EXCEPT ![tmp] = caddyfile[u]]
        BY <1>5, <2>2 DEF WriteTmp
    <2>4. \A w \in Updates \ {u} : pc'[w] = "idle"
        BY <1>1, <2>1 DEF OneSaving
    <2>5. pc'[u] = "rename" /\ content'[tmp] = caddyfile[u] /\ tmp # autosave
        BY <1>1, <2>1, <2>2, <2>3 DEF Apart
    <2>6. AutosaveWhole'
        BY <1>1, <2>1, <2>3, <2>5 DEF AutosaveWhole
    <2> QED
        BY <1>2, <2>1, <2>2, <2>4, <2>5, <2>6 DEF OneSaving, Apart, OpenedTmp, WrittenTmp
<1>6. ASSUME NEW u \in Updates, RenameTmp(u) PROVE Whole'
    <2>1. /\ pc[u] = "rename" /\ pc' = [pc EXCEPT ![u] = "idle"]
          /\ autosave' = tmp /\ tmp' = Missing /\ UNCHANGED content
        BY <1>6 DEF RenameTmp, Goto
    <2>2. \A w \in Updates : pc'[w] = "idle"
        BY <1>1, <2>1 DEF OneSaving
    <2>3. content[tmp] = caddyfile[u] /\ caddyfile[u] \in Caddyfiles
        BY <1>1, <2>1 DEF WrittenTmp
    <2> QED
        BY <1>2, <2>1, <2>2, <2>3 DEF OneSaving, Apart, OpenedTmp, WrittenTmp, AutosaveWhole
<1>7. ASSUME UNCHANGED <<content, tmp, autosave, caddyfile>>,
             \A w \in Updates : pc'[w] # "idle" => UNCHANGED <<pc[w], open[w]>>
      PROVE  Whole'
    BY <1>2, <1>7 DEF OneSaving, Apart, OpenedTmp, WrittenTmp, AutosaveWhole
<1>8. ASSUME NEW u \in Updates, SaveFails(u) PROVE Whole'
    BY <1>1, <1>7, <1>8 DEF SaveFails, Goto
<1>9. CASE Crash
    BY <1>7, <1>9 DEF Crash
<1>10. CASE UNCHANGED vars
    BY <1>7, <1>10 DEF vars
<1> QED
    BY <1>3, <1>4, <1>5, <1>6, <1>8, <1>9, <1>10 DEF Next

\* Wherever the disk fails and whenever the controller crashes, the autosave
\* file is a whole Caddyfile: it is only ever renamed into place complete.
THEOREM AutosaveAlwaysWhole ==
    ASSUME Overlap = FALSE
    PROVE  Spec => []AutosaveWhole
<1>1. Whole /\ [Next]_vars => Whole'
    BY WholeInductive
<1>2. Whole => AutosaveWhole
    BY DEF Whole
<1> QED
    BY <1>1, <1>2, InitWhole, PTL DEF Spec

\* The autosave file is replaced only by the Caddyfile of the update that
\* renames, and never by what a crashed one has left in the temporary file.
THEOREM AutosaveReplacedByNew ==
    ASSUME Overlap = FALSE
    PROVE  Spec => AutosaveIsNew
<1> DEFINE Saved == autosave' # autosave =>
               \E u \in Updates : /\ pc[u] = "rename" /\ pc'[u] = "idle"
                                  /\ content'[autosave'] = caddyfile[u]
<1>1. Whole /\ [Next]_vars => Whole'
    BY WholeInductive
<1>2. Whole /\ [Next]_vars => [Saved]_vars
    <2> SUFFICES ASSUME Whole, [Next]_vars, autosave' # autosave PROVE Saved
        OBVIOUS
    <2>1. PICK u \in Updates : RenameTmp(u)
        BY DEF Next, NewCaddyfile, OpenTmp, WriteTmp, SaveFails, Crash, vars
    <2>2. pc \in [Updates -> {"idle", "open", "write", "rename"}]
        BY DEF Whole, TypeOK
    <2> QED
        BY <2>1, <2>2 DEF RenameTmp, Goto, Whole, WrittenTmp
<1> QED
    BY <1>1, <1>2, InitWhole, PTL DEF Spec, AutosaveIsNew
=============================================================================
