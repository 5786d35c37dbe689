------------------------------- MODULE Labels -------------------------------
(***************************************************************************)
(* From the labels of Docker objects to the text of a Caddyfile and back   *)
(* (package caddyfile): FromLabels builds a tree of blocks, Merge adds it  *)
(* to the one of the objects before, Marshal sorts and writes, Unmarshal   *)
(* reads.  Labels are a Go map, visited in any order: one step each.       *)
(*                                                                         *)
(* The path of a label is the sequence of its parts "1_name_2", which are  *)
(* records; its value is a sequence of arguments.  Keys are strings of a   *)
(* given order.  Module Caddyfile has what the generator does with the     *)
(* sites of such a tree; here blocks are nested to any depth.              *)
(***************************************************************************)
EXTENDS Integers, SequencesExt

CONSTANTS
    Objects,    \* the labels of each Docker object, with their arguments
    Scans,      \* the sequences of objects that a scan may find
    KeyOrder,   \* all keys, in their order as strings
    Snippets,   \* the keys "(name)"
    Named,      \* the keys "@name"
    PathKeys,   \* the keys "*" and "/path"
    Proxies,    \* "reverse_proxy" and "php_fastcgi"
    Multiline   \* the keys with a line break

VARIABLES
    scan,       \* the objects of this scan
    object,     \* index of the one that is read
    visited,    \* the labels of it that have been visited
    created,    \* blocksByPath, in the order of creation
    container,  \* the Caddyfile so far
    text        \* the lines that Marshal has written

vars == <<scan, object, visited, created, container, text>>

MaxOrder == 99   \* math.MaxInt32
Star     == "*"

Labels == Objects[scan[object]]
Paths  == DOMAIN Labels

FirstKey(b) == IF b.keys = <<>> THEN "" ELSE b.keys[1]

-----------------------------------------------------------------------------
(* FromLabels                                                              *)

\* getOrCreateBlock: the ancestors of a path first.
GetOrCreateBlock(blocks, path) ==
    blocks \o SelectSeq([n \in DOMAIN path |-> SubSeq(path, 1, n)],
                        LAMBDA p : p \notin Range(blocks))

\* The block of a path: the name of its last part, unless it is "caddy", and
\* the arguments of the label, if there is one.
RECURSIVE Block(_, _, _)
Block(labels, blocks, path) ==
    LET last     == path[Len(path)]
        name     == IF Len(path) = 1 THEN <<>> ELSE <<last.name>>
        args     == IF path \in DOMAIN labels THEN labels[path] ELSE <<>>
        children == SelectSeq(blocks,
                        LAMBDA p : Len(p) = Len(path) + 1 /\ IsPrefix(path, p))
    IN  [keys     |-> name \o args,
         order    |-> last.order,
         children |-> [i \in DOMAIN children |-> Block(labels, blocks, children[i])]]

FromLabels(labels, blocks) ==
    LET roots == SelectSeq(blocks, LAMBDA p : Len(p) = 1)
    IN  [i \in DOMAIN roots |-> Block(labels, blocks, roots[i])]

-----------------------------------------------------------------------------
(* Merge                                                                   *)

GetMatcher(b) ==
    IF Len(b.keys) > 1 /\ b.keys[2] \in Named \cup PathKeys THEN b.keys[2] ELSE Star

\* Blocks whose arguments are merged, too.
ProxyAlike(a, b) == /\ FirstKey(a) = FirstKey(b)
                    /\ FirstKey(a) \in Proxies
                    /\ GetMatcher(a) = GetMatcher(b)

\* The arguments that mergeReverseProxyLike adds: all but a leading matcher.
Upstreams(b) ==
    LET args == Tail(b.keys)
    IN  IF args # <<>> /\ args[1] \in Named \cup PathKeys THEN Tail(args) ELSE args

\* A mutant of MergeInto: the subdirectives of a proxy are not merged.
RECURSIVE MergeArgsInto(_, _)
MergeArgsInto(blocks, b) ==
    LET i == SelectInSeq(blocks, LAMBDA a : ProxyAlike(a, b) \/ a.keys = b.keys)
    IN  IF i = 0 THEN Append(blocks, b)
        ELSE IF ProxyAlike(blocks[i], b)
             THEN [blocks EXCEPT ![i].keys = @ \o Upstreams(b)]
             ELSE [blocks EXCEPT
                      ![i].children = FoldLeft(MergeArgsInto, @, b.children)]

\* Into the first block that takes it, with its children in turn.
RECURSIVE MergeInto(_, _)
MergeInto(blocks, b) ==
    LET i    == SelectInSeq(blocks, LAMBDA a : ProxyAlike(a, b) \/ a.keys = b.keys)
        args == IF i # 0 /\ ProxyAlike(blocks[i], b) THEN Upstreams(b) ELSE <<>>
    IN  IF i = 0 THEN Append(blocks, b)
        ELSE [blocks EXCEPT
                 ![i].keys     = @ \o args,
                 ![i].children = FoldLeft(MergeInto, @, b.children)]

Merge(containerA, containerB) == FoldLeft(MergeInto, containerA, containerB)

-----------------------------------------------------------------------------
(* Marshal                                                                 *)

\* Global options, then snippets, then matchers, then the rest.
Rank(b) == CASE b.keys = <<>>                                 -> 0
             [] Len(b.keys) = 1 /\ FirstKey(b) \in Snippets   -> 1
             [] FirstKey(b) \in Named                         -> 2
             [] OTHER                                         -> 3

KeyLess(k, l) == SelectInSeq(KeyOrder, LAMBDA x : x = k)
                 < SelectInSeq(KeyOrder, LAMBDA x : x = l)

\* Sequences in lexicographic order.
Lexicographic(s, t, Less(_, _)) ==
    \/ \E i \in DOMAIN s \cap DOMAIN t :
          Less(s[i], t[i]) /\ \A j \in 1 .. i - 1 : s[j] = t[j]
    \/ Len(s) < Len(t) /\ IsPrefix(s, t)

\* A mutant of CompareBlocks: children are not compared.
CompareKeys(a, b) ==
    \/ Rank(a) < Rank(b)
    \/ Rank(a) = Rank(b) /\ a.order < b.order
    \/ /\ Rank(a) = Rank(b) /\ a.order = b.order
       /\ Lexicographic(a.keys, b.keys, KeyLess)

\* compareBlocks(a, b) == -1
RECURSIVE CompareBlocks(_, _)
CompareBlocks(a, b) ==
    \/ Rank(a) < Rank(b)
    \/ Rank(a) = Rank(b) /\ a.order < b.order
    \/ /\ Rank(a) = Rank(b) /\ a.order = b.order
       /\ \/ Lexicographic(a.keys, b.keys, KeyLess)
          \/ a.keys = b.keys /\ Lexicographic(a.children, b.children, CompareBlocks)

\* Children are sorted before their parents are compared.
RECURSIVE Sort(_)
Sort(blocks) ==
    SortSeq([i \in DOMAIN blocks |->
                [blocks[i] EXCEPT !.children = Sort(@)]], CompareBlocks)

\* A line for the keys of a block; its children between braces.
RECURSIVE Write(_)
Write(b) ==
    IF b.children = <<>> THEN <<b.keys>>
    ELSE <<Append(b.keys, "{")>>
         \o FlattenSeq([i \in DOMAIN b.children |-> Write(b.children[i])])
         \o << <<"}">> >>

Marshal(blocks) ==
    LET sorted == Sort(blocks)
    IN  FlattenSeq([i \in DOMAIN sorted |-> Write(sorted[i])])

-----------------------------------------------------------------------------
(* Unmarshal                                                               *)

\* The tokens of a text, with the line on which each begins.
AllTokens(lines) ==
    LET Token(s, key) == [tokens |-> Append(s.tokens, [text |-> key, line |-> s.line]),
                          line   |-> s.line + IF key \in Multiline THEN 1 ELSE 0]
        Line(s, line) == [FoldLeft(Token, s, line) EXCEPT !.line = @ + 1]
    IN  FoldLeft(Line, [tokens |-> <<>>, line |-> 1], lines).tokens

\* parseContainer: blocks in the order of creation, each with its parent (0 is
\* the root), the stack of open blocks, the current block, and the line.
NoTokens == [blocks |-> <<>>, stack |-> <<0>>, isNewBlock |-> TRUE, line |-> -1,
             current |-> 0, failed |-> FALSE]

\* currentBlock, created first when the token begins a line.
CurrentBlock(s) ==
    LET parent == s.stack[Len(s.stack)]
        order  == Len(SelectSeq(s.blocks, LAMBDA b : b.parent = parent))
    IN  IF ~s.isNewBlock THEN s
        ELSE [s EXCEPT
                !.blocks     = Append(@, [keys |-> <<>>, order |-> order, parent |-> parent]),
                !.current    = Len(s.blocks) + 1,
                !.isNewBlock = FALSE]

NewLine(s, token) ==
    [s EXCEPT !.isNewBlock = @ \/ (token.line # s.line /\ s.line # -1),
              !.line       = token.line]

\* A mutant of AddKey: the lines within a token are not counted.
AddKeyOnly(s, token) ==
    [s EXCEPT !.blocks[s.current].keys = Append(@, token.text)]

AddKey(s, token) ==
    [s EXCEPT !.blocks[s.current].keys = Append(@, token.text),
              !.line = @ + IF token.text \in Multiline THEN 1 ELSE 0]

ParseToken(before, token) ==
    LET s == NewLine(before, token)
        c == CurrentBlock(s)
    IN  CASE s.failed             -> s
          [] token.text = "}" /\ Len(s.stack) = 1 -> [s EXCEPT !.failed = TRUE]
          [] token.text = "}" /\ Len(s.stack) > 1 -> [s EXCEPT !.stack = Front(@)]
          [] token.text = "{"     -> [c EXCEPT !.stack = Append(@, c.current)]
          [] OTHER                -> AddKey(c, token)

RECURSIVE Children(_, _)
Children(blocks, parent) ==
    LET ids == SelectSeq([i \in DOMAIN blocks |-> i],
                         LAMBDA i : blocks[i].parent = parent)
    IN  [k \in DOMAIN ids |-> [keys     |-> blocks[ids[k]].keys,
                               order    |-> blocks[ids[k]].order,
                               children |-> Children(blocks, ids[k])]]

Unmarshal(lines) ==
    LET parsed == FoldLeft(ParseToken, NoTokens, AllTokens(lines))
    IN  IF parsed.failed THEN <<>> ELSE Children(parsed.blocks, 0)

-----------------------------------------------------------------------------
(* A scan                                                                  *)

Init ==
    /\ scan \in Scans
    /\ object = 1
    /\ visited = {}
    /\ created = <<>>
    /\ container = <<>>
    /\ text = <<>>

\* for label, value := range labels
Visit(path) ==
    /\ visited' = visited \cup {path}
    /\ created' = GetOrCreateBlock(created, path)
    /\ UNCHANGED <<scan, object, container, text>>

\* The Caddyfile of the object is merged into the one of all objects.
MergeObject ==
    /\ visited = Paths
    /\ container' = Merge(container, FromLabels(Labels, created))
    /\ object' = object + 1
    /\ visited' = {}
    /\ created' = <<>>
    /\ UNCHANGED <<scan, text>>

WriteCaddyfile ==
    /\ text = <<>>
    /\ text' = Marshal(container)
    /\ UNCHANGED <<scan, object, visited, created, container>>

Next ==
    \/ /\ object <= Len(scan)
       /\ \/ \E path \in Paths \ visited : Visit(path)
          \/ MergeObject
    \/ object > Len(scan) /\ WriteCaddyfile

Spec == Init /\ [][Next]_vars

-----------------------------------------------------------------------------
(* Properties of the written Caddyfile.                                    *)

Written == text # <<>>

\* Two blocks of one object would be merged, were they of two objects.  When
\* another object has them, too, its blocks all go to the first of them, and the
\* first is the one whose label was visited first.
RECURSIVE Mergeable(_)
Mergeable(blocks) ==
    \/ \E i, j \in DOMAIN blocks :
          i # j /\ (ProxyAlike(blocks[i], blocks[j]) \/ blocks[i].keys = blocks[j].keys)
    \/ \E i \in DOMAIN blocks : Mergeable(blocks[i].children)

\* The tree of an object, when its labels are visited in one certain order.
Tree(o) ==
    FromLabels(Objects[o],
               FoldLeft(GetOrCreateBlock, <<>>, SetToSeq(DOMAIN Objects[o])))

\* The order in which the labels of an object happen to be visited cannot be
\* seen in the text, so that a scan without a change gives the same text: of
\* one object always, of several if none has blocks that would be merged.
OrderIndependent ==
    Written /\ (Len(scan) = 1 \/ \A i \in DOMAIN scan : ~Mergeable(Tree(scan[i]))) =>
        text = Marshal(FoldLeft(Merge, <<>>, [i \in DOMAIN scan |-> Tree(scan[i])]))

\* A block is found among others: as it is, or as part of a proxy directive,
\* with all of its children, at every depth, in the same place.
RECURSIVE Found(_, _)
Found(b, blocks) ==
    \E i \in DOMAIN blocks :
        /\ \/ blocks[i].keys = b.keys
           \/ ProxyAlike(blocks[i], b) /\ Range(b.keys) \subseteq Range(blocks[i].keys) \cup {Star}
        /\ \A j \in DOMAIN b.children : Found(b.children[j], blocks[i].children)

\* Every label of every object is found in the text that is read back, with its
\* arguments and its subdirectives together in one block: neither Merge, which
\* joins blocks of several objects, nor Sort, Write or the parser loses any.
LabelsSurvive ==
    Written => \A k \in DOMAIN scan :
                  LET tree == Tree(scan[k])
                  IN  \A i \in DOMAIN tree : Found(tree[i], Unmarshal(text))

\* Blocks without the number that orders them.
RECURSIVE Bare(_)
Bare(blocks) == [i \in DOMAIN blocks |-> <<blocks[i].keys, Bare(blocks[i].children)>>]

\* The text and parts of it are read and written again and again by Process:
\* reading gives the blocks that were written, whatever line breaks their keys
\* have, and writing these gives the text again.
ReadsBack ==
    Written => /\ Bare(Unmarshal(text)) = Bare(Sort(container))
               /\ Marshal(Unmarshal(text)) = text
=============================================================================
