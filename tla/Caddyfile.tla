------------------------------ MODULE Caddyfile ------------------------------
(***************************************************************************)
(* The top level of a Caddyfile and what the controller does with it       *)
(* (package caddyfile, and the merging of site blocks of the generator):   *)
(* merging two Caddyfiles, sorting one, and removing what Caddy would not  *)
(* accept.  No constant and no state: operators on sequences of blocks.    *)
(*                                                                         *)
(* A block has its keys, its position in the file it was read from, and a  *)
(* body.  Keys are the tokens before the brace as they are written; they   *)
(* are numbers, for they are compared.  Those of Snippets are the names of *)
(* snippets, the others stand for site addresses.  The code compares keys; *)
(* Caddy compares the addresses they stand for: "a.com," is another key    *)
(* than "a.com" and the same address.  A body is a set of directives,      *)
(* tuples that begin with their name.                                      *)
(***************************************************************************)
EXTENDS Integers, SequencesExt

CONSTANTS
    Keys,       \* tokens for site addresses, and names of snippets
    Snippets,   \* the keys that name a snippet: "(name)"
    Commas,     \* the keys that end in a comma: "address,"
    Address(_)  \* external: the address that Caddy reads in a key, as its errors
                \* name it

ASSUME KeysAssumption == Keys \subseteq Nat /\ Snippets \subseteq Keys
ASSUME AddressAssumption ==
    /\ \A k \in Keys : /\ Address(k) \in Keys \ Commas
                       /\ Address(Address(k)) = Address(k)
                       /\ Address(k) \in Snippets <=> k \in Snippets
    /\ \A k \in Snippets : Address(k) = k

\* Order of the blocks that come from labels (math.MaxInt32).
MaxOrder == 99

Import(s) == <<"import", s>>
Invalid   == <<"invalid">>    \* a directive that Caddy does not accept
Upstreams == <<"upstreams">>  \* "reverse_proxy {{upstreams}}" in a label

KeysOf(b)      == Range(b.keys)
AddressesOf(b) == {Address(k) : k \in KeysOf(b)}

\* A block, as Caddy can accept it: no key is repeated, and the name of a snippet
\* is its only key.
IsBlock(b) ==
    /\ b = [keys |-> b.keys, order |-> b.order, body |-> b.body]
    /\ b.keys \in Seq(Keys)
    /\ IsInjective(b.keys)
    /\ KeysOf(b) \cap Snippets # {} => Len(b.keys) = 1
    /\ b.order \in 0 .. MaxOrder

IsContainer(c) == c \in Seq(Range(c)) /\ \A b \in Range(c) : IsBlock(b)

IsGlobalBlock(b) == b.keys = <<>>
IsSnippet(b)     == Len(b.keys) = 1 /\ KeysOf(b) \subseteq Snippets
IsSiteBlock(b)   == ~IsGlobalBlock(b) /\ ~IsSnippet(b)

SharesKey(a, b) == KeysOf(a) \cap KeysOf(b) # {}

\* Every key of b is written as its address.
IsLiteral(b) == \A k \in KeysOf(b) : Address(k) = k

\* Where b shares an address with a block that has other keys, both write their
\* addresses as they are: then blocks share an address when they share a key.
IsSpelled(b, blocks) ==
    \A a \in blocks :
        a.keys # b.keys /\ AddressesOf(a) \cap AddressesOf(b) # {} =>
            IsLiteral(a) /\ IsLiteral(b)

\* After a comma, Caddy expects another address.
EndsInComma(b) == b.keys # <<>> /\ Last(b.keys) \in Commas

\* The elements of the sequence s that are in S, and those that are not.
AppendIf(S, t, x) == IF x \in S THEN Append(t, x) ELSE t
Only(s, S)        == FoldLeft(LAMBDA t, x : AppendIf(S, t, x), <<>>, s)
Without(s, S)     == Only(s, Range(s) \ S)

-----------------------------------------------------------------------------
(* Merging.                                                                *)

\* One block: into the block with the same keys in the same order, if any.
\* Their directives are merged in turn; reverse_proxy collects upstreams.
MergeBlock(container, b) ==
    LET i == SelectInSeq(container, LAMBDA a : a.keys = b.keys)
    IN  IF i = 0 THEN Append(container, b)
        ELSE [container EXCEPT ![i].body = @ \cup b.body]

\* Container.Merge
Merge(containerA, containerB) == FoldLeft(MergeBlock, containerA, containerB)

\* A mutant of MergeSiteBlocks: keys that target has are added again.
MergeAllKeys(target, incoming) ==
    [keys  |-> target.keys \o incoming.keys,
     order |-> target.order,
     body  |-> target.body \cup incoming.body]

\* mergeSiteBlocks: target takes the keys it does not have, and the body.
MergeSiteBlocks(target, incoming) ==
    [keys  |-> target.keys \o Without(incoming.keys, KeysOf(target)),
     order |-> target.order,
     body  |-> target.body \cup incoming.body]

\* findOverlappingSiteBlocks
Overlapping(container, b) ==
    Only(container, {a \in Range(container) : IsSiteBlock(a) /\ SharesKey(a, b)})

\* A mutant of MergeOverlapping: only the first of the matches is merged.
MergeFirst(container, b) ==
    LET first == SelectInSeq(container, LAMBDA a : IsSiteBlock(a) /\ SharesKey(a, b))
    IN  [container EXCEPT ![first] = MergeSiteBlocks(@, b)]

\* The first of the blocks that share a key with b takes over b and the other
\* ones, which are removed.
MergeOverlapping(container, b) ==
    LET matches == Overlapping(container, b)
        first   == Head(matches)
        extras  == Tail(matches)
    IN  ReplaceAll(Without(container, Range(extras)), first,
                   FoldLeft(MergeSiteBlocks, MergeSiteBlocks(first, b), extras))

MergeSite(container, b) ==
    IF IsSiteBlock(b) /\ Overlapping(container, b) # <<>>
    THEN MergeOverlapping(container, b)
    ELSE MergeBlock(container, b)

\* mergeCaddyfile
MergeCaddyfile(base, incoming, mergeSites) ==
    IF mergeSites THEN FoldLeft(MergeSite, base, incoming)
    ELSE Merge(base, incoming)

-----------------------------------------------------------------------------
(* Sorting.                                                                *)

\* Strings of keys in their lexicographic order.
KeysBefore(s, t) ==
    \/ \E i \in DOMAIN s \cap DOMAIN t :
          s[i] < t[i] /\ \A j \in 1 .. i - 1 : s[j] = t[j]
    \/ Len(s) < Len(t) /\ \A j \in DOMAIN s : s[j] = t[j]

\* Global options first, then snippets; a matcher is no block of its own here.
Rank(b) == IF IsGlobalBlock(b) THEN 0 ELSE IF IsSnippet(b) THEN 1 ELSE 2

\* A mutant of Before: keys are not compared.
BeforeByOrder(a, b) ==
    \/ Rank(a) < Rank(b)
    \/ Rank(a) = Rank(b) /\ a.order < b.order

\* compareBlocks(a, b) == -1.  Blocks with the same keys have been merged, so
\* that their bodies are never compared.
Before(a, b) ==
    \/ Rank(a) < Rank(b)
    \/ Rank(a) = Rank(b) /\ a.order < b.order
    \/ Rank(a) = Rank(b) /\ a.order = b.order /\ KeysBefore(a.keys, b.keys)

\* b goes before the first block that it is before.
InsertSorted(sorted, b) ==
    LET i == SelectInSeq(sorted, LAMBDA a : Before(b, a))
    IN  IF i = 0 THEN Append(sorted, b) ELSE InsertAt(sorted, i, b)

\* Container.sort, and the global block written first (GenerateCaddyfile).
Sorted(container) == FoldLeft(InsertSorted, <<>>, container)

-----------------------------------------------------------------------------
(* Removing what Caddy does not accept.                                    *)

\* External: Caddy's adapter accepts the block b after the blocks kept.  A
\* snippet, in which none is imported, is looked at only where it is imported,
\* and must have been defined before.
Adapts(kept, b) ==
    \/ IsSnippet(b)
    \/ /\ ~EndsInComma(b)
       /\ Invalid \notin b.body
       /\ \A d \in b.body : d[1] = "import" =>
             \E a \in Range(kept) :
                IsSnippet(a) /\ a.keys = <<d[2]>> /\ Invalid \notin a.body

\* External: the addresses of b that make kept followed by b an ambiguous site
\* definition.
Ambiguous(kept, b) ==
    {k \in AddressesOf(b) : \E a \in Range(kept) : k \in AddressesOf(a)}

\* Caddy accepts the keys of b and its directives, and every snippet it imports
\* is there and accepted as well.
Sound(b, blocks) ==
    /\ ~EndsInComma(b)
    /\ Invalid \notin b.body
    /\ \A d \in b.body : d[1] = "import" =>
          LET snippet == {a \in blocks : IsSnippet(a) /\ a.keys = <<d[2]>>}
          IN  snippet # {} /\ \A a \in snippet : Invalid \notin a.body

\* A mutant of ProcessBlock: a block with an ambiguous name is removed.
ProcessWholeBlock(kept, b) ==
    IF Ambiguous(kept, b) = {} /\ Adapts(kept, b) THEN Append(kept, b) ELSE kept

\* A mutant of ProcessBlock: one ambiguous name is removed, and the block is
\* not tried again.
ProcessOnce(kept, b) ==
    LET names == Ambiguous(kept, b)
        rest  == IF names = {} THEN b.keys
                 ELSE Without(b.keys, {CHOOSE x \in names : TRUE})
    IN  IF ~Adapts(kept, b) \/ (rest = b.keys /\ names # {})
                            \/ (rest = <<>> /\ b.keys # <<>>)
        THEN kept
        ELSE Append(kept, [b EXCEPT !.keys = rest])

\* The inner loop of Process, by its result.  As long as the error is that a name
\* is ambiguous and the block has it as a key, removeBlockKey takes that key
\* out.  The block goes when it has no such key, when none is left, and on any
\* other error.
ProcessBlock(kept, b) ==
    LET rest == Without(b.keys, Ambiguous(kept, b))
        left == [b EXCEPT !.keys = rest]
    IN  IF \/ Ambiguous(kept, left) # {}
           \/ rest = <<>> /\ b.keys # <<>>
           \/ ~Adapts(kept, left)
        THEN kept
        ELSE Append(kept, left)

\* Process, on a container that is sorted.
Process(container) == FoldLeft(ProcessBlock, <<>>, container)
=============================================================================
