--------------------------- MODULE CaddyfileProofs ---------------------------
(***************************************************************************)
(* Proofs about the operators of Caddyfile, for containers of any length   *)
(* and blocks with any keys: what merging, sorting and processing keep of  *)
(* the blocks they are given, and what they add.  They are folds over      *)
(* sequences: each fold is an instance of Folding, and what holds of all   *)
(* its intermediate results is proved by induction on their number.        *)
(***************************************************************************)
EXTENDS Caddyfile, FiniteSetTheorems, SequenceTheorems, TLAPS

\* The steps of the folds: the parameter counts for Only alone.
MergeBlockStep(p, container, b)  == MergeBlock(container, b)
MergeExtraStep(p, target, extra) == MergeSiteBlocks(target, extra)
MergeSiteStep(p, container, b)   == MergeSite(container, b)
InsertStep(p, sorted, b)         == InsertSorted(sorted, b)
ProcessStep(p, kept, b)          == ProcessBlock(kept, b)

Selecting     == INSTANCE Folding WITH Step <- AppendIf
Merging       == INSTANCE Folding WITH Step <- MergeBlockStep
MergingExtras == INSTANCE Folding WITH Step <- MergeExtraStep
MergingSites  == INSTANCE Folding WITH Step <- MergeSiteStep
Sorting       == INSTANCE Folding WITH Step <- InsertStep
Processing    == INSTANCE Folding WITH Step <- ProcessStep

-----------------------------------------------------------------------------
(* Sequences.                                                              *)

IsSeq(s) == s \in Seq(Range(s))

LEMMA SeqFacts ==
    ASSUME NEW s, IsSeq(s)
    PROVE  /\ Len(s) \in Nat /\ DOMAIN s = 1 .. Len(s)
           /\ \A i \in 1 .. Len(s) : s[i] \in Range(s)
           /\ \A x \in Range(s) : \E i \in 1 .. Len(s) : s[i] = x
           /\ s = <<>> <=> Range(s) = {}
    BY DEF IsSeq, Range

LEMMA SeqIsSeq ==
    ASSUME NEW T, NEW s \in Seq(T)
    PROVE  IsSeq(s) /\ Range(s) \subseteq T
    BY DEF IsSeq, Range

LEMMA EmptyFacts == IsSeq(<<>>) /\ Range(<<>>) = {} /\ IsInjective(<<>>)
    BY DEF IsSeq, Range, IsInjective

LEMMA AppendFacts ==
    ASSUME NEW s, IsSeq(s), NEW x
    PROVE  /\ IsSeq(Append(s, x))
           /\ Range(Append(s, x)) = Range(s) \cup {x}
           /\ IsInjective(s) /\ x \notin Range(s) => IsInjective(Append(s, x))
<1>1. /\ Len(s) \in Nat /\ DOMAIN s = 1 .. Len(s)
      /\ \A i \in 1 .. Len(s) : s[i] \in Range(s)
      /\ \A y \in Range(s) : \E i \in 1 .. Len(s) : s[i] = y
    BY SeqFacts
<1> DEFINE t == Append(s, x)
           T == Range(s) \cup {x}
<1>2. s \in Seq(T)
    BY DEF IsSeq
<1>3. /\ DOMAIN t = 1 .. Len(s) + 1
      /\ \A i \in 1 .. Len(s) : t[i] = s[i]
      /\ t[Len(s) + 1] = x
      /\ t \in Seq(T)
    BY <1>2
<1> HIDE DEF t, T
<1>4. Range(t) = T
    BY <1>1, <1>3 DEF T, Range
<1>5. IsSeq(t)
    BY <1>3, <1>4 DEF IsSeq
<1>6. ASSUME IsInjective(s), x \notin Range(s) PROVE IsInjective(t)
    BY <1>1, <1>3, <1>6 DEF IsInjective
<1> QED
    BY <1>4, <1>5, <1>6 DEF t, T

LEMMA SelectingSteps ==
    ASSUME NEW s, NEW n \in Nat, DOMAIN s = 1 .. n, NEW S
    PROVE  \E f : /\ f[0] = <<>>
                  /\ \A i \in 1 .. n : f[i] = AppendIf(S, f[i - 1], s[i])
                  /\ f[n] = Only(s, S)
<1>1. \E f : /\ f[0] = <<>>
             /\ \A i \in 1 .. n : f[i] = AppendIf(S, f[i - 1], s[i])
             /\ f[n] = Selecting!Folded(S, <<>>, s)
    BY Selecting!FoldLeftSteps DEF AppendIf
<1>2. Selecting!Folded(S, <<>>, s) = Only(s, S)
    BY DEF Only, FoldLeft, MapThenFoldSet, Max, Selecting!Folded, Selecting!Max
<1> QED
    BY <1>1, <1>2

LEMMA MergingSteps ==
    ASSUME NEW s, NEW n \in Nat, DOMAIN s = 1 .. n, NEW base
    PROVE  \E f : /\ f[0] = base
                  /\ \A i \in 1 .. n : f[i] = MergeBlock(f[i - 1], s[i])
                  /\ f[n] = FoldLeft(MergeBlock, base, s)
<1>1. \E f : /\ f[0] = base
             /\ \A i \in 1 .. n : f[i] = MergeBlockStep({}, f[i - 1], s[i])
             /\ f[n] = Merging!Folded({}, base, s)
    BY Merging!FoldLeftSteps
<1>2. Merging!Folded({}, base, s) = FoldLeft(MergeBlock, base, s)
    BY DEF MergeBlockStep, FoldLeft, MapThenFoldSet, Max, Merging!Folded, Merging!Max
<1> QED
    BY <1>1, <1>2 DEF MergeBlockStep

LEMMA MergingExtrasSteps ==
    ASSUME NEW s, NEW n \in Nat, DOMAIN s = 1 .. n, NEW base
    PROVE  \E f : /\ f[0] = base
                  /\ \A i \in 1 .. n : f[i] = MergeSiteBlocks(f[i - 1], s[i])
                  /\ f[n] = FoldLeft(MergeSiteBlocks, base, s)
<1>1. \E f : /\ f[0] = base
             /\ \A i \in 1 .. n : f[i] = MergeExtraStep({}, f[i - 1], s[i])
             /\ f[n] = MergingExtras!Folded({}, base, s)
    BY MergingExtras!FoldLeftSteps
<1>2. MergingExtras!Folded({}, base, s) = FoldLeft(MergeSiteBlocks, base, s)
    BY DEF MergeExtraStep, FoldLeft, MapThenFoldSet, Max, MergingExtras!Folded, MergingExtras!Max
<1> QED
    BY <1>1, <1>2 DEF MergeExtraStep

LEMMA MergingSitesSteps ==
    ASSUME NEW s, NEW n \in Nat, DOMAIN s = 1 .. n, NEW base
    PROVE  \E f : /\ f[0] = base
                  /\ \A i \in 1 .. n : f[i] = MergeSite(f[i - 1], s[i])
                  /\ f[n] = FoldLeft(MergeSite, base, s)
<1>1. \E f : /\ f[0] = base
             /\ \A i \in 1 .. n : f[i] = MergeSiteStep({}, f[i - 1], s[i])
             /\ f[n] = MergingSites!Folded({}, base, s)
    BY MergingSites!FoldLeftSteps
<1>2. MergingSites!Folded({}, base, s) = FoldLeft(MergeSite, base, s)
    BY DEF MergeSiteStep, FoldLeft, MapThenFoldSet, Max, MergingSites!Folded, MergingSites!Max
<1> QED
    BY <1>1, <1>2 DEF MergeSiteStep

LEMMA SortingSteps ==
    ASSUME NEW s, NEW n \in Nat, DOMAIN s = 1 .. n, NEW base
    PROVE  \E f : /\ f[0] = base
                  /\ \A i \in 1 .. n : f[i] = InsertSorted(f[i - 1], s[i])
                  /\ f[n] = FoldLeft(InsertSorted, base, s)
<1>1. \E f : /\ f[0] = base
             /\ \A i \in 1 .. n : f[i] = InsertStep({}, f[i - 1], s[i])
             /\ f[n] = Sorting!Folded({}, base, s)
    BY Sorting!FoldLeftSteps
<1>2. Sorting!Folded({}, base, s) = FoldLeft(InsertSorted, base, s)
    BY DEF InsertStep, FoldLeft, MapThenFoldSet, Max, Sorting!Folded, Sorting!Max
<1> QED
    BY <1>1, <1>2 DEF InsertStep

LEMMA ProcessingSteps ==
    ASSUME NEW s, NEW n \in Nat, DOMAIN s = 1 .. n, NEW base
    PROVE  \E f : /\ f[0] = base
                  /\ \A i \in 1 .. n : f[i] = ProcessBlock(f[i - 1], s[i])
                  /\ f[n] = FoldLeft(ProcessBlock, base, s)
<1>1. \E f : /\ f[0] = base
             /\ \A i \in 1 .. n : f[i] = ProcessStep({}, f[i - 1], s[i])
             /\ f[n] = Processing!Folded({}, base, s)
    BY Processing!FoldLeftSteps
<1>2. Processing!Folded({}, base, s) = FoldLeft(ProcessBlock, base, s)
    BY DEF ProcessStep, FoldLeft, MapThenFoldSet, Max, Processing!Folded, Processing!Max
<1> QED
    BY <1>1, <1>2 DEF ProcessStep

\* Only keeps what is in S, in its order.
LEMMA OnlyFacts ==
    ASSUME NEW s, IsSeq(s), NEW S
    PROVE  /\ IsSeq(Only(s, S))
           /\ Range(Only(s, S)) = Range(s) \cap S
           /\ IsInjective(s) => IsInjective(Only(s, S))
           /\ Range(s) \subseteq S => Only(s, S) = s
<1>1. /\ Len(s) \in Nat /\ DOMAIN s = 1 .. Len(s)
      /\ \A i \in 1 .. Len(s) : s[i] \in Range(s)
      /\ \A y \in Range(s) : \E i \in 1 .. Len(s) : s[i] = y
    BY SeqFacts
<1>2. PICK f : /\ f[0] = <<>>
               /\ \A i \in 1 .. Len(s) : f[i] = AppendIf(S, f[i - 1], s[i])
               /\ f[Len(s)] = Only(s, S)
    BY <1>1, SelectingSteps
<1> DEFINE P(i) == /\ IsSeq(f[i])
                   /\ \A x : x \in Range(f[i]) <=> \E j \in 1 .. i : s[j] = x /\ x \in S
                   /\ IsInjective(s) => IsInjective(f[i])
                   /\ Range(s) \subseteq S => /\ Len(f[i]) = i
                                              /\ \A j \in 1 .. i : f[i][j] = s[j]
           I == {i \in 0 .. Len(s) : P(i)}
<1>3. P(0)
    BY <1>2, EmptyFacts
<1>4. ASSUME NEW i \in 0 .. Len(s) - 1, P(i) PROVE P(i + 1)
    <2>1. f[i + 1] = IF s[i + 1] \in S THEN Append(f[i], s[i + 1]) ELSE f[i]
        BY <1>1, <1>2 DEF AppendIf
    <2>2. i \in Nat /\ i + 1 \in 1 .. Len(s) /\ s[i + 1] \in Range(s)
        BY <1>1
    <2>3. CASE s[i + 1] \in S
        <3>1. /\ IsSeq(Append(f[i], s[i + 1]))
              /\ Range(Append(f[i], s[i + 1])) = Range(f[i]) \cup {s[i + 1]}
              /\ IsInjective(f[i]) /\ s[i + 1] \notin Range(f[i])
                    => IsInjective(Append(f[i], s[i + 1]))
            BY <1>4, AppendFacts
        <3>2. f[i + 1] = Append(f[i], s[i + 1])
            BY <2>1, <2>3
        <3>3. \A x : x \in Range(f[i + 1]) <=> \E j \in 1 .. i + 1 : s[j] = x /\ x \in S
            BY <1>4, <2>2, <2>3, <3>1, <3>2
        <3>4. ASSUME IsInjective(s) PROVE IsInjective(f[i + 1])
            <4>1. s[i + 1] \notin Range(f[i])
                BY <1>1, <1>4, <2>2, <3>4 DEF IsInjective
            <4> QED
                BY <1>4, <3>1, <3>2, <3>4, <4>1
        <3>5. ASSUME Range(s) \subseteq S
              PROVE  Len(f[i + 1]) = i + 1 /\ \A j \in 1 .. i + 1 : f[i + 1][j] = s[j]
            <4>1. f[i] \in Seq(Range(f[i]) \cup {s[i + 1]})
                BY <1>4 DEF IsSeq
            <4>2. /\ Len(f[i + 1]) = Len(f[i]) + 1
                  /\ \A j \in 1 .. Len(f[i]) : f[i + 1][j] = f[i][j]
                  /\ f[i + 1][Len(f[i]) + 1] = s[i + 1]
                BY <3>2, <4>1
            <4>3. Len(f[i]) = i /\ \A j \in 1 .. i : f[i][j] = s[j]
                BY <1>4, <3>5
            <4>4. \A j \in 1 .. i + 1 : j \in 1 .. i \/ j = i + 1
                BY <2>2
            <4> QED
                BY <2>2, <4>2, <4>3, <4>4
        <3> QED
            BY <3>1, <3>2, <3>3, <3>4, <3>5
    <2>4. CASE s[i + 1] \notin S
        BY <1>4, <2>1, <2>2, <2>4
    <2> QED
        BY <2>3, <2>4
<1>5. 0 \in I /\ \A i \in 0 .. Len(s) - 1 : i \in I => i + 1 \in I
    <2> HIDE DEF P
    <2> QED
        BY <1>1, <1>3, <1>4
<1>6. P(Len(s))
    <2>1. \A i \in 0 .. Len(s) : i \in I
        <3> HIDE DEF I
        <3> QED
            BY <1>1, <1>5, Selecting!Induction
    <2> HIDE DEF P
    <2> QED
        BY <1>1, <2>1
<1>7. ASSUME Range(s) \subseteq S PROVE Only(s, S) = s
    <2>1. DOMAIN f[Len(s)] = 1 .. Len(s)
        BY <1>6, <1>7, SeqFacts
    <2>2. f[Len(s)] = [j \in 1 .. Len(s) |-> f[Len(s)][j]]
        BY <1>6, <2>1 DEF IsSeq
    <2>3. s = [j \in 1 .. Len(s) |-> s[j]]
        BY <1>1 DEF IsSeq
    <2> QED
        BY <1>2, <1>6, <1>7, <2>2, <2>3
<1> QED
    BY <1>1, <1>2, <1>6, <1>7

LEMMA WithoutFacts ==
    ASSUME NEW s, IsSeq(s), NEW S
    PROVE  /\ IsSeq(Without(s, S))
           /\ Range(Without(s, S)) = Range(s) \ S
           /\ IsInjective(s) => IsInjective(Without(s, S))
           /\ Range(s) \cap S = {} => Without(s, S) = s
    BY OnlyFacts DEF Without

LEMMA MinFacts ==
    ASSUME NEW S \in SUBSET Nat, S # {}
    PROVE  Min(S) \in S /\ \A i \in S : Min(S) <= i
<1>1. PICK n \in S : \A i \in S : n <= i
    BY Selecting!Least
<1> QED
    BY <1>1 DEF Min

\* Replacing an element of a sequence in which none is repeated.
LEMMA ReplaceFacts ==
    ASSUME NEW s, IsSeq(s), IsInjective(s), NEW old \in Range(s), NEW new,
           new \notin Range(s) \ {old}
    PROVE  /\ IsSeq(ReplaceAll(s, old, new))
           /\ Range(ReplaceAll(s, old, new)) = (Range(s) \ {old}) \cup {new}
           /\ IsInjective(ReplaceAll(s, old, new))
<1> DEFINE t == ReplaceAll(s, old, new)
<1>1. /\ Len(s) \in Nat /\ DOMAIN s = 1 .. Len(s)
      /\ \A i \in 1 .. Len(s) : s[i] \in Range(s)
      /\ \A y \in Range(s) : \E i \in 1 .. Len(s) : s[i] = y
    BY SeqFacts
<1>2. /\ DOMAIN t = 1 .. Len(s)
      /\ \A i \in 1 .. Len(s) : t[i] = IF s[i] = old THEN new ELSE s[i]
      /\ t \in Seq((Range(s) \ {old}) \cup {new})
    BY <1>1 DEF ReplaceAll
<1> HIDE DEF t
<1>3. Range(t) = (Range(s) \ {old}) \cup {new}
    <2>1. Range(t) = {t[i] : i \in 1 .. Len(s)}
        BY <1>2 DEF Range
    <2>2. \A y \in Range(t) : y \in (Range(s) \ {old}) \cup {new}
        BY <1>1, <1>2, <2>1
    <2>3. \A y \in (Range(s) \ {old}) \cup {new} : y \in Range(t)
        BY <1>1, <1>2, <2>1
    <2> QED
        BY <2>2, <2>3
<1>4. IsSeq(t)
    BY <1>2, <1>3 DEF IsSeq
<1>5. IsInjective(t)
    BY <1>1, <1>2 DEF IsInjective
<1> QED
    BY <1>3, <1>4, <1>5 DEF t

\* What is left of a sequence without its first element.
LEMMA HeadTailFacts ==
    ASSUME NEW s, IsSeq(s), s # <<>>, IsInjective(s)
    PROVE  /\ Head(s) \in Range(s)
           /\ IsSeq(Tail(s))
           /\ Range(Tail(s)) = Range(s) \ {Head(s)}
<1>1. /\ Len(s) \in Nat /\ DOMAIN s = 1 .. Len(s)
      /\ \A i \in 1 .. Len(s) : s[i] \in Range(s)
      /\ \A y \in Range(s) : \E i \in 1 .. Len(s) : s[i] = y
    BY SeqFacts
<1> DEFINE t == Tail(s)
<1>2. /\ Head(s) = s[1] /\ 1 \in 1 .. Len(s)
      /\ DOMAIN t = 1 .. Len(s) - 1
      /\ \A i \in 1 .. Len(s) - 1 : t[i] = s[i + 1]
      /\ t \in Seq(Range(s))
    BY <1>1 DEF IsSeq
<1> HIDE DEF t
<1>3. Range(t) = Range(s) \ {Head(s)}
    <2>1. Range(t) = {t[i] : i \in 1 .. Len(s) - 1}
        BY <1>2 DEF Range
    <2>2. ASSUME NEW y \in Range(t) PROVE y \in Range(s) \ {Head(s)}
        <3>1. PICK i \in 1 .. Len(s) - 1 : y = s[i + 1]
            BY <1>2, <2>1, <2>2
        <3>2. i + 1 \in 1 .. Len(s) /\ i + 1 # 1
            BY <1>1
        <3> QED
            BY <1>1, <1>2, <3>1, <3>2 DEF IsInjective
    <2>3. ASSUME NEW y \in Range(s) \ {Head(s)} PROVE y \in Range(t)
        <3>1. PICK i \in 1 .. Len(s) : y = s[i]
            BY <1>1
        <3>2. i - 1 \in 1 .. Len(s) - 1 /\ (i - 1) + 1 = i
            BY <1>1, <1>2, <3>1
        <3> QED
            BY <1>2, <2>1, <3>1, <3>2
    <2> QED
        BY <2>2, <2>3
<1>4. IsSeq(t)
    <2>1. \A i \in 1 .. Len(s) - 1 : t[i] \in Range(t)
        BY <1>2 DEF Range
    <2>2. t = [i \in 1 .. Len(s) - 1 |-> t[i]]
        BY <1>1, <1>2
    <2>3. Len(s) - 1 \in Nat
        BY <1>1, <1>2
    <2> QED
        BY <2>1, <2>2, <2>3 DEF IsSeq
<1> QED
    BY <1>1, <1>2, <1>3, <1>4 DEF t

-----------------------------------------------------------------------------
(* Blocks and containers.                                                  *)

\* A container in which no block stands twice.
Proper(c) ==
    /\ IsContainer(c)
    /\ IsInjective(c)
    /\ \A a, b \in Range(c) : a.keys = b.keys => a = b

LEMMA BlockFacts ==
    ASSUME NEW b, IsBlock(b)
    PROVE  /\ IsSeq(b.keys) /\ KeysOf(b) \subseteq Keys
           /\ b.keys = <<>> <=> KeysOf(b) = {}
           /\ IsSnippet(b) <=> KeysOf(b) \cap Snippets # {}
           /\ IsSiteBlock(b) <=> KeysOf(b) # {} /\ KeysOf(b) \cap Snippets = {}
<1>1. IsSeq(b.keys) /\ KeysOf(b) \subseteq Keys
    BY SeqIsSeq DEF IsBlock, KeysOf
<1>2. /\ Len(b.keys) \in Nat /\ DOMAIN b.keys = 1 .. Len(b.keys)
      /\ \A i \in 1 .. Len(b.keys) : b.keys[i] \in KeysOf(b)
      /\ \A y \in KeysOf(b) : \E i \in 1 .. Len(b.keys) : b.keys[i] = y
      /\ b.keys = <<>> <=> KeysOf(b) = {}
    BY <1>1, SeqFacts DEF KeysOf
<1>3. IsSnippet(b) <=> KeysOf(b) \cap Snippets # {}
    <2>1. ASSUME IsSnippet(b) PROVE KeysOf(b) \cap Snippets # {}
        <3>1. b.keys[1] \in KeysOf(b) /\ KeysOf(b) \subseteq Snippets
            BY <1>2, <2>1 DEF IsSnippet
        <3> QED
            BY <3>1
    <2>2. ASSUME KeysOf(b) \cap Snippets # {} PROVE IsSnippet(b)
        <3>1. Len(b.keys) = 1
            BY <2>2 DEF IsBlock
        <3> QED
            BY <1>2, <2>2, <3>1 DEF IsSnippet
    <2> QED
        BY <2>1, <2>2
<1> QED
    BY <1>1, <1>2, <1>3 DEF IsSiteBlock, IsGlobalBlock

\* A block with another body.
LEMMA BodyUpdate ==
    ASSUME NEW b, IsBlock(b), NEW body
    PROVE  [b EXCEPT !.body = body] = [keys |-> b.keys, order |-> b.order, body |-> body]
    BY DEF IsBlock

LEMMA BodyFacts ==
    ASSUME NEW b, IsBlock(b), NEW body
    PROVE  /\ IsBlock([b EXCEPT !.body = body])
           /\ [b EXCEPT !.body = body].keys = b.keys
           /\ [b EXCEPT !.body = body].order = b.order
           /\ [b EXCEPT !.body = body].body = body
<1> DEFINE m == [b EXCEPT !.body = body]
<1>1. m = [keys |-> b.keys, order |-> b.order, body |-> body]
    BY BodyUpdate
<1> HIDE DEF m
<1>2. m.keys = b.keys /\ m.order = b.order /\ m.body = body
    BY <1>1
<1>3. IsBlock(m)
    BY <1>1, <1>2 DEF IsBlock, KeysOf
<1> QED
    BY <1>2, <1>3 DEF m

\* A snippet has one key.
LEMMA SnippetFacts ==
    ASSUME NEW a, IsBlock(a), NEW b, IsBlock(b), IsSnippet(b), SharesKey(a, b)
    PROVE  IsSnippet(a) /\ a.keys = b.keys
<1>1. PICK k \in KeysOf(a) : k \in KeysOf(b)
    BY DEF SharesKey
<1>2. IsSnippet(a)
    BY <1>1, BlockFacts DEF IsSnippet
<1>3. /\ a.keys \in Seq(Keys) /\ Len(a.keys) = 1 /\ a.keys[1] = k
      /\ b.keys \in Seq(Keys) /\ Len(b.keys) = 1 /\ b.keys[1] = k
    BY <1>1, <1>2 DEF IsBlock, IsSnippet, KeysOf, Range
<1>4. a.keys = <<k>> /\ b.keys = <<k>>
    BY <1>3
<1> QED
    BY <1>2, <1>4

LEMMA EmptyProper == Proper(<<>>)
    BY EmptyFacts DEF Proper, IsContainer, IsSeq

\* The directives of the blocks in S, and their keys.
Bodies(S)  == UNION {b.body : b \in S}
AllKeys(S) == UNION {KeysOf(b) : b \in S}

WithKeys(c, keys) == {a \in Range(c) : a.keys = keys}

\* MergeBlock leaves one block with the keys of b, at the first position.
LEMMA MergeBlockFacts ==
    ASSUME NEW c, Proper(c), NEW b, IsBlock(b)
    PROVE  /\ Proper(MergeBlock(c, b))
           /\ \E m : /\ IsBlock(m) /\ m.keys = b.keys
                     /\ m.order = b.order \/ \E a \in WithKeys(c, b.keys) : m.order = a.order
                     /\ m.body = b.body \cup Bodies(WithKeys(c, b.keys))
                     /\ Range(MergeBlock(c, b)) = (Range(c) \ WithKeys(c, b.keys)) \cup {m}
<1> DEFINE I == {i \in 1 .. Len(c) : c[i].keys = b.keys}
<1>1. IsSeq(c) /\ \A a \in Range(c) : IsBlock(a)
    BY DEF Proper, IsContainer, IsSeq
<1>2. /\ Len(c) \in Nat /\ DOMAIN c = 1 .. Len(c)
      /\ \A i \in 1 .. Len(c) : c[i] \in Range(c)
      /\ \A y \in Range(c) : \E i \in 1 .. Len(c) : c[i] = y
    BY <1>1, SeqFacts
<1>3. CASE I = {}
    <2>1. MergeBlock(c, b) = Append(c, b)
        BY <1>3 DEF MergeBlock, SelectInSeq
    <2>2. WithKeys(c, b.keys) = {}
        BY <1>2, <1>3 DEF WithKeys
    <2>3. b \notin Range(c) /\ \A a \in Range(c) : a.keys # b.keys
        BY <2>2 DEF WithKeys
    <2>4. /\ IsSeq(MergeBlock(c, b))
          /\ Range(MergeBlock(c, b)) = Range(c) \cup {b}
          /\ IsInjective(MergeBlock(c, b))
        BY <1>1, <2>1, <2>3, AppendFacts DEF Proper
    <2>5. Proper(MergeBlock(c, b))
        BY <1>1, <2>3, <2>4 DEF Proper, IsContainer, IsSeq
    <2>6. b.body = b.body \cup Bodies(WithKeys(c, b.keys))
        BY <2>2 DEF Bodies
    <2> QED
        BY <2>2, <2>4, <2>5, <2>6
<1>4. CASE I # {}
    <2> DEFINE i == Min(I)
               m == [c[i] EXCEPT !.body = @ \cup b.body]
               d == MergeBlock(c, b)
    <2>1. i \in I
        <3>1. I \in SUBSET Nat
            OBVIOUS
        <3> HIDE DEF I
        <3> QED
            BY <1>4, <3>1, MinFacts
    <2>2. d = [c EXCEPT ![i].body = @ \cup b.body]
        <3>1. i # 0
            BY <2>1
        <3> QED
            BY <1>4, <3>1 DEF MergeBlock, SelectInSeq
    <2> HIDE DEF I, i
    <2>3. i \in 1 .. Len(c) /\ c[i] \in Range(c) /\ c[i].keys = b.keys /\ IsBlock(c[i])
        BY <1>1, <1>2, <2>1 DEF I
    <2>4. /\ IsBlock(m) /\ m.keys = b.keys /\ m.order = c[i].order
          /\ m.body = c[i].body \cup b.body
        BY <2>3, BodyFacts
    <2>5. WithKeys(c, b.keys) = {c[i]}
        BY <2>3 DEF WithKeys, Proper
    <2>6. m.body = b.body \cup Bodies(WithKeys(c, b.keys))
        BY <2>4, <2>5 DEF Bodies
    <2>7. \A j \in 1 .. Len(c) : j # i => c[j] # c[i] /\ c[j].keys # b.keys
        BY <1>2, <2>3 DEF Proper, IsInjective
    <2>8. /\ DOMAIN d = 1 .. Len(c)
          /\ \A j \in 1 .. Len(c) : d[j] = IF j = i THEN m ELSE c[j]
          /\ d = [j \in 1 .. Len(c) |-> d[j]]
        BY <1>1, <1>2, <2>2, <2>3 DEF IsSeq
    <2> HIDE DEF m, d
    <2>9. Range(d) = (Range(c) \ {c[i]}) \cup {m}
        <3>1. Range(d) = {d[j] : j \in 1 .. Len(c)}
            BY <2>8 DEF Range
        <3>2. \A y \in Range(d) : y \in (Range(c) \ {c[i]}) \cup {m}
            BY <1>2, <2>7, <2>8, <3>1
        <3>3. \A y \in (Range(c) \ {c[i]}) \cup {m} : y \in Range(d)
            BY <1>2, <2>3, <2>8, <3>1
        <3> QED
            BY <3>2, <3>3
    <2>10. IsContainer(d)
        <3>1. d \in Seq(Range(d))
            BY <1>2, <2>8 DEF Range
        <3> QED
            BY <1>1, <2>4, <2>9, <3>1 DEF IsContainer
    <2>11. IsInjective(d)
        BY <1>2, <2>4, <2>7, <2>8 DEF IsInjective, Proper
    <2>12. \A x, y \in Range(d) : x.keys = y.keys => x = y
        <3>1. \A x \in Range(c) \ {c[i]} : x.keys # b.keys
            BY <1>2, <2>7
        <3> QED
            BY <2>4, <2>9, <3>1 DEF Proper
    <2> QED
        BY <2>4, <2>5, <2>6, <2>9, <2>10, <2>11, <2>12 DEF Proper, d
<1> QED
    BY <1>3, <1>4

-----------------------------------------------------------------------------
(* Merging of site blocks.                                                 *)

\* mergeSiteBlocks gives a site block with the addresses and the directives of
\* both, and no address twice.
LEMMA MergeSiteBlocksFacts ==
    ASSUME NEW t, IsBlock(t), IsSiteBlock(t), NEW b, IsBlock(b), IsSiteBlock(b)
    PROVE  LET m == MergeSiteBlocks(t, b)
           IN  /\ IsBlock(m) /\ IsSiteBlock(m)
               /\ KeysOf(m) = KeysOf(t) \cup KeysOf(b)
               /\ t.keys = b.keys => m.keys = b.keys
               /\ m.body = t.body \cup b.body
<1> DEFINE m    == MergeSiteBlocks(t, b)
           rest == Without(b.keys, KeysOf(t))
<1>1. /\ IsSeq(t.keys) /\ KeysOf(t) \subseteq Keys /\ IsInjective(t.keys)
      /\ IsSeq(b.keys) /\ KeysOf(b) \subseteq Keys /\ IsInjective(b.keys)
      /\ KeysOf(t) # {} /\ KeysOf(t) \cap Snippets = {}
      /\ KeysOf(b) # {} /\ KeysOf(b) \cap Snippets = {}
    BY BlockFacts DEF IsBlock
<1>2. /\ IsSeq(rest) /\ Range(rest) = KeysOf(b) \ KeysOf(t) /\ IsInjective(rest)
    BY <1>1, WithoutFacts DEF KeysOf
<1>3. /\ m = [keys |-> m.keys, order |-> m.order, body |-> m.body]
      /\ m.keys = t.keys \o rest /\ m.order = t.order /\ m.body = t.body \cup b.body
    BY DEF MergeSiteBlocks
<1> HIDE DEF m, rest
<1>4. /\ Len(t.keys) \in Nat /\ DOMAIN t.keys = 1 .. Len(t.keys)
      /\ Len(rest) \in Nat /\ DOMAIN rest = 1 .. Len(rest)
      /\ t.keys \in Seq(Keys) /\ rest \in Seq(Keys)
    <2>1. rest \in Seq(Range(rest)) /\ Range(rest) \subseteq Keys
        BY <1>1, <1>2 DEF IsSeq
    <2> QED
        BY <1>1, <1>2, <2>1, SeqFacts DEF IsBlock
<1>5. /\ m.keys \in Seq(Keys)
      /\ DOMAIN m.keys = 1 .. Len(t.keys) + Len(rest)
      /\ \A i \in 1 .. Len(t.keys) + Len(rest) :
            m.keys[i] = IF i <= Len(t.keys) THEN t.keys[i] ELSE rest[i - Len(t.keys)]
    BY <1>3, <1>4
<1>6. KeysOf(m) = KeysOf(t) \cup KeysOf(b)
    <2>1. ASSUME NEW k \in KeysOf(m) PROVE k \in KeysOf(t) \cup Range(rest)
        <3>1. PICK i \in 1 .. Len(t.keys) + Len(rest) : k = m.keys[i]
            BY <1>5, <2>1 DEF KeysOf, Range
        <3>2. CASE i <= Len(t.keys)
            <4>1. i \in DOMAIN t.keys /\ k = t.keys[i]
                BY <1>4, <1>5, <3>1, <3>2
            <4> QED
                BY <4>1 DEF KeysOf, Range
        <3>3. CASE ~(i <= Len(t.keys))
            <4>1. i - Len(t.keys) \in DOMAIN rest
                BY <1>4, <3>3
            <4>2. k = rest[i - Len(t.keys)]
                BY <1>5, <3>1, <3>3
            <4> QED
                BY <4>1, <4>2 DEF Range
        <3> QED
            BY <3>2, <3>3
    <2>2. ASSUME NEW k \in KeysOf(t) PROVE k \in KeysOf(m)
        <3>1. PICK i \in 1 .. Len(t.keys) : k = t.keys[i]
            BY <1>4, <2>2 DEF KeysOf, Range
        <3>2. i \in 1 .. Len(t.keys) + Len(rest) /\ k = m.keys[i]
            BY <1>4, <1>5, <3>1
        <3> QED
            BY <1>5, <3>2 DEF KeysOf, Range
    <2>3. ASSUME NEW k \in Range(rest) PROVE k \in KeysOf(m)
        <3>1. PICK i \in 1 .. Len(rest) : k = rest[i]
            BY <1>4, <2>3 DEF Range
        <3>2. i + Len(t.keys) \in 1 .. Len(t.keys) + Len(rest) /\ ~(i + Len(t.keys) <= Len(t.keys))
              /\ (i + Len(t.keys)) - Len(t.keys) = i
            BY <1>4
        <3>3. m.keys[i + Len(t.keys)] = k
            BY <1>5, <3>1, <3>2
        <3> QED
            BY <1>5, <3>2, <3>3 DEF KeysOf, Range
    <2> QED
        BY <1>2, <2>1, <2>2, <2>3
<1>7. IsInjective(m.keys)
    <2>1. \A i \in 1 .. Len(t.keys), j \in 1 .. Len(rest) : t.keys[i] # rest[j]
        BY <1>2, <1>4 DEF KeysOf, Range
    <2>2. SUFFICES ASSUME NEW i \in 1 .. Len(t.keys) + Len(rest),
                          NEW j \in 1 .. Len(t.keys) + Len(rest),
                          m.keys[i] = m.keys[j]
                   PROVE  i = j
        BY <1>5 DEF IsInjective
    <2>3. CASE i <= Len(t.keys) /\ j <= Len(t.keys)
        <3>1. /\ i \in 1 .. Len(t.keys) /\ j \in 1 .. Len(t.keys)
              /\ t.keys[i] = t.keys[j]
            BY <1>4, <1>5, <2>2, <2>3
        <3> QED
            BY <1>1, <1>4, <3>1 DEF IsInjective
    <2>4. CASE ~(i <= Len(t.keys)) /\ ~(j <= Len(t.keys))
        <3>1. /\ i - Len(t.keys) \in 1 .. Len(rest) /\ j - Len(t.keys) \in 1 .. Len(rest)
              /\ rest[i - Len(t.keys)] = rest[j - Len(t.keys)]
            BY <1>4, <1>5, <2>2, <2>4
        <3>2. i - Len(t.keys) = j - Len(t.keys)
            BY <1>2, <1>4, <3>1 DEF IsInjective
        <3> QED
            BY <1>4, <3>2
    <2>5. ASSUME NEW p \in 1 .. Len(t.keys) + Len(rest),
                 NEW q \in 1 .. Len(t.keys) + Len(rest),
                 p <= Len(t.keys), ~(q <= Len(t.keys))
          PROVE  m.keys[p] # m.keys[q]
        <3>1. p \in 1 .. Len(t.keys) /\ q - Len(t.keys) \in 1 .. Len(rest)
            BY <1>4, <2>5
        <3> QED
            BY <1>5, <2>1, <2>5, <3>1
    <2>6. i <= Len(t.keys) <=> j <= Len(t.keys)
        BY <2>2, <2>5
    <2> QED
        BY <2>3, <2>4, <2>6
<1>8. IsBlock(m)
    BY <1>1, <1>3, <1>5, <1>6, <1>7 DEF IsBlock
<1>9. IsSiteBlock(m)
    BY <1>1, <1>6, <1>8, BlockFacts
<1>10. ASSUME t.keys = b.keys PROVE m.keys = b.keys
    <2>1. rest = <<>>
        BY <1>2, <1>10, SeqFacts DEF KeysOf
    <2> QED
        BY <1>3, <1>4, <1>10, <2>1
<1> QED
    BY <1>3, <1>6, <1>8, <1>9, <1>10 DEF m


\* Its fold over the blocks that the first of them takes over.
LEMMA MergeExtrasFacts ==
    ASSUME NEW t, IsBlock(t), IsSiteBlock(t), NEW s, IsSeq(s),
           \A b \in Range(s) : IsBlock(b) /\ IsSiteBlock(b)
    PROVE  LET m == FoldLeft(MergeSiteBlocks, t, s)
           IN  /\ IsBlock(m) /\ IsSiteBlock(m)
               /\ KeysOf(m) = KeysOf(t) \cup AllKeys(Range(s))
               /\ m.body = t.body \cup Bodies(Range(s))
               /\ s = <<>> => m = t
<1>1. /\ Len(s) \in Nat /\ DOMAIN s = 1 .. Len(s)
      /\ \A i \in 1 .. Len(s) : s[i] \in Range(s)
      /\ \A y \in Range(s) : \E i \in 1 .. Len(s) : s[i] = y
    BY SeqFacts
<1>2. PICK f : /\ f[0] = t
               /\ \A i \in 1 .. Len(s) : f[i] = MergeSiteBlocks(f[i - 1], s[i])
               /\ f[Len(s)] = FoldLeft(MergeSiteBlocks, t, s)
    BY <1>1, MergingExtrasSteps
<1> DEFINE First(i) == {s[j] : j \in 1 .. i}
           P(i) == /\ IsBlock(f[i]) /\ IsSiteBlock(f[i])
                   /\ KeysOf(f[i]) = KeysOf(t) \cup AllKeys(First(i))
                   /\ f[i].body = t.body \cup Bodies(First(i))
           I == {i \in 0 .. Len(s) : P(i)}
<1>3. P(0)
    <2>1. First(0) = {}
        OBVIOUS
    <2> HIDE DEF First
    <2> QED
        BY <1>2, <2>1 DEF AllKeys, Bodies
<1>4. ASSUME NEW i \in 0 .. Len(s) - 1, P(i) PROVE P(i + 1)
    <2>1. /\ i + 1 \in 1 .. Len(s) /\ (i + 1) - 1 = i
          /\ First(i + 1) = First(i) \cup {s[i + 1]}
        BY <1>1
    <2>2. IsBlock(s[i + 1]) /\ IsSiteBlock(s[i + 1])
        BY <1>1, <2>1
    <2>3. f[i + 1] = MergeSiteBlocks(f[i], s[i + 1])
        BY <1>2, <2>1
    <2> HIDE DEF First
    <2>4. /\ IsBlock(f[i + 1]) /\ IsSiteBlock(f[i + 1])
          /\ KeysOf(f[i + 1]) = KeysOf(f[i]) \cup KeysOf(s[i + 1])
          /\ f[i + 1].body = f[i].body \cup s[i + 1].body
        BY <1>4, <2>2, <2>3, MergeSiteBlocksFacts
    <2>5. /\ AllKeys(First(i + 1)) = AllKeys(First(i)) \cup KeysOf(s[i + 1])
          /\ Bodies(First(i + 1)) = Bodies(First(i)) \cup s[i + 1].body
        BY <2>1 DEF AllKeys, Bodies
    <2> QED
        BY <1>4, <2>4, <2>5
<1>5. 0 \in I /\ \A i \in 0 .. Len(s) - 1 : i \in I => i + 1 \in I
    <2> HIDE DEF P
    <2> QED
        BY <1>1, <1>3, <1>4
<1>6. P(Len(s))
    <2>1. \A i \in 0 .. Len(s) : i \in I
        <3> HIDE DEF I
        <3> QED
            BY <1>1, <1>5, Selecting!Induction
    <2> HIDE DEF P
    <2> QED
        BY <1>1, <2>1
<1>7. First(Len(s)) = Range(s)
    BY <1>1
<1> HIDE DEF First
<1>8. s = <<>> => f[Len(s)] = t
    BY <1>2
<1> QED
    BY <1>2, <1>6, <1>7, <1>8

\* The site blocks that share a key with b.
Sharing(c, b) == {a \in Range(c) : IsSiteBlock(a) /\ SharesKey(a, b)}

\* MergeSite leaves one site block with what is in b, and in all the site
\* blocks that share a key with b.
LEMMA MergeSiteFacts ==
    ASSUME NEW c, Proper(c), NEW b, IsBlock(b), IsSiteBlock(b)
    PROVE  /\ Proper(MergeSite(c, b))
           /\ \E m : /\ IsBlock(m) /\ IsSiteBlock(m)
                     /\ KeysOf(m) = KeysOf(b) \cup AllKeys(Sharing(c, b))
                     /\ (\A a \in Sharing(c, b) : a.keys = b.keys) => m.keys = b.keys
                     /\ m.body = b.body \cup Bodies(Sharing(c, b))
                     /\ Range(MergeSite(c, b)) = (Range(c) \ Sharing(c, b)) \cup {m}
<1> DEFINE matches == Overlapping(c, b)
           first   == Head(matches)
           extras  == Tail(matches)
           kept    == Without(c, Range(extras))
           m       == FoldLeft(MergeSiteBlocks, MergeSiteBlocks(first, b), extras)
           d       == MergeSite(c, b)
<1>1. IsSeq(c) /\ IsInjective(c) /\ \A a \in Range(c) : IsBlock(a)
    BY DEF Proper, IsContainer, IsSeq
<1>2. IsSeq(matches) /\ IsInjective(matches) /\ Range(matches) = Sharing(c, b)
    <2>1. Sharing(c, b) \cap Range(c) = Sharing(c, b)
        BY DEF Sharing
    <2>2. Overlapping(c, b) = Only(c, Sharing(c, b))
        BY DEF Overlapping, Sharing
    <2> QED
        BY <1>1, <2>1, <2>2, OnlyFacts
<1>3. CASE matches = <<>>
    <2>1. Sharing(c, b) = {}
        BY <1>2, <1>3, EmptyFacts
    <2>2. d = MergeBlock(c, b)
        BY <1>3 DEF MergeSite
    <2>3. WithKeys(c, b.keys) = {}
        <3> SUFFICES ASSUME NEW a \in Range(c), a.keys = b.keys PROVE FALSE
            BY DEF WithKeys
        <3>1. KeysOf(a) = KeysOf(b) /\ KeysOf(b) # {} /\ IsBlock(a) /\ IsSiteBlock(a)
            BY <1>1, BlockFacts DEF KeysOf, IsSiteBlock, IsGlobalBlock, IsSnippet
        <3> QED
            BY <2>1, <3>1 DEF Sharing, SharesKey
    <2>4. PICK x : /\ IsBlock(x) /\ x.keys = b.keys
                   /\ x.order = b.order \/ \E a \in WithKeys(c, b.keys) : x.order = a.order
                   /\ x.body = b.body \cup Bodies(WithKeys(c, b.keys))
                   /\ Range(MergeBlock(c, b)) = (Range(c) \ WithKeys(c, b.keys)) \cup {x}
        BY MergeBlockFacts
    <2>5. /\ IsSiteBlock(x) /\ KeysOf(x) = KeysOf(b) \cup AllKeys(Sharing(c, b))
          /\ x.body = b.body \cup Bodies(Sharing(c, b))
          /\ Range(d) = (Range(c) \ Sharing(c, b)) \cup {x}
        BY <2>1, <2>2, <2>3, <2>4 DEF KeysOf, IsSiteBlock, IsGlobalBlock, IsSnippet, AllKeys, Bodies
    <2>6. Proper(d)
        BY <2>2, MergeBlockFacts
    <2> QED
        BY <2>4, <2>5, <2>6
<1>4. CASE matches # <<>>
    <2>1. d = ReplaceAll(kept, first, m)
        BY <1>4 DEF MergeSite, MergeOverlapping
    <2>2. /\ first \in Sharing(c, b)
          /\ IsSeq(extras) /\ Range(extras) = Sharing(c, b) \ {first}
        BY <1>2, <1>4, HeadTailFacts
    <2> HIDE DEF first, extras, matches
    <2>3. \A a \in Sharing(c, b) : a \in Range(c) /\ IsBlock(a) /\ IsSiteBlock(a)
        BY <1>1 DEF Sharing
    <2>4. /\ IsSeq(kept) /\ Range(kept) = Range(c) \ Range(extras)
          /\ IsInjective(kept)
        BY <1>1, WithoutFacts
    <2>5. /\ IsBlock(MergeSiteBlocks(first, b)) /\ IsSiteBlock(MergeSiteBlocks(first, b))
          /\ KeysOf(MergeSiteBlocks(first, b)) = KeysOf(first) \cup KeysOf(b)
          /\ first.keys = b.keys => MergeSiteBlocks(first, b).keys = b.keys
          /\ MergeSiteBlocks(first, b).body = first.body \cup b.body
        BY <2>2, <2>3, MergeSiteBlocksFacts
    <2>6. /\ IsBlock(m) /\ IsSiteBlock(m)
          /\ KeysOf(m) = KeysOf(MergeSiteBlocks(first, b)) \cup AllKeys(Range(extras))
          /\ m.body = MergeSiteBlocks(first, b).body \cup Bodies(Range(extras))
          /\ extras = <<>> => m = MergeSiteBlocks(first, b)
        BY <2>2, <2>3, <2>5, MergeExtrasFacts
    <2> HIDE DEF m, kept
    <2>7. /\ KeysOf(m) = KeysOf(b) \cup AllKeys(Sharing(c, b))
          /\ m.body = b.body \cup Bodies(Sharing(c, b))
        BY <2>2, <2>5, <2>6 DEF AllKeys, Bodies
    \* What has the keys of m shares a key with b.
    <2>8. \A a \in Range(kept) \ {first} : a.keys # m.keys
        <3> SUFFICES ASSUME NEW a \in Range(kept) \ {first}, a.keys = m.keys PROVE FALSE
            OBVIOUS
        <3>1. KeysOf(a) = KeysOf(m) /\ IsSiteBlock(a) /\ a \in Range(c)
            BY <2>4, <2>6 DEF KeysOf, IsSiteBlock, IsGlobalBlock, IsSnippet
        <3>2. KeysOf(b) # {}
            BY BlockFacts
        <3>3. a \in Sharing(c, b)
            BY <2>7, <3>1, <3>2 DEF Sharing, SharesKey
        <3> QED
            BY <2>2, <2>4, <3>3
    <2>9. /\ IsSeq(d) /\ IsInjective(d)
          /\ Range(d) = (Range(kept) \ {first}) \cup {m}
        <3>1. first \in Range(kept) /\ m \notin Range(kept) \ {first}
            BY <2>2, <2>3, <2>4, <2>8
        <3> QED
            BY <2>1, <2>4, <3>1, ReplaceFacts
    <2>10. Range(d) = (Range(c) \ Sharing(c, b)) \cup {m}
        BY <2>2, <2>4, <2>9
    <2>11. Proper(d)
        <3>1. \A x, y \in Range(d) : x.keys = y.keys => x = y
            BY <2>4, <2>8, <2>9 DEF Proper
        <3> QED
            BY <1>1, <2>6, <2>9, <2>10, <3>1 DEF Proper, IsContainer, IsSeq
    <2>12. ASSUME \A a \in Sharing(c, b) : a.keys = b.keys PROVE m.keys = b.keys
        <3>1. Range(extras) = {}
            BY <2>2, <2>3, <2>12 DEF Proper
        <3>2. extras = <<>>
            BY <2>2, <3>1, SeqFacts
        <3> QED
            BY <2>2, <2>5, <2>6, <2>12, <3>2
    <2> QED
        BY <2>6, <2>7, <2>10, <2>11, <2>12
<1> QED
    BY <1>3, <1>4


-----------------------------------------------------------------------------
(* What containers are made of.                                            *)

\* The container c has merged the blocks X, by their keys.
MergedBlocks(c, X) ==
    /\ Proper(c)
    /\ \A b \in X : IsBlock(b)
    /\ \A b \in X : \E a \in Range(c) : a.keys = b.keys /\ b.body \subseteq a.body
    /\ \A a \in Range(c) : \E b \in X : b.keys = a.keys /\ b.order = a.order
    /\ \A a \in Range(c) : \A d \in a.body : \E b \in X : b.keys = a.keys /\ d \in b.body

AllSpelled(X) == \A b \in X : IsSpelled(b, X)

\* The container c has merged the blocks X, and site blocks that share a key.
MergedSites(c, X) ==
    /\ Proper(c)
    /\ \A b \in X : IsBlock(b)
    /\ \A b \in X : \E a \in Range(c) : KeysOf(b) \subseteq KeysOf(a) /\ b.body \subseteq a.body
    /\ \A a \in Range(c) : \A d \in a.body :
          \E b \in X : (IsSnippet(a) => b.keys = a.keys) /\ d \in b.body
    /\ \A a, b \in Range(c) : SharesKey(a, b) => a = b
    /\ \A a \in Range(c) : \A k \in KeysOf(a) : \E b \in X : k \in KeysOf(b)
    /\ AllSpelled(X) => \A a \in Range(c) : IsLiteral(a) \/ \E b \in X : b.keys = a.keys

LEMMA NothingMerged == MergedBlocks(<<>>, {})
    BY EmptyProper, EmptyFacts DEF MergedBlocks

\* Where no two blocks share a key, unless all, merging by keys is enough.
LEMMA MergedOnce ==
    ASSUME NEW c, NEW X, MergedBlocks(c, X),
           \A a, b \in X : SharesKey(a, b) => a.keys = b.keys
    PROVE  MergedSites(c, X)
<1>1. ASSUME NEW a \in Range(c), NEW b \in Range(c), SharesKey(a, b) PROVE a = b
    <2>1. PICK x \in X : x.keys = a.keys
        BY DEF MergedBlocks
    <2>2. PICK y \in X : y.keys = b.keys
        BY DEF MergedBlocks
    <2>3. SharesKey(x, y)
        BY <1>1, <2>1, <2>2 DEF SharesKey, KeysOf
    <2> QED
        BY <2>1, <2>2, <2>3 DEF MergedBlocks, Proper
<1>2. \A b \in X : \E a \in Range(c) : KeysOf(b) \subseteq KeysOf(a) /\ b.body \subseteq a.body
    BY DEF MergedBlocks, KeysOf
<1>3. ASSUME NEW a \in Range(c), NEW k \in KeysOf(a) PROVE \E b \in X : k \in KeysOf(b)
    BY DEF MergedBlocks, KeysOf
<1> QED
    BY <1>1, <1>2, <1>3 DEF MergedBlocks, MergedSites

\* What is merged does not depend on the order of merging, but for the position
\* of blocks with the same keys.
LEMMA MergedWithin ==
    ASSUME NEW c, NEW e, NEW X, MergedBlocks(c, X), MergedBlocks(e, X),
           \A a, b \in X : a.keys = b.keys => a.order = b.order,
           NEW a \in Range(c), NEW b \in Range(e), a.keys = b.keys
    PROVE  a.order = b.order /\ a.body \subseteq b.body
<1>1. a.order = b.order
    <2>1. PICK x \in X : x.keys = a.keys /\ x.order = a.order
        BY DEF MergedBlocks
    <2>2. PICK y \in X : y.keys = b.keys /\ y.order = b.order
        BY DEF MergedBlocks
    <2> QED
        BY <2>1, <2>2
<1>2. ASSUME NEW d \in a.body PROVE d \in b.body
    <2>1. PICK z \in X : z.keys = a.keys /\ d \in z.body
        BY DEF MergedBlocks
    <2>2. PICK w \in Range(e) : w.keys = z.keys /\ z.body \subseteq w.body
        BY DEF MergedBlocks
    <2>3. w = b
        BY <2>1, <2>2 DEF MergedBlocks, Proper
    <2> QED
        BY <2>1, <2>2, <2>3
<1> QED
    BY <1>1, <1>2

LEMMA MergedIncluded ==
    ASSUME NEW c, NEW e, NEW X, MergedBlocks(c, X), MergedBlocks(e, X),
           \A a, b \in X : a.keys = b.keys => a.order = b.order
    PROVE  Range(c) \subseteq Range(e)
<1> SUFFICES ASSUME NEW a \in Range(c) PROVE a \in Range(e)
    OBVIOUS
<1>1. PICK x \in X : x.keys = a.keys
    BY DEF MergedBlocks
<1>2. PICK b \in Range(e) : b.keys = x.keys
    BY DEF MergedBlocks
<1>3. a.keys = b.keys
    BY <1>1, <1>2
<1>4. a.order = b.order /\ a.body \subseteq b.body
    BY <1>3, MergedWithin
<1>5. b.body \subseteq a.body
    BY <1>3, MergedWithin
<1>6. IsBlock(a) /\ IsBlock(b)
    BY DEF MergedBlocks, Proper, IsContainer
<1>7. a = [keys |-> b.keys, order |-> b.order, body |-> b.body]
    BY <1>3, <1>4, <1>5, <1>6 DEF IsBlock
<1> QED
    BY <1>6, <1>7 DEF IsBlock

LEMMA MergedSame ==
    ASSUME NEW c, NEW e, NEW X, MergedBlocks(c, X), MergedBlocks(e, X),
           \A a, b \in X : a.keys = b.keys => a.order = b.order
    PROVE  Range(c) = Range(e)
<1>1. Range(c) \subseteq Range(e) /\ Range(e) \subseteq Range(c)
    BY MergedIncluded
<1> QED
    BY <1>1

LEMMA MergeBlockMerges ==
    ASSUME NEW c, NEW X, MergedBlocks(c, X), NEW b, IsBlock(b)
    PROVE  MergedBlocks(MergeBlock(c, b), X \cup {b})
<1> DEFINE d == MergeBlock(c, b)
           old == WithKeys(c, b.keys)
<1>0. Proper(c)
    BY DEF MergedBlocks
<1>1. Proper(d)
    BY <1>0, MergeBlockFacts
<1>2. PICK m : /\ IsBlock(m) /\ m.keys = b.keys
               /\ m.order = b.order \/ \E a \in old : m.order = a.order
               /\ m.body = b.body \cup Bodies(old)
               /\ Range(d) = (Range(c) \ old) \cup {m}
    BY <1>0, MergeBlockFacts
<1>3. /\ \A a \in old : a \in Range(c) /\ a.keys = b.keys /\ a.body \subseteq m.body
      /\ \A x \in m.body : x \in b.body \/ \E a \in old : x \in a.body
    BY <1>2 DEF WithKeys, Bodies
<1> HIDE DEF d, old
<1>4. \A x \in X \cup {b} : \E a \in Range(d) : a.keys = x.keys /\ x.body \subseteq a.body
    <2>1. ASSUME NEW x \in X PROVE \E a \in Range(d) : a.keys = x.keys /\ x.body \subseteq a.body
        <3>1. PICK a \in Range(c) : a.keys = x.keys /\ x.body \subseteq a.body
            BY DEF MergedBlocks
        <3>2. CASE a \in old
            BY <1>2, <1>3, <3>1, <3>2
        <3>3. CASE a \notin old
            BY <1>2, <3>1, <3>3
        <3> QED
            BY <3>2, <3>3
    <2> QED
        BY <1>2, <2>1
<1>5. \A a \in Range(d) : \E x \in X \cup {b} : x.keys = a.keys /\ x.order = a.order
    <2>1. ASSUME NEW a \in Range(c)
          PROVE  \E x \in X \cup {b} : x.keys = a.keys /\ x.order = a.order
        BY DEF MergedBlocks
    <2>2. \E x \in X \cup {b} : x.keys = m.keys /\ x.order = m.order
        <3>1. CASE m.order = b.order
            BY <1>2, <3>1
        <3>2. CASE \E a \in old : m.order = a.order
            <4>1. PICK a \in old : m.order = a.order
                BY <3>2
            <4> QED
                BY <1>2, <1>3, <2>1, <4>1
        <3> QED
            BY <1>2, <3>1, <3>2
    <2> QED
        BY <1>2, <2>1, <2>2
<1>6. ASSUME NEW a \in Range(d), NEW e \in a.body
      PROVE  \E x \in X \cup {b} : x.keys = a.keys /\ e \in x.body
    <2>1. CASE a = m
        BY <1>2, <1>3, <2>1 DEF MergedBlocks
    <2>2. CASE a \in Range(c)
        BY <2>2 DEF MergedBlocks
    <2> QED
        BY <1>2, <2>1, <2>2
<1> QED
    BY <1>1, <1>4, <1>5, <1>6 DEF MergedBlocks, d

\* A container where the block m takes the place of the blocks old, and of
\* nothing else, and brings in b.
Replaces(d, c, old, m, b) ==
    /\ old \subseteq Range(c)
    /\ IsBlock(m)
    /\ KeysOf(b) \subseteq KeysOf(m) /\ b.body \subseteq m.body
    /\ \A a \in old : KeysOf(a) \subseteq KeysOf(m) /\ a.body \subseteq m.body
    /\ \A x \in m.body : x \in b.body \/ \E a \in old : x \in a.body
    /\ IsSnippet(m) => m.keys = b.keys /\ \A a \in old : a.keys = m.keys
    /\ \A k \in KeysOf(m) : k \in KeysOf(b) \/ \E a \in old : k \in KeysOf(a)
    /\ \A a \in old : SharesKey(a, b) \/ a.keys = b.keys
    /\ (\A a \in old : a.keys = b.keys) => m.keys = b.keys
    /\ \A a \in Range(c) \ old : ~SharesKey(a, m)
    /\ Range(d) = (Range(c) \ old) \cup {m}

\* The blocks that are merged write an address all in the same way, or have the
\* same keys.
LEMMA ReplacedLiteral ==
    ASSUME NEW c, NEW X, MergedSites(c, X), NEW b, IsBlock(b),
           NEW d, NEW old, NEW m, Replaces(d, c, old, m, b), AllSpelled(X \cup {b})
    PROVE  IsLiteral(m) \/ m.keys = b.keys
<1>1. ASSUME NEW a \in old, a.keys # b.keys PROVE IsLiteral(a) /\ IsLiteral(b)
    <2>1. SharesKey(a, b) /\ a \in Range(c)
        BY <1>1 DEF Replaces
    <2>2. PICK k \in KeysOf(a) : k \in KeysOf(b)
        BY <2>1 DEF SharesKey
    <2>3. PICK x \in X : k \in KeysOf(x)
        BY <2>1, <2>2 DEF MergedSites
    <2>4. \A y \in X : k \in KeysOf(y) /\ y.keys # b.keys => IsLiteral(y) /\ IsLiteral(b)
        BY <2>2 DEF AllSpelled, IsSpelled, AddressesOf
    <2>5. AllSpelled(X)
        BY DEF AllSpelled, IsSpelled
    <2>6. CASE \E y \in X : y.keys = a.keys
        <3>1. PICK y \in X : y.keys = a.keys
            BY <2>6
        <3>2. KeysOf(y) = KeysOf(a)
            BY <3>1 DEF KeysOf
        <3>3. IsLiteral(y) /\ IsLiteral(b)
            BY <1>1, <2>2, <2>4, <3>1, <3>2
        <3> QED
            BY <3>2, <3>3 DEF IsLiteral
    <2>7. CASE IsLiteral(a)
        <3>1. CASE x.keys # b.keys
            BY <2>3, <2>4, <2>7, <3>1
        <3>2. CASE x.keys = b.keys
            <4>1. PICK e \in Range(c) : KeysOf(x) \subseteq KeysOf(e)
                BY DEF MergedSites
            <4>2. SharesKey(e, a)
                BY <2>2, <2>3, <4>1 DEF SharesKey
            <4>3. KeysOf(b) \subseteq KeysOf(a)
                BY <2>1, <3>2, <4>1, <4>2 DEF MergedSites, KeysOf
            <4> QED
                BY <2>7, <4>3 DEF IsLiteral
        <3> QED
            BY <3>1, <3>2
    <2> QED
        BY <2>1, <2>5, <2>6, <2>7 DEF MergedSites
<1>2. CASE \A a \in old : a.keys = b.keys
    BY <1>2 DEF Replaces
<1>3. CASE \E y \in old : y.keys # b.keys
    <2>1. IsLiteral(b)
        BY <1>1, <1>3
    <2>2. \A a \in old : IsLiteral(a)
        BY <1>1, <2>1 DEF IsLiteral, KeysOf
    <2>3. \A k \in KeysOf(m) : Address(k) = k
        BY <2>1, <2>2 DEF Replaces, IsLiteral
    <2> QED
        BY <2>3 DEF IsLiteral
<1> QED
    BY <1>2, <1>3

LEMMA ReplacedMerges ==
    ASSUME NEW c, NEW X, MergedSites(c, X), NEW b, IsBlock(b),
           NEW d, Proper(d), NEW old, NEW m, Replaces(d, c, old, m, b)
    PROVE  MergedSites(d, X \cup {b})
<1>0. AllSpelled(X \cup {b}) => IsLiteral(m) \/ m.keys = b.keys
    BY ReplacedLiteral
<1> USE DEF Replaces
<1>1. \A x \in X \cup {b} : \E a \in Range(d) : KeysOf(x) \subseteq KeysOf(a) /\ x.body \subseteq a.body
    <2>1. ASSUME NEW x \in X
          PROVE  \E a \in Range(d) : KeysOf(x) \subseteq KeysOf(a) /\ x.body \subseteq a.body
        <3>1. PICK a \in Range(c) : KeysOf(x) \subseteq KeysOf(a) /\ x.body \subseteq a.body
            BY DEF MergedSites
        <3>2. CASE a \in old
            <4>1. KeysOf(x) \subseteq KeysOf(m) /\ x.body \subseteq m.body
                BY <3>1, <3>2
            <4> QED
                BY <4>1
        <3>3. CASE a \notin old
            BY <3>1, <3>3
        <3> QED
            BY <3>2, <3>3
    <2> QED
        BY <2>1
<1>2. ASSUME NEW a \in Range(d), NEW e \in a.body
      PROVE  \E x \in X \cup {b} : (IsSnippet(a) => x.keys = a.keys) /\ e \in x.body
    <2>1. CASE a = m
        <3>1. CASE e \in b.body
            BY <2>1, <3>1
        <3>2. CASE \E y \in old : e \in y.body
            <4>1. PICK y \in old : e \in y.body
                BY <3>2
            <4>2. PICK x \in X : (IsSnippet(y) => x.keys = y.keys) /\ e \in x.body
                BY <4>1 DEF MergedSites
            <4>3. IsSnippet(a) => a.keys = y.keys /\ IsSnippet(y)
                BY <2>1, <4>1 DEF IsSnippet, KeysOf
            <4> QED
                BY <4>2, <4>3
        <3> QED
            BY <1>2, <2>1, <3>1, <3>2
    <2>2. CASE a \in Range(c)
        BY <2>2 DEF MergedSites
    <2> QED
        BY <2>1, <2>2
<1>3. ASSUME NEW x \in Range(d), NEW y \in Range(d), SharesKey(x, y) PROVE x = y
    <2>1. SharesKey(y, x)
        BY <1>3 DEF SharesKey
    <2> QED
        BY <1>3, <2>1 DEF MergedSites
<1>4. \A x \in X \cup {b} : IsBlock(x)
    BY DEF MergedSites
<1>5. ASSUME NEW a \in Range(d), NEW k \in KeysOf(a)
      PROVE  \E x \in X \cup {b} : k \in KeysOf(x)
    <2>1. ASSUME NEW e \in Range(c), k \in KeysOf(e) PROVE \E x \in X : k \in KeysOf(x)
        BY <2>1 DEF MergedSites
    <2> QED
        BY <1>5, <2>1
<1>6. ASSUME AllSpelled(X \cup {b}), NEW a \in Range(d)
      PROVE  IsLiteral(a) \/ \E x \in X \cup {b} : x.keys = a.keys
    <2>1. AllSpelled(X)
        BY <1>6 DEF AllSpelled, IsSpelled
    <2> QED
        BY <1>0, <1>6, <2>1 DEF MergedSites
<1> QED
    BY <1>1, <1>2, <1>3, <1>4, <1>5, <1>6 DEF MergedSites

LEMMA MergeSiteMerges ==
    ASSUME NEW c, NEW X, MergedSites(c, X), NEW b, IsBlock(b)
    PROVE  MergedSites(MergeSite(c, b), X \cup {b})
<1> DEFINE d == MergeSite(c, b)
<1>0. Proper(c)
    BY DEF MergedSites
<1>1. CASE IsSiteBlock(b)
    <2> DEFINE old == Sharing(c, b)
    <2>1. Proper(d)
        BY <1>0, <1>1, MergeSiteFacts
    <2>2. PICK m : /\ IsBlock(m) /\ IsSiteBlock(m)
                   /\ KeysOf(m) = KeysOf(b) \cup AllKeys(old)
                   /\ (\A a \in old : a.keys = b.keys) => m.keys = b.keys
                   /\ m.body = b.body \cup Bodies(old)
                   /\ Range(d) = (Range(c) \ old) \cup {m}
        BY <1>0, <1>1, MergeSiteFacts
    <2>3. old \in SUBSET Range(c)
        BY DEF Sharing
    <2>4. /\ \A a \in old : KeysOf(a) \subseteq KeysOf(m) /\ a.body \subseteq m.body
          /\ KeysOf(b) \subseteq KeysOf(m) /\ b.body \subseteq m.body
          /\ \A x \in m.body : x \in b.body \/ \E a \in old : x \in a.body
          /\ ~IsSnippet(m)
          /\ \A k \in KeysOf(m) : k \in KeysOf(b) \/ \E a \in old : k \in KeysOf(a)
          /\ \A a \in old : SharesKey(a, b)
        BY <2>2 DEF AllKeys, Bodies, IsSiteBlock, Sharing
    <2>5. ASSUME NEW a \in Range(c) \ old, SharesKey(a, m) PROVE FALSE
        <3>1. PICK k \in KeysOf(a) : k \in KeysOf(m)
            BY <2>5 DEF SharesKey
        <3>2. CASE k \in KeysOf(b)
            <4>1. IsBlock(a) /\ k \notin Snippets
                BY <1>1, <3>2, BlockFacts DEF MergedSites, Proper, IsContainer
            <4>2. ~IsSnippet(a) /\ IsSiteBlock(a)
                BY <3>1, <4>1, BlockFacts DEF IsSnippet
            <4> QED
                BY <2>5, <3>1, <3>2, <4>2 DEF Sharing, SharesKey
        <3>3. CASE k \in AllKeys(old)
            <4>1. PICK y \in old : k \in KeysOf(y)
                BY <3>3 DEF AllKeys
            <4>2. y \in Range(c) /\ SharesKey(a, y)
                BY <2>3, <3>1, <4>1 DEF SharesKey
            <4> QED
                BY <2>5, <4>1, <4>2 DEF MergedSites
        <3> QED
            BY <2>2, <3>1, <3>2, <3>3
    <2> HIDE DEF old, d
    <2>6. Replaces(d, c, old, m, b)
        BY <2>2, <2>3, <2>4, <2>5 DEF Replaces
    <2> QED
        BY <2>1, <2>6, ReplacedMerges DEF d
<1>2. CASE ~IsSiteBlock(b)
    <2> DEFINE old == WithKeys(c, b.keys)
    <2>1. d = MergeBlock(c, b)
        BY <1>2 DEF MergeSite
    <2>2. Proper(d)
        BY <1>0, <2>1, MergeBlockFacts
    <2>3. PICK m : /\ IsBlock(m) /\ m.keys = b.keys
                   /\ m.order = b.order \/ \E a \in old : m.order = a.order
                   /\ m.body = b.body \cup Bodies(old)
                   /\ Range(MergeBlock(c, b)) = (Range(c) \ old) \cup {m}
        BY <1>0, MergeBlockFacts
    <2>4. /\ old \in SUBSET Range(c)
          /\ \A a \in old : a.keys = b.keys /\ a.body \subseteq m.body
          /\ \A x \in m.body : x \in b.body \/ \E a \in old : x \in a.body
        BY <2>3 DEF WithKeys, Bodies
    <2>5. KeysOf(m) = KeysOf(b) /\ \A a \in old : KeysOf(a) \subseteq KeysOf(m)
        BY <2>3, <2>4 DEF KeysOf
    <2>6. ASSUME NEW a \in Range(c) \ old, SharesKey(a, m) PROVE FALSE
        <3>1. SharesKey(a, b) /\ IsBlock(a)
            BY <2>5, <2>6 DEF SharesKey, MergedSites, Proper, IsContainer
        <3>2. IsSnippet(b)
            BY <1>2, <3>1, BlockFacts DEF IsSiteBlock, SharesKey, IsGlobalBlock
        <3>3. a.keys = b.keys
            BY <3>1, <3>2, SnippetFacts
        <3> QED
            BY <2>6, <3>3 DEF WithKeys
    <2> HIDE DEF old, d
    <2>7. Replaces(d, c, old, m, b)
        BY <2>1, <2>3, <2>4, <2>5, <2>6 DEF Replaces
    <2> QED
        BY <2>2, <2>7, ReplacedMerges DEF d
<1> QED
    BY <1>1, <1>2

\* Container.Merge: all the blocks of another container.
LEMMA MergeMerges ==
    ASSUME NEW c, NEW X, MergedBlocks(c, X), NEW s, IsContainer(s)
    PROVE  MergedBlocks(Merge(c, s), X \cup Range(s))
<1>1. /\ Len(s) \in Nat /\ DOMAIN s = 1 .. Len(s)
      /\ \A i \in 1 .. Len(s) : s[i] \in Range(s)
      /\ \A y \in Range(s) : \E i \in 1 .. Len(s) : s[i] = y
    BY SeqFacts DEF IsContainer, IsSeq
<1>2. PICK f : /\ f[0] = c
               /\ \A i \in 1 .. Len(s) : f[i] = MergeBlock(f[i - 1], s[i])
               /\ f[Len(s)] = FoldLeft(MergeBlock, c, s)
    BY <1>1, MergingSteps
<1> DEFINE First(i) == {s[j] : j \in 1 .. i}
           P(i) == MergedBlocks(f[i], X \cup First(i))
           I    == {i \in 0 .. Len(s) : P(i)}
<1>3. First(0) = {}
    OBVIOUS
<1>4. P(0)
    <2> HIDE DEF First
    <2>1. X \cup First(0) = X
        BY <1>3
    <2> QED
        BY <1>2, <2>1
<1>5. ASSUME NEW i \in 0 .. Len(s) - 1, P(i) PROVE P(i + 1)
    <2>1. /\ i + 1 \in 1 .. Len(s) /\ (i + 1) - 1 = i
          /\ First(i + 1) = First(i) \cup {s[i + 1]}
        BY <1>1
    <2>2. IsBlock(s[i + 1]) /\ f[i + 1] = MergeBlock(f[i], s[i + 1])
        BY <1>1, <1>2, <2>1 DEF IsContainer
    <2> HIDE DEF First
    <2>3. MergedBlocks(f[i + 1], (X \cup First(i)) \cup {s[i + 1]})
        BY <1>5, <2>2, MergeBlockMerges
    <2>4. (X \cup First(i)) \cup {s[i + 1]} = X \cup First(i + 1)
        BY <2>1
    <2> QED
        BY <2>3, <2>4
<1>6. P(Len(s))
    <2>1. 0 \in I /\ \A i \in 0 .. Len(s) - 1 : i \in I => i + 1 \in I
        <3> HIDE DEF P
        <3> QED
            BY <1>1, <1>4, <1>5
    <2>2. \A i \in 0 .. Len(s) : i \in I
        <3> HIDE DEF I
        <3> QED
            BY <1>1, <2>1, Selecting!Induction
    <2> HIDE DEF P
    <2> QED
        BY <1>1, <2>2
<1>7. First(Len(s)) = Range(s)
    BY <1>1
<1> HIDE DEF First
<1> QED
    BY <1>2, <1>6, <1>7 DEF Merge

\* mergeCaddyfile with --merge-sites.
LEMMA MergeSitesMerges ==
    ASSUME NEW c, NEW X, MergedSites(c, X), NEW s, IsContainer(s)
    PROVE  MergedSites(FoldLeft(MergeSite, c, s), X \cup Range(s))
<1>1. /\ Len(s) \in Nat /\ DOMAIN s = 1 .. Len(s)
      /\ \A i \in 1 .. Len(s) : s[i] \in Range(s)
      /\ \A y \in Range(s) : \E i \in 1 .. Len(s) : s[i] = y
    BY SeqFacts DEF IsContainer, IsSeq
<1>2. PICK f : /\ f[0] = c
               /\ \A i \in 1 .. Len(s) : f[i] = MergeSite(f[i - 1], s[i])
               /\ f[Len(s)] = FoldLeft(MergeSite, c, s)
    BY <1>1, MergingSitesSteps
<1> DEFINE First(i) == {s[j] : j \in 1 .. i}
           P(i) == MergedSites(f[i], X \cup First(i))
           I    == {i \in 0 .. Len(s) : P(i)}
<1>3. First(0) = {}
    OBVIOUS
<1>4. P(0)
    <2> HIDE DEF First
    <2>1. X \cup First(0) = X
        BY <1>3
    <2> QED
        BY <1>2, <2>1
<1>5. ASSUME NEW i \in 0 .. Len(s) - 1, P(i) PROVE P(i + 1)
    <2>1. /\ i + 1 \in 1 .. Len(s) /\ (i + 1) - 1 = i
          /\ First(i + 1) = First(i) \cup {s[i + 1]}
        BY <1>1
    <2>2. IsBlock(s[i + 1]) /\ f[i + 1] = MergeSite(f[i], s[i + 1])
        BY <1>1, <1>2, <2>1 DEF IsContainer
    <2> HIDE DEF First
    <2>3. MergedSites(f[i + 1], (X \cup First(i)) \cup {s[i + 1]})
        BY <1>5, <2>2, MergeSiteMerges
    <2>4. (X \cup First(i)) \cup {s[i + 1]} = X \cup First(i + 1)
        BY <2>1
    <2> QED
        BY <2>3, <2>4
<1>6. P(Len(s))
    <2>1. 0 \in I /\ \A i \in 0 .. Len(s) - 1 : i \in I => i + 1 \in I
        <3> HIDE DEF P
        <3> QED
            BY <1>1, <1>4, <1>5
    <2>2. \A i \in 0 .. Len(s) : i \in I
        <3> HIDE DEF I
        <3> QED
            BY <1>1, <2>1, Selecting!Induction
    <2> HIDE DEF P
    <2> QED
        BY <1>1, <2>2
<1>7. First(Len(s)) = Range(s)
    BY <1>1
<1> HIDE DEF First
<1> QED
    BY <1>2, <1>6, <1>7

\* Whatever is merged, no block stands twice in a container.
LEMMA MergeSiteProper ==
    ASSUME NEW c, Proper(c), NEW b, IsBlock(b)
    PROVE  Proper(MergeSite(c, b))
<1>1. CASE IsSiteBlock(b)
    BY <1>1, MergeSiteFacts
<1>2. CASE ~IsSiteBlock(b)
    <2>1. MergeSite(c, b) = MergeBlock(c, b)
        BY <1>2 DEF MergeSite
    <2> QED
        BY <2>1, MergeBlockFacts
<1> QED
    BY <1>1, <1>2

LEMMA MergeProper ==
    ASSUME NEW c, Proper(c), NEW s, IsContainer(s)
    PROVE  Proper(Merge(c, s))
<1>1. /\ Len(s) \in Nat /\ DOMAIN s = 1 .. Len(s)
      /\ \A i \in 1 .. Len(s) : s[i] \in Range(s)
    BY SeqFacts DEF IsContainer, IsSeq
<1>2. PICK f : /\ f[0] = c
               /\ \A i \in 1 .. Len(s) : f[i] = MergeBlock(f[i - 1], s[i])
               /\ f[Len(s)] = FoldLeft(MergeBlock, c, s)
    BY <1>1, MergingSteps
<1> DEFINE P(i) == Proper(f[i])
           I    == {i \in 0 .. Len(s) : P(i)}
<1>3. P(0)
    BY <1>2
<1>4. ASSUME NEW i \in 0 .. Len(s) - 1, P(i) PROVE P(i + 1)
    <2>1. i + 1 \in 1 .. Len(s) /\ (i + 1) - 1 = i
        BY <1>1
    <2>2. IsBlock(s[i + 1]) /\ f[i + 1] = MergeBlock(f[i], s[i + 1])
        BY <1>1, <1>2, <2>1 DEF IsContainer
    <2> QED
        BY <1>4, <2>2, MergeBlockFacts
<1>5. 0 \in I /\ \A i \in 0 .. Len(s) - 1 : i \in I => i + 1 \in I
    <2> HIDE DEF P
    <2> QED
        BY <1>1, <1>3, <1>4
<1>6. \A i \in 0 .. Len(s) : i \in I
    <2> HIDE DEF I
    <2> QED
        BY <1>1, <1>5, Selecting!Induction
<1> QED
    BY <1>1, <1>2, <1>6 DEF Merge

LEMMA MergeSitesProper ==
    ASSUME NEW c, Proper(c), NEW s, IsContainer(s)
    PROVE  Proper(FoldLeft(MergeSite, c, s))
<1>1. /\ Len(s) \in Nat /\ DOMAIN s = 1 .. Len(s)
      /\ \A i \in 1 .. Len(s) : s[i] \in Range(s)
    BY SeqFacts DEF IsContainer, IsSeq
<1>2. PICK f : /\ f[0] = c
               /\ \A i \in 1 .. Len(s) : f[i] = MergeSite(f[i - 1], s[i])
               /\ f[Len(s)] = FoldLeft(MergeSite, c, s)
    BY <1>1, MergingSitesSteps
<1> DEFINE P(i) == Proper(f[i])
           I    == {i \in 0 .. Len(s) : P(i)}
<1>3. P(0)
    BY <1>2
<1>4. ASSUME NEW i \in 0 .. Len(s) - 1, P(i) PROVE P(i + 1)
    <2>1. i + 1 \in 1 .. Len(s) /\ (i + 1) - 1 = i
        BY <1>1
    <2>2. IsBlock(s[i + 1]) /\ f[i + 1] = MergeSite(f[i], s[i + 1])
        BY <1>1, <1>2, <2>1 DEF IsContainer
    <2> QED
        BY <1>4, <2>2, MergeSiteProper
<1>5. 0 \in I /\ \A i \in 0 .. Len(s) - 1 : i \in I => i + 1 \in I
    <2> HIDE DEF P
    <2> QED
        BY <1>1, <1>3, <1>4
<1>6. \A i \in 0 .. Len(s) : i \in I
    <2> HIDE DEF I
    <2> QED
        BY <1>1, <1>5, Selecting!Induction
<1> QED
    BY <1>1, <1>2, <1>6 DEF Merge

LEMMA MergeCaddyfileProper ==
    ASSUME NEW c, Proper(c), NEW s, IsContainer(s), NEW mergeSites
    PROVE  Proper(MergeCaddyfile(c, s, mergeSites))
    BY MergeProper, MergeSitesProper DEF MergeCaddyfile

-----------------------------------------------------------------------------
(* Sorting.                                                                *)

\* t is s with x inserted at the index i.
Inserted(t, s, i, x) ==
    /\ t \in Seq(Range(s) \cup {x})
    /\ DOMAIN t = 1 .. Len(s) + 1
    /\ \A j \in 1 .. Len(s) + 1 :
          t[j] = IF j < i THEN s[j] ELSE IF j = i THEN x ELSE s[j - 1]

LEMMA InsertedFacts ==
    ASSUME NEW s, IsSeq(s), NEW i \in 1 .. Len(s) + 1, NEW x, NEW t,
           Inserted(t, s, i, x)
    PROVE  /\ IsSeq(t)
           /\ Range(t) = Range(s) \cup {x}
           /\ IsInjective(s) /\ x \notin Range(s) => IsInjective(t)
<1>1. /\ Len(s) \in Nat /\ DOMAIN s = 1 .. Len(s)
      /\ \A j \in 1 .. Len(s) : s[j] \in Range(s)
      /\ \A y \in Range(s) : \E j \in 1 .. Len(s) : s[j] = y
    BY SeqFacts
<1>2. /\ t \in Seq(Range(s) \cup {x})
      /\ DOMAIN t = 1 .. Len(s) + 1
      /\ \A j \in 1 .. Len(s) + 1 :
            t[j] = IF j < i THEN s[j] ELSE IF j = i THEN x ELSE s[j - 1]
    BY DEF Inserted
<1>3. \A j \in 1 .. Len(s) : j < i => j \in 1 .. Len(s) + 1 /\ t[j] = s[j]
    BY <1>1, <1>2
<1>4. \A j \in 1 .. Len(s) : ~(j < i) => j + 1 \in 1 .. Len(s) + 1 /\ t[j + 1] = s[j]
    BY <1>1, <1>2
<1>5. Range(t) = Range(s) \cup {x}
    <2>1. \A y \in Range(t) : y \in Range(s) \cup {x}
        BY <1>2, SeqIsSeq
    <2>2. ASSUME NEW y \in Range(s) PROVE y \in Range(t)
        <3>1. PICK j \in 1 .. Len(s) : s[j] = y
            BY <1>1
        <3>2. \E k \in DOMAIN t : t[k] = y
            BY <1>2, <1>3, <1>4, <3>1
        <3> QED
            BY <3>2 DEF Range
    <2>3. x \in Range(t)
        BY <1>1, <1>2 DEF Range
    <2> QED
        BY <2>1, <2>2, <2>3
<1>6. IsSeq(t)
    BY <1>2, <1>5 DEF IsSeq
<1>7. ASSUME IsInjective(s), x \notin Range(s) PROVE IsInjective(t)
    <2> DEFINE Of(j) == IF j < i THEN j ELSE j - 1
    <2>1. \A j \in 1 .. Len(s) + 1 : j # i => Of(j) \in 1 .. Len(s) /\ t[j] = s[Of(j)]
        BY <1>1, <1>2
    <2>2. \A j, k \in 1 .. Len(s) + 1 : j # i /\ k # i /\ Of(j) = Of(k) => j = k
        BY <1>1
    <2>3. t[i] = x
        BY <1>1, <1>2
    <2> HIDE DEF Of
    <2>4. \A j \in 1 .. Len(s) + 1 : j # i => t[j] # x
        BY <1>1, <1>7, <2>1
    <2>5. \A j, k \in 1 .. Len(s) + 1 : t[j] = t[k] /\ j # i /\ k # i => j = k
        BY <1>1, <1>7, <2>1, <2>2 DEF IsInjective
    <2> QED
        BY <1>2, <2>3, <2>4, <2>5 DEF IsInjective
<1> QED
    BY <1>5, <1>6, <1>7

\* No block stands before one of a lower rank.
Ranked(s) == \A i, j \in DOMAIN s : i < j => Rank(s[i]) <= Rank(s[j])

\* Every block stands before those that compareBlocks puts after it.
Ordered(s) == \A i, j \in DOMAIN s : i < j => Before(s[i], s[j])

LEMMA RankType == \A b : Rank(b) \in 0 .. 2
    BY DEF Rank

LEMMA OrderedRanked ==
    ASSUME NEW s, Ordered(s)
    PROVE  Ranked(s)
    BY RankType DEF Ordered, Ranked, Before

\* The two ways of KeysBefore: a first key that differs, or none.
Differs(s, t, i) ==
    /\ i \in 1 .. Len(s) /\ i \in 1 .. Len(t)
    /\ s[i] < t[i]
    /\ \A j \in 1 .. i - 1 : s[j] = t[j]

Prefix(s, t) == Len(s) < Len(t) /\ \A j \in 1 .. Len(s) : s[j] = t[j]

LEMMA KeysBeforeWays ==
    ASSUME NEW s \in Seq(Nat), NEW t \in Seq(Nat)
    PROVE  KeysBefore(s, t) <=> Prefix(s, t) \/ \E i \in Nat : Differs(s, t, i)
<1>1. DOMAIN s = 1 .. Len(s) /\ DOMAIN t = 1 .. Len(t)
    OBVIOUS
<1>2. DOMAIN s \cap DOMAIN t \subseteq Nat
    BY <1>1
<1>3. \A i \in DOMAIN s \cap DOMAIN t :
         s[i] < t[i] /\ (\A j \in 1 .. i - 1 : s[j] = t[j]) => Differs(s, t, i)
    BY <1>1 DEF Differs
<1>4. \A i : Differs(s, t, i) =>
         i \in DOMAIN s \cap DOMAIN t /\ s[i] < t[i] /\ \A j \in 1 .. i - 1 : s[j] = t[j]
    BY <1>1 DEF Differs
<1>5. Prefix(s, t) <=> Len(s) < Len(t) /\ \A j \in DOMAIN s : s[j] = t[j]
    BY <1>1 DEF Prefix
<1> QED
    BY <1>2, <1>3, <1>4, <1>5 DEF KeysBefore

\* The lexicographic order of strings of keys is total.
LEMMA KeysBeforeTotal ==
    ASSUME NEW s \in Seq(Nat), NEW t \in Seq(Nat), s # t
    PROVE  KeysBefore(s, t) \/ KeysBefore(t, s)
<1> DEFINE D == {i \in 1 .. Len(s) : i <= Len(t) /\ s[i] # t[i]}
<1>1. /\ Len(s) \in Nat /\ \A i \in 1 .. Len(s) : s[i] \in Nat
      /\ Len(t) \in Nat /\ \A i \in 1 .. Len(t) : t[i] \in Nat
    OBVIOUS
<1>2. CASE D # {}
    <2>1. PICK i \in D : \A j \in D : i <= j
        <3>1. D \in SUBSET Nat
            OBVIOUS
        <3> HIDE DEF D
        <3> QED
            BY <1>2, <3>1, Selecting!Least
    <2>2. i \in 1 .. Len(s) /\ i \in 1 .. Len(t) /\ s[i] # t[i]
        BY <1>1, <2>1
    <2>3. ASSUME NEW j \in 1 .. i - 1 PROVE s[j] = t[j]
        <3>1. j \in 1 .. Len(s) /\ j <= Len(t) /\ ~(i <= j)
            BY <1>1, <2>2
        <3>2. j \notin D
            BY <2>1, <3>1
        <3> QED
            BY <3>1, <3>2
    <2> HIDE DEF D
    <2>4. s[i] < t[i] \/ t[i] < s[i]
        BY <1>1, <2>2
    <2>5. i \in Nat /\ (Differs(s, t, i) \/ Differs(t, s, i))
        BY <2>2, <2>3, <2>4 DEF Differs
    <2> QED
        BY <2>5, KeysBeforeWays
<1>3. CASE D = {}
    <2>1. \A i \in 1 .. Len(s) : i <= Len(t) => s[i] = t[i]
        BY <1>3
    <2> HIDE DEF D
    <2>2. ASSUME Len(s) = Len(t) PROVE FALSE
        <3>1. \A i \in 1 .. Len(s) : s[i] = t[i]
            BY <1>1, <2>1, <2>2
        <3> QED
            BY <2>2, <3>1, SeqEqual
    <2>3. CASE Len(s) < Len(t)
        <3>1. Prefix(s, t)
            BY <1>1, <2>1, <2>3 DEF Prefix
        <3> QED
            BY <3>1, KeysBeforeWays
    <2>4. CASE Len(t) < Len(s)
        <3>1. Prefix(t, s)
            BY <1>1, <2>1, <2>4 DEF Prefix
        <3> QED
            BY <3>1, KeysBeforeWays
    <2> QED
        BY <1>1, <2>2, <2>3, <2>4
<1> QED
    BY <1>2, <1>3

LEMMA KeysBeforeIrreflexive ==
    ASSUME NEW s \in Seq(Nat)
    PROVE  ~KeysBefore(s, s)
    BY DEF KeysBefore

LEMMA KeysBeforeTransitive ==
    ASSUME NEW s \in Seq(Nat), NEW t \in Seq(Nat), NEW u \in Seq(Nat),
           KeysBefore(s, t), KeysBefore(t, u)
    PROVE  KeysBefore(s, u)
<1>1. /\ Len(s) \in Nat /\ \A i \in 1 .. Len(s) : s[i] \in Nat
      /\ Len(t) \in Nat /\ \A i \in 1 .. Len(t) : t[i] \in Nat
      /\ Len(u) \in Nat /\ \A i \in 1 .. Len(u) : u[i] \in Nat
    OBVIOUS
<1>2. Prefix(s, t) \/ \E i \in Nat : Differs(s, t, i)
    BY KeysBeforeWays
<1>3. Prefix(t, u) \/ \E i \in Nat : Differs(t, u, i)
    BY KeysBeforeWays
<1>4. ASSUME NEW i \in Nat, Differs(s, t, i), NEW k \in Nat, Differs(t, u, k)
      PROVE  KeysBefore(s, u)
    <2>1. CASE i <= k
        <3>1. i \in 1 .. Len(s) /\ i \in 1 .. Len(u) /\ s[i] < u[i]
            <4>1. t[i] = u[i] \/ t[i] < u[i]
                BY <1>4, <2>1 DEF Differs
            <4>2. i \in 1 .. Len(s) /\ i \in 1 .. Len(t) /\ i \in 1 .. Len(u) /\ s[i] < t[i]
                BY <1>1, <1>4, <2>1 DEF Differs
            <4> QED
                BY <1>1, <4>1, <4>2
        <3>2. \A j \in 1 .. i - 1 : s[j] = t[j] /\ t[j] = u[j]
            BY <1>4, <2>1 DEF Differs
        <3>3. Differs(s, u, i)
            BY <3>1, <3>2 DEF Differs
        <3> QED
            BY <3>3, KeysBeforeWays
    <2>2. CASE k < i
        <3>1. k \in 1 .. Len(s) /\ k \in 1 .. Len(u) /\ s[k] < u[k]
            <4>1. s[k] = t[k] /\ t[k] < u[k] /\ k \in 1 .. Len(u)
                BY <1>4, <2>2 DEF Differs
            <4>2. k \in 1 .. Len(s)
                BY <1>1, <1>4, <2>2 DEF Differs
            <4> QED
                BY <4>1, <4>2
        <3>2. \A j \in 1 .. k - 1 : s[j] = t[j] /\ t[j] = u[j]
            BY <1>4, <2>2 DEF Differs
        <3>3. Differs(s, u, k)
            BY <3>1, <3>2 DEF Differs
        <3> QED
            BY <3>3, KeysBeforeWays
    <2> QED
        BY <2>1, <2>2
<1>5. ASSUME NEW i \in Nat, Differs(s, t, i), Prefix(t, u)
      PROVE  KeysBefore(s, u)
    <2>1. Differs(s, u, i)
        BY <1>1, <1>5 DEF Differs, Prefix
    <2> QED
        BY <2>1, KeysBeforeWays
<1>6. ASSUME Prefix(s, t), NEW k \in Nat, Differs(t, u, k)
      PROVE  KeysBefore(s, u)
    <2>1. k <= Len(s) => Differs(s, u, k)
        BY <1>1, <1>6 DEF Differs, Prefix
    <2>2. Len(s) < k => Prefix(s, u)
        BY <1>1, <1>6 DEF Differs, Prefix
    <2> QED
        BY <1>1, <2>1, <2>2, KeysBeforeWays
<1>7. ASSUME Prefix(s, t), Prefix(t, u) PROVE KeysBefore(s, u)
    <2>1. Prefix(s, u)
        BY <1>1, <1>7 DEF Prefix
    <2> QED
        BY <2>1, KeysBeforeWays
<1> QED
    BY <1>2, <1>3, <1>4, <1>5, <1>6, <1>7

\* compareBlocks is a strict order, total on blocks with different keys.
LEMMA BeforeFacts ==
    ASSUME NEW a, IsBlock(a), NEW b, IsBlock(b)
    PROVE  /\ ~(Before(a, b) /\ Before(b, a))
           /\ a.keys # b.keys => Before(a, b) \/ Before(b, a)
           /\ \A d : IsBlock(d) /\ Before(a, b) /\ Before(b, d) => Before(a, d)
<1>1. \A x : IsBlock(x) => x.keys \in Seq(Nat) /\ x.order \in 0 .. MaxOrder
    BY KeysAssumption DEF IsBlock
<1>2. MaxOrder \in Nat
    BY DEF MaxOrder
<1>3. \A x : IsBlock(x) => x.order \in Nat
    BY <1>1, <1>2
<1>4. ~(KeysBefore(a.keys, b.keys) /\ KeysBefore(b.keys, a.keys))
    BY <1>1, KeysBeforeIrreflexive, KeysBeforeTransitive
<1>5. a.keys # b.keys => KeysBefore(a.keys, b.keys) \/ KeysBefore(b.keys, a.keys)
    BY <1>1, KeysBeforeTotal
<1>6. ASSUME NEW d, IsBlock(d), Before(a, b), Before(b, d) PROVE Before(a, d)
    <2>1. KeysBefore(a.keys, b.keys) /\ KeysBefore(b.keys, d.keys)
             => KeysBefore(a.keys, d.keys)
        BY <1>1, <1>6, KeysBeforeTransitive
    <2> QED
        BY <1>3, <1>6, <2>1, RankType DEF Before
<1> QED
    BY <1>3, <1>4, <1>5, <1>6, RankType DEF Before

\* The blocks of an ordered sequence say which one it is.
LEMMA OrderedUnique ==
    ASSUME NEW s, Proper(s), Ordered(s), NEW t, Proper(t), Ordered(t),
           Range(s) = Range(t)
    PROVE  s = t
<1> DEFINE Within(x, y) == \A i \in 1 .. Len(x) : i <= Len(y) /\ x[i] = y[i]
<1>1. ASSUME NEW x, Proper(x), Ordered(x), NEW y, Proper(y), Ordered(y),
             Range(x) = Range(y)
      PROVE  Within(x, y)
    <2> DEFINE D == {i \in 1 .. Len(x) : ~(i <= Len(y) /\ x[i] = y[i])}
    <2> SUFFICES ASSUME D # {} PROVE FALSE
        OBVIOUS
    <2>1. /\ Len(x) \in Nat /\ DOMAIN x = 1 .. Len(x)
          /\ \A i \in 1 .. Len(x) : x[i] \in Range(x) /\ IsBlock(x[i])
          /\ \A z \in Range(x) : \E i \in 1 .. Len(x) : x[i] = z
        BY <1>1, SeqFacts DEF Proper, IsContainer, IsSeq
    <2>2. /\ Len(y) \in Nat /\ DOMAIN y = 1 .. Len(y)
          /\ \A i \in 1 .. Len(y) : y[i] \in Range(y) /\ IsBlock(y[i])
          /\ \A z \in Range(y) : \E i \in 1 .. Len(y) : y[i] = z
        BY <1>1, SeqFacts DEF Proper, IsContainer, IsSeq
    <2>3. PICK i \in D : \A j \in D : i <= j
        <3>1. D \in SUBSET Nat
            OBVIOUS
        <3> HIDE DEF D
        <3> QED
            BY <3>1, Selecting!Least
    <2>4. i \in 1 .. Len(x) /\ ~(i <= Len(y) /\ x[i] = y[i])
        BY <2>3
    <2>5. \A j \in 1 .. Len(x) : j < i => j <= Len(y) /\ x[j] = y[j]
        BY <2>1, <2>3
    <2> HIDE DEF D
    <2>6. PICK k \in 1 .. Len(y) : y[k] = x[i]
        BY <1>1, <2>1, <2>2, <2>4
    <2>7. ~(k < i)
        <3> SUFFICES ASSUME k < i PROVE FALSE
            OBVIOUS
        <3>1. k \in 1 .. Len(x) /\ x[k] = y[k]
            BY <2>1, <2>2, <2>4, <2>5
        <3>2. x[k] = x[i] /\ k # i
            BY <2>1, <2>2, <2>4, <2>6, <3>1
        <3> QED
            BY <1>1, <2>1, <2>4, <3>1, <3>2 DEF Proper, IsInjective
    <2>8. i \in 1 .. Len(y) /\ x[i] # y[i] /\ i < k
        BY <2>1, <2>2, <2>4, <2>6, <2>7
    <2>9. Before(y[i], x[i])
        BY <1>1, <2>2, <2>6, <2>8 DEF Ordered
    <2>10. PICK m \in 1 .. Len(x) : x[m] = y[i]
        BY <1>1, <2>1, <2>2, <2>8
    <2>11. ~(m < i)
        <3> SUFFICES ASSUME m < i PROVE FALSE
            OBVIOUS
        <3>1. m \in 1 .. Len(y) /\ x[m] = y[m]
            BY <2>1, <2>2, <2>5
        <3>2. y[m] = y[i] /\ m # i
            BY <2>1, <2>4, <2>10, <3>1
        <3> QED
            BY <1>1, <2>2, <2>8, <3>1, <3>2 DEF Proper, IsInjective
    <2>12. i < m
        BY <2>1, <2>4, <2>8, <2>10, <2>11
    <2>13. Before(x[i], y[i])
        BY <1>1, <2>1, <2>4, <2>10, <2>12 DEF Ordered
    <2>14. IsBlock(x[i]) /\ IsBlock(y[i])
        BY <2>1, <2>2, <2>4, <2>8
    <2> QED
        BY <2>9, <2>13, <2>14, BeforeFacts
<1>2. Within(s, t) /\ Within(t, s)
    <2> HIDE DEF Within
    <2> QED
        BY <1>1
<1>3. s \in Seq(Range(s)) /\ t \in Seq(Range(s)) /\ Len(s) \in Nat /\ Len(t) \in Nat
    BY DEF Proper, IsContainer
<1>4. Len(s) <= Len(t) /\ Len(t) <= Len(s)
    <2>1. Len(s) \in 1 .. Len(s) => Len(s) <= Len(t)
        BY <1>2
    <2>2. Len(t) \in 1 .. Len(t) => Len(t) <= Len(s)
        BY <1>2
    <2> QED
        BY <1>3, <2>1, <2>2
<1>5. Len(s) = Len(t) /\ \A i \in 1 .. Len(s) : s[i] = t[i]
    BY <1>2, <1>3, <1>4
<1> QED
    BY <1>3, <1>5, SeqEqual

LEMMA InsertSortedFacts ==
    ASSUME NEW s, Proper(s), Ordered(s), NEW b, IsBlock(b),
           \A a \in Range(s) : a.keys # b.keys
    PROVE  /\ Proper(InsertSorted(s, b))
           /\ Ordered(InsertSorted(s, b))
           /\ Range(InsertSorted(s, b)) = Range(s) \cup {b}
<1> DEFINE I == {i \in 1 .. Len(s) : Before(b, s[i])}
           t == InsertSorted(s, b)
<1>1. /\ IsSeq(s) /\ IsInjective(s) /\ b \notin Range(s)
      /\ \A a \in Range(s) : IsBlock(a)
    BY DEF Proper, IsContainer, IsSeq
<1>2. /\ Len(s) \in Nat /\ DOMAIN s = 1 .. Len(s)
      /\ \A i \in 1 .. Len(s) : s[i] \in Range(s)
    BY <1>1, SeqFacts
<1>3. \E i \in 1 .. Len(s) + 1 :
         /\ Inserted(t, s, i, b)
         /\ \A j \in 1 .. Len(s) : j < i => ~Before(b, s[j])
         /\ i \in 1 .. Len(s) => Before(b, s[i])
    <2>1. s \in Seq(Range(s) \cup {b})
        BY <1>1 DEF IsSeq
    <2>2. CASE I = {}
        <3>1. t = Append(s, b)
            BY <2>2 DEF InsertSorted, SelectInSeq
        <3> HIDE DEF t
        <3>2. Len(s) + 1 \in 1 .. Len(s) + 1
            BY <1>2
        <3>3. Inserted(t, s, Len(s) + 1, b)
            BY <1>2, <2>1, <3>1 DEF Inserted
        <3>4. \A j \in 1 .. Len(s) : ~Before(b, s[j])
            BY <2>2
        <3> QED
            BY <1>2, <3>2, <3>3, <3>4
    <2>3. CASE I # {}
        <3> DEFINE i == Min(I)
        <3>1. i \in I /\ \A j \in I : i <= j
            <4>1. I \in SUBSET Nat
                OBVIOUS
            <4> HIDE DEF I
            <4> QED
                BY <2>3, <4>1, MinFacts
        <3>2. t = InsertAt(s, i, b)
            <4>1. i # 0
                BY <3>1
            <4> QED
                BY <2>3, <4>1 DEF InsertSorted, SelectInSeq
        <3>3. i \in 1 .. Len(s) /\ Before(b, s[i])
            BY <3>1
        <3>4. \A j \in 1 .. Len(s) : j < i => ~Before(b, s[j])
            <4> SUFFICES ASSUME NEW j \in 1 .. Len(s), j < i, Before(b, s[j])
                         PROVE  FALSE
                OBVIOUS
            <4>1. j \in I /\ i \in Nat /\ j \in Nat
                BY <3>3
            <4>2. i <= j
                BY <3>1, <4>1
            <4> QED
                BY <4>1, <4>2
        <3> HIDE DEF t, i, I
        <3>5. Inserted(t, s, i, b)
            <4> DEFINE T  == Range(s) \cup {b}
                       s1 == SubSeq(s, 1, i - 1)
                       s2 == SubSeq(s, i, Len(s))
            <4>1. /\ s1 \in Seq(T) /\ Len(s1) = i - 1
                  /\ \A j \in 1 .. i - 1 : s1[j] = s[j]
                BY <1>2, <2>1, <3>3
            <4>2. /\ s2 \in Seq(T) /\ Len(s2) = Len(s) - i + 1
                  /\ \A j \in 1 .. Len(s) - i + 1 : s2[j] = s[i + j - 1]
                BY <1>2, <2>1, <3>3
            <4>3. t = (s1 \o <<b>>) \o s2 /\ <<b>> \in Seq(T)
                BY <3>2 DEF InsertAt
            <4> HIDE DEF s1, s2, T
            <4> DEFINE u == s1 \o <<b>>
            <4>4. /\ u \in Seq(T) /\ Len(u) = i
                  /\ \A j \in 1 .. i - 1 : u[j] = s[j]
                  /\ u[i] = b
                BY <3>3, <4>1, <4>3
            <4> HIDE DEF u
            <4>5. t = u \o s2
                BY <4>3 DEF u
            <4>6. /\ t \in Seq(T) /\ Len(t) = Len(s) + 1
                  /\ \A j \in 1 .. i : t[j] = u[j]
                  /\ \A j \in 1 .. Len(s) - i + 1 : t[i + j] = s2[j]
                <5>1. /\ t \in Seq(T) /\ Len(t) = Len(u) + Len(s2)
                      /\ \A j \in 1 .. Len(u) + Len(s2) :
                            t[j] = IF j <= Len(u) THEN u[j] ELSE s2[j - Len(u)]
                    BY <4>2, <4>4, <4>5, ConcatProperties
                <5>3. Len(u) \in Nat /\ Len(s2) \in Nat
                    BY <4>2, <4>4
                <5>4. \A j \in 1 .. Len(u) : t[j] = u[j]
                    BY <5>1, <5>3
                <5>5. ASSUME NEW j \in 1 .. Len(s2) PROVE t[Len(u) + j] = s2[j]
                    <6>1. /\ Len(u) + j \in 1 .. Len(u) + Len(s2) /\ ~(Len(u) + j <= Len(u))
                          /\ (Len(u) + j) - Len(u) = j
                        BY <5>3
                    <6> QED
                        BY <5>1, <6>1
                <5>2. i + (Len(s) - i + 1) = Len(s) + 1
                    BY <1>2, <3>3
                <5> QED
                    BY <4>2, <4>4, <5>1, <5>2, <5>4, <5>5
            <4>7. \A j \in 1 .. Len(s) + 1 : i < j => t[j] = s[j - 1]
                <5> SUFFICES ASSUME NEW j \in 1 .. Len(s) + 1, i < j PROVE t[j] = s[j - 1]
                    OBVIOUS
                <5>1. j - i \in 1 .. Len(s) - i + 1 /\ i + (j - i) = j /\ i + (j - i) - 1 = j - 1
                    BY <1>2, <3>3
                <5> QED
                    BY <4>2, <4>6, <5>1
            <4>8. \A j \in 1 .. Len(s) + 1 : j < i => t[j] = s[j]
                BY <1>2, <3>3, <4>4, <4>6
            <4>9. t[i] = b
                BY <3>3, <4>4, <4>6
            <4>10. DOMAIN t = 1 .. Len(s) + 1
                BY <4>6
            <4>11. \A j \in 1 .. Len(s) + 1 : j < i \/ j = i \/ i < j
                BY <1>2, <3>3
            <4> QED
                BY <1>2, <3>3, <4>6, <4>7, <4>8, <4>9, <4>10, <4>11 DEF Inserted, T
        <3>6. i \in 1 .. Len(s) + 1
            BY <1>2, <3>3
        <3> QED
            BY <3>3, <3>4, <3>5, <3>6
    <2> QED
        BY <2>2, <2>3
<1> HIDE DEF t
<1>4. PICK i \in 1 .. Len(s) + 1 :
         /\ Inserted(t, s, i, b)
         /\ \A j \in 1 .. Len(s) : j < i => ~Before(b, s[j])
         /\ i \in 1 .. Len(s) => Before(b, s[i])
    BY <1>3
<1>5. IsSeq(t) /\ Range(t) = Range(s) \cup {b} /\ IsInjective(t)
    BY <1>1, <1>4, InsertedFacts
<1>6. Proper(t)
    <2>1. IsContainer(t)
        BY <1>1, <1>5 DEF IsContainer, IsSeq
    <2>2. \A x, y \in Range(t) : x.keys = y.keys => x = y
        BY <1>5 DEF Proper
    <2> QED
        BY <1>5, <2>1, <2>2 DEF Proper
<1>7. Ordered(t)
    <2>1. \A j \in 1 .. Len(s) : j < i => Before(s[j], b)
        BY <1>1, <1>2, <1>4, BeforeFacts
    <2>2. \A j \in 1 .. Len(s) : ~(j < i) => Before(b, s[j])
        <3> SUFFICES ASSUME NEW j \in 1 .. Len(s), ~(j < i)
                     PROVE  Before(b, s[j])
            OBVIOUS
        <3>1. i \in 1 .. Len(s) /\ (i = j \/ i < j)
            BY <1>2
        <3>2. Before(b, s[i])
            BY <1>4, <3>1
        <3>3. CASE i < j
            <4>1. Before(s[i], s[j])
                BY <1>2, <3>1, <3>3 DEF Ordered
            <4>2. IsBlock(s[i]) /\ IsBlock(s[j])
                BY <1>1, <1>2, <3>1
            <4> QED
                BY <3>2, <4>1, <4>2, BeforeFacts
        <3> QED
            BY <3>1, <3>2, <3>3
    <2>3. /\ DOMAIN t = 1 .. Len(s) + 1
          /\ \A j \in 1 .. Len(s) + 1 :
                t[j] = IF j < i THEN s[j] ELSE IF j = i THEN b ELSE s[j - 1]
        BY <1>4 DEF Inserted
    <2> SUFFICES ASSUME NEW p \in 1 .. Len(s) + 1, NEW q \in 1 .. Len(s) + 1, p < q
                 PROVE  Before(t[p], t[q])
        BY <2>3 DEF Ordered
    <2>4. CASE q < i
        <3>1. p \in 1 .. Len(s) /\ q \in 1 .. Len(s) /\ p < i
            BY <1>2, <2>4
        <3> QED
            BY <1>2, <2>3, <2>4, <3>1 DEF Ordered
    <2>5. CASE q = i
        <3>1. p \in 1 .. Len(s) /\ p < i
            BY <1>2, <2>5
        <3>2. t[q] = b /\ t[p] = s[p]
            BY <1>2, <2>3, <2>5, <3>1
        <3> QED
            BY <2>1, <3>1, <3>2
    <2>6. CASE i < q
        <3>1. q - 1 \in 1 .. Len(s) /\ ~(q - 1 < i) /\ t[q] = s[q - 1]
            BY <1>2, <2>3, <2>6
        <3>2. CASE p < i
            <4>1. p \in 1 .. Len(s) /\ t[p] = s[p] /\ p < q - 1
                BY <1>2, <2>3, <3>1, <3>2
            <4> QED
                BY <1>2, <3>1, <4>1 DEF Ordered
        <3>3. CASE p = i
            <4>1. t[p] = b
                BY <1>2, <2>3, <3>3
            <4> QED
                BY <2>2, <3>1, <4>1
        <3>4. CASE i < p
            <4>1. p - 1 \in 1 .. Len(s) /\ t[p] = s[p - 1] /\ p - 1 < q - 1
                BY <1>2, <2>3, <3>4
            <4> QED
                BY <1>2, <3>1, <4>1 DEF Ordered
        <3> QED
            BY <3>2, <3>3, <3>4
    <2> QED
        BY <2>4, <2>5, <2>6
<1> QED
    BY <1>5, <1>6, <1>7 DEF t

\* Sorting loses and adds nothing, and leaves the blocks in the order of
\* compareBlocks: snippets before sites, and the rest by position and keys.
THEOREM SortedFacts ==
    ASSUME NEW s, Proper(s)
    PROVE  /\ Proper(Sorted(s)) /\ Range(Sorted(s)) = Range(s)
           /\ Ordered(Sorted(s)) /\ Ranked(Sorted(s))
<1>1. /\ Len(s) \in Nat /\ DOMAIN s = 1 .. Len(s)
      /\ \A i \in 1 .. Len(s) : s[i] \in Range(s)
      /\ \A y \in Range(s) : \E i \in 1 .. Len(s) : s[i] = y
    BY SeqFacts DEF Proper, IsContainer, IsSeq
<1>2. PICK f : /\ f[0] = <<>>
               /\ \A i \in 1 .. Len(s) : f[i] = InsertSorted(f[i - 1], s[i])
               /\ f[Len(s)] = FoldLeft(InsertSorted, <<>>, s)
    BY <1>1, SortingSteps
<1> DEFINE First(i) == {s[j] : j \in 1 .. i}
           P(i) == Proper(f[i]) /\ Ordered(f[i]) /\ Range(f[i]) = First(i)
           I    == {i \in 0 .. Len(s) : P(i)}
<1>3. P(0)
    <2>1. First(0) = {} /\ Ordered(<<>>)
        BY DEF Ordered
    <2> HIDE DEF First
    <2> QED
        BY <1>2, <2>1, EmptyProper, EmptyFacts
<1>4. ASSUME NEW i \in 0 .. Len(s) - 1, P(i) PROVE P(i + 1)
    <2>1. /\ i + 1 \in 1 .. Len(s) /\ (i + 1) - 1 = i
          /\ First(i + 1) = First(i) \cup {s[i + 1]}
        BY <1>1
    <2>2. IsBlock(s[i + 1]) /\ f[i + 1] = InsertSorted(f[i], s[i + 1])
        BY <1>1, <1>2, <2>1 DEF Proper, IsContainer
    <2>3. ASSUME NEW a \in First(i), a.keys = s[i + 1].keys PROVE FALSE
        <3>1. PICK j \in 1 .. i : a = s[j]
            BY <2>3
        <3>2. j \in 1 .. Len(s) /\ j # i + 1
            BY <1>1, <2>1
        <3>3. s[j] = s[i + 1]
            BY <1>1, <2>1, <2>3, <3>1, <3>2 DEF Proper
        <3> QED
            BY <1>1, <2>1, <3>2, <3>3 DEF Proper, IsInjective
    <2> HIDE DEF First
    <2>4. \A a \in Range(f[i]) : a.keys # s[i + 1].keys
        BY <1>4, <2>3
    <2>5. /\ Proper(f[i + 1]) /\ Ordered(f[i + 1])
          /\ Range(f[i + 1]) = Range(f[i]) \cup {s[i + 1]}
        BY <1>4, <2>2, <2>4, InsertSortedFacts
    <2> QED
        BY <1>4, <2>1, <2>5
<1>5. P(Len(s))
    <2>1. 0 \in I /\ \A i \in 0 .. Len(s) - 1 : i \in I => i + 1 \in I
        <3> HIDE DEF P
        <3> QED
            BY <1>1, <1>3, <1>4
    <2>2. \A i \in 0 .. Len(s) : i \in I
        <3> HIDE DEF I
        <3> QED
            BY <1>1, <2>1, Selecting!Induction
    <2> HIDE DEF P
    <2> QED
        BY <1>1, <2>2
<1>6. First(Len(s)) = Range(s)
    BY <1>1
<1> HIDE DEF First
<1> QED
    BY <1>2, <1>5, <1>6, OrderedRanked DEF Sorted

-----------------------------------------------------------------------------
(* Processing.                                                             *)

\* Caddy accepts the blocks of c, each after those before it.
Accepted(c) ==
    \A i \in DOMAIN c : /\ Adapts(SubSeq(c, 1, i - 1), c[i])
                        /\ Ambiguous(SubSeq(c, 1, i - 1), c[i]) = {}

LEMMA AppendAccepted ==
    ASSUME NEW c, IsSeq(c), Accepted(c), NEW x, Adapts(c, x), Ambiguous(c, x) = {}
    PROVE  Accepted(Append(c, x))
<1> DEFINE T == Range(c) \cup {x}
           d == Append(c, x)
<1>1. c \in Seq(T) /\ x \in T
    BY DEF IsSeq
<1> HIDE DEF T
<1>2. /\ Len(c) \in Nat /\ DOMAIN c = 1 .. Len(c)
      /\ d \in Seq(T) /\ Len(d) = Len(c) + 1 /\ DOMAIN d = 1 .. Len(c) + 1
      /\ \A j \in 1 .. Len(c) : d[j] = c[j]
      /\ d[Len(c) + 1] = x
    BY <1>1
<1> HIDE DEF d
<1>3. ASSUME NEW n \in 0 .. Len(c) PROVE SubSeq(d, 1, n) = SubSeq(c, 1, n)
    <2>1. /\ SubSeq(d, 1, n) = [i \in 1 .. n |-> d[i]]
          /\ SubSeq(c, 1, n) = [i \in 1 .. n |-> c[i]]
        BY <1>1, <1>2
    <2>2. \A i \in 1 .. n : d[i] = c[i]
        BY <1>2
    <2> QED
        BY <2>1, <2>2
<1>4. SubSeq(c, 1, Len(c)) = c
    BY <1>1, <1>2
<1> SUFFICES ASSUME NEW i \in 1 .. Len(c) + 1
             PROVE  Adapts(SubSeq(d, 1, i - 1), d[i]) /\ Ambiguous(SubSeq(d, 1, i - 1), d[i]) = {}
    BY <1>2 DEF Accepted, d
<1>5. SubSeq(d, 1, i - 1) = SubSeq(c, 1, i - 1)
    BY <1>2, <1>3
<1>6. CASE i = Len(c) + 1
    <2>1. SubSeq(d, 1, i - 1) = c /\ d[i] = x
        BY <1>2, <1>4, <1>5, <1>6
    <2> QED
        BY <2>1
<1>7. CASE i \in 1 .. Len(c)
    <2>1. d[i] = c[i] /\ i \in DOMAIN c
        BY <1>2, <1>7
    <2> QED
        BY <1>5, <2>1 DEF Accepted
<1> QED
    BY <1>2, <1>6, <1>7

\* A block with fewer keys.
LEMMA KeysFacts ==
    ASSUME NEW b, IsBlock(b), NEW keys, IsSeq(keys), IsInjective(keys),
           Range(keys) \subseteq KeysOf(b)
    PROVE  LET x == [b EXCEPT !.keys = keys]
           IN  /\ IsBlock(x) /\ x.keys = keys /\ x.body = b.body
               /\ keys = b.keys => x = b
<1> DEFINE x == [b EXCEPT !.keys = keys]
<1>1. b = [keys |-> b.keys, order |-> b.order, body |-> b.body]
    BY DEF IsBlock
<1>2. x = [keys |-> keys, order |-> b.order, body |-> b.body]
    BY <1>1
<1> HIDE DEF x
<1>3. x.keys = keys /\ x.order = b.order /\ x.body = b.body
    BY <1>2
<1>4. keys \in Seq(Keys)
    BY BlockFacts DEF IsSeq
<1>5. ASSUME Range(keys) \cap Snippets # {} PROVE Len(keys) = 1
    <2>1. Len(b.keys) = 1
        BY <1>5 DEF IsBlock
    <2>2. \A k \in KeysOf(b) : k = b.keys[1]
        BY <2>1, BlockFacts, SeqFacts DEF KeysOf
    <2>3. /\ Len(keys) \in Nat /\ DOMAIN keys = 1 .. Len(keys)
          /\ \A i \in 1 .. Len(keys) : keys[i] = b.keys[1]
        BY <2>2, SeqFacts
    <2>4. Len(keys) # 0
        BY <1>5, <2>3, SeqFacts
    <2>5. 2 \notin DOMAIN keys
        <3> SUFFICES ASSUME 2 \in DOMAIN keys PROVE FALSE
            OBVIOUS
        <3>1. 1 \in 1 .. Len(keys) /\ 2 \in 1 .. Len(keys)
            BY <2>3
        <3>2. keys[1] = keys[2]
            BY <2>3, <3>1
        <3>3. 1 = 2
            BY <2>3, <3>1, <3>2 DEF IsInjective
        <3> QED
            BY <3>3
    <2> QED
        BY <2>3, <2>4, <2>5
<1>6. IsBlock(x)
    BY <1>2, <1>3, <1>4, <1>5 DEF IsBlock, KeysOf
<1> QED
    BY <1>1, <1>2, <1>3, <1>6 DEF x

\* The addresses of the blocks in S.
AllAddresses(S) == UNION {AddressesOf(b) : b \in S}

LEMMA ProcessBlockFacts ==
    ASSUME NEW c, IsContainer(c), Accepted(c), NEW b, IsBlock(b)
    PROVE  LET d == ProcessBlock(c, b)
           IN  /\ IsContainer(d) /\ Accepted(d)
               /\ Range(c) \subseteq Range(d)
               /\ \A a \in Range(d) : a \in Range(c) \/ KeysOf(a) \subseteq KeysOf(b)
               /\ Adapts(c, b) /\ Ambiguous(c, b) = {} => b \in Range(d)
               /\ Adapts(c, b) /\ IsLiteral(b) => AddressesOf(b) \subseteq AllAddresses(Range(d))
<1> DEFINE d    == ProcessBlock(c, b)
           rest == Without(b.keys, Ambiguous(c, b))
           x    == [b EXCEPT !.keys = rest]
           Gone == Ambiguous(c, x) # {} \/ (rest = <<>> /\ b.keys # <<>>) \/ ~Adapts(c, x)
<1>1. /\ IsSeq(b.keys) /\ IsInjective(b.keys)
      /\ b.keys = <<>> <=> KeysOf(b) = {}
    BY BlockFacts DEF IsBlock
<1>2. /\ IsSeq(rest) /\ IsInjective(rest)
      /\ Range(rest) = KeysOf(b) \ Ambiguous(c, b)
      /\ KeysOf(b) \cap Ambiguous(c, b) = {} => rest = b.keys
    BY <1>1, WithoutFacts DEF KeysOf
<1>3. rest = <<>> <=> Range(rest) = {}
    BY <1>2, SeqFacts
<1>4. d = IF Gone THEN c ELSE Append(c, x)
    BY DEF ProcessBlock
<1> HIDE DEF rest
<1>5. IsBlock(x) /\ x.keys = rest /\ x.body = b.body /\ (rest = b.keys => x = b)
    BY <1>2, KeysFacts
<1> HIDE DEF d, x
<1>6. KeysOf(x) = KeysOf(b) \ Ambiguous(c, b)
    BY <1>2, <1>5 DEF KeysOf
<1>7. Ambiguous(c, b) \subseteq AllAddresses(Range(c))
    BY DEF Ambiguous, AllAddresses
<1>8. CASE Gone
    <2>1. d = c
        BY <1>4, <1>8
    <2>2. ASSUME Adapts(c, b), Ambiguous(c, b) = {} PROVE FALSE
        BY <1>2, <1>5, <1>8, <2>2
    <2>3. ASSUME Adapts(c, b), IsLiteral(b)
          PROVE  AddressesOf(b) \subseteq AllAddresses(Range(c))
        <3>1. AddressesOf(b) = KeysOf(b) /\ AddressesOf(x) = KeysOf(x)
            BY <1>6, <2>3 DEF AddressesOf, IsLiteral
        <3>2. Ambiguous(c, x) = {}
            BY <1>6, <3>1 DEF Ambiguous
        <3>3. CASE rest = <<>>
            BY <1>2, <1>3, <1>7, <3>1, <3>3
        <3>4. CASE rest # <<>>
            <4>1. ~IsSnippet(b) => ~IsSnippet(x) /\ ~EndsInComma(x)
                <5>1. x.keys \in Seq(KeysOf(x)) /\ x.keys # <<>>
                    BY <1>2, <1>5, <3>4 DEF IsSeq, KeysOf
                <5>2. Last(x.keys) \in KeysOf(x)
                    BY <5>1 DEF Last, KeysOf, Range
                <5>3. Last(x.keys) \in KeysOf(b) /\ KeysOf(b) \subseteq Keys
                    BY <1>6, <5>2, BlockFacts
                <5>4. ~EndsInComma(x)
                    BY <2>3, <5>3, AddressAssumption DEF EndsInComma, IsLiteral
                <5>5. ~IsSnippet(b) => ~IsSnippet(x)
                    BY <1>5, <1>6, BlockFacts
                <5> QED
                    BY <5>4, <5>5
            <4>2. IsSnippet(b) => IsSnippet(x)
                <5>1. IsSnippet(b) => KeysOf(b) \subseteq Snippets
                    BY DEF IsSnippet
                <5>2. KeysOf(x) # {}
                    BY <1>2, <1>3, <1>6, <3>4
                <5> QED
                    BY <1>5, <1>6, <5>1, <5>2, BlockFacts
            <4>3. Adapts(c, x)
                BY <1>5, <2>3, <4>1, <4>2 DEF Adapts
            <4> QED
                BY <1>8, <3>2, <3>4, <4>3
        <3> QED
            BY <3>3, <3>4
    <2> QED
        BY <2>1, <2>2, <2>3 DEF d
<1>9. CASE ~Gone
    <2>1. d = Append(c, x) /\ Adapts(c, x) /\ Ambiguous(c, x) = {}
        BY <1>4, <1>9
    <2>2. IsSeq(d) /\ Range(d) = Range(c) \cup {x}
        BY <2>1, AppendFacts DEF IsContainer, IsSeq
    <2>3. IsContainer(d)
        BY <1>5, <2>2 DEF IsContainer, IsSeq
    <2>4. Accepted(d)
        BY <2>1, AppendAccepted DEF IsContainer, IsSeq
    <2>5. Ambiguous(c, b) = {} => b \in Range(d)
        BY <1>2, <1>5, <2>2
    <2>6. ASSUME IsLiteral(b) PROVE AddressesOf(b) \subseteq AllAddresses(Range(d))
        <3>1. AddressesOf(b) = KeysOf(b) /\ AddressesOf(x) = KeysOf(x)
            BY <1>6, <2>6 DEF AddressesOf, IsLiteral
        <3> QED
            BY <1>6, <1>7, <2>2, <3>1 DEF AllAddresses
    <2> QED
        BY <1>6, <2>2, <2>3, <2>4, <2>5, <2>6 DEF d
<1> QED
    BY <1>8, <1>9

\* What Process makes of a sorted container: a Caddyfile that Caddy accepts,
\* which has the addresses of every sound site block, unless it shares one that
\* is not written as it is, and has the block itself when no two blocks share an
\* address.
THEOREM ProcessFacts ==
    ASSUME NEW s, Proper(s), Ranked(s)
    PROVE  /\ IsContainer(Process(s)) /\ Accepted(Process(s))
           /\ \A b \in Range(s) :
                 IsSiteBlock(b) /\ Sound(b, Range(s)) /\ IsSpelled(b, Range(s)) =>
                    AddressesOf(b) \subseteq AllAddresses(Range(Process(s)))
           /\ (\A a, b \in Range(s) : AddressesOf(a) \cap AddressesOf(b) # {} => a = b) =>
                 \A b \in Range(s) : IsSiteBlock(b) /\ Sound(b, Range(s)) =>
                    b \in Range(Process(s))
<1>1. /\ Len(s) \in Nat /\ DOMAIN s = 1 .. Len(s)
      /\ \A i \in 1 .. Len(s) : s[i] \in Range(s) /\ IsBlock(s[i])
      /\ \A y \in Range(s) : \E i \in 1 .. Len(s) : s[i] = y
    BY SeqFacts DEF Proper, IsContainer, IsSeq
<1>2. PICK f : /\ f[0] = <<>>
               /\ \A i \in 1 .. Len(s) : f[i] = ProcessBlock(f[i - 1], s[i])
               /\ f[Len(s)] = FoldLeft(ProcessBlock, <<>>, s)
    BY <1>1, ProcessingSteps
<1> DEFINE Disjoint == \A a, b \in Range(s) : AddressesOf(a) \cap AddressesOf(b) # {} => a = b
           Served(b, c) == /\ IsSnippet(b) => b \in Range(c)
                           /\ IsSiteBlock(b) /\ Sound(b, Range(s)) =>
                                 /\ IsSpelled(b, Range(s)) =>
                                       AddressesOf(b) \subseteq AllAddresses(Range(c))
                                 /\ Disjoint => b \in Range(c)
           P(i) == /\ IsContainer(f[i]) /\ Accepted(f[i])
                   /\ \A a \in Range(f[i]) : \E j \in 1 .. i : KeysOf(a) \subseteq KeysOf(s[j])
                   /\ \A j \in 1 .. i : Served(s[j], f[i])
           I    == {i \in 0 .. Len(s) : P(i)}
<1>3. P(0)
    <2>1. IsContainer(<<>>) /\ Accepted(<<>>) /\ Range(<<>>) = {}
        BY EmptyProper, EmptyFacts DEF Proper, Accepted
    <2> QED
        BY <1>2, <2>1
<1>4. ASSUME NEW i \in 0 .. Len(s) - 1, P(i) PROVE P(i + 1)
    <2> DEFINE b == s[i + 1]
               c == f[i]
               d == f[i + 1]
    <2>1. i + 1 \in 1 .. Len(s) /\ (i + 1) - 1 = i
        BY <1>1
    <2>2. b \in Range(s) /\ IsBlock(b) /\ d = ProcessBlock(c, b)
        BY <1>1, <1>2, <2>1
    <2> HIDE DEF Served, Disjoint
    <2>3. /\ IsContainer(d) /\ Accepted(d)
          /\ Range(c) \subseteq Range(d)
          /\ \A a \in Range(d) : a \in Range(c) \/ KeysOf(a) \subseteq KeysOf(b)
          /\ Adapts(c, b) /\ Ambiguous(c, b) = {} => b \in Range(d)
          /\ Adapts(c, b) /\ IsLiteral(b) => AddressesOf(b) \subseteq AllAddresses(Range(d))
        BY <1>4, <2>2, ProcessBlockFacts
    <2>4. \A a \in Range(d) : \E j \in 1 .. i + 1 : KeysOf(a) \subseteq KeysOf(s[j])
        BY <1>4, <2>1, <2>3
    <2>5. \A j \in 1 .. i : Served(s[j], d)
        <3>1. AllAddresses(Range(c)) \subseteq AllAddresses(Range(d))
            BY <2>3 DEF AllAddresses
        <3>2. \A a : Served(a, c) => Served(a, d)
            BY <2>3, <3>1 DEF Served
        <3> QED
            BY <1>4, <3>2
    <2>6. \A j \in 1 .. i : j \in 1 .. Len(s) /\ s[j] # b
        BY <1>1, <2>1 DEF Proper, IsInjective
    \* An ambiguous address is one of another block.
    <2>7. \A k \in Ambiguous(c, b) : \E j \in 1 .. i : k \in AddressesOf(s[j])
        BY <1>4 DEF Ambiguous, AddressesOf
    <2>8. ASSUME IsSnippet(b) PROVE b \in Range(d)
        <3>1. Ambiguous(c, b) = {}
            <4> SUFFICES ASSUME NEW k \in Ambiguous(c, b) PROVE FALSE
                OBVIOUS
            <4>1. PICK j \in 1 .. i : k \in AddressesOf(s[j])
                BY <2>7
            <4>2. SharesKey(s[j], b) /\ IsBlock(s[j]) /\ s[j] \in Range(s)
                <5>1. IsBlock(s[j]) /\ s[j] \in Range(s)
                    BY <1>1, <2>6
                <5>2. KeysOf(b) \subseteq Snippets /\ KeysOf(s[j]) \subseteq Keys
                    BY <2>8, <5>1, BlockFacts DEF IsSnippet
                <5>3. k \in KeysOf(b)
                    BY <5>2, AddressAssumption DEF Ambiguous, AddressesOf
                <5>4. PICK t \in KeysOf(s[j]) : k = Address(t)
                    BY <4>1 DEF AddressesOf
                <5>5. t = k
                    BY <5>2, <5>3, <5>4, AddressAssumption
                <5> QED
                    BY <5>1, <5>3, <5>4, <5>5 DEF SharesKey
            <4>3. s[j].keys = b.keys
                BY <2>2, <2>8, <4>2, SnippetFacts
            <4> QED
                BY <2>2, <2>6, <4>2, <4>3 DEF Proper
        <3> QED
            BY <2>3, <2>8, <3>1 DEF Adapts
    <2>9. ASSUME IsSiteBlock(b), Sound(b, Range(s)) PROVE Adapts(c, b)
        <3>1. ASSUME NEW e \in b.body, e[1] = "import"
              PROVE  \E a \in Range(c) : /\ IsSnippet(a) /\ a.keys = <<e[2]>>
                                         /\ Invalid \notin a.body
            <4>1. PICK a \in Range(s) : /\ IsSnippet(a) /\ a.keys = <<e[2]>>
                                        /\ Invalid \notin a.body
                BY <2>9, <3>1 DEF Sound
            <4>2. PICK j \in 1 .. Len(s) : s[j] = a
                BY <1>1
            <4>3. Rank(a) = 1 /\ Rank(b) = 2
                BY <2>9, <4>1 DEF Rank, IsSiteBlock, IsGlobalBlock, IsSnippet
            <4>4. ~(i + 1 < j) /\ j # i + 1
                BY <1>1, <2>1, <4>2, <4>3 DEF Ranked
            <4>5. j \in 1 .. i
                BY <1>1, <4>4
            <4>6. a \in Range(c)
                BY <1>4, <4>1, <4>2, <4>5 DEF Served
            <4> QED
                BY <4>1, <4>6
        <3> QED
            BY <2>9, <3>1 DEF Adapts, Sound, IsSiteBlock
    <2>10. ASSUME IsSiteBlock(b), Sound(b, Range(s)), Disjoint PROVE b \in Range(d)
        <3>1. Ambiguous(c, b) = {}
            <4> SUFFICES ASSUME NEW k \in Ambiguous(c, b) PROVE FALSE
                OBVIOUS
            <4>1. PICK j \in 1 .. i : k \in AddressesOf(s[j])
                BY <2>7
            <4>2. AddressesOf(s[j]) \cap AddressesOf(b) # {} /\ s[j] \in Range(s)
                BY <1>1, <2>6, <4>1 DEF Ambiguous
            <4> QED
                BY <2>2, <2>6, <2>10, <4>2 DEF Disjoint
        <3> QED
            BY <2>3, <2>9, <2>10, <3>1
    <2>11. ASSUME IsSiteBlock(b), Sound(b, Range(s)), IsSpelled(b, Range(s))
           PROVE  AddressesOf(b) \subseteq AllAddresses(Range(d))
        <3>1. CASE Ambiguous(c, b) = {}
            BY <2>3, <2>9, <2>11, <3>1 DEF AllAddresses
        <3>2. CASE Ambiguous(c, b) # {}
            <4>1. PICK k \in Ambiguous(c, b) : TRUE
                BY <3>2
            <4>2. PICK j \in 1 .. i : k \in AddressesOf(s[j])
                BY <2>7
            <4>3. /\ AddressesOf(s[j]) \cap AddressesOf(b) # {}
                  /\ s[j] \in Range(s) /\ s[j].keys # b.keys
                BY <1>1, <2>2, <2>6, <4>1, <4>2 DEF Ambiguous, Proper
            <4>4. IsLiteral(b)
                BY <2>11, <4>3 DEF IsSpelled
            <4> QED
                BY <2>3, <2>9, <2>11, <4>4
        <3> QED
            BY <3>1, <3>2
    <2>12. Served(b, d)
        BY <2>8, <2>10, <2>11 DEF Served
    <2>13. \A j \in 1 .. i + 1 : Served(s[j], d)
        <3>1. \A j \in 1 .. i + 1 : j \in 1 .. i \/ j = i + 1
            OBVIOUS
        <3> QED
            BY <2>5, <2>12, <3>1
    <2> QED
        BY <2>3, <2>4, <2>13
<1>5. P(Len(s))
    <2>1. 0 \in I /\ \A i \in 0 .. Len(s) - 1 : i \in I => i + 1 \in I
        <3> HIDE DEF P
        <3> QED
            BY <1>1, <1>3, <1>4
    <2>2. \A i \in 0 .. Len(s) : i \in I
        <3> HIDE DEF I
        <3> QED
            BY <1>1, <2>1, Selecting!Induction
    <2> HIDE DEF P
    <2> QED
        BY <1>1, <2>2
<1>6. \A b \in Range(s) : Served(b, Process(s))
    <2> HIDE DEF Served
    <2> QED
        BY <1>1, <1>2, <1>5 DEF Process
<1> QED
    BY <1>2, <1>5, <1>6 DEF Process

-----------------------------------------------------------------------------
(* From the blocks that are read to the Caddyfile that is written.         *)

\* SetToSeqs gives the elements of a finite set in some order.
LEMMA SetToSeqsFacts ==
    ASSUME NEW S, IsFiniteSet(S), NEW s \in SetToSeqs(S)
    PROVE  IsSeq(s) /\ Range(s) = S
<1> DEFINE n == Cardinality(S)
<1>1. n \in Nat
    BY FS_CardinalityType
<1>2. IsFiniteSet(1 .. n) /\ Cardinality(1 .. n) = n
    BY <1>1, FS_Interval
<1>3. s \in Injection(1 .. n, S)
    BY DEF SetToSeqs, Injection, IsInjective
<1> HIDE DEF n
<1>4. s \in Surjection(1 .. n, S)
    BY <1>2, <1>3, FS_Injection DEF n
<1>5. s \in [1 .. n -> S] /\ \A x \in S : \E i \in 1 .. n : s[i] = x
    BY <1>4 DEF Surjection
<1>6. Range(s) = S
    BY <1>5 DEF Range
<1> QED
    BY <1>1, <1>5, <1>6 DEF IsSeq

\* The container c has merged the blocks X; disjoint says that no two blocks
\* of a base Caddyfile share a key.
Built(mergeSites, disjoint, c, X) ==
    /\ Proper(c)
    /\ ~mergeSites => MergedBlocks(c, X)
    /\ mergeSites /\ disjoint => MergedSites(c, X)

LEMMA CaddyfileBuilds ==
    ASSUME NEW mergeSites, NEW disjoint, NEW c, NEW X,
           Built(mergeSites, disjoint, c, X), NEW s, IsContainer(s)
    PROVE  Built(mergeSites, disjoint, MergeCaddyfile(c, s, mergeSites), X \cup Range(s))
<1>1. Proper(MergeCaddyfile(c, s, mergeSites))
    BY MergeCaddyfileProper DEF Built
<1>2. ~mergeSites => MergedBlocks(MergeCaddyfile(c, s, mergeSites), X \cup Range(s))
    BY MergeMerges DEF Built, MergeCaddyfile
<1>3. mergeSites /\ disjoint => MergedSites(MergeCaddyfile(c, s, mergeSites), X \cup Range(s))
    BY MergeSitesMerges DEF Built, MergeCaddyfile
<1> QED
    BY <1>1, <1>2, <1>3 DEF Built

LEMMA BaseBuilds ==
    ASSUME NEW mergeSites, NEW disjoint, NEW s, IsContainer(s),
           disjoint => \A a, b \in Range(s) : SharesKey(a, b) => a.keys = b.keys
    PROVE  Built(mergeSites, disjoint, Merge(<<>>, s), Range(s))
<1>1. MergedBlocks(Merge(<<>>, s), {} \cup Range(s))
    BY NothingMerged, MergeMerges
<1>2. MergedBlocks(Merge(<<>>, s), Range(s))
    BY <1>1
<1>3. disjoint => MergedSites(Merge(<<>>, s), Range(s))
    BY <1>2, MergedOnce
<1> QED
    BY <1>2, <1>3 DEF Built, MergedBlocks

LEMMA NothingBuilt ==
    ASSUME NEW mergeSites, NEW disjoint
    PROVE  Built(mergeSites, disjoint, <<>>, {})
<1>1. MergedSites(<<>>, {})
    BY NothingMerged, MergedOnce
<1> QED
    BY <1>1, NothingMerged, EmptyProper DEF Built

\* A block merged from sound blocks only is sound.
LEMMA MergedSound ==
    ASSUME NEW c, NEW X, MergedBlocks(c, X), NEW b \in Range(c),
           \A a \in X : a.keys = b.keys => Sound(a, X)
    PROVE  Sound(b, Range(c))
<1>1. ASSUME NEW d \in b.body PROVE \E a \in X : Sound(a, X) /\ d \in a.body
    BY DEF MergedBlocks
<1>2. Invalid \notin b.body /\ ~EndsInComma(b)
    <2>1. PICK a \in X : a.keys = b.keys
        BY DEF MergedBlocks
    <2> QED
        BY <1>1, <2>1 DEF Sound, EndsInComma
<1>3. ASSUME NEW d \in b.body, d[1] = "import",
             NEW a \in Range(c), IsSnippet(a), a.keys = <<d[2]>>
      PROVE  Invalid \notin a.body
    <2>1. PICK y \in X : Sound(y, X) /\ d \in y.body
        BY <1>1
    <2>2. \A x \in X : x.keys = a.keys => Invalid \notin x.body
        BY <1>3, <2>1 DEF Sound, IsSnippet, KeysOf
    <2> QED
        BY <2>2 DEF MergedBlocks
<1>4. ASSUME NEW d \in b.body, d[1] = "import"
      PROVE  \E a \in Range(c) : IsSnippet(a) /\ a.keys = <<d[2]>>
    <2>1. PICK y \in X : Sound(y, X) /\ d \in y.body
        BY <1>1
    <2>2. PICK x \in X : IsSnippet(x) /\ x.keys = <<d[2]>>
        BY <1>4, <2>1 DEF Sound
    <2>3. PICK a \in Range(c) : a.keys = x.keys
        BY DEF MergedBlocks
    <2> QED
        BY <2>2, <2>3 DEF IsSnippet, KeysOf
<1> QED
    BY <1>2, <1>3, <1>4 DEF Sound

\* Merged by their keys, blocks share addresses as those they are made of do.
LEMMA MergedSpelled ==
    ASSUME NEW c, NEW X, MergedBlocks(c, X), NEW b \in X, IsSpelled(b, X),
           NEW e \in Range(c), e.keys = b.keys
    PROVE  IsSpelled(e, Range(c))
<1> SUFFICES ASSUME NEW a \in Range(c), a.keys # e.keys,
                    AddressesOf(a) \cap AddressesOf(e) # {}
             PROVE  IsLiteral(a) /\ IsLiteral(e)
    BY DEF IsSpelled
<1>1. PICK x \in X : x.keys = a.keys
    BY DEF MergedBlocks
<1>2. /\ KeysOf(x) = KeysOf(a) /\ KeysOf(b) = KeysOf(e)
      /\ AddressesOf(x) = AddressesOf(a) /\ AddressesOf(b) = AddressesOf(e)
    BY <1>1 DEF KeysOf, AddressesOf
<1> QED
    BY <1>1, <1>2 DEF IsSpelled, IsLiteral

\* No address of a merged site stands in two blocks.
LEMMA MergedApart ==
    ASSUME NEW c, NEW X, MergedSites(c, X), AllSpelled(X), NEW a \in Range(c),
           NEW b \in Range(c), AddressesOf(a) \cap AddressesOf(b) # {}
    PROVE  a = b
<1>1. PICK s \in KeysOf(a), t \in KeysOf(b) : Address(s) = Address(t)
    BY DEF AddressesOf
<1>2. PICK x \in X : s \in KeysOf(x)
    BY DEF MergedSites
<1>3. PICK y \in X : t \in KeysOf(y)
    BY DEF MergedSites
<1>4. CASE x.keys = y.keys
    <2>1. PICK e \in Range(c) : KeysOf(x) \subseteq KeysOf(e)
        BY DEF MergedSites
    <2>2. s \in KeysOf(e) /\ t \in KeysOf(e)
        BY <1>2, <1>3, <1>4, <2>1 DEF KeysOf
    <2>3. SharesKey(a, e) /\ SharesKey(b, e)
        BY <2>2 DEF SharesKey
    <2> QED
        BY <2>3 DEF MergedSites
<1>5. CASE x.keys # y.keys
    <2>1. AddressesOf(x) \cap AddressesOf(y) # {}
        BY <1>1, <1>2, <1>3 DEF AddressesOf
    <2>2. IsLiteral(x) /\ IsLiteral(y)
        BY <1>5, <2>1 DEF AllSpelled, IsSpelled
    <2>3. s = t
        BY <1>1, <1>2, <1>3, <2>2 DEF IsLiteral
    <2>4. SharesKey(a, b)
        BY <2>3 DEF SharesKey
    <2> QED
        BY <2>4 DEF MergedSites
<1> QED
    BY <1>4, <1>5

LEMMA MergedSitesSound ==
    ASSUME NEW c, NEW X, MergedSites(c, X), AllSpelled(X), \A a \in X : Sound(a, X),
           NEW b \in Range(c)
    PROVE  Sound(b, Range(c))
<1>1. \A a \in Range(c) : \A d \in a.body : \E x \in X : d \in x.body
    BY DEF MergedSites
<1>2. \A a \in Range(c) : Invalid \notin a.body
    BY <1>1 DEF Sound
<1>3. ASSUME NEW d \in b.body, d[1] = "import"
      PROVE  \E a \in Range(c) : IsSnippet(a) /\ a.keys = <<d[2]>>
    <2>1. PICK y \in X : d \in y.body
        BY <1>1
    <2>2. PICK x \in X : IsSnippet(x) /\ x.keys = <<d[2]>>
        BY <1>3, <2>1 DEF Sound
    <2>3. PICK a \in Range(c) : KeysOf(x) \subseteq KeysOf(a)
        BY DEF MergedSites
    <2>4. /\ IsBlock(x) /\ IsBlock(a) /\ SharesKey(a, x)
        BY <2>2, <2>3, BlockFacts DEF MergedSites, Proper, IsContainer, SharesKey
    <2> QED
        BY <2>2, <2>4, SnippetFacts
<1>4. ~EndsInComma(b)
    <2>1. CASE \E x \in X : x.keys = b.keys
        BY <2>1 DEF Sound, EndsInComma
    <2>2. CASE IsLiteral(b)
        <3> SUFFICES ASSUME b.keys # <<>> PROVE Last(b.keys) \notin Commas
            BY DEF EndsInComma
        <3>1. b.keys \in Seq(KeysOf(b)) /\ KeysOf(b) \subseteq Keys
            BY BlockFacts DEF MergedSites, Proper, IsContainer, IsSeq, KeysOf
        <3>2. Last(b.keys) \in KeysOf(b)
            BY <3>1 DEF Last, KeysOf, Range
        <3> QED
            BY <2>2, <3>1, <3>2, AddressAssumption DEF IsLiteral
    <2> QED
        BY <2>1, <2>2 DEF MergedSites
<1> QED
    BY <1>2, <1>3, <1>4 DEF Sound

Written(process, c) == IF process THEN Process(Sorted(c)) ELSE Sorted(c)

LEMMA WrittenFacts ==
    ASSUME NEW process, NEW c, Proper(c)
    PROVE  /\ IsContainer(Written(process, c))
           /\ process => Accepted(Written(process, c))
    BY SortedFacts, ProcessFacts DEF Written, Proper

LEMMA NothingWritten ==
    ASSUME NEW process
    PROVE  Written(process, <<>>) = <<>>
<1>1. Sorted(<<>>) = <<>>
    <2>1. IsSeq(Sorted(<<>>)) /\ Range(Sorted(<<>>)) = {}
        BY EmptyProper, EmptyFacts, SortedFacts DEF Proper, IsContainer, IsSeq
    <2> QED
        BY <2>1, SeqFacts
<1>2. Process(<<>>) = <<>>
    <2>1. DOMAIN <<>> = 1 .. 0 /\ 0 \in Nat
        OBVIOUS
    <2>2. PICK f : /\ f[0] = <<>>
                   /\ \A i \in 1 .. 0 : f[i] = ProcessBlock(f[i - 1], <<>>[i])
                   /\ f[0] = FoldLeft(ProcessBlock, <<>>, <<>>)
        BY <2>1, ProcessingSteps
    <2> QED
        BY <2>2 DEF Process
<1> QED
    BY <1>1, <1>2 DEF Written

\* The same blocks are written as the same Caddyfile, in whatever order they
\* have been merged.
LEMMA WrittenSame ==
    ASSUME NEW process, NEW c, NEW e, NEW X, MergedBlocks(c, X), MergedBlocks(e, X),
           \A a, b \in X : a.keys = b.keys => a.order = b.order
    PROVE  Written(process, c) = Written(process, e)
<1>1. Proper(c) /\ Proper(e)
    BY DEF MergedBlocks
<1>2. Range(c) = Range(e)
    BY MergedSame
<1>3. Sorted(c) = Sorted(e)
    BY <1>1, <1>2, SortedFacts, OrderedUnique
<1> QED
    BY <1>3 DEF Written

\* The addresses of a sound block are written.
LEMMA WrittenSurvives ==
    ASSUME NEW process, NEW c, NEW X, MergedBlocks(c, X), NEW b \in X, IsSiteBlock(b),
           \A a \in X : a.keys = b.keys => Sound(a, X), IsSpelled(b, X)
    PROVE  AddressesOf(b) \subseteq AllAddresses(Range(Written(process, c)))
<1>1. PICK a \in Range(c) : a.keys = b.keys
    BY DEF MergedBlocks
<1>2. Sound(a, Range(c)) /\ IsSpelled(a, Range(c)) /\ Proper(c)
    BY <1>1, MergedSound, MergedSpelled DEF MergedBlocks
<1>3. IsSiteBlock(a) /\ AddressesOf(a) = AddressesOf(b)
    BY <1>1 DEF IsSiteBlock, IsGlobalBlock, IsSnippet, KeysOf, AddressesOf
<1>4. /\ Proper(Sorted(c)) /\ Ranked(Sorted(c)) /\ Range(Sorted(c)) = Range(c)
    BY <1>2, SortedFacts
<1>5. AddressesOf(a) \subseteq AllAddresses(Range(Process(Sorted(c))))
    BY <1>2, <1>3, <1>4, ProcessFacts
<1>6. AddressesOf(a) \subseteq AllAddresses(Range(Sorted(c)))
    BY <1>4 DEF AllAddresses
<1> QED
    BY <1>3, <1>5, <1>6 DEF Written

\* When all blocks are sound, every site block is written with all it has.
LEMMA WrittenServes ==
    ASSUME NEW process, NEW c, NEW X, MergedSites(c, X), AllSpelled(X),
           \A a \in X : Sound(a, X), NEW b \in X, IsSiteBlock(b)
    PROVE  \E a \in Range(Written(process, c)) :
              KeysOf(b) \subseteq KeysOf(a) /\ b.body \subseteq a.body
<1>1. PICK a \in Range(c) : KeysOf(b) \subseteq KeysOf(a) /\ b.body \subseteq a.body
    BY DEF MergedSites
<1>2. /\ Sound(a, Range(c)) /\ Proper(c)
      /\ \A x, y \in Range(c) : AddressesOf(x) \cap AddressesOf(y) # {} => x = y
    BY MergedSitesSound, MergedApart DEF MergedSites
<1>3. IsSiteBlock(a)
    <2>1. IsBlock(a) /\ IsBlock(b)
        BY DEF MergedSites, Proper, IsContainer
    <2>2. PICK k \in KeysOf(b) : k \notin Snippets
        BY <2>1, BlockFacts
    <2> QED
        BY <1>1, <2>1, <2>2, BlockFacts DEF IsSnippet
<1>4. /\ Proper(Sorted(c)) /\ Ranked(Sorted(c)) /\ Range(Sorted(c)) = Range(c)
    BY <1>2, SortedFacts
<1>5. a \in Range(Process(Sorted(c)))
    BY <1>2, <1>3, <1>4, ProcessFacts
<1> QED
    BY <1>1, <1>4, <1>5 DEF Written
=============================================================================
