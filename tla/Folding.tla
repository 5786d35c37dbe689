------------------------------- MODULE Folding -------------------------------
(***************************************************************************)
(* What FoldLeft computes, for any step that is folded: the first and the  *)
(* next of its intermediate results.  With these facts, whatever holds of  *)
(* every intermediate result is proved by induction, for sequences of any  *)
(* length.  A module that folds with an operator instantiates this one.    *)
(***************************************************************************)
EXTENDS Integers, SequencesExt, TLAPS, WellFoundedInduction

\* From a parameter of the fold, the result for a prefix, and the next element.
CONSTANT Step(_, _, _)

\* FoldLeft(LAMBDA r, x : Step(p, r, x), base, seq), as it is defined: from a
\* set of indices, the greatest is taken away.
Folded(p, base, seq) ==
    LET iter[s \in SUBSET DOMAIN seq] ==
            IF s = {} THEN base
            ELSE LET i == Max(s) IN Step(p, iter[s \ {i}], seq[i])
    IN  iter[DOMAIN seq]

-----------------------------------------------------------------------------
(* Induction, from the existence of a least counterexample.                *)

LEMMA Least ==
    ASSUME NEW S \in SUBSET Nat, S # {}
    PROVE  \E n \in S : \A m \in S : n <= m
<1> DEFINE less == {p \in Nat \X Nat : p[1] < p[2]}
<1>1. IsWellFoundedOn(less, Nat)
    BY NatLessThanWellFounded DEF OpToRel
<1>2. PICK n \in S : \A m \in S : <<m, n>> \notin less
    <2> HIDE DEF less
    <2> QED
        BY <1>1, WFMin
<1>3. \A m \in S : m < n => <<m, n>> \in less
    OBVIOUS
<1> HIDE DEF less
<1>4. \A m \in S : n <= m
    <2> TAKE m \in S
    <2>1. ~(m < n) /\ m \in Nat /\ n \in Nat
        BY <1>2, <1>3
    <2> QED
        BY <2>1
<1> QED
    BY <1>4

LEMMA Induction ==
    ASSUME NEW N \in Nat, NEW S, 0 \in S,
           \A n \in 0 .. N - 1 : n \in S => n + 1 \in S
    PROVE  \A n \in 0 .. N : n \in S
<1> DEFINE bad == {n \in 0 .. N : n \notin S}
<1> SUFFICES ASSUME bad # {} PROVE FALSE
    OBVIOUS
<1>1. PICK n \in bad : \A m \in bad : n <= m
    <2>1. bad \in SUBSET Nat
        OBVIOUS
    <2> HIDE DEF bad
    <2> QED
        BY <2>1, Least
<1>2. n # 0 /\ n - 1 \notin bad /\ n - 1 \in 0 .. N - 1
    BY <1>1
<1> QED
    BY <1>1, <1>2

-----------------------------------------------------------------------------
(* The intermediate results of a fold.  FoldLeft is defined on sets of     *)
(* indices, from which the greatest is taken away.                         *)

\* f[s] is the result for the elements at the indices s, of those up to n.
Folds(f, p, base, seq, n) ==
    /\ f = [s \in SUBSET (1 .. n) |-> f[s]]
    /\ f[{}] = base
    /\ \A s \in SUBSET (1 .. n) :
          s # {} => f[s] = Step(p, f[s \ {Max(s)}], seq[Max(s)])

LEMMA MaxUpTo ==
    ASSUME NEW n \in Nat, NEW s \in SUBSET (1 .. n), n \in s
    PROVE  Max(s) = n
<1>1. \A y \in s : n >= y
    OBVIOUS
<1>2. \A x \in s : (\A y \in s : x >= y) => x = n
    OBVIOUS
<1> QED
    BY <1>1, <1>2 DEF Max

LEMMA FoldsExists ==
    ASSUME NEW N \in Nat, NEW p, NEW base, NEW seq
    PROVE  \E f : Folds(f, p, base, seq, N)
<1> DEFINE S == {n \in 0 .. N : \E f : Folds(f, p, base, seq, n)}
<1>1. 0 \in S
    <2> DEFINE g == [s \in SUBSET (1 .. 0) |-> base]
    <2>1. 1 .. 0 = {}
        OBVIOUS
    <2>2. Folds(g, p, base, seq, 0)
        BY <2>1 DEF Folds
    <2> QED
        BY <2>2
<1>2. ASSUME NEW n \in 0 .. N - 1, NEW f, Folds(f, p, base, seq, n)
      PROVE  \E g : Folds(g, p, base, seq, n + 1)
    <2> DEFINE g == [s \in SUBSET (1 .. n + 1) |->
                        IF n + 1 \in s THEN Step(p, f[s \ {n + 1}], seq[n + 1]) ELSE f[s]]
    <2>1. g = [s \in SUBSET (1 .. n + 1) |-> g[s]]
        OBVIOUS
    <2>2. \A s \in SUBSET (1 .. n + 1) :
             g[s] = IF n + 1 \in s THEN Step(p, f[s \ {n + 1}], seq[n + 1]) ELSE f[s]
        OBVIOUS
    <2> HIDE DEF g
    <2>3. g[{}] = base
        BY <1>2, <2>2 DEF Folds
    <2>4. ASSUME NEW s \in SUBSET (1 .. n + 1), s # {}
          PROVE  g[s] = Step(p, g[s \ {Max(s)}], seq[Max(s)])
        <3>1. CASE n + 1 \in s
            <4>1. Max(s) = n + 1
                BY <3>1, MaxUpTo
            <4>2. g[s \ {n + 1}] = f[s \ {n + 1}]
                BY <2>2
            <4> QED
                BY <2>2, <3>1, <4>1, <4>2
        <3>2. CASE n + 1 \notin s
            <4>1. s \in SUBSET (1 .. n)
                BY <3>2
            <4>2. /\ g[s] = f[s]
                  /\ g[s \ {Max(s)}] = f[s \ {Max(s)}]
                BY <2>2, <3>2
            <4> QED
                BY <1>2, <2>4, <4>1, <4>2 DEF Folds
        <3> QED
            BY <3>1, <3>2
    <2>5. Folds(g, p, base, seq, n + 1)
        BY <2>1, <2>3, <2>4 DEF Folds
    <2> QED
        BY <2>5
<1>3. \A n \in 0 .. N - 1 : n \in S => n + 1 \in S
    BY <1>2
<1>4. \A n \in 0 .. N : n \in S
    <2> HIDE DEF S
    <2> QED
        BY <1>1, <1>3, Induction
<1> QED
    BY <1>4

\* FoldLeft goes from base over intermediate results f[i], one step for each
\* element.
LEMMA FoldLeftSteps ==
    ASSUME NEW seq, NEW n \in Nat, DOMAIN seq = 1 .. n, NEW p, NEW base
    PROVE  \E f : /\ f[0] = base
                  /\ \A i \in 1 .. n : f[i] = Step(p, f[i - 1], seq[i])
                  /\ f[n] = Folded(p, base, seq)
<1> DEFINE body(f) == [s \in SUBSET (1 .. n) |->
                          IF s = {} THEN base
                          ELSE Step(p, f[s \ {Max(s)}], seq[Max(s)])]
           iter == CHOOSE f : f = body(f)
<1>1. iter = body(iter)
    <2>1. PICK f : Folds(f, p, base, seq, n)
        BY FoldsExists
    <2>2. \A s \in SUBSET (1 .. n) :
             f[s] = IF s = {} THEN base ELSE Step(p, f[s \ {Max(s)}], seq[Max(s)])
        BY <2>1 DEF Folds
    <2>3. f = body(f)
        BY <2>1, <2>2 DEF Folds
    <2> QED
        BY <2>3
<1>2. Folded(p, base, seq) = iter[1 .. n]
    BY DEF Folded
<1> HIDE DEF iter
<1>3. /\ iter[{}] = base
      /\ \A s \in SUBSET (1 .. n) :
            s # {} => iter[s] = Step(p, iter[s \ {Max(s)}], seq[Max(s)])
    BY <1>1
<1> DEFINE f == [i \in 0 .. n |-> iter[1 .. i]]
<1>4. f[0] = base
    <2>1. 1 .. 0 = {}
        OBVIOUS
    <2> QED
        BY <1>3, <2>1
<1>5. ASSUME NEW i \in 1 .. n PROVE f[i] = Step(p, f[i - 1], seq[i])
    <2>1. Max(1 .. i) = i
        BY MaxUpTo
    <2>2. (1 .. i) \ {i} = 1 .. (i - 1) /\ 1 .. i \in SUBSET (1 .. n) /\ 1 .. i # {}
        OBVIOUS
    <2>3. iter[1 .. i] = Step(p, iter[1 .. (i - 1)], seq[i])
        BY <1>3, <2>1, <2>2
    <2> QED
        BY <2>3
<1>6. f[n] = Folded(p, base, seq)
    BY <1>2
<1> HIDE DEF f
<1> QED
    BY <1>4, <1>5, <1>6
=============================================================================
