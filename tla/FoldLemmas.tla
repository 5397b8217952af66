----------------------------- MODULE FoldLemmas -----------------------------
(***************************************************************************)
(* What a left fold computes, for any operator: the end of a chain of its  *)
(* applications.  A module that folds takes an instance with its operator, *)
(* and proves what the fold preserves along the chain.                     *)
(***************************************************************************)
EXTENDS Integers, Sequences, SequencesExt, FiniteSetTheorems, WellFoundedInduction, TLAPS

CONSTANT Op(_, _)

Folded(base, seq) == FoldLeft(Op, base, seq)

(* A set of numbers that is not empty has a least one.                      *)
LEMMA LeastNumber ==
    ASSUME NEW S, S \subseteq Nat, S # {}
    PROVE  \E n \in S : \A m \in S : n <= m
<1> DEFINE LT == {ss \in Nat \X Nat : ss[1] < ss[2]}
<1>1. IsWellFoundedOn(LT, Nat)
    BY NatLessThanWellFounded DEF OpToRel, LT
<1>2. PICK n \in S : \A m \in S : <<m, n>> \notin LT
    BY <1>1, WFMin
<1>3. \A m \in S : (<<m, n>> \in LT) = (m < n)
    OBVIOUS
<1>4. \A m \in S : ~(m < n)
    <2> HIDE DEF LT
    <2> QED BY <1>2, <1>3
<1> QED BY <1>4

(* What holds of 0 and, with a number below n, of the next, holds up to n.  *)
LEMMA UpTo ==
    ASSUME NEW n \in Nat, NEW S, 0 \in S, \A i \in 0 .. n - 1 : i \in S => i + 1 \in S
    PROVE  \A i \in 0 .. n : i \in S
<1> DEFINE T == 0 .. n \ S
<1>1. SUFFICES ASSUME T # {} PROVE FALSE
    OBVIOUS
<1>2. PICK m \in T : \A k \in T : m <= k
    <2>1. T \subseteq Nat
        OBVIOUS
    <2> HIDE DEF T
    <2> QED BY <1>1, <2>1, LeastNumber
<1>3. m # 0 /\ m - 1 \in 0 .. n - 1 /\ m - 1 \notin T /\ m = (m - 1) + 1
    BY <1>2
<1> QED BY <1>2, <1>3

LEMMA MaxOf ==
    ASSUME NEW S, S \subseteq Nat, NEW m \in S, \A k \in S : k <= m
    PROVE  Max(S) = m
<1>1. /\ \E x \in S : \A y \in S : x >= y
      /\ \A x \in S : (\A y \in S : x >= y) => x = m
    OBVIOUS
<1> QED BY <1>1 DEF Max

Solves(f, base, seq, m) ==
    f = [s \in SUBSET (1 .. m) |->
           IF s = {} THEN base ELSE Op(f[s \ {Max(s)}], seq[Max(s)])]

(* The equations of the fold up to its m-th element have a solution.        *)
LEMMA FoldDefined ==
    ASSUME NEW base, NEW seq, NEW n \in Nat
    PROVE  \E f : Solves(f, base, seq, n)
<1> DEFINE Solved == {m \in 0 .. n : \E f : Solves(f, base, seq, m)}
<1>1. 0 \in Solved
    <2>1. SUBSET (1 .. 0) = {{}}
        OBVIOUS
    <2> DEFINE f == [s \in SUBSET (1 .. 0) |-> base]
    <2>2. Solves(f, base, seq, 0)
        BY <2>1 DEF Solves
    <2> QED BY <2>2
<1>2. ASSUME NEW m \in 0 .. n - 1, m \in Solved PROVE m + 1 \in Solved
    <2>1. PICK f : Solves(f, base, seq, m)
        BY <1>2
    <2> DEFINE g == [s \in SUBSET (1 .. m + 1) |->
                       IF m + 1 \in s THEN Op(f[s \ {m + 1}], seq[m + 1]) ELSE f[s]]
    <2>2. ASSUME NEW s \in SUBSET (1 .. m + 1), s # {}
          PROVE  g[s] = Op(g[s \ {Max(s)}], seq[Max(s)])
        <3>1. CASE m + 1 \in s
            <4>1. Max(s) = m + 1
                <5>1. s \subseteq Nat /\ \A k \in s : k <= m + 1
                    OBVIOUS
                <5> QED BY <3>1, <5>1, MaxOf
            <4>2. s \ {m + 1} \in SUBSET (1 .. m + 1) /\ m + 1 \notin s \ {m + 1}
                OBVIOUS
            <4>3. g[s \ {m + 1}] = f[s \ {m + 1}]
                BY <4>2
            <4> QED BY <3>1, <4>1, <4>3
        <3>2. CASE m + 1 \notin s
            <4>1. s \in SUBSET (1 .. m)
                BY <3>2
            <4>2. s \ {Max(s)} \in SUBSET (1 .. m) /\ m + 1 \notin s \ {Max(s)}
                BY <3>2, <4>1
            <4>3. g[s] = f[s] /\ g[s \ {Max(s)}] = f[s \ {Max(s)}]
                BY <3>2, <4>1, <4>2
            <4>4. f[s] = Op(f[s \ {Max(s)}], seq[Max(s)])
                BY <2>1, <2>2, <4>1 DEF Solves
            <4> QED BY <4>3, <4>4
        <3> QED BY <3>1, <3>2
    <2>3. g[{}] = base
        BY <2>1 DEF Solves
    <2>4. g = [s \in SUBSET (1 .. m + 1) |-> g[s]]
        OBVIOUS
    <2>5. Solves(g, base, seq, m + 1)
        <3> HIDE DEF g
        <3> QED BY <2>2, <2>3, <2>4 DEF Solves
    <2> HIDE DEF g
    <2> QED BY <2>5
<1>3. n \in Solved
    <2> HIDE DEF Solved
    <2> QED BY <1>1, <1>2, UpTo
<1> QED BY <1>3

(* A left fold is the end of a chain of applications of its operator.       *)
LEMMA FoldIsChain ==
    ASSUME NEW base, NEW seq, NEW n \in Nat, DOMAIN seq = 1 .. n
    PROVE  \E chain : /\ chain[0] = base
                      /\ \A i \in 1 .. n : chain[i] = Op(chain[i - 1], seq[i])
                      /\ chain[n] = Folded(base, seq)
<1> DEFINE iter == CHOOSE f : Solves(f, base, seq, n)
           chain == [i \in 0 .. n |-> iter[1 .. i]]
<1>1. Solves(iter, base, seq, n)
    BY FoldDefined
<1>2. Folded(base, seq) = iter[1 .. n]
    BY DEF Folded, FoldLeft, MapThenFoldSet, Solves
<1> HIDE DEF iter
<1>3. chain[0] = base
    <2>1. 1 .. 0 = {}
        OBVIOUS
    <2> QED BY <1>1, <2>1 DEF Solves
<1>4. ASSUME NEW i \in 1 .. n PROVE chain[i] = Op(chain[i - 1], seq[i])
    <2>1. Max(1 .. i) = i
        <3>1. 1 .. i \subseteq Nat /\ i \in 1 .. i /\ \A k \in 1 .. i : k <= i
            OBVIOUS
        <3> QED BY <3>1, MaxOf
    <2>2. (1 .. i) \ {i} = 1 .. (i - 1)
        OBVIOUS
    <2>3. 1 .. i # {} /\ 1 .. i \in SUBSET (1 .. n)
        <3>1. i \in 1 .. i
            OBVIOUS
        <3> QED BY <3>1
    <2>4. iter[1 .. i] = Op(iter[1 .. (i - 1)], seq[i])
        BY <1>1, <2>1, <2>2, <2>3 DEF Solves
    <2>5. chain[i] = iter[1 .. i] /\ chain[i - 1] = iter[1 .. (i - 1)]
        OBVIOUS
    <2> QED BY <2>4, <2>5
<1>5. chain[n] = Folded(base, seq)
    BY <1>2
<1> HIDE DEF chain
<1> QED BY <1>3, <1>4, <1>5
=============================================================================
