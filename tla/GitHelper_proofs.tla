-------------------------- MODULE GitHelper_proofs --------------------------
(***************************************************************************)
(* The safety of GitHelper for every value of its constants: any lines,    *)
(* entries, helpers and config files' contents, commands and faults.       *)
(*                                                                         *)
(* The model's lists are recursive functions (Picked, SortLines), so the   *)
(* module first proves induction over the naturals and over sequences as   *)
(* statements about sets, and by it what these functions are.  Then comes  *)
(* what the writes of a removal and of an install do to the config, then   *)
(* the types, and then an invariant for each property.                     *)
(***************************************************************************)
EXTENDS GitHelper, SequenceTheorems, FiniteSetTheorems, WellFoundedInduction, TLAPS

-----------------------------------------------------------------------------
(* Induction, recursion and the elements of a sequence that a set has *)

\* A set of naturals that is not empty has a least one.
LEMMA Least ==
    ASSUME NEW T, T \subseteq Nat, T # {}
    PROVE  \E x \in T : \A y \in T : ~(y < x)
<1>1. IsWellFoundedOn(OpToRel(<, Nat), Nat)
  BY NatLessThanWellFounded, Zenon
<1>2. \E x \in T : \A y \in T : <<y, x>> \notin OpToRel(<, Nat)
  BY <1>1, WFMin, Zenon
<1>3. \A x \in Nat, y \in Nat : y < x => <<y, x>> \in OpToRel(<, Nat)
  BY SMT DEF OpToRel
<1>4. QED
  BY <1>2, <1>3, Zenon

\* Induction over the naturals, with a set for the predicate.
LEMMA Induction ==
    ASSUME NEW S, 0 \in S, \A n \in Nat : n \in S => n + 1 \in S
    PROVE  Nat \subseteq S
<1> DEFINE T == Nat \ S
<1>1. ASSUME T # {} PROVE FALSE
  <2>1. PICK x \in T : \A y \in T : ~(y < x)
    <3>1. T \subseteq Nat
      OBVIOUS
    <3> HIDE DEF T
    <3>2. QED
      BY <1>1, <3>1, Least
  <2>2. x \in Nat /\ x # 0
    OBVIOUS
  <2>3. x - 1 \in Nat /\ x - 1 < x /\ x - 1 + 1 = x
    BY <2>2
  <2>4. x - 1 \in S
    BY <2>1, <2>3
  <2>5. QED
    BY <2>3, <2>4
<1>2. QED
  BY <1>1

\* A recursion over 0..n: a step for each i from the value before it, and what follows them.
StepsOn(n, S) == [1..n -> [S -> S]]
Steps(f, n, b, G) == f[0] = b /\ \A i \in 1..n : f[i] = G[i][f[i - 1]]
Recurses(n, S, b, G) == \E f \in [0..n -> S] : Steps(f, n, b, G)

\* Such a function there is, for all steps.
LEMMA Recursion ==
    ASSUME NEW n \in Nat, NEW S, NEW b \in S, NEW G \in StepsOn(n, S)
    PROVE  Recurses(n, S, b, G)
<1> USE DEF StepsOn, Recurses, Steps
<1> DEFINE Is(m, f) == f[0] = b /\ \A i \in 1..m : f[i] = G[i][f[i - 1]]
           T == {m \in Nat : m <= n => \E f \in [0..m -> S] : Is(m, f)}
<1>1. 0 \in T
  <2>1. [i \in 0..0 |-> b] \in [0..0 -> S] /\ Is(0, [i \in 0..0 |-> b])
    OBVIOUS
  <2>2. QED
    BY <2>1
<1>2. ASSUME NEW m \in Nat, m \in T PROVE m + 1 \in T
  <2>1. SUFFICES ASSUME m + 1 <= n PROVE \E f \in [0..(m + 1) -> S] : Is(m + 1, f)
    OBVIOUS
  <2>2. PICK f \in [0..m -> S] : Is(m, f)
    BY <1>2, <2>1
  <2>3. PICK g : g = [i \in 0..(m + 1) |-> IF i <= m THEN f[i] ELSE G[m + 1][f[m]]]
    OBVIOUS
  <2>4. G[m + 1] \in [S -> S] /\ f[m] \in S
    BY <2>1, <2>2
  <2>5. g \in [0..(m + 1) -> S]
    BY <2>2, <2>3, <2>4
  <2>6. \A i \in 0..m : g[i] = f[i]
    BY <2>3
  <2>7. g[m + 1] = G[m + 1][f[m]]
    BY <2>3
  <2>8. Is(m + 1, g)
    <3>1. g[0] = b
      BY <2>2, <2>6
    <3>2. ASSUME NEW i \in 1..(m + 1) PROVE g[i] = G[i][g[i - 1]]
      <4>1. CASE i = m + 1
        BY <2>6, <2>7, <4>1
      <4>2. CASE i # m + 1
        <5>1. i \in 1..m /\ i \in 0..m /\ i - 1 \in 0..m
          BY <4>2
        <5>2. QED
          BY <2>2, <2>6, <5>1
      <4>3. QED
        BY <4>1, <4>2
    <3>3. QED
      BY <3>1, <3>2
  <2>9. QED
    BY <2>5, <2>8
<1>3. Nat \subseteq T
  <2> HIDE DEF T
  <2>1. QED
    BY <1>1, <1>2, Induction
<1>4. n \in T
  BY <1>3
<1>5. QED
  BY <1>4

\* What is picked of the first places.
PicksUpTo(f, s, places, S) ==
    /\ f \in [0..Len(s) -> Seq(S)]
    /\ f[0] = <<>> /\ Picked(s, places) = f[Len(s)]
    /\ \A i \in 1..Len(s) : f[i] = IF i \in places THEN Append(f[i - 1], s[i]) ELSE f[i - 1]

\* `Picked` is such a recursion.
LEMMA PickedUpTo ==
    ASSUME NEW S, NEW s \in Seq(S), NEW places
    PROVE  \E f : PicksUpTo(f, s, places, S)
<1>1. PICK n, T, G : /\ n = Len(s) /\ T = Seq(S)
                     /\ G = [i \in 1..n |-> [t \in T |-> IF i \in places THEN Append(t, s[i]) ELSE t]]
  OBVIOUS
<1>2. n \in Nat /\ <<>> \in T /\ G \in [1..n -> [T -> T]]
  BY <1>1
<1>3. PICK f \in [0..n -> T] : f[0] = <<>> /\ \A i \in 1..n : f[i] = G[i][f[i - 1]]
  <2>1. PICK b : b = <<>>
    OBVIOUS
  <2>2. b \in T
    BY <1>2, <2>1
  <2>3. Recurses(n, T, b, G)
    BY <1>2, <2>2, Recursion, Zenon DEF StepsOn
  <2>4. QED
    BY <2>1, <2>3 DEF Recurses, Steps
<1>4. \A i \in 1..n : f[i] = IF i \in places THEN Append(f[i - 1], s[i]) ELSE f[i - 1]
  <2>1. ASSUME NEW i \in 1..n PROVE f[i - 1] \in T
    BY <1>2, <1>3
  <2>2. QED
    BY <1>1, <1>3, <2>1
<1> DEFINE Is(g) == g = [i \in 0..Len(s) |-> IF i = 0 THEN <<>>
                          ELSE IF i \in places THEN Append(g[i - 1], s[i]) ELSE g[i - 1]]
<1>5. Is(f)
  <2>1. \A i \in 0..n : i # 0 => i \in 1..n
    BY <1>2
  <2>2. QED
    BY <1>1, <1>3, <1>4, <2>1, Zenon
<1>6. PICK g : Is(g) /\ Picked(s, places) = g[Len(s)]
  <2>1. Is(CHOOSE g : Is(g))
    BY <1>5, Zenon
  <2>2. QED
    BY <2>1 DEF Picked
<1>7. g[0] = <<>> /\ \A i \in 1..n : g[i] = IF i \in places THEN Append(g[i - 1], s[i]) ELSE g[i - 1]
  <2>1. \A i \in 0..n : g[i] = IF i = 0 THEN <<>>
                              ELSE IF i \in places THEN Append(g[i - 1], s[i]) ELSE g[i - 1]
    BY <1>1, <1>6, Zenon
  <2>2. 0 \in 0..n /\ \A i \in 1..n : i \in 0..n /\ i # 0
    BY <1>2
  <2>3. QED
    BY <2>1, <2>2, Zenon
<1>8. \A i \in 0..n : g[i] \in T
  <2> DEFINE U == {i \in Nat : i <= n => g[i] \in T}
  <2>1. 0 \in U
    BY <1>2, <1>7
  <2>2. ASSUME NEW i \in Nat, i \in U PROVE i + 1 \in U
    <3>1. SUFFICES ASSUME i + 1 <= n PROVE g[i + 1] \in T
      OBVIOUS
    <3>2. i + 1 \in 1..n /\ i + 1 - 1 = i /\ g[i] \in T /\ s[i + 1] \in S
      BY <1>1, <1>2, <2>2, <3>1
    <3>3. g[i + 1] = IF i + 1 \in places THEN Append(g[i], s[i + 1]) ELSE g[i]
      BY <1>7, <3>2
    <3>4. QED
      BY <1>1, <3>2, <3>3
  <2>3. Nat \subseteq U
    <3> HIDE DEF U
    <3>1. QED
      BY <2>1, <2>2, Induction
  <2>4. QED
    BY <2>3
<1>9. g \in [0..n -> T]
  <2>1. g = [i \in 0..n |-> g[i]]
    BY <1>1, <1>6
  <2>2. QED
    BY <1>8, <2>1
<1>10. QED
  BY <1>1, <1>6, <1>7, <1>9 DEF PicksUpTo

\* An element more is picked or not, and changes nothing else.
LEMMA PickedAppend ==
    ASSUME NEW S, NEW s \in Seq(S), NEW x \in S, NEW P, NEW Q,
           \A i \in 1..Len(s) : i \in P <=> i \in Q
    PROVE  Picked(Append(s, x), P) =
             IF Len(s) + 1 \in P THEN Append(Picked(s, Q), x) ELSE Picked(s, Q)
<1>1. PICK t : t = Append(s, x)
  OBVIOUS
<1>2. /\ t \in Seq(S) /\ Len(s) \in Nat /\ Len(t) = Len(s) + 1 /\ t[Len(t)] = x
      /\ \A i \in 1..Len(s) : t[i] = s[i]
  BY <1>1
<1>3. PICK f : PicksUpTo(f, s, Q, S)
  BY PickedUpTo
<1>4. PICK g : PicksUpTo(g, t, P, S)
  BY <1>2, PickedUpTo
<1> USE DEF PicksUpTo
<1> DEFINE U == {i \in Nat : i <= Len(s) => g[i] = f[i]}
<1>5. 0 \in U
  BY <1>3, <1>4
<1>6. ASSUME NEW i \in Nat, i \in U PROVE i + 1 \in U
  <2>1. SUFFICES ASSUME i + 1 <= Len(s) PROVE g[i + 1] = f[i + 1]
    OBVIOUS
  <2>2. i + 1 \in 1..Len(s) /\ i + 1 \in 1..Len(t) /\ i + 1 - 1 = i
    BY <1>2, <2>1
  <2>3. g[i] = f[i]
    BY <1>6, <2>1, <1>2
  <2>4. QED
    BY <1>2, <1>3, <1>4, <2>2, <2>3
<1>7. Nat \subseteq U
  <2> HIDE DEF U
  <2>1. QED
    BY <1>5, <1>6, Induction
<1>8. g[Len(s)] = f[Len(s)]
  BY <1>2, <1>7
<1>9. Len(t) \in 1..Len(t) /\ Len(t) - 1 = Len(s)
  BY <1>2
<1>10. QED
  BY <1>1, <1>2, <1>3, <1>4, <1>8, <1>9

\* Of nothing, nothing is picked.
LEMMA PickedNothing == \A P : Picked(<<>>, P) = <<>>
<1>1. TAKE P
<1>2. <<>> \in Seq({}) /\ Len(<<>>) = 0
  OBVIOUS
<1>3. PICK f : PicksUpTo(f, <<>>, P, {})
  BY <1>2, PickedUpTo
<1>4. QED
  BY <1>2, <1>3 DEF PicksUpTo

\* Induction over sequences, with a set for the predicate.
LEMMA SeqInduction ==
    ASSUME NEW S, NEW T, <<>> \in T,
           \A s \in Seq(S) : s \in T => \A x \in S : Append(s, x) \in T
    PROVE  Seq(S) \subseteq T
<1> DEFINE U == {n \in Nat : \A s \in Seq(S) : Len(s) = n => s \in T}
<1>1. 0 \in U
  <2>1. \A s \in Seq(S) : Len(s) = 0 => s = <<>>
    OBVIOUS
  <2>2. QED
    BY <2>1
<1>2. ASSUME NEW n \in Nat, n \in U PROVE n + 1 \in U
  <2>1. SUFFICES ASSUME NEW s \in Seq(S), Len(s) = n + 1 PROVE s \in T
    OBVIOUS
  <2>2. PICK t : t = [i \in 1..n |-> s[i]]
    OBVIOUS
  <2>3. t \in Seq(S) /\ Len(t) = n /\ s[n + 1] \in S
    BY <2>1, <2>2
  <2>4. t \in T
    BY <1>2, <2>3
  <2>5. s = Append(t, s[n + 1])
    BY <2>1, <2>2, <2>3
  <2>6. QED
    BY <2>3, <2>4, <2>5
<1>3. Nat \subseteq U
  <2> HIDE DEF U
  <2>1. QED
    BY <1>1, <1>2, Induction
<1>4. \A s \in Seq(S) : Len(s) \in Nat
  OBVIOUS
<1>5. QED
  BY <1>3, <1>4

\* How `Those` goes over a sequence: nothing, one element more, another set, itself again, two
\* sequences, all and none of the elements.
LEMMA ThoseNothing == \A X : Those(<<>>, X) = <<>>
BY PickedNothing DEF Those

\* One element more.
LEMMA ThoseAppend ==
    ASSUME NEW S, NEW s \in Seq(S), NEW x \in S, NEW X
    PROVE  Those(Append(s, x), X) = IF x \in X THEN Append(Those(s, X), x) ELSE Those(s, X)
<1>1. PICK t, P, Q : /\ t = Append(s, x)
                     /\ P = {i \in DOMAIN t : t[i] \in X} /\ Q = {i \in DOMAIN s : s[i] \in X}
  OBVIOUS
<1>2. /\ Len(s) \in Nat /\ DOMAIN s = 1..Len(s) /\ DOMAIN t = 1..(Len(s) + 1)
      /\ t[Len(s) + 1] = x /\ \A i \in 1..Len(s) : t[i] = s[i]
  BY <1>1
<1>3. \A i \in 1..Len(s) : i \in P <=> i \in Q
  BY <1>1, <1>2
<1>4. Len(s) + 1 \in P <=> x \in X
  BY <1>1, <1>2
<1>5. Picked(t, P) = IF Len(s) + 1 \in P THEN Append(Picked(s, Q), x) ELSE Picked(s, Q)
  BY <1>1, <1>3, PickedAppend
<1>6. QED
  BY <1>1, <1>4, <1>5 DEF Those

\* Another set with the same elements of the sequence.
LEMMA ThoseSame ==
    ASSUME NEW s, NEW X, NEW Y, \A i \in DOMAIN s : s[i] \in X <=> s[i] \in Y
    PROVE  Those(s, X) = Those(s, Y)
<1>1. {i \in DOMAIN s : s[i] \in X} = {i \in DOMAIN s : s[i] \in Y}
  OBVIOUS
<1>2. QED
  BY <1>1 DEF Those

\* The range of a sequence with one element more.
LEMMA RangeAppend ==
    ASSUME NEW S, NEW s \in Seq(S), NEW x
    PROVE  Range(Append(s, x)) = Range(s) \cup {x}
<1>1. /\ DOMAIN s = 1..Len(s) /\ Len(s) \in Nat /\ DOMAIN Append(s, x) = 1..(Len(s) + 1)
      /\ Append(s, x)[Len(s) + 1] = x /\ \A i \in 1..Len(s) : Append(s, x)[i] = s[i]
  OBVIOUS
<1>2. ASSUME NEW y \in Range(Append(s, x)) PROVE y \in Range(s) \cup {x}
  <2>1. PICK i \in 1..(Len(s) + 1) : y = Append(s, x)[i]
    BY <1>1 DEF Range
  <2>2. i \in 1..Len(s) \/ i = Len(s) + 1
    BY <1>1
  <2>3. QED
    BY <1>1, <2>1, <2>2 DEF Range
<1>3. ASSUME NEW y \in Range(s) \cup {x} PROVE y \in Range(Append(s, x))
  BY <1>1 DEF Range
<1>4. QED
  BY <1>2, <1>3

\* Those of a sequence are its elements that are in the set.
LEMMA ThoseType ==
    ASSUME NEW S, NEW s \in Seq(S), NEW X
    PROVE  Those(s, X) \in Seq(S) /\ Range(Those(s, X)) = Range(s) \cap X
<1> DEFINE T == {r \in Seq(S) : Those(r, X) \in Seq(S) /\ Range(Those(r, X)) = Range(r) \cap X}
<1>1. <<>> \in T
  <2>1. <<>> \in Seq(S) /\ Range(<<>>) = {}
    BY DEF Range
  <2>2. QED
    BY <2>1, ThoseNothing
<1>2. ASSUME NEW r \in Seq(S), r \in T, NEW x \in S PROVE Append(r, x) \in T
  <2>1. Those(r, X) \in Seq(S) /\ Range(Those(r, X)) = Range(r) \cap X
    BY <1>2
  <2>0. Append(r, x) \in Seq(S) /\ Append(Those(r, X), x) \in Seq(S)
    BY <2>1
  <2>2. Range(Append(r, x)) = Range(r) \cup {x}
    BY RangeAppend
  <2>3. CASE x \in X
    <3>1. Those(Append(r, x), X) = Append(Those(r, X), x)
      BY <2>3, ThoseAppend
    <3>2. Range(Append(Those(r, X), x)) = (Range(r) \cap X) \cup {x}
      BY <2>1, RangeAppend
    <3>3. QED
      BY <2>0, <2>2, <2>3, <3>1, <3>2
  <2>4. CASE x \notin X
    <3>1. Those(Append(r, x), X) = Those(r, X)
      BY <2>4, ThoseAppend
    <3>2. QED
      BY <2>0, <2>1, <2>2, <2>4, <3>1
  <2>5. QED
    BY <2>3, <2>4
<1>3. Seq(S) \subseteq T
  <2> HIDE DEF T
  <2>1. QED
    BY <1>1, <1>2, SeqInduction
<1>4. QED
  BY <1>3

\* Those of those are the ones in both sets.
LEMMA ThoseThose ==
    ASSUME NEW S, NEW s \in Seq(S), NEW X, NEW Y
    PROVE  Those(Those(s, X), Y) = Those(s, X \cap Y)
<1> DEFINE T == {r \in Seq(S) : Those(Those(r, X), Y) = Those(r, X \cap Y)}
<1>1. <<>> \in T
  BY ThoseNothing
<1>2. ASSUME NEW r \in Seq(S), r \in T, NEW x \in S PROVE Append(r, x) \in T
  <2>1. Those(r, X) \in Seq(S)
    BY ThoseType
  <2>2. /\ Those(Append(r, x), X) = IF x \in X THEN Append(Those(r, X), x) ELSE Those(r, X)
        /\ Those(Append(r, x), X \cap Y) =
             IF x \in X \cap Y THEN Append(Those(r, X \cap Y), x) ELSE Those(r, X \cap Y)
        /\ Those(Append(Those(r, X), x), Y) =
             IF x \in Y THEN Append(Those(Those(r, X), Y), x) ELSE Those(Those(r, X), Y)
    BY <2>1, ThoseAppend
  <2>3. Append(r, x) \in Seq(S) /\ Those(Those(r, X), Y) = Those(r, X \cap Y)
    BY <1>2
  <2>4. Those(Those(Append(r, x), X), Y) = Those(Append(r, x), X \cap Y)
    <3>1. CASE x \in X /\ x \in Y
      BY <2>2, <2>3, <3>1
    <3>2. CASE x \in X /\ x \notin Y
      BY <2>2, <2>3, <3>2
    <3>3. CASE x \notin X
      BY <2>2, <2>3, <3>3
    <3>4. QED
      BY <3>1, <3>2, <3>3
  <2>5. QED
    BY <2>3, <2>4
<1>3. Seq(S) \subseteq T
  <2> HIDE DEF T
  <2>1. QED
    BY <1>1, <1>2, SeqInduction
<1>4. QED
  BY <1>3

\* Those of two sequences.
LEMMA ThoseConcat ==
    ASSUME NEW S, NEW s \in Seq(S), NEW t \in Seq(S), NEW X
    PROVE  Those(s \o t, X) = Those(s, X) \o Those(t, X)
<1> DEFINE T == {r \in Seq(S) : Those(s \o r, X) = Those(s, X) \o Those(r, X)}
<1>0. Those(s, X) \in Seq(S)
  BY ThoseType
<1>1. <<>> \in T
  <2>1. s \o <<>> = s /\ Those(s, X) \o <<>> = Those(s, X) /\ <<>> \in Seq(S)
    BY <1>0
  <2>2. QED
    BY <2>1, ThoseNothing
<1>2. ASSUME NEW r \in Seq(S), r \in T, NEW x \in S PROVE Append(r, x) \in T
  <2>1. Those(r, X) \in Seq(S) /\ s \o r \in Seq(S)
    BY ThoseType
  <2>2. s \o Append(r, x) = Append(s \o r, x)
    OBVIOUS
  <2>3. /\ Those(Append(r, x), X) = IF x \in X THEN Append(Those(r, X), x) ELSE Those(r, X)
        /\ Those(Append(s \o r, x), X) = IF x \in X THEN Append(Those(s \o r, X), x) ELSE Those(s \o r, X)
    BY <2>1, ThoseAppend
  <2>4. Those(s, X) \o Append(Those(r, X), x) = Append(Those(s, X) \o Those(r, X), x)
    BY <1>0, <2>1
  <2>5. Append(r, x) \in Seq(S)
    OBVIOUS
  <2>6. QED
    BY <1>2, <2>2, <2>3, <2>4, <2>5
<1>3. Seq(S) \subseteq T
  <2> HIDE DEF T
  <2>1. QED
    BY <1>1, <1>2, SeqInduction
<1>4. QED
  BY <1>3

\* All of them, when the set has all.
LEMMA ThoseAll ==
    ASSUME NEW S, NEW s \in Seq(S), NEW X, Range(s) \subseteq X
    PROVE  Those(s, X) = s
<1> DEFINE T == {r \in Seq(S) : Range(r) \subseteq X => Those(r, X) = r}
<1>1. <<>> \in T
  BY ThoseNothing
<1>2. ASSUME NEW r \in Seq(S), r \in T, NEW x \in S PROVE Append(r, x) \in T
  <2>1. Those(Append(r, x), X) = IF x \in X THEN Append(Those(r, X), x) ELSE Those(r, X)
    BY ThoseAppend
  <2>2. Range(Append(r, x)) = Range(r) \cup {x}
    BY RangeAppend
  <2>3. Append(r, x) \in Seq(S)
    OBVIOUS
  <2>4. QED
    BY <1>2, <2>1, <2>2, <2>3
<1>3. Seq(S) \subseteq T
  <2> HIDE DEF T
  <2>1. QED
    BY <1>1, <1>2, SeqInduction
<1>4. QED
  BY <1>3

\* None of them, when the set has none.
LEMMA ThoseNone ==
    ASSUME NEW S, NEW s \in Seq(S), NEW X, Range(s) \cap X = {}
    PROVE  Those(s, X) = <<>>
<1> DEFINE T == {r \in Seq(S) : Range(r) \cap X = {} => Those(r, X) = <<>>}
<1>1. <<>> \in T
  BY ThoseNothing
<1>2. ASSUME NEW r \in Seq(S), r \in T, NEW x \in S PROVE Append(r, x) \in T
  <2>1. Those(Append(r, x), X) = IF x \in X THEN Append(Those(r, X), x) ELSE Those(r, X)
    BY ThoseAppend
  <2>2. Range(Append(r, x)) = Range(r) \cup {x}
    BY RangeAppend
  <2>3. Append(r, x) \in Seq(S)
    OBVIOUS
  <2>4. QED
    BY <1>2, <2>1, <2>2, <2>3
<1>3. Seq(S) \subseteq T
  <2> HIDE DEF T
  <2>1. QED
    BY <1>1, <1>2, SeqInduction
<1>4. QED
  BY <1>3

\* The range of two sequences.
LEMMA RangeConcat ==
    ASSUME NEW S, NEW s \in Seq(S), NEW t \in Seq(S)
    PROVE  s \o t \in Seq(S) /\ Range(s \o t) = Range(s) \cup Range(t)
<1>1. /\ s \o t \in Seq(S) /\ Len(s) \in Nat /\ Len(t) \in Nat
      /\ DOMAIN s = 1..Len(s) /\ DOMAIN t = 1..Len(t) /\ DOMAIN (s \o t) = 1..(Len(s) + Len(t))
      /\ \A i \in 1..Len(s) : (s \o t)[i] = s[i]
      /\ \A i \in 1..Len(t) : (s \o t)[Len(s) + i] = t[i]
  OBVIOUS
<1>2. ASSUME NEW y \in Range(s \o t) PROVE y \in Range(s) \cup Range(t)
  <2>1. PICK i \in 1..(Len(s) + Len(t)) : y = (s \o t)[i]
    BY <1>1 DEF Range
  <2>2. CASE i <= Len(s)
    BY <1>1, <2>1, <2>2 DEF Range
  <2>3. CASE ~(i <= Len(s))
    <3>1. i - Len(s) \in 1..Len(t) /\ i = Len(s) + (i - Len(s))
      BY <1>1, <2>3
    <3>2. y = t[i - Len(s)]
      BY <1>1, <2>1, <3>1
    <3>3. QED
      BY <1>1, <3>1, <3>2 DEF Range
  <2>4. QED
    BY <2>2, <2>3
<1>3. ASSUME NEW y \in Range(s) PROVE y \in Range(s \o t)
  <2>1. PICK i \in 1..Len(s) : y = s[i]
    BY <1>1 DEF Range
  <2>2. i \in 1..(Len(s) + Len(t))
    BY <1>1
  <2>3. QED
    BY <1>1, <2>1, <2>2 DEF Range
<1>4. ASSUME NEW y \in Range(t) PROVE y \in Range(s \o t)
  <2>1. PICK i \in 1..Len(t) : y = t[i]
    BY <1>1 DEF Range
  <2>2. Len(s) + i \in 1..(Len(s) + Len(t))
    BY <1>1
  <2>3. QED
    BY <1>1, <2>1, <2>2 DEF Range
<1>5. QED
  BY <1>1, <1>2, <1>3, <1>4

\* The first of those there is.
LEMMA ThoseFirst ==
    ASSUME NEW S, NEW s \in Seq(S), NEW X, Those(s, X) # <<>>
    PROVE  Those(s, X)[1] \in X \cap Range(s)
<1>1. Those(s, X) \in Seq(S) /\ Range(Those(s, X)) = Range(s) \cap X
  BY ThoseType
<1>2. 1 \in DOMAIN Those(s, X)
  BY <1>1
<1>3. QED
  BY <1>1, <1>2 DEF Range

\* A bounded set of naturals that is not empty has its maximum.
LEMMA MaxIsMax ==
    ASSUME NEW T, T \subseteq Nat, T # {}, NEW n \in Nat, \A x \in T : x <= n
    PROVE  Max(T) \in T /\ \A x \in T : x <= Max(T)
<1> DEFINE U == {n - x : x \in T}
<1>1. \E u \in U : \A w \in U : ~(w < u)
  <2>0. \A x \in T : x \in Nat /\ n - x \in Nat
    OBVIOUS
  <2>1. U \subseteq Nat /\ U # {}
    BY <2>0
  <2> HIDE DEF U
  <2>2. QED
    BY <2>1, Least
<1>2. PICK x \in T : \A w \in U : ~(w < n - x)
  BY <1>1
<1>3. \A y \in T : x >= y
  <2>1. TAKE y \in T
  <2>2. n - y \in U
    OBVIOUS
  <2>3. ~(n - y < n - x) /\ x \in Nat /\ y \in Nat
    BY <1>2, <2>2
  <2>4. QED
    BY <2>3
<1>4. Max(T) \in T /\ \A y \in T : Max(T) >= y
  <2> DEFINE Is(m) == m \in T /\ \A y \in T : m >= y
  <2>1. Is(x)
    BY <1>3
  <2>2. Max(T) = CHOOSE m : Is(m)
    BY DEF Max
  <2>3. Is(CHOOSE m : Is(m))
    BY <2>1, Zenon
  <2>4. QED
    BY <2>2, <2>3
<1>5. QED
  BY <1>4

\* One element more is kept when it is new.
LEMMA UniqueAppend ==
    ASSUME NEW S, NEW s \in Seq(S), NEW x \in S
    PROVE  Unique(Append(s, x)) = IF x \in Range(s) THEN Unique(s) ELSE Append(Unique(s), x)
<1>1. PICK t, P, Q : /\ t = Append(s, x)
                     /\ P = {i \in DOMAIN t : \A j \in 1..(i - 1) : t[j] # t[i]}
                     /\ Q = {i \in DOMAIN s : \A j \in 1..(i - 1) : s[j] # s[i]}
  OBVIOUS
<1>2. /\ Len(s) \in Nat /\ DOMAIN s = 1..Len(s) /\ DOMAIN t = 1..(Len(s) + 1)
      /\ t[Len(s) + 1] = x /\ \A i \in 1..Len(s) : t[i] = s[i]
  BY <1>1
<1>3. ASSUME NEW i \in 1..Len(s) PROVE i \in P <=> i \in Q
  <2>1. \A j \in 1..(i - 1) : j \in 1..Len(s)
    BY <1>2
  <2>2. QED
    BY <1>1, <1>2, <2>1
<1>4. Len(s) + 1 \in P <=> x \notin Range(s)
  <2>1. 1..(Len(s) + 1 - 1) = 1..Len(s)
    BY <1>2
  <2>2. QED
    BY <1>1, <1>2, <2>1 DEF Range
<1>5. Picked(Append(s, x), P) = IF Len(s) + 1 \in P THEN Append(Picked(s, Q), x) ELSE Picked(s, Q)
  <2>1. \A i \in 1..Len(s) : i \in P <=> i \in Q
    BY <1>3
  <2>2. QED
    BY <2>1, PickedAppend
<1>6. QED
  BY <1>1, <1>4, <1>5 DEF Unique

\* The unique elements are the elements, each once.
LEMMA UniqueType ==
    ASSUME NEW S, NEW s \in Seq(S)
    PROVE  /\ Unique(s) \in Seq(S) /\ Range(Unique(s)) = Range(s)
           /\ IsInjective(Unique(s))
<1> DEFINE Is(r) == Unique(r) \in Seq(S) /\ Range(Unique(r)) = Range(r) /\ IsInjective(Unique(r))
           T == {r \in Seq(S) : Is(r)}
<1>1. <<>> \in T
  <2>1. Unique(<<>>) = <<>>
    BY PickedNothing DEF Unique
  <2>2. <<>> \in Seq(S) /\ DOMAIN <<>> = {}
    OBVIOUS
  <2>3. QED
    BY <2>1, <2>2 DEF IsInjective
<1>2. ASSUME NEW r \in Seq(S), r \in T, NEW x \in S PROVE Append(r, x) \in T
  <2>1. Unique(r) \in Seq(S) /\ Range(Unique(r)) = Range(r) /\ IsInjective(Unique(r))
    BY <1>2
  <2>2. Unique(Append(r, x)) = IF x \in Range(r) THEN Unique(r) ELSE Append(Unique(r), x)
    BY UniqueAppend
  <2>3. Range(Append(r, x)) = Range(r) \cup {x} /\ Append(r, x) \in Seq(S)
    BY RangeAppend
  <2>4. CASE x \in Range(r)
    BY <2>1, <2>2, <2>3, <2>4
  <2>5. CASE x \notin Range(r)
    <3>1. PICK u : u = Unique(r)
      OBVIOUS
    <3>2. Range(Append(u, x)) = Range(r) \cup {x} /\ Append(u, x) \in Seq(S)
      BY <2>1, <3>1, RangeAppend
    <3>3. IsInjective(Append(u, x))
      <4>1. /\ DOMAIN Append(u, x) = 1..(Len(u) + 1) /\ DOMAIN u = 1..Len(u) /\ Len(u) \in Nat
            /\ Append(u, x)[Len(u) + 1] = x /\ \A i \in 1..Len(u) : Append(u, x)[i] = u[i]
        BY <2>1, <3>1
      <4>2. \A i \in 1..Len(u) : u[i] # x
        BY <2>1, <2>5, <3>1, <4>1 DEF Range
      <4>3. QED
        BY <2>1, <3>1, <4>1, <4>2 DEF IsInjective
    <3>4. QED
      BY <2>2, <2>3, <2>5, <3>1, <3>2, <3>3
  <2>6. QED
    BY <2>4, <2>5
<1>3. Seq(S) \subseteq T
  <2> HIDE DEF T
  <2>1. QED
    BY <1>1, <1>2, SeqInduction
<1>4. QED
  BY <1>3

\* A sequence of sequences in one has the elements of each.
LEMMA FlattenType ==
    ASSUME NEW S, NEW seqs \in Seq(Seq(S))
    PROVE  /\ FlattenSeq(seqs) \in Seq(S)
           /\ Range(FlattenSeq(seqs)) = UNION {Range(seqs[i]) : i \in DOMAIN seqs}
<1>1. PICK n : n = Len(seqs)
  OBVIOUS
<1>2. n \in Nat /\ DOMAIN seqs = 1..n
  BY <1>1
<1>3. CASE n = 0
  BY <1>1, <1>2, <1>3 DEF FlattenSeq, Range
<1>4. CASE n # 0
  <2> DEFINE Is(g) == g = [i \in 1..Len(seqs) |-> IF i = 1 THEN seqs[i] ELSE g[i - 1] \o seqs[i]]
  <2>1. PICK T, G : T = Seq(S) /\ G = [i \in 1..n |-> [t \in T |-> t \o seqs[i]]]
    OBVIOUS
  <2>2. <<>> \in T /\ G \in [1..n -> [T -> T]]
    BY <1>1, <1>2, <2>1
  <2>3. PICK f \in [0..n -> T] : Steps(f, n, <<>>, G)
    <3>1. PICK b : b = <<>>
      OBVIOUS
    <3>2. Recurses(n, T, b, G)
      BY <1>2, <2>2, <3>1, Recursion, Zenon DEF StepsOn
    <3>3. QED
      BY <3>1, <3>2 DEF Recurses
  <2>4. \A i \in 1..n : f[i] = f[i - 1] \o seqs[i]
    <3>1. TAKE i \in 1..n
    <3>2. f[i - 1] \in T
      BY <1>2
    <3>3. G[i] = [t \in T |-> t \o seqs[i]]
      BY <2>1
    <3>4. QED
      BY <2>3, <3>2, <3>3 DEF Steps
  <2>5. PICK h : h = [i \in 1..n |-> f[i]]
    OBVIOUS
  <2>6. Is(h)
    <3>1. ASSUME NEW i \in 1..n PROVE f[i] = IF i = 1 THEN seqs[i] ELSE h[i - 1] \o seqs[i]
      <4>1. CASE i = 1
        <5>1. f[0] = <<>> /\ seqs[1] \in Seq(S) /\ i - 1 = 0
          BY <1>1, <1>2, <2>3, <4>1 DEF Steps
        <5>2. f[1] = <<>> \o seqs[1]
          BY <2>4, <4>1, <5>1
        <5>3. QED
          BY <4>1, <5>1, <5>2
      <4>2. CASE i # 1
        <5>1. i - 1 \in 1..n
          BY <1>2, <4>2
        <5>2. QED
          BY <2>4, <2>5, <4>2, <5>1
      <4>3. QED
        BY <4>1, <4>2
    <3>2. h = [i \in 1..n |-> IF i = 1 THEN seqs[i] ELSE h[i - 1] \o seqs[i]]
      BY <2>5, <3>1
    <3>3. QED
      BY <1>1, <3>2
  <2>7. PICK g : Is(g) /\ FlattenSeq(seqs) = g[n]
    <3>1. Is(CHOOSE g : Is(g))
      BY <2>6, Zenon
    <3>2. FlattenSeq(seqs) = (CHOOSE g : Is(g))[n]
      BY <1>1, <1>2, <1>4 DEF FlattenSeq
    <3>3. QED
      BY <3>1, <3>2
  <2>8. \A i \in 1..n : g[i] = IF i = 1 THEN seqs[i] ELSE g[i - 1] \o seqs[i]
    BY <1>1, <2>7, Zenon
  <2> HIDE DEF Is
  <2> DEFINE U == {m \in Nat : m + 1 <= n =>
                     /\ g[m + 1] \in Seq(S)
                     /\ Range(g[m + 1]) = UNION {Range(seqs[i]) : i \in 1..(m + 1)}}
  <2>9. 0 \in U
    <3>1. 1 \in 1..n /\ 0 + 1 = 1 /\ 1..1 = {1}
      BY <1>2, <1>4
    <3>2. g[1] = seqs[1] /\ seqs[1] \in Seq(S)
      BY <1>1, <2>8, <3>1
    <3>3. QED
      BY <3>1, <3>2
  <2>10. ASSUME NEW m \in Nat, m \in U PROVE m + 1 \in U
    <3>1. SUFFICES ASSUME m + 1 + 1 <= n
                   PROVE  /\ g[m + 1 + 1] \in Seq(S)
                          /\ Range(g[m + 1 + 1]) = UNION {Range(seqs[i]) : i \in 1..(m + 1 + 1)}
      OBVIOUS
    <3>2. m + 1 + 1 \in 1..n /\ m + 1 + 1 # 1 /\ m + 1 + 1 - 1 = m + 1 /\ m + 1 <= n
          /\ 1..(m + 1 + 1) = 1..(m + 1) \cup {m + 1 + 1}
      BY <1>2, <3>1
    <3>3. g[m + 1 + 1] = g[m + 1] \o seqs[m + 1 + 1] /\ seqs[m + 1 + 1] \in Seq(S)
      <4>1. seqs[m + 1 + 1] \in Seq(S)
        BY <1>1, <3>2
      <4>2. PICK k \in 1..n : k = m + 1 + 1 /\ k - 1 = m + 1 /\ k # 1
        BY <3>2
      <4>4. g[k] = g[k - 1] \o seqs[k]
        BY <2>8, <4>2, Zenon
      <4>3. QED
        BY <4>1, <4>2, <4>4
    <3>4. g[m + 1] \in Seq(S) /\ Range(g[m + 1]) = UNION {Range(seqs[i]) : i \in 1..(m + 1)}
      BY <2>10, <3>2
    <3>5. g[m + 1 + 1] \in Seq(S)
          /\ Range(g[m + 1 + 1]) = Range(g[m + 1]) \cup Range(seqs[m + 1 + 1])
      BY <3>3, <3>4, RangeConcat
    <3>6. QED
      BY <3>2, <3>4, <3>5
  <2>11. Nat \subseteq U
    <3> HIDE DEF U
    <3>1. QED
      BY <2>9, <2>10, Induction
  <2>12. n - 1 \in Nat /\ n - 1 + 1 = n
    BY <1>2, <1>4
  <2>13. g[n] \in Seq(S) /\ Range(g[n]) = UNION {Range(seqs[i]) : i \in 1..n}
    <3>1. n - 1 \in U
      BY <2>11, <2>12
    <3>2. QED
      BY <2>12, <3>1, <1>2
  <2>14. QED
    BY <1>2, <2>7, <2>13
<1>5. QED
  BY <1>3, <1>4

\* The values of helpers, in their order.
LEMMA ValuesType ==
    ASSUME NEW S, NEW W, NEW hs \in Seq(S), \A h \in S : h.value \in W
    PROVE  /\ Values(hs) \in Seq(W) /\ Len(Values(hs)) = Len(hs)
           /\ Range(Values(hs)) = {h.value : h \in Range(hs)}
<1>1. \A i \in 1..Len(hs) : hs[i] \in S
  OBVIOUS
<1>2. Values(hs) \in Seq(W) /\ Len(Values(hs)) = Len(hs)
  BY <1>1 DEF Values
<1>3. Range(Values(hs)) = {h.value : h \in Range(hs)}
  BY DEF Values, Range
<1>4. QED
  BY <1>2, <1>3

\* One helper more.
LEMMA ValuesAppend ==
    ASSUME NEW S, NEW hs \in Seq(S), NEW h \in S
    PROVE  Values(Append(hs, h)) = Append(Values(hs), h.value)
<1>1. /\ DOMAIN Append(hs, h) = 1..(Len(hs) + 1) /\ DOMAIN hs = 1..Len(hs) /\ Len(hs) \in Nat
      /\ Append(hs, h)[Len(hs) + 1] = h /\ \A i \in 1..Len(hs) : Append(hs, h)[i] = hs[i]
  OBVIOUS
<1>2. PICK W : W = {g.value : g \in S}
  OBVIOUS
<1>3. \A i \in 1..Len(hs) : hs[i].value \in W
  BY <1>2
<1>4. Values(hs) \in Seq(W) /\ Len(Values(hs)) = Len(hs) /\ \A i \in 1..Len(hs) : Values(hs)[i] = hs[i].value
  BY <1>1, <1>3 DEF Values
<1>5. h.value \in W
  BY <1>2
<1>6. PICK v : v = Append(Values(hs), h.value)
  OBVIOUS
<1>7. v \in Seq(W) /\ Len(v) = Len(hs) + 1 /\ v[Len(hs) + 1] = h.value
      /\ \A i \in 1..Len(hs) : v[i] = hs[i].value
  BY <1>4, <1>5, <1>6
<1>8. v = [i \in 1..(Len(hs) + 1) |-> v[i]]
  BY <1>7
<1>9. \A i \in 1..(Len(hs) + 1) : v[i] = Append(hs, h)[i].value
  <2>1. TAKE i \in 1..(Len(hs) + 1)
  <2>2. i \in 1..Len(hs) \/ i = Len(hs) + 1
    BY <1>1
  <2>3. QED
    BY <1>1, <1>7, <2>2
<1>10. QED
  BY <1>1, <1>6, <1>8, <1>9 DEF Values

\* The values of those helpers are those values.
LEMMA ThoseValues ==
    ASSUME NEW S, NEW hs \in Seq(S), NEW X, NEW V, \A h \in S : h \in X <=> h.value \in V
    PROVE  Values(Those(hs, X)) = Those(Values(hs), V)
<1> DEFINE W == {g.value : g \in S}
           T == {r \in Seq(S) : Values(Those(r, X)) = Those(Values(r), V)}
<1>1. <<>> \in T
  <2>1. Values(<<>>) = <<>> /\ <<>> \in Seq(S)
    BY DEF Values
  <2>2. QED
    BY <2>1, ThoseNothing
<1>2. ASSUME NEW r \in Seq(S), r \in T, NEW x \in S PROVE Append(r, x) \in T
  <2>1. Those(Append(r, x), X) = IF x \in X THEN Append(Those(r, X), x) ELSE Those(r, X)
    BY ThoseAppend
  <2>2. Those(r, X) \in Seq(S) /\ Append(r, x) \in Seq(S)
    BY ThoseType
  <2>3. /\ Values(Append(Those(r, X), x)) = Append(Values(Those(r, X)), x.value)
        /\ Values(Append(r, x)) = Append(Values(r), x.value)
    BY <2>2, ValuesAppend
  <2>4. Values(r) \in Seq(W) /\ x.value \in W
    BY ValuesType
  <2> HIDE DEF W
  <2>5. Those(Append(Values(r), x.value), V) =
          IF x.value \in V THEN Append(Those(Values(r), V), x.value) ELSE Those(Values(r), V)
    <3>1. PICK vs, v, W2 : vs = Values(r) /\ v = x.value /\ W2 = W
      OBVIOUS
    <3>2. Those(Append(vs, v), V) = IF v \in V THEN Append(Those(vs, V), v) ELSE Those(vs, V)
      <4>1. vs \in Seq(W2) /\ v \in W2
        BY <2>4, <3>1
      <4>2. QED
        BY <4>1, ThoseAppend
    <3>3. QED
      BY <3>1, <3>2
  <2>6. Values(Those(r, X)) = Those(Values(r), V)
    BY <1>2
  <2>7. Values(Those(Append(r, x), X)) = Those(Values(Append(r, x)), V)
    BY <2>1, <2>3, <2>5, <2>6
  <2>8. QED
    BY <2>2, <2>7
<1>3. Seq(S) \subseteq T
  <2> HIDE DEF T
  <2>1. QED
    BY <1>1, <1>2, SeqInduction
<1>4. QED
  BY <1>3

\* The values of two lists.
LEMMA ValuesConcat ==
    ASSUME NEW S, NEW s \in Seq(S), NEW t \in Seq(S)
    PROVE  Values(s \o t) = Values(s) \o Values(t)
<1> DEFINE W == {g.value : g \in S}
           T == {r \in Seq(S) : Values(s \o r) = Values(s) \o Values(r)}
<1>0. Values(s) \in Seq(W)
  BY ValuesType
<1>1. <<>> \in T
  <2>1. Values(<<>>) = <<>> /\ <<>> \in Seq(S) /\ s \o <<>> = s /\ Values(s) \o <<>> = Values(s)
    BY <1>0 DEF Values
  <2>2. QED
    BY <2>1
<1>2. ASSUME NEW r \in Seq(S), r \in T, NEW x \in S PROVE Append(r, x) \in T
  <2>1. s \o r \in Seq(S) /\ s \o Append(r, x) = Append(s \o r, x) /\ Append(r, x) \in Seq(S)
    OBVIOUS
  <2>2. /\ Values(Append(s \o r, x)) = Append(Values(s \o r), x.value)
        /\ Values(Append(r, x)) = Append(Values(r), x.value)
    BY <2>1, ValuesAppend
  <2>3. Values(r) \in Seq(W) /\ x.value \in W
    BY ValuesType
  <2>4. Values(s) \o Append(Values(r), x.value) = Append(Values(s) \o Values(r), x.value)
    BY <1>0, <2>3
  <2>5. Values(s \o r) = Values(s) \o Values(r)
    BY <1>2
  <2>6. QED
    BY <2>1, <2>2, <2>4, <2>5
<1>3. Seq(S) \subseteq T
  <2> HIDE DEF T
  <2>1. QED
    BY <1>1, <1>2, SeqInduction
<1>4. QED
  BY <1>3

-----------------------------------------------------------------------------
(* git's config as a list of helpers *)

\* The files of a scope, and the helpers the config has.
ConfigType == [ConfigFiles -> [Keys -> Seq(HelperValues)]]
Scope(local) == IF local THEN {"repository"} ELSE {"xdg", "home"}
Has(h) == h.value \in Range(config[h.file][h.key])

\* The helpers of a key are the values it has, in their order.
LEMMA OfKeyType ==
    ASSUME config \in ConfigType, NEW file \in ConfigFiles, NEW key \in Keys
    PROVE  /\ OfKey(file, key) \in Seq(Helper)
           /\ Range(OfKey(file, key)) = {h \in Helper : h.file = file /\ h.key = key /\ Has(h)}
           /\ Values(OfKey(file, key)) = config[file][key]
<1>1. PICK c : c = config[file][key]
  OBVIOUS
<1>2. c \in Seq(HelperValues) /\ DOMAIN c = 1..Len(c) /\ Len(c) \in Nat /\ \A i \in 1..Len(c) : c[i] \in HelperValues
  BY <1>1 DEF ConfigType
<1>3. OfKey(file, key) = [i \in 1..Len(c) |-> [file |-> file, key |-> key, value |-> c[i]]]
  BY <1>1, <1>2 DEF OfKey
<1>4. \A i \in 1..Len(c) : [file |-> file, key |-> key, value |-> c[i]] \in Helper
  BY <1>2 DEF Helper
<1>5. OfKey(file, key) \in Seq(Helper)
  BY <1>2, <1>3, <1>4
<1>6. ASSUME NEW h \in Range(OfKey(file, key))
      PROVE  h \in Helper /\ h.file = file /\ h.key = key /\ Has(h)
  <2>1. PICK i \in 1..Len(c) : h = [file |-> file, key |-> key, value |-> c[i]]
    BY <1>3 DEF Range
  <2>2. h \in Helper /\ h.file = file /\ h.key = key /\ h.value = c[i]
    BY <1>4, <2>1
  <2>3. h.value \in Range(c)
    BY <1>2, <2>2 DEF Range
  <2>4. QED
    BY <1>1, <2>2, <2>3 DEF Has
<1>7. ASSUME NEW h \in Helper, h.file = file, h.key = key, Has(h)
      PROVE  h \in Range(OfKey(file, key))
  <2>1. PICK i \in 1..Len(c) : h.value = c[i]
    BY <1>1, <1>2, <1>7 DEF Range, Has
  <2>2. h = [file |-> file, key |-> key, value |-> c[i]]
    BY <1>7, <2>1 DEF Helper
  <2>3. QED
    BY <1>3, <2>2 DEF Range
<1>8. Values(OfKey(file, key)) = c
  <2>1. Values(OfKey(file, key)) = [i \in 1..Len(c) |-> c[i]]
    BY <1>3 DEF Values
  <2>2. QED
    BY <1>2, <2>1
<1>9. QED
  BY <1>1, <1>5, <1>6, <1>7, <1>8

\* The helpers of a file.
LEMMA ListedType ==
    ASSUME config \in ConfigType, NEW file \in ConfigFiles
    PROVE  /\ Listed(file) \in Seq(Helper)
           /\ Range(Listed(file)) = {h \in Helper : h.file = file /\ Has(h)}
<1>1. /\ OfKey(file, "all") \in Seq(Helper) /\ OfKey(file, "url") \in Seq(Helper)
      /\ Range(OfKey(file, "all")) = {h \in Helper : h.file = file /\ h.key = "all" /\ Has(h)}
      /\ Range(OfKey(file, "url")) = {h \in Helper : h.file = file /\ h.key = "url" /\ Has(h)}
  BY OfKeyType DEF Keys
<1>2. /\ Listed(file) \in Seq(Helper)
      /\ Range(Listed(file)) = Range(OfKey(file, "all")) \cup Range(OfKey(file, "url"))
  BY <1>1, RangeConcat DEF Listed
<1>3. \A h \in Helper : h.key = "all" \/ h.key = "url"
  BY DEF Helper, Keys
<1>4. QED
  BY <1>1, <1>2, <1>3

\* The helpers of a scope.
LEMMA InScopeType ==
    ASSUME config \in ConfigType, NEW local \in BOOLEAN
    PROVE  /\ InScope(local) \in Seq(Helper)
           /\ Range(InScope(local)) = {h \in Helper : h.file \in Scope(local) /\ Has(h)}
<1>1. CASE local
  BY <1>1, ListedType DEF InScope, Scope, ConfigFiles
<1>2. CASE ~local
  <2>1. /\ Listed("xdg") \in Seq(Helper) /\ Listed("home") \in Seq(Helper)
        /\ Range(Listed("xdg")) = {h \in Helper : h.file = "xdg" /\ Has(h)}
        /\ Range(Listed("home")) = {h \in Helper : h.file = "home" /\ Has(h)}
    BY ListedType DEF ConfigFiles
  <2>2. /\ InScope(local) \in Seq(Helper)
        /\ Range(InScope(local)) = Range(Listed("xdg")) \cup Range(Listed("home"))
    BY <1>2, <2>1, RangeConcat DEF InScope
  <2>3. QED
    BY <1>2, <2>1, <2>2 DEF Scope
<1>3. QED
  BY <1>1, <1>2

\* All the helpers.
LEMMA HelpersType ==
    ASSUME config \in ConfigType
    PROVE  Helpers \in Seq(Helper) /\ Range(Helpers) = {h \in Helper : Has(h)}
<1>1. /\ InScope(FALSE) \in Seq(Helper) /\ InScope(TRUE) \in Seq(Helper)
      /\ Range(InScope(FALSE)) = {h \in Helper : h.file \in {"xdg", "home"} /\ Has(h)}
      /\ Range(InScope(TRUE)) = {h \in Helper : h.file \in {"repository"} /\ Has(h)}
  BY InScopeType DEF Scope
<1>2. Helpers \in Seq(Helper) /\ Range(Helpers) = Range(InScope(FALSE)) \cup Range(InScope(TRUE))
  <2>1. PICK s, t : s = InScope(FALSE) /\ t = InScope(TRUE)
    OBVIOUS
  <2>2. s \in Seq(Helper) /\ t \in Seq(Helper)
    BY <1>1, <2>1
  <2>3. s \o t \in Seq(Helper) /\ Range(s \o t) = Range(s) \cup Range(t)
    BY <2>2, RangeConcat
  <2>4. QED
    BY <2>1, <2>3, Zenon DEF Helpers
<1>3. \A h \in Helper : h.file \in {"xdg", "home", "repository"}
  BY DEF Helper, ConfigFiles
<1>4. QED
  BY <1>1, <1>2, <1>3

\* Of the helpers of a file, those of one key; of a scope, those of one file and key.
LEMMA PartOfListed ==
    ASSUME config \in ConfigType, NEW file \in ConfigFiles, NEW X
    PROVE  Those(Listed(file), X) = Those(OfKey(file, "all"), X) \o Those(OfKey(file, "url"), X)
<1>1. OfKey(file, "all") \in Seq(Helper) /\ OfKey(file, "url") \in Seq(Helper)
  BY OfKeyType DEF Keys
<1>2. QED
  BY <1>1, ThoseConcat DEF Listed

\* None of a key is of another.
LEMMA NotOfKey ==
    ASSUME config \in ConfigType, NEW file \in ConfigFiles, NEW key \in Keys, NEW X,
           \A h \in X : h.file # file \/ h.key # key
    PROVE  Those(OfKey(file, key), X) = <<>>
<1>1. /\ OfKey(file, key) \in Seq(Helper)
      /\ Range(OfKey(file, key)) = {h \in Helper : h.file = file /\ h.key = key /\ Has(h)}
  BY OfKeyType
<1>2. Range(OfKey(file, key)) \cap X = {}
  BY <1>1
<1>3. QED
  BY <1>1, <1>2, ThoseNone

\* Nothing is added to a sequence.
LEMMA ConcatNothing ==
    ASSUME NEW S, NEW s \in Seq(S)
    PROVE  s \o <<>> = s /\ <<>> \o s = s
OBVIOUS

\* Those of a scope that are of one key are those of that key.
LEMMA PartOfScope ==
    ASSUME config \in ConfigType, NEW local \in BOOLEAN, NEW file \in Scope(local), NEW key \in Keys,
           NEW X, \A h \in X : h.file = file /\ h.key = key
    PROVE  Those(InScope(local), X) = Those(OfKey(file, key), X)
<1> DEFINE P(f, k) == Those(OfKey(f, k), X)
<1>1. file \in ConfigFiles
  BY DEF Scope, ConfigFiles
<1>2. \A f \in ConfigFiles, k \in Keys : P(f, k) \in Seq(Helper)
  BY OfKeyType, ThoseType
<1>3. \A f \in ConfigFiles, k \in Keys : (f # file \/ k # key) => P(f, k) = <<>>
  BY NotOfKey
<1>4. \A f \in ConfigFiles : Those(Listed(f), X) = P(f, "all") \o P(f, "url")
  BY PartOfListed
<1>5. \A f \in ConfigFiles : f # file => Those(Listed(f), X) = <<>>
  <2>1. \A f \in ConfigFiles : f # file => P(f, "all") = <<>> /\ P(f, "url") = <<>>
    BY <1>3 DEF Keys
  <2>2. <<>> \o <<>> = <<>>
    OBVIOUS
  <2>3. QED
    BY <1>4, <2>1, <2>2
<1>6. Those(Listed(file), X) = P(file, key)
  <2>1. key = "all" \/ key = "url"
    BY DEF Keys
  <2>2. CASE key = "all"
    <3>1. P(file, "url") = <<>> /\ P(file, "all") \in Seq(Helper)
      BY <1>1, <1>2, <1>3, <2>2 DEF Keys
    <3>2. P(file, "all") \o <<>> = P(file, "all")
      BY <3>1, ConcatNothing
    <3>3. QED
      BY <1>1, <1>4, <2>2, <3>1, <3>2
  <2>3. CASE key = "url"
    <3>1. P(file, "all") = <<>> /\ P(file, "url") \in Seq(Helper)
      BY <1>1, <1>2, <1>3, <2>3 DEF Keys
    <3>2. <<>> \o P(file, "url") = P(file, "url")
      BY <3>1, ConcatNothing
    <3>3. QED
      BY <1>1, <1>4, <2>3, <3>1, <3>2
  <2>4. QED
    BY <2>1, <2>2, <2>3
<1>7. P(file, key) \in Seq(Helper)
  BY <1>1, <1>2
<1> HIDE DEF P
<1>8. CASE local
  <2>1. file = "repository"
    BY <1>8 DEF Scope
  <2>2. QED
    BY <1>6, <1>8, <2>1 DEF InScope, P
<1>9. CASE ~local
  <2>1. /\ Listed("xdg") \in Seq(Helper) /\ Listed("home") \in Seq(Helper)
    BY ListedType DEF ConfigFiles
  <2>2. Those(InScope(local), X) = Those(Listed("xdg"), X) \o Those(Listed("home"), X)
    BY <1>9, <2>1, ThoseConcat DEF InScope
  <2>3. CASE file = "xdg"
    <3>1. Those(Listed("home"), X) = <<>> /\ P(file, key) \o <<>> = P(file, key)
      BY <1>5, <1>7, <2>3, ConcatNothing DEF ConfigFiles
    <3>2. QED
      BY <1>6, <2>2, <2>3, <3>1 DEF P
  <2>4. CASE file = "home"
    <3>1. Those(Listed("xdg"), X) = <<>> /\ <<>> \o P(file, key) = P(file, key)
      BY <1>5, <1>7, <2>4, ConcatNothing DEF ConfigFiles
    <3>2. QED
      BY <1>6, <2>2, <2>4, <3>1 DEF P
  <2>5. QED
    BY <1>9, <2>3, <2>4 DEF Scope
<1>10. QED
  BY <1>8, <1>9

\* The values a file and key has left, without the removed ones.
LEMMA KeptThereIs ==
    ASSUME config \in ConfigType, NEW local \in BOOLEAN, NEW place,
           place.file \in Scope(local), place.key \in Keys,
           place = [file |-> place.file, key |-> place.key], NEW removed
    PROVE  KeptThere(InScope(local), place, removed) =
             Those(config[place.file][place.key],
                   {v \in HelperValues : [file |-> place.file, key |-> place.key, value |-> v] \notin removed})
<1>0. PICK file, key : file = place.file /\ key = place.key
  OBVIOUS
<1>1. PICK X, V, hs :
         /\ hs = OfKey(file, key)
         /\ X = {h \in Range(InScope(local)) : Place(h) = place /\ h \notin removed}
         /\ V = {v \in HelperValues : [file |-> file, key |-> key, value |-> v] \notin removed}
  OBVIOUS
<1>2. file \in ConfigFiles /\ key \in Keys
  BY <1>0 DEF Scope, ConfigFiles
<1>3. /\ hs \in Seq(Helper) /\ Values(hs) = config[file][key]
      /\ Range(hs) = {h \in Helper : h.file = file /\ h.key = key /\ Has(h)}
  BY <1>1, <1>2, OfKeyType
<1>4. Range(InScope(local)) = {h \in Helper : h.file \in Scope(local) /\ Has(h)}
  BY InScopeType
<1>5. \A h \in Helper : h = [file |-> h.file, key |-> h.key, value |-> h.value] /\ h.value \in HelperValues
  BY DEF Helper
<1>6. \A h : Place(h) = place <=> h.file = file /\ h.key = key
  BY <1>0 DEF Place
<1>7. Those(InScope(local), X) = Those(hs, X)
  <2>1. \A h \in X : h.file = file /\ h.key = key
    BY <1>1, <1>6
  <2>2. QED
    BY <1>0, <1>1, <1>2, <2>1, PartOfScope
<1>8. \A h \in Range(hs) : h \in X <=> h.value \in V
  <2>1. TAKE h \in Range(hs)
  <2>2. h \in Helper /\ h.file = file /\ h.key = key /\ Has(h) /\ h \in Range(InScope(local))
    BY <1>0, <1>1, <1>3, <1>4
  <2>3. h \in X <=> h \notin removed
    BY <1>1, <1>6, <2>2
  <2>4. QED
    BY <1>1, <1>5, <2>2, <2>3
<1>9. hs \in Seq(Range(hs))
  BY <1>3, SeqOfRange DEF Range
<1>10. Values(Those(hs, X)) = Those(Values(hs), V)
  BY <1>8, <1>9, ThoseValues
<1>11. QED
  BY <1>0, <1>1, <1>3, <1>7, <1>10 DEF KeptThere

-----------------------------------------------------------------------------
(* The files the values name, and the writes that remove values *)

\* A value names a file, in a file of the config.
Named(f) == \E file \in ConfigFiles, key \in Keys : f \in Range(config[file][key])
NamedIn(files, f) == \E file \in files, key \in Keys : f \in Range(config[file][key])

\* A store value is the file it names.
LEMMA StoresAre == \A v : /\ StoreFiles(v) = {f \in Files : v = f}
                          /\ IsStore(v) <=> v \in Files
BY DEF StoreFiles, IsStore, Files

\* The store values are values.
LEMMA FilesAreValues == Files \subseteq HelperValues
BY GitAssumption DEF GitAssumption, Files

\* What is named, a helper has.
LEMMA NamedByHelper ==
    ASSUME config \in ConfigType, NEW f \in HelperValues
    PROVE  Named(f) <=> \E h \in Range(Helpers) : h.value = f
<1>1. Range(Helpers) = {h \in Helper : Has(h)}
  BY HelpersType
<1>2. ASSUME NEW file \in ConfigFiles, NEW key \in Keys, f \in Range(config[file][key])
      PROVE  \E h \in Range(Helpers) : h.value = f
  <2>1. PICK h : h = [file |-> file, key |-> key, value |-> f]
    OBVIOUS
  <2>2. h \in Helper /\ Has(h)
    BY <1>2, <2>1 DEF Helper, Has
  <2>3. QED
    BY <1>1, <2>1, <2>2
<1>3. ASSUME NEW h \in Range(Helpers), h.value = f PROVE Named(f)
  BY <1>1, <1>3 DEF Helper, Has, Named
<1>4. QED
  BY <1>2, <1>3 DEF Named

\* `_store_paths` has every file that is named, and no other but the default one.
LEMMA StorePathsAre ==
    ASSUME config \in ConfigType
    PROVE  /\ StorePaths \in Seq(Files)
           /\ \A f \in Files : Named(f) => f \in Range(StorePaths)
           /\ \A f \in Range(StorePaths) :
                 Named(f) \/ (f = "store" /\ \A file \in ConfigFiles, g \in Files :
                                                g \notin Range(config[file]["all"]))
<1>1. /\ Helpers \in Seq(Helper) /\ Range(Helpers) = {h \in Helper : Has(h)}
  BY HelpersType
<1>2. PICK named : named = Those(Helpers, StoresOf(Range(Helpers)))
  OBVIOUS
<1>3. /\ named \in Seq(Helper)
      /\ Range(named) = {h \in Helper : Has(h) /\ h.value \in Files}
  <2>1. StoresOf(Range(Helpers)) = {h \in Range(Helpers) : h.value \in Files}
    BY StoresAre DEF StoresOf
  <2>2. named \in Seq(Helper) /\ Range(named) = Range(Helpers) \cap StoresOf(Range(Helpers))
    BY <1>1, <1>2, ThoseType
  <2>3. QED
    BY <1>1, <2>1, <2>2
<1>4. Values(named) \in Seq(Files) /\ Range(Values(named)) = {h.value : h \in Range(named)}
  <2>1. named \in Seq(Range(named))
    BY <1>3, SeqOfRange DEF Range
  <2>2. \A h \in Range(named) : h.value \in Files
    BY <1>3
  <2>3. QED
    BY <2>1, <2>2, ValuesType
<1>5. PICK rest : rest = IF \E h \in Range(named) : h.key = "all" THEN <<>> ELSE <<"store">>
  OBVIOUS
<1>6. rest \in Seq(Files) /\ Range(rest) \subseteq {"store"}
      /\ ((\E h \in Range(named) : h.key = "all") => Range(rest) = {})
  <2>1. <<"store">> \in Seq(Files) /\ <<>> \in Seq(Files) /\ Range(<<>>) = {}
    BY DEF Files, Range
  <2>2. Range(<<"store">>) = {"store"}
    BY DEF Range
  <2>3. QED
    BY <1>5, <2>1, <2>2
<1>7. PICK all : all = Values(named) \o rest
  OBVIOUS
<1>8. all \in Seq(Files) /\ Range(all) = Range(Values(named)) \cup Range(rest)
  BY <1>4, <1>6, <1>7, RangeConcat
<1>9. StorePaths = Unique(all)
  BY <1>2, <1>5, <1>7 DEF StorePaths
<1>10. StorePaths \in Seq(Files) /\ Range(StorePaths) = Range(all)
  BY <1>8, <1>9, UniqueType
<1>11. ASSUME NEW f \in Files, Named(f) PROVE f \in Range(StorePaths)
  <2>1. f \in HelperValues
    BY FilesAreValues
  <2>2. PICK h \in Range(Helpers) : h.value = f
    BY <1>11, <2>1, NamedByHelper
  <2>3. h \in Range(named)
    BY <1>1, <1>3, <2>2
  <2>4. QED
    BY <1>4, <1>8, <1>10, <2>2, <2>3
<1>12. ASSUME NEW f \in Range(StorePaths), ~Named(f)
       PROVE  f = "store" /\ \A file \in ConfigFiles, g \in Files : g \notin Range(config[file]["all"])
  <2>1. f \notin Range(Values(named))
    <3>1. SUFFICES ASSUME NEW h \in Range(named), h.value = f PROVE FALSE
      BY <1>4
    <3>2. f \in HelperValues /\ h \in Range(Helpers)
      BY <1>1, <1>3, <3>1, FilesAreValues
    <3>3. QED
      BY <1>12, <3>1, <3>2, NamedByHelper
  <2>2. f \in Range(rest)
    BY <1>8, <1>10, <2>1
  <2>3. ~\E h \in Range(named) : h.key = "all"
    BY <1>6, <2>2
  <2>4. ASSUME NEW file \in ConfigFiles, NEW g \in Files, g \in Range(config[file]["all"]) PROVE FALSE
    <3>1. PICK h : h = [file |-> file, key |-> "all", value |-> g]
      OBVIOUS
    <3>2. h \in Helper /\ Has(h) /\ h.value \in Files /\ h.key = "all"
      BY <2>4, <3>1, FilesAreValues DEF Helper, Has, Keys
    <3>3. QED
      BY <1>3, <2>3, <3>2
  <2>5. QED
    BY <1>6, <2>2, <2>4
<1>13. QED
  BY <1>10, <1>11, <1>12

-----------------------------------------------------------------------------
\* What `_remove_helpers` leaves at a place, and its writes: one for each place with a value to
\* remove.
LeftAt(file, key, removed) ==
    Those(config[file][key], {v \in HelperValues : [file |-> file, key |-> key, value |-> v] \notin removed})

\* The writes of a removal.
Removes(plan, local, removed) ==
    /\ plan \in Seq(ConfigWrite)
    /\ \A k \in DOMAIN plan :
          /\ plan[k].file \in Scope(local) /\ plan[k].key \in Keys
          /\ plan[k].values = LeftAt(plan[k].file, plan[k].key, removed)
          /\ plan[k].drops = {h \in removed : Place(h) = Place(plan[k])}
    /\ \A j, k \in DOMAIN plan : Place(plan[j]) = Place(plan[k]) => j = k
    /\ \A h \in removed : \E k \in DOMAIN plan : Place(plan[k]) = Place(h)

\* The writes of `_remove_helpers` are such.
LEMMA RemovePlanIs ==
    ASSUME config \in ConfigType, NEW local \in BOOLEAN,
           NEW removed, removed \subseteq Range(InScope(local))
    PROVE  Removes(RemovePlan(InScope(local), removed), local, removed)
<1> DEFINE At == [file : Scope(local), key : Keys]
<1>1. PICK helpers, gone, places, plan :
         /\ helpers = InScope(local) /\ gone = Those(helpers, removed)
         /\ places = Unique([i \in DOMAIN gone |-> Place(gone[i])])
         /\ plan = RemovePlan(helpers, removed)
  OBVIOUS
<1>2. helpers \in Seq(Helper) /\ Range(helpers) = {h \in Helper : h.file \in Scope(local) /\ Has(h)}
  BY <1>1, InScopeType
<1>3. gone \in Seq(Helper) /\ Range(gone) = removed
  <2>1. gone \in Seq(Helper) /\ Range(gone) = Range(helpers) \cap removed
    BY <1>1, <1>2, ThoseType
  <2>2. QED
    BY <1>1, <2>1
<1>4. \A i \in DOMAIN gone : gone[i] \in removed
  BY <1>3 DEF Range
<1>5. \A h \in removed : h \in Helper /\ h.file \in Scope(local) /\ h.key \in Keys /\ Place(h) \in At
  BY <1>1, <1>2 DEF Helper, Place
<1>6. PICK list : list = [i \in DOMAIN gone |-> Place(gone[i])]
  OBVIOUS
<1>7. list \in Seq(At)
  <2>1. \A i \in DOMAIN gone : list[i] \in At
    BY <1>4, <1>5, <1>6
  <2>2. DOMAIN gone = 1..Len(gone) /\ Len(gone) \in Nat /\ list = [i \in 1..Len(gone) |-> list[i]]
    BY <1>3, <1>6
  <2> HIDE DEF At
  <2>3. QED
    BY <2>1, <2>2
<1>8. Range(list) = {Place(h) : h \in removed}
  BY <1>3, <1>6 DEF Range
<1> HIDE DEF At
<1>9. places \in Seq(At) /\ Range(places) = {Place(h) : h \in removed} /\ IsInjective(places)
  BY <1>1, <1>6, <1>7, <1>8, UniqueType
<1>10. plan = [i \in DOMAIN places |->
                 Write(places[i].file, places[i].key, KeptThere(helpers, places[i], removed),
                       {h \in removed : Place(h) = places[i]})]
  BY <1>1 DEF RemovePlan
<1>11. ASSUME NEW i \in DOMAIN places
       PROVE  /\ plan[i].file \in Scope(local) /\ plan[i].key \in Keys
              /\ Place(plan[i]) = places[i]
              /\ plan[i].values = LeftAt(plan[i].file, plan[i].key, removed)
              /\ plan[i].drops = {h \in removed : Place(h) = places[i]}
              /\ plan[i] \in ConfigWrite
  <2>1. places[i] \in At
    BY <1>9
  <2>2. PICK file \in Scope(local), key \in Keys : places[i] = [file |-> file, key |-> key]
    BY <2>1 DEF At
  <2>3. plan[i] = [file |-> file, key |-> key, values |-> KeptThere(helpers, places[i], removed),
                   drops |-> {h \in removed : Place(h) = places[i]}]
    <3>1. places[i].file = file /\ places[i].key = key
      BY <2>2
    <3>2. plan[i] = Write(places[i].file, places[i].key, KeptThere(helpers, places[i], removed),
                          {h \in removed : Place(h) = places[i]})
      BY <1>10
    <3>3. QED
      BY <3>1, <3>2 DEF Write
  <2>4. KeptThere(helpers, places[i], removed) = LeftAt(file, key, removed)
    BY <1>1, <2>2, KeptThereIs DEF LeftAt
  <2>5. file \in ConfigFiles
    BY DEF Scope, ConfigFiles
  <2>6. LeftAt(file, key, removed) \in Seq(HelperValues)
    <3>1. config[file][key] \in Seq(HelperValues)
      BY <2>5 DEF ConfigType
    <3>2. QED
      BY <3>1, ThoseType DEF LeftAt
  <2>7. {h \in removed : Place(h) = places[i]} \in SUBSET Helper
    BY <1>5
  <2>8. QED
    BY <2>2, <2>3, <2>4, <2>5, <2>6, <2>7 DEF ConfigWrite, Place
<1>12. DOMAIN plan = DOMAIN places /\ DOMAIN places = 1..Len(places) /\ Len(places) \in Nat
  BY <1>9, <1>10
<1>13. plan \in Seq(ConfigWrite)
  <2>1. plan = [i \in 1..Len(places) |-> plan[i]]
    BY <1>10, <1>12
  <2>2. \A i \in 1..Len(places) : plan[i] \in ConfigWrite
    BY <1>11, <1>12
  <2>3. QED
    BY <1>12, <2>1, <2>2
<1>14. \A j, k \in DOMAIN plan : Place(plan[j]) = Place(plan[k]) => j = k
  BY <1>9, <1>11, <1>12 DEF IsInjective
<1>15. \A h \in removed : \E k \in DOMAIN plan : Place(plan[k]) = Place(h)
  <2>1. TAKE h \in removed
  <2>2. Place(h) \in Range(places)
    BY <1>9
  <2>3. PICK k \in DOMAIN places : Place(h) = places[k]
    BY <2>2 DEF Range
  <2>4. QED
    BY <1>11, <1>12, <2>3
<1>16. Removes(plan, local, removed)
  BY <1>11, <1>12, <1>13, <1>14, <1>15 DEF Removes
<1>17. QED
  BY <1>1, <1>16

-----------------------------------------------------------------------------
(* The writes of an install *)

\* The values of the helpers of one file.
InFile(hs, file) == Values(Those(hs, {h \in Range(hs) : h.file = file}))

\* The lesser of two.
LEMMA MinOfTwo ==
    ASSUME NEW m \in Nat, NEW n \in Nat
    PROVE  Min({m, n}) = IF m <= n THEN m ELSE n
<1> DEFINE Is(x) == x \in {m, n} /\ \A y \in {m, n} : x =< y
<1>1. Is(IF m <= n THEN m ELSE n)
  OBVIOUS
<1>2. Min({m, n}) = CHOOSE x : Is(x)
  BY DEF Min
<1>3. Is(CHOOSE x : Is(x))
  BY <1>1, Zenon
<1>4. QED
  BY <1>1, <1>2, <1>3

\* Two sequences in one.
LEMMA Concats ==
    ASSUME NEW S, NEW s \in Seq(S), NEW t \in Seq(S)
    PROVE  /\ s \o t \in Seq(S) /\ Len(s \o t) = Len(s) + Len(t)
           /\ Len(s) \in Nat /\ Len(t) \in Nat
           /\ \A i \in 1..Len(s) : (s \o t)[i] = s[i]
           /\ \A i \in 1..Len(t) : (s \o t)[Len(s) + i] = t[i]
OBVIOUS

\* Nothing has no values.
LEMMA ValuesNothing == Values(<<>>) = <<>>
BY DEF Values

\* The first part of the one is the first of the other and more.
CutAfter(S, A, B, X, H) == \E C \in Seq(S) : A = X \o C /\ H = C \o B

\* Two ways to cut one sequence.
LEMMA TwoCuts ==
    ASSUME NEW S, NEW A \in Seq(S), NEW B \in Seq(S), NEW X \in Seq(S), NEW H \in Seq(S),
           A \o B = X \o H
    PROVE  CutAfter(S, A, B, X, H) \/ CutAfter(S, X, H, A, B)
<1>1. /\ Len(A) \in Nat /\ Len(B) \in Nat /\ Len(X) \in Nat /\ Len(H) \in Nat
      /\ Len(A) + Len(B) = Len(X) + Len(H)
  <2>1. Len(A \o B) = Len(A) + Len(B) /\ Len(X \o H) = Len(X) + Len(H)
    BY Concats
  <2>2. QED
    BY <2>1
<1>2. /\ \A i \in 1..Len(A) : (A \o B)[i] = A[i]
      /\ \A i \in 1..Len(B) : (A \o B)[Len(A) + i] = B[i]
      /\ \A i \in 1..Len(X) : (A \o B)[i] = X[i]
      /\ \A i \in 1..Len(H) : (A \o B)[Len(X) + i] = H[i]
  <2>1. /\ \A i \in 1..Len(X) : (X \o H)[i] = X[i]
        /\ \A i \in 1..Len(H) : (X \o H)[Len(X) + i] = H[i]
    BY Concats
  <2>2. /\ \A i \in 1..Len(A) : (A \o B)[i] = A[i]
        /\ \A i \in 1..Len(B) : (A \o B)[Len(A) + i] = B[i]
    BY Concats
  <2>3. QED
    BY <2>1, <2>2
<1>3. CASE Len(X) <= Len(A)
  <2>1. PICK n : n = Len(A) - Len(X) /\ n \in Nat
    <3>1. Len(A) - Len(X) \in Nat
      BY <1>1, <1>3
    <3>2. QED
      BY <3>1
  <2>2. PICK C : C = [i \in 1..n |-> A[Len(X) + i]]
    OBVIOUS
  <2>3. C \in Seq(S) /\ Len(C) = n
    <3>1. \A i \in 1..n : Len(X) + i \in 1..Len(A)
      BY <1>1, <2>1
    <3>2. \A i \in 1..n : A[Len(X) + i] \in S
      BY <3>1
    <3>3. QED
      BY <2>1, <2>2, <3>2
  <2>4. A = X \o C
    <3>0. X \o C \in Seq(S) /\ Len(X \o C) = Len(X) + Len(C)
      BY <2>3, Concats
    <3>1. X \o C \in Seq(S) /\ Len(X \o C) = Len(A)
      BY <1>1, <2>1, <2>3, <3>0
    <3>2. ASSUME NEW i \in 1..Len(A) PROVE A[i] = (X \o C)[i]
      <4>1. CASE i <= Len(X)
        BY <1>1, <1>2, <2>3, <4>1
      <4>2. CASE ~(i <= Len(X))
        <5>1. i - Len(X) \in 1..n /\ i = Len(X) + (i - Len(X))
          BY <1>1, <2>1, <4>2
        <5>2. (X \o C)[Len(X) + (i - Len(X))] = C[i - Len(X)]
          BY <2>3, <5>1
        <5>3. QED
          BY <2>2, <5>1, <5>2
      <4>3. QED
        BY <4>1, <4>2
    <3>3. QED
      BY <3>1, <3>2, SeqEqual
  <2>5. H = C \o B
    <3>1. C \o B \in Seq(S) /\ Len(C \o B) = Len(H)
      BY <1>1, <2>1, <2>3
    <3>2. ASSUME NEW i \in 1..Len(H) PROVE H[i] = (C \o B)[i]
      <4>0. H[i] = (A \o B)[Len(X) + i]
        BY <1>2
      <4>1. CASE i <= n
        <5>1. Len(X) + i \in 1..Len(A) /\ i \in 1..n
          BY <1>1, <2>1, <4>1
        <5>2. (C \o B)[i] = C[i]
          BY <2>3, <5>1
        <5>3. C[i] = A[Len(X) + i]
          BY <2>2, <5>1
        <5>4. (A \o B)[Len(X) + i] = A[Len(X) + i]
          BY <1>2, <5>1
        <5>5. QED
          BY <4>0, <5>2, <5>3, <5>4
      <4>2. CASE ~(i <= n)
        <5>1. i - n \in 1..Len(B) /\ i = n + (i - n) /\ Len(X) + i = Len(A) + (i - n)
          BY <1>1, <2>1, <4>2
        <5>2. (C \o B)[n + (i - n)] = B[i - n]
          <6>1. \A k \in 1..Len(B) : (C \o B)[Len(C) + k] = B[k]
            BY <2>3, Concats
          <6>2. QED
            BY <2>3, <5>1, <6>1
        <5>3. (A \o B)[Len(A) + (i - n)] = B[i - n]
          BY <1>2, <5>1
        <5>4. QED
          BY <4>0, <5>1, <5>2, <5>3
      <4>3. QED
        BY <4>1, <4>2
    <3>3. QED
      BY <3>1, <3>2, SeqEqual
  <2>6. QED
    BY <2>3, <2>4, <2>5 DEF CutAfter
<1>4. CASE ~(Len(X) <= Len(A))
  <2>1. PICK n : n = Len(X) - Len(A) /\ n \in Nat
    <3>1. Len(X) - Len(A) \in Nat
      BY <1>1, <1>4
    <3>2. QED
      BY <3>1
  <2>2. PICK C : C = [i \in 1..n |-> X[Len(A) + i]]
    OBVIOUS
  <2>3. C \in Seq(S) /\ Len(C) = n
    <3>1. \A i \in 1..n : Len(A) + i \in 1..Len(X)
      BY <1>1, <2>1
    <3>2. \A i \in 1..n : X[Len(A) + i] \in S
      BY <3>1
    <3>3. QED
      BY <2>1, <2>2, <3>2
  <2>4. X = A \o C
    <3>0. A \o C \in Seq(S) /\ Len(A \o C) = Len(A) + Len(C)
      BY <2>3, Concats
    <3>1. A \o C \in Seq(S) /\ Len(A \o C) = Len(X)
      BY <1>1, <2>1, <2>3, <3>0
    <3>2. ASSUME NEW i \in 1..Len(X) PROVE X[i] = (A \o C)[i]
      <4>1. CASE i <= Len(A)
        BY <1>1, <1>2, <2>3, <4>1
      <4>2. CASE ~(i <= Len(A))
        <5>1. i - Len(A) \in 1..n /\ i = Len(A) + (i - Len(A))
          BY <1>1, <2>1, <4>2
        <5>2. (A \o C)[Len(A) + (i - Len(A))] = C[i - Len(A)]
          BY <2>3, <5>1
        <5>3. QED
          BY <2>2, <5>1, <5>2
      <4>3. QED
        BY <4>1, <4>2
    <3>3. QED
      BY <3>1, <3>2, SeqEqual
  <2>5. B = C \o H
    <3>1. C \o H \in Seq(S) /\ Len(C \o H) = Len(B)
      BY <1>1, <2>1, <2>3
    <3>2. ASSUME NEW i \in 1..Len(B) PROVE B[i] = (C \o H)[i]
      <4>0. B[i] = (A \o B)[Len(A) + i]
        BY <1>2
      <4>1. CASE i <= n
        <5>1. Len(A) + i \in 1..Len(X) /\ i \in 1..n
          BY <1>1, <2>1, <4>1
        <5>2. (C \o H)[i] = C[i]
          BY <2>3, <5>1
        <5>3. C[i] = X[Len(A) + i]
          BY <2>2, <5>1
        <5>4. (A \o B)[Len(A) + i] = X[Len(A) + i]
          BY <1>2, <5>1
        <5>5. QED
          BY <4>0, <5>2, <5>3, <5>4
      <4>2. CASE ~(i <= n)
        <5>1. i - n \in 1..Len(H) /\ i = n + (i - n) /\ Len(A) + i = Len(X) + (i - n)
          BY <1>1, <2>1, <4>2
        <5>2. (C \o H)[n + (i - n)] = H[i - n]
          <6>1. \A k \in 1..Len(H) : (C \o H)[Len(C) + k] = H[k]
            BY <2>3, Concats
          <6>2. QED
            BY <2>3, <5>1, <6>1
        <5>3. (A \o B)[Len(X) + (i - n)] = H[i - n]
          BY <1>2, <5>1
        <5>4. QED
          BY <4>0, <5>1, <5>2, <5>3
      <4>3. QED
        BY <4>1, <4>2
    <3>3. QED
      BY <3>1, <3>2, SeqEqual
  <2>6. QED
    BY <2>3, <2>4, <2>5 DEF CutAfter
<1>5. QED
  BY <1>3, <1>4

\* When all helpers are of the file, or none is.
LEMMA InFileAll ==
    ASSUME NEW file, NEW s \in Seq(Helper), \A h \in Range(s) : h.file = file
    PROVE  InFile(s, file) = Values(s)
<1>1. Range(s) \subseteq {h \in Range(s) : h.file = file}
  OBVIOUS
<1>2. QED
  BY <1>1, ThoseAll DEF InFile

\* When none is.
LEMMA InFileNone ==
    ASSUME NEW file, NEW s \in Seq(Helper), \A h \in Range(s) : h.file # file
    PROVE  InFile(s, file) = <<>>
<1>1. Range(s) \cap {h \in Range(s) : h.file = file} = {}
  OBVIOUS
<1>2. Those(s, {h \in Range(s) : h.file = file}) = <<>>
  BY <1>1, ThoseNone
<1>3. QED
  BY <1>2, ValuesNothing DEF InFile

\* Of two lists.
LEMMA InFileConcat ==
    ASSUME NEW file, NEW s \in Seq(Helper), NEW t \in Seq(Helper)
    PROVE  InFile(s \o t, file) = InFile(s, file) \o InFile(t, file)
<1> DEFINE X == {h \in Range(s \o t) : h.file = file}
<1>1. Range(s \o t) = Range(s) \cup Range(t)
  BY RangeConcat
<1>2. Those(s \o t, X) = Those(s, X) \o Those(t, X)
  BY ThoseConcat
<1>3. Those(s, X) = Those(s, {h \in Range(s) : h.file = file})
  <2>1. \A i \in DOMAIN s : s[i] \in X <=> s[i] \in {h \in Range(s) : h.file = file}
    BY <1>1 DEF Range
  <2>2. QED
    BY <2>1, ThoseSame
<1>4. Those(t, X) = Those(t, {h \in Range(t) : h.file = file})
  <2>1. \A i \in DOMAIN t : t[i] \in X <=> t[i] \in {h \in Range(t) : h.file = file}
    BY <1>1 DEF Range
  <2>2. QED
    BY <2>1, ThoseSame
<1>5. Those(s, X) \in Seq(Helper) /\ Those(t, X) \in Seq(Helper)
  BY ThoseType
<1>6. Values(Those(s, X) \o Those(t, X)) = Values(Those(s, X)) \o Values(Those(t, X))
  BY <1>5, ValuesConcat
<1>7. QED
  BY <1>2, <1>3, <1>4, <1>6 DEF InFile

\* Of two files' helpers, cut anywhere, the part in the file of the helper at the cut. The values
\* of a file are those of the two parts that are in it.
CutsBy(file, A, B) ==
    /\ B # <<>> => file = B[1].file
    /\ B = <<>> /\ A # <<>> => file = A[Len(A)].file
\* A list of two files that is cut in two: the values each part has of each file.
ValuesCut(file, a, b, X, H, A, B) ==
    /\ file = b => /\ Values(X) \o InFile(A, file) = Values(A)
                   /\ InFile(B, file) = Values(B)
                   /\ InFile(A, file) \o InFile(B, file) = Values(H)
    /\ file = a => /\ InFile(A, file) = Values(A)
                   /\ InFile(B, file) \o Values(H) = Values(B)
                   /\ InFile(A, file) \o InFile(B, file) = Values(X)

\* They are such when the cut is in the file.
LEMMA CutInFile ==
    ASSUME NEW a, NEW b, a # b, NEW file \in {a, b},
           NEW X \in Seq(Helper), NEW H \in Seq(Helper),
           \A h \in Range(X) : h.file = a, \A h \in Range(H) : h.file = b,
           NEW A \in Seq(Helper), NEW B \in Seq(Helper), A \o B = X \o H, CutsBy(file, A, B)
    PROVE  ValuesCut(file, a, b, X, H, A, B)
<1> USE DEF CutsBy, ValuesCut
<1> DEFINE V == {h.value : h \in Helper}
<1>0. \A s \in Seq(Helper) : /\ Values(s) \in Seq(V)
                             /\ Values(s) \o <<>> = Values(s) /\ <<>> \o Values(s) = Values(s)
                             /\ s \o <<>> = s /\ <<>> \o s = s
  <2>1. TAKE s \in Seq(Helper)
  <2>2. Values(s) \in Seq(V)
    <3>1. \A h \in Helper : h.value \in V
      OBVIOUS
    <3> HIDE DEF V
    <3>2. QED
      BY <3>1, ValuesType
  <2> HIDE DEF V
  <2>3. QED
    BY <2>2, ConcatNothing
<1> HIDE DEF V
<1>1. CASE \E C \in Seq(Helper) : A = X \o C /\ H = C \o B
  <2>1. PICK C \in Seq(Helper) : A = X \o C /\ H = C \o B
    BY <1>1
  <2>2. Range(A) = Range(X) \cup Range(C) /\ Range(H) = Range(C) \cup Range(B)
    BY <2>1, RangeConcat
  <2>3. \A h \in Range(C) \cup Range(B) : h.file = b
    BY <2>2
  <2>4. CASE file = b
    <3>0. /\ \A h \in Range(X) : h.file # file
          /\ \A h \in Range(C) : h.file = file
          /\ \A h \in Range(B) : h.file = file
      BY <2>3, <2>4
    <3>1. InFile(X, file) = <<>> /\ InFile(C, file) = Values(C) /\ InFile(B, file) = Values(B)
      <4>1. InFile(X, file) = <<>>
        BY <3>0, InFileNone
      <4>2. InFile(C, file) = Values(C) /\ InFile(B, file) = Values(B)
        BY <3>0, InFileAll
      <4>3. QED
        BY <4>1, <4>2
    <3>2. InFile(A, file) = <<>> \o Values(C)
      <4>1. InFile(X \o C, file) = InFile(X, file) \o InFile(C, file)
        BY InFileConcat
      <4>2. QED
        BY <2>1, <3>1, <4>1
    <3>3. InFile(A, file) = Values(C)
      BY <1>0, <3>2
    <3>4. Values(A) = Values(X) \o Values(C) /\ Values(H) = Values(C) \o Values(B)
      BY <2>1, ValuesConcat
    <3>5. QED
      BY <2>4, <3>1, <3>3, <3>4
  <2>5. CASE file = a
    <3>1. B = <<>>
      <4>1. SUFFICES ASSUME B # <<>> PROVE FALSE
        OBVIOUS
      <4>2. B[1] \in Range(B)
        BY <4>1 DEF Range
      <4>3. QED
        BY <2>3, <2>5, <4>1, <4>2
    <3>2. C = <<>>
      <4>1. SUFFICES ASSUME C # <<>> PROVE FALSE
        OBVIOUS
      <4>2. Len(C) \in 1..Len(C) /\ Len(A) = Len(X) + Len(C) /\ A[Len(X) + Len(C)] = C[Len(C)] /\ A # <<>>
        BY <2>1, <4>1
      <4>3. C[Len(C)] \in Range(C)
        BY <4>2 DEF Range
      <4>4. QED
        BY <2>3, <2>5, <3>1, <4>2, <4>3
    <3>3. A = X /\ H = <<>>
      BY <1>0, <2>1, <3>1, <3>2
    <3>4. InFile(A, file) = Values(A) /\ InFile(B, file) = <<>> /\ Values(<<>>) = <<>>
      <4>1. \A h \in Range(A) : h.file = file
        BY <2>5, <3>3
      <4>2. \A h \in Range(B) : h.file # file
        BY <2>3, <2>5
      <4>3. QED
        <5>1. InFile(A, file) = Values(A)
          BY <4>1, InFileAll
        <5>2. InFile(B, file) = <<>>
          BY <4>2, InFileNone
        <5>3. QED
          BY <5>1, <5>2, ValuesNothing
    <3>5. QED
      BY <1>0, <2>5, <3>1, <3>3, <3>4
  <2>6. QED
    BY <2>4, <2>5
<1>2. CASE \E C \in Seq(Helper) : X = A \o C /\ B = C \o H
  <2>1. PICK C \in Seq(Helper) : X = A \o C /\ B = C \o H
    BY <1>2
  <2>2. Range(X) = Range(A) \cup Range(C) /\ Range(B) = Range(C) \cup Range(H)
    BY <2>1, RangeConcat
  <2>3. \A h \in Range(A) \cup Range(C) : h.file = a
    BY <2>2
  <2>4. CASE file = a
    <3>0. /\ \A h \in Range(A) : h.file = file
          /\ \A h \in Range(C) : h.file = file
          /\ \A h \in Range(H) : h.file # file
      BY <2>3, <2>4
    <3>1. InFile(A, file) = Values(A) /\ InFile(C, file) = Values(C) /\ InFile(H, file) = <<>>
      <4>1. InFile(H, file) = <<>>
        BY <3>0, InFileNone
      <4>2. InFile(C, file) = Values(C) /\ InFile(A, file) = Values(A)
        BY <3>0, InFileAll
      <4>3. QED
        BY <4>1, <4>2
    <3>2. InFile(B, file) = Values(C) \o <<>>
      <4>1. InFile(C \o H, file) = InFile(C, file) \o InFile(H, file)
        BY InFileConcat
      <4>2. QED
        BY <2>1, <3>1, <4>1
    <3>3. InFile(B, file) = Values(C)
      BY <1>0, <3>2
    <3>4. Values(X) = Values(A) \o Values(C) /\ Values(B) = Values(C) \o Values(H)
      BY <2>1, ValuesConcat
    <3>5. QED
      BY <2>4, <3>1, <3>3, <3>4
  <2>5. CASE file = b
    <3>1. C = <<>>
      <4>1. SUFFICES ASSUME C # <<>> PROVE FALSE
        OBVIOUS
      <4>2. 1 \in 1..Len(C) /\ B[1] = C[1] /\ B # <<>>
        BY <2>1, <4>1
      <4>3. C[1] \in Range(C)
        BY <4>2 DEF Range
      <4>4. QED
        BY <2>3, <2>5, <4>2, <4>3
    <3>2. X = A /\ B = H
      BY <1>0, <2>1, <3>1
    <3>3. InFile(A, file) = <<>> /\ InFile(B, file) = Values(B)
      <4>1. \A h \in Range(A) : h.file # file
        BY <2>3, <2>5
      <4>2. \A h \in Range(B) : h.file = file
        BY <2>5, <3>2
      <4>3. QED
        <5>1. InFile(A, file) = <<>>
          BY <4>1, InFileNone
        <5>2. InFile(B, file) = Values(B)
          BY <4>2, InFileAll
        <5>3. QED
          BY <5>1, <5>2
    <3>4. QED
      BY <1>0, <2>5, <3>2, <3>3
  <2>6. QED
    BY <2>4, <2>5
<1>3. \/ \E C \in Seq(Helper) : A = X \o C /\ H = C \o B
      \/ \E C \in Seq(Helper) : X = A \o C /\ B = C \o H
  <2>1. PICK S : S = Helper
    OBVIOUS
  <2>2. A \in Seq(S) /\ B \in Seq(S) /\ X \in Seq(S) /\ H \in Seq(S)
    BY <2>1
  <2>3. CutAfter(S, A, B, X, H) \/ CutAfter(S, X, H, A, B)
    BY <2>2, TwoCuts
  <2>4. QED
    BY <2>1, <2>3 DEF CutAfter
<1>4. QED
  BY <1>1, <1>2, <1>3

\* The values that are not the store's and not ours, and those a file has.
PlainValues == {v \in HelperValues : ~IsStore(v) /\ v # "ours"}
Plain(file) == Those(config[file]["all"], PlainValues)

\* The values for every url of a scope, when those of one of its files are given.
Whole(local, file, values) ==
    IF local THEN values
    ELSE IF file = "xdg" THEN values \o Plain("home") ELSE Plain("xdg") \o values

\* What an install removes; and how ours goes between the plain values of a file, before every one
\* that git runs.
OursElsewhere(local, file) ==
    {h \in Range(InScope(local)) :
        IsStore(h.value) \/ (h.key = "all" /\ h.value = "ours" /\ h.file # file)}

\* Where ours goes among the plain values of a file.
InsertsOurs(local, file, before, rest) ==
    /\ file \in Scope(local) /\ before \in Seq(PlainValues) /\ rest \in Seq(PlainValues)
    /\ before \o rest = Plain(file)
    /\ \E P, Q \in Seq(PlainValues) :
          /\ P = <<>> \/ P[Len(P)] = Reset
          /\ Reset \notin Range(Q)
          /\ Whole(local, file, (before \o <<"ours">>) \o rest) = (P \o <<"ours">>) \o Q

\* The plain values are in their order.
LEMMA PlainType ==
    ASSUME config \in ConfigType, NEW file \in ConfigFiles
    PROVE  Plain(file) \in Seq(PlainValues)
<1>1. config[file]["all"] \in Seq(HelperValues)
  BY DEF ConfigType, Keys
<1>2. Plain(file) \in Seq(HelperValues) /\ Range(Plain(file)) \subseteq PlainValues
  BY <1>1, ThoseType DEF Plain
<1>3. Plain(file) \in Seq(Range(Plain(file)))
  BY <1>2, SeqOfRange DEF Range
<1>4. QED
  BY <1>2, <1>3, SeqMonotonic

\* The other values for every url, file by file.
LEMMA OthersAre ==
    ASSUME config \in ConfigType, NEW local \in BOOLEAN, NEW X,
           \A h \in Helper : h \in X <=> h.key = "all" /\ h.value \in PlainValues
    PROVE  \E S, T \in Seq(Helper) :
              /\ Those(InScope(local), X) = S \o T
              /\ S = IF local THEN <<>> ELSE Those(OfKey("xdg", "all"), X)
              /\ T = Those(OfKey(IF local THEN "repository" ELSE "home", "all"), X)
              /\ \A h \in Range(S) : h.file = "xdg"
              /\ \A h \in Range(T) : h.file = IF local THEN "repository" ELSE "home"
              /\ ~local => Values(S) = Plain("xdg")
              /\ Values(T) = Plain(IF local THEN "repository" ELSE "home")
<1> DEFINE O(f) == Those(OfKey(f, "all"), X)
<1>1. \A f \in ConfigFiles : /\ O(f) \in Seq(Helper) /\ Values(O(f)) = Plain(f)
                             /\ \A h \in Range(O(f)) : h.file = f
  <2>1. TAKE f \in ConfigFiles
  <2>2. /\ OfKey(f, "all") \in Seq(Helper) /\ Values(OfKey(f, "all")) = config[f]["all"]
        /\ Range(OfKey(f, "all")) = {h \in Helper : h.file = f /\ h.key = "all" /\ Has(h)}
    BY OfKeyType DEF Keys
  <2>3. O(f) \in Seq(Helper) /\ Range(O(f)) \subseteq Range(OfKey(f, "all"))
    BY <2>2, ThoseType
  <2>4. PICK S, hs : hs = OfKey(f, "all") /\ S = Range(hs)
    OBVIOUS
  <2>5. hs \in Seq(S)
    BY <2>2, <2>4, SeqOfRange
  <2>6. \A h \in S : h \in X <=> h.value \in PlainValues
    BY <2>2, <2>4
  <2>7. Values(Those(hs, X)) = Those(Values(hs), PlainValues)
    BY <2>5, <2>6, ThoseValues
  <2>8. QED
    BY <2>2, <2>3, <2>4, <2>7 DEF Plain
<1>2. \A f \in ConfigFiles : Those(Listed(f), X) = O(f)
  <2>1. TAKE f \in ConfigFiles
  <2>2. Those(Listed(f), X) = O(f) \o Those(OfKey(f, "url"), X)
    BY PartOfListed
  <2>3. Those(OfKey(f, "url"), X) = <<>>
    <3>1. /\ OfKey(f, "url") \in Seq(Helper)
          /\ Range(OfKey(f, "url")) = {h \in Helper : h.file = f /\ h.key = "url" /\ Has(h)}
      BY OfKeyType DEF Keys
    <3>2. Range(OfKey(f, "url")) \cap X = {}
      BY <3>1
    <3>3. QED
      BY <3>1, <3>2, ThoseNone
  <2>4. O(f) \o <<>> = O(f)
    BY <1>1, ConcatNothing
  <2>5. QED
    BY <2>2, <2>3, <2>4
<1> HIDE DEF O
<1>3. {"xdg", "home", "repository"} \subseteq ConfigFiles
  BY DEF ConfigFiles
<1>4. CASE local
  <2>1. PICK S, T : S = <<>> /\ T = O("repository")
    OBVIOUS
  <2>2. S \in Seq(Helper) /\ T \in Seq(Helper) /\ S \o T = T /\ Range(S) = {}
    BY <1>1, <1>3, <2>1, ConcatNothing DEF Range
  <2>3. Those(InScope(local), X) = S \o T
    BY <1>2, <1>3, <1>4, <2>1, <2>2 DEF InScope
  <2>4. Values(T) = Plain("repository") /\ \A h \in Range(T) : h.file = "repository"
    BY <1>1, <1>3, <2>1
  <2>5. QED
    BY <1>4, <2>1, <2>2, <2>3, <2>4 DEF O
<1>5. CASE ~local
  <2>1. PICK S, T : S = O("xdg") /\ T = O("home")
    OBVIOUS
  <2>2. S \in Seq(Helper) /\ T \in Seq(Helper)
    BY <1>1, <1>3, <2>1
  <2>3. Those(InScope(local), X) = S \o T
    <3>1. Listed("xdg") \in Seq(Helper) /\ Listed("home") \in Seq(Helper)
      BY <1>3, ListedType
    <3>2. Those(Listed("xdg") \o Listed("home"), X) = Those(Listed("xdg"), X) \o Those(Listed("home"), X)
      BY <3>1, ThoseConcat
    <3>3. QED
      BY <1>2, <1>3, <1>5, <2>1, <3>2 DEF InScope
  <2>4. /\ Values(S) = Plain("xdg") /\ \A h \in Range(S) : h.file = "xdg"
        /\ Values(T) = Plain("home") /\ \A h \in Range(T) : h.file = "home"
    BY <1>1, <1>3, <2>1
  <2>5. QED
    BY <1>5, <2>1, <2>2, <2>3, <2>4 DEF O
<1>6. QED
  BY <1>4, <1>5

\* The place of the last reset, or none.
ResetAt(n, others) ==
    /\ n \in 0..Len(others)
    /\ n # 0 => others[n].value = Reset
    /\ \A i \in 1..Len(others) : others[i].value = Reset => i <= n

\* `AfterReset` is the place of the last reset, or the start.
LEMMA AfterResetIs ==
    ASSUME NEW others \in Seq(Helper)
    PROVE  ResetAt(AfterReset(others), others)
<1> USE DEF ResetAt
<1>1. PICK n : n = Len(others) /\ n \in Nat /\ DOMAIN others = 1..n
  OBVIOUS
<1>2. PICK T : T = {0} \cup {i \in DOMAIN others : others[i].value = Reset}
  OBVIOUS
<1>3. \A x \in T : x # 0 => x \in 1..n /\ others[x].value = Reset
  BY <1>1, <1>2
<1>4. T \subseteq Nat /\ T # {} /\ \A x \in T : x <= n
  <2>1. n \in Nat
    BY <1>1
  <2>2. ASSUME NEW x \in T PROVE x \in 0..n
    <3>1. CASE x = 0
      <4>1. 0 \in 0..n
        BY <2>1
      <4>2. QED
        BY <3>1, <4>1
    <3>2. CASE x # 0
      <4>1. x \in 1..n
        BY <1>3, <3>2
      <4>2. QED
        BY <2>1, <4>1
    <3>3. QED
      BY <3>1, <3>2
  <2>3. 0 \in T
    BY <1>2
  <2>4. T \subseteq 0..n
    BY <2>2
  <2>5. QED
    BY <2>1, <2>3, <2>4
<1>5. Max(T) \in T /\ \A x \in T : x <= Max(T)
  BY <1>1, <1>4, MaxIsMax
<1>6. AfterReset(others) = Max(T)
  BY <1>2 DEF AfterReset
<1>7. \A i \in 1..Len(others) : others[i].value = Reset => i \in T
  BY <1>1, <1>2
<1>8. QED
  <2>1. Max(T) \in 0..n
    <3>1. Max(T) \in Nat /\ Max(T) <= n
      BY <1>4, <1>5
    <3>2. QED
      BY <1>1, <3>1
  <2>2. QED
    BY <1>1, <1>3, <1>5, <1>6, <1>7, <2>1

\* A sequence is what comes up to a place and what comes after it.
CutOf(s, n, A, B) ==
    /\ A \o B = s
    /\ Len(A) = n /\ Len(B) = Len(s) - n
    /\ \A i \in 1..n : A[i] = s[i]
    /\ \A i \in 1..Len(B) : B[i] = s[n + i] /\ n + i \in 1..Len(s)

\* A sequence is cut at every place.
LEMMA CutAt ==
    ASSUME NEW S, NEW s \in Seq(S), NEW n \in 0..Len(s)
    PROVE  /\ SubSeq(s, 1, n) \in Seq(S) /\ SubSeq(s, n + 1, Len(s)) \in Seq(S)
           /\ CutOf(s, n, SubSeq(s, 1, n), SubSeq(s, n + 1, Len(s)))
<1> DEFINE A == SubSeq(s, 1, n)  B == SubSeq(s, n + 1, Len(s))
<1>1. Len(s) \in Nat /\ \A i \in 1..Len(s) : s[i] \in S
  OBVIOUS
<1>2. /\ A \in Seq(S) /\ Len(A) = n /\ \A i \in 1..n : A[i] = s[i]
  <2>1. \A i \in 1..n : s[i] \in S
    BY <1>1
  <2>2. /\ A \in Seq(S) /\ Len(A) = (IF 1 <= n THEN n - 1 + 1 ELSE 0)
        /\ \A i \in 1..(n - 1 + 1) : A[i] = s[1 + i - 1]
    BY <2>1, SubSeqProperties
  <2>3. QED
    BY <2>2
<1>3. /\ B \in Seq(S) /\ Len(B) = Len(s) - n
      /\ \A i \in 1..Len(B) : B[i] = s[n + i] /\ n + i \in 1..Len(s)
  <2>1. \A i \in (n + 1)..Len(s) : s[i] \in S
    BY <1>1
  <2>2. /\ B \in Seq(S) /\ Len(B) = (IF n + 1 <= Len(s) THEN Len(s) - (n + 1) + 1 ELSE 0)
        /\ \A i \in 1..(Len(s) - (n + 1) + 1) : B[i] = s[n + 1 + i - 1]
    BY <1>1, <2>1, SubSeqProperties
  <2>3. Len(B) = Len(s) - n
    BY <1>1, <2>2
  <2>4. QED
    BY <1>1, <2>2, <2>3
<1>4. A \o B = s
  <2>1. SubSeq(s, 1, n) \o SubSeq(s, n + 1, Len(s)) = SubSeq(s, 1, Len(s))
    <3>1. 1 \in 1..(Len(s) + 1) /\ n \in (1 - 1)..Len(s) /\ Len(s) \in n..Len(s)
      BY <1>1
    <3>2. QED
      BY <3>1, ConcatAdjacentSubSeq
  <2>2. QED
    BY <2>1, SubSeqFull
<1>5. QED
  BY <1>2, <1>3, <1>4 DEF CutOf

\* Three sequences in one.
LEMMA Associates == ASSUME NEW V, NEW a \in Seq(V), NEW b \in Seq(V), NEW c \in Seq(V) PROVE (a \o b) \o c = a \o (b \o c)
OBVIOUS

\* More before or after a sequence that has x in it.
OneIn(v, b, x, r) ==
    /\ v \o ((b \o <<x>>) \o r) = ((v \o b) \o <<x>>) \o r
    /\ ((b \o <<x>>) \o r) \o v = (b \o <<x>>) \o (r \o v)

\* A value between two sequences.
LEMMA ConcatOne ==
    ASSUME NEW V, NEW b \in Seq(V), NEW x \in V, NEW r \in Seq(V), NEW v \in Seq(V)
    PROVE  OneIn(v, b, x, r)
<1>0. <<x>> \in Seq(V)
  OBVIOUS
<1>1. PICK o : o = <<x>> /\ o \in Seq(V)
  BY <1>0
<1>2. PICK c : c = b \o o
  OBVIOUS
<1>3. c \in Seq(V)
  BY <1>1, <1>2
<1>4. (v \o c) \o r = v \o (c \o r)
  BY <1>3, Associates
<1>5. (c \o r) \o v = c \o (r \o v)
  BY <1>3, Associates
<1>6. (v \o b) \o o = v \o (b \o o)
  BY <1>1, Associates
<1>7. QED
  BY <1>1, <1>2, <1>4, <1>5, <1>6, Zenon DEF OneIn

\* The elements of a sequence, by their places.
LEMMA RangeAt ==
    ASSUME NEW S, NEW s \in Seq(S)
    PROVE  /\ Len(s) \in Nat /\ Range(s) \subseteq S
           /\ \A i \in 1..Len(s) : s[i] \in Range(s)
           /\ \A x \in Range(s) : \E i \in 1..Len(s) : x = s[i]
<1>1. Len(s) \in Nat /\ DOMAIN s = 1..Len(s) /\ \A i \in 1..Len(s) : s[i] \in S
  OBVIOUS
<1>2. QED
  BY <1>1 DEF Range

\* The values of a file.
LEMMA InFileType ==
    ASSUME NEW file, NEW s \in Seq(Helper), NEW W, \A h \in Range(s) : h.value \in W
    PROVE  InFile(s, file) \in Seq(W)
<1>1. PICK R, X : R = Range(s) /\ X = {h \in Range(s) : h.file = file}
  OBVIOUS
<1>2. s \in Seq(R)
  BY <1>1, SeqOfRange
<1>3. Those(s, X) \in Seq(R)
  BY <1>2, ThoseType
<1>4. \A h \in R : h.value \in W
  BY <1>1
<1>5. Values(Those(s, X)) \in Seq(W)
  BY <1>3, <1>4, ValuesType
<1>6. QED
  BY <1>1, <1>5 DEF InFile

\* What comes up to a place and after it, when the place is that of the last reset.
PartsAtReset(A, B, W, others) ==
    /\ Values(A) \in Seq(W) /\ Values(B) \in Seq(W)
    /\ Range(A) \subseteq Range(others) /\ Range(B) \subseteq Range(others)
    /\ Values(A) = <<>> \/ Values(A)[Len(Values(A))] = Reset
    /\ Reset \notin Range(Values(B))

\* After the last reset there is none.
LEMMA CutAtReset ==
    ASSUME NEW others \in Seq(Helper), NEW W, \A h \in Range(others) : h.value \in W,
           NEW n, ResetAt(n, others),
           NEW A \in Seq(Helper), NEW B \in Seq(Helper), CutOf(others, n, A, B)
    PROVE  PartsAtReset(A, B, W, others)
<1> USE DEF ResetAt, CutOf, PartsAtReset
<1>1. PICK m, k, O : /\ m = Len(others) /\ m \in Nat /\ k = Len(B) /\ k \in Nat /\ n \in Nat /\ n <= m
                     /\ k = m - n
                     /\ O = Range(others) /\ \A i \in 1..m : others[i] \in O
  BY RangeAt
<1>2. \A i \in 1..n : A[i] \in O
  BY <1>1
<1>3. \A i \in 1..k : B[i] \in O
  BY <1>1
<1>4. A \in Seq(O) /\ B \in Seq(O)
  BY <1>1, <1>2, <1>3
<1>5. /\ Values(A) \in Seq(W) /\ Values(B) \in Seq(W) /\ Len(Values(A)) = n
      /\ Range(Values(B)) = {h.value : h \in Range(B)}
  <2>1. \A h \in O : h.value \in W
    BY <1>1
  <2>2. ASSUME NEW C \in Seq(O) PROVE Values(C) \in Seq(W) /\ Len(Values(C)) = Len(C)
    BY <2>1, ValuesType
  <2>3. Values(B) \in Seq(W) /\ Range(Values(B)) = {h.value : h \in Range(B)}
    BY <1>4, <2>1, ValuesType
  <2>4. QED
    BY <1>4, <2>2, <2>3
<1>6. Values(A) = <<>> \/ Values(A)[n] = Reset
  <2>1. CASE n = 0
    BY <1>5, <2>1
  <2>2. CASE n # 0
    <3>1. n \in 1..n
      BY <1>1, <2>2
    <3>2. n \in DOMAIN A /\ A[n] = others[n]
      BY <3>1
    <3>3. Values(A)[n] = A[n].value
      BY <3>2 DEF Values
    <3>4. QED
      BY <2>2, <3>2, <3>3
  <2>3. QED
    BY <2>1, <2>2
<1>7. \A h \in Range(B) : h.value # Reset
  <2>1. ASSUME NEW i \in 1..k PROVE B[i].value # Reset
    <3>1. n + i \in 1..m /\ B[i] = others[n + i]
      BY <1>1
    <3>2. ~(n + i <= n)
      BY <1>1
    <3>3. QED
      BY <1>1, <3>1, <3>2
  <2>2. \A h \in Range(B) : \E i \in 1..k : h = B[i]
    BY <1>1, RangeAt
  <2>3. QED
    BY <2>1, <2>2
<1>8. Range(A) \subseteq O /\ Range(B) \subseteq O
  BY <1>4, RangeAt
<1>9. QED
  BY <1>1, <1>5, <1>6, <1>7, <1>8

\* The file of the helper ours comes before, or of the last one.
FileAt(file, others, n) == others # <<>> => file = others[Min({n + 1, Len(others)})].file

\* Ours goes in the file of the helper it must run before, so the cut is in that file.
LEMMA FileOfCut ==
    ASSUME NEW others \in Seq(Helper), NEW n \in 0..Len(others), NEW file,
           FileAt(file, others, n),
           NEW A \in Seq(Helper), NEW B \in Seq(Helper), CutOf(others, n, A, B)
    PROVE  CutsBy(file, A, B)
<1> USE DEF FileAt, CutOf, CutsBy
<1>0. Len(others) \in Nat /\ Len(B) \in Nat
  OBVIOUS
<1>1. PICK m, k : /\ m = Len(others) /\ m \in Nat /\ k = Len(B) /\ k \in Nat /\ n \in Nat /\ n <= m
                  /\ k = m - n
  BY <1>0
<1>2. Min({n + 1, m}) = IF n + 1 <= m THEN n + 1 ELSE m
  <2>1. n + 1 \in Nat /\ m \in Nat
    BY <1>1
  <2>2. QED
    BY <2>1, MinOfTwo
<1>3. CASE B # <<>>
  <2>1. k # 0
    BY <1>1, <1>3
  <2>2. n + 1 <= m /\ 1 \in 1..k /\ m # 0
    BY <1>1, <2>1
  <2>3. others # <<>>
    BY <1>1, <2>2
  <2>4. B[1] = others[n + 1]
    BY <1>1, <2>2
  <2>5. QED
    BY <1>1, <1>2, <1>3, <2>2, <2>3, <2>4
<1>4. CASE B = <<>> /\ A # <<>>
  <2>1. k = 0 /\ n # 0
    BY <1>1, <1>4
  <2>2. n = m /\ ~(n + 1 <= m) /\ n \in 1..n /\ m # 0
    BY <1>1, <2>1
  <2>3. others # <<>>
    BY <1>1, <2>2
  <2>4. A[n] = others[n]
    BY <2>2
  <2>5. QED
    BY <1>1, <1>2, <1>4, <2>2, <2>3, <2>4
<1>5. QED
  BY <1>3, <1>4

\* The others of the scope: those of the file git reads first, if it is the global one, and of the
\* other.
OthersOf(local, home, S, T) ==
    /\ home = IF local THEN "repository" ELSE "home"
    /\ local => S = <<>>
    /\ ~local => Values(S) = Plain("xdg")
    /\ Values(T) = Plain(home)
    /\ \A h \in Range(S) : h.file = "xdg"
    /\ \A h \in Range(T) : h.file = home

\* Where ours goes among the others of a scope.
LEMMA OursIsPlaced ==
    ASSUME config \in ConfigType, NEW local \in BOOLEAN,
           NEW S \in Seq(Helper), NEW T \in Seq(Helper), NEW home, OthersOf(local, home, S, T),
           NEW n, NEW file \in Scope(local),
           NEW A \in Seq(Helper), NEW B \in Seq(Helper),
           ResetAt(n, S \o T), FileAt(file, S \o T, n), CutOf(S \o T, n, A, B)
    PROVE  InsertsOurs(local, file, InFile(A, file), InFile(B, file))
<1>1. PICK others : others = S \o T
  OBVIOUS
<1>2. others \in Seq(Helper)
  BY <1>1, Concats
<1>3. ResetAt(n, others) /\ FileAt(file, others, n) /\ CutOf(others, n, A, B) /\ n \in 0..Len(others)
  BY <1>1 DEF ResetAt
<1>5. file \in {"xdg", home} /\ (local => file = home) /\ home # "xdg" /\ home \in ConfigFiles
      /\ file \in ConfigFiles /\ "xdg" \in ConfigFiles
  BY DEF Scope, ConfigFiles, OthersOf
<1>6. CutsBy(file, A, B)
  BY <1>2, <1>3, FileOfCut
<1>7. PICK before, rest : before = InFile(A, file) /\ rest = InFile(B, file)
  OBVIOUS
<1>8. /\ file = home => /\ Values(S) \o before = Values(A)
                        /\ rest = Values(B)
                        /\ before \o rest = Values(T)
      /\ file = "xdg" => /\ before = Values(A)
                         /\ rest \o Values(T) = Values(B)
                         /\ before \o rest = Values(S)
  <2>1. A \o B = S \o T
    BY DEF CutOf
  <2>2. PICK xdg : xdg = "xdg"
    OBVIOUS
  <2>3. xdg # home /\ file \in {xdg, home} /\ \A h \in Range(S) : h.file = xdg
    BY <1>5, <2>2 DEF OthersOf
  <2>4. \A h \in Range(T) : h.file = home
    BY DEF OthersOf
  <2>5. ValuesCut(file, xdg, home, S, T, A, B)
    BY <1>6, <2>1, <2>3, <2>4, CutInFile
  <2>6. QED
    BY <1>7, <2>2, <2>5 DEF ValuesCut
\* The values.
<1>9. Values(S) \in Seq(PlainValues) /\ Values(T) \in Seq(PlainValues)
  <2>1. Plain("xdg") \in Seq(PlainValues) /\ Plain(home) \in Seq(PlainValues)
    BY <1>5, PlainType
  <2>2. local => Values(S) = <<>>
    BY ValuesNothing DEF OthersOf
  <2>3. QED
    BY <2>1, <2>2 DEF OthersOf
<1>10. \A h \in Range(others) : h.value \in PlainValues
  <2>1. PICK V : V = {h.value : h \in Helper}
    OBVIOUS
  <2>2. \A h \in Helper : h.value \in V
    BY <2>1
  <2>3. \A s \in Seq(Helper) : Range(Values(s)) = {h.value : h \in Range(s)}
    BY <2>2, ValuesType
  <2>4. Range(others) = Range(S) \cup Range(T)
    BY <1>1, RangeConcat
  <2>5. Range(Values(S)) \subseteq PlainValues /\ Range(Values(T)) \subseteq PlainValues
    BY <1>9, RangeAt
  <2>6. QED
    BY <2>3, <2>4, <2>5
<1>13. PICK P, Q : P = Values(A) /\ Q = Values(B)
  OBVIOUS
<1>14. /\ P \in Seq(PlainValues) /\ Q \in Seq(PlainValues)
       /\ Range(A) \subseteq Range(others) /\ Range(B) \subseteq Range(others)
       /\ P = <<>> \/ P[Len(P)] = Reset
       /\ Reset \notin Range(Q)
  <2>1. PartsAtReset(A, B, PlainValues, others)
    BY <1>2, <1>3, <1>10, CutAtReset
  <2>2. QED
    BY <1>13, <2>1 DEF PartsAtReset
<1>17. before \in Seq(PlainValues) /\ rest \in Seq(PlainValues)
  BY <1>7, <1>10, <1>14, InFileType
<1>18. before \o rest = Plain(file)
  BY <1>5, <1>8 DEF OthersOf
<1>19. Whole(local, file, (before \o <<"ours">>) \o rest) = (P \o <<"ours">>) \o Q
  <2>1. PICK V, x : V = PlainValues \cup {"ours"} /\ x = "ours" /\ x \in V
    <3>1. "ours" \in PlainValues \cup {"ours"}
      OBVIOUS
    <3>2. QED
      BY <3>1, Zenon
  <2>2. /\ before \in Seq(V) /\ rest \in Seq(V) /\ P \in Seq(V) /\ Q \in Seq(V)
        /\ Values(S) \in Seq(V) /\ Values(T) \in Seq(V)
    BY <1>9, <1>14, <1>17, <2>1, SeqMonotonic
  <2>3. PICK w : /\ w = (before \o <<x>>) \o rest
                 /\ w \o Values(T) = (before \o <<x>>) \o (rest \o Values(T))
                 /\ Values(S) \o w = ((Values(S) \o before) \o <<x>>) \o rest
    <3>1. PICK w : w = (before \o <<x>>) \o rest
      OBVIOUS
    <3>2. OneIn(Values(S), before, x, rest) /\ OneIn(Values(T), before, x, rest)
      BY <2>1, <2>2, ConcatOne
    <3>3. QED
      BY <3>1, <3>2, Zenon DEF OneIn
  <2>4. CASE local
    <3>1. Values(S) \o before = before
      BY <2>2, <2>4, ValuesNothing, ConcatNothing DEF OthersOf
    <3>2. P = before /\ Q = rest
      BY <1>5, <1>8, <1>13, <2>4, <3>1
    <3>3. Whole(local, file, w) = w
      BY <2>4 DEF Whole
    <3>4. QED
      BY <2>1, <2>3, <3>2, <3>3
  <2>5. CASE ~local /\ file = "xdg"
    <3>1. Whole(local, file, w) = w \o Values(T)
      BY <1>5, <2>5 DEF Whole, OthersOf
    <3>3. QED
      BY <1>8, <1>13, <2>1, <2>3, <2>5, <3>1
  <2>6. CASE ~local /\ file # "xdg"
    <3>1. Whole(local, file, w) = Values(S) \o w
      BY <1>5, <2>6 DEF Whole, OthersOf
    <3>3. QED
      BY <1>5, <1>8, <1>13, <2>1, <2>3, <2>6, <3>1
  <2>7. QED
    BY <2>4, <2>5, <2>6
<1>20. QED
  BY <1>7, <1>14, <1>17, <1>18, <1>19 DEF InsertsOurs

\* A plan that removes the store values and ours from the other files, and then puts ours in.
Installs(plan, local) ==
    \E file, before, rest :
        /\ InsertsOurs(local, file, before, rest)
        /\ plan = Append(RemovePlan(InScope(local), OursElsewhere(local, file)),
                         Write(file, "all", (before \o <<"ours">>) \o rest, {}))

\* The writes of `_install_helper` are such.
LEMMA InstallPlanIs ==
    ASSUME config \in ConfigType, NEW local \in BOOLEAN
    PROVE  Installs(InstallPlan(InScope(local), local), local)
<1> DEFINE helpers == InScope(local)
           IsOurs(h) == h.key = "all" /\ h.value = "ours"
           ours   == {h \in Range(helpers) : IsOurs(h)}
           stores == StoresOf(Range(helpers))
           X      == {h \in Range(helpers) \ (stores \cup ours) : h.key = "all"}
           others == Those(helpers, X)
           after  == AfterReset(others)
           file   == IF others # <<>> THEN others[Min({after + 1, Len(others)})].file
                     ELSE IF ours # {} THEN Those(helpers, ours)[1].file
                     ELSE IF local THEN "repository" ELSE "home"
           A == SubSeq(others, 1, after)
           B == SubSeq(others, after + 1, Len(others))
<1>1. InstallPlan(helpers, local) =
        Append(RemovePlan(helpers, stores \cup {h \in ours : h.file # file}),
               Write(file, "all", (InFile(A, file) \o <<"ours">>) \o InFile(B, file), {}))
  BY Zenon DEF InstallPlan, InFile
<1>2. /\ helpers \in Seq(Helper)
      /\ Range(helpers) = {h \in Helper : h.file \in Scope(local) /\ Has(h)}
  BY InScopeType
<1>3. stores \cup {h \in ours : h.file # file} = OursElsewhere(local, file)
  BY DEF OursElsewhere, StoresOf
<1>4. \A h \in Range(helpers) : h \in X <=> h.key = "all" /\ h.value \in PlainValues
  <2>1. \A h \in Range(helpers) : h.value \in HelperValues
    BY <1>2 DEF Helper
  <2>2. QED
    BY <2>1 DEF StoresOf, PlainValues
<1>5. PICK Y : Y = {h \in Helper : h.key = "all" /\ h.value \in PlainValues}
  OBVIOUS
<1>6. others = Those(helpers, Y) /\ others \in Seq(Helper) /\ Range(others) = Range(helpers) \cap Y
  <2>1. \A i \in DOMAIN helpers : helpers[i] \in X <=> helpers[i] \in Y
    <3>1. \A i \in DOMAIN helpers : helpers[i] \in Range(helpers) /\ helpers[i] \in Helper
      BY <1>2, RangeAt DEF Range
    <3>2. QED
      BY <1>4, <1>5, <3>1
  <2>2. Those(helpers, X) = Those(helpers, Y)
    <3> HIDE DEF helpers, X
    <3>1. QED
      BY <2>1, ThoseSame
  <2>3. QED
    BY <1>2, <2>2, ThoseType
<1> DEFINE home == IF local THEN "repository" ELSE "home"
<1>7. PICK S \in Seq(Helper), T \in Seq(Helper) : others = S \o T /\ OthersOf(local, home, S, T)
  <2>1. \A h \in Helper : h \in Y <=> h.key = "all" /\ h.value \in PlainValues
    BY <1>5
  <2>2. PICK S \in Seq(Helper), T \in Seq(Helper) :
          /\ Those(InScope(local), Y) = S \o T
          /\ S = IF local THEN <<>> ELSE Those(OfKey("xdg", "all"), Y)
          /\ T = Those(OfKey(IF local THEN "repository" ELSE "home", "all"), Y)
          /\ \A h \in Range(S) : h.file = "xdg"
          /\ \A h \in Range(T) : h.file = IF local THEN "repository" ELSE "home"
          /\ ~local => Values(S) = Plain("xdg")
          /\ Values(T) = Plain(IF local THEN "repository" ELSE "home")
    <3> HIDE DEF helpers, ours, stores, X, others, after, file, A, B, home
    <3>1. QED
      BY <2>1, OthersAre
  <2>3. QED
    BY <1>6, <2>2 DEF OthersOf
<1>8. ResetAt(after, others) /\ after \in 0..Len(others)
  BY <1>6, AfterResetIs DEF ResetAt
<1>9. /\ A \in Seq(Helper) /\ B \in Seq(Helper) /\ CutOf(others, after, A, B)
  <2> HIDE DEF others, after
  <2>1. QED
    BY <1>6, <1>8, CutAt
<1>10. FileAt(file, others, after)
  BY DEF FileAt
<1>11. file \in Scope(local)
  <2>1. CASE others # <<>>
    <3>1. PICK n : n = Len(others) /\ n \in Nat /\ n # 0 /\ after \in 0..n
      <4> HIDE DEF others, after
      <4>1. QED
        BY <1>6, <1>8, <2>1
    <3>2. Min({after + 1, n}) \in 1..n
      <4> HIDE DEF after
      <4>1. after + 1 \in Nat /\ n \in Nat
        BY <3>1
      <4>2. Min({after + 1, n}) = IF after + 1 <= n THEN after + 1 ELSE n
        BY <4>1, MinOfTwo
      <4>3. QED
        BY <3>1, <4>2
    <3>3. others[Min({after + 1, n})] \in Range(others)
      <4> HIDE DEF others
      <4>1. QED
        BY <1>6, <3>1, <3>2, RangeAt
    <3>4. file = others[Min({after + 1, n})].file
      <4> HIDE DEF others, after, ours
      <4>1. QED
        BY <2>1, <3>1 DEF file
    <3>5. QED
      BY <1>2, <1>6, <3>3, <3>4
  <2>2. CASE others = <<>> /\ ours # {}
    <3>1. Those(helpers, ours) # <<>>
      <4> HIDE DEF helpers
      <4>1. ours \subseteq Range(helpers)
        OBVIOUS
      <4>2. Range(Those(helpers, ours)) = ours
        <5> HIDE DEF ours
        <5>1. Range(Those(helpers, ours)) = Range(helpers) \cap ours
          BY <1>2, ThoseType
        <5>2. QED
          BY <4>1, <5>1
      <4>3. QED
        BY <2>2, <4>2 DEF Range
    <3>2. Those(helpers, ours)[1] \in Range(helpers)
      <4> HIDE DEF helpers, ours
      <4>1. QED
        BY <1>2, <3>1, ThoseFirst
    <3>3. file = Those(helpers, ours)[1].file
      <4> HIDE DEF helpers, others, after, ours
      <4>1. QED
        BY <2>2 DEF file
    <3>4. QED
      BY <1>2, <3>2, <3>3
  <2>3. CASE others = <<>> /\ ours = {}
    BY <2>3 DEF Scope
  <2>4. QED
    BY <2>1, <2>2, <2>3
<1>12. InsertsOurs(local, file, InFile(A, file), InFile(B, file))
  <2> HIDE DEF others, after, file, A, B, home
  <2>1. /\ ResetAt(after, S \o T) /\ FileAt(file, S \o T, after) /\ CutOf(S \o T, after, A, B)
    BY <1>7, <1>8, <1>9, <1>10
  <2>2. QED
    BY <1>7, <1>9, <1>11, <2>1, OursIsPlaced
<1>13. QED
  <2> HIDE DEF others, after, file, A, B, home, stores, ours
  <2>1. QED
    BY <1>1, <1>3, <1>12, Zenon DEF Installs

-----------------------------------------------------------------------------
(* Types *)

\* What a task is.
TaskOK ==
    \/ task.pc \in {"idle", "failed", "cut", "killed"}
    \/ task \in [pc : {"ok"}, command : Commands, items : Seq(Lines), fresh : Seq(Lines),
                 removed : BOOLEAN]
    \/ task \in Task /\ (task.pc = "write" <=> task.plan # <<>>)

\* What a task has at each of its steps.
StepOK ==
    /\ task.pc = "write" => task.then \in {"end", "check"}
    /\ Between \/ task.pc = "read" => task.command.cmd = "migrate"
    /\ task.pc = "install" => InstallsHelper
    /\ task.pc \in Running /\ task.removed =>
         task.command.cmd = "migrate" /\ task.pc \in {"install", "write", "end"}
    /\ task.pc = "write" /\ task.then = "check" => ~task.removed

\* The store values that are out of the config, and that the user is not told of while the command
\* runs.
OutOK ==
    task.pc \in Running =>
        /\ said = {} /\ dropped = task.out \cup task.gone
        /\ task.pc # "write" => task.out = {}
        /\ task.pc \in {"read", "sort", "import", "ask"} => task.gone = {}
        /\ task.pc = "write" /\ task.then = "check" => task.gone = {}

\* A task that runs has its fields.
LEMMA RunsIn ==
    ASSUME TaskOK, task.pc \in Running
    PROVE  task \in Task /\ (task.pc = "write" <=> task.plan # <<>>)
<1>1. task.pc \notin {"idle", "failed", "cut", "killed", "ok"}
  BY DEF Running
<1>2. task \notin [pc : {"ok"}, command : Commands, items : Seq(Lines), fresh : Seq(Lines),
                   removed : BOOLEAN]
  BY <1>1
<1>3. QED
  BY <1>1, <1>2 DEF TaskOK

\* They are of these types.
LEMMA FieldsOf ==
    ASSUME NEW t \in Task
    PROVE  /\ t.pc \in Running /\ t.command \in Commands /\ t.plan \in Seq(ConfigWrite)
           /\ t.then \in {None, "end", "check"} /\ t.out \subseteq Helper /\ t.gone \subseteq Helper
           /\ t.paths \in Seq(Files) /\ t.found \in Seq(Files) /\ t.items \in Seq(Lines)
           /\ t.fresh \in Seq(Lines) /\ t.blocked \in BOOLEAN /\ t.removed \in BOOLEAN
BY DEF Task

\* The fields of a command.
LEMMA CommandFields ==
    ASSUME NEW c \in Commands
    PROVE  /\ c.cmd \in {"install", "uninstall", "migrate"} /\ c.local \in BOOLEAN
           /\ c.cmd = "migrate" => c.local = FALSE
BY GitAssumption DEF GitAssumption

\* A task at another step.
LEMMA GotoType ==
    ASSUME NEW t \in Task, NEW p \in Running
    PROVE  /\ [t EXCEPT !.pc = p] \in Task
           /\ [t EXCEPT !.pc = p].pc = p /\ [t EXCEPT !.pc = p].plan = t.plan
BY DEF Task

\* A task with writes to make.
LEMMA PlannedType ==
    ASSUME NEW t \in Task, t.plan = <<>>, NEW plan \in Seq(ConfigWrite), NEW then \in {"end", "check"},
           NEW u, u = IF plan = <<>> THEN [t EXCEPT !.pc = then]
                      ELSE [t EXCEPT !.pc = "write", !.plan = plan, !.then = then]
    PROVE  u \in Task /\ (u.pc = "write" <=> u.plan # <<>>) /\ u.pc \in {"write", then}
BY DEF Task, Running

\* The writes that remove helpers, and those that put ours in, have their types.
LEMMA RemovePlanType ==
    ASSUME config \in ConfigType, NEW local \in BOOLEAN,
           NEW removed, removed \subseteq Range(InScope(local))
    PROVE  RemovePlan(InScope(local), removed) \in Seq(ConfigWrite)
BY RemovePlanIs DEF Removes

\* An install has a write to make.
LEMMA InstallPlanType ==
    ASSUME config \in ConfigType, NEW local \in BOOLEAN
    PROVE  /\ InstallPlan(InScope(local), local) \in Seq(ConfigWrite)
           /\ InstallPlan(InScope(local), local) # <<>>
<1>1. PICK file, before, rest, plan, removed :
        /\ InsertsOurs(local, file, before, rest)
        /\ removed = OursElsewhere(local, file)
        /\ plan = RemovePlan(InScope(local), removed)
        /\ InstallPlan(InScope(local), local) =
             Append(plan, Write(file, "all", (before \o <<"ours">>) \o rest, {}))
  BY InstallPlanIs DEF Installs
<1>2. plan \in Seq(ConfigWrite)
  <2>1. removed \subseteq Range(InScope(local))
    BY <1>1 DEF OursElsewhere
  <2>2. QED
    BY <1>1, <2>1, RemovePlanType
<1>3. Write(file, "all", (before \o <<"ours">>) \o rest, {}) \in ConfigWrite
  <2>1. file \in ConfigFiles /\ "all" \in Keys
    BY <1>1 DEF InsertsOurs, Scope, ConfigFiles, Keys
  <2>2. before \in Seq(HelperValues) /\ rest \in Seq(HelperValues)
    <3>1. PlainValues \subseteq HelperValues
      BY DEF PlainValues
    <3>2. before \in Seq(PlainValues) /\ rest \in Seq(PlainValues)
      BY <1>1 DEF InsertsOurs
    <3>3. QED
      BY <3>1, <3>2, SeqMonotonic
  <2>3. <<"ours">> \in Seq(HelperValues)
    BY GitAssumption DEF GitAssumption
  <2>4. before \o <<"ours">> \in Seq(HelperValues)
    BY <2>2, <2>3, Concats
  <2>5. (before \o <<"ours">>) \o rest \in Seq(HelperValues)
    BY <2>2, <2>4, Concats
  <2>6. QED
    BY <2>1, <2>5 DEF Write, ConfigWrite
<1>4. QED
  <2>1. ASSUME NEW w \in ConfigWrite PROVE Append(plan, w) \in Seq(ConfigWrite) /\ Append(plan, w) # <<>>
    BY <1>2
  <2>2. QED
    BY <1>1, <1>3, <2>1

\* What the lists of a scope are made of.
LEMMA InScopeHas ==
    ASSUME config \in ConfigType, NEW local \in BOOLEAN
    PROVE  \A h \in Range(InScope(local)) : h \in Helper /\ h.file \in Scope(local) /\ Has(h)
BY InScopeType

\* A behaviour begins in the types.
LEMMA TypeInit == Init => TypeOK /\ StepOK /\ OutOK
<1> SUFFICES ASSUME Init PROVE TypeOK /\ StepOK /\ OutOK
  OBVIOUS
<1>1. config \in [ConfigFiles -> [Keys -> Seq(HelperValues)]] /\ disk \in [Files -> Seq(Lines) \cup {None}]
  BY GitAssumption DEF Init, GitAssumption
<1>2. task.pc = "idle" /\ task.pc \notin Running
  BY DEF Init, Idle, Running
<1>3. kept \subseteq Lines /\ OneOfEachName(vault) /\ calls \in 0..MaxCommands /\ writes \in 0..MaxWrites
  BY GitAssumption DEF Init, GitAssumption
<1>4. said = {} /\ dropped = {} /\ retired = {}
  BY DEF Init
<1>5. QED
  BY <1>1, <1>2, <1>3, <1>4 DEF TypeOK, StepOK, OutOK, Between

\* The task after a step: it ends, or it runs on with its fields.
LEMMA StopsType ==
    ASSUME NEW p \in {"failed", "cut", "killed"}, Stops(p)
    PROVE  TaskOK' /\ StepOK'
<1>1. task'.pc = p /\ p \notin Running /\ p \notin {"write", "sort", "import", "ask", "check", "remove", "read", "install"}
  BY DEF Stops, Running
<1>2. QED
  BY <1>1 DEF TaskOK, StepOK, Between

\* A running task keeps its command and its removal, and StepOK is about those and its step.
LEMMA RunsOn ==
    ASSUME task' \in Task, task'.pc = "write" <=> task'.plan # <<>>,
           task'.pc = "write" => task'.then \in {"end", "check"},
           \/ task'.command.cmd = "migrate"
           \/ /\ ~task'.removed
              /\ \/ task'.pc \in {"uninstall", "end"} \/ (task'.pc = "write" /\ task'.then = "end")
                 \/ (task'.pc = "install" /\ task'.command.cmd = "install"),
           task'.removed => task'.pc \in {"install", "write", "end"},
           task'.pc = "install" => InstallsHelper',
           task'.pc = "write" /\ task'.then = "check" => ~task'.removed
    PROVE  TaskOK' /\ StepOK'
<1>1. TaskOK'
  BY DEF TaskOK
<1>2. StepOK'
  BY DEF StepOK, Between
<1>3. QED
  BY <1>1, <1>2

\* `Start`.
LEMMA StartType ==
    ASSUME NEW c \in Commands, Start(c)
    PROVE  TaskOK' /\ StepOK'
<1>1. /\ task'.pc = (CASE c.cmd = "install" -> "install" [] c.cmd = "uninstall" -> "uninstall" [] OTHER -> "read")
      /\ task'.command = c /\ task'.plan = <<>> /\ task'.removed = FALSE
  BY DEF Start
<1>2. c.cmd \in {"install", "uninstall", "migrate"}
  BY CommandFields
<1>3. task' \in Task
  <2>1. CASE c.cmd = "install"
    BY <2>1 DEF Start, Task, Running
  <2>2. CASE c.cmd = "uninstall"
    BY <2>2 DEF Start, Task, Running
  <2>3. CASE c.cmd = "migrate"
    BY <2>3 DEF Start, Task, Running
  <2>4. QED
    BY <1>2, <2>1, <2>2, <2>3
<1>4. task'.pc \in {"install", "uninstall", "read"} /\ (task'.pc = "install" => c.cmd = "install")
      /\ (task'.pc = "read" => c.cmd = "migrate")
  BY <1>1, <1>2
<1>5. QED
  BY <1>1, <1>3, <1>4, RunsOn DEF InstallsHelper

\* The steps that plan writes.
LEMMA PlannedStep ==
    ASSUME TypeOK, StepOK, NEW plan \in Seq(ConfigWrite), NEW then \in {"end", "check"},
           task.pc \in {"install", "uninstall", "ask"}, Planned(plan, then),
           task.pc = "install" => plan # <<>>, task.pc = "ask" <=> then = "check"
    PROVE  TaskOK' /\ StepOK'
<1>1. TaskOK /\ task \in Task /\ task.plan = <<>>
  <2>1. TaskOK /\ task.pc \in Running /\ task.pc # "write"
    BY DEF TypeOK, TaskOK, Running
  <2>2. QED
    BY <2>1, RunsIn
<1>2. task' \in Task /\ (task'.pc = "write" <=> task'.plan # <<>>) /\ task'.pc \in {"write", then}
  BY <1>1, PlannedType DEF Planned
<1>3. task'.command = task.command /\ task'.removed = task.removed
      /\ (task'.pc = "write" => task'.then = then) /\ (task.pc = "install" => task'.pc = "write")
  BY <1>1 DEF Planned, Task
<1>4. /\ task.pc = "ask" => task.command.cmd = "migrate" /\ ~task.removed
      /\ task.pc = "uninstall" => ~task.removed
      /\ task.removed => task.command.cmd = "migrate" /\ task.pc = "install"
  <2>1. task.pc \in Running
    BY DEF Running
  <2>2. QED
    BY <2>1, <1>1, FieldsOf DEF StepOK, Between
<1>5. QED
  BY <1>2, <1>3, <1>4, RunsOn

\* `PlanInstall`.
LEMMA PlanInstallType ==
    ASSUME TypeOK, StepOK, PlanInstall
    PROVE  TaskOK' /\ StepOK'
<1>1. task.pc = "install" /\ task \in Task
  <2>1. TaskOK /\ task.pc = "install" /\ task.pc \in Running
    BY DEF TypeOK, TaskOK, PlanInstall, Running
  <2>2. QED
    BY <2>1, RunsIn
<1>2. task.command.local \in BOOLEAN /\ config \in ConfigType
  BY <1>1, FieldsOf, CommandFields DEF TypeOK, ConfigType
<1>3. PICK plan : plan = InstallPlan(InScope(task.command.local), task.command.local)
  OBVIOUS
<1>4. plan \in Seq(ConfigWrite) /\ plan # <<>>
  BY <1>2, <1>3, InstallPlanType
<1>5. Planned(plan, "end")
  BY <1>3 DEF PlanInstall
<1>6. QED
  BY <1>1, <1>4, <1>5, PlannedStep

\* `Uninstall`.
LEMMA UninstallType ==
    ASSUME TypeOK, StepOK, Uninstall
    PROVE  TaskOK' /\ StepOK'
<1>1. task.pc = "uninstall" /\ task \in Task
  <2>1. TaskOK /\ task.pc = "uninstall" /\ task.pc \in Running
    BY DEF TypeOK, TaskOK, Uninstall, Running
  <2>2. QED
    BY <2>1, RunsIn
<1>2. task.command.local \in BOOLEAN /\ config \in ConfigType
  BY <1>1, FieldsOf, CommandFields DEF TypeOK, ConfigType
<1>3. PICK plan, ours : /\ ours = {h \in Range(InScope(task.command.local)) : h.key = "all" /\ h.value = "ours"}
                        /\ plan = RemovePlan(InScope(task.command.local), ours)
  OBVIOUS
<1>4. plan \in Seq(ConfigWrite)
  <2>1. ours \subseteq Range(InScope(task.command.local))
    BY <1>3
  <2>2. QED
    BY <1>2, <1>3, <2>1, RemovePlanType
<1>5. Planned(plan, "end")
  BY <1>3 DEF Uninstall
<1>6. QED
  BY <1>1, <1>4, <1>5, PlannedStep

\* `DropStoreHelpers`.
LEMMA DropType ==
    ASSUME TypeOK, StepOK, DropStoreHelpers
    PROVE  TaskOK' /\ StepOK'
<1>1. task.pc = "ask" /\ task \in Task
  <2>1. TaskOK /\ task.pc = "ask" /\ task.pc \in Running
    BY DEF TypeOK, TaskOK, DropStoreHelpers, Running
  <2>2. QED
    BY <2>1, RunsIn
<1>2. config \in ConfigType
  BY DEF TypeOK, ConfigType
<1>3. PICK plan, readers :
        /\ readers = {h \in Range(InScope(FALSE)) : StoreFiles(h.value) \cap Range(task.paths) # {}}
        /\ plan = RemovePlan(InScope(FALSE), readers)
  OBVIOUS
<1>4. plan \in Seq(ConfigWrite)
  <2>1. readers \subseteq Range(InScope(FALSE))
    BY <1>3
  <2>2. QED
    BY <1>2, <1>3, <2>1, RemovePlanType
<1>5. Planned(plan, "check")
  BY <1>3 DEF DropStoreHelpers
<1>6. QED
  BY <1>1, <1>4, <1>5, PlannedStep

\* The helper matches entries of those it looks among.
LEMMA SelectedFrom ==
    ASSUME NEW entries, NEW request
    PROVE  Selected(entries, request) \subseteq entries
BY DEF Selected, Longest, OfUser, Matching

\* `_same_account` finds entries of the line's username.
LEMMA SameAccountOwns ==
    ASSUME NEW known, NEW line
    PROVE  SameAccount(known, line) \subseteq {e \in known : e.user = line.user}
BY SelectedFrom DEF SameAccount

\* What lines are sorted into.
Sorts(entries) ==
    [known : SUBSET (entries \cup Lines), fresh : Seq(Lines),
     differ : SUBSET {e.name : e \in entries \cup Lines}]

\* A line more stays in it.
LEMMA SortLineType ==
    ASSUME NEW entries, NEW t \in Sorts(entries), NEW line \in Lines
    PROVE  SortLine(t, line) \in Sorts(entries)
<1>1. PICK same : same = SameAccount(t.known, line) /\ same \subseteq t.known
  BY SameAccountOwns
<1>2. t.known \subseteq entries \cup Lines /\ t.fresh \in Seq(Lines)
      /\ t.differ \subseteq {e.name : e \in entries \cup Lines}
  BY DEF Sorts
<1>3. [t EXCEPT !.differ = @ \cup {e.name : e \in same}] \in Sorts(entries)
  <2>1. t.differ \cup {e.name : e \in same} \subseteq {e.name : e \in entries \cup Lines}
    BY <1>1, <1>2
  <2>2. QED
    BY <2>1 DEF Sorts
<1>4. [t EXCEPT !.fresh = Append(@, line), !.known = @ \cup {line}] \in Sorts(entries)
  <2>1. Append(t.fresh, line) \in Seq(Lines) /\ t.known \cup {line} \subseteq entries \cup Lines
    BY <1>2
  <2>2. QED
    BY <2>1 DEF Sorts
<1>5. QED
  BY <1>1, <1>3, <1>4 DEF SortLine

\* What the lines are sorted into, a line at a time.
SortsUpTo(f, entries, lines) ==
    /\ f \in [0..Len(lines) -> Sorts(entries)]
    /\ f[0] = [known |-> entries, fresh |-> <<>>, differ |-> {}]
    /\ SortLines(entries, lines) = f[Len(lines)]
    /\ \A i \in 1..Len(lines) : f[i] = SortLine(f[i - 1], lines[i])

\* `SortLines` is a recursion over the lines.
LEMMA SortedUpTo ==
    ASSUME NEW entries, NEW lines \in Seq(Lines)
    PROVE  \E f : SortsUpTo(f, entries, lines)
<1>1. PICK n, T, G, b : /\ n = Len(lines) /\ T = Sorts(entries)
                        /\ G = [i \in 1..n |-> [t \in T |-> SortLine(t, lines[i])]]
                        /\ b = [known |-> entries, fresh |-> <<>>, differ |-> {}]
  OBVIOUS
<1>2. n \in Nat /\ b \in T /\ \A i \in 1..n : lines[i] \in Lines
  BY <1>1 DEF Sorts
<1>3. G \in [1..n -> [T -> T]]
  <2>1. ASSUME NEW i \in 1..n, NEW t \in T PROVE SortLine(t, lines[i]) \in T
    BY <1>1, <1>2, SortLineType
  <2>2. QED
    BY <1>1, <2>1
<1>4. PICK f \in [0..n -> T] : f[0] = b /\ \A i \in 1..n : f[i] = G[i][f[i - 1]]
  <2>1. Recurses(n, T, b, G)
    BY <1>2, <1>3, Recursion, Zenon DEF StepsOn
  <2>2. QED
    BY <2>1 DEF Recurses, Steps
<1>5. \A i \in 1..n : f[i] = SortLine(f[i - 1], lines[i])
  <2>1. ASSUME NEW i \in 1..n PROVE f[i - 1] \in T
    BY <1>2, <1>4
  <2>2. QED
    BY <1>1, <1>4, <2>1
<1> DEFINE Is(g) == g = [i \in 0..Len(lines) |->
                          IF i = 0 THEN [known |-> entries, fresh |-> <<>>, differ |-> {}]
                          ELSE SortLine(g[i - 1], lines[i])]
<1>6. Is(f)
  <2>1. \A i \in 0..n : i # 0 => i \in 1..n
    BY <1>2
  <2>2. QED
    BY <1>1, <1>4, <1>5, <2>1, Zenon
<1>7. PICK g : Is(g) /\ SortLines(entries, lines) = g[Len(lines)]
  <2>1. Is(CHOOSE g : Is(g))
    BY <1>6, Zenon
  <2>2. QED
    BY <2>1 DEF SortLines
<1>8. g[0] = b /\ \A i \in 1..n : g[i] = SortLine(g[i - 1], lines[i])
  <2>1. \A i \in 0..n : g[i] = IF i = 0 THEN b ELSE SortLine(g[i - 1], lines[i])
    BY <1>1, <1>7, Zenon
  <2>2. 0 \in 0..n /\ \A i \in 1..n : i \in 0..n /\ i # 0
    BY <1>2
  <2>3. QED
    BY <2>1, <2>2, Zenon
<1>9. \A i \in 0..n : g[i] \in T
  <2> DEFINE U == {i \in Nat : i <= n => g[i] \in T}
  <2>1. 0 \in U
    BY <1>2, <1>8
  <2>2. ASSUME NEW i \in Nat, i \in U PROVE i + 1 \in U
    <3>1. SUFFICES ASSUME i + 1 <= n PROVE g[i + 1] \in T
      OBVIOUS
    <3>2. i + 1 \in 1..n /\ i + 1 - 1 = i /\ g[i] \in T /\ lines[i + 1] \in Lines
      BY <1>2, <2>2, <3>1
    <3>3. g[i + 1] = SortLine(g[i], lines[i + 1])
      BY <1>8, <3>2
    <3>4. QED
      BY <1>1, <3>2, <3>3, SortLineType
  <2>3. Nat \subseteq U
    <3> HIDE DEF U
    <3>1. QED
      BY <2>1, <2>2, Induction
  <2>4. QED
    BY <2>3
<1>10. g \in [0..n -> T]
  <2>1. g = [i \in 0..n |-> g[i]]
    BY <1>1, <1>7
  <2>2. QED
    BY <1>9, <2>1
<1>11. QED
  BY <1>1, <1>7, <1>8, <1>10 DEF SortsUpTo

\* No line is sorted into nothing.
LEMMA SortNothing ==
    ASSUME NEW entries
    PROVE  SortLines(entries, <<>>) = [known |-> entries, fresh |-> <<>>, differ |-> {}]
<1>1. <<>> \in Seq(Lines) /\ Len(<<>>) = 0
  OBVIOUS
<1>2. PICK f : SortsUpTo(f, entries, <<>>)
  BY <1>1, SortedUpTo
<1>3. QED
  BY <1>1, <1>2 DEF SortsUpTo

\* A line more is sorted after the others.
LEMMA SortAppend ==
    ASSUME NEW entries, NEW lines \in Seq(Lines), NEW line \in Lines
    PROVE  /\ SortLines(entries, Append(lines, line)) = SortLine(SortLines(entries, lines), line)
           /\ SortLines(entries, lines) \in Sorts(entries)
<1>1. PICK more, n : more = Append(lines, line) /\ n = Len(lines)
  OBVIOUS
<1>2. /\ more \in Seq(Lines) /\ n \in Nat /\ Len(more) = n + 1 /\ more[n + 1] = line
      /\ \A i \in 1..n : more[i] = lines[i]
  BY <1>1
<1>3. PICK f : SortsUpTo(f, entries, lines)
  BY SortedUpTo
<1>4. PICK g : SortsUpTo(g, entries, more)
  BY <1>2, SortedUpTo
<1>5. /\ f[0] = g[0] /\ \A i \in 1..n : f[i] = SortLine(f[i - 1], lines[i])
      /\ \A i \in 1..(n + 1) : g[i] = SortLine(g[i - 1], more[i])
      /\ SortLines(entries, lines) = f[n] /\ SortLines(entries, more) = g[n + 1]
  BY <1>1, <1>2, <1>3, <1>4 DEF SortsUpTo
<1>6. \A i \in 0..n : f[i] = g[i]
  <2> DEFINE U == {i \in Nat : i <= n => f[i] = g[i]}
  <2>1. 0 \in U
    BY <1>5
  <2>2. ASSUME NEW i \in Nat, i \in U PROVE i + 1 \in U
    <3>1. SUFFICES ASSUME i + 1 <= n PROVE f[i + 1] = g[i + 1]
      OBVIOUS
    <3>2. i + 1 \in 1..n /\ i + 1 \in 1..(n + 1) /\ i + 1 - 1 = i /\ f[i] = g[i]
      BY <1>2, <2>2, <3>1
    <3>3. QED
      BY <1>2, <1>5, <3>2
  <2>3. Nat \subseteq U
    <3> HIDE DEF U
    <3>1. QED
      BY <2>1, <2>2, Induction
  <2>4. QED
    BY <1>2, <2>3
<1>7. g[n + 1] = SortLine(f[n], line)
  <2>1. n + 1 \in 1..(n + 1) /\ n + 1 - 1 = n /\ n \in 0..n
    BY <1>2
  <2>2. QED
    BY <1>2, <1>5, <1>6, <2>1
<1>8. f[n] \in Sorts(entries)
  BY <1>1, <1>2, <1>3 DEF SortsUpTo
<1>9. QED
  BY <1>1, <1>5, <1>7, <1>8

\* What sorting leaves: the vault's entries and the fresh lines are known, and unless a line
\* differs, every line is known with its value and user.
SortsInto(entries, lines, sorted) ==
    /\ sorted \in Sorts(entries)
    /\ sorted.known = entries \cup Range(sorted.fresh)
    /\ Range(sorted.fresh) \subseteq Range(lines)
    /\ sorted.differ = {} =>
         \A l \in Range(lines) : \E e \in sorted.known : e.value = l.value /\ e.user = l.user

\* Sorting leaves this, for every list of lines.
LEMMA SortLinesIs ==
    ASSUME NEW entries, NEW lines \in Seq(Lines)
    PROVE  SortsInto(entries, lines, SortLines(entries, lines))
<1> DEFINE T == {s \in Seq(Lines) : SortsInto(entries, s, SortLines(entries, s))}
<1>1. <<>> \in T
  <2>1. PICK e : e = <<>>
    OBVIOUS
  <2>2. e \in Seq(Lines) /\ Range(e) = {}
    BY <2>1 DEF Range
  <2>3. SortLines(entries, e) = [known |-> entries, fresh |-> e, differ |-> {}]
    BY <2>1, SortNothing
  <2>4. SortLines(entries, e) \in Sorts(entries)
    BY <2>2, <2>3 DEF Sorts
  <2>5. SortsInto(entries, e, SortLines(entries, e))
    BY <2>2, <2>3, <2>4 DEF SortsInto
  <2>6. QED
    BY <2>1, <2>2, <2>5
<1>2. ASSUME NEW s \in Seq(Lines), s \in T, NEW x \in Lines PROVE Append(s, x) \in T
  <2>1. PICK more, t, u : more = Append(s, x) /\ t = SortLines(entries, s) /\ u = SortLines(entries, more)
    OBVIOUS
  <2>2. u = SortLine(t, x) /\ t \in Sorts(entries) /\ u \in Sorts(entries)
    BY <2>1, SortAppend, SortLineType
  <2>3. more \in Seq(Lines) /\ Range(more) = Range(s) \cup {x}
    BY <2>1, RangeAppend
  <2>4. SortsInto(entries, s, t)
    BY <1>2, <2>1
  <2>5. PICK same : same = SameAccount(t.known, x)
    OBVIOUS
  <2>6. \A e \in same : e \in t.known /\ e.user = x.user
    BY <2>5, SameAccountOwns
  <2>7. CASE x.value \in {e.value : e \in same}
    <3>1. u = t
      BY <2>2, <2>5, <2>7 DEF SortLine
    <3>2. \E e \in t.known : e.value = x.value /\ e.user = x.user
      BY <2>6, <2>7
    <3>3. SortsInto(entries, more, u)
      BY <2>3, <2>4, <3>1, <3>2 DEF SortsInto
    <3>4. QED
      BY <2>1, <2>3, <3>3
  <2>8. CASE x.value \notin {e.value : e \in same} /\ same # {}
    <3>1. u = [t EXCEPT !.differ = @ \cup {e.name : e \in same}]
      BY <2>2, <2>5, <2>8 DEF SortLine
    <3>2. u.known = t.known /\ u.fresh = t.fresh /\ u.differ # {}
      <4>1. PICK names : names = {e.name : e \in same}
        OBVIOUS
      <4>2. names # {}
        BY <2>8, <4>1
      <4>3. u.known = t.known /\ u.fresh = t.fresh /\ u.differ = t.differ \cup names
        BY <2>2, <3>1, <4>1 DEF Sorts
      <4>4. QED
        BY <4>2, <4>3
    <3>3. SortsInto(entries, more, u)
      BY <2>2, <2>3, <2>4, <3>2 DEF SortsInto
    <3>4. QED
      BY <2>1, <2>3, <3>3
  <2>9. CASE same = {}
    <3>1. u = [t EXCEPT !.fresh = Append(@, x), !.known = @ \cup {x}]
      BY <2>2, <2>5, <2>9 DEF SortLine
    <3>2. u.known = t.known \cup {x} /\ u.fresh = Append(t.fresh, x) /\ u.differ = t.differ
          /\ t.fresh \in Seq(Lines)
      BY <2>2, <3>1 DEF Sorts
    <3>3. Range(u.fresh) = Range(t.fresh) \cup {x}
      BY <3>2, RangeAppend
    <3>4. SortsInto(entries, more, u)
      <4>1. u.known = entries \cup Range(u.fresh)
        BY <2>4, <3>2, <3>3 DEF SortsInto
      <4>2. Range(u.fresh) \subseteq Range(more)
        BY <2>3, <2>4, <3>3 DEF SortsInto
      <4>3. ASSUME u.differ = {}, NEW l \in Range(more)
            PROVE \E e \in u.known : e.value = l.value /\ e.user = l.user
        <5>1. CASE l = x
          BY <3>2, <5>1
        <5>2. CASE l \in Range(s)
          BY <2>4, <3>2, <4>3, <5>2 DEF SortsInto
        <5>3. QED
          BY <2>3, <5>1, <5>2
      <4>4. QED
        BY <2>2, <4>1, <4>2, <4>3 DEF SortsInto
    <3>5. QED
      BY <2>1, <2>3, <3>4
  <2>10. QED
    BY <2>7, <2>8, <2>9
<1>3. Seq(Lines) \subseteq T
  <2> HIDE DEF T
  <2>1. QED
    BY <1>1, <1>2, SeqInduction
<1>4. QED
  BY <1>3

\* A task at a step: it has its fields.
LEMMA At ==
    ASSUME TypeOK, NEW p \in Running, task.pc = p
    PROVE  /\ task \in Task /\ (p = "write" <=> task.plan # <<>>)
           /\ config \in ConfigType /\ task.command.local \in BOOLEAN
<1>1. TaskOK /\ task.pc \in Running
  BY DEF TypeOK, TaskOK
<1>2. task \in Task /\ (p = "write" <=> task.plan # <<>>)
  BY <1>1, RunsIn
<1>3. QED
  BY <1>2, FieldsOf, CommandFields DEF TypeOK, ConfigType

\* A step that only moves on keeps the task's fields.
LEMMA GotoStep ==
    ASSUME TypeOK, StepOK, task.pc \in {"ask", "check"}, NEW p \in {"install", "end", "remove"},
           p = "install" => task.command.install, Goto(p)
    PROVE  TaskOK' /\ StepOK'
<1>1. task.pc \in Running /\ task.pc # "write" /\ p \in Running /\ p # "write"
  BY DEF Running
<1>2. task \in Task /\ task.plan = <<>>
  BY <1>1, At
<1>3. task' \in Task /\ task'.pc = p /\ task'.plan = <<>> /\ task'.command = task.command
      /\ task'.removed = task.removed
  BY <1>1, <1>2, GotoType DEF Goto, Task
<1>4. task.command.cmd = "migrate" /\ ~task.removed
  BY <1>1, <1>2, FieldsOf DEF StepOK, Between
<1>5. QED
  BY <1>1, <1>3, <1>4, RunsOn DEF InstallsHelper

\* `KeepSource`.
LEMMA KeepSourceType ==
    ASSUME TypeOK, StepOK, KeepSource
    PROVE  TaskOK' /\ StepOK'
<1>1. /\ task.pc = "ask" /\ AfterRemoval \in {"install", "end"} /\ Goto(AfterRemoval)
      /\ AfterRemoval = "install" => task.command.install
  BY DEF KeepSource, AfterRemoval
<1>2. QED
  BY <1>1, GotoStep

\* `CheckReaders`.
LEMMA CheckReadersType ==
    ASSUME TypeOK, StepOK, CheckReaders
    PROVE  TaskOK' /\ StepOK'
<1>1. PICK p : p = IF StillRead(Range(task.found)) THEN AfterRemoval ELSE "remove"
  OBVIOUS
<1>2. /\ task.pc = "check" /\ p \in {"install", "end", "remove"} /\ Goto(p)
      /\ p = "install" => task.command.install
  BY <1>1 DEF CheckReaders, AfterRemoval
<1>3. QED
  BY <1>2, GotoStep

\* `RemoveFile`.
LEMMA RemoveFileType ==
    ASSUME TypeOK, StepOK, RemoveFile
    PROVE  TaskOK' /\ StepOK'
<1>1. task.pc = "remove" /\ task.pc \in Running /\ task.pc # "write"
  BY DEF RemoveFile, Running
<1>2. task \in Task /\ task.plan = <<>>
  BY <1>1, At
<1>3. task.command.cmd = "migrate"
  BY <1>1 DEF StepOK, Between
<1>4. CASE UNCHANGED task
  BY <1>1, <1>2, <1>4 DEF TypeOK, TaskOK, StepOK, InstallsHelper, Between
<1>5. CASE task' = [task EXCEPT !.pc = AfterRemoval, !.removed = TRUE]
  <2>1. AfterRemoval \in {"install", "end"} /\ (AfterRemoval = "install" => task.command.install)
    BY DEF AfterRemoval
  <2>2. AfterRemoval \in Running
    BY <2>1 DEF Running
  <2>3. task' \in Task /\ task'.pc = AfterRemoval /\ task'.plan = <<>> /\ task'.command = task.command
    BY <1>2, <1>5, <2>2 DEF Task
  <2>4. QED
    BY <1>3, <2>1, <2>3, RunsOn DEF InstallsHelper
<1>6. QED
  BY <1>4, <1>5 DEF RemoveFile

\* `WriteConfig`.
LEMMA WriteConfigType ==
    ASSUME TypeOK, StepOK, WriteConfig
    PROVE  /\ TaskOK' /\ StepOK'
           /\ config' \in ConfigType
<1>1. task.pc = "write" /\ task.pc \in Running
  BY DEF WriteConfig, Running
<1>2. task \in Task /\ task.plan # <<>> /\ config \in ConfigType
  BY <1>1, At
<1>3. PICK w : w = Head(task.plan)
  OBVIOUS
<1>4. w \in ConfigWrite /\ Tail(task.plan) \in Seq(ConfigWrite) /\ Len(Tail(task.plan)) = Len(task.plan) - 1
      /\ Len(task.plan) \in Nat
  <2>1. task.plan \in Seq(ConfigWrite)
    BY <1>2, FieldsOf
  <2>2. QED
    BY <1>2, <1>3, <2>1, HeadTailProperties
<1>5. w.file \in ConfigFiles /\ w.key \in Keys /\ w.values \in Seq(HelperValues) /\ w.drops \subseteq Helper
  BY <1>4 DEF ConfigWrite
<1>6. config' \in ConfigType
  BY <1>2, <1>3, <1>5 DEF WriteConfig, ConfigType
<1>7. PICK out : out = task.out \cup StoresOf(w.drops) /\ out \subseteq Helper
  BY <1>2, <1>5, FieldsOf DEF StoresOf
<1>8. /\ task.then \in {"end", "check"}
      /\ task.then = "check" => ~task.removed /\ task.command.cmd = "migrate"
      /\ task.removed => task.command.cmd = "migrate"
  BY <1>1 DEF StepOK, Between
<1>9. CASE Len(task.plan) = 1
  <2>1. task' = [task EXCEPT !.pc = task.then, !.plan = <<>>, !.then = None, !.gone = @ \cup out, !.out = {}]
    BY <1>3, <1>7, <1>9 DEF WriteConfig
  <2>2. task' \in Task /\ task'.pc = task.then /\ task'.plan = <<>> /\ task'.command = task.command
        /\ task'.removed = task.removed
    <3>1. PICK gone, then : gone = task.gone \cup out /\ then = task.then /\ gone \subseteq Helper
      BY <1>2, <1>7, FieldsOf
    <3>2. then \in Running
      BY <1>8, <3>1 DEF Running
    <3>3. task' = [task EXCEPT !.pc = then, !.plan = <<>>, !.then = None, !.gone = gone, !.out = {}]
      BY <2>1, <3>1
    <3>4. task' \in Task
      <4>1. ASSUME NEW t \in Task, NEW plan \in Seq(ConfigWrite), NEW n \in {None, "end", "check"},
                   NEW p \in Running, NEW g \in SUBSET Helper, NEW o \in SUBSET Helper
            PROVE  [t EXCEPT !.pc = p, !.plan = plan, !.then = n, !.gone = g, !.out = o] \in Task
        BY DEF Task
      <4>2. <<>> \in Seq(ConfigWrite) /\ None \in {None, "end", "check"} /\ {} \in SUBSET Helper
        OBVIOUS
      <4>3. gone \in SUBSET Helper
        BY <3>1
      <4>4. QED
        BY <1>2, <3>2, <3>3, <4>1, <4>2, <4>3
    <3>5. task'.pc = then /\ task'.plan = <<>> /\ task'.command = task.command
          /\ task'.removed = task.removed
      BY <1>2, <3>3 DEF Task
    <3>6. QED
      BY <3>1, <3>4, <3>5
  <2>3. TaskOK' /\ StepOK'
    <3>1. task'.pc \in {"end", "check"} /\ task'.pc # "write" /\ task'.pc # "install"
      BY <1>8, <2>2
    <3>2. task'.removed => task'.command.cmd = "migrate" /\ task'.pc = "end"
      BY <1>2, <1>8, <2>2, <3>1
    <3>3. task'.command.cmd = "migrate" \/ (~task'.removed /\ task'.pc = "end")
      BY <1>8, <2>2, <3>1, <3>2
    <3>4. QED
      BY <2>2, <3>1, <3>2, <3>3, RunsOn
  <2>4. QED
    BY <1>6, <2>3
<1>10. CASE Len(task.plan) # 1
  <2>1. task' = [task EXCEPT !.plan = Tail(@), !.out = out]
    BY <1>3, <1>7, <1>10 DEF WriteConfig
  <2>2. task' \in Task /\ task'.pc = "write" /\ task'.plan = Tail(task.plan)
        /\ task'.command = task.command /\ task'.removed = task.removed /\ task'.then = task.then
    BY <1>1, <1>2, <1>4, <1>7, <2>1 DEF Task
  <2>3. task'.plan # <<>>
    <3>1. Len(task.plan) # 0
      BY <1>2, FieldsOf
    <3>2. Len(Tail(task.plan)) # 0
      BY <1>4, <1>10, <3>1
    <3>3. Len(task'.plan) # 0
      BY <2>2, <3>2
    <3>4. Len(<<>>) = 0
      OBVIOUS
    <3>5. QED
      BY <3>3, <3>4
  <2>4. TaskOK' /\ StepOK'
    <3>1. task'.then \in {"end", "check"} /\ (task'.then = "check" => ~task'.removed /\ task'.command.cmd = "migrate")
          /\ (task'.removed => task'.command.cmd = "migrate")
      BY <1>8, <2>2
    <3>2. task'.command.cmd = "migrate" \/ (~task'.removed /\ task'.then = "end")
      BY <3>1
    <3>3. QED
      BY <2>2, <2>3, <3>1, <3>2, RunsOn
  <2>5. QED
    BY <1>6, <2>4
<1>11. QED
  BY <1>9, <1>10

\* What a migrate reads: the lines of the files that are there.
FoundFrom(found, items) ==
    /\ found = Those(StorePaths, {f \in DOMAIN disk : disk[f] # None})
    /\ items = FlattenSeq([i \in DOMAIN found |-> disk[found[i]]])

\* The lines that are read are those of the files that are found.
LEMMA FoundIs ==
    ASSUME TypeOK, NEW found, NEW items, FoundFrom(found, items)
    PROVE  /\ StorePaths \in Seq(Files) /\ found \in Seq(Files) /\ items \in Seq(Lines)
           /\ Range(found) = {f \in Range(StorePaths) : disk[f] # None}
           /\ \A f \in Range(found) : Range(disk[f]) \subseteq Range(items)
           /\ \A l \in Range(items) : \E f \in Range(found) : l \in Range(disk[f])
<1>1. config \in ConfigType /\ disk \in [Files -> Seq(Lines) \cup {None}]
  BY DEF TypeOK, ConfigType
<1>2. StorePaths \in Seq(Files)
  BY <1>1, StorePathsAre
<1>3. PICK X : X = {f \in DOMAIN disk : disk[f] # None}
  OBVIOUS
<1>4. found \in Seq(Files) /\ Range(found) = Range(StorePaths) \cap X
  BY <1>2, <1>3, ThoseType DEF FoundFrom
<1>5. Range(StorePaths) \subseteq Files
  BY <1>2, RangeAt
<1>6. Range(found) = {f \in Range(StorePaths) : disk[f] # None}
  BY <1>1, <1>3, <1>4, <1>5
<1>7. PICK n, D : n = Len(found) /\ n \in Nat /\ D = DOMAIN found /\ D = 1..n
  <2>1. Len(found) \in Nat /\ DOMAIN found = 1..Len(found)
    BY <1>4
  <2>2. QED
    BY <2>1
<1>8. \A i \in D : found[i] \in Range(found) /\ found[i] \in Files /\ disk[found[i]] \in Seq(Lines)
  <2>1. ASSUME NEW i \in D PROVE found[i] \in Range(found) /\ found[i] \in Files
    BY <1>4, <1>7, RangeAt
  <2>2. QED
    BY <1>1, <1>6, <2>1
<1>9. PICK seqs : seqs = [i \in D |-> disk[found[i]]]
  OBVIOUS
<1>10. \A i \in D : seqs[i] = disk[found[i]]
  BY <1>9
<1>11. seqs \in Seq(Seq(Lines)) /\ DOMAIN seqs = D
  BY <1>7, <1>8, <1>9
<1>12. items \in Seq(Lines) /\ Range(items) = UNION {Range(seqs[i]) : i \in D}
  <2>1. items = FlattenSeq(seqs)
    BY <1>7, <1>9 DEF FoundFrom
  <2>2. QED
    BY <1>11, <2>1, FlattenType
<1>13. PICK R : R = [i \in D |-> Range(seqs[i])]
  OBVIOUS
<1>20. \A i \in D : R[i] = Range(disk[found[i]])
  BY <1>10, <1>13
<1>21. Range(items) = UNION {R[i] : i \in D}
  <2>1. {R[i] : i \in D} = {Range(seqs[i]) : i \in D}
    BY <1>13
  <2>2. QED
    BY <1>12, <2>1
<1>14. \A f \in Range(found) : \E i \in D : f = found[i]
  BY <1>7 DEF Range
<1>15. \A f \in Range(found) : Range(disk[f]) \subseteq Range(items)
  <2>1. \A i \in D : R[i] \subseteq Range(items)
    BY <1>21
  <2>2. QED
    BY <1>14, <1>20, <2>1
<1>16. ASSUME NEW l \in Range(items) PROVE \E f \in Range(found) : l \in Range(disk[f])
  <2>1. PICK i \in D : l \in R[i]
    BY <1>21
  <2>2. QED
    BY <1>8, <1>20, <2>1
<1>17. QED
  BY <1>2, <1>4, <1>6, <1>12, <1>15, <1>16

\* `ReadStores`.
LEMMA ReadStoresType ==
    ASSUME TypeOK, StepOK, ReadStores
    PROVE  TaskOK' /\ StepOK'
<1>1. task.pc = "read" /\ task.pc \in Running /\ task.pc # "write"
  BY DEF ReadStores, Running
<1>2. task \in Task /\ task.plan = <<>>
  BY <1>1, At
<1>3. task.command.cmd = "migrate" /\ ~task.removed
  BY <1>1, <1>2, FieldsOf DEF StepOK
<1>4. PICK found, items, paths :
        /\ found = Those(StorePaths, {f \in DOMAIN disk : disk[f] # None}) /\ paths = StorePaths
        /\ items = FlattenSeq([i \in DOMAIN found |-> disk[found[i]]])
  OBVIOUS
<1>5. paths \in Seq(Files) /\ found \in Seq(Files) /\ items \in Seq(Lines)
  <2>1. FoundFrom(found, items)
    BY <1>4 DEF FoundFrom
  <2>2. QED
    BY <1>4, <2>1, FoundIs
<1>6. CASE found = <<>>
  <2>1. Stops("failed")
    BY <1>4, <1>6 DEF ReadStores, Stops
  <2>2. QED
    BY <2>1, StopsType
<1>7. CASE found # <<>>
  <2>1. task' = [task EXCEPT !.pc = "sort", !.paths = paths, !.found = found, !.items = items]
    BY <1>4, <1>7 DEF ReadStores
  <2>2. task' \in Task
    <3>1. ASSUME NEW t \in Task, NEW p \in Running
          PROVE  [t EXCEPT !.pc = p, !.paths = paths, !.found = found, !.items = items] \in Task
      BY <1>5 DEF Task
    <3>2. "sort" \in Running
      BY DEF Running
    <3>3. QED
      BY <1>2, <2>1, <3>1, <3>2
  <2>3. task'.pc = "sort" /\ task'.plan = <<>> /\ task'.command = task.command
        /\ task'.removed = task.removed
    BY <1>2, <2>1 DEF Task
  <2>4. QED
    BY <1>3, <2>2, <2>3, RunsOn
<1>8. QED
  BY <1>6, <1>7

\* `CompareLines`.
LEMMA CompareLinesType ==
    ASSUME TypeOK, StepOK, CompareLines
    PROVE  TaskOK' /\ StepOK'
<1>1. task.pc = "sort" /\ task.pc \in Running /\ task.pc # "write"
  BY DEF CompareLines, Running
<1>2. task \in Task /\ task.plan = <<>>
  BY <1>1, At
<1>3. task.command.cmd = "migrate" /\ ~task.removed
  BY <1>1, <1>2, FieldsOf DEF StepOK, Between
<1>4. PICK sorted, fresh, blocked :
        /\ sorted = SortLines(vault, Imported(task.items))
        /\ fresh = sorted.fresh /\ blocked = (sorted.differ # {})
  OBVIOUS
<1>5. fresh \in Seq(Lines) /\ blocked \in BOOLEAN
  <2>1. Imported(task.items) \in Seq(Lines)
    BY <1>2, FieldsOf, ThoseType DEF Imported
  <2>2. sorted \in Sorts(vault)
    BY <1>4, <2>1, SortLinesIs DEF SortsInto
  <2>3. QED
    BY <1>4, <2>2 DEF Sorts
<1>6. task' = [task EXCEPT !.pc = "import", !.fresh = fresh, !.blocked = blocked]
  BY <1>4 DEF CompareLines
<1>7. task' \in Task
  <2>1. ASSUME NEW t \in Task, NEW p \in Running
        PROVE  [t EXCEPT !.pc = p, !.fresh = fresh, !.blocked = blocked] \in Task
    BY <1>5 DEF Task
  <2>2. "import" \in Running
    BY DEF Running
  <2>3. QED
    BY <1>2, <1>6, <2>1, <2>2
<1>8. task'.pc = "import" /\ task'.plan = <<>> /\ task'.command = task.command
      /\ task'.removed = task.removed
  BY <1>2, <1>6 DEF Task
<1>9. QED
  BY <1>3, <1>7, <1>8, RunsOn

\* `Import`: a name that is there is not added again.
LEMMA ImportType ==
    ASSUME TypeOK, StepOK, Import
    PROVE  TaskOK' /\ StepOK' /\ OneOfEachName(vault')
<1>1. task.pc = "import" /\ task.pc \in Running /\ task.pc # "write"
  BY DEF Import, Running
<1>2. task \in Task /\ task.plan = <<>>
  BY <1>1, At
<1>3. task.command.cmd = "migrate" /\ ~task.removed
  BY <1>1, <1>2, FieldsOf DEF StepOK, Between
<1>4. PICK new, blocked : /\ new = Adds(task.fresh)
                          /\ blocked = (task.blocked \/ new # DOMAIN task.fresh)
  OBVIOUS
<1>5. blocked \in BOOLEAN
  BY <1>4
<1>6. task' = [task EXCEPT !.pc = "ask", !.blocked = blocked]
  BY <1>4 DEF Import
<1>7. task' \in Task
  <2>1. ASSUME NEW t \in Task, NEW p \in Running PROVE [t EXCEPT !.pc = p, !.blocked = blocked] \in Task
    BY <1>5 DEF Task
  <2>2. "ask" \in Running
    BY DEF Running
  <2>3. QED
    BY <1>2, <1>6, <2>1, <2>2
<1>8. task'.pc = "ask" /\ task'.plan = <<>> /\ task'.command = task.command
      /\ task'.removed = task.removed
  BY <1>2, <1>6 DEF Task
<1>9. OneOfEachName(vault')
  <2>1. vault' = vault \cup {Stamped(task.fresh[i], i) : i \in new}
    BY <1>4 DEF Import
  <2>2. \A i \in new : /\ Stamped(task.fresh[i], i).name = task.fresh[i].name
                       /\ \A e \in vault : e.name # task.fresh[i].name
                       /\ i \in DOMAIN task.fresh
    BY <1>4 DEF Adds, Stamped
  <2>3. \A i, j \in new : task.fresh[i].name = task.fresh[j].name => i = j
    <3>1. task.fresh \in Seq(Lines)
      BY <1>2, FieldsOf
    <3>2. ASSUME NEW i \in new, NEW j \in new, i < j PROVE task.fresh[i].name # task.fresh[j].name
      <4>1. i \in 1..(j - 1)
        BY <2>2, <3>1, <3>2
      <4>2. QED
        BY <1>4, <4>1 DEF Adds
    <3>3. \A i, j \in new : i < j \/ j < i \/ i = j
      BY <2>2, <3>1
    <3>4. QED
      BY <3>2, <3>3
  <2>4. OneOfEachName(vault)
    BY DEF TypeOK
  <2>5. ASSUME NEW e \in vault', NEW f \in vault', e.name = f.name PROVE e = f
    <3>1. CASE e \in vault /\ f \in vault
      BY <2>4, <2>5, <3>1 DEF OneOfEachName
    <3>2. CASE e \in vault /\ f \notin vault
      BY <2>1, <2>2, <2>5, <3>2
    <3>3. CASE e \notin vault /\ f \in vault
      BY <2>1, <2>2, <2>5, <3>3
    <3>4. CASE e \notin vault /\ f \notin vault
      BY <2>1, <2>2, <2>3, <2>5, <3>4
    <3>5. QED
      BY <3>1, <3>2, <3>3, <3>4
  <2>6. QED
    BY <2>5 DEF OneOfEachName
<1>10. QED
  BY <1>3, <1>7, <1>8, <1>9, RunsOn

\* The fields that a step other than a read leaves alone.
Stays ==
    /\ task'.command = task.command /\ task'.paths = task.paths /\ task'.found = task.found
    /\ task'.items = task.items
\* The store values that are out.
Owes == task'.out = task.out /\ task'.gone = task.gone

\* What each step leaves of the task, and what it changes: `Planned`.
LEMMA PlannedFields ==
    ASSUME task \in Task, task.plan = <<>>, NEW plan, NEW then, Planned(plan, then)
    PROVE  /\ Stays /\ Owes /\ task'.fresh = task.fresh /\ task'.blocked = task.blocked
           /\ task'.removed = task.removed
           /\ \/ plan = <<>> /\ task'.pc = then /\ task'.plan = <<>>
              \/ plan # <<>> /\ task'.pc = "write" /\ task'.plan = plan /\ task'.then = then
BY DEF Planned, Task, Stays, Owes

\* `Goto`.
LEMMA GotoFields ==
    ASSUME task \in Task, NEW p, Goto(p)
    PROVE  /\ Stays /\ Owes /\ task'.fresh = task.fresh /\ task'.blocked = task.blocked
           /\ task'.removed = task.removed /\ task'.pc = p /\ task'.plan = task.plan
           /\ task'.then = task.then
BY DEF Goto, Task, Stays, Owes

\* `WriteConfig`.
LEMMA WriteFields ==
    ASSUME TypeOK, WriteConfig
    PROVE  /\ Stays /\ task'.fresh = task.fresh /\ task'.blocked = task.blocked
           /\ task'.removed = task.removed
           /\ \/ /\ Len(task.plan) = 1 /\ task'.pc = task.then /\ task'.plan = <<>>
                 /\ task'.gone = task.gone \cup (task.out \cup StoresOf(Head(task.plan).drops))
                 /\ task'.out = {}
              \/ /\ Len(task.plan) # 1 /\ task'.pc = "write" /\ task'.plan = Tail(task.plan)
                 /\ task'.then = task.then /\ task'.gone = task.gone
                 /\ task'.out = task.out \cup StoresOf(Head(task.plan).drops)
<1>1. task.pc = "write" /\ task.pc \in Running
  BY DEF WriteConfig, Running
<1>2. task \in Task
  BY <1>1, At
<1>3. PICK out : out = task.out \cup StoresOf(Head(task.plan).drops)
  OBVIOUS
<1>4. CASE Len(task.plan) = 1
  <2>1. task' = [task EXCEPT !.pc = task.then, !.plan = <<>>, !.then = None, !.gone = @ \cup out, !.out = {}]
    BY <1>3, <1>4 DEF WriteConfig
  <2>2. QED
    BY <1>2, <1>3, <1>4, <2>1 DEF Task, Stays
<1>5. CASE Len(task.plan) # 1
  <2>1. task' = [task EXCEPT !.plan = Tail(@), !.out = out]
    BY <1>3, <1>5 DEF WriteConfig
  <2>2. QED
    BY <1>1, <1>2, <1>3, <1>5, <2>1 DEF Task, Stays
<1>6. QED
  BY <1>4, <1>5

\* `CompareLines`.
LEMMA CompareFields ==
    ASSUME task \in Task, CompareLines
    PROVE  /\ Stays /\ Owes /\ task'.removed = task.removed /\ task'.pc = "import"
           /\ task'.fresh = SortLines(vault, Imported(task.items)).fresh
           /\ task'.blocked = (SortLines(vault, Imported(task.items)).differ # {})
BY DEF CompareLines, Task, Stays, Owes

\* `Import`.
LEMMA ImportFields ==
    ASSUME task \in Task, Import
    PROVE  /\ Stays /\ Owes /\ task'.removed = task.removed /\ task'.pc = "ask"
           /\ task'.fresh = task.fresh
           /\ task'.blocked = (task.blocked \/ Adds(task.fresh) # DOMAIN task.fresh)
           /\ vault' = vault \cup {Stamped(task.fresh[i], i) : i \in Adds(task.fresh)}
BY DEF Import, Task, Stays, Owes

\* `ReadStores`.
LEMMA ReadFields ==
    ASSUME task \in Task, ReadStores,
           NEW found, found = Those(StorePaths, {f \in DOMAIN disk : disk[f] # None})
    PROVE  \/ Stops("failed")
           \/ /\ found # <<>> /\ task'.pc = "sort" /\ task'.command = task.command /\ Owes
              /\ task'.removed = task.removed /\ task'.paths = StorePaths /\ task'.found = found
              /\ task'.items = FlattenSeq([i \in DOMAIN found |-> disk[found[i]]])
<1>1. PICK items : items = FlattenSeq([i \in DOMAIN found |-> disk[found[i]]])
  OBVIOUS
<1>2. \/ task' = [pc |-> "failed"]
      \/ found # <<>> /\ task' = [task EXCEPT !.pc = "sort", !.paths = StorePaths, !.found = found, !.items = items]
  BY <1>1 DEF ReadStores
<1>3. QED
  BY <1>1, <1>2 DEF Task, Owes, Stops

\* `RemoveFile`.
LEMMA RemoveFields ==
    ASSUME task \in Task, RemoveFile
    PROVE  \/ UNCHANGED task
           \/ /\ Stays /\ Owes /\ task'.fresh = task.fresh /\ task'.removed = TRUE
              /\ task'.blocked = task.blocked
              /\ task'.pc = AfterRemoval /\ task'.plan = task.plan
BY DEF RemoveFile, Task, Stays, Owes

\* Where a removal goes, and when no file is left.
LEMMA RemovedOne ==
    ASSUME TypeOK, task \in Task, RemoveFile
    PROVE  \/ /\ task'.removed = TRUE /\ task'.pc = AfterRemoval /\ UNCHANGED <<disk, retired>>
              /\ \A f \in Range(task.found) : disk[f] = None
           \/ \E f \in Range(task.found) :
                 /\ disk[f] # None /\ disk' = [disk EXCEPT ![f] = None]
                 /\ retired' = retired \cup {f} /\ UNCHANGED task
<1>1. PICK left, X : X = {f \in DOMAIN disk : disk[f] # None} /\ left = Those(task.found, X)
  OBVIOUS
<1>2. task.found \in Seq(Files) /\ disk \in [Files -> Seq(Lines) \cup {None}]
  BY FieldsOf DEF TypeOK
<1>3. left \in Seq(Files) /\ Range(left) = Range(task.found) \cap X
  BY <1>1, <1>2, ThoseType
<1>4. Range(task.found) \subseteq Files
  BY <1>2, RangeAt
<1>5. CASE left = <<>>
  <2>1. Range(left) = {}
    BY <1>5 DEF Range
  <2>2. \A f \in Range(task.found) : disk[f] = None
    BY <1>1, <1>2, <1>3, <1>4, <2>1
  <2>3. task' = [task EXCEPT !.pc = AfterRemoval, !.removed = TRUE] /\ UNCHANGED <<disk, retired>>
    BY <1>1, <1>5 DEF RemoveFile
  <2>4. task'.removed = TRUE /\ task'.pc = AfterRemoval
    BY <2>3 DEF Task
  <2>5. QED
    BY <2>2, <2>3, <2>4
<1>6. CASE left # <<>>
  <2>1. PICK f : f = Head(left)
    OBVIOUS
  <2>2. f \in Range(left)
    <3>1. Len(left) \in Nat /\ Len(left) # 0 /\ Head(left) = left[1]
      BY <1>3, <1>6
    <3>2. 1 \in 1..Len(left)
      BY <3>1
    <3>3. QED
      BY <1>3, <2>1, <3>1, <3>2, RangeAt
  <2>3. disk' = [disk EXCEPT ![f] = None] /\ retired' = retired \cup {f} /\ UNCHANGED task
    BY <1>1, <1>6, <2>1 DEF RemoveFile
  <2>4. QED
    BY <1>1, <1>3, <2>2, <2>3
<1>7. QED
  BY <1>5, <1>6

\* `End`.
LEMMA EndFields ==
    ASSUME End
    PROVE  /\ task'.pc = "ok" /\ task'.command = task.command /\ task'.items = task.items
           /\ task'.fresh = task.fresh /\ task'.removed = task.removed
BY DEF End

\* A store takes a credential: which files, which lines they have, and what is kept.
LEMMA StoresType ==
    ASSUME TypeOK, NEW line \in Lines, GitStores(line)
    PROVE  /\ disk' \in [Files -> Seq(Lines) \cup {None}]
           /\ \A f \in Files : disk'[f] # disk[f] =>
                 /\ f \in Effective /\ disk'[f] # None
                 /\ line \in Range(disk'[f])
           /\ \A f \in Files : disk'[f] # None =>
                 \/ disk'[f] = disk[f]
                 \/ /\ f \in Effective
                    /\ \A l \in Range(disk'[f]) : l = line \/ (disk[f] # None /\ l \in Range(disk[f]))
           /\ \A f \in Files, l \in Lines :
                 disk[f] # None /\ l \in Range(disk[f]) /\ ~SameLogin(l, line) =>
                     disk'[f] # None /\ l \in Range(disk'[f])
           /\ \E f \in Files : f \in Effective /\ disk'[f] # None /\ line \in Range(disk'[f])
           /\ kept' = {l \in kept : ~SameLogin(l, line)} \cup (IF Between THEN {} ELSE {line})
<1> DEFINE Kept(lines) == Those(lines, {l \in Range(lines) : ~SameLogin(l, line)})
           Put(lines) == <<line>> \o (IF lines = None THEN <<>> ELSE Kept(lines))
<1>1. disk \in [Files -> Seq(Lines) \cup {None}] /\ DOMAIN disk = Files
  BY DEF TypeOK
<1>2. PICK files : files = {f \in Files : f \in Effective}
  OBVIOUS
<1>3. /\ files # {} /\ disk' = [f \in Files |-> IF f \in files THEN Put(disk[f]) ELSE disk[f]]
      /\ kept' = {l \in kept : ~SameLogin(l, line)} \cup (IF Between THEN {} ELSE {line})
  BY <1>1, <1>2, Zenon DEF GitStores
<1>4. ASSUME NEW lines \in Seq(Lines)
      PROVE  /\ Kept(lines) \in Seq(Lines)
             /\ Range(Kept(lines)) = {l \in Range(lines) : ~SameLogin(l, line)}
  <2>1. PICK X : X = {l \in Range(lines) : ~SameLogin(l, line)}
    OBVIOUS
  <2>2. Those(lines, X) \in Seq(Lines) /\ Range(Those(lines, X)) = Range(lines) \cap X
    BY ThoseType
  <2>3. QED
    BY <2>1, <2>2
<1> HIDE DEF Kept
<1>5. ASSUME NEW f \in Files
      PROVE  /\ Put(disk[f]) \in Seq(Lines)
             /\ line \in Range(Put(disk[f]))
             /\ \A l \in Range(Put(disk[f])) : l = line \/ (disk[f] # None /\ l \in Range(disk[f]))
             /\ \A l \in Lines : disk[f] # None /\ l \in Range(disk[f]) /\ ~SameLogin(l, line) =>
                   l \in Range(Put(disk[f]))
  <2>1. PICK rest : rest = IF disk[f] = None THEN <<>> ELSE Kept(disk[f])
    OBVIOUS
  <2>2. rest \in Seq(Lines) /\ Range(rest) = IF disk[f] = None THEN {} ELSE {l \in Range(disk[f]) : ~SameLogin(l, line)}
    <3>1. CASE disk[f] = None
      BY <2>1, <3>1 DEF Range
    <3>2. CASE disk[f] # None
      BY <1>1, <1>4, <2>1, <3>2
    <3>3. QED
      BY <3>1, <3>2
  <2>3. PICK one : one = <<line>>
    OBVIOUS
  <2>4. one \in Seq(Lines) /\ Range(one) = {line}
    BY <2>3 DEF Range
  <2>5. one \o rest \in Seq(Lines) /\ Range(one \o rest) = Range(one) \cup Range(rest)
    BY <2>2, <2>4, RangeConcat
  <2>6. Put(disk[f]) = one \o rest
    BY <2>1, <2>3
  <2> HIDE DEF Put
  <2>7. QED
    BY <2>2, <2>4, <2>5, <2>6
<1> HIDE DEF Put
<1>6. \A f \in Files : disk'[f] = IF f \in files THEN Put(disk[f]) ELSE disk[f]
  BY <1>3
<1>7. disk' \in [Files -> Seq(Lines) \cup {None}]
  BY <1>1, <1>3, <1>5
<1>8. None \notin Seq(Lines)
  BY GitAssumption DEF GitAssumption
<1>9. \A f \in files : f \in Files /\ f \in Effective
  BY <1>2
<1>10. \A f \in files : /\ disk'[f] # None /\ line \in Range(disk'[f])
                         /\ \A l \in Range(disk'[f]) : l = line \/ (disk[f] # None /\ l \in Range(disk[f]))
  BY <1>5, <1>6, <1>8, <1>9
<1>11. \A f \in Files : f \notin files => disk'[f] = disk[f]
  BY <1>6
<1>12. \A f \in Files, l \in Lines :
          disk[f] # None /\ l \in Range(disk[f]) /\ ~SameLogin(l, line) =>
              disk'[f] # None /\ l \in Range(disk'[f])
  BY <1>5, <1>6, <1>10
<1>13. \E f \in Files : f \in Effective /\ disk'[f] # None /\ line \in Range(disk'[f])
  BY <1>3, <1>9, <1>10
<1>14. \A f \in Files : disk'[f] # disk[f] => f \in Effective /\ disk'[f] # None /\ line \in Range(disk'[f])
  BY <1>9, <1>10, <1>11
<1>15. \A f \in Files : disk'[f] # None =>
          \/ disk'[f] = disk[f]
          \/ /\ f \in Effective
             /\ \A l \in Range(disk'[f]) : l = line \/ (disk[f] # None /\ l \in Range(disk[f]))
  BY <1>9, <1>10, <1>11
<1>16. QED
  BY <1>3, <1>7, <1>12, <1>13, <1>14, <1>15

\* The types, the steps of a task, and the store values that are out.
Typed == TypeOK /\ StepOK /\ OutOK
Rows == {h \in Helper : IsStore(h.value)}

\* `End`.
LEMMA EndType ==
    ASSUME TypeOK, End
    PROVE  TaskOK' /\ StepOK'
<1>1. task.pc = "end" /\ task.pc \in Running
  BY DEF End, Running
<1>2. task \in Task
  BY <1>1, At
<1>3. /\ task.command \in Commands /\ task.items \in Seq(Lines) /\ task.fresh \in Seq(Lines)
      /\ task.removed \in BOOLEAN
  BY <1>2, FieldsOf
<1>4. task' \in [pc : {"ok"}, command : Commands, items : Seq(Lines), fresh : Seq(Lines), removed : BOOLEAN]
  BY <1>3 DEF End
<1>5. task'.pc = "ok" /\ "ok" \notin Running
  BY EndFields DEF Running
<1>6. QED
  BY <1>4, <1>5 DEF TaskOK, StepOK, Between, Running

\* What a way back is said of is a value that is out.
LEMMA WayBackOut ==
    ASSUME NEW gone, NEW deleted
    PROVE  WayBack(gone, deleted) \subseteq gone
BY DEF WayBack

\* What the types follow from.
LEMMA TypeFrom ==
    ASSUME config' \in ConfigType, disk' \in [Files -> Seq(Lines) \cup {None}], TaskOK',
           said' \subseteq Rows, dropped' \subseteq Rows,
           retired' \subseteq Files, kept' \subseteq Lines, OneOfEachName(vault'),
           calls' \in 0..MaxCommands, writes' \in 0..MaxWrites
    PROVE  TypeOK'
BY DEF TypeOK, TaskOK, ConfigType, Rows

\* What follows from them.
LEMMA TypeGives ==
    ASSUME TypeOK
    PROVE  /\ config \in ConfigType /\ disk \in [Files -> Seq(Lines) \cup {None}] /\ TaskOK
           /\ said \subseteq Rows /\ dropped \subseteq Rows /\ retired \subseteq Files
           /\ kept \subseteq Lines /\ OneOfEachName(vault)
           /\ calls \in 0..MaxCommands /\ writes \in 0..MaxWrites
BY DEF TypeOK, TaskOK, ConfigType, Rows

\* A step that runs on owes what it owed.
LEMMA OwesOn ==
    ASSUME OutOK, task.pc \in Running, task.pc # "write", Owes,
           UNCHANGED <<said, dropped>>,
           task'.pc \in {"read", "sort", "import", "ask"} => task.gone = {},
           task'.pc = "write" /\ task'.then = "check" => task.gone = {}
    PROVE  OutOK'
BY DEF OutOK, Owes

\* A command that has stopped owes nothing.
LEMMA StoppedOut ==
    ASSUME task'.pc \notin Running
    PROVE  OutOK'
BY DEF OutOK

\* So it does when it fails or is killed.
LEMMA StopsOut ==
    ASSUME NEW p \in {"failed", "cut", "killed"}, Stops(p)
    PROVE  OutOK'
BY StoppedOut DEF Stops, Running

\* Steps that leave everything but the task.
LEMMA TaskStep ==
    ASSUME TypeOK, TaskOK', StepOK', OutOK',
           UNCHANGED <<config, disk, vault, said, dropped, retired, kept, calls, writes>>
    PROVE  Typed'
<1>1. TypeOK'
  BY TypeGives, TypeFrom
<1>2. QED
  BY <1>1 DEF Typed

\* Each action keeps the types: `Start`.
LEMMA StartTyped == ASSUME Typed, NEW c \in Commands, Start(c) PROVE Typed'
<1>1. TypeOK
  BY DEF Typed
<1>2. TaskOK' /\ StepOK'
  BY StartType
<1>3. UNCHANGED <<config, disk, vault, retired, kept, writes>> /\ said' = {} /\ dropped' = {}
  BY DEF Start
<1>4. calls' \in 0..MaxCommands
  BY <1>1, TypeGives, GitAssumption DEF Start, GitAssumption
<1>5. task'.out = {} /\ task'.gone = {}
  BY DEF Start
<1>6. OutOK'
  BY <1>3, <1>5 DEF OutOK
<1>7. TypeOK'
  BY <1>1, <1>2, <1>3, <1>4, TypeGives, TypeFrom
<1>8. QED
  BY <1>2, <1>6, <1>7 DEF Typed

\* Writes that are planned change nothing yet.
LEMMA PlannedOut ==
    ASSUME OutOK, task \in Task, task.plan = <<>>, task.pc \in {"install", "uninstall", "ask"},
           NEW plan, NEW then \in {"end", "check"}, Planned(plan, then),
           then = "check" => task.pc = "ask", UNCHANGED <<said, dropped>>
    PROVE  OutOK'
<1>1. Owes /\ (task'.pc = then \/ (task'.pc = "write" /\ task'.then = then))
  BY PlannedFields, Zenon
<1>2. task.pc \in Running /\ task.pc # "write"
  BY DEF Running
<1>3. then = "check" => task.gone = {}
  BY <1>2 DEF OutOK
<1>4. QED
  BY <1>1, <1>2, <1>3, OwesOn

\* `PlanInstall`.
LEMMA PlanInstallTyped == ASSUME Typed, PlanInstall PROVE Typed'
<1>1. TypeOK /\ StepOK /\ OutOK
  BY DEF Typed
<1>2. TaskOK' /\ StepOK'
  BY <1>1, PlanInstallType
<1>3. task.pc = "install" /\ task.pc \in Running
  BY DEF PlanInstall, Running
<1>4. task \in Task /\ task.plan = <<>>
  BY <1>1, <1>3, At
<1>5. PICK plan : Planned(plan, "end")
  BY DEF PlanInstall
<1>6. OutOK'
  BY <1>1, <1>3, <1>4, <1>5, PlannedOut DEF PlanInstall
<1>7. QED
  BY <1>1, <1>2, <1>6, TaskStep DEF PlanInstall

\* `Uninstall`.
LEMMA UninstallTyped == ASSUME Typed, Uninstall PROVE Typed'
<1>1. TypeOK /\ StepOK /\ OutOK
  BY DEF Typed
<1>2. TaskOK' /\ StepOK'
  BY <1>1, UninstallType
<1>3. task.pc = "uninstall" /\ task.pc \in Running
  BY DEF Uninstall, Running
<1>4. task \in Task /\ task.plan = <<>>
  BY <1>1, <1>3, At
<1>5. PICK plan : Planned(plan, "end")
  BY DEF Uninstall
<1>6. OutOK'
  BY <1>1, <1>3, <1>4, <1>5, PlannedOut DEF Uninstall
<1>7. QED
  BY <1>1, <1>2, <1>6, TaskStep DEF Uninstall

\* `DropStoreHelpers`.
LEMMA DropTyped == ASSUME Typed, DropStoreHelpers PROVE Typed'
<1>1. TypeOK /\ StepOK /\ OutOK
  BY DEF Typed
<1>2. TaskOK' /\ StepOK'
  BY <1>1, DropType
<1>3. task.pc = "ask" /\ task.pc \in Running
  BY DEF DropStoreHelpers, Running
<1>4. task \in Task /\ task.plan = <<>>
  BY <1>1, <1>3, At
<1>5. PICK plan : Planned(plan, "check")
  BY DEF DropStoreHelpers
<1>6. OutOK'
  BY <1>1, <1>3, <1>4, <1>5, PlannedOut DEF DropStoreHelpers
<1>7. QED
  BY <1>1, <1>2, <1>6, TaskStep DEF DropStoreHelpers

\* `WriteConfig`.
LEMMA WriteConfigTyped == ASSUME Typed, WriteConfig PROVE Typed'
<1>1. TypeOK /\ StepOK /\ OutOK
  BY DEF Typed
<1>2. TaskOK' /\ StepOK' /\ config' \in ConfigType
  BY <1>1, WriteConfigType
<1>3. task.pc = "write" /\ task.pc \in Running
  BY DEF WriteConfig, Running
<1>4. task \in Task /\ task.plan # <<>>
  BY <1>1, <1>3, At
<1>5. PICK drops : drops = StoresOf(Head(task.plan).drops)
  OBVIOUS
<1>6. drops \subseteq Rows
  <2>1. task.plan \in Seq(ConfigWrite)
    BY <1>4, FieldsOf
  <2>2. Head(task.plan) \in ConfigWrite
    BY <1>4, <2>1
  <2>3. QED
    BY <1>5, <2>2 DEF ConfigWrite, StoresOf, Rows
<1>7. dropped' = dropped \cup drops /\ UNCHANGED <<disk, vault, said, retired, kept, calls, writes>>
  BY <1>5 DEF WriteConfig
<1>8. \/ /\ task'.pc = task.then /\ task'.gone = task.gone \cup (task.out \cup drops) /\ task'.out = {}
      \/ /\ task'.pc = "write" /\ task'.then = task.then /\ task'.gone = task.gone
         /\ task'.out = task.out \cup drops
  BY <1>1, <1>5, WriteFields
<1>9. task.then \in {"end", "check"} /\ said = {} /\ dropped = task.out \cup task.gone
      /\ (task.then = "check" => task.gone = {})
  BY <1>1, <1>3 DEF StepOK, OutOK
<1>10. OutOK'
  BY <1>7, <1>8, <1>9 DEF OutOK
<1>11. TypeOK'
  BY <1>1, <1>2, <1>6, <1>7, TypeGives, TypeFrom
<1>12. QED
  BY <1>2, <1>10, <1>11 DEF Typed

\* A command that ends says no way back but of a value it took out.
LEMMA SaysTyped ==
    ASSUME Typed, task.pc \in Running, TaskOK', StepOK', task'.pc \notin Running,
           NEW more, more \subseteq task.out \cup task.gone, said' = said \cup more,
           UNCHANGED <<config, disk, vault, dropped, retired, kept, calls, writes>>
    PROVE  Typed'
<1>1. TypeOK /\ StepOK /\ OutOK
  BY DEF Typed
<1>2. more \subseteq dropped
  BY <1>1 DEF OutOK
<1>3. said' \subseteq Rows
  BY <1>1, <1>2, TypeGives
<1>4. TypeOK'
  BY <1>1, <1>3, TypeGives, TypeFrom
<1>5. QED
  BY <1>4, StoppedOut DEF Typed

\* `WriteFails`.
LEMMA WriteFailsTyped == ASSUME Typed, WriteFails PROVE Typed'
<1>1. TaskOK' /\ StepOK' /\ task'.pc \notin Running
  BY StopsType DEF WriteFails, Stops, Running
<1>2. PICK more : more = task.out \cup (IF task.removed THEN {} ELSE task.gone)
  OBVIOUS
<1>3. more \subseteq task.out \cup task.gone
  BY <1>2
<1>4. said' = said \cup more
  <2>1. said' = (said \cup task.out) \cup (IF task.removed THEN {} ELSE task.gone)
    BY DEF WriteFails, SayRestore
  <2>2. QED
    BY <1>2, <2>1
<1>5. task.pc \in Running /\ UNCHANGED <<config, disk, vault, dropped, retired, kept, calls, writes>>
  BY DEF WriteFails, Running
<1>6. QED
  BY <1>1, <1>3, <1>4, <1>5, SaysTyped

\* What a write that is cut leaves at its key: the first of its values.
WrittenInPart(w, n, left) ==
    /\ w = task.plan[1] /\ w \in ConfigWrite /\ Len(task.plan) \in Nat /\ Len(task.plan) >= 1
    /\ n \in 1..Len(w.values) /\ left = SubSeq(w.values, 1, n) /\ left \in Seq(HelperValues)
    /\ Range(left) \subseteq Range(w.values)
    /\ \A file \in ConfigFiles, key \in Keys :
          config'[file][key] = IF file = w.file /\ key = w.key THEN left ELSE config[file][key]
    /\ config' \in ConfigType
    /\ \E out : out \subseteq Rows /\ dropped' = dropped \cup out

\* `WriteCut` is of the first write of the plan.
LEMMA Cut ==
    ASSUME TypeOK, WriteCut
    PROVE  \E w, n, left : WrittenInPart(w, n, left)
<1>1. task.pc = "write" /\ task.pc \in Running
  BY DEF WriteCut, Running
<1>2. task \in Task /\ task.plan # <<>> /\ config \in ConfigType
  BY <1>1, At
<1>3. task.plan \in Seq(ConfigWrite)
  BY <1>2, FieldsOf
<1>4. Len(task.plan) \in Nat /\ Len(task.plan) >= 1 /\ Head(task.plan) = task.plan[1]
      /\ Head(task.plan) \in ConfigWrite
  BY <1>2, <1>3
<1>5. PICK w : w = Head(task.plan)
  OBVIOUS
<1>6. w.file \in ConfigFiles /\ w.key \in Keys /\ w.values \in Seq(HelperValues) /\ w \in ConfigWrite
  BY <1>4, <1>5 DEF ConfigWrite
<1>7. PICK n, left, gone :
         /\ n \in 1..(Len(w.values) - 1)
         /\ left = SubSeq(w.values, 1, n)
         /\ gone = {h \in Range(OfKey(w.file, w.key)) : h.value \notin Range(left)}
         /\ config' = [config EXCEPT ![w.file][w.key] = left]
         /\ dropped' = dropped \cup StoresOf(gone)
  BY <1>5 DEF WriteCut
<1>8. n \in 1..Len(w.values) /\ left \in Seq(HelperValues) /\ Range(left) \subseteq Range(w.values)
  <2>1. n \in 1..Len(w.values) /\ Len(left) = n /\ \A i \in 1..n : left[i] = w.values[i]
    BY <1>6, <1>7
  <2>2. left \in Seq(HelperValues)
    BY <1>6, <1>7, <2>1
  <2>3. QED
    BY <1>6, <2>1, <2>2 DEF Range
<1>9. config' \in ConfigType
  BY <1>2, <1>6, <1>7, <1>8 DEF ConfigType
<1>10. \A file \in ConfigFiles, key \in Keys :
         config'[file][key] = IF file = w.file /\ key = w.key THEN left ELSE config[file][key]
  BY <1>2, <1>6, <1>7 DEF ConfigType
<1>11. StoresOf(gone) \subseteq Rows
  <2>1. Range(OfKey(w.file, w.key)) \subseteq Helper
    BY <1>2, <1>6, OfKeyType
  <2>2. QED
    BY <1>7, <2>1 DEF StoresOf, Rows
<1>12. \E out : out \subseteq Rows /\ dropped' = dropped \cup out
  BY <1>7, <1>11
<1>13. WrittenInPart(w, n, left)
  BY <1>4, <1>5, <1>6, <1>7, <1>8, <1>9, <1>10, <1>12 DEF WrittenInPart
<1>14. QED
  BY <1>13

\* The command has stopped.
LEMMA CutStops ==
    ASSUME WriteCut
    PROVE  /\ task'.pc \in {"cut", "killed"}
           /\ task.pc = "write" /\ UNCHANGED <<disk, vault, retired, kept, calls, writes>>
BY DEF WriteCut, Stops

\* `WriteCut`.
LEMMA WriteCutTyped == ASSUME Typed, WriteCut PROVE Typed'
<1>1. TypeOK /\ StepOK /\ OutOK
  BY DEF Typed
<1>2. PICK p \in {"failed", "cut", "killed"} : Stops(p)
  BY DEF WriteCut
<1>3. TaskOK' /\ StepOK' /\ OutOK'
  BY <1>2, StopsType, StopsOut
<1>4. task.pc = "write" /\ task.pc \in Running /\ UNCHANGED <<disk, vault, retired, kept, calls, writes>>
  BY DEF WriteCut, Running
<1>5. config' \in ConfigType /\ dropped' \subseteq Rows
  <2>1. PICK w, n, left : WrittenInPart(w, n, left)
    BY <1>1, Cut
  <2>2. QED
    BY <1>1, <2>1, TypeGives DEF WrittenInPart
<1>6. said' \subseteq Rows
  <2>1. PICK more : more = task.out \cup (IF task.removed THEN {} ELSE task.gone)
    OBVIOUS
  <2>2. said' = said \cup more \/ said' = said
    <3>1. SayRestore => said' = said \cup more
      <4>1. SayRestore => said' = (said \cup task.out) \cup (IF task.removed THEN {} ELSE task.gone)
        BY DEF SayRestore
      <4>2. QED
        BY <2>1, <4>1
    <3>2. QED
      BY <3>1 DEF WriteCut
  <2>3. more \subseteq dropped
    BY <1>1, <1>4, <2>1 DEF OutOK
  <2>4. QED
    BY <1>1, <2>2, <2>3, TypeGives
<1>7. TypeOK'
  BY <1>1, <1>3, <1>4, <1>5, <1>6, TypeGives, TypeFrom
<1>8. QED
  BY <1>3, <1>7 DEF Typed

\* `End`.
LEMMA EndTyped == ASSUME Typed, End PROVE Typed'
<1>1. TaskOK' /\ StepOK' /\ task'.pc \notin Running
  BY EndType, EndFields DEF Typed, Running
<1>2. PICK more : said' = said \cup more /\ more \subseteq task.gone
  BY WayBackOut DEF End
<1>3. task.pc \in Running /\ UNCHANGED <<config, disk, vault, dropped, retired, kept, calls, writes>>
  BY DEF End, Running
<1>4. QED
  BY <1>1, <1>2, <1>3, SaysTyped

\* `RemoveFails`.
LEMMA RemoveFailsTyped == ASSUME Typed, RemoveFails PROVE Typed'
<1>1. TaskOK' /\ StepOK' /\ task'.pc \notin Running
  BY StopsType DEF RemoveFails, Stops, Running
<1>2. PICK more : said' = said \cup more /\ more \subseteq task.gone
  BY WayBackOut DEF RemoveFails
<1>3. task.pc \in Running /\ UNCHANGED <<config, disk, vault, dropped, retired, kept, calls, writes>>
  BY DEF RemoveFails, Running
<1>4. QED
  BY <1>1, <1>2, <1>3, SaysTyped

\* `ReadStores`.
LEMMA ReadTyped == ASSUME Typed, ReadStores PROVE Typed'
<1>1. TypeOK /\ StepOK /\ OutOK
  BY DEF Typed
<1>2. TaskOK' /\ StepOK'
  BY <1>1, ReadStoresType
<1>3. task.pc = "read" /\ task.pc \in Running
  BY DEF ReadStores, Running
<1>4. task \in Task
  BY <1>1, <1>3, At
<1>5. CASE Stops("failed")
  BY <1>1, <1>2, <1>5, StopsOut, TaskStep DEF ReadStores
<1>6. CASE task'.pc = "sort" /\ Owes
  <2>1. task.gone = {}
    BY <1>1, <1>3 DEF OutOK
  <2>2. OutOK'
    BY <1>1, <1>3, <1>6, <2>1, OwesOn DEF ReadStores
  <2>3. QED
    BY <1>1, <1>2, <2>2, TaskStep DEF ReadStores
<1>7. QED
  BY <1>4, <1>5, <1>6, ReadFields

\* `CompareLines`.
LEMMA CompareTyped == ASSUME Typed, CompareLines PROVE Typed'
<1>1. TypeOK /\ StepOK /\ OutOK
  BY DEF Typed
<1>2. TaskOK' /\ StepOK'
  BY <1>1, CompareLinesType
<1>3. task.pc = "sort" /\ task.pc \in Running
  BY DEF CompareLines, Running
<1>4. task \in Task
  BY <1>1, <1>3, At
<1>5. Owes /\ task'.pc = "import"
  BY <1>4, CompareFields
<1>6. task.gone = {}
  BY <1>1, <1>3 DEF OutOK
<1>7. OutOK'
  BY <1>1, <1>3, <1>5, <1>6, OwesOn DEF CompareLines
<1>8. QED
  BY <1>1, <1>2, <1>7, TaskStep DEF CompareLines

\* `UnlockFails` and `Kill`.
LEMMA StopsTyped ==
    ASSUME Typed, NEW p \in {"failed", "cut", "killed"}, Stops(p),
           UNCHANGED <<config, disk, vault, said, dropped, retired, kept, calls, writes>>
    PROVE  Typed'
BY StopsOut, StopsType, TaskStep DEF Typed

\* `Import`.
LEMMA ImportTyped == ASSUME Typed, Import PROVE Typed'
<1>1. TypeOK /\ StepOK /\ OutOK
  BY DEF Typed
<1>2. TaskOK' /\ StepOK' /\ OneOfEachName(vault')
  BY <1>1, ImportType
<1>3. task.pc = "import" /\ task.pc \in Running
  BY DEF Import, Running
<1>4. task \in Task
  BY <1>1, <1>3, At
<1>5. Owes /\ task'.pc = "ask"
  BY <1>4, ImportFields
<1>6. task.gone = {}
  BY <1>1, <1>3 DEF OutOK
<1>7. UNCHANGED <<config, disk, said, dropped, retired, kept, calls, writes>>
  BY DEF Import
<1>8. OutOK'
  BY <1>1, <1>3, <1>5, <1>6, <1>7, OwesOn
<1>9. TypeOK'
  BY <1>1, <1>2, <1>7, TypeGives, TypeFrom
<1>10. QED
  BY <1>2, <1>8, <1>9 DEF Typed

\* A step to another.
LEMMA GotoTyped ==
    ASSUME Typed, task \in Task, task.pc \in {"ask", "check"}, TaskOK', StepOK',
           NEW p \in {"install", "end", "remove"}, Goto(p),
           UNCHANGED <<config, disk, vault, said, dropped, retired, kept, calls, writes>>
    PROVE  Typed'
<1>1. Owes /\ task'.pc = p
  BY GotoFields
<1>2. OutOK'
  BY <1>1, OwesOn DEF Typed, Running
<1>3. QED
  BY <1>2, TaskStep DEF Typed

\* `KeepSource`.
LEMMA KeepTyped == ASSUME Typed, KeepSource PROVE Typed'
<1>1. TypeOK /\ StepOK
  BY DEF Typed
<1>2. TaskOK' /\ StepOK'
  BY <1>1, KeepSourceType
<1>3. task.pc = "ask" /\ task.pc \in Running
  BY DEF KeepSource, Running
<1>4. task \in Task
  BY <1>1, <1>3, At
<1>5. QED
  BY <1>2, <1>3, <1>4, GotoTyped DEF KeepSource, AfterRemoval

\* `CheckReaders`.
LEMMA CheckTyped == ASSUME Typed, CheckReaders PROVE Typed'
<1>1. TypeOK /\ StepOK
  BY DEF Typed
<1>2. TaskOK' /\ StepOK'
  BY <1>1, CheckReadersType
<1>3. task.pc = "check" /\ task.pc \in Running
  BY DEF CheckReaders, Running
<1>4. task \in Task
  BY <1>1, <1>3, At
<1>5. PICK p : p = IF StillRead(Range(task.found)) THEN AfterRemoval ELSE "remove"
  OBVIOUS
<1>6. p \in {"install", "end", "remove"}
  BY <1>5 DEF AfterRemoval
<1>7. QED
  BY <1>2, <1>3, <1>4, <1>5, <1>6, GotoTyped DEF CheckReaders

\* `RemoveFile`.
LEMMA RemoveTyped == ASSUME Typed, RemoveFile PROVE Typed'
<1>1. TypeOK /\ StepOK /\ OutOK
  BY DEF Typed
<1>2. TaskOK' /\ StepOK'
  BY <1>1, RemoveFileType
<1>3. task.pc = "remove" /\ task.pc \in Running
  BY DEF RemoveFile, Running
<1>4. task \in Task
  BY <1>1, <1>3, At
<1>5. UNCHANGED <<config, vault, said, dropped, kept, calls, writes>>
  BY DEF RemoveFile
<1>6. CASE UNCHANGED task
  <2>1. OutOK'
    BY <1>1, <1>5, <1>6 DEF OutOK
  <2>2. disk' \in [Files -> Seq(Lines) \cup {None}] /\ retired' \subseteq Files
    <3>1. CASE UNCHANGED <<disk, retired>>
      BY <1>1, <3>1, TypeGives
    <3>2. CASE \E f \in Range(task.found) : disk' = [disk EXCEPT ![f] = None] /\ retired' = retired \cup {f}
      <4>1. Range(task.found) \subseteq Files
        BY <1>4, FieldsOf, RangeAt
      <4>2. QED
        BY <1>1, <3>2, <4>1, TypeGives
    <3>3. QED
      BY <1>1, <1>4, <3>1, <3>2, RemovedOne
  <2>3. TypeOK'
    BY <1>1, <1>2, <1>5, <2>2, TypeGives, TypeFrom
  <2>4. QED
    BY <1>2, <2>1, <2>3 DEF Typed
<1>7. CASE task' # task
  <2>1. UNCHANGED <<disk, retired>>
    BY <1>1, <1>4, <1>7, RemovedOne
  <2>2. Owes /\ task'.pc = AfterRemoval
    BY <1>4, <1>7, RemoveFields
  <2>3. OutOK'
    BY <1>1, <1>3, <1>5, <2>2, OwesOn DEF AfterRemoval
  <2>4. QED
    BY <1>1, <1>2, <1>5, <2>1, <2>3, TaskStep
<1>8. QED
  BY <1>6, <1>7

\* `AddEntry`.
LEMMA AddTyped == ASSUME Typed, NEW e \in Accounts, AddEntry(e) PROVE Typed'
<1>1. TypeOK /\ StepOK /\ OutOK
  BY DEF Typed
<1>2. UNCHANGED <<config, disk, task, said, dropped, retired, kept, calls, writes>>
  BY DEF AddEntry
<1>3. PICK a : a = [e EXCEPT !.updated = Span * calls + 1]
  OBVIOUS
<1>4. vault' = vault \cup {a} /\ \A f \in vault : f.name # e.name
  BY <1>3 DEF AddEntry
<1>5. a.name = e.name
  BY <1>3, GitAssumption DEF GitAssumption
<1>6. OneOfEachName(vault')
  BY <1>1, <1>4, <1>5, TypeGives DEF OneOfEachName
<1>7. StepOK' /\ OutOK' /\ TaskOK'
  BY <1>1, <1>2, TypeGives DEF StepOK, OutOK, TaskOK, Between, InstallsHelper
<1>8. TypeOK'
  BY <1>1, <1>2, <1>6, <1>7, TypeGives, TypeFrom
<1>9. QED
  BY <1>7, <1>8 DEF Typed

\* `GitStores`.
LEMMA GitStoresTyped == ASSUME Typed, NEW l \in Lines, GitStores(l) PROVE Typed'
<1>1. TypeOK /\ StepOK /\ OutOK
  BY DEF Typed
<1>2. UNCHANGED <<config, vault, task, said, dropped, retired, calls>>
  BY DEF GitStores
<1>3. disk' \in [Files -> Seq(Lines) \cup {None}]
      /\ kept' = {m \in kept : ~SameLogin(m, l)} \cup (IF Between THEN {} ELSE {l})
  BY <1>1, StoresType
<1>4. kept' \subseteq Lines
  BY <1>1, <1>3, TypeGives
<1>5. writes' \in 0..MaxWrites
  BY <1>1, TypeGives, GitAssumption DEF GitStores, GitAssumption
<1>6. StepOK' /\ OutOK' /\ TaskOK'
  BY <1>1, <1>2, TypeGives DEF StepOK, OutOK, TaskOK, Between, InstallsHelper
<1>7. TypeOK'
  BY <1>1, <1>2, <1>3, <1>4, <1>5, <1>6, TypeGives, TypeFrom
<1>8. QED
  BY <1>6, <1>7 DEF Typed

\* Every step keeps the types.
LEMMA TypedStep == ASSUME Typed, [Next]_vars PROVE Typed'
<1>1. CASE UNCHANGED vars
  BY <1>1 DEF vars, Typed, TypeOK, StepOK, OutOK, Between, InstallsHelper, OneOfEachName
<1>2. CASE \E c \in Commands : Start(c)
  BY <1>2, StartTyped
<1>3. CASE UnlockFails
  BY <1>3, StopsTyped DEF UnlockFails
<1>4. CASE Kill
  BY <1>4, StopsTyped DEF Kill
<1>5. CASE \E e \in Accounts : AddEntry(e)
  BY <1>5, AddTyped
<1>6. CASE \E l \in Lines : GitStores(l)
  BY <1>6, GitStoresTyped
<1>7. QED
  BY <1>1, <1>2, <1>3, <1>4, <1>5, <1>6, PlanInstallTyped, UninstallTyped, WriteConfigTyped,
     WriteFailsTyped, WriteCutTyped, EndTyped, ReadTyped, CompareTyped, ImportTyped, KeepTyped, DropTyped,
     CheckTyped, RemoveTyped, RemoveFailsTyped DEF Next

\* A task has its fields at each of its steps, the vault has one entry of a name, and a command
\* that runs has told nothing yet of the store values that are out of the config: they are those
\* of its writes and of the writes before.
THEOREM GitHelperTypes == Spec => [](TypeOK /\ StepOK /\ OutOK)
<1>1. Init => Typed
  BY TypeInit DEF Typed
<1>2. Typed /\ [Next]_vars => Typed'
  BY TypedStep
<1>3. Typed => TypeOK /\ StepOK /\ OutOK
  BY DEF Typed
<1>4. QED
  BY <1>1, <1>2, <1>3, PTL DEF Spec

-----------------------------------------------------------------------------
(* What each step changes, and the files a migrate removed *)

\* Which steps change the config, the files and the vault, and which leave writes to make.
LEMMA ConfigStep ==
    ASSUME [Next]_vars, ~WriteConfig, ~WriteCut
    PROVE  UNCHANGED config
BY DEF Next, vars, Start, PlanInstall, Uninstall, WriteFails, End, ReadStores, CompareLines,
       UnlockFails, Import, KeepSource, DropStoreHelpers, CheckReaders, RemoveFile, RemoveFails,
       Kill, AddEntry, GitStores

\* The files.
LEMMA DiskStep ==
    ASSUME [Next]_vars, ~RemoveFile, \A l \in Lines : ~GitStores(l)
    PROVE  UNCHANGED <<disk, retired, kept>>
BY DEF Next, vars, Start, PlanInstall, Uninstall, WriteFails, WriteCut, End, ReadStores, CompareLines,
       UnlockFails, Import, KeepSource, DropStoreHelpers, CheckReaders, WriteConfig, RemoveFails,
       Kill, AddEntry

\* The vault.
LEMMA VaultStep ==
    ASSUME [Next]_vars, ~Import, \A e \in Accounts : ~AddEntry(e)
    PROVE  UNCHANGED vault
BY DEF Next, vars, Start, PlanInstall, Uninstall, WriteFails, WriteCut, End, ReadStores, CompareLines,
       UnlockFails, KeepSource, DropStoreHelpers, CheckReaders, WriteConfig, RemoveFile, RemoveFails,
       Kill, GitStores

\* The steps that leave writes to make.
LEMMA PcStep ==
    ASSUME TypeOK, [Next]_vars, ~PlanInstall, ~Uninstall, ~DropStoreHelpers, ~WriteConfig
    PROVE  UNCHANGED task \/ task'.pc # "write"
<1>1. CASE \E c \in Commands : Start(c)
  BY <1>1 DEF Start
<1>2. CASE WriteFails \/ WriteCut \/ UnlockFails \/ RemoveFails \/ Kill \/ End
  BY <1>2 DEF WriteFails, WriteCut, UnlockFails, RemoveFails, Kill, End, Stops
<1>3. CASE ReadStores
  <2>1. task \in Task
    BY <1>3, At DEF ReadStores, Running
  <2>2. PICK found : found = Those(StorePaths, {f \in DOMAIN disk : disk[f] # None})
    OBVIOUS
  <2>3. Stops("failed") \/ task'.pc = "sort"
    BY <1>3, <2>1, <2>2, ReadFields, Zenon
  <2>4. QED
    BY <2>3 DEF Stops
<1>4. CASE CompareLines
  BY <1>4, At, CompareFields DEF CompareLines, Running
<1>5. CASE Import
  BY <1>5, At, ImportFields DEF Import, Running
<1>6. CASE KeepSource
  BY <1>6, At, GotoFields DEF KeepSource, Running, AfterRemoval
<1>7. CASE CheckReaders
  <2>1. task \in Task
    BY <1>7, At DEF CheckReaders, Running
  <2>2. PICK p : p \in {"remove", "install", "end"} /\ Goto(p)
    BY <1>7 DEF CheckReaders, AfterRemoval
  <2>3. QED
    BY <2>1, <2>2, GotoFields
<1>8. CASE RemoveFile
  <2>1. task \in Task
    BY <1>8, At DEF RemoveFile, Running
  <2>2. QED
    BY <1>8, <2>1, RemoveFields DEF AfterRemoval
<1>9. CASE UNCHANGED vars \/ (\E e \in Accounts : AddEntry(e)) \/ (\E l \in Lines : GitStores(l))
  BY <1>9 DEF vars, AddEntry, GitStores
<1>10. QED
  BY <1>1, <1>2, <1>3, <1>4, <1>5, <1>6, <1>7, <1>8, <1>9 DEF Next

\* A helper that git runs is a value of its config.
LEMMA EffectiveNamed ==
    ASSUME config \in ConfigType, NEW f \in Files, f \in Effective
    PROVE  Named(f)
<1>1. Helpers \in Seq(Helper)
  BY HelpersType
<1>2. PICK i \in DOMAIN Helpers : f = Helpers[i].value
  <2>1. \A n : n \in DOMAIN [i \in DOMAIN Helpers |-> Helpers[i].value] => n \in DOMAIN Helpers
    OBVIOUS
  <2>2. QED
    BY <2>1 DEF Effective
<1>3. Helpers[i] \in Range(Helpers)
  BY <1>2 DEF Range
<1>4. QED
  BY <1>2, <1>3, FilesAreValues, NamedByHelper

\* The other helpers of a list are its plain values.
LEMMA OthersPlain ==
    ASSUME NEW values \in Seq(HelperValues)
    PROVE  Others(values) = Those(values, PlainValues)
<1>1. PICK X : X = {v \in Range(values) : ~IsStore(v) /\ v # "ours"}
  OBVIOUS
<1>2. \A i \in DOMAIN values : values[i] \in X <=> values[i] \in PlainValues
  <2>1. \A i \in DOMAIN values : values[i] \in Range(values) /\ values[i] \in HelperValues
    BY DEF Range
  <2>2. QED
    BY <1>1, <2>1 DEF PlainValues
<1>3. QED
  BY <1>1, <1>2, ThoseSame DEF Others

\* A write of a plan: it is of the scope, it keeps the other helpers, and a store it leaves is
\* there, in a key that no earlier write has changed.
KeepsOthers(plan, k, local) ==
    LET w == plan[k]  there == config[w.file][w.key] IN
    /\ w.file \in Scope(local) /\ w.key \in Keys
    /\ Others(w.values) = Others(there)
    /\ \A f \in Files : f \in Range(w.values) =>
          f \in Range(there) /\ \A j \in 1..(k - 1) : Place(plan[j]) # Place(w)
\* Every write there is to make keeps the others and names no file that is not named; a file that
\* is gone is not named, nor is one that is about to go.
PlanOK == task.pc = "write" =>
              \A k \in 1..Len(task.plan) : KeepsOthers(task.plan, k, task.command.local)
RetiredOK == \A f \in retired : disk[f] = None /\ ~Named(f)
RemovalOK == task.pc = "remove" => \A f \in Range(task.found) : ~Named(f)

\* The files of a scope are git's.
LEMMA ScopeFiles == \A local \in BOOLEAN : Scope(local) \subseteq ConfigFiles
BY DEF Scope, ConfigFiles

\* The writes of `_remove_helpers` keep the others.
LEMMA RemovesKeeps ==
    ASSUME config \in ConfigType, NEW local \in BOOLEAN, NEW removed,
           \A h \in removed : h.value \notin PlainValues,
           NEW plan, Removes(plan, local, removed)
    PROVE  \A k \in 1..Len(plan) : KeepsOthers(plan, k, local)
<1>1. plan \in Seq(ConfigWrite) /\ DOMAIN plan = 1..Len(plan) /\ Len(plan) \in Nat
  BY DEF Removes
<1> SUFFICES ASSUME NEW k \in 1..Len(plan) PROVE KeepsOthers(plan, k, local)
  OBVIOUS
<1>2. PICK file, key, there, V :
        /\ file = plan[k].file /\ key = plan[k].key /\ there = config[file][key]
        /\ V = {v \in HelperValues : [file |-> file, key |-> key, value |-> v] \notin removed}
  OBVIOUS
<1>3. file \in Scope(local) /\ key \in Keys /\ plan[k].values = Those(there, V)
  <2>1. LeftAt(file, key, removed) = Those(there, V)
    BY <1>2 DEF LeftAt
  <2>2. plan[k].file \in Scope(local) /\ plan[k].key \in Keys
        /\ plan[k].values = LeftAt(plan[k].file, plan[k].key, removed)
    BY <1>1 DEF Removes
  <2>3. QED
    BY <1>2, <2>1, <2>2
<1>4. there \in Seq(HelperValues)
  BY <1>2, <1>3, ScopeFiles DEF ConfigType
<1>5. PlainValues \subseteq V
  <2>1. ASSUME NEW v \in PlainValues PROVE [file |-> file, key |-> key, value |-> v] \notin removed
    BY <2>1
  <2>2. QED
    BY <1>2, <2>1 DEF PlainValues
<1>6. Those(there, V) \in Seq(HelperValues) /\ Range(Those(there, V)) = Range(there) \cap V
  BY <1>4, ThoseType
<1>7. Others(plan[k].values) = Others(there)
  <2>1. Those(Those(there, V), PlainValues) = Those(there, V \cap PlainValues)
    BY <1>4, ThoseThose
  <2>2. V \cap PlainValues = PlainValues
    BY <1>5
  <2>3. QED
    BY <1>3, <1>4, <1>6, <2>1, <2>2, OthersPlain
<1>8. \A f : f \in Range(plan[k].values) => f \in Range(there)
  BY <1>3, <1>6
<1>9. \A j \in 1..(k - 1) : Place(plan[j]) # Place(plan[k])
  <2>1. \A j \in 1..(k - 1) : j \in DOMAIN plan /\ j # k
    BY <1>1
  <2>2. QED
    BY <1>1, <2>1 DEF Removes
<1>10. QED
  BY <1>2, <1>3, <1>7, <1>8, <1>9 DEF KeepsOthers

\* Those of `_install_helper` do.
LEMMA InstallsKeeps ==
    ASSUME config \in ConfigType, NEW local \in BOOLEAN, NEW plan, Installs(plan, local)
    PROVE  \A k \in 1..Len(plan) : KeepsOthers(plan, k, local)
<1>1. PICK file, before, rest, first, removed, values :
        /\ InsertsOurs(local, file, before, rest)
        /\ removed = OursElsewhere(local, file)
        /\ first = RemovePlan(InScope(local), removed)
        /\ values = (before \o <<"ours">>) \o rest
        /\ plan = Append(first, Write(file, "all", values, {}))
  BY DEF Installs
<1>2. removed \subseteq Range(InScope(local)) /\ \A h \in removed : h.value \notin PlainValues
  BY <1>1 DEF OursElsewhere, PlainValues
<1>3. Removes(first, local, removed)
  BY <1>1, <1>2, RemovePlanIs
<1>4. \A k \in 1..Len(first) : KeepsOthers(first, k, local)
  BY <1>2, <1>3, RemovesKeeps
<1>5. first \in Seq(ConfigWrite)
  BY <1>3 DEF Removes
<1>6. /\ Len(first) \in Nat /\ Len(plan) = Len(first) + 1
      /\ \A k \in 1..Len(first) : plan[k] = first[k]
      /\ plan[Len(plan)] = Write(file, "all", values, {})
  BY <1>1, <1>5
<1>7. ASSUME NEW k \in 1..Len(first) PROVE KeepsOthers(plan, k, local)
  <2>1. KeepsOthers(first, k, local)
    BY <1>4
  <2>2. plan[k] = first[k] /\ \A j \in 1..(k - 1) : plan[j] = first[j]
    BY <1>6
  <2>3. QED
    BY <2>1, <2>2 DEF KeepsOthers
<1>8. KeepsOthers(plan, Len(plan), local)
  <2>1. /\ file \in Scope(local) /\ before \in Seq(PlainValues) /\ rest \in Seq(PlainValues)
        /\ before \o rest = Plain(file)
    BY <1>1 DEF InsertsOurs
  <2>2. PICK S : S = PlainValues \cup {"ours"}
    OBVIOUS
  <2>3. before \in Seq(S) /\ rest \in Seq(S) /\ <<"ours">> \in Seq(S)
    BY <2>1, <2>2, SeqMonotonic
  <2>4. before \o <<"ours">> \in Seq(S)
    BY <2>3, RangeConcat
  <2>5. values \in Seq(S)
    BY <1>1, <2>3, <2>4, RangeConcat
  <2>6. S \subseteq HelperValues
    BY <2>2, GitAssumption DEF GitAssumption, PlainValues
  <2>7. values \in Seq(HelperValues)
    BY <2>5, <2>6, SeqMonotonic
  <2>8. Those(values, PlainValues) = Plain(file)
    <3>1. Those(values, PlainValues) = Those(before \o <<"ours">>, PlainValues) \o Those(rest, PlainValues)
      <4>1. PICK start : start = before \o <<"ours">>
        OBVIOUS
      <4>2. start \in Seq(S)
        BY <2>4, <4>1
      <4>3. Those(start \o rest, PlainValues) = Those(start, PlainValues) \o Those(rest, PlainValues)
        BY <2>3, <4>2, ThoseConcat
      <4>4. QED
        BY <1>1, <4>1, <4>3
    <3>2. Those(before \o <<"ours">>, PlainValues) = Those(before, PlainValues) \o Those(<<"ours">>, PlainValues)
      <4>1. PICK one : one = <<"ours">>
        OBVIOUS
      <4>2. one \in Seq(S)
        BY <2>3, <4>1
      <4>3. Those(before \o one, PlainValues) = Those(before, PlainValues) \o Those(one, PlainValues)
        BY <2>3, <4>2, ThoseConcat
      <4>4. QED
        BY <4>1, <4>3
    <3>3. Those(<<"ours">>, PlainValues) = <<>>
      <4>1. Range(<<"ours">>) \cap PlainValues = {}
        BY DEF Range, PlainValues
      <4>2. QED
        BY <2>3, <4>1, ThoseNone
    <3>4. Those(before, PlainValues) = before /\ Those(rest, PlainValues) = rest
      <4>1. Range(before) \subseteq PlainValues /\ Range(rest) \subseteq PlainValues
        BY <2>1, RangeAt
      <4>2. QED
        BY <2>1, <4>1, ThoseAll
    <3>5. before \o <<>> = before
      BY <2>1, ConcatNothing
    <3>6. QED
      BY <2>1, <3>1, <3>2, <3>3, <3>4, <3>5
  <2>9. config[file]["all"] \in Seq(HelperValues)
    BY <2>1, ScopeFiles DEF ConfigType, Keys
  <2>10. Others(values) = Others(config[file]["all"])
    BY <2>7, <2>8, <2>9, OthersPlain DEF Plain
  <2>11. \A f \in Files : f \notin Range(values)
    <3>1. Range(values) \subseteq S
      BY <2>5, RangeAt
    <3>2. \A f \in Files : f \notin S
      BY <2>2, StoresAre DEF PlainValues, Files
    <3>3. QED
      BY <3>1, <3>2
  <2>12. PICK w : w = plan[Len(plan)]
    OBVIOUS
  <2>13. w.file = file /\ w.key = "all" /\ w.values = values
    BY <1>6, <2>12 DEF Write
  <2>14. QED
    BY <2>1, <2>10, <2>11, <2>12, <2>13 DEF KeepsOthers, Keys
<1>9. QED
  <2>1. \A k \in 1..Len(plan) : k \in 1..Len(first) \/ k = Len(plan)
    BY <1>6
  <2>2. QED
    BY <1>7, <1>8, <2>1

\* What a write changes, and what is left of the plan.
WritesFirst(w) ==
    /\ w = task.plan[1] /\ w \in ConfigWrite
    /\ task \in Task /\ task.plan \in Seq(ConfigWrite) /\ Len(task.plan) \in Nat /\ Len(task.plan) >= 1
    /\ \A file \in ConfigFiles, key \in Keys :
          config'[file][key] = IF file = w.file /\ key = w.key THEN w.values ELSE config[file][key]
    /\ \/ Len(task.plan) = 1 /\ task'.pc = task.then
       \/ /\ Len(task.plan) # 1 /\ task'.pc = "write" /\ task'.then = task.then
          /\ task'.plan \in Seq(ConfigWrite) /\ Len(task'.plan) = Len(task.plan) - 1
          /\ \A k \in 1..Len(task'.plan) : k + 1 \in 1..Len(task.plan) /\ task'.plan[k] = task.plan[k + 1]

\* A write is the first of the plan.
LEMMA Written ==
    ASSUME TypeOK, WriteConfig
    PROVE  \E w : WritesFirst(w)
<1>1. task.pc = "write" /\ task.pc \in Running
  BY DEF WriteConfig, Running
<1>2. task \in Task /\ task.plan # <<>> /\ config \in ConfigType
  BY <1>1, At
<1>3. task.plan \in Seq(ConfigWrite)
  BY <1>2, FieldsOf
<1>4. Len(task.plan) \in Nat /\ Len(task.plan) >= 1 /\ Head(task.plan) = task.plan[1]
      /\ Head(task.plan) \in ConfigWrite
  BY <1>2, <1>3
<1>5. PICK w : w = Head(task.plan)
  OBVIOUS
<1>6. config' = [config EXCEPT ![w.file][w.key] = w.values]
  BY <1>5 DEF WriteConfig
<1>7. w.file \in ConfigFiles /\ w.key \in Keys /\ w \in ConfigWrite
  BY <1>4, <1>5 DEF ConfigWrite
<1>8. \A file \in ConfigFiles, key \in Keys :
        config'[file][key] = IF file = w.file /\ key = w.key THEN w.values ELSE config[file][key]
  BY <1>2, <1>6, <1>7 DEF ConfigType
<1>9. CASE Len(task.plan) = 1
  BY <1>2, <1>3, <1>4, <1>5, <1>7, <1>8, <1>9, WriteFields DEF WritesFirst
<1>10. CASE Len(task.plan) # 1
  <2>1. task'.pc = "write" /\ task'.plan = Tail(task.plan) /\ task'.then = task.then
    BY <1>10, WriteFields
  <2>2. task'.plan \in Seq(ConfigWrite) /\ Len(task'.plan) = Len(task.plan) - 1
        /\ \A k \in 1..Len(task'.plan) : k + 1 \in 1..Len(task.plan) /\ task'.plan[k] = task.plan[k + 1]
    <3>1. ASSUME NEW s \in Seq(ConfigWrite), s # <<>>
          PROVE  /\ Tail(s) \in Seq(ConfigWrite) /\ Len(Tail(s)) = Len(s) - 1
                 /\ \A k \in 1..Len(Tail(s)) : k + 1 \in 1..Len(s) /\ Tail(s)[k] = s[k + 1]
      BY <3>1
    <3>2. QED
      BY <1>2, <1>3, <2>1, <3>1
  <2>3. QED
    BY <1>2, <1>3, <1>4, <1>5, <1>7, <1>8, <1>10, <2>1, <2>2 DEF WritesFirst
<1>11. QED
  BY <1>9, <1>10

\* It keeps the others, and leaves writes that do.
LEMMA WrittenKeeps ==
    ASSUME Typed, PlanOK, WriteConfig
    PROVE  /\ \A file \in ConfigFiles, key \in Keys :
                 /\ Others(config'[file][key]) = Others(config[file][key])
                 /\ \A f \in Files : f \in Range(config'[file][key]) => f \in Range(config[file][key])
           /\ PlanOK'
<1>1. TypeOK /\ task.pc = "write"
  BY DEF Typed, WriteConfig
<1>2. PICK w : WritesFirst(w)
  BY <1>1, Written
<1>3. task.command.local \in BOOLEAN /\ task'.command = task.command
  BY <1>1, <1>2, FieldsOf, CommandFields, WriteFields DEF WritesFirst, Stays
<1>4. KeepsOthers(task.plan, 1, task.command.local)
  <2>1. 1 \in 1..Len(task.plan)
    BY <1>2 DEF WritesFirst
  <2>2. QED
    BY <1>1, <2>1 DEF PlanOK
<1>5. /\ Others(w.values) = Others(config[w.file][w.key])
      /\ \A f \in Files : f \in Range(w.values) => f \in Range(config[w.file][w.key])
  BY <1>2, <1>4 DEF KeepsOthers, WritesFirst
<1>6. ASSUME NEW file \in ConfigFiles, NEW key \in Keys
      PROVE  /\ Others(config'[file][key]) = Others(config[file][key])
             /\ \A f \in Files : f \in Range(config'[file][key]) => f \in Range(config[file][key])
  <2>1. config'[file][key] = IF file = w.file /\ key = w.key THEN w.values ELSE config[file][key]
    BY <1>2 DEF WritesFirst
  <2>2. CASE file = w.file /\ key = w.key
    BY <1>5, <2>1, <2>2
  <2>3. CASE ~(file = w.file /\ key = w.key)
    BY <2>1, <2>3
  <2>4. QED
    BY <2>2, <2>3
<1>7. PlanOK'
  <2> SUFFICES ASSUME task'.pc = "write", NEW k \in 1..Len(task'.plan)
               PROVE  KeepsOthers(task.plan, k, task.command.local)'
    BY DEF PlanOK
  <2>1. PICK local, v : local = task.command.local /\ v = task'.plan[k]
    OBVIOUS
  <2>2. task'.plan \in Seq(ConfigWrite)
    <3>1. Len(task.plan) # 1 \/ task'.pc = task.then
      BY <1>2 DEF WritesFirst
    <3>2. task.then # "write"
      BY <1>1 DEF Typed, StepOK
    <3>3. QED
      BY <1>2, <3>1, <3>2 DEF WritesFirst
  <2>3. /\ Len(task'.plan) = Len(task.plan) - 1
        /\ \A j \in 1..Len(task'.plan) : j + 1 \in 1..Len(task.plan) /\ task'.plan[j] = task.plan[j + 1]
    <3>1. task.then # "write"
      BY <1>1 DEF Typed, StepOK
    <3>2. QED
      BY <1>2, <3>1 DEF WritesFirst
  <2>4. KeepsOthers(task.plan, k + 1, local) /\ v = task.plan[k + 1]
    BY <1>1, <2>1, <2>3 DEF PlanOK
  <2>5. /\ v.file \in Scope(local) /\ v.key \in Keys
        /\ Others(v.values) = Others(config[v.file][v.key])
        /\ \A f \in Files : f \in Range(v.values) =>
              /\ f \in Range(config[v.file][v.key])
              /\ \A j \in 1..k : Place(task.plan[j]) # Place(v)
    <3>1. (k + 1) - 1 = k
      BY <2>2
    <3>2. QED
      BY <2>4, <3>1 DEF KeepsOthers
  <2>6. v.file \in ConfigFiles
    BY <1>3, <2>1, <2>5, ScopeFiles
  <2>7. Others(v.values) = Others(config'[v.file][v.key])
    BY <1>6, <2>5, <2>6
  <2>8. ASSUME NEW f \in Files, f \in Range(v.values)
        PROVE  /\ f \in Range(config'[v.file][v.key])
               /\ \A j \in 1..(k - 1) : Place(task'.plan[j]) # Place(v)
    <3>1. f \in Range(config[v.file][v.key]) /\ \A j \in 1..k : Place(task.plan[j]) # Place(v)
      BY <2>5, <2>8
    <3>2. Place(w) # Place(v)
      <4>1. 1 \in 1..k
        BY <2>2
      <4>2. QED
        BY <1>2, <3>1, <4>1 DEF WritesFirst
    <3>3. config'[v.file][v.key] = config[v.file][v.key]
      <4>1. ~(v.file = w.file /\ v.key = w.key)
        BY <3>2 DEF Place
      <4>2. QED
        BY <1>2, <2>5, <2>6, <4>1 DEF WritesFirst
    <3>4. \A j \in 1..(k - 1) : j + 1 \in 1..k /\ task'.plan[j] = task.plan[j + 1]
      BY <2>2, <2>3
    <3>5. QED
      BY <3>1, <3>3, <3>4
  <2>9. QED
    BY <1>3, <2>1, <2>5, <2>7, <2>8 DEF KeepsOthers
<1>8. QED
  BY <1>6, <1>7

\* A prefix has the first elements.
LEMMA PrefixAt ==
    ASSUME NEW S, NEW a \in Seq(S), NEW b \in Seq(S)
    PROVE  IsPrefix(a, b) <=> Len(a) <= Len(b) /\ \A i \in 1..Len(a) : a[i] = b[i]
<1>1. Len(a) \in Nat /\ Len(b) \in Nat
  OBVIOUS
<1>2. CASE Len(a) <= Len(b)
  <2>1. PICK m, c, d : m = Len(a) /\ c = SubSeq(a, 1, m) /\ d = SubSeq(b, 1, m)
    OBVIOUS
  <2>2. c \in Seq(S) /\ Len(c) = m /\ \A i \in 1..m : c[i] = a[i]
    BY <1>1, <2>1
  <2>3. d \in Seq(S) /\ Len(d) = m /\ \A i \in 1..m : d[i] = b[i]
    BY <1>1, <1>2, <2>1
  <2>4. c = d <=> \A i \in 1..m : c[i] = d[i]
    BY <2>2, <2>3
  <2>5. QED
    BY <1>2, <2>1, <2>2, <2>3, <2>4 DEF IsPrefix
<1>3. CASE ~(Len(a) <= Len(b))
  BY <1>3 DEF IsPrefix
<1>4. QED
  BY <1>2, <1>3

\* The others of the first values are the first of the others.
LEMMA OthersOfFirst ==
    ASSUME NEW values \in Seq(HelperValues), NEW n \in 1..Len(values)
    PROVE  IsPrefix(Others(SubSeq(values, 1, n)), Others(values))
<1> DEFINE O(s) == Those(s, PlainValues)
           T == {s \in Seq(HelperValues) : \A k \in 0..Len(s) : IsPrefix(O(SubSeq(s, 1, k)), O(s))}
<1>1. \A s \in Seq(HelperValues) : O(s) \in Seq(HelperValues) /\ IsPrefix(O(s), O(s))
  <2>1. \A s \in Seq(HelperValues) : O(s) \in Seq(HelperValues)
    BY ThoseType
  <2>2. \A t \in Seq(HelperValues) : Len(t) \in Nat /\ IsPrefix(t, t)
    BY PrefixAt
  <2>3. QED
    BY <2>1, <2>2
<1>2. <<>> \in T
  <2>1. <<>> \in Seq(HelperValues) /\ \A k \in 0..Len(<<>>) : SubSeq(<<>>, 1, k) = <<>>
    OBVIOUS
  <2> HIDE DEF O
  <2>2. QED
    BY <1>1, <2>1
<1>3. ASSUME NEW s \in Seq(HelperValues), s \in T, NEW x \in HelperValues PROVE Append(s, x) \in T
  <2>1. PICK t : t = Append(s, x)
    OBVIOUS
  <2>2. t \in Seq(HelperValues) /\ Len(t) = Len(s) + 1 /\ Len(s) \in Nat
    BY <2>1
  <2>3. SUFFICES ASSUME NEW k \in 0..Len(t) PROVE IsPrefix(O(SubSeq(t, 1, k)), O(t))
    BY <2>1, <2>2
  <2>4. CASE k = Len(t)
    <3>1. SubSeq(t, 1, k) = t
      BY <2>2, <2>4
    <3> HIDE DEF O
    <3>2. QED
      BY <1>1, <2>2, <3>1
  <2>5. CASE k # Len(t)
    <3>1. k \in 0..Len(s)
      BY <2>2, <2>5
    <3>2. SubSeq(t, 1, k) = SubSeq(s, 1, k) /\ SubSeq(s, 1, k) \in Seq(HelperValues)
      BY <2>1, <3>1
    <3>3. IsPrefix(O(SubSeq(s, 1, k)), O(s))
      BY <1>3, <3>1
    <3>4. PICK a, b, c : a = O(SubSeq(s, 1, k)) /\ b = O(s) /\ c = O(t)
      OBVIOUS
    <3>5. a \in Seq(HelperValues) /\ b \in Seq(HelperValues) /\ c \in Seq(HelperValues)
      <4> HIDE DEF O
      <4>1. QED
        BY <1>1, <2>2, <3>2, <3>4
    <3>6. c = b \/ c = Append(b, x)
      BY <2>1, <3>4, ThoseAppend
    <3>7. Len(a) <= Len(b) /\ \A i \in 1..Len(a) : a[i] = b[i]
      <4>1. IsPrefix(a, b)
        BY <3>3, <3>4
      <4>2. QED
        BY <3>5, <4>1, PrefixAt
    <3>8. Len(a) <= Len(c) /\ \A i \in 1..Len(a) : a[i] = c[i]
      <4>1. Len(a) \in Nat /\ Len(b) \in Nat
        BY <3>5
      <4>2. Len(b) <= Len(c) /\ \A i \in 1..Len(b) : c[i] = b[i]
        <5>1. CASE c = b
          BY <4>1, <5>1
        <5>2. CASE c = Append(b, x)
          BY <3>5, <4>1, <5>2, AppendProperties
        <5>3. QED
          BY <3>6, <5>1, <5>2
      <4>3. Len(c) \in Nat
        BY <3>5
      <4>4. QED
        BY <3>7, <4>1, <4>2, <4>3
    <3>9. IsPrefix(a, c)
      BY <3>5, <3>8, PrefixAt
    <3>10. QED
      BY <3>2, <3>4, <3>9
  <2>6. QED
    BY <2>4, <2>5
<1>4. Seq(HelperValues) \subseteq T
  <2> HIDE DEF T
  <2>1. QED
    BY <1>2, <1>3, SeqInduction
<1>5. n \in 0..Len(values) /\ SubSeq(values, 1, n) \in Seq(HelperValues)
  OBVIOUS
<1>6. IsPrefix(O(SubSeq(values, 1, n)), O(values))
  BY <1>4, <1>5
<1>7. QED
  BY <1>5, <1>6, OthersPlain

\* A write that is cut loses the others after a place, names no other file, and has nothing more to
\* make.
LEMMA CutKeeps ==
    ASSUME Typed, PlanOK, WriteCut
    PROVE  /\ \A file \in ConfigFiles, key \in Keys :
                 /\ IsPrefix(Others(config'[file][key]), Others(config[file][key]))
                 /\ \A f \in Files : f \in Range(config'[file][key]) => f \in Range(config[file][key])
           /\ PlanOK'
<1>1. TypeOK /\ task.pc = "write" /\ task'.pc \in {"cut", "killed"}
  BY CutStops DEF Typed
<1>2. PICK w, n, left : WrittenInPart(w, n, left)
  BY <1>1, Cut
<1>3. KeepsOthers(task.plan, 1, task.command.local)
  <2>1. 1 \in 1..Len(task.plan)
    BY <1>2 DEF WrittenInPart
  <2>2. QED
    BY <1>1, <2>1 DEF PlanOK
<1>4. /\ Others(w.values) = Others(config[w.file][w.key])
      /\ \A f \in Files : f \in Range(w.values) => f \in Range(config[w.file][w.key])
  BY <1>2, <1>3 DEF KeepsOthers, WrittenInPart
<1>5. /\ IsPrefix(Others(left), Others(w.values)) /\ Range(left) \subseteq Range(w.values)
  <2>1. w.values \in Seq(HelperValues) /\ n \in 1..Len(w.values) /\ left = SubSeq(w.values, 1, n)
        /\ Range(left) \subseteq Range(w.values)
    BY <1>2 DEF WrittenInPart, ConfigWrite
  <2>2. QED
    BY <2>1, OthersOfFirst
<1>6. ASSUME NEW file \in ConfigFiles, NEW key \in Keys
      PROVE  /\ IsPrefix(Others(config'[file][key]), Others(config[file][key]))
             /\ \A f \in Files : f \in Range(config'[file][key]) => f \in Range(config[file][key])
  <2>1. config'[file][key] = IF file = w.file /\ key = w.key THEN left ELSE config[file][key]
    BY <1>2 DEF WrittenInPart
  <2>2. CASE file = w.file /\ key = w.key
    BY <1>4, <1>5, <2>1, <2>2
  <2>3. CASE ~(file = w.file /\ key = w.key)
    <3>1. config'[file][key] = config[file][key] /\ config[file][key] \in Seq(HelperValues)
      BY <1>1, <2>1, <2>3, TypeGives DEF ConfigType
    <3>2. Others(config[file][key]) \in Seq(HelperValues)
      BY <3>1, OthersPlain, ThoseType
    <3>3. IsPrefix(Others(config[file][key]), Others(config[file][key]))
      BY <3>2, PrefixAt
    <3>4. QED
      BY <3>1, <3>3
  <2>4. QED
    BY <2>2, <2>3
<1>7. PlanOK'
  BY <1>1 DEF PlanOK
<1>8. QED
  BY <1>6, <1>7

\* So do writes that are planned.
LEMMA PlansOn ==
    ASSUME UNCHANGED config, NEW plan, NEW then, NEW local, task.command.local = local, task \in Task, task.plan = <<>>,
           Planned(plan, then), then # "write",
           \A k \in 1..Len(plan) : KeepsOthers(plan, k, local)
    PROVE  PlanOK'
<1>1. task'.command = task.command
      /\ (task'.pc = "write" => task'.plan = plan)
  BY PlannedFields, Zenon DEF Stays
<1>2. QED
  BY <1>1 DEF PlanOK, KeepsOthers

\* What an uninstall and a migrate take out is no other helper.
LEMMA TakesOut ==
    ASSUME config \in ConfigType, NEW local \in BOOLEAN
    PROVE  /\ \A h \in {h \in Range(InScope(local)) : h.key = "all" /\ h.value = "ours"} : h.value \notin PlainValues
           /\ \A files \in SUBSET Files :
                 \A h \in {h \in Range(InScope(local)) : StoreFiles(h.value) \cap files # {}} :
                    h.value \notin PlainValues
BY DEF PlainValues, IsStore

\* The three.
FilesInv == PlanOK /\ RetiredOK /\ RemovalOK

\* Every step keeps PlanOK.
LEMMA PlanStep ==
    ASSUME Typed, PlanOK, [Next]_vars
    PROVE  PlanOK'
<1>1. TypeOK
  BY DEF Typed
<1>2. CASE PlanInstall
  <2>1. task.pc = "install" /\ task.pc \in Running /\ UNCHANGED config
    BY <1>2 DEF PlanInstall, Running
  <2>2. task \in Task /\ task.plan = <<>> /\ config \in ConfigType /\ task.command.local \in BOOLEAN
    BY <1>1, <2>1, At
  <2>3. PICK local, plan : local = task.command.local /\ plan = InstallPlan(InScope(local), local)
    OBVIOUS
  <2>4. \A k \in 1..Len(plan) : KeepsOthers(plan, k, local)
    BY <2>2, <2>3, InstallPlanIs, InstallsKeeps
  <2>5. Planned(plan, "end")
    BY <1>2, <2>3 DEF PlanInstall
  <2>6. QED
    BY <2>1, <2>2, <2>3, <2>4, <2>5, PlansOn
<1>3. CASE Uninstall
  <2>1. task.pc = "uninstall" /\ task.pc \in Running /\ UNCHANGED config
    BY <1>3 DEF Uninstall, Running
  <2>2. task \in Task /\ task.plan = <<>> /\ config \in ConfigType /\ task.command.local \in BOOLEAN
    BY <1>1, <2>1, At
  <2>3. PICK local, removed, plan :
           /\ local = task.command.local
           /\ removed = {h \in Range(InScope(local)) : h.key = "all" /\ h.value = "ours"}
           /\ plan = RemovePlan(InScope(local), removed)
    OBVIOUS
  <2>4. removed \subseteq Range(InScope(local)) /\ local \in BOOLEAN
    BY <2>2, <2>3
  <2>5. Removes(plan, local, removed)
    BY <2>2, <2>3, <2>4, RemovePlanIs
  <2>6. \A h \in removed : h.value \notin PlainValues
    BY <2>3 DEF PlainValues
  <2>7. \A k \in 1..Len(plan) : KeepsOthers(plan, k, local)
    BY <2>2, <2>4, <2>5, <2>6, RemovesKeeps
  <2>8. Planned(plan, "end")
    BY <1>3, <2>3 DEF Uninstall
  <2>9. QED
    BY <2>1, <2>2, <2>3, <2>7, <2>8, PlansOn
<1>4. CASE DropStoreHelpers
  <2>1. task.pc = "ask" /\ task.pc \in Running /\ UNCHANGED config
    BY <1>4 DEF DropStoreHelpers, Running
  <2>2. task \in Task /\ task.plan = <<>> /\ config \in ConfigType /\ task.command.local = FALSE
    <3>1. task \in Task /\ task.plan = <<>> /\ config \in ConfigType
      BY <1>1, <2>1, At
    <3>2. task.command.cmd = "migrate" /\ task.command \in Commands
      BY <2>1, <3>1, FieldsOf DEF Typed, StepOK, Between
    <3>3. QED
      BY <3>1, <3>2, CommandFields
  <2>3. PICK removed, plan :
           /\ removed = {h \in Range(InScope(FALSE)) : StoreFiles(h.value) \cap Range(task.paths) # {}}
           /\ plan = RemovePlan(InScope(FALSE), removed)
    OBVIOUS
  <2>4. removed \subseteq Range(InScope(FALSE))
    BY <2>3
  <2>5. Removes(plan, FALSE, removed)
    BY <2>2, <2>3, <2>4, RemovePlanIs
  <2>6. \A h \in removed : h.value \notin PlainValues
    BY <2>3 DEF PlainValues, IsStore
  <2>7. \A k \in 1..Len(plan) : KeepsOthers(plan, k, FALSE)
    BY <2>2, <2>4, <2>5, <2>6, RemovesKeeps
  <2>8. Planned(plan, "check")
    BY <1>4, <2>3 DEF DropStoreHelpers
  <2>9. QED
    BY <2>1, <2>2, <2>7, <2>8, PlansOn
<1>5. CASE WriteConfig
  BY <1>5, WrittenKeeps
<1>6. CASE ~(PlanInstall \/ Uninstall \/ DropStoreHelpers \/ WriteConfig \/ WriteCut)
  <2>1. UNCHANGED config /\ (UNCHANGED task \/ task'.pc # "write")
    BY <1>1, <1>6, ConfigStep, PcStep
  <2>2. QED
    BY <2>1 DEF PlanOK, KeepsOthers
<1>7. CASE WriteCut
  BY <1>7, CutKeeps
<1>8. QED
  BY <1>2, <1>3, <1>4, <1>5, <1>6, <1>7

\* No write names a file that was not named.
LEMMA NamedStep ==
    ASSUME Typed, PlanOK, [Next]_vars, NEW f \in Files
    PROVE  /\ Named(f)' => Named(f)
           /\ \A files \in SUBSET ConfigFiles : NamedIn(files, f)' => NamedIn(files, f)
<1>1. CASE WriteConfig
  <2>1. \A file \in ConfigFiles, key \in Keys : f \in Range(config'[file][key]) => f \in Range(config[file][key])
    BY <1>1, WrittenKeeps
  <2>2. QED
    BY <2>1 DEF Named, NamedIn
<1>2. CASE WriteCut
  <2>1. \A file \in ConfigFiles, key \in Keys : f \in Range(config'[file][key]) => f \in Range(config[file][key])
    BY <1>2, CutKeeps
  <2>2. QED
    BY <2>1 DEF Named, NamedIn
<1>3. CASE ~WriteConfig /\ ~WriteCut
  <2>1. UNCHANGED config
    BY <1>3, ConfigStep
  <2>2. QED
    BY <2>1 DEF Named, NamedIn
<1>4. QED
  BY <1>1, <1>2, <1>3

\* A file that is gone is not written: git runs no helper that names it.
LEMMA RetiredStep ==
    ASSUME Typed, FilesInv, [Next]_vars
    PROVE  RetiredOK'
<1>1. TypeOK /\ retired \subseteq Files /\ config \in ConfigType /\ disk \in [Files -> Seq(Lines) \cup {None}]
  BY TypeGives DEF Typed
<1>2. \A f \in Files : Named(f)' => Named(f)
  BY NamedStep DEF FilesInv
<1>3. CASE RemoveFile
  <2>1. task.pc = "remove" /\ task.pc \in Running
    BY <1>3 DEF RemoveFile, Running
  <2>2. task \in Task
    BY <1>1, <2>1, At
  <2>3. CASE UNCHANGED <<disk, retired>>
    BY <1>1, <1>2, <2>3 DEF FilesInv, RetiredOK
  <2>4. CASE \E f \in Range(task.found) : disk' = [disk EXCEPT ![f] = None] /\ retired' = retired \cup {f}
    <3>1. Range(task.found) \subseteq Files
      BY <2>2, FieldsOf, RangeAt
    <3>2. \A f \in Range(task.found) : ~Named(f)
      BY <2>1 DEF FilesInv, RemovalOK
    <3>3. QED
      BY <1>1, <1>2, <2>4, <3>1, <3>2 DEF FilesInv, RetiredOK
  <2>5. QED
    BY <1>1, <1>3, <2>2, <2>3, <2>4, RemovedOne
<1>4. CASE \E l \in Lines : GitStores(l)
  <2>1. PICK l \in Lines : GitStores(l)
    BY <1>4
  <2>2. retired' = retired /\ \A f \in Files : disk'[f] # disk[f] => f \in Effective
    BY <1>1, <2>1, StoresType DEF GitStores
  <2>3. \A f \in retired : disk'[f] = disk[f]
    BY <1>1, <2>2, EffectiveNamed DEF FilesInv, RetiredOK
  <2>4. QED
    BY <1>1, <1>2, <2>2, <2>3 DEF FilesInv, RetiredOK
<1>5. CASE ~RemoveFile /\ \A l \in Lines : ~GitStores(l)
  <2>1. UNCHANGED <<disk, retired>>
    BY <1>5, DiskStep
  <2>2. QED
    BY <1>1, <1>2, <2>1 DEF FilesInv, RetiredOK
<1>6. QED
  BY <1>3, <1>4, <1>5

\* Where each step takes a command.
Moved ==
    \/ UNCHANGED task
    \/ task'.pc \in {"failed", "cut", "killed"}
    \/ (\E c \in Commands : Start(c)) /\ task'.pc \in {"install", "uninstall", "read"}
    \/ /\ PlanInstall \/ Uninstall
       /\ task'.pc \in {"write", "end"} /\ (task'.pc = "write" => task'.then = "end")
    \/ WriteConfig /\ (task'.pc = task.then \/ (task'.pc = "write" /\ task'.then = task.then))
    \/ End /\ task'.pc = "ok"
    \/ ReadStores /\ task'.pc = "sort"
    \/ CompareLines /\ task'.pc = "import"
    \/ Import /\ task'.pc = "ask"
    \/ KeepSource /\ task'.pc = AfterRemoval
    \/ DropStoreHelpers /\ (task'.pc = "check" \/ (task'.pc = "write" /\ task'.then = "check"))
    \/ CheckReaders /\ task'.pc = (IF StillRead(Range(task.found)) THEN AfterRemoval ELSE "remove")
    \/ RemoveFile /\ task'.pc = AfterRemoval

\* Every step is one of these.
LEMMA Moves ==
    ASSUME Typed, [Next]_vars
    PROVE  Moved
<1>1. TypeOK
  BY DEF Typed
<1>2. CASE \E c \in Commands : Start(c)
  <2>1. PICK c \in Commands : Start(c)
    BY <1>2
  <2>2. task'.pc \in {"install", "uninstall", "read"}
    BY <2>1 DEF Start
  <2>3. QED
    BY <1>2, <2>2 DEF Moved
<1>3. CASE PlanInstall \/ Uninstall
  <2>1. task \in Task /\ task.plan = <<>>
    BY <1>1, <1>3, At DEF PlanInstall, Uninstall, Running
  <2>2. PICK plan : Planned(plan, "end")
    BY <1>3 DEF PlanInstall, Uninstall
  <2>3. (task'.pc = "end" \/ (task'.pc = "write" /\ task'.then = "end"))
    BY <2>1, <2>2, PlannedFields, Zenon
  <2>4. QED
    BY <1>3, <2>3 DEF Moved
<1>4. CASE WriteConfig
  BY <1>1, <1>4, WriteFields DEF Moved
<1>5. CASE WriteFails \/ WriteCut \/ UnlockFails \/ RemoveFails \/ Kill
  BY <1>5 DEF WriteFails, WriteCut, UnlockFails, RemoveFails, Kill, Stops, Moved
<1>6. CASE End
  BY <1>6, EndFields DEF Moved
<1>7. CASE ReadStores
  <2>1. task \in Task
    BY <1>1, <1>7, At DEF ReadStores, Running
  <2>2. PICK found : found = Those(StorePaths, {f \in DOMAIN disk : disk[f] # None})
    OBVIOUS
  <2>3. Stops("failed") \/ task'.pc = "sort"
    BY <1>7, <2>1, <2>2, ReadFields, Zenon
  <2>4. QED
    BY <1>7, <2>3 DEF Stops, Moved
<1>8. CASE CompareLines
  BY <1>1, <1>8, At, CompareFields DEF CompareLines, Running, Moved
<1>9. CASE Import
  BY <1>1, <1>9, At, ImportFields DEF Import, Running, Moved
<1>10. CASE KeepSource
  BY <1>1, <1>10, At, GotoFields DEF KeepSource, Running, Moved
<1>11. CASE DropStoreHelpers
  <2>1. task \in Task /\ task.plan = <<>>
    BY <1>1, <1>11, At DEF DropStoreHelpers, Running
  <2>2. PICK plan : Planned(plan, "check")
    BY <1>11 DEF DropStoreHelpers
  <2>3. task'.pc = "check" \/ (task'.pc = "write" /\ task'.then = "check")
    BY <2>1, <2>2, PlannedFields, Zenon
  <2>4. QED
    BY <1>11, <2>3 DEF Moved
<1>12. CASE CheckReaders
  <2>1. task \in Task
    BY <1>1, <1>12, At DEF CheckReaders, Running
  <2>2. PICK p : p = (IF StillRead(Range(task.found)) THEN AfterRemoval ELSE "remove")
    OBVIOUS
  <2>3. task'.pc = p
    BY <1>12, <2>1, <2>2, GotoFields DEF CheckReaders
  <2>4. QED
    BY <1>12, <2>2, <2>3 DEF Moved
<1>13. CASE RemoveFile
  <2>1. task \in Task
    BY <1>1, <1>13, At DEF RemoveFile, Running
  <2>2. QED
    BY <1>13, <2>1, RemoveFields DEF Moved
<1>14. CASE UNCHANGED vars \/ (\E e \in Accounts : AddEntry(e)) \/ (\E l \in Lines : GitStores(l))
  BY <1>14 DEF vars, AddEntry, GitStores, Moved
<1>15. QED
  BY <1>2, <1>3, <1>4, <1>5, <1>6, <1>7, <1>8, <1>9, <1>10, <1>11, <1>12, <1>13, <1>14 DEF Next

\* A file is about to go when no helper of any scope names it.
LEMMA RemovalStep ==
    ASSUME Typed, FilesInv, [Next]_vars
    PROVE  RemovalOK'
<1> SUFFICES ASSUME task'.pc = "remove" PROVE \A f \in Range(task'.found) : ~Named(f)'
  BY DEF RemovalOK
<1>1. TypeOK /\ config \in ConfigType
  BY TypeGives DEF Typed
<1>3. UNCHANGED task \/ CheckReaders
  <2>1. WriteConfig => task.then # "remove"
    BY DEF WriteConfig, Typed, StepOK
  <2>2. AfterRemoval # "remove"
    BY DEF AfterRemoval
  <2>3. Moved
    BY Moves
  <2>4. QED
    BY <2>1, <2>2, <2>3 DEF Moved
<1>4. CASE UNCHANGED task
  <2>1. task \in Task
    BY <1>1, <1>4, At DEF Running
  <2>2. Range(task.found) \subseteq Files
    BY <2>1, FieldsOf, RangeAt
  <2>3. QED
    BY <1>4, <2>2, NamedStep DEF FilesInv, RemovalOK
<1>5. CASE CheckReaders
  <2>1. task \in Task /\ UNCHANGED config
    BY <1>1, <1>5, At DEF CheckReaders, Running
  <2>2. task'.found = task.found /\ ~StillRead(Range(task.found))
    <3>1. PICK p : p = (IF StillRead(Range(task.found)) THEN AfterRemoval ELSE "remove")
      OBVIOUS
    <3>2. task'.pc = p /\ task'.found = task.found
      BY <1>5, <2>1, <3>1, GotoFields DEF CheckReaders, Stays
    <3>3. QED
      BY <3>1, <3>2 DEF AfterRemoval
  <2>3. Range(task.found) \subseteq Files
    BY <2>1, FieldsOf, RangeAt
  <2>4. ASSUME NEW f \in Range(task.found) PROVE ~Named(f)
    <3>1. f \in Files
      BY <2>3
    <3>2. \A h \in Range(Helpers) : h.value # f
      BY <2>2, <2>4, <3>1, StoresAre DEF StillRead
    <3>3. QED
      BY <1>1, <3>1, <3>2, NamedByHelper, FilesAreValues
  <2>5. QED
    BY <2>1, <2>2, <2>4 DEF Named
<1>6. QED
  BY <1>3, <1>4, <1>5

\* Every step keeps the three.
LEMMA FilesInvStep == ASSUME Typed, FilesInv, [Next]_vars PROVE FilesInv'
BY PlanStep, RetiredStep, RemovalStep DEF FilesInv

\* A behaviour begins with them.
LEMMA FilesInvInit == Init => FilesInv
BY DEF Init, Idle, FilesInv, PlanOK, RetiredOK, RemovalOK

\* They always hold.
LEMMA FilesInvAlways == Spec => [](Typed /\ FilesInv)
<1>1. Init => Typed /\ FilesInv
  BY TypeInit, FilesInvInit DEF Typed
<1>2. Typed /\ FilesInv /\ [Next]_vars => (Typed /\ FilesInv)'
  BY TypedStep, FilesInvStep
<1>3. QED
  BY <1>1, <1>2, PTL DEF Spec

\* A file that a migrate removed stays away: no later command, no kill and no credential git
\* stores makes it again, whatever the helpers of the three config files were.
THEOREM NoFileComesBack == Spec => []RemovedStaysRemoved
<1>1. Typed /\ FilesInv => RemovedStaysRemoved
  BY DEF FilesInv, RetiredOK, RemovedStaysRemoved
<1>2. QED
  BY <1>1, FilesInvAlways, PTL

\* No step of any command changes another's helper or its order in its file, whatever is
\* installed, removed, migrated, interrupted or failed; but the last step of a command whose write
\* stops after some values of a key loses those after them, and it keeps the order of the others.
THEOREM OtherHelpersAreKept == Spec => OthersAreKept
<1> DEFINE Same == OtherValues(config') = OtherValues(config)
           Lost == /\ task'.pc \in {"cut", "killed"}
                   /\ \A f \in ConfigFiles : \A key \in Keys :
                         IsPrefix(Others(config'[f][key]), Others(config[f][key]))
<1>1. Typed /\ FilesInv /\ [Next]_vars => [Same \/ Lost]_vars
  <2> SUFFICES ASSUME Typed, FilesInv, [Next]_vars PROVE Same \/ Lost
    OBVIOUS
  <2>1. CASE WriteConfig
    <3>1. \A file \in ConfigFiles, key \in Keys : Others(config'[file][key]) = Others(config[file][key])
      BY <2>1, WrittenKeeps DEF FilesInv
    <3>2. \A file \in ConfigFiles, key \in {"all", "url"} : Others(config'[file][key]) = Others(config[file][key])
      BY <3>1 DEF Keys
    <3>3. QED
      BY <3>2, Zenon DEF OtherValues
  <2>2. CASE WriteCut
    BY <2>2, CutStops, CutKeeps DEF FilesInv
  <2>3. CASE ~WriteConfig /\ ~WriteCut
    BY <2>3, ConfigStep
  <2>4. QED
    BY <2>1, <2>2, <2>3
<1>2. QED
  BY <1>1, FilesInvAlways, PTL DEF Spec, OthersAreKept

-----------------------------------------------------------------------------
(* No credential is lost *)

\* What a migrate knows of the lines: at each of its steps, those it read have those to keep, the
\* vault or the lines to add have those it read, and the vault has them all before a file goes.
InVault(l) == \E e \in vault : e.value = l.value /\ e.user = l.user
\* The vault has every line: the values of the files are going, or the files are.
Dropping == task.pc \in {"check", "remove"} \/ (task.pc = "write" /\ task.then = "check")
\* Those that are read have the lines to keep.
ReadOK == Between => \A f \in Range(task.found), l \in kept :
             disk[f] # None /\ l \in Range(disk[f]) => l \in Range(task.items)
\* The vault or the lines to add have those that are read.
SortedOK == task.pc = "import" /\ ~task.blocked =>
    \A l \in Range(Imported(task.items)) :
        InVault(l) \/ \E m \in Range(task.fresh) : m.value = l.value /\ m.user = l.user
\* The vault has them.
ImportedOK ==
    /\ task.pc = "ask" /\ ~task.blocked => \A l \in Range(Imported(task.items)) : InVault(l)
    /\ Dropping => \A l \in Range(task.items) : InVault(l)
\* What keeps every credential.
LinesInv == ReadOK /\ SortedOK /\ ImportedOK /\ NothingLost

\* The lines that are imported are those that are no certificate's.
LEMMA ImportedType ==
    ASSUME NEW items \in Seq(Lines)
    PROVE  /\ Imported(items) \in Seq(Lines)
           /\ Range(Imported(items)) = {l \in Range(items) : ~IsCert(l)}
<1>1. PICK X : X = {l \in Range(items) : ~IsCert(l)}
  OBVIOUS
<1>2. Those(items, X) \in Seq(Lines) /\ Range(Those(items, X)) = Range(items) \cap X
  BY ThoseType
<1>3. QED
  BY <1>1, <1>2 DEF Imported

\* No entry of the vault goes.
LEMMA VaultGrows ==
    ASSUME [Next]_vars
    PROVE  /\ vault \subseteq vault'
           /\ \A l : InVault(l) => InVault(l)'
<1>1. vault \subseteq vault'
  <2>1. CASE Import
    BY <2>1 DEF Import
  <2>2. CASE \E e \in Accounts : AddEntry(e)
    BY <2>2 DEF AddEntry
  <2>3. QED
    BY <2>1, <2>2, VaultStep
<1>2. QED
  BY <1>1 DEF InVault

\* The steps of a migrate between its read and the removal.
LEMMA BetweenStep ==
    ASSUME Typed, [Next]_vars, Between'
    PROVE  \/ UNCHANGED task
           \/ ReadStores /\ task'.pc = "sort"
           \/ Between /\ Stays /\ task.pc \in Running
<1>1. TypeOK /\ (task.pc = "write" => task.then \in {"end", "check"})
  BY DEF Typed, StepOK
<1>2. Moved
  BY Moves
<1>3. task'.pc \in {"sort", "import", "ask", "check", "remove", "write"}
      /\ (task'.pc = "write" => task'.then = "check")
  BY DEF Between
<1>4. \/ UNCHANGED task
      \/ ReadStores /\ task'.pc = "sort"
      \/ WriteConfig \/ CompareLines \/ Import \/ DropStoreHelpers \/ CheckReaders
  BY <1>2, <1>3, Zenon DEF Moved, AfterRemoval
<1>5. CASE WriteConfig
  <2>1. task.pc = "write" /\ (task'.pc = task.then \/ (task'.pc = "write" /\ task'.then = task.then))
    BY <1>1, <1>5, WriteFields DEF WriteConfig
  <2>2. Stays
    BY <1>1, <1>5, WriteFields
  <2>3. QED
    BY <1>1, <1>3, <2>1, <2>2 DEF Between, Running
<1>6. CASE CompareLines
  BY <1>1, <1>6, At, CompareFields DEF CompareLines, Running, Between
<1>7. CASE Import
  BY <1>1, <1>7, At, ImportFields DEF Import, Running, Between
<1>8. CASE DropStoreHelpers
  <2>1. task \in Task /\ task.plan = <<>> /\ task.pc = "ask"
    BY <1>1, <1>8, At DEF DropStoreHelpers, Running
  <2>2. PICK plan : Planned(plan, "check")
    BY <1>8 DEF DropStoreHelpers
  <2>3. Stays
    BY <2>1, <2>2, PlannedFields, Zenon
  <2>4. QED
    BY <2>1, <2>3 DEF Running, Between
<1>9. CASE CheckReaders
  <2>1. task \in Task /\ task.pc = "check"
    BY <1>1, <1>9, At DEF CheckReaders, Running
  <2>2. PICK p : Goto(p)
    BY <1>9 DEF CheckReaders
  <2>3. QED
    BY <2>1, <2>2, GotoFields DEF Running, Between
<1>10. QED
  BY <1>4, <1>5, <1>6, <1>7, <1>8, <1>9

\* A read has all the lines of the files there are.
LEMMA ReadsAll ==
    ASSUME TypeOK, task \in Task, ReadStores
    PROVE  \/ Stops("failed")
           \/ /\ \A f \in Range(task'.found) : Range(disk[f]) \subseteq Range(task'.items)
              /\ Range(task'.found) = {f \in Range(task'.paths) : disk[f] # None}
              /\ task'.found # <<>> /\ task'.paths = StorePaths
<1>1. PICK found, items :
        /\ found = Those(StorePaths, {f \in DOMAIN disk : disk[f] # None})
        /\ items = FlattenSeq([i \in DOMAIN found |-> disk[found[i]]])
  OBVIOUS
<1>2. /\ Range(found) = {f \in Range(StorePaths) : disk[f] # None}
      /\ \A f \in Range(found) : Range(disk[f]) \subseteq Range(items)
  <2>1. FoundFrom(found, items)
    BY <1>1 DEF FoundFrom
  <2>2. QED
    BY <2>1, FoundIs
<1>3. \/ Stops("failed")
      \/ /\ found # <<>> /\ task'.paths = StorePaths /\ task'.found = found
         /\ task'.items = FlattenSeq([i \in DOMAIN found |-> disk[found[i]]])
  BY <1>1, ReadFields
<1>4. QED
  BY <1>1, <1>2, <1>3

\* Every step keeps ReadOK: git stores what is not kept between the read and the removal.
LEMMA ReadStep ==
    ASSUME Typed, ReadOK, [Next]_vars
    PROVE  ReadOK'
<1> SUFFICES ASSUME Between',
                    NEW f \in Range(task'.found), NEW l \in kept', disk'[f] # None, l \in Range(disk'[f])
             PROVE  l \in Range(task'.items)
  BY DEF ReadOK
<1>1. TypeOK
  BY DEF Typed
<1>2. CASE ReadStores
  <2>1. task \in Task /\ UNCHANGED <<disk, kept>>
    BY <1>1, <1>2, At DEF ReadStores, Running
  <2>2. Stops("failed") \/ \A g \in Range(task'.found) : Range(disk[g]) \subseteq Range(task'.items)
    BY <1>1, <1>2, <2>1, ReadsAll
  <2>3. ~Stops("failed")
    BY DEF Stops, Between
  <2>4. QED
    BY <2>1, <2>2, <2>3
<1>3. CASE UNCHANGED task \/ (Between /\ Stays /\ task.pc \in Running)
  <2>1. Between /\ task'.found = task.found /\ task'.items = task.items
    BY <1>3 DEF Between, Stays
  <2>2. task \in Task
    BY <1>1, <2>1, At DEF Between, Running
  <2>3. Range(task.found) \subseteq Files /\ f \in Files
    BY <2>1, <2>2, FieldsOf, RangeAt
  <2>4. l \in kept /\ disk[f] # None /\ l \in Range(disk[f])
    <3>1. CASE RemoveFile
      <4>1. kept' = kept
        BY <3>1 DEF RemoveFile
      <4>2. disk'[f] = disk[f]
        <5>1. disk \in [Files -> Seq(Lines) \cup {None}]
          BY <1>1, TypeGives
        <5>2. disk' = disk \/ \E g \in Range(task.found) : disk' = [disk EXCEPT ![g] = None]
          BY <1>1, <2>2, <3>1, RemovedOne
        <5>3. QED
          BY <2>3, <5>1, <5>2
      <4>3. QED
        BY <4>1, <4>2
    <3>2. CASE \E m \in Lines : GitStores(m)
      <4>1. PICK m \in Lines : GitStores(m)
        BY <3>2
      <4>2. kept' = {k \in kept : ~SameLogin(k, m)}
        BY <1>1, <2>1, <4>1, StoresType
      <4>3. disk'[f] = disk[f] \/ \A k \in Range(disk'[f]) : k = m \/ (disk[f] # None /\ k \in Range(disk[f]))
        BY <1>1, <2>3, <4>1, StoresType
      <4>4. SameLogin(m, m)
        BY DEF SameLogin
      <4>5. QED
        BY <4>2, <4>3, <4>4
    <3>3. CASE ~RemoveFile /\ \A m \in Lines : ~GitStores(m)
      BY <3>3, DiskStep
    <3>4. QED
      BY <3>1, <3>2, <3>3
  <2>5. QED
    BY <2>1, <2>4 DEF ReadOK
<1>4. QED
  BY <1>2, <1>3, BetweenStep

\* Every step keeps SortedOK.
LEMMA SortedStep ==
    ASSUME Typed, SortedOK, [Next]_vars
    PROVE  SortedOK'
<1> SUFFICES ASSUME task'.pc = "import", ~task'.blocked, NEW l \in Range(Imported(task'.items))
             PROVE  InVault(l)' \/ \E m \in Range(task'.fresh) : m.value = l.value /\ m.user = l.user
  BY DEF SortedOK, Imported, IsCert
<1>1. TypeOK
  BY DEF Typed
<1>2. UNCHANGED task \/ CompareLines
  <2>1. Moved
    BY Moves
  <2>2. WriteConfig => task.then # "import"
    BY DEF WriteConfig, Typed, StepOK
  <2>3. QED
    BY <2>1, <2>2 DEF Moved, AfterRemoval
<1>3. CASE UNCHANGED task
  BY <1>3, VaultGrows DEF SortedOK
<1>4. CASE CompareLines
  <2>1. task \in Task
    BY <1>1, <1>4, At DEF CompareLines, Running
  <2>2. PICK lines, sorted : lines = Imported(task.items) /\ sorted = SortLines(vault, lines)
    OBVIOUS
  <2>3. lines \in Seq(Lines)
    BY <2>1, <2>2, FieldsOf, ImportedType
  <2>4. SortsInto(vault, lines, sorted)
    BY <2>2, <2>3, SortLinesIs
  <2>5. task'.fresh = sorted.fresh /\ task'.blocked = (sorted.differ # {}) /\ task'.items = task.items
    BY <1>4, <2>1, <2>2, CompareFields DEF Stays
  <2>6. \E e \in vault \cup Range(sorted.fresh) : e.value = l.value /\ e.user = l.user
    BY <2>2, <2>4, <2>5 DEF SortsInto
  <2>7. InVault(l) \/ \E m \in Range(task'.fresh) : m.value = l.value /\ m.user = l.user
    BY <2>5, <2>6 DEF InVault
  <2>8. QED
    BY <2>7, VaultGrows
<1>5. QED
  BY <1>2, <1>3, <1>4

\* Every step keeps ImportedOK: what was skipped blocks the removal.
LEMMA ImportedStep ==
    ASSUME Typed, SortedOK, ImportedOK, [Next]_vars
    PROVE  ImportedOK'
<1>1. TypeOK /\ (task.pc = "write" => task.then \in {"end", "check"})
  BY DEF Typed, StepOK
<1>2. Moved
  BY Moves
<1>3. ASSUME task'.pc = "ask", ~task'.blocked, NEW l \in Range(Imported(task'.items))
      PROVE  InVault(l)'
  <2>1. UNCHANGED task \/ Import
    <3>1. WriteConfig => task.then # "ask"
      BY <1>1 DEF WriteConfig
    <3>2. QED
      BY <1>2, <1>3, <3>1 DEF Moved, AfterRemoval
  <2>2. CASE UNCHANGED task
    BY <1>3, <2>2, VaultGrows DEF ImportedOK
  <2>3. CASE Import
    <3>1. task \in Task /\ task.pc = "import"
      BY <1>1, <2>3, At DEF Import, Running
    <3>2. /\ task'.items = task.items /\ task'.blocked = (task.blocked \/ Adds(task.fresh) # DOMAIN task.fresh)
          /\ vault' = vault \cup {Stamped(task.fresh[i], i) : i \in Adds(task.fresh)}
      BY <2>3, <3>1, ImportFields DEF Stays
    <3>3. ~task.blocked /\ Adds(task.fresh) = DOMAIN task.fresh
      BY <1>3, <3>2
    <3>4. InVault(l) \/ \E m \in Range(task.fresh) : m.value = l.value /\ m.user = l.user
      BY <1>3, <3>1, <3>2, <3>3 DEF SortedOK
    <3>5. CASE InVault(l)
      BY <3>5, VaultGrows
    <3>6. CASE \E m \in Range(task.fresh) : m.value = l.value /\ m.user = l.user
      <4>1. PICK i \in DOMAIN task.fresh : task.fresh[i].value = l.value /\ task.fresh[i].user = l.user
        BY <3>6 DEF Range
      <4>2. Stamped(task.fresh[i], i) \in vault'
        BY <3>2, <3>3, <4>1
      <4>3. Stamped(task.fresh[i], i).value = l.value /\ Stamped(task.fresh[i], i).user = l.user
        BY <4>1 DEF Stamped
      <4>4. QED
        BY <4>2, <4>3 DEF InVault
    <3>7. QED
      BY <3>4, <3>5, <3>6
  <2>4. QED
    BY <2>1, <2>2, <2>3
<1>4. ASSUME Dropping', NEW l \in Range(task'.items)
      PROVE  InVault(l)'
  <2>1. \/ UNCHANGED task
        \/ WriteConfig \/ DropStoreHelpers \/ CheckReaders
    BY <1>2, <1>4, Zenon DEF Dropping, Moved, AfterRemoval
  <2>2. Between' /\ Dropping' /\ (UNCHANGED task \/ (Between /\ Stays))
    <3>1. Between'
      BY <1>4 DEF Between, Dropping
    <3>2. ~(task'.pc = "sort")
      BY <1>4 DEF Dropping
    <3>3. QED
      BY <1>4, <3>1, <3>2, BetweenStep
  <2>3. task'.items = task.items
    BY <2>2 DEF Stays
  <2>4. InVault(l)
    <3>1. CASE UNCHANGED task
      BY <1>4, <3>1 DEF Dropping, ImportedOK
    <3>2. CASE WriteConfig
      <4>1. task.pc = "write" /\ (task'.pc = task.then \/ (task'.pc = "write" /\ task'.then = task.then))
        BY <1>1, <3>2, WriteFields DEF WriteConfig
      <4>2. Dropping
        BY <1>1, <1>4, <4>1 DEF Dropping
      <4>3. QED
        BY <1>4, <2>3, <4>2 DEF ImportedOK
    <3>3. CASE CheckReaders
      BY <1>4, <2>3, <3>3 DEF CheckReaders, Dropping, ImportedOK
    <3>4. CASE DropStoreHelpers
      <4>1. task \in Task /\ task.pc = "ask" /\ ~task.blocked /\ ~Certs
        BY <1>1, <3>4, At DEF DropStoreHelpers, MayRemove, Running
      <4>2. l \in Range(Imported(task.items))
        BY <1>4, <2>3, <4>1, FieldsOf, ImportedType DEF Certs
      <4>3. QED
        BY <4>1, <4>2 DEF ImportedOK
    <3>5. QED
      BY <2>1, <3>1, <3>2, <3>3, <3>4
  <2>5. QED
    BY <2>4, VaultGrows
<1>5. QED
  BY <1>3, <1>4 DEF ImportedOK, Dropping, Imported, IsCert

\* A file goes when the vault has its lines.
LEMMA NothingLostStep ==
    ASSUME Typed, LinesInv, [Next]_vars
    PROVE  NothingLost'
<1>1. TypeOK /\ disk \in [Files -> Seq(Lines) \cup {None}] /\ kept \subseteq Lines
  BY TypeGives DEF Typed
<1> SUFFICES ASSUME NEW l \in kept' PROVE OnDisk(l)' \/ InVault(l)'
  BY DEF NothingLost, InVault
<1>2. \A k \in kept : OnDisk(k) \/ InVault(k)
  BY DEF LinesInv, NothingLost, InVault
<1>3. CASE RemoveFile
  <2>1. task \in Task /\ task.pc = "remove" /\ l \in kept
    BY <1>1, <1>3, At DEF RemoveFile, Running
  <2>2. CASE UNCHANGED disk
    BY <1>2, <2>1, <2>2, VaultGrows DEF OnDisk
  <2>3. CASE \E f \in Range(task.found) : disk[f] # None /\ disk' = [disk EXCEPT ![f] = None]
    <3>1. PICK f \in Range(task.found) : disk[f] # None /\ disk' = [disk EXCEPT ![f] = None]
      BY <2>3
    <3>2. CASE l \in Range(disk[f])
      <4>1. l \in Range(task.items)
        BY <2>1, <3>1, <3>2 DEF LinesInv, ReadOK, Between
      <4>2. InVault(l)
        BY <2>1, <4>1 DEF LinesInv, ImportedOK, Dropping
      <4>3. QED
        BY <4>2, VaultGrows
    <3>3. CASE l \notin Range(disk[f])
      <4>1. OnDisk(l) => OnDisk(l)'
        BY <1>1, <3>1, <3>3 DEF OnDisk
      <4>2. QED
        BY <1>2, <2>1, <4>1, VaultGrows
    <3>4. QED
      BY <3>2, <3>3
  <2>4. QED
    BY <1>1, <1>3, <2>1, <2>2, <2>3, RemovedOne
<1>4. CASE \E m \in Lines : GitStores(m)
  <2>1. PICK m \in Lines : GitStores(m)
    BY <1>4
  <2>2. l = m \/ (l \in kept /\ ~SameLogin(l, m))
    BY <1>1, <2>1, StoresType
  <2>3. DOMAIN disk = Files /\ DOMAIN disk' = Files
    BY <1>1, <2>1, StoresType
  <2>4. CASE l = m
    <3>1. \E f \in Files : f \in Effective /\ disk'[f] # None /\ m \in Range(disk'[f])
      BY <1>1, <2>1, StoresType
    <3>2. QED
      BY <2>3, <2>4, <3>1 DEF OnDisk
  <2>5. CASE l \in kept /\ ~SameLogin(l, m)
    <3>1. \A f \in Files : disk[f] # None /\ l \in Range(disk[f]) => disk'[f] # None /\ l \in Range(disk'[f])
      BY <1>1, <2>1, <2>5, StoresType
    <3>2. OnDisk(l) => OnDisk(l)'
      BY <2>3, <3>1 DEF OnDisk
    <3>3. QED
      BY <1>2, <2>5, <3>2, VaultGrows
  <2>6. QED
    BY <2>2, <2>4, <2>5
<1>5. CASE ~RemoveFile /\ \A m \in Lines : ~GitStores(m)
  <2>1. UNCHANGED <<disk, kept>>
    BY <1>5, DiskStep
  <2>2. QED
    BY <1>2, <2>1, VaultGrows DEF OnDisk
<1>6. QED
  BY <1>3, <1>4, <1>5

\* A behaviour begins with them.
LEMMA LinesInvInit == Init => LinesInv
BY DEF Init, Idle, LinesInv, ReadOK, SortedOK, ImportedOK, Between, Dropping, NothingLost

\* They always hold.
LEMMA LinesInvAlways == Spec => [](Typed /\ LinesInv)
<1>1. Init => Typed /\ LinesInv
  BY TypeInit, LinesInvInit DEF Typed
<1>2. Typed /\ LinesInv /\ [Next]_vars => (Typed /\ LinesInv)'
  BY TypedStep, ReadStep, SortedStep, ImportedStep, NothingLostStep DEF LinesInv
<1>3. QED
  BY <1>1, <1>2, PTL DEF Spec

\* Every credential to keep is in a file or in the vault, at every step, with any lines and
\* helpers, whatever is added or stored meanwhile and wherever the command fails or is killed.
THEOREM NoCredentialIsLost == Spec => []NothingLost
<1>1. Typed /\ LinesInv => NothingLost
  BY DEF LinesInv
<1>2. QED
  BY <1>1, LinesInvAlways, PTL

-----------------------------------------------------------------------------
(* Ours comes first *)

\* The values for every url that git reads in a scope, in their order.
AllValues(local) ==
    IF local THEN config["repository"]["all"] ELSE config["xdg"]["all"] \o config["home"]["all"]

\* The values for every url that a file lists are those it has.
LEMMA AllOfKey ==
    ASSUME config \in ConfigType, NEW file \in ConfigFiles, NEW X,
           \A h \in Helper : h \in X => h.key = "all",
           \A h \in Helper : h.file = file /\ h.key = "all" /\ Has(h) => h \in X
    PROVE  /\ Those(Listed(file), X) = OfKey(file, "all")
           /\ OfKey(file, "all") \in Seq(Helper)
           /\ Values(OfKey(file, "all")) = config[file]["all"]
<1>1. "all" \in Keys /\ "url" \in Keys
  BY DEF Keys
<1>2. /\ OfKey(file, "all") \in Seq(Helper)
      /\ Range(OfKey(file, "all")) = {h \in Helper : h.file = file /\ h.key = "all" /\ Has(h)}
      /\ Values(OfKey(file, "all")) = config[file]["all"]
  BY <1>1, OfKeyType
<1>3. /\ OfKey(file, "url") \in Seq(Helper)
      /\ Range(OfKey(file, "url")) = {h \in Helper : h.file = file /\ h.key = "url" /\ Has(h)}
  BY <1>1, OfKeyType
<1>4. Those(OfKey(file, "all"), X) = OfKey(file, "all")
  <2>1. Range(OfKey(file, "all")) \subseteq X
    BY <1>2
  <2>2. QED
    BY <1>2, <2>1, ThoseAll
<1>5. Those(OfKey(file, "url"), X) = <<>>
  <2>1. Range(OfKey(file, "url")) \cap X = {}
    BY <1>3
  <2>2. QED
    BY <1>3, <2>1, ThoseNone
<1>6. OfKey(file, "all") \o <<>> = OfKey(file, "all")
  BY <1>2, ConcatNothing
<1>7. Those(Listed(file), X) = Those(OfKey(file, "all"), X) \o Those(OfKey(file, "url"), X)
  BY PartOfListed
<1>8. QED
  BY <1>2, <1>4, <1>5, <1>6, <1>7

\* So are those of a scope.
LEMMA AllOfScope ==
    ASSUME config \in ConfigType, NEW local \in BOOLEAN
    PROVE  Values(Those(InScope(local), {h \in Range(InScope(local)) : h.key = "all"})) = AllValues(local)
<1>1. PICK X : X = {h \in Range(InScope(local)) : h.key = "all"}
  OBVIOUS
<1>2. /\ \A h \in Helper : h \in X => h.key = "all"
      /\ \A h \in Helper, file \in Scope(local) : h.file = file /\ h.key = "all" /\ Has(h) => h \in X
  BY <1>1, InScopeType
<1>3. \A file \in Scope(local) : /\ Those(Listed(file), X) = OfKey(file, "all")
                                 /\ OfKey(file, "all") \in Seq(Helper)
                                 /\ Values(OfKey(file, "all")) = config[file]["all"]
  BY <1>2, ScopeFiles, AllOfKey
<1>4. CASE local
  <2>1. "repository" \in Scope(local)
    BY <1>4 DEF Scope
  <2>2. Those(InScope(local), X) = OfKey("repository", "all")
    BY <1>3, <1>4, <2>1 DEF InScope
  <2>3. QED
    BY <1>1, <1>3, <1>4, <2>1, <2>2 DEF AllValues
<1>5. CASE ~local
  <2>1. "xdg" \in Scope(local) /\ "home" \in Scope(local)
    BY <1>5 DEF Scope
  <2>2. Listed("xdg") \in Seq(Helper) /\ Listed("home") \in Seq(Helper)
    BY <2>1, ScopeFiles, ListedType
  <2>3. Those(Listed("xdg") \o Listed("home"), X) = Those(Listed("xdg"), X) \o Those(Listed("home"), X)
    BY <2>2, ThoseConcat
  <2>4. Those(InScope(local), X) = OfKey("xdg", "all") \o OfKey("home", "all")
    BY <1>3, <1>5, <2>1, <2>3 DEF InScope
  <2>5. OfKey("xdg", "all") \in Seq(Helper) /\ OfKey("home", "all") \in Seq(Helper)
    BY <1>3, <2>1
  <2>6. Values(OfKey("xdg", "all") \o OfKey("home", "all")) = Values(OfKey("xdg", "all")) \o Values(OfKey("home", "all"))
    BY <2>5, ValuesConcat
  <2>7. Values(OfKey("xdg", "all")) = config["xdg"]["all"] /\ Values(OfKey("home", "all")) = config["home"]["all"]
    BY <1>3, <2>1
  <2>8. QED
    BY <1>1, <1>5, <2>4, <2>6, <2>7 DEF AllValues
<1>6. QED
  BY <1>4, <1>5

\* A list in which ours comes once, first or just after the last reset.
OursFirst(values) ==
    \E i \in DOMAIN values :
        /\ {k \in DOMAIN values : values[k] = "ours"} = {i}
        /\ \A j \in i..Len(values) : values[j] # Reset
        /\ i = 1 \/ values[i - 1] = Reset

\* Ours is no reset.
LEMMA OursIsNoReset == "ours" # Reset
BY Zenon DEF Reset

\* Where ours is first.
LEMMA OursFirstAt ==
    ASSUME NEW P \in Seq(PlainValues), NEW Q \in Seq(PlainValues),
           P = <<>> \/ P[Len(P)] = Reset, Reset \notin Range(Q)
    PROVE  OursFirst((P \o <<"ours">>) \o Q)
<1>1. PICK S : S = PlainValues \cup {"ours"}
  OBVIOUS
<1>2. P \in Seq(S) /\ Q \in Seq(S) /\ <<"ours">> \in Seq(S)
  BY <1>1, SeqMonotonic
<1>3. /\ P \o <<"ours">> \in Seq(S) /\ Len(P \o <<"ours">>) = Len(P) + 1 /\ Len(P) \in Nat
      /\ \A i \in 1..Len(P) : (P \o <<"ours">>)[i] = P[i]
      /\ (P \o <<"ours">>)[Len(P) + 1] = "ours"
  <2>1. ASSUME NEW s \in Seq(S), s = <<"ours">>
        PROVE  /\ P \o s \in Seq(S) /\ Len(P \o s) = Len(P) + 1 /\ Len(P) \in Nat
               /\ \A i \in 1..Len(P) : (P \o s)[i] = P[i]
               /\ (P \o s)[Len(P) + 1] = "ours"
    <3>1. Len(s) = 1 /\ s[1] = "ours" /\ 1 \in 1..Len(s)
      BY <2>1
    <3>2. /\ P \o s \in Seq(S) /\ Len(P \o s) = Len(P) + Len(s) /\ Len(P) \in Nat
          /\ \A i \in 1..Len(P) : (P \o s)[i] = P[i]
          /\ \A i \in 1..Len(s) : (P \o s)[Len(P) + i] = s[i]
      BY <1>2, Concats
    <3>3. QED
      BY <3>1, <3>2
  <2>2. QED
    BY <1>2, <2>1
<1>4. PICK s, values : s = P \o <<"ours">> /\ values = s \o Q
  OBVIOUS
<1>5. s \in Seq(S) /\ Len(s) = Len(P) + 1 /\ s[Len(P) + 1] = "ours" /\ \A i \in 1..Len(P) : s[i] = P[i]
  BY <1>3, <1>4
<1>6. /\ values \in Seq(S) /\ Len(values) = Len(s) + Len(Q) /\ Len(Q) \in Nat
      /\ \A i \in 1..Len(s) : values[i] = s[i]
      /\ \A i \in 1..Len(Q) : values[Len(s) + i] = Q[i]
  <2>1. values = s \o Q
    BY <1>4
  <2>2. /\ s \o Q \in Seq(S) /\ Len(s \o Q) = Len(s) + Len(Q) /\ Len(Q) \in Nat
        /\ \A i \in 1..Len(s) : (s \o Q)[i] = s[i]
        /\ \A i \in 1..Len(Q) : (s \o Q)[Len(s) + i] = Q[i]
    <3>1. s \in Seq(S)
      BY <1>5
    <3>2. QED
      BY <1>2, <3>1, Concats
  <2>3. QED
    BY <2>1, <2>2
<1>7. PICK n : n = Len(P) + 1 /\ n \in Nat
  BY <1>3
<1>8. /\ Len(values) = n + Len(Q) /\ values[n] = "ours"
      /\ \A i \in 1..(n - 1) : values[i] = P[i] /\ P[i] \in PlainValues
      /\ \A i \in 1..Len(Q) : values[n + i] = Q[i] /\ Q[i] \in PlainValues /\ Q[i] \in Range(Q)
  <2>1. n \in 1..Len(s) /\ \A i \in 1..(n - 1) : i \in 1..Len(s) /\ i \in 1..Len(P)
    BY <1>3, <1>5, <1>7
  <2>2. \A i \in 1..Len(P) : P[i] \in PlainValues
    OBVIOUS
  <2>3. \A i \in 1..Len(Q) : Q[i] \in PlainValues /\ Q[i] \in Range(Q)
    BY RangeAt
  <2>4. QED
    BY <1>5, <1>6, <1>7, <2>1, <2>2, <2>3
<1>9. \A v \in PlainValues : v # "ours"
  BY DEF PlainValues
<1>10. \A i \in 1..Len(values) : i \in 1..(n - 1) \/ i = n \/ (i - n \in 1..Len(Q) /\ n + (i - n) = i)
  BY <1>6, <1>7, <1>8
<1>11. DOMAIN values = 1..Len(values) /\ n \in 1..Len(values)
  BY <1>3, <1>6, <1>7, <1>8
<1>12. {k \in DOMAIN values : values[k] = "ours"} = {n}
  <2>1. \A k \in 1..Len(values) : k # n => values[k] \in PlainValues
    <3>1. ASSUME NEW k \in 1..Len(values), k # n PROVE values[k] \in PlainValues
      <4>1. CASE k \in 1..(n - 1)
        BY <1>8, <4>1
      <4>2. CASE k - n \in 1..Len(Q) /\ n + (k - n) = k
        BY <1>8, <4>2
      <4>3. QED
        BY <1>10, <3>1, <4>1, <4>2
    <3>2. QED
      BY <3>1
  <2>2. \A k \in 1..Len(values) : values[k] = "ours" <=> k = n
    BY <1>8, <1>9, <2>1
  <2>3. QED
    BY <1>11, <2>2
<1>13. \A j \in n..Len(values) : values[j] # Reset
  <2>1. \A j \in n..Len(values) : j = n \/ (j - n \in 1..Len(Q) /\ n + (j - n) = j)
    BY <1>6, <1>7, <1>8
  <2>2. QED
    BY <1>8, <2>1, OursIsNoReset
<1>14. n = 1 \/ values[n - 1] = Reset
  <2>1. CASE P = <<>>
    BY <1>3, <1>7, <2>1
  <2>2. CASE P # <<>> /\ P[Len(P)] = Reset
    <3>1. Len(P) # 0
      BY <2>2
    <3>2. n - 1 = Len(P) /\ n - 1 \in 1..(n - 1)
      BY <1>3, <1>7, <3>1
    <3>3. QED
      BY <1>8, <2>2, <3>2
  <2>3. QED
    BY <2>1, <2>2
<1>15. OursFirst(values)
  BY <1>11, <1>12, <1>13, <1>14 DEF OursFirst
<1>16. QED
  BY <1>4, <1>15

\* A helper that must not be left when ours is in this file; a write that puts ours in; and writes
\* after which the scope has none of these helpers.
BadHelpers(file) ==
    {h \in Helper : IsStore(h.value) \/ (h.key = "all" /\ h.value = "ours" /\ h.file # file)}
\* The last write of an install puts ours first, and the writes leave no value to remove.
PlacesOurs(local, w) ==
    /\ w.file \in Scope(local) /\ w.key = "all"
    /\ Range(w.values) \subseteq PlainValues \cup {"ours"}
    /\ OursFirst(Whole(local, w.file, w.values))
\* The writes clear the values of a set from the files.
Clears(plan, files, bad) ==
    /\ \A k \in 1..Len(plan) : \A v \in Range(plan[k].values) :
          [file |-> plan[k].file, key |-> plan[k].key, value |-> v] \notin bad
    /\ \A h \in bad : h.file \in files /\ Has(h) => \E k \in 1..Len(plan) : Place(plan[k]) = Place(h)

\* The writes of `_install_helper` do both.
LEMMA InstallsClears ==
    ASSUME config \in ConfigType, NEW local \in BOOLEAN, NEW plan, Installs(plan, local)
    PROVE  /\ PlacesOurs(local, plan[Len(plan)])
           /\ Clears(plan, Scope(local), BadHelpers(plan[Len(plan)].file))
<1>1. PICK file, before, rest, first, removed, values :
        /\ InsertsOurs(local, file, before, rest)
        /\ removed = OursElsewhere(local, file)
        /\ first = RemovePlan(InScope(local), removed)
        /\ values = (before \o <<"ours">>) \o rest
        /\ plan = Append(first, Write(file, "all", values, {}))
  BY DEF Installs
<1>2. removed = {h \in Range(InScope(local)) : h \in BadHelpers(file)}
  BY <1>1, InScopeHas DEF OursElsewhere, BadHelpers
<1>3. Removes(first, local, removed)
  BY <1>1, <1>2, RemovePlanIs
<1>4. first \in Seq(ConfigWrite) /\ DOMAIN first = 1..Len(first)
  BY <1>3 DEF Removes
<1>5. /\ Len(first) \in Nat /\ Len(plan) = Len(first) + 1
      /\ \A k \in 1..Len(first) : plan[k] = first[k]
      /\ plan[Len(plan)] = Write(file, "all", values, {})
  BY <1>1, <1>4
<1>6. PICK last : last = plan[Len(plan)]
  OBVIOUS
<1>7. last.file = file /\ last.key = "all" /\ last.values = values
  BY <1>5, <1>6 DEF Write
<1>8. file \in Scope(local) /\ before \in Seq(PlainValues) /\ rest \in Seq(PlainValues)
  BY <1>1 DEF InsertsOurs
<1>9. Range(values) \subseteq PlainValues \cup {"ours"}
  <2>1. PICK S : S = PlainValues \cup {"ours"}
    OBVIOUS
  <2>2. before \in Seq(S) /\ rest \in Seq(S) /\ <<"ours">> \in Seq(S)
    BY <1>8, <2>1, SeqMonotonic
  <2>3. before \o <<"ours">> \in Seq(S)
    BY <2>2, RangeConcat
  <2>4. values \in Seq(S)
    BY <1>1, <2>2, <2>3, RangeConcat
  <2>5. QED
    BY <2>1, <2>4, RangeAt
<1>10. OursFirst(Whole(local, file, values))
  <2>1. PICK P, Q \in Seq(PlainValues) :
          /\ P = <<>> \/ P[Len(P)] = Reset
          /\ Reset \notin Range(Q)
          /\ Whole(local, file, values) = (P \o <<"ours">>) \o Q
    BY <1>1 DEF InsertsOurs
  <2>2. OursFirst((P \o <<"ours">>) \o Q)
    BY <2>1, OursFirstAt
  <2>3. QED
    BY <2>1, <2>2
<1>11. PlacesOurs(local, last)
  BY <1>7, <1>8, <1>9, <1>10 DEF PlacesOurs
<1>12. ASSUME NEW k \in 1..Len(first), NEW v \in Range(first[k].values)
       PROVE  [file |-> first[k].file, key |-> first[k].key, value |-> v] \notin BadHelpers(file)
  <2>1. /\ first[k].file \in Scope(local) /\ first[k].key \in Keys
        /\ first[k].values = LeftAt(first[k].file, first[k].key, removed)
    BY <1>3, <1>4 DEF Removes
  <2>2. PICK there, V, h :
          /\ there = config[first[k].file][first[k].key]
          /\ V = {u \in HelperValues : [file |-> first[k].file, key |-> first[k].key, value |-> u] \notin removed}
          /\ h = [file |-> first[k].file, key |-> first[k].key, value |-> v]
    OBVIOUS
  <2>3. there \in Seq(HelperValues)
    BY <2>1, <2>2, ScopeFiles DEF ConfigType
  <2>4. Range(Those(there, V)) = Range(there) \cap V
    BY <2>3, ThoseType
  <2>5. first[k].values = Those(there, V)
    BY <2>1, <2>2 DEF LeftAt
  <2>6. v \in Range(there) /\ v \in HelperValues /\ h \notin removed
    BY <2>2, <2>4, <2>5
  <2>7. h \in Helper /\ h.file \in Scope(local) /\ Has(h)
    BY <2>1, <2>2, <2>6, ScopeFiles DEF Helper, Has
  <2>8. h \in Range(InScope(local))
    BY <2>7, InScopeType
  <2>9. QED
    BY <1>2, <2>2, <2>6, <2>8
<1>13. ASSUME NEW v \in Range(values)
       PROVE  [file |-> file, key |-> "all", value |-> v] \notin BadHelpers(file)
  <2>1. v = "ours" \/ (~IsStore(v) /\ v # "ours")
    <3>1. v \in PlainValues \/ v = "ours"
      BY <1>9
    <3>2. \A u \in PlainValues : ~IsStore(u) /\ u # "ours"
      BY DEF PlainValues
    <3>3. QED
      BY <3>1, <3>2
  <2>2. ~IsStore("ours")
    BY StoresAre DEF Files
  <2>3. QED
    BY <2>1, <2>2 DEF BadHelpers
<1>14. \A k \in 1..Len(plan) : k \in 1..Len(first) \/ k = Len(plan)
  BY <1>5
<1>15. \A k \in 1..Len(plan) : \A v \in Range(plan[k].values) :
          [file |-> plan[k].file, key |-> plan[k].key, value |-> v] \notin BadHelpers(file)
  BY <1>5, <1>6, <1>7, <1>12, <1>13, <1>14
<1>16. ASSUME NEW h \in BadHelpers(file), h.file \in Scope(local), Has(h)
       PROVE  \E k \in 1..Len(plan) : Place(plan[k]) = Place(h)
  <2>1. h \in removed
    BY <1>2, <1>16, InScopeType DEF BadHelpers
  <2>2. PICK k \in 1..Len(first) : Place(first[k]) = Place(h)
    BY <1>3, <1>4, <2>1 DEF Removes
  <2>3. k \in 1..Len(plan) /\ plan[k] = first[k]
    BY <1>5
  <2>4. QED
    BY <2>2, <2>3
<1>17. QED
  BY <1>6, <1>7, <1>11, <1>15, <1>16 DEF Clears

\* An install's writes that are left end with the one that puts ours in, and clear its scope; when
\* they are done the scope is clear and ours is first.
InstallOK ==
    /\ task.pc = "uninstall" => ~InstallsHelper
    /\ task.pc = "write" /\ task.then = "end" /\ InstallsHelper =>
          LET last == task.plan[Len(task.plan)] IN
          /\ PlacesOurs(task.command.local, last)
          /\ Clears(task.plan, Scope(task.command.local), BadHelpers(last.file))
    /\ task.pc \in {"end", "ok"} /\ InstallsHelper =>
          /\ \A h \in Helper : h.file \in Scope(task.command.local) /\ Has(h) => ~IsStore(h.value)
          /\ OursFirst(AllValues(task.command.local))

\* A write keeps the plain values.
LEMMA PlainKept ==
    ASSUME Typed, PlanOK, WriteConfig, NEW file \in ConfigFiles
    PROVE  Plain(file)' = Plain(file)
<1>1. config \in ConfigType /\ config' \in ConfigType
  BY TypedStep, TypeGives, WriteConfigType DEF Typed
<1>2. "all" \in Keys
  BY DEF Keys
<1>3. Others(config'[file]["all"]) = Others(config[file]["all"])
  BY <1>2, WrittenKeeps
<1>4. Those(config'[file]["all"], PlainValues) = Others(config'[file]["all"])
  <2>1. config'[file]["all"] \in Seq(HelperValues)
    BY <1>1, <1>2 DEF ConfigType
  <2>2. QED
    BY <2>1, OthersPlain
<1>5. Those(config[file]["all"], PlainValues) = Others(config[file]["all"])
  <2>1. config[file]["all"] \in Seq(HelperValues)
    BY <1>1, <1>2 DEF ConfigType
  <2>2. QED
    BY <2>1, OthersPlain
<1>6. QED
  BY <1>3, <1>4, <1>5 DEF Plain

\* So the last write still puts ours first.
LEMMA PlacesOn ==
    ASSUME Typed, PlanOK, WriteConfig, NEW local \in BOOLEAN, NEW w, PlacesOurs(local, w)
    PROVE  PlacesOurs(local, w)'
<1>1. Plain("home")' = Plain("home") /\ Plain("xdg")' = Plain("xdg")
  BY PlainKept DEF ConfigFiles
<1>2. Whole(local, w.file, w.values)' = Whole(local, w.file, w.values)
  BY <1>1 DEF Whole
<1>3. QED
  BY <1>2 DEF PlacesOurs

\* A write clears its place, and the rest of the plan the others.
LEMMA ClearsOn ==
    ASSUME Typed, WriteConfig, NEW w, WritesFirst(w), Len(task.plan) # 1,
           NEW files \in SUBSET ConfigFiles, NEW bad \in SUBSET Helper, Clears(task.plan, files, bad)
    PROVE  Clears(task.plan, files, bad)'
<1>1. /\ w = task.plan[1] /\ Len(task.plan) \in Nat /\ Len(task.plan) >= 1
      /\ Len(task'.plan) = Len(task.plan) - 1
      /\ \A k \in 1..Len(task'.plan) : k + 1 \in 1..Len(task.plan) /\ task'.plan[k] = task.plan[k + 1]
  <2>1. task.then # "write"
    BY DEF WriteConfig, Typed, StepOK
  <2>2. QED
    BY <2>1 DEF WritesFirst
<1>2. \A k \in 1..Len(task'.plan) : \A v \in Range(task'.plan[k].values) :
         [file |-> task'.plan[k].file, key |-> task'.plan[k].key, value |-> v] \notin bad
  BY <1>1 DEF Clears
<1>3. ASSUME NEW h \in bad, h.file \in files, Has(h)'
      PROVE  \E k \in 1..Len(task'.plan) : Place(task'.plan[k]) = Place(h)
  <2>1. h.file \in ConfigFiles /\ h.key \in Keys /\ h = [file |-> h.file, key |-> h.key, value |-> h.value]
    BY DEF Helper
  <2>2. h.value \in Range(config'[h.file][h.key])
    BY <1>3 DEF Has
  <2>3. config'[h.file][h.key] = IF h.file = w.file /\ h.key = w.key THEN w.values ELSE config[h.file][h.key]
    BY <2>1 DEF WritesFirst
  <2>4. ~(h.file = w.file /\ h.key = w.key)
    <3>1. ASSUME h.file = w.file, h.key = w.key PROVE FALSE
      <4>1. h.value \in Range(w.values)
        BY <2>2, <2>3, <3>1
      <4>2. [file |-> w.file, key |-> w.key, value |-> h.value] \notin bad
        <5>1. 1 \in 1..Len(task.plan)
          BY <1>1
        <5>2. QED
          BY <1>1, <4>1, <5>1 DEF Clears
      <4>3. QED
        BY <2>1, <3>1, <4>2
    <3>2. QED
      BY <3>1
  <2>5. PICK k \in 1..Len(task.plan) : Place(task.plan[k]) = Place(h)
    <3>1. Has(h)
      BY <2>2, <2>3, <2>4 DEF Has
    <3>2. QED
      BY <1>3, <3>1 DEF Clears
  <2>6. k # 1
    BY <1>1, <2>4, <2>5 DEF Place
  <2>7. k - 1 \in 1..Len(task'.plan) /\ (k - 1) + 1 = k
    BY <1>1, <2>6
  <2>8. task'.plan[k - 1] = task.plan[k]
    BY <1>1, <2>7
  <2>9. QED
    BY <2>5, <2>7, <2>8
<1>4. QED
  BY <1>2, <1>3 DEF Clears

\* After the last write nothing is left of what it clears.
LEMMA ClearsLast ==
    ASSUME Typed, WriteConfig, NEW w, WritesFirst(w), Len(task.plan) = 1,
           NEW files \in SUBSET ConfigFiles, NEW bad \in SUBSET Helper, Clears(task.plan, files, bad)
    PROVE  \A h \in bad : h.file \in files => ~Has(h)'
<1>1. w = task.plan[1] /\ 1 \in 1..Len(task.plan) /\ \A k \in 1..Len(task.plan) : k = 1
  BY DEF WritesFirst
<1> SUFFICES ASSUME NEW h \in bad, h.file \in files, Has(h)' PROVE FALSE
  OBVIOUS
<1>2. h.file \in ConfigFiles /\ h.key \in Keys /\ h = [file |-> h.file, key |-> h.key, value |-> h.value]
  BY DEF Helper
<1>3. h.value \in Range(config'[h.file][h.key])
  BY DEF Has
<1>4. config'[h.file][h.key] = IF h.file = w.file /\ h.key = w.key THEN w.values ELSE config[h.file][h.key]
  BY <1>2 DEF WritesFirst
<1>5. CASE h.file = w.file /\ h.key = w.key
  <2>1. h.value \in Range(w.values)
    BY <1>3, <1>4, <1>5
  <2>2. [file |-> w.file, key |-> w.key, value |-> h.value] \notin bad
    BY <1>1, <2>1 DEF Clears
  <2>3. QED
    BY <1>2, <1>5, <2>2
<1>6. CASE ~(h.file = w.file /\ h.key = w.key)
  <2>1. Has(h)
    BY <1>3, <1>4, <1>6 DEF Has
  <2>2. Place(w) = Place(h)
    BY <1>1, <2>1 DEF Clears
  <2>3. QED
    BY <1>6, <2>2 DEF Place
<1>7. QED
  BY <1>5, <1>6

\* And when it is made, ours is.
LEMMA InstalledOK ==
    ASSUME Typed, PlanOK, WriteConfig, NEW w, WritesFirst(w), Len(task.plan) = 1,
           NEW local \in BOOLEAN, PlacesOurs(local, w), Clears(task.plan, Scope(local), BadHelpers(w.file))
    PROVE  /\ \A h \in Helper : h.file \in Scope(local) /\ Has(h)' => ~IsStore(h.value)
           /\ OursFirst(AllValues(local)')
<1>1. \A h \in BadHelpers(w.file) : h.file \in Scope(local) => ~Has(h)'
  <2>1. Scope(local) \in SUBSET ConfigFiles /\ BadHelpers(w.file) \in SUBSET Helper
    BY ScopeFiles DEF BadHelpers
  <2>2. QED
    BY <2>1, ClearsLast
<1>2. \A h \in Helper : h.file \in Scope(local) /\ Has(h)' => ~IsStore(h.value)
  BY <1>1 DEF BadHelpers
<1>3. w.file \in Scope(local) /\ w.key = "all" /\ OursFirst(Whole(local, w.file, w.values)')
  BY PlacesOn DEF PlacesOurs
<1>4. config' \in ConfigType /\ "all" \in Keys
  BY WriteConfigType DEF Typed, Keys
<1>5. config'[w.file]["all"] = w.values
  BY <1>3, <1>4, ScopeFiles DEF WritesFirst
<1>6. ASSUME NEW file \in Scope(local), file # w.file
      PROVE  Plain(file)' = config'[file]["all"]
  <2>1. file \in ConfigFiles /\ config'[file]["all"] \in Seq(HelperValues)
    BY <1>4, ScopeFiles DEF ConfigType
  <2>2. ASSUME NEW v \in Range(config'[file]["all"]) PROVE v \in PlainValues
    <3>1. PICK h : h = [file |-> file, key |-> "all", value |-> v]
      OBVIOUS
    <3>2. v \in HelperValues
      BY <2>1, RangeAt
    <3>3. h \in Helper
      BY <1>4, <2>1, <3>1, <3>2 DEF Helper
    <3>4. Has(h)'
      BY <3>1 DEF Has
    <3>5. h \notin BadHelpers(w.file)
      BY <1>1, <3>1, <3>4
    <3>6. QED
      BY <1>6, <3>1, <3>2, <3>3, <3>5 DEF BadHelpers, PlainValues
  <2>3. Those(config'[file]["all"], PlainValues) = config'[file]["all"]
    BY <2>1, <2>2, ThoseAll
  <2>4. QED
    BY <2>3 DEF Plain
<1>7. AllValues(local)' = Whole(local, w.file, w.values)'
  <2>1. CASE local
    BY <1>3, <1>5, <2>1 DEF AllValues, Whole, Scope
  <2>2. CASE ~local /\ w.file = "xdg"
    <3>1. Plain("home")' = config'["home"]["all"]
      BY <1>6, <2>2 DEF Scope
    <3>2. QED
      BY <1>5, <2>2, <3>1 DEF AllValues, Whole
  <2>3. CASE ~local /\ w.file = "home"
    <3>1. Plain("xdg")' = config'["xdg"]["all"]
      BY <1>6, <2>3 DEF Scope
    <3>2. QED
      BY <1>5, <2>3, <3>1 DEF AllValues, Whole
  <2>4. QED
    BY <1>3, <2>1, <2>2, <2>3 DEF Scope
<1>8. QED
  BY <1>2, <1>3, <1>7

\* Every step keeps InstallOK.
LEMMA InstallStep ==
    ASSUME Typed, PlanOK, InstallOK, [Next]_vars
    PROVE  InstallOK'
<1>1. TypeOK /\ (task.pc = "write" => task.then \in {"end", "check"})
  BY DEF Typed, StepOK
<1>2. Moved
  BY Moves
<1>3. CASE UNCHANGED task /\ UNCHANGED config
  BY <1>3 DEF InstallOK, InstallsHelper, PlacesOurs, Whole, Plain, Clears, Has, AllValues
<1>4. CASE \E c \in Commands : Start(c)
  <2>1. PICK c \in Commands : Start(c)
    BY <1>4
  <2>2. task'.pc \in {"install", "uninstall", "read"} /\ task'.command = c
        /\ (task'.pc = "uninstall" => c.cmd = "uninstall")
    BY <2>1, CommandFields DEF Start
  <2>3. QED
    BY <2>2 DEF InstallOK, InstallsHelper
<1>5. CASE PlanInstall
  <2>1. task \in Task /\ task.plan = <<>> /\ config \in ConfigType /\ task.command.local \in BOOLEAN
    BY <1>1, <1>5, At DEF PlanInstall, Running
  <2>2. PICK local, plan : local = task.command.local /\ plan = InstallPlan(InScope(local), local)
    OBVIOUS
  <2>3. Planned(plan, "end") /\ UNCHANGED config
    BY <1>5, <2>2 DEF PlanInstall
  <2>4. plan # <<>>
    BY <2>1, <2>2, InstallPlanType
  <2>5. task'.pc = "write" /\ task'.plan = plan /\ task'.command = task.command
    <3>1. Stays
      BY <2>1, <2>3, PlannedFields, Zenon
    <3>2. task'.pc = "write" /\ task'.plan = plan
      BY <2>1, <2>3, <2>4, PlannedFields, Zenon
    <3>3. QED
      BY <3>1, <3>2 DEF Stays
  <2>6. /\ PlacesOurs(local, plan[Len(plan)])
        /\ Clears(plan, Scope(local), BadHelpers(plan[Len(plan)].file))
    BY <2>1, <2>2, InstallPlanIs, InstallsClears
  <2>7. QED
    BY <2>2, <2>3, <2>5, <2>6 DEF InstallOK, PlacesOurs, Whole, Plain, Clears, Has
<1>6. CASE Uninstall
  <2>1. task \in Task /\ task.plan = <<>> /\ task.pc = "uninstall"
    BY <1>1, <1>6, At DEF Uninstall, Running
  <2>2. PICK plan : Planned(plan, "end")
    BY <1>6 DEF Uninstall
  <2>3. task'.command = task.command /\ task'.pc \in {"write", "end"}
    BY <2>1, <2>2, PlannedFields, Zenon DEF Stays
  <2>4. ~InstallsHelper'
    BY <2>1, <2>3 DEF InstallOK, InstallsHelper
  <2>5. QED
    BY <2>3, <2>4 DEF InstallOK
<1>7. CASE WriteConfig
  <2>1. PICK w : WritesFirst(w)
    BY <1>1, <1>7, Written
  <2>2. task'.command = task.command
    BY <1>1, <1>7, WriteFields DEF Stays
  <2>3. task.command.local \in BOOLEAN /\ task.pc = "write" /\ task.then \in {"end", "check"}
        /\ (task.then = "check" => task.command.cmd = "migrate")
    BY <1>1, <1>7, <2>1, FieldsOf, CommandFields DEF WriteConfig, WritesFirst, Typed, StepOK,
       Between
  <2>4. PICK local, last : local = task.command.local /\ last = task.plan[Len(task.plan)]
    OBVIOUS
  <2>5. CASE ~InstallsHelper \/ task.then = "check"
    <3>1. (task'.pc = "write" => task'.then = task.then) /\ (task'.pc = "write" \/ task'.pc = task.then)
      BY <2>1, <2>3 DEF WritesFirst
    <3>2. InstallsHelper' <=> InstallsHelper
      BY <2>2 DEF InstallsHelper
    <3>3. QED
      BY <2>3, <2>5, <3>1, <3>2 DEF InstallOK
  <2>6. CASE InstallsHelper /\ task.then = "end"
    <3>1. PlacesOurs(local, last) /\ Clears(task.plan, Scope(local), BadHelpers(last.file))
      BY <2>3, <2>4, <2>6 DEF InstallOK
    <3>2. CASE Len(task.plan) = 1
      <4>1. last = w /\ task'.pc = "end"
        BY <2>1, <2>4, <2>6, <3>2 DEF WritesFirst
      <4>2. /\ \A h \in Helper : h.file \in Scope(local) /\ Has(h)' => ~IsStore(h.value)
            /\ OursFirst(AllValues(local)')
        BY <1>7, <2>1, <2>3, <2>4, <3>1, <3>2, <4>1, InstalledOK
      <4>3. QED
        BY <2>2, <2>4, <4>1, <4>2 DEF InstallOK, AllValues
    <3>3. CASE Len(task.plan) # 1
      <4>1. /\ task'.pc = "write" /\ task'.then = "end"
            /\ task'.plan[Len(task'.plan)] = last
        <5>1. /\ Len(task.plan) \in Nat /\ Len(task.plan) >= 1
              /\ task'.pc = "write" /\ task'.then = "end"
              /\ Len(task'.plan) = Len(task.plan) - 1
              /\ \A k \in 1..Len(task'.plan) : task'.plan[k] = task.plan[k + 1]
          BY <2>1, <2>6, <3>3 DEF WritesFirst
        <5>2. Len(task'.plan) \in 1..Len(task'.plan) /\ Len(task'.plan) + 1 = Len(task.plan)
          <6>1. \A n \in Nat : \A m : n >= 1 /\ n # 1 /\ m = n - 1 => m \in 1..m /\ m + 1 = n
            OBVIOUS
          <6>2. QED
            BY <3>3, <5>1, <6>1
        <5>3. QED
          BY <2>4, <5>1, <5>2
      <4>2. PlacesOurs(local, last)'
        BY <1>7, <2>3, <2>4, <3>1, PlacesOn
      <4>3. PICK bad : bad = BadHelpers(last.file) /\ bad \in SUBSET Helper
        BY DEF BadHelpers
      <4>4. Clears(task.plan, Scope(local), bad)'
        BY <1>7, <2>1, <2>3, <2>4, <3>1, <3>3, <4>3, ClearsOn, ScopeFiles
      <4>5. QED
        BY <2>2, <2>4, <4>1, <4>2, <4>3, <4>4 DEF InstallOK
    <3>4. QED
      BY <3>2, <3>3
  <2>7. QED
    BY <2>3, <2>5, <2>6
<1>8. CASE End
  <2>1. task.pc = "end" /\ task'.pc = "ok" /\ task'.command = task.command /\ UNCHANGED config
    BY <1>8, EndFields DEF End
  <2>2. QED
    BY <2>1 DEF InstallOK, InstallsHelper, Has, AllValues
<1>9. CASE KeepSource \/ CheckReaders \/ RemoveFile
  <2>1. /\ task \in Task /\ UNCHANGED config /\ task.command.cmd = "migrate"
    BY <1>1, <1>9, At DEF KeepSource, CheckReaders, RemoveFile, Running, Typed, StepOK, Between
  <2>2. UNCHANGED task \/ (task'.command = task.command /\ task'.pc \in {"remove", AfterRemoval})
    <3>1. CASE KeepSource
      BY <2>1, <3>1, GotoFields DEF KeepSource, Stays
    <3>2. CASE CheckReaders
      <4>1. PICK p : p \in {"remove", AfterRemoval} /\ Goto(p)
        BY <3>2 DEF CheckReaders
      <4>2. QED
        BY <2>1, <4>1, GotoFields DEF Stays
    <3>3. CASE RemoveFile
      BY <2>1, <3>3, RemoveFields DEF Stays
    <3>4. QED
      BY <1>9, <3>1, <3>2, <3>3
  <2>3. CASE UNCHANGED task
    BY <1>3, <2>1, <2>3
  <2>4. CASE task'.command = task.command /\ task'.pc \in {"remove", AfterRemoval}
    <3>1. task'.pc = "end" => ~InstallsHelper'
      BY <2>1, <2>4 DEF AfterRemoval, InstallsHelper
    <3>2. task'.pc \in {"remove", "install", "end"}
      BY <2>4 DEF AfterRemoval
    <3>3. QED
      BY <3>1, <3>2 DEF InstallOK
  <2>5. QED
    BY <2>2, <2>3, <2>4
<1>10. CASE task'.pc \notin {"uninstall", "end", "ok"} /\ (task'.pc = "write" => task'.then # "end")
  BY <1>10 DEF InstallOK
<1>11. WriteConfig \/ UNCHANGED config \/ task'.pc \in {"cut", "killed"}
  BY ConfigStep, CutStops
<1>12. QED
  BY <1>2, <1>3, <1>4, <1>5, <1>6, <1>7, <1>8, <1>9, <1>10, <1>11 DEF Moved

\* A behaviour begins with it.
LEMMA InstallInit == Init => InstallOK
BY DEF Init, Idle, InstallOK

\* It always holds.
LEMMA InstallAlways == Spec => [](Typed /\ FilesInv /\ InstallOK)
<1>1. Init => InstallOK
  BY InstallInit
<1>2. Typed /\ FilesInv /\ InstallOK /\ [Next]_vars => InstallOK'
  BY InstallStep DEF FilesInv
<1>3. QED
  BY <1>1, <1>2, FilesInvAlways, PTL DEF Spec

\* After an install, or a migrate that installs, git runs ours once and before every other helper
\* of the scope that it runs, and no store helper of the scope is left, for any helpers in any
\* order with any resets.
THEOREM OursIsFirst == Spec => []OursComesFirst
<1>1. Typed /\ InstallOK => OursComesFirst
  <2> SUFFICES ASSUME Typed, InstallOK, task.pc = "ok", InstallsHelper
               PROVE  /\ \A h \in Range(InScope(task.command.local)) : ~IsStore(h.value)
                      /\ OursFirst(Values(Those(InScope(task.command.local),
                                     {h \in Range(InScope(task.command.local)) : h.key = "all"})))
    BY Zenon DEF OursComesFirst, OursFirst
  <2>1. config \in ConfigType /\ task.command.local \in BOOLEAN
    <3>1. TypeOK
      BY DEF Typed
    <3>2. task.command \in Commands
      BY <3>1 DEF TypeOK, Task, Running
    <3>3. QED
      BY <3>1, <3>2, TypeGives, CommandFields
  <2>2. PICK local : local = task.command.local /\ local \in BOOLEAN
    BY <2>1
  <2>3. \A h \in Range(InScope(local)) : ~IsStore(h.value)
    BY <2>1, <2>2, InScopeHas DEF InstallOK
  <2>4. OursFirst(AllValues(local))
    BY <2>2 DEF InstallOK
  <2>5. Values(Those(InScope(local), {h \in Range(InScope(local)) : h.key = "all"})) = AllValues(local)
    BY <2>1, <2>2, AllOfScope
  <2>6. QED
    BY <2>2, <2>3, <2>4, <2>5
<1>2. QED
  BY <1>1, InstallAlways, PTL

-----------------------------------------------------------------------------
(* The way back is told *)

\* The steps after a removal, and the one that ends it.
LEMMA RemovedStep ==
    ASSUME Typed, [Next]_vars, task'.pc \in Running, task'.removed
    PROVE  \/ UNCHANGED task
           \/ task.removed /\ task.pc \in Running /\ task \in Task /\ Stays
           \/ /\ RemoveFile /\ task.pc = "remove" /\ task \in Task /\ Stays /\ Owes
              /\ task'.pc = AfterRemoval /\ UNCHANGED <<disk, retired>>
              /\ \A f \in Range(task.found) : disk[f] = None
<1>1. TypeOK /\ StepOK /\ StepOK'
  BY TypedStep DEF Typed
<1>2. task'.pc \in {"install", "write", "end"} /\ (task'.pc = "write" => task'.then # "check")
  BY <1>1 DEF StepOK
<1>3. \/ UNCHANGED task
      \/ (\E c \in Commands : Start(c)) \/ PlanInstall \/ Uninstall \/ WriteConfig \/ KeepSource
      \/ CheckReaders \/ RemoveFile
  BY <1>2, Moves, Zenon DEF Moved
<1>4. CASE \E c \in Commands : Start(c)
  BY <1>4 DEF Start
<1>5. CASE PlanInstall \/ Uninstall
  <2>1. task.pc \in Running /\ task \in Task /\ task.plan = <<>>
    BY <1>1, <1>5, At DEF PlanInstall, Uninstall, Running
  <2>2. PICK plan : Planned(plan, "end")
    BY <1>5 DEF PlanInstall, Uninstall
  <2>3. Stays
    BY <2>1, <2>2, PlannedFields, Zenon
  <2>4. task'.removed = task.removed
    BY <2>1, <2>2, PlannedFields, Zenon
  <2>5. QED
    BY <2>1, <2>3, <2>4
<1>6. CASE WriteConfig
  <2>1. task.pc \in Running /\ task \in Task
    BY <1>1, <1>6, At DEF WriteConfig, Running
  <2>2. QED
    BY <1>1, <1>6, <2>1, WriteFields
<1>7. CASE KeepSource \/ CheckReaders
  <2>1. task.pc \in Running /\ task \in Task /\ task.pc \in {"ask", "check"}
    BY <1>1, <1>7, At DEF KeepSource, CheckReaders, Running
  <2>2. PICK p : Goto(p)
    BY <1>7 DEF KeepSource, CheckReaders
  <2>3. task'.removed = task.removed
    BY <2>1, <2>2, GotoFields
  <2>4. ~task.removed
    BY <1>1, <2>1 DEF StepOK
  <2>5. QED
    BY <2>3, <2>4
<1>8. CASE RemoveFile
  <2>1. task \in Task /\ task.pc = "remove" /\ task.pc \in Running
    BY <1>1, <1>8, At DEF RemoveFile, Running
  <2>2. CASE UNCHANGED task
    BY <2>2
  <2>3. CASE task' # task
    BY <1>1, <1>8, <2>1, <2>3, RemoveFields, RemovedOne
  <2>4. QED
    BY <2>2, <2>3
<1>9. QED
  BY <1>3, <1>4, <1>5, <1>6, <1>7, <1>8

\* What a migrate knows of the files: those it found are of those git would read, and a file that
\* came since has no credential to keep.
NoOneKept(f) == disk[f] = None \/ Range(disk[f]) \cap kept = {}
\* The files that are found are of those git would read.
FoundOK ==
    Between \/ (task.pc \in Running /\ task.removed) =>
        Range(task.found) \subseteq Range(task.paths) /\ Range(task.found) # {}
\* Another that is there by now has no credential to keep.
NewOnly == Between => \A f \in Range(task.paths) \ Range(task.found) : NoOneKept(f)

\* Every step keeps FoundOK.
LEMMA FoundStep ==
    ASSUME Typed, FoundOK, [Next]_vars
    PROVE  FoundOK'
<1> SUFFICES ASSUME Between' \/ (task'.pc \in Running /\ task'.removed)
             PROVE  Range(task'.found) \subseteq Range(task'.paths) /\ Range(task'.found) # {}
  BY DEF FoundOK
<1>1. TypeOK
  BY DEF Typed
<1>2. CASE ReadStores /\ task'.pc = "sort"
  <2>1. task \in Task /\ ~Stops("failed")
    BY <1>1, <1>2, At DEF ReadStores, Running, Stops
  <2>2. /\ Range(task'.found) = {f \in Range(task'.paths) : disk[f] # None}
        /\ task'.found # <<>>
    BY <1>1, <1>2, <2>1, ReadsAll
  <2>3. task'.found \in Seq(Files)
    <3>1. TypeOK'
      BY TypedStep DEF Typed
    <3>2. TaskOK'
      BY <1>1, <1>2, ReadStoresType DEF Typed
    <3>3. task' \in Task
      BY <1>2, <3>2 DEF TaskOK
    <3>4. QED
      BY <3>3, FieldsOf
  <2>4. task'.found[1] \in Range(task'.found)
    <3>1. ASSUME NEW s \in Seq(Files), s # <<>> PROVE s[1] \in Range(s)
      <4>1. Len(s) \in Nat /\ Len(s) # 0
        BY <3>1
      <4>2. 1 \in 1..Len(s)
        BY <4>1
      <4>3. QED
        BY <4>2, RangeAt
    <3>2. QED
      BY <2>2, <2>3, <3>1
  <2>5. QED
    BY <2>2, <2>4
<1>3. CASE UNCHANGED task
  BY <1>3 DEF FoundOK, Between
<1>4. CASE (Between \/ (task.pc \in Running /\ task.removed)) /\ Stays
  BY <1>4 DEF FoundOK, Stays
<1>5. \/ UNCHANGED task
      \/ ReadStores /\ task'.pc = "sort"
      \/ (Between \/ (task.pc \in Running /\ task.removed)) /\ Stays
  <2>1. CASE Between'
    BY <2>1, BetweenStep
  <2>2. CASE task'.pc \in Running /\ task'.removed
    BY <2>2, RemovedStep DEF Between
  <2>3. QED
    BY <2>1, <2>2
<1>6. QED
  BY <1>2, <1>3, <1>4, <1>5

\* Every step keeps NewOnly.
LEMMA NewStep ==
    ASSUME Typed, NewOnly, [Next]_vars
    PROVE  NewOnly'
<1> SUFFICES ASSUME Between', NEW f \in Range(task'.paths) \ Range(task'.found)
             PROVE  NoOneKept(f)'
  BY DEF NewOnly
<1>1. TypeOK /\ disk \in [Files -> Seq(Lines) \cup {None}]
  BY TypeGives DEF Typed
<1>2. CASE ReadStores /\ task'.pc = "sort"
  <2>1. task \in Task /\ ~Stops("failed") /\ UNCHANGED <<disk, kept>>
    BY <1>1, <1>2, At DEF ReadStores, Running, Stops
  <2>2. Range(task'.found) = {g \in Range(task'.paths) : disk[g] # None}
    BY <1>1, <1>2, <2>1, ReadsAll
  <2>3. QED
    BY <2>1, <2>2 DEF NoOneKept
<1>3. CASE UNCHANGED task \/ (Between /\ Stays)
  <2>1. Between /\ task'.found = task.found /\ task'.paths = task.paths
    BY <1>3 DEF Between, Stays
  <2>2. task \in Task
    BY <1>1, <2>1, At DEF Between, Running
  <2>3. Range(task.found) \subseteq Files /\ f \in Files
    BY <2>1, <2>2, FieldsOf, RangeAt
  <2>4. NoOneKept(f)
    BY <2>1 DEF NewOnly
  <2>5. CASE RemoveFile
    <3>1. kept' = kept
      BY <2>5 DEF RemoveFile
    <3>2. disk' = disk \/ \E g \in Range(task.found) : disk' = [disk EXCEPT ![g] = None]
      BY <1>1, <2>2, <2>5, RemovedOne
    <3>3. disk'[f] = disk[f]
      BY <1>1, <2>1, <2>3, <3>2
    <3>4. QED
      BY <2>4, <3>1, <3>3 DEF NoOneKept
  <2>6. CASE \E m \in Lines : GitStores(m)
    <3>1. PICK m \in Lines : GitStores(m)
      BY <2>6
    <3>2. kept' = {k \in kept : ~SameLogin(k, m)}
      BY <1>1, <2>1, <3>1, StoresType
    <3>3. disk'[f] # None => disk'[f] = disk[f] \/ \A k \in Range(disk'[f]) : k = m \/ (disk[f] # None /\ k \in Range(disk[f]))
      BY <1>1, <2>3, <3>1, StoresType
    <3>4. SameLogin(m, m)
      BY DEF SameLogin
    <3>5. QED
      BY <2>4, <3>2, <3>3, <3>4 DEF NoOneKept
  <2>7. CASE ~RemoveFile /\ \A m \in Lines : ~GitStores(m)
    BY <2>4, <2>7, DiskStep DEF NoOneKept
  <2>8. QED
    BY <2>5, <2>6, <2>7
<1>4. QED
  BY <1>2, <1>3, BetweenStep

\* The values a migrate takes out all read a file it read, and when they are out no value of its
\* scope does.
Reads(files) == {h \in Helper : h.value \in files}
\* No global value reads the files once their writes are made.
DroppedOK ==
   /\ task.pc = "write" /\ task.then = "check" =>
        Clears(task.plan, Scope(FALSE), Reads(Range(task.paths)))
   /\ task.pc \in {"check", "remove"} \/ (task.pc \in Running /\ task.removed) =>
        \A f \in Range(task.paths) : ~NamedIn(Scope(FALSE), f)
\* The store values that a migrate takes out read one of its files.
GoneOK ==
   /\ task.pc = "write" /\ task.then = "check" =>
        /\ \A k \in 1..Len(task.plan) : \A h \in task.plan[k].drops : h.value \in Range(task.paths)
        /\ \A h \in task.out : h.value \in Range(task.paths)
   /\ task.pc \in {"check", "remove"} \/ (task.removed /\ task.pc \in {"install", "write"}) =>
        \A h \in task.gone : h.value \in Range(task.paths)

\* What is named, a helper of those files has.
LEMMA NamedInHas ==
    ASSUME NEW files \in SUBSET ConfigFiles, NEW f \in HelperValues
    PROVE  NamedIn(files, f) => \E h \in Helper : h.file \in files /\ Has(h) /\ h.value = f
<1> SUFFICES ASSUME NamedIn(files, f)
             PROVE  \E h \in Helper : h.file \in files /\ Has(h) /\ h.value = f
  OBVIOUS
<1>1. PICK file \in files, key \in Keys : f \in Range(config[file][key])
  BY DEF NamedIn
<1>2. PICK h : h = [file |-> file, key |-> key, value |-> f]
  OBVIOUS
<1>3. h \in Helper /\ h.file \in files /\ Has(h) /\ h.value = f
  BY <1>1, <1>2 DEF Helper, Has
<1>4. QED
  BY <1>3

\* The plan to drop the stores' values.
LEMMA DropPlanIs ==
    ASSUME Typed, DropStoreHelpers
    PROVE  \E plan : /\ Planned(plan, "check")
                     /\ Clears(plan, Scope(FALSE), Reads(Range(task.paths)))
                     /\ \A k \in 1..Len(plan) : \A h \in plan[k].drops : h.value \in Range(task.paths)
<1>1. TypeOK /\ task.pc = "ask" /\ task.pc \in Running
  BY DEF Typed, DropStoreHelpers, Running
<1>2. task \in Task /\ task.plan = <<>> /\ config \in ConfigType
  BY <1>1, At
<1>3. PICK files, removed, plan :
         /\ files = Range(task.paths)
         /\ removed = {h \in Range(InScope(FALSE)) : StoreFiles(h.value) \cap files # {}}
         /\ plan = RemovePlan(InScope(FALSE), removed)
  OBVIOUS
<1>4. files \subseteq Files
  BY <1>2, <1>3, FieldsOf, RangeAt
<1>5. removed = {h \in Range(InScope(FALSE)) : h.value \in files}
  BY <1>3, <1>4, StoresAre
<1>6. Removes(plan, FALSE, removed)
  BY <1>2, <1>3, RemovePlanIs
<1>7. plan \in Seq(ConfigWrite) /\ DOMAIN plan = 1..Len(plan)
  BY <1>6 DEF Removes
<1>8. ASSUME NEW k \in 1..Len(plan) PROVE \A h \in plan[k].drops : h.value \in files
  <2>1. plan[k].drops \subseteq removed
    <3>1. plan[k].drops = {h \in removed : Place(h) = Place(plan[k])}
      BY <1>6, <1>7 DEF Removes
    <3>2. QED
      BY <3>1
  <2>2. QED
    BY <1>5, <2>1
<1>9. ASSUME NEW k \in 1..Len(plan), NEW v \in Range(plan[k].values)
      PROVE  [file |-> plan[k].file, key |-> plan[k].key, value |-> v] \notin Reads(files)
  <2>1. /\ plan[k].file \in Scope(FALSE) /\ plan[k].key \in Keys
        /\ plan[k].values = LeftAt(plan[k].file, plan[k].key, removed)
    BY <1>6, <1>7 DEF Removes
  <2>2. PICK there, V, h :
          /\ there = config[plan[k].file][plan[k].key]
          /\ V = {u \in HelperValues : [file |-> plan[k].file, key |-> plan[k].key, value |-> u] \notin removed}
          /\ h = [file |-> plan[k].file, key |-> plan[k].key, value |-> v]
    OBVIOUS
  <2>3. there \in Seq(HelperValues)
    BY <1>2, <2>1, <2>2, ScopeFiles DEF ConfigType
  <2>4. Range(Those(there, V)) = Range(there) \cap V
    BY <2>3, ThoseType
  <2>5. plan[k].values = Those(there, V)
    BY <2>1, <2>2 DEF LeftAt
  <2>6. v \in Range(there) /\ v \in HelperValues /\ h \notin removed
    BY <2>2, <2>4, <2>5
  <2>7. h \in Helper /\ h.file \in Scope(FALSE) /\ Has(h)
    BY <2>1, <2>2, <2>6, ScopeFiles DEF Helper, Has
  <2>8. h \in Range(InScope(FALSE))
    BY <1>2, <2>7, InScopeType
  <2>9. h.value \notin files
    BY <1>5, <2>6, <2>8
  <2>10. QED
    BY <2>2, <2>9 DEF Reads
<1>10. ASSUME NEW h \in Reads(files), h.file \in Scope(FALSE), Has(h)
       PROVE  \E k \in 1..Len(plan) : Place(plan[k]) = Place(h)
  <2>1. h \in removed
    BY <1>2, <1>5, <1>10, InScopeType DEF Reads
  <2>2. QED
    BY <1>6, <1>7, <2>1 DEF Removes
<1>11. Planned(plan, "check")
  BY <1>3 DEF DropStoreHelpers
<1>12. QED
  BY <1>3, <1>8, <1>9, <1>10, <1>11 DEF Clears

\* Every step keeps DroppedOK.
LEMMA DroppedStep ==
    ASSUME Typed, PlanOK, DroppedOK, [Next]_vars
    PROVE  DroppedOK'
<1>1. TypeOK /\ StepOK /\ Moved
  BY Moves DEF Typed
<1>2. \A f \in Files : NamedIn(Scope(FALSE), f)' => NamedIn(Scope(FALSE), f)
  <2>1. Scope(FALSE) \in SUBSET ConfigFiles
    BY ScopeFiles
  <2>2. QED
    BY <2>1, NamedStep DEF NamedIn
<1>3. CASE DropStoreHelpers
  <2>1. task \in Task /\ task.plan = <<>> /\ UNCHANGED config /\ ~task.removed
    BY <1>1, <1>3, At DEF DropStoreHelpers, Running, StepOK
  <2>2. PICK plan : Planned(plan, "check") /\ Clears(plan, Scope(FALSE), Reads(Range(task.paths)))
    BY <1>3, DropPlanIs
  <2>3. Stays /\ task'.removed = task.removed
    BY <2>1, <2>2, PlannedFields, Zenon
  <2>4. \/ plan = <<>> /\ task'.pc = "check"
        \/ plan # <<>> /\ task'.pc = "write" /\ task'.plan = plan
    <3>1. \/ plan = <<>> /\ task'.pc = "check" /\ task'.plan = <<>>
          \/ plan # <<>> /\ task'.pc = "write" /\ task'.plan = plan /\ task'.then = "check"
      BY <2>1, <2>2, PlannedFields, Zenon
    <3>2. QED
      BY <3>1
  <2>5. Clears(plan, Scope(FALSE), Reads(Range(task.paths)))'
    BY <2>1, <2>2, <2>3 DEF Clears, Has, Stays
  <2>6. ASSUME plan = <<>>, NEW f \in Range(task.paths) PROVE ~NamedIn(Scope(FALSE), f)
    <3>1. Range(task.paths) \subseteq Files
      BY <2>1, FieldsOf, RangeAt
    <3>2. \A h \in Reads(Range(task.paths)) : h.file \in Scope(FALSE) => ~Has(h)
      <4>1. 1..Len(plan) = {}
        BY <2>6
      <4>2. QED
        BY <2>2, <4>1 DEF Clears
    <3>3. QED
      <4>1. f \in HelperValues /\ Scope(FALSE) \in SUBSET ConfigFiles
        BY <2>6, <3>1, ScopeFiles, FilesAreValues
      <4>2. NamedIn(Scope(FALSE), f) => \E h \in Helper : h.file \in Scope(FALSE) /\ Has(h) /\ h.value = f
        BY <4>1, NamedInHas
      <4>3. QED
        BY <2>6, <3>2, <4>2 DEF Reads
  <2>7. CASE plan = <<>> /\ task'.pc = "check"
    BY <2>1, <2>3, <2>6, <2>7 DEF DroppedOK, NamedIn, Stays
  <2>8. CASE task'.pc = "write" /\ task'.plan = plan /\ plan # <<>>
    BY <2>1, <2>2, <2>3, <2>5, <2>8 DEF DroppedOK, Clears, Has, Stays
  <2>9. QED
    BY <2>4, <2>7, <2>8
<1>4. CASE WriteConfig
  <2>1. PICK w : WritesFirst(w)
    BY <1>1, <1>4, Written
  <2>2. task \in Task /\ task.pc = "write" /\ Stays /\ task'.removed = task.removed
    BY <1>1, <1>4, <2>1, WriteFields DEF WriteConfig, WritesFirst
  <2>3. Range(task.paths) \subseteq Files
    BY <2>2, FieldsOf, RangeAt
  <2>4. CASE task.then = "check"
    <3>1. PICK files, bad : files = Scope(FALSE) /\ bad = Reads(Range(task.paths))
      OBVIOUS
    <3>2. files \in SUBSET ConfigFiles /\ bad \in SUBSET Helper /\ Clears(task.plan, files, bad)
      BY <2>2, <2>4, <3>1, ScopeFiles DEF DroppedOK, Reads
    <3>3. ~task.removed
      BY <1>1, <2>2, <2>4 DEF StepOK
    <3>4. CASE Len(task.plan) = 1
      <4>1. task'.pc = "check"
        BY <2>1, <2>4, <3>4 DEF WritesFirst
      <4>2. \A h \in bad : h.file \in files => ~Has(h)'
        BY <1>4, <2>1, <3>2, <3>4, ClearsLast
      <4>3. ASSUME NEW f \in Range(task.paths) PROVE ~NamedIn(Scope(FALSE), f)'
        <5>1. SUFFICES ASSUME NamedIn(Scope(FALSE), f)' PROVE FALSE
          OBVIOUS
        <5>2. PICK file \in files, key \in Keys : f \in Range(config'[file][key])
          BY <3>1, <5>1 DEF NamedIn
        <5>3. PICK h : h = [file |-> file, key |-> key, value |-> f]
          OBVIOUS
        <5>4. h \in bad /\ h.file \in files
          BY <2>3, <3>1, <3>2, <5>3, FilesAreValues DEF Reads, Helper
        <5>5. Has(h)'
          BY <5>2, <5>3 DEF Has
        <5>6. QED
          BY <4>2, <5>4, <5>5
      <4>4. QED
        BY <2>2, <4>1, <4>3 DEF DroppedOK, Stays
    <3>5. CASE Len(task.plan) # 1
      <4>1. Clears(task.plan, files, bad)'
        BY <1>4, <2>1, <3>2, <3>5, ClearsOn
      <4>2. task'.pc = "write"
        BY <2>1, <3>5 DEF WritesFirst
      <4>3. QED
        BY <2>2, <3>1, <3>3, <4>1, <4>2 DEF DroppedOK, Stays
    <3>6. QED
      BY <3>4, <3>5
  <2>5. CASE task.then = "end"
    <3>1. task'.pc \notin {"check", "remove"} /\ (task'.pc = "write" => task'.then = "end")
      BY <2>1, <2>5 DEF WritesFirst
    <3>2. task.removed => \A f \in Range(task.paths) : ~NamedIn(Scope(FALSE), f)
      BY <2>2 DEF DroppedOK, Running
    <3>3. task.removed => \A f \in Range(task.paths) : ~NamedIn(Scope(FALSE), f)'
      BY <1>2, <2>3, <3>2
    <3>4. QED
      BY <2>2, <3>1, <3>3 DEF DroppedOK, Stays
  <2>6. QED
    BY <1>1, <2>2, <2>4, <2>5 DEF StepOK
<1>5. CASE WriteCut
  BY <1>5, CutStops DEF DroppedOK, Running
<1>6. CASE ~DropStoreHelpers /\ ~WriteConfig /\ ~WriteCut
  <2>1. UNCHANGED config
    BY <1>6, ConfigStep
  <2>2. ASSUME task'.pc = "write", task'.then = "check"
        PROVE  Clears(task.plan, Scope(FALSE), Reads(Range(task.paths)))'
    <3>1. UNCHANGED task
      BY <1>1, <1>6, <2>2 DEF Moved, AfterRemoval
    <3>2. QED
      BY <2>1, <2>2, <3>1 DEF DroppedOK, Clears, Has
  <2>3. ASSUME task'.pc \in {"check", "remove"} \/ (task'.pc \in Running /\ task'.removed),
               NEW f \in Range(task'.paths)
        PROVE  ~NamedIn(Scope(FALSE), f)'
    <3>1. CASE UNCHANGED task
      BY <2>1, <2>3, <3>1 DEF DroppedOK, NamedIn
    <3>2. CASE task.removed /\ task.pc \in Running /\ Stays
      BY <2>1, <2>3, <3>2 DEF DroppedOK, NamedIn, Stays
    <3>3. CASE task.pc \in {"check", "remove"} /\ Stays
      BY <2>1, <2>3, <3>3 DEF DroppedOK, NamedIn, Stays
    <3>4. UNCHANGED task \/ (task.removed /\ task.pc \in Running /\ Stays) \/ (task.pc \in {"check", "remove"} /\ Stays)
      <4>1. CASE task'.pc \in {"check", "remove"}
        <5>1. UNCHANGED task \/ CheckReaders
          BY <1>1, <1>6, <4>1, Zenon DEF Moved, AfterRemoval
        <5>2. CASE CheckReaders
          <6>1. task \in Task
            BY <1>1, <5>2, At DEF CheckReaders, Running
          <6>2. PICK p : Goto(p)
            BY <5>2 DEF CheckReaders
          <6>3. QED
            BY <5>2, <6>1, <6>2, GotoFields DEF CheckReaders
        <5>3. QED
          BY <5>1, <5>2
      <4>2. CASE task'.pc \in Running /\ task'.removed
        BY <4>2, RemovedStep
      <4>3. QED
        BY <2>3, <4>1, <4>2
    <3>5. QED
      BY <3>1, <3>2, <3>3, <3>4
  <2>4. QED
    BY <2>2, <2>3 DEF DroppedOK
<1>7. QED
  BY <1>3, <1>4, <1>5, <1>6

\* Every step keeps GoneOK.
LEMMA GoneStep ==
    ASSUME Typed, GoneOK, [Next]_vars
    PROVE  GoneOK'
<1>1. TypeOK /\ StepOK /\ OutOK /\ Moved
  BY Moves DEF Typed
<1>2. CASE DropStoreHelpers
  <2>1. task \in Task /\ task.plan = <<>> /\ task.pc = "ask" /\ ~task.removed /\ task.out = {} /\ task.gone = {}
    BY <1>1, <1>2, At DEF DropStoreHelpers, Running, StepOK, OutOK
  <2>2. PICK plan : /\ Planned(plan, "check")
                    /\ \A k \in 1..Len(plan) : \A h \in plan[k].drops : h.value \in Range(task.paths)
    BY <1>2, DropPlanIs
  <2>3. Stays /\ Owes
    BY <2>1, <2>2, PlannedFields, Zenon
  <2>4. \/ plan = <<>> /\ task'.pc = "check" /\ task'.plan = <<>>
        \/ plan # <<>> /\ task'.pc = "write" /\ task'.plan = plan /\ task'.then = "check"
    BY <2>1, <2>2, PlannedFields, Zenon
  <2>5. task'.removed = task.removed
    BY <2>1, <2>2, PlannedFields, Zenon
  <2>6. QED
    BY <2>1, <2>2, <2>3, <2>4, <2>5 DEF GoneOK, Stays, Owes
<1>3. CASE WriteConfig
  <2>1. PICK w : WritesFirst(w)
    BY <1>1, <1>3, Written
  <2>2. task \in Task /\ task.pc = "write" /\ Stays /\ task'.removed = task.removed
    BY <1>1, <1>3, <2>1, WriteFields DEF WriteConfig, WritesFirst
  <2>3. task.plan \in Seq(ConfigWrite) /\ Len(task.plan) \in Nat /\ Len(task.plan) >= 1
        /\ 1 \in 1..Len(task.plan) /\ w = task.plan[1] /\ Head(task.plan) = w
    BY <2>1 DEF WritesFirst
  <2>4. PICK drops : drops = StoresOf(Head(task.plan).drops) /\ drops \subseteq w.drops
    BY <2>3 DEF StoresOf
  <2>5. \/ /\ Len(task.plan) = 1 /\ task'.pc = task.then
           /\ task'.gone = task.gone \cup (task.out \cup drops)
        \/ /\ Len(task.plan) # 1 /\ task'.pc = "write" /\ task'.then = task.then /\ task'.gone = task.gone
           /\ task'.out = task.out \cup drops
    BY <1>1, <1>3, <2>4, WriteFields
  <2>6. CASE task.then = "check"
    <3>1. /\ \A k \in 1..Len(task.plan) : \A h \in task.plan[k].drops : h.value \in Range(task.paths)
          /\ \A h \in task.out : h.value \in Range(task.paths)
          /\ task.gone = {} /\ ~task.removed
      BY <1>1, <2>2, <2>6 DEF GoneOK, OutOK, StepOK, Running
    <3>2. \A h \in task.out \cup drops : h.value \in Range(task.paths)
      BY <2>3, <2>4, <3>1
    <3>3. CASE Len(task.plan) = 1
      BY <2>2, <2>5, <2>6, <3>1, <3>2, <3>3 DEF GoneOK, Stays
    <3>4. CASE Len(task.plan) # 1
      <4>1. \A k \in 1..Len(task'.plan) : k + 1 \in 1..Len(task.plan) /\ task'.plan[k] = task.plan[k + 1]
        BY <2>1, <3>4 DEF WritesFirst
      <4>2. QED
        BY <2>2, <2>5, <3>1, <3>2, <3>4, <4>1 DEF GoneOK, Stays
    <3>5. QED
      BY <3>3, <3>4
  <2>7. CASE task.then = "end"
    <3>1. task'.pc = "end" \/ (task'.pc = "write" /\ task'.then = "end" /\ task'.gone = task.gone)
      BY <2>5, <2>7
    <3>2. task.removed => \A h \in task.gone : h.value \in Range(task.paths)
      BY <2>2 DEF GoneOK
    <3>3. QED
      BY <2>2, <3>1, <3>2 DEF GoneOK, Stays
  <2>8. QED
    BY <1>1, <2>2, <2>6, <2>7 DEF StepOK
<1>4. CASE CheckReaders
  <2>1. task \in Task /\ task.pc = "check" /\ ~task.removed
    BY <1>1, <1>4, At DEF CheckReaders, Running, StepOK
  <2>2. PICK p : Goto(p) /\ p \in {"remove", "install", "end"}
    BY <1>4 DEF CheckReaders, AfterRemoval
  <2>3. Stays /\ Owes /\ task'.removed = task.removed /\ task'.pc = p
    BY <2>1, <2>2, GotoFields
  <2>4. QED
    BY <2>1, <2>2, <2>3 DEF GoneOK, Stays, Owes
<1>5. CASE RemoveFile
  <2>1. task \in Task /\ task.pc = "remove"
    BY <1>1, <1>5, At DEF RemoveFile, Running
  <2>2. CASE UNCHANGED task
    BY <2>2 DEF GoneOK
  <2>3. CASE task' # task
    <3>1. Stays /\ Owes /\ task'.pc \in {"install", "end"}
      BY <1>5, <2>1, <2>3, RemoveFields DEF AfterRemoval
    <3>2. QED
      BY <2>1, <3>1 DEF GoneOK, Stays, Owes
  <2>4. QED
    BY <2>2, <2>3
<1>6. CASE PlanInstall \/ Uninstall
  <2>1. task \in Task /\ task.plan = <<>> /\ task.pc \in {"install", "uninstall"}
        /\ (task.pc = "uninstall" => ~task.removed)
    BY <1>1, <1>6, At DEF PlanInstall, Uninstall, Running, StepOK
  <2>2. PICK plan : Planned(plan, "end")
    BY <1>6 DEF PlanInstall, Uninstall
  <2>3. Stays /\ Owes
    BY <2>1, <2>2, PlannedFields, Zenon
  <2>4. task'.removed = task.removed
    BY <2>1, <2>2, PlannedFields, Zenon
  <2>5. \/ plan = <<>> /\ task'.pc = "end" /\ task'.plan = <<>>
        \/ plan # <<>> /\ task'.pc = "write" /\ task'.plan = plan /\ task'.then = "end"
    BY <2>1, <2>2, PlannedFields, Zenon
  <2>6. QED
    BY <2>1, <2>3, <2>4, <2>5 DEF GoneOK, Stays, Owes
<1>7. CASE KeepSource
  <2>1. task \in Task /\ task.pc = "ask" /\ ~task.removed
    BY <1>1, <1>7, At DEF KeepSource, Running, StepOK
  <2>2. task'.removed = task.removed /\ task'.pc \in {"install", "end"}
    BY <1>7, <2>1, GotoFields DEF KeepSource, AfterRemoval
  <2>3. QED
    BY <2>1, <2>2 DEF GoneOK
<1>8. CASE \E c \in Commands : Start(c)
  <2>1. task'.removed = FALSE /\ task'.pc \in {"install", "uninstall", "read"}
    BY <1>8 DEF Start
  <2>2. QED
    BY <2>1 DEF GoneOK
<1>9. CASE UNCHANGED task
  BY <1>9 DEF GoneOK
<1>10. CASE task'.pc \in {"failed", "cut", "killed", "ok", "sort", "import", "ask"}
  BY <1>10 DEF GoneOK
<1>11. QED
  BY <1>1, <1>2, <1>3, <1>4, <1>5, <1>6, <1>7, <1>8, <1>9, <1>10 DEF Moved

\* After a removal: the files are gone and nothing names them, and a file a migrate would read is
\* gone, or another scope names it, or no value reads a store and it has nothing to keep.
NoneNamed == \A g \in Files : ~Named(g)
\* After a removal: the file is gone, or the repository still names it, or it has nothing to keep
\* and nothing is named.
Settled(f) == disk[f] = None \/ NamedIn({"repository"}, f) \/ (NoOneKept(f) /\ NoneNamed)
\* Every file of a migrate is settled after its removal.
SettledOK ==
    task.pc \in Running /\ task.removed =>
        /\ \A f \in Range(task.found) : disk[f] = None /\ ~Named(f)
        /\ \A f \in Range(task.paths) : Settled(f)

\* A file is named in the repository or in the global config.
LEMMA NamedSomewhere ==
    ASSUME NEW f
    PROVE  Named(f) => NamedIn({"repository"}, f) \/ NamedIn(Scope(FALSE), f)
BY DEF Named, NamedIn, Scope, ConfigFiles

\* What is named in some files is named.
LEMMA NamedInNamed ==
    ASSUME NEW f, NEW files \in SUBSET ConfigFiles
    PROVE  NamedIn(files, f) => Named(f)
BY DEF Named, NamedIn

\* git stores nothing when no value names a store.
LEMMA NoStores ==
    ASSUME TypeOK, NoneNamed, NEW m \in Lines, GitStores(m)
    PROVE  FALSE
<1>1. \E f \in Files : f \in Effective
  BY StoresType
<1>2. QED
  BY <1>1, EffectiveNamed, TypeGives DEF NoneNamed

\* Every step keeps SettledOK.
LEMMA SettledStep ==
    ASSUME Typed, FilesInv, FoundOK, NewOnly, DroppedOK, SettledOK, [Next]_vars
    PROVE  SettledOK'
<1> SUFFICES ASSUME task'.pc \in Running, task'.removed
             PROVE  /\ \A f \in Range(task'.found) : disk'[f] = None /\ ~Named(f)'
                    /\ \A f \in Range(task'.paths) : Settled(f)'
  BY DEF SettledOK
<1>1. TypeOK /\ StepOK /\ disk \in [Files -> Seq(Lines) \cup {None}]
  BY TypeGives DEF Typed
<1>2. \A f \in Files : Named(f)' => Named(f)
  BY NamedStep DEF FilesInv
<1>3. CASE RemoveFile /\ UNCHANGED <<disk, retired>> /\ task.pc = "remove" /\ task \in Task /\ Stays
           /\ \A f \in Range(task.found) : disk[f] = None
  <2>1. task'.found = task.found /\ task'.paths = task.paths /\ UNCHANGED <<config, kept>>
    BY <1>3 DEF Stays, RemoveFile
  <2>2. Range(task.found) \subseteq Files /\ Range(task.paths) \subseteq Files
    BY <1>3, FieldsOf, RangeAt
  <2>3. \A f \in Range(task.found) : ~Named(f)
    BY <1>3 DEF FilesInv, RemovalOK
  <2>4. Between /\ Range(task.found) # {}
    BY <1>3 DEF FoundOK, Between
  <2>5. ASSUME NEW f \in Range(task.paths) PROVE Settled(f)
    <3>1. CASE f \in Range(task.found)
      BY <1>3, <3>1 DEF Settled
    <3>2. CASE f \notin Range(task.found)
      <4>1. NoOneKept(f)
        BY <2>4, <3>2 DEF NewOnly
      <4>2. CASE Named(f)
        BY <1>3, <4>2, NamedSomewhere DEF DroppedOK, Settled
      <4>3. CASE ~Named(f)
        <5>1. PICK g \in Range(task.found) : TRUE
          BY <2>4
        <5>2. \A e \in Files : e = f \/ e = g
          BY <2>2, <3>2, <5>1 DEF Files
        <5>3. NoneNamed
          BY <2>3, <4>3, <5>2 DEF NoneNamed
        <5>4. QED
          BY <4>1, <5>3 DEF Settled
      <4>4. QED
        BY <4>2, <4>3
    <3>3. QED
      BY <3>1, <3>2
  <2>6. \A f \in Range(task.paths) : Settled(f)'
    BY <1>3, <2>1, <2>5 DEF Settled, NoneNamed, NoOneKept, Named, NamedIn
  <2>7. \A f \in Range(task.found) : ~Named(f)'
    BY <2>1, <2>3 DEF Named
  <2>8. QED
    BY <1>3, <2>1, <2>6, <2>7
<1>4. CASE UNCHANGED task \/ (task.removed /\ task.pc \in Running /\ Stays)
  <2>1. /\ task'.found = task.found /\ task'.paths = task.paths
        /\ task.pc \in Running /\ task.removed /\ task.pc \in {"install", "write", "end"}
        /\ task.command.cmd = "migrate"
    BY <1>1, <1>4 DEF Stays, StepOK
  <2>2. task \in Task
    BY <1>1, <2>1, At
  <2>3. Range(task.found) \subseteq Files /\ Range(task.paths) \subseteq Files
    BY <2>2, FieldsOf, RangeAt
  <2>4. /\ \A f \in Range(task.found) : disk[f] = None /\ ~Named(f)
        /\ \A f \in Range(task.paths) : Settled(f) /\ ~NamedIn(Scope(FALSE), f)
    BY <2>1 DEF SettledOK, DroppedOK
  <2>5. \A f \in Range(task.found) : ~Named(f)'
    BY <1>2, <2>3, <2>4
  <2>6. \A f \in Files : NamedIn({"repository"}, f) => NamedIn({"repository"}, f)'
    <3>1. CASE WriteConfig
      <4>1. PICK w : WritesFirst(w)
        BY <1>1, <3>1, Written
      <4>2. w.file \in Scope(task.command.local) /\ w = task.plan[1]
        BY <3>1, <4>1 DEF FilesInv, PlanOK, KeepsOthers, WritesFirst, WriteConfig
      <4>3. task.command.local = FALSE
        BY <2>1, <2>2, FieldsOf, CommandFields
      <4>4. w.file # "repository"
        BY <4>2, <4>3 DEF Scope
      <4>5. \A key \in Keys : config'["repository"][key] = config["repository"][key]
        BY <4>1, <4>4 DEF WritesFirst, ConfigFiles
      <4>6. QED
        BY <4>5 DEF NamedIn
    <3>2. CASE ~WriteConfig
      BY <2>1, <3>2, ConfigStep, CutStops DEF NamedIn, Running
    <3>3. QED
      BY <3>1, <3>2
  <2>7. NoneNamed => NoneNamed'
    BY <1>2 DEF NoneNamed
  <2>8. ~RemoveFile
    BY <2>1 DEF RemoveFile
  <2>9. CASE \E m \in Lines : GitStores(m)
    <3>1. PICK m \in Lines : GitStores(m)
      BY <2>9
    <3>2. \A f \in Files : disk'[f] # disk[f] => Named(f)
      BY <1>1, <3>1, StoresType, EffectiveNamed, TypeGives
    <3>3. \A f \in Range(task.found) : disk'[f] = None
      BY <2>3, <2>4, <3>2
    <3>4. ~NoneNamed
      BY <1>1, <3>1, NoStores
    <3>5. ASSUME NEW f \in Range(task.paths) PROVE Settled(f)'
      <4>1. CASE disk'[f] = disk[f]
        BY <2>3, <2>4, <2>6, <3>4, <4>1 DEF Settled
      <4>2. CASE disk'[f] # disk[f]
        <5>1. NamedIn({"repository"}, f)
          BY <2>3, <2>4, <3>2, <4>2, NamedSomewhere
        <5>2. QED
          BY <2>3, <2>6, <5>1 DEF Settled
      <4>3. QED
        BY <4>1, <4>2
    <3>6. QED
      BY <2>1, <2>5, <3>3, <3>5
  <2>10. CASE \A m \in Lines : ~GitStores(m)
    <3>1. UNCHANGED <<disk, kept>>
      BY <2>8, <2>10, DiskStep
    <3>2. \A f \in Range(task.paths) : Settled(f)'
      BY <2>3, <2>4, <2>6, <2>7, <3>1 DEF Settled, NoOneKept
    <3>3. QED
      BY <2>1, <2>4, <2>5, <3>1, <3>2
  <2>11. QED
    BY <2>9, <2>10
<1>5. QED
  BY <1>3, <1>4, RemovedStep

\* A value that is out has its way back said, or its file is read, or there is nothing to say.
Told(h) ==
    \A f \in StoreFiles(h.value) :
        \/ disk[f] = None \/ h \in said \/ f \in Range(StorePaths)
        \/ (NoOneKept(f) /\ NoneNamed)
\* Every store value that is out is told, once a command has ended.
ToldOK == Ended => \A h \in dropped : Told(h)

\* A way back that is said leaves nothing to say of a value whose file is not gone.
LEMMA WayBackTells ==
    ASSUME NEW gone, NEW deleted, NEW h \in gone, NEW f \in StoreFiles(h.value),
           disk[f] # None, f \notin deleted, f \notin Range(StorePaths)
    PROVE  h \in WayBack(gone, deleted)
<1>1. f \in StoreFiles(h.value) \ deleted
  OBVIOUS
<1>2. QED
  BY <1>1 DEF WayBack

\* The paths are of the config.
LEMMA PathsKept ==
    ASSUME UNCHANGED config
    PROVE  StorePaths' = StorePaths
BY DEF StorePaths, Helpers, InScope, Listed, OfKey

\* A command that ends tells of each.
LEMMA ToldNow ==
    ASSUME UNCHANGED <<config, disk, kept, dropped>>,
           \A h \in dropped : \A f \in StoreFiles(h.value) :
              disk[f] = None \/ h \in said' \/ f \in Range(StorePaths) \/ (NoOneKept(f) /\ NoneNamed)
    PROVE  ToldOK'
<1>1. StorePaths' = StorePaths
  BY PathsKept
<1>2. NoneNamed' = NoneNamed /\ \A f : NoOneKept(f)' = NoOneKept(f)
  BY DEF NoneNamed, NoOneKept, Named
<1>3. QED
  BY <1>1, <1>2 DEF ToldOK, Told

\* The steps that run a command on do not end it.
LEMMA NotEnded ==
    ASSUME Typed, [Next]_vars, task' # task, ~End, ~RemoveFails, ~WriteFails, ~WriteCut,
           ~UnlockFails, ~ReadStores, ~Kill
    PROVE  task'.pc \notin {"ok", "failed"}
<1>1. TypeOK /\ (task.pc = "write" => task.then \in {"end", "check"})
  BY DEF Typed, StepOK
<1>2. CASE \E c \in Commands : Start(c)
  BY <1>2 DEF Start
<1>3. CASE PlanInstall \/ Uninstall \/ DropStoreHelpers
  <2>1. task \in Task /\ task.plan = <<>>
    BY <1>1, <1>3, At DEF PlanInstall, Uninstall, DropStoreHelpers, Running
  <2>2. PICK plan, then : then \in {"end", "check"} /\ Planned(plan, then)
    BY <1>3 DEF PlanInstall, Uninstall, DropStoreHelpers
  <2>3. task'.pc \in {then, "write"}
    BY <2>1, <2>2, PlannedFields, Zenon
  <2>4. QED
    BY <2>2, <2>3
<1>4. CASE WriteConfig
  <2>1. task.pc = "write"
    BY <1>4 DEF WriteConfig
  <2>2. task'.pc \in {task.then, "write"}
    BY <1>1, <1>4, WriteFields
  <2>3. QED
    BY <1>1, <2>1, <2>2
<1>5. CASE CompareLines \/ Import
  BY <1>1, <1>5, At, CompareFields, ImportFields DEF CompareLines, Import, Running
<1>6. CASE KeepSource \/ CheckReaders
  <2>1. task \in Task
    BY <1>1, <1>6, At DEF KeepSource, CheckReaders, Running
  <2>2. PICK p : Goto(p) /\ p \in {"remove", "install", "end"}
    BY <1>6 DEF KeepSource, CheckReaders, AfterRemoval
  <2>3. QED
    BY <2>1, <2>2, GotoFields
<1>7. CASE RemoveFile
  BY <1>1, <1>7, At, RemoveFields DEF RemoveFile, Running, AfterRemoval
<1>8. CASE UNCHANGED vars \/ (\E e \in Accounts : AddEntry(e)) \/ (\E m \in Lines : GitStores(m))
  BY <1>8 DEF vars, AddEntry, GitStores
<1>9. QED
  BY <1>2, <1>3, <1>4, <1>5, <1>6, <1>7, <1>8 DEF Next

\* Every step keeps ToldOK.
LEMMA ToldStep ==
    ASSUME Typed, SettledOK, GoneOK, ToldOK, [Next]_vars
    PROVE  ToldOK'
<1>1. TypeOK /\ StepOK /\ OutOK /\ config \in ConfigType /\ disk \in [Files -> Seq(Lines) \cup {None}]
  BY TypeGives DEF Typed
<1>2. CASE End
  <2>1. task.pc = "end" /\ task.pc \in Running /\ UNCHANGED <<config, disk, kept, dropped>>
    BY <1>2 DEF End, Running
  <2>2. dropped = task.gone
    BY <1>1, <2>1 DEF OutOK
  <2>3. PICK deleted : /\ deleted = (IF task.removed THEN Range(task.found) ELSE {})
                       /\ said' = said \cup WayBack(task.gone, deleted)
    BY <1>2 DEF End
  <2>4. \A f \in deleted : disk[f] = None
    BY <2>1, <2>3 DEF SettledOK
  <2>5. ASSUME NEW h \in dropped, NEW f \in StoreFiles(h.value)
        PROVE  disk[f] = None \/ h \in said' \/ f \in Range(StorePaths)
    BY <2>2, <2>3, <2>4, WayBackTells
  <2>6. QED
    BY <2>1, <2>5, ToldNow
<1>3. CASE RemoveFails
  <2>1. task.pc = "remove" /\ task.pc \in Running /\ UNCHANGED <<config, disk, kept, dropped>>
    BY <1>3 DEF RemoveFails, Running
  <2>2. dropped = task.gone
    BY <1>1, <2>1 DEF OutOK
  <2>3. PICK deleted : /\ deleted = {f \in Range(task.found) : disk[f] = None}
                       /\ said' = said \cup WayBack(task.gone, deleted)
    BY <1>3 DEF RemoveFails
  <2>4. \A f \in deleted : disk[f] = None
    BY <2>3
  <2>5. ASSUME NEW h \in dropped, NEW f \in StoreFiles(h.value)
        PROVE  disk[f] = None \/ h \in said' \/ f \in Range(StorePaths)
    BY <2>2, <2>3, <2>4, WayBackTells
  <2>6. QED
    BY <2>1, <2>5, ToldNow
<1>4. CASE WriteFails
  <2>1. task.pc = "write" /\ task.pc \in Running /\ UNCHANGED <<config, disk, kept, dropped>>
        /\ said' = (said \cup task.out) \cup (IF task.removed THEN {} ELSE task.gone)
    BY <1>4 DEF WriteFails, SayRestore, Running
  <2>2. dropped = task.out \cup task.gone /\ task \in Task
    BY <1>1, <2>1, At DEF OutOK
  <2>3. ASSUME NEW h \in dropped, NEW f \in StoreFiles(h.value), h \notin said'
        PROVE  disk[f] = None \/ f \in Range(StorePaths) \/ (NoOneKept(f) /\ NoneNamed)
    <3>1. task.removed /\ h \in task.gone
      BY <2>1, <2>2, <2>3
    <3>2. h.value = f /\ f \in Files
      BY <2>3, StoresAre
    <3>3. f \in Range(task.paths)
      BY <2>1, <3>1, <3>2 DEF GoneOK
    <3>4. Settled(f)
      BY <2>1, <3>1, <3>3 DEF SettledOK
    <3>5. NamedIn({"repository"}, f) => f \in Range(StorePaths)
      <4>1. {"repository"} \in SUBSET ConfigFiles
        BY DEF ConfigFiles
      <4>2. QED
        BY <1>1, <3>2, <4>1, NamedInNamed, StorePathsAre
    <3>6. QED
      BY <3>4, <3>5 DEF Settled
  <2>4. QED
    BY <2>1, <2>3, ToldNow
<1>5. CASE UnlockFails \/ ReadStores
  <2>1. task.pc \in {"read", "sort", "import", "ask"} /\ task.pc \in Running
        /\ UNCHANGED <<config, disk, kept, dropped>>
    BY <1>5 DEF UnlockFails, ReadStores, Running
  <2>2. dropped = {}
    BY <1>1, <2>1 DEF OutOK
  <2>3. QED
    BY <2>1, <2>2, ToldNow
<1>6. CASE UNCHANGED task /\ UNCHANGED <<config, dropped, said>> /\ \E m \in Lines : GitStores(m)
  <2> SUFFICES ASSUME Ended, NEW h \in dropped, NEW f \in StoreFiles(h.value)
               PROVE  disk'[f] = None \/ h \in said \/ f \in Range(StorePaths)
    <3>1. StorePaths' = StorePaths
      BY <1>6, PathsKept
    <3>2. QED
      BY <1>6, <3>1 DEF ToldOK, Told, Ended
  <2>1. PICK m \in Lines : GitStores(m)
    BY <1>6
  <2>2. f \in Files
    BY StoresAre
  <2>3. ~NoneNamed
    BY <1>1, <2>1, NoStores
  <2>4. disk[f] = None \/ h \in said \/ f \in Range(StorePaths)
    BY <2>3 DEF ToldOK, Told
  <2>5. disk'[f] # disk[f] => f \in Range(StorePaths)
    BY <1>1, <2>1, <2>2, StoresType, EffectiveNamed, StorePathsAre
  <2>6. QED
    BY <2>4, <2>5
<1>7. CASE UNCHANGED task /\ UNCHANGED <<config, disk, kept, dropped, said>>
  <2>1. Ended' => Ended
    BY <1>7 DEF Ended
  <2>2. ASSUME Ended PROVE ToldOK'
    BY <1>7, <2>2, ToldNow DEF ToldOK, Told
  <2>3. QED
    BY <2>1, <2>2 DEF ToldOK
<1>8. CASE ~Ended'
  BY <1>8 DEF ToldOK
<1>9. CASE (\E e \in Accounts : AddEntry(e)) \/ UNCHANGED vars
  BY <1>7, <1>9 DEF AddEntry, vars
<1>10. CASE \E m \in Lines : GitStores(m)
  BY <1>6, <1>10 DEF GitStores
<1>11. CASE UNCHANGED task /\ ~(\E m \in Lines : GitStores(m)) /\ ~(\E e \in Accounts : AddEntry(e)) /\ ~UNCHANGED vars
  <2>1. SUFFICES ASSUME Ended PROVE FALSE
    BY <1>11 DEF ToldOK, Ended
  <2>2. CASE \E c \in Commands : Start(c)
    <3>1. PICK c \in Commands : Start(c)
      BY <2>2
    <3>2. task'.pc \in {"install", "uninstall", "read"}
      BY <3>1 DEF Start
    <3>3. QED
      BY <1>11, <2>1, <3>2 DEF Ended
  <2>3. CASE PlanInstall \/ Uninstall \/ WriteConfig \/ WriteFails \/ WriteCut \/ End
    BY <2>1, <2>3 DEF Ended, PlanInstall, Uninstall, WriteConfig, WriteFails, WriteCut, End
  <2>4. CASE ReadStores \/ CompareLines \/ UnlockFails \/ Import \/ KeepSource \/ DropStoreHelpers
    BY <2>1, <2>4 DEF Ended, ReadStores, CompareLines, UnlockFails, Import, KeepSource,
       DropStoreHelpers
  <2>5. CASE CheckReaders \/ RemoveFile \/ RemoveFails \/ Kill
    BY <2>1, <2>5 DEF Ended, CheckReaders, RemoveFile, RemoveFails, Kill
  <2>6. QED
    BY <1>11, <2>2, <2>3, <2>4, <2>5 DEF Next
<1>12. CASE Kill \/ WriteCut
  BY <1>12, CutStops DEF Kill, Stops, ToldOK, Ended
<1>13. CASE /\ task' # task /\ ~End /\ ~RemoveFails /\ ~WriteFails /\ ~WriteCut /\ ~UnlockFails
            /\ ~ReadStores /\ ~Kill
  <2>1. task'.pc \in {"ok", "failed"} => FALSE
    BY <1>1, <1>13, NotEnded
  <2>2. QED
    BY <2>1 DEF ToldOK, Ended
<1>14. QED
  BY <1>2, <1>3, <1>4, <1>5, <1>9, <1>10, <1>11, <1>12, <1>13

\* The six.
WayBackInv == FoundOK /\ NewOnly /\ DroppedOK /\ GoneOK /\ SettledOK /\ ToldOK

\* A behaviour begins with them.
LEMMA WayBackInvInit == Init => WayBackInv
BY DEF Init, Idle, WayBackInv, FoundOK, NewOnly, DroppedOK, GoneOK, SettledOK, ToldOK, Between,
   Ended, Running

\* They always hold.
LEMMA WayBackInvAlways == Spec => [](Typed /\ FilesInv /\ WayBackInv)
<1>1. Init => WayBackInv
  BY WayBackInvInit
<1>2. Typed /\ FilesInv /\ WayBackInv /\ [Next]_vars => WayBackInv'
  BY FoundStep, NewStep, DroppedStep, GoneStep, SettledStep, ToldStep DEF FilesInv, WayBackInv
<1>3. QED
  BY <1>1, <1>2, FilesInvAlways, PTL DEF Spec

\* When a command has ended, and no write of a key was cut short in it, each store value it took
\* out of the config is named to the user, or nothing git would get from its file is lost with it:
\* the file is gone, still read, or has no credential to keep.
THEOREM TheWayBackIsTold == Spec => []WayBackIsTold
<1>1. Typed /\ WayBackInv => WayBackIsTold
  <2> SUFFICES ASSUME Typed, WayBackInv, Ended, NEW h \in dropped, NEW f \in StoreFiles(h.value),
                      disk[f] # None, Range(disk[f]) \cap kept # {}
               PROVE  h \in said \/ f \in Range(StorePaths)
    BY DEF WayBackIsTold, ToldOf
  <2>1. Told(h)
    BY DEF WayBackInv, ToldOK
  <2>2. QED
    BY <2>1 DEF Told, NoOneKept
<1>2. QED
  BY <1>1, WayBackInvAlways, PTL

-----------------------------------------------------------------------------
(* The order of the lines *)

\* A line is no longer fresh once the known entries have one of its account or name, which is what
\* `_same_account` finds.
RequestOf(line) ==
    [scheme |-> line.scheme, host |-> line.host, user |-> None,
     path |-> IF line.path = <<>> THEN NoPath ELSE line.path]
\* The entries of the line's username.
Owned(known, line) == {e \in known : e.user = line.user}
\* One of them matches the request of the line, or has its name.
HasAccount(known, line) ==
    \E e \in Owned(known, line) :
        e \in Matching(Owned(known, line), RequestOf(line)) \/ e.name = line.name
\* Every path is a sequence.
HavePaths(entries) == \A e \in entries : Len(e.path) \in Nat

\* Of entries with bounded paths, one is longest.
LEMMA LongestOne ==
    ASSUME NEW E, E # {}, NEW n \in Nat, \A e \in E : Len(e.path) \in Nat /\ Len(e.path) <= n
    PROVE  Longest(E) # {}
<1> DEFINE T == {Len(e.path) : e \in E}
<1>1. T \subseteq Nat /\ T # {} /\ \A x \in T : x <= n
  OBVIOUS
<1>2. PICK m : m \in T /\ \A x \in T : x <= m
  <2> HIDE DEF T
  <2>1. QED
    BY <1>1, MaxIsMax
<1>3. PICK e \in E : m = Len(e.path)
  BY <1>2
<1>4. e \in Longest(E)
  BY <1>2, <1>3 DEF Longest
<1>5. QED
  BY <1>4

\* `_same_account` finds one when there is one.
LEMMA SameAccountIs ==
    ASSUME NEW known, HavePaths(known), NEW line, Len(line.path) \in Nat
    PROVE  SameAccount(known, line) # {} <=> HasAccount(known, line)
<1>1. PICK own, request, all, found :
        /\ own = Owned(known, line) /\ request = RequestOf(line)
        /\ all = Matching(own, request) /\ found = Selected(own, request)
  OBVIOUS
<1>2. request.user = None
  BY <1>1 DEF RequestOf
<1>3. found = IF request.path = NoPath THEN all ELSE Longest(all)
  BY <1>1, <1>2 DEF Selected, OfUser
<1>4. found \subseteq all /\ all \subseteq own
  BY <1>1, <1>3 DEF Longest, Matching
<1>5. all # {} => found # {}
  <2>1. CASE request.path = NoPath
    BY <1>3, <2>1
  <2>2. CASE request.path # NoPath
    <3>1. request.path = line.path
      BY <1>1, <2>2 DEF RequestOf
    <3>2. \A e \in all : Len(e.path) \in Nat /\ Len(e.path) <= Len(line.path)
      BY <1>1, <1>4, <2>2, <3>1 DEF Matching, IsPrefix, HavePaths, Owned
    <3>3. all # {} => Longest(all) # {}
      BY <3>2, LongestOne
    <3>4. QED
      BY <1>3, <2>2, <3>3
  <2>3. QED
    BY <2>1, <2>2
<1>6. SameAccount(known, line) = IF found # {} THEN found ELSE {e \in own : e.name = line.name}
  BY <1>1 DEF SameAccount, Owned, RequestOf
<1>7. HasAccount(known, line) <=> all # {} \/ {e \in own : e.name = line.name} # {}
  BY <1>1, <1>4 DEF HasAccount
<1>8. QED
  BY <1>4, <1>5, <1>6, <1>7

\* There is one among more entries.
LEMMA AccountStays ==
    ASSUME NEW known, NEW more, known \subseteq more, NEW line, HasAccount(known, line)
    PROVE  HasAccount(more, line)
BY DEF HasAccount, Owned, Matching

\* The fresh lines before the first line of a set are of no such line.
NoneBefore(fresh, lines, X) ==
    Those(lines, X) # <<>> =>
        \A k \in DOMAIN fresh : fresh[k] = Those(lines, X)[1] =>
            \A j \in 1..(k - 1) : fresh[j] \notin X

\* The fresh lines are of the lines, each once and in their order.
InOrder(lines, X, sorted) ==
    /\ Range(sorted.fresh) \subseteq Range(lines)
    /\ IsInjective(sorted.fresh)
    /\ \A l \in Range(lines) : HasAccount(sorted.known, l)
    /\ NoneBefore(sorted.fresh, lines, X)
    /\ HavePaths(sorted.known)

\* A line's path is a sequence.
LEMMA LinePaths == HavePaths(Lines)
BY GitAssumption DEF GitAssumption, HavePaths

\* The first line of a set is the first with a line more.
LEMMA FirstStays ==
    ASSUME NEW s \in Seq(Lines), NEW x \in Lines, NEW X, Those(s, X) # <<>>
    PROVE  Those(Append(s, x), X) # <<>> /\ Those(Append(s, x), X)[1] = Those(s, X)[1]
<1>1. PICK t, u : t = Those(s, X) /\ u = Those(Append(s, x), X)
  OBVIOUS
<1>2. t \in Seq(Lines) /\ t # <<>>
  BY <1>1, ThoseType
<1>3. u = t \/ u = Append(t, x)
  BY <1>1, ThoseAppend
<1>4. u # <<>> /\ u[1] = t[1]
  <2>1. Len(t) \in Nat /\ Len(t) # 0
    BY <1>2
  <2>2. Append(t, x)[1] = t[1] /\ Append(t, x) # <<>>
    BY <1>2, <2>1
  <2>3. QED
    BY <1>2, <1>3, <2>2
<1>5. QED
  BY <1>1, <1>4

\* A line more that is not fresh, and one that is.
LEMMA KeptInOrder ==
    ASSUME NEW s \in Seq(Lines), NEW x \in Lines, NEW X, NEW fresh \in Seq(Lines),
           Range(fresh) \subseteq Range(s), NoneBefore(fresh, s, X)
    PROVE  NoneBefore(fresh, Append(s, x), X)
<1>1. CASE Those(s, X) # <<>>
  BY <1>1, FirstStays DEF NoneBefore
<1>2. CASE Those(s, X) = <<>>
  <2>1. Range(Those(s, X)) = Range(s) \cap X
    BY ThoseType
  <2>2. Range(s) \cap X = {}
    BY <1>2, <2>1 DEF Range
  <2>3. SUFFICES ASSUME Those(Append(s, x), X) # <<>>, NEW k \in DOMAIN fresh, NEW j \in 1..(k - 1)
                 PROVE  fresh[j] \notin X
    BY DEF NoneBefore
  <2>4. j \in DOMAIN fresh
    BY <2>3
  <2>5. fresh[j] \in Range(fresh)
    BY <2>4 DEF Range
  <2>6. QED
    BY <2>2, <2>5
<1>3. QED
  BY <1>1, <1>2

\* One that is fresh.
LEMMA AddedInOrder ==
    ASSUME NEW s \in Seq(Lines), NEW x \in Lines, x \notin Range(s), NEW X, NEW fresh \in Seq(Lines),
           Range(fresh) \subseteq Range(s), NoneBefore(fresh, s, X), IsInjective(fresh)
    PROVE  NoneBefore(Append(fresh, x), Append(s, x), X) /\ IsInjective(Append(fresh, x))
<1>1. PICK more, n : more = Append(fresh, x) /\ n = Len(fresh)
  OBVIOUS
<1>2. /\ n \in Nat /\ DOMAIN fresh = 1..n /\ DOMAIN more = 1..(n + 1) /\ more[n + 1] = x
      /\ \A i \in 1..n : more[i] = fresh[i] /\ fresh[i] \in Range(fresh)
  <2>1. n \in Nat /\ DOMAIN fresh = 1..n /\ DOMAIN more = 1..(n + 1) /\ more[n + 1] = x
        /\ \A i \in 1..n : more[i] = fresh[i]
    BY <1>1
  <2>2. QED
    BY <2>1 DEF Range
<1>3. \A i \in 1..n : fresh[i] # x
  BY <1>2
<1>4. IsInjective(more)
  <2>1. SUFFICES ASSUME NEW i \in 1..(n + 1), NEW j \in 1..(n + 1), more[i] = more[j] PROVE i = j
    BY <1>2 DEF IsInjective
  <2>2. (i \in 1..n \/ i = n + 1) /\ (j \in 1..n \/ j = n + 1)
    BY <1>2
  <2>3. QED
    BY <1>2, <1>3, <2>1, <2>2 DEF IsInjective
<1>5. NoneBefore(more, Append(s, x), X)
  <2>1. SUFFICES ASSUME NEW k \in 1..(n + 1), Those(Append(s, x), X) # <<>>,
                        more[k] = Those(Append(s, x), X)[1], NEW j \in 1..(k - 1)
                 PROVE  more[j] \notin X
    BY <1>2 DEF NoneBefore
  <2>2. j \in 1..n /\ more[j] = fresh[j] /\ fresh[j] \in Range(s)
    BY <1>2
  <2>3. CASE Those(s, X) # <<>>
    <3>1. more[k] = Those(s, X)[1]
      BY <2>1, <2>3, FirstStays
    <3>2. more[k] \in Range(s)
      BY <2>3, <3>1, ThoseFirst
    <3>3. k \in 1..n
      BY <1>2, <3>2
    <3>4. QED
      BY <1>2, <2>2, <2>3, <3>1, <3>3 DEF NoneBefore
  <2>4. CASE Those(s, X) = <<>>
    <3>1. Range(Those(s, X)) = Range(s) \cap X
      BY ThoseType
    <3>2. Range(s) \cap X = {}
      BY <2>4, <3>1 DEF Range
    <3>3. QED
      BY <2>2, <3>2
  <2>5. QED
    BY <2>3, <2>4
<1>6. QED
  BY <1>1, <1>4, <1>5

\* The fresh lines are in the order of the files, each once: sorting a line more keeps it so.
LEMMA SortInOrder ==
    ASSUME NEW entries, NEW t \in Sorts(entries), NEW s \in Seq(Lines), NEW x \in Lines, NEW X,
           InOrder(s, X, t)
    PROVE  InOrder(Append(s, x), X, SortLine(t, x))
<1>1. PICK same, u, more : same = SameAccount(t.known, x) /\ u = SortLine(t, x) /\ more = Append(s, x)
  OBVIOUS
<1>2. t.fresh \in Seq(Lines) /\ more \in Seq(Lines) /\ Range(more) = Range(s) \cup {x}
  BY <1>1, RangeAppend DEF Sorts
<1>3. same # {} <=> HasAccount(t.known, x)
  BY <1>1, SameAccountIs, LinePaths DEF InOrder, HavePaths
<1>4. CASE same # {}
  <2>1. u = t \/ u = [t EXCEPT !.differ = @ \cup {e.name : e \in same}]
    BY <1>1, <1>4 DEF SortLine
  <2>2. u.fresh = t.fresh /\ u.known = t.known
    BY <2>1 DEF Sorts
  <2>3. NoneBefore(t.fresh, more, X)
    BY <1>1, <1>2, KeptInOrder DEF InOrder
  <2>4. InOrder(more, X, u)
    BY <1>2, <1>3, <1>4, <2>2, <2>3 DEF InOrder
  <2>5. QED
    BY <1>1, <2>4
<1>5. CASE same = {}
  <2>1. u = [t EXCEPT !.fresh = Append(@, x), !.known = @ \cup {x}]
    BY <1>1, <1>5 DEF SortLine
  <2>2. u.fresh = Append(t.fresh, x) /\ u.known = t.known \cup {x}
    BY <2>1 DEF Sorts
  <2>3. x \notin Range(s)
    BY <1>3, <1>5 DEF InOrder
  <2>4. NoneBefore(u.fresh, more, X) /\ IsInjective(u.fresh)
    BY <1>1, <1>2, <2>2, <2>3, AddedInOrder DEF InOrder
  <2>5. Range(u.fresh) \subseteq Range(more)
    BY <1>2, <2>2, RangeAppend DEF InOrder
  <2>6. HasAccount(u.known, x)
    <3>1. x \in Owned(u.known, x)
      BY <2>2 DEF Owned
    <3>2. QED
      BY <3>1 DEF HasAccount
  <2>7. \A l \in Range(more) : HasAccount(u.known, l)
    <3>1. \A l \in Range(s) : HasAccount(t.known, l)
      BY DEF InOrder
    <3>2. t.known \subseteq u.known
      BY <2>2
    <3>3. QED
      BY <1>2, <2>6, <3>1, <3>2, AccountStays
  <2>8. HavePaths(u.known)
    BY <2>2, LinePaths DEF InOrder, HavePaths
  <2>9. InOrder(more, X, u)
    BY <2>4, <2>5, <2>7, <2>8 DEF InOrder
  <2>10. QED
    BY <1>1, <2>9
<1>6. QED
  BY <1>4, <1>5

\* They are in order for every list of lines.
LEMMA SortsInOrder ==
    ASSUME NEW entries, HavePaths(entries), NEW lines \in Seq(Lines), NEW X
    PROVE  InOrder(lines, X, SortLines(entries, lines))
<1> DEFINE T == {s \in Seq(Lines) : InOrder(s, X, SortLines(entries, s))}
<1>1. <<>> \in T
  <2>1. PICK e : e = <<>>
    OBVIOUS
  <2>2. e \in Seq(Lines) /\ Range(e) = {} /\ DOMAIN e = {}
    BY <2>1 DEF Range
  <2>3. SortLines(entries, e) = [known |-> entries, fresh |-> e, differ |-> {}]
    BY <2>1, SortNothing
  <2>4. NoneBefore(e, e, X) /\ IsInjective(e)
    BY <2>2 DEF NoneBefore, IsInjective
  <2>5. InOrder(e, X, SortLines(entries, e))
    BY <2>2, <2>3, <2>4 DEF InOrder
  <2>6. QED
    BY <2>1, <2>2, <2>5
<1>2. ASSUME NEW s \in Seq(Lines), s \in T, NEW x \in Lines PROVE Append(s, x) \in T
  <2>1. /\ SortLines(entries, Append(s, x)) = SortLine(SortLines(entries, s), x)
        /\ SortLines(entries, s) \in Sorts(entries)
    BY SortAppend
  <2>2. InOrder(s, X, SortLines(entries, s))
    BY <1>2
  <2>3. InOrder(Append(s, x), X, SortLines(entries, Append(s, x)))
    BY <2>1, <2>2, SortInOrder
  <2>4. Append(s, x) \in Seq(Lines)
    OBVIOUS
  <2>5. QED
    BY <2>3, <2>4
<1>3. Seq(Lines) \subseteq T
  <2> HIDE DEF T
  <2>1. QED
    BY <1>1, <1>2, SeqInduction
<1>4. QED
  BY <1>3

-----------------------------------------------------------------------------
(* The dates of the entries, and the answers *)

\* A migrate that has sorted its lines, and one whose lines are all in the vault.
Sorted ==
    \/ task.pc \in {"import", "ask"} \/ Dropping
    \/ task.pc \in Running \cup {"ok"} /\ task.removed
\* All of its lines are in the vault.
Added == Sorted /\ task.pc # "import" /\ (task.pc = "ask" => ~task.blocked)

\* An entry is one of its lines.
Fresh(e) == \E i \in DOMAIN task.fresh : e = Stamped(task.fresh[i], i)
\* Every line to add is an entry.
AllAdded == \A i \in DOMAIN task.fresh : Stamped(task.fresh[i], i) \in vault
\* Entries have a date and a path.
EntriesOK == \A e \in vault : e.updated \in Int /\ Len(e.path) \in Nat
\* Every line is in the vault after the import.
AddedOK == Added => AllAdded
\* The lines to add are in the order of the files.
FreshOK ==
    Sorted => /\ IsInjective(task.fresh)
              /\ \A X \in SUBSET Lines : NoneBefore(task.fresh, Imported(task.items), X)
\* The three.
DatesInv == EntriesOK /\ AddedOK /\ FreshOK

\* Only `Start` counts a command.
LEMMA CallsStep ==
    ASSUME [Next]_vars, \A c \in Commands : ~Start(c)
    PROVE  UNCHANGED calls
BY DEF Next, vars, PlanInstall, Uninstall, WriteFails, WriteCut, End, ReadStores, CompareLines,
       UnlockFails, Import, KeepSource, DropStoreHelpers, CheckReaders, WriteConfig, RemoveFile,
       RemoveFails, Kill, AddEntry, GitStores

\* The steps a sorted migrate has come by.
OnlyLines ==
    /\ Sorted /\ task'.items = task.items /\ task'.fresh = task.fresh /\ UNCHANGED calls
    /\ Added' => Added /\ UNCHANGED vault

\* A migrate that has sorted comes by its sorting, its import, or a step that changes none of its
\* lines.
LEMMA LinesStep ==
    ASSUME Typed, [Next]_vars, Sorted'
    PROVE  \/ CompareLines /\ task'.pc = "import"
           \/ Import /\ task'.pc = "ask"
           \/ OnlyLines
<1>1. TypeOK /\ StepOK /\ StepOK'
  BY TypedStep DEF Typed
<1>2. Moved
  BY Moves
<1>3. \A c \in Commands : ~Start(c)
  BY DEF Start, Sorted, Dropping
<1>4. UNCHANGED calls
  BY <1>3, CallsStep
<1>5. CASE UNCHANGED task
  <2>1. Sorted /\ (Added' => Added)
    BY <1>5 DEF Sorted, Added, Dropping
  <2>2. Added => UNCHANGED vault
    <3>1. Import => task'.pc = "ask" /\ task.pc = "import"
      BY <1>1, At, ImportFields DEF Import, Running
    <3>2. (\E e \in Accounts : AddEntry(e)) => task.pc \in {"sort", "import"}
      BY DEF AddEntry
    <3>3. Added => task.pc \notin {"sort", "import"}
      <4>1. task.pc = "sort" => ~Sorted
        BY <1>1 DEF StepOK, Sorted, Dropping, Running
      <4>2. QED
        BY <4>1 DEF Added
    <3>4. QED
      BY <1>5, <3>1, <3>2, <3>3, VaultStep
  <2>3. QED
    BY <1>4, <1>5, <2>1, <2>2 DEF OnlyLines
<1> SUFFICES ASSUME task' # task PROVE (CompareLines /\ task'.pc = "import") \/ (Import /\ task'.pc = "ask") \/ OnlyLines
  BY <1>5
<1>6. ~(\E e \in Accounts : AddEntry(e))
  BY DEF AddEntry
<1>7. ~Import => UNCHANGED vault
  BY <1>6, VaultStep
<1>8. CASE PlanInstall \/ Uninstall
  <2>1. task.pc \in {"install", "uninstall"} /\ task.pc \in Running /\ task \in Task /\ task.plan = <<>>
    BY <1>1, <1>8, At DEF PlanInstall, Uninstall, Running
  <2>2. PICK plan : Planned(plan, "end")
    BY <1>8 DEF PlanInstall, Uninstall
  <2>3. Stays
    BY <2>1, <2>2, PlannedFields, Zenon
  <2>4. task'.fresh = task.fresh /\ task'.removed = task.removed
    BY <2>1, <2>2, PlannedFields, Zenon
  <2>5. task'.pc = "end" \/ (task'.pc = "write" /\ task'.then = "end")
    BY <2>1, <2>2, PlannedFields, Zenon
  <2>6. Sorted /\ Added
    BY <2>1, <2>4, <2>5 DEF Sorted, Added, Dropping
  <2>7. ~Import
    BY <2>1 DEF Import
  <2>8. QED
    BY <1>4, <1>7, <2>3, <2>4, <2>6, <2>7 DEF OnlyLines, Stays
<1>9. CASE WriteConfig
  <2>1. task.pc = "write" /\ task.pc \in Running /\ task.then \in {"end", "check"}
    BY <1>1, <1>9 DEF WriteConfig, Running, StepOK
  <2>2. Stays /\ task'.fresh = task.fresh /\ task'.removed = task.removed
        /\ (task'.pc = task.then \/ (task'.pc = "write" /\ task'.then = task.then))
    BY <1>1, <1>9, WriteFields
  <2>3. Sorted /\ Added
    BY <2>1, <2>2 DEF Sorted, Added, Dropping
  <2>4. ~Import
    BY <2>1 DEF Import
  <2>5. QED
    BY <1>4, <1>7, <2>2, <2>3, <2>4 DEF OnlyLines, Stays
<1>10. CASE End
  <2>1. task.pc = "end" /\ task.pc \in Running /\ task'.pc = "ok" /\ task'.items = task.items
        /\ task'.fresh = task.fresh /\ task'.removed = task.removed
    BY <1>10, EndFields DEF End, Running
  <2>2. Sorted /\ Added
    BY <2>1 DEF Sorted, Added, Dropping
  <2>3. ~Import
    BY <2>1 DEF Import
  <2>4. QED
    BY <1>4, <1>7, <2>1, <2>2, <2>3 DEF OnlyLines
<1>11. CASE DropStoreHelpers
  <2>1. task.pc = "ask" /\ ~task.blocked /\ task \in Task /\ task.plan = <<>>
    BY <1>1, <1>11, At DEF DropStoreHelpers, MayRemove, Running
  <2>2. PICK plan : Planned(plan, "check")
    BY <1>11 DEF DropStoreHelpers
  <2>3. Stays
    BY <2>1, <2>2, PlannedFields, Zenon
  <2>4. task'.fresh = task.fresh
    BY <2>1, <2>2, PlannedFields, Zenon
  <2>5. Sorted /\ Added /\ ~Import
    BY <2>1 DEF Sorted, Added, Import
  <2>6. QED
    BY <1>4, <1>7, <2>3, <2>4, <2>5 DEF OnlyLines, Stays
<1>12. CASE CheckReaders
  <2>1. task.pc = "check" /\ task \in Task
    BY <1>1, <1>12, At DEF CheckReaders, Running
  <2>2. PICK p : Goto(p)
    BY <1>12 DEF CheckReaders
  <2>3. Stays /\ task'.fresh = task.fresh
    BY <2>1, <2>2, GotoFields
  <2>4. Sorted /\ Added /\ ~Import
    BY <2>1 DEF Sorted, Added, Dropping, Import
  <2>5. QED
    BY <1>4, <1>7, <2>3, <2>4 DEF OnlyLines, Stays
<1>13. CASE RemoveFile
  <2>1. task.pc = "remove" /\ task \in Task
    BY <1>1, <1>13, At DEF RemoveFile, Running
  <2>2. Stays /\ task'.fresh = task.fresh
    BY <1>13, <2>1, RemoveFields
  <2>3. Sorted /\ Added /\ ~Import
    BY <2>1 DEF Sorted, Added, Dropping, Import
  <2>4. QED
    BY <1>4, <1>7, <2>2, <2>3 DEF OnlyLines, Stays
<1>14. ~KeepSource
  <2>1. SUFFICES ASSUME KeepSource PROVE FALSE
    OBVIOUS
  <2>2. task.pc = "ask" /\ task.pc \in Running /\ task \in Task
    BY <1>1, <2>1, At DEF KeepSource, Running
  <2>3. task'.pc = AfterRemoval /\ task'.removed = task.removed
    BY <2>1, <2>2, GotoFields DEF KeepSource
  <2>4. ~task.removed
    BY <1>1, <2>2 DEF StepOK
  <2>5. QED
    BY <2>3, <2>4 DEF Sorted, Dropping, AfterRemoval
<1>15. ~(task'.pc \in {"failed", "cut", "killed"} \/ task'.pc = "sort")
  BY <1>1 DEF Sorted, Dropping, StepOK, Running
<1>16. CompareLines => task'.pc = "import"
  BY <1>1, At, CompareFields DEF CompareLines, Running
<1>17. Import => task'.pc = "ask"
  BY <1>1, At, ImportFields DEF Import, Running
<1>18. QED
  BY <1>2, <1>3, <1>8, <1>9, <1>10, <1>11, <1>12, <1>13, <1>14, <1>15, <1>16, <1>17 DEF Moved

\* A command has its time.
LEMMA TimeOf == ASSUME calls \in Nat PROVE Span * calls \in Nat
<1>1. Span \in Nat
  BY GitAssumption DEF GitAssumption
<1>2. \A a, b \in Nat : a * b \in Nat
  OBVIOUS
<1>3. QED
  BY <1>1, <1>2

\* A line's entry.
LEMMA StampedIs ==
    ASSUME NEW line \in Lines, NEW i \in Nat \ {0}, calls \in Nat
    PROVE  /\ Stamped(line, i).updated \in Int /\ Len(Stamped(line, i).path) \in Nat
<1>1. Span * calls \in Nat
  BY TimeOf
<1>2. Len(line.path) \in Nat
  BY LinePaths DEF HavePaths
<1>3. QED
  BY <1>1, <1>2 DEF Stamped

\* The types of the lines.
LEMMA FreshType ==
    ASSUME TypeOK, task.pc \in Running \cup {"ok"}
    PROVE  task.fresh \in Seq(Lines) /\ task.items \in Seq(Lines) /\ Imported(task.items) \in Seq(Lines)
<1>1. task.pc \notin {"idle", "failed", "cut", "killed"}
  BY DEF Running
<1>2. task.fresh \in Seq(Lines) /\ task.items \in Seq(Lines)
  BY <1>1 DEF TypeOK, Task
<1>3. QED
  BY <1>2, ImportedType

\* Every step keeps EntriesOK.
LEMMA EntriesStep ==
    ASSUME Typed, EntriesOK, [Next]_vars
    PROVE  EntriesOK'
<1>1. TypeOK /\ calls \in Nat
  BY TypeGives DEF Typed, TypeOK
<1>2. CASE Import
  <2>1. task \in Task /\ vault' = vault \cup {Stamped(task.fresh[i], i) : i \in Adds(task.fresh)}
    BY <1>1, <1>2, At, ImportFields DEF Import, Running
  <2>2. task.fresh \in Seq(Lines)
    BY <2>1, FieldsOf
  <2>3. ASSUME NEW i \in Adds(task.fresh)
        PROVE  LET e == Stamped(task.fresh[i], i) IN e.updated \in Int /\ Len(e.path) \in Nat
    <3>1. i \in DOMAIN task.fresh
      BY DEF Adds
    <3>2. i \in Nat \ {0} /\ task.fresh[i] \in Lines
      BY <2>2, <3>1
    <3>3. QED
      BY <1>1, <3>2, StampedIs
  <2>4. QED
    BY <2>1, <2>3 DEF EntriesOK
<1>3. CASE \E e \in Accounts : AddEntry(e)
  <2>1. PICK e \in Accounts : AddEntry(e)
    BY <1>3
  <2>2. PICK a : a = [e EXCEPT !.updated = Span * calls + 1]
    OBVIOUS
  <2>3. vault' = vault \cup {a}
    BY <2>1, <2>2 DEF AddEntry
  <2>4. a.updated = Span * calls + 1 /\ a.path = e.path
    BY <2>2, GitAssumption DEF GitAssumption
  <2>5. Len(e.path) \in Nat
    BY GitAssumption DEF GitAssumption
  <2>6. a.updated \in Int /\ Len(a.path) \in Nat
    BY <1>1, <2>4, <2>5, TimeOf
  <2>7. QED
    BY <2>3, <2>6 DEF EntriesOK
<1>4. CASE ~Import /\ (\A e \in Accounts : ~AddEntry(e))
  BY <1>4, VaultStep DEF EntriesOK
<1>5. QED
  BY <1>2, <1>3, <1>4

\* Every step keeps AddedOK.
LEMMA AddedStep ==
    ASSUME Typed, AddedOK, [Next]_vars
    PROVE  AddedOK'
<1>1. TypeOK
  BY DEF Typed
<1> SUFFICES ASSUME Added' PROVE AllAdded'
  BY DEF AddedOK
<1>2. CASE CompareLines /\ task'.pc = "import"
  BY <1>2 DEF Added
<1>3. CASE Import
  <2>1. task \in Task /\ task.pc = "import" /\ UNCHANGED calls
        /\ vault' = vault \cup {Stamped(task.fresh[i], i) : i \in Adds(task.fresh)}
        /\ task'.fresh = task.fresh /\ task'.pc = "ask"
        /\ task'.blocked = (task.blocked \/ Adds(task.fresh) # DOMAIN task.fresh)
    BY <1>1, <1>3, At, ImportFields DEF Import, Running
  <2>2. Adds(task.fresh) = DOMAIN task.fresh
    BY <2>1 DEF Added
  <2>3. QED
    BY <2>1, <2>2 DEF AllAdded, Stamped
<1>4. CASE OnlyLines
  <2>1. Added /\ UNCHANGED <<vault, calls>> /\ task'.fresh = task.fresh
    BY <1>4 DEF OnlyLines
  <2>2. QED
    BY <2>1 DEF AddedOK, AllAdded, Stamped
<1>5. QED
  BY <1>2, <1>3, <1>4, LinesStep DEF Added

\* Every step keeps FreshOK.
LEMMA FreshStep ==
    ASSUME Typed, EntriesOK, FreshOK, [Next]_vars
    PROVE  FreshOK'
<1>1. TypeOK
  BY DEF Typed
<1> SUFFICES ASSUME Sorted', NEW X \in SUBSET Lines
             PROVE  IsInjective(task'.fresh) /\ NoneBefore(task'.fresh, Imported(task'.items), X)
  BY DEF FreshOK, Imported, IsCert, NoneBefore
<1>2. CASE CompareLines
  <2>1. task \in Task
    BY <1>1, <1>2, At DEF CompareLines, Running
  <2>2. PICK lines, sorted : lines = Imported(task.items) /\ sorted = SortLines(vault, lines)
    OBVIOUS
  <2>3. lines \in Seq(Lines) /\ HavePaths(vault)
    BY <2>1, <2>2, FieldsOf, ImportedType DEF EntriesOK, HavePaths
  <2>4. InOrder(lines, X, sorted)
    BY <2>2, <2>3, SortsInOrder
  <2>5. task'.fresh = sorted.fresh /\ task'.items = task.items
    BY <1>2, <2>1, <2>2, CompareFields DEF Stays
  <2>6. QED
    BY <2>2, <2>4, <2>5 DEF InOrder
<1>3. CASE Import
  <2>1. task \in Task /\ task.pc = "import"
    BY <1>1, <1>3, At DEF Import, Running
  <2>2. task'.fresh = task.fresh /\ task'.items = task.items
    BY <1>3, <2>1, ImportFields DEF Stays
  <2>3. Sorted
    BY <2>1 DEF Sorted
  <2>4. QED
    BY <2>2, <2>3 DEF FreshOK
<1>4. CASE OnlyLines
  BY <1>4 DEF OnlyLines, FreshOK
<1>5. QED
  BY <1>2, <1>3, <1>4, LinesStep

\* A behaviour begins with them.
LEMMA DatesInvInit == Init => DatesInv
<1> SUFFICES ASSUME Init PROVE DatesInv
  OBVIOUS
<1>1. task.pc = "idle" /\ vault \subseteq Accounts
  BY DEF Init, Idle
<1>2. EntriesOK
  BY <1>1, GitAssumption DEF GitAssumption, EntriesOK
<1>3. ~Sorted
  BY <1>1 DEF Sorted, Dropping, Running
<1>4. QED
  BY <1>2, <1>3 DEF DatesInv, AddedOK, Added, FreshOK

\* They always hold.
LEMMA DatesInvAlways == Spec => [](Typed /\ DatesInv)
<1>1. Init => DatesInv
  BY DatesInvInit
<1>2. Typed /\ DatesInv /\ [Next]_vars => DatesInv'
  BY EntriesStep, AddedStep, FreshStep DEF DatesInv
<1>3. Spec => []Typed
  BY GitHelperTypes DEF Typed
<1>4. QED
  BY <1>1, <1>2, <1>3, PTL DEF Spec

\* The entry of a line is selected for a request the line answers, and an entry of another line
\* that is selected beside it is of a line that answers too.
Answers(r) == {l \in Lines : StoreAnswers(l, r)}
\* The entry has what the line has.
EntryOf(e, line) ==
    e.scheme = line.scheme /\ e.host = line.host /\ e.path = line.path /\ e.user = line.user

\* A line's path has its own segments.
LEMMA LinesHavePaths ==
    ASSUME NEW l \in Lines
    PROVE  l.path \in Seq(Range(l.path)) /\ Len(l.path) \in Nat
BY GitAssumption DEF GitAssumption

\* It is selected.
LEMMA LineIsSelected ==
    ASSUME NEW V, NEW r, r.host # None, NEW l \in Answers(r), NEW n \in V, EntryOf(n, l),
           HavePaths(V)
    PROVE  n \in Selected(V, r)
<1>1. l \in Lines /\ r.host = l.host /\ r.scheme = l.scheme /\ r.path \in {NoPath, l.path}
      /\ r.user \in {None, l.user}
  BY DEF Answers, StoreAnswers
<1>2. n \in Matching(V, r)
  BY <1>1 DEF Matching, EntryOf, IsPrefix
<1>3. PICK named : named = OfUser(Matching(V, r), r.user)
  OBVIOUS
<1>4. n \in named /\ named \subseteq Matching(V, r)
  BY <1>1, <1>2, <1>3 DEF OfUser, EntryOf
<1>5. CASE r.path = NoPath
  BY <1>3, <1>4, <1>5 DEF Selected
<1>6. CASE r.path # NoPath
  <2>1. n.path = r.path
    BY <1>1, <1>6 DEF EntryOf
  <2>2. \A e \in named : Len(e.path) <= Len(n.path)
    BY <1>4, <1>6, <2>1 DEF Matching, IsPrefix
  <2>3. n \in Longest(named)
    BY <1>4, <2>2 DEF Longest
  <2>4. QED
    BY <1>3, <1>6, <2>3 DEF Selected
<1>7. QED
  BY <1>5, <1>6

\* The other one answers.
LEMMA SelectedAnswers ==
    ASSUME NEW V, NEW r, r.host # None, NEW l \in Answers(r), NEW n \in V, EntryOf(n, l),
           HavePaths(V),
           NEW m \in Lines, NEW e \in Selected(V, r), EntryOf(e, m)
    PROVE  m \in Answers(r)
<1>1. l \in Lines /\ r.host = l.host /\ r.scheme = l.scheme /\ r.path \in {NoPath, l.path}
      /\ r.user \in {None, l.user}
  BY DEF Answers, StoreAnswers
<1>2. n \in Matching(V, r)
  BY <1>1 DEF Matching, EntryOf, IsPrefix
<1>3. PICK named : named = OfUser(Matching(V, r), r.user)
  OBVIOUS
<1>4. n \in named /\ named \subseteq Matching(V, r)
  BY <1>1, <1>2, <1>3 DEF OfUser, EntryOf
<1>5. e \in named
  BY <1>3 DEF Selected, Longest
<1>6. e.host = r.host /\ e.scheme \in {None, r.scheme}
      /\ (r.path = NoPath \/ IsPrefix(e.path, r.path))
  BY <1>4, <1>5 DEF Matching
<1>7. m.host = r.host /\ m.scheme = r.scheme
  <2>1. m.host # None => m.scheme # None
    BY GitAssumption DEF GitAssumption
  <2>2. QED
    BY <1>6, <2>1 DEF EntryOf
<1>8. r.user \in {None, m.user}
  <2>1. CASE r.user = None
    BY <2>1
  <2>2. CASE r.user # None
    <3>1. n.user = r.user
      BY <1>1, <2>2 DEF EntryOf
    <3>2. named = {x \in Matching(V, r) : x.user = r.user}
      BY <1>2, <1>3, <2>2, <3>1 DEF OfUser
    <3>3. QED
      BY <1>5, <3>2 DEF EntryOf
  <2>3. QED
    BY <2>1, <2>2
<1>9. r.path \in {NoPath, m.path}
  <2>1. CASE r.path = NoPath
    BY <2>1
  <2>2. CASE r.path # NoPath
    <3>1. r.path = n.path /\ r.path = l.path
      BY <1>1, <2>2 DEF EntryOf
    <3>2. Len(n.path) <= Len(e.path)
      BY <1>3, <1>4, <2>2 DEF Selected, Longest
    <3>3. IsPrefix(e.path, r.path)
      BY <1>6, <2>2
    <3>4. PICK p, q, P, Q : p = e.path /\ q = r.path /\ P = Range(m.path) /\ Q = Range(l.path)
      OBVIOUS
    <3>5. p \in Seq(P) /\ q \in Seq(Q)
      BY <1>1, <3>1, <3>4, LinesHavePaths DEF EntryOf
    <3>6. Len(p) <= Len(q) /\ Len(q) <= Len(p) /\ SubSeq(p, 1, Len(p)) = SubSeq(q, 1, Len(p))
      BY <3>1, <3>2, <3>3, <3>4 DEF IsPrefix
    <3>7. Len(p) = Len(q) /\ SubSeq(p, 1, Len(p)) = p /\ SubSeq(q, 1, Len(q)) = q
      BY <3>5, <3>6
    <3>8. p = q
      BY <3>6, <3>7
    <3>9. QED
      BY <3>4, <3>8 DEF EntryOf
  <2>3. QED
    BY <2>1, <2>2
<1>10. QED
  BY <1>7, <1>8, <1>9 DEF Answers, StoreAnswers

\* The newest is the one that all others are older than.
LEMMA NewestIs ==
    ASSUME NEW E, NEW n \in E, \A e \in E : e.updated \in Int /\ (e # n => e.updated < n.updated)
    PROVE  Newest(E) = n
<1> DEFINE Is(e) == e \in E /\ \A f \in E : f.updated <= e.updated
<1>1. Is(n)
  BY DEF Is
<1>2. Newest(E) = CHOOSE e : Is(e)
  BY DEF Newest
<1>3. Is(CHOOSE e : Is(e))
  BY <1>1, Zenon
<1>4. PICK c : c = (CHOOSE e : Is(e))
  OBVIOUS
<1>5. c \in E /\ n.updated <= c.updated
  BY <1>3, <1>4
<1>6. QED
  BY <1>2, <1>4, <1>5

\* Among the entries of the lines and the older ones, the first line's is the newest that is
\* selected.
LEMMA FirstLineAnswers ==
    ASSUME Typed, DatesInv, Added, task.pc = "ok", NEW r, r.host # None,
           NEW l, Those(Imported(task.items), Answers(r)) # <<>>,
           l = Those(Imported(task.items), Answers(r))[1],
           l \in Range(task.fresh), l.user # None \/ r.user # None
    PROVE  HelperAnswer(AddedOrOlder, r) = l.value
<1>1. TypeOK /\ calls \in Nat /\ task.fresh \in Seq(Lines) /\ Imported(task.items) \in Seq(Lines)
  BY TypeGives, FreshType DEF Typed, TypeOK
<1>2. PICK V, fresh, s : V = AddedOrOlder /\ fresh = task.fresh /\ s = Span * calls
  OBVIOUS
<1>3. s \in Nat /\ fresh \in Seq(Lines) /\ Sorted /\ IsInjective(fresh)
  BY <1>1, <1>2, TimeOf DEF DatesInv, FreshOK, Added
<1>4. Len(fresh) \in Nat /\ DOMAIN fresh = 1..Len(fresh)
  BY <1>3
<1>5. l \in Answers(r) /\ l \in Lines
  BY ThoseFirst, <1>1 DEF Answers
<1>6. PICK k \in 1..Len(fresh) : fresh[k] = l
  BY <1>2, <1>4 DEF Range
<1>7. \A j \in 1..(k - 1) : fresh[j] \notin Answers(r)
  <2>1. Answers(r) \in SUBSET Lines
    BY DEF Answers
  <2>2. NoneBefore(fresh, Imported(task.items), Answers(r))
    BY <1>2, <1>3, <2>1 DEF DatesInv, FreshOK
  <2>3. QED
    BY <1>4, <1>6, <2>2 DEF NoneBefore
<1>8. PICK n : n = Stamped(l, k)
  OBVIOUS
<1>9. /\ n.updated = s - k /\ n.value = l.value /\ n.user = l.user /\ EntryOf(n, l)
      /\ s - k \in Int
  BY <1>2, <1>3, <1>6, <1>8 DEF Stamped, EntryOf
<1>10. n \in V
  <2>1. n \in vault
    BY <1>2, <1>4, <1>6, <1>8 DEF DatesInv, AddedOK, AllAdded
  <2>2. QED
    BY <1>2, <1>4, <1>6, <1>8, <2>1 DEF AddedOrOlder
<1>11. HavePaths(V) /\ \A e \in V : e.updated \in Int /\ (Fresh(e) \/ e.updated < s - Len(fresh))
  BY <1>2 DEF DatesInv, EntriesOK, HavePaths, AddedOrOlder, Fresh
<1>12. n \in Selected(V, r)
  BY <1>5, <1>9, <1>10, <1>11, LineIsSelected
<1>13. ASSUME NEW e \in Selected(V, r), e # n
       PROVE  e.updated < n.updated
  <2>1. e.updated \in Int /\ (Fresh(e) \/ e.updated < s - Len(fresh))
    BY <1>11, SelectedFrom
  <2>2. CASE e.updated < s - Len(fresh)
    BY <1>3, <1>4, <1>6, <1>9, <2>1, <2>2
  <2>3. CASE Fresh(e)
    <3>1. PICK j \in 1..Len(fresh) : e = Stamped(fresh[j], j)
      BY <1>2, <1>4, <2>3 DEF Fresh
    <3>2. fresh[j] \in Lines /\ j \in Nat
      BY <1>3, <1>4
    <3>3. e.updated = s - j /\ EntryOf(e, fresh[j])
      BY <1>2, <3>1 DEF Stamped, EntryOf
    <3>4. fresh[j] \in Answers(r)
      BY <1>5, <1>9, <1>10, <1>11, <3>2, <3>3, SelectedAnswers
    <3>5. j # k
      BY <1>6, <1>8, <1>13, <3>1
    <3>6. ~(j < k)
      BY <1>6, <1>7, <3>2, <3>4
    <3>7. QED
      BY <1>3, <1>6, <1>9, <3>2, <3>3, <3>5, <3>6
  <2>4. QED
    BY <2>1, <2>2, <2>3
<1>14. \A e \in Selected(V, r) : e.updated \in Int
  BY <1>11, SelectedFrom
<1>15. Newest(Selected(V, r)) = n
  BY <1>12, <1>13, <1>14, NewestIs
<1>16. QED
  BY <1>2, <1>9, <1>12, <1>15 DEF HelperAnswer

\* When a migrate has removed the files, the helper answers each request with what git's store
\* answered it from the first line that has all it asks for, when this migrate added that line: for
\* any lines in any order and with any entries of the vault that are older than the lines' dates,
\* which step back as many seconds as there are lines.  Of an entry changed in those seconds, or
\* since, it says nothing.
THEOREM HelperAnswersAsBefore == Spec => []AnswersAsBefore
<1>1. Typed /\ DatesInv => AnswersAsBefore
  <2> SUFFICES ASSUME Typed, DatesInv, task.pc = "ok", task.removed, NEW r \in Requests, r.host # None,
                      NEW lines, lines = Those(Imported(task.items), {l \in Lines : StoreAnswers(l, r)}),
                      lines # <<>>, lines[1] \in Range(task.fresh),
                      lines[1].user # None \/ r.user # None
               PROVE  HelperAnswer(AddedOrOlder, r) = lines[1].value
    BY Zenon DEF AnswersAsBefore
  <2>1. Added
    BY DEF Added, Sorted
  <2>2. lines = Those(Imported(task.items), Answers(r))
    BY DEF Answers
  <2>3. QED
    BY <2>1, <2>2, FirstLineAnswers
<1>2. QED
  BY <1>1, DatesInvAlways, PTL
=============================================================================
