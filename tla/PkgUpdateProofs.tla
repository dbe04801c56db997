---------------------------- MODULE PkgUpdateProofs ----------------------------
(***************************************************************************)
(* Proofs about kpt pkg get and kpt pkg update: they miss no remote package, *)
(* bring packages of one version to the next one together, and keep the     *)
(* user's edits where the strategy does, for every package tree, whatever   *)
(* the user does and whichever commands fail or are killed half-way.        *)
(*                                                                          *)
(* First the paths and trees, then what each operation on trees and each    *)
(* strategy makes of a tree, then the steps of the commands.                *)
(***************************************************************************)
EXTENDS PkgUpdate, SequenceTheorems, WellFoundedInduction, TLAPS

-----------------------------------------------------------------------------
(* Paths.                                                                   *)

Strings == Seq(STRING)

(* Paths are strings of names, and the top directory is one.                *)
LEMMA PathsAre == Paths \subseteq Strings /\ <<>> \in Paths
  BY TreeAssumption DEF Paths, Strings, ToSet

(* A prefix, name by name.                                                  *)
LEMMA PrefixIs ==
  ASSUME NEW s \in Strings, NEW t \in Strings
  PROVE  IsPrefix(s, t) <=> Len(s) <= Len(t) /\ \A i \in 1 .. Len(s) : s[i] = t[i]
  <1>1. Len(s) \in Nat /\ Len(t) \in Nat
    BY DEF Strings
  <1>2. CASE Len(s) <= Len(t)
    <2>1. /\ SubSeq(s, 1, Len(s)) = s
          /\ SubSeq(t, 1, Len(s)) \in Strings /\ Len(SubSeq(t, 1, Len(s))) = Len(s)
          /\ \A i \in 1 .. Len(s) : SubSeq(t, 1, Len(s))[i] = t[i]
      <3>1. \A i \in 1 .. Len(s) : t[i] \in STRING
        BY <1>1, <1>2, ElementOfSeq DEF Strings
      <3>2. /\ SubSeq(t, 1, Len(s)) \in Seq(STRING)
            /\ Len(SubSeq(t, 1, Len(s))) = IF 1 <= Len(s) THEN Len(s) - 1 + 1 ELSE 0
            /\ \A i \in 1 .. Len(s) - 1 + 1 : SubSeq(t, 1, Len(s))[i] = t[1 + i - 1]
        BY <1>1, <3>1, SubSeqProperties
      <3> QED BY <1>1, <3>2, SubSeqFull DEF Strings
    <2>2. s = SubSeq(t, 1, Len(s)) <=> \A i \in 1 .. Len(s) : s[i] = SubSeq(t, 1, Len(s))[i]
      BY <2>1, SeqEqual DEF Strings
    <2> QED BY <1>2, <2>1, <2>2 DEF IsPrefix
  <1>3. CASE ~(Len(s) <= Len(t))
    BY <1>3 DEF IsPrefix
  <1> QED BY <1>2, <1>3

(* Being a prefix is an order, and the prefixes of a path are a chain.      *)
LEMMA PrefixOrder ==
  /\ \A s \in Strings : IsPrefix(s, s) /\ IsPrefix(<<>>, s) /\ (IsPrefix(s, <<>>) => s = <<>>)
  /\ \A s, t, u \in Strings : IsPrefix(s, t) /\ IsPrefix(t, u) => IsPrefix(s, u)
  /\ \A s, t \in Strings : IsPrefix(s, t) => Len(s) <= Len(t) /\ (Len(s) = Len(t) => s = t)
  /\ \A s, t, u \in Strings : IsPrefix(s, u) /\ IsPrefix(t, u) => IsPrefix(s, t) \/ IsPrefix(t, s)
  <1>0. \A s \in Strings : Len(s) \in Nat
    BY DEF Strings
  <1>1. <<>> \in Strings /\ Len(<<>>) = 0
    BY DEF Strings
  <1>2. ASSUME NEW s \in Strings, NEW t \in Strings, IsPrefix(s, t)
        PROVE  Len(s) <= Len(t) /\ (Len(s) = Len(t) => s = t)
    BY <1>2, PrefixIs, SeqEqual DEF Strings
  <1>3. ASSUME NEW s \in Strings
        PROVE  IsPrefix(s, s) /\ IsPrefix(<<>>, s) /\ (IsPrefix(s, <<>>) => s = <<>>)
    <2>1. IsPrefix(s, s) /\ IsPrefix(<<>>, s)
      BY <1>0, <1>1, PrefixIs
    <2>2. ASSUME IsPrefix(s, <<>>) PROVE s = <<>>
      BY <1>0, <1>1, <1>2, <2>2
    <2> QED BY <2>1, <2>2
  <1>4. ASSUME NEW s \in Strings, NEW t \in Strings, NEW u \in Strings, IsPrefix(s, t), IsPrefix(t, u)
        PROVE  IsPrefix(s, u)
    <2>1. Len(s) <= Len(t) /\ Len(t) <= Len(u)
      BY <1>2, <1>4
    <2>2. \A i \in 1 .. Len(s) : i \in 1 .. Len(t)
      BY <1>0, <2>1
    <2> QED BY <1>0, <1>4, <2>1, <2>2, PrefixIs
  <1>5. ASSUME NEW s \in Strings, NEW t \in Strings, NEW u \in Strings, IsPrefix(s, u), IsPrefix(t, u)
        PROVE  IsPrefix(s, t) \/ IsPrefix(t, s)
    <2>1. CASE Len(s) <= Len(t)
      <3>1. \A i \in 1 .. Len(s) : i \in 1 .. Len(t)
        BY <1>0, <2>1
      <3> QED BY <1>5, <2>1, <3>1, PrefixIs
    <2>2. CASE Len(t) <= Len(s)
      <3>1. \A i \in 1 .. Len(t) : i \in 1 .. Len(s)
        BY <1>0, <2>2
      <3> QED BY <1>5, <2>2, <3>1, PrefixIs
    <2> QED BY <1>0, <2>1, <2>2
  <1> QED BY <1>2, <1>3, <1>4, <1>5

(* A path is its prefix followed by the rest of it.                         *)
LEMMA RestIs ==
  ASSUME NEW s \in Strings, NEW t \in Strings, IsPrefix(s, t)
  PROVE  Rest(s, t) \in Strings /\ s \o Rest(s, t) = t
  <1>1. Len(s) \in Nat /\ Len(t) \in Nat /\ Len(s) <= Len(t) /\ \A i \in 1 .. Len(s) : s[i] = t[i]
    BY PrefixIs DEF Strings
  <1>2. \A i \in Len(s) + 1 .. Len(t) : t[i] \in STRING
    BY <1>1, ElementOfSeq DEF Strings
  <1>3. /\ Rest(s, t) \in Seq(STRING)
        /\ Len(Rest(s, t)) = IF Len(s) + 1 <= Len(t) THEN Len(t) - (Len(s) + 1) + 1 ELSE 0
        /\ \A i \in 1 .. Len(t) - (Len(s) + 1) + 1 : Rest(s, t)[i] = t[Len(s) + 1 + i - 1]
    BY <1>1, <1>2, SubSeqProperties DEF Rest
  <1>4. Len(Rest(s, t)) = Len(t) - Len(s) /\ \A i \in 1 .. Len(t) - Len(s) : Rest(s, t)[i] = t[Len(s) + i]
    BY <1>1, <1>3
  <1>5. /\ s \o Rest(s, t) \in Seq(STRING) /\ Len(s \o Rest(s, t)) = Len(t)
        /\ \A i \in 1 .. Len(t) : (s \o Rest(s, t))[i] = IF i <= Len(s) THEN s[i] ELSE Rest(s, t)[i - Len(s)]
    BY <1>1, <1>3, <1>4, ConcatProperties DEF Strings
  <1>6. \A i \in 1 .. Len(t) : (s \o Rest(s, t))[i] = t[i]
    BY <1>1, <1>4, <1>5
  <1> QED BY <1>3, <1>5, <1>6, SeqEqual DEF Strings

(* Following a path down: what is below it, and when two ways are the same. *)
LEMMA ConcatPrefix ==
  ASSUME NEW s \in Strings, NEW r \in Strings
  PROVE  /\ s \o r \in Strings /\ IsPrefix(s, s \o r) /\ Rest(s, s \o r) = r
         /\ s \o r = s <=> r = <<>>
         /\ \A t \in Strings : IsPrefix(s \o r, s \o t) <=> IsPrefix(r, t)
         /\ \A t \in Strings : s \o r = s \o t => r = t
  <1>1. Len(s) \in Nat /\ \A t \in Strings : Len(t) \in Nat
    BY DEF Strings
  <1>2. ASSUME NEW t \in Strings
        PROVE  /\ s \o t \in Strings /\ Len(s \o t) = Len(s) + Len(t)
               /\ \A i \in 1 .. Len(s) + Len(t) : (s \o t)[i] = IF i <= Len(s) THEN s[i] ELSE t[i - Len(s)]
    BY ConcatProperties DEF Strings
  <1>3. IsPrefix(s, s \o r)
    <2> DEFINE a == s \o r
    <2>1. /\ a \in Strings /\ Len(a) = Len(s) + Len(r)
          /\ \A i \in 1 .. Len(s) + Len(r) : a[i] = IF i <= Len(s) THEN s[i] ELSE r[i - Len(s)]
      BY <1>2
    <2> HIDE DEF a
    <2>2. Len(s) <= Len(a) /\ \A i \in 1 .. Len(s) : s[i] = a[i]
      BY <1>1, <2>1
    <2>3. IsPrefix(s, a)
      BY <2>1, <2>2, PrefixIs
    <2> QED BY <2>3 DEF a
  <1>4. \A t \in Strings : s \o r = s \o t => r = t
    BY ConcatSimplifications DEF Strings
  <1>5. Rest(s, s \o r) = r
    BY <1>2, <1>3, <1>4, RestIs
  <1>6. s \o r = s <=> r = <<>>
    BY ConcatEqualIffEmpty DEF Strings
  <1>7. ASSUME NEW t \in Strings PROVE IsPrefix(s \o r, s \o t) <=> IsPrefix(r, t)
    <2> DEFINE a == s \o r
               b == s \o t
    <2>1. /\ a \in Strings /\ Len(a) = Len(s) + Len(r)
          /\ \A i \in 1 .. Len(s) + Len(r) : a[i] = IF i <= Len(s) THEN s[i] ELSE r[i - Len(s)]
      BY <1>2
    <2>2. /\ b \in Strings /\ Len(b) = Len(s) + Len(t)
          /\ \A i \in 1 .. Len(s) + Len(t) : b[i] = IF i <= Len(s) THEN s[i] ELSE t[i - Len(s)]
      BY <1>2
    <2> HIDE DEF a, b
    <2>3. ASSUME IsPrefix(r, t) PROVE IsPrefix(a, b)
      <3>1. Len(r) <= Len(t) /\ \A i \in 1 .. Len(r) : r[i] = t[i]
        BY <2>3, PrefixIs
      <3>2. ASSUME NEW i \in 1 .. Len(a) PROVE a[i] = b[i]
        <4>1. i \in 1 .. Len(s) + Len(r) /\ i \in 1 .. Len(s) + Len(t)
              /\ (~(i <= Len(s)) => i - Len(s) \in 1 .. Len(r))
          BY <1>1, <2>1, <3>1
        <4> QED BY <2>1, <2>2, <3>1, <4>1
      <3>3. Len(a) <= Len(b)
        BY <1>1, <2>1, <2>2, <3>1
      <3> QED BY <2>1, <2>2, <3>2, <3>3, PrefixIs
    <2>4. ASSUME IsPrefix(a, b) PROVE IsPrefix(r, t)
      <3>1. Len(a) <= Len(b) /\ \A i \in 1 .. Len(a) : a[i] = b[i]
        BY <2>1, <2>2, <2>4, PrefixIs
      <3>2. Len(r) <= Len(t)
        BY <1>1, <2>1, <2>2, <3>1
      <3>3. ASSUME NEW i \in 1 .. Len(r) PROVE r[i] = t[i]
        <4>1. /\ Len(s) + i \in 1 .. Len(s) + Len(r) /\ Len(s) + i \in 1 .. Len(s) + Len(t)
              /\ ~(Len(s) + i <= Len(s)) /\ Len(s) + i - Len(s) = i
          BY <1>1, <3>2
        <4> QED BY <2>1, <2>2, <3>1, <4>1, SMTT(30)
      <3> QED BY <3>2, <3>3, PrefixIs
    <2> QED BY <2>3, <2>4 DEF a, b
  <1>8. s \o r \in Strings
    BY <1>2
  <1> QED BY <1>3, <1>4, <1>5, <1>6, <1>7, <1>8, Zenon
-----------------------------------------------------------------------------
(* Recursion over a list.                                                   *)

(* A set that holds 0 and the successor of each of its numbers holds them   *)
(* all.                                                                     *)
LEMMA NatFrom ==
  ASSUME NEW S, 0 \in S, \A n \in Nat : n \in S => n + 1 \in S
  PROVE  Nat \subseteq S
  <1> DEFINE T == Nat \ S
             R == OpToRel(<, Nat)
  <1> SUFFICES ASSUME T # {} PROVE FALSE
    OBVIOUS
  <1>1. PICK x \in T : \A y \in T : ~ (<<y, x>> \in R)
    <2> HIDE DEF T, R
    <2>1. T \subseteq Nat
      BY DEF T
    <2> QED BY <2>1, WFMin, NatLessThanWellFounded DEF R
  <1>2. x # 0 /\ x - 1 \in Nat /\ x - 1 < x
    OBVIOUS
  <1>3. x - 1 \notin S
    BY <1>2
  <1>4. <<x - 1, x>> \in R
    BY <1>2 DEF OpToRel
  <1> QED BY <1>1, <1>2, <1>3, <1>4

(* What is done n times, one after the other, has a result after each.      *)
Iterates(f, V, a, G, n) ==
  f \in [0 .. n -> V] /\ f[0] = a /\ \A i \in 1 .. n : f[i] = G[i][f[i - 1]]

(* A recursive definition over 0 .. n with a step for each number has a     *)
(* value.                                                                   *)
LEMMA Iterated ==
  ASSUME NEW V, NEW n \in Nat, NEW a \in V, NEW G \in [1 .. n -> [V -> V]]
  PROVE  \E f : Iterates(f, V, a, G, n)
  <1> DEFINE S == {k \in Nat : k <= n => \E f : Iterates(f, V, a, G, k)}
  <1>1. 0 \in S
    <2> DEFINE f == [i \in 0 .. 0 |-> a]
    <2>1. Iterates(f, V, a, G, 0)
      BY DEF Iterates
    <2> QED BY <2>1
  <1>2. ASSUME NEW k \in Nat, k \in S PROVE k + 1 \in S
    <2> SUFFICES ASSUME k + 1 <= n PROVE \E g : Iterates(g, V, a, G, k + 1)
      OBVIOUS
    <2>1. PICK f : Iterates(f, V, a, G, k)
      BY <1>2
    <2> DEFINE g == [i \in 0 .. k + 1 |-> IF i = k + 1 THEN G[k + 1][f[k]] ELSE f[i]]
    <2>2. k \in 0 .. k /\ k + 1 \in 1 .. n /\ k + 1 \in 0 .. k + 1
      OBVIOUS
    <2>9. f \in [0 .. k -> V] /\ f[0] = a /\ \A i \in 1 .. k : f[i] = G[i][f[i - 1]]
      BY <2>1 DEF Iterates
    <2>3. f[k] \in V /\ G[k + 1] \in [V -> V]
      BY <2>2, <2>9
    <2>4. G[k + 1][f[k]] \in V
      BY <2>3
    <2>5. g \in [0 .. k + 1 -> V]
      BY <2>4, <2>9
    <2>6. g[k + 1] = G[k + 1][f[k]] /\ \A i \in 0 .. k : g[i] = f[i]
      BY <2>2
    <2> HIDE DEF g
    <2>7. ASSUME NEW i \in 1 .. k + 1 PROVE g[i] = G[i][g[i - 1]]
      <3>1. CASE i = k + 1
        <4>1. i - 1 = k /\ g[k] = f[k]
          BY <2>2, <2>6, <3>1
        <4> QED BY <2>6, <3>1, <4>1
      <3>2. CASE i # k + 1
        <4>1. i \in 1 .. k /\ i \in 0 .. k /\ i - 1 \in 0 .. k
          BY <3>2
        <4> QED BY <2>6, <2>9, <4>1
      <3> QED BY <3>1, <3>2
    <2>8. g[0] = a
      BY <2>6, <2>9
    <2>10. Iterates(g, V, a, G, k + 1)
      BY <2>5, <2>7, <2>8 DEF Iterates
    <2> QED BY <2>10
  <1>3. n \in S
    <2> HIDE DEF S
    <2> QED BY <1>1, <1>2, NatFrom
  <1> QED BY <1>3

(* What holds at first and is kept by each step holds at the end.           *)
LEMMA Along ==
  ASSUME NEW J, NEW n \in Nat, NEW f, f[0] \in J, \A i \in 1 .. n : f[i - 1] \in J => f[i] \in J
  PROVE  f[n] \in J
  <1> DEFINE S == {k \in Nat : k <= n => f[k] \in J}
  <1>1. 0 \in S
    OBVIOUS
  <1>2. ASSUME NEW k \in Nat, k \in S PROVE k + 1 \in S
    <2> SUFFICES ASSUME k + 1 <= n PROVE f[k + 1] \in J
      OBVIOUS
    <2>1. f[k] \in J /\ k + 1 \in 1 .. n /\ k + 1 - 1 = k
      BY <1>2
    <2> QED BY <2>1
  <1>3. n \in S
    <2> HIDE DEF S
    <2> QED BY <1>1, <1>2, NatFrom
  <1> QED BY <1>3

(* The members of v are among the first n of s, and in the order of s.      *)
InOrder(v, s, n) ==
  \A i, j \in DOMAIN v : i < j => \E a, b \in 1 .. n : a < b /\ v[i] = s[a] /\ v[j] = s[b]

(* Only has the members of the list that are in S, each once and in order.  *)
LEMMA OnlyIs ==
  ASSUME NEW X, NEW s \in Seq(X), IsInjective(s), NEW S
  PROVE  /\ Only(s, S) \in Seq(X) /\ IsInjective(Only(s, S)) /\ InOrder(Only(s, S), s, Len(s))
         /\ \A x : x \in ToSet(Only(s, S)) <=> x \in ToSet(s) /\ x \in S
  <1> DEFINE n == Len(s)
             G == [i \in 1 .. n |-> [v \in Seq(X) |-> IF s[i] \in S THEN Append(v, s[i]) ELSE v]]
             Kept(f) == f = [i \in 0 .. n |->
                               IF i = 0 THEN <<>>
                               ELSE IF s[i] \in S THEN Append(f[i - 1], s[i]) ELSE f[i - 1]]
             kept == CHOOSE f : Kept(f)
  <1>1. n \in Nat /\ DOMAIN s = 1 .. n /\ \A i \in 1 .. n : s[i] \in X
    OBVIOUS
  <1>2. Only(s, S) = kept[n]
    BY DEF Only
  <1>3. \E f : Kept(f)
    <2>1. G \in [1 .. n -> [Seq(X) -> Seq(X)]]
      BY <1>1
    <2>3. PICK f \in [0 .. n -> Seq(X)] : f[0] = <<>> /\ \A i \in 1 .. n : f[i] = G[i][f[i - 1]]
      <3> DEFINE V == Seq(X)
                 a == <<>>
      <3>1. a \in V /\ G \in [1 .. n -> [V -> V]]
        BY <2>1
      <3>3. n \in Nat
        BY <1>1
      <3> HIDE DEF G, n, V, a
      <3>2. \E f : Iterates(f, V, a, G, n)
        BY <3>1, <3>3, Iterated, Zenon
      <3> QED BY <3>2 DEF V, a, Iterates
    <2>4. ASSUME NEW i \in 0 .. n
          PROVE  f[i] = IF i = 0 THEN <<>> ELSE IF s[i] \in S THEN Append(f[i - 1], s[i]) ELSE f[i - 1]
      <3>1. CASE i = 0
        BY <2>3, <3>1
      <3>2. CASE i # 0
        <4>1. i \in 1 .. n /\ i - 1 \in 0 .. n
          BY <1>1, <3>2
        <4>2. f[i - 1] \in Seq(X)
          BY <4>1
        <4>3. G[i][f[i - 1]] = IF s[i] \in S THEN Append(f[i - 1], s[i]) ELSE f[i - 1]
          BY <4>1, <4>2
        <4> QED BY <2>3, <3>2, <4>1, <4>3
      <3> QED BY <3>1, <3>2
    <2>5. f = [i \in 0 .. n |-> f[i]]
      OBVIOUS
    <2>6. Kept(f)
      <3> HIDE DEF n
      <3> QED BY <2>4, <2>5
    <2> QED BY <2>6
  <1>4. Kept(kept)
    <2> HIDE DEF Kept
    <2> QED BY <1>3
  <1>5. /\ kept[0] = <<>>
        /\ \A i \in 1 .. n : kept[i] = IF s[i] \in S THEN Append(kept[i - 1], s[i]) ELSE kept[i - 1]
    <2>1. \A i \in 0 .. n : kept[i] = IF i = 0 THEN <<>>
                                      ELSE IF s[i] \in S THEN Append(kept[i - 1], s[i]) ELSE kept[i - 1]
      <3> HIDE DEF kept
      <3> QED BY <1>4, Zenon
    <2> HIDE DEF kept, n
    <2> QED BY <1>1, <2>1
  <1> HIDE DEF kept, Kept, G
  <1> DEFINE Is(i) == /\ kept[i] \in Seq(X) /\ IsInjective(kept[i]) /\ InOrder(kept[i], s, i)
                      /\ \A x : x \in ToSet(kept[i]) <=> \E j \in 1 .. i : x = s[j] /\ x \in S
             T == {i \in Nat : i <= n => Is(i)}
  <1>6. 0 \in T
    <2>1. kept[0] \in Seq(X) /\ DOMAIN kept[0] = {}
      BY <1>5
    <2>2. Is(0)
      BY <2>1 DEF IsInjective, ToSet, InOrder
    <2> QED BY <2>2
  <1>7. ASSUME NEW k \in Nat, k \in T PROVE k + 1 \in T
    <2> SUFFICES ASSUME k + 1 <= n PROVE Is(k + 1)
      OBVIOUS
    <2>1. Is(k) /\ k + 1 \in 1 .. n /\ k + 1 - 1 = k
      BY <1>1, <1>7
    <2> DEFINE v == kept[k]
               w == kept[k + 1]
    <2>2. w = IF s[k + 1] \in S THEN Append(v, s[k + 1]) ELSE v
      BY <1>5, <2>1
    <2>3. /\ v \in Seq(X) /\ IsInjective(v) /\ InOrder(v, s, k) /\ s[k + 1] \in X
          /\ \A x : x \in ToSet(v) <=> \E j \in 1 .. k : x = s[j] /\ x \in S
      BY <1>1, <2>1
    <2> SUFFICES /\ w \in Seq(X) /\ IsInjective(w) /\ InOrder(w, s, k + 1)
                 /\ \A x : x \in ToSet(w) <=> \E j \in 1 .. k + 1 : x = s[j] /\ x \in S
      OBVIOUS
    <2> HIDE DEF v, w, n
    <2>6. \A a \in 1 .. k : a \in 1 .. k + 1 /\ a < k + 1
      OBVIOUS
    <2>7. InOrder(v, s, k + 1)
      BY <2>3, <2>6 DEF InOrder
    <2>4. CASE s[k + 1] \notin S
      BY <2>2, <2>3, <2>4, <2>7
    <2>5. CASE s[k + 1] \in S
      <3>1. s[k + 1] \notin ToSet(v)
        <4> SUFFICES ASSUME NEW j \in 1 .. k, s[k + 1] = s[j] PROVE FALSE
          BY <2>3
        <4>1. j \in DOMAIN s /\ k + 1 \in DOMAIN s /\ j # k + 1
          BY <1>1, <2>1
        <4> QED BY <4>1 DEF IsInjective
      <3>2. w = Append(v, s[k + 1]) /\ Len(w) = Len(v) + 1 /\ w \in Seq(X) /\ Len(v) \in Nat
        BY <2>2, <2>3, <2>5
      <3>3. /\ w[Len(v) + 1] = s[k + 1] /\ \A i \in 1 .. Len(v) : w[i] = v[i]
            /\ DOMAIN w = 1 .. Len(v) + 1 /\ DOMAIN v = 1 .. Len(v)
        BY <2>3, <3>2
      <3>4. \A i \in 1 .. Len(v) : v[i] # s[k + 1]
        BY <3>1, <3>3 DEF ToSet
      <3>5. IsInjective(w)
        <4> SUFFICES ASSUME NEW i \in 1 .. Len(v) + 1, NEW j \in 1 .. Len(v) + 1, w[i] = w[j] PROVE i = j
          BY <3>3 DEF IsInjective
        <4>1. CASE i \in 1 .. Len(v) /\ j \in 1 .. Len(v)
          BY <2>3, <3>3, <4>1 DEF IsInjective
        <4>2. CASE i = Len(v) + 1 \/ j = Len(v) + 1
          BY <3>2, <3>3, <3>4, <4>2
        <4> QED BY <3>2, <4>1, <4>2
      <3>6. ASSUME NEW x PROVE x \in ToSet(w) <=> x \in ToSet(v) \/ x = s[k + 1]
        <4>1. x \in ToSet(w) <=> \E i \in 1 .. Len(v) + 1 : x = w[i]
          BY <3>3 DEF ToSet
        <4>2. x \in ToSet(v) <=> \E i \in 1 .. Len(v) : x = v[i]
          BY <3>3 DEF ToSet
        <4>3. Len(v) + 1 \in 1 .. Len(v) + 1 /\ \A i \in 1 .. Len(v) + 1 : i \in 1 .. Len(v) \/ i = Len(v) + 1
          BY <3>2
        <4>4. \A i \in 1 .. Len(v) : i \in 1 .. Len(v) + 1
          BY <3>2
        <4> QED BY <3>3, <4>1, <4>2, <4>3, <4>4
      <3>7. \A j \in 1 .. k + 1 : j \in 1 .. k \/ j = k + 1
        OBVIOUS
      <3>8. k + 1 \in 1 .. k + 1 /\ \A j \in 1 .. k : j \in 1 .. k + 1
        OBVIOUS
      <3>9. InOrder(w, s, k + 1)
        <4> SUFFICES ASSUME NEW i \in 1 .. Len(v) + 1, NEW j \in 1 .. Len(v) + 1, i < j
                     PROVE  \E a, b \in 1 .. k + 1 : a < b /\ w[i] = s[a] /\ w[j] = s[b]
          BY <3>3, SMTT(30) DEF InOrder
        <4>1. i \in 1 .. Len(v) /\ (j \in 1 .. Len(v) \/ j = Len(v) + 1)
          BY <3>2
        <4>2. CASE j \in 1 .. Len(v)
          <5>1. PICK a \in 1 .. k + 1, b \in 1 .. k + 1 : a < b /\ v[i] = s[a] /\ v[j] = s[b]
            BY <2>7, <3>3, <4>1, <4>2 DEF InOrder
          <5>2. w[i] = v[i] /\ w[j] = v[j]
            BY <3>3, <4>1, <4>2
          <5> QED BY <5>1, <5>2
        <4>3. CASE j = Len(v) + 1
          <5>1. PICK a \in 1 .. k : v[i] = s[a]
            BY <2>3, <3>3, <4>1 DEF ToSet
          <5> QED BY <2>6, <3>3, <3>8, <4>1, <4>3, <5>1
        <4> QED BY <4>1, <4>2, <4>3
      <3> QED BY <2>3, <2>5, <3>2, <3>5, <3>6, <3>7, <3>8, <3>9
    <2> QED BY <2>4, <2>5
  <1>8. Is(n)
    <2>1. n \in T
      <3> HIDE DEF T
      <3> QED BY <1>1, <1>6, <1>7, NatFrom
    <2> QED BY <1>1, <2>1
  <1>9. /\ Only(s, S) \in Seq(X) /\ IsInjective(Only(s, S)) /\ InOrder(Only(s, S), s, n)
        /\ \A x : x \in ToSet(Only(s, S)) <=> \E j \in 1 .. n : x = s[j] /\ x \in S
    BY <1>2, <1>8, Zenon
  <1>10. \A x : x \in ToSet(s) <=> \E j \in 1 .. n : x = s[j]
    BY <1>1 DEF ToSet
  <1> QED BY <1>9, <1>10
-----------------------------------------------------------------------------
(* Trees.                                                                   *)

(* Paths below a directory.                                                 *)
LEMMA PathsBelow ==
  ASSUME NEW p \in Paths
  PROVE  /\ p \in Below(p) /\ Rest(p, p) = <<>> /\ p \o <<>> = p /\ <<>> \o p = p
         /\ p \in Below(<<>>) /\ Rest(<<>>, p) = p /\ (<<>> \in Below(p) => p = <<>>)
         /\ \A q \in Below(p) : q \in Paths /\ Rest(p, q) \in Paths /\ p \o Rest(p, q) = q
         /\ \A q \in Paths : p \o q \in Paths =>
              /\ p \o q \in Below(p) /\ Rest(p, p \o q) = q
              /\ p \o q = p => q = <<>>
              /\ \A r \in Paths : /\ IsPrefix(p \o r, p \o q) <=> IsPrefix(r, q)
                                  /\ p \o r = p \o q => r = q
  <1>1. p \in Strings /\ <<>> \in Strings /\ \A q \in Paths : q \in Strings
    BY PathsAre
  <1>2. p \o <<>> = p /\ <<>> \o p = p
    BY <1>1 DEF Strings
  <1>3. IsPrefix(p, p) /\ IsPrefix(<<>>, p)
    BY <1>1, PrefixOrder
  <1>4. Rest(p, p) = <<>> /\ Rest(<<>>, p) = p
    <2>1. Rest(p, p \o <<>>) = <<>> /\ Rest(<<>>, <<>> \o p) = p
      BY <1>1, ConcatPrefix
    <2> QED BY <1>2, <2>1
  <1>5. <<>> \in Below(p) => p = <<>>
    BY <1>1, PrefixOrder DEF Below
  <1>6. ASSUME NEW q \in Below(p)
        PROVE  q \in Paths /\ Rest(p, q) \in Paths /\ p \o Rest(p, q) = q
    <2>1. q \in Paths /\ IsPrefix(p, q)
      BY DEF Below
    <2>2. Rest(p, q) \in Paths
      BY TreeAssumption
    <2> QED BY <1>1, <2>1, <2>2, RestIs
  <1>7. ASSUME NEW q \in Paths, p \o q \in Paths
        PROVE  /\ p \o q \in Below(p) /\ Rest(p, p \o q) = q
               /\ p \o q = p => q = <<>>
               /\ \A r \in Paths : /\ IsPrefix(p \o r, p \o q) <=> IsPrefix(r, q)
                                   /\ p \o r = p \o q => r = q
    <2>1. IsPrefix(p, p \o q) /\ Rest(p, p \o q) = q /\ (p \o q = p => q = <<>>)
      BY <1>1, ConcatPrefix
    <2>2. \A r \in Paths : IsPrefix(p \o r, p \o q) <=> IsPrefix(r, q)
      BY <1>1, ConcatPrefix
    <2>3. \A r \in Paths : p \o r = p \o q => r = q
      BY <1>1, ConcatPrefix
    <2> QED BY <1>7, <2>1, <2>2, <2>3 DEF Below
  <1>8. p \in Below(p) /\ p \in Below(<<>>)
    BY <1>3 DEF Below
  <1> QED BY <1>2, <1>4, <1>5, <1>6, <1>7, <1>8

(* The top directory is a path.                                             *)
LEMMA RootPath == <<>> \in Paths
  BY PathsAre

(* Nothing is a directory, a tree and a Kptfile.                            *)
LEMMA EmptyTypes == NoDir \in Dirs /\ NoTree \in Trees /\ NoKptfile \in Kptfiles
  <1>1. NoDir \in Dirs
    BY DEF NoDir, Dirs
  <1> QED BY <1>1 DEF NoTree, Trees, NoKptfile, Kptfiles

(* What is in a tree.                                                       *)
LEMMA TreeTypes ==
  ASSUME NEW T \in Trees, NEW p \in Paths
  PROVE  /\ T[p] \in Dirs /\ T[p].kptfile \in Kptfiles \cup {None}
         /\ \A f \in Files : T[p].files[f] \in Values \cup {None}
  BY DEF Trees, Dirs

(* The tree below a directory.                                              *)
LEMMA AtType ==
  ASSUME NEW T \in Trees, NEW p \in Paths
  PROVE  /\ At(T, p) \in Trees /\ At(T, p)[<<>>] = T[p] /\ At(T, <<>>) = T
         /\ \A q \in Paths : At(T, p)[q] # NoDir => p \o q \in Paths
         /\ \A q \in Paths : p \o q \in Paths => At(T, p)[q] = T[p \o q]
  <1>1. At(T, p) \in Trees
    BY EmptyTypes DEF At, Trees
  <1>2. At(T, p)[<<>>] = T[p]
    BY RootPath, PathsBelow DEF At
  <1>3. At(T, <<>>) = T
    <2>1. \A q \in Paths : <<>> \o q = q
      BY PathsBelow
    <2>2. T = [q \in Paths |-> T[q]]
      BY DEF Trees
    <2> QED BY <2>1, <2>2 DEF At
  <1> QED BY <1>1, <1>2, <1>3 DEF At

(* A tree with another in it: what is outside stays.                        *)
LEMMA GraftType ==
  ASSUME NEW T \in Trees, NEW U \in Trees, NEW p \in Paths
  PROVE  /\ Graft(T, p, U) \in Trees /\ Graft(T, p, U)[p] = U[<<>>] /\ Graft(T, <<>>, U) = U
         /\ p # <<>> => Graft(T, p, U)[<<>>] = T[<<>>]
         /\ \A q \in Paths : ~IsPrefix(p, q) => Graft(T, p, U)[q] = T[q]
         /\ \A q \in Below(p) : Graft(T, p, U)[q] = U[Rest(p, q)]
  <1>1. \A q \in Below(p) : Rest(p, q) \in Paths /\ q \in Paths
    BY PathsBelow
  <1>2. Graft(T, p, U) \in Trees
    BY <1>1 DEF Graft, Trees
  <1>3. Graft(T, p, U)[p] = U[<<>>]
    BY PathsBelow DEF Graft
  <1>4. Graft(T, <<>>, U) = U
    <2>1. \A q \in Paths : q \in Below(<<>>) /\ Rest(<<>>, q) = q
      BY PathsBelow
    <2>2. U = [q \in Paths |-> U[q]]
      BY DEF Trees
    <2> QED BY <2>1, <2>2 DEF Graft
  <1>5. p # <<>> => Graft(T, p, U)[<<>>] = T[<<>>]
    BY RootPath, PathsBelow DEF Graft
  <1>6. \A q \in Paths : ~IsPrefix(p, q) => Graft(T, p, U)[q] = T[q]
    BY DEF Graft, Below
  <1>7. \A q \in Below(p) : Graft(T, p, U)[q] = U[Rest(p, q)]
    BY <1>1 DEF Graft
  <1> QED BY <1>2, <1>3, <1>4, <1>5, <1>6, <1>7

(* The Kptfile of a tree, the zero value included.                          *)
LEMMA KfType ==
  ASSUME NEW T \in Trees
  PROVE  Kf(T) \in Kptfiles /\ (T[<<>>].kptfile # None => Kf(T) = T[<<>>].kptfile)
  BY RootPath, EmptyTypes, TreeTypes DEF Kf

(* Where a tree has a package, the Kptfile and what it names upstream.      *)
Follow(T, k) == T \in Trees /\ T[<<>>].kptfile # None /\ T[<<>>].kptfile.up = k
FollowIn(T, k) == T \in Trees /\ T[<<>>].kptfile # None /\ T[<<>>].kptfile.up \in k

(* What a merged Kptfile follows, and that nothing else changes.            *)
LEMMA UpdateKptfileType ==
  ASSUME NEW L \in Trees, NEW U \in Trees, NEW O \in Trees, NEW flag \in BOOLEAN
  PROVE  LET T == UpdateKptfile(L, U, O, flag)
         IN  /\ Follow(T, IF flag /\ Kf(U).up # None THEN Kf(U).up ELSE Kf(L).up)
             /\ \A q \in Paths : q # <<>> => T[q] = L[q]
  <1> DEFINE l == Kf(L)
             u == Kf(U)
             o == Kf(O)
             k == [up   |-> IF flag /\ u.up # None THEN u.up ELSE l.up,
                   lock |-> IF flag /\ u.lock # None THEN u.lock ELSE l.lock,
                   kf   |-> MergeValue(l.kf, u.kf, o.kf)]
             T == UpdateKptfile(L, U, O, flag)
  <1>1. l \in Kptfiles /\ u \in Kptfiles /\ o \in Kptfiles
    BY KfType
  <1>2. T = [L EXCEPT ![<<>>].kptfile = k]
    BY DEF UpdateKptfile
  <1>3. k \in Kptfiles /\ k # None
    <2> HIDE DEF l, u, o
    <2>1. k \in Kptfiles
      BY <1>1 DEF Kptfiles, MergeValue
    <2> QED BY <2>1, NoneAssumption
  <1>4. k.up = IF flag /\ u.up # None THEN u.up ELSE l.up
    OBVIOUS
  <1>5. L \in [Paths -> Dirs] /\ L[<<>>] \in Dirs /\ <<>> \in Paths
    BY RootPath DEF Trees
  <1> HIDE DEF k, T
  <1>6. [L[<<>>] EXCEPT !.kptfile = k] \in Dirs /\ [L[<<>>] EXCEPT !.kptfile = k].kptfile = k
    BY <1>3, <1>5 DEF Dirs
  <1>7. T \in [Paths -> Dirs] /\ T[<<>>].kptfile = k /\ \A q \in Paths : q # <<>> => T[q] = L[q]
    BY <1>2, <1>5, <1>6
  <1>8. Follow(T, IF flag /\ u.up # None THEN u.up ELSE l.up)
    BY <1>3, <1>4, <1>7 DEF Follow, Trees
  <1> QED BY <1>7, <1>8 DEF T
-----------------------------------------------------------------------------
(* The operations on trees.                                                 *)

(* A subpackage is below the top.                                           *)
LEMMA SubpackagesBelow ==
  ASSUME NEW T, NEW matcher, NEW recursive, NEW r \in Subpackages(T, matcher, recursive)
  PROVE  r \in Paths /\ r # <<>> /\ ~IsPrefix(r, <<>>) /\ IsPackageDir(T, r)
  <1>1. r \in Paths /\ r # <<>> /\ IsPackageDir(T, r)
    BY DEF Subpackages
  <1>2. <<>> \in Below(r) => r = <<>>
    BY <1>1, PathsBelow
  <1> QED BY <1>1, <1>2, RootPath DEF Below

(* What a copy has in each directory.                                       *)
LEMMA CopyPackageType ==
  ASSUME NEW U \in Trees, NEW L \in Trees, NEW flag \in BOOLEAN, NEW matcher
  PROVE  LET T == CopyPackage(U, L, flag, matcher)
         IN  /\ T \in Trees
             /\ \A q \in Paths : \/ T[q].kptfile = L[q].kptfile
                                 \/ U[q].kptfile # None /\ T[q].kptfile = U[q].kptfile
             /\ T[<<>>].kptfile = IF flag /\ L[<<>>].kptfile = None THEN U[<<>>].kptfile ELSE L[<<>>].kptfile
  <1> DEFINE subs == IF matcher = "none" THEN {} ELSE Subpackages(U, matcher, TRUE)
             InSub(q) == \E r \in subs : IsPrefix(r, q)
             Kpt(q) == IF U[q].kptfile # None /\ (InSub(q) \/ (q = <<>> /\ flag /\ L[q].kptfile = None))
                       THEN U[q].kptfile ELSE L[q].kptfile
             Fs(q) == [f \in Files |-> IF U[q].files[f] # None /\ (InSub(q) \/ <<q, f>> \in Walked(U))
                                       THEN U[q].files[f] ELSE L[q].files[f]]
             T == CopyPackage(U, L, flag, matcher)
  <1>1. T = [q \in Paths |-> [kptfile |-> Kpt(q), files |-> Fs(q)]]
    BY DEF CopyPackage
  <1>2. ~InSub(<<>>)
    BY SubpackagesBelow
  <1>3. ASSUME NEW q \in Paths
        PROVE  /\ Kpt(q) \in Kptfiles \cup {None} /\ Fs(q) \in [Files -> Values \cup {None}]
               /\ Kpt(q) = L[q].kptfile \/ (U[q].kptfile # None /\ Kpt(q) = U[q].kptfile)
    <2> HIDE DEF InSub
    <2> QED BY TreeTypes
  <1>4. Kpt(<<>>) = IF flag /\ L[<<>>].kptfile = None THEN U[<<>>].kptfile ELSE L[<<>>].kptfile
    <2> HIDE DEF InSub
    <2> QED BY <1>2
  <1> HIDE DEF Kpt, Fs, T
  <1>5. T \in Trees
    BY <1>1, <1>3 DEF Trees, Dirs
  <1>6. \A q \in Paths : T[q].kptfile = Kpt(q)
    BY <1>1
  <1> QED BY <1>3, <1>4, <1>5, <1>6, RootPath DEF T

(* Removing the files of a package leaves its Kptfile, unless asked to.     *)
LEMMA RemovePackageContentType ==
  ASSUME NEW L \in Trees, NEW flag \in BOOLEAN
  PROVE  LET T == RemovePackageContent(L, flag)
         IN  /\ T \in Trees /\ (~flag => T[<<>>].kptfile = L[<<>>].kptfile)
             /\ \A q \in Paths : T[q].kptfile \in {None, L[q].kptfile}
  <1> DEFINE Kpt(q) == IF q = <<>> /\ flag THEN None ELSE L[q].kptfile
             Fs(q) == [f \in Files |-> IF <<q, f>> \in Walked(L) THEN None ELSE L[q].files[f]]
             T == RemovePackageContent(L, flag)
  <1>1. T = [q \in Paths |-> [kptfile |-> Kpt(q), files |-> Fs(q)]]
    BY DEF RemovePackageContent
  <1>2. ASSUME NEW q \in Paths
        PROVE  /\ Kpt(q) \in Kptfiles \cup {None} /\ Fs(q) \in [Files -> Values \cup {None}]
               /\ ~flag => Kpt(q) = L[q].kptfile
               /\ Kpt(q) \in {None, L[q].kptfile}
    BY TreeTypes
  <1> HIDE DEF Kpt, Fs, T
  <1>3. T \in Trees
    BY <1>1, <1>2 DEF Trees, Dirs
  <1>4. \A q \in Paths : T[q].kptfile = Kpt(q)
    BY <1>1
  <1> QED BY <1>2, <1>3, <1>4, RootPath DEF T

(* Removing what upstream has no more leaves the Kptfile on top.            *)
LEMMA RemoveStaleItemsType ==
  ASSUME NEW O \in Trees, NEW U \in Trees, NEW L \in Trees
  PROVE  LET T == RemoveStaleItems(O, U, L)
         IN  /\ T \in Trees /\ T[<<>>].kptfile = L[<<>>].kptfile
             /\ \A q \in Paths : T[q].kptfile \in {None, L[q].kptfile}
  <1> DEFINE Kpt(q) == IF q # <<>> /\ U[q].kptfile = None /\ O[q].kptfile # None
                       THEN None ELSE L[q].kptfile
             Fs(q) == [f \in Files |-> IF U[q].files[f] = None /\ O[q].files[f] # None
                                       THEN None ELSE L[q].files[f]]
             T == RemoveStaleItems(O, U, L)
  <1>1. T = [q \in Paths |-> [kptfile |-> Kpt(q), files |-> Fs(q)]]
    BY DEF RemoveStaleItems
  <1>2. ASSUME NEW q \in Paths
        PROVE  /\ Kpt(q) \in Kptfiles \cup {None} /\ Fs(q) \in [Files -> Values \cup {None}]
               /\ Kpt(q) \in {None, L[q].kptfile}
    BY TreeTypes
  <1>3. Kpt(<<>>) = L[<<>>].kptfile
    OBVIOUS
  <1> HIDE DEF Kpt, Fs, T
  <1>4. T \in Trees
    BY <1>1, <1>2 DEF Trees, Dirs
  <1>5. \A q \in Paths : T[q].kptfile = Kpt(q)
    BY <1>1
  <1> QED BY <1>2, <1>3, <1>4, <1>5, RootPath DEF T

(* Merging files leaves the Kptfiles.                                       *)
LEMMA MergeFilesType ==
  ASSUME NEW L \in Trees, NEW U \in Trees, NEW O \in Trees
  PROVE  LET T == MergeFiles(L, U, O)
         IN  T \in Trees /\ \A q \in Paths : T[q].kptfile = L[q].kptfile
  <1> DEFINE V == Values \cup {None}
             Resource(T, q, f) == IF q \in Own(T) THEN T[q].files[f] ELSE None
             NonKrm(T, q, f) == IF <<q, f>> \in Walked(T) THEN T[q].files[f] ELSE None
             Merged(q, f) ==
               IF f \in KrmFiles
               THEN MergeResource(Resource(L, q, f), Resource(U, q, f), Resource(O, q, f))
               ELSE MergeNonKrm(NonKrm(L, q, f), NonKrm(U, q, f), NonKrm(O, q, f))
             Hidden(q, f) == L[q].files[f] # None /\
               IF f \in KrmFiles THEN q \notin Own(L) ELSE <<q, f>> \notin Walked(L)
             Fs(q) == [f \in Files |->
                         IF Hidden(q, f) /\ Merged(q, f) = None THEN L[q].files[f] ELSE Merged(q, f)]
             T == MergeFiles(L, U, O)
  <1>1. T = [q \in Paths |-> [L[q] EXCEPT !.files = Fs(q)]]
    BY DEF MergeFiles
  <1>2. ASSUME NEW q \in Paths, NEW f \in Files PROVE Merged(q, f) \in V /\ L[q].files[f] \in V
    <2>1. \A A \in Trees : Resource(A, q, f) \in V /\ NonKrm(A, q, f) \in V /\ A[q].files[f] \in V
      BY TreeTypes
    <2>2. \A a, b, c \in V : MergeResource(a, b, c) \in V /\ MergeNonKrm(a, b, c) \in V
      BY DEF MergeResource, MergeNonKrm, MergeValue
    <2> HIDE DEF Resource, NonKrm, V
    <2> QED BY <2>1, <2>2
  <1>3. ASSUME NEW q \in Paths PROVE Fs(q) \in [Files -> V]
    <2> HIDE DEF Merged, Hidden, V
    <2> QED BY <1>2
  <1> HIDE DEF Fs, T
  <1>4. ASSUME NEW q \in Paths
        PROVE  /\ [L[q] EXCEPT !.files = Fs(q)] \in Dirs
               /\ [L[q] EXCEPT !.files = Fs(q)].kptfile = L[q].kptfile
    BY <1>3, TreeTypes DEF Dirs
  <1>5. T \in [Paths -> Dirs]
    BY <1>1, <1>4
  <1>6. \A q \in Paths : T[q].kptfile = L[q].kptfile
    BY <1>1, <1>4
  <1> QED BY <1>5, <1>6 DEF T, Trees
-----------------------------------------------------------------------------
(* What packages follow: what they did in one tree, or do in another.       *)

UpAt(T, q) == IF T[q].kptfile = None THEN None ELSE T[q].kptfile.up
From(T, V, U) == \A q \in Paths : UpAt(T, q) \in {None, UpAt(V, q), UpAt(U, q)}

(* One change after the other.                                              *)
LEMMA FromBoth ==
  ASSUME NEW T, NEW K, NEW V, NEW U, From(T, K, U), From(K, V, U)
  PROVE  From(T, V, U)
  BY DEF From

(* Kptfiles that stay or are removed.                                       *)
LEMMA FromLess ==
  ASSUME NEW T, NEW V, NEW U, \A q \in Paths : T[q].kptfile \in {None, V[q].kptfile}
  PROVE  From(T, V, U)
  BY DEF From, UpAt

(* A copy.                                                                  *)
LEMMA FromCopy ==
  ASSUME NEW U \in Trees, NEW L \in Trees, NEW flag \in BOOLEAN, NEW matcher
  PROVE  From(CopyPackage(U, L, flag, matcher), L, U)
  <1> DEFINE T == CopyPackage(U, L, flag, matcher)
  <1>1. \A q \in Paths : T[q].kptfile = L[q].kptfile \/ (U[q].kptfile # None /\ T[q].kptfile = U[q].kptfile)
    BY CopyPackageType
  <1> HIDE DEF T
  <1>2. From(T, L, U)
    BY <1>1 DEF From, UpAt
  <1> QED BY <1>2 DEF T

(* A merged Kptfile.                                                        *)
LEMMA FromKptfile ==
  ASSUME NEW L \in Trees, NEW U \in Trees, NEW O \in Trees, NEW flag \in BOOLEAN
  PROVE  From(UpdateKptfile(L, U, O, flag), L, U)
  <1> DEFINE T == UpdateKptfile(L, U, O, flag)
  <1>1. /\ Follow(T, IF flag /\ Kf(U).up # None THEN Kf(U).up ELSE Kf(L).up)
        /\ \A q \in Paths : q # <<>> => T[q] = L[q]
    BY UpdateKptfileType
  <1>2. Kf(U).up = UpAt(U, <<>>) /\ Kf(L).up = UpAt(L, <<>>)
    BY DEF Kf, UpAt, NoKptfile
  <1> HIDE DEF T
  <1>3. From(T, L, U)
    BY <1>1, <1>2 DEF From, Follow, UpAt
  <1> QED BY <1>3 DEF T

(* A directory in the tree.                                                 *)
LEMMA FromGraft ==
  ASSUME NEW T \in Trees, NEW U \in Trees, NEW V, NEW p \in Paths, NEW X \in Trees,
         From(T, V, U), From(X, At(T, p), At(U, p))
  PROVE  From(Graft(T, p, X), V, U)
  <1> DEFINE G == Graft(T, p, X)
  <1>1. /\ \A q \in Paths : ~IsPrefix(p, q) => G[q] = T[q]
        /\ \A q \in Below(p) : G[q] = X[Rest(p, q)]
    BY GraftType, ZenonT(30)
  <1> HIDE DEF G
  <1>2. ASSUME NEW q \in Paths PROVE UpAt(G, q) \in {None, UpAt(V, q), UpAt(U, q)}
    <2>1. CASE ~IsPrefix(p, q)
      BY <1>1, <2>1 DEF From, UpAt
    <2>2. CASE IsPrefix(p, q)
      <3> DEFINE r == Rest(p, q)
      <3>1. q \in Below(p) /\ r \in Paths /\ p \o r = q
        BY <2>2, PathsBelow DEF Below
      <3>2. G[q] = X[r]
        BY <1>1, <3>1
      <3> HIDE DEF r
      <3>3. At(T, p)[r] = T[q] /\ At(U, p)[r] = U[q]
        <4>1. p \o r \in Paths
          BY <3>1
        <4>2. At(T, p)[r] = T[p \o r] /\ At(U, p)[r] = U[p \o r]
          BY <3>1, <4>1 DEF At
        <4> QED BY <3>1, <4>2
      <3>4. UpAt(X, r) \in {None, UpAt(At(T, p), r), UpAt(At(U, p), r)}
        BY <3>1 DEF From
      <3>5. UpAt(G, q) \in {None, UpAt(T, q), UpAt(U, q)}
        BY <3>2, <3>3, <3>4 DEF UpAt
      <3>6. UpAt(T, q) \in {None, UpAt(V, q), UpAt(U, q)}
        BY DEF From
      <3> QED BY <3>5, <3>6
    <2> QED BY <2>1, <2>2
  <1>3. From(G, V, U)
    BY <1>2 DEF From
  <1> QED BY <1>3 DEF G
-----------------------------------------------------------------------------
(* The strategies: they make trees of trees.  What the package that is      *)
(* updated follows stays, unless upstream names another, and packages       *)
(* inside it follow what they did or what they do upstream.                 *)

Kept(isRoot, k, V, U) == {T \in Trees : (isRoot => FollowIn(T, k)) /\ From(T, V, U)}
Results(S) == [tree : S, err : BOOLEAN]

(* The trees that a strategy makes.                                         *)
LEMMA ResultTypes ==
  ASSUME NEW S
  PROVE  /\ \A T \in S : Ok(T) \in Results(S) /\ Failed(T) \in Results(S)
         /\ \A r \in Results(S) : r.tree \in S /\ r.err \in BOOLEAN
  BY DEF Ok, Failed, Results

(* Trees that are kept are trees, and a top one follows what it did.        *)
LEMMA KeptTrees ==
  ASSUME NEW isRoot \in BOOLEAN, NEW k, NEW V, NEW U, NEW T \in Kept(isRoot, k, V, U)
  PROVE  T \in Trees /\ (isRoot => FollowIn(T, k) /\ Kf(T).up \in k) /\ From(T, V, U)
  <1>1. T \in Trees /\ (isRoot => FollowIn(T, k)) /\ From(T, V, U)
    BY DEF Kept
  <1> QED BY <1>1, KfType DEF Follow, FollowIn

(* A step on a package below the top, and on the top one.                   *)
LEMMA GraftKeeps ==
  ASSUME NEW isRoot \in BOOLEAN, NEW k, NEW V, NEW U \in Trees, NEW T \in Kept(isRoot, k, V, U),
         NEW p \in Paths, NEW X \in Trees, isRoot /\ p = <<>> => FollowIn(X, k),
         From(X, At(T, p), At(U, p))
  PROVE  Graft(T, p, X) \in Kept(isRoot, k, V, U)
  <1>1. T \in Trees /\ (isRoot => FollowIn(T, k)) /\ From(T, V, U)
    BY KeptTrees
  <1>2. Graft(T, p, X) \in Trees
    BY <1>1, GraftType
  <1>3. From(Graft(T, p, X), V, U)
    BY <1>1, FromGraft
  <1>4. CASE isRoot /\ p = <<>>
    <2>1. Graft(T, p, X) = X
      BY <1>1, <1>4, GraftType
    <2> QED BY <1>2, <1>3, <1>4, <2>1 DEF Kept
  <1>5. CASE isRoot /\ p # <<>>
    <2>1. Graft(T, p, X)[<<>>] = T[<<>>]
      BY <1>1, <1>5, GraftType
    <2> QED BY <1>1, <1>2, <1>3, <1>5, <2>1 DEF Kept, Follow, FollowIn
  <1> QED BY <1>2, <1>3, <1>4, <1>5 DEF Kept

(* A package below the top is removed.                                      *)
LEMMA RemoveKeeps ==
  ASSUME NEW isRoot \in BOOLEAN, NEW k, NEW V, NEW U \in Trees, NEW T \in Kept(isRoot, k, V, U),
         NEW p \in Paths, p # <<>>
  PROVE  RemoveAll(T, p) \in Kept(isRoot, k, V, U)
  <1>1. From(NoTree, At(T, p), At(U, p))
    BY FromLess DEF NoTree, NoDir
  <1> QED BY <1>1, EmptyTypes, GraftKeeps DEF RemoveAll

(* The top directory is always there.                                       *)
LEMMA ExistsTop == \A T : Exists(T, <<>>)
  BY DEF Exists

(* resource-merge of one package.                                           *)
LEMMA MergePackageKeeps ==
  ASSUME NEW isRoot \in BOOLEAN, NEW k, NEW V, NEW U \in Trees, NEW T \in Kept(isRoot, k, V, U),
         NEW O \in Trees, NEW p \in Paths
  PROVE  MergePackage(T, U, O, p, isRoot /\ p = <<>>) \in Kept(isRoot, k, V, U)
  <1> DEFINE flag == ~(isRoot /\ p = <<>>)
             l == At(T, p)
             u == At(U, p)
             o == At(O, p)
             K == UpdateKptfile(l, u, o, flag)
             X == MergeFiles(K, u, o)
  <1>1. T \in Trees /\ l \in Trees /\ u \in Trees /\ o \in Trees /\ flag \in BOOLEAN
    BY KeptTrees, AtType
  <1>2. Follow(K, IF flag /\ Kf(u).up # None THEN Kf(u).up ELSE Kf(l).up)
    <2> HIDE DEF flag, l, u, o
    <2> QED BY <1>1, UpdateKptfileType
  <1>3. K \in Trees
    BY <1>2 DEF Follow, FollowIn
  <1>4. X \in Trees /\ \A q \in Paths : X[q].kptfile = K[q].kptfile
    <2> HIDE DEF K, l, u, o
    <2> QED BY <1>1, <1>3, MergeFilesType
  <1>7. From(X, l, u)
    <2> HIDE DEF flag, l, u, o
    <2>1. From(K, l, u)
      BY <1>1, FromKptfile
    <2> HIDE DEF K, X
    <2>2. From(X, K, u)
      BY <1>4, FromLess
    <2> QED BY <2>1, <2>2, FromBoth
  <1>5. isRoot /\ p = <<>> => FollowIn(X, k)
    <2> SUFFICES ASSUME isRoot, p = <<>> PROVE FollowIn(X, k)
      OBVIOUS
    <2>1. l = T /\ Kf(T).up \in k /\ ~flag
      <3>1. At(T, <<>>) = T
        BY <1>1, RootPath, AtType
      <3>2. isRoot => Kf(T).up \in k
        BY KeptTrees
      <3> QED BY <3>1, <3>2
    <2> HIDE DEF X, K, l, flag
    <2> QED BY <1>2, <1>4, <2>1, RootPath DEF Follow, FollowIn
  <1>6. MergePackage(T, U, O, p, isRoot /\ p = <<>>) = Graft(T, p, X)
    BY DEF MergePackage
  <1> HIDE DEF X
  <1> QED BY <1>4, <1>5, <1>6, <1>7, GraftKeeps

(* resource-merge of one package, added, deleted or merged.                 *)
LEMMA ResourceMergePackageKeeps ==
  ASSUME NEW isRoot \in BOOLEAN, NEW k, NEW V, NEW U \in Trees, NEW T \in Kept(isRoot, k, V, U),
         NEW O \in Trees, NEW p \in Paths
  PROVE  ResourceMergePackage(T, U, O, p, isRoot /\ p = <<>>) \in Results(Kept(isRoot, k, V, U))
  <1> DEFINE S == Kept(isRoot, k, V, U)
             flag == isRoot /\ p = <<>>
             C == CopyPackage(At(U, p), At(T, p), ~flag, "none")
             M == MergePackage(T, U, O, p, flag)
  <1>1. T \in Trees /\ NoTree \in Trees
    BY KeptTrees, EmptyTypes
  <1>2. C \in Trees /\ From(C, At(T, p), At(U, p))
    <2>1. At(T, p) \in Trees /\ At(U, p) \in Trees /\ (~flag) \in BOOLEAN
      BY <1>1, AtType
    <2> HIDE DEF flag
    <2> QED BY <2>1, CopyPackageType, FromCopy
  <1>3. Exists(T, <<>>) /\ Exists(U, <<>>)
    BY ExistsTop
  <1>4. ~Exists(T, p) => Graft(T, p, C) \in S
    BY <1>2, <1>3, GraftKeeps
  <1>5. ~Exists(U, p) => RemoveAll(T, p) \in S
    BY <1>3, RemoveKeeps
  <1>6. M \in S
    BY MergePackageKeeps
  <1>7. \A X \in S : Ok(X) \in Results(S) /\ Failed(X) \in Results(S)
    BY ResultTypes
  <1>8. ResourceMergePackage(T, U, O, p, flag) \in
          {Failed(T), Ok(T), Ok(M)} \cup (IF Exists(T, p) THEN {} ELSE {Ok(Graft(T, p, C))})
                                    \cup (IF Exists(U, p) THEN {} ELSE {Ok(RemoveAll(T, p))})
    <2> HIDE DEF C, M
    <2> QED BY DEF ResourceMergePackage, C, M
  <1> HIDE DEF S, flag, C, M
  <1>9. ResourceMergePackage(T, U, O, p, flag) \in Results(S)
    BY <1>4, <1>5, <1>6, <1>7, <1>8 DEF S
  <1> QED BY <1>9 DEF S, flag
(* The paths of a set, in order: parents first.                             *)
LEMMA SortedIs ==
  ASSUME NEW S
  PROVE  /\ Sorted(S) \in Seq(Paths) /\ IsInjective(Sorted(S))
         /\ \A i, j \in DOMAIN Sorted(S) : IsPrefix(Sorted(S)[i], Sorted(S)[j]) => i <= j
         /\ \A x : x \in ToSet(Sorted(S)) <=> x \in Paths /\ x \in S
  <1>1. Order \in Seq(Paths) /\ IsInjective(Order) /\ ToSet(Order) = Paths
    <2>1. Order \in Seq(Seq(STRING)) /\ IsInjective(Order)
      BY TreeAssumption
    <2>2. ToSet(Order) = Paths
      BY DEF Paths
    <2>3. \A i \in 1 .. Len(Order) : Order[i] \in Paths
      BY <2>1, <2>2 DEF ToSet
    <2>4. Order \in Seq(Paths)
      <3>1. Len(Order) \in Nat /\ Order = [i \in 1 .. Len(Order) |-> Order[i]]
        BY <2>1
      <3>2. Order \in [1 .. Len(Order) -> Paths]
        BY <2>3, <3>1
      <3> QED BY <3>1, <3>2, SeqDef
    <2> QED BY <2>1, <2>2, <2>4
  <1> DEFINE v == Sorted(S)
  <1>2. /\ v \in Seq(Paths) /\ IsInjective(v) /\ InOrder(v, Order, Len(Order))
        /\ \A x : x \in ToSet(v) <=> x \in Paths /\ x \in S
    BY <1>1, OnlyIs DEF Sorted
  <1> HIDE DEF v
  <1>3. ASSUME NEW i \in DOMAIN v, NEW j \in DOMAIN v, IsPrefix(v[i], v[j]) PROVE i <= j
    <2> SUFFICES ASSUME j < i PROVE FALSE
      BY <1>2
    <2>1. PICK a, b \in 1 .. Len(Order) : a < b /\ v[j] = Order[a] /\ v[i] = Order[b]
      BY <1>2 DEF InOrder
    <2>2. a \in DOMAIN Order /\ b \in DOMAIN Order /\ ~(b <= a)
      BY <1>1, <2>1
    <2> QED BY <1>3, <2>1, <2>2, TreeAssumption
  <1> QED BY <1>2, <1>3 DEF v

(* What ForEach goes through, when steps of H are done until one fails.     *)
Chain(f, S, a, H, n) ==
  /\ f \in [0 .. n -> Results(S)]
  /\ \A i \in 0 .. n : f[i] = IF i = 0 THEN a ELSE IF f[i - 1].err THEN f[i - 1] ELSE H[i][f[i - 1].tree]

(* A loop that stops at the first error has a result.                       *)
LEMMA ChainExists ==
  ASSUME NEW S, NEW n \in Nat, NEW a \in Results(S), NEW H \in [1 .. n -> [S -> Results(S)]]
  PROVE  \E f : Chain(f, S, a, H, n)
  <1> DEFINE V == Results(S)
             G == [i \in 1 .. n |-> [v \in V |-> IF v.err THEN v ELSE H[i][v.tree]]]
  <1>1. \A v \in V : v.tree \in S /\ v.err \in BOOLEAN
    BY ResultTypes
  <1>2. a \in V /\ H \in [1 .. n -> [S -> V]]
    OBVIOUS
  <1> HIDE DEF V
  <1>3. G \in [1 .. n -> [V -> V]]
    <2>1. ASSUME NEW i \in 1 .. n, NEW v \in V PROVE (IF v.err THEN v ELSE H[i][v.tree]) \in V
      BY <1>1, <1>2
    <2> QED BY <2>1
  <1>4. \A i \in 1 .. n : \A v \in V : G[i][v] = IF v.err THEN v ELSE H[i][v.tree]
    OBVIOUS
  <1> HIDE DEF G
  <1>5. PICK f : Iterates(f, V, a, G, n)
    BY <1>2, <1>3, Iterated, Zenon
  <1>6. f \in [0 .. n -> V] /\ f[0] = a /\ \A i \in 1 .. n : f[i] = G[i][f[i - 1]]
    BY <1>5 DEF Iterates
  <1>7. ASSUME NEW i \in 0 .. n, i # 0
        PROVE  f[i] = IF f[i - 1].err THEN f[i - 1] ELSE H[i][f[i - 1].tree]
    <2>1. i \in 1 .. n /\ i - 1 \in 0 .. n
      BY <1>7
    <2> QED BY <1>4, <1>6, <2>1
  <1>8. Chain(f, S, a, H, n)
    BY <1>6, <1>7 DEF Chain, V
  <1> QED BY <1>8

(* The packages that resource-merge comes to, and what it makes of them.    *)
MergedPackages(L, U, O) == Sorted(UNION {Subpackages(T, "local", TRUE) : T \in {L, U, O}})
Merges(f, L, U, O, isRoot) ==
  LET ps == MergedPackages(L, U, O)
      Step(T, p) == ResourceMergePackage(T, U, O, p, isRoot /\ p = <<>>)
  IN  /\ f[0] = Step(L, <<>>)
      /\ \A i \in 1 .. Len(ps) :
           f[i] = IF f[i - 1].err THEN f[i - 1] ELSE Step(f[i - 1].tree, ps[i])

(* It comes to one after the other, until one fails.                        *)
LEMMA ResourceMergeSteps ==
  ASSUME NEW isRoot \in BOOLEAN, NEW S, NEW L \in S, NEW U, NEW O,
         \A T \in S, p \in Paths : ResourceMergePackage(T, U, O, p, isRoot /\ p = <<>>) \in Results(S)
  PROVE  LET n == Len(MergedPackages(L, U, O))
         IN  \/ ResourceMerge(L, U, O, isRoot) = Ok(L)
             \/ \E f \in [0 .. n -> Results(S)] :
                  Merges(f, L, U, O, isRoot) /\ ResourceMerge(L, U, O, isRoot) = f[n]
  <1> DEFINE ps == MergedPackages(L, U, O)
             n == Len(ps)
             Step(T, p) == ResourceMergePackage(T, U, O, p, isRoot /\ p = <<>>)
             a == Step(L, <<>>)
             H == [i \in 1 .. n |-> [T \in S |-> Step(T, ps[i])]]
             Goes(f) == f = [i \in 0 .. n |->
                               IF i = 0 THEN a
                               ELSE IF f[i - 1].err THEN f[i - 1] ELSE Step(f[i - 1].tree, ps[i])]
             done == CHOOSE f : Goes(f)
  <1>1. n \in Nat /\ \A i \in 1 .. n : ps[i] \in Paths
    <2>1. ps \in Seq(Paths)
      BY SortedIs DEF MergedPackages
    <2> HIDE DEF ps
    <2> QED BY <2>1
  <1>2. (\A v \in Results(S) : v.tree \in S /\ v.err \in BOOLEAN) /\ \A T \in S : Ok(T) \in Results(S)
    BY ResultTypes
  <1>3. \A T \in S, p \in Paths : Step(T, p) \in Results(S)
    OBVIOUS
  <1>4. ResourceMerge(L, U, O, isRoot) \in {Ok(L), done[n]}
    BY DEF ResourceMerge, ForEach, MergedPackages
  <1> HIDE DEF Step, ps
  <1>5. a \in Results(S) /\ H \in [1 .. n -> [S -> Results(S)]]
    BY <1>1, <1>3, RootPath
  <1>6. \A i \in 1 .. n : \A T \in S : H[i][T] = Step(T, ps[i])
    OBVIOUS
  <1> HIDE DEF n, a, H
  <1>7. \E f : Goes(f)
    <2>1. PICK f : Chain(f, S, a, H, n)
      BY <1>1, <1>5, ChainExists, Zenon
    <2>2. f = [i \in 0 .. n |-> f[i]] /\ \A i \in 0 .. n : f[i] \in Results(S)
      BY <2>1 DEF Chain
    <2>3. ASSUME NEW i \in 0 .. n
          PROVE  f[i] = IF i = 0 THEN a ELSE IF f[i - 1].err THEN f[i - 1] ELSE Step(f[i - 1].tree, ps[i])
      <3>1. i # 0 => i \in 1 .. n /\ i - 1 \in 0 .. n
        BY <1>1
      <3>2. f[i] = IF i = 0 THEN a ELSE IF f[i - 1].err THEN f[i - 1] ELSE H[i][f[i - 1].tree]
        BY <2>1 DEF Chain
      <3> QED BY <1>2, <1>6, <2>2, <3>1, <3>2
    <2>4. Goes(f)
      BY <2>2, <2>3
    <2> QED BY <2>4
  <1>8. Goes(done)
    <2> HIDE DEF Goes
    <2> QED BY <1>7
  <1> HIDE DEF done
  <1>9. \A i \in 0 .. n : done[i] = IF i = 0 THEN a ELSE IF done[i - 1].err THEN done[i - 1]
                                                      ELSE Step(done[i - 1].tree, ps[i])
    BY <1>8, Zenon
  <1>10. done = [i \in 0 .. n |-> done[i]]
    <2> DEFINE Entry(f, i) == IF i = 0 THEN a ELSE IF f[i - 1].err THEN f[i - 1] ELSE Step(f[i - 1].tree, ps[i])
    <2>1. done = [i \in 0 .. n |-> Entry(done, i)]
      BY <1>8
    <2> HIDE DEF Entry
    <2> QED BY <2>1
  <1>11. ASSUME NEW i \in 1 .. n
         PROVE  /\ done[i] = IF done[i - 1].err THEN done[i - 1] ELSE Step(done[i - 1].tree, ps[i])
                /\ done[i - 1] \in Results(S) => done[i] \in Results(S)
    <2>1. i \in 0 .. n /\ i # 0 /\ ps[i] \in Paths
      BY <1>1
    <2> QED BY <1>2, <1>3, <1>9, <2>1
  <1>12. \A i \in 0 .. n : done[i] \in Results(S)
    <2> DEFINE N == {i \in Nat : i <= n => done[i] \in Results(S)}
    <2>1. 0 \in N
      BY <1>1, <1>5, <1>9
    <2>2. ASSUME NEW i \in Nat, i \in N PROVE i + 1 \in N
      <3> SUFFICES ASSUME i + 1 <= n PROVE done[i + 1] \in Results(S)
        OBVIOUS
      <3>1. i + 1 \in 1 .. n /\ i + 1 - 1 = i /\ done[i] \in Results(S)
        BY <1>1, <2>2
      <3>2. done[i + 1 - 1] \in Results(S)
        BY <3>1
      <3> QED BY <1>11, <3>1, <3>2
    <2> HIDE DEF N
    <2>3. Nat \subseteq N
      BY <2>1, <2>2, NatFrom
    <2> QED BY <1>1, <2>3 DEF N
  <1>13. done \in [0 .. n -> Results(S)] /\ done[0] = a
    BY <1>1, <1>9, <1>10, <1>12
  <1>14. Merges(done, L, U, O, isRoot)
    BY <1>11, <1>13 DEF Merges, ps, n, a, Step
  <1> QED BY <1>4, <1>13, <1>14 DEF n, ps

(* resource-merge.                                                          *)
LEMMA ResourceMergeKeeps ==
  ASSUME NEW isRoot \in BOOLEAN, NEW k, NEW V, NEW U \in Trees, NEW L \in Kept(isRoot, k, V, U),
         NEW O \in Trees
  PROVE  ResourceMerge(L, U, O, isRoot) \in Results(Kept(isRoot, k, V, U))
  <1> DEFINE S == Kept(isRoot, k, V, U)
             n == Len(MergedPackages(L, U, O))
  <1>1. \A T \in S, p \in Paths : ResourceMergePackage(T, U, O, p, isRoot /\ p = <<>>) \in Results(S)
    BY ResourceMergePackageKeeps
  <1>2. Ok(L) \in Results(S)
    BY ResultTypes
  <1>3. n \in Nat
    BY SortedIs DEF MergedPackages
  <1> HIDE DEF S
  <1>4. \/ ResourceMerge(L, U, O, isRoot) = Ok(L)
        \/ \E f \in [0 .. n -> Results(S)] : ResourceMerge(L, U, O, isRoot) = f[n]
    <2>1. L \in S
      BY DEF S
    <2> QED BY <1>1, <2>1, ResourceMergeSteps
  <1> HIDE DEF n
  <1> QED BY <1>2, <1>3, <1>4 DEF S

(* force-delete-replace of one package, as Replace has it.                  *)
ReplacePackage(T, U, p, root) ==
  IF Exists(U, p)
  THEN Ok(Graft(T, p, CopyPackage(At(U, p), RemovePackageContent(At(T, p), ~root), ~root, "none")))
  ELSE Ok(RemoveAll(T, p))

LEMMA ReplacePackageKeeps ==
  ASSUME NEW isRoot \in BOOLEAN, NEW k, NEW V, NEW U \in Trees, NEW T \in Kept(isRoot, k, V, U),
         NEW p \in Paths
  PROVE  ReplacePackage(T, U, p, isRoot /\ p = <<>>) \in Results(Kept(isRoot, k, V, U))
  <1> DEFINE S == Kept(isRoot, k, V, U)
             Emptied == RemovePackageContent(At(T, p), ~(isRoot /\ p = <<>>))
             Copied == CopyPackage(At(U, p), Emptied, ~(isRoot /\ p = <<>>), "none")
  <1>1. T \in Trees /\ At(T, p) \in Trees /\ At(U, p) \in Trees /\ NoTree \in Trees
        /\ At(T, p)[<<>>] = T[p]
    BY KeptTrees, AtType, EmptyTypes
  <1> DEFINE flag == ~(isRoot /\ p = <<>>)
  <1>7. flag \in BOOLEAN /\ (isRoot /\ p = <<>> => ~flag) /\ Emptied = RemovePackageContent(At(T, p), flag)
        /\ Copied = CopyPackage(At(U, p), Emptied, flag, "none")
    OBVIOUS
  <1> HIDE DEF flag, Emptied, Copied
  <1>2. /\ Emptied \in Trees
        /\ isRoot /\ p = <<>> => Emptied[<<>>].kptfile = T[<<>>].kptfile
        /\ \A q \in Paths : Emptied[q].kptfile \in {None, At(T, p)[q].kptfile}
    <2>1. /\ RemovePackageContent(At(T, p), flag) \in Trees
          /\ ~flag => RemovePackageContent(At(T, p), flag)[<<>>].kptfile = At(T, p)[<<>>].kptfile
          /\ \A q \in Paths : RemovePackageContent(At(T, p), flag)[q].kptfile \in {None, At(T, p)[q].kptfile}
      BY <1>1, <1>7, RemovePackageContentType
    <2> QED BY <1>1, <1>7, <2>1
  <1>3. /\ Copied \in Trees
        /\ isRoot /\ p = <<>> => Copied[<<>>].kptfile = Emptied[<<>>].kptfile
    BY <1>1, <1>2, <1>7, CopyPackageType
  <1>4. isRoot /\ p = <<>> => FollowIn(Copied, k)
    <2>1. isRoot => FollowIn(T, k)
      BY KeptTrees
    <2> QED BY <1>2, <1>3, <2>1 DEF Follow, FollowIn
  <1>8. From(Copied, At(T, p), At(U, p))
    <2>1. From(Copied, Emptied, At(U, p))
      BY <1>1, <1>2, <1>7, FromCopy
    <2>2. From(Emptied, At(T, p), At(U, p))
      BY <1>2, FromLess
    <2> QED BY <2>1, <2>2, FromBoth
  <1>5. Graft(T, p, Copied) \in S
    BY <1>3, <1>4, <1>8, GraftKeeps
  <1>6. ~Exists(U, p) => RemoveAll(T, p) \in S
    BY ExistsTop, RemoveKeeps
  <1>9. Ok(Graft(T, p, Copied)) \in Results(S) /\ (~Exists(U, p) => Ok(RemoveAll(T, p)) \in Results(S))
    <2> HIDE DEF S
    <2> QED BY <1>5, <1>6, ResultTypes
  <1>10. ReplacePackage(T, U, p, isRoot /\ p = <<>>) =
           IF Exists(U, p) THEN Ok(Graft(T, p, Copied)) ELSE Ok(RemoveAll(T, p))
    BY DEF ReplacePackage, Copied, Emptied
  <1> HIDE DEF S
  <1> QED BY <1>9, <1>10 DEF S

(* The packages that Replace comes to, and what it makes of them.           *)
ReplacedPackages(T0, U) == Sorted(Subpackages(T0, "local", TRUE) \cup Subpackages(U, "local", TRUE))
Replaces(f, T0, U, isRoot) ==
  LET ps == ReplacedPackages(T0, U)
      Step(T, p) == ReplacePackage(T, U, p, isRoot /\ p = <<>>)
  IN  /\ f[0] = Step(T0, <<>>)
      /\ \A i \in 1 .. Len(ps) :
           f[i] = IF f[i - 1].err THEN f[i - 1] ELSE Step(f[i - 1].tree, ps[i])

(* Trees of S stay in S.                                                    *)
ReplaceStays(S, U, isRoot) ==
  \A T \in S, p \in Paths : ReplacePackage(T, U, p, isRoot /\ p = <<>>) \in Results(S)

(* It comes to one after the other.                                         *)
ReplaceComes(S, L, U, O, T0, isRoot) ==
  \E f \in [0 .. Len(ReplacedPackages(T0, U)) -> Results(S)] :
    Replaces(f, T0, U, isRoot) /\ Replace(L, U, O, isRoot) = f[Len(ReplacedPackages(T0, U))]
LEMMA ReplaceSteps ==
  ASSUME NEW isRoot \in BOOLEAN, NEW S, NEW L, NEW U, NEW O,
         NEW T0 \in S, T0 = UpdateKptfile(L, U, O, TRUE),
         ReplaceStays(S, U, isRoot)
  PROVE  ReplaceComes(S, L, U, O, T0, isRoot)
  <1> DEFINE ps == ReplacedPackages(T0, U)
             n == Len(ps)
             Step(T, p) == ReplacePackage(T, U, p, isRoot /\ p = <<>>)
             a == Step(T0, <<>>)
             H == [i \in 1 .. n |-> [T \in S |-> Step(T, ps[i])]]
             Goes(f) == f = [i \in 0 .. n |->
                               IF i = 0 THEN a
                               ELSE IF f[i - 1].err THEN f[i - 1] ELSE Step(f[i - 1].tree, ps[i])]
             done == CHOOSE f : Goes(f)
  <1>1. n \in Nat /\ \A i \in 1 .. n : ps[i] \in Paths
    <2>1. ps \in Seq(Paths)
      BY SortedIs DEF ReplacedPackages
    <2> HIDE DEF ps
    <2> QED BY <2>1
  <1>2. (\A v \in Results(S) : v.tree \in S /\ v.err \in BOOLEAN) /\ \A T \in S : Ok(T) \in Results(S)
    BY ResultTypes
  <1>3. T0 \in S /\ \A T \in S, p \in Paths : Step(T, p) \in Results(S)
    BY DEF ReplaceStays
  <1>5. Replace(L, U, O, isRoot) = done[n]
    BY DEF Replace, ForEach, ReplacedPackages, ReplacePackage
  <1> HIDE DEF Step, ps
  <1>6. a \in Results(S) /\ H \in [1 .. n -> [S -> Results(S)]]
    BY <1>1, <1>3, RootPath
  <1>7. \A i \in 1 .. n : \A T \in S : H[i][T] = Step(T, ps[i])
    OBVIOUS
  <1> HIDE DEF n, a, H
  <1>8. \E f : Goes(f)
    <2>1. PICK f : Chain(f, S, a, H, n)
      BY <1>1, <1>6, ChainExists, Zenon
    <2>2. f = [i \in 0 .. n |-> f[i]] /\ \A i \in 0 .. n : f[i] \in Results(S)
      BY <2>1 DEF Chain
    <2>3. ASSUME NEW i \in 0 .. n
          PROVE  f[i] = IF i = 0 THEN a ELSE IF f[i - 1].err THEN f[i - 1] ELSE Step(f[i - 1].tree, ps[i])
      <3>1. i # 0 => i \in 1 .. n /\ i - 1 \in 0 .. n
        BY <1>1
      <3>2. f[i] = IF i = 0 THEN a ELSE IF f[i - 1].err THEN f[i - 1] ELSE H[i][f[i - 1].tree]
        BY <2>1 DEF Chain
      <3> QED BY <1>2, <1>7, <2>2, <3>1, <3>2
    <2>4. Goes(f)
      BY <2>2, <2>3
    <2> QED BY <2>4
  <1>9. Goes(done)
    <2> HIDE DEF Goes
    <2> QED BY <1>8
  <1> HIDE DEF done
  <1>10. \A i \in 0 .. n : done[i] = IF i = 0 THEN a ELSE IF done[i - 1].err THEN done[i - 1]
                                                       ELSE Step(done[i - 1].tree, ps[i])
    BY <1>9, Zenon
  <1>11. done = [i \in 0 .. n |-> done[i]]
    <2> DEFINE Entry(f, i) == IF i = 0 THEN a ELSE IF f[i - 1].err THEN f[i - 1] ELSE Step(f[i - 1].tree, ps[i])
    <2>1. done = [i \in 0 .. n |-> Entry(done, i)]
      BY <1>9
    <2> HIDE DEF Entry
    <2> QED BY <2>1
  <1>12. ASSUME NEW i \in 1 .. n
         PROVE  /\ done[i] = IF done[i - 1].err THEN done[i - 1] ELSE Step(done[i - 1].tree, ps[i])
                /\ done[i - 1] \in Results(S) => done[i] \in Results(S)
    <2>1. i \in 0 .. n /\ i # 0 /\ ps[i] \in Paths
      BY <1>1
    <2> QED BY <1>2, <1>3, <1>10, <2>1
  <1>13. \A i \in 0 .. n : done[i] \in Results(S)
    <2> DEFINE N == {i \in Nat : i <= n => done[i] \in Results(S)}
    <2>1. 0 \in N
      BY <1>1, <1>6, <1>10
    <2>2. ASSUME NEW i \in Nat, i \in N PROVE i + 1 \in N
      <3> SUFFICES ASSUME i + 1 <= n PROVE done[i + 1] \in Results(S)
        OBVIOUS
      <3>1. i + 1 \in 1 .. n /\ i + 1 - 1 = i /\ done[i] \in Results(S)
        BY <1>1, <2>2
      <3>2. done[i + 1 - 1] \in Results(S)
        BY <3>1
      <3> QED BY <1>12, <3>1, <3>2
    <2> HIDE DEF N
    <2>3. Nat \subseteq N
      BY <2>1, <2>2, NatFrom
    <2> QED BY <1>1, <2>3 DEF N
  <1>14. done \in [0 .. n -> Results(S)] /\ done[0] = a
    BY <1>1, <1>10, <1>11, <1>13
  <1>15. Replaces(done, T0, U, isRoot)
    BY <1>12, <1>14 DEF Replaces, ps, n, a, Step
  <1> QED BY <1>5, <1>14, <1>15 DEF n, ps, ReplaceComes

(* force-delete-replace, which fast-forward ends in.                        *)
LEMMA ReplaceKeeps ==
  ASSUME NEW isRoot \in BOOLEAN, NEW k, NEW V, NEW U \in Trees, NEW L \in Kept(isRoot, k, V, U),
         NEW O \in Trees, isRoot => Kf(U).up \in k \cup {None}
  PROVE  /\ UpdateKptfile(L, U, O, TRUE) \in Kept(isRoot, k, V, U)
         /\ Replace(L, U, O, isRoot) \in Results(Kept(isRoot, k, V, U))
  <1> DEFINE S == Kept(isRoot, k, V, U)
             T0 == UpdateKptfile(L, U, O, TRUE)
             n == Len(ReplacedPackages(T0, U))
  <1>1. T0 \in S
    <2>1. L \in Trees /\ (isRoot => Kf(L).up \in k) /\ From(L, V, U)
      BY KeptTrees
    <2>2. Follow(T0, IF TRUE /\ Kf(U).up # None THEN Kf(U).up ELSE Kf(L).up)
      BY <2>1, UpdateKptfileType
    <2>4. From(T0, L, U)
      BY <2>1, FromKptfile
    <2> HIDE DEF T0
    <2>3. T0 \in Trees /\ (isRoot => FollowIn(T0, k)) /\ From(T0, V, U)
      BY <2>1, <2>2, <2>4, FromBoth DEF Follow, FollowIn
    <2> QED BY <2>3 DEF Kept
  <1>2. \A T \in S, p \in Paths : ReplacePackage(T, U, p, isRoot /\ p = <<>>) \in Results(S)
    BY ReplacePackageKeeps
  <1>3. n \in Nat
    BY SortedIs DEF ReplacedPackages
  <1> HIDE DEF S
  <1>4. \E f \in [0 .. n -> Results(S)] :
          Replaces(f, T0, U, isRoot) /\ Replace(L, U, O, isRoot) = f[n]
    <2> SUFFICES ReplaceComes(S, L, U, O, T0, isRoot)
      BY DEF ReplaceComes
    <2>1. T0 = UpdateKptfile(L, U, O, TRUE)
      OBVIOUS
    <2> HIDE DEF T0
    <2>2. ReplaceStays(S, U, isRoot)
      BY <1>2 DEF ReplaceStays
    <2> QED BY <1>1, <2>1, <2>2, ReplaceSteps
  <1> HIDE DEF n, T0
  <1>5. Replace(L, U, O, isRoot) \in Results(S)
    BY <1>3, <1>4
  <1> QED BY <1>1, <1>5 DEF S, T0

(* copy-merge.                                                              *)
LEMMA CopyMergeKeeps ==
  ASSUME NEW isRoot \in BOOLEAN, NEW k, NEW V, NEW U \in Trees, NEW L \in Kept(isRoot, k, V, U),
         NEW O \in Trees, isRoot => Kf(U).up \in k \cup {None}
  PROVE  CopyMerge(L, U, O, isRoot) \in Results(Kept(isRoot, k, V, U))
  <1> DEFINE T0 == UpdateKptfile(L, U, O, TRUE)
             T1 == CopyPackage(U, T0, isRoot, "all")
             T2 == RemoveStaleItems(O, U, T1)
  <1>1. L \in Trees /\ (isRoot => Kf(L).up \in k) /\ From(L, V, U)
    BY KeptTrees
  <1>2. Follow(T0, IF TRUE /\ Kf(U).up # None THEN Kf(U).up ELSE Kf(L).up) /\ From(T0, L, U)
    BY <1>1, UpdateKptfileType, FromKptfile
  <1>3. CopyMerge(L, U, O, isRoot) = Ok(T2)
    BY DEF CopyMerge
  <1> HIDE DEF T0
  <1>4. T0 \in Trees /\ T0[<<>>].kptfile # None /\ (isRoot => T0[<<>>].kptfile.up \in k)
    BY <1>1, <1>2 DEF Follow, FollowIn
  <1>5. T1 \in Trees /\ T1[<<>>].kptfile = T0[<<>>].kptfile /\ From(T1, T0, U)
    BY <1>4, CopyPackageType, FromCopy
  <1> HIDE DEF T1
  <1>6. /\ T2 \in Trees /\ T2[<<>>].kptfile = T1[<<>>].kptfile
        /\ \A q \in Paths : T2[q].kptfile \in {None, T1[q].kptfile}
    BY <1>5, RemoveStaleItemsType
  <1> HIDE DEF T2
  <1>7. From(T2, V, U)
    BY <1>1, <1>2, <1>5, <1>6, FromLess, FromBoth
  <1>8. T2 \in Kept(isRoot, k, V, U)
    BY <1>4, <1>5, <1>6, <1>7 DEF Kept, Follow, FollowIn
  <1> QED BY <1>3, <1>8, ResultTypes

(* All strategies.                                                          *)
LEMMA UpdateByStrategyKeeps ==
  ASSUME NEW isRoot \in BOOLEAN, NEW k, NEW V, NEW U \in Trees, NEW L \in Kept(isRoot, k, V, U),
         NEW O \in Trees, isRoot => Kf(U).up \in k \cup {None}
  PROVE  UpdateByStrategy(L, U, O, isRoot) \in Results(Kept(isRoot, k, V, U))
  <1> DEFINE S == Kept(isRoot, k, V, U)
             T0 == UpdateKptfile(L, U, O, TRUE)
             R == Update(Kf(L).up.strat, L, U, O, isRoot)
  <1>1. L \in Trees /\ Kf(L) \in Kptfiles /\ (isRoot => Kf(L).up \in k) /\ From(L, V, U)
    BY KeptTrees, KfType
  <1>2. Ok(L) \in Results(S) /\ Failed(L) \in Results(S)
    BY ResultTypes
  <1>3. T0 \in S
    <2>1. Follow(T0, IF TRUE /\ Kf(U).up # None THEN Kf(U).up ELSE Kf(L).up)
      BY <1>1, UpdateKptfileType
    <2>2. From(T0, L, U)
      BY <1>1, FromKptfile
    <2> HIDE DEF T0
    <2>3. From(T0, V, U)
      BY <1>1, <2>2, FromBoth
    <2> QED BY <1>1, <2>1, <2>3 DEF Kept, Follow, FollowIn
  <1>4. Kf(L).up # None => R \in Results(S)
    <2> SUFFICES ASSUME Kf(L).up # None PROVE R \in Results(S)
      OBVIOUS
    <2>1. Kf(L).up.strat \in {"resource-merge", "fast-forward", "force-delete-replace", "copy-merge"}
      BY <1>1, TreeAssumption DEF Kptfiles, Upstreams
    <2>2. /\ ResourceMerge(L, U, O, isRoot) \in Results(S) /\ Replace(L, U, O, isRoot) \in Results(S)
          /\ CopyMerge(L, U, O, isRoot) \in Results(S)
      BY ResourceMergeKeeps, ReplaceKeeps, CopyMergeKeeps
    <2>3. FastForward(L, U, O, isRoot) \in Results(S)
      BY <1>2, <2>2 DEF FastForward
    <2> HIDE DEF S
    <2> QED BY <2>1, <2>2, <2>3 DEF Update
  <1>5. Ok(T0) \in Results(S)
    BY <1>3, ResultTypes
  <1>6. UpdateByStrategy(L, U, O, isRoot) \in
          {Ok(T0), Failed(L)} \cup (IF Kf(L).up = None THEN {} ELSE {R})
    <2> HIDE DEF T0, R
    <2> QED BY DEF UpdateByStrategy, T0, R
  <1> HIDE DEF S, T0, R
  <1>7. UpdateByStrategy(L, U, O, isRoot) \in Results(S)
    BY <1>2, <1>4, <1>5, <1>6
  <1> QED BY <1>7 DEF S

(* An update of a package at p of a package that follows k.                 *)
LEMMA UpdatePackageKeeps ==
  ASSUME NEW k, NEW L \in Trees, FollowIn(L, k), NEW U \in Trees, NEW O \in Trees, NEW p \in Paths,
         Kf(U).up \in k \cup {None}
  PROVE  UpdatePackage(L, U, O, p) \in Results(Kept(TRUE, k, L, U))
  <1> DEFINE S == Kept(TRUE, k, L, U)
             isRoot == p = <<>>
             l == At(L, p)
             u == At(U, p)
             o == At(O, p)
             C == CopyPackage(u, l, ~isRoot, "none")
             M == UpdateByStrategy(l, u, o, isRoot)
             W == [M EXCEPT !.tree = Graft(L, p, M.tree)]
  <1>1. /\ L \in S /\ TRUE \in BOOLEAN
        /\ l \in Trees /\ u \in Trees /\ o \in Trees /\ NoTree \in Trees /\ isRoot \in BOOLEAN
    <2>1. From(L, L, U)
      BY FromLess
    <2>2. L \in S
      BY <2>1 DEF Kept
    <2>3. l \in Trees /\ u \in Trees /\ o \in Trees
      BY AtType
    <2>4. isRoot \in BOOLEAN
      OBVIOUS
    <2> HIDE DEF S, l, u, o, isRoot
    <2> QED BY <2>2, <2>3, <2>4, EmptyTypes
  <1>2. Ok(L) \in Results(S) /\ Failed(L) \in Results(S)
    BY <1>1, ResultTypes
  <1>3. IsPackageDir(L, <<>>)
    BY DEF IsPackageDir, Follow, FollowIn
  <1>4. ~isRoot => Ok(RemoveAll(L, p)) \in Results(S)
    <2> SUFFICES ASSUME ~isRoot PROVE RemoveAll(L, p) \in S
      BY ResultTypes
    <2> QED BY <1>1, RemoveKeeps
  <1>5. C \in Trees /\ From(C, l, u)
    <2> HIDE DEF l, u, isRoot
    <2>1. (~isRoot) \in BOOLEAN
      OBVIOUS
    <2> DEFINE flag == ~isRoot
    <2> HIDE DEF flag
    <2>2. CopyPackage(u, l, flag, "none") \in Trees /\ From(CopyPackage(u, l, flag, "none"), l, u)
      BY <1>1, <2>1, CopyPackageType, FromCopy DEF flag
    <2> QED BY <2>2 DEF flag
  <1>6. ~isRoot => Ok(Graft(L, p, C)) \in Results(S)
    <2> SUFFICES ASSUME ~isRoot PROVE Graft(L, p, C) \in S
      BY ResultTypes
    <2>1. TRUE /\ p = <<>> => FollowIn(C, k)
      OBVIOUS
    <2> HIDE DEF C
    <2> QED BY <1>1, <1>5, <2>1, GraftKeeps
  <1>7. l \in Kept(isRoot, k, l, u) /\ (isRoot => Kf(u).up \in k \cup {None})
    <2>1. isRoot => l = L /\ u = U
      BY AtType
    <2>2. From(l, l, u)
      BY FromLess
    <2> HIDE DEF l, u, isRoot
    <2> QED BY <1>1, <2>1, <2>2 DEF Kept
  <1>8. M \in Results(Kept(isRoot, k, l, u))
    <2> HIDE DEF l, u, o, isRoot
    <2> QED BY <1>1, <1>7, UpdateByStrategyKeeps
  <1> HIDE DEF M
  <1>9. M.tree \in Kept(isRoot, k, l, u) /\ M.err \in BOOLEAN /\ M = [tree |-> M.tree, err |-> M.err]
    BY <1>8 DEF Results
  <1>10. Graft(L, p, M.tree) \in S
    <2>1. M.tree \in Trees /\ (isRoot => FollowIn(M.tree, k)) /\ From(M.tree, l, u)
      <3> HIDE DEF l, u, isRoot
      <3> QED BY <1>1, <1>9, KeptTrees
    <2> QED BY <1>1, <2>1, GraftKeeps
  <1>11. W \in Results(S)
    <2>1. W = [tree |-> Graft(L, p, M.tree), err |-> M.err]
      BY <1>9
    <2> HIDE DEF W, S
    <2> QED BY <1>9, <1>10, <2>1 DEF Results
  <1> HIDE DEF W, C
  <1>12. UpdatePackage(L, U, O, p) \in
           {Ok(L), Failed(L), W} \cup (IF isRoot THEN {} ELSE {Ok(RemoveAll(L, p)), Ok(Graft(L, p, C))})
    BY <1>3 DEF UpdatePackage, M, W, C
  <1> HIDE DEF S, isRoot
  <1>13. UpdatePackage(L, U, O, p) \in Results(S)
    BY <1>2, <1>4, <1>6, <1>11, <1>12
  <1> QED BY <1>13 DEF S
-----------------------------------------------------------------------------
(* The packages that are next.                                              *)

(* Paths of a package, seen from the top.                                   *)
LEMMA Inside ==
  ASSUME NEW p \in Paths, NEW q \in Paths, p \o q \in Paths
  PROVE  /\ p \o q \in Below(p) /\ (q # <<>> => p \o q # p)
         /\ \A r \in Paths : IsPrefix(p \o r, p \o q) <=> IsPrefix(r, q)
  BY PathsBelow

(* Of some paths, one is as short as any.                                   *)
LEMMA Shortest ==
  ASSUME NEW S, S \subseteq Strings, S # {}
  PROVE  \E s \in S : \A t \in S : Len(s) <= Len(t)
  <1> DEFINE N == {Len(s) : s \in S}
             R == OpToRel(<, Nat)
  <1>1. N \subseteq Nat /\ N # {}
    <2>1. \A s \in S : Len(s) \in Nat
      BY DEF Strings
    <2> QED BY <2>1
  <1> HIDE DEF N
  <1>2. PICK n \in N : \A m \in N : ~(<<m, n>> \in R)
    <2> HIDE DEF R
    <2> QED BY <1>1, WFMin, NatLessThanWellFounded DEF R
  <1>3. ASSUME NEW m \in N PROVE n <= m
    <2>1. n \in Nat /\ m \in Nat
      BY <1>1
    <2>2. m < n => <<m, n>> \in R
      BY <2>1 DEF OpToRel
    <2> HIDE DEF R
    <2> QED BY <1>2, <2>1, <2>2
  <1> QED BY <1>2, <1>3 DEF N

Antichain(s) == \A i, j \in DOMAIN s : i # j => ~IsPrefix(s[i], s[j])

(* The packages just below p: each is in no other, and every package below  *)
(* p is one of them or inside one.                                          *)
LEMMA DirectSubpackagesIs ==
  ASSUME NEW T \in Trees, NEW p \in Paths
  PROVE  LET D == DirectSubpackages(T, p)
         IN  /\ D \in Seq(Paths) /\ IsInjective(D) /\ Antichain(D)
             /\ \A i \in DOMAIN D : D[i] \in Below(p) /\ D[i] # p /\ IsPackageDir(T, D[i])
             /\ \A q \in Below(p) : q # p /\ IsPackageDir(T, q) => \E i \in DOMAIN D : IsPrefix(D[i], q)
  <1> DEFINE A == At(T, p)
             found == {q \in Paths \ {<<>>} : IsPackageDir(A, q)}
             subs == Subpackages(A, "all", FALSE)
             ps == Sorted(subs)
             D == DirectSubpackages(T, p)
  <1>1. subs = {q \in found : \A r \in found : r # q => ~IsPrefix(r, q)}
    BY DEF Subpackages, Matches
  <1>2. ps \in Seq(Paths) /\ IsInjective(ps) /\ \A x : x \in ToSet(ps) <=> x \in Paths /\ x \in subs
    BY SortedIs
  <1>3. \A q \in found : q \in Paths /\ q # <<>> /\ p \o q \in Paths /\ IsPackageDir(T, p \o q)
    <2> SUFFICES ASSUME NEW q \in found PROVE p \o q \in Paths /\ IsPackageDir(T, p \o q)
      OBVIOUS
    <2>1. q \in Paths /\ A[q].kptfile # None
      BY DEF IsPackageDir
    <2>2. A[q] # NoDir
      BY <2>1 DEF NoDir
    <2>3. p \o q \in Paths /\ A[q] = T[p \o q]
      BY <2>1, <2>2, AtType
    <2> QED BY <2>1, <2>3 DEF IsPackageDir
  <1>4. D = [i \in 1 .. Len(ps) |-> p \o ps[i]]
    BY DEF DirectSubpackages, Prefixed
  <1> HIDE DEF found, subs, ps, D
  <1>5. Len(ps) \in Nat /\ DOMAIN ps = 1 .. Len(ps) /\ \A i \in 1 .. Len(ps) : ps[i] \in subs /\ ps[i] \in found
    BY <1>1, <1>2 DEF ToSet
  <1>6. DOMAIN D = 1 .. Len(ps) /\ \A i \in DOMAIN D : D[i] = p \o ps[i] /\ D[i] \in Paths /\ IsPackageDir(T, D[i])
    BY <1>3, <1>4, <1>5
  <1>7. \A i \in DOMAIN D : D[i] \in Below(p) /\ D[i] # p
    <2> SUFFICES ASSUME NEW i \in 1 .. Len(ps) PROVE p \o ps[i] \in Below(p) /\ p \o ps[i] # p
      BY <1>6
    <2>1. ps[i] \in Paths /\ ps[i] # <<>> /\ p \o ps[i] \in Paths
      BY <1>3, <1>5
    <2> DEFINE r == ps[i]
    <2> HIDE DEF r
    <2>2. r \in Paths /\ r # <<>> /\ p \o r \in Paths
      BY <2>1 DEF r
    <2>3. p \o r \in Below(p) /\ p \o r # p
      BY <2>2, Inside
    <2> QED BY <2>3 DEF r
  <1>8. D \in Seq(Paths)
    <2>1. D \in [1 .. Len(ps) -> Paths]
      BY <1>4, <1>6
    <2> QED BY <1>5, <2>1, SeqDef
  <1>9. Antichain(D)
    <2> SUFFICES ASSUME NEW i \in DOMAIN D, NEW j \in DOMAIN D, i # j PROVE ~IsPrefix(D[i], D[j])
      BY DEF Antichain
    <2>1. ps[i] \in found /\ ps[j] \in subs /\ ps[i] # ps[j]
      BY <1>2, <1>5, <1>6 DEF IsInjective
    <2>2. ~IsPrefix(ps[i], ps[j])
      BY <1>1, <2>1
    <2>3. ps[i] \in Paths /\ ps[j] \in Paths /\ p \o ps[i] \in Paths /\ p \o ps[j] \in Paths
      BY <1>3, <1>5, <1>6
    <2> DEFINE r == ps[i]
               t == ps[j]
    <2>4. r \in Paths /\ t \in Paths /\ p \o r \in Paths /\ p \o t \in Paths /\ ~IsPrefix(r, t)
      BY <2>2, <2>3
    <2>5. D[i] = p \o r /\ D[j] = p \o t
      BY <1>6
    <2> HIDE DEF r, t
    <2>6. ~IsPrefix(p \o r, p \o t)
      BY <2>4, Inside
    <2> QED BY <2>5, <2>6
  <1>10. IsInjective(D)
    <2> SUFFICES ASSUME NEW i \in DOMAIN D, NEW j \in DOMAIN D, D[i] = D[j], i # j PROVE FALSE
      BY DEF IsInjective
    <2>1. IsPrefix(D[i], D[j])
      BY <1>6, PathsAre, PrefixOrder
    <2> QED BY <1>9, <2>1 DEF Antichain
  <1>11. ASSUME NEW q \in Below(p), q # p, IsPackageDir(T, q)
         PROVE  \E i \in DOMAIN D : IsPrefix(D[i], q)
    <2> DEFINE r == Rest(p, q)
               S == {x \in found : IsPrefix(x, r)}
    <2>1. q \in Paths /\ r \in Paths /\ p \o r = q
      BY PathsBelow
    <2>2. r # <<>>
      BY <1>11, <2>1, PathsBelow
    <2>3. r \in found
      <3>1. A[r] = T[q]
        <4> HIDE DEF r
        <4>1. A[r] = T[p \o r]
          BY <2>1, AtType, ZenonT(30)
        <4> QED BY <2>1, <4>1
      <3> QED BY <1>11, <2>1, <2>2, <3>1 DEF found, IsPackageDir
    <2>4. S \subseteq Strings /\ r \in S
      BY <1>3, <2>1, <2>3, PathsAre, PrefixOrder
    <2> HIDE DEF S, r
    <2>5. PICK s \in S : \A t \in S : Len(s) <= Len(t)
      BY <2>4, Shortest
    <2>6. s \in found /\ IsPrefix(s, r) /\ s \in Paths
      BY <1>3 DEF S
    <2>7. ASSUME NEW x \in found, x # s, IsPrefix(x, s) PROVE FALSE
      <3>1. x \in Strings /\ s \in Strings /\ r \in Strings
        BY <1>3, <2>1, <2>6, PathsAre
      <3>2. x \in S
        BY <2>6, <2>7, <3>1, PrefixOrder DEF S
      <3>3. Len(s) <= Len(x) /\ Len(x) <= Len(s)
        BY <2>5, <2>7, <3>1, <3>2, PrefixOrder
      <3>4. Len(x) \in Nat /\ Len(s) \in Nat
        BY <3>1 DEF Strings
      <3> QED BY <2>7, <3>1, <3>3, <3>4, PrefixOrder
    <2>8. s \in subs
      BY <1>1, <2>6, <2>7
    <2>9. PICK i \in 1 .. Len(ps) : ps[i] = s
      BY <1>2, <1>5, <2>6, <2>8 DEF ToSet
    <2>10. D[i] = p \o s /\ i \in DOMAIN D
      BY <1>6, <2>9
    <2>11. p \o s \in Paths /\ IsPrefix(p \o s, p \o r)
      BY <1>3, <2>1, <2>6, PathsBelow
    <2> QED BY <2>1, <2>10, <2>11
  <1> QED BY <1>6, <1>7, <1>8, <1>9, <1>10, <1>11 DEF D

(* The remote packages that are next are paths.                             *)
LEMMA RemoteSubpackagesType ==
  ASSUME NEW T \in Trees, NEW rel \in Paths, top \in Paths, NewUpstream \in Trees, Origin \in Trees
  PROVE  RemoteSubpackages(T, rel) \in Seq(Paths)
  <1> DEFINE trees == {At(T, top), NewUpstream, Origin}
             subs == UNION {Subpackages(At(t, rel), "remote", FALSE) : t \in trees}
             ps == Sorted(subs)
  <1>1. \A t \in trees : t \in Trees
    BY AtType
  <1>2. \A r \in subs : rel \o r \in Paths
    <2> SUFFICES ASSUME NEW t \in trees, NEW r \in Subpackages(At(t, rel), "remote", FALSE)
                 PROVE  rel \o r \in Paths
      OBVIOUS
    <2>1. r \in Paths /\ At(t, rel)[r].kptfile # None
      BY SubpackagesBelow DEF IsPackageDir
    <2>2. At(t, rel)[r] # NoDir
      BY <2>1 DEF NoDir
    <2> QED BY <1>1, <2>1, <2>2, AtType
  <1>3. ps \in Seq(Paths) /\ \A x : x \in ToSet(ps) <=> x \in Paths /\ x \in subs
    BY SortedIs
  <1>4. RemoteSubpackages(T, rel) = [i \in 1 .. Len(ps) |-> rel \o ps[i]]
    BY DEF RemoteSubpackages, Prefixed
  <1> HIDE DEF subs, ps
  <1>5. Len(ps) \in Nat /\ \A i \in 1 .. Len(ps) : rel \o ps[i] \in Paths
    BY <1>2, <1>3 DEF ToSet
  <1>6. RemoteSubpackages(T, rel) \in [1 .. Len(ps) -> Paths]
    BY <1>4, <1>5
  <1> QED BY <1>5, <1>6, SeqDef

(* A stack without its last.                                                *)
LEMMA FrontIs ==
  ASSUME NEW X, NEW s \in Seq(X), s # <<>>
  PROVE  /\ Front(s) \in Seq(X) /\ Len(s) \in DOMAIN s /\ Last(s) = s[Len(s)] /\ Last(s) \in X
         /\ DOMAIN Front(s) = 1 .. Len(s) - 1
         /\ \A i \in DOMAIN Front(s) : i \in DOMAIN s /\ i # Len(s) /\ Front(s)[i] = s[i]
  <1>1. Len(s) \in Nat /\ Len(s) # 0 /\ DOMAIN s = 1 .. Len(s) /\ \A i \in 1 .. Len(s) : s[i] \in X
    BY EmptySeq
  <1>2. Front(s) = SubSeq(s, 1, Len(s) - 1)
    BY DEF Front
  <1>3. /\ SubSeq(s, 1, Len(s) - 1) \in Seq(X)
        /\ Len(SubSeq(s, 1, Len(s) - 1)) = IF 1 <= Len(s) - 1 THEN Len(s) - 1 - 1 + 1 ELSE 0
        /\ \A i \in 1 .. Len(s) - 1 - 1 + 1 : SubSeq(s, 1, Len(s) - 1)[i] = s[1 + i - 1]
    BY <1>1, SubSeqProperties
  <1> DEFINE f == SubSeq(s, 1, Len(s) - 1)
  <1>4. f \in Seq(X) /\ DOMAIN f = 1 .. Len(s) - 1
    BY <1>1, <1>3
  <1>5. ASSUME NEW i \in 1 .. Len(s) - 1 PROVE f[i] = s[i] /\ i \in 1 .. Len(s) /\ i # Len(s)
    <2> DEFINE n == Len(s)
    <2>3. n \in Nat /\ i \in 1 .. n - 1
      BY <1>1
    <2>4. n - 1 - 1 + 1 = n - 1 /\ i \in Nat
      BY <2>3
    <2>5. 1 + i - 1 = i /\ i \in 1 .. n /\ i # n /\ i \in 1 .. n - 1 - 1 + 1
      <3> HIDE DEF n
      <3> QED BY <2>3, <2>4
    <2>1. i \in 1 .. Len(s) - 1 - 1 + 1 /\ 1 + i - 1 = i /\ i \in 1 .. Len(s) /\ i # Len(s)
      BY <2>5
    <2> HIDE DEF f
    <2>2. \A j \in 1 .. Len(s) - 1 - 1 + 1 : f[j] = s[1 + j - 1]
      BY <1>3 DEF f
    <2> QED BY <2>1, <2>2
  <1> HIDE DEF f
  <1>6. Front(s) = f
    BY <1>2 DEF f
  <1>7. Last(s) = s[Len(s)] /\ Len(s) \in 1 .. Len(s)
    BY <1>1 DEF Last
  <1> QED BY <1>1, <1>4, <1>5, <1>6, <1>7

(* The elements of two lists one after the other.                           *)
LEMMA ConcatIs ==
  ASSUME NEW X, NEW s \in Seq(X), NEW t \in Seq(X)
  PROVE  /\ s \o t \in Seq(X)
         /\ \A i \in DOMAIN (s \o t) : \/ i \in DOMAIN s /\ (s \o t)[i] = s[i]
                                       \/ i - Len(s) \in DOMAIN t /\ (s \o t)[i] = t[i - Len(s)]
         /\ \A i \in DOMAIN s : i \in DOMAIN (s \o t) /\ (s \o t)[i] = s[i]
         /\ \A i \in DOMAIN t : Len(s) + i \in DOMAIN (s \o t) /\ (s \o t)[Len(s) + i] = t[i]
  <1> DEFINE c == s \o t
  <1>1. Len(s) \in Nat /\ DOMAIN s = 1 .. Len(s) /\ Len(t) \in Nat /\ DOMAIN t = 1 .. Len(t)
    OBVIOUS
  <1>2. /\ c \in Seq(X) /\ Len(c) = Len(s) + Len(t)
        /\ \A i \in 1 .. Len(s) + Len(t) : c[i] = IF i <= Len(s) THEN s[i] ELSE t[i - Len(s)]
    BY ConcatProperties
  <1> HIDE DEF c
  <1>3. DOMAIN c = 1 .. Len(s) + Len(t)
    BY <1>2
  <1>4. ASSUME NEW i \in DOMAIN c
        PROVE  \/ i \in DOMAIN s /\ c[i] = s[i]
               \/ i - Len(s) \in DOMAIN t /\ c[i] = t[i - Len(s)]
    BY <1>1, <1>2, <1>3
  <1>5. ASSUME NEW i \in DOMAIN s PROVE i \in DOMAIN c /\ c[i] = s[i]
    BY <1>1, <1>2, <1>3
  <1>6. ASSUME NEW i \in DOMAIN t PROVE Len(s) + i \in DOMAIN c /\ c[Len(s) + i] = t[i]
    <2>1. Len(s) + i \in 1 .. Len(s) + Len(t) /\ ~(Len(s) + i <= Len(s)) /\ Len(s) + i - Len(s) = i
      BY <1>1
    <2> QED BY <1>2, <1>3, <2>1
  <1> QED BY <1>2, <1>4, <1>5, <1>6 DEF c

(* Two lists of packages of which none is in another.                       *)
LEMMA AntichainConcat ==
  ASSUME NEW s \in Seq(Paths), NEW t \in Seq(Paths), Antichain(s), Antichain(t),
         \A i \in DOMAIN s : \A j \in DOMAIN t : ~IsPrefix(s[i], t[j]) /\ ~IsPrefix(t[j], s[i])
  PROVE  Antichain(s \o t)
  <1> DEFINE c == s \o t
  <1>1. \A i \in DOMAIN c : \/ i \in DOMAIN s /\ c[i] = s[i]
                            \/ i - Len(s) \in DOMAIN t /\ c[i] = t[i - Len(s)]
    BY ConcatIs
  <1>2. Len(s) \in Nat /\ DOMAIN c \subseteq Nat
    <2>1. c \in Seq(Paths)
      BY ConcatIs
    <2> HIDE DEF c
    <2> QED BY <2>1
  <1> HIDE DEF c
  <1>3. \A i, j \in DOMAIN c : i # j => ~IsPrefix(c[i], c[j])
    <2> SUFFICES ASSUME NEW i \in DOMAIN c, NEW j \in DOMAIN c, i # j PROVE ~IsPrefix(c[i], c[j])
      OBVIOUS
    <2>1. CASE i \in DOMAIN s /\ c[i] = s[i] /\ j \in DOMAIN s /\ c[j] = s[j]
      BY <2>1 DEF Antichain
    <2>2. CASE i \in DOMAIN s /\ c[i] = s[i] /\ j - Len(s) \in DOMAIN t /\ c[j] = t[j - Len(s)]
      BY <2>2
    <2>3. CASE i - Len(s) \in DOMAIN t /\ c[i] = t[i - Len(s)] /\ j \in DOMAIN s /\ c[j] = s[j]
      BY <2>3
    <2>4. CASE i - Len(s) \in DOMAIN t /\ c[i] = t[i - Len(s)] /\ j - Len(s) \in DOMAIN t /\ c[j] = t[j - Len(s)]
      <3>1. i - Len(s) # j - Len(s)
        BY <1>2
      <3> QED BY <2>4, <3>1 DEF Antichain
    <2> QED BY <1>1, <2>1, <2>2, <2>3, <2>4
  <1>4. Antichain(c)
    BY <1>3 DEF Antichain
  <1> QED BY <1>4 DEF c
-----------------------------------------------------------------------------
(* Every remote package is fetched at the version it asks for.              *)

Asked(p) == [src |-> Up(p).src, ref |-> Up(p).ref]
Current(p) == Up(p) # None /\ Settled(p) /\ Reached(<<>>, p) => AtLock(p)

TypeOK ==
  /\ history \in Histories /\ local \in Trees
  /\ pc \in {"start", "get", "idle", "fetch", "merge"}
  /\ pkgs \in Seq(Paths) /\ rels \in Seq(Paths) /\ top \in Paths
  /\ base \in Locks \cup {None} /\ \A x \in pending : x[1] \in Paths
  /\ pc \in {"fetch", "merge"} => cmd.up \in Upstreams
  /\ pc = "merge" => spec \in Upstreams

CurrentInv == pc \notin {"start", "get"} => \A p \in Paths : Current(p)

(* What is left of a get.                                                   *)
GetInv == pc = "get" =>
  \A p \in Paths : Up(p) # None =>
    \/ AtLock(p)
    \/ Lock(p) = None /\ \E i \in DOMAIN pkgs : IsPrefix(pkgs[i], p)

(* The packages that are next are remote, none is in another, and each is   *)
(* known to be unfinished.                                                  *)
StackInv == pc \in {"fetch", "merge"} =>
  /\ Antichain(pkgs)
  /\ \A i \in DOMAIN pkgs : Up(pkgs[i]) # None /\ <<pkgs[i], Git(Up(pkgs[i]))>> \in pending

(* What the Kptfile of the package that is updated may follow: the upstream *)
(* it is brought to, or the one that this one names.                        *)
Followed == {spec, Kf(NewUpstream).up} \ {None}

TopInv == pc = "merge" =>
  /\ Up(top) \in Followed /\ <<top, Git(spec)>> \in pending
  /\ \A i \in DOMAIN pkgs : ~IsPrefix(pkgs[i], top) /\ ~IsPrefix(top, pkgs[i])

IndInv == TypeOK /\ CurrentInv /\ GetInv /\ StackInv /\ TopInv

(* What upstream is to be like: packages that are vendored in it, with a    *)
(* lock, are of the version that they ask for, or of one that names what    *)
(* they ask for, as kpt itself leaves them (AtLock).                        *)
VendoredTruly ==
  \A h \in Histories, s \in Sources, v \in Versions : \A p \in Paths :
    LET k == Upstream(h, s, v)[p].kptfile
    IN  k # None /\ k.up # None /\ k.lock # None =>
          \/ k.lock = [src |-> k.up.src, ref |-> k.up.ref]
          \/ k.up = Kf(Upstream(h, k.lock.src, k.lock.ref)).up

(* The upstream and the lock of a package.                                  *)
LEMMA UpTypes ==
  ASSUME local \in Trees, NEW p \in Paths
  PROVE  /\ Up(p) \in Upstreams \cup {None} /\ Lock(p) \in Locks \cup {None}
         /\ Up(p) # None => /\ local[p].kptfile # None /\ local[p].kptfile \in Kptfiles
                            /\ Up(p) = local[p].kptfile.up /\ Lock(p) = local[p].kptfile.lock
  <1>1. local[p].kptfile \in Kptfiles \cup {None}
    BY TreeTypes
  <1> QED BY <1>1 DEF Up, Lock, IsPackageDir, Kptfiles

(* A package whose upstream and lock stay.                                  *)
LEMMA AtLockStays ==
  ASSUME NEW p, Up(p)' = Up(p), Lock(p)' = Lock(p), history' = history
  PROVE  AtLock(p)' <=> AtLock(p)
  BY DEF AtLock

(* A package whose ancestors, and itself, keep their Kptfiles.              *)
LEMMA CurrentStays ==
  ASSUME NEW p \in Paths, Current(p), Settled(p)' => Settled(p), history' = history,
         \A q \in Paths : IsPrefix(q, p) => local'[q].kptfile = local[q].kptfile
  PROVE  Current(p)'
  <1>1. IsPrefix(p, p)
    BY PathsAre, PrefixOrder
  <1>2. \A q \in Paths : IsPrefix(q, p) =>
          /\ Up(q)' = Up(q) /\ Lock(q)' = Lock(q)
          /\ IsPackageDir(local, q)' <=> IsPackageDir(local, q)
    BY DEF Up, Lock, IsPackageDir
  <1>3. Reached(<<>>, p)' => Reached(<<>>, p)
    <2>1. \A r \in Below(<<>>) : r \in Paths
      BY DEF Below
    <2> QED BY <1>2, <2>1 DEF Reached
  <1>4. Up(p)' = Up(p) /\ Lock(p)' = Lock(p)
    BY <1>1, <1>2
  <1>5. AtLock(p) => AtLock(p)'
    BY <1>4, AtLockStays
  <1> QED BY <1>3, <1>4, <1>5 DEF Current

(* A step that changes what is below t only: what is elsewhere stays        *)
(* current, and what is below t is not said to be while t is unfinished.    *)
LEMMA CurrentOutside ==
  ASSUME CurrentInv, pc \notin {"start", "get"}, NEW t \in Paths, NEW p \in Paths, ~IsPrefix(t, p),
         history' = history, \A x \in pending : x[1] \in Paths /\ (IsPrefix(t, x[1]) \/ x \in pending'),
         \A q \in Paths : ~IsPrefix(t, q) => local'[q].kptfile = local[q].kptfile
  PROVE  Current(p)'
  <1>1. ASSUME NEW q \in Paths, IsPrefix(q, p) PROVE ~IsPrefix(t, q)
    BY <1>1, PathsAre, PrefixOrder
  <1>2. Settled(p)' => Settled(p)
    BY <1>1 DEF Settled
  <1>3. Current(p)
    BY DEF CurrentInv
  <1> QED BY <1>1, <1>2, <1>3, CurrentStays

(* Below an unfinished package nothing is claimed.                          *)
LEMMA CurrentUnfinished ==
  ASSUME NEW t \in Paths, NEW v, <<t, v>> \in pending', NEW p \in Paths, IsPrefix(t, p)
  PROVE  Current(p)'
  BY DEF Current, Settled

(* The invariant holds before get.                                          *)
LEMMA InitInd == Init => IndInv
  <1> SUFFICES ASSUME Init PROVE IndInv
    OBVIOUS
  <1>1. <<>> \in Seq(Paths)
    OBVIOUS
  <1> QED BY <1>1, EmptyTypes, RootPath DEF Init, IndInv, TypeOK, CurrentInv, GetInv, StackInv, TopInv

(* kpt pkg get.                                                             *)
LEMMA GetStep ==
  ASSUME IndInv, Get
  PROVE  IndInv'
  <1>1. PICK v \in Versions :
          /\ pc' = "get" /\ pkgs' = <<<<>>>>
          /\ local' = [NoTree EXCEPT ![<<>>].kptfile =
                [up |-> [src |-> Root, ref |-> v, strat |-> "resource-merge"], lock |-> None, kf |-> None]]
          /\ UNCHANGED <<history, rels, top, base, pending>>
    BY DEF Get, envVars, runVars
  <1> DEFINE k == [up |-> [src |-> Root, ref |-> v, strat |-> "resource-merge"], lock |-> None, kf |-> None]
  <1>2. k \in Kptfiles /\ k.lock = None
    BY UpdateAssumption DEF Kptfiles, Upstreams
  <1> HIDE DEF k
  <1>3. NoTree \in [Paths -> Dirs] /\ NoTree[<<>>] \in Dirs /\ <<>> \in Paths
    BY EmptyTypes, RootPath DEF Trees
  <1>4. [NoTree[<<>>] EXCEPT !.kptfile = k] \in Dirs /\ [NoTree[<<>>] EXCEPT !.kptfile = k].kptfile = k
    BY <1>2, <1>3 DEF Dirs
  <1>5. local' = [NoTree EXCEPT ![<<>>].kptfile = k]
    BY <1>1 DEF k
  <1>6. local' \in Trees /\ local'[<<>>].kptfile = k /\ \A q \in Paths : q # <<>> => local'[q] = NoDir
    <2>1. local' \in [Paths -> Dirs] /\ local'[<<>>].kptfile = k /\ \A q \in Paths : q # <<>> => local'[q] = NoTree[q]
      BY <1>3, <1>4, <1>5
    <2> QED BY <2>1 DEF NoTree, Trees
  <1>7. pkgs' \in Seq(Paths) /\ 1 \in DOMAIN pkgs' /\ pkgs'[1] = <<>>
    BY <1>1, RootPath
  <1>8. TypeOK'
    BY <1>1, <1>6, <1>7 DEF IndInv, TypeOK
  <1>9. ASSUME NEW p \in Paths, Up(p)' # None
        PROVE  Lock(p)' = None /\ \E i \in DOMAIN pkgs' : IsPrefix(pkgs'[i], p)
    <2>1. p = <<>>
      BY <1>6, <1>9 DEF Up, IsPackageDir, NoDir
    <2>2. Lock(p)' = None
      BY <1>2, <1>6, <2>1 DEF Lock
    <2>3. IsPrefix(<<>>, p)
      BY PathsAre, PrefixOrder
    <2> QED BY <1>7, <2>2, <2>3
  <1>10. GetInv'
    BY <1>9 DEF GetInv
  <1> QED BY <1>1, <1>8, <1>10 DEF IndInv, CurrentInv, StackInv, TopInv

(* What a fetch of p puts there.                                            *)
LEMMA FetchedIs ==
  ASSUME TypeOK, NEW p \in Paths, Up(p) # None
  PROVE  LET F == Fetched(local, p)
             U == Upstream(history, Up(p).src, Up(p).ref)
         IN  /\ F \in Trees /\ F[p].kptfile # None /\ F[p].kptfile.up = Up(p) /\ F[p].kptfile.lock = Asked(p)
             /\ \A q \in Paths : ~IsPrefix(p, q) => F[q] = local[q]
             /\ \A q \in Below(p) : q # p =>
                  \/ F[q].kptfile = local[q].kptfile
                  \/ \E r \in Paths : U[r].kptfile # None /\ F[q].kptfile = U[r].kptfile
  <1> DEFINE up == Up(p)
             U == Upstream(history, up.src, up.ref)
             A == At(local, p)
             C == CopyPackage(U, A, TRUE, "all")
             K == UpdateKptfile(C, U, NoTree, FALSE)
             X == [K EXCEPT ![<<>>].kptfile.lock = Asked(p)]
             F == Fetched(local, p)
  <1>1. /\ local \in Trees /\ local[p].kptfile # None /\ up = local[p].kptfile.up /\ up \in Upstreams
        /\ history \in Histories /\ NoTree \in Trees
    BY UpTypes, EmptyTypes DEF TypeOK
  <1>2. U \in Trees /\ Asked(p) \in Locks
    <2>1. up.src \in Sources /\ up.ref \in Versions
      BY <1>1 DEF Upstreams
    <2> QED BY <1>1, <2>1, UpdateAssumption DEF Asked, Locks
  <1>3. /\ A \in Trees /\ A[<<>>] = local[p]
        /\ \A q \in Paths : A[q] # NoDir => p \o q \in Paths
        /\ \A q \in Paths : p \o q \in Paths => A[q] = local[p \o q]
    BY <1>1, AtType
  <1>4. F = Graft(local, p, X)
    BY <1>1 DEF Fetched, Asked
  <1> HIDE DEF F, U, A, up
  <1>5. /\ C \in Trees /\ C[<<>>].kptfile = A[<<>>].kptfile
        /\ \A q \in Paths : C[q].kptfile = A[q].kptfile \/ (U[q].kptfile # None /\ C[q].kptfile = U[q].kptfile)
    <2>1. /\ C \in Trees
          /\ \A q \in Paths : C[q].kptfile = A[q].kptfile \/ (U[q].kptfile # None /\ C[q].kptfile = U[q].kptfile)
          /\ C[<<>>].kptfile = IF TRUE /\ A[<<>>].kptfile = None THEN U[<<>>].kptfile ELSE A[<<>>].kptfile
      <3>1. A \in Trees /\ U \in Trees /\ TRUE \in BOOLEAN
        BY <1>2, <1>3
      <3> QED BY <3>1, CopyPackageType, ZenonT(60)
    <2> HIDE DEF C
    <2> QED BY <1>1, <1>3, <2>1
  <1> HIDE DEF C
  <1>6. Kf(C).up = up
    BY <1>1, <1>3, <1>5, KfType
  <1>7. K \in Trees /\ K[<<>>].kptfile # None /\ K[<<>>].kptfile.up = up /\ \A q \in Paths : q # <<>> => K[q] = C[q]
    <2>1. Follow(K, IF FALSE /\ Kf(U).up # None THEN Kf(U).up ELSE Kf(C).up) /\ \A q \in Paths : q # <<>> => K[q] = C[q]
      <3>1. C \in Trees /\ U \in Trees /\ NoTree \in Trees /\ FALSE \in BOOLEAN
        BY <1>1, <1>2, <1>5
      <3> QED BY <3>1, UpdateKptfileType, ZenonT(60)
    <2> HIDE DEF K
    <2> QED BY <1>6, <2>1 DEF Follow
  <1> HIDE DEF K
  <1> DEFINE k == [K[<<>>].kptfile EXCEPT !.lock = Asked(p)]
  <1>8. k \in Kptfiles /\ k.up = up /\ k.lock = Asked(p)
    <2>1. K[<<>>].kptfile \in Kptfiles
      BY <1>7, TreeTypes, RootPath
    <2> HIDE DEF Asked
    <2> QED BY <1>2, <1>7, <2>1 DEF Kptfiles
  <1>9. X \in Trees /\ X[<<>>].kptfile = k /\ \A q \in Paths : q # <<>> => X[q] = K[q]
    <2>1. X = [K EXCEPT ![<<>>] = [@ EXCEPT !.kptfile = k]]
      OBVIOUS
    <2>2. K \in [Paths -> Dirs] /\ K[<<>>] \in Dirs /\ <<>> \in Paths
      BY <1>7, RootPath DEF Trees
    <2> HIDE DEF k, X
    <2>3. [K[<<>>] EXCEPT !.kptfile = k] \in Dirs /\ [K[<<>>] EXCEPT !.kptfile = k].kptfile = k
      BY <1>8, <2>2 DEF Dirs
    <2> QED BY <2>1, <2>2, <2>3 DEF Trees
  <1> HIDE DEF k, X
  <1>10. /\ F \in Trees /\ F[p] = X[<<>>]
         /\ \A q \in Paths : ~IsPrefix(p, q) => F[q] = local[q]
         /\ \A q \in Below(p) : F[q] = X[Rest(p, q)]
    <2> DEFINE W == Graft(local, p, X)
    <2>1. /\ W \in Trees /\ W[p] = X[<<>>]
          /\ \A q \in Paths : ~IsPrefix(p, q) => W[q] = local[q]
          /\ \A q \in Below(p) : W[q] = X[Rest(p, q)]
      BY <1>1, <1>9, GraftType, ZenonT(30)
    <2> HIDE DEF W
    <2> QED BY <1>4, <2>1 DEF W
  <1>11. k # None
    BY <1>8, NoneAssumption
  <1>12. ASSUME NEW q \in Below(p), q # p
         PROVE  \/ F[q].kptfile = local[q].kptfile
                \/ \E r \in Paths : U[r].kptfile # None /\ F[q].kptfile = U[r].kptfile
    <2> DEFINE r == Rest(p, q)
    <2>1. q \in Paths /\ r \in Paths /\ p \o r = q /\ r # <<>>
      <3>1. q \in Paths /\ r \in Paths /\ p \o r = q /\ p \o <<>> = p
        BY PathsBelow
      <3> HIDE DEF r
      <3> QED BY <1>12, <3>1
    <2>2. F[q] = X[r]
      BY <1>10
    <2> HIDE DEF r
    <2>3. A[r] = local[q]
      BY <1>3, <2>1
    <2>4. F[q].kptfile = C[r].kptfile
      BY <1>7, <1>9, <2>1, <2>2
    <2> QED BY <1>5, <2>1, <2>3, <2>4
  <1> QED BY <1>8, <1>9, <1>10, <1>11, <1>12 DEF F, U, up

(* After a step of get, what was below p is there or is next.               *)
LEMMA GetNextStep ==
  ASSUME IndInv, GetNext, VendoredTruly
  PROVE  IndInv'
  <1> DEFINE p == Last(pkgs)
             D == DirectSubpackages(local', p)
             F == Fetched(local, p)
             U == Upstream(history, Up(p).src, Up(p).ref)
  <1>1. /\ pc = "get" /\ pkgs # <<>> /\ pc' = "get"
        /\ local' = IF Up(p) # None /\ Lock(p) = None THEN F ELSE local
        /\ pkgs' = Front(pkgs) \o D
        /\ UNCHANGED <<history, rels, top, base, pending>>
    BY DEF GetNext, envVars, runVars
  <1>2. TypeOK
    BY DEF IndInv
  <1>3. /\ Front(pkgs) \in Seq(Paths) /\ Len(pkgs) \in DOMAIN pkgs /\ p = pkgs[Len(pkgs)] /\ p \in Paths
        /\ DOMAIN Front(pkgs) = 1 .. Len(pkgs) - 1
        /\ \A i \in DOMAIN Front(pkgs) : i \in DOMAIN pkgs /\ i # Len(pkgs) /\ Front(pkgs)[i] = pkgs[i]
    BY <1>1, <1>2, FrontIs DEF TypeOK
  <1> HIDE DEF p
  <1>4. Up(p) # None =>
          /\ F \in Trees /\ F[p].kptfile # None /\ F[p].kptfile.up = Up(p) /\ F[p].kptfile.lock = Asked(p)
          /\ \A q \in Paths : ~IsPrefix(p, q) => F[q] = local[q]
          /\ \A q \in Below(p) : q # p =>
               \/ F[q].kptfile = local[q].kptfile
               \/ \E r \in Paths : U[r].kptfile # None /\ F[q].kptfile = U[r].kptfile
    BY <1>2, <1>3, FetchedIs
  <1>5. Up(p) # None => Up(p).src \in Sources /\ Up(p).ref \in Versions
    BY <1>2, <1>3, UpTypes DEF TypeOK, Upstreams
  <1> HIDE DEF F
  <1>6. local \in Trees /\ local' \in Trees
    BY <1>1, <1>2, <1>4 DEF TypeOK
  <1>7. /\ D \in Seq(Paths)
        /\ \A q \in Below(p) : q # p /\ IsPackageDir(local', q) => \E i \in DOMAIN D : IsPrefix(D[i], q)
    BY <1>3, <1>6, DirectSubpackagesIs
  <1> HIDE DEF D
  <1>8. /\ pkgs' \in Seq(Paths)
        /\ \A i \in DOMAIN Front(pkgs) : i \in DOMAIN pkgs' /\ pkgs'[i] = Front(pkgs)[i]
        /\ \A i \in DOMAIN D : Len(Front(pkgs)) + i \in DOMAIN pkgs' /\ pkgs'[Len(Front(pkgs)) + i] = D[i]
    BY <1>1, <1>3, <1>7, ConcatIs
  <1>9. TypeOK'
    BY <1>1, <1>2, <1>6, <1>8 DEF TypeOK
  <1>10. ASSUME NEW q \in Paths, Up(q)' # None
         PROVE  \/ AtLock(q)'
                \/ Lock(q)' = None /\ \E i \in DOMAIN pkgs' : IsPrefix(pkgs'[i], q)
    <2>1. /\ local'[q].kptfile # None /\ Up(q)' = local'[q].kptfile.up /\ Lock(q)' = local'[q].kptfile.lock
          /\ IsPackageDir(local', q)
      BY <1>10 DEF Up, Lock, IsPackageDir
    <2>2. local[q].kptfile = local'[q].kptfile =>
            Up(q)' = Up(q) /\ Lock(q)' = Lock(q) /\ (AtLock(q) => AtLock(q)')
      <3> SUFFICES ASSUME local[q].kptfile = local'[q].kptfile
                   PROVE  Up(q)' = Up(q) /\ Lock(q)' = Lock(q) /\ (AtLock(q) => AtLock(q)')
        OBVIOUS
      <3>1. Up(q)' = Up(q) /\ Lock(q)' = Lock(q)
        BY DEF Up, Lock, IsPackageDir
      <3> QED BY <1>1, <3>1, AtLockStays
    <2>3. Up(q) # None =>
            \/ AtLock(q)
            \/ Lock(q) = None /\ \E i \in DOMAIN pkgs : IsPrefix(pkgs[i], q)
      BY <1>1 DEF IndInv, GetInv
    <2>4. CASE ~IsPrefix(p, q)
      <3>1. local'[q] = local[q]
        BY <1>1, <1>4, <2>4
      <3>2. ASSUME NEW i \in DOMAIN pkgs, IsPrefix(pkgs[i], q)
            PROVE  \E j \in DOMAIN pkgs' : IsPrefix(pkgs'[j], q)
        <4>1. i # Len(pkgs)
          BY <1>3, <2>4, <3>2
        <4>2. i \in DOMAIN Front(pkgs)
          BY <1>2, <1>3, <4>1 DEF TypeOK
        <4> QED BY <1>3, <1>8, <3>2, <4>2
      <3> QED BY <1>10, <2>2, <2>3, <3>1, <3>2
    <2>5. CASE q = p
      <3>1. CASE Up(p) # None /\ Lock(p) = None
        <4>1. local'[q].kptfile.up = Up(p) /\ local'[q].kptfile.lock = Asked(p)
          BY <1>1, <1>4, <2>5, <3>1
        <4>2. Asked(p) # None
          <5>1. Asked(p) \in Locks
            BY <1>5, <3>1 DEF Asked, Locks
          <5> QED BY <5>1, NoneAssumption
        <4> QED BY <2>1, <2>5, <4>1, <4>2 DEF Asked, AtLock
      <3>2. CASE ~(Up(p) # None /\ Lock(p) = None)
        <4>1. local' = local
          BY <1>1, <3>2
        <4> QED BY <1>10, <2>2, <2>3, <2>5, <3>2, <4>1
      <3> QED BY <3>1, <3>2
    <2>6. CASE IsPrefix(p, q) /\ q # p
      <3>1. q \in Below(p)
        BY <2>6 DEF Below
      <3>2. \E i \in DOMAIN pkgs' : IsPrefix(pkgs'[i], q)
        BY <1>7, <1>8, <2>1, <2>6, <3>1
      <3>3. CASE local'[q].kptfile = local[q].kptfile
        BY <1>10, <2>2, <2>3, <3>2, <3>3
      <3>4. CASE local'[q].kptfile # local[q].kptfile
        <4>1. Up(p) # None /\ local' = F
          BY <1>1, <3>4
        <4>2. PICK r \in Paths : U[r].kptfile # None /\ F[q].kptfile = U[r].kptfile
          BY <1>4, <2>6, <3>1, <3>4, <4>1
        <4>3. history \in Histories /\ Up(p).src \in Sources /\ Up(p).ref \in Versions
          BY <1>2, <1>5, <4>1 DEF TypeOK
        <4> DEFINE k == U[r].kptfile
        <4>4. k # None /\ k.up # None /\ k.lock # None =>
                \/ k.lock = [src |-> k.up.src, ref |-> k.up.ref]
                \/ k.up = Kf(Upstream(history, k.lock.src, k.lock.ref)).up
          BY <4>3 DEF VendoredTruly
        <4> HIDE DEF k
        <4>5. local'[q].kptfile = k
          BY <4>1, <4>2 DEF k
        <4>6. Lock(q)' # None => AtLock(q)'
          BY <1>1, <1>10, <2>1, <4>4, <4>5 DEF AtLock
        <4> QED BY <3>2, <4>6
      <3> QED BY <3>3, <3>4
    <2> QED BY <2>4, <2>5, <2>6
  <1>11. GetInv'
    BY <1>10 DEF GetInv
  <1> QED BY <1>1, <1>9, <1>11 DEF IndInv, CurrentInv, StackInv, TopInv

(* A get that fails leaves nothing, one that ends has nothing left to do.   *)
LEMMA GetEnds ==
  ASSUME IndInv, GetFails \/ GetDone
  PROVE  IndInv'
  <1>1. CASE GetFails
    <2>1. <<>> \in Seq(Paths)
      OBVIOUS
    <2> QED BY <1>1, <2>1, EmptyTypes
            DEF GetFails, envVars, runVars, IndInv, TypeOK, CurrentInv, GetInv, StackInv, TopInv
  <1>2. CASE GetDone
    <2>1. pc = "get" /\ pkgs = <<>> /\ pc' = "idle" /\ UNCHANGED <<history, local, pkgs, rels, top, base, pending>>
      BY <1>2 DEF GetDone, envVars, runVars
    <2>2. TypeOK'
      BY <2>1 DEF IndInv, TypeOK
    <2>3. \A q \in Paths : Up(q) # None => AtLock(q)
      BY <2>1 DEF IndInv, GetInv
    <2>4. \A q \in Paths : Current(q)'
      BY <2>1, <2>3 DEF Current, AtLock, Up, Lock, IsPackageDir
    <2> QED BY <2>1, <2>2, <2>4 DEF IndInv, CurrentInv, GetInv, StackInv, TopInv
  <1> QED BY <1>1, <1>2

-----------------------------------------------------------------------------
(* What the user does.                                                      *)

(* What the user changes is current if every package is.                    *)
LEMMA TouchStep ==
  ASSUME IndInv, NEW T, NEW touched, Touch(T, touched), T \in Trees, \A p \in Paths : Current(p)'
  PROVE  IndInv'
  <1>1. pc = "idle" /\ pc' = "idle" /\ local' = T /\ UNCHANGED <<history, pkgs, rels, top, base, pending>>
    BY DEF Touch, runVars
  <1>2. TypeOK'
    BY <1>1 DEF IndInv, TypeOK
  <1> QED BY <1>1, <1>2 DEF IndInv, CurrentInv, GetInv, StackInv, TopInv

(* Files are no Kptfiles.                                                   *)
LEMMA EditFiles ==
  ASSUME IndInv, "e" \in Values, EditFile \/ DeleteFile
  PROVE  IndInv'
  <1>1. PICK p \in Paths, f \in Files, v \in {"e", None} :
          Touch([local EXCEPT ![p].files[f] = v], {<<p, f>>})
    BY DEF EditFile, DeleteFile
  <1> DEFINE T == [local EXCEPT ![p].files[f] = v]
             fs == [local[p].files EXCEPT ![f] = v]
  <1>2. local \in [Paths -> Dirs] /\ local[p] \in Dirs
    BY DEF IndInv, TypeOK, Trees
  <1>3. fs \in [Files -> Values \cup {None}]
    BY <1>2 DEF Dirs
  <1>4. T = [local EXCEPT ![p] = [@ EXCEPT !.files = fs]]
    OBVIOUS
  <1> HIDE DEF fs
  <1>5. [local[p] EXCEPT !.files = fs] \in Dirs /\ [local[p] EXCEPT !.files = fs].kptfile = local[p].kptfile
    BY <1>2, <1>3 DEF Dirs
  <1> HIDE DEF T
  <1>6. T \in Trees /\ \A q \in Paths : T[q].kptfile = local[q].kptfile
    BY <1>2, <1>4, <1>5 DEF Trees
  <1>7. local' = T /\ pending' = pending /\ history' = history /\ pc = "idle"
    BY <1>1 DEF Touch, T
  <1>8. ASSUME NEW q \in Paths PROVE Current(q)'
    <2>1. Current(q)
      BY <1>7 DEF IndInv, CurrentInv
    <2>2. Settled(q)' => Settled(q)
      BY <1>7 DEF Settled
    <2> QED BY <1>6, <1>7, <2>1, <2>2, CurrentStays
  <1> QED BY <1>1, <1>6, <1>8, TouchStep DEF T

(* What is deleted is no package.                                           *)
LEMMA DeletePackages ==
  ASSUME IndInv, DeletePackage
  PROVE  IndInv'
  <1>1. PICK p \in Paths : Touch(RemoveAll(local, p), Below(p) \X Files)
    BY DEF DeletePackage
  <1> DEFINE T == RemoveAll(local, p)
  <1>2. /\ T \in Trees /\ \A q \in Paths : ~IsPrefix(p, q) => T[q] = local[q]
        /\ \A q \in Below(p) : T[q] = NoTree[Rest(p, q)]
    BY EmptyTypes, GraftType DEF RemoveAll, IndInv, TypeOK
  <1>3. local' = T /\ pending' = pending /\ history' = history /\ pc = "idle"
    BY <1>1 DEF Touch
  <1> HIDE DEF T
  <1>4. ASSUME NEW q \in Paths PROVE Current(q)'
    <2>1. CASE IsPrefix(p, q)
      <3>1. q \in Below(p) /\ Rest(p, q) \in Paths
        BY <2>1, PathsBelow DEF Below
      <3>2. T[q] = NoDir
        BY <1>2, <3>1 DEF NoTree
      <3> QED BY <1>3, <3>2 DEF Current, Up, IsPackageDir, NoDir
    <2>2. CASE ~IsPrefix(p, q)
      <3>1. \A x \in pending : x[1] \in Paths /\ x \in pending'
        BY <1>3 DEF IndInv, TypeOK
      <3>2. CurrentInv
        BY DEF IndInv
      <3> QED BY <1>2, <1>3, <2>2, <3>1, <3>2, CurrentOutside
    <2> QED BY <2>1, <2>2
  <1> QED BY <1>1, <1>2, <1>4, TouchStep DEF T

(* A package that the user adds is local, and there was nothing in it.      *)
LEMMA AddPackages ==
  ASSUME IndInv, "e" \in Values, AddPackage
  PROVE  IndInv'
  <1>1. PICK p \in Paths :
          /\ ~Exists(local, p)
          /\ Touch([local EXCEPT ![p] =
                      [kptfile |-> [NoKptfile EXCEPT !.kf = "e"],
                       files |-> [f \in Files |-> IF f \in KrmFiles /\ Shadows[f] = {} THEN "e" ELSE None]]],
                   Below(p) \X Files)
    BY DEF AddPackage
  <1> DEFINE d == [kptfile |-> [NoKptfile EXCEPT !.kf = "e"],
                   files |-> [f \in Files |-> IF f \in KrmFiles /\ Shadows[f] = {} THEN "e" ELSE None]]
             T == [local EXCEPT ![p] = d]
  <1>2. d \in Dirs /\ d.kptfile.up = None
    BY DEF Dirs, NoKptfile, Kptfiles
  <1>3. T \in Trees /\ T[p] = d /\ \A q \in Paths : q # p => T[q] = local[q]
    <2> HIDE DEF d
    <2> QED BY <1>2 DEF Trees, IndInv, TypeOK
  <1>4. local' = T /\ pending' = pending /\ history' = history /\ pc = "idle"
    BY <1>1 DEF Touch
  <1>5. \A q \in Below(p) : local[q] = NoDir
    BY <1>1 DEF Exists
  <1> HIDE DEF d, T
  <1>6. ASSUME NEW q \in Paths PROVE Current(q)'
    <2>1. CASE IsPrefix(p, q)
      <3>1. q \in Below(p)
        BY <2>1 DEF Below
      <3>2. CASE q = p
        BY <1>2, <1>3, <1>4, <3>2 DEF Current, Up
      <3>3. CASE q # p
        BY <1>3, <1>4, <1>5, <3>1, <3>3 DEF Current, Up, IsPackageDir, NoDir
      <3> QED BY <3>2, <3>3
    <2>2. CASE ~IsPrefix(p, q)
      <3>1. \A x \in pending : x[1] \in Paths /\ x \in pending'
        BY <1>4 DEF IndInv, TypeOK
      <3>2. \A r \in Paths : ~IsPrefix(p, r) => local'[r].kptfile = local[r].kptfile
        BY <1>3, <1>4, PathsAre, PrefixOrder
      <3>3. CurrentInv
        BY DEF IndInv
      <3> QED BY <1>4, <2>2, <3>1, <3>2, <3>3, CurrentOutside
    <2> QED BY <2>1, <2>2
  <1> QED BY <1>1, <1>3, <1>6, TouchStep DEF T, d

-----------------------------------------------------------------------------
(* Updates.                                                                 *)

(* A Kptfile that asks for another version of the same upstream.            *)
LEMMA AskFor ==
  ASSUME NEW d \in Dirs, d.kptfile # None, d.kptfile.up # None, cmd.up \in Upstreams
  PROVE  /\ updateSubKf(d) \in Dirs /\ updateSubKf(d).kptfile # None
         /\ updateSubKf(d).kptfile.up # None /\ updateSubKf(d).kptfile.up.ref = cmd.up.ref
  <1> DEFINE ref == cmd.up.ref
             strat == cmd.up.strat
             up == [d.kptfile.up EXCEPT !.ref = ref, !.strat = strat]
             k == [d.kptfile EXCEPT !.up = up]
             c == [d EXCEPT !.kptfile = k]
  <1>1. d.kptfile \in Kptfiles /\ d.kptfile.up \in Upstreams
    BY DEF Dirs, Kptfiles
  <1>2. ref \in Versions /\ strat \in Strategies
    BY DEF Upstreams
  <1>3. updateSubKf(d) = [d EXCEPT !.kptfile.up.ref = ref, !.kptfile.up.strat = strat]
    BY DEF updateSubKf
  <1> HIDE DEF ref, strat
  <1>4. up \in Upstreams /\ up.ref = ref
    BY <1>1, <1>2 DEF Upstreams
  <1>5. [d EXCEPT !.kptfile.up.ref = ref, !.kptfile.up.strat = strat] = c
    BY <1>1 DEF Dirs, Kptfiles, Upstreams
  <1> HIDE DEF up
  <1>6. k \in Kptfiles /\ k.up = up
    BY <1>1, <1>4 DEF Kptfiles
  <1> HIDE DEF k
  <1>7. c \in Dirs /\ c.kptfile = k
    BY <1>6 DEF Dirs
  <1> HIDE DEF c
  <1>8. updateSubKf(d) = c /\ k # None /\ up # None
    BY <1>3, <1>4, <1>5, <1>6, NoneAssumption
  <1> QED BY <1>4, <1>6, <1>7, <1>8 DEF ref

(* Run makes its package unfinished before it asks for the new version.     *)
LEMMA RunStep ==
  ASSUME IndInv, Run
  PROVE  IndInv'
  <1>1. PICK p \in Paths, v \in Versions, s \in RunStrategies :
          /\ pc = "idle" /\ Up(p) # None
          /\ local' = [local EXCEPT ![p].kptfile.up = [Up(p) EXCEPT !.ref = v, !.strat = s]]
          /\ cmd' = [pkg |-> p, from |-> Up(p).ref, up |-> [Up(p) EXCEPT !.ref = v, !.strat = s]]
          /\ pc' = "fetch" /\ pkgs' = <<p>> /\ pending' = pending \cup {<<p, Git(Up(p)')>>}
          /\ UNCHANGED <<history, top, base, rels>>
    BY DEF Run, envVars
  <1> DEFINE up == [Up(p) EXCEPT !.ref = v, !.strat = s]
             k == [local[p].kptfile EXCEPT !.up = up]
             d == [local[p] EXCEPT !.kptfile = k]
  <1>2. TypeOK /\ CurrentInv /\ local \in Trees
    BY DEF IndInv, TypeOK
  <1>3. /\ Up(p) \in Upstreams /\ local[p].kptfile # None /\ local[p].kptfile \in Kptfiles
        /\ Up(p) = local[p].kptfile.up
    BY <1>1, <1>2, UpTypes
  <1>4. up \in Upstreams /\ up.ref = v
    BY <1>3, UpdateAssumption DEF Upstreams
  <1>5. local' = [local EXCEPT ![p] = d]
    BY <1>1
  <1>6. cmd'.up = up
    BY <1>1
  <1> HIDE DEF up
  <1>7. k \in Kptfiles /\ k.up = up
    BY <1>3, <1>4 DEF Kptfiles
  <1> HIDE DEF k
  <1>8. d \in Dirs /\ d.kptfile = k
    BY <1>2, <1>7 DEF Trees, Dirs
  <1> HIDE DEF d
  <1>9. local' \in Trees /\ local'[p] = d /\ \A q \in Paths : q # p => local'[q] = local[q]
    BY <1>2, <1>5, <1>8 DEF Trees
  <1>10. Up(p)' = up
    BY <1>7, <1>8, <1>9, NoneAssumption DEF Up, IsPackageDir
  <1>11. /\ pkgs' \in Seq(Paths) /\ DOMAIN pkgs' = {1} /\ pkgs'[1] = p
    BY <1>1
  <1>12. TypeOK'
    BY <1>1, <1>2, <1>4, <1>6, <1>9, <1>11 DEF TypeOK
  <1>13. ASSUME NEW q \in Paths PROVE Current(q)'
    <2>1. CASE IsPrefix(p, q)
      <3>1. <<p, Git(Up(p)')>> \in pending'
        BY <1>1
      <3> QED BY <2>1, <3>1, CurrentUnfinished
    <2>2. CASE ~IsPrefix(p, q)
      <3>1. \A x \in pending : x[1] \in Paths /\ x \in pending'
        BY <1>1, <1>2 DEF TypeOK
      <3>2. \A r \in Paths : ~IsPrefix(p, r) => local'[r].kptfile = local[r].kptfile
        BY <1>9, PathsAre, PrefixOrder
      <3> QED BY <1>1, <1>2, <2>2, <3>1, <3>2, CurrentOutside
    <2> QED BY <2>1, <2>2
  <1>14. StackInv'
    <2>1. Antichain(pkgs')
      BY <1>11 DEF Antichain
    <2>2. Up(p)' # None /\ <<p, Git(Up(p)')>> \in pending'
      BY <1>1, <1>4, <1>10, NoneAssumption
    <2> QED BY <1>11, <2>1, <2>2 DEF StackInv
  <1> QED BY <1>1, <1>12, <1>13, <1>14 DEF IndInv, CurrentInv, GetInv, TopInv

(* The package that is fetched was next.                                    *)
LEMMA FetchStep ==
  ASSUME IndInv, Fetch
  PROVE  IndInv'
  <1> DEFINE p == Last(pkgs)
  <1>1. /\ pc = "fetch" /\ pkgs # <<>> /\ top' = p /\ spec' = Up(p) /\ base' = Lock(p)
        /\ pkgs' = Front(pkgs) /\ rels' = <<<<>>>> /\ pc' = "merge"
        /\ UNCHANGED <<history, cmd, local, pending>>
    BY DEF Fetch, FetchFrom, envVars
  <1>2. TypeOK /\ CurrentInv /\ StackInv
    BY DEF IndInv
  <1>3. /\ Front(pkgs) \in Seq(Paths) /\ Len(pkgs) \in DOMAIN pkgs /\ p = pkgs[Len(pkgs)] /\ p \in Paths
        /\ \A i \in DOMAIN Front(pkgs) : i \in DOMAIN pkgs /\ i # Len(pkgs) /\ Front(pkgs)[i] = pkgs[i]
    BY <1>1, <1>2, FrontIs DEF TypeOK
  <1> HIDE DEF p
  <1>4. /\ Antichain(pkgs)
        /\ \A i \in DOMAIN pkgs : Up(pkgs[i]) # None /\ <<pkgs[i], Git(Up(pkgs[i]))>> \in pending
    BY <1>1, <1>2 DEF StackInv
  <1>5. Up(p) \in Upstreams /\ Lock(p) \in Locks \cup {None}
    BY <1>2, <1>3, <1>4, UpTypes DEF TypeOK
  <1>6. rels' \in Seq(Paths)
    BY <1>1, RootPath
  <1>7. TypeOK'
    BY <1>1, <1>2, <1>3, <1>5, <1>6 DEF TypeOK
  <1>8. \A q \in Paths : Up(q)' = Up(q)
    BY <1>1 DEF Up, IsPackageDir
  <1>9. StackInv'
    <2>1. Antichain(pkgs')
      BY <1>1, <1>3, <1>4 DEF Antichain
    <2>2. ASSUME NEW i \in DOMAIN pkgs'
          PROVE  (Up(pkgs[i]) # None /\ <<pkgs[i], Git(Up(pkgs[i]))>> \in pending)'
      <3>1. i \in DOMAIN pkgs /\ pkgs'[i] = pkgs[i]
        BY <1>1, <1>3
      <3>2. local'[pkgs'[i]] = local[pkgs[i]]
        BY <1>1, <3>1
      <3>3. Up(pkgs[i])' = Up(pkgs[i])
        BY <3>2 DEF Up, IsPackageDir
      <3> QED BY <1>1, <1>4, <3>1, <3>3
    <2> QED BY <2>1, <2>2 DEF StackInv
  <1>10. TopInv'
    <2>1. Up(top)' \in Followed' /\ <<top', Git(spec')>> \in pending'
      <3>1. Up(top)' = Up(p)
        BY <1>1 DEF Up, IsPackageDir
      <3>2. Up(top)' = spec' /\ spec' # None /\ <<top', Git(spec')>> \in pending'
        BY <1>1, <1>3, <1>4, <3>1
      <3> QED BY <3>2 DEF Followed
    <2>2. \A i \in DOMAIN pkgs' : ~IsPrefix(pkgs'[i], top') /\ ~IsPrefix(top', pkgs'[i])
      BY <1>1, <1>3, <1>4 DEF Antichain
    <2> QED BY <2>1, <2>2 DEF TopInv
  <1>11. \A q \in Paths : Current(q)'
    <2>1. \A q \in Paths : Current(q)
      BY <1>1, <1>2 DEF CurrentInv
    <2> QED BY <1>1, <2>1 DEF Current, AtLock, Up, Lock, IsPackageDir, Settled, Reached, Below
  <1> QED BY <1>1, <1>7, <1>9, <1>10, <1>11 DEF IndInv, CurrentInv, GetInv

(* A command that stops leaves no list.                                     *)
LEMMA StopStep ==
  ASSUME TypeOK, local' \in Trees, \A p \in Paths : Current(p)', Stop, UNCHANGED <<history, pending>>
  PROVE  IndInv'
  <1>1. <<>> \in Seq(Paths)
    OBVIOUS
  <1> QED BY <1>1, RootPath DEF Stop, IndInv, TypeOK, CurrentInv, GetInv, StackInv, TopInv

(* The upstream and the origin are trees.                                   *)
LEMMA FollowedIs ==
  ASSUME TypeOK, pc = "merge"
  PROVE  /\ NewUpstream \in Trees /\ Origin \in Trees
         /\ Followed \subseteq Upstreams /\ spec \in Followed
         /\ Kf(NewUpstream).up \in Followed \cup {None}
  <1>1. spec \in Upstreams /\ history \in Histories
    BY DEF TypeOK
  <1>2. NewUpstream \in Trees /\ Origin \in Trees
    <2>1. spec.src \in Sources /\ spec.ref \in Versions
      BY <1>1 DEF Upstreams
    <2>2. base # None => base.src \in Sources /\ base.ref \in Versions
      BY DEF TypeOK, Locks
    <2> QED BY <1>1, <2>1, <2>2, UpdateAssumption, EmptyTypes DEF NewUpstream, Origin
  <1>3. Kf(NewUpstream).up \in Upstreams \cup {None}
    BY <1>2, KfType DEF Kptfiles
  <1>4. spec # None
    BY <1>1, NoneAssumption
  <1> QED BY <1>1, <1>2, <1>3, <1>4 DEF Followed

(* A merge changes what is below the package only, which goes on following  *)
(* the same, or what that names.  Packages inside it follow what they did,  *)
(* or do upstream.                                                          *)
LEMMA MergeIs ==
  ASSUME TypeOK, TopInv, Merge
  PROVE  /\ local' \in Trees /\ local'[top].kptfile # None /\ local'[top].kptfile.up \in Followed
         /\ \A q \in Paths : ~IsPrefix(top, q) => local'[q] = local[q]
         /\ \A q \in Below(top) : UpAt(local', q) \in {None, UpAt(local, q), UpAt(NewUpstream, Rest(top, q))}
         /\ NewUpstream \in Trees /\ Origin \in Trees
  <1> DEFINE A == At(local, top)
             r == UpdatePackage(A, NewUpstream, Origin, Last(rels))
             G == Graft(local, top, r.tree)
  <1>1. pc = "merge" /\ rels # <<>> /\ local' = G
    BY DEF Merge
  <1>2. local \in Trees /\ top \in Paths /\ spec \in Upstreams /\ history \in Histories
    BY <1>1 DEF TypeOK
  <1>3. Up(top) \in Followed
    BY <1>1 DEF TopInv
  <1>4. /\ NewUpstream \in Trees /\ Origin \in Trees
        /\ Followed \subseteq Upstreams /\ Kf(NewUpstream).up \in Followed \cup {None}
    BY <1>1, FollowedIs
  <1>5. /\ A \in Trees /\ A[<<>>] = local[top]
        /\ \A q \in Paths : top \o q \in Paths => A[q] = local[top \o q]
    BY <1>2, AtType
  <1>6. FollowIn(A, Followed)
    <2>1. local[top].kptfile # None /\ local[top].kptfile.up \in Followed
      BY <1>2, <1>3, <1>4, UpTypes, NoneAssumption
    <2> HIDE DEF A
    <2> QED BY <1>5, <2>1 DEF FollowIn
  <1>7. Last(rels) \in Paths
    BY <1>1, FrontIs DEF TypeOK
  <1> HIDE DEF A
  <1>8. r \in Results(Kept(TRUE, Followed, A, NewUpstream))
    BY <1>4, <1>5, <1>6, <1>7, UpdatePackageKeeps
  <1> HIDE DEF r
  <1>9. /\ r.tree \in Trees /\ r.tree[<<>>].kptfile # None /\ r.tree[<<>>].kptfile.up \in Followed
        /\ From(r.tree, A, NewUpstream)
    <2>1. r.tree \in Kept(TRUE, Followed, A, NewUpstream)
      BY <1>8, ResultTypes
    <2> QED BY <2>1 DEF Kept, FollowIn
  <1>10. /\ G \in Trees /\ G[top] = r.tree[<<>>]
         /\ \A q \in Paths : ~IsPrefix(top, q) => G[q] = local[q]
         /\ \A q \in Below(top) : G[q] = r.tree[Rest(top, q)]
    BY <1>2, <1>9, GraftType, ZenonT(30)
  <1> HIDE DEF G
  <1>11. ASSUME NEW q \in Below(top)
         PROVE  UpAt(local', q) \in {None, UpAt(local, q), UpAt(NewUpstream, Rest(top, q))}
    <2> DEFINE s == Rest(top, q)
    <2>1. q \in Paths /\ s \in Paths /\ top \o s = q
      BY <1>2, PathsBelow
    <2>2. local'[q] = r.tree[s]
      BY <1>1, <1>10
    <2> HIDE DEF s
    <2>3. A[s] = local[q]
      BY <1>5, <2>1
    <2>4. UpAt(r.tree, s) \in {None, UpAt(A, s), UpAt(NewUpstream, s)}
      BY <1>9, <2>1 DEF From
    <2>5. UpAt(local', q) \in {None, UpAt(local, q), UpAt(NewUpstream, s)}
      BY <2>2, <2>3, <2>4 DEF UpAt
    <2> QED BY <2>5 DEF s
  <1> QED BY <1>1, <1>4, <1>9, <1>10, <1>11

(* A merge keeps the invariant.                                             *)
LEMMA MergeStep ==
  ASSUME IndInv, Merge
  PROVE  IndInv'
  <1>1. /\ pc = "merge" /\ rels # <<>>
        /\ \/ Stop
           \/ /\ rels' = Front(rels) \o RemoteSubpackages(local', Last(rels))
              /\ UNCHANGED <<pc, pkgs, cmd, top, spec, base>>
        /\ UNCHANGED <<history, pending>>
    BY DEF Merge, envVars
  <1>2. TypeOK /\ CurrentInv /\ StackInv /\ TopInv
    BY DEF IndInv
  <1>3. top \in Paths /\ <<top, Git(spec)>> \in pending
    BY <1>1, <1>2 DEF TypeOK, TopInv
  <1>4. /\ local' \in Trees /\ local'[top].kptfile # None /\ local'[top].kptfile.up \in Followed
        /\ \A q \in Paths : ~IsPrefix(top, q) => local'[q] = local[q]
        /\ NewUpstream \in Trees /\ Origin \in Trees
    BY <1>2, MergeIs
  <1>5. Front(rels) \in Seq(Paths) /\ Last(rels) \in Paths
    BY <1>1, <1>2, FrontIs DEF TypeOK
  <1>6. Up(top)' \in Followed \/ top' # top
    BY <1>4 DEF Up, IsPackageDir
  <1>7. ASSUME NEW q \in Paths PROVE Current(q)'
    <2>1. CASE IsPrefix(top, q)
      BY <1>1, <1>3, <2>1, CurrentUnfinished
    <2>2. CASE ~IsPrefix(top, q)
      <3>1. \A x \in pending : x[1] \in Paths /\ x \in pending'
        BY <1>1, <1>2 DEF TypeOK
      <3> QED BY <1>1, <1>2, <1>3, <1>4, <2>2, <3>1, CurrentOutside
    <2> QED BY <2>1, <2>2
  <1>8. CASE Stop
    BY <1>1, <1>2, <1>4, <1>7, <1>8, StopStep
  <1>9. CASE /\ rels' = Front(rels) \o RemoteSubpackages(local', Last(rels))
             /\ UNCHANGED <<pc, pkgs, cmd, top, spec, base>>
    <2>1. RemoteSubpackages(local', Last(rels)) \in Seq(Paths)
      BY <1>3, <1>4, <1>5, RemoteSubpackagesType
    <2>2. rels' \in Seq(Paths)
      BY <1>5, <1>9, <2>1, ConcatIs
    <2>3. TypeOK'
      BY <1>1, <1>2, <1>4, <1>9, <2>2 DEF TypeOK
    <2>4. \A i \in DOMAIN pkgs : pkgs[i] \in Paths /\ ~IsPrefix(pkgs[i], top) /\ ~IsPrefix(top, pkgs[i])
      BY <1>1, <1>2 DEF TypeOK, TopInv
    <2>5. \A i \in DOMAIN pkgs : Up(pkgs[i])' = Up(pkgs[i])
      BY <1>4, <1>9, <2>4 DEF Up, IsPackageDir
    <2>6. StackInv'
      BY <1>1, <1>2, <1>9, <2>5 DEF StackInv, Antichain
    <2>7. Followed' = Followed
      BY <1>1, <1>9 DEF Followed, NewUpstream
    <2>8. TopInv'
      BY <1>1, <1>3, <1>6, <1>9, <2>4, <2>7 DEF TopInv
    <2> QED BY <1>1, <1>7, <1>9, <2>3, <2>6, <2>8 DEF IndInv, CurrentInv, GetInv
  <1> QED BY <1>1, <1>8, <1>9

(* A package that is finished has its lock, and those just below it are     *)
(* next.  Others are in them or in local packages.                          *)
LEMMA FinishIs ==
  ASSUME TypeOK, TopInv, Finish
  PROVE  LET R == RemoteBelowTop
             lock == [src |-> spec.src, ref |-> spec.ref]
         IN  /\ local' \in Trees /\ local'[top].kptfile # None
             /\ local'[top].kptfile.up = Up(top) /\ local'[top].kptfile.lock = lock
             /\ \A q \in Paths : q # top /\ q \notin ToSet(R) => local'[q] = local[q]
             /\ R \in Seq(Paths) /\ Antichain(R)
             /\ \A p \in ToSet(R) :
                  /\ p \in Paths /\ IsPrefix(top, p) /\ p # top /\ Up(p) # None
                  /\ local'[p].kptfile # None /\ local'[p].kptfile.up # None
                  /\ IF Follows(Up(p)) THEN local'[p].kptfile.up.ref = cmd.up.ref ELSE local'[p] = local[p]
             /\ \A q \in Below(top) : q # top /\ IsPackageDir(local', q) =>
                  \E d \in Paths :
                    /\ IsPrefix(d, q) /\ IsPrefix(top, d) /\ d # top /\ IsPackageDir(local, d)
                    /\ d \in ToSet(R) \/ (Up(d) = None /\ \A x \in ToSet(R) : ~IsPrefix(x, d))
  <1> DEFINE lock == [src |-> spec.src, ref |-> spec.ref]
             R == RemoteBelowTop
             Asks(p) == p \in ToSet(R) /\ Follows(Up(p))
             D == DirectSubpackages(Locked, top)
  <1>1. /\ pc = "merge"
        /\ local' = [p \in Paths |-> IF Asks(p) THEN updateSubKf(local[p]) ELSE Locked[p]]
    BY DEF Finish, FinishWith
  <1>3. local \in Trees /\ top \in Paths /\ spec \in Upstreams /\ cmd.up \in Upstreams
    BY <1>1 DEF TypeOK
  <1> DEFINE up == Up(top)
  <1>4. up \in Upstreams
    BY <1>1, <1>3, FollowedIs DEF TopInv
  <1>5. /\ Locked \in Trees /\ Locked[top].kptfile # None
        /\ Locked[top].kptfile.up = up /\ Locked[top].kptfile.lock = lock
        /\ \A q \in Paths : q # top => Locked[q] = local[q]
    <2> DEFINE k == [local[top].kptfile EXCEPT !.lock = lock]
               d == [local[top] EXCEPT !.kptfile = k]
    <2>1. local[top].kptfile \in Kptfiles /\ local[top].kptfile.up = up
      BY <1>3, <1>4, UpTypes, NoneAssumption
    <2> HIDE DEF up
    <2>2. lock \in Locks
      BY <1>3 DEF Upstreams, Locks
    <2>3. Locked = [local EXCEPT ![top] = d]
      BY DEF Locked
    <2> HIDE DEF lock
    <2>4. k \in Kptfiles /\ k.up = up /\ k.lock = lock
      BY <2>1, <2>2 DEF Kptfiles
    <2> HIDE DEF k
    <2>5. d \in Dirs /\ d.kptfile = k
      BY <1>3, <2>4 DEF Trees, Dirs
    <2> HIDE DEF d
    <2> QED BY <1>3, <2>3, <2>4, <2>5, NoneAssumption DEF Trees
  <1>6. /\ D \in Seq(Paths) /\ IsInjective(D) /\ Antichain(D)
        /\ \A i \in DOMAIN D : D[i] \in Below(top) /\ D[i] # top /\ IsPackageDir(Locked, D[i])
        /\ \A q \in Below(top) : q # top /\ IsPackageDir(Locked, q) => \E i \in DOMAIN D : IsPrefix(D[i], q)
    BY <1>3, <1>5, DirectSubpackagesIs
  <1>7. /\ R \in Seq(Paths) /\ IsInjective(R)
        /\ \A x : x \in ToSet(R) <=> x \in ToSet(D) /\ x \in {p \in Paths : Up(p) # None}
    <2> HIDE DEF D
    <2>1. /\ Only(D, {p \in Paths : Up(p) # None}) \in Seq(Paths) /\ IsInjective(Only(D, {p \in Paths : Up(p) # None}))
          /\ \A x : x \in ToSet(Only(D, {p \in Paths : Up(p) # None}))
                      <=> x \in ToSet(D) /\ x \in {p \in Paths : Up(p) # None}
      BY <1>6, OnlyIs
    <2> QED BY <2>1 DEF RemoteBelowTop, D
  <1> HIDE DEF D, R
  <1>8. ASSUME NEW p \in ToSet(R)
        PROVE  /\ p \in Paths /\ IsPrefix(top, p) /\ p # top /\ Up(p) # None
               /\ \E i \in DOMAIN D : D[i] = p
    BY <1>6, <1>7, <1>8 DEF ToSet, Below
  <1>9. ASSUME NEW p \in ToSet(R)
        PROVE  local'[p] \in Dirs /\ local'[p].kptfile # None /\ local'[p].kptfile.up # None
    <2>1. /\ local[p] \in Dirs /\ local[p].kptfile # None /\ local[p].kptfile.up # None /\ Locked[p] = local[p]
      BY <1>3, <1>5, <1>8, UpTypes, TreeTypes
    <2>3. updateSubKf(local[p]) \in Dirs /\ updateSubKf(local[p]).kptfile # None /\ updateSubKf(local[p]).kptfile.up # None
      BY <1>3, <2>1, AskFor
    <2>4. local'[p] = updateSubKf(local[p]) \/ local'[p] = Locked[p]
      BY <1>1, <1>8
    <2> QED BY <2>1, <2>3, <2>4
  <1>10. ASSUME NEW p \in Paths, p \notin ToSet(R) PROVE local'[p] = Locked[p]
    BY <1>1, <1>10
  <1>11. local' \in Trees
    <2>1. \A p \in Paths : local'[p] \in Dirs
      BY <1>5, <1>9, <1>10, TreeTypes
    <2>2. DOMAIN local' = Paths /\ local' = [p \in Paths |-> local'[p]]
      BY <1>1
    <2> QED BY <2>1, <2>2 DEF Trees
  <1>12. top \notin ToSet(R)
    BY <1>8
  <1>13. Antichain(R)
    <2>1. ASSUME NEW i \in DOMAIN R, NEW j \in DOMAIN R, i # j PROVE ~IsPrefix(R[i], R[j])
      <3>1. R[i] # R[j]
        BY <1>7, <2>1 DEF IsInjective
      <3>2. R[i] \in ToSet(R) /\ R[j] \in ToSet(R)
        BY DEF ToSet
      <3>3. PICK a \in DOMAIN D, b \in DOMAIN D : D[a] = R[i] /\ D[b] = R[j]
        BY <1>8, <3>2
      <3> QED BY <1>6, <3>1, <3>3 DEF Antichain
    <2> QED BY <2>1 DEF Antichain
  <1>14. ASSUME NEW p \in ToSet(R)
         PROVE  IF Follows(Up(p)) THEN local'[p].kptfile.up.ref = cmd.up.ref ELSE local'[p] = local[p]
    <2>1. p \in Paths /\ Locked[p] = local[p]
      BY <1>5, <1>8
    <2>2. local[p] \in Dirs /\ local[p].kptfile # None /\ local[p].kptfile.up # None
      BY <1>3, <1>8, <2>1, UpTypes, TreeTypes
    <2>4. updateSubKf(local[p]).kptfile.up.ref = cmd.up.ref
      BY <1>3, <2>2, AskFor
    <2>5. local'[p] = IF Follows(Up(p)) THEN updateSubKf(local[p]) ELSE local[p]
      BY <1>1, <2>1
    <2> QED BY <2>4, <2>5
  <1>15. ASSUME NEW q \in Below(top), q # top, IsPackageDir(local', q)
         PROVE  \E d \in Paths :
                  /\ IsPrefix(d, q) /\ IsPrefix(top, d) /\ d # top /\ IsPackageDir(local, d)
                  /\ d \in ToSet(R) \/ (Up(d) = None /\ \A x \in ToSet(R) : ~IsPrefix(x, d))
    <2>1. q \in Paths
      BY DEF Below
    <2>2. IsPackageDir(Locked, q)
      <3>1. CASE q \in ToSet(R)
        BY <1>6, <1>8, <3>1
      <3>2. CASE q \notin ToSet(R)
        BY <1>10, <1>15, <2>1, <3>2 DEF IsPackageDir
      <3> QED BY <3>1, <3>2
    <2>3. PICK i \in DOMAIN D : IsPrefix(D[i], q)
      BY <1>6, <1>15, <2>2
    <2>4. PICK d \in Paths : /\ d = D[i] /\ IsPrefix(top, d) /\ d # top
                             /\ IsPackageDir(Locked, d) /\ d \in ToSet(D)
      BY <1>6 DEF Below, ToSet
    <2>5. IsPrefix(d, q) /\ IsPackageDir(local, d)
      BY <1>5, <2>3, <2>4 DEF IsPackageDir
    <2>6. d \notin ToSet(R) => Up(d) = None
      BY <1>7, <2>4
    <2>7. ASSUME d \notin ToSet(R), NEW x \in ToSet(R), IsPrefix(x, d) PROVE FALSE
      <3>1. PICK j \in DOMAIN D : D[j] = x
        BY <1>8
      <3>2. i # j
        BY <2>4, <2>7, <3>1
      <3> QED BY <1>6, <2>4, <2>7, <3>1, <3>2 DEF Antichain
    <2> QED BY <2>4, <2>5, <2>6, <2>7
  <1>16. /\ local'[top].kptfile # None /\ local'[top].kptfile.up = up /\ local'[top].kptfile.lock = lock
         /\ \A q \in Paths : q # top /\ q \notin ToSet(R) => local'[q] = local[q]
    BY <1>3, <1>5, <1>10, <1>12
  <1> QED BY <1>7, <1>8, <1>9, <1>11, <1>13, <1>14, <1>15, <1>16 DEF R

(* The lock of a package that is finished is of the version that was merged. *)
LEMMA FinishedTop ==
  ASSUME TypeOK, TopInv, Finish
  PROVE  AtLock(top)'
  <1> DEFINE lock == [src |-> spec.src, ref |-> spec.ref]
  <1>1. pc = "merge" /\ UNCHANGED <<history, top>>
    BY DEF Finish, FinishWith, envVars, runVars
  <1>2. /\ local'[top].kptfile # None
        /\ local'[top].kptfile.up = Up(top) /\ local'[top].kptfile.lock = lock
    BY FinishIs
  <1>3. Up(top)' = Up(top) /\ Lock(top)' = lock
    BY <1>1, <1>2 DEF Up, Lock, IsPackageDir
  <1>4. lock # None
    <2>1. lock \in Locks
      BY <1>1 DEF TypeOK, Upstreams, Locks
    <2> QED BY <2>1, NoneAssumption
  <1>5. Up(top) = spec \/ Up(top) = Kf(Upstream(history, spec.src, spec.ref)).up
    BY <1>1 DEF TopInv, Followed, NewUpstream
  <1> QED BY <1>1, <1>3, <1>4, <1>5 DEF AtLock

(* What is finished is current, what it made next is unfinished, and below  *)
(* it there is nothing else that an update comes to.                        *)
LEMMA FinishStep ==
  ASSUME IndInv, Finish
  PROVE  IndInv'
  <1> DEFINE lock == [src |-> spec.src, ref |-> spec.ref]
             R == RemoteBelowTop
  <1>1. /\ pc = "merge" /\ pc' = "fetch" /\ rels = <<>>
        /\ pkgs' = pkgs \o R
        /\ pending' = (pending \ {<<top, Git(spec)>>}) \cup {<<p, Git(Up(p)')>> : p \in ToSet(R)}
        /\ UNCHANGED <<history, cmd, top, spec, base, rels>>
    BY DEF Finish, FinishWith, envVars, runVars
  <1>2. TypeOK /\ CurrentInv /\ StackInv /\ TopInv
    BY DEF IndInv
  <1>3. /\ local \in Trees /\ top \in Paths /\ spec \in Upstreams /\ cmd.up \in Upstreams /\ pkgs \in Seq(Paths)
        /\ \A x \in pending : x[1] \in Paths
    BY <1>1, <1>2 DEF TypeOK
  <1>4. /\ Up(top) \in Followed /\ Antichain(pkgs)
        /\ \A i \in DOMAIN pkgs : /\ pkgs[i] \in Paths /\ Up(pkgs[i]) # None /\ <<pkgs[i], Git(Up(pkgs[i]))>> \in pending
                                  /\ ~IsPrefix(pkgs[i], top) /\ ~IsPrefix(top, pkgs[i])
    BY <1>1, <1>2, <1>3 DEF StackInv, TopInv
  <1>5. /\ local' \in Trees /\ local'[top].kptfile # None
        /\ local'[top].kptfile.up = Up(top) /\ local'[top].kptfile.lock = lock
        /\ R \in Seq(Paths) /\ Antichain(R)
    BY <1>2, FinishIs
  <1>6. \A q \in Paths : q # top /\ q \notin ToSet(R) => local'[q] = local[q]
    BY <1>2, FinishIs
  <1>7. \A q \in Below(top) : q # top /\ IsPackageDir(local', q) =>
          \E d \in Paths :
            /\ IsPrefix(d, q) /\ IsPrefix(top, d) /\ d # top /\ IsPackageDir(local, d)
            /\ d \in ToSet(R) \/ (Up(d) = None /\ \A x \in ToSet(R) : ~IsPrefix(x, d))
    BY <1>2, FinishIs
  <1>8. \A p \in ToSet(R) :
          /\ p \in Paths /\ IsPrefix(top, p) /\ p # top /\ Up(p) # None
          /\ local'[p].kptfile # None /\ local'[p].kptfile.up # None
    BY <1>2, FinishIs
  <1> HIDE DEF R
  <1>12. ASSUME NEW p \in Paths, ~IsPrefix(top, p) PROVE local'[p] = local[p]
    <2>1. p # top
      BY <1>12, PathsAre, PrefixOrder
    <2> QED BY <1>6, <1>8, <1>12, <2>1
  <1>13. ASSUME NEW p \in ToSet(R)
         PROVE  <<p, Git(local'[p].kptfile.up)>> \in pending' /\ <<p, Git(Up(p)')>> \in pending'
    <2>1. Up(p)' = local'[p].kptfile.up
      BY <1>8 DEF Up, IsPackageDir
    <2> QED BY <1>1, <1>8, <2>1
  <1>15. ASSUME NEW q \in Paths PROVE Current(q)'
    <2>1. CASE ~IsPrefix(top, q)
      <3>1. IsPrefix(top, top)
        BY <1>3, PathsAre, PrefixOrder
      <3>2. \A x \in pending : x[1] \in Paths /\ (IsPrefix(top, x[1]) \/ x \in pending')
        BY <1>1, <1>3, <3>1
      <3> QED BY <1>1, <1>2, <1>3, <1>12, <2>1, <3>2, CurrentOutside
    <2>2. CASE q = top
      <3>1. AtLock(top)' /\ top' = top
        BY <1>1, <1>2, FinishedTop
      <3> QED BY <2>2, <3>1 DEF Current
    <2>3. CASE IsPrefix(top, q) /\ q # top
      <3>1. SUFFICES ASSUME Up(q)' # None, Settled(q)', Reached(<<>>, q)'
                     PROVE  FALSE
        BY DEF Current
      <3>2. q \in Below(top) /\ IsPackageDir(local', q)
        BY <2>3, <3>1 DEF Below, Up
      <3>3. PICK d \in Paths :
              /\ IsPrefix(d, q) /\ IsPrefix(top, d) /\ d # top /\ IsPackageDir(local, d)
              /\ d \in ToSet(R) \/ Up(d) = None
        BY <1>7, <2>3, <3>2
      <3>4. d \notin ToSet(R)
        <4>1. ASSUME d \in ToSet(R) PROVE FALSE
          <5>1. <<d, Git(Up(d)')>> \in pending'
            BY <1>13, <4>1
          <5> QED BY <3>1, <3>3, <5>1 DEF Settled
        <4> QED BY <4>1
      <3>5. local'[d] = local[d]
        BY <1>6, <3>3, <3>4
      <3>6. Up(d)' = None /\ IsPackageDir(local', d)
        BY <3>3, <3>4, <3>5 DEF Up, IsPackageDir
      <3>7. d # q
        BY <3>1, <3>6
      <3>8. d \in Below(<<>>) /\ d # <<>>
        <4>1. d \in Strings /\ top \in Strings
          BY <1>3, <3>3, PathsAre
        <4> QED BY <3>3, <4>1, PathsBelow, PrefixOrder
      <3> QED BY <3>1, <3>3, <3>6, <3>7, <3>8 DEF Reached
    <2> QED BY <2>1, <2>2, <2>3
  <1>16. TypeOK'
    <2>1. pkgs' \in Seq(Paths)
      BY <1>1, <1>3, <1>5, ConcatIs
    <2>2. ASSUME NEW x \in pending' PROVE x[1] \in Paths
      <3>1. x \in pending \/ \E p \in ToSet(R) : x = <<p, Git(Up(p)')>>
        BY <1>1
      <3> QED BY <1>3, <1>8, <3>1
    <2> QED BY <1>1, <1>2, <1>5, <2>1, <2>2 DEF TypeOK
  <1>17. StackInv'
    <2>2. \A j \in DOMAIN R : R[j] \in ToSet(R)
      BY DEF ToSet
    <2>3. ASSUME NEW i \in DOMAIN pkgs, NEW j \in DOMAIN R
          PROVE  ~IsPrefix(pkgs[i], R[j]) /\ ~IsPrefix(R[j], pkgs[i])
      <3>1. R[j] \in Strings /\ IsPrefix(top, R[j]) /\ top \in Strings /\ pkgs[i] \in Strings
        BY <1>3, <1>4, <1>8, <2>2, PathsAre
      <3>2. ~IsPrefix(pkgs[i], top) /\ ~IsPrefix(top, pkgs[i])
        BY <1>4
      <3> HIDE DEF R
      <3> QED BY <3>1, <3>2, PrefixOrder
    <2>4. Antichain(pkgs')
      BY <1>1, <1>3, <1>4, <1>5, <2>3, AntichainConcat
    <2>5. ASSUME NEW i \in DOMAIN pkgs'
          PROVE  (Up(pkgs[i]) # None /\ <<pkgs[i], Git(Up(pkgs[i]))>> \in pending)'
      <3> DEFINE x == pkgs'[i]
      <3>1. (i \in DOMAIN pkgs /\ x = pkgs[i]) \/ (i - Len(pkgs) \in DOMAIN R /\ x = R[i - Len(pkgs)])
        BY <1>1, <1>3, <1>5, ConcatIs
      <3> SUFFICES local'[x].kptfile # None /\ local'[x].kptfile.up # None /\ <<x, Git(local'[x].kptfile.up)>> \in pending'
        BY DEF Up, IsPackageDir
      <3> HIDE DEF x
      <3>2. CASE i \in DOMAIN pkgs /\ x = pkgs[i]
        <4>1. x \in Paths /\ ~IsPrefix(top, x) /\ x # top /\ Up(x) # None /\ <<x, Git(Up(x))>> \in pending
          BY <1>3, <1>4, <3>2, PathsAre, PrefixOrder
        <4>2. local'[x] = local[x] /\ local[x].kptfile # None /\ Up(x) = local[x].kptfile.up
          BY <1>3, <1>12, <4>1, UpTypes
        <4> QED BY <1>1, <4>1, <4>2
      <3>3. CASE i - Len(pkgs) \in DOMAIN R /\ x = R[i - Len(pkgs)]
        <4>1. x \in ToSet(R)
          BY <2>2, <3>3
        <4> QED BY <1>8, <1>13, <4>1
      <3> QED BY <3>1, <3>2, <3>3
    <2> QED BY <2>4, <2>5 DEF StackInv
  <1> QED BY <1>1, <1>15, <1>16, <1>17 DEF IndInv, CurrentInv, GetInv, TopInv

(* The end of an update changes nothing on disk.                            *)
LEMMA RunEnds ==
  ASSUME IndInv, Done \/ Abort
  PROVE  IndInv'
  <1>1. TypeOK /\ CurrentInv
    BY DEF IndInv
  <1>2. pc \in {"fetch", "merge"} /\ UNCHANGED <<history, local, pending>>
    BY DEF Done, Abort, envVars
  <1>3. local' \in Trees
    BY <1>1, <1>2 DEF TypeOK
  <1>4. \A q \in Paths : Current(q)'
    <2>1. \A q \in Paths : Current(q)
      BY <1>1, <1>2 DEF CurrentInv
    <2> QED BY <1>2, <2>1 DEF Current, AtLock, Up, Lock, IsPackageDir, Settled, Reached, Below
  <1>5. CASE Abort
    <2>1. Stop
      BY <1>5 DEF Abort
    <2> QED BY <1>1, <1>2, <1>3, <1>4, <2>1, StopStep
  <1>6. CASE Done
    <2>1. pc' = "idle" /\ top' = <<>> /\ base' = None /\ UNCHANGED <<pkgs, rels>>
      BY <1>6 DEF Done
    <2>2. TypeOK'
      BY <1>1, <1>2, <2>1, RootPath DEF TypeOK
    <2> QED BY <1>4, <2>1, <2>2 DEF IndInv, CurrentInv, GetInv, StackInv, TopInv
  <1> QED BY <1>5, <1>6

-----------------------------------------------------------------------------
(* The packages that had the ref of the package that is updated.            *)

(* What is left to do, and the packages that are in it.                     *)
Work == {pkgs[i] : i \in DOMAIN pkgs} \cup (IF pc = "merge" THEN {top} ELSE {})
Ahead(p) == \E w \in Work : IsPrefix(w, p)

(* The update does not come to p: a package above it became local.          *)
Blocked(p) == \E r \in Below(cmd.pkg) \ {cmd.pkg, p} :
  IsPrefix(r, p) /\ IsPackageDir(local, r) /\ Up(r) = None /\ ~Ahead(r)

(* p is to be given the new ref with a package that it is in.               *)
Coming(p) == \E w \in Work : w # p /\ IsPrefix(w, p)

(* p was brought to the new ref, is being brought to it, or asks for it.    *)
AtNewRef(p) ==
  \/ ~Ahead(p) /\ Lock(p) # None /\ Lock(p).ref = cmd.up.ref
  \/ pc = "merge" /\ p = top /\ spec.ref = cmd.up.ref
  \/ Ahead(p) /\ ~(pc = "merge" /\ p = top) /\ Up(p).ref = cmd.up.ref

(* A version that is neither the new one nor one that is replaced by it.    *)
Third(up) == up # None /\ up.ref # cmd.up.ref /\ ~Follows(up)

(* Repinned, by what is finished and what is merged.                        *)
RepinnedBy(q, p) ==
  \/ /\ ~Ahead(q) /\ Lock(q) # None
     /\ Third(UpAt(Upstream(history, Lock(q).src, Lock(q).ref), Rest(q, p)))
  \/ pc = "merge" /\ q = top /\ Third(UpAt(NewUpstream, Rest(q, p)))
RepinnedSoFar(p) == \E q \in Paths \ {p} : IsPrefix(q, p) /\ RepinnedBy(q, p)

WorkInv == pc \in {"fetch", "merge"} =>
  cmd.pkg \in Paths /\ \A w \in Work : w \in Below(cmd.pkg)

(* What the update came by is at the version that it asks for.              *)
BehindInv == pc \in {"fetch", "merge"} =>
  \A p \in Below(cmd.pkg) : Up(p) # None => AtLock(p) \/ Ahead(p) \/ Blocked(p)

MatesInv == pc \in {"fetch", "merge"} =>
  \A p \in mates :
    /\ p \in Below(cmd.pkg) /\ p # cmd.pkg
    /\ Up(p) # None => \/ RepinnedSoFar(p) \/ Blocked(p) \/ AtNewRef(p)
                       \/ Follows(Up(p)) /\ Coming(p)

TogetherInv == WorkInv /\ BehindInv /\ MatesInv

(* A step that goes on with t: what is left to do is in what was, and what  *)
(* is not in t stays.                                                       *)
Narrows(t) ==
  /\ t \in Work /\ Work \subseteq Paths /\ Work' \subseteq Paths
  /\ UNCHANGED <<history, cmd, mates>>
  /\ \A w \in Work' : Ahead(w)
  /\ \A q \in Paths : ~IsPrefix(t, q) => local'[q] = local[q]

(* What is done stays as it is.                                             *)
LEMMA BehindStays ==
  ASSUME NEW t, Narrows(t), NEW q \in Paths, ~Ahead(q)
  PROVE  /\ ~Ahead(q)' /\ Up(q)' = Up(q) /\ Lock(q)' = Lock(q)
         /\ (IsPackageDir(local', q) <=> IsPackageDir(local, q))
  <1>1. local'[q] = local[q]
    BY DEF Narrows, Ahead
  <1>2. ASSUME NEW w \in Work', IsPrefix(w, q) PROVE FALSE
    <2>1. PICK v \in Work : IsPrefix(v, w)
      BY DEF Narrows, Ahead
    <2>2. v \in Strings /\ w \in Strings /\ q \in Strings
      BY PathsAre DEF Narrows
    <2>3. IsPrefix(v, q)
      BY <1>2, <2>1, <2>2, PrefixOrder
    <2> QED BY <2>1, <2>3 DEF Ahead
  <1> QED BY <1>1, <1>2 DEF Ahead, Up, Lock, IsPackageDir

(* What the update does not come to, it does not come to later.             *)
LEMMA BlockedStays ==
  ASSUME NEW t, Narrows(t), NEW p, Blocked(p)
  PROVE  Blocked(p)'
  <1>1. PICK r \in Below(cmd.pkg) \ {cmd.pkg, p} :
          IsPrefix(r, p) /\ IsPackageDir(local, r) /\ Up(r) = None /\ ~Ahead(r)
    BY DEF Blocked
  <1>2. r \in Paths /\ cmd' = cmd
    BY DEF Below, Narrows
  <1>3. ~Ahead(r)' /\ Up(r)' = None /\ IsPackageDir(local', r)
    BY <1>1, <1>2, BehindStays
  <1>4. r \in Below(cmd'.pkg) \ {cmd'.pkg, p}
    BY <1>2
  <1> QED BY <1>1, <1>3, <1>4 DEF Blocked

(* What repinned a package goes on doing so.                                *)
LEMMA RepinnedStays ==
  ASSUME NEW t, Narrows(t), NEW p, NEW q \in Paths, ~Ahead(q), Lock(q) # None,
         Third(UpAt(Upstream(history, Lock(q).src, Lock(q).ref), Rest(q, p)))
  PROVE  RepinnedBy(q, p)'
  <1>1. ~Ahead(q)' /\ Lock(q)' = Lock(q) /\ history' = history /\ cmd' = cmd
    BY BehindStays DEF Narrows
  <1> QED BY <1>1 DEF RepinnedBy, Third, Follows

(* The command begins with its package.                                     *)
LEMMA RunTogether ==
  ASSUME IndInv, Run
  PROVE  TogetherInv'
  <1>1. PICK P \in Paths, v \in Versions, s \in RunStrategies :
          /\ Up(P) # None
          /\ local' = [local EXCEPT ![P].kptfile.up = [Up(P) EXCEPT !.ref = v, !.strat = s]]
          /\ cmd' = [pkg |-> P, from |-> Up(P).ref, up |-> [Up(P) EXCEPT !.ref = v, !.strat = s]]
          /\ pc' = "fetch" /\ pkgs' = <<P>>
          /\ mates' = {q \in Below(P) \ {P} : /\ Reached(P, q) /\ Up(q) # None
                                             /\ Up(q).ref = Up(P).ref /\ <<Up(P).src, Up(q).src>> \in Within}
    BY DEF Run, envVars
  <1>2. local \in Trees
    BY DEF IndInv, TypeOK
  <1>3. Up(P) \in Upstreams
    BY <1>1, <1>2, UpTypes
  <1>4. cmd'.pkg = P /\ cmd'.from = Up(P).ref /\ cmd'.up.src = Up(P).src
    BY <1>1, <1>3 DEF Upstreams
  <1>5. Work' = {P}
    BY <1>1 DEF Work
  <1>6. P \in Below(P)
    BY PathsBelow
  <1>7. WorkInv'
    BY <1>4, <1>5, <1>6 DEF WorkInv
  <1>8. \A q \in Below(P) : Ahead(q)'
    BY <1>5 DEF Ahead, Below
  <1>9. BehindInv'
    BY <1>4, <1>8 DEF BehindInv
  <1>10. ASSUME NEW q \in mates'
         PROVE  q \in Below(P) /\ q # P /\ Follows(Up(q))' /\ Coming(q)'
    <2>1. /\ q \in Below(P) /\ q # P /\ IsPrefix(P, q) /\ q \in Paths
          /\ Up(q).ref = Up(P).ref /\ <<Up(P).src, Up(q).src>> \in Within
      BY <1>1 DEF Below
    <2>2. local'[q] = local[q]
      BY <1>1, <1>2, <2>1 DEF Trees
    <2>3. Up(q)' = Up(q)
      BY <2>2 DEF Up, IsPackageDir
    <2>4. Follows(Up(q))'
      BY <1>4, <2>1, <2>3 DEF Follows
    <2>5. Coming(q)'
      BY <1>5, <2>1 DEF Coming
    <2> QED BY <2>1, <2>4, <2>5
  <1>11. MatesInv'
    BY <1>4, <1>10 DEF MatesInv
  <1> QED BY <1>7, <1>9, <1>11 DEF TogetherInv

(* What is left to do are packages.                                         *)
LEMMA WorkPaths == TypeOK => Work \subseteq Paths
  <1> SUFFICES ASSUME TypeOK PROVE Work \subseteq Paths
    OBVIOUS
  <1>1. pkgs \in Seq(Paths) /\ top \in Paths
    BY DEF TypeOK
  <1>2. \A i \in DOMAIN pkgs : pkgs[i] \in Paths
    BY <1>1
  <1> QED BY <1>1, <1>2 DEF Work

(* A fetch leaves what is left to do.                                       *)
LEMMA FetchTogether ==
  ASSUME IndInv, TogetherInv, Fetch
  PROVE  TogetherInv'
  <1>1. /\ pc = "fetch" /\ pkgs # <<>> /\ top' = Last(pkgs) /\ pkgs' = Front(pkgs) /\ pc' = "merge"
        /\ spec' = Up(top')
        /\ UNCHANGED <<history, cmd, local, mates>>
    BY DEF Fetch, FetchFrom, envVars
  <1>2. pkgs \in Seq(Paths)
    BY DEF IndInv, TypeOK
  <1>3. /\ Len(pkgs) \in DOMAIN pkgs /\ top' = pkgs[Len(pkgs)] /\ DOMAIN pkgs' = 1 .. Len(pkgs) - 1
        /\ \A i \in DOMAIN pkgs' : i \in DOMAIN pkgs /\ pkgs'[i] = pkgs[i]
    BY <1>1, <1>2, FrontIs
  <1>4. Work' = Work
    <2>1. \A i \in DOMAIN pkgs : i \in DOMAIN pkgs' \/ i = Len(pkgs)
      BY <1>2, <1>3
    <2>2. Work = {pkgs[i] : i \in DOMAIN pkgs} /\ Work' = {pkgs'[i] : i \in DOMAIN pkgs'} \cup {top'}
      BY <1>1 DEF Work
    <2> QED BY <1>3, <2>1, <2>2
  <1>5. /\ \A q : Ahead(q)' <=> Ahead(q)
        /\ \A q : Up(q)' = Up(q) /\ Lock(q)' = Lock(q)
        /\ \A q : IsPackageDir(local', q) <=> IsPackageDir(local, q)
    BY <1>1, <1>4 DEF Ahead, Up, Lock, IsPackageDir
  <1>6. \A q : (Blocked(q)' <=> Blocked(q)) /\ (Coming(q)' <=> Coming(q))
    BY <1>1, <1>4, <1>5 DEF Blocked, Coming
  <1>7. \A u : (Follows(u)' <=> Follows(u)) /\ (Third(u)' <=> Third(u))
    BY <1>1 DEF Follows, Third
  <1>8. ASSUME NEW p, RepinnedSoFar(p) PROVE RepinnedSoFar(p)'
    <2>1. PICK q \in Paths \ {p} : IsPrefix(q, p) /\ RepinnedBy(q, p)
      BY <1>8 DEF RepinnedSoFar
    <2> DEFINE u == UpAt(Upstream(history, Lock(q).src, Lock(q).ref), Rest(q, p))
    <2>2. ~Ahead(q) /\ Lock(q) # None /\ Third(u)
      BY <1>1, <2>1 DEF RepinnedBy
    <2>3. u' = u /\ ~Ahead(q)' /\ Lock(q)' # None
      BY <1>1, <1>5, <2>2
    <2>4. Third(u)'
      <3> HIDE DEF u
      <3> QED BY <1>7, <2>2, <2>3
    <2>5. RepinnedBy(q, p)'
      BY <2>3, <2>4 DEF RepinnedBy
    <2> QED BY <2>1, <2>5 DEF RepinnedSoFar
  <1>9. WorkInv'
    BY <1>1, <1>4 DEF TogetherInv, WorkInv
  <1>10. BehindInv'
    <2>1. ASSUME NEW p \in Below(cmd.pkg), Up(p)' # None
          PROVE  AtLock(p)' \/ Ahead(p)' \/ Blocked(p)'
      <3>1. AtLock(p) \/ Ahead(p) \/ Blocked(p)
        BY <1>1, <1>5, <2>1 DEF TogetherInv, BehindInv
      <3>2. AtLock(p)' <=> AtLock(p)
        BY <1>1, <1>5, AtLockStays
      <3> QED BY <1>5, <1>6, <3>1, <3>2
    <2> QED BY <1>1, <2>1 DEF BehindInv
  <1>11. MatesInv'
    <2>1. ASSUME NEW p \in mates
          PROVE  /\ p \in Below(cmd.pkg) /\ p # cmd.pkg
                 /\ Up(p)' # None => \/ RepinnedSoFar(p)' \/ Blocked(p)' \/ AtNewRef(p)'
                                     \/ Follows(Up(p)') /\ Coming(p)'
      <3>1. Up(p)' = Up(p) /\ (Coming(p)' <=> Coming(p)) /\ (Blocked(p)' <=> Blocked(p))
        BY <1>5, <1>6
      <3>2. /\ p \in Below(cmd.pkg) /\ p # cmd.pkg
            /\ Up(p) # None => \/ RepinnedSoFar(p) \/ Blocked(p) \/ AtNewRef(p)
                               \/ Follows(Up(p)) /\ Coming(p)
        BY <1>1 DEF TogetherInv, MatesInv
      <3>3. AtNewRef(p) => AtNewRef(p)'
        BY <1>1, <1>5 DEF AtNewRef
      <3> QED BY <1>8, <3>1, <3>2, <3>3
    <2>2. cmd' = cmd /\ mates' = mates
      BY <1>1
    <2> QED BY <1>7, <2>1, <2>2 DEF MatesInv
  <1> QED BY <1>9, <1>10, <1>11 DEF TogetherInv

(* A merge gives packages what they follow upstream: the old ref, which is  *)
(* replaced when the merged package is finished, the new one, or another.   *)
LEMMA MergeTogether ==
  ASSUME IndInv, TogetherInv, Merge
  PROVE  TogetherInv'
  <1>1. /\ pc = "merge" /\ (Stop \/ UNCHANGED <<pc, pkgs, cmd, top, spec>>) /\ UNCHANGED <<history, mates>>
    BY DEF Merge, envVars
  <1>2. CASE Stop
    BY <1>2 DEF Stop, TogetherInv, WorkInv, BehindInv, MatesInv
  <1>3. SUFFICES ASSUME UNCHANGED <<pc, pkgs, cmd, top, spec>> PROVE TogetherInv'
    BY <1>1, <1>2
  <1>4. /\ TypeOK /\ TopInv /\ top \in Paths /\ Up(top) # None /\ WorkInv /\ BehindInv /\ MatesInv
        /\ \A i \in DOMAIN pkgs : ~IsPrefix(pkgs[i], top)
    BY <1>1 DEF IndInv, TypeOK, TopInv, TogetherInv, Followed
  <1>5. /\ \A q \in Paths : ~IsPrefix(top, q) => local'[q] = local[q]
        /\ \A q \in Below(top) : UpAt(local', q) \in {None, UpAt(local, q), UpAt(NewUpstream, Rest(top, q))}
    BY <1>4, MergeIs
  <1>6. Work' = Work /\ top \in Work /\ Work \subseteq Paths
    BY <1>1, <1>3, <1>4, WorkPaths DEF Work
  <1>7. \A q : Ahead(q)' <=> Ahead(q)
    BY <1>6 DEF Ahead
  <1>8. Narrows(top)
    <2>1. \A w \in Work : Ahead(w)
      BY <1>6, PathsAre, PrefixOrder DEF Ahead
    <2> QED BY <1>1, <1>3, <1>5, <1>6, <2>1 DEF Narrows
  <1>9. WorkInv'
    BY <1>1, <1>3, <1>4, <1>6 DEF WorkInv
  <1>10. ASSUME NEW p \in Paths, ~IsPrefix(top, p)
         PROVE  Up(p)' = Up(p) /\ Lock(p)' = Lock(p) /\ (AtLock(p)' <=> AtLock(p))
    <2>1. local'[p] = local[p]
      BY <1>5, <1>10
    <2>2. Up(p)' = Up(p) /\ Lock(p)' = Lock(p)
      BY <2>1 DEF Up, Lock, IsPackageDir
    <2> QED BY <1>1, <2>2, AtLockStays
  <1>11. \A p : Blocked(p) => Blocked(p)'
    BY <1>8, BlockedStays
  <1>12. BehindInv'
    <2>1. ASSUME NEW p \in Below(cmd.pkg), Up(p)' # None
          PROVE  AtLock(p)' \/ Ahead(p)' \/ Blocked(p)'
      <3>1. CASE IsPrefix(top, p)
        BY <1>6, <3>1 DEF Ahead
      <3>2. CASE ~IsPrefix(top, p)
        <4>1. p \in Paths
          BY DEF Below
        <4>2. Up(p) # None
          BY <1>10, <2>1, <3>2, <4>1
        <4>3. AtLock(p) \/ Ahead(p) \/ Blocked(p)
          BY <1>1, <1>4, <4>2 DEF BehindInv
        <4> QED BY <1>7, <1>10, <1>11, <3>2, <4>1, <4>3
      <3> QED BY <3>1, <3>2
    <2> QED BY <1>1, <1>3, <2>1 DEF BehindInv
  <1>13. ASSUME NEW p \in Paths, RepinnedSoFar(p) PROVE RepinnedSoFar(p)'
    <2>1. PICK q \in Paths \ {p} : IsPrefix(q, p) /\ RepinnedBy(q, p)
      BY <1>13 DEF RepinnedSoFar
    <2>2. RepinnedBy(q, p)'
      <3>1. CASE pc = "merge" /\ q = top /\ Third(UpAt(NewUpstream, Rest(q, p)))
        BY <1>1, <1>3, <3>1 DEF RepinnedBy, Third, Follows, NewUpstream
      <3>2. CASE /\ ~Ahead(q) /\ Lock(q) # None
                 /\ Third(UpAt(Upstream(history, Lock(q).src, Lock(q).ref), Rest(q, p)))
        BY <1>8, <3>2, RepinnedStays
      <3> QED BY <2>1, <3>1, <3>2 DEF RepinnedBy
    <2> QED BY <2>1, <2>2 DEF RepinnedSoFar
  <1>14. \A u : Follows(u)' <=> Follows(u)
    BY <1>3 DEF Follows
  <1>15. ASSUME NEW p \in mates, Up(p)' # None
         PROVE  \/ RepinnedSoFar(p)' \/ Blocked(p)' \/ AtNewRef(p)'
                \/ Follows(Up(p)') /\ Coming(p)'
    <2>1. p \in Paths /\ cmd' = cmd
      BY <1>1, <1>3, <1>4 DEF MatesInv, Below
    <2>2. CASE Up(p)' = Up(p) \/ p = top
      <3>1. RepinnedSoFar(p) \/ Blocked(p) \/ AtNewRef(p) \/ (Follows(Up(p)) /\ Coming(p))
        BY <1>1, <1>4, <1>15, <2>2 DEF MatesInv
      <3>2. Coming(p) => Coming(p)' /\ p # top
        BY <1>1, <1>4, <1>6 DEF Coming, Work
      <3>3. AtNewRef(p) => AtNewRef(p)'
        <4>1. ~Ahead(p) => Lock(p)' = Lock(p)
          BY <1>8, <2>1, BehindStays
        <4>2. p = top => Ahead(p)
          BY <1>4, <1>6, PathsAre, PrefixOrder DEF Ahead
        <4> QED BY <1>1, <1>3, <1>7, <2>2, <4>1, <4>2 DEF AtNewRef
      <3> QED BY <1>11, <1>13, <2>1, <2>2, <3>1, <3>2, <3>3
    <2>3. CASE Up(p)' # Up(p) /\ p # top
      <3>1. IsPrefix(top, p) /\ p \in Below(top)
        BY <1>10, <2>1, <2>3 DEF Below
      <3>2. p # top
        BY <2>3
      <3> DEFINE u == UpAt(NewUpstream, Rest(top, p))
      <3>3. Up(p)' = UpAt(local', p) /\ Up(p) = UpAt(local, p)
        BY DEF Up, UpAt, IsPackageDir
      <3>4. Up(p)' = u /\ u # None
        BY <1>5, <1>15, <2>3, <3>1, <3>3
      <3>5. ASSUME Third(u) PROVE RepinnedSoFar(p)'
        <4>1. RepinnedBy(top, p)'
          BY <1>1, <1>3, <3>5 DEF RepinnedBy, Third, Follows, NewUpstream
        <4> QED BY <1>3, <1>4, <3>1, <3>2, <4>1 DEF RepinnedSoFar
      <3>6. Coming(p)' /\ Ahead(p)'
        BY <1>6, <3>1, <3>2 DEF Coming, Ahead
      <3> HIDE DEF u
      <3>7. Third(u) \/ u.ref = cmd.up.ref \/ Follows(u)
        BY <3>4 DEF Third
      <3>8. u.ref = cmd.up.ref => AtNewRef(p)'
        BY <1>3, <2>1, <3>2, <3>4, <3>6 DEF AtNewRef
      <3> QED BY <1>14, <2>1, <3>4, <3>5, <3>6, <3>7, <3>8
    <2> QED BY <2>2, <2>3
  <1>16. MatesInv'
    <2>1. \A p \in mates : p \in Below(cmd.pkg) /\ p # cmd.pkg
      BY <1>1, <1>4 DEF MatesInv
    <2> QED BY <1>1, <1>3, <1>14, <1>15, <2>1 DEF MatesInv
  <1> QED BY <1>9, <1>12, <1>16 DEF TogetherInv

(* A package that is finished is at the new version, and so are, or will    *)
(* be, those that are in it: none is passed by but inside local packages.   *)
LEMMA FinishTogether ==
  ASSUME IndInv, TogetherInv, Finish
  PROVE  TogetherInv'
  <1> DEFINE lock == [src |-> spec.src, ref |-> spec.ref]
             R == RemoteBelowTop
  <1>1. /\ pc = "merge" /\ pc' = "fetch" /\ pkgs' = pkgs \o R
        /\ UNCHANGED <<history, cmd, top, spec, mates>>
    BY DEF Finish, FinishWith, envVars, runVars
  <1>2. TypeOK /\ TopInv /\ WorkInv /\ BehindInv /\ MatesInv
    BY DEF IndInv, TogetherInv
  <1>3. /\ local \in Trees /\ top \in Paths /\ spec \in Upstreams /\ pkgs \in Seq(Paths) /\ Up(top) # None
        /\ \A i \in DOMAIN pkgs : pkgs[i] \in Paths /\ ~IsPrefix(pkgs[i], top) /\ ~IsPrefix(top, pkgs[i])
    BY <1>1, <1>2 DEF TypeOK, TopInv, Followed
  <1>4. /\ local' \in Trees /\ local'[top].kptfile # None
        /\ local'[top].kptfile.up = Up(top) /\ local'[top].kptfile.lock = lock
        /\ R \in Seq(Paths)
    BY <1>2, FinishIs
  <1>5. \A q \in Paths : q # top /\ q \notin ToSet(R) => local'[q] = local[q]
    BY <1>2, FinishIs
  <1>6. \A p \in ToSet(R) :
          /\ p \in Paths /\ IsPrefix(top, p) /\ p # top /\ Up(p) # None
          /\ local'[p].kptfile # None
          /\ IF Follows(Up(p)) THEN local'[p].kptfile.up.ref = cmd.up.ref ELSE local'[p] = local[p]
    BY <1>2, FinishIs
  <1>7. \A q \in Below(top) : q # top /\ IsPackageDir(local', q) =>
          \E d \in Paths :
            /\ IsPrefix(d, q) /\ IsPrefix(top, d) /\ d # top /\ IsPackageDir(local, d)
            /\ d \in ToSet(R) \/ (Up(d) = None /\ \A x \in ToSet(R) : ~IsPrefix(x, d))
    BY <1>2, FinishIs
  <1>8. /\ Work = {pkgs[i] : i \in DOMAIN pkgs} \cup {top}
        /\ Work' = {pkgs[i] : i \in DOMAIN pkgs} \cup ToSet(R)
    <2>1. Work = {pkgs[i] : i \in DOMAIN pkgs} \cup {top} /\ Work' = {pkgs'[i] : i \in DOMAIN pkgs'}
      BY <1>1 DEF Work
    <2> HIDE DEF R
    <2>2. /\ \A i \in DOMAIN pkgs' : (i \in DOMAIN pkgs /\ pkgs'[i] = pkgs[i]) \/ pkgs'[i] \in ToSet(R)
          /\ \A i \in DOMAIN pkgs : i \in DOMAIN pkgs' /\ pkgs'[i] = pkgs[i]
      BY <1>1, <1>3, <1>4, ConcatIs DEF ToSet
    <2>3. ASSUME NEW x \in ToSet(R) PROVE \E i \in DOMAIN pkgs' : pkgs'[i] = x
      <3>1. PICK j \in DOMAIN R : R[j] = x
        BY DEF ToSet
      <3>2. Len(pkgs) + j \in DOMAIN pkgs' /\ pkgs'[Len(pkgs) + j] = R[j]
        BY <1>1, <1>3, <1>4, ConcatIs
      <3> QED BY <3>1, <3>2
    <2> QED BY <2>1, <2>2, <2>3
  <1> HIDE DEF R
  <1>9. \A p, q \in Paths : IsPrefix(p, q) /\ IsPrefix(q, p) => p = q
    <2>1. \A p \in Paths : p \in Strings /\ Len(p) \in Nat
      BY PathsAre DEF Strings
    <2> QED BY <2>1, PrefixOrder
  <1>10. /\ \A p \in Paths : IsPrefix(p, p)
         /\ \A p, q, r \in Paths : IsPrefix(p, q) /\ IsPrefix(q, r) => IsPrefix(p, r)
         /\ \A p, q, r \in Paths : IsPrefix(p, r) /\ IsPrefix(q, r) => IsPrefix(p, q) \/ IsPrefix(q, p)
    BY PathsAre, PrefixOrder
  <1>11. ~Ahead(top)'
    BY <1>1, <1>3, <1>6, <1>8, <1>9 DEF Ahead
  <1>12. Narrows(top)
    <2>1. top \in Work /\ Work \subseteq Paths /\ Work' \subseteq Paths
      BY <1>3, <1>6, <1>8
    <2>2. \A w \in Work' : Ahead(w)
      BY <1>3, <1>6, <1>8, <1>10 DEF Ahead
    <2>3. \A q \in Paths : ~IsPrefix(top, q) => local'[q] = local[q]
      BY <1>3, <1>5, <1>6, <1>10
    <2> QED BY <1>1, <2>1, <2>2, <2>3 DEF Narrows
  <1>13. cmd.pkg \in Paths /\ \A w \in Work : w \in Paths /\ IsPrefix(cmd.pkg, w)
    BY <1>1, <1>2 DEF WorkInv, Below
  <1>14. WorkInv'
    <2>1. \A w \in Work' : w \in Below(cmd.pkg)
      BY <1>3, <1>6, <1>8, <1>10, <1>13 DEF Below
    <2> QED BY <1>1, <1>13, <2>1 DEF WorkInv
  <1>15. ASSUME NEW p \in Below(top), p # top, Up(p)' # None
         PROVE  p \in ToSet(R) \/ Coming(p)' \/ Blocked(p)'
    <2>1. p \in Paths /\ IsPackageDir(local', p)
      BY <1>15 DEF Below, Up
    <2>2. PICK d \in Paths :
            /\ IsPrefix(d, p) /\ IsPrefix(top, d) /\ d # top /\ IsPackageDir(local, d)
            /\ d \in ToSet(R) \/ (Up(d) = None /\ \A x \in ToSet(R) : ~IsPrefix(x, d))
      BY <1>7, <1>15, <2>1
    <2>3. CASE d \in ToSet(R)
      BY <1>8, <2>2, <2>3 DEF Coming
    <2>4. CASE Up(d) = None /\ \A x \in ToSet(R) : ~IsPrefix(x, d)
      <3>1. local'[d] = local[d]
        BY <1>5, <1>10, <2>2, <2>4
      <3>2. Up(d)' = None /\ IsPackageDir(local', d)
        BY <2>2, <2>4, <3>1 DEF Up, IsPackageDir
      <3>3. ~Ahead(d)'
        BY <1>3, <1>8, <1>10, <2>2, <2>4 DEF Ahead
      <3>4. d \in Below(cmd.pkg) \ {cmd.pkg, p}
        <4>1. top \in Work
          BY <1>8
        <4> QED BY <1>3, <1>9, <1>10, <1>13, <1>15, <2>2, <3>2, <4>1 DEF Below
      <3>5. Blocked(p)'
        BY <1>1, <2>2, <3>2, <3>3, <3>4 DEF Blocked
      <3> QED BY <3>5
    <2> QED BY <2>2, <2>3, <2>4
  <1>16. \A p : Blocked(p) => Blocked(p)'
    BY <1>12, BlockedStays
  <1>17. \A w \in Work : w # top => w \in Work'
    BY <1>8
  <1>18. ASSUME NEW p \in Paths, p # top, p \notin ToSet(R)
         PROVE  Up(p)' = Up(p) /\ Lock(p)' = Lock(p) /\ (AtLock(p)' <=> AtLock(p))
    <2>1. local'[p] = local[p]
      BY <1>5, <1>18
    <2>2. Up(p)' = Up(p) /\ Lock(p)' = Lock(p)
      BY <2>1 DEF Up, Lock, IsPackageDir
    <2> QED BY <1>1, <2>2, AtLockStays
  <1>19. /\ \A p : p = top => Up(p)' = Up(p) /\ Lock(p)' = lock
         /\ lock # None
    <2>1. lock \in Locks
      BY <1>3 DEF Upstreams, Locks
    <2>2. \A p : p = top => Up(p)' = local'[p].kptfile.up /\ Lock(p)' = local'[p].kptfile.lock
      BY <1>4 DEF Up, Lock, IsPackageDir
    <2> QED BY <1>4, <2>1, <2>2, NoneAssumption
  <1>20. BehindInv'
    <2>1. ASSUME NEW p \in Below(cmd.pkg), Up(p)' # None
          PROVE  AtLock(p)' \/ Ahead(p)' \/ Blocked(p)'
      <3>1. p \in Paths
        BY DEF Below
      <3>2. CASE ~IsPrefix(top, p)
        <4>1. p # top /\ p \notin ToSet(R)
          BY <1>3, <1>6, <1>10, <3>2
        <4>2. AtLock(p) \/ Ahead(p) \/ Blocked(p)
          BY <1>1, <1>2, <1>18, <2>1, <3>1, <4>1 DEF BehindInv
        <4>3. Ahead(p) => Ahead(p)'
          BY <1>17, <3>2 DEF Ahead
        <4> QED BY <1>16, <1>18, <3>1, <4>1, <4>2, <4>3
      <3>3. CASE p = top
        <4>1. AtLock(top)' /\ top' = top
          BY <1>1, <1>2, FinishedTop
        <4> QED BY <3>3, <4>1
      <3>4. CASE IsPrefix(top, p) /\ p # top
        <4>1. p \in ToSet(R) \/ Coming(p)' \/ Blocked(p)'
          BY <1>15, <2>1, <3>1, <3>4 DEF Below
        <4> QED BY <1>8, <1>10, <3>1, <4>1 DEF Coming, Ahead
      <3> QED BY <3>2, <3>3, <3>4
    <2> QED BY <1>1, <2>1 DEF BehindInv
  <1>21. ASSUME NEW p \in Paths, RepinnedSoFar(p) PROVE RepinnedSoFar(p)'
    <2>1. PICK q \in Paths \ {p} : IsPrefix(q, p) /\ RepinnedBy(q, p)
      BY <1>21 DEF RepinnedSoFar
    <2>2. RepinnedBy(q, p)'
      <3>1. CASE q = top /\ Third(UpAt(NewUpstream, Rest(q, p)))
        <4>1. Upstream(history, lock.src, lock.ref) = NewUpstream /\ lock # None
          <5>1. lock \in Locks
            BY <1>3 DEF Upstreams, Locks
          <5> QED BY <5>1, NoneAssumption DEF NewUpstream
        <4> DEFINE u == UpAt(NewUpstream, Rest(q, p))
                   v == UpAt(Upstream(history, Lock(q).src, Lock(q).ref), Rest(q, p))
        <4>2. v' = u /\ Lock(q)' # None /\ ~Ahead(q)'
          BY <1>1, <1>11, <1>19, <3>1, <4>1
        <4>3. Third(v)'
          <5> HIDE DEF u, v
          <5>1. Third(u)
            BY <3>1 DEF u
          <5> QED BY <1>1, <4>2, <5>1 DEF Third, Follows
        <4> QED BY <4>2, <4>3 DEF RepinnedBy
      <3>2. CASE /\ ~Ahead(q) /\ Lock(q) # None
                 /\ Third(UpAt(Upstream(history, Lock(q).src, Lock(q).ref), Rest(q, p)))
        BY <1>12, <3>2, RepinnedStays
      <3> QED BY <2>1, <3>1, <3>2 DEF RepinnedBy
    <2> QED BY <2>1, <2>2 DEF RepinnedSoFar
  <1>22. \A u : Follows(u)' <=> Follows(u)
    BY <1>1 DEF Follows
  <1>23. ASSUME NEW p \in mates, Up(p)' # None
         PROVE  \/ RepinnedSoFar(p)' \/ Blocked(p)' \/ AtNewRef(p)'
                \/ Follows(Up(p)') /\ Coming(p)'
    <2>1. p \in Paths /\ IsPrefix(top, top)
      BY <1>1, <1>2, <1>3, <1>10 DEF MatesInv, Below
    <2>2. Up(p) # None => RepinnedSoFar(p) \/ Blocked(p) \/ AtNewRef(p) \/ (Follows(Up(p)) /\ Coming(p))
      BY <1>1, <1>2 DEF MatesInv
    <2>3. (RepinnedSoFar(p) => RepinnedSoFar(p)') /\ (Blocked(p) => Blocked(p)')
      BY <1>16, <1>21, <2>1
    <2>4. IsPrefix(top, p) => Ahead(p)
      BY <1>8 DEF Ahead
    <2>5. CASE p = top
      <3>1. ~Coming(p)
        BY <1>3, <1>8, <2>5 DEF Coming
      <3>2. AtNewRef(p) => spec.ref = cmd.up.ref
        BY <1>1, <2>1, <2>4, <2>5 DEF AtNewRef
      <3>3. spec.ref = cmd.up.ref => AtNewRef(p)'
        <4>1. ~Ahead(p)' /\ Lock(p)' = lock /\ lock # None /\ lock.ref = spec.ref /\ cmd' = cmd
          BY <1>1, <1>11, <1>19, <2>5
        <4> HIDE DEF lock
        <4> QED BY <4>1 DEF AtNewRef
      <3> QED BY <1>3, <2>2, <2>3, <2>5, <3>1, <3>2, <3>3
    <2>6. CASE p \in ToSet(R)
      <3>1. /\ p # top /\ IsPrefix(top, p) /\ Up(p) # None /\ Up(p)' = local'[p].kptfile.up
            /\ Up(p)'.ref = cmd.up.ref \/ (Up(p)' = Up(p) /\ ~Follows(Up(p)))
        <4>1. Up(p)' = local'[p].kptfile.up
          BY <1>6, <2>6 DEF Up, IsPackageDir
        <4>2. CASE Follows(Up(p))
          <5>1. Up(p) # None
            BY <1>6, <2>6
          <5> QED BY <1>6, <2>6, <4>1, <4>2, <5>1
        <4>3. CASE ~Follows(Up(p))
          <5>1. local'[p] = local[p]
            BY <1>6, <2>6, <4>3
          <5>2. Up(p)' = Up(p)
            BY <5>1 DEF Up, IsPackageDir
          <5> QED BY <1>6, <1>23, <2>6, <4>1, <4>3, <5>2
        <4> QED BY <4>2, <4>3
      <3>2. Ahead(p)' /\ pc' # "merge" /\ cmd' = cmd
        BY <1>1, <1>8, <1>10, <2>1, <2>6 DEF Ahead
      <3>3. AtNewRef(p) => Up(p).ref = cmd.up.ref
        BY <2>4, <3>1 DEF AtNewRef
      <3>4. Up(p)'.ref = cmd.up.ref => AtNewRef(p)'
        BY <3>2 DEF AtNewRef
      <3> QED BY <2>2, <2>3, <3>1, <3>3, <3>4
    <2>7. CASE IsPrefix(top, p) /\ p # top /\ p \notin ToSet(R)
      <3>1. Up(p)' = Up(p) /\ pc' # "merge" /\ cmd' = cmd
        BY <1>1, <1>18, <2>1, <2>7
      <3>2. Coming(p)' \/ Blocked(p)'
        BY <1>15, <1>23, <2>1, <2>7 DEF Below
      <3>3. AtNewRef(p) => Up(p).ref = cmd.up.ref
        BY <2>4, <2>7 DEF AtNewRef
      <3>4. Coming(p)' => Ahead(p)'
        BY DEF Coming, Ahead
      <3>5. Up(p).ref = cmd.up.ref /\ Coming(p)' => AtNewRef(p)'
        BY <3>1, <3>4 DEF AtNewRef
      <3> QED BY <1>23, <2>2, <2>3, <3>1, <3>2, <3>3, <3>5
    <2>8. CASE ~IsPrefix(top, p)
      <3>1. p # top /\ p \notin ToSet(R)
        BY <1>6, <2>1, <2>8
      <3>2. Up(p)' = Up(p) /\ Lock(p)' = Lock(p) /\ pc' # "merge" /\ cmd' = cmd
        BY <1>1, <1>18, <2>1, <3>1
      <3>3. (Coming(p) => Coming(p)') /\ (Ahead(p) => Ahead(p)')
        BY <1>17, <2>8 DEF Coming, Ahead
      <3>4. ~Ahead(p) => ~Ahead(p)'
        BY <1>12, <2>1, BehindStays
      <3>5. AtNewRef(p) => AtNewRef(p)'
        BY <3>1, <3>2, <3>3, <3>4 DEF AtNewRef
      <3> QED BY <1>23, <2>2, <2>3, <3>2, <3>3, <3>5
    <2> QED BY <2>5, <2>6, <2>7, <2>8
  <1>24. MatesInv'
    <2>1. \A p \in mates : p \in Below(cmd.pkg) /\ p # cmd.pkg
      BY <1>1, <1>2 DEF MatesInv
    <2>2. cmd' = cmd /\ mates' = mates
      BY <1>1
    <2> QED BY <1>22, <1>23, <2>1, <2>2 DEF MatesInv
  <1> QED BY <1>14, <1>20, <1>24 DEF TogetherInv

(* Every step keeps it: the others are no steps of an update that goes on.  *)
LEMMA TogetherStep ==
  ASSUME IndInv, TogetherInv, [Next]_vars
  PROVE  TogetherInv'
  <1>1. CASE Run \/ Fetch \/ Merge \/ Finish
    BY <1>1, RunTogether, FetchTogether, MergeTogether, FinishTogether
  <1>2. CASE Get \/ GetNext \/ GetFails \/ GetDone
    <2>1. pc' \in {"start", "get", "idle"}
      BY <1>2 DEF Get, GetNext, GetFails, GetDone
    <2> QED BY <2>1 DEF TogetherInv, WorkInv, BehindInv, MatesInv
  <1>3. CASE EditFile \/ DeleteFile \/ AddPackage \/ DeletePackage
    <2>1. pc' = "idle"
      BY <1>3 DEF EditFile, DeleteFile, AddPackage, DeletePackage, Touch
    <2> QED BY <2>1 DEF TogetherInv, WorkInv, BehindInv, MatesInv
  <1>4. CASE Done \/ Abort
    <2>1. pc' = "idle"
      BY <1>4 DEF Done, Abort, Stop
    <2> QED BY <2>1 DEF TogetherInv, WorkInv, BehindInv, MatesInv
  <1>5. CASE UNCHANGED vars
    <2>1. WorkInv'
      BY <1>5 DEF vars, TogetherInv, WorkInv, Work
    <2>2. BehindInv'
      BY <1>5 DEF vars, TogetherInv, BehindInv, AtLock, Up, Lock, Ahead, Blocked, Work, IsPackageDir
    <2>3. MatesInv'
      <3>1. \A p : Up(p)' = Up(p) /\ Lock(p)' = Lock(p)
        BY <1>5 DEF vars, Up, Lock, IsPackageDir
      <3>2. \A p : (Coming(p)' <=> Coming(p)) /\ (Blocked(p)' <=> Blocked(p))
        BY <1>5 DEF vars, Coming, Blocked, Ahead, Work, Up, IsPackageDir
      <3>3. \A p : RepinnedSoFar(p)' <=> RepinnedSoFar(p)
        BY <1>5 DEF vars, RepinnedSoFar, RepinnedBy, Third, Follows, UpAt, NewUpstream, Lock, Ahead, Work,
                    IsPackageDir
      <3>4. \A u : Follows(u)' <=> Follows(u)
        BY <1>5 DEF vars, Follows
      <3>5. pc' = pc /\ cmd' = cmd /\ mates' = mates
        BY <1>5 DEF vars
      <3>6. \A p : AtNewRef(p)' <=> AtNewRef(p)
        BY <1>5 DEF vars, AtNewRef, Ahead, Work, Up, Lock, IsPackageDir
      <3>7. ASSUME NEW p \in mates, pc \in {"fetch", "merge"}
            PROVE  /\ p \in Below(cmd.pkg) /\ p # cmd.pkg
                   /\ Up(p)' # None => \/ RepinnedSoFar(p)' \/ Blocked(p)' \/ AtNewRef(p)'
                                       \/ Follows(Up(p)') /\ Coming(p)'
        BY <3>1, <3>2, <3>3, <3>6, <3>7 DEF TogetherInv, MatesInv
      <3> QED BY <3>4, <3>5, <3>7 DEF MatesInv
    <2> QED BY <2>1, <2>2, <2>3 DEF TogetherInv
  <1> QED BY <1>1, <1>2, <1>3, <1>4, <1>5 DEF Next

(* Every step keeps the invariant.                                          *)
LEMMA NextStep ==
  ASSUME VendoredTruly, IndInv, [Next]_vars
  PROVE  IndInv'
  <1>1. CASE Next
    <2>1. CASE Get \/ GetNext \/ GetFails \/ GetDone
      BY <2>1, GetStep, GetNextStep, GetEnds
    <2>2. CASE EditFile \/ DeleteFile \/ AddPackage \/ DeletePackage
      BY <2>2, UpdateAssumption, EditFiles, AddPackages, DeletePackages
    <2>3. CASE Run \/ Fetch \/ Merge
      BY <2>3, RunStep, FetchStep, MergeStep
    <2>4. CASE Finish \/ Done \/ Abort
      BY <2>4, FinishStep, RunEnds
    <2> QED BY <1>1, <2>1, <2>2, <2>3, <2>4 DEF Next
  <1>2. CASE UNCHANGED vars
    BY <1>2 DEF vars, IndInv, TypeOK, CurrentInv, GetInv, StackInv, TopInv,
                Current, AtLock, Followed, NewUpstream, Up, Lock, IsPackageDir, Settled, Reached, Below
  <1> QED BY <1>1, <1>2

(* After get, and after updates that went through, every remote package is  *)
(* at the version its Kptfile asks for (fetchPackages and Run miss none),   *)
(* or one that names it, for upstreams as VendoredTruly says.               *)
THEOREM AllFetchedHolds ==
  ASSUME VendoredTruly
  PROVE  Spec => []AllFetched
  <1>1. IndInv => AllFetched
    BY DEF IndInv, CurrentInv, Current, AllFetched
  <1> QED BY <1>1, InitInd, NextStep, PTL DEF Spec

(* Nothing is left to do: an update that went through brought all remote    *)
(* packages that had the old ref to the new one, but those that upstream    *)
(* pins elsewhere or that are in local packages (shouldUpdateSubPkgRef and  *)
(* the loop of Run).                                                        *)
LEMMA TogetherAtEnd == TypeOK /\ TogetherInv => Together
  <1> SUFFICES ASSUME TypeOK, TogetherInv, pc = "fetch", pkgs = <<>>, NEW p \in mates,
                      Up(p) # None, Reached(cmd.pkg, p), ~Repinned(p)
               PROVE  AtLock(p) /\ Lock(p).ref = cmd.up.ref
    BY DEF Together
  <1>1. Work = {} /\ \A q : ~Ahead(q)
    BY DEF Work, Ahead
  <1>2. /\ p \in Below(cmd.pkg) /\ p \in Paths
        /\ RepinnedSoFar(p) \/ Blocked(p) \/ AtNewRef(p) \/ (Follows(Up(p)) /\ Coming(p))
        /\ AtLock(p) \/ Blocked(p)
    BY <1>1 DEF TogetherInv, MatesInv, BehindInv, Below
  <1>3. ~Blocked(p)
    BY DEF Blocked, Reached
  <1>4. ~Coming(p)
    BY <1>1 DEF Coming
  <1>5. ~RepinnedSoFar(p)
    <2>1. ASSUME NEW q \in Paths \ {p}, IsPrefix(q, p), RepinnedBy(q, p) PROVE Repinned(p)
      <3> DEFINE k == Upstream(history, Lock(q).src, Lock(q).ref)[Rest(q, p)].kptfile
      <3>1. Lock(q) # None /\ k # None /\ Third(k.up)
        BY <2>1 DEF RepinnedBy, UpAt, Third
      <3> QED BY <2>1, <3>1 DEF Repinned, Third, Follows
    <2> QED BY <2>1 DEF RepinnedSoFar
  <1>6. AtNewRef(p) /\ AtLock(p)
    BY <1>2, <1>3, <1>4, <1>5
  <1> QED BY <1>1, <1>6 DEF AtNewRef

(* Remote packages that had the ref of the updated package have the new one *)
(* when its update is through (shouldUpdateSubPkgRef), for upstreams as     *)
(* VendoredTruly says.                                                      *)
THEOREM TogetherHolds ==
  ASSUME VendoredTruly
  PROVE  Spec => []Together
  <1>1. Init => TogetherInv
    BY DEF Init, TogetherInv, WorkInv, BehindInv, MatesInv
  <1>2. IndInv /\ TogetherInv => Together
    BY TogetherAtEnd DEF IndInv
  <1>3. IndInv /\ TogetherInv /\ [Next]_vars => (IndInv /\ TogetherInv)'
    BY NextStep, TogetherStep
  <1> QED BY <1>1, <1>2, <1>3, InitInd, PTL DEF Spec
-----------------------------------------------------------------------------
(* What the user wrote.  Reasons why a file f of L, in directory q, may be   *)
(* lost when L, that was forked from O, is brought to U and becomes M.       *)

Taken(U, O, q, f) == f \in KrmFiles /\ U[q].files[f] \notin {None, O[q].files[f]}
Turned(L, U, O, q) == \E d \in Paths \ {<<>>} :
  IsPrefix(d, q) /\ \E A, B \in {L, U, O} : IsPackageDir(A, d) /\ ~IsPackageDir(B, d) /\ Exists(B, d)
Gone(L, M, q) == \E d \in Paths \ {<<>>, q} :
  IsPrefix(d, q) /\ IsPackageDir(L, d) /\ ~IsPackageDir(M, d)
Adopted(L, U, q) == \E d \in Paths \ {<<>>} :
  IsPrefix(d, q) /\ UpAt(L, d) # None /\ IsPackageDir(U, d) /\ UpAt(U, d) = None
Excused(L, U, O, M, q, f) ==
  Taken(U, O, q, f) \/ Skipped(L, q, f) \/ Turned(L, U, O, q) \/ Gone(L, M, q) \/ Adopted(L, U, q)

(* A directory with a file in it is there, and so are those above.          *)
LEMMA ExistsAbove ==
  ASSUME NEW T, NEW d \in Paths, NEW q \in Paths, IsPrefix(d, q), NEW f \in Files,
         T[q].files[f] # None
  PROVE  Exists(T, d)
  <1>1. q \in Below(d)
    BY DEF Below
  <1>2. T[q] # NoDir
    BY DEF NoDir
  <1> QED BY <1>1, <1>2 DEF Exists

(* A directory that is a package in one tree, and not in another that has a *)
(* file in it.                                                              *)
LEMMA TurnedBy ==
  ASSUME NEW L, NEW U, NEW O, NEW A \in {L, U, O}, NEW B \in {L, U, O},
         NEW d \in Paths \ {<<>>}, NEW q \in Paths, IsPrefix(d, q), NEW f \in Files,
         IsPackageDir(A, d), ~IsPackageDir(B, d), B[q].files[f] # None
  PROVE  Turned(L, U, O, q)
  BY ExistsAbove DEF Turned

(* What the user writes is something.                                       *)
LEMMA SomethingWritten == "e" # None
  BY UpdateAssumption, TreeAssumption

(* A file of the top package is walked, unless it is overlooked.            *)
LEMMA WalkedIs ==
  ASSUME NEW T, NEW q \in Paths, NEW f \in Files
  PROVE  <<q, f>> \in Walked(T) <=> q \in Own(T) /\ T[q].files[f] # None /\ ~Skipped(T, q, f)
  BY DEF Walked, Own

(* A merge of files leaves what the user wrote, unless upstream changed the *)
(* same resource, or has the file in a package of another kind.             *)
LEMMA MergeFilesLeaves ==
  ASSUME NEW L \in Trees, NEW U \in Trees, NEW O \in Trees, NEW q \in Paths, NEW f \in Files,
         L[q].files[f] = "e", O[q].files[f] # "e"
  PROVE  \/ MergeFiles(L, U, O)[q].files[f] = "e" \/ Taken(U, O, q, f) \/ Skipped(L, q, f)
         \/ /\ U[q].files[f] # None
            /\ \E d \in Paths \ {<<>>} : /\ IsPrefix(d, q) /\ ~IsPackageDir(U, d)
                                         /\ IsPackageDir(L, d) \/ IsPackageDir(O, d)
  <1> DEFINE Resource(T) == IF q \in Own(T) THEN T[q].files[f] ELSE None
             NonKrm(T) == IF <<q, f>> \in Walked(T) THEN T[q].files[f] ELSE None
             m == IF f \in KrmFiles
                  THEN MergeResource(Resource(L), Resource(U), Resource(O))
                  ELSE MergeNonKrm(NonKrm(L), NonKrm(U), NonKrm(O))
             hidden == L[q].files[f] # None /\
                         IF f \in KrmFiles THEN q \notin Own(L) ELSE <<q, f>> \notin Walked(L)
             file == MergeFiles(L, U, O)[q].files[f]
  <1>1. file = IF hidden /\ m = None THEN L[q].files[f] ELSE m
    <2>1. L[q] \in Dirs
      BY TreeTypes
    <2> QED BY <2>1 DEF MergeFiles, Dirs
  <1>2. \A T \in {L, U, O} : <<q, f>> \in Walked(T) <=> q \in Own(T) /\ T[q].files[f] # None /\ ~Skipped(T, q, f)
    BY WalkedIs
  <1>3. ASSUME NEW T \in {L, O}, q \in Own(U), q \notin Own(T)
        PROVE  \E d \in Paths \ {<<>>} : /\ IsPrefix(d, q) /\ ~IsPackageDir(U, d)
                                         /\ IsPackageDir(L, d) \/ IsPackageDir(O, d)
    BY <1>3 DEF Own
  <1> HIDE DEF file
  <1>4. CASE f \in KrmFiles
    <2>1. CASE m \in {None, "e"}
      <3>1. hidden \/ m = "e"
        BY <1>4, <2>1, SomethingWritten DEF MergeResource, MergeValue
      <3> QED BY <1>1, <2>1, <3>1, SomethingWritten DEF file
    <2>2. CASE m \notin {None, "e"}
      <3>1. Resource(U) # None /\ Resource(U) # Resource(O)
        BY <1>4, <2>2, SomethingWritten DEF MergeResource, MergeValue
      <3>2. U[q].files[f] # None /\ q \in Own(U)
        BY <3>1
      <3>3. CASE U[q].files[f] # O[q].files[f]
        BY <1>4, <3>2, <3>3 DEF Taken
      <3>4. CASE U[q].files[f] = O[q].files[f]
        <4>1. q \notin Own(O)
          BY <3>1, <3>4
        <4> QED BY <1>3, <3>2, <4>1
      <3> QED BY <3>3, <3>4
    <2> QED BY <2>1, <2>2
  <1>5. CASE f \notin KrmFiles
    <2>1. CASE <<q, f>> \in Walked(L)
      <3>1. m = "e" /\ ~hidden
        BY <1>5, <2>1, SomethingWritten DEF MergeNonKrm
      <3> QED BY <1>1, <3>1 DEF file
    <2>2. CASE <<q, f>> \notin Walked(L)
      <3>1. hidden /\ m = NonKrm(U)
        BY <1>5, <2>2, SomethingWritten DEF MergeNonKrm
      <3>2. CASE m = None
        BY <1>1, <3>1, <3>2 DEF file
      <3>3. CASE m # None
        <4>1. q \in Own(U) /\ U[q].files[f] # None
          BY <1>2, <3>1, <3>3
        <4>2. CASE q \in Own(L)
          BY <1>2, <2>2, <4>2, SomethingWritten
        <4>3. CASE q \notin Own(L)
          BY <1>3, <4>1, <4>3
        <4> QED BY <4>2, <4>3
      <3> QED BY <3>2, <3>3
    <2> QED BY <2>1, <2>2
  <1> QED BY <1>4, <1>5

(* A Kptfile that is merged leaves all files, and packages below.           *)
LEMMA UpdateKptfileLeaves ==
  ASSUME NEW L \in Trees, NEW U \in Trees, NEW O \in Trees, NEW flag \in BOOLEAN, NEW q \in Paths
  PROVE  LET T == UpdateKptfile(L, U, O, flag)
         IN  T[q].files = L[q].files /\ (q # <<>> => T[q] = L[q])
  <1> DEFINE T == UpdateKptfile(L, U, O, flag)
  <1>1. /\ Follow(T, IF flag /\ Kf(U).up # None THEN Kf(U).up ELSE Kf(L).up)
        /\ \A x \in Paths : x # <<>> => T[x] = L[x]
    BY UpdateKptfileType
  <1>2. T[<<>>].files = L[<<>>].files
    <2>1. L \in [Paths -> Dirs] /\ <<>> \in Paths /\ L[<<>>] \in Dirs
      BY RootPath DEF Trees
    <2> QED BY <2>1 DEF UpdateKptfile, Dirs
  <1> HIDE DEF T
  <1> QED BY <1>1, <1>2 DEF T

(* What is in a package, seen from the package.                             *)
LEMMA AtInside ==
  ASSUME NEW a \in Paths, NEW q \in Below(a)
  PROVE  LET r == Rest(a, q)
         IN  /\ q \in Paths /\ r \in Paths /\ \A T \in Trees : At(T, a)[r] = T[q]
             /\ \A T \in Trees, d \in Paths \ {<<>>} : IsPackageDir(At(T, a), d) =>
                  /\ a \o d \in Paths \ {<<>>} /\ a \o d \in Below(a) \ {a}
                  /\ IsPrefix(d, r) => IsPrefix(a \o d, q)
                  /\ \A V \in Trees : (IsPackageDir(At(V, a), d) <=> IsPackageDir(V, a \o d))
  <1> DEFINE r == Rest(a, q)
  <1>1. q \in Paths /\ r \in Paths /\ a \o r = q
    BY PathsBelow
  <1> HIDE DEF r
  <1>2. ASSUME NEW T \in Trees PROVE At(T, a)[r] = T[q]
    BY <1>1, AtType, ZenonT(30)
  <1>3. ASSUME NEW T \in Trees, NEW d \in Paths \ {<<>>}, IsPackageDir(At(T, a), d)
        PROVE  /\ a \o d \in Paths \ {<<>>} /\ a \o d \in Below(a) \ {a}
               /\ IsPrefix(d, r) => IsPrefix(a \o d, q)
               /\ \A V \in Trees : (IsPackageDir(At(V, a), d) <=> IsPackageDir(V, a \o d))
    <2>1. At(T, a)[d] # NoDir
      BY <1>3 DEF IsPackageDir, NoDir
    <2>2. a \o d \in Paths
      BY <2>1, AtType
    <2>3. a \o d \in Below(a) /\ a \o d # a
      BY <2>2, Inside
    <2>4. a \o d # <<>>
      BY <2>2, <2>3, PathsBelow, RootPath
    <2>5. IsPrefix(d, r) => IsPrefix(a \o d, q)
      BY <1>1, Inside
    <2>6. \A V \in Trees : (IsPackageDir(At(V, a), d) <=> IsPackageDir(V, a \o d))
      BY <2>2, AtType, SMTT(30) DEF IsPackageDir
    <2> QED BY <2>2, <2>3, <2>4, <2>5, <2>6
  <1> QED BY <1>1, <1>2, <1>3 DEF r

(* A name in a directory.                                                   *)
LEMMA Named == \A r \in Paths, d \in STRING : Append(r, d) # <<>> /\ Append(r, d) = r \o <<d>>
  <1> SUFFICES ASSUME NEW r \in Seq(STRING), NEW d \in STRING
               PROVE  Append(r, d) # <<>> /\ Append(r, d) = r \o <<d>>
    BY PathsAre DEF Strings
  <1> QED BY AppendProperties, AppendIsConcat

(* A file that is overlooked in a package is so in the tree.                *)
LEMMA SkippedInside ==
  ASSUME NEW T \in Trees, NEW L, NEW a \in Paths, NEW q \in Below(a), NEW f \in Files,
         \A d \in Below(a) \ {a} : IsPackageDir(T, d) => IsPackageDir(L, d),
         Skipped(At(T, a), Rest(a, q), f)
  PROVE  Skipped(L, q, f)
  <1> DEFINE r == Rest(a, q)
  <1>1. PICK d \in Shadows[f] : Append(r, d) \in Paths /\ IsPackageDir(At(T, a), Append(r, d))
    BY DEF Skipped
  <1>2. q \in Paths /\ r \in Paths /\ a \o r = q
    BY PathsBelow
  <1> HIDE DEF r
  <1>3. a \in Seq(STRING) /\ r \in Seq(STRING) /\ d \in STRING
    BY <1>2, PathsAre, TreeAssumption DEF Strings
  <1>4. Append(r, d) # <<>> /\ a \o Append(r, d) = Append(q, d)
    <2>1. Append(r, d) # <<>> /\ Append(r, d) = r \o <<d>> /\ Append(q, d) = q \o <<d>>
      BY <1>2, <1>3, Named
    <2>2. (a \o r) \o <<d>> = a \o (r \o <<d>>)
      BY <1>3, ConcatAssociative
    <2> QED BY <1>2, <2>1, <2>2
  <1>5. /\ Append(q, d) \in Paths /\ Append(q, d) \in Below(a) \ {a}
        /\ IsPackageDir(T, Append(q, d))
    <2> DEFINE e == Append(r, d)
    <2>1. e \in Paths \ {<<>>} /\ IsPackageDir(At(T, a), e) /\ a \o e = Append(q, d)
      BY <1>1, <1>4
    <2> HIDE DEF e
    <2>2. a \o e \in Paths /\ a \o e \in Below(a) \ {a} /\ IsPackageDir(T, a \o e)
      BY <2>1, AtInside
    <2> QED BY <2>1, <2>2
  <1> QED BY <1>1, <1>5 DEF Skipped

(* The files of a copy without subpackages: those that the walk comes to.   *)
LEMMA CopyPackageLeaves ==
  ASSUME NEW U \in Trees, NEW L \in Trees, NEW flag \in BOOLEAN
  PROVE  LET T == CopyPackage(U, L, flag, "none")
         IN  /\ T \in Trees /\ \A q \in Paths \ {<<>>} : T[q].kptfile = L[q].kptfile
             /\ \A q \in Paths, f \in Files :
                  T[q].files[f] = IF <<q, f>> \in Walked(U) THEN U[q].files[f] ELSE L[q].files[f]
  <1> DEFINE T == CopyPackage(U, L, flag, "none")
  <1>1. T \in Trees
    BY CopyPackageType
  <1>2. ASSUME NEW q \in Paths \ {<<>>} PROVE T[q].kptfile = L[q].kptfile
    BY <1>2 DEF CopyPackage
  <1>3. ASSUME NEW q \in Paths, NEW f \in Files
        PROVE  T[q].files[f] = IF <<q, f>> \in Walked(U) THEN U[q].files[f] ELSE L[q].files[f]
    <2>1. <<q, f>> \in Walked(U) => U[q].files[f] # None
      BY WalkedIs
    <2> QED BY <2>1 DEF CopyPackage
  <1> QED BY <1>1, <1>2, <1>3

(* The files that are left when the package is emptied.                     *)
LEMMA RemovePackageContentLeaves ==
  ASSUME NEW L \in Trees, NEW flag \in BOOLEAN
  PROVE  LET T == RemovePackageContent(L, flag)
         IN  /\ T \in Trees /\ \A q \in Paths \ {<<>>} : T[q].kptfile = L[q].kptfile
             /\ \A q \in Paths, f \in Files :
                  T[q].files[f] = IF <<q, f>> \in Walked(L) THEN None ELSE L[q].files[f]
  <1> DEFINE T == RemovePackageContent(L, flag)
  <1>1. T \in Trees
    BY RemovePackageContentType
  <1>2. ASSUME NEW q \in Paths \ {<<>>} PROVE T[q].kptfile = L[q].kptfile
    BY <1>2 DEF RemovePackageContent
  <1>3. ASSUME NEW q \in Paths, NEW f \in Files
        PROVE  T[q].files[f] = IF <<q, f>> \in Walked(L) THEN None ELSE L[q].files[f]
    BY DEF RemovePackageContent
  <1> QED BY <1>1, <1>2, <1>3

(* Changing a package adds none below it.                                   *)
LEMMA GraftAdds ==
  ASSUME NEW T \in Trees, NEW X \in Trees, NEW a \in Paths,
         \A d \in Paths \ {<<>>} : X[d].kptfile \in {None, At(T, a)[d].kptfile},
         NEW d \in Paths, IsPackageDir(Graft(T, a, X), d)
  PROVE  IsPackageDir(T, d) \/ (d = a /\ IsPackageDir(X, <<>>))
  <1>1. CASE ~IsPrefix(a, d)
    BY <1>1, GraftType, ZenonT(30) DEF IsPackageDir
  <1>2. CASE IsPrefix(a, d)
    <2> DEFINE r == Rest(a, d)
    <2>1. d \in Below(a)
      BY <1>2 DEF Below
    <2>2. r \in Paths /\ a \o r = d /\ a \o <<>> = a
      BY <2>1, PathsBelow
    <2>3. Graft(T, a, X)[d] = X[r]
      BY <2>1, GraftType
    <2> HIDE DEF r
    <2>4. At(T, a)[r] = T[d]
      BY <2>2 DEF At
    <2>5. CASE r = <<>>
      BY <2>2, <2>3, <2>5 DEF IsPackageDir
    <2>6. CASE r # <<>>
      BY <2>2, <2>3, <2>4, <2>6 DEF IsPackageDir
    <2> QED BY <2>5, <2>6
  <1> QED BY <1>1, <1>2

(* The same of removing it.                                                 *)
LEMMA RemoveAllLeaves ==
  ASSUME NEW T \in Trees, NEW a \in Paths
  PROVE  /\ RemoveAll(T, a) \in Trees
         /\ \A d \in Paths : IsPackageDir(RemoveAll(T, a), d) => IsPackageDir(T, d) /\ ~IsPrefix(a, d)
         /\ \A q \in Paths : ~IsPrefix(a, q) => RemoveAll(T, a)[q] = T[q]
  <1>1. NoTree \in Trees /\ \A r \in Paths : NoTree[r].kptfile = None
    BY EmptyTypes DEF NoTree, NoDir
  <1>2. ASSUME NEW d \in Paths, IsPrefix(a, d) PROVE ~IsPackageDir(RemoveAll(T, a), d)
    <2>1. d \in Below(a)
      BY <1>2 DEF Below
    <2>2. Rest(a, d) \in Paths
      BY <2>1, PathsBelow
    <2>3. RemoveAll(T, a)[d] = NoTree[Rest(a, d)]
      BY <2>1 DEF RemoveAll, Graft
    <2> QED BY <1>1, <2>2, <2>3 DEF IsPackageDir
  <1> QED BY <1>1, <1>2, GraftType, ZenonT(30) DEF RemoveAll, IsPackageDir

(* The same of the Kptfile of a package, as MergePackage merges it.         *)
LEMMA MergedKptfile ==
  ASSUME NEW T \in Trees, NEW U \in Trees, NEW O \in Trees, NEW a \in Paths, NEW flag \in BOOLEAN
  PROVE  LET t == At(T, a)
             k == UpdateKptfile(t, At(U, a), At(O, a), ~flag)
         IN  /\ k \in Trees
             /\ \A x \in Paths : k[x].files = t[x].files
             /\ \A x \in Paths \ {<<>>} : k[x] = t[x]
  <1> DEFINE t == At(T, a)
             u == At(U, a)
             o == At(O, a)
             g == ~flag
             k == UpdateKptfile(t, u, o, g)
  <1>1. t \in Trees /\ u \in Trees /\ o \in Trees /\ g \in BOOLEAN
    BY AtType
  <1> HIDE DEF t, u, o, g
  <1>2. ASSUME NEW x \in Paths PROVE k[x].files = t[x].files /\ (x # <<>> => k[x] = t[x])
    <2>1. k[x].files = t[x].files
      BY <1>1, UpdateKptfileLeaves
    <2>2. (x # <<>> => k[x] = t[x])
      BY <1>1, UpdateKptfileLeaves
    <2> QED BY <2>1, <2>2
  <1>3. k \in Trees
    BY <1>1, UpdateKptfileType DEF Follow
  <1> HIDE DEF k
  <1> QED BY <1>2, <1>3 DEF k, t, u, o, g

(* A merge of a package, where every package below it was there before.     *)
LEMMA MergePackageLeaves ==
  ASSUME NEW L \in Trees, NEW U \in Trees, NEW O \in Trees, NEW T \in Trees, NEW a \in Paths,
         NEW flag \in BOOLEAN, \A d \in Below(a) \ {a} : IsPackageDir(T, d) => IsPackageDir(L, d),
         NEW q \in Paths, NEW f \in Files, T[q].files[f] = "e", L[q].files[f] = "e", O[q].files[f] # "e"
  PROVE  \/ MergePackage(T, U, O, a, flag)[q].files[f] = "e"
         \/ Taken(U, O, q, f) \/ Skipped(L, q, f) \/ Turned(L, U, O, q)
  <1> DEFINE t == At(T, a)
             u == At(U, a)
             o == At(O, a)
             g == ~flag
             k == UpdateKptfile(t, u, o, g)
             M == MergeFiles(k, u, o)
             r == Rest(a, q)
  <1>1. t \in Trees /\ u \in Trees /\ o \in Trees /\ g \in BOOLEAN
    BY AtType
  <1>2. MergePackage(T, U, O, a, flag) = Graft(T, a, M)
    BY DEF MergePackage
  <1> HIDE DEF t, u, o, g
  <1>3. /\ k \in Trees /\ \A d \in Paths : k[d].files = t[d].files
        /\ \A x \in Paths \ {<<>>} : k[x] = t[x]
    <2>1. k \in Trees
      BY MergedKptfile DEF t, u, o, g
    <2>2. \A d \in Paths : k[d].files = t[d].files
      BY MergedKptfile DEF t, u, o, g
    <2>3. \A d \in Paths \ {<<>>} : k[d] = t[d]
      BY MergedKptfile DEF t, u, o, g
    <2> HIDE DEF k
    <2> QED BY <2>1, <2>2, <2>3
  <1> HIDE DEF k
  <1>4. M \in Trees
    BY <1>1, <1>3, MergeFilesType
  <1> HIDE DEF M
  <1>5. CASE ~IsPrefix(a, q)
    <2>1. Graft(T, a, M)[q] = T[q]
      BY <1>4, <1>5, GraftType
    <2> QED BY <1>2, <2>1
  <1>6. CASE IsPrefix(a, q)
    <2>1. q \in Below(a)
      BY <1>6 DEF Below
    <2>2. r \in Paths /\ t[r] = T[q] /\ u[r] = U[q] /\ o[r] = O[q]
      BY <2>1, AtInside DEF t, u, o
    <2>3. MergePackage(T, U, O, a, flag)[q] = M[r]
      BY <1>2, <1>4, <2>1, GraftType
    <2>4. k[r].files[f] = "e" /\ o[r].files[f] # "e"
      BY <1>3, <2>2
    <2>5. Skipped(k, r, f) => Skipped(L, q, f)
      <3> SUFFICES ASSUME Skipped(k, r, f) PROVE Skipped(t, r, f)
        BY <2>1, SkippedInside DEF t
      <3>1. PICK d \in Shadows[f] : Append(r, d) \in Paths /\ IsPackageDir(k, Append(r, d))
        BY DEF Skipped
      <3>2. Append(r, d) # <<>>
        <4>1. d \in STRING
          BY TreeAssumption
        <4> HIDE DEF r
        <4> QED BY <2>2, <4>1, Named
      <3>3. k[Append(r, d)] = t[Append(r, d)]
        BY <1>3, <3>1, <3>2
      <3> QED BY <3>1, <3>3 DEF Skipped, IsPackageDir
    <2>6. Taken(u, o, r, f) => Taken(U, O, q, f)
      BY <2>2 DEF Taken
    <2>7. ASSUME u[r].files[f] # None, NEW d \in Paths \ {<<>>}, IsPrefix(d, r), ~IsPackageDir(u, d),
                 IsPackageDir(k, d) \/ IsPackageDir(o, d)
          PROVE  Turned(L, U, O, q)
      <3> DEFINE e == a \o d
      <3>1. k[d] = t[d]
        BY <1>3, <2>7
      <3>2. PICK V \in {T, O} : IsPackageDir(At(V, a), d)
        BY <2>7, <3>1 DEF IsPackageDir, t, o
      <3>3. /\ e \in Paths \ {<<>>} /\ e \in Below(a) \ {a} /\ IsPrefix(e, q)
            /\ IsPackageDir(V, e) /\ ~IsPackageDir(U, e)
        BY <2>1, <2>7, <3>2, AtInside DEF u
      <3> HIDE DEF e
      <3>4. IsPackageDir(L, e) \/ IsPackageDir(O, e)
        BY <3>2, <3>3
      <3> QED BY <2>2, <2>7, <3>3, <3>4, TurnedBy
    <2> HIDE DEF r
    <2>8. \/ M[r].files[f] = "e" \/ Taken(u, o, r, f) \/ Skipped(k, r, f)
          \/ /\ u[r].files[f] # None
             /\ \E d \in Paths \ {<<>>} : /\ IsPrefix(d, r) /\ ~IsPackageDir(u, d)
                                          /\ IsPackageDir(k, d) \/ IsPackageDir(o, d)
      BY <1>1, <1>3, <2>2, <2>4, MergeFilesLeaves DEF M
    <2> QED BY <2>3, <2>5, <2>6, <2>7, <2>8
  <1> QED BY <1>5, <1>6

(* It adds no other package.                                                *)
LEMMA MergePackageAdds ==
  ASSUME NEW U \in Trees, NEW O \in Trees, NEW T \in Trees, NEW a \in Paths, NEW flag \in BOOLEAN,
         NEW d \in Paths, IsPackageDir(MergePackage(T, U, O, a, flag), d)
  PROVE  IsPackageDir(T, d) \/ d = a
  <1> DEFINE t == At(T, a)
             u == At(U, a)
             o == At(O, a)
             g == ~flag
             k == UpdateKptfile(t, u, o, g)
             M == MergeFiles(k, u, o)
  <1>1. t \in Trees /\ u \in Trees /\ o \in Trees /\ g \in BOOLEAN
    BY AtType
  <1>2. MergePackage(T, U, O, a, flag) = Graft(T, a, M)
    BY DEF MergePackage
  <1> HIDE DEF t, u, o, g
  <1>3. k \in Trees /\ \A x \in Paths \ {<<>>} : k[x] = t[x]
    BY MergedKptfile DEF t, u, o, g
  <1> HIDE DEF k
  <1>4. M \in Trees /\ \A x \in Paths : M[x].kptfile = k[x].kptfile
    BY <1>1, <1>3, MergeFilesType
  <1> HIDE DEF M
  <1>5. \A x \in Paths \ {<<>>} : M[x].kptfile \in {None, At(T, a)[x].kptfile}
    BY <1>3, <1>4 DEF t
  <1> QED BY <1>2, <1>4, <1>5, GraftAdds

(* Directories above one another.                                           *)
LEMMA PathOrder ==
  /\ \A p \in Paths : IsPrefix(p, p) /\ IsPrefix(<<>>, p)
  /\ \A p, q, r \in Paths : IsPrefix(p, q) /\ IsPrefix(q, r) => IsPrefix(p, r)
  /\ \A p, q, r \in Paths : IsPrefix(p, r) /\ IsPrefix(q, r) => IsPrefix(p, q) \/ IsPrefix(q, p)
  BY PathsAre, PrefixOrder

LEMMA SamePath == \A p, q \in Paths : IsPrefix(p, q) /\ IsPrefix(q, p) => p = q
  <1> SUFFICES ASSUME NEW p \in Paths, NEW q \in Paths, IsPrefix(p, q), IsPrefix(q, p) PROVE p = q
    OBVIOUS
  <1>1. p \in Strings /\ q \in Strings /\ Len(p) \in Nat /\ Len(q) \in Nat
    BY PathsAre DEF Strings
  <1>2. Len(p) <= Len(q) /\ Len(q) <= Len(p)
    BY <1>1, PrefixOrder
  <1>3. Len(p) = Len(q)
    BY <1>1, <1>2
  <1> QED BY <1>1, <1>3, PrefixOrder

(* A package that resource-merge comes to is the only one it may make.      *)
LEMMA ResourceMergePackageAdds ==
  ASSUME NEW U \in Trees, NEW O \in Trees, NEW T \in Trees, NEW a \in Paths, NEW flag \in BOOLEAN,
         NEW d \in Paths, IsPackageDir(ResourceMergePackage(T, U, O, a, flag).tree, d)
  PROVE  IsPackageDir(T, d) \/ (d = a /\ Exists(U, a))
  <1> DEFINE g == ~flag
             C == CopyPackage(At(U, a), At(T, a), g, "none")
             X == ResourceMergePackage(T, U, O, a, flag)
  <1>1. g \in BOOLEAN /\ At(U, a) \in Trees /\ At(T, a) \in Trees
    BY AtType
  <1>2. CASE X.tree = T
    BY <1>2
  <1>3. CASE X.tree = RemoveAll(T, a)
    BY <1>3, RemoveAllLeaves
  <1>4. CASE Exists(U, a) /\ X.tree = MergePackage(T, U, O, a, flag)
    BY <1>4, MergePackageAdds
  <1>5. CASE Exists(U, a) /\ X.tree = Graft(T, a, C)
    <2> HIDE DEF X, g
    <2>1. C \in Trees /\ \A x \in Paths \ {<<>>} : C[x].kptfile = At(T, a)[x].kptfile
      BY <1>1, CopyPackageLeaves
    <2> HIDE DEF C
    <2>2. \A x \in Paths \ {<<>>} : C[x].kptfile \in {None, At(T, a)[x].kptfile}
      BY <2>1
    <2>3. IsPackageDir(Graft(T, a, C), d)
      BY <1>5 DEF X
    <2> QED BY <1>5, <2>1, <2>2, <2>3, GraftAdds
  <1>6. \/ X.tree = T \/ X.tree = RemoveAll(T, a)
        \/ Exists(U, a) /\ X.tree \in {MergePackage(T, U, O, a, flag), Graft(T, a, C)}
    BY DEF ResourceMergePackage, Ok, Failed
  <1> QED BY <1>2, <1>3, <1>4, <1>5, <1>6

GoneFor(L, U, M, q) == \E d \in Paths \ {<<>>, q} :
  IsPrefix(d, q) /\ IsPackageDir(L, d) /\ ~Exists(U, d) /\ ~IsPackageDir(M, d)

(* A package that is removed is as it was, but for what is overlooked and   *)
(* the packages in it.                                                      *)
LEMMA RemovedLeaves ==
  ASSUME NEW L \in Trees, NEW U \in Trees, NEW O \in Trees, NEW T \in Trees, NEW a \in Paths,
         IsPackageDir(L, a) \/ IsPackageDir(O, a), ~Exists(U, a), ~PkgDiff(At(O, a), At(T, a)),
         \A d \in Below(a) \ {a} : IsPackageDir(T, d) => IsPackageDir(L, d),
         NEW q \in Paths, NEW f \in Files, T[q].files[f] = "e", L[q].files[f] = "e", O[q].files[f] # "e"
  PROVE  \/ RemoveAll(T, a)[q].files[f] = "e"
         \/ Skipped(L, q, f) \/ Turned(L, U, O, q) \/ GoneFor(L, U, RemoveAll(T, a), q)
  <1>1. CASE ~IsPrefix(a, q)
    BY <1>1, RemoveAllLeaves
  <1>2. CASE IsPrefix(a, q)
    <2> DEFINE r == Rest(a, q)
               t == At(T, a)
               o == At(O, a)
    <2>1. q \in Below(a) /\ a # <<>>
      BY <1>2, ExistsTop DEF Below
    <2>2. r \in Paths /\ t[r] = T[q] /\ o[r] = O[q]
      BY <2>1, AtInside
    <2>3. Skipped(t, r, f) => Skipped(L, q, f)
      BY <2>1, SkippedInside
    <2>4. ASSUME NEW d \in Paths \ {<<>>}, IsPackageDir(t, d), IsPrefix(d, r)
          PROVE  Turned(L, U, O, q) \/ GoneFor(L, U, RemoveAll(T, a), q)
      <3>1. a \o d \in Below(a) \ {a} /\ IsPrefix(a \o d, q)
        BY <2>1, <2>4, AtInside
      <3>2. a # q
        <4>1. a \o d \in Paths /\ IsPrefix(a, a \o d) /\ a \o d # a
          BY <3>1 DEF Below
        <4> QED BY <3>1, <4>1, SamePath
      <3>3. ~IsPackageDir(RemoveAll(T, a), a)
        BY RemoveAllLeaves, PathOrder
      <3>4. CASE IsPackageDir(L, a)
        BY <1>2, <2>1, <3>2, <3>3, <3>4 DEF GoneFor
      <3>5. CASE ~IsPackageDir(L, a)
        BY <1>2, <2>1, <3>5, TurnedBy, SomethingWritten
      <3> QED BY <3>4, <3>5
    <2>5. CASE <<r, f>> \in Walked(t)
      <3>1. o[r].files[f] = t[r].files[f]
        BY <2>5 DEF PkgDiff
      <3> QED BY <2>2, <3>1
    <2>6. CASE <<r, f>> \notin Walked(t)
      <3>1. t[r].files[f] # None
        BY <2>2, SomethingWritten
      <3> HIDE DEF r, t
      <3>2. r \notin Own(t) \/ Skipped(t, r, f)
        BY <2>2, <2>6, <3>1, WalkedIs
      <3> QED BY <2>2, <2>3, <2>4, <3>2 DEF Own
    <2> QED BY <2>5, <2>6
  <1> QED BY <1>1, <1>2

(* resource-merge of one package, where those below it were there before.   *)
LEMMA ResourceMergePackageLeaves ==
  ASSUME NEW L \in Trees, NEW U \in Trees, NEW O \in Trees, NEW T \in Trees, NEW a \in Paths,
         NEW flag \in BOOLEAN,
         a = <<>> \/ IsPackageDir(L, a) \/ IsPackageDir(U, a) \/ IsPackageDir(O, a),
         \A d \in Below(a) \ {a} : IsPackageDir(T, d) => IsPackageDir(L, d),
         NEW q \in Paths, NEW f \in Files, T[q].files[f] = "e", L[q].files[f] = "e", O[q].files[f] # "e"
  PROVE  LET M == ResourceMergePackage(T, U, O, a, flag).tree
         IN  \/ M[q].files[f] = "e"
             \/ Taken(U, O, q, f) \/ Skipped(L, q, f) \/ Turned(L, U, O, q) \/ GoneFor(L, U, M, q)
  <1> DEFINE g == ~flag
             C == CopyPackage(At(U, a), At(T, a), g, "none")
             X == ResourceMergePackage(T, U, O, a, flag)
  <1>1. CASE X.tree = T
    BY <1>1
  <1>2. CASE ~Exists(U, a) /\ ~PkgDiff(At(O, a), At(T, a)) /\ X.tree = RemoveAll(T, a)
    <2>1. IsPackageDir(L, a) \/ IsPackageDir(O, a)
      <3>1. a # <<>>
        BY <1>2, ExistsTop
      <3>2. ~IsPackageDir(U, a)
        <4>1. U[a] # NoDir => Exists(U, a)
          BY PathsBelow DEF Exists
        <4> QED BY <1>2, <4>1 DEF IsPackageDir, NoDir
      <3> QED BY <3>1, <3>2
    <2> QED BY <1>2, <2>1, RemovedLeaves
  <1>3. CASE X.tree = MergePackage(T, U, O, a, flag)
    BY <1>3, MergePackageLeaves, SMTT(30)
  <1>4. CASE ~Exists(T, a) /\ X.tree = Graft(T, a, C)
    <2>1. ~IsPrefix(a, q)
      BY <1>4, ExistsAbove, SomethingWritten
    <2>2. C \in Trees
      BY AtType, CopyPackageLeaves
    <2>3. Graft(T, a, C)[q] = T[q]
      BY <2>1, <2>2, GraftType
    <2> QED BY <1>4, <2>3
  <1>5. \/ X.tree = T
        \/ ~Exists(U, a) /\ ~PkgDiff(At(O, a), At(T, a)) /\ X.tree = RemoveAll(T, a)
        \/ X.tree = MergePackage(T, U, O, a, flag)
        \/ ~Exists(T, a) /\ X.tree = Graft(T, a, C)
    BY DEF ResourceMergePackage, Ok, Failed
  <1> QED BY <1>1, <1>2, <1>3, <1>4, <1>5

(* A package that is gone, and is not upstream, is not made again.          *)
LEMMA GoneStays ==
  ASSUME NEW L, NEW U, NEW T, NEW M, NEW a, NEW q \in Paths, GoneFor(L, U, T, q),
         \A d \in Paths : IsPackageDir(M, d) => IsPackageDir(T, d) \/ (d = a /\ Exists(U, a))
  PROVE  GoneFor(L, U, M, q)
  BY DEF GoneFor

(* resource-merge: packages are come to from the top down, so that all that *)
(* are in a package were there before it is merged.                         *)
LEMMA ResourceMergeLeaves ==
  ASSUME NEW isRoot \in BOOLEAN, NEW k, NEW V, NEW U \in Trees, NEW L \in Kept(isRoot, k, V, U),
         NEW O \in Trees, IsPackageDir(L, <<>>),
         NEW q \in Paths, NEW f \in Files, L[q].files[f] = "e", O[q].files[f] # "e"
  PROVE  LET M == ResourceMerge(L, U, O, isRoot).tree
         IN  M[q].files[f] = "e" \/ Excused(L, U, O, M, q, f)
  <1> DEFINE S == Kept(isRoot, k, V, U)
             ps == MergedPackages(L, U, O)
             n == Len(ps)
             Flag(a) == isRoot /\ a = <<>>
             Step(T, a) == ResourceMergePackage(T, U, O, a, Flag(a))
             Leaves(T) == \/ T[q].files[f] = "e" \/ Taken(U, O, q, f) \/ Skipped(L, q, f)
                          \/ Turned(L, U, O, q) \/ GoneFor(L, U, T, q)
             Fresh(T, i) == \A d \in Paths : IsPackageDir(T, d) =>
                              IsPackageDir(L, d) \/ \E j \in 1 .. i : d = ps[j]
  <1>1. \A T \in S : T \in Trees
    BY KeptTrees
  <1>2. \A T \in S, a \in Paths : Step(T, a) \in Results(S)
    BY ResourceMergePackageKeeps
  <1>3. /\ ps \in Seq(Paths) /\ n \in Nat /\ DOMAIN ps = 1 .. n
        /\ \A i \in 1 .. n : /\ ps[i] \in Paths
                             /\ IsPackageDir(L, ps[i]) \/ IsPackageDir(U, ps[i]) \/ IsPackageDir(O, ps[i])
        /\ \A i, j \in 1 .. n : IsPrefix(ps[i], ps[j]) => i <= j
    <2> DEFINE B == UNION {Subpackages(T, "local", TRUE) : T \in {L, U, O}}
    <2>1. \A x \in B : IsPackageDir(L, x) \/ IsPackageDir(U, x) \/ IsPackageDir(O, x)
      BY SubpackagesBelow, ZenonT(30)
    <2> HIDE DEF B
    <2>2. /\ ps \in Seq(Paths) /\ \A i, j \in DOMAIN ps : IsPrefix(ps[i], ps[j]) => i <= j
          /\ \A x : x \in ToSet(ps) <=> x \in Paths /\ x \in B
      BY SortedIs DEF MergedPackages, B
    <2> HIDE DEF ps
    <2>3. \A i \in 1 .. n : ps[i] \in ToSet(ps)
      BY <2>2 DEF ToSet
    <2> QED BY <2>1, <2>2, <2>3
  <1>4. CASE ResourceMerge(L, U, O, isRoot) = Ok(L)
    BY <1>4 DEF Ok
  <1>5. CASE ResourceMerge(L, U, O, isRoot) # Ok(L)
    <2>1. PICK w \in [0 .. n -> Results(S)] :
            Merges(w, L, U, O, isRoot) /\ ResourceMerge(L, U, O, isRoot) = w[n]
      BY <1>2, <1>5, ResourceMergeSteps
    <2>2. /\ w[0] = Step(L, <<>>)
          /\ \A i \in 1 .. n : w[i] = IF w[i - 1].err THEN w[i - 1] ELSE Step(w[i - 1].tree, ps[i])
      BY <2>1 DEF Merges
    <2>3. \A i \in 0 .. n : w[i].tree \in S /\ w[i].tree \in Trees
      BY <1>1, <2>1, ResultTypes
    <2>4. Flag(<<>>) \in BOOLEAN /\ \A a : Flag(a) \in BOOLEAN
      OBVIOUS
    <2> HIDE DEF ps, n, S, Flag
    <2>5. Fresh(w[0].tree, 0) /\ Leaves(w[0].tree)
      <3>1. \A d \in Paths : IsPackageDir(Step(L, <<>>).tree, d) => IsPackageDir(L, d) \/ d = <<>>
        BY <1>1, <2>4, RootPath, ResourceMergePackageAdds DEF S
      <3>2. Leaves(Step(L, <<>>).tree)
        BY <1>1, <2>4, RootPath, ResourceMergePackageLeaves DEF S
      <3> QED BY <2>2, <3>1, <3>2
    <2>6. ASSUME NEW i \in 1 .. n, Fresh(w[i - 1].tree, i - 1), Leaves(w[i - 1].tree)
          PROVE  Fresh(w[i].tree, i) /\ Leaves(w[i].tree)
      <3> DEFINE T == w[i - 1].tree
                 a == ps[i]
                 M == w[i].tree
      <3>1. i - 1 \in 0 .. n /\ a \in Paths /\ T \in Trees
        BY <1>3, <2>3
      <3>2. \A j \in 1 .. i - 1 : j \in 1 .. n /\ j \in 1 .. i /\ j < i
        BY <1>3
      <3>3. CASE w[i - 1].err
        BY <2>2, <2>6, <3>2, <3>3
      <3>4. CASE ~w[i - 1].err
        <4>1. M = Step(T, a).tree
          BY <2>2, <3>4
        <4>2. \A d \in Paths : IsPackageDir(M, d) => IsPackageDir(T, d) \/ (d = a /\ Exists(U, a))
          <5> HIDE DEF T, a, M
          <5> QED BY <2>4, <3>1, <4>1, ResourceMergePackageAdds
        <4>3. \A d \in Below(a) \ {a} : IsPackageDir(T, d) => IsPackageDir(L, d)
          <5> SUFFICES ASSUME NEW d \in Paths, IsPrefix(a, d), IsPackageDir(T, d) PROVE IsPackageDir(L, d)
            BY DEF Below
          <5>1. \A j \in 1 .. i - 1 : ~IsPrefix(a, ps[j])
            BY <1>3, <3>2
          <5> QED BY <2>6, <5>1
        <4>4. Fresh(M, i)
          BY <2>6, <3>2, <4>2
        <4>5. CASE T[q].files[f] = "e"
          <5>1. IsPackageDir(L, a) \/ IsPackageDir(U, a) \/ IsPackageDir(O, a)
            BY <1>3
          <5> HIDE DEF T, a, M
          <5>2. Leaves(Step(T, a).tree)
            BY <1>1, <2>4, <3>1, <4>3, <4>5, <5>1, ResourceMergePackageLeaves DEF S
          <5> QED BY <4>1, <4>4, <5>2 DEF M
        <4>6. CASE GoneFor(L, U, T, q)
          BY <4>2, <4>4, <4>6, GoneStays
        <4> QED BY <2>6, <4>4, <4>5, <4>6
      <3> QED BY <3>3, <3>4
    <2>7. Leaves(w[n].tree)
      <3> DEFINE N == {i \in Nat : i <= n => Fresh(w[i].tree, i) /\ Leaves(w[i].tree)}
      <3> HIDE DEF Fresh, Leaves
      <3>1. 0 \in N
        BY <2>5
      <3>2. ASSUME NEW i \in Nat, i \in N PROVE i + 1 \in N
        <4> SUFFICES ASSUME i + 1 <= n PROVE Fresh(w[i + 1].tree, i + 1) /\ Leaves(w[i + 1].tree)
          OBVIOUS
        <4>1. i + 1 \in 1 .. n /\ i + 1 - 1 = i /\ Fresh(w[i].tree, i) /\ Leaves(w[i].tree)
          BY <1>3, <3>2
        <4>2. Fresh(w[i + 1 - 1].tree, i + 1 - 1) /\ Leaves(w[i + 1 - 1].tree)
          BY <4>1
        <4> QED BY <2>6, <4>1, <4>2
      <3> HIDE DEF N
      <3>3. Nat \subseteq N
        BY <3>1, <3>2, NatFrom
      <3> QED BY <1>3, <3>3 DEF N
    <2>8. ASSUME NEW M, GoneFor(L, U, M, q) PROVE Gone(L, M, q)
      BY <2>8 DEF GoneFor, Gone
    <2> QED BY <2>1, <2>7, <2>8 DEF Excused
  <1> QED BY <1>4, <1>5

-----------------------------------------------------------------------------
(* The other strategies.  A file is in the package b of L that is deepest.  *)
Deepest(L, q, b) ==
  /\ b \in Paths /\ IsPrefix(b, q) /\ (b = <<>> \/ IsPackageDir(L, b))
  /\ \A d \in Paths : IsPrefix(d, q) /\ IsPackageDir(L, d) => IsPrefix(d, b)

LEMMA DeepestExists ==
  ASSUME NEW L, NEW q \in Paths
  PROVE  \E b : Deepest(L, q, b)
  <1> DEFINE C == {d \in Paths : IsPrefix(d, q) /\ (d = <<>> \/ IsPackageDir(L, d))}
             S == {Rest(d, q) : d \in C}
  <1>1. \A d \in C : d \in Strings /\ Rest(d, q) \in Strings /\ Len(d) \in Nat /\ Len(Rest(d, q)) = Len(q) - Len(d)
    <2> SUFFICES ASSUME NEW d \in C
                 PROVE  d \in Strings /\ Rest(d, q) \in Strings /\ Len(d) \in Nat /\ Len(Rest(d, q)) = Len(q) - Len(d)
      OBVIOUS
    <2>1. d \in Strings /\ q \in Strings /\ IsPrefix(d, q)
      BY PathsAre
    <2>2. Rest(d, q) \in Strings /\ d \o Rest(d, q) = q
      BY <2>1, RestIs
    <2>3. d \in Seq(STRING) /\ Rest(d, q) \in Seq(STRING)
      BY <2>1, <2>2 DEF Strings
    <2> HIDE DEF C
    <2>4. Len(q) = Len(d) + Len(Rest(d, q)) /\ Len(d) \in Nat /\ Len(Rest(d, q)) \in Nat
      BY <2>2, <2>3, ConcatProperties
    <2> QED BY <2>1, <2>2, <2>4
  <1>2. <<>> \in C
    BY RootPath, PathOrder
  <1>3. PICK b \in C : \A d \in C : Len(Rest(b, q)) <= Len(Rest(d, q))
    <2>1. S \subseteq Strings /\ S # {}
      BY <1>1, <1>2
    <2>2. PICK s \in S : \A t \in S : Len(s) <= Len(t)
      <3> HIDE DEF S
      <3> QED BY <2>1, Shortest
    <2> QED BY <2>2
  <1>4. ASSUME NEW d \in Paths, IsPrefix(d, q), IsPackageDir(L, d) PROVE IsPrefix(d, b)
    <2>1. d \in C /\ b \in Paths /\ IsPrefix(b, q)
      BY <1>4
    <2>2. Len(d) \in Nat /\ Len(b) \in Nat /\ Len(q) \in Nat /\ Len(q) - Len(b) <= Len(q) - Len(d)
      <3>1. Len(q) \in Nat
        BY PathsAre DEF Strings
      <3> HIDE DEF C
      <3> QED BY <1>1, <1>3, <2>1, <3>1
    <2>3. Len(d) <= Len(b)
      BY <2>2
    <2>4. CASE IsPrefix(b, d)
      <3>1. b \in Strings /\ d \in Strings
        BY <2>1, PathsAre
      <3>2. Len(b) <= Len(d)
        BY <2>4, <3>1, PrefixOrder
      <3>3. Len(b) = Len(d)
        BY <2>2, <2>3, <3>2
      <3>4. b = d
        BY <2>4, <3>1, <3>3, PrefixOrder
      <3> QED BY <2>4, <3>4
    <2> QED BY <2>1, <2>4, PathOrder
  <1> QED BY <1>3, <1>4 DEF Deepest

(* A package that force-delete-replace comes to is the only one it may make. *)
LEMMA ReplacePackageAdds ==
  ASSUME NEW U \in Trees, NEW T \in Trees, NEW a \in Paths, NEW flag \in BOOLEAN,
         NEW d \in Paths, IsPackageDir(ReplacePackage(T, U, a, flag).tree, d)
  PROVE  IsPackageDir(T, d) \/ (d = a /\ Exists(U, a))
  <1> DEFINE g == ~flag
             E == RemovePackageContent(At(T, a), g)
             C == CopyPackage(At(U, a), E, g, "none")
  <1>1. g \in BOOLEAN /\ At(U, a) \in Trees /\ At(T, a) \in Trees
    BY AtType
  <1>2. ReplacePackage(T, U, a, flag).tree = IF Exists(U, a) THEN Graft(T, a, C) ELSE RemoveAll(T, a)
    BY DEF ReplacePackage, Ok
  <1> HIDE DEF g
  <1>3. E \in Trees /\ \A x \in Paths \ {<<>>} : E[x].kptfile = At(T, a)[x].kptfile
    BY <1>1, RemovePackageContentLeaves
  <1> HIDE DEF E
  <1>4. C \in Trees /\ \A x \in Paths \ {<<>>} : C[x].kptfile = E[x].kptfile
    BY <1>1, <1>3, CopyPackageLeaves
  <1> HIDE DEF C
  <1>5. \A x \in Paths \ {<<>>} : C[x].kptfile \in {None, At(T, a)[x].kptfile}
    BY <1>3, <1>4
  <1>6. CASE Exists(U, a)
    BY <1>2, <1>4, <1>5, <1>6, GraftAdds
  <1>7. CASE ~Exists(U, a)
    BY <1>2, <1>7, RemoveAllLeaves
  <1> QED BY <1>6, <1>7

(* force-delete-replace of one package leaves a file in a remote package:   *)
(* it empties and removes local ones.                                       *)
LEMMA ReplacePackageLeaves ==
  ASSUME NEW L \in Trees, NEW U \in Trees, NEW O \in Trees, NEW T \in Trees, NEW a \in Paths,
         NEW flag \in BOOLEAN,
         \/ a = <<>>
         \/ IsPackageDir(L, a) /\ UpAt(L, a) = None
         \/ IsPackageDir(U, a) /\ UpAt(U, a) = None,
         NEW q \in Paths, NEW f \in Files, L[q].files[f] = "e", T[q].files[f] = "e",
         NEW b, Deepest(L, q, b), b # <<>>, UpAt(L, b) # None, IsPackageDir(T, b)
  PROVE  LET M == ReplacePackage(T, U, a, flag).tree
         IN  \/ M[q].files[f] = "e" /\ IsPackageDir(M, b)
             \/ Turned(L, U, O, q) \/ Adopted(L, U, q) \/ GoneFor(L, U, M, q)
  <1> DEFINE t == At(T, a)
             u == At(U, a)
             g == ~flag
             E == RemovePackageContent(t, g)
             C == CopyPackage(u, E, g, "none")
             M == ReplacePackage(T, U, a, flag).tree
             r == Rest(a, q)
  <1> SUFFICES \/ M[q].files[f] = "e" /\ IsPackageDir(M, b)
               \/ Turned(L, U, O, q) \/ Adopted(L, U, q) \/ GoneFor(L, U, M, q)
    OBVIOUS
  <1>1. g \in BOOLEAN /\ u \in Trees /\ t \in Trees
    BY AtType
  <1>2. M = IF Exists(U, a) THEN Graft(T, a, C) ELSE RemoveAll(T, a)
    BY DEF ReplacePackage, Ok
  <1> HIDE DEF g, t, u, M
  <1>3. /\ E \in Trees /\ \A x \in Paths \ {<<>>} : E[x].kptfile = t[x].kptfile
        /\ \A x \in Paths : <<x, f>> \notin Walked(t) => E[x].files[f] = t[x].files[f]
    <2>1. E \in Trees /\ \A x \in Paths \ {<<>>} : E[x].kptfile = t[x].kptfile
      BY <1>1, RemovePackageContentLeaves
    <2>2. ASSUME NEW x \in Paths, <<x, f>> \notin Walked(t) PROVE E[x].files[f] = t[x].files[f]
      BY <2>2 DEF RemovePackageContent
    <2> HIDE DEF E
    <2> QED BY <2>1, <2>2
  <1> HIDE DEF E
  <1>4. /\ C \in Trees /\ \A x \in Paths \ {<<>>} : C[x].kptfile = E[x].kptfile
        /\ \A x \in Paths : <<x, f>> \notin Walked(u) => C[x].files[f] = E[x].files[f]
    <2>1. C \in Trees /\ \A x \in Paths \ {<<>>} : C[x].kptfile = E[x].kptfile
      BY <1>1, <1>3, CopyPackageLeaves
    <2>2. ASSUME NEW x \in Paths, <<x, f>> \notin Walked(u) PROVE C[x].files[f] = E[x].files[f]
      <3>1. C[x].files[f] = IF u[x].files[f] # None /\ <<x, f>> \in Walked(u) THEN u[x].files[f] ELSE E[x].files[f]
        BY DEF CopyPackage
      <3> QED BY <2>2, <3>1
    <2> HIDE DEF C
    <2> QED BY <2>1, <2>2
  <1> HIDE DEF C
  <1>5. /\ b \in Paths \ {<<>>} /\ IsPrefix(b, q) /\ IsPackageDir(L, b)
        /\ \A d \in Paths : IsPrefix(d, q) /\ IsPackageDir(L, d) => IsPrefix(d, b)
    BY DEF Deepest
  <1>6. CASE ~IsPrefix(a, q)
    <2>1. ~IsPrefix(a, b)
      BY <1>5, <1>6, PathOrder
    <2>2. ASSUME NEW x \in Paths, ~IsPrefix(a, x) PROVE M[x] = T[x]
      <3>1. Graft(T, a, C)[x] = T[x]
        BY <1>4, <2>2, GraftType
      <3>2. RemoveAll(T, a)[x] = T[x]
        BY <2>2, RemoveAllLeaves
      <3> QED BY <1>2, <3>1, <3>2
    <2>3. M[q] = T[q] /\ M[b] = T[b]
      BY <1>5, <1>6, <2>1, <2>2
    <2> QED BY <2>3 DEF IsPackageDir
  <1>7. CASE IsPrefix(a, q) /\ ~IsPrefix(a, b)
    <2>1. ~IsPackageDir(L, a)
      BY <1>5, <1>7
    <2>2. a # <<>>
      BY <1>5, <1>7, PathOrder
    <2> QED BY <1>7, <2>1, <2>2, TurnedBy, SomethingWritten
  <1>8. CASE a = b
    BY <1>5, <1>8 DEF Adopted
  <1>9. CASE IsPrefix(a, b) /\ a # b
    <2>1. q \in Below(a) /\ b \in Below(a) /\ IsPrefix(a, q)
      BY <1>5, <1>9, PathOrder DEF Below
    <2> DEFINE s == Rest(a, b)
    <2>2. r \in Paths /\ t[r] = T[q] /\ u[r] = U[q] /\ s \in Paths /\ t[s] = T[b] /\ u[s] = U[b]
      BY <2>1, AtInside DEF t, u
    <2>3. s # <<>> /\ IsPrefix(s, r)
      <3>1. a \o s = b /\ a \o r = q /\ a \o <<>> = a
        BY <2>1, PathsBelow, SMTT(30)
      <3> HIDE DEF s, r
      <3> QED BY <1>5, <1>9, <2>2, <3>1, Inside
    <2>4. CASE ~Exists(U, a)
      <3>1. a # <<>> /\ ~IsPackageDir(U, a)
        <4>1. U[a] # NoDir => Exists(U, a)
          BY PathsBelow DEF Exists
        <4> QED BY <2>4, <4>1, ExistsTop DEF IsPackageDir, NoDir
      <3>2. a # q
        BY <1>5, <1>9, SamePath
      <3>3. ~IsPackageDir(M, a)
        BY <1>2, <2>4, RemoveAllLeaves, PathOrder
      <3> QED BY <2>1, <2>4, <3>1, <3>2, <3>3 DEF GoneFor
    <2>5. CASE Exists(U, a)
      <3>1. M = Graft(T, a, C)
        BY <1>2, <2>5
      <3>2. \A x \in Below(a) : Graft(T, a, C)[x] = C[Rest(a, x)]
        BY <1>4, GraftType
      <3>7. M[q] = C[r] /\ M[b] = C[s]
        BY <2>1, <3>1, <3>2
      <3> HIDE DEF s, r
      <3>3. IsPackageDir(M, b)
        BY <1>3, <1>4, <2>2, <2>3, <3>7 DEF IsPackageDir
      <3>4. E[r].files[f] = "e"
        <4>1. r \notin Own(t)
          BY <2>2, <2>3 DEF Own, IsPackageDir
        <4>2. <<r, f>> \notin Walked(t)
          BY <2>2, <4>1, WalkedIs
        <4> QED BY <1>3, <2>2, <4>2
      <3>5. CASE <<r, f>> \notin Walked(u)
        BY <1>4, <2>2, <3>3, <3>4, <3>5, <3>7
      <3>6. CASE <<r, f>> \in Walked(u)
        <4>1. r \in Own(u) /\ U[q].files[f] # None
          BY <2>2, <3>6, WalkedIs
        <4>2. ~IsPackageDir(U, b)
          BY <2>2, <2>3, <4>1 DEF Own, IsPackageDir
        <4> QED BY <1>5, <4>1, <4>2, TurnedBy
      <3> QED BY <3>5, <3>6
    <2> QED BY <2>4, <2>5
  <1> QED BY <1>6, <1>7, <1>8, <1>9

(* A local package is not remote.                                           *)
LEMMA LocalPackages ==
  ASSUME NEW T \in Trees, NEW a \in Subpackages(T, "local", TRUE)
  PROVE  a \in Paths \ {<<>>} /\ IsPackageDir(T, a) /\ UpAt(T, a) = None
  BY DEF Subpackages, Matches, UpAt, IsPackageDir

(* force-delete-replace: packages that it comes to are local, or become so. *)
LEMMA ReplaceLeaves ==
  ASSUME NEW isRoot \in BOOLEAN, NEW k, NEW V, NEW U \in Trees, NEW L \in Kept(isRoot, k, V, U),
         NEW O \in Trees, isRoot => Kf(U).up \in k \cup {None},
         NEW q \in Paths, NEW f \in Files, L[q].files[f] = "e",
         NEW b, Deepest(L, q, b), b # <<>>, UpAt(L, b) # None
  PROVE  LET M == Replace(L, U, O, isRoot).tree
         IN  M[q].files[f] = "e" \/ Excused(L, U, O, M, q, f)
  <1> DEFINE S == Kept(isRoot, k, V, U)
             T0 == UpdateKptfile(L, U, O, TRUE)
             ps == ReplacedPackages(T0, U)
             n == Len(ps)
             Flag(a) == isRoot /\ a = <<>>
             Step(T, a) == ReplacePackage(T, U, a, Flag(a))
             Stays(T) == T[q].files[f] = "e" /\ IsPackageDir(T, b)
             Leaves(T) == Stays(T) \/ Turned(L, U, O, q) \/ Adopted(L, U, q) \/ GoneFor(L, U, T, q)
             Local(a) == \/ a = <<>>
                         \/ IsPackageDir(L, a) /\ UpAt(L, a) = None
                         \/ IsPackageDir(U, a) /\ UpAt(U, a) = None
  <1>1. L \in Trees /\ \A T \in S : T \in Trees
    BY KeptTrees
  <1>2. T0 \in S /\ ReplaceStays(S, U, isRoot)
    BY ReplaceKeeps, ReplacePackageKeeps DEF ReplaceStays
  <1>3. T0 \in Trees /\ T0[q].files = L[q].files /\ \A a \in Paths \ {<<>>} : T0[a] = L[a]
    <2> DEFINE g == TRUE
    <2>3. T0 \in Trees /\ g \in BOOLEAN /\ T0 = UpdateKptfile(L, U, O, g)
      BY <1>1, <1>2
    <2> HIDE DEF T0, g
    <2>1. T0[q].files = L[q].files
      BY <1>1, <2>3, UpdateKptfileLeaves
    <2>2. ASSUME NEW a \in Paths \ {<<>>} PROVE T0[a] = L[a]
      BY <1>1, <2>2, <2>3, UpdateKptfileLeaves
    <2> QED BY <2>1, <2>2, <2>3
  <1>4. ReplaceComes(S, L, U, O, T0, isRoot)
    <2>1. T0 = UpdateKptfile(L, U, O, TRUE)
      OBVIOUS
    <2> HIDE DEF T0, S
    <2> QED BY <1>2, <2>1, ReplaceSteps
  <1> HIDE DEF S, T0
  <1>5. /\ ps \in Seq(Paths) /\ n \in Nat /\ \A i \in 1 .. n : ps[i] \in Paths /\ Local(ps[i])
    <2> DEFINE B == Subpackages(T0, "local", TRUE) \cup Subpackages(U, "local", TRUE)
    <2>1. \A a \in B : a \in Paths \ {<<>>} /\ Local(a)
      <3> SUFFICES ASSUME NEW a \in B PROVE a \in Paths \ {<<>>} /\ Local(a)
        OBVIOUS
      <3>1. CASE a \in Subpackages(T0, "local", TRUE)
        <4>1. a \in Paths \ {<<>>} /\ IsPackageDir(T0, a) /\ UpAt(T0, a) = None
          BY <1>3, <3>1, LocalPackages
        <4> QED BY <1>3, <4>1 DEF IsPackageDir, UpAt
      <3>2. CASE a \in Subpackages(U, "local", TRUE)
        BY <3>2, LocalPackages
      <3> QED BY <3>1, <3>2
    <2> HIDE DEF B, Local
    <2>2. ps \in Seq(Paths) /\ \A x : x \in ToSet(ps) <=> x \in Paths /\ x \in B
      BY SortedIs DEF ReplacedPackages, B
    <2> HIDE DEF ps
    <2>3. \A i \in 1 .. n : ps[i] \in ToSet(ps)
      BY <2>2 DEF ToSet
    <2> QED BY <2>1, <2>2, <2>3
  <1>6. PICK w \in [0 .. n -> Results(S)] :
          Replaces(w, T0, U, isRoot) /\ Replace(L, U, O, isRoot) = w[n]
    BY <1>4 DEF ReplaceComes
  <1>7. /\ w[0] = Step(T0, <<>>)
        /\ \A i \in 1 .. n : w[i] = IF w[i - 1].err THEN w[i - 1] ELSE Step(w[i - 1].tree, ps[i])
    BY <1>6 DEF Replaces
  <1>8. \A i \in 0 .. n : w[i].tree \in Trees
    <2>1. \A i \in 0 .. n : w[i] \in Results(S)
      BY <1>6
    <2> HIDE DEF ps, n
    <2> QED BY <1>1, <2>1, ResultTypes
  <1>9. \A a : Flag(a) \in BOOLEAN
    OBVIOUS
  <1> HIDE DEF ps, n, Flag
  <1>10. ASSUME NEW T \in Trees, NEW a \in Paths, Local(a), Leaves(T)
         PROVE  Leaves(Step(T, a).tree)
    <2> DEFINE M == Step(T, a).tree
    <2>1. CASE Stays(T)
      BY <1>1, <1>9, <1>10, <2>1, ReplacePackageLeaves
    <2>2. CASE GoneFor(L, U, T, q)
      <3>1. \A d \in Paths : IsPackageDir(M, d) => IsPackageDir(T, d) \/ (d = a /\ Exists(U, a))
        BY <1>9, ReplacePackageAdds
      <3> HIDE DEF M
      <3>2. GoneFor(L, U, M, q)
        BY <2>2, <3>1, GoneStays
      <3> QED BY <3>2 DEF M
    <2> QED BY <1>10, <2>1, <2>2
  <1>11. Leaves(w[0].tree)
    <2>1. Stays(T0)
      BY <1>3 DEF IsPackageDir, Deepest
    <2> HIDE DEF Step, Stays
    <2> QED BY <1>3, <1>7, <1>10, <2>1, RootPath
  <1> HIDE DEF Step, Stays, Local
  <1>12. ASSUME NEW i \in 1 .. n, Leaves(w[i - 1].tree) PROVE Leaves(w[i].tree)
    <2>1. i - 1 \in 0 .. n
      BY <1>5
    <2> HIDE DEF Leaves
    <2> QED BY <1>5, <1>7, <1>8, <1>10, <1>12, <2>1
  <1> HIDE DEF Leaves
  <1>13. Leaves(w[n].tree)
    <2> DEFINE J == {v \in {w[i] : i \in 0 .. n} : Leaves(v.tree)}
    <2>1. w[0] \in J
      BY <1>5, <1>11
    <2>2. \A i \in 1 .. n : w[i - 1] \in J => w[i] \in J
      BY <1>5, <1>12
    <2>3. w[n] \in J
      <3> HIDE DEF J
      <3> QED BY <1>5, <2>1, <2>2, Along
    <2> QED BY <2>3
  <1>14. ASSUME NEW M, GoneFor(L, U, M, q) PROVE Gone(L, M, q)
    BY <1>14 DEF GoneFor, Gone
  <1> QED BY <1>6, <1>13, <1>14 DEF Excused, Leaves, Stays

(* A file of a package that does not differ is the same.                    *)
LEMMA SameLeaves ==
  ASSUME NEW A, NEW B, NEW r \in Paths, NEW f \in Files, A[r].files[f] = "e", r \in Own(A),
         ~Skipped(A, r, f), ~PkgDiff(A, B)
  PROVE  B[r].files[f] = "e"
  <1>1. <<r, f>> \in Walked(A)
    BY WalkedIs, SomethingWritten
  <1> QED BY <1>1 DEF PkgDiff

(* Where there are no local changes, no file of a local package is what the *)
(* user wrote, but for those that are overlooked.                           *)
LEMMA NoLocalChanges ==
  ASSUME NEW L \in Trees, NEW O \in Trees, ~LocalChanges(L, O), NEW q \in Paths, NEW f \in Files,
         L[q].files[f] = "e", NEW b, Deepest(L, q, b), b = <<>> \/ UpAt(L, b) = None
  PROVE  O[q].files[f] = "e" \/ Skipped(L, q, f)
  <1>1. b \in Paths /\ q \in Below(b) /\ (b = <<>> \/ IsPackageDir(L, b))
    BY DEF Deepest, Below
  <1>2. b \in {<<>>} \cup Subpackages(L, "local", TRUE) \cup Subpackages(O, "local", TRUE)
    BY <1>1 DEF Subpackages, Matches, UpAt, IsPackageDir
  <1>3. CASE b = <<>> /\ ~IsPackageDir(O, b)
    <2> DEFINE kl == [Kf(L) EXCEPT !.up = None, !.lock = None]
               A == [L EXCEPT ![b].kptfile = kl]
               B == [O EXCEPT ![b].kptfile = NoKptfile]
    <2>1. ~PkgDiff(A, B)
      BY <1>2, <1>3 DEF LocalChanges
    <2> HIDE DEF kl
    <2>2. /\ A[q].files[f] = "e" /\ B[q].files[f] = O[q].files[f]
          /\ \A d \in Paths \ {<<>>} : A[d] = L[d]
      BY <1>3 DEF Trees, Dirs
    <2> HIDE DEF A, B
    <2>3. q \in Own(A)
      <3> SUFFICES ASSUME NEW d \in Paths \ {<<>>}, IsPackageDir(A, d), IsPrefix(d, q) PROVE FALSE
        BY DEF Own
      <3>1. IsPrefix(d, <<>>)
        BY <1>3, <2>2 DEF Deepest, IsPackageDir
      <3> QED BY <3>1, PathOrder, RootPath, SamePath
    <2>4. Skipped(A, q, f) => Skipped(L, q, f)
      <3> SUFFICES ASSUME NEW d \in Shadows[f], Append(q, d) \in Paths, IsPackageDir(A, Append(q, d))
                   PROVE  IsPackageDir(L, Append(q, d))
        BY DEF Skipped
      <3>1. d \in STRING
        BY TreeAssumption
      <3>2. Append(q, d) # <<>>
        BY <3>1, Named
      <3> QED BY <2>2, <3>2 DEF IsPackageDir
    <2> QED BY <2>1, <2>2, <2>3, <2>4, SameLeaves
  <1>4. CASE ~(b = <<>> /\ ~IsPackageDir(O, b))
    <2> DEFINE A == At(L, b)
               B == At(O, b)
               r == Rest(b, q)
    <2>1. ~PkgDiff(A, B)
      BY <1>2, <1>4 DEF LocalChanges
    <2>2. r \in Paths /\ A[r] = L[q] /\ B[r] = O[q]
      BY <1>1, AtInside
    <2>3. Skipped(A, r, f) => Skipped(L, q, f)
      BY <1>1, SkippedInside
    <2>4. r \in Own(A)
      <3> SUFFICES ASSUME NEW d \in Paths \ {<<>>}, IsPackageDir(A, d), IsPrefix(d, r) PROVE FALSE
        BY <2>2 DEF Own
      <3>1. b \o d \in Below(b) \ {b} /\ IsPrefix(b \o d, q) /\ IsPackageDir(L, b \o d)
        BY <1>1, AtInside
      <3>2. IsPrefix(b \o d, b) /\ IsPrefix(b, b \o d) /\ b \o d \in Paths /\ b \o d # b
        BY <3>1 DEF Deepest, Below
      <3> QED BY <1>1, <3>2, SamePath
    <2> HIDE DEF A, B, r
    <2> QED BY <2>1, <2>2, <2>3, <2>4, SameLeaves
  <1> QED BY <1>3, <1>4

(* fast-forward.                                                            *)
LEMMA FastForwardLeaves ==
  ASSUME NEW isRoot \in BOOLEAN, NEW k, NEW V, NEW U \in Trees, NEW L \in Kept(isRoot, k, V, U),
         NEW O \in Trees, isRoot => Kf(U).up \in k \cup {None},
         NEW q \in Paths, NEW f \in Files, L[q].files[f] = "e", O[q].files[f] # "e"
  PROVE  LET M == FastForward(L, U, O, isRoot).tree
         IN  M[q].files[f] = "e" \/ Excused(L, U, O, M, q, f)
  <1>1. PICK b : Deepest(L, q, b)
    BY DeepestExists
  <1>2. CASE LocalChanges(L, O)
    BY <1>2 DEF FastForward, Failed
  <1>3. CASE ~LocalChanges(L, O)
    <2>1. FastForward(L, U, O, isRoot) = Replace(L, U, O, isRoot)
      BY <1>3 DEF FastForward
    <2>2. CASE b = <<>> \/ UpAt(L, b) = None
      <3>1. L \in Trees
        BY KeptTrees
      <3> QED BY <1>1, <1>3, <2>2, <3>1, NoLocalChanges DEF Excused
    <2>3. CASE b # <<>> /\ UpAt(L, b) # None
      BY <1>1, <2>1, <2>3, ReplaceLeaves
    <2> QED BY <2>2, <2>3
  <1> QED BY <1>2, <1>3

(* copy-merge writes over, or removes, what is or was upstream.             *)
LEMMA CopyMergeLeaves ==
  ASSUME NEW isRoot \in BOOLEAN, NEW U \in Trees, NEW L \in Trees, NEW O \in Trees,
         NEW q \in Paths, NEW f \in Files, U[q].files[f] = None, O[q].files[f] = None
  PROVE  CopyMerge(L, U, O, isRoot).tree[q].files[f] = L[q].files[f]
  <1> DEFINE g == TRUE
             T0 == UpdateKptfile(L, U, O, g)
             T1 == CopyPackage(U, T0, isRoot, "all")
             T2 == RemoveStaleItems(O, U, T1)
  <1>1. CopyMerge(L, U, O, isRoot).tree = T2
    BY DEF CopyMerge, Ok
  <1>2. g \in BOOLEAN
    OBVIOUS
  <1> HIDE DEF g
  <1>3. T0[q].files = L[q].files
    BY <1>2, UpdateKptfileLeaves
  <1> HIDE DEF T0
  <1>4. T1[q].files[f] = T0[q].files[f]
    BY DEF CopyPackage
  <1> HIDE DEF T1
  <1>5. T2[q].files[f] = T1[q].files[f]
    BY DEF RemoveStaleItems
  <1> QED BY <1>1, <1>3, <1>4, <1>5

(* What a strategy gives up.                                                *)
GivesUp(L, U, O, q, f) ==
  /\ Kf(L).up # None /\ ~Unfetched(U)
  /\ \/ Kf(L).up.strat = "copy-merge" /\ (U[q].files[f] # None \/ O[q].files[f] # None)
     \/ /\ Kf(L).up.strat = "force-delete-replace"
        /\ \E b : Deepest(L, q, b) /\ (b = <<>> \/ UpAt(L, b) = None)

(* All strategies.                                                          *)
LEMMA UpdateByStrategyLeaves ==
  ASSUME NEW isRoot \in BOOLEAN, NEW U \in Trees, NEW L \in Trees, NEW O \in Trees,
         IsPackageDir(L, <<>>),
         NEW q \in Paths, NEW f \in Files, L[q].files[f] = "e", O[q].files[f] # "e"
  PROVE  LET M == UpdateByStrategy(L, U, O, isRoot).tree
         IN  M[q].files[f] = "e" \/ Excused(L, U, O, M, q, f) \/ GivesUp(L, U, O, q, f)
  <1> DEFINE k == Kf(L).up
             ks == {k, Kf(U).up}
             g == TRUE
             T0 == UpdateKptfile(L, U, O, g)
             X == UpdateByStrategy(L, U, O, isRoot)
             R == Update(Kf(L).up.strat, L, U, O, isRoot)
             Leaves(M) == M[q].files[f] = "e" \/ Excused(L, U, O, M, q, f) \/ GivesUp(L, U, O, q, f)
  <1>1. L \in Kept(isRoot, ks, L, U) /\ (isRoot => Kf(U).up \in ks \cup {None})
    <2>1. From(L, L, U)
      BY FromLess
    <2>2. FollowIn(L, ks)
      BY KfType DEF FollowIn, IsPackageDir
    <2> QED BY <2>1, <2>2 DEF Kept
  <1> HIDE DEF ks
  <1>2. CASE X = Failed(L)
    BY <1>2 DEF Failed
  <1>3. CASE X = Ok(T0)
    <2>1. g \in BOOLEAN
      OBVIOUS
    <2> HIDE DEF g
    <2>2. T0[q].files = L[q].files
      BY <2>1, UpdateKptfileLeaves
    <2>3. X.tree[q].files[f] = "e"
      BY <1>3, <2>2 DEF Ok
    <2> QED BY <2>3
  <1>4. CASE X = R /\ k # None /\ ~Unfetched(U)
    <2>1. k.strat \in {"resource-merge", "fast-forward", "force-delete-replace", "copy-merge"}
      BY <1>4, KfType, TreeAssumption DEF Kptfiles, Upstreams
    <2> SUFFICES Leaves(R.tree)
      BY <1>4
    <2>2. CASE k.strat = "resource-merge"
      <3>1. R = ResourceMerge(L, U, O, isRoot)
        BY <2>2 DEF Update
      <3> HIDE DEF R, k
      <3> QED BY <1>1, <3>1, ResourceMergeLeaves
    <2>3. CASE k.strat = "fast-forward"
      <3>1. R = FastForward(L, U, O, isRoot)
        BY <2>3 DEF Update
      <3> HIDE DEF R, k
      <3> QED BY <1>1, <3>1, FastForwardLeaves
    <2>4. CASE k.strat = "force-delete-replace"
      <3>1. R = Replace(L, U, O, isRoot)
        BY <2>4 DEF Update
      <3>2. PICK b : Deepest(L, q, b)
        BY DeepestExists
      <3>3. CASE b = <<>> \/ UpAt(L, b) = None
        BY <1>4, <2>4, <3>2, <3>3 DEF GivesUp
      <3>4. CASE b # <<>> /\ UpAt(L, b) # None
        <4> HIDE DEF R, k
        <4> QED BY <1>1, <3>1, <3>2, <3>4, ReplaceLeaves
      <3> QED BY <3>3, <3>4
    <2>5. CASE k.strat = "copy-merge"
      <3>1. R = CopyMerge(L, U, O, isRoot)
        BY <2>5 DEF Update
      <3>2. CASE U[q].files[f] = None /\ O[q].files[f] = None
        BY <3>1, <3>2, CopyMergeLeaves
      <3>3. CASE ~(U[q].files[f] = None /\ O[q].files[f] = None)
        BY <1>4, <2>5, <3>3 DEF GivesUp
      <3> QED BY <3>2, <3>3
    <2> QED BY <2>1, <2>2, <2>3, <2>4, <2>5
  <1>5. X = Failed(L) \/ X = Ok(T0) \/ (X = R /\ k # None /\ ~Unfetched(U))
    BY DEF UpdateByStrategy
  <1> QED BY <1>2, <1>3, <1>4, <1>5

(* One package of those that are updated, seen from the top one.            *)
LEMMA UpdatePackageLeaves ==
  ASSUME NEW L \in Trees, NEW U \in Trees, NEW O \in Trees, NEW p \in Paths,
         NEW q \in Paths, NEW f \in Files, L[q].files[f] = "e", O[q].files[f] # "e"
  PROVE  LET M == UpdatePackage(L, U, O, p).tree
             s == Rest(p, q)
         IN  \/ M[q].files[f] = "e"
             \/ IsPrefix(p, q) /\ p # <<>> /\ IsPackageDir(U, p) /\ ~IsPackageDir(L, p)
             \/ /\ IsPrefix(p, q) /\ IsPackageDir(L, p)
                /\ \E N \in Trees :
                     /\ M = Graft(L, p, N)
                     /\ \/ Excused(At(L, p), At(U, p), At(O, p), N, s, f)
                        \/ GivesUp(At(L, p), At(U, p), At(O, p), s, f)
  <1> DEFINE isRoot == p = <<>>
             g == ~isRoot
             l == At(L, p)
             u == At(U, p)
             o == At(O, p)
             s == Rest(p, q)
             C == CopyPackage(u, l, g, "none")
             W == UpdateByStrategy(l, u, o, isRoot)
             X == UpdatePackage(L, U, O, p)
             M == X.tree
             N == W.tree
  <1>1. /\ l \in Trees /\ u \in Trees /\ o \in Trees /\ isRoot \in BOOLEAN /\ g \in BOOLEAN
        /\ l[<<>>] = L[p]
    BY AtType
  <1>2. \/ X.tree = L
        \/ /\ ~IsPackageDir(L, p) /\ p # <<>> /\ IsPackageDir(U, p)
           /\ X.tree = Graft(L, p, C)
        \/ IsPackageDir(L, p) /\ l = o /\ X.tree = RemoveAll(L, p)
        \/ IsPackageDir(L, p) /\ X = [W EXCEPT !.tree = Graft(L, p, W.tree)]
    BY DEF UpdatePackage, Ok, Failed
  <1> HIDE DEF isRoot, g, l, u, o, X
  <1>3. CASE X.tree = L
    BY <1>3 DEF X
  <1>4. CASE /\ ~IsPackageDir(L, p) /\ p # <<>> /\ IsPackageDir(U, p)
             /\ X.tree = Graft(L, p, C)
    <2>1. CASE IsPrefix(p, q)
      BY <1>4, <2>1
    <2>2. CASE ~IsPrefix(p, q)
      <3>1. C \in Trees
        BY <1>1, CopyPackageLeaves
      <3> HIDE DEF C
      <3>2. X.tree[q] = L[q]
        BY <1>4, <2>2, <3>1, GraftType
      <3> QED BY <3>2 DEF X
    <2> QED BY <2>1, <2>2
  <1>5. CASE l = o /\ X.tree = RemoveAll(L, p)
    <2>1. CASE IsPrefix(p, q)
      <3>1. q \in Below(p)
        BY <2>1 DEF Below
      <3>2. l[s] = L[q] /\ o[s] = O[q]
        BY <3>1, AtInside DEF l, o
      <3> QED BY <1>5, <3>2
    <2>2. CASE ~IsPrefix(p, q)
      <3>1. X.tree[q] = L[q]
        BY <1>5, <2>2, RemoveAllLeaves
      <3> QED BY <3>1 DEF X
    <2> QED BY <2>1, <2>2
  <1>6. CASE IsPackageDir(L, p) /\ X = [W EXCEPT !.tree = Graft(L, p, W.tree)]
    <2>1. W \in Results(Trees)
      <3> DEFINE ks == {Kf(l).up, Kf(u).up}
                 S == Kept(isRoot, ks, l, u)
      <3>1. From(l, l, u)
        BY FromLess
      <3>2. FollowIn(l, ks) /\ Kf(u).up \in ks \cup {None}
        BY <1>1, <1>6, KfType DEF FollowIn, IsPackageDir
      <3> HIDE DEF ks
      <3>3. l \in S
        BY <1>1, <3>1, <3>2 DEF Kept
      <3>4. W \in Results(S)
        BY <1>1, <3>2, <3>3, UpdateByStrategyKeeps
      <3>5. S \subseteq Trees
        BY DEF Kept
      <3> HIDE DEF S, W
      <3> QED BY <3>4, <3>5 DEF Results
    <2> HIDE DEF W
    <2>2. X.tree = Graft(L, p, N) /\ N \in Trees
      BY <1>6, <2>1 DEF Results
    <2> HIDE DEF N
    <2>3. CASE ~IsPrefix(p, q)
      <3>1. X.tree[q] = L[q]
        BY <2>2, <2>3, GraftType
      <3> QED BY <3>1 DEF X
    <2>4. CASE IsPrefix(p, q)
      <3>1. q \in Below(p)
        BY <2>4 DEF Below
      <3>2. l[s] = L[q] /\ o[s] = O[q] /\ s \in Paths
        BY <3>1, AtInside DEF l, o
      <3>3. X.tree[q] = N[s]
        BY <2>2, <3>1, GraftType
      <3>4. IsPackageDir(l, <<>>)
        BY <1>1, <1>6 DEF IsPackageDir
      <3> HIDE DEF s
      <3>5. N[s].files[f] = "e" \/ Excused(l, u, o, N, s, f) \/ GivesUp(l, u, o, s, f)
        BY <1>1, <3>2, <3>4, UpdateByStrategyLeaves DEF N, W
      <3> QED BY <1>6, <2>2, <2>4, <3>3, <3>5 DEF X, l, u, o, s
    <2> QED BY <2>3, <2>4
  <1> QED BY <1>2, <1>3, <1>4, <1>5, <1>6

(* The directories above a path are paths.                                  *)
LEMMA AbovePath ==
  ASSUME NEW p \in Strings, NEW x \in Paths, IsPrefix(p, x)
  PROVE  p \in Paths
  <1>1. x \in Strings /\ p \in Seq(STRING) /\ x \in Seq(STRING) /\ Len(p) \in 0 .. Len(x)
    <2>1. x \in Strings
      BY PathsAre
    <2>2. Len(p) <= Len(x)
      BY <2>1, PrefixIs
    <2> QED BY <2>1, <2>2 DEF Strings
  <1>2. \A i \in 1 .. Len(p) : p[i] = x[i]
    BY <1>1, PrefixIs
  <1>3. SubSeq(x, 1, Len(p)) = p
    BY <1>1, <1>2
  <1> QED BY <1>1, <1>3, TreeAssumption

(* A directory of a package at r of the package at c.                       *)
LEMMA Seen ==
  ASSUME NEW c \in Paths, NEW r \in Paths, NEW x \in Below(c), IsPrefix(r, Rest(c, x))
  PROVE  LET p == c \o r
         IN  /\ p \in Paths /\ x \in Below(p) /\ Rest(c, p) = r
             /\ Rest(p, x) = Rest(r, Rest(c, x)) /\ Rest(c, x) \in Below(r)
             /\ \A T \in Trees : At(At(T, c), r) = At(T, p)
  <1> DEFINE p == c \o r
             t == Rest(c, x)
             s == Rest(r, t)
  <1>1. c \in Strings /\ r \in Strings /\ x \in Paths /\ t \in Paths /\ c \o t = x
    BY PathsAre, PathsBelow
  <1>2. t \in Below(r)
    BY <1>1 DEF Below
  <1>3. s \in Paths /\ s \in Strings /\ r \o s = t
    <2> HIDE DEF t
    <2>1. s \in Paths /\ r \o s = t
      BY <1>2, PathsBelow
    <2> QED BY <2>1, PathsAre
  <1> HIDE DEF s, t
  <1>4. p \in Strings /\ p \o s = x /\ IsPrefix(p, p \o s) /\ Rest(p, p \o s) = s
    <2>1. p \in Strings
      BY <1>1, ConcatPrefix
    <2>2. c \in Seq(STRING) /\ r \in Seq(STRING) /\ s \in Seq(STRING)
      BY <1>1, <1>3 DEF Strings
    <2>3. p \o s = c \o (r \o s)
      BY <2>2, ConcatAssociative, SMTT(30)
    <2> HIDE DEF p
    <2> QED BY <1>1, <1>3, <2>1, <2>3, ConcatPrefix
  <1>5. p \in Paths /\ x \in Below(p) /\ Rest(p, x) = s
    <2> HIDE DEF p
    <2> QED BY <1>1, <1>4, AbovePath DEF Below
  <1>6. Rest(c, p) = r
    BY <1>1, ConcatPrefix
  <1>7. ASSUME NEW T \in Trees PROVE At(At(T, c), r) = At(T, p)
    <2>1. ASSUME NEW e \in Paths
          PROVE  (IF r \o e \in Paths THEN At(T, c)[r \o e] ELSE NoDir) = (IF p \o e \in Paths THEN T[p \o e] ELSE NoDir)
      <3>1. e \in Strings /\ p \o e = c \o (r \o e)
        <4>1. e \in Strings
          BY PathsAre
        <4>2. c \in Seq(STRING) /\ r \in Seq(STRING) /\ e \in Seq(STRING)
          BY <1>1, <4>1 DEF Strings
        <4> QED BY <4>1, <4>2, ConcatAssociative, SMTT(30)
      <3> HIDE DEF p
      <3>2. p \o e \in Paths => r \o e \in Paths
        <4> SUFFICES ASSUME p \o e \in Paths PROVE r \o e \in Paths
          OBVIOUS
        <4>1. r \o e \in Strings
          BY <1>1, <3>1, ConcatPrefix
        <4>2. IsPrefix(c, c \o (r \o e)) /\ Rest(c, c \o (r \o e)) = r \o e
          BY <1>1, <4>1, ConcatPrefix
        <4>3. p \o e \in Below(c)
          BY <3>1, <4>2 DEF Below
        <4>4. Rest(c, p \o e) \in Paths
          BY <4>3, PathsBelow
        <4> QED BY <3>1, <4>2, <4>4
      <3>3. r \o e \in Paths => At(T, c)[r \o e] = IF c \o (r \o e) \in Paths THEN T[c \o (r \o e)] ELSE NoDir
        BY DEF At
      <3> QED BY <3>1, <3>2, <3>3
    <2> HIDE DEF p
    <2> QED BY <2>1 DEF At
  <1> QED BY <1>2, <1>5, <1>6, <1>7 DEF s, t

(* A directory that is there in a package is there in the tree.             *)
LEMMA ExistsInside ==
  ASSUME NEW T \in Trees, NEW r \in Paths, NEW e \in Paths \ {<<>>}, Exists(At(T, r), e), r \o e \in Paths
  PROVE  Exists(T, r \o e)
  <1>1. PICK g \in Below(e) : At(T, r)[g] # NoDir
    BY DEF Exists
  <1>2. g \in Paths /\ IsPrefix(e, g)
    BY <1>1 DEF Below
  <1>3. r \o g \in Paths /\ At(T, r)[g] = T[r \o g]
    BY <1>1, <1>2 DEF At
  <1>4. IsPrefix(r \o e, r \o g)
    BY <1>2, <1>3, Inside
  <1> QED BY <1>1, <1>3, <1>4 DEF Exists, Below

(* A directory in that package, above x.                                    *)
LEMMA SeenBelow ==
  ASSUME NEW c \in Paths, NEW r \in Paths, NEW x \in Below(c), IsPrefix(r, Rest(c, x)),
         NEW e \in Paths \ {<<>>}, IsPrefix(e, Rest(c \o r, x))
  PROVE  LET p == c \o r
             d == p \o e
         IN  /\ d \in Below(p) \ {p} /\ d \in Paths \ {<<>>, c} /\ IsPrefix(d, x)
             /\ Rest(c, d) = r \o e /\ r \o e \in Paths
  <1> DEFINE p == c \o r
             d == p \o e
  <1>1. p \in Paths /\ x \in Below(p) /\ x \in Paths
    BY Seen, PathsBelow
  <1>2. c \in Seq(STRING) /\ r \in Seq(STRING) /\ e \in Seq(STRING) /\ e \in Strings /\ c \in Strings /\ r \in Strings
    BY PathsAre DEF Strings
  <1>3. d = c \o (r \o e)
    BY <1>2, ConcatAssociative, SMTT(30)
  <1>4. IsPrefix(c, p)
    BY <1>2, ConcatPrefix
  <1>5. r \o e \in Strings
    BY <1>2, ConcatPrefix
  <1>6. IsPrefix(c, c \o (r \o e)) /\ Rest(c, c \o (r \o e)) = r \o e
    BY <1>2, <1>5, ConcatPrefix
  <1>9. IsPrefix(e, Rest(p, x))
    OBVIOUS
  <1> HIDE DEF p
  <1>7. d \in Paths /\ x \in Below(d)
    BY <1>1, <1>9, Seen
  <1>8. d \in Below(p) /\ d # p /\ Rest(p, d) = e
    BY <1>1, <1>7, Inside, PathsBelow
  <1>10. d \in Below(c) /\ Rest(c, d) = r \o e
    BY <1>3, <1>6, <1>7 DEF Below
  <1> HIDE DEF d
  <1>11. d # c
    <2> SUFFICES ASSUME d = c PROVE FALSE
      OBVIOUS
    <2>1. IsPrefix(p, d) /\ IsPrefix(d, p)
      BY <1>4, <1>8 DEF Below
    <2> QED BY <1>1, <1>7, <1>8, <2>1, SamePath
  <1>12. d # <<>>
    <2> SUFFICES ASSUME d = <<>> PROVE FALSE
      OBVIOUS
    <2>1. IsPrefix(p, d) /\ IsPrefix(d, p)
      BY <1>1, <1>8, PathOrder DEF Below
    <2> QED BY <1>1, <1>7, <1>8, <2>1, SamePath
  <1>13. r \o e \in Paths
    <2>1. Rest(c, d) \in Paths
      BY <1>10, PathsBelow
    <2> QED BY <1>10, <2>1
  <1>14. IsPrefix(d, x)
    BY <1>7 DEF Below
  <1> QED BY <1>7, <1>8, <1>10, <1>11, <1>12, <1>13, <1>14 DEF d, p

-----------------------------------------------------------------------------
(* What the user wrote, in a merge.  An excuse for a package is one for the *)
(* tree.                                                                    *)
LEMMA ExcusedIs ==
  ASSUME local \in Trees, top \in Paths, NewUpstream \in Trees, Origin \in Trees,
         NEW r \in Paths, r = Last(rels), NEW q \in Below(top), IsPrefix(r, Rest(top, q)), NEW f \in Files,
         NEW N \in Trees, local' = Graft(local, top, Graft(At(local, top), r, N)),
         Excused(At(At(local, top), r), At(NewUpstream, r), At(Origin, r), N, Rest(r, Rest(top, q)), f)
  PROVE  LET x == <<q, f>>
         IN  \/ TakenUpstream(x) \/ WithParent(x) \/ TakenOver(x)
             \/ InConverted(top \o Last(rels), x) \/ Overlooked(x)
  <1> DEFINE x == <<q, f>>
             p == top \o r
             L == At(local, top)
             l == At(L, r)
             u == At(NewUpstream, r)
             o == At(Origin, r)
             t == Rest(top, q)
             s == Rest(r, t)
  <1>1. /\ p \in Paths /\ q \in Below(p) /\ q \in Paths /\ Rest(top, p) = r /\ Rest(p, q) = s
        /\ t \in Below(r) /\ l = At(local, p) /\ L \in Trees
    <2>1. p \in Paths /\ q \in Below(p) /\ Rest(top, p) = r /\ Rest(p, q) = s /\ t \in Below(r)
      BY Seen
    <2>2. l = At(local, p)
      BY Seen
    <2>3. q \in Paths /\ L \in Trees
      BY AtType DEF Below
    <2> HIDE DEF p, l, s, t, L
    <2> QED BY <2>1, <2>2, <2>3
  <1>2. s \in Paths /\ u[s] = NewUpstream[t] /\ o[s] = Origin[t] /\ l[s] = local[q]
    <2>1. s \in Paths /\ u[s] = NewUpstream[t] /\ o[s] = Origin[t]
      BY <1>1, AtInside
    <2>2. At(local, p)[Rest(p, q)] = local[q]
      BY <1>1, AtInside
    <2> QED BY <1>1, <2>1, <2>2
  <1>3. ASSUME NEW e \in Paths \ {<<>>}, IsPrefix(e, s)
        PROVE  LET d == p \o e
               IN  /\ d \in Below(p) \ {p} /\ d \in Paths \ {<<>>, top} /\ IsPrefix(d, q)
                   /\ (d = q => e = s) /\ Rest(top, d) = r \o e /\ r \o e \in Paths
                   /\ u[e] = NewUpstream[r \o e] /\ o[e] = Origin[r \o e] /\ l[e] = local[d]
                   /\ l[e] = L[r \o e]
    <2> DEFINE d == p \o e
    <2>1. IsPrefix(e, Rest(top \o r, q))
      BY <1>1, <1>3
    <2>2. /\ d \in Below(p) \ {p} /\ d \in Paths \ {<<>>, top} /\ IsPrefix(d, q)
          /\ (d = q => e = Rest(p, q)) /\ Rest(top, d) = r \o e /\ r \o e \in Paths
      <3>1. d \in Below(p) \ {p} /\ d \in Paths
        BY <2>1, SeenBelow
      <3>2. d # <<>> /\ d # top
        BY <2>1, SeenBelow
      <3>3. IsPrefix(d, q)
        BY <2>1, SeenBelow
      <3>4. d = q => e = Rest(p, q)
        <4>1. p \in Paths
          BY <1>1
        <4> HIDE DEF p
        <4>2. Rest(p, d) = e
          BY <3>1, <4>1, PathsBelow
        <4> QED BY <4>2
      <3>6. r \o e \in Paths
        BY <2>1, SeenBelow
      <3>5. Rest(top, d) = r \o e
        <4>1. top \in Seq(STRING) /\ r \in Seq(STRING) /\ e \in Seq(STRING)
          BY PathsAre DEF Strings
        <4>2. d = top \o (r \o e)
          BY <4>1, ConcatAssociative, SMTT(30)
        <4> DEFINE y == r \o e
        <4>3. d = top \o y /\ y \in Paths /\ d \in Paths
          BY <3>1, <3>6, <4>2
        <4> HIDE DEF d, y
        <4>4. Rest(top, top \o y) = y
          BY <4>3, PathsBelow
        <4> QED BY <4>3, <4>4 DEF y
      <3> HIDE DEF d, p
      <3> QED BY <3>1, <3>2, <3>3, <3>4, <3>5, <3>6
    <2> HIDE DEF p, L
    <2>3. u[e] = NewUpstream[r \o e] /\ o[e] = Origin[r \o e] /\ l[e] = L[r \o e]
      BY <2>2 DEF At
    <2>4. At(local, p)[e] = local[d]
      BY <2>2 DEF At
    <2> HIDE DEF d, l, u, o, s
    <2>5. l = At(local, p) /\ Rest(p, q) = s
      BY <1>1
    <2>6. l[e] = local[d] /\ (d = q => e = s)
      BY <2>2, <2>4, <2>5
    <2> QED BY <2>2, <2>3, <2>6 DEF d, p
  <1>4. Excused(l, u, o, N, s, f)
    OBVIOUS
  <1>5. top \o Last(rels) = p
    OBVIOUS
  <1> HIDE DEF p, L, l, u, o, t, s
  <1>6. CASE Taken(u, o, s, f)
    BY <1>2, <1>6 DEF Taken, TakenUpstream, t
  <1>7. CASE Skipped(l, s, f)
    <2>1. Skipped(At(local, p), Rest(p, q), f)
      BY <1>1, <1>7
    <2>2. Skipped(local, q, f)
      BY <1>1, <2>1, SkippedInside
    <2> QED BY <2>2 DEF Overlooked
  <1>8. CASE Turned(l, u, o, s)
    <2>1. PICK e \in Paths \ {<<>>} : /\ IsPrefix(e, s)
                                      /\ \E A, B \in {l, u, o} : IsPackageDir(A, e) /\ ~IsPackageDir(B, e) /\ Exists(B, e)
      BY <1>8 DEF Turned
    <2>2. PICK A \in {l, u, o}, B \in {l, u, o} : IsPackageDir(A, e) /\ ~IsPackageDir(B, e) /\ Exists(B, e)
      BY <2>1
    <2> DEFINE d == p \o e
               trees == {L, NewUpstream, Origin}
    <2>3. d \in Below(p) \ {top} /\ IsPrefix(d, q) /\ Rest(top, d) = r \o e /\ r \o e \in Paths
      BY <1>3, <2>1
    <2>4. \A C \in {l, u, o} : \E D \in trees : C = At(D, r) /\ C[e] = D[r \o e]
      BY <1>3, <2>1 DEF l, u, o
    <2>5. PICK V \in trees, W \in trees : IsPackageDir(V, r \o e) /\ ~IsPackageDir(W, r \o e) /\ Exists(W, r \o e)
      <3>1. PICK V \in trees : A[e] = V[r \o e]
        BY <2>4
      <3>2. PICK W \in trees : B = At(W, r) /\ B[e] = W[r \o e]
        BY <2>4
      <3>3. Exists(W, r \o e)
        BY <1>1, <2>1, <2>2, <2>3, <3>2, ExistsInside
      <3> QED BY <2>2, <3>1, <3>2, <3>3 DEF IsPackageDir
    <2> HIDE DEF d
    <2>6. d \in Converted(p)
      BY <2>3, <2>5 DEF Converted, L
    <2>7. x[1] = q
      OBVIOUS
    <2> QED BY <1>5, <2>3, <2>6, <2>7 DEF InConverted
  <1>9. CASE Gone(l, N, s)
    <2>1. PICK e \in Paths \ {<<>>, s} : IsPrefix(e, s) /\ IsPackageDir(l, e) /\ ~IsPackageDir(N, e)
      BY <1>9 DEF Gone
    <2> DEFINE d == p \o e
    <2>2. /\ d \in Paths \ {<<>>, q} /\ d \in Below(p) /\ IsPrefix(d, q) /\ l[e] = local[d]
          /\ Rest(top, d) = r \o e /\ r \o e \in Paths
      BY <1>3, <2>1
    <2>3. local'[d] = N[e]
      <3> DEFINE G == Graft(L, r, N)
      <3>1. G \in Trees
        BY <1>1, GraftType
      <3>2. r \o e \in Below(r) /\ Rest(r, r \o e) = e
        BY <2>1, <2>2, PathsBelow
      <3>7. \A y \in Below(r) : G[y] = N[Rest(r, y)]
        BY DEF Graft, Below
      <3>3. G[r \o e] = N[e]
        BY <3>2, <3>7
      <3>4. d \in Below(top)
        <4>1. IsPrefix(p, d) /\ IsPrefix(top, p)
          <5>1. top \in Strings /\ r \in Strings
            BY PathsAre
          <5> QED BY <2>2, <5>1, ConcatPrefix DEF Below, p
        <4> QED BY <1>1, <2>2, <4>1, PathOrder DEF Below
      <3>5. local' = Graft(local, top, G)
        BY DEF L
      <3> HIDE DEF G, d
      <3>8. \A y \in Below(top) : Graft(local, top, G)[y] = G[Rest(top, y)]
        BY <3>1, GraftType
      <3>6. local'[d] = G[Rest(top, d)]
        BY <3>4, <3>5, <3>8
      <3> QED BY <2>2, <3>3, <3>6
    <2> HIDE DEF d
    <2> QED BY <2>1, <2>2, <2>3 DEF WithParent, IsPackageDir
  <1>10. CASE Adopted(l, u, s)
    <2>1. PICK e \in Paths \ {<<>>} :
            IsPrefix(e, s) /\ UpAt(l, e) # None /\ IsPackageDir(u, e) /\ UpAt(u, e) = None
      BY <1>10 DEF Adopted
    <2> DEFINE d == p \o e
    <2>2. /\ d \in Below(p) \ {p} /\ IsPrefix(d, q) /\ l[e] = local[d]
          /\ Rest(top, d) = r \o e /\ u[e] = NewUpstream[r \o e]
      BY <1>3, <2>1
    <2> HIDE DEF d
    <2> QED BY <1>5, <2>1, <2>2 DEF TakenOver, UpAt, Up, IsPackageDir
  <1> QED BY <1>4, <1>6, <1>7, <1>8, <1>9, <1>10 DEF Excused

(* A package above x in the package at p.                                   *)
LEMMA PackageInside ==
  ASSUME NEW T \in Trees, NEW p \in Paths, NEW x \in Below(p), NEW d \in Below(p) \ {p},
         IsPackageDir(T, d), IsPrefix(d, x)
  PROVE  LET e == Rest(p, d)
         IN  /\ e \in Paths \ {<<>>} /\ p \o e = d /\ IsPackageDir(At(T, p), e) /\ IsPrefix(e, Rest(p, x))
  <1> DEFINE e == Rest(p, d)
             s == Rest(p, x)
  <1>1. e \in Paths /\ p \o e = d /\ d \in Paths /\ p \o <<>> = p
    BY PathsBelow
  <1>2. s \in Paths /\ p \o s = x /\ x \in Paths
    BY PathsBelow
  <1>3. At(T, p)[e] = T[d]
    BY AtInside
  <1> HIDE DEF e, s
  <1>4. e # <<>>
    BY <1>1
  <1>5. IsPrefix(e, s)
    BY <1>1, <1>2, Inside
  <1> QED BY <1>1, <1>3, <1>4, <1>5 DEF e, s, IsPackageDir

(* What a strategy gives up in a package is given up in the tree.           *)
LEMMA GivenUpIs ==
  ASSUME local \in Trees, top \in Paths, NewUpstream \in Trees, Origin \in Trees,
         NEW r \in Paths, r = Last(rels), NEW q \in Below(top), IsPrefix(r, Rest(top, q)), NEW f \in Files,
         GivesUp(At(At(local, top), r), At(NewUpstream, r), At(Origin, r), Rest(r, Rest(top, q)), f)
  PROVE  GivenUp(<<q, f>>)
  <1> DEFINE x == <<q, f>>
             p == top \o r
             l == At(local, p)
             u == At(NewUpstream, r)
             o == At(Origin, r)
             t == Rest(top, q)
             s == Rest(r, t)
  <1> SUFFICES GivenUp(x)
    OBVIOUS
  <1>1. /\ p \in Paths /\ q \in Below(p) /\ q \in Paths /\ Rest(top, p) = r /\ Rest(p, q) = s
        /\ t \in Below(r) /\ l \in Trees
    <2>1. p \in Paths /\ q \in Below(p) /\ Rest(top, p) = r /\ Rest(p, q) = s /\ t \in Below(r)
      BY Seen
    <2> HIDE DEF p, s, t
    <2>2. q \in Paths /\ l \in Trees
      BY <2>1, AtType DEF Below
    <2> HIDE DEF l
    <2> QED BY <2>1, <2>2
  <1>2. GivesUp(l, u, o, s, f)
    <2>1. At(At(local, top), r) = l
      BY Seen
    <2> HIDE DEF l
    <2> QED BY <2>1
  <1>3. s \in Paths /\ u[s] = NewUpstream[t] /\ o[s] = Origin[t] /\ l[<<>>] = local[p]
    <2>1. s \in Paths /\ u[s] = NewUpstream[t] /\ o[s] = Origin[t]
      BY <1>1, AtInside
    <2>2. l[<<>>] = local[p]
      BY <1>1, AtType
    <2> QED BY <2>1, <2>2
  <1>4. top \o Last(rels) = p /\ x[1] = q /\ x[2] = f
    OBVIOUS
  <1> HIDE DEF p, o, s
  <1>5. Up(p) # None /\ Up(p) = Kf(l).up
    <2>1. Kf(l).up # None
      BY <1>2 DEF GivesUp
    <2> HIDE DEF l
    <2> QED BY <1>3, <2>1 DEF Kf, NoKptfile, Up, IsPackageDir
  <1>6. Lossy(p)
    <2>1. u = At(NewUpstream, Rest(top, p)) /\ ~Unfetched(u) /\ Up(p).strat \in {"force-delete-replace", "copy-merge"}
      BY <1>1, <1>2, <1>5 DEF GivesUp
    <2> QED BY <1>5, <2>1 DEF Lossy
  <1> HIDE DEF u, t, x
  <1>7. CASE Up(p).strat = "copy-merge"
    <2>1. NewUpstream[t].files[f] # None \/ Origin[t].files[f] # None
      BY <1>2, <1>3, <1>5, <1>7 DEF GivesUp
    <2> QED BY <1>1, <1>4, <1>6, <1>7, <2>1 DEF GivenUp, t
  <1>8. CASE Up(p).strat # "copy-merge"
    <2>1. PICK b : Deepest(l, s, b) /\ (b = <<>> \/ UpAt(l, b) = None)
      BY <1>2, <1>5, <1>8 DEF GivesUp
    <2>2. CASE b = <<>>
      <3>1. ASSUME NEW d \in Below(p) \ {p}, IsPackageDir(local, d), IsPrefix(d, q) PROVE FALSE
        <4>1. PICK e \in Paths \ {<<>>} : IsPackageDir(l, e) /\ IsPrefix(e, s)
          BY <1>1, <3>1, PackageInside
        <4>2. IsPrefix(e, <<>>) /\ IsPrefix(<<>>, e)
          BY <2>1, <2>2, <4>1, PathOrder DEF Deepest
        <4> QED BY <4>2, RootPath, SamePath
      <3>2. x \in Territory(local, p)
        BY <1>1, <3>1 DEF Territory, x
      <3> QED BY <1>1, <1>4, <1>6, <1>8, <3>2 DEF GivenUp
    <2>3. CASE b # <<>>
      <3> DEFINE d == p \o b
      <3>1. b \in Paths /\ IsPrefix(b, s) /\ IsPackageDir(l, b) /\ UpAt(l, b) = None
        BY <2>1, <2>3 DEF Deepest
      <3>2. d \in Below(p) \ {p} /\ d \in Paths /\ l[b] = local[d] /\ IsPrefix(d, q)
        <4>1. /\ d \in Below(p) \ {p} /\ (IsPrefix(b, Rest(p, q)) => IsPrefix(d, q))
              /\ (IsPackageDir(l, b) <=> IsPackageDir(local, d))
          BY <1>1, <2>3, <3>1, AtInside
        <4>2. d \in Paths
          BY <4>1 DEF Below
        <4>3. l[b] = local[d]
          BY <3>1, <4>2 DEF At
        <4> HIDE DEF d
        <4> QED BY <1>1, <3>1, <4>1, <4>2, <4>3
      <3>3. IsPackageDir(local, d) /\ Up(d) = None
        <4> HIDE DEF d, l
        <4> QED BY <3>1, <3>2 DEF IsPackageDir, UpAt, Up
      <3>4. ASSUME NEW y \in Below(d) \ {d}, IsPackageDir(local, y), IsPrefix(y, q) PROVE FALSE
        <4> HIDE DEF d, l
        <4>1. y \in Paths /\ IsPrefix(d, y)
          BY <3>4 DEF Below
        <4>2. IsPrefix(p, d)
          BY <3>2 DEF Below
        <4>3. y \in Below(p) \ {p}
          <5>1. y # p
            BY <3>2, <4>1, <4>2, SamePath
          <5> QED BY <1>1, <3>2, <4>1, <4>2, <5>1, PathOrder DEF Below
        <4>4. PICK e \in Paths \ {<<>>} : p \o e = y /\ IsPackageDir(l, e) /\ IsPrefix(e, s)
          BY <1>1, <3>4, <4>3, PackageInside DEF l
        <4>5. IsPrefix(e, b)
          BY <2>1, <4>4 DEF Deepest
        <4>6. IsPrefix(y, d)
          BY <1>1, <3>1, <3>2, <4>4, <4>5, Inside DEF d
        <4> QED BY <3>2, <3>4, <4>1, <4>6, SamePath
      <3> HIDE DEF d
      <3>5. InLocalPackage(x)
        BY <1>4, <3>2, <3>3, <3>4 DEF InLocalPackage
      <3> QED BY <1>1, <1>4, <1>6, <1>8, <3>5 DEF GivenUp
    <2> QED BY <2>2, <2>3
  <1> QED BY <1>7, <1>8

(* Upstream has nothing that the user wrote: it can be told from what is    *)
(* fetched and merged.                                                      *)
EditsAreOwn ==
  \A h \in Histories, s \in Sources, v \in Versions : \A p \in Paths, f \in Files :
    Upstream(h, s, v)[p].files[f] # "e"

(* Reasons for a step to lose x.                                            *)
LossExcused(x) ==
  \/ TakenUpstream(x) \/ GivenUp(x) \/ WithParent(x) \/ TakenOver(x)
  \/ InConverted(top \o Last(rels), x) \/ Overlooked(x)

(* A merge loses nothing else.                                              *)
LEMMA MergeLeaves ==
  ASSUME IndInv, EditsAreOwn, Merge, NEW q \in Paths, NEW f \in Files, local[q].files[f] = "e"
  PROVE  local'[q].files[f] = "e" \/ LossExcused(<<q, f>>)
  <1> DEFINE A == At(local, top)
             r == Last(rels)
             X == UpdatePackage(A, NewUpstream, Origin, r)
             M == X.tree
             t == Rest(top, q)
             x == <<q, f>>
  <1>1. pc = "merge" /\ rels # <<>> /\ local' = Graft(local, top, M)
    BY DEF Merge
  <1>2. TypeOK /\ TopInv /\ local \in Trees /\ top \in Paths /\ spec \in Upstreams /\ history \in Histories
    BY <1>1 DEF IndInv, TypeOK
  <1>3. /\ NewUpstream \in Trees /\ Origin \in Trees
        /\ Followed \subseteq Upstreams /\ Kf(NewUpstream).up \in Followed \cup {None}
        /\ \A d \in Paths : Origin[d].files[f] # "e"
    <2>2. base # None => base.src \in Sources /\ base.ref \in Versions
      BY <1>2 DEF TypeOK, Locks
    <2>3. /\ NewUpstream \in Trees /\ Origin \in Trees
          /\ Followed \subseteq Upstreams /\ Kf(NewUpstream).up \in Followed \cup {None}
      BY <1>1, <1>2, FollowedIs
    <2>4. ASSUME NEW d \in Paths PROVE Origin[d].files[f] # "e"
      <3>1. CASE base = None
        BY <3>1, SomethingWritten DEF Origin, NoTree, NoDir
      <3>2. CASE base # None
        BY <1>2, <2>2, <3>2 DEF Origin, EditsAreOwn
      <3> QED BY <3>1, <3>2
    <2> QED BY <2>3, <2>4
  <1>4. A \in Trees /\ r \in Paths
    BY <1>1, <1>2, AtType, FrontIs DEF TypeOK
  <1>5. M \in Trees
    <2>1. A[<<>>] = local[top]
      BY <1>2, AtType
    <2>2. local[top].kptfile # None /\ local[top].kptfile.up \in Followed
      BY <1>1, <1>2, <1>3, UpTypes, NoneAssumption DEF TopInv
    <2>3. FollowIn(A, Followed)
      BY <1>4, <2>1, <2>2 DEF FollowIn
    <2> HIDE DEF A, r
    <2>4. X \in Results(Kept(TRUE, Followed, A, NewUpstream))
      BY <1>3, <1>4, <2>3, UpdatePackageKeeps
    <2> HIDE DEF X
    <2> QED BY <2>4, ResultTypes DEF Kept
  <1>6. CASE ~IsPrefix(top, q)
    <2> HIDE DEF M
    <2>1. Graft(local, top, M)[q] = local[q]
      BY <1>2, <1>5, <1>6, GraftType
    <2> QED BY <1>1, <2>1
  <1>7. CASE IsPrefix(top, q)
    <2>1. q \in Below(top)
      BY <1>7 DEF Below
    <2>2. t \in Paths /\ A[t] = local[q]
      BY <1>2, <2>1, AtInside
    <2>3. local'[q] = M[t]
      <3> HIDE DEF M, t
      <3>1. Graft(local, top, M)[q] = M[Rest(top, q)]
        BY <1>2, <1>5, <2>1, GraftType
      <3> QED BY <1>1, <3>1 DEF t
    <2> HIDE DEF A, r, t
    <2>4. \/ M[t].files[f] = "e"
          \/ IsPrefix(r, t) /\ r # <<>> /\ IsPackageDir(NewUpstream, r) /\ ~IsPackageDir(A, r)
          \/ /\ IsPrefix(r, t) /\ IsPackageDir(A, r)
             /\ \E N \in Trees :
                  /\ M = Graft(A, r, N)
                  /\ \/ Excused(At(A, r), At(NewUpstream, r), At(Origin, r), N, Rest(r, t), f)
                     \/ GivesUp(At(A, r), At(NewUpstream, r), At(Origin, r), Rest(r, t), f)
      BY <1>3, <1>4, <2>2, UpdatePackageLeaves
    <2> HIDE DEF M
    <2>5. CASE IsPrefix(r, t) /\ r # <<>> /\ IsPackageDir(NewUpstream, r) /\ ~IsPackageDir(A, r)
      <3> DEFINE p == top \o r
      <3>1. p \in Paths /\ q \in Below(p) /\ Rest(top, p) = r
        BY <1>2, <1>4, <2>1, <2>5, Seen DEF t
      <3>2. p # top
        BY <1>2, <1>4, <2>5, <3>1, Inside
      <3>3. Exists(A, r)
        BY <1>4, <2>2, <2>5, ExistsAbove, SomethingWritten
      <3> HIDE DEF p
      <3>4. p \in Converted(p)
        <4>1. p \in Below(p) \ {top}
          BY <3>1, <3>2, PathsBelow
        <4>2. LET c == Rest(top, p) IN IsPackageDir(NewUpstream, c) /\ ~IsPackageDir(A, c) /\ Exists(A, c)
          BY <2>5, <3>1, <3>3
        <4> QED BY <4>1, <4>2 DEF Converted, A
      <3>5. IsPrefix(p, x[1])
        BY <3>1 DEF Below
      <3>6. InConverted(p, x)
        BY <3>4, <3>5 DEF InConverted
      <3> QED BY <3>6 DEF LossExcused, p, r
    <2>6. CASE \E N \in Trees :
                 /\ IsPrefix(r, t) /\ M = Graft(A, r, N)
                 /\ Excused(At(A, r), At(NewUpstream, r), At(Origin, r), N, Rest(r, t), f)
      <3>1. PICK N \in Trees :
              /\ IsPrefix(r, t) /\ M = Graft(A, r, N)
              /\ Excused(At(A, r), At(NewUpstream, r), At(Origin, r), N, Rest(r, t), f)
        BY <2>6
      <3>2. local' = Graft(local, top, Graft(At(local, top), r, N))
        BY <1>1, <3>1 DEF A
      <3>3. \/ TakenUpstream(x) \/ WithParent(x) \/ TakenOver(x)
            \/ InConverted(top \o Last(rels), x) \/ Overlooked(x)
        <4>1. r = Last(rels)
          BY DEF r
        <4>2. Excused(At(At(local, top), r), At(NewUpstream, r), At(Origin, r), N, Rest(r, Rest(top, q)), f)
          BY <3>1 DEF A, t
        <4>3. IsPrefix(r, Rest(top, q))
          BY <3>1 DEF t
        <4> QED BY <1>2, <1>3, <1>4, <2>1, <3>2, <4>1, <4>2, <4>3, ExcusedIs
      <3> HIDE DEF x
      <3> QED BY <3>3 DEF LossExcused, x
    <2>7. CASE /\ IsPrefix(r, t)
               /\ GivesUp(At(A, r), At(NewUpstream, r), At(Origin, r), Rest(r, t), f)
      <3>1. r = Last(rels)
        BY DEF r
      <3>2. GivesUp(At(At(local, top), r), At(NewUpstream, r), At(Origin, r), Rest(r, Rest(top, q)), f)
        BY <2>7 DEF A, t
      <3>3. IsPrefix(r, Rest(top, q))
        BY <2>7 DEF t
      <3>4. GivenUp(x)
        BY <1>2, <1>3, <1>4, <2>1, <3>1, <3>2, <3>3, GivenUpIs
      <3> QED BY <3>4 DEF LossExcused
    <2> QED BY <2>2, <2>3, <2>4, <2>5, <2>6, <2>7
  <1> QED BY <1>6, <1>7

-----------------------------------------------------------------------------
(* What the user wrote, before and after a merge.  Nothing is written before *)
(* the package is there.                                                    *)
Unwritten(T) == \A q \in Paths, f \in Files : T[q].files[f] # "e"
UnwrittenInv == pc \in {"start", "get"} => Unwritten(local)

LEMMA UnwrittenGraft ==
  ASSUME NEW T \in Trees, NEW U \in Trees, NEW p \in Paths, Unwritten(T), Unwritten(U)
  PROVE  Unwritten(Graft(T, p, U))
  <1>1. \A q \in Paths : \E V \in {T, U} : \E r \in Paths : Graft(T, p, U)[q] = V[r]
    BY PathsBelow DEF Graft
  <1>2. ASSUME NEW q \in Paths, NEW f \in Files
        PROVE  Graft(T, p, U)[q].files[f] # "e"
    BY <1>1 DEF Unwritten
  <1> QED BY <1>2 DEF Unwritten

LEMMA UnwrittenEmpty == Unwritten(NoTree)
  BY SomethingWritten DEF Unwritten, NoTree, NoDir

LEMMA UnwrittenFetched ==
  ASSUME TypeOK, EditsAreOwn, Unwritten(local), NEW p \in Paths, Up(p) # None
  PROVE  Unwritten(Fetched(local, p))
  <1> DEFINE up == Up(p)
             U == Upstream(history, up.src, up.ref)
             A == At(local, p)
             C == CopyPackage(U, A, TRUE, "all")
             K == UpdateKptfile(C, U, NoTree, FALSE)
             lock == [src |-> up.src, ref |-> up.ref]
             X == [K EXCEPT ![<<>>].kptfile.lock = lock]
  <1>1. /\ local \in Trees /\ up = local[p].kptfile.up /\ up \in Upstreams
        /\ history \in Histories /\ NoTree \in Trees
    BY UpTypes, EmptyTypes DEF TypeOK
  <1>2. U \in Trees /\ Unwritten(U) /\ lock \in Locks
    <2>1. up.src \in Sources /\ up.ref \in Versions
      BY <1>1 DEF Upstreams
    <2> QED BY <1>1, <2>1, UpdateAssumption DEF EditsAreOwn, Unwritten, Locks
  <1>3. A \in Trees /\ Unwritten(A)
    <2>1. A \in Trees
      BY <1>1, AtType
    <2>2. \A q \in Paths : A[q] = NoDir \/ \E r \in Paths : A[q] = local[r]
      BY DEF At
    <2>3. \A f \in Files : NoDir.files[f] # "e"
      BY SomethingWritten DEF NoDir
    <2> HIDE DEF A
    <2> QED BY <2>1, <2>2, <2>3 DEF Unwritten
  <1>4. Fetched(local, p) = Graft(local, p, X)
    BY <1>1 DEF Fetched
  <1> HIDE DEF U, A, up, lock
  <1>5. C \in Trees
    <2>1. TRUE \in BOOLEAN
      OBVIOUS
    <2> QED BY <1>2, <1>3, <2>1, CopyPackageType, ZenonT(60)
  <1>6. Unwritten(C)
    <2>1. \A q \in Paths, f \in Files : C[q].files[f] \in {U[q].files[f], A[q].files[f]}
      BY DEF CopyPackage
    <2> HIDE DEF C
    <2> QED BY <1>2, <1>3, <2>1 DEF Unwritten
  <1> HIDE DEF C
  <1>7. K \in Trees /\ K[<<>>].kptfile \in Kptfiles /\ \A q \in Paths : K[q].files = C[q].files
    <2> DEFINE g == FALSE
    <2>1. g \in BOOLEAN /\ K = UpdateKptfile(C, U, NoTree, g)
      OBVIOUS
    <2> HIDE DEF K, g
    <2>2. Follow(K, IF g /\ Kf(U).up # None THEN Kf(U).up ELSE Kf(C).up)
      BY <1>1, <1>2, <1>5, <2>1, UpdateKptfileType
    <2>3. ASSUME NEW q \in Paths PROVE K[q].files = C[q].files
      BY <1>1, <1>2, <1>5, <2>1, UpdateKptfileLeaves
    <2>4. K \in Trees /\ K[<<>>].kptfile # None
      BY <2>2 DEF Follow
    <2> QED BY <2>3, <2>4, TreeTypes, RootPath
  <1> HIDE DEF K
  <1> DEFINE k == [K[<<>>].kptfile EXCEPT !.lock = lock]
  <1>9. k \in Kptfiles
    BY <1>2, <1>7 DEF Kptfiles
  <1>10. X \in Trees /\ \A q \in Paths : X[q].files = K[q].files
    <2>1. X = [K EXCEPT ![<<>>] = [@ EXCEPT !.kptfile = k]]
      OBVIOUS
    <2>2. K \in [Paths -> Dirs] /\ K[<<>>] \in Dirs /\ <<>> \in Paths
      BY <1>7, RootPath DEF Trees
    <2> HIDE DEF k, X
    <2>3. [K[<<>>] EXCEPT !.kptfile = k] \in Dirs /\ [K[<<>>] EXCEPT !.kptfile = k].files = K[<<>>].files
      BY <1>9, <2>2 DEF Dirs
    <2> QED BY <2>1, <2>2, <2>3 DEF Trees
  <1> HIDE DEF X
  <1>11. Unwritten(X)
    BY <1>6, <1>7, <1>10 DEF Unwritten
  <1> QED BY <1>1, <1>4, <1>10, <1>11, UnwrittenGraft

LEMMA UnwrittenStep ==
  ASSUME IndInv, EditsAreOwn, UnwrittenInv, [Next]_vars
  PROVE  UnwrittenInv'
  <1>1. TypeOK
    BY DEF IndInv
  <1>2. CASE Get
    <2>1. PICK up \in Upstreams :
            local' = [NoTree EXCEPT ![<<>>].kptfile = [up |-> up, lock |-> None, kf |-> None]]
      BY <1>2, UpdateAssumption DEF Get, Upstreams
    <2>2. NoTree \in [Paths -> Dirs] /\ NoTree[<<>>] \in Dirs /\ <<>> \in Paths
      BY RootPath, EmptyTypes DEF Trees
    <2>3. \A q \in Paths : local'[q].files = NoTree[q].files
      BY <2>1, <2>2 DEF Dirs
    <2> QED BY <2>3, UnwrittenEmpty DEF UnwrittenInv, Unwritten
  <1>3. CASE GetNext
    <2>1. /\ pc = "get" /\ Last(pkgs) \in Paths
          /\ local' = IF Up(Last(pkgs)) # None /\ Lock(Last(pkgs)) = None
                      THEN Fetched(local, Last(pkgs)) ELSE local
      BY <1>1, <1>3, FrontIs DEF GetNext, TypeOK
    <2>2. Up(Last(pkgs)) # None => Unwritten(Fetched(local, Last(pkgs)))
      BY <1>1, <2>1, UnwrittenFetched DEF UnwrittenInv
    <2>3. (Up(Last(pkgs)) # None /\ local' = Fetched(local, Last(pkgs))) \/ local' = local
      BY <2>1
    <2> QED BY <2>1, <2>2, <2>3 DEF UnwrittenInv, Unwritten
  <1>4. CASE GetFails
    BY <1>4, UnwrittenEmpty DEF GetFails, UnwrittenInv, Unwritten
  <1>5. CASE GetDone \/ EditFile \/ DeleteFile \/ AddPackage \/ DeletePackage
    BY <1>5 DEF GetDone, EditFile, DeleteFile, AddPackage, DeletePackage, Touch, UnwrittenInv
  <1>6. CASE Run \/ Fetch \/ Merge \/ Finish \/ Done \/ Abort
    BY <1>6 DEF Run, Fetch, FetchFrom, Merge, Finish, FinishWith, Done, Abort, Stop, UnwrittenInv
  <1>7. CASE UNCHANGED vars
    BY <1>7 DEF vars, UnwrittenInv, Unwritten
  <1> QED BY <1>2, <1>3, <1>4, <1>5, <1>6, <1>7 DEF Next

(* The step that ends a package changes Kptfiles only.                      *)
LEMMA FinishLeaves ==
  ASSUME TypeOK, Finish, NEW q \in Paths
  PROVE  local'[q].files = local[q].files
  <1> DEFINE lock == [src |-> spec.src, ref |-> spec.ref]
             k == [local[top].kptfile EXCEPT !.lock = lock]
             Asks(p) == p \in ToSet(RemoteBelowTop) /\ Follows(Up(p))
  <1>1. local'[q] = IF Asks(q) THEN updateSubKf(local[q]) ELSE Locked[q]
    BY DEF Finish, FinishWith
  <1> HIDE DEF Asks
  <1>2. local \in [Paths -> Dirs] /\ local[q] \in Dirs
    BY DEF TypeOK, Trees
  <1>3. updateSubKf(local[q]).files = local[q].files
    BY <1>2 DEF updateSubKf, Dirs
  <1>4. Locked[q].files = local[q].files
    <2>1. Locked = [local EXCEPT ![top] = [@ EXCEPT !.kptfile = k]]
      BY DEF Locked
    <2> HIDE DEF k
    <2> QED BY <1>2, <2>1 DEF Dirs
  <1> QED BY <1>1, <1>3, <1>4

(* What the user wrote is lost by no step of a command, but for the reasons *)
(* above.                                                                   *)
LEMMA EditsStep ==
  ASSUME IndInv, UnwrittenInv, EditsAreOwn, [Next]_vars, pc # "idle",
         NEW q \in Paths, NEW f \in Files, local[q].files[f] = "e"
  PROVE  local'[q].files[f] = "e" \/ LossExcused(<<q, f>>)
  <1>1. pc \notin {"start", "get"}
    BY DEF UnwrittenInv, Unwritten
  <1>2. CASE Get \/ GetNext \/ GetFails \/ GetDone
    BY <1>1, <1>2 DEF Get, GetNext, GetFails, GetDone
  <1>3. CASE EditFile \/ DeleteFile \/ AddPackage \/ DeletePackage \/ Run
    BY <1>3 DEF EditFile, DeleteFile, AddPackage, DeletePackage, Touch, Run
  <1>4. CASE Fetch \/ Done \/ Abort \/ UNCHANGED vars
    BY <1>4 DEF Fetch, FetchFrom, Done, Abort, vars
  <1>5. CASE Merge
    BY <1>5, MergeLeaves
  <1>6. CASE Finish
    BY <1>6, FinishLeaves DEF IndInv
  <1> QED BY <1>2, <1>3, <1>4, <1>5, <1>6 DEF Next

(* What the user wrote is lost by no step of kpt pkg get or update, those   *)
(* that fail included, other than for the reasons EditsKept names           *)
(* (resource-merge's "If there are local changes, we keep the subpackage"   *)
(* and what the other strategies give up), for upstreams as VendoredTruly   *)
(* says that have nothing of what the user writes.                          *)
THEOREM EditsKeptHolds ==
  ASSUME VendoredTruly, EditsAreOwn
  PROVE  Spec => EditsKept
  <1> DEFINE A == pc # "idle" => \A x \in Paths \X Files :
                    Written(x) => \/ local'[x[1]].files[x[2]] = "e"
                                  \/ TakenUpstream(x) \/ GivenUp(x) \/ WithParent(x) \/ TakenOver(x)
                                  \/ InConverted(top \o Last(rels), x) \/ Overlooked(x)
  <1>1. ASSUME IndInv, UnwrittenInv, [Next]_vars, pc # "idle",
               NEW x \in Paths \X Files, Written(x)
        PROVE  local'[x[1]].files[x[2]] = "e" \/ LossExcused(x)
    <2>1. x[1] \in Paths /\ x[2] \in Files /\ x = <<x[1], x[2]>>
      BY <1>1
    <2>2. local[x[1]].files[x[2]] = "e"
      BY <1>1 DEF Written
    <2>3. local'[x[1]].files[x[2]] = "e" \/ LossExcused(<<x[1], x[2]>>)
      BY <1>1, <2>1, <2>2, EditsStep
    <2>4. LossExcused(<<x[1], x[2]>>) <=> LossExcused(x)
      BY <2>1
    <2> QED BY <2>3, <2>4
  <1>2. IndInv /\ UnwrittenInv /\ [Next]_vars => [A]_vars
    BY <1>1 DEF LossExcused
  <1>3. IndInv /\ UnwrittenInv /\ [Next]_vars => (IndInv /\ UnwrittenInv)'
    BY NextStep, UnwrittenStep
  <1>4. Init => UnwrittenInv
    BY UnwrittenEmpty DEF Init, UnwrittenInv
  <1>5. EditsKept <=> [][A]_vars
    BY PTL DEF EditsKept
  <1> HIDE DEF A
  <1> QED BY <1>2, <1>3, <1>4, <1>5, InitInd, PTL DEF Spec
=============================================================================
