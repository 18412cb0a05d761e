------------------------- MODULE VstFramingProofs --------------------------
(***************************************************************************)
(* Proofs about VST framing: chunks fit, the read loop never loses its     *)
(* place in the stream and leaves nothing behind, and a response is the    *)
(* message that was sent.                                                  *)
(*                                                                         *)
(* Induction over the naturals is by least counterexample: a set of        *)
(* naturals without a least element is empty (WFMin).                      *)
(***************************************************************************)
EXTENDS VstFraming, WellFoundedInduction, SequenceTheorems, FiniteSetTheorems, TLAPS

----------------------------------------------------------------------------
(* Induction, sums and concatenations.                                     *)

\* What holds of 0, and of n + 1 whenever it holds of n, holds of all n.
LEMMA SetInduction ==
  ASSUME NEW S, 0 \in S, \A n \in Nat : n \in S => n + 1 \in S
  PROVE  \A n \in Nat : n \in S
  <1> DEFINE T == Nat \ S
             R == OpToRel(<, Nat)
  <1>1. SUFFICES ASSUME T # {} PROVE FALSE
    OBVIOUS
  <1>2. IsWellFoundedOn(R, Nat)
    BY NatLessThanWellFounded
  <1>3. PICK x \in T : \A y \in T : <<y, x>> \notin R
    <2> HIDE DEF R
    <2> QED BY <1>1, <1>2, WFMin
  <1>4. x # 0 /\ x \in Nat
    OBVIOUS
  <1>5. x - 1 \in Nat /\ x - 1 < x /\ (x - 1) + 1 = x
    BY <1>4
  <1>6. <<x - 1, x>> \in R
    BY <1>4, <1>5 DEF OpToRel
  <1>7. x - 1 \in S
    BY <1>3, <1>5, <1>6
  <1> QED BY <1>4, <1>5, <1>7

\* Concatenation, for steps that need nothing of it but that it is associative.
Cat(x, y) == x \o y

LEMMA CatAssociative ==
  ASSUME NEW S, NEW x \in Seq(S), NEW y \in Seq(S), NEW z \in Seq(S)
  PROVE  Cat(Cat(x, y), z) = Cat(x, Cat(y, z))
  BY DEF Cat

\* Sums is what its recursive definition says.
LEMMA SumsDef ==
  ASSUME NEW s \in Seq(Nat)
  PROVE  /\ Sums(s) \in [0 .. Len(s) -> Nat] /\ Sums(s)[0] = 0
         /\ \A k \in 1 .. Len(s) : Sums(s)[k] = Sums(s)[k - 1] + s[k]
  <1> DEFINE Sum(f, n) == f = [k \in 0 .. n |-> IF k = 0 THEN 0 ELSE f[k - 1] + s[k]]
             S == {n \in Nat : n <= Len(s) => \E f \in [0 .. n -> Nat] : Sum(f, n)}
  <1>0. Len(s) \in Nat /\ \A k \in 1 .. Len(s) : s[k] \in Nat
    OBVIOUS
  <1>1. 0 \in S
    <2> DEFINE f == [k \in 0 .. 0 |-> 0]
    <2>1. f \in [0 .. 0 -> Nat] /\ Sum(f, 0)
      OBVIOUS
    <2> QED BY <2>1
  <1>2. ASSUME NEW n \in Nat, n \in S PROVE n + 1 \in S
    <2>1. SUFFICES ASSUME n + 1 <= Len(s) PROVE \E f \in [0 .. n + 1 -> Nat] : Sum(f, n + 1)
      <3> HIDE DEF Sum
      <3> QED OBVIOUS
    <2>2. PICK f \in [0 .. n -> Nat] : Sum(f, n)
      BY <1>0, <1>2, <2>1
    <2> DEFINE g == [k \in 0 .. n + 1 |-> IF k = n + 1 THEN f[n] + s[n + 1] ELSE f[k]]
    <2>3. g \in [0 .. n + 1 -> Nat]
      BY <1>0, <2>1, <2>2
    <2>4. ASSUME NEW k \in 0 .. n + 1 PROVE g[k] = IF k = 0 THEN 0 ELSE g[k - 1] + s[k]
      <3>1. CASE k = n + 1
        BY <3>1
      <3>2. CASE k # n + 1
        BY <2>2, <3>2
      <3> QED BY <3>1, <3>2
    <2>5. Sum(g, n + 1)
      BY <2>3, <2>4
    <2> QED BY <2>3, <2>5
  <1>3. PICK f \in [0 .. Len(s) -> Nat] : Sum(f, Len(s))
    <2> HIDE DEF S
    <2>1. Len(s) \in S
      BY <1>0, <1>1, <1>2, SetInduction
    <2> QED BY <1>0, <2>1 DEF S
  <1> DEFINE g == CHOOSE h : Sum(h, Len(s))
  <1>4. Sum(g, Len(s)) /\ g = Sums(s)
    BY <1>3 DEF Sums
  <1> HIDE DEF g
  <1> DEFINE G == {n \in Nat : n <= Len(s) => g[n] \in Nat}
  <1>5. \A n \in Nat : n \in G
    <2>1. 0 \in G
      BY <1>0, <1>4
    <2>2. ASSUME NEW n \in Nat, n \in G PROVE n + 1 \in G
      <3>1. CASE n + 1 <= Len(s)
        BY <1>0, <1>4, <2>2, <3>1
      <3> QED BY <3>1
    <2> HIDE DEF G
    <2> QED BY <2>1, <2>2, SetInduction
  <1>6. \A k \in 0 .. Len(s) : g[k] \in Nat
    BY <1>0, <1>5
  <1>7. DOMAIN g = 0 .. Len(s) /\ \A k \in 0 .. Len(s) : g[k] = IF k = 0 THEN 0 ELSE g[k - 1] + s[k]
    BY <1>4
  <1>8. g = [k \in 0 .. Len(s) |-> g[k]]
    BY <1>4
  <1>9. g \in [0 .. Len(s) -> Nat]
    BY <1>6, <1>8
  <1>10. Sums(s) = g
    BY <1>4
  <1>11. g[0] = 0 /\ \A k \in 1 .. Len(s) : g[k] = g[k - 1] + s[k]
    BY <1>0, <1>7
  <1> QED BY <1>9, <1>10, <1>11


\* The total of a concatenation.
LEMMA TotalConcat ==
  ASSUME NEW s \in Seq(Nat), NEW t \in Seq(Nat)
  PROVE  Total(s \o t) = Total(s) + Total(t)
  <1> DEFINE u == s \o t
             m == Len(s)
             A == {n \in Nat : n <= m => Sums(u)[n] = Sums(s)[n]}
             B == {n \in Nat : n <= Len(t) => Sums(u)[m + n] = Sums(s)[m] + Sums(t)[n]}
  <1>1. /\ u \in Seq(Nat) /\ m \in Nat /\ Len(t) \in Nat /\ Len(u) = m + Len(t)
        /\ \A k \in 1 .. m : u[k] = s[k] /\ s[k] \in Nat
        /\ \A k \in 1 .. Len(t) : u[m + k] = t[k] /\ t[k] \in Nat
    BY ConcatProperties
  <1> HIDE DEF u, m
  <1>2. /\ Sums(s) \in [0 .. m -> Nat] /\ Sums(s)[0] = 0
        /\ \A k \in 1 .. m : Sums(s)[k] = Sums(s)[k - 1] + s[k]
    BY SumsDef DEF m
  <1>3. /\ Sums(t) \in [0 .. Len(t) -> Nat] /\ Sums(t)[0] = 0
        /\ \A k \in 1 .. Len(t) : Sums(t)[k] = Sums(t)[k - 1] + t[k]
    BY SumsDef
  <1>4. /\ Sums(u)[0] = 0
        /\ \A k \in 1 .. m + Len(t) : Sums(u)[k] = Sums(u)[k - 1] + u[k]
    BY <1>1, SumsDef
  <1>5. \A n \in Nat : n \in A
    <2>1. 0 \in A
      BY <1>2, <1>4
    <2>2. ASSUME NEW n \in Nat, n \in A PROVE n + 1 \in A
      <3>1. CASE n + 1 <= m
        <4>1. n + 1 \in 1 .. m /\ n + 1 \in 1 .. m + Len(t) /\ (n + 1) - 1 = n /\ n <= m
          BY <1>1, <3>1
        <4>2. Sums(u)[n + 1] = Sums(u)[n] + u[n + 1] /\ Sums(s)[n + 1] = Sums(s)[n] + s[n + 1]
          BY <1>2, <1>4, <4>1
        <4>3. Sums(u)[n] = Sums(s)[n] /\ u[n + 1] = s[n + 1]
          BY <1>1, <2>2, <4>1
        <4> QED BY <4>2, <4>3
      <3> QED BY <3>1
    <2> HIDE DEF A
    <2> QED BY <2>1, <2>2, SetInduction
  <1>6. Sums(u)[m] = Sums(s)[m]
    BY <1>1, <1>5
  <1>7. \A n \in Nat : n \in B
    <2>1. 0 \in B
      BY <1>1, <1>2, <1>3, <1>6
    <2>2. ASSUME NEW n \in Nat, n \in B PROVE n + 1 \in B
      <3>1. CASE n + 1 <= Len(t)
        <4>1. /\ n + 1 \in 1 .. Len(t) /\ m + (n + 1) \in 1 .. m + Len(t) /\ n <= Len(t)
              /\ (n + 1) - 1 = n /\ (m + (n + 1)) - 1 = m + n /\ m \in 0 .. m /\ n \in 0 .. Len(t)
          BY <1>1, <3>1
        <4>2. /\ Sums(u)[m + (n + 1)] = Sums(u)[m + n] + u[m + (n + 1)]
              /\ Sums(t)[n + 1] = Sums(t)[n] + t[n + 1]
          BY <1>3, <1>4, <4>1
        <4>3. Sums(u)[m + n] = Sums(s)[m] + Sums(t)[n] /\ u[m + (n + 1)] = t[n + 1]
          BY <1>1, <2>2, <4>1
        <4>4. Sums(s)[m] \in Nat /\ Sums(t)[n] \in Nat /\ t[n + 1] \in Nat
          BY <1>1, <1>2, <1>3, <4>1
        <4>5. Sums(u)[m + (n + 1)] = Sums(s)[m] + Sums(t)[n + 1]
          BY <4>2, <4>3, <4>4
        <4> QED BY <4>5
      <3> QED BY <3>1
    <2> HIDE DEF B
    <2> QED BY <2>1, <2>2, SetInduction
  <1>8. Sums(u)[m + Len(t)] = Sums(s)[m] + Sums(t)[Len(t)]
    BY <1>1, <1>7
  <1> QED BY <1>1, <1>8 DEF Total, u, m

\* FlattenSeq is what its recursive definition says.
LEMMA FlattenDef ==
  ASSUME NEW S, NEW s \in Seq(Seq(S)), s # <<>>
  PROVE  \E f \in [1 .. Len(s) -> Seq(S)] :
           /\ FlattenSeq(s) = f[Len(s)] /\ f[1] = s[1]
           /\ \A i \in 2 .. Len(s) : f[i] = f[i - 1] \o s[i]
  <1> DEFINE Flat(f, n) == f = [i \in 1 .. n |-> IF i = 1 THEN s[i] ELSE f[i - 1] \o s[i]]
             T == {n \in Nat : n < Len(s) => \E f \in [1 .. n + 1 -> Seq(S)] : Flat(f, n + 1)}
  <1>0. Len(s) \in Nat /\ Len(s) > 0 /\ \A k \in 1 .. Len(s) : s[k] \in Seq(S)
    OBVIOUS
  <1>1. 0 \in T
    <2> DEFINE f == [i \in 1 .. 1 |-> s[1]]
    <2>1. f \in [1 .. 0 + 1 -> Seq(S)] /\ Flat(f, 0 + 1)
      BY <1>0
    <2> HIDE DEF Flat
    <2> QED BY <2>1
  <1>2. ASSUME NEW n \in Nat, n \in T PROVE n + 1 \in T
    <2>1. SUFFICES ASSUME n + 1 < Len(s) PROVE \E f \in [1 .. (n + 1) + 1 -> Seq(S)] : Flat(f, (n + 1) + 1)
      <3> HIDE DEF Flat
      <3> QED OBVIOUS
    <2>2. PICK f \in [1 .. n + 1 -> Seq(S)] : Flat(f, n + 1)
      <3> HIDE DEF Flat
      <3> QED BY <1>0, <1>2, <2>1
    <2> DEFINE m == n + 2
               new == f[n + 1] \o s[m]
               g == [i \in 1 .. m |-> IF i = m THEN new ELSE f[i]]
    <2>3. m \in 1 .. Len(s) /\ m = (n + 1) + 1 /\ m - 1 = n + 1 /\ n + 1 \in 1 .. n + 1 /\ m # 1
      BY <1>0, <2>1
    <2>4. new \in Seq(S)
      <3>1. f[n + 1] \in Seq(S) /\ s[m] \in Seq(S)
        BY <1>0, <2>2, <2>3
      <3> QED BY <3>1, ConcatProperties
    <2> HIDE DEF new
    <2>5. g \in [1 .. m -> Seq(S)]
      <3>1. ASSUME NEW i \in 1 .. m PROVE (IF i = m THEN new ELSE f[i]) \in Seq(S)
        <4>1. i # m => i \in 1 .. n + 1
          OBVIOUS
        <4> HIDE DEF m
        <4> QED BY <2>2, <2>4, <4>1
      <3> HIDE DEF m
      <3> QED BY <3>1
    <2>6. ASSUME NEW i \in 1 .. m PROVE g[i] = IF i = 1 THEN s[i] ELSE g[i - 1] \o s[i]
      <3>1. CASE i = m
        <4>1. g[i] = new /\ g[i - 1] = f[n + 1]
          BY <2>3, <3>1
        <4> HIDE DEF g, m
        <4> QED BY <2>3, <3>1, <4>1 DEF new
      <3>2. CASE i # m
        <4>1. i \in 1 .. n + 1 /\ g[i] = f[i] /\ (i # 1 => i - 1 \in 1 .. m /\ i - 1 # m)
          BY <3>2
        <4>2. f[i] = IF i = 1 THEN s[i] ELSE f[i - 1] \o s[i]
          BY <2>2, <4>1
        <4>3. i # 1 => g[i - 1] = f[i - 1]
          BY <4>1
        <4> HIDE DEF g
        <4> QED BY <4>1, <4>2, <4>3
      <3> QED BY <3>1, <3>2
    <2>7. Flat(g, m)
      <3>1. g = [i \in 1 .. m |-> g[i]]
        BY <2>5
      <3> HIDE DEF g
      <3> QED BY <2>6, <3>1
    <2> HIDE DEF Flat, g
    <2> QED BY <2>3, <2>5, <2>7
  <1>3. PICK f0 : Flat(f0, Len(s))
    <2>1. \A n \in Nat : n \in T
      <3> HIDE DEF T
      <3> QED BY <1>1, <1>2, SetInduction
    <2>2. Len(s) - 1 \in Nat /\ Len(s) - 1 < Len(s) /\ (Len(s) - 1) + 1 = Len(s)
      BY <1>0
    <2> HIDE DEF Flat
    <2> QED BY <2>1, <2>2
  <1> DEFINE g == CHOOSE h : Flat(h, Len(s))
  <1>4. Flat(g, Len(s))
    <2> HIDE DEF Flat
    <2> QED BY <1>3
  <1>5. FlattenSeq(s) = g[Len(s)]
    BY <1>0 DEF FlattenSeq
  <1> HIDE DEF g
  <1>6. /\ DOMAIN g = 1 .. Len(s) /\ g = [i \in 1 .. Len(s) |-> g[i]]
        /\ \A i \in 1 .. Len(s) : g[i] = IF i = 1 THEN s[i] ELSE g[i - 1] \o s[i]
    BY <1>4
  <1> HIDE DEF Flat
  <1> DEFINE G == {n \in Nat : n < Len(s) => g[n + 1] \in Seq(S)}
  <1>7. \A n \in Nat : n \in G
    <2>1. 0 \in G
      <3>1. 1 \in 1 .. Len(s)
        BY <1>0
      <3>2. g[1] = s[1]
        BY <1>6, <3>1
      <3>3. g[0 + 1] \in Seq(S)
        BY <1>0, <3>1, <3>2
      <3> QED BY <3>3
    <2>2. ASSUME NEW n \in Nat, n \in G PROVE n + 1 \in G
      <3>1. CASE n + 1 < Len(s)
        <4>1. (n + 1) + 1 \in 1 .. Len(s) /\ (n + 1) + 1 # 1 /\ ((n + 1) + 1) - 1 = n + 1 /\ n < Len(s)
          BY <1>0, <3>1
        <4>2. g[(n + 1) + 1] = g[n + 1] \o s[(n + 1) + 1] /\ g[n + 1] \in Seq(S)
          BY <1>6, <2>2, <4>1
        <4>3. g[(n + 1) + 1] \in Seq(S)
          BY <1>0, <4>1, <4>2, ConcatProperties
        <4> QED BY <4>3
      <3> QED BY <3>1
    <2> HIDE DEF G
    <2> QED BY <2>1, <2>2, SetInduction
  <1>8. \A i \in 1 .. Len(s) : g[i] \in Seq(S)
    <2>1. SUFFICES ASSUME NEW i \in 1 .. Len(s) PROVE g[i] \in Seq(S)
      OBVIOUS
    <2>2. i - 1 \in Nat /\ i - 1 < Len(s) /\ (i - 1) + 1 = i
      BY <1>0
    <2> QED BY <1>7, <2>2
  <1>9. g \in [1 .. Len(s) -> Seq(S)]
    BY <1>6, <1>8
  <1>10. g[1] = s[1] /\ \A i \in 2 .. Len(s) : g[i] = g[i - 1] \o s[i]
    <2>1. 1 \in 1 .. Len(s) /\ \A i \in 2 .. Len(s) : i \in 1 .. Len(s) /\ i # 1
      BY <1>0
    <2> QED BY <1>6, <2>1
  <1> QED BY <1>5, <1>9, <1>10


\* FlattenSeq is determined by its prefixes.
LEMMA FlattenBy ==
  ASSUME NEW S, NEW s \in Seq(Seq(S)), s # <<>>, NEW g,
         g[1] = s[1], \A i \in 2 .. Len(s) : g[i] = g[i - 1] \o s[i]
  PROVE  FlattenSeq(s) = g[Len(s)]
  <1>0. Len(s) \in Nat /\ Len(s) > 0
    OBVIOUS
  <1>1. PICK f \in [1 .. Len(s) -> Seq(S)] :
          /\ FlattenSeq(s) = f[Len(s)] /\ f[1] = s[1]
          /\ \A i \in 2 .. Len(s) : f[i] = f[i - 1] \o s[i]
    BY FlattenDef
  <1> DEFINE T == {n \in Nat : n < Len(s) => f[n + 1] = g[n + 1]}
  <1>2. 0 \in T
    BY <1>1
  <1>3. ASSUME NEW n \in Nat, n \in T PROVE n + 1 \in T
    <2>1. CASE n + 1 < Len(s)
      <3>1. (n + 1) + 1 \in 2 .. Len(s) /\ ((n + 1) + 1) - 1 = n + 1 /\ n < Len(s)
        BY <1>0, <2>1
      <3>2. f[n + 1] = g[n + 1]
        BY <1>3, <3>1
      <3>3. f[(n + 1) + 1] = f[n + 1] \o s[(n + 1) + 1] /\ g[(n + 1) + 1] = g[n + 1] \o s[(n + 1) + 1]
        BY <1>1, <3>1
      <3>4. f[(n + 1) + 1] = g[(n + 1) + 1]
        BY <3>2, <3>3
      <3> QED BY <3>4
    <2> QED BY <2>1
  <1>4. \A n \in Nat : n \in T
    <2> HIDE DEF T
    <2> QED BY <1>2, <1>3, SetInduction
  <1>5. Len(s) - 1 \in Nat /\ Len(s) - 1 < Len(s) /\ (Len(s) - 1) + 1 = Len(s)
    BY <1>0
  <1>6. f[Len(s)] = g[Len(s)]
    BY <1>4, <1>5
  <1> QED BY <1>1, <1>6

LEMMA FlattenType ==
  ASSUME NEW S, NEW s \in Seq(Seq(S))
  PROVE  FlattenSeq(s) \in Seq(S)
  <1>1. CASE s = <<>>
    <2>1. FlattenSeq(s) = <<>>
      BY <1>1 DEF FlattenSeq
    <2> QED BY <2>1
  <1>2. CASE s # <<>>
    <2>1. Len(s) \in 1 .. Len(s)
      BY <1>2
    <2>2. PICK f \in [1 .. Len(s) -> Seq(S)] : FlattenSeq(s) = f[Len(s)]
      BY <1>2, FlattenDef
    <2> QED BY <2>1, <2>2
  <1> QED BY <1>1, <1>2

LEMMA FlattenEmpty == FlattenSeq(<<>>) = <<>>
  BY DEF FlattenSeq

\* One more sequence at the end.
LEMMA FlattenAppend ==
  ASSUME NEW S, NEW s \in Seq(Seq(S)), NEW x \in Seq(S)
  PROVE  FlattenSeq(Append(s, x)) = FlattenSeq(s) \o x
  <1> DEFINE t == Append(s, x)
  <1>1. /\ t \in Seq(Seq(S)) /\ t # <<>> /\ Len(t) = Len(s) + 1 /\ t[Len(s) + 1] = x
        /\ \A i \in 1 .. Len(s) : t[i] = s[i]
    BY AppendProperties
  <1>2. Len(s) \in Nat
    OBVIOUS
  <1> HIDE DEF t
  <1>3. CASE s = <<>>
    <2> DEFINE g == [i \in 1 .. 1 |-> x]
    <2>1. Len(t) = 1 /\ t[1] = x /\ g[1] = x
      BY <1>1, <1>3
    <2>2. FlattenSeq(t) = g[Len(t)]
      <3> HIDE DEF g
      <3>1. \A i \in 2 .. Len(t) : g[i] = g[i - 1] \o t[i]
        BY <2>1
      <3> QED BY <1>1, <2>1, <3>1, FlattenBy
    <2>3. FlattenSeq(s) \o x = x
      BY <1>3, FlattenEmpty, ConcatEmptySeq
    <2> QED BY <2>1, <2>2, <2>3 DEF t
  <1>4. CASE s # <<>>
    <2>1. PICK f \in [1 .. Len(s) -> Seq(S)] :
            /\ FlattenSeq(s) = f[Len(s)] /\ f[1] = s[1]
            /\ \A i \in 2 .. Len(s) : f[i] = f[i - 1] \o s[i]
      BY <1>4, FlattenDef
    <2> DEFINE n == Len(s) + 1
               last == FlattenSeq(s) \o x
               g == [i \in 1 .. n |-> IF i = n THEN last ELSE f[i]]
    <2>2. Len(s) \in 1 .. Len(s) /\ 1 \in 1 .. Len(s) /\ Len(s) # 0
      BY <1>2, <1>4
    <2>3. /\ g[n] = last /\ \A i \in 1 .. Len(s) : g[i] = f[i]
      BY <1>2
    <2> HIDE DEF g, last
    <2>4. g[1] = t[1]
      BY <1>1, <2>1, <2>2, <2>3
    <2>5. ASSUME NEW i \in 2 .. n PROVE g[i] = g[i - 1] \o t[i]
      <3>1. CASE i = n
        <4>1. i - 1 = Len(s) /\ t[i] = x /\ g[i - 1] = f[Len(s)]
          BY <1>1, <1>2, <2>2, <2>3, <3>1
        <4> QED BY <2>1, <2>3, <3>1, <4>1 DEF last
      <3>2. CASE i # n
        <4>1. i \in 1 .. Len(s) /\ i - 1 \in 1 .. Len(s) /\ i \in 2 .. Len(s)
          BY <1>2, <3>2
        <4> QED BY <1>1, <2>1, <2>3, <4>1
      <3> QED BY <3>1, <3>2
    <2>6. FlattenSeq(t) = g[n]
      BY <1>1, <2>4, <2>5, FlattenBy
    <2> QED BY <2>3, <2>6 DEF t, last
  <1> QED BY <1>3, <1>4

\* The first of the sequences, and the others.
LEMMA FlattenTail ==
  ASSUME NEW S, NEW s \in Seq(Seq(S)), s # <<>>
  PROVE  FlattenSeq(s) = s[1] \o FlattenSeq(Tail(s))
  <1> DEFINE t == Tail(s)
  <1>0. Len(s) \in Nat /\ Len(s) > 0 /\ 1 \in 1 .. Len(s) /\ s[1] \in Seq(S)
    OBVIOUS
  <1>1. /\ t \in Seq(Seq(S)) /\ Len(t) = Len(s) - 1
        /\ \A i \in 1 .. Len(t) : t[i] = s[i + 1] /\ t[i] \in Seq(S)
    BY HeadTailProperties
  <1> HIDE DEF t
  <1>2. CASE t = <<>>
    <2>1. Len(s) = 1
      BY <1>0, <1>1, <1>2
    <2>2. FlattenSeq(s) = s[1]
      BY <1>0, <2>1, FlattenDef
    <2>3. s[1] \o FlattenSeq(t) = s[1]
      BY <1>0, <1>2, FlattenEmpty, ConcatEmptySeq
    <2> QED BY <2>2, <2>3 DEF t
  <1>3. CASE t # <<>>
    <2>1. PICK f \in [1 .. Len(t) -> Seq(S)] :
            /\ FlattenSeq(t) = f[Len(t)] /\ f[1] = t[1]
            /\ \A i \in 2 .. Len(t) : f[i] = f[i - 1] \o t[i]
      BY <1>1, <1>3, FlattenDef
    <2> DEFINE g == [i \in 1 .. Len(s) |-> IF i = 1 THEN s[1] ELSE s[1] \o f[i - 1]]
    <2>2. Len(t) \in Nat /\ Len(t) > 0 /\ Len(s) = Len(t) + 1
      BY <1>0, <1>1, <1>3
    <2>3. g[1] = s[1] /\ \A i \in 2 .. Len(s) : g[i] = s[1] \o f[i - 1]
      <3>1. ASSUME NEW i \in 2 .. Len(s) PROVE g[i] = s[1] \o f[i - 1]
        <4>1. i \in 1 .. Len(s) /\ i # 1
          BY <2>2
        <4> QED BY <4>1, Zenon
      <3> QED BY <1>0, <3>1, Zenon
    <2> HIDE DEF g
    <2>4. ASSUME NEW i \in 2 .. Len(s) PROVE g[i] = g[i - 1] \o s[i]
      <3>1. /\ i - 1 \in 1 .. Len(t) /\ (i - 1) + 1 = i
            /\ i # 2 => i - 1 \in 2 .. Len(s) /\ i - 1 \in 2 .. Len(t) /\ (i - 1) - 1 \in 1 .. Len(t)
        BY <2>2
      <3>2. t[i - 1] = s[i] /\ s[i] \in Seq(S)
        BY <1>1, <3>1
      <3>3. CASE i = 2
        <4>1. i - 1 = 1
          BY <3>3
        <4>2. g[i] = s[1] \o f[1] /\ f[1] = s[i] /\ g[i - 1] = s[1]
          BY <2>1, <2>3, <3>2, <4>1
        <4> QED BY <4>2
      <3>4. CASE i # 2
        <4>1. f[i - 1] = f[(i - 1) - 1] \o s[i] /\ f[(i - 1) - 1] \in Seq(S)
          BY <2>1, <3>1, <3>2, <3>4
        <4>2. g[i - 1] = s[1] \o f[(i - 1) - 1]
          BY <2>3, <3>1, <3>4
        <4>3. (s[1] \o f[(i - 1) - 1]) \o s[i] = s[1] \o (f[(i - 1) - 1] \o s[i])
          <5> DEFINE a == s[1]
                     b == f[(i - 1) - 1]
                     c == s[i]
          <5>1. a \in Seq(S) /\ b \in Seq(S) /\ c \in Seq(S)
            BY <1>0, <3>2, <4>1
          <5> HIDE DEF a, b, c
          <5>2. Cat(Cat(a, b), c) = Cat(a, Cat(b, c))
            BY ONLY <5>1, CatAssociative
          <5> QED BY <5>2 DEF Cat, a, b, c
        <4> QED BY <2>3, <4>1, <4>2, <4>3
      <3> QED BY <3>3, <3>4
    <2>5. FlattenSeq(s) = g[Len(s)]
      BY <2>3, <2>4, FlattenBy
    <2>6. g[Len(s)] = s[1] \o f[Len(t)]
      <3>1. Len(s) \in 2 .. Len(s) /\ Len(s) - 1 = Len(t)
        BY <2>2
      <3> QED BY <2>3, <3>1, Zenon
    <2> QED BY <2>1, <2>5, <2>6 DEF t
  <1> QED BY <1>2, <1>3


----------------------------------------------------------------------------
(* Writing: what buildChunks and chunkToBuffer produce.                    *)

MaxData == defaultMaxChunkSize - maxChunkHeaderSize

LEMMA Division ==
  ASSUME NEW a \in Nat, NEW b \in Nat, b > 0
  PROVE  a \div b \in Nat /\ (a \div b) * b <= a /\ a < (a \div b) * b + b
  OBVIOUS

LEMMA ProductMonotonic ==
  ASSUME NEW a \in Nat, NEW b \in Nat, NEW m \in Nat, a <= b
  PROVE  a * m \in Nat /\ b * m \in Nat /\ a * m <= b * m
  OBVIOUS

LEMMA ProductNext ==
  ASSUME NEW a \in Int, NEW m \in Nat
  PROVE  (a + 1) * m = a * m + m
  OBVIOUS

\* Every piece of a slice fits, none is empty, and together they are the slice.
LEMMA PiecesFacts ==
  ASSUME NEW size \in Nat
  PROVE  Pieces(size) \in Seq(1 .. MaxData) /\ Total(Pieces(size)) = size
  <1> DEFINE max == MaxData
             n == (size + max - 1) \div max
             P == [k \in 1 .. n |-> IF k * max <= size THEN max ELSE size - (k - 1) * max]
  <1>1. max \in Nat /\ max > 0
    BY SizesAssumption DEF MaxData, maxChunkHeaderSize
  <1>2. Pieces(size) = P
    BY DEF Pieces, MaxData
  <1> HIDE DEF max
  <1>3. n \in Nat /\ n * max <= size + max - 1 /\ size + max - 1 < n * max + max
    BY <1>1, Division
  <1> HIDE DEF n
  <1>4. ASSUME NEW k \in 1 .. n
        PROVE  /\ k * max \in Nat /\ (k - 1) * max \in Nat /\ k * max = (k - 1) * max + max
               /\ (k - 1) * max < size
    <2>1. k - 1 \in Nat /\ k \in Nat /\ k - 1 <= n - 1 /\ n - 1 \in Nat /\ (k - 1) + 1 = k
      BY <1>3
    <2>2. k * max = (k - 1) * max + max /\ n * max = (n - 1) * max + max
      <3>1. (n - 1) + 1 = n
        BY <1>3
      <3> QED BY <1>1, <2>1, <3>1, ProductNext
    <2>3. (k - 1) * max \in Nat /\ (n - 1) * max \in Nat /\ (k - 1) * max <= (n - 1) * max
      BY <1>1, <2>1, ProductMonotonic
    <2> DEFINE x == (k - 1) * max
               y == (n - 1) * max
               z == n * max
    <2> HIDE DEF x, y, z
    <2>4. x \in Nat /\ y \in Nat /\ x <= y /\ z = y + max /\ z <= size + max - 1
      BY <1>3, <2>2, <2>3 DEF x, y, z
    <2>5. x < size /\ x + max \in Nat
      BY <1>1, <2>4
    <2> QED BY <2>2, <2>4, <2>5 DEF x
  <1>5. ASSUME NEW k \in 1 .. n
        PROVE  (IF k * max <= size THEN max ELSE size - (k - 1) * max) \in 1 .. max
    <2> DEFINE x == (k - 1) * max
               y == k * max
    <2>1. x \in Nat /\ y = x + max /\ x < size
      BY <1>4
    <2> HIDE DEF x, y
    <2>2. (IF y <= size THEN max ELSE size - x) \in 1 .. max
      BY <1>1, <2>1
    <2> QED BY <2>2 DEF x, y
  <1>6. /\ P \in Seq(1 .. max) /\ Len(P) = n
        /\ \A k \in 1 .. n : P[k] = IF k * max <= size THEN max ELSE size - (k - 1) * max
    <2>1. P \in [1 .. n -> 1 .. max]
      BY <1>5
    <2> QED BY <1>3, <2>1
  <1> HIDE DEF P
  <1>7. P \in Seq(Nat)
    <2>1. Len(P) = n /\ DOMAIN P = 1 .. n
      BY <1>6
    <2>2. \A k \in 1 .. n : P[k] \in Nat
      <3>1. SUFFICES ASSUME NEW k \in 1 .. n PROVE P[k] \in Nat
        OBVIOUS
      <3>2. P[k] \in 1 .. max
        BY <1>5, <1>6
      <3> QED BY <1>1, <3>2
    <2>3. P = [k \in 1 .. n |-> P[k]]
      BY <1>6, <2>1
    <2> QED BY <1>3, <2>2, <2>3
  <1>8. /\ Sums(P) \in [0 .. n -> Nat] /\ Sums(P)[0] = 0
        /\ \A k \in 1 .. n : Sums(P)[k] = Sums(P)[k - 1] + P[k]
    BY <1>6, <1>7, SumsDef
  <1> DEFINE A == {k \in Nat : k <= n => Sums(P)[k] = IF k * max <= size THEN k * max ELSE size}
  <1>9. 0 \in A
    <2>1. 0 * max = 0
      BY <1>1
    <2> QED BY <1>8, <2>1
  <1>10. ASSUME NEW k \in Nat, k \in A PROVE k + 1 \in A
    <2>1. SUFFICES ASSUME k + 1 <= n
                   PROVE  Sums(P)[k + 1] = IF (k + 1) * max <= size THEN (k + 1) * max ELSE size
      OBVIOUS
    <2>2. k + 1 \in 1 .. n /\ (k + 1) - 1 = k /\ k <= n
      BY <1>3, <2>1
    <2> DEFINE x == k * max
               y == (k + 1) * max
    <2>3. x \in Nat /\ y = x + max /\ x < size
      BY <1>4, <2>2
    <2>4. Sums(P)[k] = x
      BY <1>10, <2>2, <2>3
    <2>5. Sums(P)[k + 1] = Sums(P)[k] + P[k + 1] /\ P[k + 1] = IF y <= size THEN max ELSE size - x
      BY <1>6, <1>8, <2>2
    <2> HIDE DEF x, y
    <2>6. Sums(P)[k + 1] = IF y <= size THEN y ELSE size
      BY <1>1, <2>3, <2>4, <2>5
    <2> QED BY <2>6 DEF y
  <1>11. n \in A
    <2> HIDE DEF A
    <2> QED BY <1>3, <1>9, <1>10, SetInduction
  <1>12. Sums(P)[n] = size
    <2> DEFINE z == n * max
    <2>1. z \in Int
      BY <1>1, <1>3
    <2>2. Sums(P)[n] = IF z <= size THEN z ELSE size
      BY <1>3, <1>11
    <2>3. size + max - 1 < z + max
      BY <1>3
    <2> HIDE DEF z
    <2> QED BY <1>1, <2>1, <2>2, <2>3
  <1> QED BY <1>2, <1>6, <1>12 DEF Total, max

\* The pieces of all slices of a message: the whole message.
LEMMA LengthsFacts ==
  ASSUME NEW id \in Messages
  PROVE  Lengths(id) \in Seq(1 .. MaxData) /\ Total(Lengths(id)) = Total(Parts[id])
  <1> DEFINE s == Parts[id]
             D == 1 .. MaxData
             t == [p \in DOMAIN s |-> Pieces(s[p])]
  <1>1. s \in Seq(Nat) /\ Len(s) \in Nat /\ DOMAIN s = 1 .. Len(s) /\ \A p \in 1 .. Len(s) : s[p] \in Nat
    BY PartsAssumption
  <1>2. Lengths(id) = FlattenSeq(t)
    BY DEF Lengths
  <1> HIDE DEF s
  <1>3. \A p \in 1 .. Len(s) : Pieces(s[p]) \in Seq(D) /\ Total(Pieces(s[p])) = s[p]
    BY <1>1, PiecesFacts
  <1> HIDE DEF D
  <1>4. t \in Seq(Seq(D)) /\ Len(t) = Len(s) /\ \A p \in 1 .. Len(s) : t[p] \in Seq(D) /\ Total(t[p]) = s[p]
    <2>1. t \in [1 .. Len(s) -> Seq(D)]
      BY <1>1, <1>3
    <2> QED BY <1>1, <1>3, <2>1
  <1> HIDE DEF t
  <1>5. FlattenSeq(t) \in Seq(D)
    BY <1>4, FlattenType
  <1>6. /\ Sums(s) \in [0 .. Len(s) -> Nat] /\ Sums(s)[0] = 0
        /\ \A k \in 1 .. Len(s) : Sums(s)[k] = Sums(s)[k - 1] + s[k]
    BY <1>1, SumsDef
  <1>7. CASE s = <<>>
    <2>1. t = <<>> /\ FlattenSeq(t) = <<>>
      BY <1>4, <1>7, FlattenEmpty
    <2> QED BY <1>2, <1>5, <1>7, <2>1 DEF s, D
  <1>8. CASE s # <<>>
    <2>1. t # <<>> /\ Len(s) > 0
      BY <1>1, <1>4, <1>8
    <2>2. PICK f \in [1 .. Len(t) -> Seq(D)] :
            /\ FlattenSeq(t) = f[Len(t)] /\ f[1] = t[1]
            /\ \A i \in 2 .. Len(t) : f[i] = f[i - 1] \o t[i]
      BY <1>4, <2>1, FlattenDef
    <2>3. \A x \in Seq(D) : x \in Seq(Nat)
      <3>1. D \subseteq Nat
        BY DEF D
      <3> QED BY <3>1, SeqMonotonic
    <2> DEFINE A == {n \in Nat : n < Len(s) => Total(f[n + 1]) = Sums(s)[n + 1]}
    <2>4. 0 \in A
      <3>1. 1 \in 1 .. Len(s)
        BY <1>1, <2>1
      <3>2. Total(f[1]) = s[1] /\ Sums(s)[1] = Sums(s)[1 - 1] + s[1] /\ s[1] \in Nat
        BY <1>1, <1>4, <1>6, <2>2, <3>1
      <3>3. Total(f[1]) = Sums(s)[1]
        BY <1>6, <3>2
      <3> QED BY <3>3
    <2>5. ASSUME NEW n \in Nat, n \in A PROVE n + 1 \in A
      <3>1. SUFFICES ASSUME n + 1 < Len(s) PROVE Total(f[(n + 1) + 1]) = Sums(s)[(n + 1) + 1]
        OBVIOUS
      <3> DEFINE m == (n + 1) + 1
      <3>2. /\ m \in 2 .. Len(t) /\ m \in 1 .. Len(s) /\ m - 1 = n + 1 /\ n + 1 \in 1 .. Len(t)
            /\ n < Len(s)
        BY <1>1, <1>4, <3>1
      <3>3. Total(f[n + 1]) = Sums(s)[n + 1]
        BY <2>5, <3>2
      <3> HIDE DEF m
      <3>4. f[m] = f[n + 1] \o t[m] /\ Sums(s)[m] = Sums(s)[n + 1] + s[m]
        BY <1>6, <2>2, <3>2
      <3>5. f[n + 1] \in Seq(Nat) /\ t[m] \in Seq(Nat)
        BY <1>4, <2>2, <2>3, <3>2
      <3>6. Total(f[n + 1] \o t[m]) = Total(f[n + 1]) + Total(t[m])
        BY <3>5, TotalConcat
      <3>7. Total(t[m]) = s[m]
        BY <1>4, <3>2
      <3> QED BY <3>3, <3>4, <3>6, <3>7 DEF m
    <2>6. Len(s) - 1 \in A
      <3> HIDE DEF A
      <3>1. Len(s) - 1 \in Nat
        BY <1>1, <2>1
      <3> QED BY <2>4, <2>5, <3>1, SetInduction
    <2>7. Total(f[Len(s)]) = Sums(s)[Len(s)]
      <3>1. Len(s) - 1 < Len(s) /\ (Len(s) - 1) + 1 = Len(s)
        BY <1>1
      <3> QED BY <2>6, <3>1
    <2>8. Total(FlattenSeq(t)) = Total(s)
      BY <1>4, <2>2, <2>7 DEF Total
    <2> QED BY <1>2, <1>5, <2>8 DEF s, D
  <1> QED BY <1>7, <1>8


LEMMA SumsBounded ==
  ASSUME NEW s \in Seq(Nat), NEW k \in 0 .. Len(s)
  PROVE  Sums(s)[k] \in Nat /\ Total(s) \in Nat /\ Sums(s)[k] <= Total(s)
  <1>1. /\ Sums(s) \in [0 .. Len(s) -> Nat] /\ Sums(s)[0] = 0
        /\ \A i \in 1 .. Len(s) : Sums(s)[i] = Sums(s)[i - 1] + s[i]
    BY SumsDef
  <1>2. Len(s) \in Nat /\ \A i \in 1 .. Len(s) : s[i] \in Nat
    OBVIOUS
  <1> DEFINE A == {n \in Nat : k + n <= Len(s) => Sums(s)[k] <= Sums(s)[k + n]}
  <1>3. 0 \in A
    <2>1. Sums(s)[k] \in Nat /\ k + 0 = k
      BY <1>1, <1>2
    <2> QED BY <2>1
  <1>4. ASSUME NEW n \in Nat, n \in A PROVE n + 1 \in A
    <2>1. SUFFICES ASSUME k + (n + 1) <= Len(s) PROVE Sums(s)[k] <= Sums(s)[k + (n + 1)]
      OBVIOUS
    <2> DEFINE m == k + (n + 1)
    <2>2. m \in 1 .. Len(s) /\ m - 1 = k + n /\ k + n \in 0 .. Len(s) /\ k + n <= Len(s)
      BY <1>2, <2>1
    <2>3. Sums(s)[k] <= Sums(s)[k + n]
      BY <1>4, <2>2
    <2> HIDE DEF m
    <2>4. Sums(s)[m] = Sums(s)[k + n] + s[m] /\ s[m] \in Nat
      BY <1>1, <1>2, <2>2
    <2>5. Sums(s)[k] \in Nat /\ Sums(s)[k + n] \in Nat
      BY <1>1, <2>2
    <2>6. Sums(s)[k] <= Sums(s)[m]
      BY <2>3, <2>4, <2>5
    <2> QED BY <2>6 DEF m
  <1>5. Len(s) - k \in A
    <2> HIDE DEF A
    <2>1. Len(s) - k \in Nat
      BY <1>2
    <2> QED BY <1>3, <1>4, <2>1, SetInduction
  <1>6. k + (Len(s) - k) = Len(s) /\ Len(s) \in 0 .. Len(s)
    BY <1>2
  <1>7. Sums(s)[k] <= Sums(s)[Len(s)]
    BY <1>2, <1>5, <1>6
  <1> QED BY <1>1, <1>6, <1>7 DEF Total

Number(id) == Len(Lengths(id))
Position(chunkX) == index(chunkX) + 1
Chunks(id) == {BuildChunks(id)[k] : k \in DOMAIN BuildChunks(id)}
AllChunks == UNION {Chunks(id) : id \in Messages}

Fields == {"data", "chunkLength", "chunkX", "messageID", "messageLength"}
Bytes == [id : Messages, field : Fields, v : Nat \cup Messages]

\* The bytes of the message that its k-th chunk carries.
Data(id, k) == SubSeq(Message(id), Sums(Lengths(id))[k - 1] + 1, Sums(Lengths(id))[k])

LEMMA LengthsNat ==
  ASSUME NEW id \in Messages
  PROVE  /\ Lengths(id) \in Seq(Nat) /\ Number(id) \in Nat /\ DOMAIN Lengths(id) = 1 .. Number(id)
         /\ \A k \in 1 .. Number(id) : Lengths(id)[k] \in 1 .. MaxData
         /\ Total(Parts[id]) \in Nat
  <1> DEFINE D == 1 .. MaxData
             L == Lengths(id)
  <1>1. D \subseteq Nat
    BY SizesAssumption DEF MaxData, maxChunkHeaderSize
  <1>2. L \in Seq(D)
    BY LengthsFacts
  <1> HIDE DEF D, L
  <1>3. Len(L) \in Nat /\ DOMAIN L = 1 .. Len(L) /\ \A k \in 1 .. Len(L) : L[k] \in D
    BY <1>2
  <1>4. L \in Seq(Nat)
    <2>1. L = [k \in 1 .. Len(L) |-> L[k]]
      BY <1>2
    <2>2. \A k \in 1 .. Len(L) : L[k] \in Nat
      BY <1>1, <1>3
    <2> QED BY <1>3, <2>1, <2>2
  <1>5. Total(Parts[id]) \in Nat
    <2>1. Parts[id] \in Seq(Nat)
      BY PartsAssumption
    <2>2. 0 \in 0 .. Len(Parts[id])
      BY <2>1
    <2> QED BY <2>1, <2>2, SumsBounded
  <1> QED BY <1>3, <1>4, <1>5 DEF Number, D, L

LEMMA Halves ==
  ASSUME NEW n \in Nat
  PROVE  /\ 2 * n \in Nat /\ (2 * n) % 2 = 0 /\ (2 * n) \div 2 = n
         /\ 2 * n + 1 \in Nat /\ (2 * n + 1) % 2 = 1 /\ (2 * n + 1) \div 2 = n
  OBVIOUS

\* The k-th chunk of a message.
LEMMA ChunkFacts ==
  ASSUME NEW id \in Messages, NEW k \in 1 .. Number(id)
  PROVE  /\ DOMAIN BuildChunks(id) = 1 .. Number(id)
         /\ LET c == BuildChunks(id)[k] IN
            /\ c.messageID = id /\ c.chunkX \in Nat /\ Position(c.chunkX) = k
            /\ isFirst(c.chunkX) <=> k = 1
            /\ isFirst(c.chunkX) => numberOfChunks(c.chunkX) = Number(id)
            /\ c.from = Sums(Lengths(id))[k - 1] /\ c.from \in Nat
            /\ c.size \in 1 .. MaxData /\ c.from + c.size = Sums(Lengths(id))[k]
            /\ c.from + c.size <= Total(Parts[id])
  <1> DEFINE N == Number(id)
             L == Lengths(id)
             X == IF k = 1 THEN 2 * N + 1 ELSE 2 * (k - 1)
             c == BuildChunks(id)[k]
  <1>1. /\ L \in Seq(Nat) /\ N \in Nat /\ DOMAIN L = 1 .. N /\ N = Len(L)
        /\ L[k] \in 1 .. MaxData
    BY LengthsNat DEF Number
  <1>2. DOMAIN BuildChunks(id) = 1 .. N /\ c.messageID = id /\ c.chunkX = X /\ c.from = Sums(L)[k - 1] /\ c.size = L[k]
    BY <1>1 DEF BuildChunks
  <1> HIDE DEF N, L
  <1>3. k \in Nat /\ k - 1 \in Nat /\ k - 1 \in 0 .. Len(L) /\ k \in 0 .. Len(L) /\ k \in 1 .. Len(L)
    BY <1>1 DEF N
  <1>4. Sums(L)[k] = Sums(L)[k - 1] + L[k] /\ Sums(L)[k - 1] \in Nat
    BY <1>1, <1>3, SumsDef
  <1>5. Sums(L)[k] <= Total(L) /\ Total(L) = Total(Parts[id])
    BY <1>1, <1>3, SumsBounded, LengthsFacts DEF L
  <1>6. X \in Nat /\ (X % 2 = 1 <=> k = 1) /\ (k = 1 => X \div 2 = N) /\ (k # 1 => X \div 2 = k - 1)
    <2>1. CASE k = 1
      <3>1. X = 2 * N + 1
        BY <2>1
      <3> QED BY <1>1, <2>1, <3>1, Halves
    <2>2. CASE k # 1
      <3>1. X = 2 * (k - 1)
        BY <2>2
      <3> QED BY <1>3, <2>2, <3>1, Halves
    <2> QED BY <2>1, <2>2
  <1> HIDE DEF X, c
  <1>7. Position(c.chunkX) = k /\ (isFirst(c.chunkX) <=> k = 1) /\ (isFirst(c.chunkX) => numberOfChunks(c.chunkX) = N)
    BY <1>2, <1>3, <1>6 DEF Position, index, isFirst, numberOfChunks
  <1> QED BY <1>1, <1>2, <1>4, <1>5, <1>6, <1>7 DEF N, L, c

LEMMA MessageType ==
  ASSUME NEW id \in Messages
  PROVE  Message(id) \in Seq(Bytes) /\ Len(Message(id)) = Total(Parts[id])
  <1> DEFINE n == Total(Parts[id])
  <1>1. n \in Nat
    BY LengthsNat
  <1> HIDE DEF n
  <1>2. \A k \in 1 .. n : Byte(id, "data", k) \in Bytes
    BY <1>1 DEF Byte, Bytes, Fields
  <1>3. Message(id) = [k \in 1 .. n |-> Byte(id, "data", k)]
    BY DEF Message, n
  <1> QED BY <1>1, <1>2, <1>3 DEF n

LEMMA HeaderLengthFacts ==
  ASSUME NEW x
  PROVE  HeaderLength(x) \in 16 .. 24 /\ ReadHeaderLength(x) = (IF vstVersion = "VST1_1" \/ (x % 2 = 1 /\ x \div 2 > 1) THEN 24 ELSE 16)
  BY DEF HeaderLength, ReadHeaderLength, minChunkHeaderSize, maxChunkHeaderSize

\* Both sides agree on where the data of a chunk begins.
LEMMA HeaderLengthsAgree ==
  ASSUME NEW x \in Nat
  PROVE  ReadHeaderLength(x) = HeaderLength(x)
  BY DEF HeaderLength, ReadHeaderLength, isFirst, numberOfChunks

\* A chunk on the wire: its length, its fields where they are read, its data.
LEMMA WriteChunkFacts ==
  ASSUME NEW id \in Messages, NEW k \in 1 .. Number(id), NEW c, c = BuildChunks(id)[k]
  PROVE  /\ ChunkLength(c) \in Nat /\ ChunkLength(c) > 16 /\ ChunkLength(c) <= defaultMaxChunkSize
         /\ WriteChunk(c) \in Seq(Bytes) /\ Len(WriteChunk(c)) = ChunkLength(c)
         /\ \A i \in 1 .. 4 : WriteChunk(c)[i] = Byte(id, "chunkLength", ChunkLength(c))
         /\ WriteChunk(c)[5].v = c.chunkX /\ WriteChunk(c)[9].v = id
         /\ SubSeq(WriteChunk(c), HeaderLength(c.chunkX) + 1, ChunkLength(c)) = Data(id, k)
  <1> DEFINE h == HeaderLength(c.chunkX)
             n == ChunkLength(c)
             w == WriteChunk(c)
  <1>1. /\ c.messageID = id /\ c.chunkX \in Nat /\ c.from \in Nat /\ c.size \in 1 .. MaxData
        /\ c.from = Sums(Lengths(id))[k - 1] /\ c.from + c.size = Sums(Lengths(id))[k]
        /\ c.from + c.size <= Total(Parts[id])
    BY ChunkFacts
  <1>2. h \in 16 .. 24 /\ n = h + c.size
    BY HeaderLengthFacts DEF ChunkLength
  <1>3. n \in Nat /\ n > 16 /\ n <= defaultMaxChunkSize /\ h < n
    BY <1>1, <1>2, SizesAssumption DEF MaxData, maxChunkHeaderSize
  <1> DEFINE e(i) == CASE i > h         -> Byte(id, "data", c.from + i - h)
                       [] i \in 1 .. 4  -> Byte(id, "chunkLength", n)
                       [] i \in 5 .. 8  -> Byte(id, "chunkX", c.chunkX)
                       [] i \in 9 .. 16 -> Byte(id, "messageID", id)
                       [] OTHER         -> Byte(id, "messageLength", Total(Parts[id]))
  <1>4. w = [i \in 1 .. n |-> e(i)]
    BY <1>1 DEF WriteChunk
  <1> HIDE DEF h, n, w
  <1>5. \A i \in 1 .. n :
          /\ i > h => e(i) = Byte(id, "data", c.from + i - h)
          /\ i \in 1 .. 4 => e(i) = Byte(id, "chunkLength", n)
          /\ i = 5 => e(i) = Byte(id, "chunkX", c.chunkX)
          /\ i = 9 => e(i) = Byte(id, "messageID", id)
    BY <1>2, <1>3
  <1>6. \A i \in 1 .. n : e(i) \in Bytes
    <2>1. SUFFICES ASSUME NEW i \in 1 .. n PROVE e(i) \in Bytes
      OBVIOUS
    <2>2. \A f \in Fields, v \in Nat \cup Messages : Byte(id, f, v) \in Bytes
      BY DEF Byte, Bytes
    <2>3. \/ e(i) = Byte(id, "data", c.from + i - h) /\ i > h
          \/ e(i) = Byte(id, "chunkLength", n)
          \/ e(i) = Byte(id, "chunkX", c.chunkX)
          \/ e(i) = Byte(id, "messageID", id)
          \/ e(i) = Byte(id, "messageLength", Total(Parts[id]))
      BY <1>2, <1>3
    <2>4. i > h => c.from + i - h \in Nat
      BY <1>1, <1>2, <1>3
    <2>5. Total(Parts[id]) \in Nat
      BY LengthsNat
    <2> HIDE DEF e
    <2> QED BY <1>1, <1>3, <2>2, <2>3, <2>4, <2>5 DEF Fields
  <1> HIDE DEF e
  <1>7. w \in Seq(Bytes) /\ Len(w) = n /\ \A i \in 1 .. n : w[i] = e(i) /\ w[i] \in Bytes
    <2>1. w \in [1 .. n -> Bytes]
      BY <1>4, <1>6
    <2> QED BY <1>3, <1>4, <1>6, <2>1
  <1>8. /\ \A i \in 1 .. 4 : w[i] = Byte(id, "chunkLength", n)
        /\ w[5].v = c.chunkX /\ w[9].v = id
    <2>1. 5 \in 1 .. n /\ 9 \in 1 .. n /\ \A i \in 1 .. 4 : i \in 1 .. n
      BY <1>3
    <2>2. w[5] = Byte(id, "chunkX", c.chunkX) /\ w[9] = Byte(id, "messageID", id)
      BY <1>5, <1>7, <2>1
    <2>3. w[5].v = c.chunkX /\ w[9].v = id
      BY <2>2 DEF Byte
    <2> QED BY <1>5, <1>7, <2>1, <2>3
  <1>9. SubSeq(w, h + 1, n) = Data(id, k)
    <2> DEFINE a == c.from
               z == c.size
               m == Message(id)
               d == SubSeq(w, h + 1, n)
               t == SubSeq(m, a + 1, a + z)
    <2>1. a \in Nat /\ z \in Nat /\ z > 0 /\ a + z <= Total(Parts[id]) /\ Total(Parts[id]) \in Nat
      BY <1>1, LengthsNat
    <2>2. t = Data(id, k)
      BY <1>1 DEF Data
    <2>3. n = h + z
      BY <1>2 DEF n
    <2>4. /\ m \in Seq(Bytes) /\ Len(m) = Total(Parts[id])
          /\ \A i \in 1 .. Total(Parts[id]) : m[i] = Byte(id, "data", i)
      BY MessageType DEF Message
    <2>5. \A i \in 1 .. n : i > h => w[i] = Byte(id, "data", a + i - h)
      BY <1>5, <1>7
    <2> HIDE DEF a, z, m
    <2>6. d \in Seq(Bytes) /\ Len(d) = z /\ \A i \in 1 .. z : d[i] = w[h + i]
      <3>1. h + 1 \in Int /\ n \in Int /\ h + 1 <= n /\ n - (h + 1) + 1 = z
        BY <1>2, <1>3, <2>1, <2>3
      <3>2. \A i \in h + 1 .. n : w[i] \in Bytes
        BY <1>2, <1>7
      <3>3. d \in Seq(Bytes) /\ Len(d) = z /\ \A i \in 1 .. z : d[i] = w[(h + 1) + i - 1]
        BY <3>1, <3>2, SubSeqProperties
      <3>4. \A i \in 1 .. z : (h + 1) + i - 1 = h + i
        BY <1>2, <2>1
      <3> QED BY <3>3, <3>4
    <2>7. t \in Seq(Bytes) /\ Len(t) = z /\ \A i \in 1 .. z : t[i] = m[a + i]
      <3>1. a + 1 \in Int /\ a + z \in Int /\ a + 1 <= a + z /\ (a + z) - (a + 1) + 1 = z
        BY <2>1
      <3>2. \A i \in a + 1 .. a + z : m[i] \in Bytes
        BY <2>1, <2>4
      <3>3. t \in Seq(Bytes) /\ Len(t) = z /\ \A i \in 1 .. z : t[i] = m[(a + 1) + i - 1]
        BY <3>1, <3>2, SubSeqProperties
      <3>4. \A i \in 1 .. z : (a + 1) + i - 1 = a + i
        BY <2>1
      <3> QED BY <3>3, <3>4
    <2> HIDE DEF d, t
    <2>8. ASSUME NEW i \in 1 .. z PROVE d[i] = t[i]
      <3>1. h + i \in 1 .. n /\ h + i > h /\ a + (h + i) - h = a + i /\ a + i \in 1 .. Total(Parts[id])
        BY <1>2, <2>1, <2>3
      <3> QED BY <2>4, <2>5, <2>6, <2>7, <3>1
    <2>9. d = t
      BY <2>6, <2>7, <2>8, SeqEqual
    <2> QED BY <2>2, <2>9 DEF d
  <1> QED BY <1>3, <1>7, <1>8, <1>9 DEF h, n, w


----------------------------------------------------------------------------
(* Reading: what RequestItem collects and assembles.                       *)

LEMMA DataConcat ==
  ASSUME NEW id \in Messages
  PROVE  /\ \A k \in 1 .. Number(id) : Data(id, k) \in Seq(Bytes)
         /\ Number(id) # 0 => FlattenSeq([k \in 1 .. Number(id) |-> Data(id, k)]) = Message(id)
  <1> DEFINE N == Number(id)
             M == Message(id)
             S == Sums(Lengths(id))
             d == [k \in 1 .. N |-> Data(id, k)]
  <1>1. M \in Seq(Bytes) /\ Len(M) = Total(Parts[id]) /\ Total(Parts[id]) \in Nat
    BY MessageType, LengthsNat
  <1>2. N \in Nat /\ Lengths(id) \in Seq(Nat) /\ N = Len(Lengths(id))
    BY LengthsNat DEF Number
  <1>3. S[0] = 0 /\ S[N] = Len(M) /\ \A k \in 0 .. N : S[k] \in Nat /\ S[k] <= Len(M)
    <2>1. Total(Lengths(id)) = Len(M)
      BY <1>1, LengthsFacts
    <2>2. \A k \in 0 .. N : S[k] \in Nat /\ S[k] <= Len(M)
      BY <1>2, <2>1, SumsBounded
    <2> QED BY <1>2, <2>1, <2>2, SumsDef DEF Total
  <1>4. \A k \in 1 .. N : S[k - 1] <= S[k]
    <2>1. SUFFICES ASSUME NEW k \in 1 .. N PROVE S[k - 1] <= S[k]
      OBVIOUS
    <2>2. k \in 1 .. Len(Lengths(id)) /\ Lengths(id)[k] \in Nat /\ k - 1 \in 0 .. N
      BY <1>2
    <2>3. S[k] = S[k - 1] + Lengths(id)[k]
      BY <1>2, <2>2, SumsDef
    <2> HIDE DEF S
    <2> QED BY <1>3, <2>2, <2>3
  <1>5. \A k \in 1 .. N : Data(id, k) = SubSeq(M, S[k - 1] + 1, S[k])
    BY DEF Data
  <1> HIDE DEF S, M, N
  <1>6. \A k \in 1 .. N : Data(id, k) \in Seq(Bytes)
    <2>1. SUFFICES ASSUME NEW k \in 1 .. N PROVE Data(id, k) \in Seq(Bytes)
      OBVIOUS
    <2>2. k - 1 \in 0 .. N /\ k \in 0 .. N
      BY <1>2
    <2>3. S[k - 1] + 1 \in Int /\ S[k] \in Int /\ \A i \in S[k - 1] + 1 .. S[k] : i \in 1 .. Len(M)
      BY <1>1, <1>3, <2>2
    <2>4. \A i \in S[k - 1] + 1 .. S[k] : M[i] \in Bytes
      BY <1>1, <2>3
    <2> DEFINE a == S[k - 1] + 1
               b == S[k]
    <2> HIDE DEF a, b
    <2>5. SubSeq(M, a, b) \in Seq(Bytes)
      BY <2>3, <2>4, SubSeqProperties DEF a, b
    <2>6. Data(id, k) = SubSeq(M, a, b)
      BY <1>5 DEF a, b
    <2> QED BY <2>5, <2>6, Zenon
  <1>7. ASSUME N # 0 PROVE FlattenSeq(d) = M
    <2>1. d \in Seq(Seq(Bytes)) /\ Len(d) = N /\ d # <<>> /\ \A k \in 1 .. N : d[k] = Data(id, k)
      <3>1. d \in [1 .. N -> Seq(Bytes)]
        BY <1>6
      <3>2. 1 \in 1 .. N
        BY <1>2, <1>7
      <3> QED BY <1>2, <3>1, <3>2
    <2> DEFINE g == [i \in 1 .. N |-> SubSeq(M, 1, S[i])]
    <2> HIDE DEF d
    <2>2. \A i \in 1 .. N : g[i] = SubSeq(M, 1, S[i])
      OBVIOUS
    <2> HIDE DEF g
    <2>3. 1 \in 1 .. N /\ N \in 1 .. N /\ 1 - 1 = 0
      BY <1>2, <1>7
    <2>4. g[1] = d[1]
      <3>1. Data(id, 1) = SubSeq(M, S[0] + 1, S[1])
        BY <1>5, <2>3
      <3>2. S[0] + 1 = 1
        BY <1>3
      <3>3. SubSeq(M, S[0] + 1, S[1]) = SubSeq(M, 1, S[1])
        BY <3>2
      <3>4. g[1] = SubSeq(M, 1, S[1]) /\ d[1] = Data(id, 1)
        BY <2>1, <2>2, <2>3
      <3> QED BY <3>1, <3>3, <3>4, Zenon
    <2>5. ASSUME NEW i \in 2 .. N PROVE g[i] = g[i - 1] \o d[i]
      <3>1. i \in 1 .. N /\ i - 1 \in 1 .. N /\ i \in 0 .. N /\ i - 1 \in 0 .. N
        BY <1>2
      <3> DEFINE a == S[i - 1]
                 b == S[i]
      <3>2. a \in Nat /\ b \in Nat /\ a <= b /\ b <= Len(M)
        BY <1>3, <1>4, <3>1
      <3>3. g[i] = SubSeq(M, 1, b) /\ g[i - 1] = SubSeq(M, 1, a) /\ d[i] = SubSeq(M, a + 1, b)
        BY <1>5, <2>1, <2>2, <3>1
      <3> HIDE DEF a, b
      <3>4. 1 \in 1 .. Len(M) + 1 /\ a \in 1 - 1 .. Len(M) /\ b \in a .. Len(M)
        BY <1>1, <3>2
      <3>5. SubSeq(M, 1, a) \o SubSeq(M, a + 1, b) = SubSeq(M, 1, b)
        BY <1>1, <3>4, ConcatAdjacentSubSeq
      <3> QED BY <3>3, <3>5
    <2>6. FlattenSeq(d) = g[N]
      BY <2>1, <2>4, <2>5, FlattenBy
    <2>7. g[N] = M
      BY <1>1, <1>3, <2>2, <2>3, SubSeqFull
    <2> QED BY <2>6, <2>7
  <1> QED BY <1>6, <1>7 DEF N, M

Received == [chunkX : Nat, offset : Nat, length : Nat]
Items == [chunks : Seq(Received), content : Seq(Bytes), number : Nat]

\* Which chunk of the message the j-th one that arrived is.
At(r, j) == Position(r.chunks[j].chunkX)

\* What an item holds of the response to message id: data of chunks of that
\* message, none twice, each where its entry says.
Collected(id, r) ==
  /\ r \in Items
  /\ \A j \in 1 .. Len(r.chunks) :
       LET x == r.chunks[j] IN
       /\ At(r, j) \in 1 .. Number(id)
       /\ x.offset + x.length <= Len(r.content)
       /\ SubSeq(r.content, x.offset + 1, x.offset + x.length) = Data(id, At(r, j))
  /\ \A i, j \in 1 .. Len(r.chunks) : At(r, i) = At(r, j) => i = j
  /\ r.number \in {0, Number(id)}

\* As many chunks as the message has: every one of them, exactly once.
LEMMA AllArrived ==
  ASSUME NEW id \in Messages, NEW r, Collected(id, r), Len(r.chunks) >= Number(id)
  PROVE  /\ Len(r.chunks) = Number(id)
         /\ \A k \in 1 .. Number(id) : \E j \in 1 .. Number(id) : At(r, j) = k
  <1> DEFINE n == Len(r.chunks)
             N == Number(id)
             f == [j \in 1 .. n |-> At(r, j)]
  <1>1. n \in Nat /\ N \in Nat /\ n >= N
    BY LengthsNat DEF Collected, Items
  <1>2. /\ \A j \in 1 .. n : At(r, j) \in 1 .. N
        /\ \A i, j \in 1 .. n : At(r, i) = At(r, j) => i = j
    BY DEF Collected
  <1> HIDE DEF n, N
  <1>3. f \in Injection(1 .. n, 1 .. N)
    BY <1>2 DEF Injection, IsInjective
  <1>4. /\ IsFiniteSet(1 .. n) /\ Cardinality(1 .. n) = n
        /\ IsFiniteSet(1 .. N) /\ Cardinality(1 .. N) = N
    <2>1. 1 \in Int /\ n \in Int /\ N \in Int
      BY <1>1
    <2>2. IsFiniteSet(1 .. n) /\ Cardinality(1 .. n) = IF 1 > n THEN 0 ELSE n - 1 + 1
      BY <2>1, FS_Interval
    <2>3. IsFiniteSet(1 .. N) /\ Cardinality(1 .. N) = IF 1 > N THEN 0 ELSE N - 1 + 1
      BY <2>1, FS_Interval
    <2> QED BY <1>1, <2>2, <2>3
  <1>5. n = N /\ f \in Surjection(1 .. n, 1 .. N)
    <2> HIDE DEF f
    <2>1. /\ Cardinality(1 .. n) <= Cardinality(1 .. N)
          /\ Cardinality(1 .. n) = Cardinality(1 .. N) <=> f \in Surjection(1 .. n, 1 .. N)
      BY <1>3, <1>4, FS_Injection
    <2>2. n <= N /\ (n = N <=> f \in Surjection(1 .. n, 1 .. N))
      BY <1>4, <2>1
    <2>3. n = N
      BY <1>1, <2>2
    <2> QED BY <2>2, <2>3
  <1>6. \A k \in 1 .. N : \E j \in 1 .. n : f[j] = k
    <2> HIDE DEF f
    <2> QED BY <1>5 DEF Surjection
  <1> QED BY <1>5, <1>6 DEF n, N


\* The number of chunks before one is its index.
LEMMA Rank ==
  ASSUME NEW id \in Messages, NEW r, Collected(id, r), Len(r.chunks) >= Number(id),
         NEW j \in 1 .. Number(id)
  PROVE  Cardinality({i \in DOMAIN r.chunks : Before(r.chunks, i, j)}) = At(r, j) - 1
  <1> DEFINE N == Number(id)
             B == {i \in 1 .. N : At(r, i) < At(r, j)}
             f == [i \in B |-> At(r, i)]
             T == 1 .. (At(r, j) - 1)
  <1>1. /\ Len(r.chunks) = N /\ DOMAIN r.chunks = 1 .. N /\ N \in Nat
        /\ \A k \in 1 .. N : \E i \in 1 .. N : At(r, i) = k
    <2>1. r.chunks \in Seq(Received)
      BY DEF Collected, Items
    <2> QED BY <2>1, AllArrived, LengthsNat
  <1>2. /\ \A i \in 1 .. N : At(r, i) \in 1 .. N
        /\ \A i, l \in 1 .. N : At(r, i) = At(r, l) => i = l
    BY <1>1 DEF Collected
  <1>3. \A i \in 1 .. N : Before(r.chunks, i, j) <=> At(r, i) < At(r, j)
    <2>1. SUFFICES ASSUME NEW i \in 1 .. N PROVE Before(r.chunks, i, j) <=> At(r, i) < At(r, j)
      OBVIOUS
    <2> DEFINE a == index(r.chunks[i].chunkX)
               b == index(r.chunks[j].chunkX)
    <2>2. At(r, i) = a + 1 /\ At(r, j) = b + 1
      BY DEF At, Position
    <2>3. r.chunks[i] \in Received /\ r.chunks[j] \in Received
      <3>1. r.chunks \in Seq(Received)
        BY DEF Collected, Items
      <3>2. i \in 1 .. Len(r.chunks) /\ j \in 1 .. Len(r.chunks)
        BY <1>1
      <3> QED BY ONLY <3>1, <3>2, ElementOfSeq
    <2>4. a \in Nat /\ b \in Nat
      <3>1. \A x \in Nat : index(x) \in Nat
        BY DEF index
      <3> QED BY <2>3, <3>1 DEF Received
    <2>5. Before(r.chunks, i, j) <=> (a < b \/ (a = b /\ i < j))
      BY DEF Before
    <2> HIDE DEF a, b
    <2>6. a = b => i = j
      BY <1>2, <2>2
    <2>7. ~(i < i)
      BY <1>1
    <2> QED BY <2>2, <2>4, <2>5, <2>6, <2>7
  <1>4. {i \in DOMAIN r.chunks : Before(r.chunks, i, j)} = B
    BY <1>1, <1>3
  <1> HIDE DEF N
  <1>5. At(r, j) \in 1 .. N
    BY <1>2 DEF N
  <1>6. f \in Bijection(B, T)
    <2>1. \A i \in B : At(r, i) \in T
      BY <1>1, <1>2, <1>5
    <2>2. \A k \in T : \E i \in B : At(r, i) = k
      <3>1. SUFFICES ASSUME NEW k \in T PROVE \E i \in B : At(r, i) = k
        OBVIOUS
      <3>2. k \in 1 .. N /\ k < At(r, j)
        BY <1>1, <1>5
      <3>3. PICK i \in 1 .. N : At(r, i) = k
        BY <1>1, <3>2
      <3> QED BY <3>2, <3>3
    <2>3. \A i, l \in B : At(r, i) = At(r, l) => i = l
      BY <1>2
    <2> HIDE DEF B, T
    <2>4. f \in [B -> T]
      BY <2>1
    <2>5. f \in Injection(B, T)
      BY <2>3, <2>4 DEF Injection, IsInjective
    <2>6. f \in Surjection(B, T)
      BY <2>2, <2>4 DEF Surjection
    <2> QED BY <2>5, <2>6 DEF Bijection
  <1>7. IsFiniteSet(B)
    <2>1. IsFiniteSet(1 .. N)
      BY <1>1, FS_Interval
    <2>2. B \in SUBSET (1 .. N)
      OBVIOUS
    <2> HIDE DEF B
    <2> QED BY <2>1, <2>2, FS_Subset
  <1>8. Cardinality(T) = At(r, j) - 1
    <2> DEFINE a == At(r, j)
               b == a - 1
    <2>1. a \in 1 .. N
      BY <1>5
    <2> HIDE DEF a
    <2>2. b \in Nat /\ b \in Int /\ 1 \in Int
      BY <1>1, <2>1
    <2> HIDE DEF b
    <2>3. Cardinality(1 .. b) = IF 1 > b THEN 0 ELSE b - 1 + 1
      BY <2>2, FS_Interval
    <2>4. Cardinality(1 .. b) = b
      BY <2>2, <2>3
    <2> QED BY <2>4 DEF a, b
  <1>9. Cardinality(T) = Cardinality(B)
    <2> HIDE DEF B, T, f
    <2>1. ExistsBijection(B, T)
      BY <1>6 DEF ExistsBijection
    <2> QED BY <1>7, <2>1, FS_Bijection
  <1> QED BY <1>4, <1>8, <1>9

\* Sorting puts the k-th chunk of the message in place k.
LEMMA SortedFacts ==
  ASSUME NEW id \in Messages, NEW r, Collected(id, r), Len(r.chunks) >= Number(id)
  PROVE  /\ DOMAIN Sorted(r.chunks) = 1 .. Number(id)
         /\ \A k \in 1 .. Number(id) :
              \E j \in 1 .. Len(r.chunks) : Sorted(r.chunks)[k] = r.chunks[j] /\ At(r, j) = k
  <1> DEFINE N == Number(id)
             C(j) == Cardinality({i \in DOMAIN r.chunks : Before(r.chunks, i, j)})
  <1>1. /\ Len(r.chunks) = N /\ DOMAIN r.chunks = 1 .. N /\ N \in Nat
        /\ \A k \in 1 .. N : \E i \in 1 .. N : At(r, i) = k
    <2>1. r.chunks \in Seq(Received)
      BY DEF Collected, Items
    <2> QED BY <2>1, AllArrived, LengthsNat
  <1>2. \A j \in 1 .. N : C(j) = At(r, j) - 1 /\ At(r, j) \in 1 .. N
    BY <1>1, Rank DEF Collected
  <1>3. Sorted(r.chunks) = [k \in 1 .. N |-> r.chunks[CHOOSE j \in 1 .. N : C(j) = k - 1]]
    BY <1>1 DEF Sorted
  <1> HIDE DEF C, N
  <1>4. ASSUME NEW k \in 1 .. N
        PROVE  \E j \in 1 .. N : Sorted(r.chunks)[k] = r.chunks[j] /\ At(r, j) = k
    <2> DEFINE j == CHOOSE j \in 1 .. N : C(j) = k - 1
    <2>1. PICK i \in 1 .. N : At(r, i) = k
      BY <1>1
    <2>2. C(i) = k - 1
      BY <1>2, <2>1
    <2>3. j \in 1 .. N /\ C(j) = k - 1
      BY <2>2
    <2>4. Sorted(r.chunks)[k] = r.chunks[j]
      BY <1>3
    <2> HIDE DEF j
    <2>5. At(r, j) = k
      <3>1. At(r, j) - 1 = k - 1 /\ At(r, j) \in 1 .. N
        BY <1>2, <2>3
      <3> QED BY <1>1, <3>1
    <2> QED BY <2>3, <2>4, <2>5
  <1>5. DOMAIN Sorted(r.chunks) = 1 .. N
    BY <1>3
  <1> QED BY <1>1, <1>4, <1>5 DEF N

\* An item that holds every chunk assembles the message.
LEMMA AssembleFacts ==
  ASSUME NEW id \in Messages, NEW r, Collected(id, r), Len(r.chunks) >= Number(id), Number(id) # 0
  PROVE  Assemble(r) = Message(id)
  <1> DEFINE N == Number(id)
             s == Sorted(r.chunks)
             e(k) == SubSeq(r.content, s[k].offset + 1, s[k].offset + s[k].length)
  <1>1. DOMAIN s = 1 .. N /\ \A k \in 1 .. N : \E j \in 1 .. Len(r.chunks) : s[k] = r.chunks[j] /\ At(r, j) = k
    BY SortedFacts
  <1>2. Assemble(r) = FlattenSeq([k \in DOMAIN s |-> e(k)])
    BY DEF Assemble
  <1> HIDE DEF s
  <1>3. ASSUME NEW k \in 1 .. N PROVE e(k) = Data(id, k)
    <2>1. PICK j \in 1 .. Len(r.chunks) : s[k] = r.chunks[j] /\ At(r, j) = k
      BY <1>1
    <2>2. SubSeq(r.content, r.chunks[j].offset + 1, r.chunks[j].offset + r.chunks[j].length) = Data(id, At(r, j))
      BY DEF Collected
    <2> QED BY <2>1, <2>2
  <1> HIDE DEF e
  <1>4. [k \in DOMAIN s |-> e(k)] = [k \in 1 .. N |-> Data(id, k)]
    BY <1>1, <1>3
  <1> QED BY <1>2, <1>4, DataConcat


LEMMA ChunkOfMessage ==
  ASSUME NEW c \in AllChunks
  PROVE  /\ c.messageID \in Messages /\ Position(c.chunkX) \in 1 .. Number(c.messageID)
         /\ c = BuildChunks(c.messageID)[Position(c.chunkX)]
  <1>0. PICK id \in Messages : c \in Chunks(id)
    BY DEF AllChunks
  <1>1. PICK k \in DOMAIN BuildChunks(id) : c = BuildChunks(id)[k]
    BY <1>0 DEF Chunks
  <1>2. k \in 1 .. Number(id)
    BY LengthsNat DEF BuildChunks
  <1>3. c.messageID = id /\ Position(c.chunkX) = k
    BY <1>1, <1>2, ChunkFacts
  <1> QED BY <1>1, <1>2, <1>3

LEMMA SubSeqOfPrefix ==
  ASSUME NEW S, NEW s \in Seq(S), NEW t \in Seq(S), NEW a \in Nat, NEW n \in Nat, a + n <= Len(s)
  PROVE  SubSeq(s \o t, a + 1, a + n) = SubSeq(s, a + 1, a + n)
  <1> DEFINE u == s \o t
  <1>1. u \in Seq(S) /\ Len(u) = Len(s) + Len(t) /\ \A i \in 1 .. Len(s) : u[i] = s[i] /\ s[i] \in S
    BY ConcatProperties
  <1>2. Len(s) \in Nat /\ Len(t) \in Nat
    OBVIOUS
  <1> HIDE DEF u
  <1>3. a + 1 \in Int /\ a + n \in Int /\ (a + n) - (a + 1) + 1 = n
    OBVIOUS
  <1>4. \A i \in a + 1 .. a + n : i \in 1 .. Len(s)
    BY <1>2
  <1>5. \A i \in a + 1 .. a + n : s[i] \in S /\ u[i] \in S
    BY <1>1, <1>4
  <1> DEFINE x == SubSeq(s, a + 1, a + n)
             y == SubSeq(u, a + 1, a + n)
  <1>6. /\ x \in Seq(S) /\ Len(x) = IF a + 1 <= a + n THEN n ELSE 0
        /\ \A i \in 1 .. n : x[i] = s[a + 1 + i - 1]
    BY <1>3, <1>5, SubSeqProperties
  <1>7. /\ y \in Seq(S) /\ Len(y) = IF a + 1 <= a + n THEN n ELSE 0
        /\ \A i \in 1 .. n : y[i] = u[a + 1 + i - 1]
    BY <1>3, <1>5, SubSeqProperties
  <1> HIDE DEF x, y
  <1>8. Len(x) = n /\ Len(y) = n
    BY <1>6, <1>7
  <1>9. \A i \in 1 .. n : x[i] = y[i]
    <2>1. SUFFICES ASSUME NEW i \in 1 .. n PROVE x[i] = y[i]
      OBVIOUS
    <2>2. a + 1 + i - 1 \in 1 .. Len(s)
      BY <1>2
    <2> QED BY <1>1, <1>6, <1>7, <2>2
  <1>10. x = y
    BY <1>6, <1>7, <1>8, <1>9, SeqEqual
  <1> QED BY <1>10 DEF x, y, u

LEMMA SubSeqOfSuffix ==
  ASSUME NEW S, NEW s \in Seq(S), NEW t \in Seq(S)
  PROVE  SubSeq(s \o t, Len(s) + 1, Len(s) + Len(t)) = t
  <1> DEFINE u == s \o t
             m == Len(s)
             n == Len(t)
             x == SubSeq(u, m + 1, m + n)
  <1>1. /\ u \in Seq(S) /\ m \in Nat /\ n \in Nat
        /\ \A i \in 1 .. n : u[m + i] = t[i] /\ t[i] \in S
        /\ \A i \in 1 .. m + n : u[i] \in S
    BY ConcatProperties
  <1> HIDE DEF u, m, n
  <1>2. m + 1 \in Int /\ m + n \in Int /\ (m + n) - (m + 1) + 1 = n
    BY <1>1
  <1>3. \A i \in m + 1 .. m + n : u[i] \in S
    BY <1>1
  <1>4. x \in Seq(S) /\ Len(x) = (IF m + 1 <= m + n THEN n ELSE 0) /\ \A i \in 1 .. n : x[i] = u[m + 1 + i - 1]
    BY <1>2, <1>3, SubSeqProperties
  <1> HIDE DEF x
  <1>5. Len(x) = n
    BY <1>1, <1>4
  <1>6. \A i \in 1 .. n : x[i] = t[i]
    <2>1. SUFFICES ASSUME NEW i \in 1 .. n PROVE x[i] = t[i]
      OBVIOUS
    <2>2. m + 1 + i - 1 = m + i
      BY <1>1
    <2> QED BY <1>1, <1>4, <2>2
  <1>7. x = t
    BY <1>4, <1>5, <1>6, SeqEqual DEF n
  <1> QED BY <1>7 DEF x, u, m, n

\* What the buffer starts with leaves it: the rest of it is the rest of the stream.
LEMMA SplitStream ==
  ASSUME buffer \in Seq(Bytes), wire \in Seq(Bytes), NEW w \in Seq(Bytes), NEW s \in Seq(Bytes),
         buffer \o wire = w \o s, Len(w) <= Len(buffer)
  PROVE  /\ \A i \in 1 .. Len(w) : buffer[i] = w[i]
         /\ SubSeq(buffer, Len(w) + 1, Len(buffer)) \in Seq(Bytes)
         /\ SubSeq(buffer, Len(w) + 1, Len(buffer)) \o wire = s
  <1> DEFINE a == Len(w)
             b == Len(buffer)
             z == SubSeq(buffer, a + 1, b)
  <1>1. /\ a \in Nat /\ b \in Nat /\ Len(wire) \in Nat /\ Len(s) \in Nat /\ a <= b
        /\ \A i \in 1 .. b : buffer[i] \in Bytes
    OBVIOUS
  <1>2. /\ Len(buffer \o wire) = b + Len(wire) /\ Len(w \o s) = a + Len(s)
        /\ \A i \in 1 .. b + Len(wire) : (buffer \o wire)[i] = IF i <= b THEN buffer[i] ELSE wire[i - b]
        /\ \A i \in 1 .. a + Len(s) : (w \o s)[i] = IF i <= a THEN w[i] ELSE s[i - a]
    BY ConcatProperties
  <1>3. b + Len(wire) = a + Len(s)
    BY <1>2
  <1>4. \A i \in 1 .. b + Len(wire) : (IF i <= b THEN buffer[i] ELSE wire[i - b]) = (IF i <= a THEN w[i] ELSE s[i - a])
    BY <1>2, <1>3
  <1> HIDE DEF a, b
  <1>5. \A i \in 1 .. a : buffer[i] = w[i]
    <2>1. \A i \in 1 .. a : i \in 1 .. b + Len(wire) /\ i <= a /\ i <= b
      BY <1>1
    <2> QED BY <1>4, <2>1
  <1>6. z \in Seq(Bytes) /\ Len(z) = b - a /\ \A i \in 1 .. b - a : z[i] = buffer[a + i]
    <2>1. a + 1 \in Int /\ b \in Int /\ b - (a + 1) + 1 = b - a
      BY <1>1
    <2>2. \A i \in a + 1 .. b : buffer[i] \in Bytes
      BY <1>1
    <2>3. z \in Seq(Bytes) /\ Len(z) = (IF a + 1 <= b THEN b - a ELSE 0) /\ \A i \in 1 .. b - a : z[i] = buffer[a + 1 + i - 1]
      BY <2>1, <2>2, SubSeqProperties
    <2>4. \A i \in 1 .. b - a : a + 1 + i - 1 = a + i
      BY <1>1
    <2> HIDE DEF z
    <2>5. Len(z) = b - a
      BY <1>1, <2>3
    <2> QED BY <2>3, <2>4, <2>5
  <1> HIDE DEF z
  <1>7. /\ z \o wire \in Seq(Bytes) /\ Len(z \o wire) = Len(s)
        /\ \A i \in 1 .. Len(s) : (z \o wire)[i] = IF i <= b - a THEN z[i] ELSE wire[i - (b - a)]
    <2>1. /\ z \o wire \in Seq(Bytes) /\ Len(z \o wire) = Len(z) + Len(wire)
          /\ \A i \in 1 .. Len(z) + Len(wire) : (z \o wire)[i] = IF i <= Len(z) THEN z[i] ELSE wire[i - Len(z)]
      BY <1>6, ConcatProperties
    <2>2. Len(z) + Len(wire) = Len(s)
      BY <1>1, <1>3, <1>6
    <2> QED BY <1>6, <2>1, <2>2
  <1>8. \A i \in 1 .. Len(s) : (z \o wire)[i] = s[i]
    <2>1. SUFFICES ASSUME NEW i \in 1 .. Len(s) PROVE (z \o wire)[i] = s[i]
      OBVIOUS
    <2>2. a + i \in 1 .. b + Len(wire) /\ ~(a + i <= a) /\ (a + i) - a = i
      BY <1>1, <1>3
    <2>3. (IF a + i <= b THEN buffer[a + i] ELSE wire[(a + i) - b]) = s[i]
      BY <1>4, <2>2
    <2>4. CASE i <= b - a
      <3>1. a + i <= b /\ i \in 1 .. b - a
        BY <1>1, <2>4
      <3> QED BY <1>6, <1>7, <2>3, <2>4, <3>1
    <2>5. CASE ~(i <= b - a)
      <3>1. ~(a + i <= b) /\ (a + i) - b = i - (b - a)
        BY <1>1, <2>5
      <3> QED BY <1>7, <2>3, <2>5, <3>1
    <2> QED BY <2>4, <2>5
  <1>9. z \o wire = s
    BY <1>7, <1>8, SeqEqual
  <1> QED BY <1>5, <1>6, <1>9 DEF z, a, b

\* The chunks in flight, on the wire and in the receive buffer.
Stream(q) == FlattenSeq([k \in DOMAIN q |-> WriteChunk(q[k])])

LEMMA WriteChunkType ==
  ASSUME NEW c \in AllChunks
  PROVE  WriteChunk(c) \in Seq(Bytes)
  BY ChunkOfMessage, WriteChunkFacts

LEMMA WrittenType ==
  ASSUME NEW q \in Seq(AllChunks)
  PROVE  /\ [k \in DOMAIN q |-> WriteChunk(q[k])] \in Seq(Seq(Bytes))
         /\ Len([k \in DOMAIN q |-> WriteChunk(q[k])]) = Len(q)
         /\ \A i \in 1 .. Len(q) : [k \in DOMAIN q |-> WriteChunk(q[k])][i] = WriteChunk(q[i])
  <1>1. DOMAIN q = 1 .. Len(q) /\ Len(q) \in Nat /\ \A i \in 1 .. Len(q) : q[i] \in AllChunks
    OBVIOUS
  <1>2. \A i \in 1 .. Len(q) : WriteChunk(q[i]) \in Seq(Bytes)
    BY <1>1, WriteChunkType
  <1>3. [k \in DOMAIN q |-> WriteChunk(q[k])] \in [1 .. Len(q) -> Seq(Bytes)]
    BY <1>1, <1>2
  <1> QED BY <1>1, <1>3

LEMMA StreamType ==
  ASSUME NEW q \in Seq(AllChunks)
  PROVE  Stream(q) \in Seq(Bytes)
  BY WrittenType, FlattenType DEF Stream

LEMMA StreamEmpty ==
  ASSUME NEW q \in Seq(AllChunks), Len(q) = 0
  PROVE  Stream(q) = <<>>
  <1> DEFINE w == [k \in DOMAIN q |-> WriteChunk(q[k])]
  <1>1. w \in Seq(Seq(Bytes)) /\ Len(w) = 0
    BY WrittenType
  <1>2. Stream(q) = FlattenSeq(w)
    BY DEF Stream
  <1> HIDE DEF w
  <1>3. w = <<>>
    BY <1>1
  <1> QED BY <1>2, <1>3, FlattenEmpty

LEMMA StreamAppend ==
  ASSUME NEW q \in Seq(AllChunks), NEW c \in AllChunks
  PROVE  Stream(Append(q, c)) = Stream(q) \o WriteChunk(c)
  <1> DEFINE p == Append(q, c)
             w == [k \in DOMAIN q |-> WriteChunk(q[k])]
             u == [k \in DOMAIN p |-> WriteChunk(p[k])]
             x == WriteChunk(c)
  <1>1. /\ p \in Seq(AllChunks) /\ Len(p) = Len(q) + 1 /\ p[Len(q) + 1] = c /\ Len(q) \in Nat
        /\ \A i \in 1 .. Len(q) : p[i] = q[i]
    BY AppendProperties
  <1>2. w \in Seq(Seq(Bytes)) /\ Len(w) = Len(q) /\ \A i \in 1 .. Len(q) : w[i] = WriteChunk(q[i])
    BY WrittenType
  <1> HIDE DEF p
  <1>3. u \in Seq(Seq(Bytes)) /\ Len(u) = Len(p) /\ \A i \in 1 .. Len(p) : u[i] = WriteChunk(p[i])
    BY <1>1, WrittenType
  <1>4. Stream(p) = FlattenSeq(u) /\ Stream(q) = FlattenSeq(w)
    BY DEF Stream
  <1>5. x \in Seq(Bytes)
    BY WriteChunkType
  <1> HIDE DEF w, u
  <1>6. u = Append(w, x)
    <2> DEFINE a == Append(w, x)
    <2>1. /\ a \in Seq(Seq(Bytes)) /\ Len(a) = Len(w) + 1 /\ a[Len(w) + 1] = x
          /\ \A i \in 1 .. Len(w) : a[i] = w[i]
      BY <1>2, <1>5, AppendProperties
    <2> HIDE DEF a
    <2>2. Len(a) = Len(u)
      BY <1>1, <1>2, <1>3, <2>1
    <2>3. ASSUME NEW i \in 1 .. Len(u) PROVE u[i] = a[i]
      <3>1. CASE i = Len(q) + 1
        BY <1>1, <1>2, <1>3, <2>1, <3>1
      <3>2. CASE i # Len(q) + 1
        <4>1. i \in 1 .. Len(q) /\ i \in 1 .. Len(p)
          BY <1>1, <1>3, <3>2
        <4> QED BY <1>1, <1>2, <1>3, <2>1, <4>1
      <3> QED BY <3>1, <3>2
    <2>4. u = a
      BY <1>3, <2>1, <2>2, <2>3, SeqEqual
    <2> QED BY <2>4 DEF a
  <1> HIDE DEF x
  <1>7. FlattenSeq(u) = FlattenSeq(w) \o x
    BY <1>2, <1>5, <1>6, FlattenAppend
  <1> QED BY <1>4, <1>7 DEF p, x

LEMMA StreamTail ==
  ASSUME NEW q \in Seq(AllChunks), q # <<>>
  PROVE  Stream(q) = WriteChunk(q[1]) \o Stream(Tail(q))
  <1> DEFINE p == Tail(q)
             w == [k \in DOMAIN q |-> WriteChunk(q[k])]
             u == [k \in DOMAIN p |-> WriteChunk(p[k])]
  <1>1. /\ p \in Seq(AllChunks) /\ Len(p) = Len(q) - 1 /\ Len(q) \in Nat /\ Len(q) > 0
        /\ \A i \in 1 .. Len(p) : p[i] = q[i + 1]
    BY HeadTailProperties
  <1>2. w \in Seq(Seq(Bytes)) /\ Len(w) = Len(q) /\ \A i \in 1 .. Len(q) : w[i] = WriteChunk(q[i])
    BY WrittenType
  <1> HIDE DEF p
  <1>3. u \in Seq(Seq(Bytes)) /\ Len(u) = Len(p) /\ \A i \in 1 .. Len(p) : u[i] = WriteChunk(p[i])
    BY <1>1, WrittenType
  <1>4. Stream(p) = FlattenSeq(u) /\ Stream(q) = FlattenSeq(w)
    BY DEF Stream
  <1> HIDE DEF w, u
  <1>5. w # <<>> /\ 1 \in 1 .. Len(q)
    BY <1>1, <1>2
  <1>6. u = Tail(w)
    <2> DEFINE a == Tail(w)
    <2>1. /\ a \in Seq(Seq(Bytes)) /\ Len(a) = Len(w) - 1
          /\ \A i \in 1 .. Len(a) : a[i] = w[i + 1]
      BY <1>2, <1>5, HeadTailProperties
    <2> HIDE DEF a
    <2>2. Len(a) = Len(u)
      BY <1>1, <1>2, <1>3, <2>1
    <2>3. ASSUME NEW i \in 1 .. Len(u) PROVE u[i] = a[i]
      <3>1. i \in 1 .. Len(p) /\ i \in 1 .. Len(a) /\ i + 1 \in 1 .. Len(q)
        BY <1>1, <1>3, <2>2
      <3> QED BY <1>1, <1>2, <1>3, <2>1, <3>1
    <2>4. u = a
      BY <1>3, <2>1, <2>2, <2>3, SeqEqual
    <2> QED BY <2>4 DEF a
  <1>7. FlattenSeq(w) = w[1] \o FlattenSeq(Tail(w))
    BY <1>2, <1>5, FlattenTail
  <1>8. w[1] = WriteChunk(q[1])
    BY <1>2, <1>5
  <1> QED BY <1>4, <1>6, <1>7, <1>8 DEF p

\* Another chunk of the message arrives.
LEMMA AddChunkFacts ==
  ASSUME NEW id \in Messages, NEW r, Collected(id, r), NEW k \in 1 .. Number(id),
         \A j \in 1 .. Len(r.chunks) : At(r, j) # k,
         NEW c, c.chunkX = BuildChunks(id)[k].chunkX, c.data = Data(id, k)
  PROVE  /\ Collected(id, AddChunk(r, c))
         /\ Len(AddChunk(r, c).chunks) = Len(r.chunks) + 1
         /\ \A j \in 1 .. Len(r.chunks) : At(AddChunk(r, c), j) = At(r, j)
         /\ At(AddChunk(r, c), Len(r.chunks) + 1) = k
  <1> DEFINE n == AddChunk(r, c)
             x == [chunkX |-> c.chunkX, offset |-> Len(r.content), length |-> Len(c.data)]
             m == Len(r.chunks)
  <1>1. /\ c.chunkX \in Nat /\ Position(c.chunkX) = k
        /\ isFirst(c.chunkX) => numberOfChunks(c.chunkX) = Number(id)
    BY ChunkFacts
  <1>2. c.data \in Seq(Bytes) /\ Len(c.data) \in Nat
    <2>1. Data(id, k) \in Seq(Bytes)
      BY DataConcat
    <2>2. c.data \in Seq(Bytes)
      BY <2>1
    <2> QED BY ONLY <2>2, LenProperties
  <1>3. r.chunks \in Seq(Received) /\ r.content \in Seq(Bytes) /\ r.number \in {0, Number(id)} /\ Number(id) \in Nat
    BY LengthsNat DEF Collected, Items
  <1>4. x \in Received
    BY <1>1, <1>2, <1>3 DEF Received
  <1>5. /\ n.chunks = Append(r.chunks, x) /\ n.content = r.content \o c.data
        /\ n.number = (IF isFirst(c.chunkX) THEN numberOfChunks(c.chunkX) ELSE r.number)
        /\ n = [chunks |-> n.chunks, content |-> n.content, number |-> n.number]
    BY DEF AddChunk
  <1> HIDE DEF n
  <1>6. x.chunkX = c.chunkX /\ x.offset = Len(r.content) /\ x.length = Len(c.data)
    OBVIOUS
  <1> HIDE DEF x
  <1>7. /\ n.chunks \in Seq(Received) /\ Len(n.chunks) = m + 1 /\ n.chunks[m + 1] = x /\ m \in Nat
        /\ \A j \in 1 .. m : n.chunks[j] = r.chunks[j]
    BY <1>3, <1>4, <1>5, AppendProperties
  <1>8. n.content \in Seq(Bytes) /\ Len(n.content) = Len(r.content) + Len(c.data)
    BY <1>2, <1>3, <1>5, ConcatProperties
  <1>9. n.number \in {0, Number(id)}
    BY <1>1, <1>3, <1>5
  <1>10. n \in Items
    <2> DEFINE a == n.chunks
               b == n.content
               d == n.number
    <2>1. a \in Seq(Received) /\ b \in Seq(Bytes) /\ d \in Nat
      BY <1>3, <1>7, <1>8, <1>9
    <2>2. n = [chunks |-> a, content |-> b, number |-> d]
      BY <1>5
    <2> HIDE DEF a, b, d
    <2> QED BY <2>1, <2>2 DEF Items
  <1>11. (\A j \in 1 .. m : At(n, j) = At(r, j)) /\ At(n, m + 1) = k
    BY <1>1, <1>6, <1>7 DEF At
  <1> DEFINE P(s, i, l) == LET y == s.chunks[i] IN
               /\ l \in 1 .. Number(id)
               /\ y.offset + y.length <= Len(s.content)
               /\ SubSeq(s.content, y.offset + 1, y.offset + y.length) = Data(id, l)
  <1>12. ASSUME NEW j \in 1 .. m + 1 PROVE P(n, j, At(n, j))
    <2>1. CASE j = m + 1
      <3>1. n.chunks[j] = x /\ At(n, j) = k
        BY <1>7, <1>11, <2>1
      <3>2. SubSeq(n.content, Len(r.content) + 1, Len(r.content) + Len(c.data)) = c.data
        BY <1>2, <1>3, <1>5, SubSeqOfSuffix
      <3>3. Len(r.content) + Len(c.data) <= Len(n.content)
        BY <1>2, <1>3, <1>8
      <3> QED BY <1>6, <3>1, <3>2, <3>3
    <2>2. CASE j # m + 1
      <3>1. j \in 1 .. m /\ n.chunks[j] = r.chunks[j] /\ At(n, j) = At(r, j)
        BY <1>7, <1>11, <2>2
      <3> DEFINE y == r.chunks[j]
                 a == y.offset
                 l == y.length
      <3>2. y \in Received
        BY <1>3, <3>1
      <3>3. a \in Nat /\ l \in Nat
        BY <3>2 DEF Received
      <3>4. At(r, j) \in 1 .. Number(id) /\ a + l <= Len(r.content) /\ SubSeq(r.content, a + 1, a + l) = Data(id, At(r, j))
        BY <3>1 DEF Collected
      <3> HIDE DEF a, l
      <3>5. SubSeq(r.content \o c.data, a + 1, a + l) = SubSeq(r.content, a + 1, a + l)
        BY <1>2, <1>3, <3>3, <3>4, SubSeqOfPrefix
      <3>6. a + l <= Len(n.content)
        BY <1>2, <1>3, <1>8, <3>3, <3>4
      <3> QED BY <1>5, <3>1, <3>4, <3>5, <3>6 DEF a, l
    <2> QED BY <2>1, <2>2
  <1>13. ASSUME NEW i \in 1 .. m + 1, NEW j \in 1 .. m + 1, At(n, i) = At(n, j) PROVE i = j
    <2>1. \A h \in 1 .. m + 1 : h # m + 1 => h \in 1 .. m
      BY <1>7
    <2>2. \A h, l \in 1 .. m : At(r, h) = At(r, l) => h = l
      BY DEF Collected
    <2> QED BY <1>11, <1>13, <2>1, <2>2
  <1>14. Collected(id, n)
    BY <1>7, <1>9, <1>10, <1>12, <1>13 DEF Collected
  <1> QED BY <1>7, <1>11, <1>14 DEF n


----------------------------------------------------------------------------
(* The inductive invariant.                                                *)

\* A chunk that is still to be read: its message is waited for, and has not
\* got it yet.
Awaited(c) ==
  /\ c.messageID \in store
  /\ \A j \in 1 .. Len(item[c.messageID].chunks) :
       At(item[c.messageID], j) # Position(c.chunkX)

\* The buffer and the wire hold whole chunks, each once and none of them unsent.
InFlight(q) ==
  /\ buffer \o wire = Stream(q)
  /\ \A k \in 1 .. Len(q) : Awaited(q[k]) /\ q[k] \notin unsent
  /\ \A k, l \in 1 .. Len(q) : q[k] = q[l] => k = l

FramingTypeOK ==
  /\ requested \subseteq Messages /\ store \subseteq requested
  /\ unsent \subseteq AllChunks
  /\ buffer \in Seq(Bytes) /\ wire \in Seq(Bytes)
  /\ DOMAIN item = Messages /\ DOMAIN response = Messages

FramingInv ==
  /\ FramingTypeOK
  /\ \A id \in Messages : Collected(id, item[id])
  /\ \A id \in Messages : id \notin requested => item[id] = NewItem
  /\ loop = "stopped" => store = {}
  /\ \A c \in unsent : Awaited(c)
  /\ \E q \in Seq(AllChunks) : InFlight(q)
  /\ ResponseIntact

\* With nothing waited for, nothing is under way.
LEMMA Quiet ==
  ASSUME FramingInv, store = {}
  PROVE  buffer = <<>> /\ wire = <<>> /\ unsent = {}
  <1>1. PICK q \in Seq(AllChunks) : InFlight(q)
    BY DEF FramingInv
  <1>2. \A c : ~ Awaited(c)
    BY DEF Awaited
  <1>3. Len(q) = 0
    <2>1. Len(q) \in Nat /\ ~ (1 \in 1 .. Len(q))
      BY <1>1, <1>2 DEF InFlight
    <2> QED BY <2>1
  <1>4. buffer \o wire = <<>>
    BY <1>1, <1>3, StreamEmpty DEF InFlight
  <1>5. buffer \in Seq(Bytes) /\ wire \in Seq(Bytes)
    BY DEF FramingInv, FramingTypeOK
  <1>6. buffer = <<>> /\ wire = <<>>
    BY <1>4, <1>5, ConcatEqualIffEmpty
  <1> QED BY <1>2, <1>6 DEF FramingInv

\* The bytes of a non-empty buffer begin with those of the first chunk in flight.
LEMMA FirstInFlight ==
  ASSUME NEW q \in Seq(AllChunks), InFlight(q), FramingTypeOK, Len(buffer) > 0
  PROVE  /\ q # <<>> /\ q[1] \in AllChunks /\ Len(q) \in Nat /\ Len(q) > 0
         /\ buffer[1] = WriteChunk(q[1])[1]
         /\ buffer \o wire = WriteChunk(q[1]) \o Stream(Tail(q))
         /\ Tail(q) \in Seq(AllChunks) /\ Stream(Tail(q)) \in Seq(Bytes)
         /\ WriteChunk(q[1]) \in Seq(Bytes) /\ Len(WriteChunk(q[1])) > 16
  <1>1. buffer \in Seq(Bytes) /\ wire \in Seq(Bytes) /\ Len(buffer) \in Nat
    BY DEF FramingTypeOK
  <1>2. Len(buffer \o wire) > 0 /\ (buffer \o wire)[1] = buffer[1]
    BY <1>1, ConcatProperties
  <1>3. Len(q) # 0
    <2>1. Len(q) = 0 => buffer \o wire = <<>>
      BY StreamEmpty DEF InFlight
    <2> QED BY <1>2, <2>1
  <1>4. q # <<>> /\ Len(q) \in Nat /\ Len(q) > 0
    BY <1>3
  <1>5. q[1] \in AllChunks
    BY <1>4
  <1>6. Tail(q) \in Seq(AllChunks)
    BY <1>4, HeadTailProperties
  <1>7. Stream(Tail(q)) \in Seq(Bytes)
    BY <1>6, StreamType
  <1>8. buffer \o wire = WriteChunk(q[1]) \o Stream(Tail(q))
    BY <1>4, StreamTail DEF InFlight
  <1>9. WriteChunk(q[1]) \in Seq(Bytes) /\ Len(WriteChunk(q[1])) > 16
    <2> DEFINE c == q[1]
    <2>1. c \in AllChunks
      BY <1>5
    <2> HIDE DEF c
    <2>2. /\ c.messageID \in Messages /\ Position(c.chunkX) \in 1 .. Number(c.messageID)
          /\ c = BuildChunks(c.messageID)[Position(c.chunkX)]
      BY <2>1, ChunkOfMessage
    <2>3. WriteChunk(c) \in Seq(Bytes) /\ Len(WriteChunk(c)) = ChunkLength(c) /\ ChunkLength(c) > 16
      BY <2>2, WriteChunkFacts
    <2> QED BY <2>3 DEF c
  <1> DEFINE w == WriteChunk(q[1])
             s == Stream(Tail(q))
  <1>10. w \in Seq(Bytes) /\ s \in Seq(Bytes) /\ Len(w) > 16
    BY <1>7, <1>9
  <1> HIDE DEF w, s
  <1>11. (w \o s)[1] = w[1]
    BY <1>10, ConcatProperties
  <1>12. buffer[1] = w[1]
    BY <1>2, <1>8, <1>11 DEF w, s
  <1> QED BY <1>4, <1>5, <1>6, <1>7, <1>8, <1>9, <1>12 DEF w

LEMMA FramingInit == Init => FramingInv
  <1> SUFFICES ASSUME Init PROVE FramingInv
    OBVIOUS
  <1>1. FramingTypeOK
    <2>1. <<>> \in Seq(Bytes)
      OBVIOUS
    <2> HIDE DEF Bytes, AllChunks, Messages
    <2> QED BY <2>1 DEF Init, FramingTypeOK
  <1>2. ASSUME NEW id \in Messages PROVE Collected(id, NewItem)
    <2>1. NewItem.chunks = <<>> /\ NewItem.number = 0 /\ NewItem.content = <<>>
      BY DEF NewItem
    <2>2. NewItem \in Items
      BY DEF Items, NewItem
    <2>3. Len(NewItem.chunks) = 0
      BY <2>1
    <2> QED BY <2>1, <2>2, <2>3 DEF Collected
  <1>3. \E q \in Seq(AllChunks) : InFlight(q)
    <2>1. <<>> \in Seq(AllChunks) /\ Len(<<>>) = 0
      BY EmptySeq
    <2>2. Stream(<<>>) = <<>>
      BY <2>1, StreamEmpty
    <2>3. buffer \o wire = <<>>
      BY DEF Init
    <2>4. InFlight(<<>>)
      BY <2>1, <2>2, <2>3 DEF InFlight
    <2> QED BY <2>1, <2>4
  <1>4. \A id \in Messages : item[id] = NewItem /\ response[id] = <<>>
    BY DEF Init
  <1>5. (loop = "stopped" => store = {}) /\ unsent = {}
    BY DEF Init
  <1>6. ResponseIntact
    BY <1>4 DEF ResponseIntact
  <1> QED BY <1>1, <1>2, <1>3, <1>4, <1>5, <1>6 DEF FramingInv

\* The version does not change, and with it how chunks are written.
LEMMA StreamUnchanged ==
  ASSUME vstVersion' = vstVersion, NEW q
  PROVE  Stream(q)' = Stream(q)
  <1>1. \A x : HeaderLength(x)' = HeaderLength(x)
    BY DEF HeaderLength
  <1> QED BY <1>1 DEF Stream, WriteChunk, ChunkLength, HeaderLength

\* A chunk that is waited for stays so while its message and its item do.
LEMMA AwaitedKept ==
  ASSUME NEW c, Awaited(c), c.messageID \in store', item'[c.messageID] = item[c.messageID]
  PROVE  Awaited(c)'
  BY DEF Awaited

LEMMA FramingRequest ==
  ASSUME FramingInv, NEW id \in Messages, Request(id)
  PROVE  FramingInv'
  <1>0. /\ id \notin requested /\ requested' = requested \cup {id} /\ store' = store \cup {id}
        /\ unsent' = unsent \cup Chunks(id)
        /\ vstVersion' = vstVersion /\ wire' = wire /\ item' = item /\ response' = response
    BY DEF Request, Chunks
  <1>1. buffer' = buffer /\ loop' # "stopped"
    <2>1. CASE loop = "stopped"
      <3>1. buffer = <<>>
        BY <2>1, Quiet DEF FramingInv
      <3> QED BY <2>1, <3>1 DEF Request
    <2>2. CASE loop # "stopped"
      BY <2>2 DEF Request
    <2> QED BY <2>1, <2>2
  <1>2. FramingTypeOK'
    <2>1. Chunks(id) \subseteq AllChunks
      BY DEF AllChunks
    <2> QED BY <1>0, <1>1, <2>1 DEF FramingInv, FramingTypeOK
  <1>3. ASSUME NEW c \in Chunks(id) PROVE c.messageID = id
    <2>1. PICK k \in DOMAIN BuildChunks(id) : c = BuildChunks(id)[k]
      BY DEF Chunks
    <2> QED BY <2>1 DEF BuildChunks
  <1>4. \A c : Awaited(c) => Awaited(c)'
    BY <1>0, AwaitedKept DEF Awaited
  <1>5. ASSUME NEW c \in unsent' PROVE Awaited(c)'
    <2>1. CASE c \in unsent
      BY <1>4, <2>1 DEF FramingInv
    <2>2. CASE c \in Chunks(id)
      <3>1. item'[c.messageID].chunks = <<>>
        BY <1>0, <1>3, <2>2 DEF FramingInv, NewItem
      <3>2. Len(item'[c.messageID].chunks) = 0
        BY <3>1
      <3>3. c.messageID \in store'
        BY <1>0, <1>3, <2>2
      <3> QED BY <3>2, <3>3 DEF Awaited
    <2> QED BY <1>0, <2>1, <2>2
  <1>6. \E q \in Seq(AllChunks) : InFlight(q)'
    <2>1. PICK q \in Seq(AllChunks) : InFlight(q)
      BY DEF FramingInv
    <2>2. ASSUME NEW k \in 1 .. Len(q) PROVE Awaited(q[k])' /\ q[k] \notin unsent'
      <3>1. Awaited(q[k]) /\ q[k] \notin unsent
        BY <2>1 DEF InFlight
      <3>2. q[k].messageID # id
        BY <1>0, <3>1 DEF Awaited, FramingInv, FramingTypeOK
      <3> QED BY <1>0, <1>3, <1>4, <3>1, <3>2
    <2>3. (buffer \o wire)' = Stream(q)'
      BY <1>0, <1>1, <2>1, StreamUnchanged DEF InFlight
    <2>4. InFlight(q)'
      BY <2>1, <2>2, <2>3 DEF InFlight
    <2> QED BY <2>4
  <1>7. ResponseIntact'
    BY <1>0 DEF FramingInv, ResponseIntact
  <1> QED BY <1>0, <1>1, <1>2, <1>5, <1>6, <1>7 DEF FramingInv

LEMMA FramingSend ==
  ASSUME FramingInv, NEW c \in unsent, SendChunk(c)
  PROVE  FramingInv'
  <1>0. /\ unsent' = unsent \ {c} /\ wire' = wire \o WriteChunk(c)
        /\ vstVersion' = vstVersion /\ requested' = requested /\ loop' = loop /\ buffer' = buffer
        /\ store' = store /\ item' = item /\ response' = response
    BY DEF SendChunk
  <1>1. c \in AllChunks /\ buffer \in Seq(Bytes) /\ wire \in Seq(Bytes) /\ WriteChunk(c) \in Seq(Bytes)
    BY WriteChunkType DEF FramingInv, FramingTypeOK
  <1>2. FramingTypeOK'
    <2>1. wire' \in Seq(Bytes)
      BY <1>0, <1>1, ConcatProperties
    <2> QED BY <1>0, <2>1 DEF FramingInv, FramingTypeOK
  <1>3. \A x : Awaited(x) => Awaited(x)'
    BY <1>0 DEF Awaited
  <1>4. PICK q \in Seq(AllChunks) : InFlight(q)
    BY DEF FramingInv
  <1> DEFINE p == Append(q, c)
  <1>5. /\ p \in Seq(AllChunks) /\ Len(p) = Len(q) + 1 /\ p[Len(q) + 1] = c /\ Len(q) \in Nat
        /\ \A i \in 1 .. Len(q) : p[i] = q[i]
    BY <1>1, AppendProperties
  <1>6. Stream(p)' = Stream(q) \o WriteChunk(c)
    BY <1>0, <1>1, StreamAppend, StreamUnchanged
  <1> HIDE DEF p
  <1>7. (buffer \o wire)' = Stream(p)'
    <2> DEFINE w == WriteChunk(c)
    <2>1. w \in Seq(Bytes)
      BY <1>1
    <2> HIDE DEF w
    <2>2. buffer \in Seq(Bytes) /\ wire \in Seq(Bytes)
      BY <1>1
    <2>3. buffer \o (wire \o w) = (buffer \o wire) \o w
      <3>1. Cat(buffer, Cat(wire, w)) = Cat(Cat(buffer, wire), w)
        BY ONLY <2>1, <2>2, CatAssociative
      <3> QED BY ONLY <3>1 DEF Cat
    <2> QED BY <1>0, <1>4, <1>6, <2>3 DEF w, InFlight
  <1>8. ASSUME NEW k \in 1 .. Len(p) PROVE Awaited(p[k])' /\ p[k] \notin unsent'
    <2>1. CASE k = Len(q) + 1
      <3>1. Awaited(c)
        BY DEF FramingInv
      <3> QED BY <1>0, <1>3, <1>5, <2>1, <3>1
    <2>2. CASE k # Len(q) + 1
      <3>1. k \in 1 .. Len(q)
        BY <1>5, <2>2
      <3> QED BY <1>0, <1>3, <1>4, <1>5, <3>1 DEF InFlight
    <2> QED BY <2>1, <2>2
  <1>9. ASSUME NEW k \in 1 .. Len(p), NEW l \in 1 .. Len(p), p[k] = p[l] PROVE k = l
    <2>1. \A i \in 1 .. Len(p) : i # Len(q) + 1 => i \in 1 .. Len(q)
      BY <1>5
    <2>2. \A i \in 1 .. Len(q) : p[i] # c
      BY <1>4, <1>5 DEF InFlight
    <2>3. \A i, j \in 1 .. Len(q) : p[i] = p[j] => i = j
      BY <1>4, <1>5 DEF InFlight
    <2> QED BY <1>5, <1>9, <2>1, <2>2, <2>3
  <1>10. InFlight(p)'
    BY <1>7, <1>8, <1>9 DEF InFlight
  <1>11. \A x \in unsent' : Awaited(x)'
    BY <1>0, <1>3 DEF FramingInv
  <1>12. ResponseIntact'
    BY <1>0 DEF FramingInv, ResponseIntact
  <1>13. \E x \in Seq(AllChunks) : InFlight(x)'
    BY <1>5, <1>10
  <1> QED BY <1>0, <1>2, <1>11, <1>12, <1>13 DEF FramingInv

\* Nothing but the place of the bytes, and the state of the loop, changes.
LEMMA FramingMove ==
  ASSUME FramingInv, UNCHANGED <<vstVersion, requested, unsent, store, item, response>>,
         buffer' \in Seq(Bytes), wire' \in Seq(Bytes), buffer' \o wire' = buffer \o wire,
         loop' = "stopped" => store = {}
  PROVE  FramingInv'
  <1>1. FramingTypeOK'
    BY DEF FramingInv, FramingTypeOK
  <1>2. \A x : Awaited(x)' <=> Awaited(x)
    BY DEF Awaited
  <1>3. PICK q \in Seq(AllChunks) : InFlight(q)
    BY DEF FramingInv
  <1>4. (buffer \o wire)' = Stream(q)'
    BY <1>3, StreamUnchanged DEF InFlight
  <1>5. InFlight(q)'
    BY <1>2, <1>3, <1>4 DEF InFlight
  <1>6. \E x \in Seq(AllChunks) : InFlight(x)'
    BY <1>5
  <1>7. ResponseIntact'
    BY DEF FramingInv, ResponseIntact
  <1>8. \A x \in unsent' : Awaited(x)'
    BY <1>2 DEF FramingInv
  <1> QED BY <1>1, <1>6, <1>7, <1>8 DEF FramingInv

LEMMA FramingAsyncRead ==
  ASSUME FramingInv, AsyncRead
  PROVE  FramingInv'
  <1>1. PICK n \in 1 .. Len(wire) :
          buffer' = buffer \o SubSeq(wire, 1, n) /\ wire' = SubSeq(wire, n + 1, Len(wire))
    BY DEF AsyncRead
  <1> DEFINE a == SubSeq(wire, 1, n)
             b == SubSeq(wire, n + 1, Len(wire))
  <1>2. buffer \in Seq(Bytes) /\ wire \in Seq(Bytes) /\ Len(wire) \in Nat /\ \A i \in 1 .. Len(wire) : wire[i] \in Bytes
    BY DEF FramingInv, FramingTypeOK
  <1>3. a \in Seq(Bytes)
    <2>1. \A i \in 1 .. n : wire[i] \in Bytes
      BY <1>2
    <2> QED BY <1>2, <2>1, SubSeqProperties
  <1>4. b \in Seq(Bytes)
    <2>1. \A i \in n + 1 .. Len(wire) : wire[i] \in Bytes
      BY <1>2
    <2>2. n + 1 \in Int /\ Len(wire) \in Int
      BY <1>2
    <2> QED BY <2>1, <2>2, SubSeqProperties
  <1>5. a \o b = wire
    <2>1. 1 \in 1 .. Len(wire) + 1 /\ n \in 1 - 1 .. Len(wire) /\ Len(wire) \in n .. Len(wire)
      BY <1>2
    <2>2. a \o b = SubSeq(wire, 1, Len(wire))
      BY <1>2, <2>1, ConcatAdjacentSubSeq
    <2> QED BY <1>2, <2>2, SubSeqFull
  <1>6. buffer' = buffer \o a /\ wire' = b
    BY <1>1
  <1> HIDE DEF a, b
  <1>7. (buffer \o a) \o b = buffer \o (a \o b)
    <2>1. Cat(Cat(buffer, a), b) = Cat(buffer, Cat(a, b))
      BY ONLY <1>2, <1>3, <1>4, CatAssociative
    <2> QED BY ONLY <2>1 DEF Cat
  <1>8. buffer' \o wire' = buffer \o wire
    BY <1>5, <1>6, <1>7
  <1>9. buffer' \in Seq(Bytes) /\ wire' \in Seq(Bytes)
    BY <1>2, <1>3, <1>4, <1>6, ConcatProperties
  <1>10. UNCHANGED <<vstVersion, requested, unsent, store, item, response>> /\ loop' # "stopped"
    BY DEF AsyncRead
  <1> QED BY <1>8, <1>9, <1>10, FramingMove

LEMMA FramingReadOn ==
  ASSUME FramingInv, ReadNextBytes
  PROVE  FramingInv'
  <1>1. /\ UNCHANGED <<vstVersion, requested, unsent, store, item, response>>
        /\ buffer' = buffer /\ wire' = wire /\ (loop' = "stopped" => store = {})
    BY DEF ReadNextBytes
  <1>2. buffer \in Seq(Bytes) /\ wire \in Seq(Bytes)
    BY DEF FramingInv, FramingTypeOK
  <1> QED BY <1>1, <1>2, FramingMove


\* What the read loop takes from a buffer that holds a complete chunk is the
\* first chunk in flight.
LEMMA ReadChunkFacts ==
  ASSUME FramingInv, isChunkComplete(buffer), NEW q \in Seq(AllChunks), InFlight(q)
  PROVE  LET c == q[1]
             r == ReadChunk(buffer) IN
         /\ c \in AllChunks /\ Len(q) \in Nat /\ Len(q) > 0 /\ q # <<>>
         /\ r.messageID = c.messageID /\ r.chunkX = c.chunkX
         /\ r.data = Data(c.messageID, Position(c.chunkX))
         /\ SubSeq(buffer, r.chunkLength + 1, Len(buffer)) \in Seq(Bytes)
         /\ SubSeq(buffer, r.chunkLength + 1, Len(buffer)) \o wire = Stream(Tail(q))
  <1> DEFINE c == q[1]
             r == ReadChunk(buffer)
             w == WriteChunk(c)
             s == Stream(Tail(q))
             id == c.messageID
             k == Position(c.chunkX)
  <1>1. buffer \in Seq(Bytes) /\ wire \in Seq(Bytes) /\ Len(buffer) \in Nat /\ Len(buffer) >= 4
    BY DEF FramingInv, FramingTypeOK, isChunkComplete, sizeofLength
  <1>2. /\ q # <<>> /\ c \in AllChunks /\ Len(q) \in Nat /\ Len(q) > 0
        /\ buffer[1] = w[1] /\ buffer \o wire = w \o s /\ w \in Seq(Bytes) /\ s \in Seq(Bytes)
    <2>1. Len(buffer) > 0 /\ FramingTypeOK
      BY <1>1 DEF FramingInv
    <2> QED BY <2>1, FirstInFlight
  <1> HIDE DEF c, s
  <1>3. id \in Messages /\ k \in 1 .. Number(id) /\ c = BuildChunks(id)[k]
    BY <1>2, ChunkOfMessage
  <1>4. /\ ChunkLength(c) \in Nat /\ ChunkLength(c) > 16 /\ Len(w) = ChunkLength(c)
        /\ w[1] = Byte(id, "chunkLength", ChunkLength(c))
        /\ w[5].v = c.chunkX /\ w[9].v = id
        /\ SubSeq(w, HeaderLength(c.chunkX) + 1, ChunkLength(c)) = Data(id, k)
    <2>1. 1 \in 1 .. 4
      OBVIOUS
    <2> HIDE DEF id, k
    <2> QED BY <1>3, <2>1, WriteChunkFacts
  <1>5. buffer[1].v = ChunkLength(c)
    BY <1>2, <1>4 DEF Byte
  <1>6. Len(w) <= Len(buffer)
    BY <1>4, <1>5 DEF isChunkComplete
  <1> HIDE DEF w
  <1>7. /\ \A i \in 1 .. Len(w) : buffer[i] = w[i]
        /\ SubSeq(buffer, Len(w) + 1, Len(buffer)) \in Seq(Bytes)
        /\ SubSeq(buffer, Len(w) + 1, Len(buffer)) \o wire = s
    <2>1. /\ buffer \in Seq(Bytes) /\ wire \in Seq(Bytes) /\ w \in Seq(Bytes) /\ s \in Seq(Bytes)
          /\ buffer \o wire = w \o s /\ Len(w) <= Len(buffer)
      BY <1>1, <1>2, <1>6 DEF w
    <2> QED BY ONLY <2>1, SplitStream
  <1>8. buffer[5] = w[5] /\ buffer[9] = w[9]
    <2>1. 5 \in 1 .. Len(w) /\ 9 \in 1 .. Len(w)
      BY <1>4
    <2> QED BY <1>7, <2>1
  <1>9. c.chunkX \in Nat
    <2> HIDE DEF id, k
    <2> QED BY <1>3, ChunkFacts
  <1>10. r.chunkLength = Len(w) /\ r.chunkX = c.chunkX /\ r.messageID = id
         /\ r.data = SubSeq(buffer, HeaderLength(c.chunkX) + 1, Len(w))
    BY <1>4, <1>5, <1>8, <1>9, HeaderLengthsAgree DEF ReadChunk
  <1>11. SubSeq(buffer, HeaderLength(c.chunkX) + 1, Len(w)) = SubSeq(w, HeaderLength(c.chunkX) + 1, Len(w))
    <2> DEFINE h == HeaderLength(c.chunkX)
               n == Len(w)
               x == SubSeq(buffer, h + 1, n)
               y == SubSeq(w, h + 1, n)
    <2>1. h \in 16 .. 24 /\ n \in Nat
      BY <1>4, HeaderLengthFacts
    <2> HIDE DEF h, n
    <2>2. h + 1 \in Int /\ n \in Int
      BY <2>1
    <2>3. \A i \in h + 1 .. n : buffer[i] = w[i] /\ w[i] \in Bytes
      <3>1. \A i \in h + 1 .. n : i \in 1 .. Len(w)
        BY <2>1 DEF n
      <3> QED BY <1>2, <1>7, <3>1 DEF w
    <2>4. \A i \in h + 1 .. n : buffer[i] \in Bytes
      BY <2>3
    <2>5. /\ x \in Seq(Bytes) /\ Len(x) = IF h + 1 <= n THEN n - (h + 1) + 1 ELSE 0
          /\ \A i \in 1 .. n - (h + 1) + 1 : x[i] = buffer[h + 1 + i - 1]
      BY <2>2, <2>4, SubSeqProperties
    <2>6. /\ y \in Seq(Bytes) /\ Len(y) = IF h + 1 <= n THEN n - (h + 1) + 1 ELSE 0
          /\ \A i \in 1 .. n - (h + 1) + 1 : y[i] = w[h + 1 + i - 1]
      BY <2>2, <2>3, SubSeqProperties
    <2> HIDE DEF x, y
    <2>7. \A i \in 1 .. Len(x) : x[i] = y[i]
      <3>1. SUFFICES ASSUME NEW i \in 1 .. Len(x) PROVE x[i] = y[i]
        OBVIOUS
      <3>2. i \in 1 .. n - (h + 1) + 1 /\ h + 1 + i - 1 \in h + 1 .. n
        BY <2>1, <2>5
      <3> QED BY <2>3, <2>5, <2>6, <3>2
    <2>8. Len(x) = Len(y)
      BY <2>5, <2>6
    <2>9. x = y
      BY <2>5, <2>6, <2>7, <2>8, SeqEqual
    <2> QED BY <2>9 DEF x, y, h, n
  <1>12. r.data = Data(id, k)
    BY <1>4, <1>10, <1>11
  <1> HIDE DEF r
  <1>13. /\ SubSeq(buffer, r.chunkLength + 1, Len(buffer)) \in Seq(Bytes)
         /\ SubSeq(buffer, r.chunkLength + 1, Len(buffer)) \o wire = s
    BY <1>7, <1>10
  <1> QED BY <1>2, <1>10, <1>12, <1>13 DEF c, r, s

LEMMA FramingProcess ==
  ASSUME FramingInv, ProcessChunk
  PROVE  FramingInv'
  <1>1. PICK q \in Seq(AllChunks) : InFlight(q)
    BY DEF FramingInv
  <1> DEFINE c == q[1]
             r == ReadChunk(buffer)
             id == c.messageID
             k == Position(c.chunkX)
             next == AddChunk(item[id], r)
             rest == SubSeq(buffer, r.chunkLength + 1, Len(buffer))
             p == Tail(q)
  <1>2. /\ c \in AllChunks /\ Len(q) \in Nat /\ Len(q) > 0 /\ q # <<>>
        /\ r.messageID = id /\ r.chunkX = c.chunkX /\ r.data = Data(id, k)
        /\ rest \in Seq(Bytes) /\ rest \o wire = Stream(p)
    BY <1>1, ReadChunkFacts DEF ProcessChunk
  <1>3. id \in Messages /\ k \in 1 .. Number(id) /\ c = BuildChunks(id)[k]
    BY <1>2, ChunkOfMessage
  <1>4. Awaited(c) /\ c \notin unsent
    <2>1. 1 \in 1 .. Len(q)
      BY <1>2
    <2> QED BY <1>1, <2>1 DEF InFlight
  <1>5. id \in store /\ \A j \in 1 .. Len(item[id].chunks) : At(item[id], j) # k
    BY <1>4 DEF Awaited
  <1>6. /\ item' = [item EXCEPT ![id] = next]
        /\ store' = (IF IsAssembled(next) THEN store \ {id} ELSE store)
        /\ response' = (IF IsAssembled(next) THEN [response EXCEPT ![id] = Assemble(next)] ELSE response)
        /\ buffer' = rest
        /\ UNCHANGED <<vstVersion, requested, unsent, wire, loop>>
        /\ loop = "processing"
    BY <1>2, <1>5 DEF ProcessChunk
  <1> HIDE DEF c, r, rest, p
  <1>7. Collected(id, item[id])
    BY <1>3 DEF FramingInv
  <1>8. /\ Collected(id, next)
        /\ Len(next.chunks) = Len(item[id].chunks) + 1
        /\ \A j \in 1 .. Len(item[id].chunks) : At(next, j) = At(item[id], j)
        /\ At(next, Len(item[id].chunks) + 1) = k
    <2> HIDE DEF id, k
    <2>1. r.chunkX = BuildChunks(id)[k].chunkX /\ r.data = Data(id, k)
      BY <1>2, <1>3
    <2> DEFINE o == item[id]
    <2>2. Collected(id, o) /\ \A j \in 1 .. Len(o.chunks) : At(o, j) # k
      BY <1>5, <1>7 DEF id, k
    <2> HIDE DEF o
    <2>3. /\ Collected(id, AddChunk(o, r))
          /\ Len(AddChunk(o, r).chunks) = Len(o.chunks) + 1
          /\ \A j \in 1 .. Len(o.chunks) : At(AddChunk(o, r), j) = At(o, j)
          /\ At(AddChunk(o, r), Len(o.chunks) + 1) = k
      BY <1>3, <2>1, <2>2, AddChunkFacts
    <2> QED BY <2>3 DEF o
  <1> HIDE DEF next, id, k
  <1>9. IsAssembled(next) => Len(next.chunks) >= Number(id) /\ Number(id) # 0
    BY <1>8 DEF IsAssembled, Collected
  <1>10. DOMAIN item = Messages /\ DOMAIN response = Messages
    BY DEF FramingInv, FramingTypeOK
  <1>11. /\ item'[id] = next /\ \A i \in Messages : i # id => item'[i] = item[i]
         /\ DOMAIN item' = Messages /\ DOMAIN response' = Messages
    BY <1>3, <1>6, <1>10
  <1>12. FramingTypeOK'
    BY <1>2, <1>6, <1>11 DEF FramingInv, FramingTypeOK
  <1>13. \A i \in Messages : Collected(i, item'[i])
    BY <1>8, <1>11 DEF FramingInv
  <1>14. \A i \in Messages : i \notin requested' => item'[i] = NewItem
    <2>1. id \in requested
      BY <1>5 DEF FramingInv, FramingTypeOK
    <2> QED BY <1>6, <1>11, <2>1 DEF FramingInv
  <1>15. ASSUME NEW x \in AllChunks, Awaited(x), x # c PROVE Awaited(x)'
    <2>1. /\ x.messageID \in Messages /\ Position(x.chunkX) \in 1 .. Number(x.messageID)
          /\ x = BuildChunks(x.messageID)[Position(x.chunkX)]
      BY ChunkOfMessage
    <2>2. CASE x.messageID # id
      <3>1. x.messageID \in store' /\ item'[x.messageID] = item[x.messageID]
        BY <1>6, <1>11, <1>15, <2>1, <2>2 DEF Awaited
      <3> QED BY <1>15, <3>1, AwaitedKept
    <2>3. CASE x.messageID = id
      <3> DEFINE l == Position(x.chunkX)
                 m == Len(item[id].chunks)
      <3>1. l # k
        BY <1>3, <1>15, <2>1, <2>3
      <3>2. \A j \in 1 .. m : At(item[id], j) # l
        BY <1>15, <2>3 DEF Awaited
      <3>3. m \in Nat
        BY <1>7 DEF Collected, Items
      <3>4. \A j \in 1 .. Len(next.chunks) : At(next, j) # l
        <4>1. \A j \in 1 .. m + 1 : j = m + 1 \/ j \in 1 .. m
          BY <3>3
        <4> HIDE DEF l, m
        <4> QED BY <1>8, <3>1, <3>2, <4>1 DEF m
      <3>5. ~ IsAssembled(next)
        <4>1. SUFFICES ASSUME IsAssembled(next) PROVE FALSE
          OBVIOUS
        <4>2. /\ Len(next.chunks) = Number(id)
              /\ \A i \in 1 .. Number(id) : \E j \in 1 .. Number(id) : At(next, j) = i
          BY <1>3, <1>8, <1>9, <4>1, AllArrived
        <4>3. l \in 1 .. Number(id)
          BY <2>1, <2>3
        <4> HIDE DEF l
        <4> QED BY <3>4, <4>2, <4>3
      <3>6. x.messageID \in store'
        BY <1>5, <1>6, <2>3, <3>5
      <3> QED BY <1>11, <2>3, <3>4, <3>6 DEF Awaited
    <2> QED BY <2>2, <2>3
  <1>16. \A x \in unsent' : Awaited(x)'
    <2>1. unsent \subseteq AllChunks /\ \A x \in unsent : Awaited(x)
      BY DEF FramingInv, FramingTypeOK
    <2> QED BY <1>4, <1>6, <1>15, <2>1
  <1>17. \E x \in Seq(AllChunks) : InFlight(x)'
    <2>1. /\ p \in Seq(AllChunks) /\ Len(p) = Len(q) - 1
          /\ \A i \in 1 .. Len(p) : p[i] = q[i + 1]
      BY <1>2, HeadTailProperties DEF p
    <2>2. \A i \in 1 .. Len(p) : i + 1 \in 1 .. Len(q) /\ i + 1 # 1
      BY <1>2, <2>1
    <2>3. 1 \in 1 .. Len(q) /\ q[1] = c
      BY <1>2 DEF c
    <2>4. ASSUME NEW i \in 1 .. Len(p) PROVE Awaited(p[i])' /\ p[i] \notin unsent'
      <3>1. p[i] = q[i + 1] /\ q[i + 1] \in AllChunks /\ Awaited(q[i + 1]) /\ q[i + 1] \notin unsent
        BY <1>1, <2>1, <2>2 DEF InFlight
      <3>2. q[i + 1] # c
        BY <1>1, <2>2, <2>3 DEF InFlight
      <3> QED BY <1>6, <1>15, <3>1, <3>2
    <2>5. ASSUME NEW i \in 1 .. Len(p), NEW j \in 1 .. Len(p), p[i] = p[j] PROVE i = j
      <3>1. i + 1 = j + 1
        BY <1>1, <2>1, <2>2, <2>5 DEF InFlight
      <3>2. i \in Int /\ j \in Int
        OBVIOUS
      <3> QED BY <3>1, <3>2
    <2>6. (buffer \o wire)' = Stream(p)'
      BY <1>2, <1>6, StreamUnchanged
    <2>7. InFlight(p)'
      BY <2>4, <2>5, <2>6 DEF InFlight
    <2> QED BY <2>1, <2>7
  <1>18. ResponseIntact'
    <2>1. ASSUME NEW i \in Messages, response'[i] # <<>> PROVE response'[i] = Message(i)
      <3>1. CASE IsAssembled(next) /\ i = id
        <4>1. response'[i] = Assemble(next)
          BY <1>6, <1>10, <3>1
        <4>2. Assemble(next) = Message(id)
          BY <1>3, <1>8, <1>9, <3>1, AssembleFacts
        <4> QED BY <3>1, <4>1, <4>2
      <3>2. CASE ~ (IsAssembled(next) /\ i = id)
        <4>1. response'[i] = response[i]
          BY <1>6, <1>10, <3>2
        <4> QED BY <2>1, <4>1 DEF FramingInv, ResponseIntact
      <3> QED BY <3>1, <3>2
    <2> QED BY <2>1 DEF ResponseIntact
  <1>19. loop' # "stopped"
    BY <1>6
  <1> QED BY <1>12, <1>13, <1>14, <1>16, <1>17, <1>18, <1>19 DEF FramingInv

LEMMA FramingStep == FramingInv /\ [Next]_vars => FramingInv'
  <1> SUFFICES ASSUME FramingInv, [Next]_vars PROVE FramingInv'
    OBVIOUS
  <1>1. CASE \E id \in Messages : Request(id)
    BY <1>1, FramingRequest
  <1>2. CASE Server
    BY <1>2, FramingSend DEF Server
  <1>3. CASE ReadLoop
    BY <1>3, FramingAsyncRead, FramingProcess, FramingReadOn DEF ReadLoop
  <1>4. CASE UNCHANGED vars
    <2>1. /\ UNCHANGED <<vstVersion, requested, unsent, store, item, response>>
          /\ buffer' = buffer /\ wire' = wire /\ loop' = loop
      BY <1>4 DEF vars
    <2>2. buffer \in Seq(Bytes) /\ wire \in Seq(Bytes) /\ (loop = "stopped" => store = {})
      BY DEF FramingInv, FramingTypeOK
    <2> QED BY <2>1, <2>2, FramingMove
  <1> QED BY <1>1, <1>2, <1>3, <1>4 DEF Next

LEMMA FramingInvariant == Spec => []FramingInv
  BY FramingInit, FramingStep, PTL DEF Spec

\* RequestItem::assemble: in whatever portions the bytes arrive (readNextBytes),
\* in whatever order the chunks and however the responses are interleaved, what
\* a callback gets is the message that was sent, byte for byte, for messages of
\* every size, every split into slices and every maximal chunk size.
THEOREM ResponsesIntact == Spec => []ResponseIntact
  <1>1. FramingInv => ResponseIntact
    BY DEF FramingInv
  <1> QED BY <1>1, FramingInvariant, PTL

\* asyncReadCallback: what is left in the receive buffer after the complete
\* chunks were taken starts with a chunk header.
THEOREM KeepsItsPlace == Spec => []StartsWithHeader
  <1>1. FramingInv => StartsWithHeader
    <2> SUFFICES ASSUME FramingInv, buffer # <<>> PROVE buffer[1].field = "chunkLength"
      BY DEF StartsWithHeader
    <2>1. PICK q \in Seq(AllChunks) : InFlight(q)
      BY DEF FramingInv
    <2>2. Len(buffer) > 0
      BY DEF FramingInv, FramingTypeOK
    <2> DEFINE c == q[1]
    <2>3. c \in AllChunks /\ buffer[1] = WriteChunk(c)[1]
      BY <2>1, <2>2, FirstInFlight DEF FramingInv
    <2> HIDE DEF c
    <2>4. /\ c.messageID \in Messages /\ Position(c.chunkX) \in 1 .. Number(c.messageID)
          /\ c = BuildChunks(c.messageID)[Position(c.chunkX)]
      BY <2>3, ChunkOfMessage
    <2>5. 1 \in 1 .. 4
      OBVIOUS
    <2>6. WriteChunk(c)[1] = Byte(c.messageID, "chunkLength", ChunkLength(c))
      BY <2>4, <2>5, WriteChunkFacts
    <2> QED BY <2>3, <2>6 DEF Byte
  <1> QED BY <1>1, FramingInvariant, PTL

\* A read loop that stops (readNextBytes finds the store empty) leaves no byte
\* in its buffer, on the wire or with the server.
THEOREM StopLeavesNothing == Spec => []StopsClean
  <1>1. FramingInv => StopsClean
    BY Quiet DEF FramingInv, StopsClean
  <1> QED BY <1>1, FramingInvariant, PTL

\* buildChunks: no chunk exceeds the maximum, whatever the sizes of the slices.
THEOREM ChunksAlwaysFit == Spec => []ChunksFit
  <1>1. FramingInv => ChunksFit
    <2> SUFFICES ASSUME FramingInv, NEW c \in unsent PROVE ChunkLength(c) <= defaultMaxChunkSize
      BY DEF ChunksFit
    <2>1. c \in AllChunks
      BY DEF FramingInv, FramingTypeOK
    <2>2. /\ c.messageID \in Messages /\ Position(c.chunkX) \in 1 .. Number(c.messageID)
          /\ c = BuildChunks(c.messageID)[Position(c.chunkX)]
      BY <2>1, ChunkOfMessage
    <2> QED BY <2>2, WriteChunkFacts
  <1> QED BY <1>1, FramingInvariant, PTL
=============================================================================
