--------------------------- MODULE ChunkingProofs ---------------------------
(***************************************************************************)
(* What chunk_document keeps to, for every markdown, every limit and every *)
(* overlap.                                                                *)
(***************************************************************************)
EXTENDS Chunking, Integers, SequenceTheorems, WellFoundedInduction, TLAPS

-----------------------------------------------------------------------------
(* Induction and recursion over 0..n, stated with sets and functions.      *)

(* A set of numbers has a least one.                                       *)
LEMMA LeastNumber ==
  ASSUME NEW N \in SUBSET Nat, N # {}
  PROVE  \E n \in N : \A m \in N : n <= m
<1>1. PICK n \in N : \A m \in N : <<m, n>> \notin OpToRel(<, Nat)
  BY NatLessThanWellFounded, WFMin
<1>2. \A m \in N : ~(m < n)
  BY <1>1 DEF OpToRel
<1> QED BY <1>2

LEMMA UpTo ==
  ASSUME NEW n \in Nat, NEW T, 0 \in T, \A i \in 1..n : i - 1 \in T => i \in T
  PROVE  0..n \subseteq T
<1> SUFFICES ASSUME (0..n) \ T # {} PROVE FALSE
  OBVIOUS
<1>1. PICK k \in (0..n) \ T : \A m \in (0..n) \ T : k <= m
  <2>1. (0..n) \ T \in SUBSET Nat
    OBVIOUS
  <2> QED BY <2>1, LeastNumber
<1>2. k \in 1..n /\ k - 1 \in 0..n /\ ~(k <= k - 1)
  BY <1>1
<1> QED BY <1>1, <1>2

(* A function over 0..n that is defined from the value before exists.      *)
Follows(f, n, x, g) == f[0] = x /\ \A i \in 1..n : f[i] = g[<<i, f[i - 1]>>]

LEMMA Recursion ==
  ASSUME NEW X, NEW n \in Nat, NEW x \in X, NEW g \in [(1..n) \X X -> X]
  PROVE  \E f \in [0..n -> X] : Follows(f, n, x, g)
<1> DEFINE T == {k \in 0..n : \E f \in [0..k -> X] :
                   f[0] = x /\ \A i \in 1..k : f[i] = g[<<i, f[i - 1]>>]}
<1>1. 0 \in T
  <2> DEFINE f == [i \in 0..0 |-> x]
  <2>1. f \in [0..0 -> X] /\ f[0] = x /\ \A i \in 1..0 : f[i] = g[<<i, f[i - 1]>>]
    OBVIOUS
  <2> HIDE DEF f
  <2> QED BY <2>1
<1>2. ASSUME NEW k \in 1..n, k - 1 \in T
      PROVE  k \in T
  <2>1. PICK f \in [0..k - 1 -> X] :
               f[0] = x /\ \A i \in 1..k - 1 : f[i] = g[<<i, f[i - 1]>>]
    BY <1>2
  <2> DEFINE h == [i \in 0..k |-> IF i = k THEN g[<<k, f[k - 1]>>] ELSE f[i]]
  <2>2. h \in [0..k -> X]
    <3>1. f[k - 1] \in X
      OBVIOUS
    <3>2. g[<<k, f[k - 1]>>] \in X
      BY <3>1
    <3>3. \A i \in 0..k : i # k => f[i] \in X
      OBVIOUS
    <3> QED BY <3>2, <3>3
  <2>3. h[0] = x /\ h[k] = g[<<k, f[k - 1]>>] /\ \A i \in 0..k - 1 : h[i] = f[i]
    BY <2>1
  <2> HIDE DEF h
  <2>4. \A i \in 1..k : h[i] = g[<<i, h[i - 1]>>]
    <3> TAKE i \in 1..k
    <3>1. i - 1 \in 0..k - 1 /\ (i # k => i \in 1..k - 1 /\ i \in 0..k - 1)
      OBVIOUS
    <3> QED BY <2>1, <2>3, <3>1
  <2> QED BY <2>2, <2>3, <2>4
<1>3. n \in T
  <2> HIDE DEF T
  <2>1. 0..n \subseteq T
    BY <1>1, <1>2, UpTo
  <2> QED BY <2>1
<1> QED BY <1>3 DEF Follows

-----------------------------------------------------------------------------
(* The recursive functions of the model                                    *)

IsTotal(f, s) ==
  f[0] = 0 /\ \A i \in 1..Len(s) : f[i] = f[i - 1] + s[i]

LEMMA TotalIs ==
  ASSUME NEW s \in Seq(Nat)
  PROVE  \E f \in [0..Len(s) -> Nat] : IsTotal(f, s) /\ Total(s) = f[Len(s)]
<1> DEFINE n == Len(s)
           Eq(f) == f = [i \in 0..n |-> IF i = 0 THEN 0 ELSE f[i - 1] + s[i]]
           g == [p \in (1..n) \X Nat |-> p[2] + s[p[1]]]
           total == CHOOSE f : Eq(f)
<1>1. n \in Nat /\ \A i \in 1..n : s[i] \in Nat
  OBVIOUS
<1>2. Total(s) = total[n]
  BY DEF Total
<1> HIDE DEF n
<1>3. g \in [(1..n) \X Nat -> Nat]
  BY <1>1
<1>4. \A i \in 1..n, x \in Nat : g[<<i, x>>] = x + s[i]
  OBVIOUS
<1> HIDE DEF g
<1>5. PICK f \in [0..n -> Nat] : f[0] = 0 /\ \A i \in 1..n : f[i] = g[<<i, f[i - 1]>>]
  <2>1. 0 \in Nat
    OBVIOUS
  <2>2. \E f \in [0..n -> Nat] : Follows(f, n, 0, g)
    BY <1>1, <1>3, <2>1, Recursion
  <2> QED BY <2>2 DEF Follows
<1>6. \A i \in 1..n : i - 1 \in 0..n /\ i \in 0..n
  BY <1>1
<1>7. \A i \in 1..n : f[i] = f[i - 1] + s[i]
  BY <1>4, <1>5, <1>6
<1>8. f = [i \in 0..n |-> IF i = 0 THEN 0 ELSE f[i - 1] + s[i]]
  <2>1. \A i \in 0..n : f[i] = IF i = 0 THEN 0 ELSE f[i - 1] + s[i]
    BY <1>1, <1>5, <1>7
  <2> QED BY <2>1
<1>9. Eq(total)
  <2>1. Eq(f)
    BY <1>8
  <2> HIDE DEF Eq
  <2> QED BY <2>1
<1>10. total[0] = 0 /\ \A i \in 1..n : total[i] = total[i - 1] + s[i]
  <2> HIDE DEF total
  <2>1. \A i \in 0..n : total[i] = IF i = 0 THEN 0 ELSE total[i - 1] + s[i]
    BY <1>9
  <2> QED BY <1>1, <1>6, <2>1
<1>11. total \in [0..n -> Nat]
  <2> DEFINE T == {i \in 0..n : total[i] = f[i]}
  <2> HIDE DEF total
  <2>1. 0 \in T
    BY <1>1, <1>5, <1>10
  <2>2. ASSUME NEW i \in 1..n, i - 1 \in T PROVE i \in T
    BY <1>6, <1>7, <1>10, <2>2
  <2>3. \A i \in 0..n : total[i] = f[i]
    <3> HIDE DEF T
    <3>1. 0..n \subseteq T
      BY <1>1, <2>1, <2>2, UpTo
    <3> QED BY <3>1 DEF T
  <2> QED BY <1>9, <2>3
<1> HIDE DEF total
<1> QED BY <1>2, <1>10, <1>11 DEF IsTotal, n

LEMMA TotalType ==
  ASSUME NEW s \in Seq(Nat)
  PROVE  Total(s) \in Nat /\ (s = <<>> => Total(s) = 0)
<1>1. PICK f \in [0..Len(s) -> Nat] : IsTotal(f, s) /\ Total(s) = f[Len(s)]
  BY TotalIs
<1>2. Len(s) \in 0..Len(s) /\ (s = <<>> => Len(s) = 0)
  OBVIOUS
<1> QED BY <1>1, <1>2 DEF IsTotal

(* When every length and its separator is at most k times its tokens, so   *)
(* are their sums, up to every place.                                      *)
LEMMA TotalsBounded ==
  ASSUME NEW s \in Seq(Nat), NEW t \in Seq(Nat), NEW k \in Nat, NEW n \in Nat,
         NEW f \in [0..Len(s) -> Nat], IsTotal(f, s),
         NEW g \in [0..Len(t) -> Nat], IsTotal(g, t),
         n <= Len(s), n <= Len(t), \A i \in 1..n : s[i] + 2 <= k * t[i]
  PROVE  f[n] + 2 * n <= k * g[n]
<1> DEFINE T == {i \in 0..n : f[i] + 2 * i <= k * g[i]}
<1>1. 0 \in T
  <2>1. f[0] = 0 /\ g[0] = 0 /\ k * 0 = 0 /\ 0 \in 0..n
    BY DEF IsTotal
  <2> QED BY <2>1
<1>2. ASSUME NEW i \in 1..n, i - 1 \in T PROVE i \in T
  <2>1. /\ i \in Nat /\ i - 1 \in 0..n /\ i \in 0..n
        /\ i \in 1..Len(s) /\ i \in 1..Len(t)
        /\ i - 1 \in 0..Len(s) /\ i - 1 \in 0..Len(t)
    OBVIOUS
  <2>2. f[i] = f[i - 1] + s[i] /\ g[i] = g[i - 1] + t[i]
    BY <2>1 DEF IsTotal
  <2> DEFINE fi == f[i - 1]  gi == g[i - 1]  si == s[i]  ti == t[i]
  <2>3. fi \in Nat /\ gi \in Nat /\ si \in Nat /\ ti \in Nat
    <3>1. fi \in Nat /\ gi \in Nat
      BY <2>1
    <3>2. si \in Nat
      BY <2>1
    <3>3. ti \in Nat
      BY <2>1
    <3> QED BY <3>1, <3>2, <3>3
  <2>4. fi + 2 * (i - 1) <= k * gi /\ si + 2 <= k * ti
    BY <1>2
  <2> HIDE DEF fi, gi, si, ti
  <2>5. k * (gi + ti) = k * gi + k * ti /\ k * gi \in Nat /\ k * ti \in Nat
    BY <2>3
  <2>6. (fi + si) + 2 * i <= k * (gi + ti)
    BY <2>1, <2>3, <2>4, <2>5
  <2>7. f[i] + 2 * i <= k * g[i]
    BY <2>2, <2>6 DEF fi, gi, si, ti
  <2> QED BY <2>1, <2>7
<1>3. 0..n \subseteq T
  <2> HIDE DEF T
  <2> QED BY <1>1, <1>2, UpTo
<1>4. n \in 0..n
  OBVIOUS
<1> QED BY <1>3, <1>4

Kept(f, s) ==
  /\ f[0] = <<>>
  /\ \A i \in 1..Len(s) :
       f[i] = IF s[i] = <<>> THEN f[i - 1] ELSE Append(f[i - 1], s[i])

(* The function of NonBlank is the only one that keeps what it keeps.      *)
LEMMA NonBlankIs ==
  ASSUME NEW S, NEW s \in Seq(S), NEW f, f = [i \in 0..Len(s) |-> f[i]], Kept(f, s)
  PROVE  NonBlank(s) = f[Len(s)]
<1> DEFINE n == Len(s)
           Eq(h) == h = [i \in 0..n |-> IF i = 0 THEN <<>>
                                        ELSE IF s[i] = <<>> THEN h[i - 1]
                                        ELSE Append(h[i - 1], s[i])]
           kept == CHOOSE h : Eq(h)
<1>1. n \in Nat
  OBVIOUS
<1>2. NonBlank(s) = kept[n]
  BY DEF NonBlank
<1>3. /\ f[0] = <<>>
      /\ \A i \in 1..n : f[i] = IF s[i] = <<>> THEN f[i - 1] ELSE Append(f[i - 1], s[i])
      /\ f = [i \in 0..n |-> f[i]]
  BY DEF Kept
<1> HIDE DEF n
<1>4. Eq(kept)
  <2>1. Eq(f)
    <3>1. \A i \in 0..n : i = 0 \/ i \in 1..n
      BY <1>1
    <3>2. \A i \in 0..n : f[i] = IF i = 0 THEN <<>>
                                 ELSE IF s[i] = <<>> THEN f[i - 1]
                                 ELSE Append(f[i - 1], s[i])
      BY <1>3, <3>1
    <3>3. f = [i \in 0..n |-> IF i = 0 THEN <<>>
                              ELSE IF s[i] = <<>> THEN f[i - 1]
                              ELSE Append(f[i - 1], s[i])]
      BY <1>3, <3>2
    <3> QED BY <3>3
  <2> HIDE DEF Eq
  <2> QED BY <2>1
<1>5. /\ kept[0] = <<>>
      /\ \A i \in 1..n : kept[i] = IF s[i] = <<>> THEN kept[i - 1] ELSE Append(kept[i - 1], s[i])
  <2> HIDE DEF kept
  <2>1. \A i \in 0..n : kept[i] = IF i = 0 THEN <<>>
                                  ELSE IF s[i] = <<>> THEN kept[i - 1]
                                  ELSE Append(kept[i - 1], s[i])
    BY <1>4
  <2>2. 0 \in 0..n /\ \A i \in 1..n : i \in 0..n /\ i # 0
    BY <1>1
  <2> QED BY <2>1, <2>2
<1> HIDE DEF kept
<1> DEFINE T == {i \in 0..n : kept[i] = f[i]}
<1>6. 0 \in T
  BY <1>1, <1>3, <1>5
<1>7. ASSUME NEW i \in 1..n, i - 1 \in T PROVE i \in T
  <2>1. i \in 0..n /\ kept[i - 1] = f[i - 1]
    BY <1>1, <1>7
  <2>2. kept[i] = f[i]
    BY <1>3, <1>5, <2>1, Zenon
  <2> QED BY <2>1, <2>2
<1>8. 0..n \subseteq T
  <2> HIDE DEF T
  <2> QED BY <1>1, <1>6, <1>7, UpTo
<1>9. n \in 0..n
  BY <1>1
<1> QED BY <1>2, <1>8, <1>9 DEF n

LEMMA NonBlankDef ==
  ASSUME NEW S, NEW s \in Seq(S)
  PROVE  \E f \in [0..Len(s) -> Seq(S \ {<<>>})] : Kept(f, s) /\ NonBlank(s) = f[Len(s)]
<1> DEFINE n == Len(s)
           X == Seq(S \ {<<>>})
           g == [p \in (1..n) \X X |-> IF s[p[1]] = <<>> THEN p[2] ELSE Append(p[2], s[p[1]])]
<1>1. n \in Nat /\ <<>> \in X /\ \A i \in 1..n : s[i] \in S
  OBVIOUS
<1> HIDE DEF n
<1>2. g \in [(1..n) \X X -> X]
  <2>1. \A p \in (1..n) \X X : p[1] \in 1..n /\ p[2] \in X
    OBVIOUS
  <2>2. \A p \in (1..n) \X X : s[p[1]] # <<>> => Append(p[2], s[p[1]]) \in X
    BY <1>1, <2>1
  <2> QED BY <2>1, <2>2
<1>3. \A i \in 1..n, x \in X : g[<<i, x>>] = IF s[i] = <<>> THEN x ELSE Append(x, s[i])
  OBVIOUS
<1> HIDE DEF g, X
<1>4. PICK f \in [0..n -> X] : Follows(f, n, <<>>, g)
  BY <1>1, <1>2, Recursion
<1>5. Kept(f, s)
  <2>1. \A i \in 1..n : i - 1 \in 0..n
    BY <1>1
  <2>2. \A i \in 1..n : f[i] = IF s[i] = <<>> THEN f[i - 1] ELSE Append(f[i - 1], s[i])
    BY <1>3, <1>4, <2>1 DEF Follows
  <2> QED BY <1>4, <2>2 DEF Follows, Kept, n
<1>6. NonBlank(s) = f[n]
  BY <1>5, NonBlankIs DEF n
<1> QED BY <1>5, <1>6 DEF X, n

LEMMA NonBlankType ==
  ASSUME NEW S, NEW s \in Seq(S)
  PROVE  NonBlank(s) \in Seq(S \ {<<>>}) /\ (s = <<>> => NonBlank(s) = <<>>)
<1>1. PICK f \in [0..Len(s) -> Seq(S \ {<<>>})] : Kept(f, s) /\ NonBlank(s) = f[Len(s)]
  BY NonBlankDef
<1>2. Len(s) \in 0..Len(s) /\ (s = <<>> => Len(s) = 0)
  OBVIOUS
<1> QED BY <1>1, <1>2 DEF Kept

LEMMA NonBlankAppend ==
  ASSUME NEW S, NEW s \in Seq(S), NEW x \in S
  PROVE  NonBlank(Append(s, x)) = IF x = <<>> THEN NonBlank(s) ELSE Append(NonBlank(s), x)
<1>1. PICK f \in [0..Len(s) -> Seq(S \ {<<>>})] : Kept(f, s) /\ NonBlank(s) = f[Len(s)]
  BY NonBlankDef
<1> DEFINE n == Len(s)
           t == Append(s, x)
           y == IF x = <<>> THEN f[n] ELSE Append(f[n], x)
           h == [i \in 0..n + 1 |-> IF i = n + 1 THEN y ELSE f[i]]
<1>2. /\ n \in Nat /\ t \in Seq(S) /\ Len(t) = n + 1 /\ t[n + 1] = x
      /\ \A i \in 1..n : t[i] = s[i]
  OBVIOUS
<1> HIDE DEF n, t, y
<1>3. h[n + 1] = y /\ (\A i \in 0..n : h[i] = f[i]) /\ h = [i \in 0..n + 1 |-> h[i]]
  BY <1>2
<1> HIDE DEF h
<1>4. Kept(h, t)
  <2>1. h[0] = <<>>
    <3>1. 0 \in 0..n
      BY <1>2
    <3> QED BY <1>1, <1>3, <3>1 DEF Kept
  <2>2. ASSUME NEW i \in 1..n + 1
        PROVE  h[i] = IF t[i] = <<>> THEN h[i - 1] ELSE Append(h[i - 1], t[i])
    <3>1. CASE i = n + 1
      <4>1. i - 1 = n /\ n \in 0..n
        BY <1>2, <3>1
      <4> QED BY <1>2, <1>3, <3>1, <4>1 DEF y
    <3>2. CASE i # n + 1
      <4>1. i \in 1..n /\ i \in 0..n /\ i - 1 \in 0..n
        BY <1>2, <3>2
      <4> QED BY <1>1, <1>2, <1>3, <4>1 DEF Kept, n
    <3> QED BY <3>1, <3>2
  <2> QED BY <1>2, <2>1, <2>2 DEF Kept
<1>5. NonBlank(t) = h[n + 1]
  BY <1>2, <1>3, <1>4, NonBlankIs
<1> QED BY <1>1, <1>3, <1>5 DEF t, y, n

Joined(f, s) == f[0] = <<>> /\ \A i \in 1..Len(s) : f[i] = f[i - 1] \o s[i]

LEMMA FlattenIs ==
  ASSUME NEW S, NEW s \in Seq(Seq(S)), NEW f \in [0..Len(s) -> Seq(S)], Joined(f, s)
  PROVE  FlattenSeq(s) = f[Len(s)]
<1> DEFINE n == Len(s)
           Eq(h) == h = [i \in 1..n |-> IF i = 1 THEN s[i] ELSE h[i - 1] \o s[i]]
           flat == CHOOSE h : Eq(h)
           g == [i \in 1..n |-> f[i]]
<1>1. n \in Nat /\ \A i \in 1..n : s[i] \in Seq(S)
  OBVIOUS
<1>2. CASE n = 0
  BY <1>2 DEF FlattenSeq, Joined
<1>3. CASE n # 0
  <2>1. FlattenSeq(s) = flat[n]
    BY <1>3 DEF FlattenSeq
  <2> HIDE DEF n
  <2>2. \A i \in 1..n : f[i] = IF i = 1 THEN s[i] ELSE f[i - 1] \o s[i]
    <3>1. \A i \in 1..n : f[i] = f[i - 1] \o s[i]
      BY DEF Joined, n
    <3>2. n \in Nat \ {0} /\ 1 \in 1..n /\ f[0] = <<>>
      BY <1>1, <1>3 DEF Joined
    <3>3. f[1] = s[1]
      <4>1. f[1] = f[1 - 1] \o s[1] /\ 1 - 1 = 0
        BY <3>1, <3>2
      <4>2. s[1] \in Seq(S)
        BY <1>1, <3>2
      <4>3. <<>> \o s[1] = s[1]
        BY <4>2, ConcatEmptySeq
      <4>4. f[1 - 1] = <<>>
        BY <3>2, <4>1
      <4> QED BY <4>1, <4>3, <4>4
    <3> QED BY <3>1, <3>3
  <2>3. \A i \in 1..n : i # 1 => i - 1 \in 1..n
    BY <1>1
  <2>4. Eq(g)
    <3>1. \A i \in 1..n : g[i] = f[i]
      OBVIOUS
    <3>2. g = [i \in 1..n |-> g[i]]
      OBVIOUS
    <3> HIDE DEF g
    <3>3. \A i \in 1..n : g[i] = IF i = 1 THEN s[i] ELSE g[i - 1] \o s[i]
      BY <2>2, <2>3, <3>1
    <3> QED BY <3>2, <3>3
  <2>5. Eq(flat)
    <3> HIDE DEF Eq, g
    <3> QED BY <2>4
  <2> HIDE DEF flat
  <2>6. \A i \in 1..n : flat[i] = IF i = 1 THEN s[i] ELSE flat[i - 1] \o s[i]
    BY <2>5
  <2> DEFINE T == {i \in 0..n : i = 0 \/ flat[i] = f[i]}
  <2>7. 0 \in T
    BY <1>1
  <2>8. ASSUME NEW i \in 1..n, i - 1 \in T PROVE i \in T
    <3>1. i # 1 => flat[i - 1] = f[i - 1]
      BY <1>1, <2>8
    <3>2. flat[i] = f[i]
      BY <2>2, <2>6, <3>1
    <3> QED BY <1>1, <3>2
  <2>9. 0..n \subseteq T
    <3> HIDE DEF T
    <3> QED BY <1>1, <2>7, <2>8, UpTo
  <2>10. n \in 0..n /\ n # 0
    BY <1>1, <1>3
  <2> QED BY <2>1, <2>9, <2>10 DEF n
<1> QED BY <1>2, <1>3

LEMMA FlattenDef ==
  ASSUME NEW S, NEW s \in Seq(Seq(S))
  PROVE  \E f \in [0..Len(s) -> Seq(S)] : Joined(f, s) /\ FlattenSeq(s) = f[Len(s)]
<1> DEFINE n == Len(s)
           X == Seq(S)
           g == [p \in (1..n) \X X |-> p[2] \o s[p[1]]]
<1>1. n \in Nat /\ <<>> \in X /\ \A i \in 1..n : s[i] \in X
  OBVIOUS
<1> HIDE DEF n
<1>2. g \in [(1..n) \X X -> X]
  <2>1. \A p \in (1..n) \X X : p[1] \in 1..n /\ p[2] \in X
    OBVIOUS
  <2>2. \A p \in (1..n) \X X : p[2] \o s[p[1]] \in X
    BY <1>1, <2>1
  <2> QED BY <2>2
<1>3. \A i \in 1..n, x \in X : g[<<i, x>>] = x \o s[i]
  OBVIOUS
<1> HIDE DEF g, X
<1>4. PICK f \in [0..n -> X] : Follows(f, n, <<>>, g)
  BY <1>1, <1>2, Recursion
<1>5. Joined(f, s)
  <2>1. \A i \in 1..n : i - 1 \in 0..n
    BY <1>1
  <2>2. \A i \in 1..n : f[i] = f[i - 1] \o s[i]
    BY <1>3, <1>4, <2>1 DEF Follows
  <2> QED BY <1>4, <2>2 DEF Follows, Joined, n
<1>6. FlattenSeq(s) = f[n]
  BY <1>5, FlattenIs DEF n, X
<1> QED BY <1>5, <1>6 DEF X, n

LEMMA FlattenType ==
  ASSUME NEW S, NEW s \in Seq(Seq(S))
  PROVE  FlattenSeq(s) \in Seq(S) /\ (s = <<>> => FlattenSeq(s) = <<>>)
<1>1. PICK f \in [0..Len(s) -> Seq(S)] : Joined(f, s) /\ FlattenSeq(s) = f[Len(s)]
  BY FlattenDef
<1>2. Len(s) \in 0..Len(s) /\ (s = <<>> => Len(s) = 0)
  OBVIOUS
<1> QED BY <1>1, <1>2 DEF Joined

LEMMA FlattenAppend ==
  ASSUME NEW S, NEW s \in Seq(Seq(S)), NEW x \in Seq(S)
  PROVE  FlattenSeq(Append(s, x)) = FlattenSeq(s) \o x
<1>1. PICK f \in [0..Len(s) -> Seq(S)] : Joined(f, s) /\ FlattenSeq(s) = f[Len(s)]
  BY FlattenDef
<1> DEFINE n == Len(s)
           t == Append(s, x)
           y == f[n] \o x
           h == [i \in 0..n + 1 |-> IF i = n + 1 THEN y ELSE f[i]]
<1>2. /\ n \in Nat /\ t \in Seq(Seq(S)) /\ Len(t) = n + 1 /\ t[n + 1] = x
      /\ \A i \in 1..n : t[i] = s[i]
  OBVIOUS
<1>3. y \in Seq(S)
  <2>1. f[n] \in Seq(S)
    OBVIOUS
  <2> QED BY <2>1
<1> HIDE DEF n, t, y
<1>4. /\ h[n + 1] = y /\ (\A i \in 0..n : h[i] = f[i])
      /\ h \in [0..n + 1 -> Seq(S)]
  <2>1. \A i \in 0..n + 1 : i # n + 1 => i \in 0..n /\ f[i] \in Seq(S)
    BY <1>2 DEF n
  <2> QED BY <1>2, <1>3, <2>1
<1> HIDE DEF h
<1>5. Joined(h, t)
  <2>1. h[0] = <<>>
    <3>1. 0 \in 0..n
      BY <1>2
    <3> QED BY <1>1, <1>4, <3>1 DEF Joined
  <2>2. ASSUME NEW i \in 1..n + 1
        PROVE  h[i] = h[i - 1] \o t[i]
    <3>1. CASE i = n + 1
      <4>1. i - 1 = n /\ n \in 0..n
        BY <1>2, <3>1
      <4> QED BY <1>2, <1>4, <3>1, <4>1 DEF y
    <3>2. CASE i # n + 1
      <4>1. i \in 1..n /\ i \in 0..n /\ i - 1 \in 0..n
        BY <1>2, <3>2
      <4> QED BY <1>1, <1>2, <1>4, <4>1 DEF Joined, n
    <3> QED BY <3>1, <3>2
  <2> QED BY <1>2, <2>1, <2>2 DEF Joined
<1>6. FlattenSeq(t) = h[n + 1]
  BY <1>2, <1>4, <1>5, FlattenIs
<1> QED BY <1>1, <1>4, <1>6 DEF t, y, n

-----------------------------------------------------------------------------
(* Lengths and tokens                                                      *)

Texts == Seq(Seq(Nat) \ {<<>>})

LEMMA CountTokensType ==
  ASSUME NEW length \in Nat
  PROVE  CountTokens(length) \in Nat
<1>1. length \div CharsPerToken \in Int
  BY ChunkingAssumption
<1> QED BY <1>1 DEF CountTokens

(* Counting rounds down, by less than a token.                             *)
LEMMA CountTokensBounds ==
  ASSUME NEW length \in Nat
  PROVE  length + 2 <= (2 * CharsPerToken + 1) * CountTokens(length)
<1> DEFINE C == CharsPerToken
           q == length \div C
           k == CountTokens(length)
<1>1. C \in Nat \ {0}
  BY ChunkingAssumption
<1>2. q \in Nat /\ length <= C * q + C - 1
  BY <1>1
<1>3. k \in Nat /\ k >= 1 /\ q <= k
  BY <1>2 DEF CountTokens
<1> HIDE DEF C, q, k
<1>4. C * q <= C * k /\ C <= C * k
  BY <1>1, <1>2, <1>3
<1>5. (2 * C + 1) * k = C * k + C * k + k /\ C * k \in Nat /\ C * q \in Nat
  BY <1>1, <1>2, <1>3
<1>6. length + 2 <= C * k + C * k + k
  BY <1>1, <1>2, <1>3, <1>4, <1>5
<1> QED BY <1>5, <1>6 DEF C, k

LEMMA CountTokensMonotone ==
  ASSUME NEW m \in Nat, NEW n \in Nat, m <= n
  PROVE  CountTokens(m) <= CountTokens(n)
<1>1. CharsPerToken \in Nat \ {0}
  BY ChunkingAssumption
<1>2. m \div CharsPerToken <= n \div CharsPerToken
  BY <1>1
<1>3. m \div CharsPerToken \in Nat /\ n \div CharsPerToken \in Nat
  BY <1>1
<1> QED BY <1>2, <1>3 DEF CountTokens

LEMMA JoinType ==
  ASSUME NEW lengths \in Seq(Nat), NEW gap \in {1, 2}
  PROVE  Join(lengths, gap) \in Nat
<1>1. Total(lengths) \in Nat
  BY TotalType
<1>2. lengths # <<>> => Len(lengths) - 1 \in Nat
  OBVIOUS
<1> QED BY <1>1, <1>2 DEF Join

LEMMA ParagraphLengthsType ==
  ASSUME NEW text \in Texts
  PROVE  ParagraphLengths(text) \in Seq(Nat) /\ Len(ParagraphLengths(text)) = Len(text)
<1>1. \A n \in 1..Len(text) : Join(text[n], 1) \in Nat
  <2> SUFFICES ASSUME NEW n \in 1..Len(text) PROVE text[n] \in Seq(Nat)
    BY JoinType
  <2> QED BY DEF Texts
<1>2. DOMAIN text = 1..Len(text) /\ Len(text) \in Nat
  BY DEF Texts
<1>3. ParagraphLengths(text) = [n \in 1..Len(text) |-> Join(text[n], 1)]
  BY <1>2 DEF ParagraphLengths
<1>4. ParagraphLengths(text) \in [1..Len(text) -> Nat]
  BY <1>1, <1>3
<1> QED BY <1>2, <1>4

LEMMA UnitsType ==
  ASSUME NEW text \in Texts
  PROVE  /\ Units(text) \in Seq(Nat)
         /\ text # <<>> => Len(Units(text)) >= 1
<1>1. CASE Len(text) = 1
  <2>1. text[1] \in Seq(Nat) \ {<<>>}
    BY <1>1 DEF Texts
  <2>2. Len(text[1]) >= 1
    BY <2>1
  <2> QED BY <1>1, <2>1, <2>2 DEF Units
<1>2. CASE Len(text) # 1
  <2>1. Len(text) \in Nat /\ (text # <<>> => Len(text) >= 1)
    BY DEF Texts
  <2> QED BY <1>2, <2>1, ParagraphLengthsType DEF Units
<1> QED BY <1>1, <1>2

LEMMA TextTokensType ==
  ASSUME NEW text \in Texts
  PROVE  TextTokens(text) \in Nat
<1>1. Join(ParagraphLengths(text), 2) \in Nat
  BY ParagraphLengthsType, JoinType
<1> QED BY <1>1, CountTokensType DEF TextTokens

LEMMA TokensType ==
  ASSUME NEW text \in Texts, NEW a \in Nat \ {0}, NEW b \in Nat, b <= Len(Units(text))
  PROVE  Tokens(text, a, b) \in Nat /\ (b < a => Tokens(text, a, b) = 0)
<1> DEFINE k == IF b < a THEN 0 ELSE b + 1 - a
           s == [n \in 1..k |-> CountTokens(Units(text)[a + n - 1])]
<1>1. k \in Nat /\ \A n \in 1..k : a + n - 1 \in 1..Len(Units(text))
  BY UnitsType
<1>2. \A n \in 1..k : CountTokens(Units(text)[a + n - 1]) \in Nat
  <2> HIDE DEF k
  <2> SUFFICES ASSUME NEW n \in 1..k PROVE Units(text)[a + n - 1] \in Nat
    BY CountTokensType
  <2> DEFINE u == Units(text)
  <2>1. u \in Seq(Nat) /\ a + n - 1 \in 1..Len(u)
    BY <1>1, UnitsType
  <2> HIDE DEF u
  <2>2. u[a + n - 1] \in Nat
    BY <2>1
  <2> QED BY <2>2 DEF u
<1>3. s \in Seq(Nat) /\ (k = 0 => s = <<>>)
  <2> HIDE DEF k
  <2>1. s \in [1..k -> Nat]
    BY <1>2
  <2> HIDE DEF s
  <2>2. Len(s) = k /\ s \in Seq(Nat)
    BY <1>1, <2>1
  <2> QED BY <2>2
<1>4. Tokens(text, a, b) = Total(s)
  BY DEF Tokens
<1> HIDE DEF s
<1> QED BY <1>3, <1>4, TotalType

(* The joined text of units a..b has at most 2 * CharsPerToken + 1         *)
(* characters for each token that is counted for them one by one, and so   *)
(* have the units before the last.                                         *)
LEMMA JoinBounded ==
  ASSUME NEW text \in Texts, NEW a \in Nat \ {0}, NEW b \in Nat,
         a <= b, b <= Len(Units(text))
  PROVE  LET u == Units(text)
             join == Join(SubSeq(u, a, b), 2)
         IN  /\ join \in Nat /\ u[b] \in Nat
             /\ join + 2 <= MostCharacters(Tokens(text, a, b))
             /\ join <= MostCharacters(Tokens(text, a, b - 1)) + u[b]
<1> DEFINE u == Units(text)
           s == SubSeq(u, a, b)
           m == b + 1 - a
           k == 2 * CharsPerToken + 1
           T(n) == [i \in 1..n |-> CountTokens(u[a + i - 1])]
<1>1. u \in Seq(Nat) /\ Len(u) \in Nat
  BY UnitsType
<1>2. b <= Len(u) /\ k \in Nat
  BY ChunkingAssumption
<1> HIDE DEF u
<1>3. /\ m \in Nat \ {0} /\ s \in Seq(Nat) /\ Len(s) = m /\ s # <<>> /\ u[b] \in Nat
      /\ \A i \in 1..m : s[i] = u[a + i - 1] /\ u[a + i - 1] \in Nat
  <2>1. \A i \in a..b : i \in 1..Len(u) /\ u[i] \in Nat
    BY <1>1, <1>2
  <2>2. Len(s) = m /\ \A i \in 1..m : s[i] = u[a + i - 1]
    BY <1>1
  <2>3. m \in Nat \ {0} /\ \A i \in 1..m : a + i - 1 \in a..b
    OBVIOUS
  <2>4. s \in Seq(Nat)
    BY <1>1, <1>2
  <2>5. b \in a..b
    OBVIOUS
  <2> QED BY <2>1, <2>2, <2>3, <2>4, <2>5
<1>4. ASSUME NEW n \in {m, m - 1}
      PROVE  /\ T(n) \in Seq(Nat) /\ Len(T(n)) = n
             /\ \A i \in 1..n : s[i] + 2 <= k * T(n)[i]
  <2> HIDE DEF m, k, s
  <2>1. n \in Nat /\ \A i \in 1..n : i \in 1..m
    BY <1>3
  <2>2. \A i \in 1..n : CountTokens(u[a + i - 1]) \in Nat
    BY <1>3, <2>1, CountTokensType
  <2>3. T(n) \in [1..n -> Nat]
    BY <2>2
  <2>4. \A i \in 1..n : s[i] + 2 <= k * CountTokens(u[a + i - 1])
    BY <1>3, <2>1, CountTokensBounds DEF k
  <2>5. T(n) \in Seq(Nat) /\ Len(T(n)) = n
    <3> HIDE DEF T
    <3> QED BY <2>1, <2>3
  <2> QED BY <2>4, <2>5
<1>5. Tokens(text, a, b) = Total(T(m)) /\ Tokens(text, a, b - 1) = Total(T(m - 1))
  <2>1. ~(b < a) /\ (b - 1 < a => m - 1 = 0) /\ (b - 1) + 1 - a = m - 1
    OBVIOUS
  <2>2. Tokens(text, a, b) = Total(T(m))
    BY <2>1 DEF Tokens, u
  <2>3. (IF b - 1 < a THEN 0 ELSE (b - 1) + 1 - a) = m - 1
    BY <2>1
  <2>4. Tokens(text, a, b - 1) = Total(T(m - 1))
    BY <2>3 DEF Tokens, u
  <2> QED BY <2>2, <2>4
<1> HIDE DEF s, T
<1>6. PICK f \in [0..m -> Nat] : IsTotal(f, s) /\ Total(s) = f[m]
  BY <1>3, TotalIs
<1>7. PICK g \in [0..m -> Nat] : IsTotal(g, T(m)) /\ Total(T(m)) = g[m]
  BY <1>4, TotalIs
<1>8. PICK h \in [0..m - 1 -> Nat] : IsTotal(h, T(m - 1)) /\ Total(T(m - 1)) = h[m - 1]
  BY <1>4, TotalIs
<1> HIDE DEF m, k
<1>9. f[m] + 2 * m <= k * g[m]
  <2>1. /\ T(m) \in Seq(Nat) /\ Len(T(m)) = m
        /\ \A i \in 1..m : s[i] + 2 <= k * T(m)[i]
    BY <1>4
  <2>2. /\ s \in Seq(Nat) /\ m \in Nat /\ k \in Nat /\ m <= Len(s) /\ m <= Len(T(m))
        /\ f \in [0..Len(s) -> Nat] /\ g \in [0..Len(T(m)) -> Nat]
    <3>1. m \in Nat /\ s \in Seq(Nat) /\ Len(s) = m
      BY <1>3
    <3>2. m <= m
      BY <3>1
    <3>3. f \in [0..m -> Nat] /\ g \in [0..m -> Nat]
      OBVIOUS
    <3> HIDE DEF T
    <3> QED BY <1>2, <2>1, <3>1, <3>2, <3>3, Zenon
  <2> HIDE DEF T
  <2> QED BY <1>6, <1>7, <2>1, <2>2, TotalsBounded, Zenon
<1>10. f[m - 1] + 2 * (m - 1) <= k * h[m - 1]
  <2>1. m - 1 \in Nat /\ m - 1 <= m
    BY <1>3
  <2>2. /\ T(m - 1) \in Seq(Nat) /\ Len(T(m - 1)) = m - 1
        /\ \A i \in 1..m - 1 : s[i] + 2 <= k * T(m - 1)[i]
    BY <1>4
  <2>3. /\ s \in Seq(Nat) /\ k \in Nat /\ m - 1 <= Len(s) /\ m - 1 <= Len(T(m - 1))
        /\ f \in [0..Len(s) -> Nat] /\ h \in [0..Len(T(m - 1)) -> Nat]
    <3>1. s \in Seq(Nat) /\ Len(s) = m
      BY <1>3
    <3>2. m - 1 <= m /\ m - 1 <= m - 1
      BY <1>3
    <3>3. f \in [0..m -> Nat] /\ h \in [0..m - 1 -> Nat]
      OBVIOUS
    <3> HIDE DEF T
    <3> QED BY <1>2, <2>2, <3>1, <3>2, <3>3, Zenon
  <2> QED BY <1>6, <1>8, <2>1, <2>2, <2>3, TotalsBounded, Zenon
<1>11. f[m] = f[m - 1] + u[b] /\ f[m] \in Nat /\ f[m - 1] \in Nat
  <2>1. m \in 1..m /\ m - 1 \in 0..m /\ m \in 0..m /\ a + m - 1 = b
    BY <1>3 DEF m
  <2>2. s[m] = u[b]
    BY <1>3, <2>1
  <2>3. f[m] = f[m - 1] + s[m]
    BY <1>3, <1>6, <2>1 DEF IsTotal
  <2> QED BY <1>6, <2>1, <2>2, <2>3
<1>12. Join(s, 2) = f[m] + 2 * (m - 1) /\ Join(s, 2) \in Nat
  <2>1. s # <<>> /\ Len(s) = m /\ m \in Nat \ {0} /\ f[m] \in Nat
    BY <1>3, <1>11
  <2>2. Join(s, 2) = f[m] + 2 * (m - 1)
    BY <1>6, <2>1 DEF Join
  <2> QED BY <2>1, <2>2
<1>13. k * g[m] = MostCharacters(Tokens(text, a, b))
  BY <1>5, <1>7 DEF MostCharacters, k
<1>14. k * h[m - 1] = MostCharacters(Tokens(text, a, b - 1))
  BY <1>5, <1>8 DEF MostCharacters, k
<1>15. k * g[m] \in Nat /\ k * h[m - 1] \in Nat
  <2>1. g[m] \in Nat /\ h[m - 1] \in Nat
    BY <1>3, <1>7, <1>8
  <2> QED BY <1>2, <2>1
<1>16. m \in Nat /\ u[b] \in Nat
  BY <1>3
<1>17. Join(s, 2) + 2 <= k * g[m]
  BY <1>9, <1>11, <1>12, <1>15, <1>16
<1>18. Join(s, 2) <= k * h[m - 1] + u[b]
  <2> DEFINE x == f[m]  y == f[m - 1]  z == k * h[m - 1]  w == u[b]  j == Join(s, 2)
  <2>1. x = y + w /\ x \in Nat /\ y \in Nat /\ w \in Nat /\ z \in Nat
    BY <1>11, <1>15, <1>16
  <2>2. y + 2 * (m - 1) <= z /\ j = x + 2 * (m - 1)
    BY <1>10, <1>12
  <2> HIDE DEF x, y, z, w, j
  <2>3. j <= z + w
    BY <1>16, <2>1, <2>2
  <2> QED BY <2>3 DEF z, w, j
<1> QED BY <1>3, <1>12, <1>13, <1>14, <1>17, <1>18 DEF s, u

LEMMA OverlapType == OverlapTokens \in Nat
<1>1. MaxTokens * OverlapPercent \in Nat
  BY ChunkingAssumption
<1> QED BY <1>1 DEF OverlapTokens

(* An overlap begins in the chunk or right after it, and has at most       *)
(* OverlapTokens.                                                          *)
LEMMA OverlapStarts ==
  ASSUME NEW text \in Texts, NEW a \in Nat \ {0}, NEW b \in Nat,
         a <= b + 1, b <= Len(Units(text))
  PROVE  /\ OverlapStart(text, a, b) \in a..b + 1
         /\ Tokens(text, OverlapStart(text, a, b), b) <= OverlapTokens
<1> DEFINE N == {k \in a..b + 1 : Tokens(text, k, b) <= OverlapTokens}
<1>1. \A k \in a..b + 1 : Tokens(text, k, b) \in Nat
  BY TokensType
<1>2. b + 1 \in N
  <2>1. Tokens(text, b + 1, b) = 0
    BY TokensType
  <2> QED BY <2>1, OverlapType
<1>3. PICK k \in N : \A m \in N : k <= m
  <2>1. N \in SUBSET Nat
    OBVIOUS
  <2> HIDE DEF N
  <2> QED BY <1>2, <2>1, LeastNumber
<1>4. \A j \in a..k - 1 : Tokens(text, j, b) > OverlapTokens
  <2> TAKE j \in a..k - 1
  <2>1. j \in a..b + 1 /\ ~(k <= j)
    OBVIOUS
  <2>2. ~(Tokens(text, j, b) <= OverlapTokens)
    BY <1>3, <2>1
  <2> QED BY <1>1, <2>1, <2>2, OverlapType
<1> QED BY <1>3, <1>4 DEF OverlapStart

-----------------------------------------------------------------------------
(* The inductive invariant                                                 *)

Section == [chain : Seq(Nat), text : Texts]

ChunkRecord == [section : Nat, from : Nat, to : Nat]

Shape ==
  /\ items \in Seq(Item) /\ Len(items) <= MaxItems
  /\ stack \in Seq(DOMAIN items) /\ level \in {0, 2, 3}
  /\ lines \in Seq(Paragraphs \cup {<<>>})
  /\ sections \in Seq(Section)
  /\ section \in 0..Len(sections) + 1
  /\ chunks \in Seq(ChunkRecord)

(* Where the loop over the units is: current_chunk is from..unit-1, and is *)
(* empty before the first unit only.                                       *)
Position ==
  /\ unit \in Nat \ {0} /\ from \in 1..unit /\ (from < unit \/ unit = 1)
  /\ section = 0 => chunks = <<>> /\ unit = 1
  /\ unit > 1 => Splitting /\ TooLong(ThisText) /\ unit <= Len(Units(ThisText)) + 1

(* A chunk c of a section with this text.                                  *)
Within(c, text) == text # <<>> => 1 <= c.from /\ c.from <= c.to /\ c.to <= Len(Units(text))

Ranges ==
  \A n \in DOMAIN chunks :
    /\ chunks[n].section \in DOMAIN sections
    /\ Within(chunks[n], sections[chunks[n].section].text)

(* Before the first section there are headings, then the lines.            *)
Lead ==
  section = 0 /\ sections = <<>> =>
    /\ Len(lines) <= Len(items)
    /\ \A n \in DOMAIN items : items[n].level # 0 <=> n <= Len(items) - Len(lines)
    /\ level # 0 <=> Len(items) > Len(lines)

TypeInv == Shape /\ Position /\ Ranges /\ Lead

(* The limit, for a chunk and for current_chunk.                           *)
Fits(text, a, b) == Tokens(text, a, b) <= MaxTokens \/ Tokens(text, a, b - 1) <= OverlapTokens

CurrentFits == unit > 1 => Fits(ThisText, from, unit - 1)

(* heading_stack holds the last heading of level 2 and the last heading of *)
(* level 3 after it.                                                       *)
Chain ==
  section = 0 /\ ~StartsWithLevel3 =>
    \/ level = 0 /\ stack = <<>> /\ \A n \in DOMAIN items : items[n].level = 0
    \/ /\ level = 2
       /\ \E g \in DOMAIN items :
            /\ stack = <<g>> /\ items[g].level = 2
            /\ \A n \in DOMAIN items : g < n => items[n].level = 0
    \/ /\ level = 3
       /\ \E g, h \in DOMAIN items :
            /\ g < h /\ stack = <<g, h>> /\ items[g].level = 2 /\ items[h].level = 3
            /\ \A n \in DOMAIN items : g < n => items[n].level # 2
            /\ \A n \in DOMAIN items : h < n => items[n].level = 0

(* What is read is in the sections and in lines.                           *)
Content ==
  /\ section = 0 => SectionText \o Text = AllParagraphs
  /\ section # 0 =>
       \/ SectionText = AllParagraphs
       \/ /\ AllParagraphs = <<>>
          /\ \E k \in DOMAIN items :
               /\ SectionText = Headings(k)
               /\ \A n \in DOMAIN items : items[n].level # 0 <=> n <= k
  /\ section # 0 /\ sections = <<>> =>
       \A n \in DOMAIN items : items[n] = [level |-> 0, text |-> <<>>]

Whole(c, ss) == c.to = Len(Units(ss[c.section].text))

(* Chunk d is the next one of the section of c, and goes further, or the   *)
(* first one of a section after it.                                        *)
ComesBefore(c, d, ss) ==
  \/ /\ c.section = d.section
     /\ d.from <= c.to + 1 /\ c.from <= d.from /\ c.to < d.to
  \/ c.section < d.section /\ d.from = 1 /\ Whole(c, ss)

(* The chunks are in order, and current_chunk goes on where the last one   *)
(* ends, or begins a section.                                              *)
Order ==
  /\ \A s \in DOMAIN sections : s < section => \E n \in DOMAIN chunks : chunks[n].section = s
  /\ chunks = <<>> => from = 1
  /\ chunks # <<>> => chunks[1].from = 1
  /\ \A n \in DOMAIN chunks : n > 1 => ComesBefore(chunks[n - 1], chunks[n], sections)
  /\ chunks # <<>> =>
       LET c == chunks[Len(chunks)]
       IN  \/ /\ c.section = section
              /\ c.from <= from /\ from <= c.to + 1 /\ c.to + 1 < unit
           \/ c.section < section /\ from = 1 /\ Whole(c, sections)

-----------------------------------------------------------------------------
(* The shape                                                               *)

LEMMA EmptyFits == ~TooLong(<<>>)
<1>1. ParagraphLengths(<<>>) = <<>>
  BY DEF ParagraphLengths
<1>2. CountTokens(0) = 1
  <2>1. 0 \div CharsPerToken = 0
    BY ChunkingAssumption
  <2> QED BY <2>1 DEF CountTokens
<1>3. TextTokens(<<>>) = 1
  BY <1>1, <1>2 DEF TextTokens, Join
<1> QED BY <1>3, ChunkingAssumption DEF TooLong

LEMMA TextType ==
  ASSUME Shape
  PROVE  Text \in Texts
<1>1. Paragraphs \cup {<<>>} \subseteq Seq(Nat)
  <2>1. <<>> \in Seq(Nat) /\ Paragraphs \subseteq Seq(Nat)
    BY ChunkingAssumption
  <2> QED BY <2>1
<1>2. lines \in Seq(Seq(Nat))
  BY <1>1 DEF Shape
<1> QED BY <1>2, NonBlankType DEF Text, Texts

LEMMA HeadingsType ==
  ASSUME NEW n \in Nat
  PROVE  Headings(n) \in Texts
<1>1. [k \in 1..n |-> HeadingLength] \in Seq(Nat)
  BY ChunkingAssumption
<1>2. Join([k \in 1..n |-> HeadingLength], 1) \in Nat
  BY <1>1, JoinType
<1> QED BY <1>2 DEF Headings, Texts

LEMMA ThisTextType ==
  ASSUME Shape, Splitting
  PROVE  /\ ThisText \in Texts
         /\ Units(ThisText) \in Seq(Nat)
         /\ TooLong(ThisText) => ThisText # <<>> /\ Len(Units(ThisText)) >= 1
         /\ ThisText # <<>> => Len(Units(ThisText)) >= 1
<1>1. ThisText \in Texts
  <2>1. sections \in Seq(Section) /\ section \in DOMAIN sections
    BY DEF Shape, Splitting
  <2>2. sections[section] \in Section
    BY <2>1
  <2> QED BY <2>2 DEF Section, ThisText
<1> QED BY <1>1, UnitsType, EmptyFits

LEMMA FlushType ==
  ASSUME Shape
  PROVE  Flush \in Seq(Section)
<1>1. stack \in Seq(Nat)
  <2>1. stack \in Seq(DOMAIN items) /\ DOMAIN items \subseteq Nat
    BY DEF Shape
  <2> QED BY <2>1
<1>2. [chain |-> stack, text |-> Text] \in Section
  BY <1>1, TextType DEF Section
<1> QED BY <1>2 DEF Flush, Shape

LEMMA ChunkType ==
  ASSUME Shape, NEW a \in Nat, NEW b \in Nat
  PROVE  /\ Chunk(a, b) \in Seq(ChunkRecord)
         /\ Len(Chunk(a, b)) = Len(chunks) + 1 /\ Len(chunks) \in Nat
         /\ DOMAIN Chunk(a, b) = 1..Len(chunks) + 1 /\ DOMAIN chunks = 1..Len(chunks)
         /\ \A n \in DOMAIN chunks : Chunk(a, b)[n] = chunks[n]
         /\ Chunk(a, b)[Len(chunks) + 1] = [section |-> section, from |-> a, to |-> b]
<1>1. [section |-> section, from |-> a, to |-> b] \in ChunkRecord
  BY DEF Shape, ChunkRecord
<1>2. chunks \in Seq(ChunkRecord)
  BY DEF Shape
<1> QED BY <1>1, <1>2 DEF Chunk

LEMMA TypeInit == Init => TypeInv
<1> SUFFICES ASSUME Init PROVE TypeInv
  OBVIOUS
<1>1. Shape
  <2>1. <<>> \in Seq(Item) /\ <<>> \in Seq(DOMAIN items) /\ <<>> \in Seq(Section)
        /\ <<>> \in Seq(Paragraphs \cup {<<>>}) /\ <<>> \in Seq(ChunkRecord)
    OBVIOUS
  <2>2. Len(items) <= MaxItems
    BY ChunkingAssumption DEF Init
  <2>3. section \in 0..Len(sections) + 1
    BY DEF Init
  <2> QED BY <2>1, <2>2, <2>3, Zenon DEF Init, Shape
<1>2. Position /\ Ranges /\ Lead
  BY DEF Init, Position, Ranges, Lead
<1> QED BY <1>1, <1>2 DEF TypeInv

(* A markdown that grows, with the places of its headings.                 *)
LEMMA ItemsGrow ==
  ASSUME Shape, Len(items) < MaxItems, NEW item \in Item
  PROVE  /\ Append(items, item) \in Seq(Item)
         /\ Len(Append(items, item)) = Len(items) + 1
         /\ Len(Append(items, item)) <= MaxItems
         /\ DOMAIN items = 1..Len(items) /\ Len(items) \in Nat
         /\ DOMAIN Append(items, item) = 1..Len(items) + 1
         /\ \A n \in 1..Len(items) : Append(items, item)[n] = items[n]
         /\ Append(items, item)[Len(items) + 1] = item
<1>1. items \in Seq(Item) /\ Len(items) <= MaxItems
  BY DEF Shape
<1> QED BY <1>1, ChunkingAssumption

LEMMA NewStackType ==
  ASSUME Shape, NEW l \in {2, 3}
  PROVE  NewStack(l) \in Seq(DOMAIN items)
<1>1. stack \in Seq(DOMAIN items)
  BY DEF Shape
<1> DEFINE n == IF l - 2 < Len(stack) THEN l - 2 ELSE Len(stack)
<1>2. n \in 0..Len(stack)
  BY <1>1
<1> HIDE DEF n
<1>3. SubSeq(stack, 1, n) \in Seq(DOMAIN items)
  <2>1. \A i \in 1..n : stack[i] \in DOMAIN items
    BY <1>1, <1>2
  <2> QED BY <1>1, <1>2, <2>1, SubSeqProperties
<1> QED BY <1>1, <1>3 DEF NewStack, n

LEMMA ShapeStep == ASSUME TypeInv, Next PROVE Shape'
<1> USE DEF TypeInv
<1>1. ASSUME NEW l \in {2, 3}, ReadHeading(l) PROVE Shape'
  <2> DEFINE item == [level |-> l, text |-> <<>>]
  <2>1. item \in Item /\ items' = Append(items, item) /\ Len(items) < MaxItems
    BY <1>1 DEF Item, ReadHeading
  <2> HIDE DEF item
  <2>2. items' \in Seq(Item) /\ Len(items') <= MaxItems
    BY <2>1, ItemsGrow
  <2>3. stack' \in Seq(DOMAIN items')
    <3>1. NewStack(l) \in Seq(DOMAIN items) /\ stack' = Append(NewStack(l), Len(items'))
      BY <1>1, NewStackType DEF ReadHeading
    <3>2. DOMAIN items \subseteq DOMAIN items' /\ Len(items') \in DOMAIN items'
      BY <2>1, ItemsGrow
    <3>3. NewStack(l) \in Seq(DOMAIN items')
      BY <3>1, <3>2
    <3> QED BY <3>1, <3>2, <3>3
  <2>4. level' \in {0, 2, 3}
    BY <1>1 DEF ReadHeading
  <2>5. lines' \in Seq(Paragraphs \cup {<<>>})
    BY <1>1 DEF ReadHeading
  <2>6. sections' \in Seq(Section)
    BY <1>1, FlushType DEF ReadHeading, Shape
  <2>7. section' \in 0..Len(sections') + 1
    <3>1. section' = 0 /\ Len(sections') \in Nat
      BY <1>1, <2>6 DEF ReadHeading
    <3> QED BY <3>1
  <2>8. chunks' \in Seq(ChunkRecord)
    BY <1>1 DEF ReadHeading, Shape
  <2> QED BY <2>2, <2>3, <2>4, <2>5, <2>6, <2>7, <2>8 DEF Shape
<1>2. ASSUME NEW line \in Paragraphs \cup {<<>>}, ReadLine(line) PROVE Shape'
  <2> DEFINE item == [level |-> 0, text |-> line]
  <2>1. item \in Item /\ items' = Append(items, item) /\ Len(items) < MaxItems
    BY <1>2 DEF Item, ReadLine
  <2> HIDE DEF item
  <2>2. items' \in Seq(Item) /\ Len(items') <= MaxItems
    BY <2>1, ItemsGrow
  <2>3. stack' \in Seq(DOMAIN items')
    <3>1. stack' \in Seq(DOMAIN items)
      BY <1>2 DEF ReadLine, Shape
    <3>2. DOMAIN items \subseteq DOMAIN items'
      BY <2>1, ItemsGrow
    <3> QED BY <3>1, <3>2
  <2>4. lines' \in Seq(Paragraphs \cup {<<>>})
    BY <1>2 DEF ReadLine, Shape
  <2> QED BY <1>2, <2>2, <2>3, <2>4 DEF ReadLine, Shape
<1>3. CASE EndOfMarkdown
  <2>1. lines' \in Seq(Paragraphs \cup {<<>>})
    BY <1>3 DEF EndOfMarkdown
  <2>2. sections' \in Seq(Section)
    <3>1. Text # <<>> => sections' \in Seq(Section)
      BY <1>3, FlushType DEF EndOfMarkdown
    <3>2. CASE Text = <<>> /\ sections = <<>> /\ level # 0
      <4> DEFINE k == Len(items) - Len(lines)
      <4>1. sections' = <<[chain |-> <<>>, text |-> Headings(k)]>>
        BY <1>3, <3>2 DEF EndOfMarkdown
      <4>2. k \in Nat
        BY <1>3, <3>2 DEF EndOfMarkdown, Lead
      <4> HIDE DEF k
      <4>3. [chain |-> <<>>, text |-> Headings(k)] \in Section
        BY <4>2, HeadingsType DEF Section
      <4> QED BY <4>1, <4>3
    <3> QED BY <1>3, <3>1, <3>2 DEF EndOfMarkdown, Shape
  <2>3. section' \in 0..Len(sections') + 1
    <3>1. section' = 1 /\ Len(sections') \in Nat
      BY <1>3, <2>2 DEF EndOfMarkdown
    <3> QED BY <3>1
  <2> QED BY <1>3, <2>1, <2>2, <2>3 DEF EndOfMarkdown, Shape
<1>4. CASE KeepWhole \/ EndSection
  <2>1. PICK a, b \in Nat : chunks' = Chunk(a, b)
    <3>1. CASE KeepWhole
      <4>1. Len(Units(ThisText)) \in Nat
        BY <3>1, ThisTextType DEF KeepWhole
      <4> QED BY <3>1, <4>1 DEF KeepWhole
    <3>2. CASE EndSection
      BY <3>2 DEF EndSection, Position
    <3> QED BY <1>4, <3>1, <3>2
  <2>2. chunks' \in Seq(ChunkRecord)
    BY <2>1, ChunkType
  <2>3. section' \in 0..Len(sections') + 1
    <3>1. section \in 1..Len(sections) /\ Len(sections) \in Nat
      BY <1>4 DEF KeepWhole, EndSection, Splitting, Shape
    <3> QED BY <1>4, <3>1 DEF KeepWhole, EndSection, NextSection
  <2> QED BY <1>4, <2>2, <2>3 DEF KeepWhole, EndSection, Shape
<1>5. CASE TakeUnit
  <2>1. chunks' \in Seq(ChunkRecord)
    <3>1. CASE Full
      <4>1. from \in Nat /\ unit - 1 \in Nat
        BY DEF Position
      <4> QED BY <1>5, <3>1, <4>1, ChunkType DEF TakeUnit
    <3>2. CASE ~Full
      BY <1>5, <3>2 DEF TakeUnit, Shape
    <3> QED BY <3>1, <3>2
  <2> QED BY <1>5, <2>1 DEF TakeUnit, Shape
<1> QED BY <1>1, <1>2, <1>3, <1>4, <1>5 DEF Next

LEMMA PositionStep == ASSUME TypeInv, Next PROVE Position'
<1> USE DEF TypeInv
<1>1. CASE \/ \E l \in {2, 3} : ReadHeading(l)
           \/ \E line \in Paragraphs \cup {<<>>} : ReadLine(line)
  <2>1. section = 0 /\ section' = 0 /\ unit' = unit /\ from' = from /\ chunks' = chunks
    BY <1>1 DEF ReadHeading, ReadLine
  <2>2. unit' = 1 /\ from' = 1 /\ chunks' = <<>>
    BY <2>1 DEF Position
  <2> QED BY <2>1, <2>2 DEF Position
<1>2. CASE EndOfMarkdown
  BY <1>2 DEF EndOfMarkdown, Position
<1>3. CASE KeepWhole \/ EndSection
  <2>1. section' # 0 /\ unit' = 1 /\ from' = 1
    BY <1>3 DEF KeepWhole, EndSection, NextSection, Splitting, Shape
  <2> QED BY <2>1 DEF Position
<1>4. CASE TakeUnit
  <2>1. /\ Splitting /\ TooLong(ThisText) /\ unit <= Len(Units(ThisText))
        /\ sections' = sections /\ section' = section /\ unit' = unit + 1
    BY <1>4 DEF TakeUnit
  <2>2. section # 0 /\ ThisText \in Texts
    BY <2>1, ThisTextType DEF Splitting, Shape
  <2>3. from' \in 1..unit
    <3>1. CASE Full
      <4>1. from' = OverlapStart(ThisText, from, unit - 1)
        BY <1>4, <3>1 DEF TakeUnit
      <4>2. from \in Nat \ {0} /\ unit - 1 \in Nat /\ from <= (unit - 1) + 1
        BY DEF Position
      <4>3. unit - 1 <= Len(Units(ThisText))
        BY <2>1, <2>2, UnitsType DEF Position
      <4>4. from' \in from..(unit - 1) + 1
        BY <2>2, <4>1, <4>2, <4>3, OverlapStarts
      <4> QED BY <4>4 DEF Position
    <3>2. CASE ~Full
      BY <1>4, <3>2 DEF TakeUnit, Position
    <3> QED BY <3>1, <3>2
  <2>4. unit' \in Nat \ {0} /\ from' \in 1..unit' /\ from' < unit'
    BY <2>1, <2>3 DEF Position
  <2>5. Splitting' /\ ThisText' = ThisText
    BY <2>1 DEF Splitting, ThisText
  <2>6. TooLong(ThisText)' /\ unit' <= Len(Units(ThisText)) + 1
    <3>1. Len(Units(ThisText)) \in Nat
      BY <2>2, UnitsType
    <3> QED BY <2>1, <2>5, <3>1 DEF Position, TooLong
  <2> QED BY <2>1, <2>2, <2>4, <2>5, <2>6 DEF Position
<1> QED BY <1>1, <1>2, <1>3, <1>4 DEF Next

(* The chunk that is complete is a range of units.                         *)
LEMMA NewChunk ==
  ASSUME TypeInv, KeepWhole \/ EndSection \/ (TakeUnit /\ Full)
  PROVE  /\ Splitting /\ sections' = sections
         /\ \E a, b \in Nat :
              /\ chunks' = Chunk(a, b)
              /\ Within([section |-> section, from |-> a, to |-> b], ThisText)
<1> USE DEF TypeInv
<1>1. Splitting /\ sections' = sections
  BY DEF KeepWhole, EndSection, TakeUnit
<1> DEFINE u == Len(Units(ThisText))
<1>2. /\ u \in Nat /\ (ThisText # <<>> => 1 <= u)
      /\ TooLong(ThisText) => ThisText # <<>> /\ 1 <= u
  BY <1>1, ThisTextType
<1>3. unit \in Nat /\ from \in 1..unit /\ (from < unit \/ unit = 1)
      /\ (unit > 1 => unit <= u + 1)
  BY DEF Position
<1>4. CASE KeepWhole
  <2>1. chunks' = Chunk(1, u) /\ 1 \in Nat
    BY <1>4 DEF KeepWhole
  <2>2. Within([section |-> section, from |-> 1, to |-> u], ThisText)
    BY <1>2 DEF Within
  <2> QED BY <1>1, <1>2, <2>1, <2>2
<1>5. CASE EndSection \/ (TakeUnit /\ Full)
  <2>1. chunks' = Chunk(from, unit - 1) /\ TooLong(ThisText)
    BY <1>5 DEF EndSection, TakeUnit
  <2>2. from < unit
    <3>1. CASE EndSection
      BY <1>2, <1>3, <3>1 DEF EndSection
    <3>2. CASE Full
      BY <3>2 DEF Full
    <3> QED BY <1>5, <3>1, <3>2
  <2> HIDE DEF u
  <2>3. unit - 1 \in Nat /\ from \in Nat /\ 1 <= from /\ from <= unit - 1 /\ unit - 1 <= u
    BY <1>2, <1>3, <2>2
  <2>4. Within([section |-> section, from |-> from, to |-> unit - 1], ThisText)
    BY <2>3 DEF Within, u
  <2> QED BY <1>1, <2>1, <2>3, <2>4
<1> QED BY <1>4, <1>5

LEMMA RangesStep == ASSUME TypeInv, Next PROVE Ranges'
<1> USE DEF TypeInv
<1>1. CASE \/ \E l \in {2, 3} : ReadHeading(l)
           \/ \E line \in Paragraphs \cup {<<>>} : ReadLine(line)
           \/ EndOfMarkdown
  <2>1. chunks' = <<>>
    BY <1>1 DEF ReadHeading, ReadLine, EndOfMarkdown, Position
  <2> QED BY <2>1 DEF Ranges
<1>2. CASE KeepWhole \/ EndSection \/ (TakeUnit /\ Full)
  <2>1. Splitting /\ sections' = sections
    BY <1>2, NewChunk
  <2>2. PICK a, b \in Nat :
           /\ chunks' = Chunk(a, b)
           /\ Within([section |-> section, from |-> a, to |-> b], ThisText)
    BY <1>2, NewChunk
  <2>3. ASSUME NEW n \in DOMAIN chunks'
        PROVE  /\ chunks'[n].section \in DOMAIN sections
               /\ Within(chunks'[n], sections[chunks'[n].section].text)
    <3>1. CASE n \in DOMAIN chunks
      <4>1. chunks'[n] = chunks[n]
        BY <2>2, <3>1, ChunkType
      <4> QED BY <3>1, <4>1 DEF Ranges
    <3>2. CASE n \notin DOMAIN chunks
      <4>1. chunks'[n] = [section |-> section, from |-> a, to |-> b]
        <5>1. DOMAIN chunks' = 1..Len(chunks) + 1 /\ DOMAIN chunks = 1..Len(chunks)
              /\ Len(chunks) \in Nat
          BY <2>2, ChunkType
        <5>2. n = Len(chunks) + 1
          BY <3>2, <5>1
        <5> QED BY <2>2, <5>2, ChunkType
      <4>2. chunks'[n].section = section /\ Within(chunks'[n], ThisText)
        BY <2>2, <4>1
      <4> QED BY <2>1, <4>2 DEF Splitting, ThisText
    <3> QED BY <3>1, <3>2
  <2> QED BY <2>1, <2>3 DEF Ranges, Within
<1>3. CASE TakeUnit /\ ~Full
  BY <1>3 DEF TakeUnit, Ranges, Within
<1>4. CASE TakeUnit
  BY <1>2, <1>3, <1>4
<1>5. CASE KeepWhole
  BY <1>2, <1>5
<1>6. CASE EndSection
  BY <1>2, <1>6
<1> QED BY <1>1, <1>4, <1>5, <1>6 DEF Next

LEMMA LeadStep == ASSUME TypeInv, Next PROVE Lead'
<1> USE DEF TypeInv
<1>1. ASSUME NEW l \in {2, 3}, ReadHeading(l), sections' = <<>> PROVE Lead'
  <2> DEFINE item == [level |-> l, text |-> <<>>]
  <2>1. item \in Item /\ items' = Append(items, item) /\ Len(items) < MaxItems
    BY <1>1 DEF Item, ReadHeading
  <2>2. lines = <<>> /\ sections = <<>> /\ lines' = <<>> /\ section = 0 /\ level' = l
    <3>1. sections \in Seq(Section)
      BY DEF Shape
    <3>2. Flush # <<>>
      <4>1. Flush = Append(sections, [chain |-> stack, text |-> Text])
        BY DEF Flush
      <4>2. Flush \in Seq(Section) /\ Len(Flush) = Len(sections) + 1
        BY <3>1, <4>1, FlushType
      <4> QED BY <3>1, <4>2
    <3> QED BY <1>1, <3>2 DEF ReadHeading
  <2>3. \A n \in DOMAIN items : items[n].level # 0
    BY <2>2, ItemsGrow, <2>1 DEF Lead
  <2>4. item.level = l
    OBVIOUS
  <2> HIDE DEF item
  <2>5. /\ Len(items') = Len(items) + 1 /\ Len(items) \in Nat
        /\ DOMAIN items' = 1..Len(items) + 1
        /\ \A n \in DOMAIN items' : items'[n].level # 0
    BY <2>1, <2>3, <2>4, ItemsGrow
  <2> QED BY <2>2, <2>5 DEF Lead
<1>2. ASSUME NEW line \in Paragraphs \cup {<<>>}, ReadLine(line), sections' = <<>>
      PROVE  Lead'
  <2> DEFINE item == [level |-> 0, text |-> line]
  <2>1. item \in Item /\ items' = Append(items, item) /\ Len(items) < MaxItems
    BY <1>2 DEF Item, ReadLine
  <2>2. /\ sections = <<>> /\ section = 0 /\ level' = level
        /\ Len(lines') = Len(lines) + 1 /\ Len(lines) \in Nat
    BY <1>2 DEF ReadLine, Shape
  <2>3. item.level = 0
    OBVIOUS
  <2> HIDE DEF item
  <2>4. /\ Len(items') = Len(items) + 1 /\ Len(items) \in Nat
        /\ DOMAIN items' = 1..Len(items) + 1 /\ DOMAIN items = 1..Len(items)
        /\ \A n \in 1..Len(items) : items'[n] = items[n]
        /\ items'[Len(items) + 1].level = 0
    BY <2>1, <2>3, ItemsGrow
  <2>5. /\ Len(lines) <= Len(items)
        /\ \A n \in DOMAIN items : items[n].level # 0 <=> n <= Len(items) - Len(lines)
        /\ level # 0 <=> Len(items) > Len(lines)
    BY <2>2 DEF Lead
  <2>6. Len(items') - Len(lines') = Len(items) - Len(lines)
    BY <2>2, <2>4
  <2>7. \A n \in DOMAIN items' : items'[n].level # 0 <=> n <= Len(items') - Len(lines')
    <3> TAKE n \in DOMAIN items'
    <3>1. CASE n \in 1..Len(items)
      <4>1. items'[n] = items[n] /\ (items[n].level # 0 <=> n <= Len(items) - Len(lines))
        BY <2>4, <2>5, <3>1
      <4> QED BY <2>6, <4>1
    <3>2. CASE n = Len(items) + 1
      <4>1. items'[n].level = 0 /\ ~(n <= Len(items) - Len(lines))
        BY <2>2, <2>4, <3>2
      <4> QED BY <2>6, <4>1
    <3> QED BY <2>4, <3>1, <3>2
  <2>8. Len(lines') <= Len(items') /\ (level' # 0 <=> Len(items') > Len(lines'))
    BY <2>2, <2>4, <2>5
  <2> QED BY <2>7, <2>8 DEF Lead
<1>3. CASE EndOfMarkdown \/ KeepWhole \/ TakeUnit \/ EndSection
  <2>1. section' # 0
    BY <1>3 DEF EndOfMarkdown, KeepWhole, TakeUnit, EndSection, NextSection, Splitting, Shape
  <2> QED BY <2>1 DEF Lead
<1> QED BY <1>1, <1>2, <1>3 DEF Next, Lead

LEMMA TypeStep == TypeInv /\ [Next]_vars => TypeInv'
<1>1. ASSUME TypeInv, Next PROVE TypeInv'
  BY <1>1, ShapeStep, PositionStep, RangesStep, LeadStep DEF TypeInv
<1>2. ASSUME TypeInv, UNCHANGED vars PROVE TypeInv'
  BY <1>2 DEF TypeInv, Shape, Position, Ranges, Lead, Within, Splitting, ThisText, TooLong, vars
<1> QED BY <1>1, <1>2

LEMMA TypeAlways == Spec => []TypeInv
<1> QED BY TypeInit, TypeStep, PTL DEF Spec

(* The items, the sections and the chunks keep their shape: every chunk is *)
(* a range of the units of a section, and only a section without a text    *)
(* has an empty chunk (chunk_document).                                    *)
THEOREM ChunksAreRanges == Spec => []TypeOK
<1>1. TypeInv => TypeOK
  <2> SUFFICES ASSUME TypeInv PROVE TypeOK
    OBVIOUS
  <2>1. /\ items \in Seq(Item) /\ Len(items) <= MaxItems
        /\ stack \in Seq(DOMAIN items) /\ level \in {0, 2, 3}
        /\ section \in 0..Len(sections) + 1
    BY DEF TypeInv, Shape
  <2>2. \A n \in DOMAIN items : items[n] \in Item
    BY <2>1
  <2>3. \A n \in DOMAIN stack : stack[n] \in DOMAIN items
    BY <2>1
  <2>4. from <= unit
    BY DEF TypeInv, Position
  <2>5. \A n \in DOMAIN chunks : Within(chunks[n], sections[chunks[n].section].text)
    BY DEF TypeInv, Ranges
  <2> QED BY <2>1, <2>2, <2>3, <2>4, <2>5 DEF TypeOK, Within
<1> QED BY <1>1, TypeAlways, PTL

-----------------------------------------------------------------------------
(* The limit                                                               *)

(* Every chunk of a section that was split keeps to the limit as the loop  *)
(* counts, unit by unit.                                                   *)
UnitsFit ==
  \A n \in DOMAIN chunks :
    LET c == chunks[n]
        text == sections[c.section].text
    IN  TooLong(text) => Fits(text, c.from, c.to)

FitInv == TypeInv /\ CurrentFits /\ UnitsFit

(* The chunk that is complete fits, when it is one of several.             *)
LEMMA NewChunkFits ==
  ASSUME TypeInv, CurrentFits, KeepWhole \/ EndSection \/ (TakeUnit /\ Full)
  PROVE  /\ Splitting /\ sections' = sections
         /\ \E a, b \in Nat :
              /\ chunks' = Chunk(a, b)
              /\ TooLong(ThisText) => Fits(ThisText, a, b)
<1> USE DEF TypeInv
<1>1. Splitting /\ sections' = sections
  BY DEF KeepWhole, EndSection, TakeUnit
<1>2. CASE KeepWhole
  <2>1. Len(Units(ThisText)) \in Nat /\ 1 \in Nat
    BY <1>1, ThisTextType
  <2> QED BY <1>1, <1>2, <2>1 DEF KeepWhole
<1>3. CASE EndSection \/ (TakeUnit /\ Full)
  <2>1. chunks' = Chunk(from, unit - 1) /\ TooLong(ThisText)
    BY <1>3 DEF EndSection, TakeUnit
  <2>2. unit > 1
    <3>1. CASE EndSection
      BY <1>1, <2>1, <3>1, ThisTextType DEF EndSection, Position
    <3>2. CASE Full
      BY <3>2 DEF Full, Position
    <3> QED BY <1>3, <3>1, <3>2
  <2>3. from \in Nat /\ unit - 1 \in Nat
    BY DEF Position
  <2> QED BY <1>1, <2>1, <2>2, <2>3 DEF CurrentFits
<1> QED BY <1>2, <1>3

LEMMA CurrentFitsStep == ASSUME TypeInv, CurrentFits, Next PROVE CurrentFits'
<1> USE DEF TypeInv
<1>1. CASE TakeUnit
  <2>1. /\ Splitting /\ TooLong(ThisText) /\ unit <= Len(Units(ThisText))
        /\ ThisText' = ThisText /\ unit' = unit + 1
    BY <1>1 DEF TakeUnit, ThisText
  <2>2. ThisText \in Texts /\ Len(Units(ThisText)) \in Nat
    BY <2>1, ThisTextType
  <2>3. /\ unit \in Nat \ {0} /\ from \in Nat \ {0} /\ (from < unit \/ unit = 1) /\ from <= unit
        /\ unit' - 1 = unit /\ (unit' - 1) - 1 = unit - 1 /\ unit - 1 \in Nat
    BY <2>1 DEF Position
  <2>4. Fits(ThisText, from', unit)
    <3>1. CASE Full
      <4>1. from' = OverlapStart(ThisText, from, unit - 1)
        BY <1>1, <3>1 DEF TakeUnit
      <4>2. from <= (unit - 1) + 1 /\ unit - 1 <= Len(Units(ThisText))
        BY <2>1, <2>2, <2>3
      <4>3. Tokens(ThisText, from', unit - 1) <= OverlapTokens
        BY <2>2, <2>3, <4>1, <4>2, OverlapStarts
      <4> QED BY <4>3 DEF Fits
    <3>2. CASE ~Full
      <4>1. from' = from
        BY <1>1, <3>2 DEF TakeUnit
      <4>2. CASE from < unit
        <5>1. Tokens(ThisText, from, unit) \in Nat
          BY <2>1, <2>2, <2>3, TokensType
        <5>2. Tokens(ThisText, from, unit) <= MaxTokens
          BY <3>2, <4>2, <5>1, ChunkingAssumption DEF Full
        <5> QED BY <4>1, <5>2 DEF Fits
      <4>3. CASE unit = 1
        <5>1. from = 1 /\ unit - 1 = 0 /\ 0 \in Nat /\ 1 \in Nat \ {0}
          BY <2>3, <4>3
        <5>2. 0 < 1 /\ 0 <= Len(Units(ThisText))
          BY <2>2
        <5>3. Tokens(ThisText, from, unit - 1) = 0
          BY <2>2, <5>1, <5>2, TokensType
        <5> QED BY <4>1, <5>3, OverlapType DEF Fits
      <4> QED BY <2>3, <4>2, <4>3
    <3> QED BY <3>1, <3>2
  <2> QED BY <2>1, <2>3, <2>4 DEF CurrentFits, Fits
<1>2. CASE ~TakeUnit
  <2>1. unit' = 1
    BY <1>2 DEF Next, ReadHeading, ReadLine, EndOfMarkdown, KeepWhole, EndSection, NextSection,
      Position
  <2> QED BY <2>1 DEF CurrentFits
<1> QED BY <1>1, <1>2

LEMMA UnitsFitStep == ASSUME TypeInv, CurrentFits, UnitsFit, Next PROVE UnitsFit'
<1> USE DEF TypeInv
<1>1. CASE \/ \E l \in {2, 3} : ReadHeading(l)
           \/ \E line \in Paragraphs \cup {<<>>} : ReadLine(line)
           \/ EndOfMarkdown
  <2>1. chunks' = <<>>
    BY <1>1 DEF ReadHeading, ReadLine, EndOfMarkdown, Position
  <2> QED BY <2>1 DEF UnitsFit
<1>2. CASE KeepWhole \/ EndSection \/ (TakeUnit /\ Full)
  <2>1. Splitting /\ sections' = sections
    BY <1>2, NewChunkFits
  <2>2. PICK a, b \in Nat :
           /\ chunks' = Chunk(a, b)
           /\ TooLong(ThisText) => Fits(ThisText, a, b)
    BY <1>2, NewChunkFits
  <2>3. ASSUME NEW n \in DOMAIN chunks', TooLong(sections[chunks'[n].section].text)
        PROVE  Fits(sections[chunks'[n].section].text, chunks'[n].from, chunks'[n].to)
    <3>1. CASE n \in DOMAIN chunks
      <4>1. chunks'[n] = chunks[n]
        BY <2>2, <3>1, ChunkType
      <4> QED BY <2>3, <3>1, <4>1 DEF UnitsFit, Fits
    <3>2. CASE n \notin DOMAIN chunks
      <4>1. chunks'[n] = [section |-> section, from |-> a, to |-> b]
        <5>1. DOMAIN chunks' = 1..Len(chunks) + 1 /\ DOMAIN chunks = 1..Len(chunks)
              /\ Len(chunks) \in Nat
          BY <2>2, ChunkType
        <5>2. n = Len(chunks) + 1
          BY <3>2, <5>1
        <5> QED BY <2>2, <5>2, ChunkType
      <4>2. chunks'[n].section = section /\ chunks'[n].from = a /\ chunks'[n].to = b
        BY <4>1
      <4> QED BY <2>2, <2>3, <4>2 DEF ThisText
    <3> QED BY <3>1, <3>2
  <2> QED BY <2>1, <2>3 DEF UnitsFit, Fits, TooLong
<1>3. CASE TakeUnit /\ ~Full
  BY <1>3 DEF TakeUnit, UnitsFit, TooLong
<1>4. CASE TakeUnit
  BY <1>2, <1>3, <1>4
<1>5. CASE KeepWhole \/ EndSection
  BY <1>2, <1>5
<1> QED BY <1>1, <1>4, <1>5 DEF Next

(* The bound is one on the text as it is stored.                           *)
LEMMA UnitsFitBoundsTokens ==
  ASSUME FitInv, NEW n \in DOMAIN chunks
  PROVE  LET c == chunks[n]
             units == Units(sections[c.section].text)
         IN  \/ TokenCount(c) <= CountTokens(MostCharacters(MaxTokens) - 2)
             \/ TokenCount(c) <= CountTokens(MostCharacters(OverlapTokens) + units[c.to])
<1> DEFINE c == chunks[n]
           text == sections[c.section].text
           u == Units(text)
           k == 2 * CharsPerToken + 1
           join == Join(SubSeq(u, c.from, c.to), 2)
<1>1. c \in ChunkRecord /\ c.section \in DOMAIN sections /\ sections \in Seq(Section)
  BY DEF FitInv, TypeInv, Shape, Ranges
<1>2. text \in Texts
  <2>1. sections[c.section] \in Section
    BY <1>1
  <2> QED BY <2>1 DEF Section
<1>3. Within(c, text) /\ (TooLong(text) => Fits(text, c.from, c.to))
  BY DEF FitInv, TypeInv, Ranges, UnitsFit
<1> HIDE DEF c
<1>4. c.from \in Nat /\ c.to \in Nat
  BY <1>1 DEF ChunkRecord
<1> HIDE DEF text
<1>5. k \in Nat /\ MaxTokens \in Nat /\ OverlapTokens \in Nat
  BY ChunkingAssumption, OverlapType
<1>6. /\ k * MaxTokens \in Nat /\ k * OverlapTokens \in Nat
      /\ k * MaxTokens - 2 \in Nat /\ CharsPerToken * MaxTokens <= k * MaxTokens - 2
  <2>1. CharsPerToken \in Nat \ {0} /\ MaxTokens \in Nat \ {0} /\ OverlapTokens \in Nat
    BY ChunkingAssumption, OverlapType
  <2>2. CharsPerToken * MaxTokens \in Nat /\ CharsPerToken * MaxTokens >= 1
    BY <2>1
  <2>3. k * MaxTokens = CharsPerToken * MaxTokens + CharsPerToken * MaxTokens + MaxTokens
    BY <2>1
  <2>4. k * OverlapTokens \in Nat
    BY <2>1
  <2> QED BY <2>1, <2>2, <2>3, <2>4
<1>7. CASE ~TooLong(text)
  <2>1. TokenCount(c) <= MaxTokens /\ TokenCount(c) = TextTokens(text)
    <3>1. TokenCount(c) = TextTokens(text)
      BY <1>7 DEF TokenCount, text
    <3>2. TextTokens(text) \in Nat
      BY <1>2, TextTokensType
    <3> QED BY <1>5, <1>7, <3>1, <3>2 DEF TooLong
  <2>2. MaxTokens <= CountTokens(k * MaxTokens - 2)
    <3>1. MaxTokens <= (k * MaxTokens - 2) \div CharsPerToken
      <4> DEFINE x == k * MaxTokens - 2
      <4>1. x \in Nat /\ CharsPerToken * MaxTokens <= x
        BY <1>6
      <4> HIDE DEF x
      <4>2. MaxTokens <= x \div CharsPerToken
        BY <4>1, ChunkingAssumption
      <4> QED BY <4>2 DEF x
    <3> QED BY <3>1, <1>5, <1>6, ChunkingAssumption DEF CountTokens
  <2>3. CountTokens(k * MaxTokens - 2) \in Nat /\ TokenCount(c) \in Nat
    BY <1>2, <1>6, <2>1, CountTokensType, TextTokensType
  <2> HIDE DEF k
  <2>4. TokenCount(c) <= CountTokens(k * MaxTokens - 2)
    BY <1>5, <2>1, <2>2, <2>3
  <2> QED BY <2>4 DEF MostCharacters, c, k
<1>8. CASE TooLong(text)
  <2>1. text # <<>>
    BY <1>8, EmptyFits
  <2>2. 1 <= c.from /\ c.from <= c.to /\ c.to <= Len(u)
    BY <1>3, <2>1 DEF Within
  <2>3. TokenCount(c) = CountTokens(join)
    BY <1>8 DEF TokenCount, text
  <2>4. /\ join \in Nat /\ u[c.to] \in Nat
        /\ join + 2 <= k * Tokens(text, c.from, c.to)
        /\ join <= k * Tokens(text, c.from, c.to - 1) + u[c.to]
    <3>1. c.from \in Nat \ {0}
      BY <1>4, <2>2
    <3> QED BY <1>2, <1>4, <2>2, <3>1, JoinBounded DEF MostCharacters
  <2>5. Tokens(text, c.from, c.to) \in Nat /\ Tokens(text, c.from, c.to - 1) \in Nat
    <3>1. /\ c.from \in Nat \ {0} /\ c.to - 1 \in Nat /\ c.to - 1 <= Len(Units(text))
          /\ c.to <= Len(Units(text))
      <4>1. Len(Units(text)) \in Nat
        BY <1>2, UnitsType
      <4> QED BY <1>4, <2>2, <4>1
    <3> QED BY <1>2, <1>4, <3>1, TokensType
  <2> DEFINE t == Tokens(text, c.from, c.to)
             r == Tokens(text, c.from, c.to - 1)
             l == u[c.to]
  <2>6. (t <= MaxTokens \/ r <= OverlapTokens) /\ t \in Nat /\ r \in Nat /\ l \in Nat
    BY <1>3, <1>8, <2>4, <2>5 DEF Fits
  <2>7. join \in Nat /\ join + 2 <= k * t /\ join <= k * r + l
    BY <2>4
  <2> HIDE DEF t, r, l, k, join, u
  <2>8. CASE t <= MaxTokens
    <3>1. k * t <= k * MaxTokens /\ k * t \in Nat
      BY <1>5, <2>6, <2>8
    <3>2. join <= k * MaxTokens - 2
      BY <1>6, <2>7, <3>1
    <3>3. TokenCount(c) <= CountTokens(k * MaxTokens - 2)
      BY <1>6, <2>3, <2>7, <3>2, CountTokensMonotone
    <3> QED BY <3>3 DEF MostCharacters, c, k
  <2>9. CASE r <= OverlapTokens
    <3>1. k * r <= k * OverlapTokens /\ k * r \in Nat
      BY <1>5, <2>6, <2>9
    <3>2. join <= k * OverlapTokens + l /\ k * OverlapTokens + l \in Nat
      BY <1>6, <2>6, <2>7, <3>1
    <3>3. TokenCount(c) <= CountTokens(k * OverlapTokens + l)
      BY <2>3, <2>7, <3>2, CountTokensMonotone
    <3> QED BY <3>3 DEF MostCharacters, c, k, l, u, text
  <2> QED BY <2>6, <2>8, <2>9
<1> QED BY <1>7, <1>8

(* The token_count of a chunk is at most that of units which keep to       *)
(* chunk_max_tokens one by one, or of an overlap and one unit that does    *)
(* not fit beside it, when every unit is as long as its rounded count      *)
(* allows and a blank line is put between them: for every limit, every     *)
(* overlap and every markdown (_semantic_sub_split, chunk_document).       *)
THEOREM TokenCountsAreBounded == Spec => []ChunksFit
<1>1. Init => FitInv
  <2>1. Init => CurrentFits /\ UnitsFit
    BY DEF Init, CurrentFits, UnitsFit
  <2> QED BY <2>1, TypeInit DEF FitInv
<1>2. FitInv /\ [Next]_vars => FitInv'
  <2>1. ASSUME FitInv, Next PROVE FitInv'
    BY <2>1, TypeStep, CurrentFitsStep, UnitsFitStep DEF FitInv
  <2>2. ASSUME FitInv, UNCHANGED vars PROVE FitInv'
    <3>1. TypeInv'
      BY <2>2, TypeStep DEF FitInv
    <3>2. /\ unit' = unit /\ from' = from /\ sections' = sections /\ section' = section
          /\ chunks' = chunks /\ ThisText' = ThisText
      BY <2>2 DEF vars, ThisText
    <3>3. CurrentFits'
      BY <2>2, <3>2 DEF FitInv, CurrentFits, Fits
    <3>4. UnitsFit'
      BY <2>2, <3>2 DEF FitInv, UnitsFit, TooLong
    <3> QED BY <3>1, <3>3, <3>4 DEF FitInv
  <2> QED BY <2>1, <2>2
<1>3. FitInv => ChunksFit
  BY UnitsFitBoundsTokens DEF ChunksFit
<1> QED BY <1>1, <1>2, <1>3, PTL DEF Spec

-----------------------------------------------------------------------------
(* The heading chain                                                       *)

LEMMA ShortSequences ==
  ASSUME NEW x \in Nat, NEW y \in Nat
  PROVE  /\ Append(<<>>, x) = <<x>> /\ Append(<<x>>, y) = <<x, y>>
         /\ Len(<<x, y>>) = 2 /\ SubSeq(<<x, y>>, 1, 1) = <<x>>
<1>1. Append(<<>>, x) = <<x>>
  OBVIOUS
<1>2. Append(<<x>>, y) = <<x, y>>
  <2> DEFINE s == Append(<<x>>, y)
             t == <<x, y>>
  <2>1. s \in Seq(Nat) /\ Len(s) = 2 /\ s[1] = x /\ s[2] = y
    OBVIOUS
  <2>2. t \in Seq(Nat) /\ Len(t) = 2 /\ t[1] = x /\ t[2] = y
    OBVIOUS
  <2> HIDE DEF s, t
  <2>3. \A i \in 1..2 : i = 1 \/ i = 2
    OBVIOUS
  <2>4. s = t
    BY <2>1, <2>2, <2>3, SeqEqual
  <2> QED BY <2>4 DEF s, t
<1>3. Len(<<x, y>>) = 2
  OBVIOUS
<1>4. SubSeq(<<x, y>>, 1, 1) = <<x>>
  <2> DEFINE s == <<x, y>>
             t == <<x>>
  <2>1. s \in Seq(Nat) /\ Len(s) = 2 /\ s[1] = x /\ t \in Seq(Nat) /\ Len(t) = 1 /\ t[1] = x
    OBVIOUS
  <2> HIDE DEF s, t
  <2>2. SubSeq(s, 1, 1) \in Seq(Nat) /\ Len(SubSeq(s, 1, 1)) = 1 /\ SubSeq(s, 1, 1)[1] = x
    BY <2>1, SubSeqProperties
  <2>3. SubSeq(s, 1, 1) = t
    BY <2>1, <2>2, SeqEqual
  <2> QED BY <2>3 DEF s, t
<1> QED BY <1>1, <1>2, <1>3, <1>4

(* What a heading of level 2, or of level 3, leaves of the stack.          *)
LEMMA Level2Clears ==
  ASSUME Shape, level = 0 => stack = <<>>
  PROVE  NewStack(2) = <<>>
<1>1. stack \in Seq(DOMAIN items) /\ level \in {0, 2, 3}
  BY DEF Shape
<1>2. \A s, n : n = 0 => SubSeq(s, 1, n) = <<>>
  OBVIOUS
<1> DEFINE n == IF 2 - 2 < Len(stack) THEN 2 - 2 ELSE Len(stack)
<1>3. n = 0
  BY <1>1
<1> HIDE DEF n
<1>4. SubSeq(stack, 1, n) = <<>>
  BY <1>2, <1>3
<1> QED BY <1>1, <1>4 DEF NewStack, n

LEMMA Level3Keeps ==
  ASSUME NEW g \in Nat, NEW h \in Nat,
         \/ level = 2 /\ stack = <<g>>
         \/ level = 3 /\ stack = <<g, h>>
  PROVE  NewStack(3) = <<g>>
<1>1. CASE level = 2 /\ stack = <<g>>
  BY <1>1 DEF NewStack
<1>2. CASE level = 3 /\ stack = <<g, h>>
  <2>1. 3 - 2 = 1 /\ Len(stack) = 2 /\ SubSeq(stack, 1, 1) = <<g>>
    <3>1. 3 - 2 = 1
      OBVIOUS
    <3> QED BY <1>2, <3>1, ShortSequences
  <2> QED BY <1>2, <2>1 DEF NewStack
<1> QED BY <1>1, <1>2

LEMMA ChainStep == ASSUME TypeInv, Chain, Next PROVE Chain'
<1> USE DEF TypeInv
<1> SUFFICES ASSUME section' = 0, ~StartsWithLevel3'
             PROVE  Chain'
  BY DEF Chain
<1> DEFINE k == Len(items) + 1
<1>1. ASSUME NEW item \in Item, Len(items) < MaxItems, items' = Append(items, item)
      PROVE  /\ DOMAIN items' = 1..k /\ DOMAIN items = 1..k - 1 /\ k \in Nat \ {0}
             /\ \A n \in 1..k - 1 : items'[n] = items[n]
             /\ items'[k] = item /\ Len(items') = k
             /\ ~StartsWithLevel3
             /\ item.level = 3 => \E n \in DOMAIN items : items[n].level = 2
  <2>1. /\ DOMAIN items' = 1..k /\ DOMAIN items = 1..k - 1 /\ k \in Nat \ {0}
        /\ \A n \in 1..k - 1 : items'[n] = items[n]
        /\ items'[k] = item /\ Len(items') = k
    BY <1>1, ItemsGrow
  <2> HIDE DEF k
  <2>2. \A n \in DOMAIN items' : ~(items'[n].level = 3 /\ \A m \in 1..n - 1 : items'[m].level # 2)
    BY DEF StartsWithLevel3
  <2>3. ~StartsWithLevel3
    <3> SUFFICES ASSUME NEW n \in DOMAIN items, items[n].level = 3,
                        \A m \in 1..n - 1 : items[m].level # 2
                 PROVE  FALSE
      BY DEF StartsWithLevel3
    <3>1. n \in DOMAIN items' /\ \A m \in 1..n - 1 : m \in 1..k - 1
      BY <2>1
    <3>2. items'[n].level = 3 /\ \A m \in 1..n - 1 : items'[m].level # 2
      BY <2>1, <3>1
    <3> QED BY <2>2, <3>1, <3>2
  <2>4. ASSUME item.level = 3 PROVE \E n \in DOMAIN items : items[n].level = 2
    <3>1. k \in DOMAIN items' /\ items'[k].level = 3
      BY <2>1, <2>4
    <3>2. PICK m \in 1..k - 1 : items'[m].level = 2
      BY <2>2, <3>1
    <3> QED BY <2>1, <3>2
  <2> QED BY <2>1, <2>3, <2>4
<1>2. ASSUME NEW l \in {2, 3}, ReadHeading(l) PROVE Chain'
  <2> DEFINE item == [level |-> l, text |-> <<>>]
  <2>1. item \in Item /\ items' = Append(items, item) /\ Len(items) < MaxItems /\ item.level = l
    BY <1>2 DEF Item, ReadHeading
  <2> HIDE DEF item, k
  <2>2. /\ DOMAIN items' = 1..k /\ DOMAIN items = 1..k - 1 /\ k \in Nat \ {0}
        /\ \A n \in 1..k - 1 : items'[n] = items[n]
        /\ items'[k].level = l /\ Len(items') = k
        /\ ~StartsWithLevel3
        /\ l = 3 => \E n \in DOMAIN items : items[n].level = 2
    BY <1>1, <2>1
  <2>3. section = 0 /\ level' = l /\ stack' = Append(NewStack(l), k)
    BY <1>2, <2>2 DEF ReadHeading
  <2>4. CASE l = 2
    <3>1. NewStack(2) = <<>>
      <4>1. level = 0 => stack = <<>>
        BY <2>2, <2>3 DEF Chain
      <4> QED BY <4>1, Level2Clears
    <3>2. stack' = <<k>>
      BY <2>2, <2>3, <2>4, <3>1, ShortSequences
    <3>3. k \in DOMAIN items' /\ items'[k].level = 2 /\ \A n \in DOMAIN items' : ~(k < n)
      BY <2>2, <2>4
    <3> QED BY <2>3, <2>4, <3>2, <3>3 DEF Chain
  <2>5. CASE l = 3
    <3>1. PICK g \in DOMAIN items :
            /\ items[g].level = 2
            /\ \A n \in DOMAIN items : g < n => items[n].level # 2
            /\ NewStack(3) = <<g>>
      <4>1. CASE level = 0
        BY <2>2, <2>3, <2>5, <4>1 DEF Chain
      <4>2. CASE level = 2
        <5>1. PICK g \in DOMAIN items :
                /\ stack = <<g>> /\ items[g].level = 2
                /\ \A n \in DOMAIN items : g < n => items[n].level = 0
          BY <2>2, <2>3, <4>2 DEF Chain
        <5>2. NewStack(3) = <<g>>
          BY <2>2, <4>2, <5>1, Level3Keeps
        <5> QED BY <5>1, <5>2
      <4>3. CASE level = 3
        <5>1. PICK g, h \in DOMAIN items :
                /\ stack = <<g, h>> /\ items[g].level = 2
                /\ \A n \in DOMAIN items : g < n => items[n].level # 2
          BY <2>2, <2>3, <4>3 DEF Chain
        <5>2. NewStack(3) = <<g>>
          BY <2>2, <4>3, <5>1, Level3Keeps
        <5> QED BY <5>1, <5>2
      <4> QED BY <4>1, <4>2, <4>3 DEF Shape
    <3>2. stack' = <<g, k>>
      <4>1. g \in Nat
        BY <2>2
      <4>2. stack' = Append(<<g>>, k)
        BY <2>3, <2>5, <3>1, Zenon
      <4> QED BY <2>2, <4>1, <4>2, ShortSequences
    <3>3. /\ g \in DOMAIN items' /\ k \in DOMAIN items' /\ g < k
          /\ items'[g].level = 2 /\ items'[k].level = 3
          /\ \A n \in DOMAIN items' : ~(k < n)
      BY <2>2, <2>5, <3>1
    <3>4. \A n \in DOMAIN items' : g < n => items'[n].level # 2
      <4> TAKE n \in DOMAIN items'
      <4>1. n = k \/ n \in DOMAIN items
        BY <2>2
      <4> QED BY <2>2, <3>1, <3>3, <4>1
    <3> QED BY <2>3, <2>5, <3>2, <3>3, <3>4 DEF Chain
  <2> QED BY <2>4, <2>5
<1>3. ASSUME NEW line \in Paragraphs \cup {<<>>}, ReadLine(line) PROVE Chain'
  <2> DEFINE item == [level |-> 0, text |-> line]
  <2>1. item \in Item /\ items' = Append(items, item) /\ Len(items) < MaxItems /\ item.level = 0
    BY <1>3 DEF Item, ReadLine
  <2> HIDE DEF item, k
  <2>2. /\ DOMAIN items' = 1..k /\ DOMAIN items = 1..k - 1 /\ k \in Nat \ {0}
        /\ \A n \in 1..k - 1 : items'[n] = items[n]
        /\ items'[k].level = 0
        /\ ~StartsWithLevel3
    BY <1>1, <2>1
  <2>3. section = 0 /\ level' = level /\ stack' = stack
    BY <1>3 DEF ReadLine
  <2>4. \A n \in DOMAIN items' : items'[n].level = 0 \/ (n \in DOMAIN items /\ items'[n] = items[n])
    BY <2>2
  <2>5. \A n \in DOMAIN items : n \in DOMAIN items' /\ items'[n] = items[n]
    BY <2>2
  <2>6. CASE level = 0
    BY <2>2, <2>3, <2>4, <2>6 DEF Chain
  <2>7. CASE level = 2
    <3>1. PICK g \in DOMAIN items :
            /\ stack = <<g>> /\ items[g].level = 2
            /\ \A n \in DOMAIN items : g < n => items[n].level = 0
      BY <2>2, <2>3, <2>7 DEF Chain
    <3>2. \A n \in DOMAIN items' : g < n => items'[n].level = 0
      BY <2>4, <3>1
    <3> QED BY <2>3, <2>5, <2>7, <3>1, <3>2 DEF Chain
  <2>8. CASE level = 3
    <3>1. PICK g, h \in DOMAIN items :
            /\ g < h /\ stack = <<g, h>> /\ items[g].level = 2 /\ items[h].level = 3
            /\ \A n \in DOMAIN items : g < n => items[n].level # 2
            /\ \A n \in DOMAIN items : h < n => items[n].level = 0
      BY <2>2, <2>3, <2>8 DEF Chain
    <3>2. /\ \A n \in DOMAIN items' : g < n => items'[n].level # 2
          /\ \A n \in DOMAIN items' : h < n => items'[n].level = 0
      BY <2>4, <3>1
    <3> QED BY <2>3, <2>5, <2>8, <3>1, <3>2 DEF Chain
  <2> QED BY <2>6, <2>7, <2>8 DEF Shape
<1>4. CASE EndOfMarkdown \/ KeepWhole \/ TakeUnit \/ EndSection
  <2>1. section' # 0
    BY <1>4 DEF EndOfMarkdown, KeepWhole, TakeUnit, EndSection, NextSection, Splitting, Shape
  <2> QED BY <2>1
<1> QED BY <1>2, <1>3, <1>4 DEF Next

LEMMA LastOf ==
  ASSUME NEW s \in SUBSET Nat, NEW m \in s, \A j \in s : j <= m
  PROVE  (CHOOSE k \in s : \A j \in s : j <= k) = m
<1>1. \A k \in s : (\A j \in s : j <= k) => k = m
  <2> TAKE k \in s
  <2>1. k \in Nat /\ m \in Nat
    OBVIOUS
  <2> QED BY <2>1
<1> QED BY <1>1

LEMMA ChainIsEnclosing ==
  ASSUME TypeInv, Chain, section = 0, ~StartsWithLevel3
  PROVE  stack = Enclosing(Len(items) + 1)
<1> DEFINE above(l) == {k \in 1..Len(items) + 1 - 1 : items[k].level = l}
           h2 == above(2)
           h3 == {k \in above(3) : \A j \in h2 : j < k}
           lastOf(s) == IF s = {} THEN <<>> ELSE <<CHOOSE k \in s : \A j \in s : j <= k>>
<1>1. Enclosing(Len(items) + 1) = lastOf(h2) \o lastOf(h3)
  BY DEF Enclosing
<1>2. /\ Len(items) \in Nat /\ DOMAIN items = 1..Len(items) /\ Len(items) + 1 - 1 = Len(items)
      /\ h2 = {k \in DOMAIN items : items[k].level = 2}
      /\ h3 = {k \in DOMAIN items : items[k].level = 3 /\ \A j \in h2 : j < k}
  <2>1. items \in Seq(Item)
    BY DEF TypeInv, Shape
  <2>2. Len(items) \in Nat /\ DOMAIN items = 1..Len(items) /\ Len(items) + 1 - 1 = Len(items)
    BY <2>1
  <2> QED BY <2>2
<1>3. h2 \in SUBSET Nat /\ h3 \in SUBSET Nat
  BY <1>2
<1> HIDE DEF above, h2, h3
<1>4. \A s : s = {} => lastOf(s) = <<>>
  OBVIOUS
<1>5. ASSUME NEW s \in SUBSET Nat, NEW m \in s, \A j \in s : j <= m
      PROVE  lastOf(s) = <<m>>
  <2>1. (CHOOSE k \in s : \A j \in s : j <= k) = m
    BY <1>5, LastOf
  <2>2. s # {}
    OBVIOUS
  <2> QED BY <2>1, <2>2, Zenon
<1> HIDE DEF lastOf
<1>6. CASE level = 0
  <2>1. stack = <<>> /\ \A n \in DOMAIN items : items[n].level = 0
    BY <1>6 DEF Chain
  <2>2. h2 = {} /\ h3 = {}
    BY <1>2, <2>1
  <2>3. <<>> \o <<>> = <<>>
    OBVIOUS
  <2> QED BY <1>1, <1>4, <2>1, <2>2, <2>3
<1>7. CASE level = 2
  <2>1. PICK g \in DOMAIN items :
          /\ stack = <<g>> /\ items[g].level = 2
          /\ \A n \in DOMAIN items : g < n => items[n].level = 0
    BY <1>7 DEF Chain
  <2>2. g \in h2 /\ \A j \in h2 : j <= g
    BY <1>2, <2>1
  <2>3. h3 = {}
    <3> SUFFICES ASSUME NEW k \in h3 PROVE FALSE
      OBVIOUS
    <3>1. k \in DOMAIN items /\ items[k].level = 3 /\ g < k
      BY <1>2, <2>2
    <3> QED BY <2>1, <3>1
  <2>4. lastOf(h2) = <<g>> /\ lastOf(h3) = <<>>
    BY <1>3, <1>4, <1>5, <2>2, <2>3
  <2>5. <<g>> \o <<>> = <<g>>
    <3>1. <<g>> \in Seq(Nat)
      BY <1>2
    <3> QED BY <3>1, ConcatEmptySeq
  <2> QED BY <1>1, <2>1, <2>4, <2>5
<1>8. CASE level = 3
  <2>1. PICK g, h \in DOMAIN items :
          /\ g < h /\ stack = <<g, h>> /\ items[g].level = 2 /\ items[h].level = 3
          /\ \A n \in DOMAIN items : g < n => items[n].level # 2
          /\ \A n \in DOMAIN items : h < n => items[n].level = 0
    BY <1>8 DEF Chain
  <2>2. g \in h2 /\ \A j \in h2 : j <= g
    BY <1>2, <2>1
  <2>3. h \in h3 /\ \A j \in h3 : j <= h
    <3>1. \A j \in h2 : j < h
      BY <1>2, <2>1, <2>2
    <3>2. \A j \in h3 : j <= h
      BY <1>2, <2>1
    <3> QED BY <1>2, <2>1, <3>1, <3>2
  <2>4. lastOf(h2) = <<g>> /\ lastOf(h3) = <<h>>
    BY <1>3, <1>5, <2>2, <2>3
  <2>5. <<g>> \o <<h>> = <<g, h>>
    <3>1. g \in Nat /\ h \in Nat
      BY <1>2
    <3>2. <<g>> \in Seq(Nat)
      BY <3>1
    <3>3. Append(<<g>>, h) = <<g>> \o <<h>>
      BY <3>1, <3>2, AppendIsConcat
    <3> QED BY <3>1, <3>3, ShortSequences
  <2> QED BY <1>1, <2>1, <2>4, <2>5
<1> QED BY <1>6, <1>7, <1>8 DEF TypeInv, Shape

(* Without a heading of level 3 before the first one of level 2, the       *)
(* heading chain is that of the enclosing headings, for every markdown     *)
(* (_split_by_headings).                                                   *)
THEOREM ChainIsTheHeadingsAbove == Spec => []ChainEncloses
<1> DEFINE IInv == TypeInv /\ Chain
<1>1. Init => IInv
  <2>1. Init => Chain
    BY DEF Init, Chain
  <2> QED BY <2>1, TypeInit
<1>2. IInv /\ [Next]_vars => IInv'
  <2>1. ASSUME IInv, Next PROVE Chain'
    BY <2>1, ChainStep
  <2>2. ASSUME IInv, UNCHANGED vars PROVE Chain'
    BY <2>2 DEF vars, Chain, StartsWithLevel3
  <2> QED BY <2>1, <2>2, TypeStep
<1>3. IInv => ChainEncloses
  BY ChainIsEnclosing DEF ChainEncloses
<1> QED BY <1>1, <1>2, <1>3, PTL DEF Spec

-----------------------------------------------------------------------------
(* The content                                                             *)

(* A text that is not blank has a paragraph.                               *)
LEMMA NonBlankEmpty ==
  ASSUME NEW S, NEW s \in Seq(S), NonBlank(s) = <<>>
  PROVE  \A i \in DOMAIN s : s[i] = <<>>
<1>1. PICK f \in [0..Len(s) -> Seq(S \ {<<>>})] : Kept(f, s) /\ NonBlank(s) = f[Len(s)]
  BY NonBlankDef
<1> DEFINE n == Len(s)
           T == {i \in 0..n : f[i] = <<>> => \A j \in 1..i : s[j] = <<>>}
<1>2. n \in Nat /\ DOMAIN s = 1..n /\ \A i \in 1..n : s[i] \in S
  OBVIOUS
<1> HIDE DEF n
<1>3. 0 \in T
  BY <1>2
<1>4. ASSUME NEW i \in 1..n, i - 1 \in T PROVE i \in T
  <2>1. i \in 0..n /\ i - 1 \in 0..n
    BY <1>2
  <2>2. ASSUME f[i] = <<>> PROVE \A j \in 1..i : s[j] = <<>>
    <3>1. f[i - 1] \in Seq(S \ {<<>>})
      BY <2>1 DEF n
    <3>2. s[i] = <<>>
      <4> SUFFICES ASSUME s[i] # <<>> PROVE FALSE
        OBVIOUS
      <4>1. f[i] = Append(f[i - 1], s[i]) /\ s[i] \in S \ {<<>>}
        BY <1>1, <1>2 DEF Kept, n
      <4>2. Len(f[i]) = Len(f[i - 1]) + 1 /\ Len(f[i - 1]) \in Nat
        BY <3>1, <4>1, AppendProperties
      <4> QED BY <2>2, <4>2
    <3>3. f[i - 1] = <<>>
      BY <1>1, <2>2, <3>2 DEF Kept, n
    <3>4. \A j \in 1..i - 1 : s[j] = <<>>
      BY <1>4, <3>3
    <3>5. \A j \in 1..i : j = i \/ j \in 1..i - 1
      BY <1>2
    <3> QED BY <3>2, <3>4, <3>5
  <2> QED BY <2>1, <2>2
<1>5. n \in T
  <2> HIDE DEF T
  <2>1. 0..n \subseteq T
    BY <1>2, <1>3, <1>4, UpTo
  <2>2. n \in 0..n
    BY <1>2
  <2> QED BY <2>1, <2>2
<1> QED BY <1>1, <1>2, <1>5 DEF n

Lines == Paragraphs \cup {<<>>}

LEMMA LinesType == Lines \subseteq Seq(Nat)
<1>1. <<>> \in Seq(Nat) /\ Paragraphs \subseteq Seq(Nat)
  BY ChunkingAssumption
<1> QED BY <1>1 DEF Lines

TextsOf(s) == [n \in DOMAIN s |-> s[n].text]

(* The texts of the items, or of the sections, grow with them.             *)
LEMMA TextsOfAppend ==
  ASSUME NEW R, NEW V, \A y \in R : y.text \in V, NEW s \in Seq(R), NEW x \in R
  PROVE  /\ TextsOf(s) \in Seq(V)
         /\ TextsOf(Append(s, x)) = Append(TextsOf(s), x.text)
<1> DEFINE t == TextsOf(s)
           z == Append(s, x)
           u == TextsOf(z)
           v == Append(t, x.text)
<1>1. Len(s) \in Nat /\ DOMAIN s = 1..Len(s) /\ \A n \in 1..Len(s) : s[n] \in R
  OBVIOUS
<1>2. z \in Seq(R) /\ Len(z) = Len(s) + 1 /\ DOMAIN z = 1..Len(s) + 1
      /\ \A n \in 1..Len(s) + 1 : z[n] = IF n <= Len(s) THEN s[n] ELSE x
  OBVIOUS
<1> HIDE DEF z
<1>3. t \in Seq(V) /\ Len(t) = Len(s) /\ \A n \in 1..Len(s) : t[n] = s[n].text
  <2>1. t \in [1..Len(s) -> V] /\ \A n \in 1..Len(s) : t[n] = s[n].text
    BY <1>1 DEF TextsOf
  <2> HIDE DEF t
  <2> QED BY <1>1, <2>1
<1>4. u \in Seq(V) /\ Len(u) = Len(s) + 1 /\ \A n \in 1..Len(s) + 1 : u[n] = z[n].text
  <2>1. u \in [1..Len(s) + 1 -> V] /\ \A n \in 1..Len(s) + 1 : u[n] = z[n].text
    BY <1>1, <1>2 DEF TextsOf
  <2> HIDE DEF u
  <2> QED BY <1>1, <2>1
<1> HIDE DEF t, u
<1>5. v \in Seq(V) /\ Len(v) = Len(s) + 1
      /\ \A n \in 1..Len(s) + 1 : v[n] = IF n <= Len(s) THEN t[n] ELSE x.text
  BY <1>3
<1> HIDE DEF v
<1>6. u = v
  <2>1. \A n \in 1..Len(s) + 1 : n <= Len(s) => n \in 1..Len(s)
    BY <1>1
  <2>2. \A n \in 1..Len(s) + 1 : u[n] = v[n]
    BY <1>2, <1>3, <1>4, <1>5, <2>1
  <2> QED BY <1>4, <1>5, <2>2, SeqEqual
<1> QED BY <1>3, <1>6 DEF t, u, v, z

LEMMA ItemText == \A x \in Item : x.text \in Seq(Nat)
<1>1. \A x \in Item : x.text \in Lines
  BY DEF Item, Lines
<1> QED BY <1>1, LinesType

(* What the content is made of, before and after a step.                   *)
LEMMA ContentTypes ==
  ASSUME Shape
  PROVE  /\ AllParagraphs = NonBlank(TextsOf(items)) /\ AllParagraphs \in Texts
         /\ SectionText = FlattenSeq(TextsOf(sections)) /\ SectionText \in Texts
         /\ TextsOf(items) \in Seq(Seq(Nat)) /\ TextsOf(sections) \in Seq(Texts)
         /\ Text = NonBlank(lines) /\ Text \in Texts /\ lines \in Seq(Seq(Nat))
         /\ sections = <<>> => SectionText = <<>>
<1>1. items \in Seq(Item) /\ sections \in Seq(Section) /\ lines \in Seq(Lines)
  BY DEF Shape, Lines
<1>2. TextsOf(items) \in Seq(Seq(Nat))
  <2>1. TextsOf(items) \in [1..Len(items) -> Seq(Nat)] /\ Len(items) \in Nat
    BY <1>1, ItemText DEF TextsOf
  <2> QED BY <2>1
<1>3. TextsOf(sections) \in Seq(Texts) /\ (sections = <<>> => TextsOf(sections) = <<>>)
  <2>1. \A y \in Section : y.text \in Texts
    BY DEF Section
  <2>2. TextsOf(sections) \in [1..Len(sections) -> Texts] /\ Len(sections) \in Nat
    BY <1>1, <2>1 DEF TextsOf
  <2>3. sections = <<>> => Len(sections) = 0
    OBVIOUS
  <2>4. TextsOf(sections) \in Seq(Texts) /\ Len(TextsOf(sections)) = Len(sections)
    BY <2>2
  <2> QED BY <2>3, <2>4
<1>4. AllParagraphs = NonBlank(TextsOf(items)) /\ AllParagraphs \in Texts
  BY <1>2, NonBlankType DEF AllParagraphs, TextsOf, Texts
<1>5. SectionText = FlattenSeq(TextsOf(sections)) /\ SectionText \in Texts
      /\ (sections = <<>> => SectionText = <<>>)
  <2>1. SectionText = FlattenSeq(TextsOf(sections))
    BY DEF SectionText, TextsOf
  <2> QED BY <1>3, <2>1, FlattenType DEF Texts
<1>6. lines \in Seq(Seq(Nat))
  BY <1>1, LinesType
<1> QED BY <1>2, <1>3, <1>4, <1>5, <1>6, NonBlankType DEF Text, Texts

(* The content after one more item, and after one more section.            *)
LEMMA ItemRead ==
  ASSUME Shape, NEW item \in Item, items' = Append(items, item)
  PROVE  AllParagraphs' = IF item.text = <<>> THEN AllParagraphs
                          ELSE Append(AllParagraphs, item.text)
<1>1. items \in Seq(Item)
  BY DEF Shape
<1>2. TextsOf(items') = Append(TextsOf(items), item.text)
  BY <1>1, ItemText, TextsOfAppend
<1>3. AllParagraphs' = NonBlank(TextsOf(items'))
  BY DEF AllParagraphs, TextsOf
<1>4. item.text \in Seq(Nat)
  BY ItemText
<1>5. TextsOf(items) \in Seq(Seq(Nat)) /\ AllParagraphs = NonBlank(TextsOf(items))
  BY ContentTypes
<1>6. NonBlank(Append(TextsOf(items), item.text)) =
        IF item.text = <<>> THEN NonBlank(TextsOf(items))
        ELSE Append(NonBlank(TextsOf(items)), item.text)
  BY <1>4, <1>5, NonBlankAppend
<1> QED BY <1>2, <1>3, <1>5, <1>6

LEMMA SectionAdded ==
  ASSUME Shape, NEW x \in Section, sections' = Append(sections, x)
  PROVE  SectionText' = SectionText \o x.text /\ sections' # <<>>
<1>1. sections \in Seq(Section) /\ x.text \in Texts /\ \A y \in Section : y.text \in Texts
  BY DEF Shape, Section
<1>2. TextsOf(sections') = Append(TextsOf(sections), x.text)
  BY <1>1, TextsOfAppend
<1>3. SectionText' = FlattenSeq(TextsOf(sections'))
  BY DEF SectionText, TextsOf
<1>4. FlattenSeq(Append(TextsOf(sections), x.text)) = FlattenSeq(TextsOf(sections)) \o x.text
  BY <1>1, ContentTypes, FlattenAppend DEF Texts
<1>5. sections' # <<>>
  <2>1. Len(sections') = Len(sections) + 1 /\ Len(sections) \in Nat
    BY <1>1
  <2> QED BY <2>1
<1> QED BY <1>2, <1>3, <1>4, <1>5, ContentTypes

LEMMA FlushAdds ==
  ASSUME Shape, sections' = Flush
  PROVE  SectionText' = SectionText \o Text /\ sections' # <<>>
<1> DEFINE x == [chain |-> stack, text |-> Text]
<1>1. stack \in Seq(Nat)
  <2>1. stack \in Seq(DOMAIN items) /\ DOMAIN items \subseteq Nat
    BY DEF Shape
  <2> QED BY <2>1
<1>2. x \in Section /\ x.text = Text
  BY <1>1, TextType DEF Section
<1>3. sections' = Append(sections, x)
  BY DEF Flush
<1> HIDE DEF x
<1> QED BY <1>2, <1>3, SectionAdded

LEMMA ReadingContent ==
  ASSUME TypeInv, Content,
         \/ \E l \in {2, 3} : ReadHeading(l)
         \/ \E line \in Paragraphs \cup {<<>>} : ReadLine(line)
  PROVE  SectionText' \o Text' = AllParagraphs'
<1> USE DEF TypeInv
<1> DEFINE P == Seq(Nat) \ {<<>>}
<1>1. /\ SectionText \o Text = AllParagraphs
      /\ SectionText \in Seq(P) /\ Text \in Seq(P) /\ AllParagraphs \in Seq(P)
      /\ lines \in Seq(Seq(Nat)) /\ Text = NonBlank(lines)
  BY ContentTypes DEF Content, ReadHeading, ReadLine, Texts
<1> HIDE DEF P
<1>2. ASSUME NEW l \in {2, 3}, ReadHeading(l) PROVE SectionText' \o Text' = AllParagraphs'
  <2> DEFINE item == [level |-> l, text |-> <<>>]
  <2>1. item \in Item /\ items' = Append(items, item) /\ item.text = <<>>
    BY <1>2 DEF Item, ReadHeading
  <2> HIDE DEF item
  <2>2. AllParagraphs' = AllParagraphs
    BY <2>1, ItemRead
  <2>3. Text' = <<>>
    <3>1. <<>> \in Seq(Seq(Nat)) /\ Text' = NonBlank(<<>>)
      BY <1>2 DEF ReadHeading, Text
    <3> QED BY <3>1, NonBlankType
  <2>4. SectionText' = SectionText \o Text
    <3>1. CASE lines # <<>>
      BY <1>2, <3>1, FlushAdds DEF ReadHeading
    <3>2. CASE lines = <<>>
      <4>1. Text = <<>>
        BY <1>1, <3>2, NonBlankType
      <4>2. SectionText' = SectionText
        BY <1>2, <3>2 DEF ReadHeading, SectionText
      <4> QED BY <1>1, <4>1, <4>2, ConcatEmptySeq
    <3> QED BY <3>1, <3>2
  <2>5. AllParagraphs \o <<>> = AllParagraphs
    BY <1>1, ConcatEmptySeq
  <2> QED BY <1>1, <2>2, <2>3, <2>4, <2>5
<1>3. ASSUME NEW line \in Paragraphs \cup {<<>>}, ReadLine(line)
      PROVE  SectionText' \o Text' = AllParagraphs'
  <2> DEFINE item == [level |-> 0, text |-> line]
  <2>1. item \in Item /\ items' = Append(items, item) /\ item.text = line
    BY <1>3 DEF Item, ReadLine
  <2> HIDE DEF item
  <2>2. AllParagraphs' = IF line = <<>> THEN AllParagraphs ELSE Append(AllParagraphs, line)
    BY <2>1, ItemRead
  <2>3. line \in Seq(Nat)
    BY LinesType DEF Lines
  <2>4. Text' = IF line = <<>> THEN Text ELSE Append(Text, line)
    <3>1. Text' = NonBlank(Append(lines, line))
      BY <1>3 DEF ReadLine, Text
    <3> QED BY <1>1, <2>3, <3>1, NonBlankAppend
  <2>5. SectionText' = SectionText
    BY <1>3 DEF ReadLine, SectionText
  <2>6. CASE line = <<>>
    BY <1>1, <2>2, <2>4, <2>5, <2>6
  <2>7. CASE line # <<>>
    <3>1. line \in P
      BY <2>3, <2>7 DEF P
    <3>2. <<line>> \in Seq(P)
      BY <3>1
    <3>3. Append(Text, line) = Text \o <<line>>
      BY <1>1, <3>1, AppendIsConcat
    <3>4. Append(AllParagraphs, line) = AllParagraphs \o <<line>>
      BY <1>1, <3>1, AppendIsConcat
    <3>5. (SectionText \o Text) \o <<line>> = SectionText \o (Text \o <<line>>)
      BY <1>1, <3>2, ConcatAssociative
    <3> QED BY <1>1, <2>2, <2>4, <2>5, <2>7, <3>3, <3>4, <3>5
  <2> QED BY <2>6, <2>7
<1> QED BY <1>2, <1>3

(* A markdown without a section is blank.                                  *)
LEMMA NoSectionIsBlank ==
  ASSUME TypeInv, section = 0, sections = <<>>, level = 0, AllParagraphs = <<>>
  PROVE  \A n \in DOMAIN items : items[n] = [level |-> 0, text |-> <<>>]
<1> USE DEF TypeInv
<1>1. items \in Seq(Item) /\ lines \in Seq(Paragraphs \cup {<<>>})
  BY DEF Shape
<1>2. \A n \in DOMAIN items : items[n].level = 0
  BY <1>1 DEF Lead
<1>3. \A n \in DOMAIN TextsOf(items) : TextsOf(items)[n] = <<>>
  BY ContentTypes, NonBlankEmpty
<1>4. \A n \in DOMAIN items : items[n].text = <<>>
  BY <1>3 DEF TextsOf
<1>5. \A n \in DOMAIN items : items[n] \in [level : {0}, text : Paragraphs \cup {<<>>}]
  <2> TAKE n \in DOMAIN items
  <2>1. items[n] \in Item
    BY <1>1
  <2> QED BY <1>2, <2>1 DEF Item
<1> QED BY <1>2, <1>4, <1>5

LEMMA ContentStep == ASSUME TypeInv, Content, Next PROVE Content'
<1> USE DEF TypeInv
<1>1. CASE \/ \E l \in {2, 3} : ReadHeading(l)
           \/ \E line \in Paragraphs \cup {<<>>} : ReadLine(line)
  <2>1. SectionText' \o Text' = AllParagraphs'
    BY <1>1, ReadingContent
  <2>2. section' = 0
    BY <1>1 DEF ReadHeading, ReadLine
  <2> QED BY <2>1, <2>2 DEF Content
<1>2. CASE EndOfMarkdown
  <2>1. /\ section = 0 /\ section' = 1 /\ items' = items
        /\ AllParagraphs' = AllParagraphs
    BY <1>2 DEF EndOfMarkdown, AllParagraphs
  <2>2. SectionText \o Text = AllParagraphs
    BY <2>1 DEF Content
  <2>3. CASE Text # <<>>
    <3>1. SectionText' = AllParagraphs' /\ sections' # <<>>
      BY <1>2, <2>1, <2>2, <2>3, FlushAdds DEF EndOfMarkdown
    <3> QED BY <2>1, <3>1 DEF Content
  <2>4. CASE Text = <<>>
    <3>1. SectionText = AllParagraphs
      <4>1. SectionText \in Seq(Seq(Nat) \ {<<>>})
        BY ContentTypes DEF Texts
      <4> QED BY <2>2, <2>4, <4>1, ConcatEmptySeq
    <3>2. CASE sections = <<>> /\ level # 0
      <4> DEFINE k == Len(items) - Len(lines)
                 x == [chain |-> <<>>, text |-> Headings(k)]
      <4>1. AllParagraphs = <<>> /\ SectionText = <<>>
        BY <3>1, <3>2, ContentTypes
      <4>2. sections' = <<x>>
        BY <1>2, <2>4, <3>2 DEF EndOfMarkdown
      <4>3. k \in DOMAIN items /\ \A n \in DOMAIN items : items[n].level # 0 <=> n <= k
        <5>1. items \in Seq(Item) /\ lines \in Seq(Paragraphs \cup {<<>>})
          BY DEF Shape
        <5> QED BY <2>1, <3>2, <5>1 DEF Lead
      <4>4. k \in Nat /\ Headings(k) \in Texts
        <5>1. k \in Nat
          BY <4>3 DEF Shape
        <5> HIDE DEF k
        <5> QED BY <5>1, HeadingsType
      <4>5. x \in Section /\ x.text = Headings(k)
        <5> HIDE DEF k
        <5> QED BY <4>4 DEF Section
      <4> HIDE DEF k, x
      <4>6. sections' = Append(sections, x)
        <5>1. Append(<<>>, x) = <<x>>
          BY <4>5
        <5> QED BY <3>2, <4>2, <5>1
      <4>7. SectionText' = Headings(k) /\ sections' # <<>>
        <5>1. SectionText' = <<>> \o Headings(k) /\ sections' # <<>>
          BY <4>1, <4>5, <4>6, SectionAdded
        <5> QED BY <4>4, <5>1, ConcatEmptySeq DEF Texts
      <4> QED BY <2>1, <4>1, <4>3, <4>7 DEF Content
    <3>3. CASE ~(sections = <<>> /\ level # 0)
      <4>1. sections' = sections
        BY <1>2, <2>4, <3>3 DEF EndOfMarkdown
      <4>2. SectionText' = AllParagraphs'
        BY <2>1, <3>1, <4>1 DEF SectionText
      <4>3. sections = <<>> =>
              \A n \in DOMAIN items : items[n] = [level |-> 0, text |-> <<>>]
        BY <2>1, <3>1, <3>3, ContentTypes, NoSectionIsBlank
      <4> QED BY <2>1, <4>1, <4>2, <4>3 DEF Content
    <3> QED BY <3>2, <3>3
  <2> QED BY <2>3, <2>4
<1>3. CASE KeepWhole \/ TakeUnit \/ EndSection
  <2>1. section # 0 /\ section' # 0 /\ items' = items /\ sections' = sections
    BY <1>3 DEF KeepWhole, TakeUnit, EndSection, NextSection, Splitting, Shape
  <2>2. AllParagraphs' = AllParagraphs /\ SectionText' = SectionText
    BY <2>1 DEF AllParagraphs, SectionText
  <2> QED BY <2>1, <2>2 DEF Content
<1> QED BY <1>1, <1>2, <1>3 DEF Next

LEMMA ContentInit == Init => Content
<1> SUFFICES ASSUME Init PROVE Content
  OBVIOUS
<1>1. Shape
  BY TypeInit DEF TypeInv
<1>2. SectionText = <<>>
  BY <1>1, ContentTypes DEF Init
<1>3. <<>> \in Seq(Seq(Nat))
  OBVIOUS
<1>4. Text = <<>>
  BY <1>3, NonBlankType DEF Init, Text
<1>5. AllParagraphs = <<>>
  <2>1. TextsOf(items) = <<>>
    <3>1. TextsOf(<<>>) = <<>>
      BY DEF TextsOf
    <3> QED BY <3>1 DEF Init
  <2>2. NonBlank(<<>>) = <<>>
    BY <1>3, NonBlankType
  <2>3. AllParagraphs = NonBlank(TextsOf(items))
    BY <1>1, ContentTypes
  <2> QED BY <2>1, <2>2, <2>3
<1>6. <<>> \o <<>> = <<>>
  OBVIOUS
<1> QED BY <1>2, <1>4, <1>5, <1>6 DEF Content, Init

-----------------------------------------------------------------------------
(* The order of the chunks                                                 *)

(* The last chunk is one of a section that was or is being split.          *)
LEMMA LastChunk ==
  ASSUME TypeInv, chunks # <<>>
  PROVE  /\ Len(chunks) \in Nat \ {0} /\ Len(chunks) \in DOMAIN chunks /\ 1 \in DOMAIN chunks
         /\ DOMAIN chunks = 1..Len(chunks)
         /\ chunks[Len(chunks)] \in ChunkRecord
<1>1. chunks \in Seq(ChunkRecord)
  BY DEF TypeInv, Shape
<1> QED BY <1>1

(* A chunk that is added goes on where the last one ends.                  *)
LEMMA OrderExtends ==
  ASSUME TypeInv, Order, NEW a \in Nat, NEW b \in Nat,
         chunks' = Chunk(a, b),
         sections' = sections,
         a = from,
         chunks # <<>> /\ chunks[Len(chunks)].section = section => b = unit - 1
  PROVE  /\ chunks' # <<>> => chunks'[1].from = 1
         /\ \A n \in DOMAIN chunks' : n > 1 => ComesBefore(chunks'[n - 1], chunks'[n], sections')
<1> DEFINE d == [section |-> section, from |-> a, to |-> b]
           k == Len(chunks)
<1>1. /\ k \in Nat /\ DOMAIN chunks' = 1..k + 1 /\ DOMAIN chunks = 1..k
      /\ \A n \in 1..k : chunks'[n] = chunks[n]
      /\ chunks'[k + 1] = d
  BY ChunkType DEF TypeInv
<1>2. d.section = section /\ d.from = a /\ d.to = b
  OBVIOUS
<1> HIDE DEF d
<1>3. chunks # <<>> => ComesBefore(chunks[k], d, sections)
  <2> SUFFICES ASSUME chunks # <<>> PROVE ComesBefore(chunks[k], d, sections)
    OBVIOUS
  <2> DEFINE c == chunks[k]
  <2>1. c \in ChunkRecord
    BY LastChunk
  <2>2. \/ /\ c.section = section
           /\ c.from <= from /\ from <= c.to + 1 /\ c.to + 1 < unit
        \/ c.section < section /\ from = 1 /\ Whole(c, sections)
    BY DEF Order
  <2>3. c.section = section => b = unit - 1
    <3>1. c = chunks[Len(chunks)]
      OBVIOUS
    <3> HIDE DEF c
    <3> QED BY <3>1
  <2>4. unit \in Nat /\ c.to \in Nat
    BY <2>1 DEF ChunkRecord, TypeInv, Position
  <2> HIDE DEF c, k
  <2>5. c.section = section => c.to < b
    BY <2>2, <2>3, <2>4, <2>1 DEF ChunkRecord, TypeInv, Shape
  <2>6. ComesBefore(c, d, sections)
    BY <1>2, <2>2, <2>5 DEF ComesBefore
  <2> QED BY <2>6 DEF c
<1>4. chunks'[1].from = 1
  <2>1. CASE chunks = <<>>
    <3>1. k = 0 /\ from = 1
      BY <2>1 DEF Order
    <3> QED BY <1>1, <1>2, <3>1
  <2>2. CASE chunks # <<>>
    <3>1. 1 \in 1..k
      BY <2>2, LastChunk
    <3> QED BY <1>1, <2>2, <3>1 DEF Order
  <2> QED BY <2>1, <2>2
<1>5. ASSUME NEW n \in 1..k + 1, n > 1
      PROVE  ComesBefore(chunks'[n - 1], chunks'[n], sections)
  <2> HIDE DEF k
  <2>1. CASE n = k + 1
    <3>1. n - 1 = k /\ k \in 1..k
      BY <1>1, <1>5, <2>1
    <3>2. chunks # <<>>
      BY <1>1, <3>1
    <3> QED BY <1>1, <1>3, <2>1, <3>1, <3>2
  <2>2. CASE n # k + 1
    <3>1. n \in 1..k /\ n - 1 \in 1..k
      BY <1>1, <1>5, <2>2
    <3>2. ComesBefore(chunks[n - 1], chunks[n], sections)
      BY <1>1, <1>5, <3>1 DEF Order
    <3> QED BY <1>1, <3>1, <3>2
  <2> QED BY <2>1, <2>2
<1> QED BY <1>1, <1>4, <1>5

LEMMA OrderStep == ASSUME TypeInv, Order, Next PROVE Order'
<1> USE DEF TypeInv
<1> DEFINE u == Len(Units(ThisText))
           Covered == \A s \in DOMAIN sections : s < section =>
                        \E n \in DOMAIN chunks : chunks[n].section = s
<1>1. CASE \/ \E l \in {2, 3} : ReadHeading(l)
           \/ \E line \in Paragraphs \cup {<<>>} : ReadLine(line)
           \/ EndOfMarkdown
  <2>1. chunks' = <<>> /\ from' = 1 /\ section' \in {0, 1}
    <3>1. /\ section = 0 /\ chunks' = chunks /\ section' \in {0, 1}
          /\ from' = 1 \/ from' = from
      BY <1>1 DEF ReadHeading, ReadLine, EndOfMarkdown
    <3> QED BY <3>1 DEF Position
  <2>2. \A s \in DOMAIN sections' : ~(s < section')
    <3>1. sections' \in Seq(Section)
      BY ShapeStep DEF Shape
    <3>2. DOMAIN sections' \subseteq Nat \ {0}
      BY <3>1
    <3> QED BY <2>1, <3>2
  <2> QED BY <2>1, <2>2 DEF Order
<1>2. ASSUME NEW a \in Nat, NEW b \in Nat, chunks' = Chunk(a, b)
      PROVE  /\ chunks' # <<>> /\ Len(chunks') = Len(chunks) + 1
             /\ chunks'[Len(chunks')] = [section |-> section, from |-> a, to |-> b]
             /\ \A s : (\E n \in DOMAIN chunks : chunks[n].section = s)
                         => \E n \in DOMAIN chunks' : chunks'[n].section = s
             /\ \E n \in DOMAIN chunks' : chunks'[n].section = section
  <2>1. /\ Len(chunks) \in Nat /\ DOMAIN chunks' = 1..Len(chunks) + 1
        /\ DOMAIN chunks = 1..Len(chunks) /\ Len(chunks') = Len(chunks) + 1
        /\ \A n \in DOMAIN chunks : chunks'[n] = chunks[n]
        /\ chunks'[Len(chunks) + 1] = [section |-> section, from |-> a, to |-> b]
    BY <1>2, ChunkType
  <2>2. Len(chunks) + 1 \in DOMAIN chunks' /\ \A n \in DOMAIN chunks : n \in DOMAIN chunks'
    BY <2>1
  <2>3. chunks' # <<>>
    BY <2>2
  <2>4. chunks'[Len(chunks) + 1].section = section
    BY <2>1
  <2> QED BY <2>1, <2>2, <2>3, <2>4
<1>3. CASE KeepWhole \/ EndSection
  <2>1. Splitting /\ sections' = sections /\ section' = section + 1 /\ from' = 1
    BY <1>3 DEF KeepWhole, EndSection, NextSection
  <2>2. /\ u \in Nat /\ from \in Nat /\ chunks' = Chunk(from, u)
        /\ chunks # <<>> /\ chunks[Len(chunks)].section = section => u = unit - 1
    <3>1. u \in Nat /\ (TooLong(ThisText) => u >= 1)
      BY <2>1, ThisTextType
    <3>2. from \in Nat /\ unit \in Nat /\ (unit = 1 => from = 1)
          /\ (unit > 1 => TooLong(ThisText) /\ unit <= u + 1)
      BY DEF Position
    <3>3. CASE KeepWhole
      <4>1. unit = 1 /\ from = 1
        BY <3>2, <3>3 DEF KeepWhole, Position
      <4>2. ~(chunks # <<>> /\ chunks[Len(chunks)].section = section)
        <5> SUFFICES ASSUME chunks # <<>>, chunks[Len(chunks)].section = section PROVE FALSE
          OBVIOUS
        <5>1. chunks[Len(chunks)].to \in Nat
          BY LastChunk DEF ChunkRecord
        <5>2. chunks[Len(chunks)].to + 1 < 1
          BY <4>1 DEF Order, Shape
        <5> QED BY <5>1, <5>2
      <4> QED BY <3>1, <3>3, <4>1, <4>2 DEF KeepWhole
    <3>4. CASE EndSection
      <4>1. unit > u /\ TooLong(ThisText) /\ chunks' = Chunk(from, unit - 1)
        BY <3>4 DEF EndSection
      <4>2. unit - 1 = u
        BY <3>1, <3>2, <4>1
      <4> QED BY <3>1, <3>2, <4>1, <4>2
    <3> QED BY <1>3, <3>3, <3>4
  <2> HIDE DEF u
  <2>3. /\ chunks' # <<>> => chunks'[1].from = 1
        /\ \A n \in DOMAIN chunks' : n > 1 => ComesBefore(chunks'[n - 1], chunks'[n], sections')
    BY <2>1, <2>2, OrderExtends
  <2>4. Covered'
    <3> SUFFICES ASSUME NEW s \in DOMAIN sections', s < section'
                 PROVE  \E n \in DOMAIN chunks' : chunks'[n].section = s
      OBVIOUS
    <3>1. s = section \/ s < section
      BY <2>1 DEF Shape, Splitting
    <3>2. CASE s = section
      BY <1>2, <2>2, <3>2
    <3>3. CASE s < section
      <4>1. \E n \in DOMAIN chunks : chunks[n].section = s
        BY <2>1, <3>3 DEF Order
      <4> QED BY <1>2, <2>2, <4>1
    <3> QED BY <3>1, <3>2, <3>3
  <2> DEFINE d == chunks'[Len(chunks')]
  <2>5. chunks' # <<>> /\ d = [section |-> section, from |-> from, to |-> u]
    BY <1>2, <2>2
  <2>6. d.section < section' /\ Whole(d, sections')
    <3>1. d.section = section /\ d.to = u
      BY <2>5
    <3>2. section < section + 1
      BY <2>1 DEF Shape
    <3> QED BY <2>1, <3>1, <3>2 DEF Whole, u, ThisText
  <2> QED BY <2>1, <2>3, <2>4, <2>5, <2>6 DEF Order
<1>4. CASE TakeUnit /\ Full
  <2>1. /\ Splitting /\ sections' = sections /\ section' = section /\ unit' = unit + 1
        /\ unit <= u /\ from < unit /\ TooLong(ThisText)
        /\ chunks' = Chunk(from, unit - 1) /\ from' = OverlapStart(ThisText, from, unit - 1)
    BY <1>4 DEF TakeUnit, Full
  <2>2. /\ from \in Nat \ {0} /\ unit - 1 \in Nat /\ unit \in Nat /\ u \in Nat
        /\ from <= (unit - 1) + 1 /\ unit - 1 <= u
    <3>1. u \in Nat
      BY <2>1, ThisTextType
    <3> QED BY <2>1, <3>1 DEF Position
  <2>3. from <= from' /\ from' <= unit /\ from' \in Nat
    <3>1. from' \in from..(unit - 1) + 1
      BY <2>1, <2>2, ThisTextType, OverlapStarts
    <3> HIDE DEF u
    <3> QED BY <2>2, <3>1
  <2> HIDE DEF u
  <2>4. /\ chunks' # <<>> => chunks'[1].from = 1
        /\ \A n \in DOMAIN chunks' : n > 1 => ComesBefore(chunks'[n - 1], chunks'[n], sections')
    BY <2>1, <2>2, OrderExtends
  <2>5. Covered'
    <3> SUFFICES ASSUME NEW s \in DOMAIN sections', s < section'
                 PROVE  \E n \in DOMAIN chunks' : chunks'[n].section = s
      OBVIOUS
    <3>1. \E n \in DOMAIN chunks : chunks[n].section = s
      BY <2>1 DEF Order
    <3> QED BY <1>2, <2>1, <2>2, <3>1
  <2> DEFINE d == chunks'[Len(chunks')]
  <2>6. chunks' # <<>> /\ d = [section |-> section, from |-> from, to |-> unit - 1]
    BY <1>2, <2>1, <2>2
  <2>7. d.section = section' /\ d.from <= from' /\ from' <= d.to + 1 /\ d.to + 1 < unit'
    <3>1. d.section = section /\ d.from = from /\ d.to = unit - 1
      BY <2>6
    <3> HIDE DEF d
    <3> QED BY <2>1, <2>2, <2>3, <3>1
  <2> QED BY <2>4, <2>5, <2>6, <2>7 DEF Order
<1>5. CASE TakeUnit /\ ~Full
  <2>1. /\ sections' = sections /\ section' = section /\ unit' = unit + 1
        /\ chunks' = chunks /\ from' = from /\ unit \in Nat
    BY <1>5 DEF TakeUnit, Position
  <2>2. chunks # <<>> => chunks[Len(chunks)].to \in Nat
    BY LastChunk DEF ChunkRecord
  <2> QED BY <2>1, <2>2 DEF Order
<1>6. CASE TakeUnit
  BY <1>4, <1>5, <1>6
<1> QED BY <1>1, <1>3, <1>6 DEF Next

(* Nothing is lost and nothing is out of place, for every markdown, every  *)
(* limit and every overlap: the sections have all the paragraphs, and the  *)
(* chunks of a section cover it from its first unit to its last without a  *)
(* gap, each further than the one before (chunk_document).                 *)
THEOREM NothingIsLost == Spec => []EverythingIsChunked
<1> DEFINE IInv == TypeInv /\ Content /\ Order
<1>1. Init => IInv
  <2>1. Init => Order
    BY DEF Init, Order
  <2> QED BY <2>1, TypeInit, ContentInit
<1>2. IInv /\ [Next]_vars => IInv'
  <2>1. ASSUME IInv, Next PROVE Content' /\ Order'
    BY <2>1, ContentStep, OrderStep
  <2>2. ASSUME IInv, UNCHANGED vars PROVE Content' /\ Order'
    <3>1. Content'
      BY <2>2 DEF vars, Content, SectionText, AllParagraphs, Text
    <3>2. Order'
      BY <2>2 DEF vars, Order
    <3> QED BY <3>1, <3>2
  <2> QED BY <2>1, <2>2, TypeStep
<1>3. IInv => EverythingIsChunked
  <2> SUFFICES ASSUME TypeInv, Content, Order, Finished PROVE EverythingIsChunked
    BY DEF EverythingIsChunked
  <2>1. /\ sections \in Seq(Section) /\ Len(sections) \in Nat /\ section > Len(sections)
        /\ DOMAIN sections = 1..Len(sections) /\ section \in Nat \ {0}
    BY DEF Finished, TypeInv, Shape
  <2>2. chunks \in Seq(ChunkRecord) /\ Len(chunks) \in Nat /\ DOMAIN chunks = 1..Len(chunks)
    BY DEF TypeInv, Shape
  <2>3. \A s \in DOMAIN sections : \E n \in DOMAIN chunks : chunks[n].section = s
    BY <2>1 DEF Order
  <2>4. chunks = <<>> => \A n \in DOMAIN items : items[n] = [level |-> 0, text |-> <<>>]
    <3> SUFFICES ASSUME chunks = <<>> PROVE sections = <<>>
      BY <2>1 DEF Content
    <3>1. Len(sections) = 0
      <4> SUFFICES ASSUME Len(sections) # 0 PROVE FALSE
        OBVIOUS
      <4>1. 1 \in DOMAIN sections
        BY <2>1
      <4> QED BY <2>3, <4>1
    <3> QED BY <2>1, <3>1
  <2>5. ASSUME NEW n \in DOMAIN chunks
        PROVE  /\ IsFirst(n) => chunks[n].from = 1
               /\ IsLast(n) => Whole(chunks[n], sections)
               /\ n > 1 => chunks[n - 1].section <= chunks[n].section
               /\ ~IsFirst(n) =>
                    /\ chunks[n].from <= chunks[n - 1].to + 1
                    /\ chunks[n - 1].from <= chunks[n].from /\ chunks[n - 1].to < chunks[n].to
    <3>1. n \in Nat /\ 1 <= n /\ n <= Len(chunks) /\ chunks # <<>>
      BY <2>2
    <3>2. \A m \in DOMAIN chunks : chunks[m].section \in 1..Len(sections)
      BY <2>1 DEF TypeInv, Ranges
    <3>3. n > 1 => n - 1 \in DOMAIN chunks /\ ComesBefore(chunks[n - 1], chunks[n], sections)
      BY <2>2 DEF Order
    <3>4. n > 1 => /\ chunks[n - 1].section \in Nat /\ chunks[n].section \in Nat
                   /\ \/ /\ chunks[n - 1].section = chunks[n].section
                         /\ chunks[n].from <= chunks[n - 1].to + 1
                         /\ chunks[n - 1].from <= chunks[n].from
                         /\ chunks[n - 1].to < chunks[n].to
                      \/ /\ chunks[n - 1].section < chunks[n].section
                         /\ chunks[n].from = 1
      BY <3>2, <3>3 DEF ComesBefore
    <3>5. IsFirst(n) => chunks[n].from = 1
      <4>1. CASE n = 1
        BY <3>1, <4>1 DEF Order
      <4>2. CASE n # 1
        BY <3>1, <3>4, <4>2 DEF IsFirst
      <4> QED BY <4>1, <4>2
    <3>6. IsLast(n) => Whole(chunks[n], sections)
      <4>1. CASE n = Len(chunks)
        <5>1. chunks[n].section < section
          BY <2>1, <3>2
        <5>2. chunks[n].section # section
          BY <2>1, <3>2
        <5> QED BY <3>1, <4>1, <5>2 DEF Order
      <4>2. CASE n # Len(chunks)
        <5>1. n + 1 \in DOMAIN chunks /\ n + 1 > 1 /\ (n + 1) - 1 = n
          BY <2>2, <4>2
        <5>2. ComesBefore(chunks[n], chunks[n + 1], sections)
          BY <5>1 DEF Order
        <5> QED BY <4>2, <5>2 DEF IsLast, ComesBefore
      <4> QED BY <4>1, <4>2
    <3>7. n > 1 => chunks[n - 1].section <= chunks[n].section
      BY <3>4
    <3>8. ~IsFirst(n) =>
            /\ chunks[n].from <= chunks[n - 1].to + 1
            /\ chunks[n - 1].from <= chunks[n].from /\ chunks[n - 1].to < chunks[n].to
      BY <3>1, <3>4 DEF IsFirst
    <3> QED BY <3>5, <3>6, <3>7, <3>8
  <2>6. \/ SectionText = AllParagraphs
        \/ /\ AllParagraphs = <<>>
           /\ \E k \in DOMAIN items :
                /\ SectionText = Headings(k)
                /\ \A n \in DOMAIN items : items[n].level # 0 <=> n <= k
    BY <2>1 DEF Content
  <2> QED BY <2>3, <2>4, <2>5, <2>6 DEF EverythingIsChunked, Whole
<1> QED BY <1>1, <1>2, <1>3, PTL DEF Spec
=============================================================================
