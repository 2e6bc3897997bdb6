--------------------------- MODULE InductionTheorems ---------------------------
(***************************************************************************)
(* Induction and recursion over the natural numbers, stated with sets and  *)
(* functions so that a proof can cite them like any other fact.  They      *)
(* follow from the library's theorem that < is well-founded on Nat.  And   *)
(* what they give for the operators of SequenceParts, which are recursive: *)
(* sequences put together (Flat) and elements picked out of one (Kept).    *)
(***************************************************************************)
EXTENDS SequenceParts, SequenceTheorems, WellFoundedInduction, TLAPS

\* A set of numbers that is not empty has a least one.
LEMMA LeastNumber ==
  ASSUME NEW T, T \subseteq Nat, T # {}
  PROVE  \E x \in T : \A y \in T : x <= y
<1>1. IsWellFoundedOn(OpToRel(<, Nat), Nat)
  BY NatLessThanWellFounded
<1>2. PICK x \in T : \A y \in T : ~ (<<y, x>> \in OpToRel(<, Nat))
  BY <1>1, WFMin
<1>3. OpToRel(<, Nat) = {ss \in Nat \X Nat : ss[1] < ss[2]}
  BY Zenon DEF OpToRel
<1>4. ASSUME NEW y \in T
      PROVE  x <= y
  <2>1. ~ (<<y, x>> \in {ss \in Nat \X Nat : ss[1] < ss[2]})
    BY <1>2, <1>3, Zenon
  <2>2. <<y, x>> \in Nat \X Nat /\ <<y, x>>[1] = y /\ <<y, x>>[2] = x /\ y \in Nat /\ x \in Nat
    OBVIOUS
  <2>3. ~ (y < x)
    BY <2>1, <2>2, Zenon
  <2>4. QED
    BY <2>2, <2>3
<1>5. QED
  BY <1>4

\* Induction from 0 to n, for the numbers of a set.
LEMMA SetInduction ==
  ASSUME NEW n \in Nat, NEW S, 0 \in S,
         \A i \in Nat : i < n /\ i \in S => i + 1 \in S
  PROVE  \A i \in 0 .. n : i \in S
<1> DEFINE T == {i \in 0 .. n : i \notin S}
<1> SUFFICES ASSUME T # {} PROVE FALSE
  OBVIOUS
<1>1. T \subseteq Nat
  OBVIOUS
<1>2. PICK x \in T : \A y \in T : x <= y
  BY <1>1, LeastNumber
<1>3. x \in 0 .. n /\ x \notin S /\ x # 0
  OBVIOUS
<1>4. x - 1 \in Nat /\ x - 1 < n /\ x - 1 \in 0 .. n /\ (x - 1) + 1 = x /\ ~ (x <= x - 1)
  BY <1>3
<1>5. x - 1 \in S
  BY <1>2, <1>4
<1>6. QED
  BY <1>3, <1>4, <1>5

\* f begins with v and goes on by the steps up to n.
Follows(f, v, step, n) == f[0] = v /\ \A i \in 1 .. n : f[i] = step[i][f[i - 1]]

\* Recursion from 0 to n by a step on values of a set.
LEMMA Recursion ==
  ASSUME NEW n \in Nat, NEW V, NEW v \in V, NEW step \in [1 .. n -> [V -> V]]
  PROVE  \E f \in [0 .. n -> V] : Follows(f, v, step, n)
<1> DEFINE S == {m \in 0 .. n : \E f \in [0 .. m -> V] : Follows(f, v, step, m)}
<1>1. 0 \in S
  <2>1. [i \in 0 .. 0 |-> v] \in [0 .. 0 -> V] /\ Follows([i \in 0 .. 0 |-> v], v, step, 0)
    BY DEF Follows
  <2>2. QED
    BY <2>1
<1>2. ASSUME NEW m \in Nat, m < n, m \in S
      PROVE  m + 1 \in S
  <2>1. PICK f \in [0 .. m -> V] : Follows(f, v, step, m)
    BY <1>2
  <2>2. m \in 0 .. m /\ m + 1 \in 1 .. n /\ f[m] \in V
    BY <1>2
  <2>3. step[m + 1] \in [V -> V]
    BY <2>2
  <2>4. PICK w \in V : w = step[m + 1][f[m]]
    BY <2>3
  <2> DEFINE g == [i \in 0 .. m + 1 |-> IF i = m + 1 THEN w ELSE f[i]]
  <2>5. g \in [0 .. m + 1 -> V]
    OBVIOUS
  <2>6. g[0] = v
    BY <2>1 DEF Follows
  <2>7. ASSUME NEW i \in 1 .. m + 1
        PROVE  g[i] = step[i][g[i - 1]]
    <3>1. CASE i = m + 1
      <4>1. i - 1 = m /\ i - 1 \in 0 .. m + 1 /\ i - 1 # m + 1 /\ i \in 0 .. m + 1
        BY <3>1
      <4>2. g[i] = w /\ g[i - 1] = f[m]
        BY <3>1, <4>1
      <4>3. QED
        BY <2>4, <3>1, <4>2
    <3>2. CASE i \in 1 .. m
      <4>1. i \in 0 .. m + 1 /\ i # m + 1 /\ i - 1 \in 0 .. m + 1 /\ i - 1 # m + 1
        BY <3>2
      <4>2. g[i] = f[i] /\ g[i - 1] = f[i - 1]
        BY <4>1
      <4>3. QED
        BY <2>1, <3>2, <4>2 DEF Follows
    <3>3. QED
      BY <3>1, <3>2
  <2>8. Follows(g, v, step, m + 1)
    BY <2>6, <2>7 DEF Follows
  <2> HIDE DEF g
  <2>9. m + 1 \in 0 .. n
    BY <1>2
  <2>10. QED
    BY <2>5, <2>8, <2>9
<1> HIDE DEF S
<1>3. \A i \in 0 .. n : i \in S
  BY <1>1, <1>2, SetInduction
<1>4. n \in S
  BY <1>3
<1>5. QED
  BY <1>4 DEF S

\* Flat is recursive: f[i] is what the first i sequences are in a row.
IsFlat(f, T, ss) ==
  /\ f \in [0 .. Len(ss) -> Seq(T)] /\ f[0] = <<>>
  /\ \A i \in 1 .. Len(ss) : f[i] = f[i - 1] \o ss[i]

LEMMA FlatUnfold ==
  ASSUME NEW T, NEW ss \in Seq(Seq(T))
  PROVE  /\ \E f : IsFlat(f, T, ss)
         /\ \A f : IsFlat(f, T, ss) => Flat(ss) = f[Len(ss)]
<1> DEFINE n == Len(ss)
           V == Seq(T)
           go == [i \in 1 .. n |-> [t \in V |-> t \o ss[i]]]
<1>1. n \in Nat /\ <<>> \in V /\ go \in [1 .. n -> [V -> V]]
  <2>1. n \in Nat /\ <<>> \in V
    OBVIOUS
  <2>2. \A i \in 1 .. n, t \in V : t \o ss[i] \in V
    OBVIOUS
  <2> HIDE DEF V
  <2>3. QED
    BY <2>1, <2>2
<1>2. \A i \in 1 .. n, t \in V : go[i][t] = t \o ss[i]
  OBVIOUS
<1> HIDE DEF V, go
<1>3. PICK f \in [0 .. n -> V] : Follows(f, <<>>, go, n)
  BY <1>1, Recursion
<1>4. \A i \in 1 .. n : i - 1 \in 0 .. n /\ i # 0 /\ i \in 0 .. n
  BY <1>1
<1>5. f[0] = <<>> /\ \A i \in 1 .. n : f[i] = f[i - 1] \o ss[i]
  <2>1. \A i \in 1 .. n : f[i - 1] \in V
    BY <1>4
  <2>2. QED
    BY <1>2, <1>3, <2>1 DEF Follows
<1>6. IsFlat(f, T, ss)
  BY <1>3, <1>5 DEF IsFlat, V
<1>7. ASSUME NEW g, IsFlat(g, T, ss)
      PROVE  Flat(ss) = g[Len(ss)]
  <2> DEFINE unfolded(h) == [i \in 0 .. Len(ss) |-> IF i = 0 THEN <<>> ELSE h[i - 1] \o ss[i]]
             upTo == CHOOSE h : h = unfolded(h)
  <2>1. Flat(ss) = upTo[n]
    BY DEF Flat
  <2>2. g = unfolded(g)
    <3>1. g = [i \in 0 .. n |-> g[i]]
      BY <1>7 DEF IsFlat
    <3>2. ASSUME NEW i \in 0 .. n
          PROVE  g[i] = IF i = 0 THEN <<>> ELSE g[i - 1] \o ss[i]
      <4>1. i = 0 \/ i \in 1 .. n
        BY <1>1
      <4>2. QED
        BY <1>4, <1>7, <4>1 DEF IsFlat
    <3>3. QED
      BY <3>1, <3>2
  <2>3. upTo = unfolded(upTo)
    <3> HIDE DEF unfolded
    <3>1. QED
      BY <2>2, Zenon
  <2> HIDE DEF upTo
  <2>4. \A i \in 0 .. n : upTo[i] = IF i = 0 THEN <<>> ELSE upTo[i - 1] \o ss[i]
    BY <2>3, Zenon
  <2> HIDE DEF unfolded
  <2> DEFINE S == {i \in 0 .. n : upTo[i] = g[i]}
  <2>5. 0 \in S
    BY <1>1, <1>7, <2>4 DEF IsFlat
  <2>6. ASSUME NEW i \in Nat, i < n, i \in S
        PROVE  i + 1 \in S
    <3>1. i + 1 \in 0 .. n /\ i + 1 \in 1 .. n /\ (i + 1) - 1 = i /\ i + 1 # 0
      BY <1>1, <2>6
    <3>2. upTo[i + 1] = upTo[i] \o ss[i + 1]
      BY <2>4, <3>1
    <3>3. g[i + 1] = g[i] \o ss[i + 1]
      BY <1>7, <3>1 DEF IsFlat
    <3>4. QED
      BY <2>6, <3>1, <3>2, <3>3
  <2> HIDE DEF S
  <2>7. n \in S
    <3>1. \A i \in 0 .. n : i \in S
      BY <1>1, <2>5, <2>6, SetInduction
    <3>2. QED
      BY <1>1, <3>1
  <2>8. QED
    BY <2>1, <2>7 DEF S
<1>8. QED
  BY <1>6, <1>7

LEMMA FlatEmpty == Flat(<<>>) = <<>>
<1>1. PICK ss : ss = <<>>
  OBVIOUS
<1>2. ss \in Seq(Seq({})) /\ Len(ss) = 0
  BY <1>1
<1>3. PICK f : IsFlat(f, {}, ss)
  BY <1>2, FlatUnfold
<1>4. Flat(ss) = f[0]
  BY <1>2, <1>3, FlatUnfold
<1>5. QED
  BY <1>1, <1>3, <1>4 DEF IsFlat

\* One sequence more.
LEMMA FlatAppend ==
  ASSUME NEW T, NEW ss \in Seq(Seq(T)), NEW x \in Seq(T)
  PROVE  Flat(ss) \in Seq(T) /\ Flat(Append(ss, x)) = Flat(ss) \o x
<1>1. PICK n, tt : n = Len(ss) /\ tt = Append(ss, x)
  OBVIOUS
<1>2. /\ n \in Nat /\ tt \in Seq(Seq(T)) /\ Len(tt) = n + 1 /\ tt[n + 1] = x
      /\ \A i \in 1 .. n : tt[i] = ss[i]
  BY <1>1
<1>3. PICK f : IsFlat(f, T, ss)
  BY FlatUnfold
<1>4. Flat(ss) = f[n] /\ f[n] \in Seq(T)
  <2>1. n \in 0 .. n
    BY <1>2
  <2>2. QED
    BY <1>1, <1>3, <2>1, FlatUnfold DEF IsFlat
<1> DEFINE g == [i \in 0 .. n + 1 |-> IF i = n + 1 THEN f[n] \o x ELSE f[i]]
<1>5. IsFlat(g, T, tt)
  <2>1. f \in [0 .. n -> Seq(T)] /\ f[0] = <<>> /\ \A i \in 1 .. n : f[i] = f[i - 1] \o ss[i]
    BY <1>1, <1>3 DEF IsFlat
  <2>2. f[n] \o x \in Seq(T)
    BY <1>4
  <2>3. PICK V : V = Seq(T)
    OBVIOUS
  <2>4. g \in [0 .. n + 1 -> V]
    <3>1. f[n] \o x \in V /\ f \in [0 .. n -> V]
      BY <2>1, <2>2, <2>3
    <3>2. ASSUME NEW i \in 0 .. n + 1 PROVE (IF i = n + 1 THEN f[n] \o x ELSE f[i]) \in V
      <4>1. i = n + 1 \/ i \in 0 .. n
        BY <1>2
      <4>2. QED
        BY <3>1, <4>1
    <3>3. QED
      BY <3>2
  <2>5. g[0] = <<>>
    BY <1>2, <2>1
  <2>6. ASSUME NEW i \in 1 .. n + 1 PROVE g[i] = g[i - 1] \o tt[i]
    <3>1. CASE i = n + 1
      <4>1. n \in 0 .. n + 1 /\ n # n + 1 /\ n + 1 \in 0 .. n + 1 /\ (n + 1) - 1 = n
        BY <1>2
      <4>2. g[n + 1] = f[n] \o x /\ g[n] = f[n]
        BY <4>1
      <4>3. QED
        BY <1>2, <3>1, <4>1, <4>2
    <3>2. CASE i \in 1 .. n
      <4>1. i \in 0 .. n + 1 /\ i # n + 1 /\ i - 1 \in 0 .. n + 1 /\ i - 1 # n + 1
        BY <1>2, <3>2
      <4>2. g[i] = f[i] /\ g[i - 1] = f[i - 1]
        BY <4>1
      <4>3. QED
        BY <1>2, <2>1, <3>2, <4>2
    <3>3. i = n + 1 \/ i \in 1 .. n
      BY <1>2
    <3>4. QED
      BY <3>1, <3>2, <3>3
  <2> HIDE DEF g
  <2>7. QED
    BY <1>2, <2>3, <2>4, <2>5, <2>6 DEF IsFlat
<1>6. Flat(tt) = g[n + 1]
  BY <1>2, <1>5, FlatUnfold
<1>7. g[n + 1] = f[n] \o x
  BY <1>2
<1>8. QED
  BY <1>1, <1>4, <1>6, <1>7

\* The first elements, and one more of them.
LEMMA PrefixGrows ==
  ASSUME NEW T, NEW s \in Seq(T), NEW i \in Nat, i < Len(s)
  PROVE  /\ SubSeq(s, 1, i) \in Seq(T) /\ s[i + 1] \in T
         /\ SubSeq(s, 1, i + 1) = Append(SubSeq(s, 1, i), s[i + 1])
         /\ SubSeq(s, 1, 0) = <<>> /\ SubSeq(s, 1, Len(s)) = s
OBVIOUS

\* In a row, then after another.
LEMMA FlatConcat ==
  ASSUME NEW T, NEW a \in Seq(Seq(T)), NEW b \in Seq(Seq(T))
  PROVE  Flat(a \o b) = Flat(a) \o Flat(b)
<1>1. PICK V : V = Seq(T)
  OBVIOUS
<1>2. a \in Seq(V) /\ b \in Seq(V)
  BY <1>1
<1> DEFINE S == {i \in 0 .. Len(b) : Flat(a \o SubSeq(b, 1, i)) = Flat(a) \o Flat(SubSeq(b, 1, i))}
<1>3. Flat(a) \in Seq(T)
  <2>1. <<>> \in Seq(T)
    OBVIOUS
  <2>2. QED
    BY <2>1, FlatAppend
<1>4. SubSeq(b, 1, 0) = <<>> /\ SubSeq(b, 1, Len(b)) = b /\ Len(b) \in Nat
  BY <1>2
<1>5. 0 \in S
  <2>1. a \o <<>> = a
    BY <1>2, ConcatEmptySeq
  <2>2. Flat(a) \o <<>> = Flat(a)
    BY <1>3, ConcatEmptySeq
  <2>3. Flat(a \o <<>>) = Flat(a) \o Flat(<<>>)
    BY <2>1, <2>2, FlatEmpty, Zenon
  <2>4. 0 \in 0 .. Len(b)
    BY <1>4
  <2>5. QED
    BY <1>4, <2>3, <2>4, Zenon
<1>6. ASSUME NEW i \in Nat, i < Len(b), i \in S
      PROVE  i + 1 \in S
  <2>1. PICK p, x : p = SubSeq(b, 1, i) /\ x = b[i + 1]
    OBVIOUS
  <2>2. p \in Seq(V) /\ x \in V /\ SubSeq(b, 1, i + 1) = Append(p, x)
    BY <1>2, <1>6, <2>1, PrefixGrows
  <2>3. a \o Append(p, x) = Append(a \o p, x) /\ a \o p \in Seq(V)
    BY ONLY <1>2, <2>2
  <2>4. Flat(a \o p) \in Seq(T) /\ Flat(Append(a \o p, x)) = Flat(a \o p) \o x
    BY <1>1, <2>2, <2>3, FlatAppend
  <2>5. Flat(p) \in Seq(T) /\ Flat(Append(p, x)) = Flat(p) \o x
    BY <1>1, <2>2, FlatAppend
  <2>6. Flat(a \o p) = Flat(a) \o Flat(p)
    BY <1>6, <2>1
  <2>7. (Flat(a) \o Flat(p)) \o x = Flat(a) \o (Flat(p) \o x)
    <3>1. Flat(a) \in Seq(T) /\ Flat(p) \in Seq(T) /\ x \in Seq(T)
      BY <1>1, <1>3, <2>2, <2>5
    <3>2. PICK u, v : u = Flat(a) /\ v = Flat(p)
      OBVIOUS
    <3>3. (u \o v) \o x = u \o (v \o x)
      BY <3>1, <3>2, ConcatAssociative
    <3>4. QED
      BY <3>2, <3>3
  <2>8. i + 1 \in 0 .. Len(b)
    BY <1>4, <1>6
  <2>9. QED
    BY <2>2, <2>3, <2>4, <2>5, <2>6, <2>7, <2>8
<1> HIDE DEF S
<1>7. Len(b) \in S
  <2>1. \A i \in 0 .. Len(b) : i \in S
    BY <1>4, <1>5, <1>6, SetInduction
  <2>2. QED
    BY <1>4, <2>1
<1>8. QED
  BY <1>4, <1>7 DEF S

\* A sequence of single elements.
LEMMA FlatSingles ==
  ASSUME NEW T, NEW s \in Seq(T), NEW ss, ss = [k \in 1 .. Len(s) |-> <<s[k]>>]
  PROVE  Flat(ss) = s
<1>1. PICK n : n = Len(s)
  OBVIOUS
<1>2. n \in Nat /\ \A k \in 1 .. n : s[k] \in T
  BY <1>1
<1>3. PICK V : V = Seq(T)
  OBVIOUS
<1>4. ss \in Seq(V) /\ Len(ss) = n /\ \A k \in 1 .. n : ss[k] = <<s[k]>>
  <2>1. \A k \in 1 .. n : <<s[k]>> \in V
    BY <1>2, <1>3
  <2>2. ss \in [1 .. n -> V]
    BY <1>1, <2>1
  <2>3. QED
    BY <1>1, <1>2, <2>2
<1> DEFINE f == [i \in 0 .. n |-> SubSeq(s, 1, i)]
<1>5. IsFlat(f, T, ss)
  <2>1. \A i \in 0 .. n : SubSeq(s, 1, i) \in Seq(T)
    BY <1>1
  <2>2. f \in [0 .. n -> Seq(T)] /\ f[0] = <<>>
    BY <1>2, <2>1
  <2>3. ASSUME NEW i \in 1 .. n PROVE f[i] = f[i - 1] \o ss[i]
    <3>1. PICK j \in Nat : j = i - 1 /\ j + 1 = i /\ j \in 0 .. n /\ i \in 0 .. n /\ j < Len(s)
      BY <1>1, <1>2
    <3>2. PICK p, x : p = SubSeq(s, 1, j) /\ x = s[i]
      OBVIOUS
    <3>3. p \in Seq(T) /\ x \in T /\ SubSeq(s, 1, i) = Append(p, x)
      BY <3>1, <3>2, PrefixGrows
    <3>4. Append(p, x) = p \o <<x>>
      BY ONLY <3>3
    <3>5. f[i] = SubSeq(s, 1, i) /\ f[i - 1] = p
      BY <3>1, <3>2
    <3>6. QED
      BY <1>4, <3>2, <3>3, <3>4, <3>5
  <2> HIDE DEF f
  <2>4. QED
    BY <1>4, <2>2, <2>3 DEF IsFlat
<1>6. Flat(ss) = f[n]
  BY <1>3, <1>4, <1>5, FlatUnfold
<1>7. f[n] = SubSeq(s, 1, Len(s))
  BY <1>1, <1>2
<1>8. SubSeq(s, 1, Len(s)) = s
  OBVIOUS
<1>9. QED
  BY <1>6, <1>7, <1>8

\* Kept is recursive: f[i] is what there is of it in the first i elements.
KeptSoFar(f, T, S, s) ==
  /\ f \in [0 .. Len(s) -> Seq(T)] /\ f[0] = <<>>
  /\ \A i \in 1 .. Len(s) : f[i] = IF i \in S THEN Append(f[i - 1], s[i]) ELSE f[i - 1]

LEMMA KeptUnfold ==
  ASSUME NEW T, NEW s \in Seq(T), NEW S
  PROVE  \E f : KeptSoFar(f, T, S, s) /\ Kept(S, s) = f[Len(s)]
<1> DEFINE n == Len(s)
           V == Seq(T)
           go == [i \in 1 .. n |-> [t \in V |-> IF i \in S THEN Append(t, s[i]) ELSE t]]
<1>1. n \in Nat /\ <<>> \in V /\ go \in [1 .. n -> [V -> V]]
  <2>1. n \in Nat /\ <<>> \in V
    OBVIOUS
  <2>2. \A i \in 1 .. n, t \in V : (IF i \in S THEN Append(t, s[i]) ELSE t) \in V
    OBVIOUS
  <2> HIDE DEF V
  <2>3. QED
    BY <2>1, <2>2
<1>2. \A i \in 1 .. n, t \in V : go[i][t] = IF i \in S THEN Append(t, s[i]) ELSE t
  OBVIOUS
<1> HIDE DEF V, go
<1>3. PICK f \in [0 .. n -> V] : Follows(f, <<>>, go, n)
  BY <1>1, Recursion
<1>4. \A i \in 1 .. n : i - 1 \in 0 .. n /\ i # 0 /\ i \in 0 .. n
  BY <1>1
<1>5. f[0] = <<>> /\ \A i \in 1 .. n : f[i] = IF i \in S THEN Append(f[i - 1], s[i]) ELSE f[i - 1]
  <2>1. \A i \in 1 .. n : f[i - 1] \in V
    BY <1>4
  <2>2. QED
    BY <1>2, <1>3, <2>1 DEF Follows
<1>6. KeptSoFar(f, T, S, s)
  BY <1>3, <1>5 DEF KeptSoFar, V
<1> DEFINE unfolded(h) ==
             [i \in 0 .. n |->
                IF i = 0 THEN <<>> ELSE IF i \in S THEN Append(h[i - 1], s[i]) ELSE h[i - 1]]
           upTo == CHOOSE h : h = unfolded(h)
<1>7. Kept(S, s) = upTo[n]
  BY DEF Kept
<1>8. f = unfolded(f)
  <2>1. f = [i \in 0 .. n |-> f[i]]
    BY <1>3
  <2>2. ASSUME NEW i \in 0 .. n
        PROVE  f[i] = IF i = 0 THEN <<>>
                      ELSE IF i \in S THEN Append(f[i - 1], s[i]) ELSE f[i - 1]
    <3>1. i = 0 \/ i \in 1 .. n
      BY <1>1
    <3>2. QED
      BY <1>4, <1>5, <3>1
  <2>3. QED
    BY <2>1, <2>2
<1>9. upTo = unfolded(upTo)
  <2> HIDE DEF unfolded
  <2>1. QED
    BY <1>8, Zenon
<1> HIDE DEF upTo
<1>10. \A i \in 0 .. n : upTo[i] = IF i = 0 THEN <<>>
                                  ELSE IF i \in S THEN Append(upTo[i - 1], s[i]) ELSE upTo[i - 1]
  BY <1>9, Zenon
<1> HIDE DEF unfolded
<1> DEFINE Same == {i \in 0 .. n : upTo[i] = f[i]}
<1>11. 0 \in Same
  BY <1>1, <1>5, <1>10
<1>12. ASSUME NEW i \in Nat, i < n, i \in Same
       PROVE  i + 1 \in Same
  <2>1. i + 1 \in 0 .. n /\ i + 1 \in 1 .. n /\ (i + 1) - 1 = i /\ i + 1 # 0
    BY <1>1, <1>12
  <2>2. upTo[i + 1] = IF i + 1 \in S THEN Append(upTo[i], s[i + 1]) ELSE upTo[i]
    BY <1>10, <2>1
  <2>3. f[i + 1] = IF i + 1 \in S THEN Append(f[i], s[i + 1]) ELSE f[i]
    BY <1>5, <2>1
  <2>4. QED
    BY <1>12, <2>1, <2>2, <2>3
<1> HIDE DEF Same
<1>13. n \in Same
  <2>1. \A i \in 0 .. n : i \in Same
    BY <1>1, <1>11, <1>12, SetInduction
  <2>2. QED
    BY <1>1, <2>1
<1>14. QED
  BY <1>6, <1>7, <1>13 DEF Same

\* What is kept, is there: behind what is kept of the elements in front of it.
KeptAt(S, s, e) ==
  \E k \in 1 .. Len(Kept(S, s)) :
    /\ Kept(S, s)[k] = s[e]
    /\ \A j \in 1 .. k - 1 : \E d \in 1 .. e - 1 : d \in S /\ Kept(S, s)[j] = s[d]
    /\ (\A d \in 1 .. Len(s) : d \in S => d <= e) => k = Len(Kept(S, s))

LEMMA KeptElement ==
  ASSUME NEW T, NEW s \in Seq(T), NEW S
  PROVE  /\ Kept(S, s) \in Seq(T)
         /\ \A e \in 1 .. Len(s) : e \in S => KeptAt(S, s, e)
<1>1. PICK f : KeptSoFar(f, T, S, s) /\ Kept(S, s) = f[Len(s)]
  BY KeptUnfold
<1>2. PICK n \in Nat : n = Len(s)
  OBVIOUS
<1>3. \A i \in 0 .. n : f[i] \in Seq(T) /\ Len(f[i]) \in Nat
  BY <1>1, <1>2 DEF KeptSoFar
<1>4. \A i \in 1 .. n : /\ s[i] \in T /\ i - 1 \in 0 .. n /\ i \in 0 .. n
                        /\ f[i] = IF i \in S THEN Append(f[i - 1], s[i]) ELSE f[i - 1]
  BY <1>1, <1>2 DEF KeptSoFar
<1>5. n \in 0 .. n /\ f[0] = <<>>
  BY <1>1, <1>2 DEF KeptSoFar
<1> DEFINE From(i) == \A j \in 1 .. Len(f[i]) : \E d \in 1 .. i : d \in S /\ f[i][j] = s[d]
           A == {i \in 0 .. n : From(i)}
<1>6. 0 \in A
  BY <1>2, <1>5
<1>7. ASSUME NEW i \in Nat, i < n, i \in A
      PROVE  i + 1 \in A
  <2>1. /\ i + 1 \in 1 .. n /\ i \in 0 .. n /\ (i + 1) - 1 = i
        /\ 1 .. i \subseteq 1 .. i + 1 /\ i + 1 \in 1 .. i + 1
    BY <1>2, <1>7
  <2>2. PICK a, b, x : a = f[i] /\ b = f[i + 1] /\ x = s[i + 1]
    OBVIOUS
  <2>3. a \in Seq(T) /\ x \in T /\ b = IF i + 1 \in S THEN Append(a, x) ELSE a
    BY <1>3, <1>4, <2>1, <2>2
  <2>4. \A j \in 1 .. Len(a) : \E d \in 1 .. i : d \in S /\ a[j] = s[d]
    BY <1>7, <2>2
  <2>5. ASSUME NEW j \in 1 .. Len(b)
        PROVE  \E d \in 1 .. i + 1 : d \in S /\ b[j] = s[d]
    <3>1. CASE j \in 1 .. Len(a) /\ b[j] = a[j]
      BY <2>1, <2>4, <3>1
    <3>2. CASE i + 1 \in S /\ b[j] = x
      BY <2>1, <2>2, <3>2
    <3>3. (j \in 1 .. Len(a) /\ b[j] = a[j]) \/ (i + 1 \in S /\ b[j] = x)
      BY ONLY <2>3, <2>5
    <3>4. QED
      BY <3>1, <3>2, <3>3
  <2>6. QED
    BY <2>1, <2>2, <2>5
<1>8. \A i \in 0 .. n : From(i)
  <2> HIDE DEF From
  <2>1. \A i \in 0 .. n : i \in A
    <3> HIDE DEF A
    <3>1. QED
      BY <1>2, <1>6, <1>7, SetInduction
  <2>2. QED
    BY <2>1
<1> HIDE DEF A
<1>9. ASSUME NEW e \in 1 .. n, e \in S
      PROVE  \E k \in 1 .. Len(f[n]) :
                /\ f[n][k] = s[e]
                /\ \A j \in 1 .. k - 1 : \E d \in 1 .. e - 1 : d \in S /\ f[n][j] = s[d]
                /\ (\A d \in 1 .. n : d \in S => d <= e) => k = Len(f[n])
  <2>1. e - 1 \in 0 .. n /\ e \in 0 .. n /\ e \in Nat
    BY <1>2
  <2>2. PICK a, b : a = f[e - 1] /\ b = f[e]
    OBVIOUS
  <2>3. a \in Seq(T) /\ b = Append(a, s[e]) /\ s[e] \in T
    BY <1>3, <1>4, <1>9, <2>1, <2>2
  <2>4. PICK k \in Nat : k = Len(a) + 1
    BY <2>3
  <2>5. /\ Len(b) = k /\ b[k] = s[e] /\ b \in Seq(T) /\ k \in 1 .. k
        /\ \A j \in 1 .. k - 1 : j \in 1 .. Len(a) /\ b[j] = a[j]
    BY ONLY <2>3, <2>4
  <2>6. \A j \in 1 .. k - 1 : \E d \in 1 .. e - 1 : d \in S /\ b[j] = s[d]
    BY <1>8, <2>1, <2>2, <2>5
  <2> DEFINE Keeps(i) == /\ Len(f[i]) >= k /\ \A j \in 1 .. k : f[i][j] = b[j]
                         /\ (\A d \in 1 .. n : d \in S => d <= e) => k = Len(f[i])
             G == {i \in 0 .. n : i >= e => Keeps(i)}
  <2>7. 0 \in G
    BY <1>2, <2>1
  <2>8. ASSUME NEW i \in Nat, i < n, i \in G
        PROVE  i + 1 \in G
    <3>1. i + 1 \in 1 .. n /\ i + 1 \in 0 .. n /\ i \in 0 .. n /\ (i + 1) - 1 = i
      BY <1>2, <2>8
    <3>2. CASE i + 1 < e
      BY <3>1, <3>2
    <3>3. CASE i + 1 = e
      BY <2>2, <2>5, <3>1, <3>3
    <3>4. CASE i >= e
      <4>1. PICK c, h, x : c = f[i] /\ h = f[i + 1] /\ x = s[i + 1]
        OBVIOUS
      <4>2. c \in Seq(T) /\ x \in T /\ h = IF i + 1 \in S THEN Append(c, x) ELSE c
        BY <1>3, <1>4, <3>1, <4>1
      <4>3. /\ Len(c) >= k /\ \A j \in 1 .. k : c[j] = b[j]
            /\ (\A d \in 1 .. n : d \in S => d <= e) => k = Len(c)
        BY <2>8, <3>4, <4>1
      <4>4. (\A d \in 1 .. n : d \in S => d <= e) => i + 1 \notin S
        BY <2>1, <3>1, <3>4
      <4>5. Len(h) >= k /\ \A j \in 1 .. k : h[j] = c[j]
        BY ONLY <4>2, <4>3, <2>4
      <4>6. (\A d \in 1 .. n : d \in S => d <= e) => k = Len(h)
        BY <4>2, <4>3, <4>4
      <4>7. QED
        BY <3>1, <4>1, <4>3, <4>5, <4>6
    <3>5. i + 1 < e \/ i + 1 = e \/ i >= e
      BY <2>1
    <3>6. QED
      BY <3>2, <3>3, <3>4, <3>5
  <2>9. Keeps(n)
    <3> HIDE DEF Keeps
    <3>1. \A i \in 0 .. n : i \in G
      <4> HIDE DEF G
      <4>1. QED
        BY <1>2, <2>7, <2>8, SetInduction
    <3>2. QED
      BY <1>2, <1>5, <2>1, <3>1
  <2>10. PICK h : h = f[n]
    OBVIOUS
  <2>11. h \in Seq(T) /\ k \in 1 .. Len(h) /\ h[k] = s[e]
    BY <1>3, <1>5, <2>4, <2>5, <2>9, <2>10
  <2>12. \A j \in 1 .. k - 1 : h[j] = b[j]
    BY <2>9, <2>10
  <2>13. QED
    BY <2>6, <2>9, <2>10, <2>11, <2>12
<1>10. \A e \in 1 .. Len(s) : e \in S => KeptAt(S, s, e)
  BY <1>1, <1>2, <1>9 DEF KeptAt
<1>11. QED
  BY <1>1, <1>2, <1>3, <1>5, <1>10

\* Nothing is kept of what is behind the last place of the set.
LEMMA KeptSame ==
  ASSUME NEW T, NEW s \in Seq(T), NEW t \in Seq(T), NEW S, Len(s) <= Len(t),
         \A i \in 1 .. Len(s) : s[i] = t[i], \A i \in 1 .. Len(t) : i \in S => i <= Len(s)
  PROVE  Kept(S, t) = Kept(S, s)
<1>1. PICK f : KeptSoFar(f, T, S, s) /\ Kept(S, s) = f[Len(s)]
  BY KeptUnfold
<1>2. PICK g : KeptSoFar(g, T, S, t) /\ Kept(S, t) = g[Len(t)]
  BY KeptUnfold
<1>3. PICK m \in Nat, n \in Nat : m = Len(s) /\ n = Len(t) /\ m <= n
  OBVIOUS
<1> DEFINE A == {i \in 0 .. n : g[i] = IF i <= m THEN f[i] ELSE f[m]}
<1>4. 0 \in A
  BY <1>1, <1>2, <1>3 DEF KeptSoFar
<1>5. ASSUME NEW i \in Nat, i < n, i \in A
      PROVE  i + 1 \in A
  <2>1. i + 1 \in 1 .. n /\ i + 1 \in 0 .. n /\ (i + 1) - 1 = i
    BY <1>3, <1>5
  <2>2. g[i + 1] = IF i + 1 \in S THEN Append(g[i], t[i + 1]) ELSE g[i]
    BY <1>2, <1>3, <2>1 DEF KeptSoFar
  <2>3. CASE i + 1 <= m
    <3>1. i + 1 \in 1 .. m /\ i <= m
      BY <2>3
    <3>2. f[i + 1] = IF i + 1 \in S THEN Append(f[i], s[i + 1]) ELSE f[i]
      BY <1>1, <1>3, <2>1, <3>1 DEF KeptSoFar
    <3>3. s[i + 1] = t[i + 1] /\ g[i] = f[i]
      BY <1>3, <1>5, <3>1
    <3>4. QED
      BY <2>1, <2>2, <2>3, <3>2, <3>3
  <2>4. CASE ~ (i + 1 <= m)
    <3>1. i + 1 \notin S
      BY <1>3, <2>1, <2>4
    <3>2. i = m \/ ~ (i <= m)
      BY <1>3, <2>4
    <3>3. g[i] = f[m]
      BY <1>5, <3>2
    <3>4. QED
      BY <2>1, <2>2, <2>4, <3>1, <3>3
  <2>5. QED
    BY <2>3, <2>4
<1> HIDE DEF A
<1>6. n \in A
  <2>1. \A i \in 0 .. n : i \in A
    BY <1>3, <1>4, <1>5, SetInduction
  <2>2. QED
    BY <1>3, <2>1
<1>7. g[n] = f[m]
  <2>1. g[n] = IF n <= m THEN f[n] ELSE f[m]
    BY <1>6 DEF A
  <2>2. n <= m => n = m
    BY <1>3
  <2>3. QED
    BY <2>1, <2>2
<1>8. QED
  BY <1>1, <1>2, <1>3, <1>7

\* A row begins with the first of its sequences and ends with the last one.
LEMMA FlatEnds ==
  ASSUME NEW T, NEW ss \in Seq(Seq(T)), ss # <<>>
  PROVE  /\ Flat(ss) \in Seq(T)
         /\ Len(ss[1]) <= Len(Flat(ss)) /\ \A k \in 1 .. Len(ss[1]) : Flat(ss)[k] = ss[1][k]
         /\ ss[Len(ss)] # <<>> =>
              /\ Flat(ss) # <<>>
              /\ Flat(ss)[Len(Flat(ss))] = ss[Len(ss)][Len(ss[Len(ss)])]
<1>1. PICK f : IsFlat(f, T, ss) /\ Flat(ss) = f[Len(ss)]
  BY FlatUnfold
<1>2. PICK n \in Nat : /\ n = Len(ss) /\ n >= 1 /\ n \in 1 .. n /\ n \in 0 .. n
                      /\ n - 1 \in 0 .. n /\ 1 \in 1 .. n
  OBVIOUS
<1>3. \A i \in 0 .. n : f[i] \in Seq(T) /\ Len(f[i]) \in Nat
  BY <1>1, <1>2 DEF IsFlat
<1>4. \A i \in 1 .. n : ss[i] \in Seq(T) /\ f[i] = f[i - 1] \o ss[i]
  <2>1. \A i \in 1 .. n : f[i] = f[i - 1] \o ss[i]
    BY <1>1, <1>2 DEF IsFlat
  <2>2. PICK V : V = Seq(T)
    OBVIOUS
  <2>3. \A i \in 1 .. n : ss[i] \in V
    BY <1>2, <2>2
  <2>4. QED
    BY <2>1, <2>2, <2>3
<1>5. f[0] = <<>>
  BY <1>1 DEF IsFlat
<1>6. PICK a : a = ss[1]
  OBVIOUS
<1>7. a \in Seq(T) /\ f[1] = a
  <2>1. a \in Seq(T)
    BY <1>2, <1>4, <1>6
  <2>2. f[1] = <<>> \o a
    <3>1. f[1] = f[1 - 1] \o ss[1] /\ 1 - 1 = 0
      <4>1. PICK j \in 1 .. n : j = 1
        BY <1>2
      <4>2. f[j] = f[j - 1] \o ss[j]
        BY <1>4
      <4>3. j - 1 = 0 /\ 1 - 1 = 0
        BY <4>1
      <4>4. QED
        BY <4>1, <4>2, <4>3
    <3>2. QED
      BY <1>5, <1>6, <3>1
  <2>3. QED
    BY <2>1, <2>2, ConcatEmptySeq
<1> DEFINE A == {i \in 0 .. n :
                   i >= 1 => Len(a) <= Len(f[i]) /\ \A k \in 1 .. Len(a) : f[i][k] = a[k]}
<1>8. 0 \in A
  BY <1>2
<1>9. ASSUME NEW i \in Nat, i < n, i \in A
      PROVE  i + 1 \in A
  <2>1. i + 1 \in 1 .. n /\ i + 1 \in 0 .. n /\ i \in 0 .. n /\ (i + 1) - 1 = i
    BY <1>2, <1>9
  <2>2. CASE i = 0
    BY <1>7, <2>1, <2>2
  <2>3. CASE i >= 1
    <3>1. PICK b, c, x : b = f[i] /\ c = f[i + 1] /\ x = ss[i + 1]
      OBVIOUS
    <3>2. b \in Seq(T) /\ x \in Seq(T) /\ c = b \o x
      BY <1>3, <1>4, <2>1, <3>1
    <3>3. Len(a) <= Len(b) /\ \A k \in 1 .. Len(a) : b[k] = a[k]
      BY <1>9, <2>3, <3>1
    <3>4. Len(c) = Len(b) + Len(x) /\ \A k \in 1 .. Len(b) : c[k] = b[k]
      BY ONLY <3>2, ConcatProperties
    <3>5. Len(a) \in Nat /\ Len(b) \in Nat /\ Len(x) \in Nat
      BY <1>7, <3>2
    <3>6. Len(a) <= Len(c) /\ \A k \in 1 .. Len(a) : c[k] = a[k]
      <4>1. Len(a) <= Len(c) /\ \A k \in 1 .. Len(a) : k \in 1 .. Len(b)
        BY ONLY <3>3, <3>4, <3>5
      <4>2. QED
        BY <3>3, <3>4, <4>1
    <3>7. QED
      BY <2>1, <3>1, <3>6
  <2>4. QED
    BY <2>2, <2>3
<1>10. Len(a) <= Len(f[n]) /\ \A k \in 1 .. Len(a) : f[n][k] = a[k]
  <2>1. \A i \in 0 .. n : i \in A
    <3> HIDE DEF A
    <3>1. QED
      BY <1>2, <1>8, <1>9, SetInduction
  <2>2. QED
    BY <1>2, <2>1
<1> HIDE DEF A
<1>11. PICK b, c, x : b = f[n - 1] /\ c = f[n] /\ x = ss[n]
  OBVIOUS
<1>12. b \in Seq(T) /\ x \in Seq(T) /\ c = b \o x
  BY <1>2, <1>3, <1>4, <1>11
<1>13. x # <<>> => c # <<>> /\ c[Len(c)] = x[Len(x)]
  <2>1. SUFFICES ASSUME x # <<>> PROVE c # <<>> /\ c[Len(c)] = x[Len(x)]
    OBVIOUS
  <2>2. Len(x) \in Nat /\ Len(x) # 0 /\ Len(b) \in Nat
    BY <1>12, <2>1
  <2>3. /\ c \in Seq(T) /\ Len(c) = Len(b) + Len(x)
        /\ \A i \in 1 .. Len(b) + Len(x) : c[i] = IF i <= Len(b) THEN b[i] ELSE x[i - Len(b)]
    BY ONLY <1>12, ConcatProperties
  <2>4. PICK k, l \in Nat : k = Len(b) /\ l = Len(x) /\ l # 0
    BY <2>2
  <2>5. c[k + l] = x[l]
    <3>1. k + l \in 1 .. k + l /\ ~ (k + l <= k) /\ (k + l) - k = l
      BY <2>4
    <3>2. QED
      BY <2>3, <2>4, <3>1
  <2>6. QED
    BY <2>3, <2>4, <2>5
<1>14. QED
  BY <1>1, <1>2, <1>3, <1>6, <1>10, <1>11, <1>13
==============================================================================
