------------------------- MODULE StompLinksProofs -------------------------
(***************************************************************************)
(* Theorems about StompLinks, for every number of lists that are published *)
(* and every way of cutting the streams.                                   *)
(***************************************************************************)
EXTENDS StompLinks, SequenceTheorems, WellFoundedInduction, TLAPS

(* Induction and loops *)

\* A set of numbers that has 0 and the successor of each of its members has
\* them all.
LEMMA NatInSet ==
    ASSUME NEW T, 0 \in T, \A n \in Nat : n \in T => n + 1 \in T
    PROVE  Nat \subseteq T
<1> DEFINE U == Nat \ T
           less == OpToRel(<, Nat)
<1> SUFFICES ASSUME U # {} PROVE FALSE
  OBVIOUS
<1>1. IsWellFoundedOn(less, Nat)
  BY NatLessThanWellFounded
<1>2. U \subseteq Nat
  OBVIOUS
<1>3. PICK x \in U : \A y \in U : ~ (<<y, x>> \in less)
  <2> HIDE DEF U, less
  <2> QED
    BY <1>1, <1>2, WFMin
<1>4. x \in Nat \ {0} /\ x - 1 \in U
  <2>1. x # 0
    OBVIOUS
  <2>2. x - 1 \in Nat /\ (x - 1) + 1 = x
    BY <2>1
  <2> QED
    BY <2>1, <2>2
<1>5. <<x - 1, x>> \in less
  BY <1>4 DEF OpToRel
<1> QED
  BY <1>3, <1>4, <1>5

\* The states that N rounds of F go through, and that there are such.
Loops(F, s0, N, g) == g = [k \in 0 .. N |-> IF k = 0 THEN s0 ELSE F[g[k - 1]]]
CanLoop(S, F, s0, N) == \E g \in [0 .. N -> S] : Loops(F, s0, N, g)

\* A loop whose round maps the states S to states S can be run N times.
LEMMA LoopExists ==
    ASSUME NEW S, NEW s0 \in S, NEW F \in [S -> S], NEW N \in Nat
    PROVE  CanLoop(S, F, s0, N)
<1> DEFINE Runs(n, g) == /\ g \in [0 .. n -> S]
                         /\ g = [k \in 0 .. n |-> IF k = 0 THEN s0 ELSE F[g[k - 1]]]
           T == {n \in Nat : \E g : Runs(n, g)}
<1>1. 0 \in T
  <2> DEFINE g == [k \in 0 .. 0 |-> s0]
  <2>1. g \in [0 .. 0 -> S]
    OBVIOUS
  <2>2. g = [k \in 0 .. 0 |-> IF k = 0 THEN s0 ELSE F[g[k - 1]]]
    OBVIOUS
  <2> QED
    BY <2>1, <2>2
<1>2. ASSUME NEW n \in Nat, n \in T PROVE n + 1 \in T
  <2>1. PICK g : Runs(n, g)
    BY <1>2
  <2> DEFINE h == [k \in 0 .. (n + 1) |-> IF k = n + 1 THEN F[g[n]] ELSE g[k]]
  <2>2. \A k \in 0 .. (n + 1) : k # n + 1 => k \in 0 .. n
    OBVIOUS
  <2>3. n \in 0 .. n /\ g[n] \in S
    BY <2>1
  <2>4. h \in [0 .. (n + 1) -> S]
    BY <2>1, <2>2, <2>3
  <2>5. \A k \in 0 .. n : h[k] = g[k]
    BY <2>2
  <2>6. \A k \in 0 .. (n + 1) : h[k] = IF k = 0 THEN s0 ELSE F[h[k - 1]]
    <3> SUFFICES ASSUME NEW k \in 0 .. (n + 1)
                 PROVE  h[k] = IF k = 0 THEN s0 ELSE F[h[k - 1]]
      OBVIOUS
    <3>1. CASE k = n + 1
      <4>1. k # 0 /\ k - 1 = n /\ h[k] = F[g[n]]
        BY <3>1
      <4> HIDE DEF h
      <4> QED
        BY <2>3, <2>5, <4>1
    <3>2. CASE k # n + 1
      <4>1. k \in 0 .. n /\ (k # 0 => k - 1 \in 0 .. n)
        BY <2>2, <3>2
      <4>2. g[k] = IF k = 0 THEN s0 ELSE F[g[k - 1]]
        BY <2>1, <4>1
      <4> HIDE DEF h
      <4> QED
        BY <2>5, <4>1, <4>2
    <3> QED
      BY <3>1, <3>2
  <2>7. h = [k \in 0 .. (n + 1) |-> IF k = 0 THEN s0 ELSE F[h[k - 1]]]
    BY <2>6
  <2>8. Runs(n + 1, h)
    BY <2>4, <2>7
  <2> HIDE DEF Runs, h
  <2> QED
    BY <2>8
<1> HIDE DEF T
<1>3. Nat \subseteq T
  BY <1>1, <1>2, NatInSet
<1> QED
  BY <1>3 DEF T, CanLoop, Loops

\* The rounds stay among the states S, and the measure falls until it is 0.
Falls(S, m, N, h) ==
    \A k \in 1 .. N : h[k - 1] \in S =>
        /\ h[k] \in S
        /\ m[h[k]] < m[h[k - 1]] \/ m[h[k]] = 0

\* A loop stays among the states S, and when a measure falls with each of its
\* rounds until it is 0 and the loop has as many rounds, it ends with 0.
LEMMA LoopResult ==
    ASSUME NEW S, NEW m \in [S -> Nat], NEW N \in Nat, NEW h,
           h[0] \in S, m[h[0]] <= N, Falls(S, m, N, h)
    PROVE  h[N] \in S /\ m[h[N]] = 0
<1> DEFINE T == {k \in Nat : k <= N => h[k] \in S /\ (m[h[k]] + k <= N \/ m[h[k]] = 0)}
<1>1. 0 \in T
  OBVIOUS
<1>2. ASSUME NEW k \in Nat, k \in T PROVE k + 1 \in T
  <2> SUFFICES ASSUME k + 1 <= N
               PROVE  h[k + 1] \in S /\ (m[h[k + 1]] + (k + 1) <= N \/ m[h[k + 1]] = 0)
    OBVIOUS
  <2>1. h[k] \in S /\ (m[h[k]] + k <= N \/ m[h[k]] = 0)
    BY <1>2
  <2>2. k + 1 \in 1 .. N /\ (k + 1) - 1 = k
    OBVIOUS
  <2>3. h[k + 1] \in S /\ (m[h[k + 1]] < m[h[k]] \/ m[h[k + 1]] = 0)
    BY <2>1, <2>2 DEF Falls
  <2>4. m[h[k]] \in Nat /\ m[h[k + 1]] \in Nat
    BY <2>1, <2>3
  <2> QED
    BY <2>1, <2>3, <2>4
<1> HIDE DEF T
<1>3. N \in T
  BY <1>1, <1>2, NatInSet
<1>4. h[N] \in S /\ (m[h[N]] + N <= N \/ m[h[N]] = 0)
  BY <1>3 DEF T
<1>5. m[h[N]] \in Nat
  BY <1>4
<1> QED
  BY <1>4, <1>5

-----------------------------------------------------------------------------
(* Sequences of pieces *)

\* FlattenSeq joins the pieces one after another.
JoinsTo(p, h) ==
    /\ h[0] = <<>>
    /\ \A i \in 1 .. Len(p) : h[i] = h[i - 1] \o p[i]

LEMMA FlatUnique ==
    ASSUME NEW T, NEW p \in Seq(Seq(T)), NEW h \in [0 .. Len(p) -> Seq(T)], JoinsTo(p, h)
    PROVE  FlattenSeq(p) = h[Len(p)]
<1> DEFINE Body(g) == [i \in 1 .. Len(p) |-> IF i = 1 THEN p[i] ELSE g[i - 1] \o p[i]]
           flat == CHOOSE g : g = Body(g)
           mine == [i \in 1 .. Len(p) |-> h[i]]
<1>n. Len(p) \in Nat /\ \A i \in 1 .. Len(p) : p[i] \in Seq(T)
  BY LenProperties, ElementOfSeq
<1>1. CASE Len(p) = 0
  <2>1. p = <<>>
    BY <1>1, EmptySeq
  <2> QED
    BY <1>1, <2>1 DEF FlattenSeq, JoinsTo
<1>2. CASE Len(p) # 0
  <2>1. \A i \in 1 .. Len(p) : h[i] = IF i = 1 THEN p[i] ELSE h[i - 1] \o p[i]
    <3> SUFFICES ASSUME NEW i \in 1 .. Len(p)
                 PROVE  h[i] = IF i = 1 THEN p[i] ELSE h[i - 1] \o p[i]
      OBVIOUS
    <3>1. h[i] = h[i - 1] \o p[i]
      BY DEF JoinsTo
    <3>2. <<>> \o p[i] = p[i]
      BY <1>n, ConcatEmptySeq
    <3>3. i = 1 => h[i - 1] = <<>>
      BY DEF JoinsTo
    <3> QED
      BY <3>1, <3>2, <3>3
  <2>2. mine = Body(mine)
    <3>1. \A i \in 1 .. Len(p) : mine[i] = h[i]
      OBVIOUS
    <3>2. \A i \in 1 .. Len(p) : i # 1 => i - 1 \in 1 .. Len(p)
      BY <1>n
    <3>3. \A i \in 1 .. Len(p) : mine[i] = IF i = 1 THEN p[i] ELSE mine[i - 1] \o p[i]
      <4> HIDE DEF mine
      <4> QED
        BY <2>1, <3>1, <3>2
    <3> QED
      BY <3>3
  <2>3. flat = Body(flat)
    <3>1. \E g : g = Body(g)
      BY <2>2
    <3> HIDE DEF Body
    <3> QED
      BY <3>1
  <2> HIDE DEF flat
  <2>4. \A i \in 1 .. Len(p) : flat[i] = IF i = 1 THEN p[i] ELSE flat[i - 1] \o p[i]
    BY <2>3
  <2> DEFINE Same == {k \in Nat : k + 1 <= Len(p) => flat[k + 1] = h[k + 1]}
  <2>5. 0 \in Same
    BY <1>2, <1>n, <2>1, <2>4
  <2>6. ASSUME NEW k \in Nat, k \in Same PROVE k + 1 \in Same
    <3> SUFFICES ASSUME (k + 1) + 1 <= Len(p) PROVE flat[(k + 1) + 1] = h[(k + 1) + 1]
      OBVIOUS
    <3>1. /\ (k + 1) + 1 \in 1 .. Len(p) /\ (k + 1) + 1 # 1 /\ ((k + 1) + 1) - 1 = k + 1
          /\ k + 1 <= Len(p)
      BY <1>n
    <3>2. flat[k + 1] = h[k + 1]
      BY <2>6, <3>1
    <3> QED
      BY <2>1, <2>4, <3>1, <3>2
  <2> HIDE DEF Same
  <2>7. Nat \subseteq Same
    BY <2>5, <2>6, NatInSet
  <2>8. PICK k \in Nat : k + 1 = Len(p)
    <3>1. Len(p) - 1 \in Nat /\ (Len(p) - 1) + 1 = Len(p)
      BY <1>2, <1>n
    <3> QED
      BY <3>1
  <2>9. flat[Len(p)] = h[Len(p)]
    <3>1. k \in Same /\ k + 1 <= Len(p)
      BY <1>n, <2>7, <2>8
    <3>2. flat[k + 1] = h[k + 1]
      BY <3>1 DEF Same
    <3> QED
      BY <2>8, <3>2
  <2> QED
    BY <1>2, <2>9 DEF FlattenSeq, flat
<1> QED
  BY <1>1, <1>2

LEMMA FlatSteps ==
    ASSUME NEW T
    PROVE  \A p \in Seq(Seq(T)) : \E h \in [0 .. Len(p) -> Seq(T)] : JoinsTo(p, h)
<1> DEFINE Good(p) == \E h \in [0 .. Len(p) -> Seq(T)] : JoinsTo(p, h)
           N == {n \in Nat : \A p \in Seq(Seq(T)) : Len(p) = n => Good(p)}
<1>1. 0 \in N
  <2> SUFFICES ASSUME NEW p \in Seq(Seq(T)), Len(p) = 0 PROVE Good(p)
    OBVIOUS
  <2> DEFINE h == [i \in 0 .. 0 |-> <<>>]
  <2>1. h \in [0 .. Len(p) -> Seq(T)] /\ h[0] = <<>>
    BY EmptySeq
  <2> HIDE DEF h
  <2>2. JoinsTo(p, h)
    BY <2>1 DEF JoinsTo
  <2> QED
    BY <2>1, <2>2
<1>2. ASSUME NEW n \in Nat, n \in N PROVE n + 1 \in N
  <2> SUFFICES ASSUME NEW p \in Seq(Seq(T)), Len(p) = n + 1 PROVE Good(p)
    OBVIOUS
  <2>1. p # <<>>
    BY EmptySeq
  <2>2. PICK q \in Seq(Seq(T)), x \in Seq(T) : p = Append(q, x)
    BY <2>1, SequenceEmptyOrAppend
  <2>3. /\ Len(q) = n
        /\ \A i \in 1 .. n : p[i] = q[i]
        /\ p[n + 1] = x
    <3>1. Len(q) \in Nat
      BY LenProperties
    <3> QED
      BY <2>2, <3>1, AppendProperties
  <2>4. PICK g \in [0 .. n -> Seq(T)] : JoinsTo(q, g)
    BY <1>2, <2>3
  <2> DEFINE h == [i \in 0 .. (n + 1) |-> IF i = n + 1 THEN g[n] \o x ELSE g[i]]
  <2>5. g[n] \o x \in Seq(T)
    BY ConcatProperties
  <2>6. h \in [0 .. Len(p) -> Seq(T)]
    BY <2>5
  <2>7. JoinsTo(p, h)
    <3>1. h[0] = <<>>
      BY <2>4 DEF JoinsTo
    <3>2. ASSUME NEW i \in 1 .. (n + 1) PROVE h[i] = h[i - 1] \o p[i]
      <4>1. CASE i = n + 1
        <5>1. h[i - 1] = g[n] /\ h[i] = g[n] \o x
          BY <4>1
        <5> QED
          BY <2>3, <4>1, <5>1
      <4>2. CASE i # n + 1
        <5>1. i \in 1 .. n
          BY <4>2
        <5>2. h[i - 1] = g[i - 1] /\ h[i] = g[i]
          BY <5>1
        <5>3. g[i] = g[i - 1] \o q[i]
          BY <2>3, <2>4, <5>1 DEF JoinsTo
        <5> QED
          BY <2>3, <5>1, <5>2, <5>3
      <4> QED
        BY <4>1, <4>2
    <3> HIDE DEF h
    <3> QED
      BY <3>1, <3>2 DEF JoinsTo
  <2> HIDE DEF h
  <2> QED
    BY <2>6, <2>7
<1> HIDE DEF N
<1>3. Nat \subseteq N
  BY <1>1, <1>2, NatInSet
<1> SUFFICES ASSUME NEW p \in Seq(Seq(T)) PROVE Good(p)
  OBVIOUS
<1>4. Len(p) \in N
  BY <1>3, LenProperties
<1> QED
  BY <1>4 DEF N

LEMMA FlatTyped ==
    ASSUME NEW T, NEW p \in Seq(Seq(T))
    PROVE  FlattenSeq(p) \in Seq(T)
<1>1. PICK h \in [0 .. Len(p) -> Seq(T)] : JoinsTo(p, h)
  BY FlatSteps
<1>2. Len(p) \in 0 .. Len(p)
  BY LenProperties
<1> QED
  BY <1>1, <1>2, FlatUnique

LEMMA FlatEmpty == FlattenSeq(<<>>) = <<>>
BY DEF FlattenSeq

LEMMA FlatAppend ==
    ASSUME NEW T, NEW p \in Seq(Seq(T)), NEW x \in Seq(T)
    PROVE  FlattenSeq(Append(p, x)) = FlattenSeq(p) \o x
<1> DEFINE r == Append(p, x)
<1>1. PICK h \in [0 .. Len(r) -> Seq(T)] : JoinsTo(r, h)
  <2>1. r \in Seq(Seq(T))
    BY AppendProperties
  <2> QED
    BY <2>1, FlatSteps
<1>2. r \in Seq(Seq(T)) /\ Len(r) = Len(p) + 1 /\ Len(p) \in Nat /\ r[Len(p) + 1] = x
  BY AppendProperties, LenProperties
<1>3. \A i \in 1 .. Len(p) : r[i] = p[i]
  BY AppendProperties
<1> HIDE DEF r
<1> DEFINE g == [i \in 0 .. Len(p) |-> h[i]]
<1>4. g \in [0 .. Len(p) -> Seq(T)]
  BY <1>2
<1>5. \A i \in 0 .. Len(p) : g[i] = h[i]
  OBVIOUS
<1> HIDE DEF g
<1>6. JoinsTo(p, g)
  <2>1. g[0] = <<>>
    BY <1>1, <1>2, <1>5 DEF JoinsTo
  <2>2. ASSUME NEW i \in 1 .. Len(p) PROVE g[i] = g[i - 1] \o p[i]
    <3>1. i \in 1 .. Len(r) /\ i - 1 \in 0 .. Len(p) /\ i \in 0 .. Len(p)
      BY <1>2
    <3> QED
      BY <1>1, <1>3, <1>5, <3>1 DEF JoinsTo
  <2> QED
    BY <2>1, <2>2 DEF JoinsTo
<1>7. FlattenSeq(p) = h[Len(p)]
  <2>1. Len(p) \in 0 .. Len(p)
    BY <1>2
  <2> QED
    BY <1>4, <1>5, <1>6, <2>1, FlatUnique
<1>8. FlattenSeq(r) = h[Len(r)]
  BY <1>1, <1>2, FlatUnique
<1>9. h[Len(p) + 1] = h[Len(p)] \o x
  <2>1. Len(p) + 1 \in 1 .. Len(r) /\ (Len(p) + 1) - 1 = Len(p)
    BY <1>2
  <2> QED
    BY <1>1, <1>2, <2>1 DEF JoinsTo
<1> QED
  BY <1>2, <1>7, <1>8, <1>9 DEF r

LEMMA FlatConcat ==
    ASSUME NEW T, NEW p \in Seq(Seq(T))
    PROVE  \A q \in Seq(Seq(T)) : FlattenSeq(p \o q) = FlattenSeq(p) \o FlattenSeq(q)
<1> DEFINE Good(q) == FlattenSeq(p \o q) = FlattenSeq(p) \o FlattenSeq(q)
           N == {n \in Nat : \A q \in Seq(Seq(T)) : Len(q) = n => Good(q)}
<1>1. 0 \in N
  <2> SUFFICES ASSUME NEW q \in Seq(Seq(T)), Len(q) = 0 PROVE Good(q)
    OBVIOUS
  <2>1. q = <<>>
    BY EmptySeq
  <2>2. p \o <<>> = p /\ FlattenSeq(p) \o <<>> = FlattenSeq(p)
    BY FlatTyped, ConcatEmptySeq
  <2> QED
    BY <2>1, <2>2, FlatEmpty
<1>2. ASSUME NEW n \in Nat, n \in N PROVE n + 1 \in N
  <2> SUFFICES ASSUME NEW q \in Seq(Seq(T)), Len(q) = n + 1 PROVE Good(q)
    OBVIOUS
  <2>1. q # <<>>
    BY EmptySeq
  <2>2. PICK r \in Seq(Seq(T)), x \in Seq(T) : q = Append(r, x)
    BY <2>1, SequenceEmptyOrAppend
  <2>3. Len(r) = n
    <3>1. Len(r) \in Nat
      BY LenProperties
    <3> QED
      BY <2>2, <3>1, AppendProperties
  <2>4. FlattenSeq(p \o r) = FlattenSeq(p) \o FlattenSeq(r)
    BY <1>2, <2>3
  <2>5. p \o r \in Seq(Seq(T))
    BY ConcatProperties
  <2>6. p \o Append(r, x) = Append(p \o r, x)
    <3>1. <<x>> \in Seq(Seq(T))
      OBVIOUS
    <3>2. Append(r, x) = r \o <<x>> /\ Append(p \o r, x) = (p \o r) \o <<x>>
      BY <2>5, AppendIsConcat
    <3>3. (p \o r) \o <<x>> = p \o (r \o <<x>>)
      BY <3>1, ConcatAssociative, SMTT(40)
    <3> QED
      BY <3>2, <3>3
  <2>7. FlattenSeq(Append(p \o r, x)) = FlattenSeq(p \o r) \o x
    BY <2>5, FlatAppend
  <2>8. FlattenSeq(Append(r, x)) = FlattenSeq(r) \o x
    BY FlatAppend
  <2>9. (FlattenSeq(p) \o FlattenSeq(r)) \o x = FlattenSeq(p) \o (FlattenSeq(r) \o x)
    <3>1. PICK a \in Seq(T) : a = FlattenSeq(p)
      BY FlatTyped
    <3>2. PICK b \in Seq(T) : b = FlattenSeq(r)
      BY FlatTyped
    <3>3. (a \o b) \o x = a \o (b \o x)
      BY ConcatAssociative, SMTT(40)
    <3> QED
      BY <3>1, <3>2, <3>3
  <2> QED
    BY <2>2, <2>4, <2>6, <2>7, <2>8, <2>9
<1> HIDE DEF N
<1>3. Nat \subseteq N
  BY <1>1, <1>2, NatInSet
<1> SUFFICES ASSUME NEW q \in Seq(Seq(T)) PROVE Good(q)
  OBVIOUS
<1>4. Len(q) \in N
  BY <1>3, LenProperties
<1> QED
  BY <1>4 DEF N

-----------------------------------------------------------------------------
(* Tokens and places *)

Name == {"command", "header", "body", "nul", "newline"}
Tok  == [of : Frame, is : Name]

\* The tokens of a packed frame, in order.
Names == <<"command", "newline", "header", "newline", "newline", "body", "nul", "newline">>

LEMMA TokenTyped ==
    ASSUME NEW f \in Frame, NEW t \in Name
    PROVE  Token(f, t) \in Tok /\ Token(f, t).is = t /\ Token(f, t).of = f
BY DEF Token, Tok

LEMMA FindIs ==
    ASSUME NEW x \in Seq(Tok), NEW t, NEW n \in 1 .. Len(x), x[n].is = t,
           \A i \in 1 .. (n - 1) : x[i].is # t
    PROVE  Find(x, t) = n
<1> DEFINE places == {i \in DOMAIN x : x[i].is = t}
<1>1. DOMAIN x = 1 .. Len(x) /\ Len(x) \in Nat
  BY LenProperties
<1>2. n \in places
  BY <1>1
<1>3. \A j \in places : n <= j
  BY <1>1
<1>4. \A i \in places : (\A j \in places : i <= j) => i = n
  BY <1>1, <1>2, <1>3
<1>5. (CHOOSE i \in places : \A j \in places : i <= j) = n
  <2> HIDE DEF places
  <2> QED
    BY <1>2, <1>3, <1>4
<1> HIDE DEF places
<1> QED
  BY <1>2, <1>5 DEF Find, places

LEMMA FindNone ==
    ASSUME NEW x \in Seq(Tok), NEW t, \A i \in 1 .. Len(x) : x[i].is # t
    PROVE  Find(x, t) = 0
<1>1. DOMAIN x = 1 .. Len(x)
  BY LenProperties
<1> QED
  BY <1>1 DEF Find

NotAt(x, i, t, u) == x[i].is # t \/ x[i + 1].is # u

LEMMA IndexIs ==
    ASSUME NEW x \in Seq(Tok), NEW t, NEW u, NEW n \in 1 .. Len(x), n + 1 \in 1 .. Len(x),
           x[n].is = t, x[n + 1].is = u,
           \A i \in 1 .. (n - 1) : NotAt(x, i, t, u)
    PROVE  Index(x, t, u) = n
<1> DEFINE places == {i \in DOMAIN x : Is(x, i, t) /\ Is(x, i + 1, u)}
<1>1. DOMAIN x = 1 .. Len(x) /\ Len(x) \in Nat
  BY LenProperties
<1>2. n \in places
  BY <1>1 DEF Is
<1>3. \A j \in places : n <= j
  BY <1>1 DEF Is, NotAt
<1>4. \A i \in places : (\A j \in places : i <= j) => i = n
  BY <1>1, <1>2, <1>3
<1>5. (CHOOSE i \in places : \A j \in places : i <= j) = n
  <2> HIDE DEF places
  <2> QED
    BY <1>2, <1>3, <1>4
<1> HIDE DEF places
<1> QED
  BY <1>2, <1>5 DEF Index, places

LEMMA IndexNone ==
    ASSUME NEW x \in Seq(Tok), NEW t, NEW u, \A i \in 1 .. Len(x) : x[i].is # t
    PROVE  Index(x, t, u) = 0
<1>1. DOMAIN x = 1 .. Len(x)
  BY LenProperties
<1> QED
  BY <1>1 DEF Index, Is

\* x and y make z.
JoinIs(x, y, z) == x \o y = z

\* Two ways of dividing one sequence.
SameJoin(x, y, a, b) == x \o y = a \o b

\* What lies between the cuts, when that of the second one comes first.
Between(T, x, y, a, b) == \E c \in Seq(T) : x = a \o c /\ b = c \o y

\* Of two ways of dividing a sequence, the one that is cut later has what lies
\* between the cuts in its first part, and the other one in its second.
LEMMA Split ==
    ASSUME NEW T, NEW x \in Seq(T), NEW y \in Seq(T), NEW a \in Seq(T), NEW b \in Seq(T),
           SameJoin(x, y, a, b), Len(a) <= Len(x)
    PROVE  Between(T, x, y, a, b)
<1> DEFINE c == SubSeq(x, Len(a) + 1, Len(x))
<1>1. Len(x) \in Nat /\ Len(y) \in Nat /\ Len(a) \in Nat /\ Len(b) \in Nat
  BY LenProperties
<1>s. x \o y = a \o b
  BY DEF SameJoin
<1>2. Len(x) + Len(y) = Len(a) + Len(b)
  BY <1>s, ConcatProperties
<1>3. /\ c \in Seq(T) /\ Len(c) = Len(x) - Len(a)
      /\ \A i \in 1 .. Len(x) - Len(a) : c[i] = x[Len(a) + i]
  <2>1. \A i \in Len(a) + 1 .. Len(x) : x[i] \in T
    BY <1>1, ElementOfSeq
  <2>2. /\ c \in Seq(T)
        /\ Len(c) = IF Len(a) + 1 <= Len(x) THEN Len(x) - (Len(a) + 1) + 1 ELSE 0
        /\ \A i \in 1 .. Len(x) - (Len(a) + 1) + 1 : c[i] = x[Len(a) + 1 + i - 1]
    BY <1>1, <2>1, SubSeqProperties
  <2> QED
    BY <1>1, <2>2
<1> HIDE DEF c
<1>4. \A i \in 1 .. Len(x) + Len(y) :
        /\ (x \o y)[i] = IF i <= Len(x) THEN x[i] ELSE y[i - Len(x)]
        /\ (a \o b)[i] = IF i <= Len(a) THEN a[i] ELSE b[i - Len(a)]
  BY <1>s, <1>2, ConcatProperties
<1>5. x = a \o c
  <2>1. /\ a \o c \in Seq(T) /\ Len(a \o c) = Len(x)
        /\ \A i \in 1 .. Len(x) : (a \o c)[i] = IF i <= Len(a) THEN a[i] ELSE c[i - Len(a)]
    <3>1. /\ a \o c \in Seq(T) /\ Len(a \o c) = Len(a) + Len(c)
          /\ \A i \in 1 .. Len(a) + Len(c) :
                (a \o c)[i] = IF i <= Len(a) THEN a[i] ELSE c[i - Len(a)]
      BY <1>3, ConcatProperties
    <3>2. Len(a) + Len(c) = Len(x)
      BY <1>1, <1>3
    <3> QED
      BY <3>1, <3>2
  <2>2. ASSUME NEW i \in 1 .. Len(x) PROVE (a \o c)[i] = x[i]
    <3>1. i \in 1 .. Len(x) + Len(y)
      BY <1>1
    <3>2. CASE i <= Len(a)
      BY <1>s, <1>4, <2>1, <3>1, <3>2
    <3>3. CASE ~(i <= Len(a))
      <4>1. i - Len(a) \in 1 .. Len(x) - Len(a) /\ Len(a) + (i - Len(a)) = i
        BY <1>1, <3>3
      <4> QED
        BY <1>3, <2>1, <3>3, <4>1
    <3> QED
      BY <3>2, <3>3
  <2> QED
    BY <2>1, <2>2, SeqEqual
<1>6. b = c \o y
  <2>1. /\ c \o y \in Seq(T) /\ Len(c \o y) = Len(b)
        /\ \A i \in 1 .. Len(b) : (c \o y)[i] = IF i <= Len(c) THEN c[i] ELSE y[i - Len(c)]
    <3>1. /\ c \o y \in Seq(T) /\ Len(c \o y) = Len(c) + Len(y)
          /\ \A i \in 1 .. Len(c) + Len(y) :
                (c \o y)[i] = IF i <= Len(c) THEN c[i] ELSE y[i - Len(c)]
      BY <1>3, ConcatProperties
    <3>2. Len(c) + Len(y) = Len(b)
      BY <1>1, <1>2, <1>3
    <3> QED
      BY <3>1, <3>2
  <2>2. ASSUME NEW i \in 1 .. Len(b) PROVE (c \o y)[i] = b[i]
    <3>1. /\ Len(a) + i \in 1 .. Len(x) + Len(y) /\ (Len(a) + i) - Len(a) = i
          /\ ~(Len(a) + i <= Len(a))
      BY <1>1, <1>2
    <3>2. b[i] = (x \o y)[Len(a) + i]
      BY <1>s, <1>4, <3>1
    <3>3. CASE i <= Len(c)
      <4>1. i \in 1 .. Len(x) - Len(a) /\ Len(a) + i <= Len(x)
        BY <1>1, <1>3, <3>3
      <4> QED
        BY <1>3, <1>4, <2>1, <3>1, <3>2, <3>3, <4>1
    <3>4. CASE ~(i <= Len(c))
      <4>1. ~(Len(a) + i <= Len(x)) /\ (Len(a) + i) - Len(x) = i - Len(c)
        BY <1>1, <1>3, <3>4
      <4> QED
        BY <1>4, <2>1, <3>1, <3>2, <3>4, <4>1
    <3> QED
      BY <3>3, <3>4
  <2> QED
    BY <2>1, <2>2, SeqEqual
<1> QED
  BY <1>3, <1>5, <1>6 DEF Between

\* What is put behind a sequence is put behind its second part, and a second
\* part that is divided can be divided there.
LEMMA JoinMore ==
    ASSUME NEW T, NEW a \in Seq(T), NEW b \in Seq(T), NEW c \in Seq(T), NEW z, JoinIs(a, b, z)
    PROVE  JoinIs(a, b \o c, z \o c)
<1>1. (a \o b) \o c = a \o (b \o c)
  BY ConcatAssociative
<1> QED
  BY <1>1 DEF JoinIs

LEMMA JoinMove ==
    ASSUME NEW T, NEW a \in Seq(T), NEW b \in Seq(T), NEW c \in Seq(T), NEW y, NEW z,
           JoinIs(a, y, z), JoinIs(b, c, y)
    PROVE  JoinIs(a \o b, c, z)
<1>1. (a \o b) \o c = a \o (b \o c)
  BY ConcatAssociative
<1> QED
  BY <1>1 DEF JoinIs

LEMMA JoinApart ==
    ASSUME NEW T, NEW a \in Seq(T), NEW b \in Seq(T), NEW c \in Seq(T), NEW y, NEW z,
           JoinIs(y, c, z), JoinIs(a, b, y)
    PROVE  JoinIs(a, b \o c, z)
<1>1. (a \o b) \o c = a \o (b \o c)
  BY ConcatAssociative
<1> QED
  BY <1>1 DEF JoinIs

\* What First and Drop cut is the sequence again.
LEMMA FirstDrop ==
    ASSUME NEW T, NEW x \in Seq(T), NEW n \in 0 .. Len(x)
    PROVE  /\ First(x, n) \in Seq(T) /\ Len(First(x, n)) = n
           /\ Drop(x, n) \in Seq(T) /\ Len(Drop(x, n)) = Len(x) - n
           /\ x = First(x, n) \o Drop(x, n) /\ JoinIs(First(x, n), Drop(x, n), x)
<1>1. Len(x) \in Nat /\ n \in Nat /\ n <= Len(x)
  BY LenProperties
<1>2. First(x, n) \in Seq(T) /\ Len(First(x, n)) = n
  <2>1. \A i \in 1 .. n : x[i] \in T
    BY <1>1, ElementOfSeq
  <2>2. /\ SubSeq(x, 1, n) \in Seq(T)
        /\ Len(SubSeq(x, 1, n)) = IF 1 <= n THEN n - 1 + 1 ELSE 0
    BY <1>1, <2>1, SubSeqProperties
  <2> QED
    BY <1>1, <2>2 DEF First
<1>3. Drop(x, n) \in Seq(T) /\ Len(Drop(x, n)) = Len(x) - n
  <2>1. \A i \in n + 1 .. Len(x) : x[i] \in T
    BY <1>1, ElementOfSeq
  <2>2. /\ SubSeq(x, n + 1, Len(x)) \in Seq(T)
        /\ Len(SubSeq(x, n + 1, Len(x))) = IF n + 1 <= Len(x) THEN Len(x) - (n + 1) + 1 ELSE 0
    BY <1>1, <2>1, SubSeqProperties
  <2> QED
    BY <1>1, <2>2 DEF Drop
<1>4. x = First(x, n) \o Drop(x, n)
  <2>1. 1 \in 1 .. Len(x) + 1 /\ n \in 1 - 1 .. Len(x) /\ Len(x) \in n .. Len(x)
    BY <1>1
  <2>2. SubSeq(x, 1, n) \o SubSeq(x, n + 1, Len(x)) = SubSeq(x, 1, Len(x))
    BY <2>1, ConcatAdjacentSubSeq
  <2> QED
    BY <2>2, SubSeqFull DEF First, Drop
<1> QED
  BY <1>2, <1>3, <1>4 DEF JoinIs

\* A sequence that is put together is cut where its parts meet.
LEMMA CutConcat ==
    ASSUME NEW T, NEW a \in Seq(T), NEW b \in Seq(T)
    PROVE  First(a \o b, Len(a)) = a /\ Drop(a \o b, Len(a)) = b
<1> DEFINE x == a \o b
<1>1. x \in Seq(T) /\ Len(x) = Len(a) + Len(b) /\ Len(a) \in Nat /\ Len(b) \in Nat
  BY ConcatProperties, LenProperties
<1>2. Len(a) \in 0 .. Len(x)
  BY <1>1
<1> HIDE DEF x
<1>3. PICK p \in Seq(T) : p = First(x, Len(a)) /\ Len(p) = Len(a)
  BY <1>1, <1>2, FirstDrop
<1>4. PICK q \in Seq(T) : q = Drop(x, Len(a))
  BY <1>1, <1>2, FirstDrop
<1>5. SameJoin(p, q, a, b)
  <2>1. x = First(x, Len(a)) \o Drop(x, Len(a))
    BY <1>1, <1>2, FirstDrop
  <2> QED
    BY <1>3, <1>4, <2>1 DEF x, SameJoin
<1>6. PICK c \in Seq(T) : p = a \o c /\ b = c \o q
  <2>1. Len(a) <= Len(p)
    BY <1>1, <1>3
  <2>2. Between(T, p, q, a, b)
    BY <1>5, <2>1, Split
  <2> QED
    BY <2>2 DEF Between
<1>7. c = <<>>
  <2>1. Len(p) = Len(a) + Len(c) /\ Len(c) \in Nat
    BY <1>6, ConcatProperties, LenProperties
  <2>2. Len(c) = 0
    BY <1>1, <1>3, <2>1
  <2> QED
    BY <2>2, EmptySeq
<1>8. a \o <<>> = a /\ <<>> \o q = q
  BY ConcatEmptySeq
<1> QED
  BY <1>3, <1>4, <1>6, <1>7, <1>8 DEF x

-----------------------------------------------------------------------------
(* Items that are put on a stream one after another *)

Pieces(F, s) == [i \in DOMAIN s |-> F[s[i]]]
Joined(F, s) == FlattenSeq(Pieces(F, s))

Matches(p, F, s) == Len(p) = Len(s) /\ \A i \in 1 .. Len(s) : p[i] = F[s[i]]

LEMMA FunctionSeq ==
    ASSUME NEW S, NEW n \in Nat, NEW g \in [1 .. n -> S]
    PROVE  g \in Seq(S) /\ Len(g) = n
<1>1. g \in UNION {[1 .. k -> S] : k \in Nat}
  OBVIOUS
<1>2. g \in Seq(S)
  BY <1>1, SeqDef
<1>3. DOMAIN g = 1 .. n /\ DOMAIN g = 1 .. Len(g) /\ Len(g) \in Nat
  BY <1>2, LenProperties
<1> QED
  BY <1>2, <1>3

LEMMA PiecesTyped ==
    ASSUME NEW D, NEW T, NEW F \in [D -> Seq(T)], NEW s \in Seq(D)
    PROVE  Pieces(F, s) \in Seq(Seq(T)) /\ Matches(Pieces(F, s), F, s)
<1>1. Len(s) \in Nat /\ DOMAIN s = 1 .. Len(s)
  BY LenProperties
<1>2. \A i \in 1 .. Len(s) : s[i] \in D
  BY ElementOfSeq
<1>3. Pieces(F, s) \in [1 .. Len(s) -> Seq(T)]
  BY <1>1, <1>2 DEF Pieces
<1>4. \A i \in 1 .. Len(s) : Pieces(F, s)[i] = F[s[i]]
  BY <1>1 DEF Pieces
<1>5. Pieces(F, s) \in Seq(Seq(T)) /\ Len(Pieces(F, s)) = Len(s)
  BY <1>1, <1>3, FunctionSeq
<1> QED
  BY <1>4, <1>5 DEF Matches

LEMMA JoinedTyped ==
    ASSUME NEW D, NEW T, NEW F \in [D -> Seq(T)], NEW s \in Seq(D)
    PROVE  Joined(F, s) \in Seq(T)
<1>1. Pieces(F, s) \in Seq(Seq(T))
  BY PiecesTyped
<1> QED
  BY <1>1, FlatTyped DEF Joined

LEMMA JoinedEmpty ==
    ASSUME NEW F
    PROVE  Joined(F, <<>>) = <<>>
<1>1. Pieces(F, <<>>) = <<>>
  BY DEF Pieces
<1> QED
  BY <1>1, FlatEmpty DEF Joined

LEMMA JoinedOne ==
    ASSUME NEW D, NEW T, NEW F \in [D -> Seq(T)], NEW x \in D
    PROVE  Joined(F, <<x>>) = F[x]
<1>1. Pieces(F, <<x>>) = <<F[x]>>
  BY DEF Pieces
<1>2. <<>> \in Seq(Seq(T)) /\ F[x] \in Seq(T)
  BY EmptySeq
<1>3. FlattenSeq(Append(<<>>, F[x])) = FlattenSeq(<<>>) \o F[x]
  BY <1>2, FlatAppend
<1>4. Append(<<>>, F[x]) = <<F[x]>>
  OBVIOUS
<1>5. <<>> \o F[x] = F[x]
  BY <1>2, ConcatEmptySeq
<1> QED
  BY <1>1, <1>3, <1>4, <1>5, FlatEmpty DEF Joined

LEMMA JoinedConcat ==
    ASSUME NEW D, NEW T, NEW F \in [D -> Seq(T)], NEW s \in Seq(D), NEW t \in Seq(D)
    PROVE  Joined(F, s \o t) = Joined(F, s) \o Joined(F, t)
<1>3. /\ s \o t \in Seq(D) /\ Len(s \o t) = Len(s) + Len(t)
      /\ \A i \in 1 .. Len(s) + Len(t) :
            (s \o t)[i] = IF i <= Len(s) THEN s[i] ELSE t[i - Len(s)]
  BY ConcatProperties
<1>1. PICK p \in Seq(Seq(T)) : p = Pieces(F, s) /\ Matches(p, F, s)
  BY PiecesTyped
<1>2. PICK q \in Seq(Seq(T)) : q = Pieces(F, t) /\ Matches(q, F, t)
  BY PiecesTyped
<1>4. PICK r \in Seq(Seq(T)) : r = Pieces(F, s \o t) /\ Matches(r, F, s \o t)
  BY <1>3, PiecesTyped
<1>5. /\ p \o q \in Seq(Seq(T)) /\ Len(p \o q) = Len(p) + Len(q)
      /\ \A i \in 1 .. Len(p) + Len(q) :
            (p \o q)[i] = IF i <= Len(p) THEN p[i] ELSE q[i - Len(p)]
  BY ConcatProperties
<1>6. Len(s) \in Nat /\ Len(t) \in Nat
  BY LenProperties
<1>7. ASSUME NEW i \in 1 .. Len(s) + Len(t) PROVE r[i] = (p \o q)[i]
  <2>1. CASE i <= Len(s)
    <3>1. i \in 1 .. Len(s)
      BY <1>6, <2>1
    <3> QED
      BY <1>1, <1>2, <1>3, <1>4, <1>5, <2>1, <3>1 DEF Matches
  <2>2. CASE ~(i <= Len(s))
    <3>1. i - Len(s) \in 1 .. Len(t)
      BY <1>6, <2>2
    <3>2. r[i] = F[t[i - Len(s)]]
      BY <1>3, <1>4, <2>2 DEF Matches
    <3>3. (p \o q)[i] = q[i - Len(s)]
      BY <1>1, <1>2, <1>5, <2>2 DEF Matches
    <3> QED
      BY <1>2, <3>1, <3>2, <3>3 DEF Matches
  <2> QED
    BY <2>1, <2>2
<1>8. r = p \o q
  <2>1. Len(r) = Len(p \o q) /\ \A i \in 1 .. Len(r) : r[i] = (p \o q)[i]
    <3>1. Len(r) = Len(s) + Len(t) /\ Len(p \o q) = Len(s) + Len(t)
      BY <1>1, <1>2, <1>3, <1>4, <1>5 DEF Matches
    <3> QED
      BY <1>7, <3>1
  <2> QED
    BY <1>5, <2>1, SeqEqual
<1>9. FlattenSeq(p \o q) = FlattenSeq(p) \o FlattenSeq(q)
  BY FlatConcat
<1> QED
  BY <1>1, <1>2, <1>4, <1>8, <1>9 DEF Joined

-----------------------------------------------------------------------------
(* Frames on a stream *)

\* A frame as the page sends it and as stomper does, with the names of the tokens.
LEMMA BareIs ==
    ASSUME NEW f \in Frame
    PROVE  /\ Bare(f) \in Seq(Tok) /\ Len(Bare(f)) = 7
           /\ \A i \in 1 .. 7 : Bare(f)[i] = Token(f, Names[i])
           /\ Pack(f) = Bare(f) \o <<Newline(f)>>
<1>1. \A t \in Name : Token(f, t) \in Tok
  BY TokenTyped
<1>2. Bare(f) \in Seq(Tok)
  BY <1>1 DEF Bare, Newline, Name
<1>3. Len(Bare(f)) = 7
  BY DEF Bare
<1>4. \A i \in 1 .. 7 : i = 1 \/ i = 2 \/ i = 3 \/ i = 4 \/ i = 5 \/ i = 6 \/ i = 7
  OBVIOUS
<1>5. \A i \in 1 .. 7 : Bare(f)[i] = Token(f, Names[i])
  BY <1>4 DEF Bare, Names, Newline
<1>6. Pack(f) = Bare(f) \o <<Newline(f)>>
  <2>1. Newline(f) \in Tok
    BY <1>1 DEF Newline, Name
  <2> QED
    BY <1>2, <2>1, AppendIsConcat DEF Pack
<1> QED
  BY <1>2, <1>3, <1>5, <1>6

LEMMA PackIs ==
    ASSUME NEW f \in Frame
    PROVE  /\ Pack(f) \in Seq(Tok) /\ Len(Pack(f)) = 8
           /\ \A i \in 1 .. 8 : Pack(f)[i] = Token(f, Names[i])
<1>1. PICK b \in Seq(Tok) : /\ b = Bare(f) /\ Len(b) = 7
                             /\ \A i \in 1 .. 7 : b[i] = Token(f, Names[i])
  BY BareIs
<1>2. Newline(f) \in Tok
  BY TokenTyped DEF Newline, Name
<1>3. /\ Append(b, Newline(f)) \in Seq(Tok) /\ Len(Append(b, Newline(f))) = 8
      /\ \A i \in 1 .. 7 : Append(b, Newline(f))[i] = b[i]
      /\ Append(b, Newline(f))[8] = Newline(f)
  <2>1. /\ Append(b, Newline(f)) \in Seq(Tok) /\ Len(Append(b, Newline(f))) = Len(b) + 1
        /\ \A i \in 1 .. Len(b) : Append(b, Newline(f))[i] = b[i]
        /\ Append(b, Newline(f))[Len(b) + 1] = Newline(f)
    BY <1>2, AppendProperties
  <2> QED
    BY <1>1, <2>1
<1>4. Names[8] = "newline"
  BY DEF Names
<1> QED
  BY <1>1, <1>3, <1>4 DEF Pack, Newline

Bared == [f \in Frame |-> Bare(f)]
Boxed == [f \in Frame |-> Pack(f)]
Twice == [t \in Tok |-> Doubled(t)]

LEMMA StreamsTyped ==
    Bared \in [Frame -> Seq(Tok)] /\ Boxed \in [Frame -> Seq(Tok)] /\ Twice \in [Tok -> Seq(Tok)]
<1>1. \A f \in Frame : Bare(f) \in Seq(Tok) /\ Pack(f) \in Seq(Tok)
  BY BareIs, PackIs
<1>2. \A t \in Tok : Doubled(t) \in Seq(Tok)
  <2> SUFFICES ASSUME NEW t \in Tok PROVE Doubled(t) \in Seq(Tok)
    OBVIOUS
  <2>1. Newline(t.of) \in Tok
    BY DEF Newline, Token, Tok, Name
  <2>2. <<t>> \in Seq(Tok) /\ <<t, Newline(t.of)>> \in Seq(Tok)
    BY <2>1
  <2> QED
    BY <2>2 DEF Doubled
<1> QED
  BY <1>1, <1>2 DEF Bared, Boxed, Twice

LEMMA PackedIs ==
    ASSUME NEW fs \in Seq(Frame)
    PROVE  Packed(fs) = Joined(Boxed, fs)
<1>1. \A i \in DOMAIN fs : fs[i] \in Frame
  BY LenProperties, ElementOfSeq
<1>2. [i \in DOMAIN fs |-> Pack(fs[i])] = [i \in DOMAIN fs |-> Boxed[fs[i]]]
  BY <1>1 DEF Boxed
<1> QED
  BY <1>2 DEF Packed, Joined, Pieces

LEMMA WithNewlinesIs ==
    ASSUME NEW x \in Seq(Tok)
    PROVE  WithNewlines(x) = Joined(Twice, x)
<1>1. \A i \in DOMAIN x : x[i] \in Tok
  BY LenProperties, ElementOfSeq
<1>2. [i \in DOMAIN x |-> Doubled(x[i])] = [i \in DOMAIN x |-> Twice[x[i]]]
  BY <1>1 DEF Twice
<1> QED
  BY <1>2 DEF WithNewlines, Joined, Pieces

Bares(fs) == Joined(Bared, fs)
Boxes(fs) == Joined(Boxed, fs)

LEMMA FirstDropAt ==
    ASSUME NEW T, NEW x \in Seq(T), NEW n \in 0 .. Len(x)
    PROVE  /\ \A i \in 1 .. n : First(x, n)[i] = x[i]
           /\ \A i \in 1 .. Len(x) - n : Drop(x, n)[i] = x[n + i]
<1>1. Len(x) \in Nat /\ n \in Nat /\ n <= Len(x)
  BY LenProperties
<1>2. \A i \in 1 .. n : First(x, n)[i] = x[i]
  <2>1. \A i \in 1 .. n : x[i] \in T
    BY <1>1, ElementOfSeq
  <2>2. \A i \in 1 .. n - 1 + 1 : SubSeq(x, 1, n)[i] = x[1 + i - 1]
    BY <1>1, <2>1, SubSeqProperties
  <2> QED
    BY <1>1, <2>2 DEF First
<1>3. \A i \in 1 .. Len(x) - n : Drop(x, n)[i] = x[n + i]
  <2>1. \A i \in n + 1 .. Len(x) : x[i] \in T
    BY <1>1, ElementOfSeq
  <2>2. \A i \in 1 .. Len(x) - (n + 1) + 1 : SubSeq(x, n + 1, Len(x))[i] = x[n + 1 + i - 1]
    BY <1>1, <2>1, SubSeqProperties
  <2> QED
    BY <1>1, <2>2 DEF Drop
<1> QED
  BY <1>2, <1>3

-----------------------------------------------------------------------------
(* The newlines that the broker puts behind every NUL *)

LEMMA DoubledTyped ==
    ASSUME NEW x \in Seq(Tok), NEW y \in Seq(Tok)
    PROVE  /\ WithNewlines(x) \in Seq(Tok)
           /\ WithNewlines(x \o y) = WithNewlines(x) \o WithNewlines(y)
<1>1. x \o y \in Seq(Tok)
  BY ConcatProperties
<1>2. /\ WithNewlines(x) = Joined(Twice, x) /\ WithNewlines(y) = Joined(Twice, y)
      /\ WithNewlines(x \o y) = Joined(Twice, x \o y)
  BY <1>1, WithNewlinesIs
<1>3. Twice \in [Tok -> Seq(Tok)]
  BY StreamsTyped
<1>4. Joined(Twice, x \o y) = Joined(Twice, x) \o Joined(Twice, y)
  BY <1>3, JoinedConcat, SMTT(40)
<1>5. Joined(Twice, x) \in Seq(Tok)
  BY <1>3, JoinedTyped
<1> QED
  BY <1>2, <1>4, <1>5

LEMMA DoubledEmpty == WithNewlines(<<>>) = <<>>
<1>1. <<>> \in Seq(Tok)
  BY EmptySeq
<1>2. WithNewlines(<<>>) = Joined(Twice, <<>>)
  BY <1>1, WithNewlinesIs
<1> QED
  BY <1>2, JoinedEmpty

LEMMA DoubledOne ==
    ASSUME NEW t \in Tok
    PROVE  WithNewlines(<<t>>) = Doubled(t)
<1>1. <<t>> \in Seq(Tok)
  OBVIOUS
<1>2. WithNewlines(<<t>>) = Joined(Twice, <<t>>)
  BY <1>1, WithNewlinesIs
<1>3. Joined(Twice, <<t>>) = Twice[t]
  BY StreamsTyped, JoinedOne
<1> QED
  BY <1>2, <1>3 DEF Twice

\* Without a NUL nothing is added.
Plain(x) == \A i \in 1 .. Len(x) : x[i].is # "nul"

LEMMA DoubledPlain ==
    ASSUME NEW x \in Seq(Tok), Plain(x)
    PROVE  WithNewlines(x) = x
<1> DEFINE Good(y) == Plain(y) => WithNewlines(y) = y
           N == {n \in Nat : \A y \in Seq(Tok) : Len(y) = n => Good(y)}
<1>1. 0 \in N
  <2> SUFFICES ASSUME NEW y \in Seq(Tok), Len(y) = 0 PROVE Good(y)
    OBVIOUS
  <2>1. y = <<>>
    BY EmptySeq
  <2> QED
    BY <2>1, DoubledEmpty
<1>2. ASSUME NEW n \in Nat, n \in N PROVE n + 1 \in N
  <2> SUFFICES ASSUME NEW y \in Seq(Tok), Len(y) = n + 1, Plain(y)
               PROVE  WithNewlines(y) = y
    OBVIOUS
  <2>1. y # <<>>
    BY EmptySeq
  <2>2. PICK z \in Seq(Tok), t \in Tok : y = Append(z, t)
    BY <2>1, SequenceEmptyOrAppend
  <2>3. /\ Len(z) = n /\ \A i \in 1 .. n : y[i] = z[i]
        /\ y[n + 1] = t
    <3>1. Len(z) \in Nat
      BY LenProperties
    <3> QED
      BY <2>2, <3>1, AppendProperties
  <2>4. Plain(z)
    BY <2>3 DEF Plain
  <2>5. WithNewlines(z) = z
    BY <1>2, <2>3, <2>4
  <2>6. t.is # "nul"
    <3>1. n + 1 \in 1 .. Len(y)
      OBVIOUS
    <3> QED
      BY <2>3, <3>1 DEF Plain
  <2>7. WithNewlines(<<t>>) = <<t>>
    BY <2>6, DoubledOne DEF Doubled
  <2>8. y = z \o <<t>>
    BY <2>2, AppendIsConcat
  <2>9. <<t>> \in Seq(Tok)
    OBVIOUS
  <2>10. WithNewlines(z \o <<t>>) = WithNewlines(z) \o WithNewlines(<<t>>)
    BY <2>9, DoubledTyped
  <2> QED
    BY <2>5, <2>7, <2>8, <2>10
<1> HIDE DEF N
<1>3. Len(x) \in N
  BY <1>1, <1>2, NatInSet, LenProperties
<1> QED
  BY <1>3 DEF N

LEMMA DoubledBare ==
    ASSUME NEW f \in Frame
    PROVE  WithNewlines(Bare(f)) = Pack(f)
<1>1. PICK b \in Seq(Tok) : b = Bare(f)
  BY BareIs
<1>2. Len(b) = 7 /\ \A i \in 1 .. 7 : b[i] = Token(f, Names[i])
  BY <1>1, BareIs
<1>3. 6 \in 0 .. Len(b)
  BY <1>2
<1>4. PICK x \in Seq(Tok), y \in Seq(Tok) : x = First(b, 6) /\ y = Drop(b, 6)
  <2>1. First(b, 6) \in Seq(Tok) /\ Drop(b, 6) \in Seq(Tok)
    BY <1>3, FirstDrop
  <2> QED
    BY <2>1
<1>5. Len(x) = 6 /\ Len(y) = 1 /\ b = x \o y
  <2>1. Len(First(b, 6)) = 6 /\ Len(Drop(b, 6)) = Len(b) - 6
    BY <1>3, FirstDrop
  <2>2. b = First(b, 6) \o Drop(b, 6)
    BY <1>3, FirstDrop
  <2> QED
    BY <1>2, <1>4, <2>1, <2>2
<1>6. (\A i \in 1 .. 6 : x[i] = b[i]) /\ y[1] = b[7]
  <2>1. \A i \in 1 .. 6 : x[i] = b[i]
    BY <1>3, <1>4, FirstDropAt
  <2>2. \A i \in 1 .. Len(b) - 6 : y[i] = b[6 + i]
    BY <1>3, <1>4, FirstDropAt
  <2> QED
    BY <1>2, <2>1, <2>2
<1>7. Plain(x)
  <2>1. \A i \in 1 .. 6 : Names[i] # "nul" /\ Names[i] \in Name
    <3>1. \A i \in 1 .. 6 : i = 1 \/ i = 2 \/ i = 3 \/ i = 4 \/ i = 5 \/ i = 6
      OBVIOUS
    <3> QED
      BY <3>1 DEF Names, Name
  <2>2. \A t \in Name : Token(f, t).is = t
    BY TokenTyped
  <2>3. \A i \in 1 .. 6 : x[i].is # "nul"
    BY <1>2, <1>6, <2>1, <2>2, SMTT(40)
  <2> QED
    BY <1>5, <2>3 DEF Plain
<1>8. y = <<Token(f, "nul")>>
  <2>1. y[1] = Token(f, "nul")
    BY <1>2, <1>6 DEF Names
  <2> QED
    BY <1>5, <2>1
<1>9. WithNewlines(y) = <<Token(f, "nul"), Newline(f)>>
  <2>1. Token(f, "nul") \in Tok /\ Token(f, "nul").is = "nul" /\ Token(f, "nul").of = f
    BY TokenTyped DEF Name
  <2> QED
    BY <1>8, <2>1, DoubledOne DEF Doubled
<1>10. WithNewlines(x \o y) = x \o <<Token(f, "nul"), Newline(f)>>
  <2>1. WithNewlines(x) = x
    BY <1>7, DoubledPlain
  <2>2. WithNewlines(x \o y) = WithNewlines(x) \o WithNewlines(y)
    BY DoubledTyped
  <2> QED
    BY <1>9, <2>1, <2>2
<1>11. Newline(f) \in Tok /\ Token(f, "nul") \in Tok
  BY TokenTyped DEF Newline, Name
<1>12. <<Token(f, "nul"), Newline(f)>> = <<Token(f, "nul")>> \o <<Newline(f)>>
  OBVIOUS
<1>13. x \o (y \o <<Newline(f)>>) = (x \o y) \o <<Newline(f)>>
  <2>1. <<Newline(f)>> \in Seq(Tok)
    BY <1>11
  <2> QED
    BY <2>1, ConcatAssociative
<1>14. Pack(f) = Bare(f) \o <<Newline(f)>>
  BY BareIs
<1> QED
  BY <1>1, <1>5, <1>8, <1>10, <1>12, <1>13, <1>14

-----------------------------------------------------------------------------
(* The loops of the broker *)

SyncRounds(S, m) ==
    \A x \in S : /\ Stripped(x) \in S
                 /\ m[Stripped(x)] < m[x] \/ m[Stripped(x)] = 0

LEMMA SyncEnd ==
    ASSUME NEW S, NEW m \in [S -> Nat], NEW b \in Seq(Tok), b \in S, m[b] <= Len(b),
           SyncRounds(S, m)
    PROVE  SyncBuffer(b) \in S /\ m[SyncBuffer(b)] = 0
<1> DEFINE N == Len(b)
           F == [x \in S |-> Stripped(x)]
           Body(g) == [k \in 0 .. N |-> IF k = 0 THEN b ELSE Stripped(g[k - 1])]
           loop == CHOOSE g : g = Body(g)
<1>n. N \in Nat
  BY LenProperties
<1>1. F \in [S -> S]
  BY DEF SyncRounds
<1> HIDE DEF N
<1>2. PICK g \in [0 .. N -> S] : Loops(F, b, N, g)
  <2> HIDE DEF F
  <2>1. CanLoop(S, F, b, N)
    BY <1>n, <1>1, LoopExists
  <2> QED
    BY <2>1 DEF CanLoop
<1>3. g = Body(g)
  <2>1. \A k \in 0 .. N : k # 0 => k - 1 \in 0 .. N /\ g[k - 1] \in S
    BY <1>n
  <2>2. \A k \in 0 .. N : k # 0 => F[g[k - 1]] = Stripped(g[k - 1])
    BY <2>1
  <2> HIDE DEF F
  <2> QED
    BY <1>2, <2>2 DEF Loops
<1>4. loop = Body(loop)
  <2> HIDE DEF Body
  <2> QED
    BY <1>3
<1>5. SyncBuffer(b) = loop[N]
  BY DEF SyncBuffer, N
<1> HIDE DEF loop, F
<1>6. loop[0] = b /\ \A k \in 1 .. N : loop[k] = Stripped(loop[k - 1])
  BY <1>n, <1>4
<1>7. Falls(S, m, N, loop)
  BY <1>6 DEF Falls, SyncRounds
<1>8. loop[0] \in S /\ m[loop[0]] <= N
  BY <1>6 DEF N
<1>9. PICK h : h = loop
  OBVIOUS
<1>10. h[N] \in S /\ m[h[N]] = 0
  <2>1. h[0] \in S /\ m[h[0]] <= N /\ Falls(S, m, N, h)
    BY <1>7, <1>8, <1>9
  <2> QED
    BY <1>n, <2>1, LoopResult
<1> QED
  BY <1>5, <1>9, <1>10

MessageRounds(S, m) ==
    \A x \in S : /\ OneMessage(x) \in S
                 /\ m[OneMessage(x)] < m[x] \/ m[OneMessage(x)] = 0

LEMMA MessagesEnd ==
    ASSUME NEW S, NEW m \in [S -> Nat], NEW data \in Seq(Tok), NEW s0 \in S,
           s0 = [frames |-> <<>>, buffer |-> data, over |-> FALSE], m[s0] <= Len(data) + 1,
           MessageRounds(S, m)
    PROVE  Messages(data) \in S /\ m[Messages(data)] = 0
<1> DEFINE N == Len(data) + 1
           F == [x \in S |-> OneMessage(x)]
           Body(g) == [k \in 0 .. N |->
                         IF k = 0 THEN [frames |-> <<>>, buffer |-> data, over |-> FALSE]
                         ELSE OneMessage(g[k - 1])]
           loop == CHOOSE g : g = Body(g)
<1>n. N \in Nat
  BY LenProperties
<1>1. F \in [S -> S]
  BY DEF MessageRounds
<1> HIDE DEF N
<1>2. PICK g \in [0 .. N -> S] : Loops(F, s0, N, g)
  <2> HIDE DEF F
  <2>1. CanLoop(S, F, s0, N)
    BY <1>n, <1>1, LoopExists
  <2> QED
    BY <2>1 DEF CanLoop
<1>3. g = Body(g)
  <2>1. \A k \in 0 .. N : k # 0 => k - 1 \in 0 .. N /\ g[k - 1] \in S
    BY <1>n
  <2>2. \A k \in 0 .. N : k # 0 => F[g[k - 1]] = OneMessage(g[k - 1])
    BY <2>1
  <2> HIDE DEF F
  <2> QED
    BY <1>2, <2>2 DEF Loops
<1>4. loop = Body(loop)
  <2> HIDE DEF Body
  <2> QED
    BY <1>3
<1>5. Messages(data) = loop[N]
  BY DEF Messages, N
<1> HIDE DEF loop, F
<1>6. loop[0] = s0 /\ \A k \in 1 .. N : loop[k] = OneMessage(loop[k - 1])
  <2>1. 0 \in 0 .. N /\ \A k \in 1 .. N : k \in 0 .. N /\ k # 0
    BY <1>n
  <2>2. loop[0] = [frames |-> <<>>, buffer |-> data, over |-> FALSE]
    BY <1>4, <2>1
  <2> QED
    BY <1>4, <2>1, <2>2
<1>7. Falls(S, m, N, loop)
  BY <1>6 DEF Falls, MessageRounds
<1>8. loop[0] \in S /\ m[loop[0]] <= N
  BY <1>6 DEF N
<1>9. PICK h : h = loop
  OBVIOUS
<1>10. h[N] \in S /\ m[h[N]] = 0
  <2>1. h[0] \in S /\ m[h[0]] <= N /\ Falls(S, m, N, h)
    BY <1>7, <1>8, <1>9
  <2> QED
    BY <1>n, <2>1, LoopResult
<1> QED
  BY <1>5, <1>9, <1>10

-----------------------------------------------------------------------------
(* A round of the broker *)

LEMMA FirstAndRest ==
    ASSUME NEW T, NEW x \in Seq(T), x # <<>>
    PROVE  /\ x[1] \in T /\ Drop(x, 1) \in Seq(T) /\ Len(Drop(x, 1)) = Len(x) - 1
           /\ x = <<x[1]>> \o Drop(x, 1)
<1>1. Len(x) \in Nat \ {0}
  BY EmptySeq
<1>2. 1 \in 0 .. Len(x) /\ 1 \in 1 .. Len(x)
  BY <1>1
<1>3. x[1] \in T
  BY <1>2, ElementOfSeq
<1>4. First(x, 1) \in Seq(T) /\ Len(First(x, 1)) = 1
  BY <1>2, FirstDrop
<1>5. \A i \in 1 .. 1 : First(x, 1)[i] = x[i]
  BY <1>2, FirstDropAt
<1>6. First(x, 1) = <<x[1]>>
  BY <1>4, <1>5
<1>7. Drop(x, 1) \in Seq(T) /\ Len(Drop(x, 1)) = Len(x) - 1
  BY <1>2, FirstDrop
<1>8. x = First(x, 1) \o Drop(x, 1)
  BY <1>2, FirstDrop
<1> QED
  BY <1>3, <1>6, <1>7, <1>8

\* The tokens of b are the first ones of the frame f.
Leads(f, b) == \A i \in 1 .. Len(b) : b[i] = Token(f, Names[i])

\* The buffer b begins as a frame does, as far as syncBuffer looks.
InSync(f, b) ==
    /\ Len(b) >= 1 => b[1] = Token(f, "command")
    /\ Len(b) >= 2 => b[2] = Token(f, "newline")

LEMMA NamesAre ==
    /\ Names[1] = "command" /\ Names[2] = "newline" /\ Names[3] = "header"
    /\ Names[4] = "newline" /\ Names[5] = "newline" /\ Names[6] = "body"
    /\ Names[7] = "nul" /\ Names[8] = "newline"
    /\ \A i \in 1 .. 8 : Names[i] \in Name
<1>1. \A i \in 1 .. 8 : i = 1 \/ i = 2 \/ i = 3 \/ i = 4 \/ i = 5 \/ i = 6 \/ i = 7 \/ i = 8
  OBVIOUS
<1> QED
  BY <1>1 DEF Names, Name

LEMMA TokenName == \A f : \A t : Token(f, t).is = t /\ Token(f, t).of = f
BY DEF Token

LEMMA SyncFix ==
    ASSUME NEW b \in Seq(Tok), Stripped(b) = b
    PROVE  SyncBuffer(b) = b
<1> DEFINE S == {b}
           m == [x \in S |-> 0]
<1>2. m \in [S -> Nat] /\ b \in S /\ m[b] <= Len(b)
  BY LenProperties
<1>3. SyncRounds(S, m)
  BY DEF SyncRounds
<1> HIDE DEF m
<1>4. SyncBuffer(b) \in S
  <2> HIDE DEF S
  <2> QED
    BY <1>2, <1>3, SyncEnd
<1> QED
  BY <1>4

LEMMA SyncSame ==
    ASSUME NEW f \in Frame, NEW b \in Seq(Tok), InSync(f, b)
    PROVE  SyncBuffer(b) = b
<1>1. Stripped(b) = b
  <2>1. Len(b) \in Nat /\ DOMAIN b = 1 .. Len(b)
    BY LenProperties
  <2>2. CASE Len(b) < 2
    <3>1. \A i \in 1 .. Len(b) : b[i].is # "newline"
      <4>1. \A i \in 1 .. Len(b) : i = 1 /\ Len(b) >= 1
        BY <2>1, <2>2
      <4> QED
        BY <4>1, TokenName DEF InSync
    <3>2. Find(b, "newline") = 0
      BY <3>1, FindNone
    <3> QED
      BY <3>2 DEF Stripped
  <2>3. CASE Len(b) >= 2
    <3>1. b[1].is = "command" /\ b[2].is = "newline"
      BY <2>1, <2>3, TokenName DEF InSync
    <3>2. 2 \in 1 .. Len(b) /\ \A i \in 1 .. (2 - 1) : b[i].is # "newline"
      BY <2>1, <2>3, <3>1
    <3>3. Find(b, "newline") = 2
      BY <3>1, <3>2, FindIs
    <3>4. Is(b, 1, "command")
      BY <2>1, <2>3, <3>1 DEF Is
    <3> QED
      BY <3>3, <3>4 DEF Stripped
  <2> QED
    BY <2>1, <2>2, <2>3
<1> QED
  BY <1>1, SyncFix

\* A round whose buffer is short of a NUL ends the loop and changes nothing.
LEMMA RoundShort ==
    ASSUME NEW f \in Frame, NEW b \in Seq(Tok), Len(b) <= 6, Leads(f, b),
           NEW s, s.buffer = b, s.over = FALSE
    PROVE  OneMessage(s) = [frames |-> s.frames, buffer |-> b, over |-> TRUE]
<1>1. Len(b) \in Nat /\ DOMAIN b = 1 .. Len(b)
  BY LenProperties
<1>2. \A i \in 1 .. Len(b) : b[i].is = Names[i]
  BY TokenName DEF Leads
<1>3. InSync(f, b)
  <2>1. Len(b) >= 1 => 1 \in 1 .. Len(b)
    BY <1>1
  <2>2. Len(b) >= 2 => 2 \in 1 .. Len(b)
    BY <1>1
  <2> QED
    BY <2>1, <2>2, NamesAre DEF InSync, Leads
<1>4. SyncBuffer(b) = b
  BY <1>3, SyncSame
<1>5. \A i \in 1 .. Len(b) : b[i].is # "nul"
  <2>1. \A i \in 1 .. Len(b) : i = 1 \/ i = 2 \/ i = 3 \/ i = 4 \/ i = 5 \/ i = 6
    BY <1>1
  <2> QED
    BY <1>2, <2>1, NamesAre
<1>6. MessageLength(b) = 0
  BY <1>5, IndexNone DEF MessageLength
<1>7. (IF 0 < Len(b) THEN 0 ELSE Len(b)) = 0
  BY <1>1
<1>8. First(b, 0) = <<>> /\ Drop(b, 0) = b
  <2>1. 0 \in 0 .. Len(b)
    BY <1>1
  <2>2. First(b, 0) \in Seq(Tok) /\ Len(First(b, 0)) = 0
    BY <2>1, FirstDrop
  <2>3. First(b, 0) = <<>>
    BY <2>2, EmptySeq
  <2>4. Drop(b, 0) \in Seq(Tok)
    BY <2>1, FirstDrop
  <2>5. b = First(b, 0) \o Drop(b, 0)
    BY <2>1, FirstDrop
  <2>6. <<>> \o Drop(b, 0) = Drop(b, 0)
    BY <2>4, ConcatEmptySeq
  <2> QED
    BY <2>3, <2>5, <2>6
<1>9. ~Is(b, 1, "newline")
  BY <1>1, <1>2, NamesAre DEF Is
<1>10. Len(<<>>) = 0
  OBVIOUS
<1> QED
  BY <1>4, <1>6, <1>7, <1>8, <1>9, <1>10 DEF OneMessage

\* A round whose buffer starts with a whole frame takes it, and the newline
\* behind it when there is one.
LEMMA RoundWhole ==
    ASSUME NEW f \in Frame, NEW c \in Seq(Tok),
           NEW s, JoinIs(Pack(f), c, s.buffer), s.over = FALSE
    PROVE  OneMessage(s) = [frames |-> Append(s.frames, f),
                            buffer |-> IF Is(c, 1, "newline") THEN Tail(c) ELSE c,
                            over   |-> FALSE]
<1>1. PICK p \in Seq(Tok) : p = Pack(f)
  BY PackIs
<1>2. Len(p) = 8 /\ \A i \in 1 .. 8 : p[i] = Token(f, Names[i])
  BY <1>1, PackIs
<1>3. PICK b \in Seq(Tok) : b = p \o c
  BY ConcatProperties
<1>4. Len(c) \in Nat
  BY LenProperties
<1>5. /\ Len(b) = 8 + Len(c) /\ DOMAIN b = 1 .. Len(b)
      /\ \A i \in 1 .. 8 : b[i] = Token(f, Names[i])
  <2>1. Len(b) = Len(p) + Len(c)
    BY <1>3, ConcatProperties
  <2>2. \A i \in 1 .. Len(p) + Len(c) : b[i] = IF i <= Len(p) THEN p[i] ELSE c[i - Len(p)]
    BY <1>3, ConcatProperties
  <2>3. \A i \in 1 .. 8 : i \in 1 .. Len(p) + Len(c) /\ i <= Len(p)
    BY <1>2, <1>4
  <2> QED
    BY <1>2, <2>1, <2>2, <2>3, LenProperties
<1>6. /\ b[1].is = "command" /\ b[2].is = "newline" /\ b[3].is = "header"
      /\ b[4].is = "newline" /\ b[5].is = "newline" /\ b[6].is = "body"
      /\ b[7].is = "nul" /\ b[8].is = "newline"
  BY <1>5, NamesAre, TokenName
<1>7. SyncBuffer(b) = b
  <2>1. InSync(f, b)
    BY <1>5, NamesAre DEF InSync
  <2> QED
    BY <2>1, SyncSame
<1>8. MessageLength(b) = 8
  <2>1. Index(b, "newline", "newline") = 4
    <3>1. 4 \in 1 .. Len(b) /\ 4 + 1 \in 1 .. Len(b) /\ 4 + 1 = 5
      BY <1>4, <1>5
    <3>2. \A i \in 1 .. (4 - 1) : b[i].is # "newline" \/ b[i + 1].is # "newline"
      <4>1. \A i \in 1 .. (4 - 1) : i = 1 \/ i = 2 \/ i = 3
        OBVIOUS
      <4>2. b[1 + 1].is = b[2].is /\ b[2 + 1].is = b[3].is /\ b[3 + 1].is = b[4].is
        OBVIOUS
      <4> QED
        BY <1>6, <4>1, <4>2
    <3>3. PICK n \in 1 .. Len(b) : n = 4
      BY <3>1
    <3>4. n + 1 \in 1 .. Len(b) /\ \A i \in 1 .. (n - 1) : NotAt(b, i, "newline", "newline")
      BY <3>1, <3>2, <3>3 DEF NotAt
    <3>5. b[n].is = "newline" /\ b[n + 1].is = "newline"
      BY <1>6, <3>1, <3>3
    <3>6. Index(b, "newline", "newline") = n
      BY <3>4, <3>5, IndexIs
    <3> QED
      BY <3>3, <3>6
  <2>2. Index(b, "nul", "newline") = 7
    <3>1. 7 \in 1 .. Len(b) /\ 7 + 1 \in 1 .. Len(b) /\ 7 + 1 = 8
      BY <1>4, <1>5
    <3>2. \A i \in 1 .. (7 - 1) : b[i].is # "nul" \/ b[i + 1].is # "newline"
      <4>1. \A i \in 1 .. (7 - 1) : i = 1 \/ i = 2 \/ i = 3 \/ i = 4 \/ i = 5 \/ i = 6
        OBVIOUS
      <4> QED
        BY <1>6, <4>1
    <3>3. PICK n \in 1 .. Len(b) : n = 7
      BY <3>1
    <3>4. n + 1 \in 1 .. Len(b) /\ \A i \in 1 .. (n - 1) : NotAt(b, i, "nul", "newline")
      BY <3>1, <3>2, <3>3 DEF NotAt
    <3>5. b[n].is = "nul" /\ b[n + 1].is = "newline"
      BY <1>6, <3>1, <3>3
    <3>6. Index(b, "nul", "newline") = n
      BY <3>4, <3>5, IndexIs
    <3> QED
      BY <3>3, <3>6
  <2> QED
    BY <2>1, <2>2 DEF MessageLength
<1>9. (IF 8 < Len(b) THEN 8 ELSE Len(b)) = 8
  BY <1>4, <1>5
<1>10. First(b, 8) = p /\ Drop(b, 8) = c
  BY <1>2, <1>3, CutConcat
<1>11. p # <<>> /\ Decoded(p) = f
  <2>1. p # <<>>
    <3> SUFFICES ASSUME p = <<>> PROVE FALSE
      OBVIOUS
    <3>1. Len(p) = 0
      OBVIOUS
    <3> QED
      BY <1>2, <3>1
  <2>2. Head(p) = p[1]
    BY <2>1
  <2>3. p[1].of = f
    BY <1>2, TokenName
  <2> QED
    BY <1>1, <2>1, <2>2, <2>3 DEF Decoded
<1>12. s.buffer = b
  BY <1>1, <1>3 DEF JoinIs
<1>13. OneMessage(s) = [frames |-> Append(s.frames, f),
                        buffer |-> IF Is(c, 1, "newline") THEN Tail(c) ELSE c,
                        over   |-> FALSE]
  BY <1>2, <1>7, <1>8, <1>9, <1>10, <1>11, <1>12 DEF OneMessage
<1> QED
  BY <1>13

-----------------------------------------------------------------------------
(* The stream of the page, which the broker reads *)

LEMMA BaresTyped ==
    ASSUME NEW fs \in Seq(Frame)
    PROVE  Bares(fs) \in Seq(Tok)
BY StreamsTyped, JoinedTyped DEF Bares

LEMMA BaresConcat ==
    ASSUME NEW a \in Seq(Frame), NEW b \in Seq(Frame)
    PROVE  Bares(a \o b) = Bares(a) \o Bares(b)
<1>1. Bared \in [Frame -> Seq(Tok)]
  BY StreamsTyped
<1> QED
  BY <1>1, JoinedConcat DEF Bares

LEMMA BaresOne ==
    ASSUME NEW f \in Frame
    PROVE  Bares(<<f>>) = Bare(f)
<1>1. Joined(Bared, <<f>>) = Bared[f]
  BY StreamsTyped, JoinedOne
<1> QED
  BY <1>1 DEF Bares, Bared

LEMMA BaresEmpty == Bares(<<>>) = <<>>
BY JoinedEmpty DEF Bares

\* The frame f has arrived in b, and c behind it.
HeadTaken(f, b, rest, q) == \E c \in Seq(Tok) : JoinIs(Bare(f), c, b) /\ JoinIs(c, rest, q)

\* What has arrived of a stream that begins with a frame is short of its NUL or
\* has the frame.
LEMMA HeadFrame ==
    ASSUME NEW f \in Frame, NEW q \in Seq(Tok), NEW b \in Seq(Tok), NEW rest \in Seq(Tok),
           SameJoin(b, rest, Bare(f), q)
    PROVE  (Len(b) <= 6 /\ Leads(f, b)) \/ HeadTaken(f, b, rest, q)
<1>n. Len(b) \in Nat /\ Len(rest) \in Nat
  BY LenProperties
<1>1. PICK p \in Seq(Tok) : p = Bare(f) /\ Len(p) = 7
  BY BareIs
<1>2. \A i \in 1 .. 7 : p[i] = Token(f, Names[i])
  BY <1>1, BareIs
<1>3. b \o rest = p \o q
  BY <1>1 DEF SameJoin
<1>4. CASE Len(b) <= 6
  <2>1. ASSUME NEW i \in 1 .. Len(b) PROVE b[i] = Token(f, Names[i])
    <3>1. i \in 1 .. Len(b) + Len(rest) /\ i <= Len(b)
      BY <1>n
    <3>2. (b \o rest)[i] = b[i]
      BY <3>1, ConcatProperties
    <3>3. Len(q) \in Nat
      BY LenProperties
    <3>4. i \in 1 .. Len(p) + Len(q) /\ i <= Len(p) /\ i \in 1 .. 7
      BY <1>n, <1>1, <1>4, <3>3
    <3>5. (p \o q)[i] = p[i]
      BY <3>4, ConcatProperties
    <3> QED
      BY <1>2, <1>3, <3>2, <3>4, <3>5
  <2> QED
    BY <1>4, <2>1 DEF Leads
<1>5. CASE ~(Len(b) <= 6)
  <2>1. Len(p) <= Len(b)
    BY <1>n, <1>1, <1>5
  <2>2. SameJoin(b, rest, p, q)
    BY <1>3 DEF SameJoin
  <2>3. Between(Tok, b, rest, p, q)
    BY <2>1, <2>2, Split
  <2>4. PICK c \in Seq(Tok) : b = p \o c /\ q = c \o rest
    BY <2>3 DEF Between
  <2>5. JoinIs(Bare(f), c, b) /\ JoinIs(c, rest, q)
    BY <1>1, <2>4 DEF JoinIs
  <2> QED
    BY <2>5 DEF HeadTaken
<1> QED
  BY <1>4, <1>5

\* A stream of frames begins with a frame unless it is empty.
LEMMA NoFrames ==
    ASSUME NEW b \in Seq(Tok), NEW rest \in Seq(Tok), JoinIs(b, rest, <<>>)
    PROVE  b = <<>> /\ rest = <<>> /\ Len(b) <= 6 /\ \E f \in Frame : Leads(f, b)
<1>1. b = <<>> /\ rest = <<>>
  BY ConcatEqualIffEmpty DEF JoinIs
<1>2. [kind |-> "SEND", no |-> 0] \in Frame
  BY DEF Frame, Kind
<1>3. Len(b) = 0
  BY <1>1
<1>4. Leads([kind |-> "SEND", no |-> 0], b)
  BY <1>3 DEF Leads
<1> QED
  BY <1>1, <1>2, <1>3, <1>4

LEMMA FirstFrame ==
    ASSUME NEW t \in Seq(Frame), t # <<>>
    PROVE  \E f \in Frame, t2 \in Seq(Frame) : JoinIs(<<f>>, t2, t)
<1>1. t[1] \in Frame /\ Drop(t, 1) \in Seq(Frame) /\ t = <<t[1]>> \o Drop(t, 1)
  BY FirstAndRest
<1> QED
  BY <1>1 DEF JoinIs

\* b holds the first frame f of t, and c what follows it.
UpWhole(t, b, rest, f, t2, c) ==
    JoinIs(<<f>>, t2, t) /\ JoinIs(Bare(f), c, b) /\ JoinIs(c, rest, Bares(t2))

\* What has arrived of a stream of frames is either short of a NUL or starts
\* with a whole frame.
LEMMA UpShape ==
    ASSUME NEW t \in Seq(Frame), NEW b \in Seq(Tok), NEW rest \in Seq(Tok),
           JoinIs(b, rest, Bares(t))
    PROVE  \/ Len(b) <= 6 /\ \E f \in Frame : Leads(f, b)
           \/ \E f \in Frame, t2 \in Seq(Frame), c \in Seq(Tok) : UpWhole(t, b, rest, f, t2, c)
<1>1. CASE t = <<>>
  <2>1. JoinIs(b, rest, <<>>)
    BY <1>1, BaresEmpty
  <2> QED
    BY <2>1, NoFrames
<1>2. CASE t # <<>>
  <2>1. PICK f \in Frame, t2 \in Seq(Frame) : JoinIs(<<f>>, t2, t)
    BY <1>2, FirstFrame
  <2>2. <<f>> \in Seq(Frame)
    OBVIOUS
  <2>3. Bares(t) = Bare(f) \o Bares(t2)
    BY <2>1, <2>2, BaresConcat, BaresOne DEF JoinIs
  <2>4. PICK q \in Seq(Tok) : q = Bares(t2)
    BY BaresTyped
  <2>5. SameJoin(b, rest, Bare(f), q)
    BY <2>3, <2>4 DEF JoinIs, SameJoin
  <2>6. CASE HeadTaken(f, b, rest, q)
    <3>1. PICK c \in Seq(Tok) : JoinIs(Bare(f), c, b) /\ JoinIs(c, rest, q)
      BY <2>6 DEF HeadTaken
    <3>2. UpWhole(t, b, rest, f, t2, c)
      BY <2>1, <2>4, <3>1 DEF UpWhole
    <3> QED
      BY <3>2
  <2> QED
    BY <2>5, <2>6, HeadFrame
<1> QED
  BY <1>1, <1>2

LEMMA WholeDoubled ==
    ASSUME NEW f \in Frame, NEW b \in Seq(Tok), NEW c \in Seq(Tok), JoinIs(Bare(f), c, b)
    PROVE  JoinIs(Pack(f), WithNewlines(c), WithNewlines(b))
<1>1. PICK p \in Seq(Tok) : p = Bare(f)
  BY BareIs
<1>2. b = p \o c
  BY <1>1 DEF JoinIs
<1>3. WithNewlines(p \o c) = WithNewlines(p) \o WithNewlines(c)
  BY DoubledTyped
<1> QED
  BY <1>1, <1>2, <1>3, DoubledBare DEF JoinIs

LEMMA ShortPlain ==
    ASSUME NEW f, NEW b \in Seq(Tok), Len(b) <= 6, Leads(f, b)
    PROVE  Plain(b) /\ ~Is(b, 1, "newline")
<1>1. Len(b) \in Nat /\ DOMAIN b = 1 .. Len(b)
  BY LenProperties
<1>2. \A i \in 1 .. Len(b) : b[i].is = Names[i]
  BY TokenName DEF Leads
<1>3. \A i \in 1 .. Len(b) : i = 1 \/ i = 2 \/ i = 3 \/ i = 4 \/ i = 5 \/ i = 6
  BY <1>1
<1>4. Plain(b)
  BY <1>2, <1>3, NamesAre DEF Plain
<1>5. ~Is(b, 1, "newline")
  BY <1>1, <1>2, NamesAre DEF Is
<1> QED
  BY <1>4, <1>5

\* What follows a frame does not start with a newline.
LEMMA UpNoNewline ==
    ASSUME NEW t \in Seq(Frame), NEW b \in Seq(Tok), NEW rest \in Seq(Tok),
           JoinIs(b, rest, Bares(t))
    PROVE  ~Is(WithNewlines(b), 1, "newline")
<1>1. CASE Len(b) <= 6 /\ \E f \in Frame : Leads(f, b)
  <2>1. PICK f \in Frame : Leads(f, b)
    BY <1>1
  <2> QED
    BY <1>1, <2>1, ShortPlain, DoubledPlain
<1>2. CASE \E f \in Frame, t2 \in Seq(Frame), c \in Seq(Tok) : UpWhole(t, b, rest, f, t2, c)
  <2>1. PICK f \in Frame, t2 \in Seq(Frame), c \in Seq(Tok) : UpWhole(t, b, rest, f, t2, c)
    BY <1>2
  <2>2. JoinIs(Pack(f), WithNewlines(c), WithNewlines(b))
    BY <2>1, WholeDoubled DEF UpWhole
  <2>3. PICK p \in Seq(Tok) : p = Pack(f) /\ Len(p) = 8
    BY PackIs
  <2>4. \A i \in 1 .. 8 : p[i] = Token(f, Names[i])
    BY <2>3, PackIs
  <2>5. PICK w \in Seq(Tok) : w = WithNewlines(c)
    BY DoubledTyped
  <2>6. \A i \in 1 .. Len(p) + Len(w) : (p \o w)[i] = IF i <= Len(p) THEN p[i] ELSE w[i - Len(p)]
    BY ConcatProperties
  <2>7. Len(w) \in Nat
    BY LenProperties
  <2>8. (p \o w)[1] = Token(f, "command")
    <3>1. 1 \in 1 .. Len(p) + Len(w) /\ 1 <= Len(p) /\ 1 \in 1 .. 8
      BY <2>3, <2>7
    <3>2. p[1] = Token(f, "command")
      BY <2>4, <3>1, NamesAre
    <3> QED
      BY <2>6, <3>1, <3>2
  <2> QED
    BY <2>2, <2>3, <2>5, <2>8, TokenName DEF Is, JoinIs
<1> QED
  BY <1>1, <1>2, UpShape

LoopState == [frames : Seq(Frame), buffer : Seq(Tok), over : BOOLEAN]

RoundsLeft(s) == IF s.over THEN 0 ELSE Len(s.buffer) + 1

RoundsEnd(S) ==
    \A s \in S : /\ OneMessage(s) \in S
                 /\ RoundsLeft(OneMessage(s)) < RoundsLeft(s) \/ RoundsLeft(OneMessage(s)) = 0

\* When every round among the states S leaves less to do, the loop ends in one of
\* them, and it is over.
LEMMA LoopEnds ==
    ASSUME NEW S, S \subseteq LoopState, RoundsEnd(S), NEW data \in Seq(Tok), NEW s0 \in S,
           s0 = [frames |-> <<>>, buffer |-> data, over |-> FALSE]
    PROVE  Messages(data) \in S /\ Messages(data).over = TRUE
<1> DEFINE m == [s \in S |-> RoundsLeft(s)]
<1>1. m \in [S -> Nat]
  <2>1. ASSUME NEW s \in S PROVE RoundsLeft(s) \in Nat
    <3>1. s.buffer \in Seq(Tok)
      BY DEF LoopState
    <3> QED
      BY <3>1, LenProperties DEF RoundsLeft
  <2> QED
    BY <2>1
<1>2. m[s0] <= Len(data) + 1
  <2>1. m[s0] = RoundsLeft(s0)
    OBVIOUS
  <2>2. RoundsLeft(s0) = Len(data) + 1
    BY DEF RoundsLeft
  <2>3. Len(data) \in Nat
    BY LenProperties
  <2> QED
    BY <2>1, <2>2, <2>3
<1>3. MessageRounds(S, m)
  BY DEF RoundsEnd, MessageRounds
<1> HIDE DEF m
<1>4. PICK r : r = Messages(data)
  OBVIOUS
<1>5. r \in S /\ m[r] = 0
  BY <1>1, <1>2, <1>3, <1>4, MessagesEnd
<1>6. r \in LoopState /\ RoundsLeft(r) = 0
  BY <1>5 DEF m
<1>7. Len(r.buffer) \in Nat /\ r.over \in BOOLEAN
  BY <1>6, LenProperties DEF LoopState
<1>8. r.over = TRUE
  BY <1>6, <1>7 DEF RoundsLeft
<1> QED
  BY <1>4, <1>5, <1>8

\* The states that the loop goes through while it reads the frames todo from a
\* stream whose bytes rest have not arrived: t is to be read, from b.
UpState(todo, rest, s, t, b) ==
    /\ JoinIs(s.frames, t, todo)
    /\ s.buffer = WithNewlines(b)
    /\ JoinIs(b, rest, Bares(t))
    /\ s.over => Len(b) <= 6

UpStates(todo, rest) ==
    {s \in LoopState :
        \E t \in Seq(Frame), b \in Seq(Tok) : UpState(todo, rest, s, t, b)}

LEMMA UpRound ==
    ASSUME NEW todo \in Seq(Frame), NEW rest \in Seq(Tok), NEW s \in UpStates(todo, rest)
    PROVE  /\ OneMessage(s) \in UpStates(todo, rest)
           /\ RoundsLeft(OneMessage(s)) < RoundsLeft(s) \/ RoundsLeft(OneMessage(s)) = 0
<1>1. s \in LoopState
  BY DEF UpStates
<1>2. CASE s.over
  <2>1. OneMessage(s) = s
    BY <1>2 DEF OneMessage
  <2> QED
    BY <1>2, <2>1 DEF RoundsLeft
<1>3. CASE ~s.over
  <2>f. s.over = FALSE /\ s.frames \in Seq(Frame) /\ s.buffer \in Seq(Tok)
    BY <1>1, <1>3 DEF LoopState
  <2>1. PICK t \in Seq(Frame), b \in Seq(Tok) : UpState(todo, rest, s, t, b)
    BY DEF UpStates
  <2>2. JoinIs(b, rest, Bares(t)) /\ s.buffer = WithNewlines(b) /\ JoinIs(s.frames, t, todo)
    BY <2>1 DEF UpState
  <2>3. CASE Len(b) <= 6 /\ \E f \in Frame : Leads(f, b)
    <3>1. PICK f \in Frame : Leads(f, b)
      BY <2>3
    <3>2. WithNewlines(b) = b
      BY <2>3, <3>1, ShortPlain, DoubledPlain
    <3>3. OneMessage(s) = [frames |-> s.frames, buffer |-> b, over |-> TRUE]
      BY <2>f, <2>2, <2>3, <3>1, <3>2, RoundShort
    <3>4. UpState(todo, rest, OneMessage(s), t, b)
      BY <2>2, <2>3, <3>2, <3>3 DEF UpState
    <3>5. OneMessage(s) \in LoopState
      BY <2>f, <3>3 DEF LoopState
    <3>6. RoundsLeft(OneMessage(s)) = 0
      BY <3>3 DEF RoundsLeft
    <3> QED
      BY <3>4, <3>5, <3>6 DEF UpStates
  <2>4. CASE \E f \in Frame, t2 \in Seq(Frame), c \in Seq(Tok) : UpWhole(t, b, rest, f, t2, c)
    <3>1. PICK f \in Frame, t2 \in Seq(Frame), c \in Seq(Tok) : UpWhole(t, b, rest, f, t2, c)
      BY <2>4
    <3>2. JoinIs(Pack(f), WithNewlines(c), WithNewlines(b))
      BY <3>1, WholeDoubled DEF UpWhole
    <3>3. PICK w \in Seq(Tok) : w = WithNewlines(c)
      BY DoubledTyped
    <3>4. JoinIs(Pack(f), w, s.buffer)
      BY <2>2, <3>2, <3>3
    <3>5. OneMessage(s) = [frames |-> Append(s.frames, f),
                           buffer |-> IF Is(w, 1, "newline") THEN Tail(w) ELSE w,
                           over   |-> FALSE]
      BY <2>f, <3>4, RoundWhole
    <3>6. JoinIs(c, rest, Bares(t2)) /\ JoinIs(<<f>>, t2, t)
      BY <3>1 DEF UpWhole
    <3>7. ~Is(w, 1, "newline")
      BY <3>3, <3>6, UpNoNewline
    <3>8. OneMessage(s) = [frames |-> Append(s.frames, f), buffer |-> w, over |-> FALSE]
      BY <3>5, <3>7
    <3>9. Append(s.frames, f) \in Seq(Frame)
      BY <2>f, AppendProperties
    <3>10. JoinIs(Append(s.frames, f), t2, todo)
      <4>1. PICK g \in Seq(Frame) : g = s.frames
        BY <2>f
      <4>2. <<f>> \in Seq(Frame)
        OBVIOUS
      <4>3. Append(g, f) = g \o <<f>>
        BY AppendIsConcat
      <4>4. (g \o <<f>>) \o t2 = g \o (<<f>> \o t2)
        BY <4>2, ConcatAssociative
      <4>5. g \o t = todo /\ <<f>> \o t2 = t
        BY <2>2, <3>6, <4>1 DEF JoinIs
      <4> QED
        BY <4>1, <4>3, <4>4, <4>5 DEF JoinIs
    <3>11. UpState(todo, rest, OneMessage(s), t2, c)
      BY <3>3, <3>6, <3>8, <3>10 DEF UpState
    <3>12. OneMessage(s) \in UpStates(todo, rest)
      BY <3>8, <3>9, <3>11 DEF UpStates, LoopState
    <3>13. Len(w) < Len(s.buffer) /\ Len(w) \in Nat /\ Len(s.buffer) \in Nat
      <4>1. PICK p \in Seq(Tok) : p = Pack(f) /\ Len(p) = 8
        BY PackIs
      <4>2. Len(p \o w) = Len(p) + Len(w)
        BY ConcatProperties
      <4>3. s.buffer = p \o w
        BY <3>4, <4>1 DEF JoinIs
      <4>4. Len(w) \in Nat /\ Len(p) \in Nat
        BY LenProperties
      <4> QED
        BY <4>1, <4>2, <4>3, <4>4
    <3>14. RoundsLeft(OneMessage(s)) < RoundsLeft(s)
      BY <2>f, <3>8, <3>13 DEF RoundsLeft
    <3> QED
      BY <3>12, <3>14
  <2> QED
    BY <2>2, <2>3, <2>4, UpShape
<1> QED
  BY <1>2, <1>3

\* What the broker has after a chunk has arrived.
UpAfter(r, todo, rest) ==
    /\ r.frames \in Seq(Frame) /\ r.buffer \in Seq(Tok) /\ Len(r.buffer) <= 6
    /\ \E t \in Seq(Frame) : JoinIs(r.frames, t, todo) /\ JoinIs(r.buffer, rest, Bares(t))

LEMMA UpReceived ==
    ASSUME NEW todo \in Seq(Frame), NEW buffer \in Seq(Tok), NEW chunk \in Seq(Tok),
           NEW rest \in Seq(Tok), Len(buffer) <= 6,
           JoinIs(buffer \o chunk, rest, Bares(todo))
    PROVE  UpAfter(Received(buffer, chunk), todo, rest)
<1> DEFINE b0 == buffer \o chunk
           data == buffer \o WithNewlines(chunk)
           S == UpStates(todo, rest)
           s0 == [frames |-> <<>>, buffer |-> data, over |-> FALSE]
<1>1. b0 \in Seq(Tok) /\ JoinIs(b0, rest, Bares(todo))
  BY ConcatProperties
<1>2. Plain(buffer)
  <2>1. CASE Len(b0) <= 6 /\ \E f \in Frame : Leads(f, b0)
    <3>1. PICK f \in Frame : Leads(f, b0)
      BY <2>1
    <3>2. Plain(b0)
      BY <1>1, <2>1, <3>1, ShortPlain
    <3>3. \A i \in 1 .. Len(buffer) : i \in 1 .. Len(b0) /\ b0[i] = buffer[i]
      BY ConcatProperties, LenProperties
    <3> QED
      BY <3>2, <3>3 DEF Plain
  <2>2. CASE \E f \in Frame, t2 \in Seq(Frame), c \in Seq(Tok) : UpWhole(todo, b0, rest, f, t2, c)
    <3>1. PICK f \in Frame, t2 \in Seq(Frame), c \in Seq(Tok) : UpWhole(todo, b0, rest, f, t2, c)
      BY <2>2
    <3>2. PICK p \in Seq(Tok) : p = Bare(f) /\ Len(p) = 7
      BY BareIs
    <3>3. \A i \in 1 .. 7 : p[i] = Token(f, Names[i])
      BY <3>2, BareIs
    <3>4. b0 = p \o c
      BY <3>1, <3>2 DEF UpWhole, JoinIs
    <3>5. ASSUME NEW i \in 1 .. Len(buffer) PROVE buffer[i].is # "nul"
      <4>1. Len(buffer) \in Nat /\ Len(chunk) \in Nat /\ Len(c) \in Nat
        BY LenProperties
      <4>2. /\ i \in 1 .. Len(buffer) + Len(chunk) /\ i <= Len(buffer)
            /\ i \in 1 .. Len(p) + Len(c) /\ i <= Len(p) /\ i \in 1 .. 6
        BY <3>2, <4>1
      <4>3. (buffer \o chunk)[i] = buffer[i]
        BY <4>2, ConcatProperties
      <4>4. (p \o c)[i] = p[i]
        BY <4>2, ConcatProperties
      <4>5. p[i].is = Names[i]
        <5>1. i \in 1 .. 7
          BY <4>2
        <5>2. p[i] = Token(f, Names[i])
          BY <3>3, <5>1
        <5>3. Token(f, Names[i]).is = Names[i]
          BY TokenName
        <5> QED
          BY <5>2, <5>3
      <4>6. i = 1 \/ i = 2 \/ i = 3 \/ i = 4 \/ i = 5 \/ i = 6
        BY <4>2
      <4>7. Names[i] # "nul"
        BY <4>6, NamesAre
      <4> QED
        BY <3>4, <4>3, <4>4, <4>5, <4>7
    <3> QED
      BY <3>5 DEF Plain
  <2> HIDE DEF b0
  <2> QED
    BY <1>1, <2>1, <2>2, UpShape
<1>3. data = WithNewlines(b0) /\ data \in Seq(Tok)
  <2>1. WithNewlines(buffer) = buffer
    BY <1>2, DoubledPlain
  <2>2. WithNewlines(buffer \o chunk) = WithNewlines(buffer) \o WithNewlines(chunk)
    BY DoubledTyped
  <2>3. WithNewlines(b0) \in Seq(Tok)
    BY <1>1, DoubledTyped
  <2> QED
    BY <2>1, <2>2, <2>3
<1> HIDE DEF b0, data
<1>4. s0 \in S
  <2>1. <<>> \in Seq(Frame) /\ <<>> \o todo = todo
    BY EmptySeq, ConcatEmptySeq
  <2>2. UpState(todo, rest, s0, todo, b0)
    BY <1>1, <1>3, <2>1 DEF UpState, JoinIs
  <2>3. s0 \in LoopState
    BY <1>3, <2>1 DEF LoopState
  <2> QED
    BY <1>1, <2>2, <2>3 DEF UpStates
<1>5. S \subseteq LoopState /\ RoundsEnd(S)
  <2>1. ASSUME NEW s \in S
        PROVE  /\ OneMessage(s) \in S
               /\ RoundsLeft(OneMessage(s)) < RoundsLeft(s) \/ RoundsLeft(OneMessage(s)) = 0
    BY UpRound
  <2>2. S \subseteq LoopState
    BY DEF UpStates
  <2> HIDE DEF S
  <2> QED
    BY <2>1, <2>2 DEF RoundsEnd
<1> DEFINE r == Messages(data)
<1>9. r \in S /\ r.over = TRUE
  <2> HIDE DEF S
  <2> QED
    BY <1>3, <1>4, <1>5, LoopEnds
<1>10. Received(buffer, chunk) = r
  BY DEF Received, data
<1> HIDE DEF r
<1>11. r \in LoopState
  BY <1>9 DEF UpStates
<1>13. PICK t \in Seq(Frame), b \in Seq(Tok) : UpState(todo, rest, r, t, b)
  BY <1>9 DEF UpStates
<1>14. Len(b) <= 6 /\ JoinIs(b, rest, Bares(t)) /\ r.buffer = WithNewlines(b) /\ JoinIs(r.frames, t, todo)
  BY <1>9, <1>13 DEF UpState
<1>15. WithNewlines(b) = b
  <2>1. ~(\E f \in Frame, t2 \in Seq(Frame), c \in Seq(Tok) : UpWhole(t, b, rest, f, t2, c))
    <3> SUFFICES ASSUME NEW f \in Frame, NEW t2 \in Seq(Frame), NEW c \in Seq(Tok),
                        UpWhole(t, b, rest, f, t2, c)
                 PROVE  FALSE
      OBVIOUS
    <3>1. PICK p \in Seq(Tok) : p = Bare(f) /\ Len(p) = 7
      BY BareIs
    <3>2. b = p \o c
      BY <3>1 DEF UpWhole, JoinIs
    <3>3. Len(b) = Len(p) + Len(c) /\ Len(c) \in Nat
      BY <3>2, ConcatProperties, LenProperties
    <3> QED
      BY <1>14, <3>1, <3>3
  <2>2. PICK f \in Frame : Leads(f, b)
    BY <1>14, <2>1, UpShape
  <2> QED
    BY <1>14, <2>2, ShortPlain, DoubledPlain
<1>16. UpAfter(r, todo, rest)
  BY <1>11, <1>14, <1>15 DEF UpAfter, LoopState
<1> QED
  BY <1>10, <1>16

-----------------------------------------------------------------------------
(* What the page asks is served *)

\* What the broker holds of the page's stream and what has not arrived are the
\* frames that it has not handled, and it holds less than one of them.
UpInv ==
    /\ asked \in Seq(Frame) /\ served \in Seq(Frame)
    /\ upWire \in Seq(Tok) /\ upBuffer \in Seq(Tok) /\ Len(upBuffer) <= 6
    /\ \E todo \in Seq(Frame) : /\ JoinIs(served, todo, asked)
                                /\ JoinIs(upBuffer, upWire, Bares(todo))

LEMMA UpInit == Init => UpInv
<1> SUFFICES ASSUME Init PROVE UpInv
  OBVIOUS
<1>1. asked = <<>> /\ served = <<>> /\ upWire = <<>> /\ upBuffer = <<>>
  BY DEF Init
<1>2. <<>> \in Seq(Frame) /\ <<>> \in Seq(Tok) /\ Len(<<>>) = 0 /\ <<>> \o <<>> = <<>>
  BY EmptySeq
<1>3. JoinIs(served, <<>>, asked) /\ JoinIs(upBuffer, upWire, Bares(<<>>))
  BY <1>1, <1>2, BaresEmpty DEF JoinIs
<1>4. /\ asked \in Seq(Frame) /\ served \in Seq(Frame)
      /\ upWire \in Seq(Tok) /\ upBuffer \in Seq(Tok) /\ Len(upBuffer) <= 6
  BY <1>1, <1>2
<1> QED
  BY <1>2, <1>3, <1>4 DEF UpInv

\* The page sends a frame.
LEMMA UpSend ==
    ASSUME UpInv, NEW f \in Frame, asked' = Append(asked, f), upWire' = upWire \o Bare(f),
           upBuffer' = upBuffer, served' = served
    PROVE  UpInv'
<1>1. /\ asked \in Seq(Frame) /\ served \in Seq(Frame)
      /\ upWire \in Seq(Tok) /\ upBuffer \in Seq(Tok) /\ Len(upBuffer) <= 6
  BY DEF UpInv
<1>2. PICK todo \in Seq(Frame) : /\ JoinIs(served, todo, asked)
                                 /\ JoinIs(upBuffer, upWire, Bares(todo))
  BY DEF UpInv
<1>3. PICK p \in Seq(Tok) : p = Bare(f)
  BY BareIs
<1>4. asked' \in Seq(Frame) /\ upWire' \in Seq(Tok)
  BY <1>1, <1>3, AppendProperties, ConcatProperties
<1>5. <<f>> \in Seq(Frame)
  OBVIOUS
<1>6. PICK more \in Seq(Frame) : more = todo \o <<f>>
  BY <1>5, ConcatProperties
<1>7. JoinIs(served, more, asked')
  <2>1. Append(asked, f) = asked \o <<f>>
    BY <1>1, AppendIsConcat
  <2>2. JoinIs(served, todo \o <<f>>, asked \o <<f>>)
    BY <1>1, <1>2, <1>5, JoinMore
  <2> QED
    BY <1>6, <2>1, <2>2
<1>8. JoinIs(upBuffer, upWire', Bares(more))
  <2>1. Bares(more) = Bares(todo) \o p
    BY <1>3, <1>5, <1>6, BaresConcat, BaresOne
  <2>2. JoinIs(upBuffer, upWire \o p, Bares(todo) \o p)
    BY <1>1, <1>2, JoinMore
  <2> QED
    BY <1>3, <2>1, <2>2
<1> QED
  BY <1>1, <1>4, <1>7, <1>8 DEF UpInv

\* A chunk of what the page sent arrives.
LEMMA UpArrives ==
    ASSUME UpInv, NEW n \in 1 .. Len(upWire), NEW got,
           got = Received(upBuffer, First(upWire, n)), asked' = asked,
           upWire' = Drop(upWire, n), upBuffer' = got.buffer, served' = served \o got.frames
    PROVE  UpInv' /\ got.frames \in Seq(Frame) /\ Len(served') <= Len(asked)
           /\ First(asked, Len(served')) = served'
<1>1. /\ asked \in Seq(Frame) /\ served \in Seq(Frame)
      /\ upWire \in Seq(Tok) /\ upBuffer \in Seq(Tok) /\ Len(upBuffer) <= 6
  BY DEF UpInv
<1>2. PICK todo \in Seq(Frame) : /\ JoinIs(served, todo, asked)
                                 /\ JoinIs(upBuffer, upWire, Bares(todo))
  BY DEF UpInv
<1>3. n \in 0 .. Len(upWire)
  OBVIOUS
<1>4. PICK chunk \in Seq(Tok) : chunk = First(upWire, n)
  BY <1>1, <1>3, FirstDrop
<1>5. PICK rest \in Seq(Tok) : rest = Drop(upWire, n)
  BY <1>1, <1>3, FirstDrop
<1>6. JoinIs(upBuffer \o chunk, rest, Bares(todo))
  <2>1. JoinIs(First(upWire, n), Drop(upWire, n), upWire)
    BY <1>1, <1>3, FirstDrop
  <2>2. JoinIs(chunk, rest, upWire)
    BY <1>4, <1>5, <2>1
  <2> QED
    BY <1>1, <1>2, <2>2, JoinMove
<1>7. UpAfter(got, todo, rest)
  BY <1>1, <1>4, <1>6, UpReceived
<1>8. got.frames \in Seq(Frame) /\ got.buffer \in Seq(Tok) /\ Len(got.buffer) <= 6
  BY <1>7 DEF UpAfter
<1>9. PICK t \in Seq(Frame) : JoinIs(got.frames, t, todo) /\ JoinIs(got.buffer, rest, Bares(t))
  BY <1>7 DEF UpAfter
<1>10. PICK g \in Seq(Frame) : g = got.frames
  BY <1>8
<1>11. served' \in Seq(Frame) /\ served' = served \o g
  BY <1>1, <1>10, ConcatProperties
<1>12. JoinIs(served \o g, t, asked)
  <2>1. JoinIs(g, t, todo)
    BY <1>9, <1>10
  <2> QED
    BY <1>1, <1>2, <2>1, JoinMove
<1>13. UpInv'
  <2>1. JoinIs(served', t, asked)
    BY <1>11, <1>12
  <2> QED
    BY <1>1, <1>5, <1>8, <1>9, <1>11, <2>1 DEF UpInv
<1>14. PICK v \in Seq(Frame) : v = served'
  BY <1>11
<1>15. asked = v \o t
  BY <1>11, <1>12, <1>14 DEF JoinIs
<1>16. First(v \o t, Len(v)) = v
  BY CutConcat
<1>17. Len(v \o t) = Len(v) + Len(t) /\ Len(v) \in Nat /\ Len(t) \in Nat
  BY ConcatProperties, LenProperties
<1> QED
  BY <1>8, <1>13, <1>14, <1>15, <1>16, <1>17

\* Sending and serving are steps of the stream.
LEMMA PageSends ==
    ASSUME UpInv, NEW f \in Frame, asked' = Append(asked, f), served' = served
    PROVE  [PageFrames!Next]_(PageFrames!vars)
<1>1. asked \in Seq(Frame)
  BY DEF UpInv
<1>2. PICK a \in Seq(Frame) : a = asked
  BY <1>1
<1>3. <<f>> \in Seq(Frame)
  OBVIOUS
<1>4. Append(a, f) = a \o <<f>> /\ Append(a, f) \in Seq(Frame)
  BY AppendIsConcat, AppendProperties
<1>5. First(a \o <<f>>, Len(a)) = a
  BY <1>3, CutConcat
<1>6. Len(Append(a, f)) = Len(a) + 1 /\ Len(a) \in Nat
  BY AppendProperties, LenProperties
<1>7. PageFrames!Send
  BY <1>2, <1>4, <1>5, <1>6 DEF PageFrames!Send, First
<1> QED
  BY <1>7 DEF PageFrames!Next

LEMMA PageIsServed ==
    ASSUME UpInv, asked' = asked, NEW g \in Seq(Frame), served' = served \o g,
           Len(served') <= Len(asked), First(asked, Len(served')) = served'
    PROVE  [PageFrames!Next]_(PageFrames!vars)
<1>1. asked \in Seq(Frame) /\ served \in Seq(Frame)
  BY DEF UpInv
<1>2. PICK s \in Seq(Frame) : s = served
  BY <1>1
<1>3. Len(s \o g) = Len(s) + Len(g) /\ Len(s) \in Nat /\ Len(g) \in Nat /\ Len(asked) \in Nat
  BY <1>1, ConcatProperties, LenProperties
<1>4. CASE g = <<>>
  <2>1. s \o <<>> = s
    BY ConcatEmptySeq
  <2>2. served' = served
    BY <1>2, <1>4, <2>1
  <2> QED
    BY <2>2 DEF PageFrames!vars
<1>5. CASE g # <<>>
  <2>1. Len(g) # 0
    BY <1>5, EmptySeq
  <2>2. Len(served') \in Len(served) + 1 .. Len(asked)
    BY <1>2, <1>3, <2>1
  <2>3. served' = PageFrames!Prefix(Len(served'))
    BY DEF PageFrames!Prefix, First
  <2>4. PageFrames!Deliver
    BY <2>2, <2>3 DEF PageFrames!Deliver
  <2> QED
    BY <2>4 DEF PageFrames!Next
<1> QED
  BY <1>4, <1>5

LEMMA UpNext ==
    ASSUME UpInv, [Next]_vars
    PROVE  UpInv' /\ [PageFrames!Next]_(PageFrames!vars)
<1>1. ASSUME UNCHANGED up
      PROVE  UpInv' /\ [PageFrames!Next]_(PageFrames!vars)
  <2>1. UpInv'
    BY <1>1 DEF UpInv, up
  <2>2. UNCHANGED PageFrames!vars
    BY <1>1 DEF up, PageFrames!vars
  <2> QED
    BY <2>1, <2>2
<1>2. ASSUME NEW f \in Frame, asked' = Append(asked, f), upWire' = upWire \o Bare(f),
             UNCHANGED <<upBuffer, served>>
      PROVE  UpInv' /\ [PageFrames!Next]_(PageFrames!vars)
  <2>1. UpInv'
    BY <1>2, UpSend
  <2>2. [PageFrames!Next]_(PageFrames!vars)
    BY <1>2, PageSends
  <2> QED
    BY <2>1, <2>2
<1>3. CASE OnOpen
  <2>1. PICK f \in Frame : f = [kind |-> "CONNECT", no |-> 0]
    BY DEF Frame, Kind
  <2>2. asked = <<>> /\ asked' = <<f>> /\ upWire' = Bare(f) /\ UNCHANGED <<upBuffer, served>>
    BY <1>3, <2>1 DEF OnOpen
  <2>3. upWire = <<>>
    <3>1. PICK todo \in Seq(Frame) : /\ JoinIs(served, todo, asked)
                                     /\ JoinIs(upBuffer, upWire, Bares(todo))
      BY DEF UpInv
    <3>2. served \in Seq(Frame) /\ upBuffer \in Seq(Tok) /\ upWire \in Seq(Tok)
      BY DEF UpInv
    <3>3. served \o todo = <<>>
      BY <2>2, <3>1 DEF JoinIs
    <3>4. todo = <<>>
      BY <3>2, <3>3, ConcatEqualIffEmpty
    <3>5. upBuffer \o upWire = <<>>
      BY <3>1, <3>4, BaresEmpty DEF JoinIs
    <3> QED
      BY <3>2, <3>5, ConcatEqualIffEmpty
  <2>4. asked' = Append(asked, f)
    BY <2>2
  <2>5. upWire' = upWire \o Bare(f)
    <3>1. PICK b \in Seq(Tok) : b = Bare(f)
      BY BareIs
    <3>2. <<>> \o b = b
      BY ConcatEmptySeq
    <3> QED
      BY <2>2, <2>3, <3>1, <3>2
  <2> QED
    BY <1>2, <2>2, <2>4, <2>5
<1>4. CASE Publish
  BY <1>1, <1>4 DEF Publish
<1>5. CASE PublisherDataReceived
  BY <1>1, <1>5 DEF PublisherDataReceived
<1>6. CASE PageDataReceived
  <2>1. PICK n \in 1 .. Len(upWire) :
          LET got == Received(upBuffer, First(upWire, n)) IN
          /\ upWire' = Drop(upWire, n)
          /\ upBuffer' = got.buffer
          /\ served' = served \o got.frames
    BY <1>6 DEF PageDataReceived
  <2>2. PICK got : got = Received(upBuffer, First(upWire, n))
    OBVIOUS
  <2>3. /\ upWire' = Drop(upWire, n) /\ upBuffer' = got.buffer /\ served' = served \o got.frames
        /\ asked' = asked
    BY <1>6, <2>1, <2>2 DEF PageDataReceived
  <2>4. /\ UpInv' /\ got.frames \in Seq(Frame) /\ Len(served') <= Len(asked)
        /\ First(asked, Len(served')) = served'
    BY <2>2, <2>3, UpArrives
  <2>5. [PageFrames!Next]_(PageFrames!vars)
    BY <2>3, <2>4, PageIsServed
  <2> QED
    BY <2>4, <2>5
<1>7. CASE TransportOnRead
  <2>1. PICK f \in Frame : f = [kind |-> "SUBSCRIBE", no |-> 0]
    BY DEF Frame, Kind
  <2>2. \/ UNCHANGED <<asked, upWire>>
        \/ asked' = Append(asked, f) /\ upWire' = upWire \o Bare(f)
    BY <1>7, <2>1 DEF TransportOnRead
  <2>3. UNCHANGED <<upBuffer, served>>
    BY <1>7 DEF TransportOnRead
  <2> QED
    BY <1>1, <1>2, <2>2, <2>3 DEF up
<1>8. CASE UNCHANGED vars
  BY <1>1, <1>8 DEF vars
<1> QED
  BY <1>3, <1>4, <1>5, <1>6, <1>7, <1>8 DEF Next

\* What the broker has handled of the page's frames are the first ones of those
\* that were sent, and the rest is on its way: however the stream is cut.
THEOREM UpInvariance == Spec => []UpInv
<1>1. UpInv /\ [Next]_vars => UpInv'
  BY UpNext
<1> QED
  BY UpInit, <1>1, PTL DEF Spec

\* The connection between the page and the broker's parser is a reliable stream
\* of frames.
THEOREM PageFramesReliable == Spec => PageFramesHandled
<1>1. Init => PageFrames!Init
  BY DEF Init, PageFrames!Init
<1>2. UpInv /\ [Next]_vars => [PageFrames!Next]_(PageFrames!vars)
  BY UpNext
<1> QED
  BY <1>1, <1>2, UpInvariance, PTL DEF Spec, PageFramesHandled, PageFrames!Spec

-----------------------------------------------------------------------------
(* The stream of LiveMonitor, while the broker is in step with it *)

LEMMA BoxesTyped ==
    ASSUME NEW fs \in Seq(Frame)
    PROVE  Boxes(fs) \in Seq(Tok) /\ Boxes(fs) = Packed(fs)
<1>1. Packed(fs) = Joined(Boxed, fs)
  BY PackedIs
<1> QED
  BY <1>1, StreamsTyped, JoinedTyped DEF Boxes

LEMMA BoxesConcat ==
    ASSUME NEW a \in Seq(Frame), NEW b \in Seq(Frame)
    PROVE  Boxes(a \o b) = Boxes(a) \o Boxes(b)
<1>1. Boxed \in [Frame -> Seq(Tok)]
  BY StreamsTyped
<1> QED
  BY <1>1, JoinedConcat DEF Boxes

LEMMA BoxesOne ==
    ASSUME NEW f \in Frame
    PROVE  Boxes(<<f>>) = Pack(f)
<1>1. Joined(Boxed, <<f>>) = Boxed[f]
  BY StreamsTyped, JoinedOne
<1> QED
  BY <1>1 DEF Boxes, Boxed

LEMMA BoxesEmpty == Boxes(<<>>) = <<>>
BY JoinedEmpty DEF Boxes

\* The frame f is the first one of t: its tokens come first.
LEMMA BoxesFirst ==
    ASSUME NEW f \in Frame, NEW t \in Seq(Frame), NEW t2 \in Seq(Frame), JoinIs(<<f>>, t2, t)
    PROVE  JoinIs(Pack(f), Boxes(t2), Boxes(t))
<1>1. <<f>> \in Seq(Frame)
  OBVIOUS
<1>2. Boxes(<<f>> \o t2) = Boxes(<<f>>) \o Boxes(t2)
  BY <1>1, BoxesConcat
<1> QED
  BY <1>2, BoxesOne DEF JoinIs

\* After a NUL, the newline of its frame f comes before the frames t.
AfterNul(f, t, y) == JoinIs(<<Newline(f)>>, Boxes(t), y)

\* b holds the first frame f of t, and c what follows its NUL.
PubWhole(t, b, rest, f, t2, c) ==
    /\ JoinIs(<<f>>, t2, t) /\ JoinIs(Bare(f), c, b)
    /\ \E y \in Seq(Tok) : JoinIs(c, rest, y) /\ AfterNul(f, t2, y)

LEMMA PubShape ==
    ASSUME NEW t \in Seq(Frame), NEW b \in Seq(Tok), NEW rest \in Seq(Tok),
           JoinIs(b, rest, Boxes(t))
    PROVE  \/ Len(b) <= 6 /\ \E f \in Frame : Leads(f, b)
           \/ \E f \in Frame, t2 \in Seq(Frame), c \in Seq(Tok) : PubWhole(t, b, rest, f, t2, c)
<1>1. CASE t = <<>>
  <2>1. JoinIs(b, rest, <<>>)
    BY <1>1, BoxesEmpty
  <2> QED
    BY <2>1, NoFrames
<1>2. CASE t # <<>>
  <2>1. PICK f \in Frame, t2 \in Seq(Frame) : JoinIs(<<f>>, t2, t)
    BY <1>2, FirstFrame
  <2>2. PICK x \in Seq(Tok) : x = Boxes(t2)
    BY BoxesTyped
  <2>3. PICK p \in Seq(Tok) : p = Bare(f) /\ Pack(f) = p \o <<Newline(f)>>
    BY BareIs
  <2>4. <<Newline(f)>> \in Seq(Tok)
    BY TokenTyped DEF Newline, Name
  <2>5. PICK q \in Seq(Tok) : q = <<Newline(f)>> \o x
    BY <2>4, ConcatProperties
  <2>6. JoinIs(Pack(f), x, Boxes(t)) /\ JoinIs(p, <<Newline(f)>>, Pack(f))
    BY <2>1, <2>2, <2>3, BoxesFirst DEF JoinIs
  <2>7. JoinIs(p, <<Newline(f)>> \o x, Boxes(t))
    BY <2>4, <2>6, JoinApart
  <2>8. SameJoin(b, rest, Bare(f), q)
    BY <2>3, <2>5, <2>7 DEF JoinIs, SameJoin
  <2>9. CASE HeadTaken(f, b, rest, q)
    <3>1. PICK c \in Seq(Tok) : JoinIs(Bare(f), c, b) /\ JoinIs(c, rest, q)
      BY <2>9 DEF HeadTaken
    <3>2. AfterNul(f, t2, q)
      BY <2>2, <2>5 DEF AfterNul, JoinIs
    <3>3. PubWhole(t, b, rest, f, t2, c)
      BY <2>1, <3>1, <3>2 DEF PubWhole
    <3> QED
      BY <3>3
  <2> QED
    BY <2>8, <2>9, HeadFrame
<1> QED
  BY <1>1, <1>2

\* The broker has the tokens b, all of which it has looked at, and rest is on its
\* way: it is in step with the frames t, or was cut off behind a NUL.
InStep(b, rest, t) == JoinIs(b, rest, Boxes(t))
CutOff(b, rest, t) == b = <<>> /\ \E f \in Frame : AfterNul(f, t, rest)

PubState(todo, rest, s, t, b) ==
    /\ JoinIs(s.frames, t, todo)
    /\ s.buffer = WithNewlines(b)
    /\ InStep(b, rest, t) \/ CutOff(b, rest, t)
    /\ s.over => Len(b) <= 6

PubStates(todo, rest) ==
    {s \in LoopState :
        \E t \in Seq(Frame), b \in Seq(Tok) : PubState(todo, rest, s, t, b)}

\* Behind the NUL of a frame, the newline that stomper sends is removed when it
\* has arrived.
LEMMA NewlineRemoved ==
    ASSUME NEW f \in Frame, NEW t \in Seq(Frame), NEW c \in Seq(Tok), NEW rest \in Seq(Tok),
           NEW y \in Seq(Tok), JoinIs(c, rest, y), AfterNul(f, t, y)
    PROVE  \E d \in Seq(Tok) :
              /\ (IF Is(WithNewlines(c), 1, "newline") THEN Tail(WithNewlines(c)) ELSE WithNewlines(c))
                    = WithNewlines(d)
              /\ Len(WithNewlines(d)) <= Len(WithNewlines(c))
              /\ InStep(d, rest, t) \/ CutOff(d, rest, t)
<1>1. Newline(f) \in Tok /\ Newline(f).is = "newline"
  BY TokenTyped DEF Newline, Name
<1>2. PICK l \in Seq(Tok) : l = <<Newline(f)>> /\ Len(l) = 1
  <2>1. <<Newline(f)>> \in Seq(Tok) /\ Len(<<Newline(f)>>) = 1
    BY <1>1
  <2> QED
    BY <2>1
<1>3. CASE c = <<>>
  <2>1. WithNewlines(c) = <<>>
    BY <1>3, DoubledEmpty
  <2>2. ~Is(<<>>, 1, "newline")
    BY DEF Is
  <2>3. rest = y
    BY <1>3, ConcatEmptySeq DEF JoinIs
  <2>4. CutOff(c, rest, t)
    BY <1>3, <2>3 DEF CutOff
  <2>5. Len(WithNewlines(c)) <= Len(WithNewlines(c))
    BY <2>1
  <2> QED
    BY <2>1, <2>2, <2>4, <2>5
<1>4. CASE c # <<>>
  <2>1. Len(c) \in Nat /\ Len(c) # 0
    BY <1>4, EmptySeq, LenProperties
  <2>2. PICK x \in Seq(Tok) : x = Boxes(t)
    BY BoxesTyped
  <2>3. SameJoin(c, rest, l, x)
    BY <1>2, <2>2 DEF SameJoin, JoinIs, AfterNul
  <2>4. Between(Tok, c, rest, l, x)
    <3>1. Len(l) <= Len(c)
      BY <1>2, <2>1
    <3> QED
      BY <2>3, <3>1, Split
  <2>5. PICK d \in Seq(Tok) : c = l \o d /\ x = d \o rest
    BY <2>4 DEF Between
  <2>6. PICK w \in Seq(Tok) : w = WithNewlines(d)
    BY DoubledTyped
  <2>7. WithNewlines(c) = l \o w
    <3>1. WithNewlines(l) = l
      BY <1>1, <1>2, DoubledOne DEF Doubled
    <3>2. WithNewlines(l \o d) = WithNewlines(l) \o WithNewlines(d)
      BY DoubledTyped
    <3> QED
      BY <2>5, <2>6, <3>1, <3>2
  <2>8. PICK u \in Seq(Tok) : u = l \o w
    BY ConcatProperties
  <2>9. /\ Len(u) = 1 + Len(w) /\ Len(w) \in Nat /\ u[1] = Newline(f)
        /\ DOMAIN u = 1 .. Len(u)
    <3>1. Len(u) = Len(l) + Len(w) /\ Len(w) \in Nat
      BY <2>8, ConcatProperties, LenProperties
    <3>2. 1 \in 1 .. Len(l) + Len(w) /\ 1 <= Len(l)
      BY <1>2, <3>1
    <3>3. (l \o w)[1] = l[1]
      BY <3>2, ConcatProperties
    <3>4. l[1] = Newline(f)
      BY <1>2
    <3> QED
      BY <1>2, <2>8, <3>1, <3>3, <3>4, LenProperties
  <2>10. Is(u, 1, "newline")
    BY <1>1, <2>9 DEF Is
  <2>11. Tail(u) = w
    <3>1. Drop(l \o w, Len(l)) = w
      BY CutConcat
    <3>2. u # <<>>
      <4> SUFFICES ASSUME u = <<>> PROVE FALSE
        OBVIOUS
      <4>1. Len(u) = 0
        OBVIOUS
      <4> QED
        BY <2>9, <4>1
    <3>3. Tail(u) = SubSeq(u, 2, Len(u))
      BY <3>2, TailIsSubSeq
    <3> QED
      BY <1>2, <2>8, <3>1, <3>3 DEF Drop
  <2>12. InStep(d, rest, t)
    BY <2>2, <2>5 DEF InStep, JoinIs
  <2>13. Len(w) <= Len(u)
    BY <2>9
  <2> QED
    BY <2>6, <2>7, <2>8, <2>10, <2>11, <2>12, <2>13
<1> QED
  BY <1>3, <1>4

LEMMA PubRound ==
    ASSUME NEW todo \in Seq(Frame), NEW rest \in Seq(Tok), NEW s \in PubStates(todo, rest)
    PROVE  /\ OneMessage(s) \in PubStates(todo, rest)
           /\ RoundsLeft(OneMessage(s)) < RoundsLeft(s) \/ RoundsLeft(OneMessage(s)) = 0
<1>1. s \in LoopState
  BY DEF PubStates
<1>2. CASE s.over
  <2>1. OneMessage(s) = s
    BY <1>2 DEF OneMessage
  <2> QED
    BY <1>2, <2>1 DEF RoundsLeft
<1>3. CASE ~s.over
  <2>f. s.over = FALSE /\ s.frames \in Seq(Frame) /\ s.buffer \in Seq(Tok)
    BY <1>1, <1>3 DEF LoopState
  <2>1. PICK t \in Seq(Frame), b \in Seq(Tok) : PubState(todo, rest, s, t, b)
    BY DEF PubStates
  <2>2. /\ InStep(b, rest, t) \/ CutOff(b, rest, t)
        /\ s.buffer = WithNewlines(b) /\ JoinIs(s.frames, t, todo)
    BY <2>1 DEF PubState
  <2>3. CASE Len(b) <= 6 /\ \E f \in Frame : Leads(f, b)
    <3>1. PICK f \in Frame : Leads(f, b)
      BY <2>3
    <3>2. WithNewlines(b) = b
      BY <2>3, <3>1, ShortPlain, DoubledPlain
    <3>3. OneMessage(s) = [frames |-> s.frames, buffer |-> b, over |-> TRUE]
      BY <2>f, <2>2, <2>3, <3>1, <3>2, RoundShort
    <3>4. PubState(todo, rest, OneMessage(s), t, b)
      BY <2>2, <2>3, <3>2, <3>3 DEF PubState
    <3>5. OneMessage(s) \in LoopState
      BY <2>f, <3>3 DEF LoopState
    <3>6. RoundsLeft(OneMessage(s)) = 0
      BY <3>3 DEF RoundsLeft
    <3> QED
      BY <3>4, <3>5, <3>6 DEF PubStates
  <2>4. CASE \E f \in Frame, t2 \in Seq(Frame), c \in Seq(Tok) : PubWhole(t, b, rest, f, t2, c)
    <3>1. PICK f \in Frame, t2 \in Seq(Frame), c \in Seq(Tok) : PubWhole(t, b, rest, f, t2, c)
      BY <2>4
    <3>2. JoinIs(Pack(f), WithNewlines(c), WithNewlines(b))
      BY <3>1, WholeDoubled DEF PubWhole
    <3>3. PICK w \in Seq(Tok) : w = WithNewlines(c)
      BY DoubledTyped
    <3>4. JoinIs(Pack(f), w, s.buffer)
      BY <2>2, <3>2, <3>3
    <3>5. OneMessage(s) = [frames |-> Append(s.frames, f),
                           buffer |-> IF Is(w, 1, "newline") THEN Tail(w) ELSE w,
                           over   |-> FALSE]
      BY <2>f, <3>4, RoundWhole
    <3>6. PICK y \in Seq(Tok) : JoinIs(c, rest, y) /\ AfterNul(f, t2, y)
      BY <3>1 DEF PubWhole
    <3>7. PICK d \in Seq(Tok) :
            /\ (IF Is(WithNewlines(c), 1, "newline") THEN Tail(WithNewlines(c)) ELSE WithNewlines(c))
                  = WithNewlines(d)
            /\ Len(WithNewlines(d)) <= Len(WithNewlines(c))
            /\ InStep(d, rest, t2) \/ CutOff(d, rest, t2)
      BY <3>6, NewlineRemoved
    <3>8. PICK v \in Seq(Tok) : v = WithNewlines(d)
      BY DoubledTyped
    <3>9. OneMessage(s) = [frames |-> Append(s.frames, f), buffer |-> v, over |-> FALSE]
      BY <3>3, <3>5, <3>7, <3>8
    <3>10. Append(s.frames, f) \in Seq(Frame)
      BY <2>f, AppendProperties
    <3>11. JoinIs(Append(s.frames, f), t2, todo)
      <4>1. PICK g \in Seq(Frame) : g = s.frames
        BY <2>f
      <4>2. <<f>> \in Seq(Frame)
        OBVIOUS
      <4>3. Append(g, f) = g \o <<f>>
        BY AppendIsConcat
      <4>4. JoinIs(g, t, todo) /\ JoinIs(<<f>>, t2, t)
        BY <2>2, <3>1, <4>1 DEF PubWhole
      <4>5. JoinIs(g \o <<f>>, t2, todo)
        BY <4>2, <4>4, JoinMove
      <4> QED
        BY <4>1, <4>3, <4>5
    <3>12. PubState(todo, rest, OneMessage(s), t2, d)
      BY <3>7, <3>8, <3>9, <3>11 DEF PubState
    <3>13. OneMessage(s) \in PubStates(todo, rest)
      BY <3>9, <3>10, <3>12 DEF PubStates, LoopState
    <3>14. Len(v) < Len(s.buffer) /\ Len(v) \in Nat /\ Len(s.buffer) \in Nat
      <4>1. PICK p \in Seq(Tok) : p = Pack(f) /\ Len(p) = 8
        BY PackIs
      <4>2. Len(p \o w) = Len(p) + Len(w)
        BY ConcatProperties
      <4>3. s.buffer = p \o w
        BY <3>4, <4>1 DEF JoinIs
      <4>4. Len(w) \in Nat /\ Len(p) \in Nat /\ Len(v) \in Nat /\ Len(v) <= Len(w)
        BY <3>3, <3>7, <3>8, LenProperties
      <4> QED
        BY <4>1, <4>2, <4>3, <4>4
    <3>15. RoundsLeft(OneMessage(s)) < RoundsLeft(s)
      BY <2>f, <3>9, <3>14, SMTT(40) DEF RoundsLeft
    <3> QED
      BY <3>13, <3>15
  <2>5. CASE InStep(b, rest, t)
    BY <2>3, <2>4, <2>5, PubShape DEF InStep
  <2>6. CASE CutOff(b, rest, t)
    <3>1. b = <<>> /\ JoinIs(b, <<>>, <<>>) /\ <<>> \in Seq(Tok)
      BY <2>6, EmptySeq DEF CutOff, JoinIs
    <3> QED
      BY <2>3, <3>1, NoFrames
  <2> QED
    BY <2>2, <2>5, <2>6
<1> QED
  BY <1>2, <1>3

\* A buffer that the broker leaves when it is in step has no NUL.
LEMMA PubShort ==
    ASSUME NEW t \in Seq(Frame), NEW b \in Seq(Tok), NEW rest \in Seq(Tok), InStep(b, rest, t),
           Len(b) <= 6
    PROVE  Plain(b) /\ \E f \in Frame : Leads(f, b)
<1>1. ~(\E f \in Frame, t2 \in Seq(Frame), c \in Seq(Tok) : PubWhole(t, b, rest, f, t2, c))
  <2> SUFFICES ASSUME NEW f \in Frame, NEW t2 \in Seq(Frame), NEW c \in Seq(Tok),
                      PubWhole(t, b, rest, f, t2, c)
               PROVE  FALSE
    OBVIOUS
  <2>1. PICK p \in Seq(Tok) : p = Bare(f) /\ Len(p) = 7
    BY BareIs
  <2>2. b = p \o c
    BY <2>1 DEF PubWhole, JoinIs
  <2>3. Len(b) = Len(p) + Len(c) /\ Len(c) \in Nat
    BY <2>2, ConcatProperties, LenProperties
  <2> QED
    BY <2>1, <2>3
<1>2. PICK f \in Frame : Leads(f, b)
  BY <1>1, PubShape DEF InStep
<1>3. Plain(b)
  BY <1>2, ShortPlain
<1> QED
  BY <1>2, <1>3

\* What the broker holds of LiveMonitor's stream after the frames that it handled.
\* The last disjunct: it is out of step.  a and l are the two parts of a frame's
\* tokens, and of the second one it holds nothing or one token.
OutOfStep(b, rest, t) ==
    /\ b = <<>> \/ (Len(b) = 1 /\ b[1].is \in {"header", "body"})
    /\ \E f \in Frame, a \in Seq(Tok), l \in Seq(Tok), y \in Seq(Tok) :
        /\ a # <<>> /\ l # <<>> /\ JoinIs(a, l, Pack(f))
        /\ JoinIs(l, Boxes(t), y) /\ JoinIs(b, rest, y)

Held(b, rest, t) == (Len(b) <= 6 /\ InStep(b, rest, t)) \/ OutOfStep(b, rest, t)

\* What the broker has after a chunk has arrived: the frames that are gone were
\* handled, or lost.
PubAfter(r, todo, rest) ==
    /\ r.frames \in Seq(Frame) /\ r.buffer \in Seq(Tok)
    /\ \E gone \in Seq(Frame), t \in Seq(Frame) :
        /\ JoinIs(gone, t, todo) /\ r.frames \in {gone, <<>>}
        /\ Held(r.buffer, rest, t)

LEMMA CutOffHeld ==
    ASSUME NEW t \in Seq(Frame), NEW b \in Seq(Tok), NEW rest \in Seq(Tok), CutOff(b, rest, t)
    PROVE  Held(b, rest, t)
<1>1. PICK f \in Frame : AfterNul(f, t, rest)
  BY DEF CutOff
<1>2. b = <<>>
  BY DEF CutOff
<1>3. PICK a \in Seq(Tok) : a = Bare(f) /\ Len(a) = 7 /\ Pack(f) = a \o <<Newline(f)>>
  BY BareIs
<1>4. PICK l \in Seq(Tok) : l = <<Newline(f)>>
  <2>1. <<Newline(f)>> \in Seq(Tok)
    BY TokenTyped DEF Newline, Name
  <2> QED
    BY <2>1
<1>5. a # <<>> /\ l # <<>>
  <2>1. Len(<<>>) = 0
    OBVIOUS
  <2>2. a # <<>>
    <3> SUFFICES ASSUME a = <<>> PROVE FALSE
      OBVIOUS
    <3> QED
      BY <1>3, <2>1
  <2>3. l # <<>>
    BY <1>4
  <2> QED
    BY <2>2, <2>3
<1>6. JoinIs(a, l, Pack(f)) /\ JoinIs(l, Boxes(t), rest)
  BY <1>1, <1>3, <1>4 DEF JoinIs, AfterNul
<1>7. JoinIs(b, rest, rest)
  BY <1>2, ConcatEmptySeq DEF JoinIs
<1> QED
  BY <1>2, <1>5, <1>6, <1>7 DEF Held, OutOfStep

LEMMA PubReceived ==
    ASSUME NEW todo \in Seq(Frame), NEW buffer \in Seq(Tok), NEW chunk \in Seq(Tok),
           NEW rest \in Seq(Tok), Plain(buffer), InStep(buffer \o chunk, rest, todo)
    PROVE  PubAfter(Received(buffer, chunk), todo, rest)
<1> DEFINE b0 == buffer \o chunk
           data == buffer \o WithNewlines(chunk)
           S == PubStates(todo, rest)
           s0 == [frames |-> <<>>, buffer |-> data, over |-> FALSE]
<1>1. b0 \in Seq(Tok) /\ InStep(b0, rest, todo)
  BY ConcatProperties
<1>3. data = WithNewlines(b0) /\ data \in Seq(Tok)
  <2>1. WithNewlines(buffer) = buffer
    BY DoubledPlain
  <2>2. WithNewlines(buffer \o chunk) = WithNewlines(buffer) \o WithNewlines(chunk)
    BY DoubledTyped
  <2>3. WithNewlines(b0) \in Seq(Tok)
    BY <1>1, DoubledTyped
  <2> QED
    BY <2>1, <2>2, <2>3
<1> HIDE DEF b0, data
<1>4. s0 \in S
  <2>1. <<>> \in Seq(Frame) /\ <<>> \o todo = todo
    BY EmptySeq, ConcatEmptySeq
  <2>2. PubState(todo, rest, s0, todo, b0)
    BY <1>1, <1>3, <2>1 DEF PubState, JoinIs
  <2>3. s0 \in LoopState
    BY <1>3, <2>1 DEF LoopState
  <2> QED
    BY <1>1, <2>2, <2>3 DEF PubStates
<1>5. S \subseteq LoopState /\ RoundsEnd(S)
  <2>1. ASSUME NEW s \in S
        PROVE  /\ OneMessage(s) \in S
               /\ RoundsLeft(OneMessage(s)) < RoundsLeft(s) \/ RoundsLeft(OneMessage(s)) = 0
    BY PubRound
  <2>2. S \subseteq LoopState
    BY DEF PubStates
  <2> HIDE DEF S
  <2> QED
    BY <2>1, <2>2 DEF RoundsEnd
<1> DEFINE r == Messages(data)
<1>6. r \in S /\ r.over = TRUE
  <2> HIDE DEF S
  <2> QED
    BY <1>3, <1>4, <1>5, LoopEnds
<1>7. Received(buffer, chunk) = r
  BY DEF Received, data
<1> HIDE DEF r
<1>8. r.frames \in Seq(Frame) /\ r.buffer \in Seq(Tok)
  BY <1>6 DEF PubStates, LoopState
<1>9. PICK t \in Seq(Frame), b \in Seq(Tok) : PubState(todo, rest, r, t, b)
  BY <1>6 DEF PubStates
<1>10. /\ Len(b) <= 6 /\ JoinIs(r.frames, t, todo) /\ r.buffer = WithNewlines(b)
       /\ InStep(b, rest, t) \/ CutOff(b, rest, t)
  BY <1>6, <1>9 DEF PubState
<1>11. Held(b, rest, t) /\ WithNewlines(b) = b
  <2>1. CASE InStep(b, rest, t)
    <3>1. Plain(b)
      BY <1>10, <2>1, PubShort
    <3> QED
      BY <1>10, <2>1, <3>1, DoubledPlain DEF Held
  <2>2. CASE CutOff(b, rest, t)
    <3>1. b = <<>>
      BY <2>2 DEF CutOff
    <3> QED
      BY <2>2, <3>1, DoubledEmpty, CutOffHeld
  <2> QED
    BY <1>10, <2>1, <2>2
<1>12. PubAfter(r, todo, rest)
  BY <1>8, <1>10, <1>11 DEF PubAfter
<1> QED
  BY <1>7, <1>12

-----------------------------------------------------------------------------
(* LiveMonitor's stream, when the broker is out of step with it *)

LEMMA IndexNat ==
    ASSUME NEW x \in Seq(Tok), NEW t, NEW u
    PROVE  Index(x, t, u) \in Nat
<1> DEFINE places == {i \in DOMAIN x : Is(x, i, t) /\ Is(x, i + 1, u)}
           less == OpToRel(<, Nat)
<1>1. places \subseteq Nat
  BY LenProperties
<1>2. CASE places = {}
  BY <1>2 DEF Index
<1>3. CASE places # {}
  <2>1. PICK i \in places : \A j \in places : ~ (<<j, i>> \in less)
    <3>1. IsWellFoundedOn(less, Nat)
      BY NatLessThanWellFounded
    <3> HIDE DEF places, less
    <3> QED
      BY <1>1, <1>3, <3>1, WFMin
  <2>2. \A j \in places : i <= j
    <3> SUFFICES ASSUME NEW j \in places PROVE i <= j
      OBVIOUS
    <3>1. i \in Nat /\ j \in Nat
      BY <1>1
    <3>2. ~(j < i)
      BY <2>1, <3>1 DEF OpToRel
    <3> QED
      BY <3>1, <3>2
  <2>3. (CHOOSE k \in places : \A j \in places : k <= j) \in places
    <3> HIDE DEF places
    <3> QED
      BY <2>1, <2>2
  <2> HIDE DEF places
  <2>4. (CHOOSE k \in places : \A j \in places : k <= j) \in Nat
    BY <1>1, <2>3
  <2> QED
    BY <1>3, <2>4 DEF Index, places
<1> QED
  BY <1>2, <1>3

LEMMA MessageLengthNat ==
    ASSUME NEW x \in Seq(Tok)
    PROVE  MessageLength(x) \in Nat
<1>1. Index(x, "nul", "newline") \in Nat
  BY IndexNat
<1> QED
  BY <1>1 DEF MessageLength

\* The first newline of the buffer w is at n: what syncBuffer strips.
LEMMA StrippedIs ==
    ASSUME NEW w \in Seq(Tok), NEW n \in 1 .. Len(w), w[n].is = "newline",
           \A i \in 1 .. (n - 1) : w[i].is # "newline", w[1].is # "command"
    PROVE  Stripped(w) = IF Is(w, n - 1, "nul") THEN Drop(w, n) ELSE <<>>
<1>1. Find(w, "newline") = n
  BY FindIs
<1>2. ~Is(w, 1, "command")
  BY DEF Is
<1>3. n # 0
  OBVIOUS
<1> QED
  BY <1>1, <1>2, <1>3 DEF Stripped

LEMMA StrippedEmpty == Stripped(<<>>) = <<>>
<1>1. <<>> \in Seq(Tok) /\ \A i \in 1 .. Len(<<>>) : <<>>[i].is # "newline"
  BY EmptySeq
<1>2. Find(<<>>, "newline") = 0
  BY <1>1, FindNone
<1> QED
  BY <1>2 DEF Stripped

LEMMA SyncOnce ==
    ASSUME NEW w \in Seq(Tok), w # <<>>, Stripped(w) = <<>>
    PROVE  SyncBuffer(w) = <<>>
<1> DEFINE S == {w, <<>>}
           m == [x \in S |-> IF x = w THEN 1 ELSE 0]
<1>1. m \in [S -> Nat] /\ w \in S /\ m[w] = 1 /\ m[<<>>] = 0
  OBVIOUS
<1>2. m[w] <= Len(w)
  BY <1>1, EmptySeq
<1>3. SyncRounds(S, m)
  BY <1>1, StrippedEmpty DEF SyncRounds
<1>4. SyncBuffer(w) \in S /\ m[SyncBuffer(w)] = 0
  <2> HIDE DEF S, m
  <2> QED
    BY <1>1, <1>2, <1>3, SyncEnd
<1> QED
  BY <1>1, <1>4

LEMMA SyncTwice ==
    ASSUME NEW w \in Seq(Tok), NEW v \in Seq(Tok), Stripped(w) = v, Len(w) >= 2, v # <<>>,
           v # w, Stripped(v) = <<>>
    PROVE  SyncBuffer(w) = <<>>
<1> DEFINE S == {w, v, <<>>}
           m == [x \in S |-> IF x = w THEN 2 ELSE IF x = v THEN 1 ELSE 0]
<1>0. w # <<>>
  BY EmptySeq
<1>1. m \in [S -> Nat] /\ w \in S /\ m[w] = 2 /\ m[v] = 1 /\ m[<<>>] = 0
  BY <1>0
<1>2. m[w] <= Len(w)
  BY <1>1
<1>3. SyncRounds(S, m)
  BY <1>1, StrippedEmpty DEF SyncRounds
<1>4. SyncBuffer(w) \in S /\ m[SyncBuffer(w)] = 0
  <2> HIDE DEF S, m
  <2> QED
    BY <1>1, <1>2, <1>3, SyncEnd
<1> QED
  BY <1>1, <1>4

\* A buffer that starts with a newline is cleared.
LEMMA NewlineCleared ==
    ASSUME NEW w \in Seq(Tok), w # <<>>, w[1].is = "newline"
    PROVE  Stripped(w) = <<>>
<1>1. Len(w) \in Nat \ {0} /\ DOMAIN w = 1 .. Len(w)
  BY EmptySeq, LenProperties
<1>2. PICK n \in 1 .. Len(w) : n = 1
  BY <1>1
<1>3. w[n].is = "newline" /\ (\A i \in 1 .. (n - 1) : w[i].is # "newline") /\ w[1].is # "command"
  BY <1>2
<1>4. ~Is(w, n - 1, "nul")
  BY <1>1, <1>2 DEF Is
<1>5. Stripped(w) = IF Is(w, n - 1, "nul") THEN Drop(w, n) ELSE <<>>
  BY <1>3, StrippedIs
<1> QED
  BY <1>4, <1>5

\* A line without a NUL that does not begin with a command: all is cleared.
LEMMA LineCleared ==
    ASSUME NEW p \in Seq(Tok), NEW x \in Seq(Tok), Len(p) = 2, p[1].is \in {"header", "body"},
           p[2].is = "newline"
    PROVE  SyncBuffer(p \o x) = <<>>
<1>1. PICK w \in Seq(Tok) : w = p \o x
  BY ConcatProperties
<1>2. /\ Len(w) = 2 + Len(x) /\ Len(x) \in Nat /\ DOMAIN w = 1 .. Len(w)
      /\ w[1] = p[1] /\ w[2] = p[2]
  <2>1. Len(w) = Len(p) + Len(x) /\ Len(x) \in Nat /\ DOMAIN w = 1 .. Len(w)
    BY <1>1, ConcatProperties, LenProperties
  <2>2. \A i \in 1 .. Len(p) + Len(x) : w[i] = IF i <= Len(p) THEN p[i] ELSE x[i - Len(p)]
    BY <1>1, ConcatProperties
  <2>3. 1 \in 1 .. Len(p) + Len(x) /\ 2 \in 1 .. Len(p) + Len(x) /\ 1 <= Len(p) /\ 2 <= Len(p)
    BY <2>1
  <2> QED
    BY <2>1, <2>2, <2>3
<1>3. PICK n \in 1 .. Len(w) : n = 2
  BY <1>2
<1>4. /\ w[n].is = "newline" /\ (\A i \in 1 .. (n - 1) : w[i].is # "newline")
      /\ w[1].is # "command"
  BY <1>2, <1>3
<1>5. ~Is(w, n - 1, "nul")
  BY <1>2, <1>3 DEF Is
<1>6. Stripped(w) = IF Is(w, n - 1, "nul") THEN Drop(w, n) ELSE <<>>
  BY <1>4, StrippedIs
<1>7. w # <<>>
  BY <1>2, EmptySeq
<1> QED
  BY <1>1, <1>5, <1>6, <1>7, SyncOnce

\* A line that ends with a NUL is stripped, and the newline of its frame, which
\* comes next, is taken for an empty line: all is cleared.
LEMMA NulCleared ==
    ASSUME NEW p \in Seq(Tok), NEW x \in Seq(Tok), NEW n \in 2 .. Len(p), n = Len(p),
           p[n].is = "newline", p[n - 1].is = "nul",
           \A i \in 1 .. (n - 1) : p[i].is # "newline", p[1].is # "command",
           x # <<>> => x[1].is = "newline"
    PROVE  SyncBuffer(p \o x) = <<>>
<1>1. PICK w \in Seq(Tok) : w = p \o x
  BY ConcatProperties
<1>2. Len(w) = n + Len(x) /\ Len(x) \in Nat /\ DOMAIN w = 1 .. Len(w) /\ n \in Nat /\ n >= 2
  BY <1>1, ConcatProperties, LenProperties
<1>3. \A i \in 1 .. n : w[i] = p[i]
  <2>1. \A i \in 1 .. Len(p) + Len(x) : w[i] = IF i <= Len(p) THEN p[i] ELSE x[i - Len(p)]
    BY <1>1, ConcatProperties
  <2>2. \A i \in 1 .. n : i \in 1 .. Len(p) + Len(x) /\ i <= Len(p)
    BY <1>2
  <2> QED
    BY <2>1, <2>2
<1>4. n \in 1 .. Len(w) /\ n - 1 \in 1 .. Len(w) /\ n \in 1 .. n /\ n - 1 \in 1 .. n /\ 1 \in 1 .. n
  BY <1>2
<1>5. \A i \in 1 .. (n - 1) : i \in 1 .. n
  BY <1>2
<1>6. /\ w[n].is = "newline" /\ (\A i \in 1 .. (n - 1) : w[i].is # "newline")
      /\ w[1].is # "command" /\ Is(w, n - 1, "nul")
  BY <1>2, <1>3, <1>4, <1>5 DEF Is
<1>7. Stripped(w) = IF Is(w, n - 1, "nul") THEN Drop(w, n) ELSE <<>>
  BY <1>4, <1>6, StrippedIs
<1>8. Drop(w, n) = x
  BY <1>1, CutConcat
<1>9. w # <<>>
  BY <1>2, EmptySeq
<1>10. CASE x = <<>>
  BY <1>1, <1>6, <1>7, <1>8, <1>9, <1>10, SyncOnce
<1>11. CASE x # <<>>
  <2>1. Stripped(x) = <<>>
    BY <1>11, NewlineCleared
  <2>2. Stripped(w) = x /\ Len(w) >= 2 /\ x # w
    BY <1>2, <1>6, <1>7, <1>8
  <2> QED
    BY <1>1, <1>11, <2>1, <2>2, SyncTwice
<1> QED
  BY <1>10, <1>11

\* A token that is not a command and has no newline behind it yet is kept.
LEMMA TokenKept ==
    ASSUME NEW y \in Seq(Tok), Len(y) = 1, y[1].is \in {"header", "body"}
    PROVE  SyncBuffer(y) = y /\ WithNewlines(y) = y /\ MessageLength(y) = 0
<1>1. \A i \in 1 .. Len(y) : y[i].is # "newline" /\ y[i].is # "nul"
  OBVIOUS
<1>2. Find(y, "newline") = 0
  BY <1>1, FindNone
<1>3. Stripped(y) = y
  BY <1>2 DEF Stripped
<1>4. SyncBuffer(y) = y
  BY <1>3, SyncFix
<1>5. Index(y, "newline", "newline") = 0
  BY <1>1, IndexNone
<1>6. WithNewlines(y) = y
  BY <1>1, DoubledPlain DEF Plain
<1> QED
  BY <1>4, <1>5, <1>6 DEF MessageLength

\* A newline at the front stays there.
LEMMA NewlineStays ==
    ASSUME NEW x \in Seq(Tok), x # <<>>, x[1].is = "newline"
    PROVE  WithNewlines(x)[1].is = "newline"
<1>1. /\ x[1] \in Tok /\ Drop(x, 1) \in Seq(Tok) /\ x = <<x[1]>> \o Drop(x, 1)
      /\ <<x[1]>> \in Seq(Tok)
  BY FirstAndRest
<1>2. PICK h \in Seq(Tok), y \in Seq(Tok) : h = <<x[1]>> /\ y = Drop(x, 1)
  BY <1>1
<1>3. PICK w \in Seq(Tok) : w = WithNewlines(y)
  BY DoubledTyped
<1>4. WithNewlines(h \o y) = WithNewlines(h) \o w
  BY <1>3, DoubledTyped
<1>5. WithNewlines(h) = h
  BY <1>1, <1>2, DoubledOne DEF Doubled
<1>6. (h \o w)[1] = h[1]
  <2>1. Len(h) = 1 /\ Len(w) \in Nat
    BY <1>2, LenProperties
  <2>2. 1 \in 1 .. Len(h) + Len(w) /\ 1 <= Len(h)
    BY <2>1
  <2> QED
    BY <2>2, ConcatProperties
<1> QED
  BY <1>1, <1>2, <1>4, <1>5, <1>6

LEMMA TwoOrMore ==
    ASSUME NEW n \in Nat \ {0}, n # 1
    PROVE  n >= 2 /\ n - 1 # 0 /\ 2 \in 1 .. n /\ 1 \in 1 .. n - 1 /\ 1 \in 0 .. n
OBVIOUS

LEMMA ThreeOrMore ==
    ASSUME NEW n \in Nat, NEW m \in Nat, NEW k \in Nat, m = n - 1, k = m - 1, k # 0
    PROVE  3 <= n /\ 1 \in 0 .. m /\ 1 \in 1 .. m - 1 /\ 1 \in 0 .. n /\ 2 \in 1 .. n - 1
OBVIOUS

LEMMA OneThen ==
    ASSUME NEW h \in Seq(Tok), NEW g \in Seq(Tok), NEW q \in Seq(Tok),
           JoinIs(h, g, q), Len(h) = 1
    PROVE  Len(q) = 1 + Len(g) /\ q[1] = h[1]
<1>1. h \o g = q /\ Len(g) \in Nat
  BY LenProperties DEF JoinIs
<1>2. q \in Seq(Tok) /\ Len(q) = 1 + Len(g)
  <2>1. h \o g \in Seq(Tok) /\ Len(h \o g) = Len(h) + Len(g)
    BY ConcatProperties
  <2> QED
    BY <1>1, <2>1
<1>3. q[1] = h[1]
  <2>1. 1 \in 1 .. Len(h) + Len(g) /\ 1 <= Len(h)
    BY <1>1
  <2> QED
    BY <1>1, <2>1, ConcatProperties
<1> QED
  BY <1>2, <1>3

LEMMA OneThenAt ==
    ASSUME NEW h \in Seq(Tok), NEW g \in Seq(Tok), NEW q \in Seq(Tok),
           JoinIs(h, g, q), Len(h) = 1,
           NEW i \in Nat, 1 <= i, i <= Len(g)
    PROVE  q[1 + i] = g[i]
<1>1. h \o g = q /\ Len(g) \in Nat
  BY LenProperties DEF JoinIs
<1>2. 1 + i \in 1 .. Len(h) + Len(g) /\ ~(1 + i <= Len(h)) /\ (1 + i) - Len(h) = i
  BY <1>1
<1>3. (h \o g)[1 + i] = g[(1 + i) - Len(h)]
  BY <1>2, ConcatProperties
<1> QED
  BY <1>1, <1>2, <1>3

\* How the tokens y start when there are two of them.
LEMMA SecondDoubled ==
    ASSUME NEW y \in Seq(Tok), Len(y) \in Nat \ {0, 1}, y[1].is \in {"header", "body"}
    PROVE  \E h \in Seq(Tok), g \in Seq(Tok), q \in Seq(Tok), y2 \in Seq(Tok) :
              /\ h = <<y[1]>> /\ y[2] \in Tok /\ g = Doubled(y[2]) /\ JoinIs(h, g, q)
              /\ y2 = Drop(Drop(y, 1), 1)
              /\ JoinIs(q, WithNewlines(y2), WithNewlines(y))
<1>1. y # <<>>
  BY EmptySeq
<1>2. /\ y[1] \in Tok /\ Drop(y, 1) \in Seq(Tok) /\ Len(Drop(y, 1)) = Len(y) - 1
      /\ y = <<y[1]>> \o Drop(y, 1) /\ <<y[1]>> \in Seq(Tok)
  BY <1>1, FirstAndRest
<1>3. PICK y1 \in Seq(Tok) : y1 = Drop(y, 1)
  BY <1>2
<1>4. Len(y1) # 0
  BY <1>2, <1>3
<1>5. y1 # <<>>
  BY <1>4, EmptySeq
<1>6. /\ y1[1] \in Tok /\ Drop(y1, 1) \in Seq(Tok)
      /\ y1 = <<y1[1]>> \o Drop(y1, 1) /\ <<y1[1]>> \in Seq(Tok)
  BY <1>5, FirstAndRest
<1>7. y1[1] = y[2]
  <2>1. 1 \in 0 .. Len(y) /\ 1 \in 1 .. Len(y) - 1 /\ 1 + 1 = 2
    <3>1. Len(y) \in Nat \ {0} /\ Len(y) # 1
      OBVIOUS
    <3>2. 1 \in 0 .. Len(y) /\ 1 \in 1 .. Len(y) - 1
      BY <3>1, TwoOrMore
    <3> QED
      BY <3>2
  <2>2. \A i \in 1 .. Len(y) - 1 : Drop(y, 1)[i] = y[1 + i]
    BY <2>1, FirstDropAt
  <2> QED
    BY <1>3, <2>1, <2>2
<1>8. PICK y2 \in Seq(Tok) : y2 = Drop(y1, 1)
  BY <1>6
<1>9. PICK w1 \in Seq(Tok), w2 \in Seq(Tok) : w1 = WithNewlines(y1) /\ w2 = WithNewlines(y2)
  BY DoubledTyped
<1>10. Doubled(y[1]) = <<y[1]>>
  BY DEF Doubled
<1>11. Doubled(y[2]) \in Seq(Tok)
  BY <1>6, <1>7, StreamsTyped DEF Twice
<1>12. PICK h \in Seq(Tok), g \in Seq(Tok) : h = <<y[1]>> /\ g = Doubled(y[2])
  BY <1>2, <1>11
<1>13. WithNewlines(y) = h \o w1
  <2>1. WithNewlines(<<y[1]>> \o y1) = WithNewlines(<<y[1]>>) \o WithNewlines(y1)
    BY <1>2, DoubledTyped
  <2>2. WithNewlines(<<y[1]>>) = Doubled(y[1])
    BY <1>2, DoubledOne
  <2> QED
    BY <1>2, <1>3, <1>9, <1>10, <1>12, <2>1, <2>2
<1>14. w1 = g \o w2
  <2>1. WithNewlines(<<y1[1]>> \o y2) = WithNewlines(<<y1[1]>>) \o WithNewlines(y2)
    BY <1>6, DoubledTyped
  <2>2. WithNewlines(<<y1[1]>>) = Doubled(y1[1])
    BY <1>6, DoubledOne
  <2> QED
    BY <1>6, <1>7, <1>8, <1>9, <1>12, <2>1, <2>2
<1>15. PICK w \in Seq(Tok) : w = WithNewlines(y)
  BY DoubledTyped
<1>16. PICK q \in Seq(Tok) : q = h \o g
  BY ConcatProperties
<1>17. JoinIs(h, w1, w) /\ JoinIs(g, w2, w1)
  BY <1>13, <1>14, <1>15 DEF JoinIs
<1>18. JoinIs(h \o g, w2, w)
  BY <1>17, JoinMove
<1>19. JoinIs(q, WithNewlines(y2), WithNewlines(y)) /\ JoinIs(h, g, q)
  BY <1>9, <1>15, <1>16, <1>18 DEF JoinIs
<1>20. y2 = Drop(Drop(y, 1), 1) /\ y[2] \in Tok
  BY <1>3, <1>6, <1>7, <1>8
<1> QED
  BY <1>12, <1>19, <1>20

LEMMA LineLost ==
    ASSUME NEW y \in Seq(Tok), Len(y) \in Nat \ {0, 1}, y[1].is \in {"header", "body"},
           y[2].is = "newline"
    PROVE  SyncBuffer(WithNewlines(y)) = <<>>
<1>1. PICK h \in Seq(Tok), g \in Seq(Tok), q \in Seq(Tok), y2 \in Seq(Tok) :
              /\ h = <<y[1]>> /\ y[2] \in Tok /\ g = Doubled(y[2]) /\ JoinIs(h, g, q)
              /\ y2 = Drop(Drop(y, 1), 1)
              /\ JoinIs(q, WithNewlines(y2), WithNewlines(y))
  BY SecondDoubled
<1>2. Len(h) = 1 /\ h[1] = y[1] /\ Len(g) = 1 /\ g[1] = y[2]
  BY <1>1 DEF Doubled
<1>a. JoinIs(h, g, q) /\ Len(h) = 1
  BY <1>1, <1>2
<1>3. Len(q) = 1 + Len(g) /\ q[1] = h[1]
  BY <1>a, OneThen
<1>4. q[1 + 1] = g[1]
  <2>1. 1 \in Nat /\ 1 <= 1 /\ 1 <= Len(g)
    BY <1>2
  <2> QED
    BY <1>a, <2>1, OneThenAt
<1>5. Len(q) = 2 /\ q[1].is \in {"header", "body"} /\ q[2].is = "newline"
  BY <1>2, <1>3, <1>4
<1>6. PICK w2 \in Seq(Tok) : w2 = WithNewlines(y2)
  BY DoubledTyped
<1>7. SyncBuffer(q \o w2) = <<>>
  BY <1>5, LineCleared
<1> QED
  BY <1>1, <1>6, <1>7 DEF JoinIs

LEMMA BodyLost ==
    ASSUME NEW y \in Seq(Tok), Len(y) \in Nat \ {0, 1}, y[1].is \in {"header", "body"},
           y[2].is = "nul", 3 <= Len(y) => y[3].is = "newline"
    PROVE  SyncBuffer(WithNewlines(y)) = <<>>
<1>1. PICK h \in Seq(Tok), g \in Seq(Tok), q \in Seq(Tok), y2 \in Seq(Tok) :
              /\ h = <<y[1]>> /\ y[2] \in Tok /\ g = Doubled(y[2]) /\ JoinIs(h, g, q)
              /\ y2 = Drop(Drop(y, 1), 1)
              /\ JoinIs(q, WithNewlines(y2), WithNewlines(y))
  BY SecondDoubled
<1>2. /\ Len(h) = 1 /\ h[1] = y[1] /\ Len(g) = 2 /\ g[1] = y[2]
      /\ g[2] = Newline(y[2].of)
  BY <1>1 DEF Doubled
<1>a. JoinIs(h, g, q) /\ Len(h) = 1
  BY <1>1, <1>2
<1>3. Len(q) = 1 + Len(g) /\ q[1] = h[1]
  BY <1>a, OneThen
<1>4. q[1 + 1] = g[1] /\ q[1 + 2] = g[2]
  <2>1. PICK i \in Nat : i = 1 /\ 1 <= i /\ i <= Len(g)
    BY <1>2
  <2>2. PICK j \in Nat : j = 2 /\ 1 <= j /\ j <= Len(g)
    BY <1>2
  <2>3. q[1 + i] = g[i]
    BY <1>a, <2>1, OneThenAt
  <2>4. q[1 + j] = g[j]
    BY <1>a, <2>2, OneThenAt
  <2> QED
    BY <2>1, <2>2, <2>3, <2>4
<1>5. Len(q) = 3 /\ q[1] = y[1] /\ q[2] = y[2] /\ q[3] = Newline(y[2].of)
  BY <1>2, <1>3, <1>4
<1>6. PICK n \in 2 .. Len(q) : n = 3
  BY <1>5
<1>7. q[n].is = "newline" /\ q[n - 1].is = "nul" /\ n = Len(q) /\ q[1].is # "command"
  BY <1>5, <1>6, TokenName DEF Newline
<1>8. \A i \in 1 .. (n - 1) : q[i].is # "newline"
  <2>1. \A i \in 1 .. (n - 1) : i = 1 \/ i = 2
    BY <1>6
  <2> QED
    BY <1>5, <2>1
<1>9. PICK w2 \in Seq(Tok) : w2 = WithNewlines(y2)
  BY DoubledTyped
<1>10. w2 # <<>> => w2[1].is = "newline"
  <2> SUFFICES ASSUME w2 # <<>> PROVE w2[1].is = "newline"
    OBVIOUS
  <2>1. y2 # <<>>
    BY <1>9, DoubledEmpty
  <2>2. PICK y1 \in Seq(Tok) : y1 = Drop(y, 1) /\ Len(y1) = Len(y) - 1
    BY EmptySeq, FirstAndRest
  <2>3. Len(y1) # 0 /\ Len(y1) \in Nat
    BY <2>2
  <2>4. Len(y2) = Len(y1) - 1
    BY <1>1, <2>2, <2>3, EmptySeq, FirstAndRest
  <2>5. Len(y2) # 0 /\ Len(y2) \in Nat
    BY <2>1, EmptySeq
  <2>6. /\ 3 <= Len(y) /\ 1 \in 0 .. Len(y1) /\ 1 \in 1 .. Len(y1) - 1
        /\ 1 \in 0 .. Len(y) /\ 2 \in 1 .. Len(y) - 1 /\ 1 + 1 = 2 /\ 1 + 2 = 3
    <3>1. Len(y) \in Nat /\ Len(y1) \in Nat /\ Len(y2) \in Nat
      BY LenProperties
    <3>2. Len(y1) = Len(y) - 1 /\ Len(y2) = Len(y1) - 1 /\ Len(y2) # 0
      BY <2>2, <2>4, <2>5
    <3>3. /\ 3 <= Len(y) /\ 1 \in 0 .. Len(y1) /\ 1 \in 1 .. Len(y1) - 1
          /\ 1 \in 0 .. Len(y) /\ 2 \in 1 .. Len(y) - 1
      BY <3>1, <3>2, ThreeOrMore
    <3> QED
      BY <3>3
  <2>7. \A i \in 1 .. Len(y1) - 1 : Drop(y1, 1)[i] = y1[1 + i]
    BY <2>6, FirstDropAt
  <2>8. \A i \in 1 .. Len(y) - 1 : Drop(y, 1)[i] = y[1 + i]
    BY <2>6, FirstDropAt
  <2>9. y2[1] = y[3]
    BY <1>1, <2>2, <2>6, <2>7, <2>8
  <2> QED
    BY <1>9, <2>1, <2>6, <2>9, NewlineStays
<1>11. SyncBuffer(q \o w2) = <<>>
  BY <1>6, <1>7, <1>8, <1>10, NulCleared
<1> QED
  BY <1>1, <1>9, <1>11 DEF JoinIs

\* y and l start with the same tokens.
Starts(y, l) == \A j \in 1 .. Len(y) : j <= Len(l) => y[j] = l[j]

\* What arrives of the part l of a frame's tokens behind its command: the broker
\* keeps a token without a newline, and clears everything else.
LEMMA LostOrKept ==
    ASSUME NEW f \in Frame, NEW a \in Seq(Tok), NEW l \in Seq(Tok), a # <<>>, l # <<>>,
           JoinIs(a, l, Pack(f)), NEW y \in Seq(Tok), y # <<>>, Starts(y, l)
    PROVE  \/ SyncBuffer(WithNewlines(y)) = <<>>
           \/ Len(y) = 1 /\ y[1].is \in {"header", "body"}
<1> DEFINE w == WithNewlines(y)
           k == Len(a)
<1>1. PICK p \in Seq(Tok) : p = Pack(f) /\ Len(p) = 8
  BY PackIs
<1>2. \A i \in 1 .. 8 : p[i] = Token(f, Names[i])
  BY <1>1, PackIs
<1>3. p = a \o l
  BY <1>1 DEF JoinIs
<1>4. k \in Nat \ {0} /\ Len(l) \in Nat \ {0} /\ k + Len(l) = 8 /\ Len(y) \in Nat \ {0}
  BY <1>1, <1>3, ConcatProperties, EmptySeq
<1>5. \A j \in 1 .. Len(l) : l[j].is = Names[k + j]
  <2> SUFFICES ASSUME NEW j \in 1 .. Len(l) PROVE l[j].is = Names[k + j]
    OBVIOUS
  <2>1. /\ k + j \in 1 .. Len(a) + Len(l) /\ ~(k + j <= Len(a)) /\ (k + j) - Len(a) = j
        /\ k + j \in 1 .. 8
    BY <1>4, SMTT(40)
  <2>2. (a \o l)[k + j] = l[j]
    BY <2>1, ConcatProperties
  <2>3. p[k + j] = Token(f, Names[k + j])
    BY <1>2, <2>1
  <2>4. Token(f, Names[k + j]).is = Names[k + j]
    BY TokenName
  <2> QED
    BY <1>3, <2>2, <2>3, <2>4
<1>6. \A j \in 1 .. Len(y) : j <= Len(l) => y[j].is = Names[k + j]
  <2> SUFFICES ASSUME NEW j \in 1 .. Len(y), j <= Len(l) PROVE y[j].is = Names[k + j]
    OBVIOUS
  <2>1. j \in 1 .. Len(l)
    BY <1>4
  <2> QED
    BY <1>5, <2>1 DEF Starts
<1> HIDE DEF k
<1>7. k \in 1 .. 7 /\ 1 \in 1 .. Len(y) /\ 1 <= Len(l)
  BY <1>4
<1>8. k = 1 \/ k = 2 \/ k = 3 \/ k = 4 \/ k = 5 \/ k = 6 \/ k = 7
  BY <1>7
<1>9. y[1].is = Names[k + 1]
  BY <1>6, <1>7
<1>10. /\ y[1] \in Tok /\ Drop(y, 1) \in Seq(Tok) /\ Len(Drop(y, 1)) = Len(y) - 1
       /\ y = <<y[1]>> \o Drop(y, 1) /\ <<y[1]>> \in Seq(Tok)
  BY FirstAndRest
<1>11. PICK y1 \in Seq(Tok) : y1 = Drop(y, 1)
  BY <1>10
<1>12. \A i \in 1 .. Len(y) - 1 : y1[i] = y[1 + i]
  <2>1. 1 \in 0 .. Len(y)
    BY <1>4
  <2> QED
    BY <1>11, <2>1, FirstDropAt
<1>13. w = Doubled(y[1]) \o WithNewlines(y1)
  <2>1. WithNewlines(<<y[1]>> \o y1) = WithNewlines(<<y[1]>>) \o WithNewlines(y1)
    BY <1>10, DoubledTyped
  <2>2. WithNewlines(<<y[1]>>) = Doubled(y[1])
    BY <1>10, DoubledOne
  <2> QED
    BY <1>10, <1>11, <2>1, <2>2
<1>14. PICK w1 \in Seq(Tok) : w1 = WithNewlines(y1)
  BY DoubledTyped
<1> HIDE DEF w
<1>15. CASE k \in {1, 3, 4, 7}
  <2>1. y[1].is = "newline"
    BY <1>9, <1>15, NamesAre
  <2>2. PICK h \in Seq(Tok) : h = <<y[1]>> /\ Len(h) = 1 /\ h[1] = y[1]
    BY <1>10
  <2>3. Doubled(y[1]) = h
    BY <2>1, <2>2 DEF Doubled
  <2>4. PICK v \in Seq(Tok) : v = h \o w1
    BY ConcatProperties
  <2>5. v # <<>> /\ v[1] = y[1]
    <3>1. Len(v) = 1 + Len(w1) /\ Len(w1) \in Nat
      BY <2>2, <2>4, ConcatProperties, LenProperties
    <3>2. 1 \in 1 .. Len(h) + Len(w1) /\ 1 <= Len(h)
      BY <2>2, <3>1
    <3>3. (h \o w1)[1] = h[1]
      BY <3>2, ConcatProperties
    <3> QED
      BY <2>2, <2>4, <3>1, <3>3, EmptySeq
  <2>6. SyncBuffer(v) = <<>>
    BY <2>1, <2>5, NewlineCleared, SyncOnce
  <2> QED
    BY <1>13, <1>14, <2>3, <2>4, <2>6 DEF w
<1>16. CASE k \in {2, 5} /\ Len(y) = 1
  BY <1>9, <1>16, NamesAre
<1>17. CASE k \in {2, 5, 6} /\ ~(k \in {2, 5} /\ Len(y) = 1)
  <2>1. CASE k = 6
    <3>1. y[1].is = "nul"
      BY <1>9, <2>1, NamesAre
    <3>2. PICK h \in Seq(Tok) : /\ h = Doubled(y[1]) /\ Len(h) = 2
                                /\ h[1] = y[1] /\ h[2] = Newline(y[1].of)
      <4>1. Newline(y[1].of) \in Tok
        BY <1>10 DEF Newline, Token, Tok, Name
      <4>2. Doubled(y[1]) = <<y[1], Newline(y[1].of)>>
        BY <3>1 DEF Doubled
      <4>3. <<y[1], Newline(y[1].of)>> \in Seq(Tok)
        BY <1>10, <4>1
      <4> QED
        BY <4>2, <4>3
    <3>3. h[2].is = "newline" /\ h[1].is = "nul"
      BY <3>1, <3>2, TokenName DEF Newline
    <3>4. w1 # <<>> => w1[1].is = "newline"
      <4> SUFFICES ASSUME w1 # <<>> PROVE w1[1].is = "newline"
        OBVIOUS
      <4>1. y1 # <<>>
        BY <1>14, DoubledEmpty
      <4>2. Len(y1) \in Nat \ {0}
        BY <4>1, EmptySeq
      <4>3. 2 \in 1 .. Len(y) /\ 2 <= Len(l) /\ 1 \in 1 .. Len(y) - 1 /\ k + 2 = 8 /\ 1 + 1 = 2
        BY <1>4, <1>10, <1>11, <2>1, <4>2 DEF k
      <4>4. y1[1].is = "newline"
        BY <1>6, <1>12, <4>3, NamesAre
      <4> QED
        BY <1>14, <4>1, <4>4, NewlineStays
    <3>5. PICK n \in 2 .. Len(h) : n = 2
      BY <3>2
    <3>6. /\ n = Len(h) /\ h[n].is = "newline" /\ h[n - 1].is = "nul"
          /\ (\A i \in 1 .. (n - 1) : h[i].is # "newline") /\ h[1].is # "command"
      BY <3>2, <3>3, <3>5
    <3>7. SyncBuffer(h \o w1) = <<>>
      BY <3>4, <3>6, NulCleared
    <3> QED
      BY <1>13, <1>14, <3>2, <3>7 DEF w
  <2>2. CASE k \in {2, 5}
    <3>1. Len(y) \in Nat \ {0, 1} /\ y[1].is \in {"header", "body"}
      BY <1>4, <1>9, <1>17, <2>2, NamesAre
    <3>2. /\ 2 \in 1 .. Len(y) /\ (3 <= Len(y) => 3 \in 1 .. Len(y)) /\ Len(l) \in Nat
          /\ k + Len(l) = 8
      <4>1. Len(y) # 1 /\ Len(y) \in Nat \ {0}
        BY <3>1
      <4>2. 2 \in 1 .. Len(y)
        BY <4>1, TwoOrMore
      <4>3. 3 <= Len(y) => 3 \in 1 .. Len(y)
        BY <4>1
      <4> QED
        BY <1>4, <4>2, <4>3 DEF k
    <3>3. CASE k = 2
      <4>1. k + 2 = 4 /\ 2 <= Len(l)
        BY <3>2, <3>3
      <4>2. y[2].is = "newline"
        BY <1>6, <3>2, <4>1, NamesAre
      <4> QED
        BY <3>1, <4>2, LineLost DEF w
    <3>4. CASE k = 5
      <4>1. k + 2 = 7 /\ k + 3 = 8 /\ 2 <= Len(l) /\ 3 <= Len(l)
        BY <3>2, <3>4
      <4>2. y[2].is = "nul"
        BY <1>6, <3>2, <4>1, NamesAre
      <4>3. 3 <= Len(y) => y[3].is = "newline"
        BY <1>6, <3>2, <4>1, NamesAre
      <4> QED
        BY <3>1, <4>2, <4>3, BodyLost DEF w
    <3> QED
      BY <2>2, <3>3, <3>4
  <2> QED
    BY <1>17, <2>1, <2>2
<1> QED
  BY <1>8, <1>15, <1>16, <1>17

\* Two ways of dividing a sequence agree where both first parts reach.
LEMMA PrefixAgree ==
    ASSUME NEW y \in Seq(Tok), NEW rest \in Seq(Tok), NEW l \in Seq(Tok), NEW x \in Seq(Tok),
           NEW z, JoinIs(y, rest, z), JoinIs(l, x, z), NEW j \in Nat, 1 <= j, j <= Len(y), j <= Len(l)
    PROVE  y[j] = l[j]
<1>1. Len(y) \in Nat /\ Len(l) \in Nat /\ Len(rest) \in Nat /\ Len(x) \in Nat
  BY LenProperties
<1>2. j \in 1 .. Len(y) + Len(rest) /\ j \in 1 .. Len(l) + Len(x)
  BY <1>1
<1>3. (y \o rest)[j] = y[j]
  BY <1>2, ConcatProperties
<1>4. (l \o x)[j] = l[j]
  BY <1>2, ConcatProperties
<1> QED
  BY <1>3, <1>4 DEF JoinIs

\* When the broker has cleared its buffer in front of rest, a frame is either gone,
\* or cut.
Dropped(todo, rest) ==
    \E gone \in Seq(Frame), t \in Seq(Frame) : JoinIs(gone, t, todo) /\ Held(<<>>, rest, t)

LEMMA FrameCut ==
    ASSUME NEW f \in Frame, NEW t \in Seq(Frame), NEW a \in Seq(Tok), NEW l \in Seq(Tok),
           NEW rest \in Seq(Tok), JoinIs(a, l, Pack(f)), JoinIs(l, Boxes(t), rest),
           a # <<>>, l # <<>>
    PROVE  Held(<<>>, rest, t)
<1>1. <<>> \in Seq(Tok) /\ JoinIs(<<>>, rest, rest)
  BY EmptySeq, ConcatEmptySeq DEF JoinIs
<1>2. OutOfStep(<<>>, rest, t)
  BY <1>1 DEF OutOfStep
<1> QED
  BY <1>2 DEF Held

LEMMA NothingCut ==
    ASSUME NEW t \in Seq(Frame), NEW rest \in Seq(Tok), rest = Boxes(t)
    PROVE  Held(<<>>, rest, t)
<1>1. Len(<<>>) = 0 /\ InStep(<<>>, rest, t)
  BY ConcatEmptySeq DEF InStep, JoinIs
<1> QED
  BY <1>1 DEF Held

\* The induction over the frames that c reaches into.
DroppedFor(n) ==
    \A todo \in Seq(Frame), c \in Seq(Tok), rest \in Seq(Tok) :
        Len(todo) = n /\ JoinIs(c, rest, Boxes(todo)) => Dropped(todo, rest)

LEMMA DroppedStep ==
    ASSUME NEW n \in Nat, DroppedFor(n), NEW todo \in Seq(Frame), NEW c \in Seq(Tok),
           NEW rest \in Seq(Tok), Len(todo) = n + 1, JoinIs(c, rest, Boxes(todo))
    PROVE  Dropped(todo, rest)
<1>1. todo # <<>>
  <2> SUFFICES ASSUME todo = <<>> PROVE FALSE
    OBVIOUS
  <2>1. Len(todo) = 0
    OBVIOUS
  <2> QED
    BY <2>1
<1>2. PICK f \in Frame, t2 \in Seq(Frame) : JoinIs(<<f>>, t2, todo)
  BY <1>1, FirstFrame
<1>3. PICK h \in Seq(Frame) : h = <<f>> /\ Len(h) = 1
  <2>1. <<f>> \in Seq(Frame) /\ Len(<<f>>) = 1
    OBVIOUS
  <2> QED
    BY <2>1
<1>4. Len(t2) = n
  <2>1. Len(h \o t2) = Len(h) + Len(t2) /\ Len(t2) \in Nat
    BY ConcatProperties, LenProperties
  <2>2. h \o t2 = todo
    BY <1>2, <1>3 DEF JoinIs
  <2> QED
    BY <1>3, <2>1, <2>2
<1>5. PICK p \in Seq(Tok) : p = Pack(f) /\ Len(p) = 8
  BY PackIs
<1>6. PICK x \in Seq(Tok) : x = Boxes(t2)
  BY BoxesTyped
<1>7. JoinIs(p, x, Boxes(todo))
  BY <1>2, <1>5, <1>6, BoxesFirst
<1>8. SameJoin(c, rest, p, x) /\ SameJoin(p, x, c, rest)
  BY <1>7 DEF SameJoin, JoinIs
<1>9. Len(c) \in Nat
  BY LenProperties
<1>10. CASE Len(c) >= 8
  <2>1. Between(Tok, c, rest, p, x)
    BY <1>5, <1>8, <1>9, <1>10, Split
  <2>2. PICK d \in Seq(Tok) : c = p \o d /\ x = d \o rest
    BY <2>1 DEF Between
  <2>3. JoinIs(d, rest, Boxes(t2))
    BY <1>6, <2>2 DEF JoinIs
  <2>4. Dropped(t2, rest)
    BY <1>4, <2>3 DEF DroppedFor
  <2>5. PICK gone \in Seq(Frame), t \in Seq(Frame) : JoinIs(gone, t, t2) /\ Held(<<>>, rest, t)
    BY <2>4 DEF Dropped
  <2>6. PICK g \in Seq(Frame) : g = h \o gone
    BY ConcatProperties
  <2>7. JoinIs(h \o gone, t, todo)
    BY <1>2, <1>3, <2>5, JoinMove
  <2> QED
    BY <2>5, <2>6, <2>7 DEF Dropped
<1>11. CASE c = <<>>
  <2>1. rest = Boxes(todo)
    BY <1>11, ConcatEmptySeq DEF JoinIs
  <2>2. <<>> \in Seq(Frame) /\ JoinIs(<<>>, todo, todo)
    BY EmptySeq, ConcatEmptySeq DEF JoinIs
  <2> QED
    BY <2>1, <2>2, NothingCut DEF Dropped
<1>12. CASE c # <<>> /\ Len(c) < 8
  <2>0. Len(c) <= Len(p) /\ Len(c) # Len(p)
    <3>1. PICK m \in Nat : m = Len(c)
      BY <1>9
    <3>2. m < 8
      BY <1>12, <3>1
    <3>3. m <= 8 /\ m # 8
      BY <3>2
    <3> QED
      BY <1>5, <3>1, <3>3
  <2>1. Between(Tok, p, x, c, rest)
    BY <1>8, <2>0, Split
  <2>2. PICK l \in Seq(Tok) : p = c \o l /\ rest = l \o x
    BY <2>1 DEF Between
  <2>3. JoinIs(c, l, Pack(f)) /\ JoinIs(l, Boxes(t2), rest)
    BY <1>5, <1>6, <2>2 DEF JoinIs
  <2>4. l # <<>>
    <3>1. Len(p) = Len(c) + Len(l) /\ Len(l) \in Nat
      BY <2>2, ConcatProperties, LenProperties
    <3>2. Len(l) # 0
      BY <1>9, <2>0, <3>1
    <3> QED
      BY <3>2, EmptySeq
  <2>5. Held(<<>>, rest, t2)
    BY <1>12, <2>3, <2>4, FrameCut
  <2>6. JoinIs(h, t2, todo)
    BY <1>2, <1>3
  <2> QED
    BY <2>5, <2>6 DEF Dropped
<1> QED
  BY <1>9, <1>10, <1>11, <1>12

LEMMA AfterDrop ==
    ASSUME NEW todo \in Seq(Frame), NEW c \in Seq(Tok), NEW rest \in Seq(Tok),
           JoinIs(c, rest, Boxes(todo))
    PROVE  Dropped(todo, rest)
<1> DEFINE N == {n \in Nat : DroppedFor(n)}
<1>1. 0 \in N
  <2> SUFFICES ASSUME NEW u \in Seq(Frame), NEW d \in Seq(Tok), NEW r \in Seq(Tok),
                      Len(u) = 0, JoinIs(d, r, Boxes(u))
               PROVE  Dropped(u, r)
    BY DEF DroppedFor
  <2>1. u = <<>>
    BY EmptySeq
  <2>2. JoinIs(d, r, <<>>)
    BY <2>1, BoxesEmpty
  <2>3. r = <<>>
    BY <2>2, NoFrames
  <2>4. r = Boxes(u)
    BY <2>1, <2>3, BoxesEmpty
  <2>5. <<>> \in Seq(Frame) /\ JoinIs(<<>>, u, u)
    BY EmptySeq, ConcatEmptySeq DEF JoinIs
  <2> QED
    BY <2>4, <2>5, NothingCut DEF Dropped
<1>2. \A n \in Nat : n \in N => n + 1 \in N
  <2> SUFFICES ASSUME NEW n \in Nat, DroppedFor(n)
               PROVE  DroppedFor(n + 1)
    OBVIOUS
  <2> QED
    BY DroppedStep DEF DroppedFor
<1> HIDE DEF N
<1>3. Len(todo) \in N
  BY <1>1, <1>2, NatInSet, LenProperties
<1> QED
  BY <1>3 DEF N, DroppedFor

\* The loop when its first round takes no frame.
LEMMA NoMessage ==
    ASSUME NEW data \in Seq(Tok), NEW b \in Seq(Tok), SyncBuffer(data) = b,
           b = <<>> \/ MessageLength(data) = 0, ~Is(b, 1, "newline")
    PROVE  Messages(data) = [frames |-> <<>>, buffer |-> b, over |-> TRUE]
<1> DEFINE s0 == [frames |-> <<>>, buffer |-> data, over |-> FALSE]
           r == [frames |-> <<>>, buffer |-> b, over |-> TRUE]
           S == {s0, r}
<1>1. MessageLength(data) \in Nat /\ Len(b) \in Nat
  BY MessageLengthNat, LenProperties
<1>2. (IF MessageLength(data) < Len(b) THEN MessageLength(data) ELSE Len(b)) = 0
  <2>1. CASE b = <<>>
    <3>1. Len(b) = 0
      BY <2>1
    <3> QED
      BY <1>1, <3>1
  <2>2. CASE MessageLength(data) = 0
    BY <1>1, <2>2
  <2> QED
    BY <2>1, <2>2
<1>3. First(b, 0) = <<>> /\ Drop(b, 0) = b
  <2>1. 0 \in 0 .. Len(b)
    BY <1>1
  <2>2. First(b, 0) \in Seq(Tok) /\ Len(First(b, 0)) = 0
    BY <2>1, FirstDrop
  <2>3. First(b, 0) = <<>>
    BY <2>2, EmptySeq
  <2>4. Drop(b, 0) \in Seq(Tok)
    BY <2>1, FirstDrop
  <2>5. JoinIs(First(b, 0), Drop(b, 0), b)
    BY <2>1, FirstDrop
  <2>6. <<>> \o Drop(b, 0) = Drop(b, 0)
    BY <2>4, ConcatEmptySeq
  <2> QED
    BY <2>3, <2>5, <2>6 DEF JoinIs
<1>4. OneMessage(s0) = r
  BY <1>2, <1>3 DEF OneMessage
<1>5. OneMessage(r) = r
  BY DEF OneMessage
<1>6. S \subseteq LoopState
  BY EmptySeq DEF LoopState
<1>7. RoundsEnd(S)
  <2>1. RoundsLeft(r) = 0
    BY DEF RoundsLeft
  <2> HIDE DEF s0, r
  <2> QED
    BY <1>4, <1>5, <2>1 DEF RoundsEnd
<1>8. s0 \in S /\ s0 = [frames |-> <<>>, buffer |-> data, over |-> FALSE]
  OBVIOUS
<1>9. Messages(data) \in S /\ Messages(data).over = TRUE
  <2> HIDE DEF S, s0
  <2> QED
    BY <1>6, <1>7, <1>8, LoopEnds
<1> QED
  BY <1>9

\* Out of step, the broker takes no frame from what arrives, and it is in step again
\* at most at the next frame.
LEMMA OutReceived ==
    ASSUME NEW todo \in Seq(Frame), NEW buffer \in Seq(Tok), NEW chunk \in Seq(Tok),
           NEW wire \in Seq(Tok), NEW rest \in Seq(Tok), chunk # <<>>,
           JoinIs(chunk, rest, wire), OutOfStep(buffer, wire, todo)
    PROVE  PubAfter(Received(buffer, chunk), todo, rest)
<1>1. PICK f \in Frame, a \in Seq(Tok), l \in Seq(Tok), z \in Seq(Tok) :
        /\ a # <<>> /\ l # <<>> /\ JoinIs(a, l, Pack(f))
        /\ JoinIs(l, Boxes(todo), z) /\ JoinIs(buffer, wire, z)
  BY DEF OutOfStep
<1>2. buffer = <<>> \/ (Len(buffer) = 1 /\ buffer[1].is \in {"header", "body"})
  BY DEF OutOfStep
<1>3. PICK y \in Seq(Tok) : y = buffer \o chunk
  BY ConcatProperties
<1>4. y # <<>> /\ Len(y) = Len(buffer) + Len(chunk) /\ Len(buffer) \in Nat /\ Len(chunk) \in Nat \ {0}
  BY <1>3, ConcatEqualIffEmpty, ConcatProperties, LenProperties, EmptySeq
<1>5. JoinIs(y, rest, z)
  <2>1. JoinIs(buffer \o chunk, rest, z)
    BY <1>1, JoinMove
  <2> QED
    BY <1>3, <2>1
<1>6. PICK x \in Seq(Tok) : x = Boxes(todo)
  BY BoxesTyped
<1>7. JoinIs(l, x, z)
  BY <1>1, <1>6
<1>8. Starts(y, l)
  <2> SUFFICES ASSUME NEW j \in 1 .. Len(y), j <= Len(l) PROVE y[j] = l[j]
    BY DEF Starts
  <2>1. j \in Nat /\ 1 <= j /\ j <= Len(y)
    BY LenProperties
  <2> QED
    BY <1>5, <1>7, <2>1, PrefixAgree
<1>9. PICK data \in Seq(Tok) : data = WithNewlines(y)
  BY DoubledTyped
<1>10. Received(buffer, chunk) = Messages(data)
  <2>1. Plain(buffer)
    <3>1. CASE buffer = <<>>
      <4>1. Len(buffer) = 0
        BY <3>1
      <4> QED
        BY <4>1 DEF Plain
    <3>2. CASE Len(buffer) = 1 /\ buffer[1].is \in {"header", "body"}
      BY <3>2 DEF Plain
    <3> QED
      BY <1>2, <3>1, <3>2
  <2>2. WithNewlines(buffer) = buffer
    BY <2>1, DoubledPlain
  <2>3. WithNewlines(buffer \o chunk) = WithNewlines(buffer) \o WithNewlines(chunk)
    BY DoubledTyped
  <2> QED
    BY <1>3, <1>9, <2>2, <2>3 DEF Received
<1>11. CASE SyncBuffer(data) = <<>>
  <2>1. <<>> \in Seq(Tok) /\ ~Is(<<>>, 1, "newline") /\ <<>> \in Seq(Frame)
    BY EmptySeq DEF Is
  <2>2. Messages(data) = [frames |-> <<>>, buffer |-> <<>>, over |-> TRUE]
    BY <1>11, <2>1, NoMessage
  <2>3. PICK r : r = Messages(data)
    OBVIOUS
  <2>4. r.frames = <<>> /\ r.buffer = <<>>
    BY <2>2, <2>3
  <2>5. Dropped(todo, rest)
    <3>1. CASE Len(l) <= Len(y)
      <4>1. SameJoin(y, rest, l, x)
        BY <1>5, <1>7 DEF SameJoin, JoinIs
      <4>2. Between(Tok, y, rest, l, x)
        BY <3>1, <4>1, Split
      <4>3. PICK c \in Seq(Tok) : y = l \o c /\ x = c \o rest
        BY <4>2 DEF Between
      <4>4. JoinIs(c, rest, Boxes(todo))
        BY <1>6, <4>3 DEF JoinIs
      <4> QED
        BY <4>4, AfterDrop
    <3>2. CASE ~(Len(l) <= Len(y))
      <4>1. SameJoin(l, x, y, rest)
        BY <1>5, <1>7 DEF SameJoin, JoinIs
      <4>2. Len(y) <= Len(l) /\ Len(l) \in Nat /\ Len(y) \in Nat
        BY <3>2, LenProperties
      <4>3. Between(Tok, l, x, y, rest)
        BY <4>1, <4>2, Split
      <4>4. PICK c \in Seq(Tok) : l = y \o c /\ rest = c \o x
        BY <4>3 DEF Between
      <4>5. c # <<>>
        <5>1. Len(l) = Len(y) + Len(c) /\ Len(c) \in Nat
          BY <4>4, ConcatProperties, LenProperties
        <5>2. Len(c) # 0
          BY <3>2, <4>2, <5>1
        <5> QED
          BY <5>2, EmptySeq
      <4>6. PICK a2 \in Seq(Tok) : a2 = a \o y
        BY ConcatProperties
      <4>7. JoinIs(a \o y, c, Pack(f))
        <5>1. JoinIs(y, c, l)
          BY <4>4 DEF JoinIs
        <5> QED
          BY <1>1, <5>1, JoinMove
      <4>8. a2 # <<>>
        BY <1>1, <4>6, ConcatEqualIffEmpty
      <4>9. JoinIs(c, Boxes(todo), rest)
        BY <1>6, <4>4 DEF JoinIs
      <4>10. Held(<<>>, rest, todo)
        BY <4>5, <4>6, <4>7, <4>8, <4>9, FrameCut
      <4>11. <<>> \in Seq(Frame) /\ JoinIs(<<>>, todo, todo)
        BY EmptySeq, ConcatEmptySeq DEF JoinIs
      <4> QED
        BY <4>10, <4>11 DEF Dropped
    <3> QED
      BY <3>1, <3>2
  <2>6. PubAfter(r, todo, rest)
    BY <2>1, <2>4, <2>5 DEF PubAfter, Dropped
  <2> QED
    BY <1>10, <2>3, <2>6
<1>12. CASE Len(y) = 1 /\ y[1].is \in {"header", "body"}
  <2>1. data = y /\ SyncBuffer(y) = y /\ MessageLength(y) = 0
    BY <1>9, <1>12, TokenKept
  <2>2. ~Is(y, 1, "newline")
    BY <1>12 DEF Is
  <2>3. Messages(data) = [frames |-> <<>>, buffer |-> y, over |-> TRUE]
    BY <2>1, <2>2, NoMessage
  <2>4. PICK r : r = Messages(data)
    OBVIOUS
  <2>5. r.frames = <<>> /\ r.buffer = y
    BY <2>3, <2>4
  <2>6. OutOfStep(y, rest, todo)
    BY <1>1, <1>5, <1>12 DEF OutOfStep
  <2>7. <<>> \in Seq(Frame) /\ JoinIs(<<>>, todo, todo)
    BY EmptySeq, ConcatEmptySeq DEF JoinIs
  <2>8. PubAfter(r, todo, rest)
    BY <2>5, <2>6, <2>7 DEF PubAfter, Held
  <2> QED
    BY <1>10, <2>4, <2>8
<1>13. SyncBuffer(data) = <<>> \/ (Len(y) = 1 /\ y[1].is \in {"header", "body"})
  <2>1. JoinIs(a, l, Pack(f)) /\ a # <<>> /\ l # <<>>
    BY <1>1
  <2>2. y # <<>>
    BY <1>4
  <2>3. \/ SyncBuffer(WithNewlines(y)) = <<>>
        \/ Len(y) = 1 /\ y[1].is \in {"header", "body"}
    BY <1>8, <2>1, <2>2, LostOrKept
  <2>4. CASE SyncBuffer(WithNewlines(y)) = <<>>
    BY <1>9, <2>4
  <2>5. CASE Len(y) = 1 /\ y[1].is \in {"header", "body"}
    BY <2>5
  <2> QED
    BY <2>3, <2>4, <2>5
<1> QED
  BY <1>11, <1>12, <1>13

-----------------------------------------------------------------------------
(* What is taken from LiveMonitor's stream *)

Numbered(fs) == \A i \in 1 .. Len(fs) : fs[i].no = i

\* The frames acc were taken from the published frames past.
Taken(acc, past) ==
    /\ \A i \in 1 .. Len(acc) : acc[i].no \in 1 .. Len(past) /\ past[acc[i].no] = acc[i]
    /\ \A i, j \in 1 .. Len(acc) : i < j => acc[i].no < acc[j].no

\* What the broker holds of LiveMonitor's stream and what has not arrived belong to
\* the last frames published; it has taken some of the others.
PubInv ==
    /\ published \in Seq(Frame) /\ accepted \in Seq(Frame) /\ Numbered(published)
    /\ pubWire \in Seq(Tok) /\ pubBuffer \in Seq(Tok)
    /\ \E past \in Seq(Frame), todo \in Seq(Frame) :
        /\ JoinIs(past, todo, published) /\ Taken(accepted, past)
        /\ Held(pubBuffer, pubWire, todo)

LEMMA PubInit == Init => PubInv
<1> SUFFICES ASSUME Init PROVE PubInv
  OBVIOUS
<1>1. published = <<>> /\ accepted = <<>> /\ pubWire = <<>> /\ pubBuffer = <<>>
  BY DEF Init
<1>2. <<>> \in Seq(Frame) /\ <<>> \in Seq(Tok) /\ Len(<<>>) = 0
  BY EmptySeq
<1>3. JoinIs(<<>>, <<>>, <<>>)
  BY <1>2, ConcatEmptySeq DEF JoinIs
<1>4. Held(<<>>, <<>>, <<>>)
  BY <1>2, BoxesEmpty, NothingCut
<1>5. Numbered(published) /\ Taken(accepted, <<>>)
  BY <1>1, <1>2 DEF Numbered, Taken
<1> QED
  BY <1>1, <1>2, <1>3, <1>4, <1>5 DEF PubInv

\* A frame is put behind what is on the way.
LEMMA HeldMore ==
    ASSUME NEW b \in Seq(Tok), NEW w \in Seq(Tok), NEW t \in Seq(Frame), NEW f \in Frame,
           Held(b, w, t), NEW more \in Seq(Frame), JoinIs(t, <<f>>, more),
           NEW w2 \in Seq(Tok), JoinIs(w, Pack(f), w2)
    PROVE  Held(b, w2, more)
<1>1. PICK h \in Seq(Frame) : h = <<f>>
  <2>1. <<f>> \in Seq(Frame)
    OBVIOUS
  <2> QED
    BY <2>1
<1>2. PICK p \in Seq(Tok) : p = Pack(f)
  BY PackIs
<1>3. PICK x \in Seq(Tok), x2 \in Seq(Tok) : x = Boxes(t) /\ x2 = Boxes(more)
  BY BoxesTyped
<1>4. x2 = x \o p
  <2>1. Boxes(t \o h) = Boxes(t) \o Boxes(h)
    BY BoxesConcat
  <2>2. more = t \o h
    BY <1>1 DEF JoinIs
  <2> QED
    BY <1>1, <1>2, <1>3, <2>1, <2>2, BoxesOne
<1>5. w2 = w \o p
  BY <1>2 DEF JoinIs
<1>6. CASE Len(b) <= 6 /\ InStep(b, w, t)
  <2>1. JoinIs(b, w, x)
    BY <1>3, <1>6 DEF InStep
  <2>2. JoinIs(b, w \o p, x \o p)
    BY <2>1, JoinMore
  <2>3. InStep(b, w2, more)
    BY <1>3, <1>4, <1>5, <2>2 DEF InStep
  <2> QED
    BY <1>6, <2>3 DEF Held
<1>7. CASE OutOfStep(b, w, t)
  <2>1. PICK g \in Frame, a \in Seq(Tok), l \in Seq(Tok), y \in Seq(Tok) :
          /\ a # <<>> /\ l # <<>> /\ JoinIs(a, l, Pack(g))
          /\ JoinIs(l, Boxes(t), y) /\ JoinIs(b, w, y)
    BY <1>7 DEF OutOfStep
  <2>2. JoinIs(l, x, y)
    BY <1>3, <2>1
  <2>3. JoinIs(l, x \o p, y \o p) /\ JoinIs(b, w \o p, y \o p)
    BY <2>1, <2>2, JoinMore
  <2>4. PICK y2 \in Seq(Tok) : y2 = y \o p
    BY ConcatProperties
  <2>5. JoinIs(l, Boxes(more), y2) /\ JoinIs(b, w2, y2)
    BY <1>3, <1>4, <1>5, <2>3, <2>4
  <2>6. b = <<>> \/ (Len(b) = 1 /\ b[1].is \in {"header", "body"})
    BY <1>7 DEF OutOfStep
  <2>7. OutOfStep(b, w2, more)
    BY <2>1, <2>5, <2>6 DEF OutOfStep
  <2> QED
    BY <2>7 DEF Held
<1> QED
  BY <1>6, <1>7 DEF Held

\* The frames that are taken together with those that were taken before.
LEMMA TakenMore ==
    ASSUME NEW all \in Seq(Frame), Numbered(all), NEW past \in Seq(Frame),
           NEW gone \in Seq(Frame), NEW past2 \in Seq(Frame), NEW t \in Seq(Frame),
           JoinIs(past, gone, past2), JoinIs(past2, t, all),
           NEW acc \in Seq(Frame), Taken(acc, past), NEW acc2 \in Seq(Frame),
           JoinIs(acc, gone, acc2)
    PROVE  Taken(acc2, past2) /\ Taken(acc, past2)
<1>1. /\ Len(past) \in Nat /\ Len(gone) \in Nat /\ Len(acc) \in Nat /\ Len(t) \in Nat
      /\ Len(past2) = Len(past) + Len(gone) /\ Len(acc2) = Len(acc) + Len(gone)
      /\ Len(all) = Len(past2) + Len(t)
  BY ConcatProperties, LenProperties DEF JoinIs
<1>2. \A i \in 1 .. Len(acc) : acc2[i] = acc[i] /\ acc[i].no \in Nat
  <2> SUFFICES ASSUME NEW i \in 1 .. Len(acc) PROVE acc2[i] = acc[i] /\ acc[i].no \in Nat
    OBVIOUS
  <2>1. i \in 1 .. Len(acc) + Len(gone) /\ i <= Len(acc)
    BY <1>1
  <2>2. (acc \o gone)[i] = acc[i]
    BY <2>1, ConcatProperties
  <2>3. acc[i] \in Frame
    BY ElementOfSeq
  <2> QED
    BY <2>2, <2>3 DEF JoinIs, Frame
<1>3. \A j \in 1 .. Len(gone) :
        gone[j].no = Len(past) + j /\ past2[Len(past) + j] = gone[j]
  <2> SUFFICES ASSUME NEW j \in 1 .. Len(gone)
               PROVE  gone[j].no = Len(past) + j /\ past2[Len(past) + j] = gone[j]
    OBVIOUS
  <2>1. PICK k \in Nat : k = Len(past) + j
    BY <1>1
  <2>2. /\ k \in 1 .. Len(past) + Len(gone) /\ ~(k <= Len(past)) /\ k - Len(past) = j
        /\ k \in 1 .. Len(past2) + Len(t) /\ k <= Len(past2) /\ k \in 1 .. Len(all)
    BY <1>1, <2>1
  <2>3. (past \o gone)[k] = gone[k - Len(past)]
    BY <2>2, ConcatProperties
  <2>4. (past2 \o t)[k] = past2[k]
    BY <2>2, ConcatProperties
  <2>5. all[k].no = k
    BY <2>2 DEF Numbered
  <2> QED
    BY <2>1, <2>2, <2>3, <2>4, <2>5 DEF JoinIs
<1>4. \A j \in 1 .. Len(acc2) : ~(j <= Len(acc)) =>
        /\ j - Len(acc) \in 1 .. Len(gone) /\ acc2[j].no = Len(past) + (j - Len(acc))
        /\ past2[acc2[j].no] = acc2[j]
  <2> SUFFICES ASSUME NEW j \in 1 .. Len(acc2), ~(j <= Len(acc))
               PROVE  /\ j - Len(acc) \in 1 .. Len(gone)
                      /\ acc2[j].no = Len(past) + (j - Len(acc))
                      /\ past2[acc2[j].no] = acc2[j]
    OBVIOUS
  <2>1. j \in 1 .. Len(acc) + Len(gone) /\ j - Len(acc) \in 1 .. Len(gone)
    BY <1>1
  <2>2. (acc \o gone)[j] = gone[j - Len(acc)]
    BY <2>1, ConcatProperties
  <2> QED
    BY <1>3, <2>1, <2>2 DEF JoinIs
<1>5. \A i \in 1 .. Len(acc) : acc[i].no \in 1 .. Len(past) /\ past[acc[i].no] = acc[i]
  BY DEF Taken
<1>6. \A i \in 1 .. Len(acc) : acc[i].no \in 1 .. Len(past2) /\ past2[acc[i].no] = acc[i]
  <2> SUFFICES ASSUME NEW i \in 1 .. Len(acc)
               PROVE  acc[i].no \in 1 .. Len(past2) /\ past2[acc[i].no] = acc[i]
    OBVIOUS
  <2>1. PICK k \in Nat : k = acc[i].no
    BY <1>2
  <2>2. k \in 1 .. Len(past) /\ past[k] = acc[i]
    BY <1>5, <2>1
  <2>3. k \in 1 .. Len(past) + Len(gone) /\ k <= Len(past)
    BY <1>1, <2>2
  <2>4. (past \o gone)[k] = past[k]
    BY <2>3, ConcatProperties
  <2> QED
    BY <1>1, <2>1, <2>2, <2>3, <2>4 DEF JoinIs
<1>7. \A i, j \in 1 .. Len(acc) : i < j => acc[i].no < acc[j].no
  BY DEF Taken
<1>8. Taken(acc, past2)
  BY <1>6, <1>7 DEF Taken
<1>9. \A j \in 1 .. Len(acc2) : acc2[j].no \in 1 .. Len(past2) /\ past2[acc2[j].no] = acc2[j]
  <2> SUFFICES ASSUME NEW j \in 1 .. Len(acc2)
               PROVE  acc2[j].no \in 1 .. Len(past2) /\ past2[acc2[j].no] = acc2[j]
    OBVIOUS
  <2>1. CASE j <= Len(acc)
    <3>1. j \in 1 .. Len(acc)
      BY <1>1, <2>1
    <3> QED
      BY <1>2, <1>6, <3>1
  <2>2. CASE ~(j <= Len(acc))
    <3>1. /\ j - Len(acc) \in 1 .. Len(gone) /\ acc2[j].no = Len(past) + (j - Len(acc))
          /\ past2[acc2[j].no] = acc2[j]
      BY <1>4, <2>2
    <3> QED
      BY <1>1, <3>1
  <2> QED
    BY <2>1, <2>2
<1>10. \A i, j \in 1 .. Len(acc2) : i < j => acc2[i].no < acc2[j].no
  <2> SUFFICES ASSUME NEW i \in 1 .. Len(acc2), NEW j \in 1 .. Len(acc2), i < j
               PROVE  acc2[i].no < acc2[j].no
    OBVIOUS
  <2>1. CASE j <= Len(acc)
    <3>1. i \in 1 .. Len(acc) /\ j \in 1 .. Len(acc)
      BY <1>1, <2>1
    <3> QED
      BY <1>2, <1>7, <3>1
  <2>2. CASE ~(j <= Len(acc)) /\ i <= Len(acc)
    <3>1. i \in 1 .. Len(acc)
      BY <1>1, <2>2
    <3>2. acc2[i].no <= Len(past) /\ acc2[i].no \in Nat
      BY <1>2, <1>5, <3>1
    <3>3. j - Len(acc) \in 1 .. Len(gone) /\ acc2[j].no = Len(past) + (j - Len(acc))
      BY <1>4, <2>2
    <3> QED
      BY <1>1, <3>2, <3>3
  <2>3. CASE ~(j <= Len(acc)) /\ ~(i <= Len(acc))
    <3>1. j - Len(acc) \in 1 .. Len(gone) /\ acc2[j].no = Len(past) + (j - Len(acc))
      BY <1>4, <2>3
    <3>2. i - Len(acc) \in 1 .. Len(gone) /\ acc2[i].no = Len(past) + (i - Len(acc))
      BY <1>4, <2>3
    <3> QED
      BY <1>1, <3>1, <3>2
  <2> QED
    BY <2>1, <2>2, <2>3
<1>11. Taken(acc2, past2)
  BY <1>9, <1>10 DEF Taken
<1> QED
  BY <1>8, <1>11

\* LiveMonitor publishes a list.
LEMMA PubSend ==
    ASSUME PubInv, NEW f \in Frame, f.no = Len(published) + 1,
           published' = Append(published, f), pubWire' = pubWire \o Pack(f),
           UNCHANGED <<pubBuffer, accepted>>
    PROVE  PubInv'
<1>1. /\ published \in Seq(Frame) /\ accepted \in Seq(Frame) /\ Numbered(published)
      /\ pubWire \in Seq(Tok) /\ pubBuffer \in Seq(Tok)
  BY DEF PubInv
<1>2. PICK past \in Seq(Frame), todo \in Seq(Frame) :
        /\ JoinIs(past, todo, published) /\ Taken(accepted, past)
        /\ Held(pubBuffer, pubWire, todo)
  BY DEF PubInv
<1>3. PICK p \in Seq(Tok) : p = Pack(f)
  BY PackIs
<1>4. PICK h \in Seq(Frame) : h = <<f>>
  <2>1. <<f>> \in Seq(Frame)
    OBVIOUS
  <2> QED
    BY <2>1
<1>5. PICK all \in Seq(Frame) : all = published
  BY <1>1
<1>6. published' = all \o h /\ published' \in Seq(Frame)
  BY <1>4, <1>5, AppendIsConcat, AppendProperties
<1>7. Numbered(published')
  <2>1. /\ Len(Append(all, f)) = Len(all) + 1 /\ Append(all, f)[Len(all) + 1] = f
        /\ Len(all) \in Nat
    BY AppendProperties, LenProperties
  <2>2. \A i \in 1 .. Len(all) : Append(all, f)[i] = all[i]
    BY AppendProperties
  <2>3. \A i \in 1 .. Len(all) : all[i].no = i
    BY <1>1, <1>5 DEF Numbered
  <2>4. \A i \in 1 .. Len(all) + 1 : i \in 1 .. Len(all) \/ i = Len(all) + 1
    BY <2>1
  <2>5. \A i \in 1 .. Len(all) + 1 : Append(all, f)[i].no = i
    BY <1>5, <2>1, <2>2, <2>3, <2>4
  <2> QED
    BY <1>5, <2>1, <2>5 DEF Numbered
<1>8. PICK more \in Seq(Frame) : more = todo \o h
  BY ConcatProperties
<1>9. JoinIs(past, more, published')
  <2>1. JoinIs(past, todo, all)
    BY <1>2, <1>5
  <2>2. JoinIs(past, todo \o h, all \o h)
    BY <2>1, JoinMore
  <2> QED
    BY <1>6, <1>8, <2>2
<1>10. PICK w2 \in Seq(Tok) : w2 = pubWire'
  BY <1>1, <1>3, ConcatProperties
<1>11. Held(pubBuffer, w2, more)
  <2>1. JoinIs(todo, <<f>>, more) /\ JoinIs(pubWire, Pack(f), w2)
    BY <1>4, <1>8, <1>10 DEF JoinIs
  <2> QED
    BY <1>1, <1>2, <2>1, HeldMore
<1> QED
  BY <1>1, <1>2, <1>6, <1>7, <1>9, <1>10, <1>11 DEF PubInv

\* In step or not, what arrives is taken or is gone.
LEMMA HeldReceived ==
    ASSUME NEW todo \in Seq(Frame), NEW buffer \in Seq(Tok), NEW chunk \in Seq(Tok),
           NEW wire \in Seq(Tok), NEW rest \in Seq(Tok), chunk # <<>>,
           JoinIs(chunk, rest, wire), Held(buffer, wire, todo)
    PROVE  PubAfter(Received(buffer, chunk), todo, rest)
<1>1. CASE Len(buffer) <= 6 /\ InStep(buffer, wire, todo)
  <2>1. Plain(buffer)
    BY <1>1, PubShort
  <2>2. JoinIs(buffer, wire, Boxes(todo))
    BY <1>1 DEF InStep
  <2>3. JoinIs(buffer \o chunk, rest, Boxes(todo))
    BY <2>2, JoinMove
  <2>4. InStep(buffer \o chunk, rest, todo)
    BY <2>3 DEF InStep
  <2> QED
    BY <2>1, <2>4, PubReceived
<1>2. CASE OutOfStep(buffer, wire, todo)
  BY <1>2, OutReceived
<1> QED
  BY <1>1, <1>2 DEF Held

\* A chunk of LiveMonitor's arrives.
LEMMA PubArrives ==
    ASSUME PubInv, NEW n \in 1 .. Len(pubWire), NEW got,
           got = Received(pubBuffer, First(pubWire, n)), published' = published,
           pubWire' = Drop(pubWire, n), pubBuffer' = got.buffer,
           accepted' = accepted \o got.frames
    PROVE  PubInv' /\ got.frames \in Seq(Frame)
<1>1. /\ published \in Seq(Frame) /\ accepted \in Seq(Frame) /\ Numbered(published)
      /\ pubWire \in Seq(Tok) /\ pubBuffer \in Seq(Tok)
  BY DEF PubInv
<1>2. PICK past \in Seq(Frame), todo \in Seq(Frame) :
        /\ JoinIs(past, todo, published) /\ Taken(accepted, past)
        /\ Held(pubBuffer, pubWire, todo)
  BY DEF PubInv
<1>3. n \in 0 .. Len(pubWire) /\ n # 0
  OBVIOUS
<1>4. PICK chunk \in Seq(Tok) : chunk = First(pubWire, n) /\ Len(chunk) = n
  BY <1>1, <1>3, FirstDrop
<1>5. PICK rest \in Seq(Tok) : rest = Drop(pubWire, n)
  BY <1>1, <1>3, FirstDrop
<1>6. JoinIs(chunk, rest, pubWire)
  <2>1. JoinIs(First(pubWire, n), Drop(pubWire, n), pubWire)
    BY <1>1, <1>3, FirstDrop
  <2> QED
    BY <1>4, <1>5, <2>1
<1>7. chunk # <<>>
  <2> SUFFICES ASSUME chunk = <<>> PROVE FALSE
    OBVIOUS
  <2>1. Len(chunk) = 0
    OBVIOUS
  <2> QED
    BY <1>3, <1>4, <2>1
<1>8. PubAfter(got, todo, rest)
  BY <1>1, <1>2, <1>4, <1>6, <1>7, HeldReceived
<1>9. got.frames \in Seq(Frame) /\ got.buffer \in Seq(Tok)
  BY <1>8 DEF PubAfter
<1>10. PICK gone \in Seq(Frame), t \in Seq(Frame) :
         /\ JoinIs(gone, t, todo) /\ got.frames \in {gone, <<>>}
         /\ Held(got.buffer, rest, t)
  BY <1>8 DEF PubAfter
<1>11. PICK past2 \in Seq(Frame) : past2 = past \o gone
  BY ConcatProperties
<1>12. JoinIs(past, gone, past2) /\ JoinIs(past2, t, published)
  <2>1. JoinIs(past \o gone, t, published)
    BY <1>2, <1>10, JoinMove
  <2> QED
    BY <1>11, <2>1 DEF JoinIs
<1>13. PICK acc2 \in Seq(Frame) : acc2 = accepted \o gone
  BY <1>1, ConcatProperties
<1>14. JoinIs(accepted, gone, acc2)
  BY <1>13 DEF JoinIs
<1>15. Taken(acc2, past2) /\ Taken(accepted, past2)
  BY <1>1, <1>2, <1>12, <1>14, TakenMore
<1>16. accepted' \in Seq(Frame) /\ Taken(accepted', past2)
  <2>1. CASE got.frames = gone
    <3>1. accepted' = acc2
      BY <1>13, <2>1
    <3> QED
      BY <1>15, <3>1
  <2>2. CASE got.frames = <<>>
    <3>1. accepted' = accepted
      BY <1>1, <2>2, ConcatEmptySeq
    <3> QED
      BY <1>1, <1>15, <3>1
  <2> QED
    BY <1>10, <2>1, <2>2
<1>17. PubInv'
  BY <1>1, <1>5, <1>9, <1>10, <1>12, <1>16 DEF PubInv
<1> QED
  BY <1>9, <1>17

LEMMA PubNext == PubInv /\ [Next]_vars => PubInv'
<1> SUFFICES ASSUME PubInv, [Next]_vars PROVE PubInv'
  OBVIOUS
<1>1. ASSUME UNCHANGED pub PROVE PubInv'
  BY <1>1 DEF PubInv, pub
<1>2. CASE OnOpen
  BY <1>1, <1>2 DEF OnOpen
<1>3. CASE Publish
  <2>1. Len(published) \in Nat
    BY LenProperties DEF PubInv
  <2>2. PICK f \in Frame : f = [kind |-> "SEND", no |-> Len(published) + 1]
    <3>1. PICK m \in Nat : m = Len(published) + 1
      BY <2>1
    <3>2. [kind |-> "SEND", no |-> m] \in Frame
      BY DEF Frame, Kind
    <3> QED
      BY <3>1, <3>2
  <2>3. published' = Append(published, f) /\ pubWire' = pubWire \o Pack(f)
        /\ UNCHANGED <<pubBuffer, accepted>> /\ f.no = Len(published) + 1
    BY <1>3, <2>2 DEF Publish
  <2> QED
    BY <2>3, PubSend
<1>4. CASE PublisherDataReceived
  <2>1. PICK n \in 1 .. Len(pubWire) :
          LET got == Received(pubBuffer, First(pubWire, n)) IN
          /\ pubWire' = Drop(pubWire, n)
          /\ pubBuffer' = got.buffer
          /\ accepted' = accepted \o got.frames
    BY <1>4 DEF PublisherDataReceived
  <2>2. PICK got : got = Received(pubBuffer, First(pubWire, n))
    OBVIOUS
  <2>3. /\ pubWire' = Drop(pubWire, n) /\ pubBuffer' = got.buffer
        /\ accepted' = accepted \o got.frames /\ published' = published
    BY <1>4, <2>1, <2>2 DEF PublisherDataReceived
  <2> QED
    BY <2>2, <2>3, PubArrives
<1>5. CASE PageDataReceived
  BY <1>1, <1>5 DEF PageDataReceived
<1>6. CASE TransportOnRead
  BY <1>1, <1>6 DEF TransportOnRead
<1>7. CASE UNCHANGED vars
  BY <1>1, <1>7 DEF vars
<1> QED
  BY <1>2, <1>3, <1>4, <1>5, <1>6, <1>7 DEF Next

\* What the broker holds of LiveMonitor's stream belongs to the frames that it has
\* not handled, or to one that it has cut: however the stream is cut.
THEOREM PubInvariance == Spec => []PubInv
BY PubInit, PubNext, PTL DEF Spec

\* The broker never takes a frame that was not published, a part of one, or one that
\* it has taken before.
THEOREM TakenWhole == Spec => []PublishedWhole
<1>1. PubInv => PublishedWhole
  <2> SUFFICES ASSUME PubInv PROVE PublishedWhole
    OBVIOUS
  <2>0. accepted \in Seq(Frame) /\ published \in Seq(Frame)
    BY DEF PubInv
  <2>1. PICK past \in Seq(Frame), todo \in Seq(Frame) :
          JoinIs(past, todo, published) /\ Taken(accepted, past)
    BY DEF PubInv
  <2>2. DOMAIN accepted = 1 .. Len(accepted) /\ DOMAIN published = 1 .. Len(published)
    BY <2>0, LenProperties
  <2>3. \A i \in 1 .. Len(accepted) : \E k \in 1 .. Len(published) : accepted[i] = published[k]
    <3> SUFFICES ASSUME NEW i \in 1 .. Len(accepted)
                 PROVE  \E k \in 1 .. Len(published) : accepted[i] = published[k]
      OBVIOUS
    <3>1. PICK k \in 1 .. Len(past) : past[k] = accepted[i]
      BY <2>1 DEF Taken
    <3>2. /\ Len(past) \in Nat /\ Len(todo) \in Nat
          /\ Len(past \o todo) = Len(past) + Len(todo)
      BY ConcatProperties, LenProperties
    <3>3. k \in 1 .. Len(past) + Len(todo) /\ k <= Len(past)
      BY <3>2
    <3>4. (past \o todo)[k] = past[k]
      BY <3>3, ConcatProperties
    <3> QED
      BY <2>1, <3>1, <3>2, <3>3, <3>4 DEF JoinIs
  <2>4. \A i, j \in 1 .. Len(accepted) : i < j => accepted[i].no < accepted[j].no
    BY <2>1 DEF Taken
  <2> QED
    BY <2>2, <2>3, <2>4 DEF PublishedWhole
<1> QED
  BY <1>1, PubInvariance, PTL

-----------------------------------------------------------------------------
(* Where the page is in the stream of the broker *)

LEMMA FindZero ==
    ASSUME NEW x \in Seq(Tok), NEW t, NEW i \in 1 .. Len(x), x[i].is = t
    PROVE  Find(x, t) # 0
<1> DEFINE places == {j \in DOMAIN x : x[j].is = t}
           less == OpToRel(<, Nat)
<1>1. DOMAIN x = 1 .. Len(x) /\ Len(x) \in Nat
  BY LenProperties
<1>2. i \in places /\ places \subseteq Nat \ {0}
  BY <1>1
<1>3. PICK k \in places : \A j \in places : ~ (<<j, k>> \in less)
  <2>1. IsWellFoundedOn(less, Nat)
    BY NatLessThanWellFounded
  <2>2. places # {} /\ places \subseteq Nat
    BY <1>2
  <2> HIDE DEF places, less
  <2> QED
    BY <2>1, <2>2, WFMin
<1>4. \A j \in places : k <= j
  <2> SUFFICES ASSUME NEW j \in places PROVE k <= j
    OBVIOUS
  <2>1. j \in Nat /\ k \in Nat
    BY <1>2
  <2>2. ~(j < k)
    BY <1>3, <2>1 DEF OpToRel
  <2> QED
    BY <2>1, <2>2
<1>5. (CHOOSE j \in places : \A m \in places : j <= m) \in places
  <2> HIDE DEF places
  <2> QED
    BY <1>3, <1>4
<1>6. places # {} /\ (CHOOSE j \in places : \A m \in places : j <= m) # 0
  <2> HIDE DEF places
  <2> QED
    BY <1>2, <1>5
<1> QED
  BY <1>6 DEF Find

\* x is what follows the first k tokens of the frame f, and then come the frames t.
Behind(f, k, t, x) ==
    \E a \in Seq(Tok), c \in Seq(Tok) :
        Len(a) = k /\ JoinIs(a, c, Pack(f)) /\ JoinIs(c, Boxes(t), x)

\* n tokens after the first k ones of a frame is the next w.
NextMark(k, n, w) ==
    Names[k + n] = w /\ \A i \in 1 .. (n - 1) : Names[k + i] # w

\* The first n - 1 tokens after the first k ones of the frame f.
Before(f, k, n, u) ==
    u \in Seq(Tok) /\ Len(u) = n - 1 /\ \A i \in 1 .. (n - 1) : u[i] = Token(f, Names[k + i])

\* What b starts with is taken up to its first w.
Marked(f, k, n, t, w, b, rest) ==
    /\ Find(b, w) = n /\ n <= Len(b)
    /\ Before(f, k, n, First(b, n - 1))
    /\ Drop(b, n) \in Seq(Tok) /\ Len(Drop(b, n)) = Len(b) - n
    /\ \E v \in Seq(Tok) : Behind(f, k + n, t, v) /\ JoinIs(Drop(b, n), rest, v)

\* The tokens of a frame after the first k ones.
LEMMA PartIs ==
    ASSUME NEW f \in Frame, NEW a \in Seq(Tok), NEW c \in Seq(Tok), JoinIs(a, c, Pack(f))
    PROVE  /\ Len(a) + Len(c) = 8 /\ Len(a) \in Nat /\ Len(c) \in Nat
           /\ \A i \in 1 .. Len(c) : c[i] = Token(f, Names[Len(a) + i])
<1>1. PICK p \in Seq(Tok) : p = Pack(f) /\ Len(p) = 8
  BY PackIs
<1>2. \A i \in 1 .. 8 : p[i] = Token(f, Names[i])
  BY <1>1, PackIs
<1>3. p = a \o c
  BY <1>1 DEF JoinIs
<1>4. Len(a) + Len(c) = 8 /\ Len(a) \in Nat /\ Len(c) \in Nat
  BY <1>1, <1>3, ConcatProperties, LenProperties
<1>5. \A i \in 1 .. Len(c) : c[i] = Token(f, Names[Len(a) + i])
  <2> SUFFICES ASSUME NEW i \in 1 .. Len(c) PROVE c[i] = Token(f, Names[Len(a) + i])
    OBVIOUS
  <2>1. PICK k \in Nat : k = Len(a) + i
    BY <1>4
  <2>2. /\ k \in 1 .. Len(a) + Len(c) /\ ~(k <= Len(a)) /\ k - Len(a) = i
        /\ k \in 1 .. 8
    BY <1>4, <2>1, SMTT(40)
  <2>3. (a \o c)[k] = c[k - Len(a)]
    BY <2>2, ConcatProperties
  <2>4. p[k] = Token(f, Names[k])
    BY <1>2, <2>2
  <2> QED
    BY <1>3, <2>1, <2>2, <2>3, <2>4
<1> QED
  BY <1>4, <1>5

\* Where a mark is that has arrived, and where the page is behind it.
LEMMA MarkFound ==
    ASSUME NEW f \in Frame, NEW k \in 0 .. 7, NEW n \in 1 .. 8, k + n <= 8,
           NEW t \in Seq(Frame), NEW w, NextMark(k, n, w),
           NEW x \in Seq(Tok), Behind(f, k, t, x), NEW b \in Seq(Tok), NEW rest \in Seq(Tok),
           JoinIs(b, rest, x)
    PROVE  \/ Find(b, w) = 0 /\ Len(b) < n
           \/ Marked(f, k, n, t, w, b, rest)
<1>1. PICK a \in Seq(Tok), c \in Seq(Tok) :
        Len(a) = k /\ JoinIs(a, c, Pack(f)) /\ JoinIs(c, Boxes(t), x)
  BY DEF Behind
<1>2. Len(c) = 8 - k
  <2>1. Len(a) + Len(c) = 8 /\ Len(c) \in Nat
    BY <1>1, PartIs
  <2> QED
    BY <1>1, <2>1
<1>3. \A i \in 1 .. Len(c) : c[i] = Token(f, Names[k + i])
  BY <1>1, PartIs
<1>4. PICK y \in Seq(Tok) : y = Boxes(t)
  BY BoxesTyped
<1>5. JoinIs(c, y, x)
  BY <1>1, <1>4
<1>6. Len(b) \in Nat /\ n \in Nat /\ n <= Len(c) /\ Len(c) \in Nat
  BY <1>2, LenProperties
<1>7. \A i \in 1 .. Len(b) : i <= n => b[i] = Token(f, Names[k + i])
  <2> SUFFICES ASSUME NEW i \in 1 .. Len(b), i <= n PROVE b[i] = Token(f, Names[k + i])
    OBVIOUS
  <2>1. i \in Nat /\ 1 <= i /\ i <= Len(b) /\ i <= Len(c) /\ i \in 1 .. Len(c)
    BY <1>6
  <2>2. b[i] = c[i]
    BY <1>5, <2>1, PrefixAgree
  <2> QED
    BY <1>3, <2>1, <2>2
<1>8. \A i \in 1 .. Len(b) : i < n => b[i].is # w
  <2> SUFFICES ASSUME NEW i \in 1 .. Len(b), i < n PROVE b[i].is # w
    OBVIOUS
  <2>1. i \in 1 .. (n - 1) /\ i <= n
    BY <1>6
  <2>2. b[i] = Token(f, Names[k + i]) /\ Names[k + i] # w
    BY <1>7, <2>1 DEF NextMark
  <2> QED
    BY <2>2, TokenName
<1>9. CASE Len(b) < n
  <2>1. \A i \in 1 .. Len(b) : b[i].is # w
    <3>1. \A i \in 1 .. Len(b) : i < n
      BY <1>6, <1>9
    <3> QED
      BY <1>8, <3>1
  <2> QED
    BY <1>9, <2>1, FindNone
<1>10. CASE n <= Len(b)
  <2>1. n \in 1 .. Len(b) /\ n \in 0 .. Len(b) /\ n \in 0 .. Len(c) /\ n - 1 \in 0 .. Len(b)
    BY <1>6, <1>10
  <2>2. Find(b, w) = n
    <3>1. b[n].is = w
      <4>1. b[n] = Token(f, Names[k + n]) /\ Names[k + n] = w
        BY <1>6, <1>7, <2>1 DEF NextMark
      <4> QED
        BY <4>1, TokenName
    <3>2. \A i \in 1 .. (n - 1) : b[i].is # w
      <4>1. \A i \in 1 .. (n - 1) : i \in 1 .. Len(b) /\ i < n
        BY <1>6, <1>10
      <4> QED
        BY <1>8, <4>1
    <3> QED
      BY <2>1, <3>1, <3>2, FindIs
  <2>3. Before(f, k, n, First(b, n - 1))
    <3>1. First(b, n - 1) \in Seq(Tok) /\ Len(First(b, n - 1)) = n - 1
      BY <2>1, FirstDrop
    <3>2. \A i \in 1 .. (n - 1) : First(b, n - 1)[i] = b[i]
      BY <2>1, FirstDropAt
    <3>3. \A i \in 1 .. (n - 1) : b[i] = Token(f, Names[k + i])
      <4>1. \A i \in 1 .. (n - 1) : i \in 1 .. Len(b) /\ i <= n
        BY <1>6, <1>10
      <4> QED
        BY <1>7, <4>1
    <3> QED
      BY <3>1, <3>2, <3>3 DEF Before
  <2>4. PICK u \in Seq(Tok), c2 \in Seq(Tok) :
          Len(u) = n /\ JoinIs(u, c2, c)
    <3>1. /\ First(c, n) \in Seq(Tok) /\ Len(First(c, n)) = n
          /\ Drop(c, n) \in Seq(Tok)
      BY <2>1, FirstDrop
    <3>2. JoinIs(First(c, n), Drop(c, n), c)
      BY <2>1, FirstDrop
    <3> QED
      BY <3>1, <3>2
  <2>5. PICK v \in Seq(Tok) : v = c2 \o y
    BY ConcatProperties
  <2>6. JoinIs(u, v, x)
    <3>1. JoinIs(u, c2 \o y, x)
      BY <1>5, <2>4, JoinApart
    <3> QED
      BY <2>5, <3>1
  <2>7. Behind(f, k + n, t, v)
    <3>1. PICK a2 \in Seq(Tok) : a2 = a \o u
      BY ConcatProperties
    <3>2. Len(a2) = k + n
      BY <1>1, <2>4, <3>1, ConcatProperties
    <3>3. JoinIs(a \o u, c2, Pack(f))
      BY <1>1, <2>4, JoinMove
    <3>4. JoinIs(c2, Boxes(t), v)
      BY <1>4, <2>5 DEF JoinIs
    <3>5. JoinIs(a2, c2, Pack(f))
      BY <3>1, <3>3
    <3> QED
      BY <3>2, <3>4, <3>5 DEF Behind
  <2>8. Drop(b, n) \in Seq(Tok) /\ Len(Drop(b, n)) = Len(b) - n
    BY <2>1, FirstDrop
  <2>9. JoinIs(Drop(b, n), rest, v)
    <3>1. SameJoin(b, rest, u, v)
      BY <2>6 DEF SameJoin, JoinIs
    <3>2. Between(Tok, b, rest, u, v)
      BY <1>10, <2>4, <3>1, Split
    <3>3. PICK d \in Seq(Tok) : b = u \o d /\ v = d \o rest
      BY <3>2 DEF Between
    <3>4. Drop(u \o d, Len(u)) = d
      BY CutConcat
    <3> QED
      BY <2>4, <3>3, <3>4 DEF JoinIs
  <2>10. Marked(f, k, n, t, w, b, rest)
    BY <1>10, <2>2, <2>3, <2>7, <2>8, <2>9 DEF Marked
  <2> QED
    BY <2>10
<1> QED
  BY <1>6, <1>9, <1>10

PageState == [raw : BOOLEAN, buffer : Seq(Tok), type : Seq(Tok), body : Seq(Tok),
              frames : Seq(Frame), extra : Seq(Tok)]

\* The page is between two frames, in front of the newline behind a frame, or
\* behind the first k tokens of a frame whose command is its type.
AtFrames(type, x, todo)  == type = <<>> /\ x = Boxes(todo)
AtNewline(type, x, todo) == type = <<>> /\ \E f \in Frame : Behind(f, 7, todo, x)
AtPart(k, type, x, todo) ==
    \E f \in Frame, t \in Seq(Frame) :
        type = <<Token(f, "command")>> /\ JoinIs(<<f>>, t, todo) /\ Behind(f, k, t, x)

\* The tokens x are those of the frames todo that the page has not looked at.
Expects(raw, type, x, todo) ==
    \/ /\ raw = FALSE
       /\ \/ AtFrames(type, x, todo) \/ AtNewline(type, x, todo)
          \/ AtPart(2, type, x, todo) \/ AtPart(4, type, x, todo)
    \/ raw = TRUE /\ AtPart(5, type, x, todo)

LEMMA Marks ==
    /\ NextMark(0, 2, "newline") /\ NextMark(2, 2, "newline") /\ NextMark(4, 1, "newline")
    /\ NextMark(7, 1, "newline") /\ NextMark(5, 2, "nul")
<1>1. /\ \A i \in 1 .. (2 - 1) : i = 1
      /\ \A i \in 1 .. (1 - 1) : FALSE
      /\ 0 + 2 = 2 /\ 2 + 2 = 4 /\ 4 + 1 = 5 /\ 7 + 1 = 8 /\ 5 + 2 = 7
      /\ 0 + 1 = 1 /\ 2 + 1 = 3 /\ 5 + 1 = 6
  OBVIOUS
<1>2. NextMark(0, 2, "newline")
  BY <1>1, NamesAre DEF NextMark
<1>3. NextMark(2, 2, "newline")
  BY <1>1, NamesAre DEF NextMark
<1>4. NextMark(4, 1, "newline")
  BY <1>1, NamesAre DEF NextMark
<1>5. NextMark(7, 1, "newline")
  BY <1>1, NamesAre DEF NextMark
<1>6. NextMark(5, 2, "nul")
  BY <1>1, NamesAre DEF NextMark
<1> QED
  BY <1>2, <1>3, <1>4, <1>5, <1>6

\* In front of the first frame of t, and behind one.
LEMMA BehindNone ==
    ASSUME NEW f \in Frame, NEW t \in Seq(Frame), NEW t2 \in Seq(Frame), JoinIs(<<f>>, t2, t),
           NEW x, x = Boxes(t)
    PROVE  Behind(f, 0, t2, x)
<1>1. PICK p \in Seq(Tok) : p = Pack(f)
  BY PackIs
<1>2. <<>> \in Seq(Tok) /\ Len(<<>>) = 0 /\ JoinIs(<<>>, p, Pack(f))
  BY <1>1, EmptySeq, ConcatEmptySeq DEF JoinIs
<1>3. JoinIs(p, Boxes(t2), x)
  BY <1>1, BoxesFirst
<1> QED
  BY <1>2, <1>3 DEF Behind

LEMMA BehindAll ==
    ASSUME NEW f \in Frame, NEW t \in Seq(Frame), NEW x \in Seq(Tok), Behind(f, 8, t, x)
    PROVE  x = Boxes(t)
<1>1. PICK a \in Seq(Tok), c \in Seq(Tok) :
        Len(a) = 8 /\ JoinIs(a, c, Pack(f)) /\ JoinIs(c, Boxes(t), x)
  BY DEF Behind
<1>2. Len(a) + Len(c) = 8 /\ Len(c) \in Nat
  BY <1>1, PartIs
<1>3. Len(c) = 0
  BY <1>1, <1>2
<1>4. c = <<>>
  BY <1>3, EmptySeq
<1>5. PICK y \in Seq(Tok) : y = Boxes(t)
  BY BoxesTyped
<1> QED
  BY <1>1, <1>4, <1>5, ConcatEmptySeq DEF JoinIs

-----------------------------------------------------------------------------
(* The lines that the page reads *)

LineRounds(S, m) ==
    \A x \in S : /\ OneLine(x) \in S
                 /\ m[OneLine(x)] < m[x] \/ m[OneLine(x)] = 0

LEMMA LinesEnd ==
    ASSUME NEW S, NEW m \in [S -> Nat], NEW s0 \in S, s0.buffer \in Seq(Tok),
           m[s0] <= Len(s0.buffer), LineRounds(S, m)
    PROVE  Lines(s0) \in S /\ m[Lines(s0)] = 0
<1> DEFINE N == Len(s0.buffer)
           F == [x \in S |-> OneLine(x)]
           Body(g) == [k \in 0 .. N |-> IF k = 0 THEN s0 ELSE OneLine(g[k - 1])]
           loop == CHOOSE g : g = Body(g)
<1>n. N \in Nat
  BY LenProperties
<1>1. F \in [S -> S]
  BY DEF LineRounds
<1> HIDE DEF N
<1>2. PICK g \in [0 .. N -> S] : Loops(F, s0, N, g)
  <2> HIDE DEF F
  <2>1. CanLoop(S, F, s0, N)
    BY <1>n, <1>1, LoopExists
  <2> QED
    BY <2>1 DEF CanLoop
<1>3. g = Body(g)
  <2>1. \A k \in 0 .. N : k # 0 => k - 1 \in 0 .. N /\ g[k - 1] \in S
    BY <1>n
  <2>2. \A k \in 0 .. N : k # 0 => F[g[k - 1]] = OneLine(g[k - 1])
    BY <2>1
  <2> HIDE DEF F
  <2> QED
    BY <1>2, <2>2 DEF Loops
<1>4. loop = Body(loop)
  <2> HIDE DEF Body
  <2> QED
    BY <1>3
<1>5. Lines(s0) = loop[N]
  BY DEF Lines, N
<1> HIDE DEF loop, F
<1>6. loop[0] = s0 /\ \A k \in 1 .. N : loop[k] = OneLine(loop[k - 1])
  <2>1. 0 \in 0 .. N /\ \A k \in 1 .. N : k \in 0 .. N /\ k # 0
    BY <1>n
  <2>2. loop[0] = s0
    BY <1>4, <2>1
  <2> QED
    BY <1>4, <2>1, <2>2
<1>7. Falls(S, m, N, loop)
  BY <1>6 DEF Falls, LineRounds
<1>8. loop[0] \in S /\ m[loop[0]] <= N
  BY <1>6 DEF N
<1>9. PICK h : h = loop
  OBVIOUS
<1>10. h[N] \in S /\ m[h[N]] = 0
  <2>1. h[0] \in S /\ m[h[0]] <= N /\ Falls(S, m, N, h)
    BY <1>7, <1>8, <1>9
  <2> QED
    BY <1>n, <2>1, LoopResult
<1> QED
  BY <1>5, <1>9, <1>10

\* There is no line left in the buffer.
LineEnd(s) == Find(s.buffer, "newline") = 0 /\ Len(s.buffer) <= 1

\* A line was taken from the state s, which became r.
LineStep(s, r, rest, todo) ==
    /\ r \in PageState /\ r.frames = s.frames /\ r.extra = s.extra /\ r.body = <<>>
    /\ Len(r.buffer) < Len(s.buffer)
    /\ \E v \in Seq(Tok) : JoinIs(r.buffer, rest, v) /\ Expects(r.raw, r.type, v, todo)

\* The line in front of the newline at n.
LineWas(s, f, k, n, t, rest) ==
    \E d \in Seq(Tok), u \in Seq(Tok), v \in Seq(Tok) :
        /\ OneLine(s) = LineReceived([s EXCEPT !.buffer = d], u)
        /\ Before(f, k, n, u) /\ Len(d) < Len(s.buffer)
        /\ Behind(f, k + n, t, v) /\ JoinIs(d, rest, v)

LEMMA LineTaken ==
    ASSUME NEW s \in PageState, s.raw = FALSE, NEW f \in Frame, NEW k, NEW n, n \in 1 .. 8,
           NEW t, NEW rest, Marked(f, k, n, t, "newline", s.buffer, rest)
    PROVE  LineWas(s, f, k, n, t, rest)
<1>1. PICK d \in Seq(Tok), u \in Seq(Tok) :
        d = Drop(s.buffer, n) /\ u = First(s.buffer, n - 1)
  BY DEF Marked, Before
<1>2. Find(s.buffer, "newline") = n /\ n # 0
  BY DEF Marked
<1>3. OneLine(s) = LineReceived([s EXCEPT !.buffer = d], u)
  BY <1>1, <1>2 DEF OneLine
<1>4. Len(d) < Len(s.buffer)
  <2>1. s.buffer \in Seq(Tok)
    BY DEF PageState
  <2>2. Len(s.buffer) \in Nat /\ Len(d) = Len(s.buffer) - n
    BY <1>1, <2>1, LenProperties DEF Marked
  <2> QED
    BY <2>2
<1>5. PICK v \in Seq(Tok) : Behind(f, k + n, t, v) /\ JoinIs(d, rest, v)
  BY <1>1 DEF Marked
<1>6. Before(f, k, n, u)
  BY <1>1 DEF Marked
<1> QED
  BY <1>3, <1>4, <1>5, <1>6 DEF LineWas

\* A line of a frame is taken: the one with the command gives the type, and the
\* empty one after the headers announces the body.
LEMMA PartLine ==
    ASSUME NEW s \in PageState, s.raw = FALSE, s.body = <<>>, NEW todo \in Seq(Frame), NEW rest \in Seq(Tok),
           NEW f \in Frame, NEW t \in Seq(Frame), JoinIs(<<f>>, t, todo),
           s.type = <<Token(f, "command")>>,
           \/ Marked(f, 2, 2, t, "newline", s.buffer, rest)
           \/ Marked(f, 4, 1, t, "newline", s.buffer, rest)
    PROVE  LineStep(s, OneLine(s), rest, todo)
<1>t. s.type # <<>>
  <2>1. <<Token(f, "command")>> # <<>>
    OBVIOUS
  <2> QED
    BY <2>1
<1>1. CASE Marked(f, 2, 2, t, "newline", s.buffer, rest)
  <2>1. PICK d \in Seq(Tok), u \in Seq(Tok), v \in Seq(Tok) :
              /\ OneLine(s) = LineReceived([s EXCEPT !.buffer = d], u)
              /\ Before(f, 2, 2, u) /\ Len(d) < Len(s.buffer)
              /\ Behind(f, 2 + 2, t, v) /\ JoinIs(d, rest, v)
    <3>0. 1 \in 1 .. 8 /\ 2 \in 1 .. 8
      OBVIOUS
    <3>1. LineWas(s, f, 2, 2, t, rest)
      BY <1>1, <3>0, LineTaken
    <3> QED
      BY <3>1 DEF LineWas
  <2>2. u # <<>>
    <3> SUFFICES ASSUME u = <<>> PROVE FALSE
      OBVIOUS
    <3>1. Len(u) = 0 /\ Len(u) = 2 - 1
      BY <2>1 DEF Before
    <3> QED
      BY <3>1
  <2>3. OneLine(s) = [s EXCEPT !.buffer = d]
    BY <1>t, <2>1, <2>2 DEF LineReceived, PageState
  <2>4. AtPart(4, s.type, v, todo)
    <3>1. 2 + 2 = 4
      OBVIOUS
    <3> QED
      BY <2>1, <3>1 DEF AtPart
  <2>5. PICK r : r = OneLine(s)
    OBVIOUS
  <2>6. /\ r \in PageState /\ r.frames = s.frames /\ r.extra = s.extra /\ r.body = <<>>
        /\ r.buffer = d /\ r.raw = FALSE /\ r.type = s.type
    BY <2>3, <2>5 DEF PageState
  <2>7. Expects(r.raw, r.type, v, todo)
    BY <2>4, <2>6 DEF Expects
  <2> QED
    BY <2>1, <2>5, <2>6, <2>7 DEF LineStep
<1>2. CASE Marked(f, 4, 1, t, "newline", s.buffer, rest)
  <2>1. PICK d \in Seq(Tok), u \in Seq(Tok), v \in Seq(Tok) :
              /\ OneLine(s) = LineReceived([s EXCEPT !.buffer = d], u)
              /\ Before(f, 4, 1, u) /\ Len(d) < Len(s.buffer)
              /\ Behind(f, 4 + 1, t, v) /\ JoinIs(d, rest, v)
    <3>0. 1 \in 1 .. 8 /\ 2 \in 1 .. 8
      OBVIOUS
    <3>1. LineWas(s, f, 4, 1, t, rest)
      BY <1>2, <3>0, LineTaken
    <3> QED
      BY <3>1 DEF LineWas
  <2>2. u = <<>>
    <3>1. Len(u) = 0
      BY <2>1 DEF Before
    <3> QED
      BY <3>1, EmptySeq
  <2>3. OneLine(s) = [s EXCEPT !.buffer = d, !.raw = TRUE]
    BY <1>t, <2>1, <2>2 DEF LineReceived, PageState
  <2>4. AtPart(5, s.type, v, todo)
    <3>1. 4 + 1 = 5
      OBVIOUS
    <3> QED
      BY <2>1, <3>1 DEF AtPart
  <2>5. PICK r : r = OneLine(s)
    OBVIOUS
  <2>6. /\ r \in PageState /\ r.frames = s.frames /\ r.extra = s.extra /\ r.body = <<>>
        /\ r.buffer = d /\ r.raw = TRUE /\ r.type = s.type
    BY <2>3, <2>5 DEF PageState
  <2>7. Expects(r.raw, r.type, v, todo)
    BY <2>4, <2>6 DEF Expects
  <2> QED
    BY <2>1, <2>5, <2>6, <2>7 DEF LineStep
<1> QED
  BY <1>1, <1>2

LEMMA CommandLine ==
    ASSUME NEW s \in PageState, s.raw = FALSE, s.body = <<>>, NEW todo \in Seq(Frame), NEW rest \in Seq(Tok),
           NEW f \in Frame, NEW t \in Seq(Frame), JoinIs(<<f>>, t, todo), s.type = <<>>,
           Marked(f, 0, 2, t, "newline", s.buffer, rest)
    PROVE  LineStep(s, OneLine(s), rest, todo)
<1>1. PICK d \in Seq(Tok), u \in Seq(Tok), v \in Seq(Tok) :
            /\ OneLine(s) = LineReceived([s EXCEPT !.buffer = d], u)
            /\ Before(f, 0, 2, u) /\ Len(d) < Len(s.buffer)
            /\ Behind(f, 0 + 2, t, v) /\ JoinIs(d, rest, v)
  <2>0. 1 \in 1 .. 8 /\ 2 \in 1 .. 8
    OBVIOUS
  <2>1. LineWas(s, f, 0, 2, t, rest)
    BY <2>0, LineTaken
  <2> QED
    BY <2>1 DEF LineWas
<1>2. u = <<Token(f, "command")>> /\ u # <<>>
  <2>1. Len(u) = 1 /\ 1 \in 1 .. (2 - 1) /\ 0 + 1 = 1
    BY <1>1 DEF Before
  <2>2. u[1] = Token(f, "command")
    BY <1>1, <2>1, NamesAre DEF Before
  <2>3. u = <<Token(f, "command")>>
    BY <2>1, <2>2
  <2>4. <<Token(f, "command")>> # <<>>
    OBVIOUS
  <2> QED
    BY <2>3, <2>4
<1>3. OneLine(s) = [s EXCEPT !.buffer = d, !.type = u, !.body = <<>>]
  BY <1>1, <1>2 DEF LineReceived, PageState
<1>4. AtPart(2, u, v, todo)
  <2>1. 0 + 2 = 2
    OBVIOUS
  <2> QED
    BY <1>1, <1>2, <2>1 DEF AtPart
<1>5. PICK r : r = OneLine(s)
  OBVIOUS
<1>6. /\ r \in PageState /\ r.frames = s.frames /\ r.extra = s.extra /\ r.body = <<>>
      /\ r.buffer = d /\ r.raw = FALSE /\ r.type = u
  BY <1>3, <1>5 DEF PageState
<1>7. Expects(r.raw, r.type, v, todo)
  BY <1>4, <1>6 DEF Expects
<1> QED
  BY <1>1, <1>5, <1>6, <1>7 DEF LineStep

LEMMA EmptyLine ==
    ASSUME NEW s \in PageState, s.raw = FALSE, s.body = <<>>, NEW todo \in Seq(Frame), NEW rest \in Seq(Tok),
           NEW f \in Frame, s.type = <<>>, Marked(f, 7, 1, todo, "newline", s.buffer, rest)
    PROVE  LineStep(s, OneLine(s), rest, todo)
<1>1. PICK d \in Seq(Tok), u \in Seq(Tok), v \in Seq(Tok) :
            /\ OneLine(s) = LineReceived([s EXCEPT !.buffer = d], u)
            /\ Before(f, 7, 1, u) /\ Len(d) < Len(s.buffer)
            /\ Behind(f, 7 + 1, todo, v) /\ JoinIs(d, rest, v)
  <2>0. 1 \in 1 .. 8 /\ 2 \in 1 .. 8
    OBVIOUS
  <2>1. LineWas(s, f, 7, 1, todo, rest)
    BY <2>0, LineTaken
  <2> QED
    BY <2>1 DEF LineWas
<1>2. u = <<>>
  <2>1. Len(u) = 0
    BY <1>1 DEF Before
  <2> QED
    BY <2>1, EmptySeq
<1>3. OneLine(s) = [s EXCEPT !.buffer = d]
  BY <1>1, <1>2 DEF LineReceived, PageState
<1>4. AtFrames(s.type, v, todo)
  <2>1. 7 + 1 = 8
    OBVIOUS
  <2> QED
    BY <1>1, <2>1, BehindAll DEF AtFrames
<1>5. PICK r : r = OneLine(s)
  OBVIOUS
<1>6. /\ r \in PageState /\ r.frames = s.frames /\ r.extra = s.extra /\ r.body = <<>>
      /\ r.buffer = d /\ r.raw = FALSE /\ r.type = s.type
  BY <1>3, <1>5 DEF PageState
<1>7. Expects(r.raw, r.type, v, todo)
  BY <1>4, <1>6 DEF Expects
<1> QED
  BY <1>1, <1>5, <1>6, <1>7 DEF LineStep

LEMMA LineRound ==
    ASSUME NEW s \in PageState, s.raw = FALSE, s.body = <<>>, NEW todo \in Seq(Frame), NEW rest \in Seq(Tok),
           NEW x \in Seq(Tok), JoinIs(s.buffer, rest, x), Expects(s.raw, s.type, x, todo)
    PROVE  LineEnd(s) \/ LineStep(s, OneLine(s), rest, todo)
<1>b. PICK b \in Seq(Tok) : b = s.buffer
  BY DEF PageState
<1>n. /\ 0 \in 0 .. 7 /\ 2 \in 0 .. 7 /\ 4 \in 0 .. 7 /\ 7 \in 0 .. 7 /\ 1 \in 1 .. 8 /\ 2 \in 1 .. 8
      /\ 0 + 2 <= 8 /\ 2 + 2 <= 8 /\ 4 + 1 <= 8 /\ 7 + 1 <= 8
  OBVIOUS
<1>e. ASSUME NEW n \in {1, 2}, Find(b, "newline") = 0, Len(b) < n PROVE LineEnd(s)
  <2>1. Len(b) \in Nat
    BY LenProperties
  <2>2. Len(b) <= 1
    BY <1>e, <2>1
  <2> QED
    BY <1>b, <1>e, <2>2 DEF LineEnd
<1>j. JoinIs(b, rest, x)
  BY <1>b
<1>1. CASE AtFrames(s.type, x, todo)
  <2>1. CASE todo = <<>>
    <3>1. JoinIs(b, rest, <<>>)
      BY <1>1, <1>j, <2>1, BoxesEmpty DEF AtFrames
    <3>2. b = <<>>
      BY <3>1, NoFrames
    <3>3. Len(b) = 0 /\ \A i \in 1 .. Len(b) : b[i].is # "newline"
      BY <3>2
    <3>4. Find(b, "newline") = 0
      BY <3>3, FindNone
    <3> QED
      BY <1>e, <3>3, <3>4
  <2>2. CASE todo # <<>>
    <3>1. PICK f \in Frame, t \in Seq(Frame) : JoinIs(<<f>>, t, todo)
      BY <2>2, FirstFrame
    <3>2. Behind(f, 0, t, x)
      BY <1>1, <3>1, BehindNone DEF AtFrames
    <3>3. \/ Find(b, "newline") = 0 /\ Len(b) < 2
          \/ Marked(f, 0, 2, t, "newline", b, rest)
      BY <1>n, <1>j, <3>2, Marks, MarkFound
    <3>4. ASSUME Marked(f, 0, 2, t, "newline", b, rest) PROVE LineStep(s, OneLine(s), rest, todo)
      <4>1. s.type = <<>> /\ Marked(f, 0, 2, t, "newline", s.buffer, rest)
        BY <1>1, <1>b, <3>4 DEF AtFrames
      <4> QED
        BY <3>1, <4>1, CommandLine
    <3> QED
      BY <1>e, <3>3, <3>4
  <2> QED
    BY <2>1, <2>2
<1>2. CASE AtNewline(s.type, x, todo)
  <2>1. PICK f \in Frame : Behind(f, 7, todo, x)
    BY <1>2 DEF AtNewline
  <2>2. \/ Find(b, "newline") = 0 /\ Len(b) < 1
        \/ Marked(f, 7, 1, todo, "newline", b, rest)
    BY <1>n, <1>j, <2>1, Marks, MarkFound
  <2>3. ASSUME Marked(f, 7, 1, todo, "newline", b, rest) PROVE LineStep(s, OneLine(s), rest, todo)
    <3>1. s.type = <<>> /\ Marked(f, 7, 1, todo, "newline", s.buffer, rest)
      BY <1>2, <1>b, <2>3 DEF AtNewline
    <3> QED
      BY <3>1, EmptyLine
  <2> QED
    BY <1>e, <2>2, <2>3
<1>3. CASE AtPart(2, s.type, x, todo)
  <2>1. PICK f \in Frame, t \in Seq(Frame) :
          s.type = <<Token(f, "command")>> /\ JoinIs(<<f>>, t, todo) /\ Behind(f, 2, t, x)
    BY <1>3 DEF AtPart
  <2>2. \/ Find(b, "newline") = 0 /\ Len(b) < 2
        \/ Marked(f, 2, 2, t, "newline", b, rest)
    BY <1>n, <1>j, <2>1, Marks, MarkFound
  <2>3. ASSUME Marked(f, 2, 2, t, "newline", b, rest) PROVE LineStep(s, OneLine(s), rest, todo)
    <3>1. Marked(f, 2, 2, t, "newline", s.buffer, rest)
      BY <1>b, <2>3
    <3> QED
      BY <2>1, <3>1, PartLine
  <2> QED
    BY <1>e, <2>2, <2>3
<1>4. CASE AtPart(4, s.type, x, todo)
  <2>1. PICK f \in Frame, t \in Seq(Frame) :
          s.type = <<Token(f, "command")>> /\ JoinIs(<<f>>, t, todo) /\ Behind(f, 4, t, x)
    BY <1>4 DEF AtPart
  <2>2. \/ Find(b, "newline") = 0 /\ Len(b) < 1
        \/ Marked(f, 4, 1, t, "newline", b, rest)
    BY <1>n, <1>j, <2>1, Marks, MarkFound
  <2>3. ASSUME Marked(f, 4, 1, t, "newline", b, rest) PROVE LineStep(s, OneLine(s), rest, todo)
    <3>1. Marked(f, 4, 1, t, "newline", s.buffer, rest)
      BY <1>b, <2>3
    <3> QED
      BY <2>1, <3>1, PartLine
  <2> QED
    BY <1>e, <2>2, <2>3
<1> QED
  BY <1>1, <1>2, <1>3, <1>4 DEF Expects

\* The lines of the buffer are taken until the body begins, or no line is left.
LineState(s, rest, todo, q) ==
    /\ q \in PageState /\ q.frames = s.frames /\ q.extra = s.extra /\ q.body = <<>>
    /\ Len(q.buffer) <= Len(s.buffer)
    /\ \E v \in Seq(Tok) : JoinIs(q.buffer, rest, v) /\ Expects(q.raw, q.type, v, todo)

LEMMA LineStateNext ==
    ASSUME NEW s \in PageState, NEW rest \in Seq(Tok), NEW todo \in Seq(Frame), NEW q,
           LineState(s, rest, todo, q)
    PROVE  LineState(s, rest, todo, OneLine(q)) /\
           \/ (q.raw = TRUE \/ LineEnd(q)) /\ OneLine(q) = q
           \/ Len(OneLine(q).buffer) < Len(q.buffer)
<1>1. /\ q \in PageState /\ q.frames = s.frames /\ q.extra = s.extra /\ q.body = <<>>
      /\ Len(q.buffer) <= Len(s.buffer) /\ q.raw \in BOOLEAN
  BY DEF LineState, PageState
<1>2. Len(q.buffer) \in Nat /\ Len(s.buffer) \in Nat
  <2>1. q.buffer \in Seq(Tok) /\ s.buffer \in Seq(Tok)
    BY <1>1 DEF PageState
  <2> QED
    BY <2>1, LenProperties
<1>3. PICK v \in Seq(Tok) : JoinIs(q.buffer, rest, v) /\ Expects(q.raw, q.type, v, todo)
  BY DEF LineState
<1>4. CASE q.raw = TRUE
  <2>1. OneLine(q) = q
    BY <1>4 DEF OneLine
  <2> QED
    BY <1>4, <2>1
<1>5. CASE q.raw = FALSE /\ LineEnd(q)
  <2>1. OneLine(q) = q
    BY <1>5 DEF OneLine, LineEnd
  <2> QED
    BY <1>5, <2>1
<1>6. CASE q.raw = FALSE /\ LineStep(q, OneLine(q), rest, todo)
  <2>1. PICK r : r = OneLine(q)
    OBVIOUS
  <2>2. /\ r \in PageState /\ r.frames = q.frames /\ r.extra = q.extra /\ r.body = <<>>
        /\ Len(r.buffer) < Len(q.buffer)
        /\ \E u \in Seq(Tok) : JoinIs(r.buffer, rest, u) /\ Expects(r.raw, r.type, u, todo)
    BY <1>6, <2>1 DEF LineStep
  <2>3. Len(r.buffer) <= Len(s.buffer)
    <3>1. r.buffer \in Seq(Tok)
      BY <2>2 DEF PageState
    <3>2. Len(r.buffer) \in Nat
      BY <3>1, LenProperties
    <3> QED
      BY <1>1, <1>2, <2>2, <3>2
  <2>4. LineState(s, rest, todo, r)
    BY <1>1, <2>2, <2>3 DEF LineState
  <2> QED
    BY <2>1, <2>2, <2>4
<1>7. q.raw = FALSE => LineEnd(q) \/ LineStep(q, OneLine(q), rest, todo)
  BY <1>1, <1>3, LineRound
<1> QED
  BY <1>1, <1>4, <1>5, <1>6, <1>7

LEMMA LinesResult ==
    ASSUME NEW s \in PageState, s.body = <<>>, NEW rest \in Seq(Tok), NEW todo \in Seq(Frame),
           NEW x \in Seq(Tok), JoinIs(s.buffer, rest, x), Expects(s.raw, s.type, x, todo)
    PROVE  /\ LineState(s, rest, todo, Lines(s))
           /\ Lines(s).raw = TRUE \/ LineEnd(Lines(s))
<1> DEFINE S == {q \in PageState : LineState(s, rest, todo, q)}
           left(q) == IF q.raw = TRUE \/ LineEnd(q) THEN 0 ELSE Len(q.buffer)
           m == [q \in S |-> left(q)]
<1>1. \A q \in PageState : q.buffer \in Seq(Tok) /\ Len(q.buffer) \in Nat
  <2> SUFFICES ASSUME NEW q \in PageState PROVE q.buffer \in Seq(Tok) /\ Len(q.buffer) \in Nat
    OBVIOUS
  <2>1. q.buffer \in Seq(Tok)
    BY DEF PageState
  <2> QED
    BY <2>1, LenProperties
<1>2. \A q \in S : left(q) \in Nat /\ left(q) <= Len(q.buffer)
  <2> SUFFICES ASSUME NEW q \in PageState PROVE left(q) \in Nat /\ left(q) <= Len(q.buffer)
    OBVIOUS
  <2>1. Len(q.buffer) \in Nat
    BY <1>1
  <2> QED
    BY <2>1
<1>3. s \in S
  <2>1. Len(s.buffer) <= Len(s.buffer)
    BY <1>1
  <2> QED
    BY <2>1 DEF LineState
<1>4. \A q \in S : OneLine(q) \in S /\ (left(OneLine(q)) < left(q) \/ left(OneLine(q)) = 0)
  <2> SUFFICES ASSUME NEW q \in S
               PROVE  OneLine(q) \in S /\ (left(OneLine(q)) < left(q) \/ left(OneLine(q)) = 0)
    OBVIOUS
  <2>1. LineState(s, rest, todo, q)
    OBVIOUS
  <2>2. PICK r : r = OneLine(q)
    OBVIOUS
  <2>3. /\ LineState(s, rest, todo, r)
        /\ \/ (q.raw = TRUE \/ LineEnd(q)) /\ r = q
           \/ Len(r.buffer) < Len(q.buffer)
    BY <2>1, <2>2, LineStateNext
  <2>4. r \in S
    BY <2>3 DEF LineState
  <2>5. CASE (q.raw = TRUE \/ LineEnd(q)) /\ r = q
    BY <2>2, <2>4, <2>5
  <2>6. CASE ~(q.raw = TRUE \/ LineEnd(q)) /\ Len(r.buffer) < Len(q.buffer)
    <3>1. left(q) = Len(q.buffer)
      BY <2>6
    <3>2. left(r) <= Len(r.buffer) /\ left(r) \in Nat
      BY <1>2, <2>4
    <3>3. Len(r.buffer) \in Nat /\ Len(q.buffer) \in Nat
      BY <1>1, <2>4
    <3> HIDE DEF left
    <3>4. left(r) < left(q)
      BY <2>6, <3>1, <3>2, <3>3
    <3> QED
      BY <2>2, <2>4, <3>4
  <2>7. CASE q.raw = TRUE \/ LineEnd(q)
    <3>1. CASE q.raw = TRUE
      <4>1. OneLine(q) = q
        BY <3>1 DEF OneLine
      <4> QED
        BY <3>1, <4>1
    <3>2. CASE LineEnd(q)
      <4>1. OneLine(q) = q
        BY <3>2 DEF OneLine, LineEnd
      <4> QED
        BY <3>2, <4>1
    <3> QED
      BY <2>7, <3>1, <3>2
  <2> QED
    BY <2>3, <2>5, <2>6, <2>7
<1> HIDE DEF S, left
<1>5. m \in [S -> Nat]
  BY <1>2
<1>6. m[s] <= Len(s.buffer)
  BY <1>2, <1>3
<1>7. LineRounds(S, m)
  BY <1>4 DEF LineRounds
<1>8. s.buffer \in Seq(Tok)
  BY <1>1
<1>9. PICK r : r = Lines(s)
  OBVIOUS
<1>10. r \in S /\ m[r] = 0
  <2> HIDE DEF m
  <2> QED
    BY <1>3, <1>5, <1>6, <1>7, <1>8, <1>9, LinesEnd
<1>11. LineState(s, rest, todo, r) /\ r \in PageState
  BY <1>10 DEF S
<1>12. left(r) = 0
  BY <1>10
<1>13. r.raw = TRUE \/ LineEnd(r)
  <2> SUFFICES ASSUME ~(r.raw = TRUE \/ LineEnd(r)) PROVE FALSE
    OBVIOUS
  <2>1. Len(r.buffer) = 0
    BY <1>12 DEF left
  <2>2. r.buffer \in Seq(Tok)
    BY <1>1, <1>11
  <2>3. \A i \in 1 .. Len(r.buffer) : r.buffer[i].is # "newline"
    BY <2>1
  <2>4. Find(r.buffer, "newline") = 0
    BY <2>2, <2>3, FindNone
  <2> QED
    BY <2>1, <2>4 DEF LineEnd
<1> QED
  BY <1>9, <1>11, <1>13

-----------------------------------------------------------------------------
(* What the page reads of a chunk *)

ReadRounds(S, m) ==
    \A x \in S : /\ OneRead(x) \in S
                 /\ m[OneRead(x)] < m[x] \/ m[OneRead(x)] = 0

LEMMA OnReadEnd ==
    ASSUME NEW S, NEW m \in [S -> Nat], NEW s0 \in S, s0.extra \in Seq(Tok),
           m[s0] <= Len(s0.extra), ReadRounds(S, m)
    PROVE  OnRead(s0) \in S /\ m[OnRead(s0)] = 0
<1> DEFINE N == Len(s0.extra)
           F == [x \in S |-> OneRead(x)]
           Body(g) == [k \in 0 .. N |-> IF k = 0 THEN s0 ELSE OneRead(g[k - 1])]
           loop == CHOOSE g : g = Body(g)
<1>n. N \in Nat
  BY LenProperties
<1>1. F \in [S -> S]
  BY DEF ReadRounds
<1> HIDE DEF N
<1>2. PICK g \in [0 .. N -> S] : Loops(F, s0, N, g)
  <2> HIDE DEF F
  <2>1. CanLoop(S, F, s0, N)
    BY <1>n, <1>1, LoopExists
  <2> QED
    BY <2>1 DEF CanLoop
<1>3. g = Body(g)
  <2>1. \A k \in 0 .. N : k # 0 => k - 1 \in 0 .. N /\ g[k - 1] \in S
    BY <1>n
  <2>2. \A k \in 0 .. N : k # 0 => F[g[k - 1]] = OneRead(g[k - 1])
    BY <2>1
  <2> HIDE DEF F
  <2> QED
    BY <1>2, <2>2 DEF Loops
<1>4. loop = Body(loop)
  <2> HIDE DEF Body
  <2> QED
    BY <1>3
<1>5. OnRead(s0) = loop[N]
  BY DEF OnRead, N
<1> HIDE DEF loop, F
<1>6. loop[0] = s0 /\ \A k \in 1 .. N : loop[k] = OneRead(loop[k - 1])
  <2>1. 0 \in 0 .. N /\ \A k \in 1 .. N : k \in 0 .. N /\ k # 0
    BY <1>n
  <2>2. loop[0] = s0
    BY <1>4, <2>1
  <2> QED
    BY <1>4, <2>1, <2>2
<1>7. Falls(S, m, N, loop)
  BY <1>6 DEF Falls, ReadRounds
<1>8. loop[0] \in S /\ m[loop[0]] <= N
  BY <1>6 DEF N
<1>9. PICK h : h = loop
  OBVIOUS
<1>10. h[N] \in S /\ m[h[N]] = 0
  <2>1. h[0] \in S /\ m[h[0]] <= N /\ Falls(S, m, N, h)
    BY <1>7, <1>8, <1>9
  <2> QED
    BY <1>n, <2>1, LoopResult
<1> QED
  BY <1>5, <1>9, <1>10

\* What the page keeps between two chunks: a token of a line or of a body.
Rests(p) ==
    \/ /\ p.raw = TRUE /\ p.buffer = <<>>
       /\ Find(p.body, "nul") = 0 /\ Len(p.body) <= 1
    \/ /\ p.raw = FALSE /\ p.body = <<>>
       /\ Find(p.buffer, "newline") = 0 /\ Len(p.buffer) <= 1

HeldBy(p) == IF p.raw THEN p.body ELSE p.buffer

\* The states that the loop goes through while it reads the frames todo from a
\* stream whose bytes rest have not arrived: t is to be read.
ReadState(todo, rest, s, t) ==
    /\ s \in PageState /\ JoinIs(s.frames, t, todo) /\ Rests(s)
    /\ \E h \in Seq(Tok), x \in Seq(Tok) :
        /\ JoinIs(HeldBy(s), s.extra, h) /\ JoinIs(h, rest, x)
        /\ Expects(s.raw, s.type, x, t)

Reading(todo, rest, s) == \E t \in Seq(Frame) : ReadState(todo, rest, s, t)

\* What the page does with the bytes of a body: with its NUL, the frame is handed
\* over, and the rest is read again.
BodyRead(q, body) ==
    LET nul == Find(body, "nul") IN
    IF nul = 0 THEN [q EXCEPT !.buffer = <<>>, !.body = body, !.extra = <<>>]
    ELSE [q EXCEPT !.raw = FALSE, !.buffer = <<>>, !.type = <<>>, !.body = <<>>,
                   !.frames = Append(q.frames, Dispatched(q.type, First(body, nul - 1))),
                   !.extra = Drop(body, nul)]

LEMMA BodyTaken ==
    ASSUME NEW q \in PageState, q.raw = TRUE, NEW todo \in Seq(Frame), NEW rest \in Seq(Tok),
           NEW t \in Seq(Frame), NEW x \in Seq(Tok), NEW body \in Seq(Tok), JoinIs(body, rest, x),
           Expects(q.raw, q.type, x, t), JoinIs(q.frames, t, todo),
           Len(body) <= Len(q.extra) + 1
    PROVE  /\ Reading(todo, rest, BodyRead(q, body))
           /\ \/ Len(BodyRead(q, body).extra) < Len(q.extra)
              \/ Len(BodyRead(q, body).extra) = 0
<1>1. AtPart(5, q.type, x, t)
  BY DEF Expects
<1>2. PICK f \in Frame, t2 \in Seq(Frame) :
        q.type = <<Token(f, "command")>> /\ JoinIs(<<f>>, t2, t) /\ Behind(f, 5, t2, x)
  BY <1>1 DEF AtPart
<1>3. \/ Find(body, "nul") = 0 /\ Len(body) < 2
      \/ Marked(f, 5, 2, t2, "nul", body, rest)
  <2>1. 5 \in 0 .. 7 /\ 2 \in 1 .. 8 /\ 5 + 2 <= 8
    OBVIOUS
  <2> QED
    BY <1>2, <2>1, Marks, MarkFound
<1>4. /\ q.frames \in Seq(Frame) /\ q.extra \in Seq(Tok) /\ q.type \in Seq(Tok)
      /\ q.raw \in BOOLEAN /\ q.buffer \in Seq(Tok) /\ q.body \in Seq(Tok)
      /\ Len(q.extra) \in Nat /\ Len(body) \in Nat
  <2>1. /\ q.frames \in Seq(Frame) /\ q.extra \in Seq(Tok) /\ q.type \in Seq(Tok)
        /\ q.raw \in BOOLEAN /\ q.buffer \in Seq(Tok) /\ q.body \in Seq(Tok)
    BY DEF PageState
  <2> QED
    BY <2>1, LenProperties
<1>5. <<>> \in Seq(Tok) /\ Len(<<>>) = 0
  BY EmptySeq
<1>6. CASE Find(body, "nul") = 0 /\ Len(body) < 2
  <2>1. PICK r : r = BodyRead(q, body)
    OBVIOUS
  <2>2. r = [q EXCEPT !.buffer = <<>>, !.body = body, !.extra = <<>>]
    BY <1>6, <2>1 DEF BodyRead
  <2>3. /\ r \in PageState /\ r.raw = TRUE /\ r.buffer = <<>> /\ r.body = body
        /\ r.extra = <<>> /\ r.frames = q.frames /\ r.type = q.type
    BY <1>5, <2>2 DEF PageState
  <2>4. Rests(r) /\ HeldBy(r) = body
    <3>1. Len(body) <= 1
      BY <1>4, <1>6
    <3> QED
      BY <1>6, <2>3, <3>1 DEF Rests, HeldBy
  <2>5. JoinIs(HeldBy(r), r.extra, body)
    BY <2>3, <2>4, ConcatEmptySeq DEF JoinIs
  <2>6. JoinIs(r.frames, t, todo) /\ Expects(r.raw, r.type, x, t)
    BY <2>3
  <2>7. ReadState(todo, rest, r, t)
    BY <2>3, <2>4, <2>5, <2>6 DEF ReadState
  <2>8. Len(r.extra) = 0
    BY <1>5, <2>3
  <2> QED
    BY <2>1, <2>7, <2>8 DEF Reading
<1>7. CASE Marked(f, 5, 2, t2, "nul", body, rest)
  <2>1. PICK d \in Seq(Tok), u \in Seq(Tok) :
          d = Drop(body, 2) /\ u = First(body, 2 - 1) /\ Len(d) = Len(body) - 2
    BY <1>7 DEF Marked, Before
  <2>2. PICK v \in Seq(Tok) : Behind(f, 5 + 2, t2, v) /\ JoinIs(d, rest, v)
    BY <1>7, <2>1 DEF Marked
  <2>3. Find(body, "nul") = 2 /\ 2 <= Len(body)
    BY <1>7 DEF Marked
  <2>4. u = <<Token(f, "body")>>
    <3>1. Len(u) = 1 /\ 1 \in 1 .. (2 - 1) /\ 5 + 1 = 6
      BY <1>7, <2>1 DEF Marked, Before
    <3>2. u[1] = Token(f, "body")
      BY <1>7, <2>1, <3>1, NamesAre DEF Marked, Before
    <3> QED
      BY <3>1, <3>2
  <2>5. Dispatched(q.type, u) = f
    <3>1. /\ <<Token(f, "command")>> # <<>>
          /\ <<Token(f, "command")>>[1] = Token(f, "command")
      OBVIOUS
    <3>2. q.type # <<>> /\ q.type[1] = Token(f, "command")
      BY <1>2, <3>1
    <3>3. q.type[1].is = "command" /\ q.type[1].of = f
      BY <3>2, TokenName
    <3> QED
      BY <2>4, <3>2, <3>3 DEF Dispatched
  <2>6. PICK fs \in Seq(Frame) : fs = Append(q.frames, f)
    BY <1>4, AppendProperties
  <2>7. PICK r : r = BodyRead(q, body)
    OBVIOUS
  <2>8. r = [q EXCEPT !.raw = FALSE, !.buffer = <<>>, !.type = <<>>, !.body = <<>>,
                      !.frames = fs, !.extra = d]
    <3>1. 2 # 0
      OBVIOUS
    <3> QED
      BY <2>1, <2>3, <2>5, <2>6, <2>7, <3>1 DEF BodyRead
  <2>9. /\ r \in PageState /\ r.raw = FALSE /\ r.buffer = <<>> /\ r.body = <<>>
        /\ r.extra = d /\ r.frames = fs /\ r.type = <<>>
    BY <1>5, <2>8 DEF PageState
  <2>10. Rests(r) /\ HeldBy(r) = <<>>
    <3>1. \A i \in 1 .. Len(<<>>) : <<>>[i].is # "newline"
      BY <1>5
    <3>2. Find(<<>>, "newline") = 0
      BY <1>5, <3>1, FindNone
    <3> QED
      BY <1>5, <2>9, <3>2 DEF Rests, HeldBy
  <2>11. JoinIs(HeldBy(r), r.extra, d)
    BY <2>9, <2>10, ConcatEmptySeq DEF JoinIs
  <2>12. JoinIs(r.frames, t2, todo)
    <3>1. PICK g \in Seq(Frame) : g = q.frames
      BY <1>4
    <3>2. <<f>> \in Seq(Frame)
      OBVIOUS
    <3>3. Append(g, f) = g \o <<f>>
      BY AppendIsConcat
    <3>4. JoinIs(g, t, todo) /\ JoinIs(<<f>>, t2, t)
      BY <1>2, <3>1
    <3>5. JoinIs(g \o <<f>>, t2, todo)
      BY <3>2, <3>4, JoinMove
    <3> QED
      BY <2>6, <2>9, <3>1, <3>3, <3>5
  <2>13. Expects(r.raw, r.type, v, t2)
    <3>1. 5 + 2 = 7
      OBVIOUS
    <3>2. AtNewline(r.type, v, t2)
      BY <2>2, <2>9, <3>1 DEF AtNewline
    <3> QED
      BY <2>9, <3>2 DEF Expects
  <2>14. ReadState(todo, rest, r, t2)
    BY <2>2, <2>9, <2>10, <2>11, <2>12, <2>13 DEF ReadState
  <2>15. Len(r.extra) < Len(q.extra)
    <3>1. Len(d) < Len(q.extra)
      BY <1>4, <2>1, <2>3
    <3> QED
      BY <2>9, <3>1
  <2> QED
    BY <2>7, <2>14, <2>15 DEF Reading
<1> QED
  BY <1>3, <1>6, <1>7

LEMMA OneReadBody ==
    ASSUME NEW s \in PageState, s.extra # <<>>, s.raw = TRUE
    PROVE  OneRead(s) = BodyRead(s, s.body \o s.extra)
BY DEF OneRead, BodyRead

LEMMA OneReadLines ==
    ASSUME NEW s \in PageState, s.extra # <<>>, s.raw = FALSE, NEW r \in PageState,
           r = Lines([s EXCEPT !.buffer = s.buffer \o s.extra]), r.body = <<>>
    PROVE  OneRead(s) = IF r.raw THEN BodyRead(r, r.buffer) ELSE [r EXCEPT !.extra = <<>>]
<1>1. r.buffer \in Seq(Tok)
  BY DEF PageState
<1>2. r.body \o r.buffer = r.buffer
  BY <1>1, ConcatEmptySeq
<1> QED
  BY <1>2 DEF OneRead, BodyRead

LEMMA ReadRound ==
    ASSUME NEW todo \in Seq(Frame), NEW rest \in Seq(Tok), NEW s, Reading(todo, rest, s)
    PROVE  /\ Reading(todo, rest, OneRead(s))
           /\ \/ Len(OneRead(s).extra) < Len(s.extra)
              \/ Len(OneRead(s).extra) = 0
<1>1. PICK t \in Seq(Frame) : ReadState(todo, rest, s, t)
  BY DEF Reading
<1>2. s \in PageState /\ JoinIs(s.frames, t, todo) /\ Rests(s)
  BY <1>1 DEF ReadState
<1>3. PICK h \in Seq(Tok), x \in Seq(Tok) :
        /\ JoinIs(HeldBy(s), s.extra, h) /\ JoinIs(h, rest, x)
        /\ Expects(s.raw, s.type, x, t)
  BY <1>1 DEF ReadState
<1>4. /\ s.frames \in Seq(Frame) /\ s.extra \in Seq(Tok) /\ s.type \in Seq(Tok)
      /\ s.raw \in BOOLEAN /\ s.buffer \in Seq(Tok) /\ s.body \in Seq(Tok)
  BY <1>2 DEF PageState
<1>5. Len(s.extra) \in Nat /\ Len(h) \in Nat /\ Len(s.buffer) \in Nat /\ Len(s.body) \in Nat
  BY <1>4, LenProperties
<1>6. CASE s.extra = <<>>
  <2>1. OneRead(s) = s
    BY <1>6 DEF OneRead
  <2>2. Len(s.extra) = 0
    BY <1>6
  <2> QED
    BY <2>1, <2>2
<1>7. CASE s.extra # <<>> /\ s.raw = TRUE
  <2>1. s.buffer = <<>> /\ Len(s.body) <= 1 /\ HeldBy(s) = s.body
    BY <1>2, <1>7 DEF Rests, HeldBy
  <2>2. h = s.body \o s.extra
    BY <1>3, <2>1 DEF JoinIs
  <2>3. Len(h) <= Len(s.extra) + 1
    <3>1. Len(h) = Len(s.body) + Len(s.extra)
      BY <1>4, <2>2, ConcatProperties
    <3> QED
      BY <1>5, <2>1, <3>1
  <2>4. OneRead(s) = BodyRead(s, h)
    BY <1>2, <1>7, <2>2, OneReadBody
  <2>5. /\ Reading(todo, rest, BodyRead(s, h))
        /\ \/ Len(BodyRead(s, h).extra) < Len(s.extra)
           \/ Len(BodyRead(s, h).extra) = 0
    BY <1>2, <1>3, <1>7, <2>3, BodyTaken
  <2> QED
    BY <2>4, <2>5
<1>8. CASE s.extra # <<>> /\ s.raw = FALSE
  <2>1. s.body = <<>> /\ Len(s.buffer) <= 1 /\ HeldBy(s) = s.buffer
    BY <1>2, <1>8 DEF Rests, HeldBy
  <2>2. h = s.buffer \o s.extra
    BY <1>3, <2>1 DEF JoinIs
  <2>3. Len(h) <= Len(s.extra) + 1
    <3>1. Len(h) = Len(s.buffer) + Len(s.extra)
      BY <1>4, <2>2, ConcatProperties
    <3> QED
      BY <1>5, <2>1, <3>1
  <2>4. PICK p \in PageState : p = [s EXCEPT !.buffer = h]
    BY <1>2 DEF PageState
  <2>5. /\ p.buffer = h /\ p.body = <<>> /\ p.raw = s.raw /\ p.type = s.type
        /\ p.frames = s.frames /\ p.extra = s.extra
    BY <1>2, <2>1, <2>4 DEF PageState
  <2>6. PICK r : r = Lines(p)
    OBVIOUS
  <2>7. LineState(p, rest, t, r) /\ (r.raw = TRUE \/ LineEnd(r))
    <3>1. JoinIs(p.buffer, rest, x) /\ Expects(p.raw, p.type, x, t)
      BY <1>3, <2>5
    <3> QED
      BY <2>5, <2>6, <3>1, LinesResult
  <2>8. /\ r \in PageState /\ r.frames = s.frames /\ r.extra = s.extra /\ r.body = <<>>
        /\ Len(r.buffer) <= Len(h)
    BY <2>5, <2>7 DEF LineState
  <2>9. PICK v \in Seq(Tok) : JoinIs(r.buffer, rest, v) /\ Expects(r.raw, r.type, v, t)
    BY <2>7 DEF LineState
  <2>10. r.buffer \in Seq(Tok) /\ r.raw \in BOOLEAN
    BY <2>8 DEF PageState
  <2>11. OneRead(s) = IF r.raw THEN BodyRead(r, r.buffer) ELSE [r EXCEPT !.extra = <<>>]
    <3>1. r = Lines([s EXCEPT !.buffer = s.buffer \o s.extra])
      BY <2>2, <2>4, <2>6
    <3> QED
      BY <1>2, <1>8, <2>8, <3>1, OneReadLines
  <2>12. CASE r.raw = TRUE
    <3>1. OneRead(s) = BodyRead(r, r.buffer)
      BY <2>11, <2>12
    <3>2. PICK b \in Seq(Tok) : b = r.buffer
      BY <2>10
    <3>3. Len(b) <= Len(r.extra) + 1
      <4>1. Len(b) \in Nat /\ Len(r.extra) = Len(s.extra) /\ Len(b) <= Len(h)
        BY <2>8, <3>2, LenProperties
      <4> QED
        BY <1>5, <2>3, <4>1
    <3>4. JoinIs(b, rest, v) /\ Expects(r.raw, r.type, v, t) /\ JoinIs(r.frames, t, todo)
      BY <1>2, <2>8, <2>9, <3>2
    <3>5. /\ Reading(todo, rest, BodyRead(r, b))
          /\ \/ Len(BodyRead(r, b).extra) < Len(r.extra)
             \/ Len(BodyRead(r, b).extra) = 0
      <4>1. r \in PageState
        BY <2>8
      <4> QED
        BY <2>12, <3>3, <3>4, <4>1, BodyTaken
    <3> QED
      BY <2>8, <3>1, <3>2, <3>5
  <2>13. CASE r.raw = FALSE
    <3>1. LineEnd(r)
      BY <2>7, <2>13
    <3>2. PICK q : q = OneRead(s)
      OBVIOUS
    <3>3. q = [r EXCEPT !.extra = <<>>]
      BY <2>11, <2>13, <3>2
    <3>4. <<>> \in Seq(Tok) /\ Len(<<>>) = 0
      BY EmptySeq
    <3>5. /\ q \in PageState /\ q.raw = FALSE /\ q.buffer = r.buffer /\ q.body = <<>>
          /\ q.extra = <<>> /\ q.frames = s.frames /\ q.type = r.type
      BY <2>8, <2>13, <3>3, <3>4 DEF PageState
    <3>6. Rests(q) /\ HeldBy(q) = r.buffer
      BY <3>1, <3>5 DEF Rests, HeldBy, LineEnd
    <3>7. JoinIs(HeldBy(q), q.extra, r.buffer)
      BY <2>10, <3>5, <3>6, ConcatEmptySeq DEF JoinIs
    <3>8. JoinIs(q.frames, t, todo) /\ Expects(q.raw, q.type, v, t)
      BY <1>2, <2>9, <2>13, <3>5
    <3>9. ReadState(todo, rest, q, t)
      BY <2>9, <2>10, <3>5, <3>6, <3>7, <3>8 DEF ReadState
    <3> QED
      BY <3>2, <3>4, <3>5, <3>9 DEF Reading
  <2> QED
    BY <2>10, <2>12, <2>13
<1> QED
  BY <1>4, <1>6, <1>7, <1>8

LEMMA ReadResult ==
    ASSUME NEW todo \in Seq(Frame), NEW rest \in Seq(Tok), NEW s0, Reading(todo, rest, s0)
    PROVE  Reading(todo, rest, OnRead(s0)) /\ OnRead(s0).extra = <<>>
<1> DEFINE S == {q \in PageState : Reading(todo, rest, q)}
           m == [q \in S |-> Len(q.extra)]
<1>1. \A q \in PageState : q.extra \in Seq(Tok) /\ Len(q.extra) \in Nat
  <2> SUFFICES ASSUME NEW q \in PageState PROVE q.extra \in Seq(Tok) /\ Len(q.extra) \in Nat
    OBVIOUS
  <2>1. q.extra \in Seq(Tok)
    BY DEF PageState
  <2> QED
    BY <2>1, LenProperties
<1>2. \A q : Reading(todo, rest, q) => q \in PageState
  BY DEF Reading, ReadState
<1>3. s0 \in S
  BY <1>2
<1>4. ReadRounds(S, m)
  <2> SUFFICES ASSUME NEW q \in S
               PROVE  OneRead(q) \in S /\ (m[OneRead(q)] < m[q] \/ m[OneRead(q)] = 0)
    BY DEF ReadRounds
  <2>1. PICK r : r = OneRead(q)
    OBVIOUS
  <2>2. Reading(todo, rest, q)
    OBVIOUS
  <2>3. Reading(todo, rest, r) /\ (Len(r.extra) < Len(q.extra) \/ Len(r.extra) = 0)
    BY <2>1, <2>2, ReadRound
  <2>4. r \in S
    BY <1>2, <2>3
  <2> QED
    BY <2>1, <2>3, <2>4
<1>5. m \in [S -> Nat]
  BY <1>1
<1>6. s0.extra \in Seq(Tok) /\ m[s0] <= Len(s0.extra)
  BY <1>1, <1>3
<1>7. PICK r : r = OnRead(s0)
  OBVIOUS
<1>8. r \in S /\ m[r] = 0
  <2> HIDE DEF S, m
  <2> QED
    BY <1>3, <1>4, <1>5, <1>6, <1>7, OnReadEnd
<1>9. Reading(todo, rest, r) /\ Len(r.extra) = 0 /\ r.extra \in Seq(Tok)
  BY <1>1, <1>8
<1>10. r.extra = <<>>
  BY <1>9, EmptySeq
<1> QED
  BY <1>7, <1>9, <1>10

-----------------------------------------------------------------------------
(* What the broker answers is shown *)

\* What the page keeps and what has not arrived are the frames that it has not
\* handed over, from where it is in the first of them.
DownInv ==
    /\ answered \in Seq(Frame) /\ shown \in Seq(Frame) /\ downWire \in Seq(Tok)
    /\ page \in [raw : BOOLEAN, buffer : Seq(Tok), type : Seq(Tok), body : Seq(Tok)]
    /\ Rests(page)
    /\ \E todo \in Seq(Frame), x \in Seq(Tok) :
        /\ JoinIs(shown, todo, answered) /\ JoinIs(HeldBy(page), downWire, x)
        /\ Expects(page.raw, page.type, x, todo)

LEMMA DownInit == Init => DownInv
<1> SUFFICES ASSUME Init PROVE DownInv
  OBVIOUS
<1>1. /\ answered = <<>> /\ shown = <<>> /\ downWire = <<>>
      /\ page = [raw |-> FALSE, buffer |-> <<>>, type |-> <<>>, body |-> <<>>]
  BY DEF Init
<1>2. <<>> \in Seq(Frame) /\ <<>> \in Seq(Tok) /\ Len(<<>>) = 0 /\ JoinIs(<<>>, <<>>, <<>>)
  BY EmptySeq, ConcatEmptySeq DEF JoinIs
<1>3. /\ page \in [raw : BOOLEAN, buffer : Seq(Tok), type : Seq(Tok), body : Seq(Tok)]
      /\ page.raw = FALSE /\ page.buffer = <<>> /\ page.type = <<>> /\ page.body = <<>>
  BY <1>1, <1>2
<1>4. Rests(page) /\ HeldBy(page) = <<>>
  <2>1. \A i \in 1 .. Len(<<>>) : <<>>[i].is # "newline"
    BY <1>2
  <2>2. Find(<<>>, "newline") = 0
    BY <1>2, <2>1, FindNone
  <2> QED
    BY <1>2, <1>3, <2>2 DEF Rests, HeldBy
<1>5. Expects(page.raw, page.type, <<>>, <<>>)
  BY <1>3, BoxesEmpty DEF Expects, AtFrames
<1> QED
  BY <1>1, <1>2, <1>3, <1>4, <1>5 DEF DownInv

\* Frames are put behind what is on the way.
LEMMA ExpectsMore ==
    ASSUME NEW raw, NEW type, NEW x \in Seq(Tok), NEW todo \in Seq(Frame),
           Expects(raw, type, x, todo), NEW fs \in Seq(Frame), NEW more \in Seq(Frame),
           JoinIs(todo, fs, more), NEW x2 \in Seq(Tok), JoinIs(x, Boxes(fs), x2)
    PROVE  Expects(raw, type, x2, more)
<1>1. PICK y \in Seq(Tok) : y = Boxes(fs)
  BY BoxesTyped
<1>2. \A t \in Seq(Frame), t2 \in Seq(Frame) : JoinIs(t, fs, t2) => JoinIs(Boxes(t), y, Boxes(t2))
  BY <1>1, BoxesConcat DEF JoinIs
<1>3. x2 = x \o y
  BY <1>1 DEF JoinIs
<1>4. \A f \in Frame : \A k, t, t2 : t \in Seq(Frame) /\ t2 \in Seq(Frame) /\ JoinIs(t, fs, t2)
        /\ Behind(f, k, t, x) => Behind(f, k, t2, x2)
  <2> SUFFICES ASSUME NEW f \in Frame, NEW k, NEW t \in Seq(Frame), NEW t2 \in Seq(Frame),
                      JoinIs(t, fs, t2), Behind(f, k, t, x)
               PROVE  Behind(f, k, t2, x2)
    OBVIOUS
  <2>1. PICK a \in Seq(Tok), c \in Seq(Tok) :
          Len(a) = k /\ JoinIs(a, c, Pack(f)) /\ JoinIs(c, Boxes(t), x)
    BY DEF Behind
  <2>2. PICK z \in Seq(Tok) : z = Boxes(t)
    BY BoxesTyped
  <2>3. JoinIs(c, z, x)
    BY <2>1, <2>2
  <2>4. JoinIs(c, z \o y, x \o y)
    BY <2>3, JoinMore
  <2>5. Boxes(t2) = z \o y
    BY <1>2, <2>2 DEF JoinIs
  <2>6. JoinIs(c, Boxes(t2), x2)
    BY <1>3, <2>4, <2>5
  <2> QED
    BY <2>1, <2>6 DEF Behind
<1>5. ASSUME AtFrames(type, x, todo) PROVE AtFrames(type, x2, more)
  <2>1. JoinIs(Boxes(todo), y, Boxes(more))
    BY <1>2
  <2> QED
    BY <1>3, <1>5, <2>1 DEF AtFrames, JoinIs
<1>6. ASSUME AtNewline(type, x, todo) PROVE AtNewline(type, x2, more)
  <2>1. PICK f \in Frame : type = <<>> /\ Behind(f, 7, todo, x)
    BY <1>6 DEF AtNewline
  <2>2. Behind(f, 7, more, x2)
    BY <1>4, <2>1
  <2> QED
    BY <2>1, <2>2 DEF AtNewline
<1>7. ASSUME NEW k, AtPart(k, type, x, todo) PROVE AtPart(k, type, x2, more)
  <2>1. PICK f \in Frame, t \in Seq(Frame) :
          type = <<Token(f, "command")>> /\ JoinIs(<<f>>, t, todo) /\ Behind(f, k, t, x)
    BY <1>7 DEF AtPart
  <2>2. PICK t2 \in Seq(Frame) : t2 = t \o fs
    BY ConcatProperties
  <2>3. JoinIs(t, fs, t2)
    BY <2>2 DEF JoinIs
  <2>4. Behind(f, k, t2, x2)
    BY <1>4, <2>1, <2>3
  <2>5. PICK h \in Seq(Frame) : h = <<f>>
    <3>1. <<f>> \in Seq(Frame)
      OBVIOUS
    <3> QED
      BY <3>1
  <2>6. JoinIs(h, t, todo)
    BY <2>1, <2>5
  <2>7. JoinIs(h, t \o fs, todo \o fs)
    BY <2>6, JoinMore
  <2>8. JoinIs(<<f>>, t2, more)
    BY <2>2, <2>5, <2>7 DEF JoinIs
  <2> QED
    BY <2>1, <2>4, <2>8 DEF AtPart
<1> QED
  BY <1>5, <1>6, <1>7 DEF Expects

\* The broker answers.
LEMMA DownSend ==
    ASSUME DownInv, NEW fs \in Seq(Frame), answered' = answered \o fs,
           downWire' = downWire \o Boxes(fs), UNCHANGED <<page, shown>>
    PROVE  DownInv' /\ [BrokerFrames!Next]_(BrokerFrames!vars)
<1>1. /\ answered \in Seq(Frame) /\ shown \in Seq(Frame) /\ downWire \in Seq(Tok)
      /\ page \in [raw : BOOLEAN, buffer : Seq(Tok), type : Seq(Tok), body : Seq(Tok)]
      /\ Rests(page)
  BY DEF DownInv
<1>2. PICK todo \in Seq(Frame), x \in Seq(Tok) :
        /\ JoinIs(shown, todo, answered) /\ JoinIs(HeldBy(page), downWire, x)
        /\ Expects(page.raw, page.type, x, todo)
  BY DEF DownInv
<1>3. PICK y \in Seq(Tok) : y = Boxes(fs)
  BY BoxesTyped
<1>4. PICK all \in Seq(Frame), w \in Seq(Tok), h \in Seq(Tok) :
        all = answered /\ w = downWire /\ h = HeldBy(page)
  BY <1>1 DEF HeldBy
<1>5. PICK more \in Seq(Frame), x2 \in Seq(Tok) : more = todo \o fs /\ x2 = x \o y
  BY ConcatProperties
<1>6. JoinIs(shown, more, answered')
  <2>1. JoinIs(shown, todo, all)
    BY <1>2, <1>4
  <2>2. JoinIs(shown, todo \o fs, all \o fs)
    BY <1>1, <2>1, JoinMore
  <2> QED
    BY <1>4, <1>5, <2>2
<1>7. JoinIs(h, downWire', x2)
  <2>1. JoinIs(h, w, x)
    BY <1>2, <1>4
  <2>2. JoinIs(h, w \o y, x \o y)
    BY <2>1, JoinMore
  <2> QED
    BY <1>3, <1>4, <1>5, <2>2
<1>8. Expects(page.raw, page.type, x2, more)
  <2>1. JoinIs(todo, fs, more) /\ JoinIs(x, Boxes(fs), x2)
    BY <1>3, <1>5 DEF JoinIs
  <2> QED
    BY <1>2, <2>1, ExpectsMore
<1>9. answered' \in Seq(Frame) /\ downWire' \in Seq(Tok)
  BY <1>3, <1>4, ConcatProperties
<1>10. DownInv'
  <2>1. JoinIs(HeldBy(page), downWire', x2)
    BY <1>4, <1>7
  <2>2. Rests(page') /\ HeldBy(page') = HeldBy(page) /\ page' = page /\ shown' = shown
    BY <1>1
  <2> QED
    BY <1>1, <1>6, <1>8, <1>9, <2>1, <2>2 DEF DownInv
<1>11. CASE fs = <<>>
  <2>1. answered' = answered
    BY <1>4, <1>11, ConcatEmptySeq
  <2> QED
    BY <1>10, <2>1 DEF BrokerFrames!vars
<1>12. CASE fs # <<>>
  <2>1. Len(all \o fs) = Len(all) + Len(fs) /\ Len(all) \in Nat /\ Len(fs) \in Nat
    BY ConcatProperties, LenProperties
  <2>2. Len(fs) # 0
    BY <1>12, EmptySeq
  <2>3. First(all \o fs, Len(all)) = all
    BY CutConcat
  <2>4. Len(answered') > Len(answered)
    BY <1>4, <2>1, <2>2
  <2>5. SubSeq(answered', 1, Len(answered)) = answered
    BY <1>4, <2>3 DEF First
  <2>6. BrokerFrames!Send
    BY <1>9, <2>4, <2>5 DEF BrokerFrames!Send
  <2> QED
    BY <1>10, <2>6 DEF BrokerFrames!Next
<1> QED
  BY <1>11, <1>12

\* Before the chunk is read, and after it.
LEMMA ChunkToRead ==
    ASSUME DownInv, NEW n \in 1 .. Len(downWire), NEW s0,
           s0 = [raw |-> page.raw, buffer |-> page.buffer, type |-> page.type,
                 body |-> page.body, frames |-> <<>>, extra |-> First(downWire, n)]
    PROVE  \E todo \in Seq(Frame), rest \in Seq(Tok) :
             rest = Drop(downWire, n) /\ JoinIs(shown, todo, answered)
             /\ Reading(todo, rest, s0)
<1>1. /\ downWire \in Seq(Tok)
      /\ page \in [raw : BOOLEAN, buffer : Seq(Tok), type : Seq(Tok), body : Seq(Tok)]
      /\ Rests(page)
  BY DEF DownInv
<1>2. PICK todo \in Seq(Frame), x \in Seq(Tok) :
        /\ JoinIs(shown, todo, answered) /\ JoinIs(HeldBy(page), downWire, x)
        /\ Expects(page.raw, page.type, x, todo)
  BY DEF DownInv
<1>3. n \in 0 .. Len(downWire)
  OBVIOUS
<1>4. PICK chunk \in Seq(Tok), rest \in Seq(Tok), h \in Seq(Tok) :
        chunk = First(downWire, n) /\ rest = Drop(downWire, n) /\ h = HeldBy(page)
  <2>1. First(downWire, n) \in Seq(Tok) /\ Drop(downWire, n) \in Seq(Tok)
    BY <1>1, <1>3, FirstDrop
  <2>2. HeldBy(page) \in Seq(Tok)
    BY <1>1 DEF HeldBy
  <2> QED
    BY <2>1, <2>2
<1>5. JoinIs(chunk, rest, downWire)
  <2>1. JoinIs(First(downWire, n), Drop(downWire, n), downWire)
    BY <1>1, <1>3, FirstDrop
  <2> QED
    BY <1>4, <2>1
<1>6. PICK h2 \in Seq(Tok) : h2 = h \o chunk
  BY ConcatProperties
<1>7. JoinIs(h, chunk, h2) /\ JoinIs(h2, rest, x)
  <2>1. JoinIs(h, downWire, x)
    BY <1>2, <1>4
  <2>2. JoinIs(h \o chunk, rest, x)
    BY <1>5, <2>1, JoinMove
  <2> QED
    BY <1>6, <2>2 DEF JoinIs
<1>8. /\ s0.raw = page.raw /\ s0.buffer = page.buffer /\ s0.type = page.type
      /\ s0.body = page.body /\ s0.frames = <<>> /\ s0.extra = chunk
  BY <1>4
<1>9. s0 \in PageState
  <2>1. <<>> \in Seq(Frame)
    BY EmptySeq
  <2> QED
    BY <1>1, <1>4, <2>1 DEF PageState
<1>10. Rests(s0) /\ HeldBy(s0) = h
  BY <1>1, <1>4, <1>8 DEF Rests, HeldBy
<1>11. JoinIs(s0.frames, todo, todo)
  BY <1>8, ConcatEmptySeq DEF JoinIs
<1>12. JoinIs(HeldBy(s0), s0.extra, h2) /\ Expects(s0.raw, s0.type, x, todo)
  BY <1>2, <1>7, <1>8, <1>10
<1>13. ReadState(todo, rest, s0, todo)
  BY <1>7, <1>9, <1>10, <1>11, <1>12 DEF ReadState
<1> QED
  BY <1>2, <1>4, <1>13 DEF Reading

\* A chunk of what the broker answered arrives.
LEMMA DownArrives ==
    ASSUME DownInv, NEW n \in 1 .. Len(downWire), NEW s0, NEW after,
           s0 = [raw |-> page.raw, buffer |-> page.buffer, type |-> page.type,
                 body |-> page.body, frames |-> <<>>, extra |-> First(downWire, n)],
           after = OnRead(s0), answered' = answered, downWire' = Drop(downWire, n),
           page' = [raw |-> after.raw, buffer |-> after.buffer,
                    type |-> after.type, body |-> after.body],
           shown' = shown \o after.frames
    PROVE  DownInv' /\ after.frames \in Seq(Frame) /\ Len(shown') <= Len(answered)
           /\ First(answered, Len(shown')) = shown'
<1>1. answered \in Seq(Frame) /\ shown \in Seq(Frame)
  BY DEF DownInv
<1>2. PICK todo \in Seq(Frame), rest \in Seq(Tok) :
        rest = Drop(downWire, n) /\ JoinIs(shown, todo, answered) /\ Reading(todo, rest, s0)
  BY ChunkToRead
<1>3. Reading(todo, rest, after) /\ after.extra = <<>>
  BY <1>2, ReadResult
<1>4. PICK t \in Seq(Frame) : ReadState(todo, rest, after, t)
  BY <1>3 DEF Reading
<1>5. /\ after \in PageState /\ JoinIs(after.frames, t, todo) /\ Rests(after)
      /\ \E h \in Seq(Tok), x \in Seq(Tok) :
          /\ JoinIs(HeldBy(after), after.extra, h) /\ JoinIs(h, rest, x)
          /\ Expects(after.raw, after.type, x, t)
  BY <1>4 DEF ReadState
<1>6. PICK h \in Seq(Tok), x \in Seq(Tok) :
        /\ JoinIs(HeldBy(after), after.extra, h) /\ JoinIs(h, rest, x)
        /\ Expects(after.raw, after.type, x, t)
  BY <1>5
<1>7. /\ after.frames \in Seq(Frame) /\ after.raw \in BOOLEAN /\ after.buffer \in Seq(Tok)
      /\ after.type \in Seq(Tok) /\ after.body \in Seq(Tok)
  BY <1>5 DEF PageState
<1>8. HeldBy(after) = h
  <2>1. HeldBy(after) \in Seq(Tok)
    BY <1>7 DEF HeldBy
  <2>2. h = HeldBy(after) \o <<>>
    BY <1>3, <1>6 DEF JoinIs
  <2> QED
    BY <2>1, <2>2, ConcatEmptySeq
<1>9. PICK g \in Seq(Frame) : g = after.frames
  BY <1>7
<1>10. PICK v \in Seq(Frame) : v = shown \o g
  BY <1>1, <1>9, ConcatProperties
<1>11. shown' = v
  BY <1>9, <1>10
<1>12. JoinIs(v, t, answered)
  <2>1. JoinIs(g, t, todo)
    BY <1>5, <1>9
  <2>2. JoinIs(shown \o g, t, answered)
    BY <1>1, <1>2, <2>1, JoinMove
  <2> QED
    BY <1>10, <2>2
<1>13. /\ page'.raw = after.raw /\ page'.buffer = after.buffer /\ page'.type = after.type
       /\ page'.body = after.body
       /\ page' \in [raw : BOOLEAN, buffer : Seq(Tok), type : Seq(Tok), body : Seq(Tok)]
  BY <1>7
<1>14. Rests(page') /\ HeldBy(page') = h
  BY <1>5, <1>8, <1>13 DEF Rests, HeldBy
<1>15. DownInv'
  <2>1. JoinIs(HeldBy(page'), downWire', x) /\ Expects(page'.raw, page'.type, x, t)
    BY <1>2, <1>6, <1>13, <1>14
  <2>2. JoinIs(shown', t, answered') /\ shown' \in Seq(Frame) /\ downWire' \in Seq(Tok)
    BY <1>2, <1>11, <1>12
  <2> QED
    BY <1>1, <1>13, <1>14, <2>1, <2>2 DEF DownInv
<1>16. answered = v \o t
  BY <1>12 DEF JoinIs
<1>17. First(v \o t, Len(v)) = v
  BY CutConcat
<1>18. Len(v \o t) = Len(v) + Len(t) /\ Len(v) \in Nat /\ Len(t) \in Nat
  BY ConcatProperties, LenProperties
<1>19. PICK all \in Seq(Frame) : all = v \o t
  BY <1>1, <1>16
<1>20. Len(v) <= Len(all) /\ First(all, Len(v)) = v
  BY <1>17, <1>18, <1>19
<1>21. Len(shown') <= Len(answered) /\ First(answered, Len(shown')) = shown'
  BY <1>11, <1>16, <1>19, <1>20
<1> QED
  BY <1>7, <1>15, <1>21

\* Showing is a step of the stream.
LEMMA BrokerIsShown ==
    ASSUME DownInv, answered' = answered, NEW g \in Seq(Frame), shown' = shown \o g,
           Len(shown') <= Len(answered), First(answered, Len(shown')) = shown'
    PROVE  [BrokerFrames!Next]_(BrokerFrames!vars)
<1>1. answered \in Seq(Frame) /\ shown \in Seq(Frame)
  BY DEF DownInv
<1>2. PICK s \in Seq(Frame) : s = shown
  BY <1>1
<1>3. Len(s \o g) = Len(s) + Len(g) /\ Len(s) \in Nat /\ Len(g) \in Nat /\ Len(answered) \in Nat
  BY <1>1, ConcatProperties, LenProperties
<1>4. CASE g = <<>>
  <2>1. s \o <<>> = s
    BY ConcatEmptySeq
  <2>2. shown' = shown
    BY <1>2, <1>4, <2>1
  <2> QED
    BY <2>2 DEF BrokerFrames!vars
<1>5. CASE g # <<>>
  <2>1. Len(g) # 0
    BY <1>5, EmptySeq
  <2>2. Len(shown') \in Len(shown) + 1 .. Len(answered)
    BY <1>2, <1>3, <2>1
  <2>3. shown' = BrokerFrames!Prefix(Len(shown'))
    BY DEF BrokerFrames!Prefix, First
  <2>4. BrokerFrames!Deliver
    BY <2>2, <2>3 DEF BrokerFrames!Deliver
  <2> QED
    BY <2>4 DEF BrokerFrames!Next
<1> QED
  BY <1>4, <1>5

\* What the topic passes on are frames.
LEMMA ForwardedIs ==
    ASSUME NEW fs \in Seq(Frame)
    PROVE  Forwarded(fs) \in Seq(Frame)
<1>1. CASE ~subscribed
  BY <1>1, EmptySeq DEF Forwarded
<1>2. CASE subscribed
  <2>1. DOMAIN fs = 1 .. Len(fs) /\ Len(fs) \in Nat
    BY LenProperties
  <2>2. \A i \in 1 .. Len(fs) : [kind |-> "MESSAGE", no |-> fs[i].no] \in Frame
    <3> SUFFICES ASSUME NEW i \in 1 .. Len(fs)
                 PROVE  [kind |-> "MESSAGE", no |-> fs[i].no] \in Frame
      OBVIOUS
    <3>1. fs[i] \in Frame
      BY ElementOfSeq
    <3> QED
      BY <3>1 DEF Frame, Kind
  <2>3. Forwarded(fs) = [i \in 1 .. Len(fs) |-> [kind |-> "MESSAGE", no |-> fs[i].no]]
    BY <1>2, <2>1 DEF Forwarded
  <2>4. [i \in 1 .. Len(fs) |-> [kind |-> "MESSAGE", no |-> fs[i].no]] \in [1 .. Len(fs) -> Frame]
    BY <2>2
  <2> QED
    BY <2>1, <2>3, <2>4, SeqDef
<1> QED
  BY <1>1, <1>2

LEMMA DownNext ==
    ASSUME PubInv, DownInv, [Next]_vars
    PROVE  DownInv' /\ [BrokerFrames!Next]_(BrokerFrames!vars)
<1>1. ASSUME UNCHANGED down
      PROVE  DownInv' /\ [BrokerFrames!Next]_(BrokerFrames!vars)
  <2>1. DownInv'
    BY <1>1 DEF DownInv, down
  <2>2. UNCHANGED BrokerFrames!vars
    BY <1>1 DEF down, BrokerFrames!vars
  <2> QED
    BY <2>1, <2>2
<1>2. CASE OnOpen
  BY <1>1, <1>2 DEF OnOpen
<1>3. CASE Publish
  BY <1>1, <1>3 DEF Publish
<1>4. CASE PublisherDataReceived
  <2>1. PICK n \in 1 .. Len(pubWire) :
          LET got == Received(pubBuffer, First(pubWire, n)) IN
          /\ pubWire' = Drop(pubWire, n)
          /\ pubBuffer' = got.buffer
          /\ accepted' = accepted \o got.frames
          /\ answered' = answered \o Forwarded(got.frames)
          /\ downWire' = downWire \o Packed(Forwarded(got.frames))
    BY <1>4 DEF PublisherDataReceived
  <2>2. PICK got : got = Received(pubBuffer, First(pubWire, n))
    OBVIOUS
  <2>3. /\ pubWire' = Drop(pubWire, n) /\ pubBuffer' = got.buffer
        /\ accepted' = accepted \o got.frames /\ published' = published
    BY <1>4, <2>1, <2>2 DEF PublisherDataReceived
  <2>4. got.frames \in Seq(Frame)
    BY <2>2, <2>3, PubArrives
  <2>5. PICK fs \in Seq(Frame) : fs = Forwarded(got.frames)
    BY <2>4, ForwardedIs
  <2>6. Packed(fs) = Boxes(fs)
    BY BoxesTyped
  <2>7. answered' = answered \o fs /\ downWire' = downWire \o Boxes(fs)
    BY <2>1, <2>2, <2>5, <2>6
  <2>8. UNCHANGED <<page, shown>>
    BY <1>4 DEF PublisherDataReceived
  <2> QED
    BY <2>7, <2>8, DownSend
<1>5. CASE PageDataReceived
  <2>1. PICK f \in Frame : f = [kind |-> "CONNECTED", no |-> 0]
    BY DEF Frame, Kind
  <2>2. \/ UNCHANGED <<answered, downWire>>
        \/ answered' = Append(answered, f) /\ downWire' = downWire \o Pack(f)
    BY <1>5, <2>1 DEF PageDataReceived
  <2>3. UNCHANGED <<page, shown>>
    BY <1>5 DEF PageDataReceived
  <2>4. CASE UNCHANGED <<answered, downWire>>
    BY <1>1, <2>3, <2>4 DEF down
  <2>5. CASE answered' = Append(answered, f) /\ downWire' = downWire \o Pack(f)
    <3>1. <<f>> \in Seq(Frame)
      OBVIOUS
    <3>2. PICK fs \in Seq(Frame) : fs = <<f>>
      BY <3>1
    <3>3. answered \in Seq(Frame)
      BY DEF DownInv
    <3>4. Append(answered, f) = answered \o <<f>>
      BY <3>3, AppendIsConcat
    <3>5. Boxes(fs) = Pack(f)
      BY <3>2, BoxesOne
    <3>6. answered' = answered \o fs /\ downWire' = downWire \o Boxes(fs)
      BY <2>5, <3>2, <3>4, <3>5
    <3> QED
      BY <2>3, <3>6, DownSend
  <2> QED
    BY <2>2, <2>4, <2>5
<1>6. CASE TransportOnRead
  <2>1. PICK n \in 1 .. Len(downWire) :
          LET after == OnRead([raw |-> page.raw, buffer |-> page.buffer,
                               type |-> page.type, body |-> page.body,
                               frames |-> <<>>, extra |-> First(downWire, n)])
          IN
          /\ downWire' = Drop(downWire, n)
          /\ page' = [raw |-> after.raw, buffer |-> after.buffer,
                      type |-> after.type, body |-> after.body]
          /\ shown' = shown \o after.frames
    BY <1>6 DEF TransportOnRead
  <2>2. PICK s0, after :
          /\ s0 = [raw |-> page.raw, buffer |-> page.buffer, type |-> page.type,
                   body |-> page.body, frames |-> <<>>, extra |-> First(downWire, n)]
          /\ after = OnRead(s0)
    OBVIOUS
  <2>3. /\ downWire' = Drop(downWire, n)
        /\ page' = [raw |-> after.raw, buffer |-> after.buffer,
                    type |-> after.type, body |-> after.body]
        /\ shown' = shown \o after.frames /\ answered' = answered
    BY <1>6, <2>1, <2>2 DEF TransportOnRead
  <2>4. /\ DownInv' /\ after.frames \in Seq(Frame) /\ Len(shown') <= Len(answered)
        /\ First(answered, Len(shown')) = shown'
    BY <2>2, <2>3, DownArrives
  <2>5. [BrokerFrames!Next]_(BrokerFrames!vars)
    BY <2>3, <2>4, BrokerIsShown
  <2> QED
    BY <2>4, <2>5
<1>7. CASE UNCHANGED vars
  BY <1>1, <1>7 DEF vars
<1> QED
  BY <1>2, <1>3, <1>4, <1>5, <1>6, <1>7 DEF Next

\* What the page has handed over are the first ones of the frames that the broker
\* has answered, and it knows where it is in the next one: however the stream is cut.
THEOREM DownInvariance == Spec => []DownInv
<1>1. PubInv /\ DownInv /\ [Next]_vars => DownInv'
  BY DownNext
<1> QED
  BY DownInit, <1>1, PubInvariance, PTL DEF Spec

\* The connection between the broker and the page's parser is a reliable stream of
\* frames.
THEOREM BrokerFramesReliable == Spec => BrokerFramesShown
<1>1. Init => BrokerFrames!Init
  BY DEF Init, BrokerFrames!Init
<1>2. PubInv /\ DownInv /\ [Next]_vars => [BrokerFrames!Next]_(BrokerFrames!vars)
  BY DownNext
<1> QED
  BY <1>1, <1>2, PubInvariance, DownInvariance, PTL
  DEF Spec, BrokerFramesShown, BrokerFrames!Spec

-----------------------------------------------------------------------------
(* No frame waits *)

\* What is left of a frame has at least the tokens that it lacks.
LEMMA BehindAt ==
    ASSUME NEW f \in Frame, NEW k \in 0 .. 7, NEW t \in Seq(Frame), NEW x, Behind(f, k, t, x)
    PROVE  x \in Seq(Tok) /\ Len(x) >= 8 - k /\ x[1] = Token(f, Names[k + 1])
<1>1. PICK a \in Seq(Tok), c \in Seq(Tok) :
        Len(a) = k /\ JoinIs(a, c, Pack(f)) /\ JoinIs(c, Boxes(t), x)
  BY DEF Behind
<1>2. /\ Len(a) + Len(c) = 8 /\ Len(c) \in Nat
      /\ \A i \in 1 .. Len(c) : c[i] = Token(f, Names[Len(a) + i])
  BY <1>1, PartIs
<1>3. Len(c) = 8 - k /\ 1 \in 1 .. Len(c)
  BY <1>1, <1>2
<1>4. PICK y \in Seq(Tok) : y = Boxes(t)
  BY BoxesTyped
<1>5. x = c \o y
  BY <1>1, <1>4 DEF JoinIs
<1>6. /\ c \o y \in Seq(Tok) /\ Len(c \o y) = Len(c) + Len(y) /\ Len(y) \in Nat
      /\ 1 \in 1 .. Len(c) + Len(y)
  BY <1>3, ConcatProperties, LenProperties
<1>7. (c \o y)[1] = c[1]
  BY <1>3, <1>6, ConcatProperties
<1>8. c[1] = Token(f, Names[k + 1])
  BY <1>1, <1>2, <1>3
<1>9. Len(x) >= 8 - k
  BY <1>3, <1>5, <1>6
<1> QED
  BY <1>5, <1>6, <1>7, <1>8, <1>9

\* A stream of frames that is shorter than a frame is empty.
LEMMA BaresShort ==
    ASSUME NEW t \in Seq(Frame), Len(Bares(t)) <= 6
    PROVE  t = <<>>
<1> SUFFICES ASSUME t # <<>> PROVE FALSE
  OBVIOUS
<1>1. PICK f \in Frame, t2 \in Seq(Frame) : JoinIs(<<f>>, t2, t)
  BY FirstFrame
<1>2. <<f>> \in Seq(Frame)
  OBVIOUS
<1>3. Bares(<<f>> \o t2) = Bares(<<f>>) \o Bares(t2)
  BY <1>2, BaresConcat
<1>4. PICK p \in Seq(Tok), y \in Seq(Tok) : p = Bare(f) /\ Len(p) = 7 /\ y = Bares(t2)
  BY BareIs, BaresTyped
<1>5. Bares(t) = p \o y
  BY <1>1, <1>3, <1>4, BaresOne DEF JoinIs
<1>6. Len(p \o y) = Len(p) + Len(y) /\ Len(y) \in Nat
  BY ConcatProperties, LenProperties
<1> QED
  BY <1>4, <1>5, <1>6

LEMMA BoxesShort ==
    ASSUME NEW t \in Seq(Frame), Len(Boxes(t)) <= 1
    PROVE  t = <<>>
<1> SUFFICES ASSUME t # <<>> PROVE FALSE
  OBVIOUS
<1>1. PICK f \in Frame, t2 \in Seq(Frame) : JoinIs(<<f>>, t2, t)
  BY FirstFrame
<1>2. PICK x : x = Boxes(t)
  OBVIOUS
<1>3. Behind(f, 0, t2, x)
  BY <1>1, <1>2, BehindNone
<1>4. 0 \in 0 .. 7 /\ 8 - 0 = 8
  OBVIOUS
<1>5. Len(x) >= 8 - 0 /\ x \in Seq(Tok)
  BY <1>3, <1>4, BehindAt
<1>6. Len(x) \in Nat
  BY <1>5, LenProperties
<1> QED
  BY <1>2, <1>4, <1>5, <1>6

LEMMA UpEmptied ==
    ASSUME UpInv, upWire = <<>>
    PROVE  served = asked
<1>1. served \in Seq(Frame) /\ upBuffer \in Seq(Tok) /\ Len(upBuffer) <= 6
  BY DEF UpInv
<1>2. PICK todo \in Seq(Frame) : /\ JoinIs(served, todo, asked)
                                 /\ JoinIs(upBuffer, upWire, Bares(todo))
  BY DEF UpInv
<1>3. Bares(todo) = upBuffer
  BY <1>1, <1>2, ConcatEmptySeq DEF JoinIs
<1>4. todo = <<>>
  BY <1>1, <1>3, BaresShort
<1> QED
  BY <1>1, <1>2, <1>4, ConcatEmptySeq DEF JoinIs

LEMMA DownEmptied ==
    ASSUME DownInv, downWire = <<>>
    PROVE  shown = answered
<1>1. /\ shown \in Seq(Frame) /\ Rests(page)
      /\ page \in [raw : BOOLEAN, buffer : Seq(Tok), type : Seq(Tok), body : Seq(Tok)]
  BY DEF DownInv
<1>2. PICK todo \in Seq(Frame), x \in Seq(Tok) :
        /\ JoinIs(shown, todo, answered) /\ JoinIs(HeldBy(page), downWire, x)
        /\ Expects(page.raw, page.type, x, todo)
  BY DEF DownInv
<1>3. PICK h \in Seq(Tok) : h = HeldBy(page)
  BY <1>1 DEF HeldBy
<1>4. x = h
  <2>1. x = h \o <<>>
    BY <1>2, <1>3 DEF JoinIs
  <2> QED
    BY <2>1, ConcatEmptySeq
<1>5. Len(x) <= 1 /\ Len(x) \in Nat
  <2>1. Len(HeldBy(page)) <= 1
    BY <1>1 DEF Rests, HeldBy
  <2> QED
    BY <1>3, <1>4, <2>1, LenProperties
<1>6. /\ 2 \in 0 .. 7 /\ 4 \in 0 .. 7 /\ 5 \in 0 .. 7 /\ 7 \in 0 .. 7
      /\ 8 - 2 = 6 /\ 8 - 4 = 4 /\ 8 - 5 = 3 /\ 8 - 7 = 1 /\ 7 + 1 = 8
  OBVIOUS
<1>7. ASSUME NEW k \in {2, 4, 5}, AtPart(k, page.type, x, todo) PROVE FALSE
  <2>1. PICK f \in Frame, t \in Seq(Frame) : Behind(f, k, t, x)
    BY <1>7 DEF AtPart
  <2>2. k \in 0 .. 7 /\ 8 - k >= 3
    BY <1>7
  <2>3. Len(x) >= 8 - k
    BY <2>1, <2>2, BehindAt
  <2> QED
    BY <1>5, <2>2, <2>3
<1>8. ASSUME page.raw = FALSE, AtNewline(page.type, x, todo) PROVE FALSE
  <2>1. PICK f \in Frame : Behind(f, 7, todo, x)
    BY <1>8 DEF AtNewline
  <2>2. Len(x) >= 8 - 7 /\ x[1] = Token(f, Names[7 + 1])
    BY <1>6, <2>1, BehindAt
  <2>3. 1 \in 1 .. Len(x)
    BY <1>5, <1>6, <2>2
  <2>4. x[1].is = "newline"
    BY <1>6, <2>2, NamesAre, TokenName
  <2>5. Find(x, "newline") # 0
    BY <2>3, <2>4, FindZero
  <2>6. Find(HeldBy(page), "newline") = 0
    BY <1>1, <1>8 DEF Rests, HeldBy
  <2> QED
    BY <1>3, <1>4, <2>5, <2>6
<1>9. AtFrames(page.type, x, todo)
  BY <1>2, <1>7, <1>8 DEF Expects
<1>10. todo = <<>>
  <2>1. x = Boxes(todo)
    BY <1>9 DEF AtFrames
  <2> QED
    BY <1>5, <2>1, BoxesShort
<1> QED
  BY <1>1, <1>2, <1>10, ConcatEmptySeq DEF JoinIs

\* No frame of the page or of the broker waits at its receiver for the bytes of the
\* next one.
THEOREM NoneHeldBack == Spec => []NothingHeldBack
<1>1. UpInv /\ DownInv => NothingHeldBack
  BY UpEmptied, DownEmptied DEF NothingHeldBack
<1> QED
  BY <1>1, UpInvariance, DownInvariance, PTL

-----------------------------------------------------------------------------
(* The types *)

Linked == state \in {"initial", "connected"} /\ subscribed \in BOOLEAN

LEMMA LinkedNext == Linked /\ [Next]_vars => Linked'
<1> SUFFICES ASSUME Linked, [Next]_vars PROVE Linked'
  OBVIOUS
<1>1. ASSUME UNCHANGED <<state, subscribed>> PROVE Linked'
  BY <1>1 DEF Linked
<1>2. CASE OnOpen
  BY <1>1, <1>2 DEF OnOpen
<1>3. CASE Publish
  BY <1>1, <1>3 DEF Publish
<1>4. CASE PublisherDataReceived
  BY <1>1, <1>4 DEF PublisherDataReceived
<1>5. CASE PageDataReceived
  <2>1. state' \in {state, "connected"}
    BY <1>5 DEF PageDataReceived
  <2>2. subscribed' \in BOOLEAN
    BY <1>5 DEF PageDataReceived
  <2> QED
    BY <2>1, <2>2 DEF Linked
<1>6. CASE TransportOnRead
  BY <1>1, <1>6 DEF TransportOnRead
<1>7. CASE UNCHANGED vars
  BY <1>1, <1>7 DEF vars
<1> QED
  BY <1>2, <1>3, <1>4, <1>5, <1>6, <1>7 DEF Next

\* The streams, the buffers and the parsers have their types, and a page that waits
\* for a body has a type.
THEOREM TypeInvariance == Spec => []TypeOK
<1>1. Init => Linked
  BY DEF Init, Linked
<1>2. UpInv /\ PubInv /\ DownInv /\ Linked => TypeOK
  <2> SUFFICES ASSUME UpInv, PubInv, DownInv, Linked PROVE TypeOK
    OBVIOUS
  <2>1. /\ pubWire \in Seq(Tok) /\ pubBuffer \in Seq(Tok) /\ upWire \in Seq(Tok)
        /\ upBuffer \in Seq(Tok) /\ downWire \in Seq(Tok)
    BY DEF UpInv, PubInv, DownInv
  <2>2. /\ page \in [raw : BOOLEAN, buffer : Seq(Tok), type : Seq(Tok), body : Seq(Tok)]
        /\ Rests(page)
    BY DEF DownInv
  <2>3. \A s \in Seq(Tok) : \A i \in DOMAIN s : s[i].of \in Frame /\ s[i].is \in Name
    <3> SUFFICES ASSUME NEW s \in Seq(Tok), NEW i \in DOMAIN s
                 PROVE  s[i].of \in Frame /\ s[i].is \in Name
      OBVIOUS
    <3>1. s[i] \in Tok
      BY LenProperties, ElementOfSeq
    <3> QED
      BY <3>1 DEF Tok
  <2>4. page.raw => page.type # <<>>
    <3> SUFFICES ASSUME page.raw PROVE page.type # <<>>
      OBVIOUS
    <3>1. PICK todo \in Seq(Frame), x \in Seq(Tok) : Expects(page.raw, page.type, x, todo)
      BY DEF DownInv
    <3>2. AtPart(5, page.type, x, todo)
      BY <3>1 DEF Expects
    <3>3. PICK f \in Frame : page.type = <<Token(f, "command")>>
      BY <3>2 DEF AtPart
    <3> QED
      BY <3>3
  <2>5. ~page.raw => Find(page.buffer, "newline") = 0
    BY <2>2 DEF Rests
  <2>6. page.buffer \in Seq(Tok) /\ page.type \in Seq(Tok) /\ page.body \in Seq(Tok)
        /\ page.raw \in BOOLEAN
    BY <2>2
  <2>7. \A s \in {pubWire, pubBuffer, upWire, upBuffer, downWire, page.buffer,
                  page.type, page.body} :
          \A i \in DOMAIN s :
            s[i].of \in Frame /\ s[i].is \in {"command", "header", "body", "nul", "newline"}
    BY <2>1, <2>3, <2>6 DEF Name
  <2> QED
    BY <2>4, <2>5, <2>6, <2>7 DEF TypeOK, Linked
<1> QED
  BY <1>1, <1>2, LinkedNext, UpInvariance, PubInvariance, DownInvariance, PTL DEF Spec
=============================================================================
