-------------------------------- MODULE Lemmas --------------------------------
(***************************************************************************)
(* What several proofs need to know about sequences, used as call stacks,  *)
(* as documents under way and as paths, and about loops.                   *)
(***************************************************************************)
EXTENDS Integers, Sequences, SequenceTheorems, WellFoundedInduction, TLAPS

-----------------------------------------------------------------------------
(* Call stacks and documents under way.                                    *)

\* What the steps of a call do to the stack.
LEMMA StackType ==
  ASSUME NEW S, NEW s \in Seq(S), NEW e \in S
  PROVE  /\ <<>> \o s = s
         /\ <<e>> \o s \in Seq(S) /\ <<e>> \o s # <<>> /\ Head(<<e>> \o s) = e
         /\ Len(<<e>> \o s) = Len(s) + 1
         /\ \A i \in 2..(Len(s) + 1) : (<<e>> \o s)[i] = s[i - 1]
         /\ s # <<>> => /\ Head(s) \in S /\ Head(s) = s[1] /\ Tail(s) \in Seq(S)
                        /\ Len(Tail(s)) = Len(s) - 1
                        /\ \A i \in 1..(Len(s) - 1) : Tail(s)[i] = s[i + 1]
  OBVIOUS

\* A stack of one.
LEMMA OneFrame ==
  ASSUME NEW S, NEW e \in S
  PROVE  <<e>> \in Seq(S) /\ Len(<<e>>) = 1 /\ Head(<<e>>) = e
  OBVIOUS

\* Appending a document.
LEMMA AppendType ==
  ASSUME NEW S, NEW s \in Seq(S), NEW e \in S
  PROVE  /\ Append(s, e) \in Seq(S) /\ DOMAIN Append(s, e) = 1..(Len(s) + 1)
         /\ Append(s, e)[Len(s) + 1] = e /\ DOMAIN s = 1..Len(s)
         /\ \A i \in DOMAIN s : Append(s, e)[i] = s[i]
  OBVIOUS

\* Taking the first document.
LEMMA TailType ==
  ASSUME NEW S, NEW s \in Seq(S), s # <<>>
  PROVE  /\ Head(s) \in S /\ Head(s) = s[1] /\ 1 \in DOMAIN s /\ Tail(s) \in Seq(S)
         /\ \A i \in DOMAIN Tail(s) : i + 1 \in DOMAIN s /\ Tail(s)[i] = s[i + 1]
         /\ \A i \in DOMAIN s : i # 1 => i - 1 \in DOMAIN Tail(s) /\ Tail(s)[i - 1] = s[i]
  OBVIOUS

\* Two sequences, one behind the other.
LEMMA ConcatType ==
  ASSUME NEW S, NEW a \in Seq(S), NEW b \in Seq(S)
  PROVE  /\ a \o b \in Seq(S) /\ DOMAIN (a \o b) = 1..(Len(a) + Len(b))
         /\ \A i \in 1..(Len(a) + Len(b)) : (a \o b)[i] = IF i <= Len(a) THEN a[i] ELSE b[i - Len(a)]
  OBVIOUS

\* A part of a sequence.
LEMMA PartType ==
  ASSUME NEW S, NEW s \in Seq(S), NEW m \in 1..(Len(s) + 1), NEW n \in (m - 1)..Len(s)
  PROVE  /\ SubSeq(s, m, n) \in Seq(S) /\ Len(SubSeq(s, m, n)) = n - m + 1
         /\ \A i \in 1..(n - m + 1) : SubSeq(s, m, n)[i] = s[m + i - 1]
  OBVIOUS

\* Taking a document that is not the first.
Without(s, k) == SubSeq(s, 1, k - 1) \o SubSeq(s, k + 1, Len(s))

LEMMA RemovalType ==
  ASSUME NEW S, NEW s \in Seq(S), NEW k \in DOMAIN s
  PROVE  /\ Without(s, k) \in Seq(S)
         /\ \A i \in DOMAIN Without(s, k) : \E j \in DOMAIN s : Without(s, k)[i] = s[j]
<1> DEFINE r == Without(s, k)
<1> DEFINE a == SubSeq(s, 1, k - 1)
           b == SubSeq(s, k + 1, Len(s))
<1>1. k \in 1..Len(s) /\ Len(s) \in Nat /\ DOMAIN s = 1..Len(s)
  OBVIOUS
<1>2. a \in Seq(S) /\ Len(a) = k - 1 /\ \A i \in 1..(k - 1) : a[i] = s[i]
  BY <1>1, PartType
<1>3. b \in Seq(S) /\ Len(b) = Len(s) - k /\ \A i \in 1..(Len(s) - k) : b[i] = s[k + i]
  <2> DEFINE m == k + 1
             n == Len(s)
  <2>1. m \in 1..(Len(s) + 1) /\ n \in (m - 1)..Len(s) /\ n - m + 1 = Len(s) - k
        /\ \A i \in 1..(Len(s) - k) : m + i - 1 = k + i
    BY <1>1
  <2> HIDE DEF m, n
  <2>2. /\ SubSeq(s, m, n) \in Seq(S) /\ Len(SubSeq(s, m, n)) = n - m + 1
        /\ \A i \in 1..(n - m + 1) : SubSeq(s, m, n)[i] = s[m + i - 1]
    BY <2>1, PartType
  <2>3. b = SubSeq(s, m, n)
    BY DEF m, n
  <2> HIDE DEF b
  <2> QED
    BY <2>1, <2>2, <2>3
<1> HIDE DEF a, b, r
<1>4. r = a \o b
  BY DEF a, b, r, Without
<1>5. Len(a) = k - 1 /\ Len(b) = Len(s) - k
  BY <1>2, <1>3
<1>6. r \in Seq(S) /\ DOMAIN r = 1..(Len(a) + Len(b))
  <2>1. a \in Seq(S) /\ b \in Seq(S)
    BY <1>2, <1>3
  <2>2. a \o b \in Seq(S) /\ DOMAIN (a \o b) = 1..(Len(a) + Len(b))
    BY <2>1, ConcatType
  <2> QED
    BY <1>4, <2>2
<1>7. \A i \in 1..(Len(a) + Len(b)) : r[i] = IF i <= Len(a) THEN a[i] ELSE b[i - Len(a)]
  <2>1. a \in Seq(S) /\ b \in Seq(S)
    BY <1>2, <1>3
  <2>2. \A i \in 1..(Len(a) + Len(b)) : (a \o b)[i] = IF i <= Len(a) THEN a[i] ELSE b[i - Len(a)]
    BY <2>1, ConcatType
  <2> QED
    BY <1>4, <2>2, Zenon
<1>8. ASSUME NEW i \in DOMAIN r PROVE \E j \in DOMAIN s : r[i] = s[j]
  <2>1. i \in 1..(Len(a) + Len(b))
    BY <1>6
  <2>2. r[i] = IF i <= Len(a) THEN a[i] ELSE b[i - Len(a)]
    BY <1>7, <2>1
  <2>3. CASE i <= Len(a)
    <3>1. i \in 1..(k - 1) /\ i \in 1..Len(s)
      BY <1>1, <1>5, <2>1, <2>3
    <3>2. r[i] = s[i]
      BY <1>2, <2>2, <2>3, <3>1
    <3> QED
      BY <1>1, <3>1, <3>2
  <2>4. CASE ~(i <= Len(a))
    <3> DEFINE j == i - Len(a)
    <3>1. j \in 1..(Len(s) - k)
      <4>1. j >= 1 /\ j <= Len(b) /\ j \in Int
        BY <1>1, <1>5, <2>1, <2>4
      <4> QED
        BY <1>1, <1>5, <4>1
    <3> HIDE DEF j
    <3>2. k + j \in 1..Len(s)
      BY <1>1, <3>1
    <3>3. r[i] = b[j]
      BY <2>2, <2>4 DEF j
    <3>4. r[i] = s[k + j]
      BY <1>3, <3>1, <3>3
    <3> QED
      BY <1>1, <3>2, <3>4
  <2> QED
    BY <2>3, <2>4
<1> QED
  BY <1>6, <1>8 DEF r

-----------------------------------------------------------------------------
(* Names, one behind the other.                                            *)

\* A path with one name more.
LEMMA Longer ==
  ASSUME NEW S, NEW s \in Seq(S), NEW x \in S, NEW t \in Seq(S), Len(t) = Len(s) + 1,
         \A i \in 1..Len(s) : t[i] = s[i], t[Len(s) + 1] = x
  PROVE  s \o <<x>> = t
<1> DEFINE u == s \o <<x>>
<1>1. <<x>> \in Seq(S) /\ Len(<<x>>) = 1 /\ <<x>>[1] = x
  OBVIOUS
<1>2. u \in Seq(S) /\ Len(u) = Len(s) + Len(<<x>>)
  BY <1>1, ConcatProperties, Zenon
<1>3. \A i \in 1..(Len(s) + Len(<<x>>)) : u[i] = IF i <= Len(s) THEN s[i] ELSE <<x>>[i - Len(s)]
  BY <1>1, ConcatProperties, Zenon
<1> HIDE DEF u
<1>4. Len(s) \in Nat
  OBVIOUS
<1>5. \A i \in 1..Len(u) : u[i] = t[i]
  BY <1>1, <1>2, <1>3, <1>4
<1>6. Len(u) = Len(t)
  BY <1>1, <1>2
<1>7. u = t
  BY <1>2, <1>5, <1>6, SeqEqual, Zenon
<1> QED
  BY <1>7 DEF u

\* Paths written out.
LEMMA PathOf2 ==
  ASSUME NEW S, NEW a \in S, NEW b \in S
  PROVE  <<a>> \o <<b>> = <<a, b>>
<1> DEFINE s == <<a>>
           t == <<a, b>>
<1>1. /\ s \in Seq(S) /\ t \in Seq(S) /\ Len(s) = 1 /\ Len(t) = 2
      /\ s[1] = a
      /\ t[1] = a /\ t[2] = b
  OBVIOUS
<1> HIDE DEF s, t
<1>2. Len(t) = Len(s) + 1 /\ t[Len(s) + 1] = b /\ \A i \in 1..Len(s) : t[i] = s[i]
  BY <1>1
<1>3. s \o <<b>> = t
  BY <1>1, <1>2, Longer, Zenon
<1> QED
  BY <1>3 DEF s, t

LEMMA PathOf3 ==
  ASSUME NEW S, NEW a \in S, NEW b \in S, NEW c \in S
  PROVE  <<a, b>> \o <<c>> = <<a, b, c>>
<1> DEFINE s == <<a, b>>
           t == <<a, b, c>>
<1>1. /\ s \in Seq(S) /\ t \in Seq(S) /\ Len(s) = 2 /\ Len(t) = 3
      /\ s[1] = a /\ s[2] = b
      /\ t[1] = a /\ t[2] = b /\ t[3] = c
  OBVIOUS
<1> HIDE DEF s, t
<1>2. Len(t) = Len(s) + 1 /\ t[Len(s) + 1] = c /\ \A i \in 1..Len(s) : t[i] = s[i]
  BY <1>1
<1>3. s \o <<c>> = t
  BY <1>1, <1>2, Longer, Zenon
<1> QED
  BY <1>3 DEF s, t

LEMMA PathOf4 ==
  ASSUME NEW S, NEW a \in S, NEW b \in S, NEW c \in S, NEW d \in S
  PROVE  <<a, b, c>> \o <<d>> = <<a, b, c, d>>
<1> DEFINE s == <<a, b, c>>
           t == <<a, b, c, d>>
<1>1. /\ s \in Seq(S) /\ t \in Seq(S) /\ Len(s) = 3 /\ Len(t) = 4
      /\ s[1] = a /\ s[2] = b /\ s[3] = c
      /\ t[1] = a /\ t[2] = b /\ t[3] = c /\ t[4] = d
  OBVIOUS
<1> HIDE DEF s, t
<1>2. Len(t) = Len(s) + 1 /\ t[Len(s) + 1] = d /\ \A i \in 1..Len(s) : t[i] = s[i]
  BY <1>1
<1>3. s \o <<d>> = t
  BY <1>1, <1>2, Longer, Zenon
<1> QED
  BY <1>3 DEF s, t

LEMMA PathOf5 ==
  ASSUME NEW S, NEW a \in S, NEW b \in S, NEW c \in S, NEW d \in S, NEW e \in S
  PROVE  <<a, b, c, d>> \o <<e>> = <<a, b, c, d, e>>
<1> DEFINE s == <<a, b, c, d>>
           t == <<a, b, c, d, e>>
<1>1. /\ s \in Seq(S) /\ t \in Seq(S) /\ Len(s) = 4 /\ Len(t) = 5
      /\ s[1] = a /\ s[2] = b /\ s[3] = c /\ s[4] = d
      /\ t[1] = a /\ t[2] = b /\ t[3] = c /\ t[4] = d /\ t[5] = e
  OBVIOUS
<1> HIDE DEF s, t
<1>2. Len(t) = Len(s) + 1 /\ t[Len(s) + 1] = e /\ \A i \in 1..Len(s) : t[i] = s[i]
  BY <1>1
<1>3. s \o <<e>> = t
  BY <1>1, <1>2, Longer, Zenon
<1> QED
  BY <1>3 DEF s, t

\* A path with one name more, or two or three.
LEMMA OneMore ==
  ASSUME NEW S, NEW s \in Seq(S), NEW x \in S
  PROVE  /\ s \o <<x>> \in Seq(S) /\ Len(s \o <<x>>) = Len(s) + 1
         /\ \A k \in 1..Len(s) : SubSeq(s \o <<x>>, 1, k) = SubSeq(s, 1, k)
<1>1. <<x>> \in Seq(S) /\ Len(<<x>>) = 1 /\ 1 \in Nat
  OBVIOUS
<1>2. s \o <<x>> \in Seq(S) /\ Len(s \o <<x>>) = Len(s) + Len(<<x>>)
  BY <1>1, ConcatProperties, Zenon
<1>3. ASSUME NEW k \in 1..Len(s) PROVE SubSeq(s \o <<x>>, 1, k) = SubSeq(s, 1, k)
  <2>1. 1 \in 1..Len(s)
    OBVIOUS
  <2> QED
    BY <1>1, <2>1, SubSeqOfConcat1, Zenon
<1> QED
  BY <1>1, <1>2, <1>3

\* One after the other, or all at once.
SameAtOnce(s, x, y, z) == ((s \o <<x>>) \o <<y>>) \o <<z>> = s \o <<x, y, z>>

LEMMA ThreeMore ==
  ASSUME NEW S, NEW s \in Seq(S), NEW x \in S, NEW y \in S, NEW z \in S
  PROVE  SameAtOnce(s, x, y, z)
<1>1. <<x>> \in Seq(S) /\ <<y>> \in Seq(S) /\ <<z>> \in Seq(S) /\ <<x, y>> \in Seq(S)
  OBVIOUS
<1>2. (s \o <<x>>) \o <<y>> = s \o (<<x>> \o <<y>>)
  BY <1>1, ConcatAssociative
<1>3. (s \o <<x, y>>) \o <<z>> = s \o (<<x, y>> \o <<z>>)
  BY <1>1, ConcatAssociative
<1>4. <<x>> \o <<y>> = <<x, y>> /\ <<x, y>> \o <<z>> = <<x, y, z>>
  BY PathOf2, PathOf3
<1> QED
  BY <1>2, <1>3, <1>4, Zenon DEF SameAtOnce

\* Equal paths have equal parts.
LEMMA PartsEqual ==
  ASSUME NEW S, NEW s \in Seq(S), NEW t \in Seq(S), NEW u \in Seq(S), NEW v \in Seq(S),
         Len(s) = Len(t), s \o u = t \o v
  PROVE  s = t /\ u = v
<1>1. /\ s \o u \in Seq(S) /\ Len(s \o u) = Len(s) + Len(u)
      /\ \A i \in 1..(Len(s) + Len(u)) : (s \o u)[i] = IF i <= Len(s) THEN s[i] ELSE u[i - Len(s)]
  BY ConcatProperties
<1>2. /\ t \o v \in Seq(S) /\ Len(t \o v) = Len(t) + Len(v)
      /\ \A i \in 1..(Len(t) + Len(v)) : (t \o v)[i] = IF i <= Len(t) THEN t[i] ELSE v[i - Len(t)]
  BY ConcatProperties
<1>3. Len(s) \in Nat /\ Len(u) \in Nat /\ Len(v) \in Nat /\ Len(u) = Len(v)
  BY <1>1, <1>2
<1>4. \A i \in 1..Len(s) : s[i] = t[i]
  BY <1>1, <1>2, <1>3
<1>5. ASSUME NEW i \in 1..Len(u) PROVE u[i] = v[i]
  <2>1. LET k == i + Len(s)
        IN  k \in 1..(Len(s) + Len(u)) /\ ~(k <= Len(s)) /\ k - Len(s) = i
    BY <1>3
  <2> QED
    BY <1>1, <1>2, <1>3, <2>1
<1>6. s = t
  BY <1>4, SeqEqual
<1>7. u = v
  BY <1>3, <1>5, SeqEqual
<1> QED
  BY <1>6, <1>7

-----------------------------------------------------------------------------
(* Loops.                                                                  *)

\* The order of the passes of a loop.
Passes == {p \in Nat \X Nat : p[1] < p[2]}

\* It has no infinite descent.
LEMMA PassesWellFounded == IsWellFoundedOn(Passes, Nat)
<1>1. Passes = OpToRel(<, Nat)
  BY Zenon DEF Passes, OpToRel
<1> QED
  BY <1>1, NatLessThanWellFounded

\* Of some numbers one is the least.
LEMMA Least ==
  ASSUME NEW S, S \subseteq Nat, S # {}
  PROVE  \E x \in S : \A y \in S : x <= y
<1>1. PICK x \in S : \A y \in S : ~(<<y, x>> \in Passes)
  BY PassesWellFounded, WFMin
<1>2. ASSUME NEW y \in S PROVE x <= y
  <2>1. x \in Nat /\ y \in Nat
    BY <1>1
  <2>2. <<y, x>> \in Nat \X Nat /\ <<y, x>>[1] = y /\ <<y, x>>[2] = x
    BY <2>1
  <2>3. y < x => <<y, x>> \in Passes
    BY <2>1, <2>2 DEF Passes
  <2> QED
    BY <1>1, <2>1, <2>3
<1> QED
  BY <1>2

\* What holds before a loop and is kept by every pass holds after every pass.
LEMMA LoopKeeps ==
  ASSUME NEW n \in Nat, NEW f, NEW R, <<0, f[0]>> \in R,
         \A i \in 1..n : <<i - 1, f[i - 1]>> \in R => <<i, f[i]>> \in R
  PROVE  \A i \in 0..n : <<i, f[i]>> \in R
<1> DEFINE Bad == {i \in 0..n : <<i, f[i]>> \notin R}
<1>1. SUFFICES ASSUME Bad # {} PROVE FALSE
  OBVIOUS
<1>2. PICK m \in Bad : \A k \in Bad : m <= k
  <2>1. Bad \subseteq Nat
    OBVIOUS
  <2> HIDE DEF Bad
  <2> QED
    BY <1>1, <2>1, Least
<1>3. m \in 0..n /\ <<m, f[m]>> \notin R
  OBVIOUS
<1>4. m # 0
  BY <1>3
<1>5. m \in 1..n /\ m - 1 \in 0..n /\ m - 1 \notin Bad
  BY <1>2, <1>3, <1>4
<1> QED
  BY <1>3, <1>5

\* The values a loop goes through.
Loops(D, base, step, n) ==
  \E f \in [0..n -> D] : f[0] = base /\ \A i \in 1..n : f[i] = step[<<i, f[i - 1]>>]

LEMMA LoopExists ==
  ASSUME NEW D, NEW base \in D, NEW step \in [Nat \X D -> D], NEW n \in Nat
  PROVE  Loops(D, base, step, n)
<1> DEFINE Runs(f, m) == f \in [0..m -> D] /\ f[0] = base /\ \A i \in 1..m : f[i] = step[<<i, f[i - 1]>>]
           Bad == {m \in Nat : ~ \E f : Runs(f, m)}
<1>1. SUFFICES ASSUME Bad # {} PROVE FALSE
  BY DEF Runs, Loops
<1>2. PICK m \in Bad : \A k \in Bad : m <= k
  <2>1. Bad \subseteq Nat
    OBVIOUS
  <2> HIDE DEF Bad
  <2> QED
    BY <1>1, <2>1, Least
<1>3. m \in Nat /\ ~ \E f : Runs(f, m)
  OBVIOUS
<1> HIDE DEF Bad
<1>4. CASE m = 0
  <2> DEFINE g == [i \in 0..0 |-> base]
  <2>1. g \in [0..0 -> D] /\ g[0] = base /\ 1..0 = {}
    OBVIOUS
  <2>2. Runs(g, 0)
    BY <2>1
  <2> QED
    BY <1>3, <1>4, <2>2
<1>5. CASE m # 0
  <2>1. m - 1 \in Nat /\ m - 1 \notin Bad
    BY <1>2, <1>3, <1>5
  <2>2. PICK f : Runs(f, m - 1)
    BY <2>1 DEF Bad
  <2> DEFINE last == step[<<m, f[m - 1]>>]
             g == [i \in 0..m |-> IF i = m THEN last ELSE f[i]]
  <2>3. last \in D
    <3>1. m - 1 \in 0..(m - 1)
      BY <2>1
    <3>2. f[m - 1] \in D
      BY <2>2, <3>1
    <3>3. <<m, f[m - 1]>> \in Nat \X D
      BY <1>3, <3>2
    <3> QED
      BY <3>3
  <2>4. \A i \in 0..(m - 1) : g[i] = f[i] /\ g[i] \in D
    BY <1>3, <2>1, <2>2
  <2>5. g[m] = last /\ DOMAIN g = 0..m
    BY <1>3
  <2> HIDE DEF g, last
  <2>6. g \in [0..m -> D]
    <3>1. \A i \in 0..m : g[i] \in D
      BY <1>3, <2>3, <2>4, <2>5
    <3>2. g = [i \in 0..m |-> g[i]]
      BY <2>5 DEF g
    <3> QED
      BY <3>1, <3>2
  <2>7. g[0] = base
    BY <1>5, <2>1, <2>2, <2>4
  <2>8. ASSUME NEW i \in 1..m PROVE g[i] = step[<<i, g[i - 1]>>]
    <3>1. i - 1 \in 0..(m - 1) /\ g[i - 1] = f[i - 1]
      BY <1>3, <2>1, <2>4, <2>8
    <3>2. CASE i = m
      BY <2>5, <3>1, <3>2 DEF last
    <3>3. CASE i # m
      <4>1. i \in 1..(m - 1) /\ i \in 0..(m - 1)
        BY <1>3, <3>3
      <4> QED
        BY <2>2, <2>4, <3>1, <4>1
    <3> QED
      BY <3>2, <3>3
  <2>9. Runs(g, m)
    BY <2>6, <2>7, <2>8
  <2> QED
    BY <1>3, <2>9
<1> QED
  BY <1>4, <1>5

\* The greatest of some numbers.
LEMMA Greatest ==
  ASSUME NEW n \in Nat, NEW S, S \subseteq 1..n, S # {}
  PROVE  \E x \in S : \A y \in S : y <= x
<1> DEFINE B == {k \in Nat : \A y \in S : y <= k}
<1>1. n \in B
  OBVIOUS
<1>2. PICK m \in B : \A k \in B : m <= k
  <2>1. B \subseteq Nat /\ B # {}
    BY <1>1
  <2> HIDE DEF B
  <2> QED
    BY <2>1, Least
<1>3. m \in Nat /\ \A y \in S : y <= m
  OBVIOUS
<1>4. m \in S
  <2> SUFFICES ASSUME m \notin S PROVE FALSE
    OBVIOUS
  <2>1. \A y \in S : y \in Nat /\ y >= 1 /\ y <= m /\ y # m
    BY <1>3
  <2>2. m >= 1 /\ m - 1 \in Nat
    <3>1. PICK y : y \in S
      OBVIOUS
    <3>2. y \in Nat /\ y >= 1 /\ y <= m
      BY <2>1, <3>1
    <3> QED
      BY <1>3, <3>2
  <2>3. \A y \in S : y <= m - 1
    BY <1>3, <2>1
  <2>4. m - 1 \in B
    BY <2>2, <2>3
  <2>5. m <= m - 1
    BY <1>2, <2>4
  <2> QED
    BY <1>3, <2>5
<1> QED
  BY <1>3, <1>4

\* A loop whose passes keep to R.
Keeps(D, R, step, n) ==
  \A i \in 1..n, x \in D :
    <<i - 1, x>> \in R => step[<<i, x>>] \in D /\ <<i, step[<<i, x>>]>> \in R

\* A loop goes through its values, where the passes keep to R.
LEMMA LoopReaches ==
  ASSUME NEW D, NEW n \in Nat, NEW base \in D, NEW R, <<0, base>> \in R, NEW step, Keeps(D, R, step, n)
  PROVE  Loops(D, base, step, n)
<1> DEFINE kept == [x \in Nat \X D |-> IF step[x] \in D THEN step[x] ELSE base]
<1>1. kept \in [Nat \X D -> D]
  OBVIOUS
<1>2. \A i \in Nat, x \in D : step[<<i, x>>] \in D => kept[<<i, x>>] = step[<<i, x>>]
  OBVIOUS
<1> HIDE DEF kept
<1>3. PICK f \in [0..n -> D] : f[0] = base /\ \A i \in 1..n : f[i] = kept[<<i, f[i - 1]>>]
  <2>1. Loops(D, base, kept, n)
    BY <1>1, LoopExists
  <2> QED
    BY <2>1 DEF Loops
<1>4. \A i \in 1..n : i \in Nat /\ i - 1 \in 0..n /\ f[i - 1] \in D
  BY <1>3
<1>5. \A i \in 1..n : <<i - 1, f[i - 1]>> \in R => f[i] = step[<<i, f[i - 1]>>] /\ <<i, f[i]>> \in R
  <2> SUFFICES ASSUME NEW i \in 1..n, <<i - 1, f[i - 1]>> \in R
               PROVE  f[i] = step[<<i, f[i - 1]>>] /\ <<i, f[i]>> \in R
    OBVIOUS
  <2> PICK x : x = f[i - 1]
    OBVIOUS
  <2>1. x \in D /\ i \in Nat /\ <<i - 1, x>> \in R
    BY <1>4
  <2>2. step[<<i, x>>] \in D /\ <<i, step[<<i, x>>]>> \in R
    BY <2>1 DEF Keeps
  <2>3. f[i] = kept[<<i, x>>]
    BY <1>3
  <2>4. f[i] = step[<<i, x>>]
    BY <1>2, <2>1, <2>2, <2>3
  <2> QED
    BY <2>2, <2>4
<1>6. \A i \in 0..n : <<i, f[i]>> \in R
  <2>1. <<0, f[0]>> \in R
    BY <1>3
  <2> QED
    BY <1>5, <2>1, LoopKeeps
<1>7. \A i \in 1..n : f[i] = step[<<i, f[i - 1]>>]
  BY <1>4, <1>5, <1>6
<1> QED
  BY <1>3, <1>7 DEF Loops
===============================================================================
