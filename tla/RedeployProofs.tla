--------------------------- MODULE RedeployProofs ---------------------------
(***************************************************************************)
(* What an up leaves in the namespace, for every file, however it has been *)
(* edited and whichever ups failed before.                                 *)
(*                                                                         *)
(* The compiler builds lists.  The first two parts say what is in them, as *)
(* sets: of sequences in general (FlattenSeq is recursive, and what it     *)
(* returns is shown by the least index at which it would fail), and of     *)
(* Compile's, one lemma for each of its functions.  The invariant then is  *)
(* about sets: after an up that got through the namespace Holds what the   *)
(* app compiles to; and it is finite (Small), since the backup commands count*)
(* claims.  Nothing is assumed of names but where a theorem says so.       *)
(***************************************************************************)
EXTENDS Redeploy, SequenceTheorems, FiniteSetTheorems, TLAPS

-----------------------------------------------------------------------------
(***************************************************************************)
(* Sequences, whatever is in them.                                         *)
(***************************************************************************)

List(s) == s \in Seq(Range(s))

LEMMA RangeRead ==
  ASSUME NEW s, NEW x
  PROVE  x \in Range(s) <=> \E i \in DOMAIN s : s[i] = x
  BY DEF Range

LEMMA ListRead ==
  ASSUME NEW S, NEW s \in Seq(S)
  PROVE  List(s) /\ Range(s) \subseteq S /\ DOMAIN s = 1..Len(s) /\ Len(s) \in Nat
  <1>1. DOMAIN s = 1..Len(s) /\ Len(s) \in Nat /\ \A i \in 1..Len(s) : s[i] \in S
    OBVIOUS
  <1>2. Range(s) \subseteq S
    BY <1>1 DEF Range
  <1>3. \A i \in 1..Len(s) : s[i] \in Range(s)
    BY <1>1 DEF Range
  <1>4. s = [i \in 1..Len(s) |-> s[i]]
    BY <1>1
  <1>5. s \in Seq(Range(s))
    BY <1>1, <1>3, <1>4, IsASeq
  <1>6. QED
    BY <1>1, <1>2, <1>5 DEF List

LEMMA ListShape ==
  ASSUME NEW s, List(s)
  PROVE  DOMAIN s = 1..Len(s) /\ Len(s) \in Nat
  BY DEF List

LEMMA Nil == List(<<>>) /\ Range(<<>>) = {}
  <1>1. <<>> \in Seq(Range(<<>>))
    OBVIOUS
  <1>2. DOMAIN <<>> = {}
    OBVIOUS
  <1>3. QED
    BY <1>1, <1>2 DEF List, Range

LEMMA One == ASSUME NEW x PROVE List(<<x>>) /\ Range(<<x>>) = {x}
  <1>1. <<x>> \in Seq({x}) /\ <<x>>[1] = x /\ 1 \in DOMAIN <<x>>
    OBVIOUS
  <1>2. QED
    BY <1>1, ListRead, RangeRead

LEMMA Concat ==
  ASSUME NEW s, NEW t, List(s), List(t)
  PROVE  List(s \o t) /\ Range(s \o t) = Range(s) \cup Range(t)
  <1> DEFINE S == Range(s) \cup Range(t)
  <1>1. s \in Seq(S) /\ t \in Seq(S)
    BY SeqMonotonic DEF List
  <1> HIDE DEF S
  <1>2. s \o t \in Seq(S) /\ Len(s \o t) = Len(s) + Len(t)
    BY <1>1
  <1>3. \A i \in 1..(Len(s) + Len(t)) : (s \o t)[i] = IF i <= Len(s) THEN s[i] ELSE t[i - Len(s)]
    BY <1>1
  <1>4. List(s \o t) /\ Range(s \o t) \subseteq S /\ DOMAIN (s \o t) = 1..(Len(s) + Len(t))
    BY <1>2, ListRead
  <1>5. /\ Len(s) \in Nat /\ Len(t) \in Nat
        /\ DOMAIN s = 1..Len(s) /\ DOMAIN t = 1..Len(t)
    BY ListShape
  <1>6. \A x \in Range(s) : x \in Range(s \o t)
    <2>1. TAKE x \in Range(s)
    <2>2. PICK i \in 1..Len(s) : s[i] = x
      BY <1>5, RangeRead
    <2>3. i \in 1..(Len(s) + Len(t)) /\ (s \o t)[i] = x
      BY <1>3, <1>5, <2>2
    <2>4. QED
      BY <1>4, <2>3, RangeRead
  <1>7. \A x \in Range(t) : x \in Range(s \o t)
    <2>1. TAKE x \in Range(t)
    <2>2. PICK i \in 1..Len(t) : t[i] = x
      BY <1>5, RangeRead
    <2>3. Len(s) + i \in 1..(Len(s) + Len(t)) /\ (s \o t)[Len(s) + i] = x
      BY <1>3, <1>5, <2>2
    <2>4. QED
      BY <1>4, <2>3, RangeRead
  <1>8. QED
    BY <1>4, <1>6, <1>7 DEF S

LEMMA Listed ==
  ASSUME NEW n \in Nat, NEW f, f = [i \in 1..n |-> f[i]]
  PROVE  List(f) /\ Len(f) = n /\ DOMAIN f = 1..n
  <1>1. DOMAIN f = 1..n
    OBVIOUS
  <1>2. \A i \in 1..n : f[i] \in Range(f)
    BY <1>1, RangeRead
  <1>3. f \in Seq(Range(f)) /\ Len(f) = n
    BY <1>1, <1>2, IsASeq
  <1>4. QED
    BY <1>1, <1>3 DEF List
\* The least n that is in no set of naturals that goes on.
LEMMA Climb ==
  ASSUME NEW n \in Nat, NEW T, 0 \in T, \A k \in 0..(n - 1) : k \in T => k + 1 \in T
  PROVE  0..n \subseteq T
  <1> DEFINE R == {p \in Nat \X Nat : p[1] < p[2]}
             U == (0..n) \ T
  <1>1. SUFFICES ASSUME U # {} PROVE FALSE
    OBVIOUS
  <1>2. IsWellFoundedOn(R, Nat)
    BY NatLessThanWellFounded DEF OpToRel
  <1>3. U \subseteq Nat
    OBVIOUS
  <1>4. PICK x \in U : \A y \in U : <<y, x>> \notin R
    <2> HIDE DEF R, U
    <2>1. QED
      BY <1>1, <1>2, <1>3, WFMin
  <1>5. x \in 0..n /\ x \notin T /\ x # 0
    BY <1>4
  <1>6. x - 1 \in 0..(n - 1) /\ x - 1 + 1 = x
    BY <1>5
  <1>7. x - 1 \notin T
    BY <1>5, <1>6
  <1>8. x - 1 \in U /\ <<x - 1, x>> \in R
    BY <1>5, <1>6, <1>7
  <1>9. QED
    BY <1>4, <1>8

LEMMA Greatest ==
  ASSUME NEW n \in Nat, NEW S, S \subseteq 0..n, S # {}
  PROVE  Max(S) \in S /\ \A y \in S : Max(S) >= y
  <1> DEFINE T == {k \in Nat : (\E x \in S : x <= k) => \E x \in S : x <= k /\ \A y \in S : y <= k => x >= y}
  <1>1. 0 \in T
    OBVIOUS
  <1>2. ASSUME NEW k \in 0..(n - 1), k \in T PROVE k + 1 \in T
    <2>1. SUFFICES ASSUME \E x \in S : x <= k + 1
                   PROVE  \E x \in S : x <= k + 1 /\ \A y \in S : y <= k + 1 => x >= y
      OBVIOUS
    <2>2. CASE k + 1 \in S
      BY <2>2
    <2>3. CASE k + 1 \notin S
      <3>1. \A x \in S : x <= k + 1 <=> x <= k
        BY <2>3
      <3>2. QED
        BY <1>2, <2>1, <3>1
    <2>4. QED
      BY <2>2, <2>3
  <1>3. n \in T
    <2> HIDE DEF T
    <2>1. QED
      BY <1>1, <1>2, Climb
  <1>4. \A x \in S : x <= n
    OBVIOUS
  <1>5. PICK x \in S : \A y \in S : x >= y
    BY <1>3, <1>4
  <1>6. QED
    BY <1>5 DEF Max

LEMMA Least ==
  ASSUME NEW S, S \subseteq Nat, S # {}
  PROVE  Min(S) \in S /\ \A y \in S : Min(S) =< y
  <1> DEFINE R == {p \in Nat \X Nat : p[1] < p[2]}
  <1>1. IsWellFoundedOn(R, Nat)
    BY NatLessThanWellFounded DEF OpToRel
  <1>2. PICK x \in S : \A y \in S : <<y, x>> \notin R
    <2> HIDE DEF R
    <2>1. QED
      BY <1>1, WFMin
  <1>3. ASSUME NEW y \in S PROVE x =< y
    <2>1. x \in Nat /\ y \in Nat
      BY <1>2
    <2>2. ~(y < x)
      BY <1>2, <2>1
    <2>3. QED
      BY <2>1, <2>2
  <1>4. QED
    BY <1>3 DEF Min


\* Lists put one behind the other, k of them: f[i] are the first i.
Stages(ss, k, f) ==
  /\ f = [i \in 1..k |-> IF i = 1 THEN ss[i] ELSE f[i-1] \o ss[i]]
  /\ \A i \in 1..k : /\ List(f[i])
                     /\ \A x : x \in Range(f[i]) <=> \E j \in 1..i : x \in Range(ss[j])

LEMMA Staged ==
  ASSUME NEW ss, List(ss), \A i \in DOMAIN ss : List(ss[i])
  PROVE  /\ Len(ss) = 0 => FlattenSeq(ss) = <<>>
         /\ Len(ss) # 0 => \E f : Stages(ss, Len(ss), f) /\ FlattenSeq(ss) = f[Len(ss)]
  <1> DEFINE n == Len(ss)
             Part(k, f) == Stages(ss, k, f)
             T == {k \in 0..n : \E f : Part(k, f)}
  <1>1. n \in Nat /\ DOMAIN ss = 1..n
    BY ListShape
  <1>2. 0 \in T
    <2>1. Part(0, [i \in 1..0 |-> ss[i]])
      BY DEF Stages
    <2>2. \E f : Part(0, f)
      <3> HIDE DEF Part
      <3>1. QED
        BY <2>1
    <2> HIDE DEF Part
    <2>3. QED
      BY <1>1, <2>2
  <1>3. ASSUME NEW k \in 0..(n - 1), k \in T PROVE k + 1 \in T
    <2>1. PICK f : Part(k, f)
      BY <1>3
    <2> DEFINE new == IF k = 0 THEN ss[1] ELSE f[k] \o ss[k + 1]
               g == [i \in 1..(k + 1) |-> IF i = k + 1 THEN new ELSE f[i]]
    <2>2. List(ss[k + 1]) /\ k + 1 \in 1..n
      BY <1>1
    <2>3. /\ List(new)
          /\ \A x : x \in Range(new) <=> \E j \in 1..(k + 1) : x \in Range(ss[j])
      <3>1. CASE k = 0
        BY <2>2, <3>1
      <3>2. CASE k # 0
        <4>1. k \in 1..k
          BY <1>1, <3>2
        <4>2. new = f[k] \o ss[k + 1]
          BY <3>2
        <4>3. List(f[k]) /\ \A x : x \in Range(f[k]) <=> \E j \in 1..k : x \in Range(ss[j])
          BY <2>1, <4>1 DEF Stages
        <4>4. List(new) /\ Range(new) = Range(f[k]) \cup Range(ss[k + 1])
          <5> HIDE DEF new
          <5>1. QED
            BY <2>2, <4>2, <4>3, Concat
        <4> HIDE DEF new, g, Part, T
        <4>5. \A x : x \in Range(new) <=> x \in Range(f[k]) \/ x \in Range(ss[k + 1])
          BY <4>4
        <4>6. \A j : j \in 1..(k + 1) <=> j \in 1..k \/ j = k + 1
          BY <3>2
        <4>7. QED
          BY <4>3, <4>4, <4>5, <4>6
      <3>3. QED
        BY <3>1, <3>2
    <2>4. \A i \in 1..k : i \in 1..(k + 1) /\ g[i] = f[i] /\ i # k + 1
      BY <1>1
    <2>5. k + 1 \in 1..(k + 1) /\ g[k + 1] = new /\ DOMAIN g = 1..(k + 1)
      BY <1>1
    <2>6. g = [i \in 1..(k + 1) |-> IF i = 1 THEN ss[i] ELSE g[i-1] \o ss[i]]
      <3>1. ASSUME NEW i \in 1..(k + 1) PROVE g[i] = IF i = 1 THEN ss[i] ELSE g[i-1] \o ss[i]
        <4>1. CASE i = k + 1
          <5>1. CASE k = 0
            BY <2>5, <4>1, <5>1
          <5>2. CASE k # 0
            <6>1. k \in 1..k /\ i - 1 = k /\ i # 1
              BY <4>1, <5>2
            <6>2. g[k] = f[k] /\ new = f[k] \o ss[k + 1]
              BY <2>4, <5>2, <6>1
            <6>3. QED
              BY <2>5, <4>1, <6>1, <6>2
          <5>3. QED
            BY <5>1, <5>2
        <4>2. CASE i # k + 1
          <5>1. i \in 1..k /\ (i # 1 => i - 1 \in 1..k)
            BY <4>2
          <5>2. f[i] = IF i = 1 THEN ss[i] ELSE f[i-1] \o ss[i]
            BY <2>1, <5>1 DEF Stages
          <5>3. g[i] = f[i] /\ (i # 1 => g[i - 1] = f[i - 1])
            BY <2>4, <5>1
          <5>4. QED
            BY <5>2, <5>3
        <4>3. QED
          BY <4>1, <4>2
      <3> HIDE DEF new
      <3>2. QED
        BY <3>1
    <2>7. Part(k + 1, g)
      <3> HIDE DEF g, new
      <3>1. ASSUME NEW i \in 1..(k + 1)
            PROVE  List(g[i]) /\ \A x : x \in Range(g[i]) <=> \E j \in 1..i : x \in Range(ss[j])
        <4>1. CASE i = k + 1
          BY <2>3, <2>5, <4>1
        <4>2. CASE i # k + 1
          <5>1. i \in 1..k
            BY <4>2
          <5>2. QED
            BY <2>1, <2>4, <5>1 DEF Stages
        <4>3. QED
          BY <4>1, <4>2
      <3>2. QED
        BY <2>6, <3>1 DEF Stages
    <2>8. k + 1 \in 0..n
      BY <1>1
    <2> HIDE DEF Part, g
    <2>9. QED
      BY <2>7, <2>8
  <1>4. n \in T
    <2> HIDE DEF T
    <2>1. 0..n \subseteq T
      BY <1>1, <1>2, <1>3, Climb
    <2>2. QED
      BY <1>1, <2>1
  <1>5. CASE n = 0
    BY <1>1, <1>5 DEF FlattenSeq
  <1>6. CASE n # 0
    <2>1. PICK f : Part(n, f)
      BY <1>4
    <2>2. \E g : /\ g = [i \in 1..n |-> IF i = 1 THEN ss[i] ELSE g[i-1] \o ss[i]]
                 /\ FlattenSeq(ss) = g[n]
      BY <1>6, <2>1 DEF FlattenSeq, Stages
    <2>3. PICK g : /\ g = [i \in 1..n |-> IF i = 1 THEN ss[i] ELSE g[i-1] \o ss[i]]
                   /\ FlattenSeq(ss) = g[n]
      BY <2>2
    <2>4. g[n] = f[n]
      <3> DEFINE U == {k \in 0..n : k = 0 \/ g[k] = f[k]}
      <3>1. ASSUME NEW k \in 0..(n - 1), k \in U PROVE k + 1 \in U
        <4>1. k + 1 \in 1..n /\ k + 1 \in 0..n /\ (k + 1) - 1 = k
          BY <1>1
        <4>2. g[k + 1] = IF k + 1 = 1 THEN ss[k + 1] ELSE g[k] \o ss[k + 1]
          BY <2>3, <4>1
        <4>3. f[k + 1] = IF k + 1 = 1 THEN ss[k + 1] ELSE f[k] \o ss[k + 1]
          BY <2>1, <4>1 DEF Stages
        <4>4. QED
          BY <3>1, <4>1, <4>2, <4>3
      <3>2. 0 \in U
        BY <1>1
      <3>3. n \in U
        <4> HIDE DEF U
        <4>1. 0..n \subseteq U
          BY <1>1, <3>1, <3>2, Climb
        <4>2. QED
          BY <1>1, <4>1
      <3>4. QED
        BY <1>6, <3>3
    <2>5. QED
      BY <1>6, <2>1, <2>3, <2>4
  <1>7. QED
    BY <1>5, <1>6

LEMMA Flatten ==
  ASSUME NEW ss, List(ss), \A i \in DOMAIN ss : List(ss[i])
  PROVE  /\ List(FlattenSeq(ss))
         /\ \A x : x \in Range(FlattenSeq(ss)) <=> \E i \in DOMAIN ss : x \in Range(ss[i])
  <1> DEFINE n == Len(ss)
  <1>1. n \in Nat /\ DOMAIN ss = 1..n
    BY ListShape
  <1>2. CASE n = 0
    <2>1. FlattenSeq(ss) = <<>> /\ DOMAIN ss = {}
      BY <1>1, <1>2, Staged
    <2>2. QED
      BY <2>1, Nil
  <1>3. CASE n # 0
    <2>1. PICK f : Stages(ss, n, f) /\ FlattenSeq(ss) = f[n]
      BY <1>3, Staged
    <2>2. n \in 1..n
      BY <1>1, <1>3
    <2>3. QED
      BY <1>1, <2>1, <2>2 DEF Stages
  <1>4. QED
    BY <1>2, <1>3

\* No two places of a list have the same id; then neither have two of lists put one
\* behind the other, if no two of the lists share one.
Distinct(objs) == \A i, j \in DOMAIN objs : objs[i].id = objs[j].id => i = j
Disjoint(s, t) == \A o \in Range(s), p \in Range(t) : o.id # p.id

LEMMA NilDistinct == Distinct(<<>>)
  BY DEF Distinct

LEMMA OneDistinct == ASSUME NEW x PROVE Distinct(<<x>>)
  BY DEF Distinct

LEMMA ConcatDistinct ==
  ASSUME NEW s, NEW t, List(s), List(t), Distinct(s), Distinct(t), Disjoint(s, t)
  PROVE  Distinct(s \o t)
  <1> DEFINE S == Range(s) \cup Range(t)
  <1>1. s \in Seq(S) /\ t \in Seq(S)
    BY SeqMonotonic DEF List
  <1> HIDE DEF S
  <1>2. /\ s \o t \in Seq(S) /\ Len(s \o t) = Len(s) + Len(t)
        /\ DOMAIN (s \o t) = 1..(Len(s) + Len(t)) /\ Len(s) \in Nat /\ Len(t) \in Nat
        /\ DOMAIN s = 1..Len(s) /\ DOMAIN t = 1..Len(t)
    BY <1>1
  <1>3. \A i \in 1..(Len(s) + Len(t)) : (s \o t)[i] = IF i <= Len(s) THEN s[i] ELSE t[i - Len(s)]
    BY <1>1
  <1>4. \A i \in DOMAIN s, j \in DOMAIN t : s[i].id # t[j].id
    BY RangeRead DEF Disjoint
  <1>5. SUFFICES ASSUME NEW i \in DOMAIN (s \o t), NEW j \in DOMAIN (s \o t), (s \o t)[i].id = (s \o t)[j].id
                 PROVE  i = j
    BY DEF Distinct
  <1>6. CASE i <= Len(s) /\ j <= Len(s)
    <2>1. i \in DOMAIN s /\ j \in DOMAIN s /\ s[i].id = s[j].id
      BY <1>2, <1>3, <1>5, <1>6
    <2>2. QED
      BY <2>1 DEF Distinct
  <1>7. CASE i > Len(s) /\ j > Len(s)
    <2>1. i - Len(s) \in DOMAIN t /\ j - Len(s) \in DOMAIN t /\ t[i - Len(s)].id = t[j - Len(s)].id
      BY <1>2, <1>3, <1>5, <1>7
    <2>2. i - Len(s) = j - Len(s)
      BY <2>1 DEF Distinct
    <2>3. QED
      BY <1>2, <2>2
  <1>8. CASE i <= Len(s) /\ j > Len(s)
    <2>1. i \in DOMAIN s /\ j - Len(s) \in DOMAIN t /\ s[i].id = t[j - Len(s)].id
      BY <1>2, <1>3, <1>5, <1>8
    <2>2. QED
      BY <1>4, <2>1
  <1>9. CASE i > Len(s) /\ j <= Len(s)
    <2>1. i - Len(s) \in DOMAIN t /\ j \in DOMAIN s /\ t[i - Len(s)].id = s[j].id
      BY <1>2, <1>3, <1>5, <1>9
    <2>2. QED
      BY <1>4, <2>1
  <1>10. QED
    BY <1>2, <1>5, <1>6, <1>7, <1>8, <1>9

LEMMA FlattenDistinct ==
  ASSUME NEW ss, List(ss), \A i \in DOMAIN ss : List(ss[i]) /\ Distinct(ss[i]),
         \A i, j \in DOMAIN ss : i # j => Disjoint(ss[i], ss[j])
  PROVE  Distinct(FlattenSeq(ss))
  <1> DEFINE n == Len(ss)
  <1>1. n \in Nat /\ DOMAIN ss = 1..n
    BY ListShape
  <1>2. CASE n = 0
    BY <1>2, Staged, NilDistinct
  <1>3. CASE n # 0
    <2>1. PICK f : Stages(ss, n, f) /\ FlattenSeq(ss) = f[n]
      BY <1>3, Staged
    <2> DEFINE T == {k \in 0..n : k = 0 \/ Distinct(f[k])}
    <2>2. ASSUME NEW k \in 0..(n - 1), k \in T PROVE k + 1 \in T
      <3>1. k + 1 \in 1..n /\ k + 1 \in 0..n /\ (k + 1) - 1 = k
        BY <1>1
      <3>2. f[k + 1] = IF k + 1 = 1 THEN ss[k + 1] ELSE f[k] \o ss[k + 1]
        BY <2>1, <3>1 DEF Stages
      <3>3. List(ss[k + 1]) /\ Distinct(ss[k + 1])
        BY <1>1, <3>1
      <3>4. CASE k = 0
        BY <3>1, <3>2, <3>3, <3>4
      <3>5. CASE k # 0
        <4>1. k \in 1..n /\ Distinct(f[k]) /\ k + 1 # 1
          BY <1>1, <2>2, <3>5
        <4>9. f[k + 1] = f[k] \o ss[k + 1]
          BY <3>2, <4>1
        <4>2. List(f[k]) /\ \A x : x \in Range(f[k]) <=> \E j \in 1..k : x \in Range(ss[j])
          BY <2>1, <4>1 DEF Stages
        <4>3. \A j \in 1..k : j \in DOMAIN ss /\ k + 1 \in DOMAIN ss /\ j # k + 1
          BY <1>1, <3>1
        <4>4. Disjoint(f[k], ss[k + 1])
          BY <4>2, <4>3 DEF Disjoint
        <4>5. Distinct(f[k + 1])
          BY <3>3, <4>1, <4>9, <4>2, <4>4, ConcatDistinct
        <4>6. QED
          BY <3>1, <4>5
      <3>6. QED
        BY <3>4, <3>5
    <2>3. 0 \in T
      BY <1>1
    <2>4. n \in T
      <3> HIDE DEF T
      <3>1. 0..n \subseteq T
        BY <1>1, <2>2, <2>3, Climb
      <3>2. QED
        BY <1>1, <3>1
    <2>5. QED
      BY <1>3, <2>1, <2>4
  <1>4. QED
    BY <1>2, <1>3

-----------------------------------------------------------------------------
(***************************************************************************)
(* What Compile makes, as a set.                                           *)
(***************************************************************************)

Kinds == PrunableGVRs \cup {"persistentvolumeclaims"}

LEMMA Sorted ==
  /\ List(ServiceNames) /\ DOMAIN ServiceNames = 1..Len(ServiceNames) /\ Len(ServiceNames) \in Nat
  /\ List(VolumeNames) /\ DOMAIN VolumeNames = 1..Len(VolumeNames) /\ Len(VolumeNames) \in Nat
  /\ \A i \in DOMAIN ServiceNames : ServiceNames[i] \in ServiceName
  /\ \A i \in DOMAIN VolumeNames : VolumeNames[i] \in VolumeName
  /\ \A s \in ServiceName : \E i \in DOMAIN ServiceNames : ServiceNames[i] = s
  /\ \A v \in VolumeName : \E i \in DOMAIN VolumeNames : VolumeNames[i] = v
  <1>1. ServiceNames \in Seq(Seq(STRING) \ {<<>>}) /\ VolumeNames \in Seq(Seq(STRING) \ {<<>>})
    BY NamesAssumption
  <1>2. QED
    BY <1>1, ListRead, RangeRead DEF ServiceName, VolumeName

\* A service of a file, and what its redirect or its Ingress is made of.
LEMMA ServiceShape ==
  ASSUME NEW app \in App, NEW s \in Services(app)
  PROVE  /\ s \in ServiceName /\ app.services[s] \in Service
         /\ app.services[s].http # None =>
              /\ app.services[s].http \in HTTP
              /\ DOMAIN app.services[s].http.hosts = 1..Len(app.services[s].http.hosts)
              /\ Len(app.services[s].http.hosts) \in Nat
  <1>1. s \in ServiceName /\ app.services[s] # None /\ app.services[s] \in Service \cup {None}
    BY DEF Services, App
  <1>2. app.services[s] \in Service
    BY <1>1
  <1>3. app.services[s].http \in HTTP \cup {None}
    BY <1>2 DEF Service
  <1>4. \A h \in HTTP : DOMAIN h.hosts = 1..Len(h.hosts) /\ Len(h.hosts) \in Nat
    BY DEF HTTP
  <1>5. QED
    BY <1>1, <1>2, <1>3, <1>4

LEMMA RedirectRead ==
  ASSUME NEW s, NEW http, NEW i
  PROVE  /\ List(Redirect(s, http, i))
         /\ \A o \in Range(Redirect(s, http, i)) :
              /\ o.id.gvr \in {"configmaps", "httpproxies"}
              /\ o.spec.uses = {} /\ o.spec.backend = 0
  <1> DEFINE h == http.hosts[i]
             secret == TLSSecretName(s, i, h)
             c == Object("configmaps", secret, [Bare EXCEPT !.certs = {[secret |-> secret, host |-> h]}])
             p == Object("httpproxies", IF i = 1 THEN s ELSE s \o HostSlug(h), [Bare EXCEPT !.hosts = {h}])
             cs == IF http.tls THEN <<c>> ELSE <<>>
  <1>1. Redirect(s, http, i) = cs \o <<p>>
    BY DEF Redirect
  <1>2. /\ c.id.gvr = "configmaps" /\ c.spec.uses = {} /\ c.spec.backend = 0
        /\ p.id.gvr = "httpproxies" /\ p.spec.uses = {} /\ p.spec.backend = 0
    BY DEF Object, Id, Bare
  <1> HIDE DEF c, p
  <1>3. List(cs) /\ Range(cs) \subseteq {c}
    BY One, Nil
  <1>4. List(<<p>>) /\ Range(<<p>>) = {p}
    BY One
  <1> HIDE DEF cs
  <1>5. List(cs \o <<p>>) /\ Range(cs \o <<p>>) = Range(cs) \cup Range(<<p>>)
    BY <1>3, <1>4, Concat
  <1>6. QED
    BY <1>1, <1>2, <1>3, <1>4, <1>5

LEMMA WorkloadKind ==
  ASSUME NEW app, NEW s
  PROVE  Workload(app, s).id.gvr \in {"cronjobs", "deployments", "statefulsets"}
  BY DEF Workload, Object, Id

LEMMA PortsRead ==
  ASSUME NEW s, NEW svc
  PROVE  /\ List(ClusterIP(s, svc)) /\ List(NodePorts(s, svc))
         /\ \A o \in Range(ClusterIP(s, svc)) : o.id = Id("services", s)
         /\ \A o \in Range(NodePorts(s, svc)) : o.id = Id("services", NodePortName(s))
  <1> DEFINE sidecar == IF svc.sidecar = None THEN {} ELSE svc.sidecar.ports
             ports == SetToSeq(AllPorts(svc)) \o SetToSeq(sidecar)
             c == Object("services", s, [Bare EXCEPT !.ports = ports])
             d == Object("services", NodePortName(s), [Bare EXCEPT !.ports = SetToSeq(svc.expose)])
  <1>1. ClusterIP(s, svc) = IF ports = <<>> THEN <<>> ELSE <<c>>
    BY DEF ClusterIP
  <1>2. NodePorts(s, svc) = IF svc.expose = {} THEN <<>> ELSE <<d>>
    BY DEF NodePorts
  <1>3. c.id = Id("services", s) /\ d.id = Id("services", NodePortName(s))
    BY DEF Object
  <1> HIDE DEF c, d, ports
  <1>4. /\ ClusterIP(s, svc) = <<>> \/ ClusterIP(s, svc) = <<c>>
        /\ NodePorts(s, svc) = <<>> \/ NodePorts(s, svc) = <<d>>
    BY <1>1, <1>2
  <1>5. /\ List(<<>>) /\ Range(<<>>) = {} /\ List(<<c>>) /\ Range(<<c>>) = {c}
        /\ List(<<d>>) /\ Range(<<d>>) = {d}
    BY One, Nil
  <1>6. QED
    BY <1>3, <1>4, <1>5

LEMMA ConcatSeven ==
  ASSUME NEW a, NEW b, NEW c, NEW d, NEW e, NEW f, NEW g,
         List(a), List(b), List(c), List(d), List(e), List(f), List(g)
  PROVE  /\ List(a \o b \o c \o d \o e \o f \o g)
         /\ Range(a \o b \o c \o d \o e \o f \o g) =
              Range(a) \cup Range(b) \cup Range(c) \cup Range(d) \cup Range(e) \cup Range(f) \cup Range(g)
  <1>1. List(a \o b) /\ Range(a \o b) = Range(a) \cup Range(b)
    BY Concat
  <1>2. List(a \o b \o c) /\ Range(a \o b \o c) = Range(a \o b) \cup Range(c)
    BY <1>1, Concat
  <1>3. List(a \o b \o c \o d) /\ Range(a \o b \o c \o d) = Range(a \o b \o c) \cup Range(d)
    BY <1>2, Concat
  <1>4. List(a \o b \o c \o d \o e) /\ Range(a \o b \o c \o d \o e) = Range(a \o b \o c \o d) \cup Range(e)
    BY <1>3, Concat
  <1>5. /\ List(a \o b \o c \o d \o e \o f)
        /\ Range(a \o b \o c \o d \o e \o f) = Range(a \o b \o c \o d \o e) \cup Range(f)
    BY <1>4, Concat
  <1>6. /\ List(a \o b \o c \o d \o e \o f \o g)
        /\ Range(a \o b \o c \o d \o e \o f \o g) = Range(a \o b \o c \o d \o e \o f) \cup Range(g)
    BY <1>5, Concat
  <1>7. QED
    BY <1>1, <1>2, <1>3, <1>4, <1>5, <1>6

\* The objects of a service that runs and listens or is listened for.
Ports(app, s) ==
  LET svc == app.services[s]
  IN  IF AllPorts(svc) # {} \/ svc.expose # {}
      THEN Range(ClusterIP(s, svc)) \cup Range(NodePorts(s, svc)) ELSE {}

Runs(svc) == ~IsRedirect(svc) /\ ~svc.schedule

LEMMA ServiceObjectsRead ==
  ASSUME NEW app \in App, NEW s \in Services(app), Runs(app.services[s])
  PROVE  /\ List(ServiceObjects(app, s))
         /\ \A o : o \in Range(ServiceObjects(app, s)) <=>
              \/ o = Workload(app, s)
              \/ o \in Ports(app, s)
              \/ app.services[s].http # None /\ o = Ingress(s, app.services[s])
              \/ app.services[s].secrets /\ o = Object("secrets", SecretsName(s), Bare)
              \/ "plain" \in app.services[s].files /\ o = Object("configmaps", FilesName(s, "plain"), Bare)
              \/ "from" \in app.services[s].files /\ o = Object("secrets", FilesName(s, "from"), Bare)
              \/ "egress" \in app.services[s].network
                 /\ o = Object("networkpolicies", s \o <<"egress">>, Bare)
  <1> DEFINE svc == app.services[s]
             w == Workload(app, s)
             in == Ingress(s, svc)
             sec == Object("secrets", SecretsName(s), Bare)
             pl == Object("configmaps", FilesName(s, "plain"), Bare)
             fr == Object("secrets", FilesName(s, "from"), Bare)
             eg == Object("networkpolicies", s \o <<"egress">>, Bare)
             l == AllPorts(svc) # {} \/ svc.expose # {}
             cn == ClusterIP(s, svc) \o NodePorts(s, svc)
             t1 == <<w>>
             t2 == IF l THEN cn ELSE <<>>
             t3 == IF svc.http # None THEN <<in>> ELSE <<>>
             t4 == IF svc.secrets THEN <<sec>> ELSE <<>>
             t5 == IF "plain" \in svc.files THEN <<pl>> ELSE <<>>
             t6 == IF "from" \in svc.files THEN <<fr>> ELSE <<>>
             t7 == IF "egress" \in svc.network THEN <<eg>> ELSE <<>>
  <1>1. ServiceObjects(app, s) = t1 \o t2 \o t3 \o t4 \o t5 \o t6 \o t7
    BY DEF ServiceObjects, Runs
  <1>2. List(cn) /\ Range(cn) = Range(ClusterIP(s, svc)) \cup Range(NodePorts(s, svc))
    BY PortsRead, Concat
  <1> HIDE DEF w, in, sec, pl, fr, eg, cn
  <1>3. List(t2) /\ Range(t2) = Ports(app, s)
    BY <1>2, Nil DEF Ports
  <1>4. List(t1) /\ Range(t1) = {w}
    BY One
  <1>5. svc \in Service
    BY ServiceShape
  <1>6. List(t3) /\ \A o : o \in Range(t3) <=> svc.http # None /\ o = in
    BY One, Nil
  <1>7. List(t4) /\ \A o : o \in Range(t4) <=> svc.secrets /\ o = sec
    BY <1>5, One, Nil DEF Service
  <1>8. List(t5) /\ \A o : o \in Range(t5) <=> "plain" \in svc.files /\ o = pl
    BY One, Nil
  <1>9. List(t6) /\ \A o : o \in Range(t6) <=> "from" \in svc.files /\ o = fr
    BY One, Nil
  <1>10. List(t7) /\ \A o : o \in Range(t7) <=> "egress" \in svc.network /\ o = eg
    BY One, Nil
  <1> HIDE DEF t1, t2, t3, t4, t5, t6, t7
  <1>11. /\ List(t1 \o t2 \o t3 \o t4 \o t5 \o t6 \o t7)
         /\ Range(t1 \o t2 \o t3 \o t4 \o t5 \o t6 \o t7) =
              Range(t1) \cup Range(t2) \cup Range(t3) \cup Range(t4) \cup Range(t5) \cup Range(t6) \cup Range(t7)
    BY <1>3, <1>4, <1>6, <1>7, <1>8, <1>9, <1>10, ConcatSeven
  <1>12. \A o : o \in Range(ServiceObjects(app, s)) <=>
           o \in Range(t1) \/ o \in Range(t2) \/ o \in Range(t3) \/ o \in Range(t4)
           \/ o \in Range(t5) \/ o \in Range(t6) \/ o \in Range(t7)
    BY <1>1, <1>11
  <1>13. QED
    BY <1>1, <1>3, <1>4, <1>6, <1>7, <1>8, <1>9, <1>10, <1>11, <1>12
       DEF w, in, sec, pl, fr, eg

LEMMA RoutesRead ==
  ASSUME NEW app \in App, NEW s \in Services(app), ~Runs(app.services[s])
  PROVE  /\ List(ServiceObjects(app, s))
         /\ \A o : o \in Range(ServiceObjects(app, s)) <=>
              IF IsRedirect(app.services[s])
              THEN \E i \in DOMAIN app.services[s].http.hosts : o \in Range(Redirect(s, app.services[s].http, i))
              ELSE o = Workload(app, s)
  <1> DEFINE svc == app.services[s]
             ss == [i \in DOMAIN svc.http.hosts |-> Redirect(s, svc.http, i)]
             w == Workload(app, s)
  <1>1. CASE IsRedirect(svc)
    <2>1. ServiceObjects(app, s) = FlattenSeq(ss)
      BY <1>1 DEF ServiceObjects
    <2>2. DOMAIN svc.http.hosts = 1..Len(svc.http.hosts) /\ Len(svc.http.hosts) \in Nat
      BY <1>1, ServiceShape DEF IsRedirect
    <2>3. List(ss) /\ DOMAIN ss = DOMAIN svc.http.hosts
      <3>1. ss = [i \in 1..Len(svc.http.hosts) |-> ss[i]]
        BY <2>2
      <3> HIDE DEF ss
      <3>2. QED
        BY <2>2, <3>1, Listed
    <2>4. \A i \in DOMAIN ss : ss[i] = Redirect(s, svc.http, i) /\ List(ss[i])
      BY RedirectRead
    <2> HIDE DEF ss
    <2>5. /\ List(FlattenSeq(ss))
          /\ \A x : x \in Range(FlattenSeq(ss)) <=> \E i \in DOMAIN ss : x \in Range(ss[i])
      BY <2>3, <2>4, Flatten
    <2>6. QED
      BY <1>1, <2>1, <2>3, <2>4, <2>5
  <1>2. CASE ~IsRedirect(svc)
    <2>1. ServiceObjects(app, s) = <<w>>
      BY <1>2 DEF ServiceObjects, Runs
    <2> HIDE DEF w
    <2>2. QED
      BY <1>2, <2>1, One DEF w
  <1>3. QED
    BY <1>1, <1>2

LEMMA ServiceKinds ==
  ASSUME NEW app \in App, NEW s \in Services(app)
  PROVE  /\ List(ServiceObjects(app, s))
         /\ \A o \in Range(ServiceObjects(app, s)) : o.id.gvr \in PrunableGVRs
  <1>1. Workload(app, s).id.gvr \in PrunableGVRs
    BY WorkloadKind DEF PrunableGVRs
  <1>2. CASE Runs(app.services[s])
    <2>1. \A o \in Ports(app, s) : o.id = Id("services", s) \/ o.id = Id("services", NodePortName(s))
      BY PortsRead DEF Ports
    <2>2. \A o \in Ports(app, s) : o.id.gvr \in PrunableGVRs
      BY <2>1 DEF Id, PrunableGVRs
    <2>3. Ingress(s, app.services[s]).id.gvr \in PrunableGVRs
      BY DEF Ingress, Object, Id, PrunableGVRs
    <2>4. /\ Object("secrets", SecretsName(s), Bare).id.gvr \in PrunableGVRs
          /\ Object("configmaps", FilesName(s, "plain"), Bare).id.gvr \in PrunableGVRs
          /\ Object("secrets", FilesName(s, "from"), Bare).id.gvr \in PrunableGVRs
          /\ Object("networkpolicies", s \o <<"egress">>, Bare).id.gvr \in PrunableGVRs
      BY DEF Object, Id, PrunableGVRs
    <2>5. QED
      BY <1>1, <1>2, <2>2, <2>3, <2>4, ServiceObjectsRead
  <1>3. CASE ~Runs(app.services[s])
    <2>1. \A i : \A o \in Range(Redirect(s, app.services[s].http, i)) : o.id.gvr \in PrunableGVRs
      BY RedirectRead DEF PrunableGVRs
    <2>2. QED
      BY <1>1, <1>3, <2>1, RoutesRead
  <1>4. QED
    BY <1>2, <1>3

LEMMA FirstMounter ==
  ASSUME NEW app \in App, NEW v, Mounters(app, v) # {}
  PROVE  ServiceNames[SelectInSeq(ServiceNames, LAMBDA t : t \in Mounters(app, v))] \in Mounters(app, v)
  <1> DEFINE I == {i \in 1..Len(ServiceNames) : ServiceNames[i] \in Mounters(app, v)}
  <1>1. \E i \in DOMAIN ServiceNames : ServiceNames[i] \in Mounters(app, v)
    BY Sorted DEF Mounters, Services
  <1>2. I # {} /\ I \subseteq Nat
    BY <1>1, Sorted
  <1>3. SelectInSeq(ServiceNames, LAMBDA t : t \in Mounters(app, v)) = Min(I)
    BY <1>2 DEF SelectInSeq
  <1>4. Min(I) \in I
    <2> HIDE DEF I
    <2>1. QED
      BY <1>2, Least
  <1>5. QED
    BY <1>3, <1>4

LEMMA Replicas ==
  ASSUME NEW app \in App, NEW s \in Services(app)
  PROVE  ReplicaCount(app.services[s]) \in Nat /\ ReplicaCount(app.services[s]) <= Len(Numerals)
  <1>1. \A n \in Count : n \in Nat /\ n <= Len(Numerals)
    BY NamesAssumption DEF Count
  <1>2. app.services[s].replicas \in Count \cup {None}
    BY ServiceShape DEF Service
  <1>3. Len(Numerals) \in Nat /\ 1 <= Len(Numerals)
    BY NamesAssumption
  <1>4. QED
    BY <1>1, <1>2, <1>3 DEF ReplicaCount

LEMMA ClaimNamesRead ==
  ASSUME NEW app \in App, NEW v
  PROVE  List(ClaimNames(app, v))
  <1>1. CASE v \in Standalone(app) \/ Mounters(app, v) = {}
    <2>1. ClaimNames(app, v) = <<v>>
      BY <1>1 DEF ClaimNames
    <2>2. QED
      BY <2>1, One
  <1>2. CASE ~(v \in Standalone(app) \/ Mounters(app, v) = {})
    <2> DEFINE s == ServiceNames[SelectInSeq(ServiceNames, LAMBDA t : t \in Mounters(app, v))]
               n == IF app.volumes[v].perReplica THEN ReplicaCount(app.services[s]) ELSE 1
               f == [i \in 1..n |-> TemplateClaim(v, s, i - 1)]
    <2>1. ClaimNames(app, v) = f
      BY <1>2 DEF ClaimNames
    <2>2. s \in Services(app)
      <3>1. s \in Mounters(app, v)
        BY <1>2, FirstMounter
      <3> HIDE DEF s
      <3>2. QED
        BY <3>1 DEF Mounters
    <2> HIDE DEF s
    <2>3. n \in Nat
      BY <2>2, Replicas
    <2> HIDE DEF n
    <2>4. f = [i \in 1..n |-> f[i]]
      OBVIOUS
    <2> HIDE DEF f
    <2>5. QED
      BY <2>1, <2>3, <2>4, Listed
  <1>3. QED
    BY <1>1, <1>2

\* The backup of the claim i of a volume.
BackupJob(app, v, i, tgt) ==
  LET claims == ClaimNames(app, v)
      n == Len(claims)
  IN  Object("cronjobs", BackupJobName(v, i - 1, n),
             [Bare EXCEPT !.uses = {Id("persistentvolumeclaims", claims[i])},
                          !.repo = Repository(v, i - 1, n),
                          !.label = [volume |-> v, replica |-> IF n <= 1 THEN None ELSE i - 1],
                          !.suspended = ~tgt])

LEMMA BackupJobsRead ==
  ASSUME NEW app \in App, NEW v, NEW tgt
  PROVE  LET js == BackupJobs(app, v, tgt)
             n == Len(ClaimNames(app, v))
         IN  /\ List(js) /\ DOMAIN js = 1..n /\ n \in Nat
             /\ \A i \in 1..n : js[i] = BackupJob(app, v, i, tgt)
             /\ \A o : o \in Range(js) <=> \E i \in 1..n : o = BackupJob(app, v, i, tgt)
             /\ \A o \in Range(js) : o.id.gvr = "cronjobs" /\ o.spec.hosts = {} /\ o.spec.certs = {}
  <1> DEFINE n == Len(ClaimNames(app, v))
             job(i) == BackupJob(app, v, i, tgt)
             f == [i \in 1..n |-> job(i)]
  <1>1. BackupJobs(app, v, tgt) = f
    BY DEF BackupJobs, BackupJob
  <1>2. \A i : job(i).id.gvr = "cronjobs" /\ job(i).spec.hosts = {} /\ job(i).spec.certs = {}
    BY DEF BackupJob, Object, Id, Bare
  <1>3. n \in Nat
    BY ClaimNamesRead, ListShape
  <1> HIDE DEF job, n
  <1>4. f = [i \in 1..n |-> f[i]] /\ \A i \in 1..n : f[i] = job(i)
    OBVIOUS
  <1> HIDE DEF f
  <1>5. List(f) /\ DOMAIN f = 1..n
    BY <1>3, <1>4, Listed
  <1>6. \A o : o \in Range(f) <=> \E i \in 1..n : o = job(i)
    <2>1. \A o : o \in Range(f) <=> \E i \in 1..n : f[i] = o
      BY <1>5, RangeRead
    <2>2. QED
      BY <1>4, <2>1
  <1>7. \A o \in Range(f) : o.id.gvr = "cronjobs" /\ o.spec.hosts = {} /\ o.spec.certs = {}
    BY <1>2, <1>6
  <1>8. QED
    BY <1>1, <1>3, <1>4, <1>5, <1>6, <1>7 DEF n, job

Claim(v) == Object("persistentvolumeclaims", v, Bare)

LEMMA VolumeObjectsRead ==
  ASSUME NEW app \in App, NEW tgt
  PROVE  /\ List(VolumeObjects(app, tgt))
         /\ \A o : o \in Range(VolumeObjects(app, tgt)) <=>
              \/ \E v \in Standalone(app) : o = Claim(v)
              \/ \E v \in Volumes(app) : app.volumes[v].backup /\ o \in Range(BackupJobs(app, v, tgt))
  <1> DEFINE c(v) == IF v \in Standalone(app) THEN <<Claim(v)>> ELSE <<>>
             b(v) == IF v \in Volumes(app) /\ app.volumes[v].backup THEN BackupJobs(app, v, tgt) ELSE <<>>
             cs == [i \in DOMAIN VolumeNames |-> c(VolumeNames[i])]
             bs == [i \in DOMAIN VolumeNames |-> b(VolumeNames[i])]
  <1>1. VolumeObjects(app, tgt) = FlattenSeq(cs) \o FlattenSeq(bs)
    BY DEF VolumeObjects, Claim
  <1>2. \A v : List(c(v)) /\ \A o : o \in Range(c(v)) <=> v \in Standalone(app) /\ o = Claim(v)
    BY One, Nil
  <1>3. \A v : /\ List(b(v))
               /\ \A o : o \in Range(b(v)) <=>
                    v \in Volumes(app) /\ app.volumes[v].backup /\ o \in Range(BackupJobs(app, v, tgt))
    BY BackupJobsRead, Nil
  <1> HIDE DEF c, b
  <1>4. cs = [i \in 1..Len(VolumeNames) |-> cs[i]] /\ bs = [i \in 1..Len(VolumeNames) |-> bs[i]]
    BY Sorted
  <1>5. \A i \in DOMAIN VolumeNames : cs[i] = c(VolumeNames[i]) /\ bs[i] = b(VolumeNames[i])
    OBVIOUS
  <1> HIDE DEF cs, bs
  <1>6. List(cs) /\ DOMAIN cs = DOMAIN VolumeNames /\ List(bs) /\ DOMAIN bs = DOMAIN VolumeNames
    BY <1>4, Sorted, Listed
  <1>7. /\ List(FlattenSeq(cs))
        /\ \A x : x \in Range(FlattenSeq(cs)) <=> \E i \in DOMAIN cs : x \in Range(cs[i])
    BY <1>2, <1>5, <1>6, Flatten
  <1>8. /\ List(FlattenSeq(bs))
        /\ \A x : x \in Range(FlattenSeq(bs)) <=> \E i \in DOMAIN bs : x \in Range(bs[i])
    BY <1>3, <1>5, <1>6, Flatten
  <1>9. /\ List(VolumeObjects(app, tgt))
        /\ Range(VolumeObjects(app, tgt)) = Range(FlattenSeq(cs)) \cup Range(FlattenSeq(bs))
    BY <1>1, <1>7, <1>8, Concat
  <1>10. Standalone(app) \subseteq VolumeName /\ Volumes(app) \subseteq VolumeName
    BY DEF Standalone, Volumes
  <1>11. \A o : o \in Range(FlattenSeq(cs)) <=> \E v \in Standalone(app) : o = Claim(v)
    BY <1>2, <1>5, <1>6, <1>7, <1>10, Sorted
  <1>12. \A o : o \in Range(FlattenSeq(bs)) <=>
           \E v \in Volumes(app) : app.volumes[v].backup /\ o \in Range(BackupJobs(app, v, tgt))
    BY <1>3, <1>5, <1>6, <1>8, <1>10, Sorted
  <1>13. QED
    BY <1>9, <1>11, <1>12

PullSecret == Object("secrets", PullSecretName, Bare)

LEMMA ObjectsRead ==
  ASSUME NEW app \in App, NEW tgt
  PROVE  /\ List(Objects(app, tgt))
         /\ \A o : o \in Range(Objects(app, tgt)) <=>
              \/ NeedsPull(app) /\ o = PullSecret
              \/ o \in Range(VolumeObjects(app, tgt))
              \/ \E s \in Services(app) : o \in Range(ServiceObjects(app, s))
  <1> DEFINE p == IF NeedsPull(app) THEN <<PullSecret>> ELSE <<>>
             a(s) == IF s \in Services(app) THEN ServiceObjects(app, s) ELSE <<>>
             as == [i \in DOMAIN ServiceNames |-> a(ServiceNames[i])]
             v == VolumeObjects(app, tgt)
  <1>1. Objects(app, tgt) = p \o v \o FlattenSeq(as)
    BY DEF Objects, PullSecret
  <1>2. List(p) /\ \A o : o \in Range(p) <=> NeedsPull(app) /\ o = PullSecret
    BY One, Nil
  <1>3. List(v)
    BY VolumeObjectsRead
  <1>4. \A s : List(a(s)) /\ \A o : o \in Range(a(s)) <=> s \in Services(app) /\ o \in Range(ServiceObjects(app, s))
    BY ServiceKinds, Nil
  <1> HIDE DEF p, a, v
  <1>5. as = [i \in 1..Len(ServiceNames) |-> as[i]]
    BY Sorted
  <1>6. \A i \in DOMAIN ServiceNames : as[i] = a(ServiceNames[i])
    OBVIOUS
  <1> HIDE DEF as
  <1>7. List(as) /\ DOMAIN as = DOMAIN ServiceNames
    BY <1>5, Sorted, Listed
  <1>8. /\ List(FlattenSeq(as))
        /\ \A x : x \in Range(FlattenSeq(as)) <=> \E i \in DOMAIN as : x \in Range(as[i])
    BY <1>4, <1>6, <1>7, Flatten
  <1>9. List(p \o v) /\ Range(p \o v) = Range(p) \cup Range(v)
    BY <1>2, <1>3, Concat
  <1> DEFINE fs == FlattenSeq(as)
             pv == p \o v
  <1>10. List(pv \o fs) /\ Range(pv \o fs) = Range(pv) \cup Range(fs)
    <2> HIDE DEF pv, fs
    <2>1. List(pv) /\ List(fs)
      BY <1>8, <1>9 DEF pv, fs
    <2>2. QED
      BY <2>1, Concat
  <1>11. Services(app) \subseteq ServiceName
    BY DEF Services
  <1>12. \A o : o \in Range(FlattenSeq(as)) <=> \E s \in Services(app) : o \in Range(ServiceObjects(app, s))
    <2>1. ASSUME NEW o, o \in Range(FlattenSeq(as)) PROVE \E s \in Services(app) : o \in Range(ServiceObjects(app, s))
      BY <1>4, <1>6, <1>7, <1>8, <2>1
    <2>2. ASSUME NEW s \in Services(app), NEW o \in Range(ServiceObjects(app, s)) PROVE o \in Range(FlattenSeq(as))
      <3>1. PICK i \in DOMAIN ServiceNames : ServiceNames[i] = s
        BY <1>11, Sorted
      <3>2. o \in Range(as[i]) /\ i \in DOMAIN as
        BY <1>4, <1>6, <1>7, <2>2, <3>1
      <3>3. QED
        BY <1>8, <3>2
    <2>3. QED
      BY <2>1, <2>2
  <1>13. Objects(app, tgt) = pv \o fs
    BY <1>1
  <1> HIDE DEF pv, fs
  <1>14. \A o : o \in Range(Objects(app, tgt)) <=> o \in Range(p) \/ o \in Range(v) \/ o \in Range(FlattenSeq(as))
    BY <1>9, <1>10, <1>13 DEF pv, fs
  <1>15. QED
    BY <1>2, <1>10, <1>12, <1>13, <1>14 DEF v

LEMMA ObjectsKinds ==
  ASSUME NEW app \in App, NEW tgt
  PROVE  \A o \in Range(Objects(app, tgt)) :
           /\ o.id.gvr \in Kinds
           /\ o.id.gvr = "persistentvolumeclaims" => o.spec = Bare
  <1> DEFINE Fine(o) == o.id.gvr \in PrunableGVRs \/ (o.id.gvr = "persistentvolumeclaims" /\ o.spec = Bare)
  <1>1. /\ PullSecret.id.gvr = "secrets"
        /\ \A v : Claim(v).id.gvr = "persistentvolumeclaims" /\ Claim(v).spec = Bare
    BY DEF PullSecret, Claim, Object, Id
  <1>2. Fine(PullSecret) /\ \A v : Fine(Claim(v))
    BY <1>1 DEF PrunableGVRs
  <1>3. \A o \in Range(VolumeObjects(app, tgt)) : Fine(o)
    <2>1. \A o : o.id.gvr = "cronjobs" => Fine(o)
      BY DEF PrunableGVRs
    <2> HIDE DEF Fine
    <2>2. QED
      BY <1>2, <2>1, VolumeObjectsRead, BackupJobsRead
  <1>4. \A s \in Services(app) : \A o \in Range(ServiceObjects(app, s)) : Fine(o)
    BY ServiceKinds
  <1>5. \A o \in Range(Objects(app, tgt)) : Fine(o)
    <2> HIDE DEF Fine
    <2>1. QED
      BY <1>2, <1>3, <1>4, ObjectsRead
  <1>6. "persistentvolumeclaims" \notin PrunableGVRs
    BY DEF PrunableGVRs
  <1>7. QED
    BY <1>5, <1>6 DEF Kinds

-----------------------------------------------------------------------------
(***************************************************************************)
(* Files, and what Parse makes of them.                                    *)
(***************************************************************************)

Env == [Variable -> Host \cup {None}]

LEMMA EditedService ==
  ASSUME NEW svc \in Service, NEW a \in DOMAIN Plain, NEW x, [Plain EXCEPT ![a] = x] \in Service
  PROVE  [svc EXCEPT ![a] = x] \in Service
  <1>1. a \in {"image", "build", "port", "ports", "http", "expose", "uses", "secrets", "files", "sidecar",
               "network", "health", "schedule", "replicas", "stateful", "volumes"}
    BY DEF Plain
  <1>2. CASE a = "image"
    BY <1>2, SMTT(30) DEF Plain, Service
  <1>3. CASE a = "build"
    BY <1>3, ZenonT(60) DEF Plain, Service
  <1>4. CASE a = "port"
    BY <1>4, ZenonT(60) DEF Plain, Service
  <1>5. CASE a = "ports"
    BY <1>5, ZenonT(60) DEF Plain, Service
  <1>6. CASE a = "http"
    BY <1>6, SMTT(30) DEF Plain, Service
  <1>7. CASE a = "expose"
    BY <1>7, ZenonT(60) DEF Plain, Service
  <1>8. CASE a = "uses"
    BY <1>8, SMTT(30) DEF Plain, Service
  <1>9. CASE a = "secrets"
    BY <1>9, ZenonT(60) DEF Plain, Service
  <1>10. CASE a = "files"
    BY <1>10, SMTT(30) DEF Plain, Service
  <1>11. CASE a = "sidecar"
    <2>1. x \in Sidecar \cup {None}
      BY <1>11, ZenonT(60) DEF Plain, Service
    <2>2. QED
      BY <1>11, <2>1, SMTT(60) DEF Service
  <1>12. CASE a = "network"
    BY <1>12, SMTT(30) DEF Plain, Service
  <1>13. CASE a = "health"
    BY <1>13, SMTT(30) DEF Plain, Service
  <1>14. CASE a = "schedule"
    BY <1>14, ZenonT(60) DEF Plain, Service
  <1>15. CASE a = "replicas"
    BY <1>15, ZenonT(60) DEF Plain, Service
  <1>16. CASE a = "stateful"
    BY <1>16, ZenonT(60) DEF Plain, Service
  <1>17. CASE a = "volumes"
    BY <1>17, SMTT(30) DEF Plain, Service
  <1>18. QED
    BY <1>1, <1>2, <1>3, <1>4, <1>5, <1>6, <1>7, <1>8, <1>9, <1>10, <1>11, <1>12, <1>13, <1>14, <1>15,
       <1>16, <1>17

LEMMA InterpolatedType ==
  ASSUME NEW svc \in Service, svc # None, NEW e \in Env, \A x \in VariablesOf(svc) : e[x] # None
  PROVE  /\ InterpolatedService(svc, e) \in Service
         /\ Range(HostsOf(InterpolatedService(svc, e))) \subseteq Host
  <1>1. CASE svc.http = None
    <2>1. InterpolatedService(svc, e) = svc
      BY <1>1 DEF InterpolatedService
    <2>2. QED
      BY <1>1, <2>1, Nil DEF HostsOf
  <1>2. CASE svc.http # None
    <2> DEFINE http == svc.http
               f == [i \in DOMAIN http.hosts |->
                       IF http.hosts[i] \in Variable THEN e[http.hosts[i]] ELSE http.hosts[i]]
               new == [http EXCEPT !.hosts = f]
    <2>1. http \in HTTP
      BY <1>2 DEF Service
    <2>2. http.hosts \in Seq(Host \cup Variable)
      BY <2>1 DEF HTTP
    <2>3. DOMAIN http.hosts = 1..Len(http.hosts) /\ Len(http.hosts) \in Nat
      BY <2>2
    <2>4. ASSUME NEW i \in 1..Len(http.hosts) PROVE f[i] \in Host
      <3>1. http.hosts[i] \in Host \cup Variable
        BY <2>2, <2>4
      <3>2. CASE http.hosts[i] \in Variable
        <4>1. http.hosts[i] \in Range(HostsOf(svc)) \cap Variable
          BY <1>2, <2>3, <3>2, RangeRead DEF HostsOf
        <4>2. e[http.hosts[i]] # None
          BY <4>1 DEF VariablesOf
        <4>3. e[http.hosts[i]] \in Host
          BY <3>2, <4>2 DEF Env
        <4>4. QED
          BY <2>3, <3>2, <4>3
      <3>3. QED
        BY <2>3, <3>1, <3>2
    <2>5. f \in Seq(Host \cup Variable) /\ Range(f) \subseteq Host
      <3>1. f = [i \in 1..Len(http.hosts) |-> f[i]]
        BY <2>3
      <3> HIDE DEF f
      <3>2. \A i \in 1..Len(http.hosts) : f[i] \in Host
        BY <2>4
      <3> DEFINE n == Len(http.hosts)
      <3>3. n \in Nat /\ f = [i \in 1..n |-> f[i]] /\ \A i \in 1..n : f[i] \in Host
        BY <2>3, <3>1, <3>2
      <3> HIDE DEF n
      <3>4. f \in Seq(Host)
        BY <3>3, IsASeq
      <3>5. QED
        BY <3>4, ListRead, SeqMonotonic
    <2> HIDE DEF f
    <2>6. new \in HTTP
      BY <2>1, <2>5 DEF HTTP
    <2>7. InterpolatedService(svc, e) = [svc EXCEPT !.http = new]
      <3>1. InterpolatedService(svc, e) = [svc EXCEPT !.http.hosts = f]
        BY <1>2 DEF InterpolatedService, f
      <3>2. QED
        BY <3>1
    <2>8. new.hosts = f
      BY <2>1 DEF HTTP
    <2> HIDE DEF new, http
    <2>9. InterpolatedService(svc, e) \in Service /\ InterpolatedService(svc, e).http = new
      BY <2>6, <2>7 DEF Service
    <2>10. HostsOf(InterpolatedService(svc, e)) \in {<<>>, f}
      BY <2>8, <2>9 DEF HostsOf
    <2>11. QED
      BY <2>5, <2>9, <2>10, Nil
  <1>3. QED
    BY <1>1, <1>2

\* The hosts of an app without its variables.
Resolved(app) == \A s \in Services(app) : Range(HostsOf(app.services[s])) \subseteq Host

LEMMA Parsed ==
  ASSUME NEW app \in App, NEW e \in Env, Parse(app, e) # None
  PROVE  Parse(app, e) \in App /\ Valid(Parse(app, e)) /\ Resolved(Parse(app, e))
  <1> DEFINE f == [s \in ServiceName |-> InterpolatedService(app.services[s], e)]
             new == [app EXCEPT !.services = f]
  <1>1. Interpolates(app, e) /\ Valid(new) /\ Parse(app, e) = new
    BY DEF Parse, Interpolated
  <1>2. ASSUME NEW s \in ServiceName
        PROVE  f[s] \in Service \cup {None} /\ (f[s] # None => Range(HostsOf(f[s])) \subseteq Host)
    <2>1. app.services[s] \in Service \cup {None}
      BY DEF App
    <2>2. CASE app.services[s] = None
      BY <2>2 DEF InterpolatedService
    <2>3. CASE app.services[s] # None
      <3>1. \A x \in VariablesOf(app.services[s]) : e[x] # None
        BY <1>1, <2>3 DEF Interpolates, Services
      <3>2. /\ InterpolatedService(app.services[s], e) \in Service
            /\ Range(HostsOf(InterpolatedService(app.services[s], e))) \subseteq Host
        BY <2>1, <2>3, <3>1, InterpolatedType
      <3>3. QED
        BY <3>2
    <2>4. QED
      BY <2>2, <2>3
  <1>3. f \in [ServiceName -> Service \cup {None}]
    <2> HIDE DEF f
    <2>1. f = [s \in ServiceName |-> f[s]]
      BY DEF f
    <2>2. QED
      BY <1>2, <2>1
  <1> HIDE DEF f
  <1>4. new \in App
    BY <1>3 DEF App
  <1>5. Resolved(new)
    <2>1. new.services = f
      BY DEF App
    <2>2. QED
      BY <1>2, <2>1 DEF Resolved, Services
  <1>6. QED
    BY <1>1, <1>4, <1>5

-----------------------------------------------------------------------------
(***************************************************************************)
(* The namespace after an up.                                              *)
(***************************************************************************)

\* A namespace c holds these objects, the last of a name, and beside them
\* nothing that a prune would have swept.
Holds(c, objs) ==
  /\ IdsOf(objs) \subseteq DOMAIN c
  /\ \A id \in DOMAIN c : id.gvr \in PrunableGVRs => id \in IdsOf(objs)
  /\ \A id \in IdsOf(objs) : \E o \in Range(objs) : o.id = id /\ c[id] = o.spec

\* A claim says nothing but its name.
BareClaims == \A id \in Present : id.gvr = "persistentvolumeclaims" => cluster[id] = Bare

\* The inductive invariant.
Inv ==
  /\ TypeOK
  /\ BareClaims
  /\ deployed # None =>
       deployed.app \in App /\ Resolved(deployed.app) /\ Holds(cluster, Objects(deployed.app, deployed.target))

LEMMA IdsRead ==
  ASSUME NEW objs
  PROVE  \A id : id \in IdsOf(objs) <=> \E o \in Range(objs) : o.id = id
  BY DEF IdsOf, Range

LEMMA LastRead ==
  ASSUME NEW objs, List(objs), NEW is, is \subseteq DOMAIN objs, NEW i \in is
  PROVE  LastOf(objs, is, objs[i].id) \in is /\ objs[LastOf(objs, is, objs[i].id)].id = objs[i].id
  <1> DEFINE S == {j \in is : objs[j].id = objs[i].id}
  <1>1. DOMAIN objs = 1..Len(objs) /\ Len(objs) \in Nat
    BY ListShape
  <1>2. S \subseteq 0..Len(objs) /\ i \in S
    BY <1>1
  <1>3. LastOf(objs, is, objs[i].id) = Max(S)
    BY DEF LastOf
  <1>4. Max(S) \in S
    <2> HIDE DEF S
    <2>1. QED
      BY <1>1, <1>2, Greatest
  <1>5. QED
    BY <1>3, <1>4

IdsIn(objs, is) == {objs[i].id : i \in is}

LEMMA WithRead ==
  ASSUME NEW objs, List(objs), NEW is, is \subseteq DOMAIN objs
  PROVE  /\ DOMAIN With(objs, is) = Present \cup IdsIn(objs, is)
         /\ \A id \in IdsIn(objs, is) : \E o \in Range(objs) : o.id = id /\ With(objs, is)[id] = o.spec
         /\ \A id \in Present \ IdsIn(objs, is) : With(objs, is)[id] = cluster[id]
  <1> DEFINE ids == IdsIn(objs, is)
             f == [id \in Present \cup ids |-> IF id \in ids THEN objs[LastOf(objs, is, id)].spec ELSE cluster[id]]
  <1>1. With(objs, is) = f
    BY DEF With, IdsIn
  <1>2. ASSUME NEW id \in ids PROVE \E o \in Range(objs) : o.id = id /\ f[id] = o.spec
    <2>1. PICK i \in is : objs[i].id = id
      BY <1>2 DEF IdsIn
    <2>2. LastOf(objs, is, id) \in is /\ objs[LastOf(objs, is, id)].id = id
      BY <2>1, LastRead
    <2>3. f[id] = objs[LastOf(objs, is, id)].spec
      OBVIOUS
    <2>4. objs[LastOf(objs, is, id)] \in Range(objs)
      BY <2>2, RangeRead
    <2>5. QED
      BY <2>2, <2>3, <2>4
  <1>3. DOMAIN f = Present \cup ids /\ \A id \in Present \ ids : f[id] = cluster[id]
    OBVIOUS
  <1> HIDE DEF f
  <1>4. QED
    BY <1>1, <1>2, <1>3

LEMMA PrunedRead ==
  ASSUME NEW st, NEW ids
  PROVE  /\ DOMAIN Pruned(st, ids) = {id \in DOMAIN st : id \in ids \/ id.gvr \notin PrunableGVRs}
         /\ \A id \in DOMAIN Pruned(st, ids) : Pruned(st, ids)[id] = st[id]
  BY DEF Pruned, Restrict

LEMMA PrunedLess ==
  ASSUME NEW st, NEW ids, NEW left, left = Pruned(st, ids)
  PROVE  DOMAIN left \subseteq DOMAIN st /\ \A id \in DOMAIN left : left[id] = st[id]
  <1>1. DOMAIN left = {id \in DOMAIN st : id \in ids \/ id.gvr \notin PrunableGVRs}
    BY PrunedRead
  <1>2. \A id \in DOMAIN left : left[id] = st[id]
    BY PrunedRead
  <1>3. QED
    BY <1>1, <1>2

LEMMA InitInv == Init => Inv
  <1> SUFFICES ASSUME Init PROVE Inv
    OBVIOUS
  <1>1. file \in App /\ MaxEdits \in Nat
    BY RedeployAssumption DEF Init
  <1>2. DOMAIN cluster = {}
    BY DEF Init
  <1>3. env \in [Variable -> Host \cup {None}]
    BY DEF Init
  <1>4. target \in BOOLEAN /\ deployed = None
    BY DEF Init
  <1>5. edits = 0
    BY DEF Init
  <1>6. QED
    BY <1>1, <1>2, <1>3, <1>4, <1>5 DEF Inv, TypeOK, BareClaims, Present

\* An edit of the file leaves the namespace alone.
LEMMA EditKeeps ==
  ASSUME Inv, Edits, file' \in App, env' \in Env
  PROVE  Inv'
  <1>1. edits' \in 0..MaxEdits
    BY RedeployAssumption DEF Edits, Inv, TypeOK
  <1>2. QED
    BY <1>1 DEF Edits, Inv, TypeOK, BareClaims, Present, Env

LEMMA UserKeeps ==
  ASSUME Inv,
         \/ \E s \in ServiceName :
              \/ \E a \in DOMAIN Values : \E x \in Values[a] : EditService(s, a, x)
              \/ AddService(s) \/ RemoveService(s)
         \/ \E v \in VolumeName : \E x \in NewVolumes \cup {None} : EditVolume(v, x)
         \/ \E x \in Variable : \E h \in Host \cup {None} : Export(x, h)
  PROVE  Inv'
  <1>1. file \in App /\ env \in Env
    BY DEF Inv, TypeOK, Env
  <1>2. /\ \A s \in ServiceName, x \in Service \cup {None} : [file EXCEPT !.services[s] = x] \in App
        /\ \A v \in VolumeName, x \in Volume \cup {None} : [file EXCEPT !.volumes[v] = x] \in App
    BY <1>1 DEF App
  <1>3. ASSUME NEW s \in ServiceName, NEW a \in DOMAIN Values, NEW x \in Values[a], EditService(s, a, x)
        PROVE  Inv'
    <2>1. Edits /\ env' = env /\ file.services[s] # None /\ file' = [file EXCEPT !.services[s][a] = x]
      BY <1>3 DEF EditService
    <2>2. file.services[s] \in Service
      BY <1>1, <2>1 DEF App
    <2>3. a \in DOMAIN Plain /\ [Plain EXCEPT ![a] = x] \in Service
      BY RedeployAssumption
    <2> DEFINE new == [file.services[s] EXCEPT ![a] = x]
    <2>4. new \in Service
      BY <2>2, <2>3, EditedService
    <2>5. file' = [file EXCEPT !.services[s] = new]
      BY <2>1
    <2> HIDE DEF new
    <2>6. QED
      BY <1>1, <1>2, <2>1, <2>4, <2>5, EditKeeps
  <1>4. ASSUME NEW s \in ServiceName, AddService(s) \/ RemoveService(s) PROVE Inv'
    <2>1. Edits /\ env' = env /\ \E x \in Service \cup {None} : file' = [file EXCEPT !.services[s] = x]
      BY <1>4, RedeployAssumption DEF AddService, RemoveService
    <2>2. QED
      BY <1>1, <1>2, <2>1, EditKeeps
  <1>5. ASSUME NEW v \in VolumeName, NEW x \in NewVolumes \cup {None}, EditVolume(v, x) PROVE Inv'
    <2>1. Edits /\ env' = env /\ x \in Volume \cup {None} /\ file' = [file EXCEPT !.volumes[v] = x]
      BY <1>5, RedeployAssumption DEF EditVolume
    <2>2. QED
      BY <1>1, <1>2, <2>1, EditKeeps
  <1>6. ASSUME NEW x \in Variable, NEW h \in Host \cup {None}, Export(x, h) PROVE Inv'
    <2>1. Edits /\ file' = file /\ env' = [env EXCEPT ![x] = h]
      BY <1>6 DEF Export
    <2>2. env' \in Env
      BY <1>1, <2>1 DEF Env
    <2>3. QED
      BY <1>1, <2>1, <2>2, EditKeeps
  <1>7. QED
    BY <1>3, <1>4, <1>5, <1>6

LEMMA UpKeeps == ASSUME Inv, Up PROVE Inv'
  <1> DEFINE app == Parse(file, env)
             objs == Objects(app, target)
             is == Applied(objs)
  <1>1. /\ app # None /\ UNCHANGED <<file, env, target, edits>>
        /\ \/ /\ is = DOMAIN objs
              /\ cluster' = Pruned(With(objs, is), IdsOf(objs))
              /\ deployed' = [app |-> app, target |-> target]
           \/ cluster' = With(objs, is) /\ deployed' = None
    BY DEF Up
  <1>2. app \in App /\ Valid(app) /\ Resolved(app)
    BY <1>1, Parsed DEF Inv, TypeOK, Env
  <1>3. /\ List(objs)
        /\ \A o \in Range(objs) : o.id.gvr \in Kinds
        /\ \A o \in Range(objs) : o.id.gvr = "persistentvolumeclaims" => o.spec = Bare
    BY <1>2, ObjectsRead, ObjectsKinds
  <1>4. is \subseteq DOMAIN objs
    BY DEF Applied
  <1> DEFINE ids == IdsIn(objs, is)
             st == With(objs, is)
  <1> HIDE DEF app, objs, is
  <1>5. /\ DOMAIN st = Present \cup ids
        /\ \A id \in ids : \E o \in Range(objs) : o.id = id /\ st[id] = o.spec
        /\ \A id \in Present \ ids : st[id] = cluster[id]
    BY <1>3, <1>4, WithRead
  <1>6. is = DOMAIN objs => ids = IdsOf(objs)
    BY DEF IdsIn, IdsOf
  <1> HIDE DEF ids, st
  <1>7. /\ \A id \in DOMAIN st : id.gvr \in Kinds
        /\ \A id \in DOMAIN st : id.gvr = "persistentvolumeclaims" => st[id] = Bare
    <2>1. ASSUME NEW id \in ids
          PROVE  /\ id.gvr \in Kinds
                 /\ id.gvr = "persistentvolumeclaims" => st[id] = Bare
      <3>1. PICK o \in Range(objs) : o.id = id /\ st[id] = o.spec
        BY <1>5
      <3>2. id.gvr \in Kinds
        BY <1>3, <3>1
      <3>3. id.gvr = "persistentvolumeclaims" => st[id] = Bare
        BY <1>3, <3>1
      <3>4. QED
        BY <3>2, <3>3
    <2>2. ASSUME NEW id \in Present, id \notin ids
          PROVE  /\ id.gvr \in Kinds
                 /\ id.gvr = "persistentvolumeclaims" => st[id] = Bare
      BY <1>5, <2>2 DEF Inv, TypeOK, BareClaims, Kinds
    <2>3. QED
      BY <1>5, <2>1, <2>2
  <1>8. CASE cluster' = st /\ deployed' = None
    <2>1. TypeOK'
      BY <1>1, <1>7, <1>8 DEF Inv, TypeOK, Present, Kinds
    <2>2. BareClaims'
      BY <1>7, <1>8 DEF BareClaims, Present
    <2>3. QED
      BY <1>8, <2>1, <2>2 DEF Inv
  <1>9. CASE is = DOMAIN objs /\ cluster' = Pruned(st, IdsOf(objs)) /\ deployed' = [app |-> app, target |-> target]
    <2>1. cluster' = Pruned(st, ids)
      BY <1>6, <1>9
    <2>2. /\ DOMAIN cluster' = {id \in DOMAIN st : id \in ids \/ id.gvr \notin PrunableGVRs}
          /\ \A id \in DOMAIN cluster' : cluster'[id] = st[id]
      BY <2>1, PrunedRead
    <2>3. Holds(cluster', objs)
      BY <1>5, <1>6, <1>9, <2>2 DEF Holds
    <2>4. deployed'.app = app /\ deployed'.target = target
      BY <1>9
    <2>5. TypeOK'
      BY <1>1, <1>2, <1>7, <2>2, <2>4 DEF Inv, TypeOK, Present, Kinds
    <2>6. BareClaims'
      BY <1>7, <2>2 DEF BareClaims, Present
    <2>7. QED
      BY <1>2, <2>3, <2>4, <2>5, <2>6 DEF Inv, objs
  <1>10. QED
    BY <1>1, <1>8, <1>9 DEF st

LEMMA RestKeeps == ASSUME Inv, ConfigureBackup \/ Down \/ CreateClaims PROVE Inv'
  <1>1. CASE ConfigureBackup
    BY <1>1 DEF ConfigureBackup, Inv, TypeOK, BareClaims, Present
  <1>2. CASE Down
    <2>1. /\ cluster' = Pruned(cluster, {}) /\ deployed' = None
          /\ UNCHANGED <<file, env, target, edits>>
      BY <1>2 DEF Down
    <2> DEFINE left == Pruned(cluster, {})
    <2>2. /\ DOMAIN left = {id \in DOMAIN cluster : id \in {} \/ id.gvr \notin PrunableGVRs}
          /\ \A id \in DOMAIN left : left[id] = cluster[id]
      BY PrunedRead
    <2> HIDE DEF left
    <2>3. DOMAIN cluster' \subseteq DOMAIN cluster /\ \A id \in DOMAIN cluster' : cluster'[id] = cluster[id]
      BY <2>1, <2>2 DEF left
    <2>4. QED
      BY <2>1, <2>3 DEF Inv, TypeOK, BareClaims, Present
  <1>3. CASE CreateClaims
    <2> DEFINE made == UNION {TemplateClaims(o) : o \in Of("statefulsets")}
               missing == made \ Present
    <2>1. /\ cluster' = [id \in Present \cup missing |-> IF id \in missing THEN Bare ELSE cluster[id]]
          /\ UNCHANGED <<file, env, target, deployed, edits>>
      BY <1>3 DEF CreateClaims
    <2>2. ASSUME NEW id \in made PROVE id.gvr = "persistentvolumeclaims"
      <3>1. PICK o \in Of("statefulsets") : id \in TemplateClaims(o)
        OBVIOUS
      <3>2. PICK v, i : id = Id("persistentvolumeclaims", TemplateClaim(v, o.name, i))
        BY <3>1 DEF TemplateClaims
      <3>3. QED
        BY <3>2 DEF Id
    <2> HIDE DEF made
    <2>3. /\ DOMAIN cluster' = Present \cup missing
          /\ \A id \in Present : cluster'[id] = cluster[id]
          /\ \A id \in missing : cluster'[id] = Bare
      BY <2>1
    <2>4. TypeOK' /\ BareClaims'
      BY <2>1, <2>2, <2>3 DEF Inv, TypeOK, BareClaims, Present
    <2>5. ASSUME NEW objs, Holds(cluster, objs) PROVE Holds(cluster', objs)
      BY <2>1, <2>2, <2>3, <2>5 DEF Holds, Present, PrunableGVRs
    <2>6. QED
      BY <2>1, <2>4, <2>5 DEF Inv
  <1>4. QED
    BY <1>1, <1>2, <1>3

LEMMA NextKeeps == ASSUME Inv, [Next]_vars PROVE Inv'
  <1>1. CASE UNCHANGED vars
    BY <1>1 DEF vars, Inv, TypeOK, BareClaims, Present
  <1>2. CASE Next
    BY <1>2, UserKeeps, UpKeeps, RestKeeps DEF Next
  <1>3. QED
    BY <1>1, <1>2

LEMMA Kept == Spec => []Inv
  <1>1. Inv /\ [Next]_vars => Inv'
    BY NextKeeps
  <1>2. QED
    BY <1>1, InitInv, PTL DEF Spec

\* Every variable keeps its type: what is in the namespace is of a resource that a
\* prune sweeps, or a claim (kube.PrunableGVRs), and what is deployed was accepted.
THEOREM RedeployTypeSafe == Spec => []TypeOK
  <1>1. Inv => TypeOK
    BY DEF Inv
  <1>2. QED
    BY <1>1, Kept, PTL

\* After an up that got through, the namespace holds beside claims what the file
\* compiles to and nothing else, whatever file or failed up came before.
THEOREM ClusterAlwaysManifest == Spec => []ClusterIsManifest
  <1>1. ASSUME Inv PROVE ClusterIsManifest
    <2> DEFINE objs == Objects(deployed.app, deployed.target)
    <2>1. SUFFICES ASSUME deployed # None
                   PROVE  Present \ Of("persistentvolumeclaims") = IdsOf(objs) \ Of("persistentvolumeclaims")
      BY DEF ClusterIsManifest
    <2>2. Holds(cluster, objs) /\ \A id \in Present : id.gvr \in PrunableGVRs \cup {"persistentvolumeclaims"}
      BY <1>1, <2>1 DEF Inv, TypeOK
    <2> HIDE DEF objs
    <2>3. QED
      BY <2>2 DEF Holds, Of, Present
  <1>2. QED
    BY <1>1, Kept, PTL

-----------------------------------------------------------------------------
(***************************************************************************)
(* What the objects of a service refer to.                                 *)
(***************************************************************************)

\* A finite set, enumerated.
LEMMA Enumerated ==
  ASSUME NEW S, IsFiniteSet(S)
  PROVE  List(SetToSeq(S)) /\ Range(SetToSeq(S)) = S
  <1> DEFINE n == Cardinality(S)
             f == SetToSeq(S)
  <1>1. n \in Nat /\ ExistsBijection(1..n, S)
    BY FS_CardinalityType
  <1>2. f \in [1..n -> S] /\ IsInjective(f)
    <2>1. \E g \in [1..n -> S] : IsInjective(g)
      BY <1>1 DEF ExistsBijection, Bijection, Injection
    <2>2. QED
      BY <2>1 DEF SetToSeq
  <1> HIDE DEF f, n
  <1>3. IsFiniteSet(1..n) /\ Cardinality(1..n) = n
    BY <1>1, FS_Interval
  <1>4. f \in Surjection(1..n, S)
    <2>1. f \in Injection(1..n, S)
      BY <1>2 DEF Injection
    <2>2. QED
      BY <1>3, <2>1, FS_Injection DEF n
  <1>5. Range(f) = S
    BY <1>2, <1>4 DEF Surjection, Range
  <1>6. List(f)
    BY <1>1, <1>2, Listed
  <1>7. QED
    BY <1>5, <1>6 DEF f

LEMMA FinitePorts ==
  ASSUME NEW svc \in Service
  PROVE  /\ IsFiniteSet(AllPorts(svc)) /\ IsFiniteSet(svc.expose)
         /\ svc.sidecar # None => IsFiniteSet(svc.sidecar.ports)
  <1>1. svc.expose \in PortSet /\ svc.ports \in Seq(Port) /\ svc.sidecar \in Sidecar \cup {None}
    BY DEF Service
  <1>2. IsFiniteSet(Range(svc.ports))
    <2> DEFINE ps == svc.ports
    <2>1. ps \in [1..Len(ps) -> Range(ps)] /\ Len(ps) \in Nat
      BY <1>1, ListRead DEF List
    <2>2. ps \in Surjection(1..Len(ps), Range(ps))
      BY <2>1 DEF Surjection, Range
    <2>3. IsFiniteSet(1..Len(ps))
      BY <2>1, FS_Interval
    <2>4. QED
      BY <2>2, <2>3, FS_Surjection
  <1>3. IsFiniteSet(AllPorts(svc))
    <2> DEFINE all == {svc.port} \cup Range(svc.ports)
    <2>1. IsFiniteSet(all)
      BY <1>2, FS_Singleton, FS_Union
    <2>2. AllPorts(svc) \in SUBSET all
      BY DEF AllPorts
    <2> HIDE DEF all
    <2>3. QED
      BY <2>1, <2>2, FS_Subset
  <1>4. QED
    BY <1>1, <1>3 DEF PortSet, Sidecar

\* An object that only has ports, and the Service of a service that listens.
LEMMA PortsUse ==
  ASSUME NEW s, NEW svc
  PROVE  \A o \in Range(ClusterIP(s, svc)) \cup Range(NodePorts(s, svc)) : o.spec.uses = {} /\ o.spec.backend = 0
  <1> DEFINE sidecar == IF svc.sidecar = None THEN {} ELSE svc.sidecar.ports
             ports == SetToSeq(AllPorts(svc)) \o SetToSeq(sidecar)
             c == Object("services", s, [Bare EXCEPT !.ports = ports])
             d == Object("services", NodePortName(s), [Bare EXCEPT !.ports = SetToSeq(svc.expose)])
  <1>1. ClusterIP(s, svc) = IF ports = <<>> THEN <<>> ELSE <<c>>
    BY DEF ClusterIP
  <1>2. NodePorts(s, svc) = IF svc.expose = {} THEN <<>> ELSE <<d>>
    BY DEF NodePorts
  <1>3. c.spec.uses = {} /\ c.spec.backend = 0 /\ d.spec.uses = {} /\ d.spec.backend = 0
    BY DEF Object, Bare
  <1> HIDE DEF c, d, ports
  <1>4. Range(ClusterIP(s, svc)) \subseteq {c} /\ Range(NodePorts(s, svc)) \subseteq {d}
    BY <1>1, <1>2, One, Nil
  <1>5. QED
    BY <1>3, <1>4

LEMMA ClusterIPServes ==
  ASSUME NEW s, NEW svc \in Service, NEW p \in AllPorts(svc)
  PROVE  /\ Range(ClusterIP(s, svc)) # {}
         /\ \A o \in Range(ClusterIP(s, svc)) : p \in Range(o.spec.ports)
  <1> DEFINE sidecar == IF svc.sidecar = None THEN {} ELSE svc.sidecar.ports
             own == SetToSeq(AllPorts(svc))
             theirs == SetToSeq(sidecar)
             ports == own \o theirs
             c == Object("services", s, [Bare EXCEPT !.ports = ports])
  <1>1. List(own) /\ Range(own) = AllPorts(svc) /\ List(theirs)
    BY FinitePorts, Enumerated, FS_EmptySet
  <1> HIDE DEF own, theirs
  <1>2. List(ports) /\ p \in Range(ports)
    BY <1>1, Concat
  <1>3. ports # <<>>
    BY <1>2, Nil
  <1>4. ClusterIP(s, svc) = <<c>>
    BY <1>3 DEF ClusterIP, own, theirs
  <1>5. c.spec.ports = ports
    BY DEF Object, Bare
  <1> HIDE DEF c, ports
  <1>6. QED
    BY <1>2, <1>4, <1>5, One

LEMMA WorkloadUses ==
  ASSUME NEW app \in App, NEW s \in Services(app)
  PROVE  /\ Workload(app, s).spec.uses \subseteq
              PodUses(app, s) \cup ClaimIds(app.services[s].volumes \cap Standalone(app))
         /\ Workload(app, s).spec.backend = 0
  <1> DEFINE svc == app.services[s]
  <1>1. svc.volumes \subseteq VolumeName
    BY ServiceShape DEF Service
  <1>2. svc.schedule => svc.volumes \subseteq Standalone(app)
    BY <1>1 DEF Standalone, Mounters
  <1>3. svc.schedule => ClaimIds(svc.volumes) = ClaimIds(svc.volumes \cap Standalone(app))
    BY <1>2 DEF ClaimIds
  <1>4. CASE svc.schedule
    <2>1. Workload(app, s).spec.uses = PodUses(app, s) \cup ClaimIds(svc.volumes)
      BY <1>4 DEF Workload, Object, Bare
    <2>2. Workload(app, s).spec.backend = 0
      BY <1>4 DEF Workload, Object, Bare
    <2>3. QED
      BY <1>3, <1>4, <2>1, <2>2
  <1>5. CASE ~svc.schedule
    <2>1. Workload(app, s).spec.uses \subseteq PodUses(app, s) \cup ClaimIds(svc.volumes \cap Standalone(app))
      BY <1>5 DEF Workload, Object, Bare
    <2>2. Workload(app, s).spec.backend = 0
      BY <1>5 DEF Workload, Object, Bare
    <2>3. QED
      BY <2>1, <2>2
  <1>6. QED
    BY <1>4, <1>5

\* A service with hosts that is no redirect has a main port.
LEMMA MainServed ==
  ASSUME NEW app, NEW svc \in Service, ValidService(app, svc), svc.http # None, Runs(svc)
  PROVE  MainPort(svc) \in AllPorts(svc) /\ AllPorts(svc) # {}
  <1>1. MainPort(svc) # 0
    BY DEF ValidService, ValidHTTP, Runs
  <1>2. CASE svc.port # 0
    BY <1>2 DEF MainPort, AllPorts
  <1>3. CASE svc.port = 0
    <2>1. svc.ports \in Seq(Port) /\ svc.ports # <<>> /\ MainPort(svc) = svc.ports[1]
      BY <1>1, <1>3 DEF MainPort, Service
    <2>2. 1 \in DOMAIN svc.ports
      BY <2>1
    <2>3. svc.ports[1] \in Range(svc.ports)
      BY <2>2, RangeRead
    <2>4. QED
      BY <1>1, <2>1, <2>3 DEF AllPorts
  <1>4. QED
    BY <1>2, <1>3

\* The objects that make a reference of a service good are compiled with it.
LEMMA UsesCompiled ==
  ASSUME NEW app \in App, NEW tgt, NEW s \in Services(app), Valid(app), ~Ignored(app.services[s]),
         NEW o \in Range(ServiceObjects(app, s)), NEW u \in o.spec.uses
  PROVE  \E p \in Range(Objects(app, tgt)) : p.id = u
  <1> DEFINE svc == app.services[s]
  <1>1. svc \in Service /\ ValidService(app, svc)
    BY ServiceShape DEF Valid
  <1>2. ASSUME Workload(app, s) = o, Runs(svc) \/ svc.schedule PROVE \E p \in Range(Objects(app, tgt)) : p.id = u
    <2>1. u \in PodUses(app, s) \/ u \in ClaimIds(svc.volumes \cap Standalone(app))
      BY <1>2, WorkloadUses
    <2>2. CASE u \in ClaimIds(svc.volumes \cap Standalone(app))
      <3>1. PICK v \in Standalone(app) : u = Id("persistentvolumeclaims", v)
        BY <2>2 DEF ClaimIds
      <3>2. Claim(v) \in Range(Objects(app, tgt))
        BY VolumeObjectsRead, ObjectsRead
      <3>3. Claim(v).id = u
        BY <3>1 DEF Claim, Object
      <3>4. QED
        BY <3>2, <3>3
    <2>3. CASE NeedsPull(app) /\ u = Id("secrets", PullSecretName)
      <3>1. PullSecret \in Range(Objects(app, tgt))
        BY <2>3, ObjectsRead
      <3>2. PullSecret.id = u
        BY <2>3 DEF PullSecret, Object
      <3>3. QED
        BY <3>1, <3>2
    <2>4. CASE svc.secrets /\ u = Id("secrets", SecretsName(s))
      <3> DEFINE p == Object("secrets", SecretsName(s), Bare)
      <3>1. Runs(svc)
        BY <1>2, <2>4 DEF Ignored
      <3>2. p.id = u
        BY <2>4 DEF Object
      <3> HIDE DEF p
      <3>3. p \in Range(ServiceObjects(app, s))
        BY <2>4, <3>1, ServiceObjectsRead DEF p
      <3>4. QED
        BY <3>2, <3>3, ObjectsRead
    <2>5. ASSUME NEW kind \in svc.files, u = FilesId(s, kind)
          PROVE  \E p \in Range(Objects(app, tgt)) : p.id = u
      <3> DEFINE p == IF kind = "from" THEN Object("secrets", FilesName(s, "from"), Bare)
                      ELSE Object("configmaps", FilesName(s, "plain"), Bare)
      <3>1. Runs(svc) /\ (kind = "from" \/ kind = "plain")
        BY <1>1, <1>2, <2>5 DEF Ignored, Service
      <3>2. p.id = u
        BY <2>5, <3>1 DEF Object, FilesId
      <3>3. p \in Range(ServiceObjects(app, s))
        <4>1. CASE kind = "from"
          <5>1. p = Object("secrets", FilesName(s, "from"), Bare)
            BY <4>1
          <5> HIDE DEF p
          <5>2. QED
            BY <2>5, <3>1, <4>1, <5>1, ServiceObjectsRead
        <4>2. CASE kind = "plain"
          <5>1. p = Object("configmaps", FilesName(s, "plain"), Bare)
            BY <4>2
          <5> HIDE DEF p
          <5>2. QED
            BY <2>5, <3>1, <4>2, <5>1, ServiceObjectsRead
        <4>3. QED
          BY <3>1, <4>1, <4>2
      <3> HIDE DEF p
      <3>4. QED
        BY <3>2, <3>3, ObjectsRead
    <2>6. u \in PodUses(app, s) =>
            \/ NeedsPull(app) /\ u = Id("secrets", PullSecretName)
            \/ svc.secrets /\ u = Id("secrets", SecretsName(s))
            \/ \E kind \in svc.files : u = FilesId(s, kind)
      BY DEF PodUses
    <2>7. QED
      BY <2>1, <2>2, <2>3, <2>4, <2>5, <2>6
  <1>3. ASSUME Runs(svc), svc.http # None, o = Ingress(s, svc) PROVE \E p \in Range(Objects(app, tgt)) : p.id = u
    <2>1. u = Id("services", s)
      BY <1>3 DEF Ingress, Object, Bare
    <2>2. PICK p \in Range(ClusterIP(s, svc)) : TRUE
      <3>1. MainPort(svc) \in AllPorts(svc)
        BY <1>1, <1>3, MainServed
      <3>2. QED
        BY <1>1, <3>1, ClusterIPServes
    <2>3. p \in Ports(app, s)
      BY <1>1, <1>3, <2>2, MainServed DEF Ports
    <2>4. p.id = u
      BY <2>1, <2>2, PortsRead
    <2>5. QED
      BY <1>3, <2>3, <2>4, ServiceObjectsRead, ObjectsRead
  <1>4. CASE Runs(svc)
    <2>1. o \notin Ports(app, s)
      BY PortsUse DEF Ports
    <2>2. Bare.uses = {} /\ \A gvr, name : Object(gvr, name, Bare).spec = Bare
      BY DEF Bare, Object
    <2>3. o = Workload(app, s) \/ (svc.http # None /\ o = Ingress(s, svc))
      BY <1>4, <2>1, <2>2, ServiceObjectsRead
    <2>4. QED
      BY <1>2, <1>3, <1>4, <2>3
  <1>5. CASE ~Runs(svc)
    <2>1. \A i : \A p \in Range(Redirect(s, svc.http, i)) : p.spec.uses = {}
      BY RedirectRead
    <2>2. ~IsRedirect(svc) /\ o = Workload(app, s)
      BY <1>5, <2>1, RoutesRead
    <2>3. svc.schedule
      BY <1>5, <2>2 DEF Runs
    <2>4. QED
      BY <1>2, <2>2, <2>3
  <1>6. QED
    BY <1>4, <1>5

\* Only an Ingress routes, and to the service of its name.
LEMMA BackendRead ==
  ASSUME NEW app \in App, NEW s \in Services(app), NEW o \in Range(ServiceObjects(app, s)), o.spec.backend # 0
  PROVE  Runs(app.services[s]) /\ app.services[s].http # None /\ o = Ingress(s, app.services[s])
  <1>1. Workload(app, s).spec.backend = 0
    BY WorkloadUses
  <1>2. \A i : \A p \in Range(Redirect(s, app.services[s].http, i)) : p.spec.backend = 0
    BY RedirectRead
  <1>3. Runs(app.services[s])
    BY <1>1, <1>2, RoutesRead
  <1>4. Bare.backend = 0 /\ \A gvr, name : Object(gvr, name, Bare).spec = Bare
    BY DEF Bare, Object
  <1>5. o \notin Ports(app, s)
    BY PortsUse DEF Ports
  <1>6. QED
    BY <1>1, <1>3, <1>4, <1>5, ServiceObjectsRead

\* The Service named like a service is its own.
LEMMA ServiceNamed ==
  ASSUME NodePortsApart(ServiceName), NEW app \in App, NEW tgt, NEW s \in ServiceName,
         NEW p \in Range(Objects(app, tgt)), p.id = Id("services", s)
  PROVE  p \in Range(ClusterIP(s, app.services[s]))
  <1>1. p.id.gvr = "services" /\ p.id.name = s
    BY DEF Id
  <1>2. p # PullSecret /\ \A v : p # Claim(v)
    BY <1>1 DEF PullSecret, Claim, Object, Id
  <1>3. p \notin Range(VolumeObjects(app, tgt))
    BY <1>1, <1>2, VolumeObjectsRead, BackupJobsRead
  <1>4. PICK t \in Services(app) : p \in Range(ServiceObjects(app, t))
    BY <1>2, <1>3, ObjectsRead
  <1>5. p # Workload(app, t)
    BY <1>1, WorkloadKind
  <1>6. Runs(app.services[t])
    <2>1. \A i : \A q \in Range(Redirect(t, app.services[t].http, i)) : q.id.gvr \in {"configmaps", "httpproxies"}
      BY RedirectRead
    <2>2. p.id.gvr \notin {"configmaps", "httpproxies"}
      BY <1>1
    <2>3. QED
      BY <1>4, <1>5, <2>1, <2>2, RoutesRead
  <1>7. p # Ingress(t, app.services[t])
    BY <1>1 DEF Ingress, Object, Id
  <1>8. \A gvr, name : gvr # "services" => p # Object(gvr, name, Bare)
    BY <1>1 DEF Object, Id
  <1>9. p \in Ports(app, t)
    BY <1>4, <1>5, <1>6, <1>7, <1>8, ServiceObjectsRead
  <1>10. t \in ServiceName
    BY DEF Services
  <1>11. p \notin Range(NodePorts(t, app.services[t]))
    <2>1. NodePortName(t) # s
      BY <1>10 DEF NodePortsApart
    <2>2. Id("services", NodePortName(t)).name = NodePortName(t)
      BY DEF Id
    <2>3. QED
      BY <1>1, <2>1, <2>2, PortsRead
  <1>12. p \in Range(ClusterIP(t, app.services[t]))
    BY <1>9, <1>11 DEF Ports
  <1>13. t = s
    <2>1. Id("services", t).name = t
      BY DEF Id
    <2>2. QED
      BY <1>1, <1>12, <2>1, PortsRead
  <1>14. QED
    BY <1>12, <1>13

\* Whatever a pod or an Ingress of a deployed app refers to is in the namespace, and
\* the Service an Ingress routes to has its port: for all names of services but
\* those that end like another's NodePort Service, which would replace it.
THEOREM ReferencesAlwaysResolve ==
  ASSUME NodePortsApart(ServiceName)
  PROVE  Spec => []ReferencesResolve
  <1>1. ASSUME Inv PROVE ReferencesResolve
    <2> DEFINE app == deployed.app
               tgt == deployed.target
               all == Objects(app, tgt)
    <2>1. SUFFICES ASSUME deployed # None, NEW s \in Services(app), ~Ignored(app.services[s]),
                          NEW i \in DOMAIN ServiceObjects(app, s)
                   PROVE  LET o == ServiceObjects(app, s)[i]
                          IN  /\ o.spec.uses \subseteq Present
                              /\ o.spec.backend # 0 =>
                                   \E u \in o.spec.uses : o.spec.backend \in Range(cluster[u].ports)
      BY DEF ReferencesResolve
    <2> DEFINE o == ServiceObjects(app, s)[i]
               svc == app.services[s]
    <2>2. app \in App /\ Valid(app) /\ Holds(cluster, all)
      BY <1>1, <2>1 DEF Inv, TypeOK
    <2>3. o \in Range(ServiceObjects(app, s))
      BY RangeRead
    <2> HIDE DEF o, app, tgt, all
    <2>4. ASSUME NEW u \in o.spec.uses PROVE u \in IdsOf(all)
      <3>1. \E p \in Range(all) : p.id = u
        BY <2>1, <2>2, <2>3, UsesCompiled DEF all
      <3>2. QED
        BY <3>1, IdsRead
    <2>5. o.spec.uses \subseteq Present
      BY <2>2, <2>4 DEF Holds, Present
    <2>6. ASSUME o.spec.backend # 0
          PROVE  \E u \in o.spec.uses : o.spec.backend \in Range(cluster[u].ports)
      <3> DEFINE u == Id("services", s)
      <3>1. Runs(svc) /\ svc.http # None /\ o = Ingress(s, svc)
        BY <2>2, <2>3, <2>6, BackendRead
      <3>2. u \in o.spec.uses /\ o.spec.backend = MainPort(svc)
        BY <3>1 DEF Ingress, Object, Bare
      <3>3. svc \in Service /\ ValidService(app, svc)
        BY <2>2, ServiceShape DEF Valid
      <3>4. PICK p \in Range(all) : p.id = u /\ cluster[u] = p.spec
        BY <2>2, <2>4, <3>2 DEF Holds
      <3>5. p \in Range(ClusterIP(s, svc))
        BY <2>2, <3>4, ServiceNamed, ServiceShape DEF all
      <3>6. MainPort(svc) \in Range(p.spec.ports)
        BY <3>1, <3>3, <3>5, MainServed, ClusterIPServes
      <3>7. QED
        BY <3>2, <3>4, <3>6
    <2>7. QED
      BY <2>1, <2>5, <2>6 DEF o
  <1>2. QED
    BY <1>1, Kept, PTL

-----------------------------------------------------------------------------
(***************************************************************************)
(* Hosts and certificates.                                                 *)
(***************************************************************************)

\* The services that route hosts, and a certificate that a service asks for.
Routes(app) == {s \in Services(app) : app.services[s].http # None}
Certificate(s, http, i) == [secret |-> TLSSecretName(s, i, http.hosts[i]), host |-> http.hosts[i]]

\* Of the objects of a service that is no redirect only its Ingress routes hosts.
LEMMA IngressRead ==
  ASSUME NEW app \in App, NEW s \in Services(app), ~IsRedirect(app.services[s]),
         NEW o \in Range(ServiceObjects(app, s))
  PROVE  \/ o.spec.hosts = {} /\ o.spec.certs = {}
         \/ /\ s \in Routes(app) /\ o.id = Id("ingresses", s)
            /\ o.spec.hosts = Range(app.services[s].http.hosts)
            /\ \A c \in o.spec.certs : \E i \in DOMAIN app.services[s].http.hosts :
                 c = Certificate(s, app.services[s].http, i)
  <1> DEFINE svc == app.services[s]
             Quiet(p) == p.spec.hosts = {} /\ p.spec.certs = {}
  <1>1. Quiet(Workload(app, s))
    <2>1. CASE svc.schedule
      BY <2>1 DEF Workload, Object, Bare
    <2>2. CASE ~svc.schedule /\ ~IsStateful(svc)
      BY <2>2 DEF Workload, Object, Bare
    <2>3. CASE ~svc.schedule /\ IsStateful(svc)
      BY <2>3 DEF Workload, Object, Bare
    <2>4. QED
      BY <2>1, <2>2, <2>3
  <1>2. \A gvr, name : Quiet(Object(gvr, name, Bare))
    BY DEF Object, Bare
  <1>3. \A p \in Ports(app, s) : Quiet(p)
    <2> DEFINE sidecar == IF svc.sidecar = None THEN {} ELSE svc.sidecar.ports
               ports == SetToSeq(AllPorts(svc)) \o SetToSeq(sidecar)
               c == Object("services", s, [Bare EXCEPT !.ports = ports])
               d == Object("services", NodePortName(s), [Bare EXCEPT !.ports = SetToSeq(svc.expose)])
    <2>1. /\ ClusterIP(s, svc) = <<>> \/ ClusterIP(s, svc) = <<c>>
          /\ NodePorts(s, svc) = <<>> \/ NodePorts(s, svc) = <<d>>
      BY DEF ClusterIP, NodePorts
    <2>2. Quiet(c) /\ Quiet(d)
      BY DEF Object, Bare
    <2> HIDE DEF c, d, Quiet
    <2>3. Ports(app, s) \subseteq {c, d}
      BY <2>1, One, Nil DEF Ports
    <2>4. QED
      BY <2>2, <2>3
  <1>4. CASE o = Ingress(s, svc) /\ svc.http # None
    <2>1. /\ o.id = Id("ingresses", s) /\ o.spec.hosts = Range(svc.http.hosts)
          /\ o.spec.certs = Certificates(s, svc.http)
      BY <1>4 DEF Ingress, Object, Bare
    <2>2. \A c \in Certificates(s, svc.http) : \E i \in DOMAIN svc.http.hosts : c = Certificate(s, svc.http, i)
      BY DEF Certificates, Certificate
    <2>3. QED
      BY <1>4, <2>1, <2>2 DEF Routes
  <1> HIDE DEF Quiet
  <1>5. CASE ~(o = Ingress(s, svc) /\ svc.http # None)
    <2>1. CASE Runs(svc)
      <3>1. Quiet(o)
        BY <1>1, <1>2, <1>3, <1>5, <2>1, ServiceObjectsRead
      <3>2. QED
        BY <3>1 DEF Quiet
    <2>2. CASE ~Runs(svc)
      <3>1. o = Workload(app, s)
        BY <2>2, RoutesRead
      <3>2. QED
        BY <1>1, <3>1 DEF Quiet
    <2>3. QED
      BY <2>1, <2>2
  <1>6. QED
    BY <1>4, <1>5

\* The objects of a redirect are a proxy for each host and requests of certificates.
LEMMA ProxiesRead ==
  ASSUME NEW app \in App, NEW s \in Services(app), IsRedirect(app.services[s]),
         NEW o \in Range(ServiceObjects(app, s))
  PROVE  /\ s \in Routes(app)
         /\ \E i \in DOMAIN app.services[s].http.hosts :
              /\ \/ o.spec.hosts = {}
                 \/ /\ o.id = Id("httpproxies", IF i = 1 THEN s ELSE s \o HostSlug(app.services[s].http.hosts[i]))
                    /\ o.spec.hosts = {app.services[s].http.hosts[i]}
              /\ o.spec.certs \subseteq {Certificate(s, app.services[s].http, i)}
  <1> DEFINE http == app.services[s].http
  <1>1. s \in Routes(app)
    BY DEF Routes, IsRedirect
  <1>2. ~Runs(app.services[s])
    BY DEF Runs
  <1>3. PICK i \in DOMAIN http.hosts : o \in Range(Redirect(s, http, i))
    BY <1>2, RoutesRead
  <1> DEFINE h == http.hosts[i]
             secret == TLSSecretName(s, i, h)
             name == IF i = 1 THEN s ELSE s \o HostSlug(h)
             c == Object("configmaps", secret, [Bare EXCEPT !.certs = {[secret |-> secret, host |-> h]}])
             p == Object("httpproxies", name, [Bare EXCEPT !.hosts = {h}])
             cs == IF http.tls THEN <<c>> ELSE <<>>
  <1>4. Redirect(s, http, i) = cs \o <<p>>
    BY DEF Redirect
  <1>5. /\ c.spec.hosts = {} /\ c.spec.certs = {Certificate(s, http, i)}
        /\ p.id = Id("httpproxies", name) /\ p.spec.hosts = {h} /\ p.spec.certs = {}
    BY DEF Object, Bare, Certificate
  <1> HIDE DEF c, p
  <1>6. List(cs) /\ Range(cs) \subseteq {c} /\ List(<<p>>) /\ Range(<<p>>) = {p}
    BY One, Nil
  <1> HIDE DEF cs
  <1>7. Range(cs \o <<p>>) \subseteq {c, p}
    BY <1>6, Concat
  <1>8. o = c \/ o = p
    BY <1>3, <1>4, <1>7
  <1>9. QED
    BY <1>1, <1>3, <1>5, <1>8

\* What is in the namespace is quiet, or routes hosts of one service and asks for
\* certificates of it: id is the object, s the service.
LEMMA RoutedRead ==
  ASSUME Inv, deployed # None, NEW id \in Present
  PROVE  \/ cluster[id].hosts = {} /\ cluster[id].certs = {}
         \/ \E s \in Routes(deployed.app) :
              LET http == deployed.app.services[s].http IN
              /\ \/ cluster[id].hosts = {}
                 \/ /\ ~http.redirect /\ id = Id("ingresses", s)
                    /\ cluster[id].hosts = Range(http.hosts)
                 \/ /\ http.redirect
                    /\ \E i \in DOMAIN http.hosts :
                         /\ id = Id("httpproxies", IF i = 1 THEN s ELSE s \o HostSlug(http.hosts[i]))
                         /\ cluster[id].hosts = {http.hosts[i]}
              /\ \A c \in cluster[id].certs : \E i \in DOMAIN http.hosts : c = Certificate(s, http, i)
  <1> DEFINE app == deployed.app
             objs == Objects(app, deployed.target)
             Quiet(p) == p.spec.hosts = {} /\ p.spec.certs = {}
  <1>1. app \in App /\ Holds(cluster, objs)
    BY DEF Inv
  <1>2. Bare.hosts = {} /\ Bare.certs = {} /\ \A gvr, name : Object(gvr, name, Bare).spec = Bare
    BY DEF Bare, Object
  <1>3. CASE id.gvr \notin PrunableGVRs
    <2>1. id.gvr = "persistentvolumeclaims"
      BY <1>3 DEF Inv, TypeOK
    <2>2. QED
      BY <1>2, <2>1 DEF Inv, BareClaims
  <1>4. CASE id.gvr \in PrunableGVRs
    <2> HIDE DEF app, objs
    <2>1. id \in IdsOf(objs)
      BY <1>1, <1>4 DEF Holds, Present
    <2>2. PICK o \in Range(objs) : o.id = id /\ cluster[id] = o.spec
      BY <1>1, <2>1 DEF Holds
    <2>3. Quiet(PullSecret) /\ \A v : Quiet(Claim(v))
      BY <1>2 DEF PullSecret, Claim
    <2>4. \A v : \A p \in Range(BackupJobs(app, v, deployed.target)) : Quiet(p)
      BY <1>1, BackupJobsRead
    <2> HIDE DEF Quiet
    <2>5. Quiet(o) \/ \E s \in Services(app) : o \in Range(ServiceObjects(app, s))
      BY <1>1, <2>2, <2>3, <2>4, ObjectsRead, VolumeObjectsRead DEF objs
    <2>6. CASE Quiet(o)
      BY <2>2, <2>6 DEF Quiet
    <2>7. ASSUME NEW s \in Services(app), o \in Range(ServiceObjects(app, s)), ~Quiet(o)
          PROVE  /\ s \in Routes(app)
                 /\ LET http == app.services[s].http IN
                    /\ \/ cluster[id].hosts = {}
                       \/ /\ ~http.redirect /\ id = Id("ingresses", s)
                          /\ cluster[id].hosts = Range(http.hosts)
                       \/ /\ http.redirect
                          /\ \E i \in DOMAIN http.hosts :
                               /\ id = Id("httpproxies", IF i = 1 THEN s ELSE s \o HostSlug(http.hosts[i]))
                               /\ cluster[id].hosts = {http.hosts[i]}
                    /\ \A c \in cluster[id].certs : \E i \in DOMAIN http.hosts : c = Certificate(s, http, i)
      <3> DEFINE http == app.services[s].http
      <3>1. CASE IsRedirect(app.services[s])
        <4>1. PICK i \in DOMAIN http.hosts :
                /\ \/ o.spec.hosts = {}
                   \/ /\ o.id = Id("httpproxies", IF i = 1 THEN s ELSE s \o HostSlug(http.hosts[i]))
                      /\ o.spec.hosts = {http.hosts[i]}
                /\ o.spec.certs \subseteq {Certificate(s, http, i)}
          BY <1>1, <2>7, <3>1, ProxiesRead
        <4>2. s \in Routes(app) /\ http.redirect
          BY <3>1 DEF Routes, IsRedirect
        <4>3. \A c \in cluster[id].certs : \E j \in DOMAIN http.hosts : c = Certificate(s, http, j)
          BY <2>2, <4>1
        <4>4. QED
          BY <2>2, <4>1, <4>2, <4>3
      <3>2. CASE ~IsRedirect(app.services[s])
        <4>1. /\ s \in Routes(app) /\ o.id = Id("ingresses", s)
              /\ o.spec.hosts = Range(http.hosts)
              /\ \A c \in o.spec.certs : \E i \in DOMAIN http.hosts : c = Certificate(s, http, i)
          BY <1>1, <2>7, <3>2, IngressRead DEF Quiet
        <4>2. ~http.redirect
          BY <3>2, <4>1 DEF Routes, IsRedirect
        <4>3. QED
          BY <2>2, <4>1, <4>2
      <3>3. QED
        BY <3>1, <3>2
    <2>8. QED
      BY <2>5, <2>6, <2>7 DEF app
  <1>5. QED
    BY <1>3, <1>4

\* No two objects of a deployed app route a host, whatever the names are.
LEMMA HostsRouteApart ==
  ASSUME Inv, deployed # None, NEW o \in Present, NEW p \in Present, o # p
  PROVE  cluster[o].hosts \cap cluster[p].hosts = {}
  <1> DEFINE app == deployed.app
  <1>1. app \in App /\ Valid(app)
    BY DEF Inv, TypeOK
  <1>2. /\ \A s \in Services(app) : IsInjective(HostsOf(app.services[s]))
        /\ \A s, t \in Services(app) :
             s # t => Range(HostsOf(app.services[s])) \cap Range(HostsOf(app.services[t])) = {}
    BY <1>1 DEF Valid, HostsServedOnce
  <1>3. \A s \in Routes(app) : s \in Services(app) /\ HostsOf(app.services[s]) = app.services[s].http.hosts
    BY DEF Routes, HostsOf
  <1>4. SUFFICES ASSUME NEW h, h \in cluster[o].hosts, h \in cluster[p].hosts PROVE FALSE
    OBVIOUS
  <1> HIDE DEF app
  <1> DEFINE RoutesIt(q, s) ==
               LET http == app.services[s].http IN
               /\ h \in Range(http.hosts)
               /\ \/ ~http.redirect /\ q = Id("ingresses", s)
                  \/ /\ http.redirect
                     /\ \E i \in DOMAIN http.hosts :
                          /\ q = Id("httpproxies", IF i = 1 THEN s ELSE s \o HostSlug(http.hosts[i]))
                          /\ http.hosts[i] = h
  <1>5. ASSUME NEW q \in Present, h \in cluster[q].hosts PROVE \E s \in Routes(app) : RoutesIt(q, s)
    <2>1. PICK s \in Routes(app) :
            LET http == app.services[s].http IN
            \/ /\ ~http.redirect /\ q = Id("ingresses", s)
               /\ cluster[q].hosts = Range(http.hosts)
            \/ /\ http.redirect
               /\ \E i \in DOMAIN http.hosts :
                    /\ q = Id("httpproxies", IF i = 1 THEN s ELSE s \o HostSlug(http.hosts[i]))
                    /\ cluster[q].hosts = {http.hosts[i]}
      BY <1>5, RoutedRead DEF app
    <2>2. QED
      BY <1>5, <2>1, RangeRead
  <1>6. PICK s \in Routes(app) : RoutesIt(o, s)
    BY <1>4, <1>5
  <1>7. PICK t \in Routes(app) : RoutesIt(p, t)
    BY <1>4, <1>5
  <1>8. s = t
    BY <1>2, <1>3, <1>6, <1>7
  <1>9. CASE ~app.services[s].http.redirect
    BY <1>6, <1>7, <1>8, <1>9
  <1>10. CASE app.services[s].http.redirect
    <2> DEFINE hosts == app.services[s].http.hosts
    <2>1. PICK i \in DOMAIN hosts :
            o = Id("httpproxies", IF i = 1 THEN s ELSE s \o HostSlug(hosts[i])) /\ hosts[i] = h
      BY <1>6, <1>10
    <2>2. PICK j \in DOMAIN hosts :
            p = Id("httpproxies", IF j = 1 THEN s ELSE s \o HostSlug(hosts[j])) /\ hosts[j] = h
      BY <1>7, <1>8, <1>10
    <2>3. i = j
      BY <1>2, <1>3, <2>1, <2>2 DEF IsInjective
    <2>4. QED
      BY <2>1, <2>2, <2>3
  <1>11. QED
    BY <1>9, <1>10

\* An app that is deployed routes no host twice, whatever names its services and its
\* hosts have (hostOwner in validate and the names the compiler gives its routes).
THEOREM HostsRoutedOnce ==
  Spec => [](deployed # None =>
               \A o, p \in Present : o # p => cluster[o].hosts \cap cluster[p].hosts = {})
  <1>1. Inv => (deployed # None => \A o, p \in Present : o # p => cluster[o].hosts \cap cluster[p].hosts = {})
    BY HostsRouteApart
  <1>2. QED
    BY <1>1, Kept, PTL

-----------------------------------------------------------------------------
(***************************************************************************)
(* Claims, their backups, and what the backup commands resolve.            *)
(***************************************************************************)

LEMMA NameTypes ==
  /\ ServiceName \subseteq Seq(STRING) \ {<<>>} /\ VolumeName \subseteq Seq(STRING) \ {<<>>}
  /\ IsFiniteSet(ServiceName) /\ IsFiniteSet(VolumeName)
  <1>1. /\ ServiceName \subseteq Seq(STRING) \ {<<>>} /\ VolumeName \subseteq Seq(STRING) \ {<<>>}
    BY NamesAssumption, ListRead DEF ServiceName, VolumeName
  <1>2. ASSUME NEW s, List(s) PROVE IsFiniteSet(Range(s))
    <2>1. s \in [1..Len(s) -> Range(s)] /\ Len(s) \in Nat
      BY <1>2 DEF List
    <2>2. \A x \in Range(s) : \E i \in 1..Len(s) : s[i] = x
      BY <1>2, ListShape, RangeRead
    <2>3. s \in Surjection(1..Len(s), Range(s))
      BY <2>1, <2>2 DEF Surjection
    <2>4. IsFiniteSet(1..Len(s))
      BY <2>1, FS_Interval
    <2>5. QED
      BY <2>3, <2>4, FS_Surjection
  <1>3. QED
    BY <1>1, <1>2, Sorted DEF ServiceName, VolumeName

\* The words of two ordinals differ.
LEMMA OrdinalsDiffer ==
  ASSUME NEW i \in Nat, NEW j \in Nat, i < Len(Numerals), j < Len(Numerals)
  PROVE  /\ Ordinal(i) \in Seq(STRING) /\ Len(Ordinal(i)) = 1
         /\ Ordinal(i) = Ordinal(j) => i = j
  <1>1. /\ Numerals \in Seq(STRING) /\ Len(Numerals) \in Nat /\ DOMAIN Numerals = 1..Len(Numerals)
        /\ IsInjective(Numerals)
    BY NamesAssumption
  <1>2. /\ i + 1 \in DOMAIN Numerals /\ Numerals[i + 1] \in STRING
        /\ j + 1 \in DOMAIN Numerals /\ Numerals[j + 1] \in STRING
    BY <1>1
  <1>3. Ordinal(i) \in Seq(STRING) /\ Len(Ordinal(i)) = 1 /\ Ordinal(i)[1] = Numerals[i + 1]
    BY <1>2 DEF Ordinal
  <1>4. Ordinal(j)[1] = Numerals[j + 1]
    BY DEF Ordinal
  <1>5. Numerals[i + 1] = Numerals[j + 1] => i + 1 = j + 1
    BY <1>1, <1>2 DEF IsInjective
  <1>6. QED
    BY <1>3, <1>4, <1>5

\* Two ways to split a sequence at one place are the same.
LEMMA Cancel ==
  ASSUME NEW S, NEW s \in Seq(S), NEW t \in Seq(S), NEW a \in Seq(S), NEW b \in Seq(S),
         s \o a = t \o b, Len(a) = Len(b) \/ Len(s) = Len(t)
  PROVE  s = t /\ a = b
  <1>1. /\ Len(s) \in Nat /\ Len(t) \in Nat /\ Len(a) \in Nat /\ Len(b) \in Nat
        /\ Len(s \o a) = Len(s) + Len(a) /\ Len(t \o b) = Len(t) + Len(b)
    BY ConcatProperties, LenProperties
  <1>2. Len(s) = Len(t) /\ Len(a) = Len(b)
    BY <1>1
  <1>3. /\ \A i \in 1..(Len(s) + Len(a)) : (s \o a)[i] = IF i <= Len(s) THEN s[i] ELSE a[i - Len(s)]
        /\ \A i \in 1..(Len(t) + Len(b)) : (t \o b)[i] = IF i <= Len(t) THEN t[i] ELSE b[i - Len(t)]
    BY ConcatProperties
  <1>4. ASSUME NEW i \in 1..Len(s) PROVE s[i] = t[i]
    <2>1. i \in 1..(Len(s) + Len(a)) /\ i <= Len(s)
      BY <1>1
    <2>2. (s \o a)[i] = s[i] /\ (t \o b)[i] = t[i]
      BY <1>2, <1>3, <2>1
    <2>3. QED
      BY <2>2
  <1>5. ASSUME NEW i \in 1..Len(a) PROVE a[i] = b[i]
    <2> DEFINE k == Len(s) + i
    <2>1. k \in 1..(Len(s) + Len(a)) /\ ~(k <= Len(s)) /\ k - Len(s) = i
      BY <1>1
    <2> HIDE DEF k
    <2>2. (s \o a)[k] = a[k - Len(s)] /\ (t \o b)[k] = b[k - Len(t)]
      BY <1>2, <1>3, <2>1
    <2>3. QED
      BY <1>2, <2>1, <2>2
  <1>6. QED
    BY <1>2, <1>4, <1>5, SeqEqual

LEMMA ClaimTypes ==
  ASSUME NEW v \in VolumeName, NEW s \in ServiceName, NEW i \in Nat, i < Len(Numerals)
  PROVE  TemplateClaim(v, s, i) \in Seq(STRING)
  BY NameTypes, OrdinalsDiffer DEF TemplateClaim

LEMMA ClaimsDiffer ==
  ASSUME NEW v \in VolumeName, NEW s \in ServiceName, NEW i \in Nat, i < Len(Numerals),
         NEW j \in Nat, j < Len(Numerals), TemplateClaim(v, s, i) = TemplateClaim(v, s, j)
  PROVE  i = j
  <1> DEFINE a == v \o s
             x == Ordinal(i)
             y == Ordinal(j)
  <1>1. a \in Seq(STRING) /\ x \in Seq(STRING) /\ y \in Seq(STRING) /\ Len(x) = Len(y)
    BY NameTypes, OrdinalsDiffer
  <1>4. a \o x = a \o y
    BY DEF TemplateClaim
  <1>2. Ordinal(i) = Ordinal(j)
    <2> HIDE DEF a, x, y
    <2>1. x = y
      BY <1>1, <1>4, Cancel
    <2>2. QED
      BY <2>1 DEF x, y
  <1>3. QED
    BY <1>2, OrdinalsDiffer

\* A volume that does not stand alone has one mounter.
LEMMA OneMounter ==
  ASSUME NEW app \in App, NEW v \in VolumeName, v \notin Standalone(app), NEW s \in Mounters(app, v)
  PROVE  Mounters(app, v) = {s}
  <1>1. IsFiniteSet(Mounters(app, v))
    BY NameTypes, FS_Subset DEF Mounters, Services
  <1>2. Cardinality(Mounters(app, v)) \in Nat /\ ~(Cardinality(Mounters(app, v)) > 1)
    BY <1>1, FS_CardinalityType DEF Standalone
  <1>3. Cardinality(Mounters(app, v)) # 0
    BY <1>1, FS_EmptySet
  <1>4. Cardinality(Mounters(app, v)) = 1
    BY <1>2, <1>3
  <1>5. QED
    BY <1>1, <1>4, FS_Singleton

LEMMA ClaimsAre ==
  ASSUME NEW app \in App, NEW v \in VolumeName
  PROVE  LET cs == ClaimNames(app, v) IN
         /\ Len(cs) \in Nat /\ Len(cs) <= Len(Numerals)
         /\ v \in Standalone(app) \/ Mounters(app, v) = {} => cs = <<v>> /\ Len(cs) = 1 /\ cs[1] = v
         /\ \A s \in Mounters(app, v) : v \notin Standalone(app) =>
              /\ Len(cs) = IF app.volumes[v].perReplica THEN ReplicaCount(app.services[s]) ELSE 1
              /\ \A i \in 1..Len(cs) : cs[i] = TemplateClaim(v, s, i - 1)
  <1>1. Len(Numerals) \in Nat /\ Len(Numerals) >= 1
    BY NamesAssumption
  <1>2. CASE v \in Standalone(app) \/ Mounters(app, v) = {}
    <2>1. ClaimNames(app, v) = <<v>>
      BY <1>2 DEF ClaimNames
    <2>2. QED
      BY <1>1, <1>2, <2>1
  <1>3. CASE ~(v \in Standalone(app) \/ Mounters(app, v) = {})
    <2> DEFINE s == ServiceNames[SelectInSeq(ServiceNames, LAMBDA t : t \in Mounters(app, v))]
               n == IF app.volumes[v].perReplica THEN ReplicaCount(app.services[s]) ELSE 1
               f == [i \in 1..n |-> TemplateClaim(v, s, i - 1)]
    <2>1. ClaimNames(app, v) = f
      BY <1>3 DEF ClaimNames
    <2>2. s \in Mounters(app, v)
      BY <1>3, FirstMounter
    <2> HIDE DEF s
    <2>3. s \in Services(app) /\ \A t \in Mounters(app, v) : t = s
      BY <1>3, <2>2, OneMounter DEF Mounters
    <2>4. ReplicaCount(app.services[s]) \in Nat /\ ReplicaCount(app.services[s]) <= Len(Numerals)
      BY <1>1, <2>3, Replicas
    <2>5. n \in Nat /\ n <= Len(Numerals)
      BY <1>1, <2>4
    <2> HIDE DEF n
    <2>6. f = [i \in 1..n |-> f[i]] /\ \A i \in 1..n : f[i] = TemplateClaim(v, s, i - 1)
      OBVIOUS
    <2> HIDE DEF f
    <2>7. Len(f) = n
      BY <2>5, <2>6, Listed
    <2>8. QED
      BY <1>3, <2>1, <2>3, <2>5, <2>6, <2>7 DEF n
  <1>4. QED
    BY <1>2, <1>3

\* Names are made of words.
LEMMA NameWords ==
  /\ \A v \in VolumeName \cup ServiceName : v \in Seq(Words)
  /\ \A i \in Nat : i < Len(Numerals) => Ordinal(i) \in Seq(Words)
  /\ \A x \in Words : <<x>> \in Seq(Words) /\ Len(<<x>>) = 1
  <1>1. STRING \subseteq Words
    BY DEF Words
  <1> HIDE DEF Words
  <1>2. \A s \in Seq(STRING) : s \in Seq(Words)
    BY <1>1, SeqMonotonic
  <1>3. QED
    BY <1>2, NameTypes, OrdinalsDiffer

\* The workload of a service is never a backup; by its kind it makes claims, or mounts.
LEMMA WorkloadRead ==
  ASSUME NEW app \in App, NEW s \in Services(app)
  PROVE  /\ Workload(app, s).id.name = s
         /\ Workload(app, s).spec.repo = None /\ Workload(app, s).spec.label = None
         /\ Workload(app, s).spec.suspended = FALSE
         /\ Workload(app, s).id.gvr = "cronjobs" => app.services[s].schedule
         /\ app.services[s].schedule => Workload(app, s).id.gvr = "cronjobs"
  <1> DEFINE svc == app.services[s]
  <1>1. CASE svc.schedule
    BY <1>1 DEF Workload, Object, Id, Bare
  <1>2. CASE ~svc.schedule /\ IsStateful(svc)
    BY <1>2 DEF Workload, Object, Id, Bare
  <1>3. CASE ~svc.schedule /\ ~IsStateful(svc)
    BY <1>3 DEF Workload, Object, Id, Bare
  <1>4. QED
    BY <1>1, <1>2, <1>3

Replicated(svc) == ~svc.schedule /\ IsStateful(svc)

LEMMA WorkloadClaims ==
  ASSUME NEW app \in App, NEW s \in Services(app)
  PROVE  LET svc == app.services[s]
             w == Workload(app, s)
         IN  /\ Replicated(svc) => /\ w.id.gvr = "statefulsets"
                                  /\ w.spec.templates = svc.volumes \ Standalone(app)
                                  /\ w.spec.replicas = ReplicaCount(svc)
                                  /\ w.spec.uses = PodUses(app, s) \cup ClaimIds(svc.volumes \cap Standalone(app))
             /\ ~Replicated(svc) => w.id.gvr # "statefulsets" /\ w.spec.templates = {}
             /\ svc.schedule => w.spec.uses = PodUses(app, s) \cup ClaimIds(svc.volumes)
             /\ ~svc.schedule /\ ~Replicated(svc) => w.spec.uses = PodUses(app, s)
  <1> DEFINE svc == app.services[s]
  <1>1. CASE svc.schedule
    BY <1>1 DEF Workload, Object, Id, Bare, Replicated
  <1>2. CASE Replicated(svc)
    BY <1>2 DEF Workload, Object, Id, Bare, Replicated
  <1>3. CASE ~svc.schedule /\ ~Replicated(svc)
    BY <1>3 DEF Workload, Object, Id, Bare, Replicated
  <1>4. QED
    BY <1>1, <1>2, <1>3

\* Among the objects of a service the workload is the one of its kind.
LEMMA WorkloadOnly ==
  ASSUME NEW app \in App, NEW s \in Services(app), NEW p \in Range(ServiceObjects(app, s)),
         p.id.gvr \in {"cronjobs", "deployments", "statefulsets"}
  PROVE  p = Workload(app, s)
  <1>1. CASE ~Runs(app.services[s])
    <2>1. \A i : \A q \in Range(Redirect(s, app.services[s].http, i)) : q.id.gvr \in {"configmaps", "httpproxies"}
      BY RedirectRead
    <2>2. p.id.gvr \notin {"configmaps", "httpproxies"}
      OBVIOUS
    <2>3. QED
      BY <1>1, <2>1, <2>2, RoutesRead
  <1>2. CASE Runs(app.services[s])
    <2>1. \A q \in Ports(app, s) : q.id = Id("services", s) \/ q.id = Id("services", NodePortName(s))
      BY PortsRead DEF Ports
    <2>2. p \notin Ports(app, s)
      BY <2>1 DEF Id
    <2>3. p # Ingress(s, app.services[s])
      BY DEF Ingress, Object, Id
    <2>4. \A gvr \in {"secrets", "configmaps", "networkpolicies"} : \A name : p # Object(gvr, name, Bare)
      BY DEF Object, Id
    <2>5. QED
      BY <1>2, <2>2, <2>3, <2>4, ServiceObjectsRead
  <1>3. QED
    BY <1>1, <1>2

\* So a CronJob is a scheduled service or a backup.
LEMMA CronJobsCompiled ==
  ASSUME NEW app \in App, NEW tgt, NEW p \in Range(Objects(app, tgt)), p.id.gvr = "cronjobs"
  PROVE  \/ \E s \in Services(app) : app.services[s].schedule /\ p = Workload(app, s)
         \/ \E v \in Volumes(app) : app.volumes[v].backup
              /\ \E i \in 1..Len(ClaimNames(app, v)) : p = BackupJob(app, v, i, tgt)
  <1>1. p # PullSecret /\ \A v : p # Claim(v)
    BY DEF PullSecret, Claim, Object, Id
  <1>2. CASE p \in Range(VolumeObjects(app, tgt))
    <2>1. PICK v \in Volumes(app) : app.volumes[v].backup /\ p \in Range(BackupJobs(app, v, tgt))
      BY <1>1, <1>2, VolumeObjectsRead
    <2>2. \E i \in 1..Len(ClaimNames(app, v)) : p = BackupJob(app, v, i, tgt)
      BY <2>1, BackupJobsRead
    <2>3. QED
      BY <2>1, <2>2
  <1>3. CASE \E s \in Services(app) : p \in Range(ServiceObjects(app, s))
    <2>1. PICK s \in Services(app) : p \in Range(ServiceObjects(app, s))
      BY <1>3
    <2>2. p = Workload(app, s)
      BY <2>1, WorkloadOnly
    <2>3. QED
      BY <2>1, <2>2, WorkloadRead
  <1>4. QED
    BY <1>1, <1>2, <1>3, ObjectsRead

ClaimId(name) == Id("persistentvolumeclaims", name)

\* A backup in parts.
LEMMA BackupJobRead ==
  ASSUME NEW app, NEW v, NEW i, NEW tgt
  PROVE  LET p == BackupJob(app, v, i, tgt)
             n == Len(ClaimNames(app, v))
         IN  /\ p.id = Id("cronjobs", BackupJobName(v, i - 1, n)) /\ p.id.gvr = "cronjobs"
             /\ p.spec.uses = {ClaimId(ClaimNames(app, v)[i])}
             /\ p.spec.repo = Repository(v, i - 1, n)
             /\ p.spec.label.volume = v
             /\ p.spec.label.replica = IF n <= 1 THEN None ELSE i - 1
             /\ p.spec.suspended = ~tgt
  BY DEF BackupJob, Object, Id, ClaimId, Bare

\* What is in the namespace of a deployed app, and is not a claim, is as compiled.
LEMMA Compiled ==
  ASSUME Inv, deployed # None, NEW o \in Present, o.gvr \in PrunableGVRs
  PROVE  \E p \in Range(Objects(deployed.app, deployed.target)) : p.id = o /\ cluster[o] = p.spec
  BY DEF Inv, Holds, Present

LEMMA CronJobsRead ==
  ASSUME Inv, deployed # None, NEW o \in Of("cronjobs")
  PROVE  \/ cluster[o].repo = None /\ cluster[o].label = None /\ ~cluster[o].suspended
         \/ \E v \in Volumes(deployed.app) : deployed.app.volumes[v].backup
              /\ \E i \in 1..Len(ClaimNames(deployed.app, v)) :
                   LET p == BackupJob(deployed.app, v, i, deployed.target) IN o = p.id /\ cluster[o] = p.spec
  <1> DEFINE app == deployed.app
  <1>1. app \in App /\ o \in Present /\ o.gvr = "cronjobs" /\ o.gvr \in PrunableGVRs
    BY DEF Inv, Of, PrunableGVRs
  <1>2. PICK p \in Range(Objects(app, deployed.target)) : p.id = o /\ cluster[o] = p.spec
    BY <1>1, Compiled
  <1> HIDE DEF app
  <1>3. \/ \E s \in Services(app) : app.services[s].schedule /\ p = Workload(app, s)
        \/ \E v \in Volumes(app) : app.volumes[v].backup
             /\ \E i \in 1..Len(ClaimNames(app, v)) : p = BackupJob(app, v, i, deployed.target)
    BY <1>1, <1>2, CronJobsCompiled
  <1>4. CASE \E s \in Services(app) : p = Workload(app, s)
    <2>1. PICK s \in Services(app) : p = Workload(app, s)
      BY <1>4
    <2>2. p.spec.repo = None /\ p.spec.label = None /\ p.spec.suspended = FALSE
      BY <1>1, <2>1, WorkloadRead
    <2>3. QED
      BY <1>2, <2>2
  <1>5. QED
    BY <1>2, <1>3, <1>4 DEF app

\* Two backups of an app with one repository, or of one volume and replica, are of one claim.
LEMMA RepositoriesApart ==
  ASSUME NEW app \in App, NEW v \in VolumeName, NEW w \in VolumeName,
         NEW i \in 1..Len(ClaimNames(app, v)), NEW j \in 1..Len(ClaimNames(app, w)),
         Repository(v, i - 1, Len(ClaimNames(app, v))) = Repository(w, j - 1, Len(ClaimNames(app, w)))
  PROVE  v = w /\ i = j
  <1> DEFINE m == Len(ClaimNames(app, v))
             n == Len(ClaimNames(app, w))
  <1>1. m \in Nat /\ m <= Len(Numerals) /\ n \in Nat /\ Len(Numerals) \in Nat
    BY ClaimsAre, NamesAssumption
  <1>2. v = w
    <2>1. Repository(v, i - 1, m)[1] = v /\ Repository(w, j - 1, n)[1] = w
      BY DEF Repository
    <2>2. QED
      BY <2>1
  <1>3. CASE m <= 1
    BY <1>1, <1>2, <1>3
  <1>4. CASE ~(m <= 1)
    <2> DEFINE r == <<"r">>
               a == Ordinal(i - 1)
               b == Ordinal(j - 1)
    <2>1. r \o a = r \o b
      BY <1>2, <1>4 DEF Repository
    <2>2. i - 1 \in Nat /\ i - 1 < Len(Numerals) /\ j - 1 \in Nat /\ j - 1 < Len(Numerals)
      BY <1>1, <1>2
    <2>3. r \in Seq(Words) /\ a \in Seq(Words) /\ b \in Seq(Words) /\ Len(a) = Len(b)
      BY <2>2, OrdinalsDiffer, NameWords, "r" \in Words DEF Words
    <2> HIDE DEF a, b, r
    <2>4. a = b
      BY <2>1, <2>3, Cancel
    <2>5. i - 1 = j - 1
      BY <2>2, <2>4, OrdinalsDiffer DEF a, b
    <2>6. QED
      BY <1>1, <1>2, <2>5
  <1>5. QED
    BY <1>3, <1>4

LEMMA RepositoryTypes ==
  ASSUME NEW app \in App, NEW v \in VolumeName, NEW i \in 1..Len(ClaimNames(app, v))
  PROVE  LET n == Len(ClaimNames(app, v)) IN
         /\ Repository(v, i - 1, n) \in Repositories /\ Repository(v, i - 1, n) # None
         /\ ClaimNames(app, v)[i] \in Seq(STRING)
         /\ i - 1 \in Nat /\ i - 1 < Len(Numerals) /\ n \in Nat
  <1> DEFINE n == Len(ClaimNames(app, v))
  <1>1. n \in Nat /\ n <= Len(Numerals) /\ Len(Numerals) \in Nat
    BY ClaimsAre, NamesAssumption
  <1>2. i - 1 \in Nat /\ i - 1 < Len(Numerals) /\ i \in Nat
    BY <1>1
  <1>3. v \in Seq(Words) /\ <<"r">> \o Ordinal(i - 1) \in Seq(Words)
    <2> DEFINE r == <<"r">>
    <2>1. "r" \in Words
      BY DEF Words
    <2>2. r \in Seq(Words) /\ Ordinal(i - 1) \in Seq(Words)
      BY <1>2, <2>1, NameWords
    <2> HIDE DEF r
    <2>3. r \o Ordinal(i - 1) \in Seq(Words)
      BY <2>2
    <2>4. QED
      BY <2>3, NameWords DEF r
  <1>4. Repository(v, i - 1, n) \in Repositories
    <2> DEFINE r == <<"r">> \o Ordinal(i - 1)
    <2>1. Repository(v, i - 1, n) = <<v>> \/ Repository(v, i - 1, n) = <<v, r>>
      BY DEF Repository
    <2>2. v \in Seq(Words) /\ r \in Seq(Words)
      BY <1>3
    <2> HIDE DEF r
    <2>3. <<v>> \in Seq(Seq(Words)) /\ <<v, r>> \in Seq(Seq(Words))
      BY <2>2
    <2>4. QED
      BY <2>1, <2>3 DEF Repositories
  <1>5. ClaimNames(app, v)[i] \in Seq(STRING)
    <2>1. CASE v \in Standalone(app) \/ Mounters(app, v) = {}
      <3>1. n = 1 /\ ClaimNames(app, v)[1] = v
        BY <2>1, ClaimsAre
      <3>2. i = 1
        BY <3>1
      <3>3. QED
        BY <3>1, <3>2, NameTypes
    <2>2. CASE ~(v \in Standalone(app) \/ Mounters(app, v) = {})
      <3>1. PICK s \in Mounters(app, v) : TRUE
        BY <2>2
      <3>2. ClaimNames(app, v)[i] = TemplateClaim(v, s, i - 1)
        BY <2>2, <3>1, ClaimsAre
      <3>3. s \in ServiceName
        BY DEF Mounters, Services
      <3>4. QED
        BY <1>2, <3>2, <3>3, ClaimTypes
    <2>3. QED
      BY <2>1, <2>2
  <1>6. QED
    BY <1>1, <1>2, <1>4, <1>5, NoneAssumption

-----------------------------------------------------------------------------
(***************************************************************************)
(* The claims that the pods mount, and those of the volumes.               *)
(***************************************************************************)

LEMMA PodUsesNoClaim ==
  ASSUME NEW app \in App, NEW s \in Services(app), NEW name
  PROVE  ClaimId(name) \notin PodUses(app, s)
  BY DEF PodUses, FilesId, Id, ClaimId

\* The claims of the pods of a service for a volume: the volume's own if it stands
\* alone, one for each replica if it does not.
LEMMA ClaimsForRead ==
  ASSUME NEW app \in App, NEW s \in Services(app), NEW v \in VolumeName
  PROVE  LET svc == app.services[s] IN
         /\ ~(v \in svc.volumes /\ (svc.schedule \/ Replicated(svc))) => ClaimsFor(app, s, v) = {}
         /\ v \in svc.volumes /\ (svc.schedule \/ Replicated(svc)) =>
              ClaimsFor(app, s, v) =
                IF v \in Standalone(app) THEN {ClaimId(v)}
                ELSE {ClaimId(TemplateClaim(v, s, i)) : i \in 0..(ReplicaCount(svc) - 1)}
         /\ s \in Mounters(app, v) <=> v \in svc.volumes
         /\ svc.schedule /\ v \in svc.volumes => v \in Standalone(app)
  <1> DEFINE svc == app.services[s]
             w == Workload(app, s)
  <1>1. \A vs : ClaimId(v) \in ClaimIds(vs) <=> v \in vs
    BY DEF ClaimIds, ClaimId, Id
  <1>2. ClaimId(v) \notin PodUses(app, s)
    BY PodUsesNoClaim
  <1>3. s \in Mounters(app, v) <=> v \in svc.volumes
    BY DEF Mounters
  <1>4. svc.schedule /\ v \in svc.volumes => v \in Standalone(app)
    BY <1>3 DEF Standalone
  <1>5. ClaimsFor(app, s, v) =
          IF ClaimId(v) \in w.spec.uses THEN {ClaimId(v)}
          ELSE IF v \in w.spec.templates
               THEN {ClaimId(TemplateClaim(v, s, i)) : i \in 0..(w.spec.replicas - 1)} ELSE {}
    BY DEF ClaimsFor, ClaimId
  <1>6. CASE svc.schedule
    <2>1. w.spec.uses = PodUses(app, s) \cup ClaimIds(svc.volumes) /\ w.spec.templates = {}
      BY <1>6, WorkloadClaims DEF Replicated
    <2> HIDE DEF w
    <2>2. QED
      BY <1>1, <1>2, <1>3, <1>4, <1>5, <1>6, <2>1 DEF Replicated
  <1>7. CASE Replicated(svc)
    <2>1. /\ w.spec.uses = PodUses(app, s) \cup ClaimIds(svc.volumes \cap Standalone(app))
          /\ w.spec.templates = svc.volumes \ Standalone(app) /\ w.spec.replicas = ReplicaCount(svc)
      BY <1>7, WorkloadClaims
    <2> HIDE DEF w
    <2>2. QED
      BY <1>1, <1>2, <1>3, <1>4, <1>5, <1>7, <2>1 DEF Replicated
  <1>8. CASE ~svc.schedule /\ ~Replicated(svc)
    <2>1. w.spec.uses = PodUses(app, s) /\ w.spec.templates = {}
      BY <1>8, WorkloadClaims
    <2> HIDE DEF w
    <2>2. QED
      BY <1>1, <1>2, <1>3, <1>4, <1>5, <1>8, <2>1
  <1>9. QED
    BY <1>6, <1>7, <1>8

\* A claim that is backed up and mounted by some pod is one of ClaimNames.
LEMMA ClaimsListed ==
  ASSUME NEW app \in App, Valid(app), NEW v \in Volumes(app), NEW s \in Services(app),
         NEW c \in ClaimsFor(app, s, v)
  PROVE  \E i \in 1..Len(ClaimNames(app, v)) : c = ClaimId(ClaimNames(app, v)[i])
  <1> DEFINE svc == app.services[s]
             n == Len(ClaimNames(app, v))
  <1>1. v \in VolumeName /\ app.volumes[v] # None
    BY DEF Volumes
  <1>2. v \in svc.volumes /\ (svc.schedule \/ Replicated(svc)) /\ s \in Mounters(app, v)
    BY <1>1, ClaimsForRead
  <1>3. CASE v \in Standalone(app)
    <2>1. c = ClaimId(v)
      BY <1>1, <1>2, <1>3, ClaimsForRead
    <2>2. n = 1 /\ ClaimNames(app, v)[1] = v
      BY <1>1, <1>3, ClaimsAre
    <2>3. QED
      BY <2>1, <2>2
  <1>4. CASE v \notin Standalone(app)
    <2>1. Replicated(svc)
      BY <1>1, <1>2, <1>4, ClaimsForRead
    <2>2. PICK i \in 0..(ReplicaCount(svc) - 1) : c = ClaimId(TemplateClaim(v, s, i))
      BY <1>1, <1>2, <1>4, ClaimsForRead
    <2>3. /\ n = IF app.volumes[v].perReplica THEN ReplicaCount(svc) ELSE 1
          /\ \A k \in 1..n : ClaimNames(app, v)[k] = TemplateClaim(v, s, k - 1)
      BY <1>1, <1>2, <1>4, ClaimsAre
    <2>4. ReplicaCount(svc) \in Nat
      BY Replicas
    <2>5. ReplicaCount(svc) > 1 => app.volumes[v].perReplica
      <3>1. ValidReplicas(app, svc)
        BY DEF Valid, ValidService
      <3>2. QED
        BY <1>1, <1>2, <2>1, <3>1 DEF ValidReplicas, Replicated
    <2>6. i + 1 \in 1..n /\ (i + 1) - 1 = i
      BY <2>2, <2>3, <2>4, <2>5
    <2>7. QED
      BY <2>2, <2>3, <2>6
  <1>5. QED
    BY <1>3, <1>4

\* A StatefulSet in the namespace of a deployed app is the workload of its service.
LEMMA StatefulSetsRead ==
  ASSUME NEW app \in App, NEW tgt, NEW p \in Range(Objects(app, tgt)), p.id.gvr = "statefulsets"
  PROVE  \E s \in Services(app) : p = Workload(app, s) /\ Replicated(app.services[s])
  <1>1. p # PullSecret /\ \A v : p # Claim(v)
    BY DEF PullSecret, Claim, Object, Id
  <1>2. p \notin Range(VolumeObjects(app, tgt))
    BY <1>1, VolumeObjectsRead, BackupJobsRead
  <1>3. PICK s \in Services(app) : p \in Range(ServiceObjects(app, s))
    BY <1>1, <1>2, ObjectsRead
  <1>4. p = Workload(app, s)
    BY <1>3, WorkloadOnly
  <1>5. QED
    BY <1>3, <1>4, WorkloadClaims

LEMMA WorkloadCompiled ==
  ASSUME NEW app \in App, Valid(app), NEW tgt, NEW s \in Services(app),
         app.services[s].schedule \/ Replicated(app.services[s]), app.services[s].volumes # {}
  PROVE  Workload(app, s) \in Range(Objects(app, tgt))
  <1> DEFINE svc == app.services[s]
  <1>1. ~IsRedirect(svc)
    BY DEF Valid, ValidService, ValidSource
  <1>2. Workload(app, s) \in Range(ServiceObjects(app, s))
    BY <1>1, ServiceObjectsRead, RoutesRead DEF Runs
  <1>3. QED
    BY <1>2, ObjectsRead

\* The claims of a deployed app's pods are in the namespace, once the controller made
\* those of the templates.
LEMMA ClaimsPresent ==
  ASSUME Inv, deployed # None, UNION {TemplateClaims(o) : o \in Of("statefulsets")} \subseteq Present,
         NEW s \in Services(deployed.app), NEW v \in VolumeName, NEW c \in ClaimsFor(deployed.app, s, v)
  PROVE  c \in Present
  <1> DEFINE app == deployed.app
             svc == app.services[s]
             objs == Objects(app, deployed.target)
             w == Workload(app, s)
  <1>1. app \in App /\ Valid(app) /\ Holds(cluster, objs)
    BY DEF Inv, TypeOK
  <1>2. v \in svc.volumes /\ (svc.schedule \/ Replicated(svc)) /\ s \in Mounters(app, v)
    BY <1>1, ClaimsForRead
  <1>3. \A p \in Range(objs) : p.id \in Present
    BY <1>1, IdsRead DEF Holds, Present
  <1>4. CASE v \in Standalone(app)
    <2>1. c = ClaimId(v)
      BY <1>1, <1>2, <1>4, ClaimsForRead
    <2>2. Claim(v) \in Range(objs)
      BY <1>1, <1>4, VolumeObjectsRead, ObjectsRead
    <2>3. Claim(v).id = ClaimId(v)
      BY DEF Claim, Object, ClaimId
    <2>4. QED
      BY <1>3, <2>1, <2>2, <2>3
  <1>5. CASE v \notin Standalone(app)
    <2>1. Replicated(svc)
      BY <1>1, <1>2, <1>5, ClaimsForRead
    <2>2. PICK i \in 0..(ReplicaCount(svc) - 1) : c = ClaimId(TemplateClaim(v, s, i))
      BY <1>1, <1>2, <1>5, ClaimsForRead
    <2>3. w \in Range(objs)
      BY <1>1, <1>2, <2>1, WorkloadCompiled
    <2>4. w.id.gvr = "statefulsets" /\ w.id.name = s
      BY <1>1, <2>1, WorkloadClaims, WorkloadRead
    <2>5. w.id \in Of("statefulsets")
      BY <1>3, <2>3, <2>4 DEF Of
    <2>6. PICK p \in Range(objs) : p.id = w.id /\ cluster[w.id] = p.spec
      BY <1>1, <2>3, IdsRead DEF Holds
    <2>7. p = w
      <3> HIDE DEF w
      <3>1. PICK t \in Services(app) : p = Workload(app, t)
        BY <1>1, <2>4, <2>6, StatefulSetsRead DEF objs
      <3>2. p.id.name = t
        BY <1>1, <3>1, WorkloadRead
      <3>3. t = s
        BY <2>4, <2>6, <3>2
      <3>4. QED
        BY <3>1, <3>3 DEF w
    <2>8. v \in cluster[w.id].templates /\ cluster[w.id].replicas = ReplicaCount(svc)
      <3>1. w.spec.templates = svc.volumes \ Standalone(app) /\ w.spec.replicas = ReplicaCount(svc)
        BY <1>1, <2>1, WorkloadClaims
      <3>2. QED
        BY <1>2, <1>5, <2>6, <2>7, <3>1
    <2> HIDE DEF w
    <2>9. c \in TemplateClaims(w.id)
      BY <2>2, <2>4, <2>8 DEF TemplateClaims, ClaimId
    <2>10. QED
      BY <2>5, <2>9
  <1>6. QED
    BY <1>4, <1>5

-----------------------------------------------------------------------------
(***************************************************************************)
(* What the backup commands resolve.  The claims of a volume are counted, so*)
(* the namespace has to be finite.                                         *)
(***************************************************************************)

LEMMA LastWord ==
  ASSUME NEW S, NEW s \in Seq(S), NEW a \in Seq(S), a # <<>>
  PROVE  Last(s \o a) = Last(a)
  <1>1. Len(s) \in Nat /\ Len(a) \in Nat /\ Len(a) # 0 /\ Len(s \o a) = Len(s) + Len(a)
    OBVIOUS
  <1> DEFINE k == Len(s) + Len(a)
  <1>2. k \in 1..(Len(s) + Len(a)) /\ ~(k <= Len(s)) /\ k - Len(s) = Len(a)
    BY <1>1
  <1>3. (s \o a)[k] = a[k - Len(s)]
    <2> HIDE DEF k
    <2>1. \A i \in 1..(Len(s) + Len(a)) : (s \o a)[i] = IF i <= Len(s) THEN s[i] ELSE a[i - Len(s)]
      BY ConcatProperties
    <2>2. QED
      BY <1>2, <2>1
  <1>4. QED
    BY <1>1, <1>2, <1>3 DEF Last

LEMMA OneWord ==
  ASSUME NEW S, NEW s \in Seq(S), Len(s) = 1
  PROVE  s # <<>>
  <1>1. Len(<<>>) = 0
    BY EmptySeq
  <1>2. QED
    BY <1>1

LEMMA FiniteImage ==
  ASSUME NEW S, IsFiniteSet(S), NEW f, DOMAIN f = S, f = [x \in S |-> f[x]]
  PROVE  IsFiniteSet({f[x] : x \in S})
  <1> DEFINE T == {f[x] : x \in S}
  <1>1. f \in [S -> T]
    OBVIOUS
  <1>2. f \in Surjection(S, T)
    BY <1>1 DEF Surjection
  <1>3. QED
    BY <1>2, FS_Surjection

\* The namespace is finite, and its claims have the names the compiler and the
\* StatefulSet controller make.
Small ==
  /\ IsFiniteSet(Present)
  /\ \A o \in Of("statefulsets") :
       o.name \in ServiceName /\ cluster[o].templates \subseteq VolumeName /\ cluster[o].replicas \in Count
  /\ \A c \in Of("persistentvolumeclaims") : \E n \in ClaimName : c = ClaimId(n)

\* A claim that is compiled is that of a volume.
LEMMA ClaimsCompiled ==
  ASSUME NEW app \in App, NEW tgt, NEW p \in Range(Objects(app, tgt)), p.id.gvr = "persistentvolumeclaims"
  PROVE  \E n \in ClaimName : p.id = ClaimId(n)
  <1>1. p # PullSecret /\ "persistentvolumeclaims" \notin PrunableGVRs
    BY DEF PullSecret, Object, Id, PrunableGVRs
  <1>2. p \in Range(VolumeObjects(app, tgt))
    BY <1>1, ObjectsRead, ServiceKinds
  <1>3. PICK v \in Standalone(app) : p = Claim(v)
    BY <1>2, VolumeObjectsRead, BackupJobsRead
  <1>4. v \in ClaimName
    BY DEF Standalone, ClaimName
  <1>5. p.id = ClaimId(v)
    BY <1>3 DEF Claim, Object, ClaimId
  <1>6. QED
    BY <1>4, <1>5

LEMMA SmallKept == ASSUME Inv, Small, [Next]_vars PROVE Small'
  <1>1. CASE UNCHANGED cluster
    BY <1>1 DEF Small, Present, Of
  <1>2. CASE Down
    <2>1. cluster' = Pruned(cluster, {})
      BY <1>2 DEF Down
    <2>2. Present' \subseteq Present /\ \A o \in Present' : cluster'[o] = cluster[o]
      <3> DEFINE left == Pruned(cluster, {})
      <3>1. DOMAIN left \subseteq DOMAIN cluster /\ \A id \in DOMAIN left : left[id] = cluster[id]
        BY PrunedLess
      <3>2. cluster' = left
        BY <2>1
      <3> HIDE DEF left
      <3>3. Present' = DOMAIN cluster' /\ Present = DOMAIN cluster
        BY DEF Present
      <3>4. QED
        BY <3>1, <3>2, <3>3
    <2>3. IsFiniteSet(Present')
      BY <2>2, FS_Subset DEF Small
    <2>4. QED
      BY <2>2, <2>3 DEF Small, Of
  <1>3. CASE CreateClaims
    <2> DEFINE made == UNION {TemplateClaims(o) : o \in Of("statefulsets")}
               missing == made \ Present
    <2>1. cluster' = [id \in Present \cup missing |-> IF id \in missing THEN Bare ELSE cluster[id]]
      BY <1>3 DEF CreateClaims
    <2>2. ASSUME NEW o \in Of("statefulsets")
          PROVE  /\ IsFiniteSet(TemplateClaims(o))
                 /\ \A id \in TemplateClaims(o) : id.gvr = "persistentvolumeclaims" /\ \E n \in ClaimName : id = ClaimId(n)
      <3> DEFINE vs == cluster[o].templates
                 is == 0..(cluster[o].replicas - 1)
                 f == [x \in vs \X is |-> Id("persistentvolumeclaims", TemplateClaim(x[1], o.name, x[2]))]
      <3>1. IsFiniteSet(vs)
        BY NameTypes, FS_Subset DEF Small
      <3>2. IsFiniteSet(is)
        <4>1. cluster[o].replicas - 1 \in Int
          BY DEF Small, Count
        <4>2. \A a, b \in Int : IsFiniteSet(a..b)
          BY FS_Interval
        <4>3. QED
          BY <4>1, <4>2
      <3>3. IsFiniteSet(vs \X is)
        BY <3>1, <3>2, FS_Product
      <3>4. TemplateClaims(o) = {f[x] : x \in vs \X is}
        <4>1. TemplateClaims(o) = {Id("persistentvolumeclaims", TemplateClaim(v, o.name, i)) : v \in vs, i \in is}
          BY DEF TemplateClaims
        <4>2. \A v \in vs, i \in is :
                /\ <<v, i>> \in vs \X is
                /\ f[<<v, i>>] = Id("persistentvolumeclaims", TemplateClaim(v, o.name, i))
          OBVIOUS
        <4>3. \A x \in vs \X is : x = <<x[1], x[2]>> /\ x[1] \in vs /\ x[2] \in is
          OBVIOUS
        <4> HIDE DEF f, vs, is
        <4>4. ASSUME NEW v \in vs, NEW i \in is
              PROVE  Id("persistentvolumeclaims", TemplateClaim(v, o.name, i)) \in {f[x] : x \in vs \X is}
          BY <4>2
        <4>5. ASSUME NEW x \in vs \X is
              PROVE  f[x] \in {Id("persistentvolumeclaims", TemplateClaim(v, o.name, i)) : v \in vs, i \in is}
          <5>1. PICK v \in vs, i \in is : x = <<v, i>>
            BY <4>3
          <5>2. f[x] = Id("persistentvolumeclaims", TemplateClaim(v, o.name, i))
            BY <4>2, <5>1
          <5>3. QED
            BY <5>2
        <4> DEFINE A == {Id("persistentvolumeclaims", TemplateClaim(v, o.name, i)) : v \in vs, i \in is}
                   B == {f[x] : x \in vs \X is}
        <4>6. ASSUME NEW c \in A PROVE c \in B
          <5>1. PICK v \in vs, i \in is : c = Id("persistentvolumeclaims", TemplateClaim(v, o.name, i))
            OBVIOUS
          <5>2. QED
            BY <4>4, <5>1
        <4>7. \A c \in B : c \in A
          BY <4>5
        <4>8. A = B
          <5> HIDE DEF A, B
          <5>1. QED
            BY <4>6, <4>7
        <4>9. QED
          BY <4>1, <4>8
      <3>5. ASSUME NEW id \in TemplateClaims(o)
            PROVE  id.gvr = "persistentvolumeclaims" /\ \E n \in ClaimName : id = ClaimId(n)
        <4>1. PICK v \in vs, i \in is : id = ClaimId(TemplateClaim(v, o.name, i))
          BY DEF TemplateClaims, ClaimId
        <4>2. v \in VolumeName /\ o.name \in ServiceName /\ cluster[o].replicas \in Count
          BY DEF Small
        <4>3. Len(Numerals) \in Nat
          BY NamesAssumption
        <4>4. i \in Replica
          BY <4>2, <4>3 DEF Count, Replica
        <4>5. TemplateClaim(v, o.name, i) \in ClaimName
          BY <4>2, <4>4 DEF ClaimName
        <4>6. QED
          BY <4>1, <4>5 DEF ClaimId, Id
      <3> DEFINE S == vs \X is
      <3>6. DOMAIN f = S /\ f = [x \in S |-> f[x]] /\ IsFiniteSet(S) /\ TemplateClaims(o) = {f[x] : x \in S}
        BY <3>3, <3>4
      <3> HIDE DEF S, f
      <3>7. IsFiniteSet(TemplateClaims(o))
        BY <3>6, FiniteImage
      <3>8. QED
        BY <3>5, <3>7
    <2>3. IsFiniteSet(made)
      <3> DEFINE S == Of("statefulsets")
                 f == [o \in S |-> TemplateClaims(o)]
      <3>1. IsFiniteSet(S)
        BY FS_Subset DEF Small, Of
      <3>2. DOMAIN f = S /\ f = [o \in S |-> f[o]] /\ {f[o] : o \in S} = {TemplateClaims(o) : o \in Of("statefulsets")}
        OBVIOUS
      <3>3. \A T \in {TemplateClaims(o) : o \in Of("statefulsets")} : IsFiniteSet(T)
        BY <2>2
      <3> HIDE DEF S, f
      <3>4. IsFiniteSet({TemplateClaims(o) : o \in Of("statefulsets")})
        BY <3>1, <3>2, FiniteImage
      <3>5. QED
        BY <3>3, <3>4, FS_UNION
    <2>4. \A id \in made : id.gvr = "persistentvolumeclaims" /\ \E n \in ClaimName : id = ClaimId(n)
      BY <2>2
    <2> HIDE DEF made
    <2>5. Present' = Present \cup missing /\ \A o \in Present : cluster'[o] = cluster[o]
      BY <2>1 DEF Present
    <2>6. IsFiniteSet(Present \cup missing)
      BY <2>3, FS_Subset, FS_Union DEF Small
    <2>7. QED
      BY <2>4, <2>5, <2>6 DEF Small, Of
  <1>4. CASE Up
    <2> DEFINE app == Parse(file, env)
               objs == Objects(app, target)
               is == Applied(objs)
               ids == IdsIn(objs, is)
               st == With(objs, is)
    <2>1. /\ app # None
          /\ cluster' = Pruned(st, IdsOf(objs)) \/ cluster' = st
      BY <1>4 DEF Up
    <2>2. app \in App /\ Valid(app)
      BY <2>1, Parsed DEF Inv, TypeOK, Env
    <2>3. List(objs) /\ is \subseteq DOMAIN objs
      BY <2>2, ObjectsRead DEF Applied
    <2>4. ASSUME NEW p \in Range(objs), p.id.gvr = "statefulsets"
          PROVE  p.id.name \in ServiceName /\ p.spec.templates \subseteq VolumeName /\ p.spec.replicas \in Count
      <3>1. PICK s \in Services(app) : p = Workload(app, s) /\ Replicated(app.services[s])
        BY <2>2, <2>4, StatefulSetsRead
      <3>2. p.spec.templates \subseteq app.services[s].volumes /\ p.spec.replicas = ReplicaCount(app.services[s])
        BY <2>2, <3>1, WorkloadClaims
      <3>3. app.services[s].volumes \subseteq VolumeName
        BY <2>2, ServiceShape DEF Service
      <3>4. p.id.name = s /\ s \in ServiceName
        BY <2>2, <3>1, WorkloadRead DEF Services
      <3>5. ReplicaCount(app.services[s]) \in Count
        <4>1. ReplicaCount(app.services[s]) \in Nat /\ ReplicaCount(app.services[s]) <= Len(Numerals) /\ Len(Numerals) \in Nat
          BY <2>2, Replicas, NamesAssumption
        <4>2. QED
          BY <4>1 DEF Count
      <3>6. QED
        BY <3>2, <3>3, <3>4, <3>5
    <2>11. \A p \in Range(objs) : p.id.gvr = "persistentvolumeclaims" => \E n \in ClaimName : p.id = ClaimId(n)
      BY <2>2, ClaimsCompiled
    <2>5. IsFiniteSet(ids)
      <3>1. DOMAIN objs = 1..Len(objs) /\ Len(objs) \in Nat
        BY <2>3, ListShape
      <3>2. IsFiniteSet(is)
        <4>1. IsFiniteSet(1..Len(objs))
          BY <3>1, FS_Interval
        <4>2. is \in SUBSET (1..Len(objs))
          BY <2>3, <3>1
        <4> HIDE DEF is, objs
        <4>3. QED
          BY <4>1, <4>2, FS_Subset
      <3> DEFINE f == [i \in is |-> objs[i].id]
      <3>3. DOMAIN f = is /\ f = [i \in is |-> f[i]] /\ ids = {f[i] : i \in is}
        BY DEF IdsIn
      <3> HIDE DEF f, is, ids
      <3>4. QED
        BY <3>2, <3>3, FiniteImage
    <2> HIDE DEF app, objs, is, ids
    <2>6. /\ DOMAIN st = Present \cup ids
          /\ \A id \in ids : \E o \in Range(objs) : o.id = id /\ st[id] = o.spec
          /\ \A id \in Present \ ids : st[id] = cluster[id]
      BY <2>3, WithRead DEF ids
    <2> HIDE DEF st
    <2>7. Present' \subseteq Present \cup ids /\ \A id \in Present' : cluster'[id] = st[id]
      <3> DEFINE left == Pruned(st, IdsOf(objs))
      <3>1. DOMAIN left \subseteq DOMAIN st /\ \A id \in DOMAIN left : left[id] = st[id]
        BY PrunedLess
      <3>2. cluster' = left \/ cluster' = st
        BY <2>1
      <3> HIDE DEF left
      <3>3. Present' = DOMAIN cluster'
        BY DEF Present
      <3>4. QED
        BY <2>6, <3>1, <3>2, <3>3
    <2>8. IsFiniteSet(Present')
      <3>1. IsFiniteSet(Present \cup ids)
        BY <2>5, FS_Union DEF Small
      <3>2. QED
        BY <2>7, <3>1, FS_Subset
    <2>9. ASSUME NEW o \in Of("statefulsets")'
          PROVE  o.name \in ServiceName /\ cluster'[o].templates \subseteq VolumeName /\ cluster'[o].replicas \in Count
      <3>1. o \in Present' /\ o.gvr = "statefulsets" /\ cluster'[o] = st[o]
        BY <2>7 DEF Of
      <3>2. CASE o \in ids
        <4>1. PICK p \in Range(objs) : p.id = o /\ st[o] = p.spec
          BY <2>6, <3>2
        <4>2. QED
          BY <2>4, <3>1, <4>1
      <3>3. CASE o \notin ids
        BY <2>6, <2>7, <3>1, <3>3 DEF Small, Of
      <3>4. QED
        BY <3>2, <3>3
    <2>10. ASSUME NEW c \in Of("persistentvolumeclaims")' PROVE \E n \in ClaimName : c = ClaimId(n)
      <3>1. c \in Present' /\ c.gvr = "persistentvolumeclaims"
        BY DEF Of
      <3>2. CASE c \in ids
        <4>1. PICK p \in Range(objs) : p.id = c
          BY <2>6, <3>2
        <4>2. QED
          BY <2>11, <3>1, <4>1
      <3>3. CASE c \notin ids
        BY <2>7, <3>1, <3>3 DEF Small, Of
      <3>4. QED
        BY <3>2, <3>3
    <2>12. QED
      BY <2>8, <2>9, <2>10 DEF Small
  <1>5. QED
    BY <1>1, <1>2, <1>3, <1>4
       DEF Next, vars, EditService, AddService, RemoveService, EditVolume, Export, ConfigureBackup, Edits

LEMMA Sized == Spec => [](Inv /\ Small)
  <1>1. Init => Small
    <2>1. Init => Present = {}
      BY DEF Init, Present
    <2>2. QED
      BY <2>1, FS_EmptySet DEF Small, Of
  <1>2. Inv /\ Small /\ [Next]_vars => Small'
    BY SmallKept
  <1>3. QED
    BY <1>1, <1>2, Kept, PTL DEF Spec

\* The backups of a deployed app by volume and replica.
LEMMA LabelsRead ==
  ASSUME Inv, deployed # None, NEW o \in Of("cronjobs"), cluster[o].label # None \/ cluster[o].repo # None
  PROVE  LET app == deployed.app IN
         \E v \in Volumes(app) : \E i \in 1..Len(ClaimNames(app, v)) :
           LET n == Len(ClaimNames(app, v)) IN
           /\ v \in VolumeName
           /\ cluster[o].label.volume = v
           /\ cluster[o].label.replica = IF n <= 1 THEN None ELSE i - 1
           /\ cluster[o].uses = {ClaimId(ClaimNames(app, v)[i])}
           /\ cluster[o].repo = Repository(v, i - 1, n)
           /\ cluster[o].suspended = ~deployed.target
           /\ o = Id("cronjobs", BackupJobName(v, i - 1, n))
  <1> DEFINE app == deployed.app
             tgt == deployed.target
  <1>1. PICK v \in Volumes(app) : \E i \in 1..Len(ClaimNames(app, v)) :
               o = BackupJob(app, v, i, tgt).id /\ cluster[o] = BackupJob(app, v, i, tgt).spec
    BY CronJobsRead
  <1>2. PICK i \in 1..Len(ClaimNames(app, v)) :
               o = BackupJob(app, v, i, tgt).id /\ cluster[o] = BackupJob(app, v, i, tgt).spec
    BY <1>1
  <1>3. v \in VolumeName
    BY DEF Volumes
  <1> DEFINE p == BackupJob(app, v, i, tgt)
             n == Len(ClaimNames(app, v))
  <1> HIDE DEF app, tgt
  <1>4. /\ p.id = Id("cronjobs", BackupJobName(v, i - 1, n))
        /\ p.spec.uses = {ClaimId(ClaimNames(app, v)[i])}
        /\ p.spec.repo = Repository(v, i - 1, n)
        /\ p.spec.suspended = ~tgt
        /\ p.spec.label.volume = v
        /\ p.spec.label.replica = IF n <= 1 THEN None ELSE i - 1
    BY BackupJobRead
  <1> HIDE DEF p, n, app
  <1>5. /\ o = p.id /\ cluster[o] = p.spec
    BY <1>2 DEF p, app, tgt
  <1>6. QED
    BY <1>3, <1>4, <1>5 DEF n, app, tgt

\* Two backups of one volume and one replica are of one claim.
LEMMA LabelsApart ==
  ASSUME Inv, deployed # None, NEW o \in Of("cronjobs"), NEW p \in Of("cronjobs"),
         cluster[o].label # None, cluster[p].label # None,
         cluster[o].label.volume = cluster[p].label.volume,
         cluster[o].label.replica = cluster[p].label.replica
  PROVE  cluster[o].uses = cluster[p].uses
  <1> DEFINE app == deployed.app
             L(v) == Len(ClaimNames(app, v))
  <1>1. PICK v \in Volumes(app) : \E i \in 1..L(v) :
           /\ v \in VolumeName
           /\ cluster[o].label.volume = v
           /\ cluster[o].label.replica = IF L(v) <= 1 THEN None ELSE i - 1
           /\ cluster[o].uses = {ClaimId(ClaimNames(app, v)[i])}
    BY LabelsRead
  <1>2. PICK i \in 1..L(v) :
           /\ v \in VolumeName
           /\ cluster[o].label.volume = v
           /\ cluster[o].label.replica = IF L(v) <= 1 THEN None ELSE i - 1
           /\ cluster[o].uses = {ClaimId(ClaimNames(app, v)[i])}
    BY <1>1
  <1>3. PICK w \in Volumes(app) : \E j \in 1..L(w) :
           /\ cluster[p].label.volume = w
           /\ cluster[p].label.replica = IF L(w) <= 1 THEN None ELSE j - 1
           /\ cluster[p].uses = {ClaimId(ClaimNames(app, w)[j])}
    BY LabelsRead
  <1>4. PICK j \in 1..L(w) :
           /\ cluster[p].label.volume = w
           /\ cluster[p].label.replica = IF L(w) <= 1 THEN None ELSE j - 1
           /\ cluster[p].uses = {ClaimId(ClaimNames(app, w)[j])}
    BY <1>3
  <1>5. w = v /\ L(v) \in Nat
    <2>1. app \in App
      BY DEF Inv
    <2>2. QED
      BY <1>2, <1>4, <2>1, ClaimsAre
  <1> HIDE DEF L, app
  <1>6. i = j
    <2>1. i \in Nat /\ j \in Nat /\ i >= 1 /\ j >= 1 /\ i <= L(v) /\ j <= L(v)
      BY <1>5
    <2>2. CASE L(v) <= 1
      BY <1>5, <2>1, <2>2
    <2>3. CASE ~(L(v) <= 1)
      <3>1. i - 1 = j - 1
        BY <1>2, <1>4, <1>5, <2>3
      <3>2. QED
        BY <2>1, <3>1
    <2>4. QED
      BY <2>2, <2>3
  <1>7. QED
    BY <1>2, <1>4, <1>5, <1>6

LEMMA FirstRead ==
  ASSUME NEW cs, cs # {}, \A c \in cs : c.name \in ClaimName
  PROVE  First(cs) \in cs
  <1> DEFINE P == {Rank(c.name) : c \in cs}
  <1>1. P \subseteq Nat /\ P # {}
    BY RankAssumption
  <1>2. Min(P) \in P /\ \A p \in P : Min(P) =< p
    <2> HIDE DEF P
    <2>1. QED
      BY <1>1, Least
  <1>3. PICK c \in cs : Rank(c.name) = Min(P)
    BY <1>2
  <1>4. \A d \in cs : Rank(c.name) <= Rank(d.name)
    BY <1>2, <1>3
  <1>5. QED
    BY <1>4 DEF First

\* The names of claims are made of words, those of a volume's claims among them.
LEMMA ClaimNameRead ==
  /\ \A n \in ClaimName : n \in Seq(STRING)
  /\ \A n : ClaimId(n) \in [gvr : {"persistentvolumeclaims"}, name : {n}]
  <1>1. ASSUME NEW n \in ClaimName PROVE n \in Seq(STRING)
    <2>1. CASE n \in VolumeName
      BY <2>1, NameTypes
    <2>2. CASE \E v \in VolumeName, s \in ServiceName, i \in Replica : n = TemplateClaim(v, s, i)
      <3>1. PICK v \in VolumeName, s \in ServiceName, i \in Replica : n = TemplateClaim(v, s, i)
        BY <2>2
      <3>2. Len(Numerals) \in Nat
        BY NamesAssumption
      <3>3. i \in Nat /\ i < Len(Numerals)
        BY <3>2 DEF Replica
      <3>4. QED
        BY <3>1, <3>3, ClaimTypes
    <2>3. QED
      BY <2>1, <2>2 DEF ClaimName
  <1>2. QED
    BY <1>1 DEF ClaimId, Id

\* The claims that are backed up: a volume's own, or of several one for each replica of
\* the service that mounts it.
LEMMA ClaimNamed ==
  ASSUME NEW app \in App, NEW v \in VolumeName, NEW i \in 1..Len(ClaimNames(app, v))
  PROVE  LET n == Len(ClaimNames(app, v)) IN
         /\ ClaimNames(app, v)[i] \in ClaimName
         /\ i - 1 \in Replica /\ n \in Nat
         /\ ~(n <= 1) => /\ v \notin Standalone(app)
                         /\ \E s \in Mounters(app, v) : ClaimNames(app, v)[i] = TemplateClaim(v, s, i - 1)
                         /\ \A s \in Mounters(app, v) :
                              n = ReplicaCount(app.services[s]) /\ ClaimNames(app, v)[i] = TemplateClaim(v, s, i - 1)
  <1> DEFINE n == Len(ClaimNames(app, v))
  <1>1. n \in Nat /\ n <= Len(Numerals) /\ Len(Numerals) \in Nat
    BY ClaimsAre, NamesAssumption
  <1>2. i - 1 \in Replica
    BY <1>1 DEF Replica
  <1>3. CASE v \in Standalone(app) \/ Mounters(app, v) = {}
    <2>1. n = 1 /\ ClaimNames(app, v)[1] = v
      BY <1>3, ClaimsAre
    <2>2. i = 1 /\ v \in ClaimName
      BY <2>1 DEF ClaimName
    <2> HIDE DEF n
    <2>3. QED
      BY <1>1, <1>2, <2>1, <2>2 DEF n
  <1>4. CASE ~(v \in Standalone(app) \/ Mounters(app, v) = {})
    <2>1. ASSUME NEW s \in Mounters(app, v)
          PROVE  /\ ClaimNames(app, v)[i] = TemplateClaim(v, s, i - 1)
                 /\ ~(n <= 1) => n = ReplicaCount(app.services[s])
      <3>1. /\ n = IF app.volumes[v].perReplica THEN ReplicaCount(app.services[s]) ELSE 1
            /\ \A k \in 1..n : ClaimNames(app, v)[k] = TemplateClaim(v, s, k - 1)
        BY <1>4, ClaimsAre
      <3> HIDE DEF n
      <3>2. QED
        BY <3>1 DEF n
    <2>2. PICK s \in Mounters(app, v) : TRUE
      BY <1>4
    <2>3. s \in ServiceName
      BY DEF Mounters, Services
    <2>4. ClaimNames(app, v)[i] \in ClaimName
      BY <1>2, <2>1, <2>3 DEF ClaimName
    <2> HIDE DEF n
    <2>5. QED
      BY <1>1, <1>2, <1>4, <2>1, <2>2, <2>4 DEF n
  <1>5. QED
    BY <1>3, <1>4

\* What is resolved, if anything, is one of the claims that fit.
LEMMA TargetRead ==
  ASSUME Inv, Small, deployed # None, NEW v, NEW r, NEW seen
  PROVE  LET fits == Fitting(v, r, seen)
             found == BackupTarget(v, r, seen)
         IN  /\ \A c \in fits : \E n \in ClaimName : c = ClaimId(n)
             /\ fits # {} => First(fits) \in fits
             /\ found # None => /\ fits # {} /\ found = [claim |-> First(fits), repo |-> Suffixed(v, r)]
                                /\ r = None => ~(Cardinality(fits) > 1)
             /\ fits # {} /\ ~(r = None /\ Cardinality(fits) > 1) =>
                  found = [claim |-> First(fits), repo |-> Suffixed(v, r)]
  <1> DEFINE fits == Fitting(v, r, seen)
  <1>1. ASSUME NEW c \in fits PROVE \E n \in ClaimName : c = ClaimId(n)
    <2>1. CASE Scheduled(v, seen) # {}
      <3>1. PICK o \in Scheduled(v, seen) : c \in cluster[o].uses
        BY <1>1, <2>1 DEF Fitting
      <3>2. o \in Of("cronjobs") /\ cluster[o].label # None
        BY DEF Scheduled
      <3>3. PICK w \in Volumes(deployed.app) : \E i \in 1..Len(ClaimNames(deployed.app, w)) :
               w \in VolumeName /\ cluster[o].uses = {ClaimId(ClaimNames(deployed.app, w)[i])}
        BY <3>2, LabelsRead
      <3>4. PICK i \in 1..Len(ClaimNames(deployed.app, w)) :
               w \in VolumeName /\ cluster[o].uses = {ClaimId(ClaimNames(deployed.app, w)[i])}
        BY <3>3
      <3>5. ClaimNames(deployed.app, w)[i] \in ClaimName
        BY <3>4, ClaimNamed DEF Inv
      <3>6. QED
        BY <3>1, <3>4, <3>5
    <2>2. CASE Scheduled(v, seen) = {}
      <3>1. c \in Of("persistentvolumeclaims")
        BY <1>1, <2>2 DEF Fitting, OfReplica, ClaimsNamed
      <3>2. QED
        BY <3>1 DEF Small
    <2>3. QED
      BY <2>1, <2>2
  <1>2. \A c \in fits : c.name \in ClaimName
    BY <1>1 DEF ClaimId, Id
  <1>3. BackupTarget(v, r, seen) =
          IF fits = {} \/ (r = None /\ Cardinality(fits) > 1) THEN None
          ELSE [claim |-> First(fits), repo |-> Suffixed(v, r)]
    BY DEF BackupTarget
  <1> HIDE DEF fits
  <1>4. fits # {} => First(fits) \in fits
    BY <1>2, FirstRead
  <1>5. QED
    BY <1>1, <1>3, <1>4 DEF fits

\* What is resolved for the volume and the replica of a scheduled backup.
LEMMA BackupResolves ==
  ASSUME Inv, Small, deployed # None, NEW o \in Of("cronjobs"), cluster[o].label # None
  PROVE  LET found == BackupTarget(cluster[o].label.volume, cluster[o].label.replica, TRUE)
         IN  found # None /\ found.claim \in cluster[o].uses /\ found.repo = cluster[o].repo
  <1> DEFINE app == deployed.app
             v == cluster[o].label.volume
             r == cluster[o].label.replica
             L(w) == Len(ClaimNames(app, w))
             jobs == Scheduled(v, TRUE)
             job == {p \in jobs : cluster[p].label.replica = r}
             fits == Fitting(v, r, TRUE)
             found == BackupTarget(v, r, TRUE)
  <1>0. app \in App
    BY DEF Inv
  <1>1. PICK w \in Volumes(app) : \E i \in 1..L(w) :
           /\ w \in VolumeName /\ v = w
           /\ r = IF L(w) <= 1 THEN None ELSE i - 1
           /\ cluster[o].uses = {ClaimId(ClaimNames(app, w)[i])}
           /\ cluster[o].repo = Repository(w, i - 1, L(w))
    BY LabelsRead
  <1>2. PICK i \in 1..L(w) :
           /\ w \in VolumeName /\ v = w
           /\ r = IF L(w) <= 1 THEN None ELSE i - 1
           /\ cluster[o].uses = {ClaimId(ClaimNames(app, w)[i])}
           /\ cluster[o].repo = Repository(w, i - 1, L(w))
    BY <1>1
  <1> DEFINE c == ClaimId(ClaimNames(app, w)[i])
  <1>3. /\ Repository(w, i - 1, L(w)) \in Repositories
        /\ ClaimNames(app, w)[i] \in Seq(STRING) /\ i - 1 \in Nat /\ L(w) \in Nat
    BY <1>0, <1>2, RepositoryTypes
  <1>4. Suffixed(v, r) = cluster[o].repo
    <2>1. CASE L(w) <= 1
      BY <1>2, <2>1 DEF Suffixed, Repository
    <2>2. CASE ~(L(w) <= 1)
      <3>1. r = i - 1 /\ r # None
        BY <1>2, <1>3, <2>2, NoneAssumption
      <3>2. Suffixed(v, r) = <<v, <<"r">> \o Ordinal(r)>>
        BY <3>1 DEF Suffixed
      <3>3. cluster[o].repo = <<w, <<"r">> \o Ordinal(i - 1)>>
        BY <1>2, <2>2 DEF Repository
      <3>4. QED
        BY <1>2, <3>1, <3>2, <3>3
    <2>3. QED
      BY <2>1, <2>2
  <1>5. o \in job /\ jobs # {} /\ \A p \in job : p \in Of("cronjobs") /\ cluster[p].label # None
    BY DEF Scheduled
  <1>6. \A p \in job : cluster[p].uses = {c}
    <2>1. \A p \in job : cluster[p].label.volume = v /\ cluster[p].label.replica = r
      BY DEF Scheduled
    <2>2. cluster[o].uses = {c}
      BY <1>2
    <2> HIDE DEF c, job
    <2>3. QED
      BY <1>5, <2>1, <2>2, LabelsApart
  <1>7. fits = {c}
    <2>1. fits = UNION {cluster[p].uses : p \in job}
      BY <1>5 DEF Fitting
    <2> HIDE DEF c, job, fits
    <2>2. QED
      BY <1>5, <1>6, <2>1
  <1>8. found = [claim |-> c, repo |-> Suffixed(v, r)]
    <2> HIDE DEF c, v, r, fits, found
    <2>1. Cardinality(fits) = 1
      BY <1>7, FS_Singleton
    <2>2. fits # {} => First(fits) \in fits
      BY TargetRead DEF fits
    <2>3. fits # {} /\ ~(r = None /\ Cardinality(fits) > 1) =>
            found = [claim |-> First(fits), repo |-> Suffixed(v, r)]
      BY TargetRead DEF fits, found
    <2>4. QED
      BY <1>7, <2>1, <2>2, <2>3
  <1>10. found \in Targets
    <2>1. c \in [gvr : {"persistentvolumeclaims"}, name : Seq(STRING)]
      BY <1>3 DEF ClaimId, Id
    <2>2. found = [claim |-> c, repo |-> cluster[o].repo]
      BY <1>4, <1>8
    <2> HIDE DEF found, c
    <2>3. QED
      BY <1>2, <1>3, <2>1, <2>2 DEF Targets
  <1>12. c \in cluster[o].uses
    BY <1>2
  <1> HIDE DEF found, c, v, r
  <1>11. found # None /\ found.claim \in cluster[o].uses /\ found.repo = cluster[o].repo
    BY <1>4, <1>8, <1>10, <1>12, NoneAssumption
  <1>13. QED
    BY <1>11 DEF found, v, r

\* A claim of a volume begins with its name.
LEMMA ClaimsPrefixed ==
  ASSUME NEW v \in VolumeName, NEW s \in ServiceName, NEW i \in Nat, i < Len(Numerals)
  PROVE  IsPrefix(v, v) /\ IsPrefix(v, TemplateClaim(v, s, i))
  <1>1. v \in Seq(STRING) /\ s \in Seq(STRING) /\ Ordinal(i) \in Seq(STRING)
    BY NameTypes, OrdinalsDiffer
  <1> DEFINE t == s \o Ordinal(i)
  <1>2. t \in Seq(STRING) /\ TemplateClaim(v, s, i) = v \o t
    BY <1>1 DEF TemplateClaim
  <1> HIDE DEF t
  <1>3. Len(v) <= Len(v \o t) /\ \A k \in 1..Len(v) : (v \o t)[k] = v[k]
    BY <1>1, <1>2
  <1>4. SubSeq(v \o t, 1, Len(v)) = SubSeq(v, 1, Len(v))
    BY <1>1, <1>2, <1>3
  <1>5. QED
    BY <1>1, <1>2, <1>3, <1>4 DEF IsPrefix

\* A claim that pods mount for a volume is among those present that fit its name.
LEMMA MountedNamed ==
  ASSUME Inv, deployed # None, UNION {TemplateClaims(o) : o \in Of("statefulsets")} \subseteq Present,
         NEW s \in Services(deployed.app), NEW v \in VolumeName, NEW c \in ClaimsFor(deployed.app, s, v)
  PROVE  c \in ClaimsNamed(v)
  <1> DEFINE app == deployed.app
  <1>1. app \in App /\ s \in ServiceName
    BY DEF Inv, Services
  <1>2. c \in Present
    BY ClaimsPresent
  <1>3. c.gvr = "persistentvolumeclaims" /\ IsPrefix(v, c.name)
    <2>1. CASE v \in Standalone(app)
      <3>1. c = ClaimId(v)
        BY <1>1, <2>1, ClaimsForRead
      <3>2. IsPrefix(v, v)
        BY DEF IsPrefix
      <3>3. QED
        BY <3>1, <3>2 DEF ClaimId, Id
    <2>2. CASE v \notin Standalone(app)
      <3>1. PICK i \in 0..(ReplicaCount(app.services[s]) - 1) : c = ClaimId(TemplateClaim(v, s, i))
        BY <1>1, <2>2, ClaimsForRead
      <3>2. i \in Nat /\ i < Len(Numerals)
        <4>1. ReplicaCount(app.services[s]) \in Nat /\ ReplicaCount(app.services[s]) <= Len(Numerals)
          BY <1>1, Replicas
        <4>2. Len(Numerals) \in Nat
          BY NamesAssumption
        <4>3. QED
          BY <4>1, <4>2
      <3>3. IsPrefix(v, TemplateClaim(v, s, i))
        BY <1>1, <3>2, ClaimsPrefixed
      <3>4. QED
        BY <3>1, <3>3 DEF ClaimId, Id
    <2>3. QED
      BY <2>1, <2>2
  <1>4. QED
    BY <1>2, <1>3 DEF ClaimsNamed, Of

\* What is resolved where the scheduled backups are seen, by the replica of the backup.
LEMMA ScheduledRead ==
  ASSUME Inv, Small, deployed # None, NEW v \in Volumes(deployed.app), NEW r, NEW seen,
         Scheduled(v, seen) # {}, BackupTarget(v, r, seen) # None
  PROVE  LET n == Len(ClaimNames(deployed.app, v)) IN
         \E i \in 1..n : /\ r = IF n <= 1 THEN None ELSE i - 1
                         /\ BackupTarget(v, r, seen).claim = ClaimId(ClaimNames(deployed.app, v)[i])
  <1> DEFINE app == deployed.app
             fits == Fitting(v, r, seen)
             found == BackupTarget(v, r, seen)
  <1>1. found.claim \in fits
    <2>1. fits # {} /\ found = [claim |-> First(fits), repo |-> Suffixed(v, r)] /\ First(fits) \in fits
      BY TargetRead
    <2> HIDE DEF fits, found
    <2>2. QED
      BY <2>1
  <1>2. PICK o \in Scheduled(v, seen) : cluster[o].label.replica = r /\ found.claim \in cluster[o].uses
    <2>1. fits = UNION {cluster[o].uses : o \in {p \in Scheduled(v, seen) : cluster[p].label.replica = r}}
      BY DEF Fitting
    <2> HIDE DEF found, fits
    <2>2. QED
      BY <1>1, <2>1
  <1> HIDE DEF found
  <1>3. o \in Of("cronjobs") /\ cluster[o].label # None /\ cluster[o].label.volume = v
    BY DEF Scheduled
  <1>4. PICK w \in Volumes(app) : \E i \in 1..Len(ClaimNames(app, w)) :
           /\ cluster[o].label.volume = w
           /\ cluster[o].label.replica = IF Len(ClaimNames(app, w)) <= 1 THEN None ELSE i - 1
           /\ cluster[o].uses = {ClaimId(ClaimNames(app, w)[i])}
    BY <1>3, LabelsRead
  <1>5. w = v
    BY <1>3, <1>4
  <1>6. QED
    BY <1>2, <1>4, <1>5 DEF found

\* What is resolved for a volume or a replica of it, if pods mount it.
LEMMA VolumeResolves ==
  ASSUME Inv, Small, deployed # None,
         UNION {TemplateClaims(o) : o \in Of("statefulsets")} \subseteq Present,
         NEW v \in Volumes(deployed.app), NEW r \in Replica \cup {None}, NEW seen \in BOOLEAN,
         BackupTarget(v, r, seen) # None, r = None \/ Scheduled(v, seen) # {},
         NEW s \in Services(deployed.app), NEW c \in ClaimsFor(deployed.app, s, v)
  PROVE  \E t \in Services(deployed.app) : BackupTarget(v, r, seen).claim \in ClaimsFor(deployed.app, t, v)
  <1> DEFINE app == deployed.app
             n == Len(ClaimNames(app, v))
             fits == Fitting(v, r, seen)
             found == BackupTarget(v, r, seen)
  <1>1. app \in App /\ Valid(app) /\ v \in VolumeName /\ s \in ServiceName
    BY DEF Inv, TypeOK, Volumes, Services
  <1>2. CASE Scheduled(v, seen) # {}
    <2>1. PICK i \in 1..n : r = (IF n <= 1 THEN None ELSE i - 1) /\ found.claim = ClaimId(ClaimNames(app, v)[i])
      BY <1>2, ScheduledRead
    <2> HIDE DEF found
    <2>2. n \in Nat /\ i - 1 \in Nat /\ n <= Len(Numerals) /\ Len(Numerals) \in Nat
      BY <1>1, RepositoryTypes, ClaimsAre, NamesAssumption
    <2>3. CASE n <= 1
      <3>1. PICK k \in 1..n : c = ClaimId(ClaimNames(app, v)[k])
        BY <1>1, ClaimsListed
      <3>2. i = k
        <4> HIDE DEF n
        <4>1. QED
          BY <2>2, <2>3
      <3>3. QED
        BY <2>1, <3>1, <3>2 DEF found
    <2>4. CASE ~(n <= 1)
      <3>1. v \notin Standalone(app)
        BY <1>1, <2>4, ClaimNamed
      <3>2. v \in app.services[s].volumes /\ (app.services[s].schedule \/ Replicated(app.services[s])) /\ s \in Mounters(app, v)
        BY <1>1, ClaimsForRead
      <3>3. n = ReplicaCount(app.services[s]) /\ ClaimNames(app, v)[i] = TemplateClaim(v, s, i - 1)
        BY <1>1, <2>4, <3>2, ClaimNamed
      <3>4. ClaimsFor(app, s, v) = {ClaimId(TemplateClaim(v, s, k)) : k \in 0..(ReplicaCount(app.services[s]) - 1)}
        BY <1>1, <3>1, <3>2, ClaimsForRead
      <3>5. i - 1 \in 0..(ReplicaCount(app.services[s]) - 1)
        <4>1. i \in 1..n /\ n = ReplicaCount(app.services[s])
          BY <3>3
        <4> HIDE DEF n
        <4>2. QED
          BY <2>2, <4>1
      <3>6. found.claim \in ClaimsFor(app, s, v)
        BY <2>1, <3>3, <3>4, <3>5
      <3>7. QED
        BY <3>6 DEF found
    <2>5. QED
      BY <2>3, <2>4
  <1>3. CASE Scheduled(v, seen) = {} /\ r = None
    <2>1. /\ found = [claim |-> First(fits), repo |-> Suffixed(v, r)]
          /\ First(fits) \in fits /\ ~(Cardinality(fits) > 1) /\ fits # {}
      BY <1>3, TargetRead
    <2>2. fits = ClaimsNamed(v)
      BY <1>3 DEF Fitting
    <2>3. IsFiniteSet(fits)
      BY <2>2, FS_Subset DEF Small, ClaimsNamed, Of
    <2>4. PICK d : fits = {d}
      <3> HIDE DEF fits
      <3>1. Cardinality(fits) \in Nat /\ Cardinality(fits) # 0
        BY <2>1, <2>3, FS_CardinalityType, FS_EmptySet
      <3>2. Cardinality(fits) = 1
        BY <2>1, <3>1
      <3>3. QED
        BY <2>3, <3>2, FS_Singleton
    <2>5. c \in fits
      BY <1>1, <2>2, MountedNamed
    <2>6. found.claim = c
      <3> HIDE DEF fits, found
      <3>1. QED
        BY <2>1, <2>4, <2>5
    <2>7. QED
      BY <2>6
  <1>4. QED
    BY <1>2, <1>3

\* A replica that is named is never taken for another one.
LEMMA ReplicaResolves ==
  ASSUME Inv, Small, deployed # None, NEW v \in Volumes(deployed.app), NEW r \in Replica, NEW seen \in BOOLEAN,
         BackupTarget(v, r, seen) # None
  PROVE  OfReplica({BackupTarget(v, r, seen).claim}, r) # {}
  <1> DEFINE app == deployed.app
             n == Len(ClaimNames(app, v))
             fits == Fitting(v, r, seen)
             found == BackupTarget(v, r, seen)
  <1>1. app \in App /\ v \in VolumeName
    BY DEF Inv, Volumes
  <1>2. Len(Numerals) \in Nat /\ r \in Nat /\ r < Len(Numerals) /\ r # None
    BY NamesAssumption, NoneAssumption DEF Replica
  <1>3. CASE Scheduled(v, seen) # {}
    <2>1. PICK i \in 1..n : r = (IF n <= 1 THEN None ELSE i - 1) /\ found.claim = ClaimId(ClaimNames(app, v)[i])
      BY <1>3, ScheduledRead
    <2> HIDE DEF found
    <2>2. ~(n <= 1) /\ r = i - 1
      BY <1>2, <2>1
    <2>3. PICK s \in Mounters(app, v) : ClaimNames(app, v)[i] = TemplateClaim(v, s, i - 1)
      BY <1>1, <2>2, ClaimNamed
    <2>4. s \in ServiceName
      BY DEF Mounters, Services
    <2>5. /\ v \in Seq(STRING) /\ v # <<>> /\ s \in Seq(STRING)
          /\ Ordinal(r) \in Seq(STRING) /\ Len(Ordinal(r)) = 1
      BY <1>1, <1>2, <2>4, NameTypes, OrdinalsDiffer
    <2> DEFINE a == v \o s
    <2>6. a \in Seq(STRING) /\ Len(a) > 0 /\ TemplateClaim(v, s, r) = a \o Ordinal(r)
      BY <2>5 DEF TemplateClaim
    <2> HIDE DEF a
    <2>7. Len(a \o Ordinal(r)) > 1
      BY <2>5, <2>6
    <2>8. Last(a \o Ordinal(r)) = Ordinal(r)[1]
      <3>1. Last(Ordinal(r)) = Ordinal(r)[1]
        BY <2>5 DEF Last
      <3>2. Ordinal(r) # <<>>
        BY <2>5, OneWord
      <3>3. Last(a \o Ordinal(r)) = Last(Ordinal(r))
        BY <2>5, <2>6, <3>2, LastWord
      <3>4. QED
        BY <3>1, <3>3
    <2>9. found.claim.name = a \o Ordinal(r)
      BY <2>1, <2>2, <2>3, <2>6 DEF ClaimId, Id
    <2>10. QED
      BY <2>7, <2>8, <2>9 DEF OfReplica, found
  <1>4. CASE Scheduled(v, seen) = {}
    <2>1. found = [claim |-> First(fits), repo |-> Suffixed(v, r)] /\ First(fits) \in fits
      BY TargetRead
    <2>2. fits = OfReplica(ClaimsNamed(v), r)
      BY <1>2, <1>4 DEF Fitting
    <2>3. found.claim \in OfReplica(ClaimsNamed(v), r)
      <3> HIDE DEF fits, found
      <3>1. QED
        BY <2>1, <2>2
    <2> HIDE DEF found
    <2>4. QED
      BY <2>3 DEF OfReplica, found
  <1>5. QED
    BY <1>3, <1>4

\* Where no backup is seen, each replica that pods have is found.
LEMMA ReplicaFound ==
  ASSUME Inv, Small, deployed # None,
         UNION {TemplateClaims(o) : o \in Of("statefulsets")} \subseteq Present,
         NEW v \in Volumes(deployed.app), NEW r \in Replica, NEW seen \in BOOLEAN, Scheduled(v, seen) = {},
         NEW s \in Services(deployed.app), NEW c \in ClaimsFor(deployed.app, s, v), c \in OfReplica({c}, r)
  PROVE  BackupTarget(v, r, seen) # None
  <1> DEFINE fits == Fitting(v, r, seen)
             found == BackupTarget(v, r, seen)
  <1>1. v \in VolumeName
    BY DEF Volumes
  <1>2. Len(Numerals) \in Nat /\ r \in Nat /\ r < Len(Numerals) /\ r # None
    BY NamesAssumption, NoneAssumption DEF Replica
  <1>3. c \in fits
    <2>1. c \in ClaimsNamed(v)
      BY <1>1, MountedNamed
    <2>2. fits = OfReplica(ClaimsNamed(v), r)
      BY <1>2 DEF Fitting
    <2>3. QED
      BY <2>1, <2>2 DEF OfReplica
  <1>4. found = [claim |-> First(fits), repo |-> Suffixed(v, r)] /\ \E n \in ClaimName : First(fits) = ClaimId(n)
    <2>1. fits # {}
      BY <1>3
    <2>2. QED
      BY <1>2, <2>1, TargetRead
  <1> HIDE DEF fits, found
  <1>5. First(fits) \in [gvr : {"persistentvolumeclaims"}, name : Seq(STRING)]
    BY <1>4, ClaimNameRead
  <1>6. Suffixed(v, r) \in Repositories
    <2> DEFINE p == <<"r">>
               q == p \o Ordinal(r)
    <2>1. v \in Seq(Words) /\ Ordinal(r) \in Seq(Words) /\ p \in Seq(Words)
      <3>1. "r" \in Words
        BY DEF Words
      <3>2. QED
        BY <1>1, <1>2, <3>1, NameWords
    <2>2. Suffixed(v, r) = <<v, q>>
      BY <1>2 DEF Suffixed
    <2> HIDE DEF p
    <2>3. q \in Seq(Words)
      BY <2>1
    <2> HIDE DEF q
    <2>4. <<v, q>> \in Seq(Seq(Words))
      BY <2>1, <2>3
    <2>5. QED
      BY <2>2, <2>4 DEF Repositories
  <1>7. found \in Targets
    BY <1>4, <1>5, <1>6 DEF Targets
  <1>8. QED
    BY <1>7, NoneAssumption DEF found

\* What the backup commands resolve agrees with what the scheduled backups do and with
\* the claims that pods mount, for all names, whether the CronJobs can be listed or not
\* (backupTarget in cmd/jekyo/backup.go against backupCronJob in compile).  Each backup
\* has the claim and the repository that its volume and replica resolve to; a volume
\* resolves to a claim that is mounted, and so does a replica that is named, unless no
\* backup is seen and claims of another version fit it too; and no replica is taken for
\* another one.
THEOREM TargetsAlwaysResolve == Spec => []TargetsResolve
  <1>1. ASSUME Inv, Small PROVE TargetsResolve
    <2> DEFINE M(v) == UNION {ClaimsFor(deployed.app, s, v) : s \in Services(deployed.app)}
    <2>1. SUFFICES ASSUME deployed # None, UNION {TemplateClaims(o) : o \in Of("statefulsets")} \subseteq Present
                   PROVE  /\ \A o \in Of("cronjobs") : cluster[o].label # None =>
                               LET found == BackupTarget(cluster[o].label.volume, cluster[o].label.replica, TRUE)
                               IN  found # None /\ found.claim \in cluster[o].uses /\ found.repo = cluster[o].repo
                          /\ \A v \in Volumes(deployed.app), r \in Replica \cup {None}, seen \in BOOLEAN :
                               LET found   == BackupTarget(v, r, seen)
                                   guessed == r # None /\ Scheduled(v, seen) = {}
                               IN  /\ found # None /\ M(v) # {} =>
                                        found.claim \in M(v) \/ (guessed /\ ~(Fitting(v, r, seen) \subseteq M(v)))
                                   /\ found # None /\ r # None => OfReplica({found.claim}, r) # {}
                                   /\ guessed /\ OfReplica(M(v), r) # {} => found # None
      BY DEF TargetsResolve
    <2>2. ASSUME NEW o \in Of("cronjobs"), cluster[o].label # None
          PROVE  LET found == BackupTarget(cluster[o].label.volume, cluster[o].label.replica, TRUE)
                 IN  found # None /\ found.claim \in cluster[o].uses /\ found.repo = cluster[o].repo
      BY <1>1, <2>1, <2>2, BackupResolves
    <2>3. ASSUME NEW v \in Volumes(deployed.app), NEW r \in Replica \cup {None}, NEW seen \in BOOLEAN,
                 BackupTarget(v, r, seen) # None, M(v) # {}
          PROVE  \/ BackupTarget(v, r, seen).claim \in M(v)
                 \/ r # None /\ Scheduled(v, seen) = {} /\ ~(Fitting(v, r, seen) \subseteq M(v))
      <3>1. PICK s \in Services(deployed.app) : \E c : c \in ClaimsFor(deployed.app, s, v)
        BY <2>3
      <3>2. PICK c : c \in ClaimsFor(deployed.app, s, v)
        BY <3>1
      <3>3. CASE r = None \/ Scheduled(v, seen) # {}
        <4>1. \E t \in Services(deployed.app) : BackupTarget(v, r, seen).claim \in ClaimsFor(deployed.app, t, v)
          BY <1>1, <2>1, <2>3, <3>2, <3>3, VolumeResolves
        <4>2. QED
          BY <4>1
      <3>4. CASE r # None /\ Scheduled(v, seen) = {}
        <4> DEFINE fits == Fitting(v, r, seen)
                   found == BackupTarget(v, r, seen)
        <4>1. found = [claim |-> First(fits), repo |-> Suffixed(v, r)] /\ First(fits) \in fits
          BY <1>1, <2>1, <2>3, TargetRead
        <4> HIDE DEF fits, found, M
        <4>2. fits \subseteq M(v) => found.claim \in M(v)
          BY <4>1
        <4>3. QED
          BY <3>4, <4>2 DEF fits, found
      <3>5. QED
        BY <3>3, <3>4
    <2>4. ASSUME NEW v \in Volumes(deployed.app), NEW r \in Replica \cup {None}, NEW seen \in BOOLEAN, r # None
          PROVE  /\ BackupTarget(v, r, seen) # None => OfReplica({BackupTarget(v, r, seen).claim}, r) # {}
                 /\ Scheduled(v, seen) = {} /\ OfReplica(M(v), r) # {} => BackupTarget(v, r, seen) # None
      <3>1. r \in Replica
        BY <2>4
      <3>2. BackupTarget(v, r, seen) # None => OfReplica({BackupTarget(v, r, seen).claim}, r) # {}
        BY <1>1, <2>1, <3>1, ReplicaResolves
      <3>3. ASSUME Scheduled(v, seen) = {}, OfReplica(M(v), r) # {} PROVE BackupTarget(v, r, seen) # None
        <4>1. PICK c \in M(v) : c \in OfReplica({c}, r)
          BY <3>3 DEF OfReplica
        <4>2. PICK s \in Services(deployed.app) : c \in ClaimsFor(deployed.app, s, v)
          BY <4>1
        <4>3. QED
          BY <1>1, <2>1, <3>1, <3>3, <4>1, <4>2, ReplicaFound
      <3>4. QED
        BY <3>2, <3>3
    <2> HIDE DEF M
    <2>5. ASSUME NEW v \in Volumes(deployed.app), NEW r \in Replica \cup {None}, NEW seen \in BOOLEAN
          PROVE  LET found   == BackupTarget(v, r, seen)
                     guessed == r # None /\ Scheduled(v, seen) = {}
                 IN  /\ found # None /\ M(v) # {} =>
                          found.claim \in M(v) \/ (guessed /\ ~(Fitting(v, r, seen) \subseteq M(v)))
                     /\ found # None /\ r # None => OfReplica({found.claim}, r) # {}
                     /\ guessed /\ OfReplica(M(v), r) # {} => found # None
      BY <2>3, <2>4
    <2>6. QED
      BY <2>2, <2>5
  <1>2. QED
    BY <1>1, Sized, PTL

-----------------------------------------------------------------------------
(***************************************************************************)
(* One backup job for each claim, where no two volumes have names that are *)
(* joined to the same one.                                                 *)
(***************************************************************************)

\* The backups of an app are named apart.
LEMMA BackupsNamed ==
  ASSUME NEW app \in App, NEW ss, NEW vs, vs \subseteq VolumeName, CronJobsApart(ss, vs),
         NEW v \in vs, NEW w \in vs,
         NEW i \in 1..Len(ClaimNames(app, v)), NEW j \in 1..Len(ClaimNames(app, w))
  PROVE  LET m == Len(ClaimNames(app, v))
             n == Len(ClaimNames(app, w))
         IN  /\ BackupJobName(v, i - 1, m) = BackupJobName(w, j - 1, n) => v = w /\ i = j
             /\ BackupJobName(v, i - 1, m) \notin ss
  <1> DEFINE m == Len(ClaimNames(app, v))
             n == Len(ClaimNames(app, w))
             Which(k) == IF k <= 1 THEN 1 ELSE 2
  <1>1. m \in Nat /\ n \in Nat /\ m <= Len(Numerals) /\ n <= Len(Numerals) /\ Len(Numerals) \in Nat
    BY ClaimsAre, NamesAssumption
  <1>2. i - 1 \in Replica /\ j - 1 \in Replica /\ i \in Nat /\ j \in Nat
    BY <1>1 DEF Replica
  <1>3. \A x, k : \A l \in Nat : BackupJobName(x, k, l) = BackupJobName(x, k, Which(l))
    BY DEF BackupJobName
  <1>4. Which(m) \in {1, 2} /\ Which(n) \in {1, 2}
    OBVIOUS
  <1>5. BackupJobName(v, i - 1, m) \notin ss
    <2> HIDE DEF Which, m
    <2>1. QED
      BY <1>1, <1>2, <1>3, <1>4 DEF CronJobsApart
  <1>6. ASSUME BackupJobName(v, i - 1, m) = BackupJobName(w, j - 1, n) PROVE v = w /\ i = j
    <2>1. v = w
      <3> HIDE DEF Which, m, n
      <3>1. QED
        BY <1>1, <1>2, <1>3, <1>4, <1>6 DEF CronJobsApart
    <2>2. CASE m <= 1
      BY <1>1, <2>1, <2>2
    <2>3. CASE ~(m <= 1)
      <3> DEFINE x == <<"backup">> \o v
                 a == Ordinal(i - 1)
                 b == Ordinal(j - 1)
                 u == <<"backup">>
      <3>1. x \o a = x \o b
        BY <1>6, <2>1, <2>3 DEF BackupJobName
      <3>2. i - 1 \in Nat /\ i - 1 < Len(Numerals) /\ j - 1 \in Nat /\ j - 1 < Len(Numerals)
        BY <1>1, <1>2 DEF Replica
      <3>3. a \in Seq(Words) /\ b \in Seq(Words) /\ Len(a) = Len(b) /\ v \in Seq(Words) /\ u \in Seq(Words)
        BY <3>2, OrdinalsDiffer, NameWords, "backup" \in Words DEF Words
      <3>4. u \o v \in Seq(Words)
        <4> HIDE DEF u
        <4>1. QED
          BY <3>3
      <3>5. x \in Seq(Words)
        BY <3>4
      <3> HIDE DEF a, b, x
      <3>6. a = b
        BY <3>1, <3>3, <3>5, Cancel
      <3>7. i - 1 = j - 1
        BY <3>2, <3>6, OrdinalsDiffer DEF a, b
      <3>8. QED
        BY <1>2, <2>1, <3>7
    <2>4. QED
      BY <2>2, <2>3
  <1>7. QED
    BY <1>5, <1>6

\* The claims of an app are named apart.
LEMMA ClaimsNamedApart ==
  ASSUME ClaimsApart, NEW app \in App, NEW v \in VolumeName, NEW w \in VolumeName,
         NEW i \in 1..Len(ClaimNames(app, v)), NEW j \in 1..Len(ClaimNames(app, w)),
         ClaimNames(app, v)[i] = ClaimNames(app, w)[j]
  PROVE  v = w /\ i = j
  <1> DEFINE Single(x) == x \in Standalone(app) \/ Mounters(app, x) = {}
  <1>1. ASSUME NEW x \in VolumeName, NEW k \in 1..Len(ClaimNames(app, x))
        PROVE  \/ ClaimNames(app, x)[k] = x /\ Single(x) /\ k = 1
               \/ \E s \in ServiceName : /\ ~Single(x) /\ s \in Mounters(app, x)
                                         /\ ClaimNames(app, x)[k] = TemplateClaim(x, s, k - 1)
    <2>1. CASE Single(x)
      <3>1. Len(ClaimNames(app, x)) = 1 /\ ClaimNames(app, x)[1] = x
        BY <2>1, ClaimsAre
      <3>2. QED
        BY <2>1, <3>1
    <2>2. CASE ~Single(x)
      <3>1. PICK s \in Mounters(app, x) : TRUE
        BY <2>2
      <3>2. s \in ServiceName
        BY DEF Mounters, Services
      <3>3. ClaimNames(app, x)[k] = TemplateClaim(x, s, k - 1)
        BY <2>2, ClaimsAre
      <3>4. QED
        BY <2>2, <3>2, <3>3
    <2>3. QED
      BY <2>1, <2>2
  <1>2. i - 1 \in Replica /\ j - 1 \in Replica /\ i - 1 \in Nat /\ j - 1 \in Nat /\ i \in Nat /\ j \in Nat
        /\ i - 1 < Len(Numerals) /\ j - 1 < Len(Numerals)
    <2>1. /\ Len(ClaimNames(app, v)) \in Nat /\ Len(ClaimNames(app, v)) <= Len(Numerals)
          /\ Len(ClaimNames(app, w)) \in Nat /\ Len(ClaimNames(app, w)) <= Len(Numerals)
          /\ Len(Numerals) \in Nat
      BY ClaimsAre, NamesAssumption
    <2>2. QED
      BY <2>1 DEF Replica
  <1> HIDE DEF Single
  <1>3. CASE ClaimNames(app, v)[i] = v /\ Single(v) /\ i = 1
    <2>1. ASSUME NEW t \in ServiceName, ClaimNames(app, w)[j] = TemplateClaim(w, t, j - 1) PROVE FALSE
      <3>1. TemplateClaim(w, t, j - 1) # v
        BY <1>2 DEF ClaimsApart
      <3>2. QED
        BY <1>3, <2>1, <3>1
    <2>2. QED
      BY <1>1, <1>3, <2>1
  <1>4. ASSUME NEW s \in ServiceName, ~Single(v), s \in Mounters(app, v),
               ClaimNames(app, v)[i] = TemplateClaim(v, s, i - 1)
        PROVE  v = w /\ i = j
    <2>1. ClaimNames(app, w)[j] # w
      BY <1>2, <1>4 DEF ClaimsApart
    <2>2. PICK t \in ServiceName : /\ t \in Mounters(app, w)
                                   /\ ClaimNames(app, w)[j] = TemplateClaim(w, t, j - 1)
      BY <1>1, <2>1
    <2>3. v = w
      <3>1. TemplateClaim(v, s, i - 1) = TemplateClaim(w, t, j - 1) => v = w
        BY <1>2, <1>4, <2>2 DEF ClaimsApart
      <3>2. QED
        BY <1>4, <2>2, <3>1
    <2>4. s = t
      <3>1. v \notin Standalone(app)
        BY <1>4 DEF Single
      <3>2. Mounters(app, v) = {s}
        BY <1>4, <3>1, OneMounter
      <3>3. QED
        BY <2>2, <2>3, <3>2
    <2>5. TemplateClaim(v, s, i - 1) = TemplateClaim(v, s, j - 1)
      BY <1>4, <2>2, <2>3, <2>4
    <2>6. i - 1 = j - 1
      BY <1>2, <2>5, ClaimsDiffer
    <2>7. QED
      BY <1>2, <2>3, <2>6
  <1>5. QED
    BY <1>1, <1>3, <1>4

\* Two backups in the namespace have two repositories, and none waits for a target
\* that there is.
LEMMA BackupsWork ==
  ASSUME Inv, deployed # None
  PROVE  /\ \A o, p \in Of("cronjobs") : o # p /\ cluster[o].repo # None => cluster[o].repo # cluster[p].repo
         /\ deployed.target => \A o \in Of("cronjobs") : ~cluster[o].suspended
  <1> DEFINE app == deployed.app
             L(v) == Len(ClaimNames(app, v))
  <1>1. app \in App
    BY DEF Inv
  <1>2. ASSUME NEW o \in Of("cronjobs"), NEW p \in Of("cronjobs"),
               cluster[o].repo # None, cluster[o].repo = cluster[p].repo
        PROVE  o = p
    <2>1. PICK v \in Volumes(app) : \E i \in 1..L(v) :
             /\ v \in VolumeName
             /\ cluster[o].repo = Repository(v, i - 1, L(v))
             /\ o = Id("cronjobs", BackupJobName(v, i - 1, L(v)))
      BY <1>2, LabelsRead
    <2>2. PICK i \in 1..L(v) :
             /\ v \in VolumeName
             /\ cluster[o].repo = Repository(v, i - 1, L(v))
             /\ o = Id("cronjobs", BackupJobName(v, i - 1, L(v)))
      BY <2>1
    <2>3. PICK w \in Volumes(app) : \E j \in 1..L(w) :
             /\ w \in VolumeName
             /\ cluster[p].repo = Repository(w, j - 1, L(w))
             /\ p = Id("cronjobs", BackupJobName(w, j - 1, L(w)))
      BY <1>2, LabelsRead
    <2>4. PICK j \in 1..L(w) :
             /\ w \in VolumeName
             /\ cluster[p].repo = Repository(w, j - 1, L(w))
             /\ p = Id("cronjobs", BackupJobName(w, j - 1, L(w)))
      BY <2>3
    <2>5. v = w /\ i = j
      <3>1. Repository(v, i - 1, L(v)) = Repository(w, j - 1, L(w)) /\ v \in VolumeName /\ w \in VolumeName
        BY <1>2, <2>2, <2>4
      <3>2. QED
        BY <1>1, <3>1, RepositoriesApart
    <2>6. QED
      BY <2>2, <2>4, <2>5
  <1>3. ASSUME deployed.target, NEW o \in Of("cronjobs") PROVE ~cluster[o].suspended
    <2>1. CASE cluster[o].repo # None
      <3>1. cluster[o].suspended = ~deployed.target
        BY <2>1, LabelsRead
      <3>2. QED
        BY <1>3, <3>1
    <2>2. CASE cluster[o].repo = None
      <3>1. \A v \in Volumes(app) : \A i \in 1..L(v) : BackupJob(app, v, i, deployed.target).spec.repo # None
        <4>1. ASSUME NEW v \in Volumes(app), NEW i \in 1..L(v)
              PROVE  BackupJob(app, v, i, deployed.target).spec.repo # None
          <5>1. v \in VolumeName
            BY DEF Volumes
          <5>2. Repository(v, i - 1, L(v)) # None
            BY <1>1, <5>1, RepositoryTypes
          <5>3. QED
            BY <5>2, BackupJobRead
        <4>2. QED
          BY <4>1
      <3>2. QED
        BY <2>2, <3>1, CronJobsRead
    <2>3. QED
      BY <2>1, <2>2
  <1>4. QED
    BY <1>2, <1>3

LEMMA BackupsOne ==
  ASSUME CronJobsApart(ServiceName, VolumeName), ClaimsApart, Inv, deployed # None,
         NEW v \in Volumes(deployed.app), NEW s \in Services(deployed.app),
         deployed.app.volumes[v].backup, NEW c \in ClaimsFor(deployed.app, s, v)
  PROVE  Cardinality(BackupsOf(c)) = 1
  <1> DEFINE app == deployed.app
             tgt == deployed.target
             objs == Objects(app, tgt)
             n == Len(ClaimNames(app, v))
  <1>1. app \in App /\ Valid(app) /\ v \in VolumeName /\ Holds(cluster, objs)
    BY DEF Inv, TypeOK, Volumes
  <1>2. PICK i \in 1..n : c = ClaimId(ClaimNames(app, v)[i])
    BY <1>1, ClaimsListed
  <1> DEFINE b == BackupJob(app, v, i, tgt)
  <1>3. b \in Range(objs)
    <2>1. b \in Range(BackupJobs(app, v, tgt))
      BY <1>1, BackupJobsRead
    <2>2. b \in Range(VolumeObjects(app, tgt))
      BY <1>1, <2>1, VolumeObjectsRead
    <2>3. QED
      BY <1>1, <2>2, ObjectsRead
  <1>4. /\ b.id = Id("cronjobs", BackupJobName(v, i - 1, n)) /\ b.id.gvr = "cronjobs"
        /\ b.spec.uses = {ClaimId(ClaimNames(app, v)[i])}
        /\ b.spec.repo = Repository(v, i - 1, n)
    BY BackupJobRead
  <1>5. b.spec.repo # None
    BY <1>1, <1>4, RepositoryTypes
  <1>6. ASSUME NEW p \in Range(objs), p.id = b.id PROVE p = b
    <2>1. p.id.gvr = "cronjobs" /\ p.id.name = BackupJobName(v, i - 1, n)
      BY <1>4, <1>6 DEF Id
    <2>2. BackupJobName(v, i - 1, n) \notin ServiceName
      BY <1>1, BackupsNamed
    <2>3. ASSUME NEW t \in Services(app), p = Workload(app, t) PROVE FALSE
      <3>1. p.id.name = t /\ t \in ServiceName
        BY <1>1, <2>3, WorkloadRead DEF Services
      <3>2. QED
        BY <2>1, <2>2, <3>1
    <2>4. PICK w \in Volumes(app) : \E j \in 1..Len(ClaimNames(app, w)) : p = BackupJob(app, w, j, tgt)
      BY <1>1, <2>1, <2>3, CronJobsCompiled
    <2>5. PICK j \in 1..Len(ClaimNames(app, w)) : p = BackupJob(app, w, j, tgt)
      BY <2>4
    <2>6. w \in VolumeName
      BY DEF Volumes
    <2>7. p.id.name = BackupJobName(w, j - 1, Len(ClaimNames(app, w)))
      <3>1. p.id = Id("cronjobs", BackupJobName(w, j - 1, Len(ClaimNames(app, w))))
        BY <2>5, BackupJobRead
      <3>2. QED
        BY <3>1 DEF Id
    <2>8. v = w /\ i = j
      BY <1>1, <2>1, <2>6, <2>7, BackupsNamed
    <2>9. QED
      BY <2>5, <2>8
  <1>7. b.id \in Of("cronjobs") /\ cluster[b.id] = b.spec
    <2> HIDE DEF b, objs
    <2>1. b.id \in IdsOf(objs)
      BY <1>3, IdsRead
    <2>2. PICK p \in Range(objs) : p.id = b.id /\ cluster[b.id] = p.spec
      BY <1>1, <2>1 DEF Holds
    <2>3. QED
      BY <1>1, <1>4, <1>6, <2>1, <2>2 DEF Holds, Of, Present
  <1>8. ASSUME NEW o \in BackupsOf(c) PROVE o = b.id
    <2>1. o \in Of("cronjobs") /\ cluster[o].repo # None /\ c \in cluster[o].uses
      BY DEF BackupsOf
    <2>2. PICK w \in Volumes(app) : \E j \in 1..Len(ClaimNames(app, w)) :
             /\ w \in VolumeName
             /\ cluster[o].uses = {ClaimId(ClaimNames(app, w)[j])}
             /\ o = Id("cronjobs", BackupJobName(w, j - 1, Len(ClaimNames(app, w))))
      BY <2>1, LabelsRead
    <2>3. PICK j \in 1..Len(ClaimNames(app, w)) :
             /\ w \in VolumeName
             /\ cluster[o].uses = {ClaimId(ClaimNames(app, w)[j])}
             /\ o = Id("cronjobs", BackupJobName(w, j - 1, Len(ClaimNames(app, w))))
      BY <2>2
    <2>4. ClaimNames(app, v)[i] = ClaimNames(app, w)[j]
      <3>1. ClaimId(ClaimNames(app, v)[i]) = ClaimId(ClaimNames(app, w)[j])
        BY <1>2, <2>1, <2>3
      <3>2. QED
        BY <3>1 DEF ClaimId, Id
    <2>5. v = w /\ i = j
      BY <1>1, <2>3, <2>4, ClaimsNamedApart
    <2>6. QED
      BY <1>4, <2>3, <2>5
  <1> HIDE DEF b, objs
  <1>9. BackupsOf(c) = {b.id}
    <2>1. b.id \in BackupsOf(c)
      BY <1>2, <1>4, <1>5, <1>7 DEF BackupsOf
    <2>2. QED
      BY <1>8, <2>1
  <1>10. QED
    BY <1>9, FS_Singleton

\* No two backups of a deployed app share a restic repository, where a restore could
\* not tell their snapshots apart, and with a target none of them is suspended: for all
\* names (RepoSuffixFor and backupCronJob).
THEOREM RepositoriesNeverShared ==
  Spec => [](deployed # None =>
               /\ \A o, p \in Of("cronjobs") :
                    o # p /\ cluster[o].repo # None => cluster[o].repo # cluster[p].repo
               /\ deployed.target => \A o \in Of("cronjobs") : ~cluster[o].suspended)
  <1>1. Inv => (deployed # None =>
               /\ \A o, p \in Of("cronjobs") :
                    o # p /\ cluster[o].repo # None => cluster[o].repo # cluster[p].repo
               /\ deployed.target => \A o \in Of("cronjobs") : ~cluster[o].suspended)
    BY BackupsWork
  <1>2. QED
    BY <1>1, Kept, PTL

\* Each claim that the pods of a deployed app mount for a volume with a backup has
\* exactly one backup job, which is the other half of BackupsCover: for all names but
\* those that make the claims or the jobs of two volumes, or a job and a scheduled
\* service, the same (ClaimNamesFor and BackupJobName against the workload builders).
THEOREM BackupsAlwaysCover ==
  ASSUME CronJobsApart(ServiceName, VolumeName), ClaimsApart
  PROVE  Spec => []BackupsCover
  <1>1. ASSUME Inv PROVE BackupsCover
    BY <1>1, BackupsWork, BackupsOne DEF BackupsCover
  <1>2. QED
    BY <1>1, Kept, PTL

-----------------------------------------------------------------------------
(***************************************************************************)
(* No two objects of one name: the services each own some, the volumes others.*)
(***************************************************************************)

\* The names of the objects that are made for a service.
ProxyName(s, i, h) == IF i = 1 THEN s ELSE s \o HostSlug(h)

Owned(app, s, id) ==
  \/ id.gvr \in {"deployments", "statefulsets", "cronjobs", "ingresses"} /\ id.name = s
  \/ id.gvr = "services" /\ id.name \in {s, NodePortName(s)}
  \/ id.gvr = "secrets" /\ id.name \in {SecretsName(s), FilesName(s, "from")}
  \/ /\ id.gvr = "configmaps"
     /\ \/ id.name = FilesName(s, "plain")
        \/ \E i \in DOMAIN HostsOf(app.services[s]) : id.name = TLSSecretName(s, i, HostsOf(app.services[s])[i])
  \/ /\ id.gvr = "httpproxies" /\ IsRedirect(app.services[s])
     /\ \E i \in DOMAIN HostsOf(app.services[s]) : id.name = ProxyName(s, i, HostsOf(app.services[s])[i])
  \/ id.gvr = "networkpolicies" /\ id.name = s \o <<"egress">>

\* The secrets the compiler names are told apart by their last word.
LEMMA SecretsApart ==
  ASSUME NEW s \in ServiceName, NEW t \in ServiceName
  PROVE  /\ SecretsName(s) # FilesName(t, "from")
         /\ SecretsName(s) # PullSecretName /\ FilesName(s, "from") # PullSecretName
         /\ SecretsName(s) = SecretsName(t) => s = t
         /\ FilesName(s, "from") = FilesName(t, "from") => s = t
         /\ FilesName(s, "plain") = FilesName(t, "plain") => s = t
         /\ NodePortName(s) = NodePortName(t) => s = t
         /\ s \o <<"egress">> = t \o <<"egress">> => s = t
  <1> DEFINE a == <<"secrets">>
             b == <<"files", "secret">>
             c == <<"files">>
             d == <<"nodeport">>
             e == <<"egress">>
  <1>1. s \in Seq(Words) /\ t \in Seq(Words)
    BY NameWords
  <1>2. /\ a \in Seq(Words) /\ a # <<>> /\ Last(a) = "secrets"
        /\ b \in Seq(Words) /\ b # <<>> /\ Last(b) = "secret"
        /\ c \in Seq(Words) /\ d \in Seq(Words) /\ e \in Seq(Words)
    <2>1. {"secrets", "files", "secret", "nodeport", "egress"} \subseteq Words
      BY DEF Words
    <2>2. \A S : \A x, y \in S : <<x>> \in Seq(S) /\ <<x, y>> \in Seq(S)
      OBVIOUS
    <2>3. a \in Seq(Words) /\ b \in Seq(Words) /\ c \in Seq(Words) /\ d \in Seq(Words) /\ e \in Seq(Words)
      BY <2>1, <2>2
    <2>4. a # <<>> /\ Last(a) = "secrets" /\ b # <<>> /\ Last(b) = "secret"
      BY DEF Last
    <2>5. QED
      BY <2>3, <2>4
  <1>3. Last(PullSecretName) = "pull"
    BY DEF PullSecretName, Last
  <1>4. /\ SecretsName(s) = s \o a /\ SecretsName(t) = t \o a
        /\ FilesName(s, "from") = s \o b /\ FilesName(t, "from") = t \o b
        /\ FilesName(s, "plain") = s \o c /\ FilesName(t, "plain") = t \o c
        /\ NodePortName(s) = s \o d /\ NodePortName(t) = t \o d
    BY DEF SecretsName, FilesName, NodePortName
  <1> HIDE DEF a, b, c, d, e
  <1>5. Last(s \o a) = "secrets" /\ Last(s \o b) = "secret" /\ Last(t \o b) = "secret"
    BY <1>1, <1>2, LastWord
  <1>6. /\ s \o a = t \o a => s = t
        /\ s \o b = t \o b => s = t
        /\ s \o c = t \o c => s = t
        /\ s \o d = t \o d => s = t
        /\ s \o e = t \o e => s = t
    <2>1. ASSUME NEW x \in Seq(Words), s \o x = t \o x PROVE s = t
      BY <1>1, <2>1, Cancel
    <2>2. QED
      BY <1>2, <2>1
  <1>7. QED
    BY <1>3, <1>4, <1>5, <1>6 DEF e

-----------------------------------------------------------------------------
(***************************************************************************)
(* Names that are joined.                                                  *)
(***************************************************************************)

\* Of two ways to split a sequence the shorter first part begins the longer.
LEMMA Starts ==
  ASSUME NEW S, NEW x \in Seq(S), NEW a \in Seq(S), NEW y \in Seq(S), NEW b \in Seq(S),
         x \o a = y \o b, Len(x) <= Len(y)
  PROVE  IsPrefix(x, y)
  <1>1. /\ \A i \in 1..(Len(x) + Len(a)) : (x \o a)[i] = IF i <= Len(x) THEN x[i] ELSE a[i - Len(x)]
        /\ \A i \in 1..(Len(y) + Len(b)) : (y \o b)[i] = IF i <= Len(y) THEN y[i] ELSE b[i - Len(y)]
        /\ Len(x) \in Nat /\ Len(y) \in Nat /\ Len(a) \in Nat /\ Len(b) \in Nat
    BY ConcatProperties
  <1>2. ASSUME NEW i \in 1..Len(x) PROVE x[i] = y[i]
    <2>1. i \in 1..(Len(x) + Len(a)) /\ i <= Len(x) /\ i \in 1..(Len(y) + Len(b)) /\ i <= Len(y)
      BY <1>1
    <2>2. (x \o a)[i] = x[i] /\ (y \o b)[i] = y[i]
      BY <1>1, <2>1
    <2>3. QED
      BY <2>2
  <1>3. SubSeq(x, 1, Len(x)) = SubSeq(y, 1, Len(x))
    BY <1>1, <1>2
  <1>4. QED
    BY <1>3 DEF IsPrefix

LEMMA SlugWords ==
  ASSUME NEW h \in Host
  PROVE  HostSlug(h) \in Seq(Words) /\ HostSlug(h) # <<>>
  <1>1. /\ h \in Seq(Seq(STRING)) /\ Len(h) \in Nat /\ Len(h) # 0 /\ DOMAIN h = 1..Len(h)
        /\ \A i \in DOMAIN h : h[i] \in Seq(STRING) /\ h[i] # <<>>
    <2>1. h \in Seq(Seq(STRING) \ {<<>>}) /\ h # <<>>
      BY NamesAssumption
    <2> DEFINE L == Seq(STRING) \ {<<>>}
    <2>2. L \subseteq Seq(STRING) /\ \A x \in L : x # <<>>
      OBVIOUS
    <2> HIDE DEF L
    <2>3. h \in Seq(L) /\ Len(h) # 0
      BY <2>1 DEF L
    <2>4. h \in Seq(Seq(STRING))
      BY <2>2, <2>3, SeqMonotonic
    <2>5. \A i \in 1..Len(h) : h[i] \in L
      BY <2>3
    <2>6. QED
      BY <2>2, <2>3, <2>4, <2>5
  <1>2. List(h) /\ \A i \in DOMAIN h : List(h[i]) /\ Range(h[i]) \subseteq STRING
    BY <1>1, ListRead
  <1>3. /\ List(FlattenSeq(h))
        /\ \A x : x \in Range(FlattenSeq(h)) <=> \E i \in DOMAIN h : x \in Range(h[i])
    BY <1>2, Flatten
  <1> DEFINE f == FlattenSeq(h)
  <1>4. Range(f) \subseteq Words
    <2>1. STRING \subseteq Words
      BY DEF Words
    <2> HIDE DEF f
    <2>2. QED
      BY <1>2, <1>3, <2>1 DEF f
  <1>5. Range(f) # {}
    <2>1. 1 \in DOMAIN h
      BY <1>1
    <2>2. Len(h[1]) # 0 /\ DOMAIN h[1] = 1..Len(h[1]) /\ Len(h[1]) \in Nat
      <3>1. h[1] \in Seq(STRING) /\ h[1] # <<>>
        BY <1>1, <2>1
      <3>2. QED
        BY <3>1, EmptySeq, LenProperties
    <2>3. h[1][1] \in Range(h[1])
      <3>1. 1 \in DOMAIN h[1]
        BY <2>2
      <3>2. QED
        BY <3>1, RangeRead
    <2>4. QED
      BY <1>3, <2>1, <2>3
  <1> HIDE DEF f
  <1>6. f \in Seq(Words) /\ f # <<>>
    BY <1>3, <1>4, <1>5, SeqMonotonic, Nil DEF f, List
  <1>7. QED
    BY <1>6 DEF f, HostSlug

\* What stands behind the name of a service, or its tls, for one of its hosts.
Behind(hosts, i) == IF i = 1 THEN <<>> ELSE HostSlug(hosts[i])

LEMMA BehindRead ==
  ASSUME NEW app \in App, Resolved(app), NEW s \in Services(app), NEW i \in DOMAIN HostsOf(app.services[s])
  PROVE  LET hosts == HostsOf(app.services[s])
             a == Behind(hosts, i)
         IN  /\ a \in Seq(Words) /\ (a = <<>> <=> i = 1) /\ s \in Seq(Words)
             /\ TLSSecretName(s, i, hosts[i]) = (s \o <<"tls">>) \o a
             /\ ProxyName(s, i, hosts[i]) = s \o a
  <1> DEFINE hosts == HostsOf(app.services[s])
             a == Behind(hosts, i)
             tls == <<"tls">>
  <1>1. hosts[i] \in Host
    BY RangeRead DEF Resolved
  <1>2. HostSlug(hosts[i]) \in Seq(Words) /\ HostSlug(hosts[i]) # <<>>
    BY <1>1, SlugWords
  <1>3. s \in Seq(Words) /\ tls \in Seq(Words)
    BY ServiceShape, NameWords, "tls" \in Words DEF Words
  <1> HIDE DEF tls, hosts
  <1>4. s \o tls \in Seq(Words)
    BY <1>3
  <1>5. CASE i = 1
    <2>1. a = <<>> /\ a \in Seq(Words)
      BY <1>5 DEF Behind
    <2>2. \A x \in Seq(Words) : x \o <<>> = x
      OBVIOUS
    <2>3. QED
      BY <1>3, <1>4, <1>5, <2>1, <2>2 DEF TLSSecretName, ProxyName, tls, hosts
  <1>6. CASE i # 1
    <2>1. a = HostSlug(hosts[i])
      BY <1>6 DEF Behind
    <2>2. QED
      BY <1>2, <1>3, <1>6, <2>1 DEF TLSSecretName, ProxyName, tls, hosts
  <1>7. QED
    BY <1>5, <1>6

\* With tls between them, names are joined in one way only.
LEMMA TLSJoined ==
  ASSUME NEW s \in Seq(Words), NEW t \in Seq(Words), NEW a \in Seq(Words), NEW b \in Seq(Words),
         NEW e \in Seq(Words), Len(e) = 1
  PROVE  ~IsPrefix(s \o e, t) /\ ~IsPrefix(t \o e, s) /\ (s \o e) \o a = (t \o e) \o b => s = t /\ a = b
  <1>a. (s \o e) \o a = s \o (e \o a)
    BY SMTT(20)
  <1>b. (t \o e) \o b = t \o (e \o b)
    BY SMTT(20)
  <1> DEFINE p == s \o e
             q == t \o e
             x == e \o a
             y == e \o b
  <1>1. Len(s) \in Nat /\ Len(t) \in Nat
    BY LenProperties
  <1>2. p \in Seq(Words) /\ Len(p) = Len(s) + Len(e)
    BY ConcatProperties
  <1>3. q \in Seq(Words) /\ Len(q) = Len(t) + Len(e)
    BY ConcatProperties
  <1>4. x \in Seq(Words) /\ y \in Seq(Words)
    BY ConcatProperties
  <1>5. p \o a = s \o x
    BY <1>a
  <1>6. q \o b = t \o y
    BY <1>b
  <1> HIDE DEF x, y
  <1>7. p = q => s = t
    BY Cancel
  <1> HIDE DEF p, q
  <1>8. Len(p) = Len(s) + 1 /\ Len(q) = Len(t) + 1
    BY <1>2, <1>3
  <1>9. p \in Seq(Words) /\ q \in Seq(Words)
    BY <1>2, <1>3
  <1>10. ASSUME ~IsPrefix(p, t), ~IsPrefix(q, s), p \o a = q \o b PROVE p = q /\ a = b
    <2>1. CASE Len(s) < Len(t)
      <3>1. Len(p) <= Len(t)
        BY <1>1, <1>8, <2>1
      <3>2. p \o a = t \o y
        BY <1>6, <1>10, Zenon
      <3>3. IsPrefix(p, t)
        BY <1>4, <1>9, <3>1, <3>2, Starts
      <3>4. QED
        BY <1>10, <3>3
    <2>2. CASE Len(t) < Len(s)
      <3>1. Len(q) <= Len(s)
        BY <1>1, <1>8, <2>2
      <3>2. q \o b = s \o x
        BY <1>5, <1>10, Zenon
      <3>3. IsPrefix(q, s)
        BY <1>4, <1>9, <3>1, <3>2, Starts
      <3>4. QED
        BY <1>10, <3>3
    <2>3. CASE Len(s) = Len(t)
      <3>1. Len(p) = Len(q) /\ p \o a = q \o b
        BY <1>8, <1>10, <2>3
      <3>2. QED
        BY <1>9, <3>1, Cancel
    <2>4. QED
      BY <1>1, <2>1, <2>2, <2>3
  <1>11. QED
    BY <1>7, <1>10 DEF p, q

LEMMA FilesJoined ==
  ASSUME NEW s \in Seq(Words), NEW t \in Seq(Words), NEW a \in Seq(Words),
         ~IsPrefix(s \o <<"tls">>, t), (s \o <<"tls">>) \o a = FilesName(t, "plain")
  PROVE  FALSE
  <1> DEFINE tls == <<"tls">>
             files == <<"files">>
             p == s \o tls
  <1>1. tls \in Seq(Words) /\ Len(tls) = 1 /\ files \in Seq(Words) /\ Len(files) = 1
        /\ tls # <<>> /\ files # <<>> /\ Last(tls) = "tls" /\ Last(files) = "files"
    BY "tls" \in Words, "files" \in Words DEF Words, Last
  <1>2. p \o a = t \o files
    BY DEF FilesName
  <1> HIDE DEF tls, files
  <1>3. p \in Seq(Words) /\ Len(p) = Len(s) + 1 /\ Len(s) \in Nat /\ Len(t) \in Nat
    <2>1. tls \in Seq(Words) /\ Len(tls) = 1
      BY <1>1
    <2>2. p \in Seq(Words) /\ Len(p) = Len(s) + Len(tls) /\ Len(s) \in Nat /\ Len(t) \in Nat
      BY <2>1, ConcatProperties, LenProperties
    <2>3. QED
      BY <2>1, <2>2
  <1>4. Last(p) = "tls" /\ Last(t \o files) = "files"
    BY <1>1, LastWord
  <1> HIDE DEF p
  <1>5. a # <<>>
    <2>1. ASSUME a = <<>> PROVE FALSE
      <3>1. p \o a = p
        BY <1>3, <2>1
      <3>2. QED
        BY <1>2, <1>4, <3>1
    <2>2. QED
      BY <2>1
  <1>6. Len(p) + Len(a) = Len(t) + 1 /\ Len(a) \in Nat /\ Len(a) # 0
    <2>3. p \in Seq(Words) /\ files \in Seq(Words) /\ Len(files) = 1
      BY <1>1, <1>3
    <2>1. Len(p \o a) = Len(p) + Len(a) /\ Len(t \o files) = Len(t) + Len(files) /\ Len(a) \in Nat
      BY <2>3, ConcatProperties, LenProperties
    <2>4. Len(a) # 0
      BY <1>5, EmptySeq
    <2>2. QED
      BY <1>2, <2>1, <2>3, <2>4
  <1>7. IsPrefix(p, t)
    <2>1. p \in Seq(Words) /\ files \in Seq(Words) /\ p \o a = t \o files /\ Len(p) <= Len(t)
      BY <1>1, <1>2, <1>3, <1>6
    <2>2. QED
      BY <2>1, Starts
  <1>8. QED
    BY <1>7 DEF p, tls

\* The names that are made for hosts, of all services of an app, are apart.
LEMMA HostNamesApart ==
  ASSUME NEW app \in App, Resolved(app), CertificatesApart(app),
         NEW s \in Services(app), NEW i \in DOMAIN HostsOf(app.services[s]),
         NEW t \in Services(app), NEW j \in DOMAIN HostsOf(app.services[t])
  PROVE  LET g == HostsOf(app.services[s])[i]
             h == HostsOf(app.services[t])[j]
         IN  /\ TLSSecretName(s, i, g) = TLSSecretName(t, j, h) => s = t /\ i = j
             /\ TLSSecretName(s, i, g) # FilesName(t, "plain")
             /\ RedirectsApart(app) /\ IsRedirect(app.services[s]) /\ IsRedirect(app.services[t])
                  => (ProxyName(s, i, g) = ProxyName(t, j, h) => s = t /\ i = j)
  <1> DEFINE hosts(r) == HostsOf(app.services[r])
             a == Behind(hosts(s), i)
             b == Behind(hosts(t), j)
  <1>1. /\ a \in Seq(Words) /\ (a = <<>> <=> i = 1) /\ s \in Seq(Words)
        /\ TLSSecretName(s, i, hosts(s)[i]) = (s \o <<"tls">>) \o a
        /\ ProxyName(s, i, hosts(s)[i]) = s \o a
    BY BehindRead
  <1>2. /\ b \in Seq(Words) /\ (b = <<>> <=> j = 1) /\ t \in Seq(Words)
        /\ TLSSecretName(t, j, hosts(t)[j]) = (t \o <<"tls">>) \o b
        /\ ProxyName(t, j, hosts(t)[j]) = t \o b
    BY BehindRead
  <1>3. ~IsPrefix(s \o <<"tls">>, t) /\ ~IsPrefix(t \o <<"tls">>, s)
    BY DEF CertificatesApart
  <1>4. s = t /\ a = b => i = j
    <2>1. SUFFICES ASSUME s = t, a = b PROVE i = j
      OBVIOUS
    <2>2. CASE i = 1 \/ j = 1
      BY <1>1, <1>2, <2>1, <2>2
    <2>3. CASE i # 1 /\ j # 1
      <3>1. HostSlug(hosts(s)[i]) = HostSlug(hosts(s)[j])
        BY <2>1, <2>3 DEF Behind
      <3>2. i \in DOMAIN hosts(s) \ {1} /\ j \in DOMAIN hosts(s) \ {1}
        BY <2>1, <2>3
      <3>3. QED
        BY <3>1, <3>2 DEF CertificatesApart
    <2>4. QED
      BY <2>2, <2>3
  <1> HIDE DEF a, b
  <1>5. (s \o <<"tls">>) \o a = (t \o <<"tls">>) \o b => s = t /\ i = j
    <2> DEFINE e == <<"tls">>
    <2>1. e \in Seq(Words) /\ Len(e) = 1
      BY "tls" \in Words DEF Words
    <2>2. ~IsPrefix(s \o e, t) /\ ~IsPrefix(t \o e, s) /\ (s \o e) \o a = (t \o e) \o b => s = t /\ a = b
      <3>1. s \in Seq(Words) /\ t \in Seq(Words) /\ a \in Seq(Words) /\ b \in Seq(Words)
        BY <1>1, <1>2
      <3> HIDE DEF e
      <3>2. QED
        BY <2>1, <3>1, TLSJoined
    <2>3. QED
      BY <1>3, <1>4, <2>2
  <1>6. (s \o <<"tls">>) \o a # FilesName(t, "plain")
    BY <1>1, <1>2, <1>3, FilesJoined
  <1>7. ASSUME RedirectsApart(app), IsRedirect(app.services[s]), IsRedirect(app.services[t]), s \o a = t \o b
        PROVE  s = t /\ i = j
    <2>1. IsPrefix(s, t) \/ IsPrefix(t, s)
      <3>1. Len(s) <= Len(t) \/ Len(t) <= Len(s)
        BY <1>1, <1>2
      <3>2. QED
        BY <1>1, <1>2, <1>7, <3>1, Starts
    <2>2. s = t
      BY <1>7, <2>1 DEF RedirectsApart
    <2>3. Len(a) = Len(b)
      <3>1. Len(s \o a) = Len(s) + Len(a) /\ Len(s \o b) = Len(s) + Len(b)
            /\ Len(s) \in Nat /\ Len(a) \in Nat /\ Len(b) \in Nat
        BY <1>1, <1>2
      <3>2. QED
        BY <1>7, <2>2, <3>1
    <2>6. a \in Seq(Words) /\ b \in Seq(Words) /\ s \in Seq(Words) /\ s \o a = s \o b
      BY <1>1, <1>2, <1>7, <2>2
    <2>4. a = b
      BY <2>3, <2>6, Cancel
    <2>5. QED
      BY <1>4, <2>2, <2>4
  <1>8. QED
    BY <1>1, <1>2, <1>5, <1>6, <1>7

\* No two hosts of a deployed app share the secret of their certificates, and none is
\* routed twice, if no service has two further hosts that differ in dots and dashes
\* only and no service's name goes on another's with tls: no other names are joined
\* to the same one, for any number of services and hosts (tlsSecretName, hostSlug and
\* the hostOwner of validate).
THEOREM RoutesAlwaysApart == Spec => []RoutesApart
  <1>1. ASSUME Inv PROVE RoutesApart
    <2> DEFINE app == deployed.app
    <2>1. SUFFICES ASSUME deployed # None, CertificatesApart(app),
                          NEW c \in UNION {cluster[o].certs : o \in Present},
                          NEW d \in UNION {cluster[o].certs : o \in Present}, c.secret = d.secret
                   PROVE  c = d
      BY <1>1, HostsRouteApart DEF RoutesApart
    <2>2. app \in App /\ Resolved(app)
      BY <1>1, <2>1 DEF Inv
    <2>3. PICK o \in Present, p \in Present : c \in cluster[o].certs /\ d \in cluster[p].certs
      OBVIOUS
    <2> DEFINE Asked(x) == \E s \in Services(app) : \E i \in DOMAIN HostsOf(app.services[s]) :
                             LET h == HostsOf(app.services[s])[i] IN x = [secret |-> TLSSecretName(s, i, h), host |-> h]
    <2>4. ASSUME NEW q \in Present, NEW x \in cluster[q].certs PROVE Asked(x)
      <3>1. PICK s \in Routes(app) :
              \A y \in cluster[q].certs : \E i \in DOMAIN app.services[s].http.hosts :
                y = Certificate(s, app.services[s].http, i)
        BY <1>1, <2>1, <2>4, RoutedRead
      <3>2. s \in Services(app) /\ HostsOf(app.services[s]) = app.services[s].http.hosts
        BY DEF Routes, HostsOf
      <3>3. PICK i \in DOMAIN app.services[s].http.hosts : x = Certificate(s, app.services[s].http, i)
        BY <2>4, <3>1
      <3>4. QED
        BY <3>2, <3>3 DEF Certificate
    <2>5. Asked(c) /\ Asked(d)
      BY <2>3, <2>4
    <2> HIDE DEF app
    <2>11. PICK s \in Services(app) : \E i \in DOMAIN HostsOf(app.services[s]) :
             LET h == HostsOf(app.services[s])[i] IN c = [secret |-> TLSSecretName(s, i, h), host |-> h]
      BY <2>5
    <2>6. PICK i \in DOMAIN HostsOf(app.services[s]) :
            LET h == HostsOf(app.services[s])[i] IN c = [secret |-> TLSSecretName(s, i, h), host |-> h]
      BY <2>11
    <2>12. PICK t \in Services(app) : \E j \in DOMAIN HostsOf(app.services[t]) :
             LET h == HostsOf(app.services[t])[j] IN d = [secret |-> TLSSecretName(t, j, h), host |-> h]
      BY <2>5
    <2>7. PICK j \in DOMAIN HostsOf(app.services[t]) :
            LET h == HostsOf(app.services[t])[j] IN d = [secret |-> TLSSecretName(t, j, h), host |-> h]
      BY <2>12
    <2>8. TLSSecretName(s, i, HostsOf(app.services[s])[i]) = TLSSecretName(t, j, HostsOf(app.services[t])[j])
      BY <2>1, <2>6, <2>7
    <2>9. s = t /\ i = j
      BY <2>1, <2>2, <2>8, HostNamesApart
    <2>10. QED
      BY <2>6, <2>7, <2>9
  <1>2. QED
    BY <1>1, Kept, PTL

-----------------------------------------------------------------------------
(***************************************************************************)
(* The objects of an app.                                                  *)
(***************************************************************************)

\* Two services own no name together.
LEMMA OwnedApart ==
  ASSUME NEW app \in App, Resolved(app), NodePortsApart(Services(app)), CertificatesApart(app), RedirectsApart(app),
         NEW s \in Services(app), NEW t \in Services(app), NEW id, Owned(app, s, id), Owned(app, t, id)
  PROVE  s = t
  <1>0. s \in ServiceName /\ t \in ServiceName
    BY DEF Services
  <1>1. CASE id.gvr \in {"deployments", "statefulsets", "cronjobs", "ingresses"}
    BY <1>1 DEF Owned
  <1>2. CASE id.gvr = "services"
    <2>1. id.name \in {s, NodePortName(s)} /\ id.name \in {t, NodePortName(t)}
      BY <1>2 DEF Owned
    <2>2. NodePortName(s) # t /\ NodePortName(t) # s
      BY DEF NodePortsApart
    <2>3. QED
      BY <1>0, <2>1, <2>2, SecretsApart
  <1>3. CASE id.gvr = "secrets"
    <2>1. id.name \in {SecretsName(s), FilesName(s, "from")} /\ id.name \in {SecretsName(t), FilesName(t, "from")}
      BY <1>3 DEF Owned
    <2>2. QED
      BY <1>0, <2>1, SecretsApart
  <1>4. CASE id.gvr = "configmaps"
    <2> DEFINE Tls(r, i) == TLSSecretName(r, i, HostsOf(app.services[r])[i])
               D(r) == DOMAIN HostsOf(app.services[r])
    <2>1. /\ id.name = FilesName(s, "plain") \/ \E i \in D(s) : id.name = Tls(s, i)
          /\ id.name = FilesName(t, "plain") \/ \E i \in D(t) : id.name = Tls(t, i)
      BY <1>4 DEF Owned
    <2>2. CASE id.name = FilesName(s, "plain") /\ id.name = FilesName(t, "plain")
      BY <1>0, <2>2, SecretsApart
    <2>3. ASSUME NEW q \in Services(app), NEW r \in Services(app), NEW i \in D(q), id.name = Tls(q, i),
                 id.name = FilesName(r, "plain")
          PROVE  FALSE
      <3>1. Tls(q, i) # FilesName(r, "plain")
        <4>1. CASE D(r) # {}
          <5>1. PICK j \in D(r) : TRUE
            BY <4>1
          <5>2. QED
            BY HostNamesApart
        <4>2. CASE D(r) = {}
          <5>1. /\ Behind(HostsOf(app.services[q]), i) \in Seq(Words) /\ q \in Seq(Words)
                /\ Tls(q, i) = (q \o <<"tls">>) \o Behind(HostsOf(app.services[q]), i)
            BY BehindRead
          <5>2. r \in Seq(Words)
            BY ServiceShape, NameWords
          <5>3. ~IsPrefix(q \o <<"tls">>, r)
            BY DEF CertificatesApart
          <5>4. QED
            BY <5>1, <5>2, <5>3, FilesJoined
        <4>3. QED
          BY <4>1, <4>2
      <3>2. QED
        BY <2>3, <3>1
    <2>4. ASSUME NEW i \in D(s), NEW j \in D(t), Tls(s, i) = Tls(t, j) PROVE s = t
      BY <2>4, HostNamesApart
    <2> HIDE DEF Tls, D
    <2>5. QED
      BY <2>1, <2>2, <2>3, <2>4
  <1>5. CASE id.gvr = "httpproxies"
    <2> DEFINE Proxy(r, i) == ProxyName(r, i, HostsOf(app.services[r])[i])
               D(r) == DOMAIN HostsOf(app.services[r])
    <2>1. /\ IsRedirect(app.services[s]) /\ IsRedirect(app.services[t])
          /\ \E i \in D(s) : id.name = Proxy(s, i)
          /\ \E i \in D(t) : id.name = Proxy(t, i)
      BY <1>5 DEF Owned
    <2>2. ASSUME NEW i \in D(s), NEW j \in D(t), Proxy(s, i) = Proxy(t, j) PROVE s = t
      BY <2>1, <2>2, HostNamesApart
    <2> HIDE DEF Proxy, D
    <2>3. QED
      BY <2>1, <2>2
  <1>6. CASE id.gvr = "networkpolicies"
    <2>1. id.name = s \o <<"egress">> /\ id.name = t \o <<"egress">>
      BY <1>6 DEF Owned
    <2>2. QED
      BY <1>0, <2>1, SecretsApart
  <1>7. QED
    BY <1>1, <1>2, <1>3, <1>4, <1>5, <1>6 DEF Owned

\* The parts of what a redirect makes for one of its hosts.
LEMMA ProxyRead ==
  ASSUME NEW s, NEW http, NEW i
  PROVE  /\ Distinct(Redirect(s, http, i))
         /\ \A o \in Range(Redirect(s, http, i)) :
              \/ o.id = Id("configmaps", TLSSecretName(s, i, http.hosts[i]))
              \/ o.id = Id("httpproxies", ProxyName(s, i, http.hosts[i]))
  <1> DEFINE h == http.hosts[i]
             secret == TLSSecretName(s, i, h)
             c == Object("configmaps", secret, [Bare EXCEPT !.certs = {[secret |-> secret, host |-> h]}])
             p == Object("httpproxies", ProxyName(s, i, h), [Bare EXCEPT !.hosts = {h}])
             cs == IF http.tls THEN <<c>> ELSE <<>>
  <1>1. Redirect(s, http, i) = cs \o <<p>>
    BY DEF Redirect, ProxyName
  <1>2. /\ c.id = Id("configmaps", secret) /\ p.id = Id("httpproxies", ProxyName(s, i, h))
        /\ c.id # p.id
    BY DEF Object, Id
  <1> HIDE DEF c, p
  <1>3. List(cs) /\ Range(cs) \subseteq {c} /\ Distinct(cs)
    BY One, Nil, OneDistinct, NilDistinct
  <1>4. List(<<p>>) /\ Range(<<p>>) = {p} /\ Distinct(<<p>>)
    BY One, OneDistinct
  <1> HIDE DEF cs
  <1>5. Range(cs \o <<p>>) \subseteq {c, p}
    BY <1>3, <1>4, Concat
  <1>6. Disjoint(cs, <<p>>)
    BY <1>2, <1>3, <1>4 DEF Disjoint
  <1>7. Distinct(cs \o <<p>>)
    BY <1>3, <1>4, <1>6, ConcatDistinct
  <1>8. QED
    BY <1>1, <1>2, <1>5, <1>7

\* Everything that is made for a service has a name it owns.
LEMMA OwnedRead ==
  ASSUME NEW app \in App, Resolved(app), NEW s \in Services(app), NEW o \in Range(ServiceObjects(app, s))
  PROVE  Owned(app, s, o.id)
  <1> DEFINE svc == app.services[s]
  <1>1. ASSUME o = Workload(app, s) PROVE Owned(app, s, o.id)
    <2>1. o.id.gvr \in {"cronjobs", "deployments", "statefulsets"}
      BY <1>1, WorkloadKind
    <2>2. o.id.name = s
      BY <1>1, WorkloadRead
    <2>3. QED
      BY <2>1, <2>2 DEF Owned
  <1>2. CASE Runs(svc)
    <2>1. \A p \in Ports(app, s) : Owned(app, s, p.id)
      <3>1. \A p \in Ports(app, s) : p.id = Id("services", s) \/ p.id = Id("services", NodePortName(s))
        BY PortsRead DEF Ports
      <3>2. QED
        BY <3>1 DEF Owned, Id
    <2>2. Owned(app, s, Ingress(s, svc).id)
      BY DEF Ingress, Object, Id, Owned
    <2>3. /\ Owned(app, s, Object("secrets", SecretsName(s), Bare).id)
          /\ Owned(app, s, Object("secrets", FilesName(s, "from"), Bare).id)
          /\ Owned(app, s, Object("configmaps", FilesName(s, "plain"), Bare).id)
          /\ Owned(app, s, Object("networkpolicies", s \o <<"egress">>, Bare).id)
      BY DEF Object, Id, Owned
    <2>4. QED
      BY <1>1, <1>2, <2>1, <2>2, <2>3, ServiceObjectsRead
  <1>3. CASE IsRedirect(svc)
    <2>1. PICK i \in DOMAIN svc.http.hosts : o \in Range(Redirect(s, svc.http, i))
      BY <1>3, RoutesRead DEF Runs
    <2>2. HostsOf(svc) = svc.http.hosts
      BY <1>3 DEF HostsOf, IsRedirect
    <2>3. \/ o.id = Id("configmaps", TLSSecretName(s, i, svc.http.hosts[i]))
          \/ o.id = Id("httpproxies", ProxyName(s, i, svc.http.hosts[i]))
      BY <2>1, ProxyRead
    <2>4. QED
      BY <1>3, <2>1, <2>2, <2>3 DEF Owned, Id
  <1>4. CASE ~Runs(svc) /\ ~IsRedirect(svc)
    BY <1>1, <1>4, RoutesRead
  <1>5. QED
    BY <1>2, <1>3, <1>4 DEF Runs

LEMMA ConcatDisjoint ==
  ASSUME NEW a, NEW b, NEW c, List(a), List(b), Disjoint(a, c), Disjoint(b, c)
  PROVE  Disjoint(a \o b, c)
  BY Concat DEF Disjoint

LEMMA SevenDistinct ==
  ASSUME NEW a, NEW b, NEW c, NEW d, NEW e, NEW f, NEW g,
         List(a), List(b), List(c), List(d), List(e), List(f), List(g),
         Distinct(a), Distinct(b), Distinct(c), Distinct(d), Distinct(e), Distinct(f), Distinct(g),
         Disjoint(a, b), Disjoint(a, c), Disjoint(a, d), Disjoint(a, e), Disjoint(a, f), Disjoint(a, g),
         Disjoint(b, c), Disjoint(b, d), Disjoint(b, e), Disjoint(b, f), Disjoint(b, g),
         Disjoint(c, d), Disjoint(c, e), Disjoint(c, f), Disjoint(c, g),
         Disjoint(d, e), Disjoint(d, f), Disjoint(d, g),
         Disjoint(e, f), Disjoint(e, g), Disjoint(f, g)
  PROVE  Distinct(a \o b \o c \o d \o e \o f \o g)
  <1>1. /\ List(a \o b) /\ Distinct(a \o b) /\ Disjoint(a \o b, c) /\ Disjoint(a \o b, d)
        /\ Disjoint(a \o b, e) /\ Disjoint(a \o b, f) /\ Disjoint(a \o b, g)
    BY Concat, ConcatDistinct, ConcatDisjoint
  <1>2. /\ List(a \o b \o c) /\ Distinct(a \o b \o c) /\ Disjoint(a \o b \o c, d)
        /\ Disjoint(a \o b \o c, e) /\ Disjoint(a \o b \o c, f) /\ Disjoint(a \o b \o c, g)
    BY <1>1, Concat, ConcatDistinct, ConcatDisjoint
  <1>3. /\ List(a \o b \o c \o d) /\ Distinct(a \o b \o c \o d)
        /\ Disjoint(a \o b \o c \o d, e) /\ Disjoint(a \o b \o c \o d, f) /\ Disjoint(a \o b \o c \o d, g)
    BY <1>2, Concat, ConcatDistinct, ConcatDisjoint
  <1>4. /\ List(a \o b \o c \o d \o e) /\ Distinct(a \o b \o c \o d \o e)
        /\ Disjoint(a \o b \o c \o d \o e, f) /\ Disjoint(a \o b \o c \o d \o e, g)
    BY <1>3, Concat, ConcatDistinct, ConcatDisjoint
  <1>5. /\ List(a \o b \o c \o d \o e \o f) /\ Distinct(a \o b \o c \o d \o e \o f)
        /\ Disjoint(a \o b \o c \o d \o e \o f, g)
    BY <1>4, Concat, ConcatDistinct, ConcatDisjoint
  <1>6. QED
    BY <1>5, ConcatDistinct

\* Lists of objects of different resources have no name together.
LEMMA KindsDisjoint ==
  ASSUME NEW s, NEW t, NEW K, \A o \in Range(s) : o.id.gvr \in K, \A o \in Range(t) : o.id.gvr \notin K
  PROVE  Disjoint(s, t)
  BY DEF Disjoint

LEMMA PortsDistinct ==
  ASSUME NEW ss, NodePortsApart(ss), NEW s \in ss, NEW svc
  PROVE  LET ps == ClusterIP(s, svc) \o NodePorts(s, svc) IN
         List(ps) /\ Distinct(ps) /\ \A o \in Range(ps) : o.id.gvr = "services"
  <1> DEFINE c == ClusterIP(s, svc)
             d == NodePorts(s, svc)
  <1>1. /\ List(c) /\ List(d)
        /\ \A o \in Range(c) : o.id = Id("services", s)
        /\ \A o \in Range(d) : o.id = Id("services", NodePortName(s))
    BY PortsRead
  <1>2. Distinct(c) /\ Distinct(d)
    <2>1. \A x : Distinct(<<x>>) /\ Distinct(<<>>)
      BY OneDistinct, NilDistinct
    <2>2. c = <<>> \/ \E x : c = <<x>>
      BY DEF ClusterIP
    <2>3. d = <<>> \/ \E x : d = <<x>>
      BY DEF NodePorts
    <2> HIDE DEF c, d
    <2>4. QED
      BY <2>1, <2>2, <2>3
  <1>3. Id("services", s) # Id("services", NodePortName(s))
    BY DEF NodePortsApart, Id
  <1> HIDE DEF c, d
  <1>4. Disjoint(c, d)
    BY <1>1, <1>3 DEF Disjoint
  <1>5. List(c \o d) /\ Distinct(c \o d) /\ Range(c \o d) = Range(c) \cup Range(d)
    BY <1>1, <1>2, <1>4, Concat, ConcatDistinct
  <1>6. \A name : Id("services", name).gvr = "services"
    BY DEF Id
  <1>7. QED
    BY <1>1, <1>5, <1>6 DEF c, d

LEMMA RunningDistinct ==
  ASSUME NEW app \in App, NodePortsApart(Services(app)), NEW s \in Services(app), Runs(app.services[s])
  PROVE  Distinct(ServiceObjects(app, s))
  <1> DEFINE svc == app.services[s]
             w == Workload(app, s)
             in == Ingress(s, svc)
             sec == Object("secrets", SecretsName(s), Bare)
             pl == Object("configmaps", FilesName(s, "plain"), Bare)
             fr == Object("secrets", FilesName(s, "from"), Bare)
             eg == Object("networkpolicies", s \o <<"egress">>, Bare)
             l == AllPorts(svc) # {} \/ svc.expose # {}
             cn == ClusterIP(s, svc) \o NodePorts(s, svc)
             t1 == <<w>>
             t2 == IF l THEN cn ELSE <<>>
             t3 == IF svc.http # None THEN <<in>> ELSE <<>>
             t4 == IF svc.secrets THEN <<sec>> ELSE <<>>
             t5 == IF "plain" \in svc.files THEN <<pl>> ELSE <<>>
             t6 == IF "from" \in svc.files THEN <<fr>> ELSE <<>>
             t7 == IF "egress" \in svc.network THEN <<eg>> ELSE <<>>
             Kind(t, gvrs) == List(t) /\ Distinct(t) /\ \A o \in Range(t) : o.id.gvr \in gvrs
  <1>1. ServiceObjects(app, s) = t1 \o t2 \o t3 \o t4 \o t5 \o t6 \o t7
    BY DEF ServiceObjects, Runs
  <1>2. s \in ServiceName /\ svc \in Service
    BY ServiceShape
  <1>3. /\ w.id.gvr \in {"cronjobs", "deployments", "statefulsets"} /\ in.id.gvr = "ingresses"
        /\ sec.id.gvr = "secrets" /\ pl.id.gvr = "configmaps" /\ fr.id.gvr = "secrets"
        /\ eg.id.gvr = "networkpolicies" /\ sec.id # fr.id
    <2>1. in.id.gvr = "ingresses"
      BY DEF Ingress, Object, Id
    <2>2. /\ sec.id.gvr = "secrets" /\ pl.id.gvr = "configmaps" /\ fr.id.gvr = "secrets"
          /\ eg.id.gvr = "networkpolicies" /\ sec.id.name = SecretsName(s) /\ fr.id.name = FilesName(s, "from")
      BY DEF Object, Id
    <2>3. sec.id # fr.id
      BY <1>2, <2>2, SecretsApart
    <2>4. QED
      BY <2>1, <2>2, <2>3, WorkloadKind
  <1>4. Kind(cn, {"services"})
    BY <1>2, PortsDistinct
  <1> HIDE DEF w, in, sec, pl, fr, eg, cn
  <1>5. \A x, gvrs : x.id.gvr \in gvrs => Kind(<<x>>, gvrs)
    BY One, OneDistinct
  <1>6. \A gvrs : Kind(<<>>, gvrs)
    BY Nil, NilDistinct
  <1> HIDE DEF Kind
  <1>7. /\ Kind(t1, {"cronjobs", "deployments", "statefulsets"})
        /\ Kind(t2, {"services"}) /\ Kind(t3, {"ingresses"}) /\ Kind(t4, {"secrets"})
        /\ Kind(t5, {"configmaps"}) /\ Kind(t6, {"secrets"}) /\ Kind(t7, {"networkpolicies"})
    BY <1>3, <1>4, <1>5, <1>6
  <1>8. Disjoint(t4, t6)
    <2>1. Range(t4) \subseteq {sec} /\ Range(t6) \subseteq {fr}
      BY One, Nil
    <2> HIDE DEF t4, t6
    <2>2. QED
      BY <1>3, <2>1 DEF Disjoint
  <1> HIDE DEF t1, t2, t3, t4, t5, t6, t7
  <1>9. ASSUME NEW t, NEW u, NEW K, NEW M, Kind(t, K), Kind(u, M), K \cap M = {} PROVE Disjoint(t, u)
    BY <1>9, KindsDisjoint DEF Kind
  <1>10. /\ Disjoint(t1, t2) /\ Disjoint(t1, t3) /\ Disjoint(t1, t4) /\ Disjoint(t1, t5)
         /\ Disjoint(t1, t6) /\ Disjoint(t1, t7)
    BY <1>7, <1>9
  <1>11. /\ Disjoint(t2, t3) /\ Disjoint(t2, t4) /\ Disjoint(t2, t5) /\ Disjoint(t2, t6) /\ Disjoint(t2, t7)
    BY <1>7, <1>9
  <1>12. /\ Disjoint(t3, t4) /\ Disjoint(t3, t5) /\ Disjoint(t3, t6) /\ Disjoint(t3, t7)
         /\ Disjoint(t4, t5) /\ Disjoint(t4, t7)
    BY <1>7, <1>9
  <1>13. Disjoint(t5, t6) /\ Disjoint(t5, t7) /\ Disjoint(t6, t7)
    BY <1>7, <1>9
  <1>14. Distinct(t1 \o t2 \o t3 \o t4 \o t5 \o t6 \o t7)
    BY <1>7, <1>8, <1>10, <1>11, <1>12, <1>13, SevenDistinct DEF Kind
  <1>15. QED
    BY <1>1, <1>14

LEMMA RedirectsDistinct ==
  ASSUME NEW app \in App, Valid(app), Resolved(app), CertificatesApart(app), RedirectsApart(app),
         NEW s \in Services(app), IsRedirect(app.services[s])
  PROVE  Distinct(ServiceObjects(app, s))
  <1> DEFINE http == app.services[s].http
             hosts == http.hosts
             ss == [i \in DOMAIN hosts |-> Redirect(s, http, i)]
  <1>1. ServiceObjects(app, s) = FlattenSeq(ss)
    BY DEF ServiceObjects
  <1>2. DOMAIN hosts = 1..Len(hosts) /\ Len(hosts) \in Nat /\ s \in ServiceName
    BY ServiceShape DEF IsRedirect
  <1>3. HostsOf(app.services[s]) = hosts
    BY DEF HostsOf, IsRedirect
  <1>6. ss = [i \in 1..Len(hosts) |-> ss[i]] /\ \A i \in DOMAIN hosts : ss[i] = Redirect(s, http, i)
    BY <1>2
  <1> HIDE DEF ss
  <1>7. List(ss) /\ DOMAIN ss = DOMAIN hosts
    BY <1>2, <1>6, Listed
  <1>8. ASSUME NEW i \in DOMAIN ss
        PROVE  /\ List(ss[i]) /\ Distinct(ss[i])
               /\ \A o \in Range(ss[i]) : \/ o.id = Id("configmaps", TLSSecretName(s, i, hosts[i]))
                                        \/ o.id = Id("httpproxies", ProxyName(s, i, hosts[i]))
    <2>1. ss[i] = Redirect(s, http, i)
      BY <1>6, <1>7
    <2> HIDE DEF http
    <2>2. List(Redirect(s, http, i)) /\ Distinct(Redirect(s, http, i))
      BY RedirectRead, ProxyRead
    <2>3. \A o \in Range(Redirect(s, http, i)) :
            \/ o.id = Id("configmaps", TLSSecretName(s, i, hosts[i]))
            \/ o.id = Id("httpproxies", ProxyName(s, i, hosts[i]))
      BY ProxyRead
    <2>4. QED
      BY <2>1, <2>2, <2>3
  <1>9. ASSUME NEW i \in DOMAIN ss, NEW j \in DOMAIN ss, i # j PROVE Disjoint(ss[i], ss[j])
    <2>1. i \in DOMAIN HostsOf(app.services[s]) /\ j \in DOMAIN HostsOf(app.services[s])
      BY <1>3, <1>7, <1>9
    <2>2. /\ TLSSecretName(s, i, hosts[i]) # TLSSecretName(s, j, hosts[j])
          /\ ProxyName(s, i, hosts[i]) # ProxyName(s, j, hosts[j])
      <3> HIDE DEF http
      <3>1. QED
        BY <1>3, <1>9, <2>1, HostNamesApart
    <2>7. ASSUME NEW o \in Range(ss[i]), NEW p \in Range(ss[j]) PROVE o.id # p.id
      <3>1. \/ o.id = Id("configmaps", TLSSecretName(s, i, hosts[i]))
            \/ o.id = Id("httpproxies", ProxyName(s, i, hosts[i]))
        BY <1>8
      <3>2. \/ p.id = Id("configmaps", TLSSecretName(s, j, hosts[j]))
            \/ p.id = Id("httpproxies", ProxyName(s, j, hosts[j]))
        BY <1>8
      <3>3. QED
        BY <2>2, <3>1, <3>2 DEF Id
    <2>8. QED
      BY <2>7 DEF Disjoint
  <1>10. QED
    BY <1>1, <1>7, <1>8, <1>9, FlattenDistinct

LEMMA ServiceDistinct ==
  ASSUME NEW app \in App, Valid(app), Resolved(app), NamesApart(app), NEW s \in Services(app)
  PROVE  Distinct(ServiceObjects(app, s))
  <1>1. NodePortsApart(Services(app)) /\ CertificatesApart(app) /\ RedirectsApart(app)
    BY DEF NamesApart
  <1>2. CASE Runs(app.services[s])
    BY <1>1, <1>2, RunningDistinct
  <1>3. CASE IsRedirect(app.services[s])
    BY <1>1, <1>3, RedirectsDistinct
  <1>4. CASE ~Runs(app.services[s]) /\ ~IsRedirect(app.services[s])
    <2>1. ServiceObjects(app, s) = <<Workload(app, s)>>
      BY <1>4 DEF ServiceObjects, Runs
    <2>2. QED
      BY <2>1, OneDistinct
  <1>5. QED
    BY <1>2, <1>3, <1>4

LEMMA VolumesDistinct ==
  ASSUME NEW app \in App, NEW ss, CronJobsApart(ss, Volumes(app)), NEW tgt
  PROVE  Distinct(VolumeObjects(app, tgt))
  <1> DEFINE c(v) == IF v \in Standalone(app) THEN <<Claim(v)>> ELSE <<>>
             b(v) == IF v \in Volumes(app) /\ app.volumes[v].backup THEN BackupJobs(app, v, tgt) ELSE <<>>
             cs == [i \in DOMAIN VolumeNames |-> c(VolumeNames[i])]
             bs == [i \in DOMAIN VolumeNames |-> b(VolumeNames[i])]
  <1>1. VolumeObjects(app, tgt) = FlattenSeq(cs) \o FlattenSeq(bs)
    BY DEF VolumeObjects, Claim
  <1>2. ASSUME NEW v PROVE List(c(v)) /\ Distinct(c(v)) /\ Range(c(v)) \subseteq {Claim(v)}
    BY One, Nil, OneDistinct, NilDistinct
  <1>0. Volumes(app) \subseteq VolumeName
    BY DEF Volumes
  <1>3. ASSUME NEW v \in VolumeName
        PROVE  /\ List(b(v)) /\ Distinct(b(v))
               /\ \A o \in Range(b(v)) : /\ v \in Volumes(app)
                                        /\ \E i \in 1..Len(ClaimNames(app, v)) : o = BackupJob(app, v, i, tgt)
    <2>0. CASE v \notin Volumes(app)
      <3>1. b(v) = <<>>
        BY <2>0
      <3> HIDE DEF b
      <3>2. QED
        BY <3>1, Nil, NilDistinct
    <2>00. SUFFICES ASSUME v \in Volumes(app)
                    PROVE  /\ List(b(v)) /\ Distinct(b(v))
                           /\ \A o \in Range(b(v)) : \E i \in 1..Len(ClaimNames(app, v)) : o = BackupJob(app, v, i, tgt)
      BY <2>0
    <2> DEFINE js == BackupJobs(app, v, tgt)
               n == Len(ClaimNames(app, v))
    <2>1. /\ List(js) /\ DOMAIN js = 1..n
          /\ \A i \in 1..n : js[i] = BackupJob(app, v, i, tgt)
          /\ \A o : o \in Range(js) <=> \E i \in 1..n : o = BackupJob(app, v, i, tgt)
      BY BackupJobsRead
    <2>2. Distinct(js)
      <3>1. SUFFICES ASSUME NEW i \in 1..n, NEW j \in 1..n, js[i].id = js[j].id PROVE i = j
        BY <2>1 DEF Distinct
      <3>2. Id("cronjobs", BackupJobName(v, i - 1, n)) = Id("cronjobs", BackupJobName(v, j - 1, n))
        BY <2>1, <3>1, BackupJobRead
      <3>3. BackupJobName(v, i - 1, n) = BackupJobName(v, j - 1, n)
        BY <3>2 DEF Id
      <3>4. QED
        BY <1>0, <2>00, <3>3, BackupsNamed
    <2>3. b(v) = js \/ b(v) = <<>>
      OBVIOUS
    <2> HIDE DEF js, b
    <2>4. QED
      BY <2>1, <2>2, <2>3, Nil, NilDistinct
  <1> HIDE DEF c, b
  <1>4. cs = [i \in 1..Len(VolumeNames) |-> cs[i]] /\ bs = [i \in 1..Len(VolumeNames) |-> bs[i]]
    BY Sorted
  <1>5. \A i \in DOMAIN VolumeNames : cs[i] = c(VolumeNames[i]) /\ bs[i] = b(VolumeNames[i])
    OBVIOUS
  <1> HIDE DEF cs, bs
  <1>6. List(cs) /\ DOMAIN cs = DOMAIN VolumeNames /\ List(bs) /\ DOMAIN bs = DOMAIN VolumeNames
    BY <1>4, Sorted, Listed
  <1>7. \A i \in DOMAIN VolumeNames : VolumeNames[i] \in VolumeName
    BY Sorted
  <1>8. ASSUME NEW i \in DOMAIN VolumeNames, NEW j \in DOMAIN VolumeNames, i # j
        PROVE  Disjoint(cs[i], cs[j]) /\ Disjoint(bs[i], bs[j])
    <2> DEFINE v == VolumeNames[i]
               w == VolumeNames[j]
    <2>1. v # w /\ v \in VolumeName /\ w \in VolumeName
      BY <1>7, <1>8, NamesAssumption DEF IsInjective
    <2> HIDE DEF v, w
    <2>2. Claim(v).id # Claim(w).id
      BY <2>1 DEF Claim, Object, Id
    <2>3. Disjoint(c(v), c(w))
      BY <1>2, <2>2 DEF Disjoint
    <2>4. ASSUME NEW o \in Range(b(v)), NEW p \in Range(b(w)) PROVE o.id # p.id
      <3>0. v \in Volumes(app) /\ w \in Volumes(app)
        BY <1>3, <2>1
      <3>1. PICK k \in 1..Len(ClaimNames(app, v)) : o = BackupJob(app, v, k, tgt)
        BY <1>3, <2>1
      <3>2. PICK l \in 1..Len(ClaimNames(app, w)) : p = BackupJob(app, w, l, tgt)
        BY <1>3, <2>1
      <3>3. /\ o.id = Id("cronjobs", BackupJobName(v, k - 1, Len(ClaimNames(app, v))))
            /\ p.id = Id("cronjobs", BackupJobName(w, l - 1, Len(ClaimNames(app, w))))
        BY <3>1, <3>2, BackupJobRead
      <3>4. BackupJobName(v, k - 1, Len(ClaimNames(app, v))) # BackupJobName(w, l - 1, Len(ClaimNames(app, w)))
        BY <1>0, <2>1, <3>0, BackupsNamed
      <3>5. QED
        BY <3>3, <3>4 DEF Id
    <2>5. Disjoint(b(v), b(w))
      BY <2>4 DEF Disjoint
    <2>6. QED
      BY <1>5, <2>3, <2>5 DEF v, w
  <1>9. \A i \in DOMAIN VolumeNames : List(cs[i]) /\ Distinct(cs[i]) /\ List(bs[i]) /\ Distinct(bs[i])
    BY <1>2, <1>3, <1>5, <1>7
  <1>10. Distinct(FlattenSeq(cs)) /\ Distinct(FlattenSeq(bs))
    BY <1>6, <1>8, <1>9, FlattenDistinct
  <1>11. /\ List(FlattenSeq(cs)) /\ \A x : x \in Range(FlattenSeq(cs)) <=> \E i \in DOMAIN cs : x \in Range(cs[i])
         /\ List(FlattenSeq(bs)) /\ \A x : x \in Range(FlattenSeq(bs)) <=> \E i \in DOMAIN bs : x \in Range(bs[i])
    BY <1>6, <1>9, Flatten
  <1>12. \A o \in Range(FlattenSeq(cs)) : o.id.gvr \in {"persistentvolumeclaims"}
    <2>1. \A v : Claim(v).id.gvr = "persistentvolumeclaims"
      BY DEF Claim, Object, Id
    <2>2. QED
      BY <1>2, <1>5, <1>6, <1>11, <2>1
  <1>13. \A o \in Range(FlattenSeq(bs)) : o.id.gvr \notin {"persistentvolumeclaims"}
    <2>1. ASSUME NEW o \in Range(FlattenSeq(bs)) PROVE o.id.gvr = "cronjobs"
      <3>1. PICK i \in DOMAIN VolumeNames : o \in Range(bs[i])
        BY <1>6, <1>11
      <3>2. \E k \in 1..Len(ClaimNames(app, VolumeNames[i])) : o = BackupJob(app, VolumeNames[i], k, tgt)
        BY <1>3, <1>5, <1>7, <3>1
      <3>3. QED
        BY <3>2, BackupJobRead
    <2>2. QED
      BY <2>1
  <1>14. Disjoint(FlattenSeq(cs), FlattenSeq(bs))
    BY <1>12, <1>13, KindsDisjoint
  <1>15. QED
    BY <1>1, <1>10, <1>11, <1>14, ConcatDistinct

LEMMA ServicesDistinct ==
  ASSUME NEW app \in App, Valid(app), Resolved(app), NamesApart(app), NEW fs,
         fs = FlattenSeq([i \in DOMAIN ServiceNames |->
                IF ServiceNames[i] \in Services(app) THEN ServiceObjects(app, ServiceNames[i]) ELSE <<>>])
  PROVE  /\ List(fs) /\ Distinct(fs)
         /\ \A o \in Range(fs) : \E s \in Services(app) : o \in Range(ServiceObjects(app, s))
  <1> DEFINE a(s) == IF s \in Services(app) THEN ServiceObjects(app, s) ELSE <<>>
             as == [i \in DOMAIN ServiceNames |-> a(ServiceNames[i])]
  <1>1. fs = FlattenSeq(as)
    OBVIOUS
  <1>2. ASSUME NEW s
        PROVE  /\ List(a(s)) /\ Distinct(a(s))
               /\ \A o \in Range(a(s)) : s \in Services(app) /\ o \in Range(ServiceObjects(app, s))
    BY ServiceKinds, ServiceDistinct, Nil, NilDistinct
  <1> HIDE DEF a
  <1>3. as = [i \in 1..Len(ServiceNames) |-> as[i]]
    BY Sorted
  <1>4. \A i \in DOMAIN ServiceNames : as[i] = a(ServiceNames[i])
    OBVIOUS
  <1> HIDE DEF as
  <1>5. List(as) /\ DOMAIN as = DOMAIN ServiceNames
    BY <1>3, Sorted, Listed
  <1>6. ASSUME NEW i \in DOMAIN as, NEW j \in DOMAIN as, i # j PROVE Disjoint(as[i], as[j])
    <2> DEFINE s == ServiceNames[i]
               t == ServiceNames[j]
    <2>1. s # t /\ s \in ServiceName /\ t \in ServiceName
      BY <1>5, <1>6, Sorted, NamesAssumption DEF IsInjective
    <2>2. as[i] = a(s) /\ as[j] = a(t)
      BY <1>4, <1>5
    <2> HIDE DEF s, t
    <2>3. ASSUME NEW o \in Range(a(s)), NEW p \in Range(a(t)) PROVE o.id # p.id
      <3>1. s \in Services(app) /\ t \in Services(app) /\ Owned(app, s, o.id) /\ Owned(app, t, p.id)
        BY <1>2, OwnedRead
      <3>2. QED
        BY <2>1, <3>1, OwnedApart DEF NamesApart
    <2>4. QED
      BY <2>2, <2>3 DEF Disjoint
  <1>7. \A i \in DOMAIN as : List(as[i]) /\ Distinct(as[i])
    BY <1>2, <1>4, <1>5
  <1>8. Distinct(FlattenSeq(as))
    BY <1>5, <1>6, <1>7, FlattenDistinct
  <1>9. /\ List(FlattenSeq(as))
        /\ \A x : x \in Range(FlattenSeq(as)) <=> \E i \in DOMAIN as : x \in Range(as[i])
    BY <1>5, <1>7, Flatten
  <1>10. \A o \in Range(FlattenSeq(as)) : \E s \in Services(app) : o \in Range(ServiceObjects(app, s))
    BY <1>2, <1>4, <1>5, <1>9
  <1>11. QED
    BY <1>1, <1>8, <1>9, <1>10

LEMMA ObjectsDistinct ==
  ASSUME NEW app \in App, Valid(app), Resolved(app), NamesApart(app), NEW tgt
  PROVE  List(Objects(app, tgt)) /\ Distinct(Objects(app, tgt))
  <1> DEFINE p == IF NeedsPull(app) THEN <<PullSecret>> ELSE <<>>
             v == VolumeObjects(app, tgt)
             fs == FlattenSeq([i \in DOMAIN ServiceNames |->
                     IF ServiceNames[i] \in Services(app) THEN ServiceObjects(app, ServiceNames[i]) ELSE <<>>])
  <1>1. Objects(app, tgt) = p \o v \o fs
    BY DEF Objects, PullSecret
  <1>2. List(p) /\ Distinct(p) /\ Range(p) \subseteq {PullSecret}
    BY One, Nil, OneDistinct, NilDistinct
  <1>3. List(v) /\ Distinct(v)
    BY VolumeObjectsRead, VolumesDistinct DEF NamesApart
  <1>4. /\ List(fs) /\ Distinct(fs)
        /\ \A o \in Range(fs) : \E s \in Services(app) : o \in Range(ServiceObjects(app, s))
    <2> HIDE DEF fs
    <2>1. QED
      BY ServicesDistinct DEF fs
  <1>5. ASSUME NEW o \in Range(v)
        PROVE  \/ o.id.gvr = "persistentvolumeclaims"
               \/ /\ o.id.gvr = "cronjobs" /\ o.id.name \notin Services(app)
    <2>1. CASE \E w \in Standalone(app) : o = Claim(w)
      BY <2>1 DEF Claim, Object, Id
    <2>2. CASE \E w \in Volumes(app) : o \in Range(BackupJobs(app, w, tgt))
      <3>1. PICK w \in Volumes(app) : o \in Range(BackupJobs(app, w, tgt))
        BY <2>2
      <3>2. PICK i \in 1..Len(ClaimNames(app, w)) : o = BackupJob(app, w, i, tgt)
        BY <3>1, BackupJobsRead
      <3>3. o.id = Id("cronjobs", BackupJobName(w, i - 1, Len(ClaimNames(app, w))))
        BY <3>2, BackupJobRead
      <3>4. Volumes(app) \subseteq VolumeName
        BY DEF Volumes
      <3>5. BackupJobName(w, i - 1, Len(ClaimNames(app, w))) \notin Services(app)
        BY <3>4, BackupsNamed DEF NamesApart
      <3>6. QED
        BY <3>3, <3>5 DEF Id
    <2>3. QED
      BY <2>1, <2>2, VolumeObjectsRead
  <1>6. ASSUME NEW o \in Range(fs) PROVE \E s \in Services(app) : Owned(app, s, o.id)
    <2>1. PICK s \in Services(app) : o \in Range(ServiceObjects(app, s))
      BY <1>4
    <2>2. Owned(app, s, o.id)
      BY <2>1, OwnedRead
    <2>3. QED
      BY <2>2
  <1> HIDE DEF p, v, fs
  <1>7. PullSecret.id.gvr = "secrets" /\ PullSecret.id.name = PullSecretName
    BY DEF PullSecret, Object, Id
  <1>8. Disjoint(p, v)
    <2>1. \A o \in Range(v) : o.id.gvr # "secrets"
      BY <1>5
    <2>2. QED
      BY <1>2, <1>7, <2>1 DEF Disjoint
  <1>9. Disjoint(p, fs)
    <2>1. ASSUME NEW s \in Services(app), Owned(app, s, PullSecret.id) PROVE FALSE
      <3>1. PullSecretName \in {SecretsName(s), FilesName(s, "from")}
        BY <1>7, <2>1 DEF Owned
      <3>2. QED
        BY <3>1, SecretsApart DEF Services
    <2>2. QED
      BY <1>2, <1>6, <2>1 DEF Disjoint
  <1>10. Disjoint(v, fs)
    <2>1. ASSUME NEW o \in Range(v), NEW q \in Range(fs), o.id = q.id PROVE FALSE
      <3>1. PICK s \in Services(app) : Owned(app, s, q.id)
        BY <1>6
      <3>2. o.id.gvr # "persistentvolumeclaims"
        BY <2>1, <3>1 DEF Owned
      <3>3. o.id.gvr = "cronjobs" /\ o.id.name \notin Services(app)
        BY <1>5, <3>2
      <3>4. o.id.name = s
        BY <2>1, <3>1, <3>3 DEF Owned
      <3>5. QED
        BY <3>3, <3>4
    <2>2. QED
      BY <2>1 DEF Disjoint
  <1>11. List(p \o v) /\ Distinct(p \o v) /\ Disjoint(p \o v, fs)
    BY <1>2, <1>3, <1>8, <1>9, <1>10, Concat, ConcatDistinct, ConcatDisjoint
  <1>12. List(p \o v \o fs) /\ Distinct(p \o v \o fs)
    BY <1>4, <1>11, Concat, ConcatDistinct
  <1>13. QED
    BY <1>1, <1>12

\* As many names as places.
LEMMA DistinctCounted ==
  ASSUME NEW objs, List(objs), Distinct(objs)
  PROVE  Cardinality(IdsOf(objs)) = Len(objs)
  <1> DEFINE n == Len(objs)
             f == [i \in 1..n |-> objs[i].id]
  <1>1. DOMAIN objs = 1..n /\ n \in Nat
    BY ListShape
  <1>2. f \in [1..n -> IdsOf(objs)]
    BY <1>1 DEF IdsOf
  <1>3. \A i, j \in 1..n : f[i] = f[j] => i = j
    BY <1>1 DEF Distinct
  <1>4. \A id \in IdsOf(objs) : \E i \in 1..n : f[i] = id
    BY <1>1 DEF IdsOf
  <1> HIDE DEF f, n
  <1>5. f \in Bijection(1..n, IdsOf(objs))
    BY <1>2, <1>3, <1>4 DEF Bijection, Injection, Surjection, IsInjective
  <1>6. ExistsBijection(1..n, IdsOf(objs))
    BY <1>5 DEF ExistsBijection
  <1>7. QED
    BY <1>1, <1>6, FS_CountingElements DEF n

\* No object that an accepted file compiles to replaces another one when it is applied,
\* however many services, volumes, hosts and replicas it has, if it has none of the
\* names that are joined to the same one (Compile, which joins names, and the forced
\* apply in Deploy).
THEOREM NothingEverOverwritten == Spec => []NothingOverwritten
  <1>1. ASSUME Inv PROVE NothingOverwritten
    <2>1. SUFFICES ASSUME deployed # None, NamesApart(deployed.app)
                   PROVE  Cardinality(IdsOf(Objects(deployed.app, deployed.target))) =
                            Len(Objects(deployed.app, deployed.target))
      BY DEF NothingOverwritten
    <2>2. deployed.app \in App /\ Valid(deployed.app) /\ Resolved(deployed.app)
      BY <1>1, <2>1 DEF Inv, TypeOK
    <2>3. QED
      BY <2>1, <2>2, ObjectsDistinct, DistinctCounted
  <1>2. QED
    BY <1>1, Kept, PTL
=============================================================================
