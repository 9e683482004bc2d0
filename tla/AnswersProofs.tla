---------------------------- MODULE AnswersProofs ----------------------------
EXTENDS Answers, FiniteSetTheorems, WellFoundedInduction, TLAPS

Below == {p \in Nat \X Nat : p[1] < p[2]}

\* A set of natural numbers has a least element.
LEMMA Least ==
  ASSUME NEW T \in SUBSET Nat, T # {}
  PROVE  \E k \in T : \A m \in T : k <= m
<1>1. IsWellFoundedOn(Below, Nat)
  <2>1. OpToRel(<, Nat) = Below
    BY DEF OpToRel, Below
  <2> QED BY <2>1, NatLessThanWellFounded
<1>2. PICK k \in T : \A m \in T : <<m, k>> \notin Below
  BY <1>1, WFMin
<1>3. ASSUME NEW m \in T PROVE k <= m
  <2>1. m \in Nat /\ k \in Nat /\ <<m, k>> \in Nat \X Nat
    OBVIOUS
  <2>2. ~ (m < k)
    BY <1>2, <2>1 DEF Below
  <2> QED BY <2>1, <2>2
<1> QED BY <1>3

\* Induction up to m.
LEMMA UpTo ==
  ASSUME NEW m \in Nat, NEW K, 0 \in K, \A k \in 0 .. m - 1 : k \in K => k + 1 \in K
  PROVE  0 .. m \subseteq K
<1> DEFINE T == {k \in 0 .. m : k \notin K}
<1>1. SUFFICES ASSUME T # {} PROVE FALSE
  OBVIOUS
<1>2. T \in SUBSET Nat
  OBVIOUS
<1>3. PICK k \in T : \A j \in T : k <= j
  BY <1>1, <1>2, Least
<1>4. k # 0 /\ k - 1 \in 0 .. m - 1 /\ k - 1 \notin T
  BY <1>3
<1>5. k - 1 \in K
  BY <1>4
<1> QED BY <1>4, <1>5

LEMMA MaxIsGreatest ==
  ASSUME NEW top \in Nat, NEW T \in SUBSET (1 .. top), T # {}
  PROVE  Max(T) \in T /\ \A m \in T : m <= Max(T)
<1> DEFINE U == {top - i : i \in T}
<1>1. U \in SUBSET Nat /\ U # {}
  <2>1. \A i \in T : top - i \in Nat
    OBVIOUS
  <2> QED BY <2>1
<1>2. PICK u \in U : \A v \in U : u <= v
  BY <1>1, Least
<1>3. PICK t \in T : u = top - t
  OBVIOUS
<1>4. ASSUME NEW m \in T PROVE t >= m
  <2>1. top - m \in U
    OBVIOUS
  <2>2. u <= top - m
    BY <1>2, <2>1
  <2> QED BY <1>3, <2>2
<1> QED BY <1>4 DEF Max

\* What FlattenSeq is defined by: all but its first elements, one after the other.
Joined(f, ss, m) ==
  \A i \in 1 .. m : f[i] = IF i = 1 THEN ss[i] ELSE f[i-1] \o ss[i]

LEMMA JoinExists ==
  ASSUME NEW X, NEW ss \in Seq(Seq(X)), ss # <<>>
  PROVE  \E f : /\ f \in [1 .. Len(ss) -> Seq(X)]
                /\ Joined(f, ss, Len(ss)) /\ FlattenSeq(ss) = f[Len(ss)]
<1> DEFINE m == Len(ss)
           K == {k \in 0 .. m : \E f \in [1 .. k -> Seq(X)] : Joined(f, ss, k)}
           Eq(f) == f = [i \in 1 .. m |-> IF i = 1 THEN ss[i] ELSE f[i-1] \o ss[i]]
           flat == CHOOSE f : Eq(f)
<1>1. m \in Nat /\ m # 0 /\ \A i \in 1 .. m : ss[i] \in Seq(X)
  OBVIOUS
<1>2. 0 \in K
  <2> DEFINE f == [i \in 1 .. 0 |-> <<>>]
  <2>1. f \in [1 .. 0 -> Seq(X)] /\ Joined(f, ss, 0)
    BY DEF Joined
  <2>2. 0 \in 0 .. m
    BY <1>1
  <2> HIDE DEF f, m
  <2> QED BY <2>1, <2>2
<1>3. ASSUME NEW k \in 0 .. m - 1, k \in K PROVE k + 1 \in K
  <2>1. PICK f \in [1 .. k -> Seq(X)] : Joined(f, ss, k)
    BY <1>3
  <2>2. k \in Nat /\ k + 1 \in 1 .. m /\ k + 1 \in 0 .. m
    BY <1>1
  <2> DEFINE last == IF k = 0 THEN ss[1] ELSE f[k] \o ss[k + 1]
             g == [i \in 1 .. k + 1 |-> IF i = k + 1 THEN last ELSE f[i]]
  <2>3. last \in Seq(X)
    <3>1. CASE k = 0
      BY <1>1, <3>1
    <3>2. CASE k # 0
      <4>1. f[k] \in Seq(X) /\ ss[k + 1] \in Seq(X)
        BY <1>1, <2>2, <3>2
      <4> QED BY <3>2, <4>1
    <3> QED BY <3>1, <3>2
  <2> HIDE DEF last
  <2>4. g \in [1 .. k + 1 -> Seq(X)]
    BY <2>2, <2>3
  <2>5. ASSUME NEW i \in 1 .. k + 1
        PROVE  g[i] = IF i = 1 THEN ss[i] ELSE g[i-1] \o ss[i]
    <3>1. CASE i = k + 1
      BY <2>2, <3>1 DEF last
    <3>2. CASE i # k + 1
      <4>1. i \in 1 .. k /\ g[i] = f[i] /\ (i # 1 => i - 1 \in 1 .. k /\ g[i-1] = f[i-1])
        BY <2>2, <3>2
      <4> QED BY <2>1, <4>1 DEF Joined
    <3> QED BY <3>1, <3>2
  <2>6. Joined(g, ss, k + 1)
    <3> HIDE DEF g
    <3> QED BY <2>5 DEF Joined
  <2> HIDE DEF g
  <2> QED BY <2>2, <2>4, <2>6
<1>4. m \in K
  <2>1. \A k \in 0 .. m - 1 : k \in K => k + 1 \in K
    BY <1>3
  <2>2. m \in 0 .. m
    BY <1>1
  <2> HIDE DEF K, m
  <2> QED BY <1>1, <1>2, <2>1, <2>2, UpTo
<1>5. PICK f \in [1 .. m -> Seq(X)] : Joined(f, ss, m)
  BY <1>4
<1>6. Eq(f)
  BY <1>5 DEF Joined
<1>7. Eq(flat)
  BY <1>6
<1>8. FlattenSeq(ss) = flat[m]
  BY <1>1 DEF FlattenSeq
<1> HIDE DEF flat
<1>9. Joined(flat, ss, m)
  BY <1>7 DEF Joined
<1>10. flat \in [1 .. m -> Seq(X)]
  <2> DEFINE J == {i \in 0 .. m : i # 0 => flat[i] \in Seq(X)}
  <2>1. 0 \in J
    BY <1>1
  <2>2. ASSUME NEW i \in 0 .. m - 1, i \in J PROVE i + 1 \in J
    <3>1. i + 1 \in 1 .. m /\ i + 1 \in 0 .. m /\ i \in Nat /\ i + 1 - 1 = i
      BY <1>1
    <3>2. ss[i + 1] \in Seq(X)
      BY <1>1, <3>1
    <3>3. flat[i + 1] = IF i + 1 = 1 THEN ss[i + 1] ELSE flat[i] \o ss[i + 1]
      BY <1>9, <3>1 DEF Joined
    <3>4. flat[i + 1] \in Seq(X)
      <4>1. CASE i = 0
        BY <3>2, <3>3, <4>1
      <4>2. CASE i # 0
        <5>1. flat[i] \in Seq(X)
          BY <2>2, <4>2
        <5> QED BY <3>1, <3>2, <3>3, <4>2, <5>1
      <4> QED BY <4>1, <4>2
    <3> QED BY <3>1, <3>4
  <2>3. 0 .. m \subseteq J
    <3>1. \A i \in 0 .. m - 1 : i \in J => i + 1 \in J
      BY <2>2
    <3> HIDE DEF J, m
    <3> QED BY <1>1, <2>1, <3>1, UpTo
  <2>4. ASSUME NEW i \in 1 .. m PROVE flat[i] \in Seq(X)
    <3>1. i \in 0 .. m /\ i # 0
      OBVIOUS
    <3> QED BY <2>3, <3>1
  <2> QED BY <1>7, <2>4
<1> QED BY <1>8, <1>9, <1>10

\* FlattenSeq by its last element.
LEMMA Flattened ==
  ASSUME NEW X, NEW ss \in Seq(Seq(X)), NEW t \in Seq(X)
  PROVE  /\ FlattenSeq(ss) \in Seq(X)
         /\ FlattenSeq(Append(ss, t)) = FlattenSeq(ss) \o t
<1> DEFINE m == Len(ss)
           tt == Append(ss, t)
<1>0. m \in Nat /\ ss \in Seq(Seq(X)) /\ DOMAIN ss = 1 .. m
  OBVIOUS
<1>1. /\ m \in Nat /\ tt \in Seq(Seq(X)) /\ Len(tt) = m + 1 /\ tt # <<>>
      /\ tt[m + 1] = t /\ \A i \in 1 .. m : tt[i] = ss[i]
  <2>1. m \in Nat /\ tt \in Seq(Seq(X)) /\ Len(tt) = m + 1
    OBVIOUS
  <2>2. tt[m + 1] = t
    OBVIOUS
  <2>3. \A i \in 1 .. m : tt[i] = ss[i]
    OBVIOUS
  <2>4. tt # <<>>
    <3> HIDE DEF tt
    <3> QED BY <2>1
  <2> QED BY <2>1, <2>2, <2>3, <2>4
<1> HIDE DEF tt
<1>2. PICK h : h \in [1 .. m + 1 -> Seq(X)] /\ Joined(h, tt, m + 1) /\ FlattenSeq(tt) = h[m + 1]
  BY <1>1, JoinExists
<1>5. Joined(h, tt, m + 1)
  BY <1>2
<1>3. CASE ss = <<>>
  <2>1. m = 0 /\ FlattenSeq(ss) = <<>>
    BY <1>3 DEF FlattenSeq
  <2>2. h[1] = t
    BY <1>1, <1>2, <2>1 DEF Joined
  <2>3. <<>> \o t = t /\ <<>> \in Seq(X)
    OBVIOUS
  <2> QED BY <1>2, <2>1, <2>2, <2>3 DEF tt
<1>4. CASE ss # <<>>
  <2>1. m # 0
    BY <1>4
  <2>2. PICK g : g \in [1 .. m -> Seq(X)] /\ Joined(g, ss, m) /\ FlattenSeq(ss) = g[m]
    BY <1>4, JoinExists
  <2>9. Joined(g, ss, m)
    BY <2>2
  <2> HIDE DEF m
  <2> DEFINE J == {i \in 0 .. m : i # 0 => g[i] = h[i]}
  <2>3. 0 \in J
    BY <1>1
  <2>4. ASSUME NEW i \in 0 .. m - 1, i \in J PROVE i + 1 \in J
    <3>1. /\ i + 1 \in 1 .. m /\ i + 1 \in 0 .. m /\ i + 1 \in 1 .. m + 1
          /\ i \in Nat /\ i + 1 - 1 = i
      BY <1>1
    <3>2. /\ g[i + 1] = IF i + 1 = 1 THEN ss[i + 1] ELSE g[i] \o ss[i + 1]
          /\ h[i + 1] = IF i + 1 = 1 THEN tt[i + 1] ELSE h[i] \o tt[i + 1]
      <4>1. g[i + 1] = IF i + 1 = 1 THEN ss[i + 1] ELSE g[i + 1 - 1] \o ss[i + 1]
        BY <2>9, <3>1 DEF Joined
      <4>2. h[i + 1] = IF i + 1 = 1 THEN tt[i + 1] ELSE h[i + 1 - 1] \o tt[i + 1]
        BY <1>5, <3>1 DEF Joined
      <4> QED BY <3>1, <4>1, <4>2
    <3>3. tt[i + 1] = ss[i + 1]
      BY <1>1, <3>1
    <3>4. g[i + 1] = h[i + 1]
      BY <2>4, <3>1, <3>2, <3>3
    <3> QED BY <3>1, <3>4
  <2>5. 0 .. m \subseteq J
    <3>1. \A i \in 0 .. m - 1 : i \in J => i + 1 \in J
      BY <2>4
    <3> HIDE DEF J
    <3> QED BY <1>1, <2>3, <3>1, UpTo
  <2>6. g[m] = h[m]
    <3>1. m \in 0 .. m
      BY <1>1
    <3> QED BY <2>1, <2>5, <3>1
  <2>7. h[m + 1] = h[m] \o t
    <3>1. m + 1 \in 1 .. m + 1 /\ m + 1 # 1 /\ m + 1 - 1 = m
      BY <1>1, <2>1
    <3> DEFINE k == m + 1
    <3>2. Joined(h, tt, k) /\ k \in 1 .. k /\ k # 1 /\ k - 1 = m /\ tt[k] = t
      BY <1>1, <1>5, <3>1
    <3> HIDE DEF k
    <3>3. h[k] = IF k = 1 THEN tt[k] ELSE h[k - 1] \o tt[k]
      BY <3>2 DEF Joined
    <3>4. h[k] = h[m] \o t
      BY <3>2, <3>3
    <3> QED BY <3>4 DEF k
  <2>8. g[m] \in Seq(X)
    <3>1. m \in 1 .. m
      BY <1>1, <2>1
    <3> QED BY <2>2, <3>1
  <2> QED BY <1>2, <2>2, <2>6, <2>7, <2>8 DEF tt
<1> QED BY <1>3, <1>4

\* The function by whose recursion FoldLeft is defined exists.
Folded(f, F, b, seq, s) ==
  f[s] = IF s = {} THEN b ELSE F[<<f[s \ {Max(s)}], seq[Max(s)]>>]

LEMMA FoldExists ==
  ASSUME NEW ST, NEW X, NEW F \in [ST \X X -> ST], NEW b \in ST, NEW seq \in Seq(X)
  PROVE  \E f \in [SUBSET (1 .. Len(seq)) -> ST] :
           \A s \in SUBSET (1 .. Len(seq)) : Folded(f, F, b, seq, s)
<1> DEFINE m == Len(seq)
           K == {k \in 0 .. m :
                   \E f \in [SUBSET (1 .. k) -> ST] :
                     \A s \in SUBSET (1 .. k) : Folded(f, F, b, seq, s)}
<1>1. m \in Nat
  OBVIOUS
<1>2. 0 \in K
  <2> DEFINE f == [s \in SUBSET (1 .. 0) |-> b]
  <2>1. \A s \in SUBSET (1 .. 0) : s = {}
    OBVIOUS
  <2>2. /\ f \in [SUBSET (1 .. 0) -> ST]
        /\ \A s \in SUBSET (1 .. 0) : Folded(f, F, b, seq, s)
    BY <2>1 DEF Folded
  <2> QED BY <1>1, <2>2
<1>3. ASSUME NEW k \in 0 .. m - 1, k \in K PROVE k + 1 \in K
  <2>1. PICK f \in [SUBSET (1 .. k) -> ST] :
               \A s \in SUBSET (1 .. k) : Folded(f, F, b, seq, s)
    BY <1>3
  <2> DEFINE g == [s \in SUBSET (1 .. k + 1) |->
                     IF k + 1 \in s THEN F[<<f[s \ {k + 1}], seq[k + 1]>>] ELSE f[s]]
  <2>2. ASSUME NEW s \in SUBSET (1 .. k + 1)
        PROVE  g[s] \in ST /\ Folded(g, F, b, seq, s)
    <3>1. CASE k + 1 \in s
      <4>0. k + 1 \in Nat /\ s # {} /\ \A j \in s : j <= k + 1
        BY <3>1, <1>3
      <4>1. Max(s) = k + 1
        <5>1. Max(s) \in s /\ \A j \in s : j <= Max(s)
          BY <4>0, MaxIsGreatest
        <5>2. Max(s) \in 1 .. k + 1
          BY <5>1
        <5> QED BY <3>1, <4>0, <5>1, <5>2
      <4>2. s \ {k + 1} \in SUBSET (1 .. k) /\ s \ {k+1} \in SUBSET (1 .. k + 1)
        BY <1>3
      <4>3. g[s \ {k + 1}] = f[s \ {k + 1}] /\ f[s \ {k + 1}] \in ST
        BY <4>2
      <4>4. seq[k + 1] \in X /\ s # {}
        BY <3>1
      <4>5. g[s] = F[<<f[s \ {k + 1}], seq[k + 1]>>] /\ g[s] \in ST
        BY <3>1, <4>3, <4>4
      <4> QED BY <4>1, <4>3, <4>4, <4>5 DEF Folded
    <3>2. CASE k + 1 \notin s
      <4>1. s \in SUBSET (1 .. k)
        BY <3>2
      <4>2. g[s] = f[s] /\ f[s] \in ST
        BY <3>2, <4>1
      <4>3. CASE s # {}
        <5>1. Max(s) \in s
          <6>1. k \in Nat
            BY <1>3
          <6> QED BY <4>1, <4>3, <6>1, MaxIsGreatest
        <5>2. /\ s \ {Max(s)} \in SUBSET (1 .. k) /\ k + 1 \notin s \ {Max(s)}
              /\ s \ {Max(s)} \in SUBSET (1 .. k + 1)
          <6> DEFINE t == s \ {Max(s)}
          <6>1. t \subseteq s
            OBVIOUS
          <6> HIDE DEF t
          <6>2. t \in SUBSET (1 .. k) /\ k + 1 \notin t /\ t \in SUBSET (1 .. k + 1)
            BY <6>1, <4>1, <3>2
          <6> QED BY <6>2 DEF t
        <5>3. g[s \ {Max(s)}] = f[s \ {Max(s)}]
          BY <5>2
        <5> QED BY <2>1, <4>1, <4>2, <4>3, <5>3 DEF Folded
      <4> QED BY <2>1, <4>1, <4>2, <4>3 DEF Folded
    <3> QED BY <3>1, <3>2
  <2>3. g \in [SUBSET (1 .. k + 1) -> ST]
    BY <2>2
  <2> HIDE DEF g
  <2>4. k + 1 \in 0 .. m
    BY <1>1
  <2> QED BY <2>2, <2>3, <2>4
<1>4. m \in K
  <2>1. \A k \in 0 .. m - 1 : k \in K => k + 1 \in K
    BY <1>3
  <2>2. 0 .. m \subseteq K
    <3> HIDE DEF K, m
    <3> QED BY <1>1, <1>2, <2>1, UpTo
  <2>3. m \in 0 .. m
    BY <1>1
  <2> QED
    <3> HIDE DEF K, m
    <3> QED BY <2>2, <2>3
<1> QED BY <1>4

\* A function by whose recursion FoldLeft is defined visits the elements in turn.
Solution(f, ST, F, b, seq) ==
  /\ f[{}] = b
  /\ \A s \in SUBSET (1 .. Len(seq)) :
        s # {} /\ f[s \ {Max(s)}] \in ST => Folded(f, F, b, seq, s)

Trace(g, ST, F, b, seq, f) ==
  /\ g \in [0 .. Len(seq) -> ST]
  /\ g[0] = b /\ g[Len(seq)] = f[1 .. Len(seq)]
  /\ \A i \in 1 .. Len(seq) : g[i] = F[<<g[i-1], seq[i]>>]

LEMMA FoldSteps ==
  ASSUME NEW ST, NEW X, NEW F \in [ST \X X -> ST], NEW b \in ST, NEW seq \in Seq(X),
         NEW f, Solution(f, ST, F, b, seq)
  PROVE  \E g : Trace(g, ST, F, b, seq, f)
<1> DEFINE m == Len(seq)
           K == {i \in 0 .. m : f[1 .. i] \in ST}
           g == [i \in 0 .. m |-> f[1 .. i]]
<1>1. m \in Nat /\ 1 .. 0 = {}
  OBVIOUS
<1>0. /\ f[{}] = b
      /\ \A s \in SUBSET (1 .. m) :
            s # {} /\ f[s \ {Max(s)}] \in ST => Folded(f, F, b, seq, s)
  BY DEF Solution
<1>2. ASSUME NEW i \in 0 .. m - 1
      PROVE  /\ f[1 .. i] \in ST =>
                  /\ f[1 .. i + 1] = F[<<f[1 .. i], seq[i + 1]>>]
                  /\ f[1 .. i + 1] \in ST
  <2> DEFINE s == 1 .. i + 1
  <2>0. i \in Nat /\ i + 1 \in Nat /\ i + 1 <= m
    <3> HIDE DEF m
    <3> QED BY <1>1
  <2>1. i + 1 \in s /\ s # {} /\ s \in SUBSET (1 .. i + 1)
    <3>1. i + 1 \in s
      BY <2>0
    <3> QED BY <3>1
  <2>6. s \in SUBSET (1 .. m)
    BY <1>1, <2>0
  <2>2. Max(s) = i + 1
    <3>1. Max(s) \in s /\ \A j \in s : j <= Max(s)
      <4> HIDE DEF s
      <4> QED BY <2>0, <2>1, MaxIsGreatest
    <3>2. Max(s) \in 1 .. i + 1
      BY <3>1
    <3> QED BY <2>0, <2>1, <3>1, <3>2
  <2>3. s \ {i + 1} = 1 .. i
    BY <2>0
  <2>4. seq[i + 1] \in X
    BY <1>1, <2>0
  <2>5. ASSUME f[1 .. i] \in ST PROVE f[s] = F[<<f[1 .. i], seq[i + 1]>>]
    <3>1. f[s \ {Max(s)}] \in ST
      BY <2>2, <2>3, <2>5
    <3>2. Folded(f, F, b, seq, s)
      BY <1>0, <2>1, <2>6, <3>1
    <3> QED BY <2>1, <2>2, <2>3, <3>2 DEF Folded
  <2> QED BY <2>4, <2>5
<1>3. 0 .. m \subseteq K
  <2>1. 0 \in K
    BY <1>0, <1>1
  <2>2. ASSUME NEW i \in 0 .. m - 1, i \in K PROVE i + 1 \in K
    <3>1. f[1 .. i + 1] \in ST
      BY <1>2, <2>2
    <3>2. i + 1 \in 0 .. m
      <4> HIDE DEF m
      <4> QED BY <1>1
    <3> QED BY <3>1, <3>2
  <2> HIDE DEF K, m
  <2> QED BY <1>1, <2>1, <2>2, UpTo
<1>4. g \in [0 .. m -> ST]
  BY <1>3
<1>5. \A i \in 1 .. m : g[i] = F[<<g[i-1], seq[i]>>]
  <2>1. ASSUME NEW i \in 1 .. m PROVE g[i] = F[<<g[i-1], seq[i]>>]
    <3>1. i - 1 \in 0 .. m - 1 /\ i - 1 \in 0 .. m /\ i \in 0 .. m /\ i - 1 + 1 = i
      BY <1>1
    <3>2. f[1 .. i - 1] \in ST
      BY <1>3, <3>1
    <3>3. f[1 .. i] = F[<<f[1 .. i - 1], seq[i]>>]
      BY <1>2, <3>1, <3>2
    <3> QED BY <3>1, <3>3
  <2> QED BY <2>1
<1>6. g[0] = b /\ g[m] = f[1 .. m]
  BY <1>0, <1>1
<1> QED BY <1>4, <1>5, <1>6 DEF Trace

\* The elements a fold takes off a set of places.
LEMMA Greatest ==
  ASSUME NEW X, NEW seq \in Seq(X)
  PROVE  \A u \in SUBSET (1 .. Len(seq)) :
            u # {} => seq[Max(u)] \in X /\ u \ {Max(u)} \in SUBSET (1 .. Len(seq))
<1> SUFFICES ASSUME NEW u \in SUBSET (1 .. Len(seq)), u # {}
             PROVE  seq[Max(u)] \in X /\ u \ {Max(u)} \in SUBSET (1 .. Len(seq))
  OBVIOUS
<1> DEFINE m == Len(seq)
<1>1. m \in Nat /\ u \in SUBSET (1 .. m) /\ u # {}
  OBVIOUS
<1>2. Max(u) \in u
  <2> HIDE DEF m
  <2> QED BY <1>1, MaxIsGreatest
<1>3. Max(u) \in 1 .. Len(seq)
  BY <1>2
<1>4. seq[Max(u)] \in X
  BY <1>3
<1>5. u \ {Max(u)} \subseteq u
  OBVIOUS
<1>6. u \ {Max(u)} \in SUBSET (1 .. Len(seq))
  <2> DEFINE v == u \ {Max(u)}
  <2> HIDE DEF v
  <2>1. v \subseteq u => v \in SUBSET (1 .. Len(seq))
    OBVIOUS
  <2> QED BY <1>5, <2>1 DEF v
<1> QED BY <1>4, <1>6

----------------------------------------------------------------------------
(* The events of the Anthropic protocol.                                   *)

AKinds == {"thinking", "text", "tool_use"}
Parts == Nat \cup {None}
AEvent ==
  [e : {"message_start", "message_stop", "error"}]
    \cup [e : {"block_start"}, index : Nat, kind : AKinds,
          id : Ids \cup {None}, name : Ids \cup {None}]
    \cup [e : {"block_delta"}, index : Nat, kind : AKinds, part : Nat]
    \cup [e : {"block_stop"}, index : Nat]
    \cup [e : {"message_delta"}, stop : Parts, usage : Parts]
AState == [started : BOOLEAN, stopped : BOOLEAN, failed : BOOLEAN,
           kind : AKinds \cup {None}, index : Nat,
           toolID : Ids \cup {None}, toolName : Ids \cup {None},
           stop : Parts, usage : Parts, out : Seq(AEvent)]

AChain(out) == \A i \in 2 .. Len(out) : A!Follows(out[i-1], out[i])
AFirst(out) == out # <<>> => out[1].e \in {"message_start", "message_delta", "error"}

\* The state agrees with the last event.
AFit(s) ==
  IF s.out = <<>> THEN s.kind = None /\ s.index = 0 /\ ~s.started
  ELSE LET l == s.out[Len(s.out)]
       IN /\ s.started
          /\ IF s.kind = None
               THEN \/ l.e = "message_start" /\ s.index = 0
                    \/ l.e = "block_stop" /\ s.index = l.index + 1
               ELSE /\ l.e \in {"block_start", "block_delta"}
                    /\ l.index = s.index /\ l.kind = s.kind

\* A message still being written.
AReading == {s \in AState : ~s.stopped /\ AFirst(s.out) /\ AChain(s.out) /\ AFit(s)}

\* The states between the tool calls of a chunk.
AClosed(ST, part) == \A x \in ST, t \in Tool : A!ToolCall(x, t, part) \in ST
ACalls(g, ST, s, seq, part) ==
  /\ g \in [0 .. Len(seq) -> ST]
  /\ g[0] = s /\ g[Len(seq)] = A!ToolCalls(s, seq, part)
  /\ \A i \in 1 .. Len(seq) : g[i] = A!ToolCall(g[i-1], seq[i], part)

LEMMA AToolCalls ==
  ASSUME NEW ST, NEW s \in ST, NEW seq \in Seq(Tool), NEW part, AClosed(ST, part)
  PROVE  \E g : ACalls(g, ST, s, seq, part)
<1> DEFINE m == Len(seq)
           F == [p \in ST \X Tool |-> A!ToolCall(p[1], p[2], part)]
           Eq(f) == f = [u \in SUBSET (1 .. m) |->
                           IF u = {} THEN s ELSE A!ToolCall(f[u \ {Max(u)}], seq[Max(u)], part)]
           iter == CHOOSE f : Eq(f)
<1>1. A!ToolCalls(s, seq, part) = iter[1 .. m]
  <2>1. DOMAIN seq = 1 .. m
    OBVIOUS
  <2>2. \A u : A!Max(u) = Max(u)
    BY DEF A!Max, Max
  <2>3. A!ToolCalls(s, seq, part) =
          (CHOOSE f : f = [u \in SUBSET DOMAIN seq |->
                             IF u = {} THEN s
                             ELSE A!ToolCall(f[u \ {A!Max(u)}], seq[A!Max(u)], part)])[DOMAIN seq]
    BY DEF A!ToolCalls, A!FoldLeft, A!MapThenFoldSet
  <2> QED BY <2>1, <2>2, <2>3
<1>2. F \in [ST \X Tool -> ST]
  BY DEF AClosed
<1>3. \A u \in SUBSET (1 .. m) :
         u # {} => seq[Max(u)] \in Tool /\ u \ {Max(u)} \in SUBSET (1 .. m)
  BY Greatest
<1>4. \E f : Eq(f)
  <2>1. PICK f \in [SUBSET (1 .. m) -> ST] :
          \A u \in SUBSET (1 .. m) : Folded(f, F, s, seq, u)
    BY <1>2, FoldExists
  <2>2. ASSUME NEW u \in SUBSET (1 .. m)
        PROVE  f[u] = IF u = {} THEN s ELSE A!ToolCall(f[u \ {Max(u)}], seq[Max(u)], part)
    <3>1. u # {} => f[u \ {Max(u)}] \in ST
      BY <1>3
    <3> QED BY <1>3, <2>1, <3>1 DEF Folded
  <2> QED BY <2>1, <2>2
<1>5. Eq(iter)
  BY <1>4
<1> HIDE DEF iter
<1>6. Solution(iter, ST, F, s, seq)
  <2>1. iter[{}] = s
    BY <1>5
  <2>2. ASSUME NEW u \in SUBSET (1 .. m), u # {}, iter[u \ {Max(u)}] \in ST
        PROVE  Folded(iter, F, s, seq, u)
    <3>1. iter[u] = A!ToolCall(iter[u \ {Max(u)}], seq[Max(u)], part)
      BY <1>5, <2>2
    <3> QED BY <1>3, <2>2, <3>1 DEF Folded
  <2> QED BY <2>1, <2>2 DEF Solution
<1>7. PICK g : Trace(g, ST, F, s, seq, iter)
  <2> HIDE DEF F
  <2> QED BY <1>2, <1>6, FoldSteps
<1>8. g \in [0 .. m -> ST] /\ g[0] = s /\ g[m] = iter[1 .. m]
  BY <1>7 DEF Trace
<1>9. ASSUME NEW i \in 1 .. m PROVE g[i] = A!ToolCall(g[i-1], seq[i], part)
  <2>1. g[i - 1] \in ST /\ seq[i] \in Tool
    BY <1>8
  <2>2. g[i] = F[<<g[i - 1], seq[i]>>]
    BY <1>7 DEF Trace
  <2> QED BY <2>1, <2>2
<1> QED BY <1>1, <1>8, <1>9 DEF ACalls

LEMMA AExtend ==
  ASSUME NEW q \in Seq(AEvent), NEW ev \in AEvent, AChain(q), AFirst(q),
         q = <<>> => ev.e \in {"message_start", "message_delta", "error"},
         q # <<>> => A!Follows(q[Len(q)], ev)
  PROVE  /\ Append(q, ev) \in Seq(AEvent) /\ Append(q, ev) # <<>>
         /\ AChain(Append(q, ev)) /\ AFirst(Append(q, ev))
         /\ Append(q, ev)[Len(Append(q, ev))] = ev
<1> DEFINE r == Append(q, ev)
<1>1. /\ Len(q) \in Nat /\ r \in Seq(AEvent) /\ Len(r) = Len(q) + 1
      /\ \A i \in 1 .. Len(q) : r[i] = q[i]
      /\ r[Len(r)] = ev
  OBVIOUS
<1>2. q = <<>> <=> Len(q) = 0
  OBVIOUS
<1>3. ASSUME NEW i \in 2 .. Len(r) PROVE A!Follows(r[i-1], r[i])
  <2>1. CASE i \in 2 .. Len(q)
    <3>1. r[i] = q[i] /\ r[i - 1] = q[i - 1]
      BY <1>1, <2>1
    <3> QED BY <2>1, <3>1 DEF AChain
  <2>2. CASE i = Len(q) + 1
    <3>1. r[i] = ev /\ r[i - 1] = q[Len(q)] /\ q # <<>>
      BY <1>1, <1>2, <2>2
    <3> QED BY <3>1
  <2> QED BY <1>1, <2>1, <2>2
<1>4. r[1].e \in {"message_start", "message_delta", "error"}
  <2>1. CASE q = <<>>
    BY <1>1, <1>2, <2>1
  <2>2. CASE q # <<>>
    BY <1>1, <1>2, <2>2 DEF AFirst
  <2> QED BY <2>1, <2>2
<1> HIDE DEF r
<1>5. AChain(r) /\ AFirst(r)
  BY <1>3, <1>4 DEF AChain, AFirst
<1>6. r # <<>>
  BY <1>1
<1> QED BY <1>1, <1>5, <1>6 DEF r

\* An event that follows the last, and the state that agrees with it.
LEMMA AWrite ==
  ASSUME NEW s \in AReading, NEW ev \in AEvent, NEW t \in AState,
         t.out = Append(s.out, ev), t.started, ~t.stopped,
         s.out = <<>> => ev.e = "message_start",
         s.out # <<>> => A!Follows(s.out[Len(s.out)], ev),
         IF t.kind = None
           THEN \/ ev.e = "message_start" /\ t.index = 0
                \/ ev.e = "block_stop" /\ t.index = ev.index + 1
           ELSE /\ ev.e \in {"block_start", "block_delta"}
                /\ ev.index = t.index /\ ev.kind = t.kind
  PROVE  t \in AReading
<1>1. s.out \in Seq(AEvent) /\ AFirst(s.out) /\ AChain(s.out)
  BY DEF AReading, AState
<1>2. /\ t.out \in Seq(AEvent) /\ t.out # <<>>
      /\ AChain(t.out) /\ AFirst(t.out) /\ t.out[Len(t.out)] = ev
  BY <1>1, AExtend
<1>3. AFit(t)
  BY <1>2 DEF AFit
<1> QED BY <1>2, <1>3 DEF AReading

LEMMA AMessageStart ==
  ASSUME NEW s \in AReading
  PROVE  /\ A!MessageStart(s) \in AReading
         /\ A!MessageStart(s).started
         /\ A!MessageStart(s).kind = s.kind
<1>1. CASE s.started
  BY <1>1 DEF A!MessageStart
<1>2. CASE ~s.started
  <2> DEFINE ev == [e |-> "message_start"]
             t == [s EXCEPT !.started = TRUE, !.out = Append(@, ev)]
  <2>1. s \in AState /\ ~s.stopped /\ AFit(s)
    BY DEF AReading
  <2>2. s.out = <<>> /\ s.kind = None /\ s.index = 0
    BY <1>2, <2>1 DEF AFit
  <2>3. A!MessageStart(s) = t
    BY <1>2, <2>1 DEF A!MessageStart, A!Emit, AState
  <2>4. ev \in AEvent /\ ev.e = "message_start"
    BY DEF AEvent
  <2>5. /\ t \in AState /\ ~t.stopped /\ t.started /\ t.kind = None /\ t.index = 0
        /\ t.out = Append(s.out, ev)
    <3> HIDE DEF AEvent, ev
    <3>1. Append(s.out, ev) \in Seq(AEvent)
      BY <2>1, <2>4 DEF AState
    <3> QED BY <2>1, <2>2, <2>4, <3>1 DEF AState
  <2>6. t \in AReading
    <3> HIDE DEF t, ev
    <3> QED BY <2>2, <2>4, <2>5, AWrite
  <2> QED BY <2>2, <2>3, <2>5, <2>6
<1> QED BY <1>1, <1>2

LEMMA ACloseBlock ==
  ASSUME NEW s \in AReading
  PROVE  /\ A!CloseBlock(s) \in AReading
         /\ A!CloseBlock(s).kind = None
         /\ A!CloseBlock(s).started = s.started
<1>1. CASE s.kind = None
  BY <1>1 DEF A!CloseBlock
<1>2. CASE s.kind # None
  <2> DEFINE ev == [e |-> "block_stop", index |-> s.index]
             t == [s EXCEPT !.out = Append(@, ev), !.kind = None, !.index = @ + 1]
             l == s.out[Len(s.out)]
  <2>1. s \in AState /\ ~s.stopped /\ AFit(s)
    BY DEF AReading
  <2>2. /\ s.out # <<>> /\ s.started
        /\ l.e \in {"block_start", "block_delta"} /\ l.index = s.index
    BY <1>2, <2>1 DEF AFit
  <2>3. A!CloseBlock(s) = t
    BY <1>2, <2>1 DEF A!CloseBlock, A!Emit, AState
  <2>4. ev \in AEvent /\ ev.e = "block_stop" /\ ev.index = s.index
    BY <2>1 DEF AEvent, AState
  <2>5. /\ t \in AState /\ ~t.stopped /\ t.started /\ t.kind = None /\ t.index = s.index + 1
        /\ t.out = Append(s.out, ev)
    <3> HIDE DEF AEvent, ev
    <3>1. Append(s.out, ev) \in Seq(AEvent) /\ s.index + 1 \in Nat
      BY <2>1, <2>4 DEF AState
    <3>2. t \in AState
      BY <2>1, <3>1 DEF AState
    <3>3. t.index = s.index + 1 /\ t.kind = None /\ t.out = Append(s.out, ev)
      BY <2>1 DEF AState
    <3>4. t.started /\ ~t.stopped
      BY <2>1, <2>2 DEF AState
    <3> QED BY <3>2, <3>3, <3>4
  <2>7. A!Follows(l, ev)
    BY <2>2, <2>4 DEF A!Follows
  <2>6. t \in AReading
    <3> HIDE DEF t, ev
    <3> QED BY <2>2, <2>4, <2>5, <2>7, AWrite
  <2> QED BY <2>2, <2>3, <2>5, <2>6
<1> QED BY <1>1, <1>2

LEMMA AStartBlock ==
  ASSUME NEW s \in AReading, NEW kind \in AKinds
  PROVE  A!StartBlock(s, kind) \in AReading /\ A!StartBlock(s, kind).kind = kind
<1> DEFINE c == A!CloseBlock(A!MessageStart(s))
           ev == [e |-> "block_start", index |-> c.index, kind |-> kind,
                  id |-> IF kind = "tool_use" THEN s.toolID ELSE None,
                  name |-> IF kind = "tool_use" THEN s.toolName ELSE None]
           t == [c EXCEPT !.kind = kind, !.out = Append(@, ev)]
           l == c.out[Len(c.out)]
<1>1. c \in AReading /\ c.kind = None /\ c.started
  BY AMessageStart, ACloseBlock
<1> HIDE DEF c
<1>2. c \in AState /\ ~c.stopped /\ AFit(c)
  BY <1>1 DEF AReading
<1>3. /\ c.out # <<>>
      /\ \/ l.e = "message_start" /\ c.index = 0
         \/ l.e = "block_stop" /\ c.index = l.index + 1
  BY <1>1, <1>2 DEF AFit
<1>4. A!StartBlock(s, kind) = t
  BY <1>2 DEF A!StartBlock, A!Emit, AState, c
<1>5. /\ ev \in AEvent /\ ev.e = "block_start" /\ ev.index = c.index /\ ev.kind = kind
  <2>1. s.toolID \in Ids \cup {None} /\ s.toolName \in Ids \cup {None} /\ c.index \in Nat
    BY <1>2 DEF AReading, AState
  <2> QED BY <2>1 DEF AEvent
<1>6. A!Follows(l, ev)
  BY <1>3, <1>5 DEF A!Follows
<1>7. /\ t \in AState /\ ~t.stopped /\ t.started /\ t.kind = kind /\ t.index = c.index
      /\ t.out = Append(c.out, ev)
  <2> HIDE DEF AEvent, ev
  <2>1. Append(c.out, ev) \in Seq(AEvent)
    BY <1>2, <1>5 DEF AState
  <2> QED BY <1>1, <1>2, <1>5, <2>1 DEF AState
<1>8. kind # None
  BY NoneAssumption DEF AKinds
<1>9. t \in AReading
  <2> HIDE DEF t, ev
  <2> QED BY <1>1, <1>3, <1>5, <1>6, <1>7, <1>8, AWrite
<1> QED BY <1>4, <1>7, <1>9

LEMMA AOpenBlock ==
  ASSUME NEW s \in AReading, NEW kind \in AKinds
  PROVE  A!OpenBlock(s, kind) \in AReading /\ A!OpenBlock(s, kind).kind = kind
BY AMessageStart, AStartBlock DEF A!OpenBlock

LEMMA ADelta ==
  ASSUME NEW s \in AReading, s.kind # None, NEW part \in Nat
  PROVE  A!Delta(s, part) \in AReading
<1> DEFINE ev == [e |-> "block_delta", index |-> s.index, kind |-> s.kind, part |-> part]
           t == [s EXCEPT !.out = Append(@, ev)]
           l == s.out[Len(s.out)]
<1>1. s \in AState /\ ~s.stopped /\ AFit(s)
  BY DEF AReading
<1>2. /\ s.out # <<>> /\ s.started /\ l.e \in {"block_start", "block_delta"}
      /\ l.index = s.index /\ l.kind = s.kind
  BY <1>1 DEF AFit
<1>3. A!Delta(s, part) = t
  BY <1>1 DEF A!Delta, A!Emit, AState
<1>4. ev \in AEvent /\ ev.e = "block_delta" /\ ev.index = s.index /\ ev.kind = s.kind
  BY <1>1 DEF AEvent, AState
<1>5. /\ t \in AState /\ ~t.stopped /\ t.started /\ t.kind = s.kind /\ t.index = s.index
      /\ t.out = Append(s.out, ev)
  <2> HIDE DEF AEvent, ev
  <2>1. Append(s.out, ev) \in Seq(AEvent)
    BY <1>1, <1>4 DEF AState
  <2> QED BY <1>1, <1>2, <1>4, <2>1 DEF AState
<1>6. A!Follows(l, ev)
  BY <1>2, <1>4 DEF A!Follows
<1>7. t \in AReading
  <2> HIDE DEF t, ev
  <2> QED BY <1>2, <1>4, <1>5, <1>6, AWrite
<1> QED BY <1>3, <1>7

LEMMA AToolCall ==
  ASSUME NEW s \in AReading, NEW tc \in Tool, NEW part \in Nat
  PROVE  A!ToolCall(s, tc, part) \in AReading
<1> DEFINE noted == [s EXCEPT !.toolID = IF tc.id # None THEN tc.id ELSE @,
                              !.toolName = IF tc.name # None THEN tc.name ELSE @]
           begun == IF A!Begins(s, tc) THEN A!NewToolBlock(noted) ELSE s
<1>1. noted \in AReading
  BY DEF AReading, AState, AFit, Tool
<1>2. "tool_use" \in AKinds /\ "tool_use" # None
  BY NoneAssumption DEF AKinds
<1>3. begun \in AReading
  <2> HIDE DEF noted
  <2> QED BY <1>1, <1>2, AStartBlock DEF A!NewToolBlock
<1>4. A!ToolCall(s, tc, part) =
        IF tc.args THEN A!Delta(A!OpenBlock(begun, "tool_use"), part) ELSE begun
  BY DEF A!ToolCall
<1> HIDE DEF begun
<1> QED BY <1>2, <1>3, <1>4, AOpenBlock, ADelta
LEMMA AHandleChunk ==
  ASSUME NEW s \in AReading, NEW c \in Chunks, NEW part \in Nat
  PROVE  A!HandleChunk(s, c, part) \in AReading
<1>1. /\ c.choice \in BOOLEAN /\ c.think \in BOOLEAN /\ c.text \in BOOLEAN
      /\ c.tools \in Seq(Tool) /\ c.stop \in BOOLEAN /\ c.usage \in BOOLEAN
  BY ChunksAssumption
<1>2. \A x \in AReading, p \in Parts :
         /\ [x EXCEPT !.usage = p] \in AReading
         /\ [x EXCEPT !.stop = p] \in AReading
  BY DEF AReading, AState, AFit
<1>3. part \in Parts
  BY DEF Parts
<1>4. CASE ~c.choice
  <2>1. A!HandleChunk(s, c, part) = [s EXCEPT !.usage = IF c.usage THEN part ELSE @]
    BY <1>4 DEF A!HandleChunk
  <2>2. s.usage \in Parts
    BY DEF AReading, AState
  <2> QED BY <1>2, <1>3, <2>1, <2>2
<1>5. CASE c.choice
  <2> DEFINE s1 == IF c.think THEN A!Delta(A!OpenBlock(s, "thinking"), part) ELSE s
             s2 == IF c.text THEN A!Delta(A!OpenBlock(s1, "text"), part) ELSE s1
             s3 == A!ToolCalls(s2, c.tools, part)
             s4 == A!Stop(s3, c, part)
  <2>1. /\ "thinking" \in AKinds /\ "thinking" # None
        /\ "text" \in AKinds /\ "text" # None
    BY NoneAssumption DEF AKinds
  <2>2. s1 \in AReading
    BY <2>1, AOpenBlock, ADelta
  <2>3. s2 \in AReading
    <3> HIDE DEF s1
    <3> QED BY <2>1, <2>2, AOpenBlock, ADelta
  <2>4. s3 \in AReading
    <3>1. AClosed(AReading, part)
      BY AToolCall DEF AClosed
    <3> HIDE DEF s2
    <3>2. PICK g : ACalls(g, AReading, s2, c.tools, part)
      BY <1>1, <2>3, <3>1, AToolCalls
    <3> QED BY <1>1, <3>2 DEF ACalls
  <2>5. s4 \in AReading
    <3> HIDE DEF s3
    <3>1. s3.usage \in Parts
      BY <2>4 DEF AReading, AState
    <3>2. s4 = IF ~c.stop THEN s3
               ELSE [[s3 EXCEPT !.stop = part] EXCEPT !.usage = IF c.usage THEN part ELSE s3.usage]
      BY <2>4 DEF A!Stop, AReading, AState
    <3> HIDE DEF s4
    <3> QED BY <1>2, <1>3, <2>4, <3>1, <3>2
  <2>6. A!HandleChunk(s, c, part) = A!EndChoice(s4, c)
    BY <1>5 DEF A!HandleChunk
  <2> HIDE DEF s4
  <2> QED BY <2>5, <2>6, ACloseBlock DEF A!EndChoice
<1> QED BY <1>1, <1>4, <1>5

\* A message that is not being written any more.
AOver == {s \in AState :
            /\ AFirst(s.out) /\ AChain(s.out)
            /\ s.started => /\ s.out # <<>>
                            /\ s.out[Len(s.out)].e \in {"message_stop", "error"}}

LEMMA AFinish ==
  ASSUME NEW s \in AReading
  PROVE  A!Finish(s) \in AOver
<1> DEFINE c == A!CloseBlock(s)
           ev == [e |-> "message_delta", stop |-> c.stop, usage |-> c.usage]
           d == [c EXCEPT !.out = Append(@, ev)]
           sp == [e |-> "message_stop"]
           t == [d EXCEPT !.out = Append(@, sp), !.stopped = TRUE]
           l == c.out[Len(c.out)]
<1>1. c \in AReading /\ c.kind = None
  BY ACloseBlock
<1>2. ~s.stopped
  BY DEF AReading
<1> HIDE DEF c
<1>3. c \in AState /\ ~c.stopped /\ AFirst(c.out) /\ AChain(c.out) /\ AFit(c)
      /\ c.out \in Seq(AEvent)
  BY <1>1 DEF AReading, AState
<1>4. c.out # <<>> => l.e \in {"message_start", "block_stop"}
  BY <1>1, <1>3 DEF AFit
<1>5. ev \in AEvent /\ ev.e = "message_delta"
  BY <1>3 DEF AEvent, AState
<1>6. /\ Append(c.out, ev) \in Seq(AEvent) /\ Append(c.out, ev) # <<>>
      /\ AChain(Append(c.out, ev)) /\ AFirst(Append(c.out, ev))
      /\ Append(c.out, ev)[Len(Append(c.out, ev))] = ev
  <2>1. c.out # <<>> => A!Follows(l, ev)
    BY <1>4, <1>5 DEF A!Follows
  <2> HIDE DEF ev
  <2> QED BY <1>3, <1>5, <2>1, AExtend
<1>7. d \in AState /\ ~d.stopped /\ d.out = Append(c.out, ev)
  <2> HIDE DEF AEvent, ev
  <2> QED BY <1>3, <1>6 DEF AState
<1>8. A!Finish(s) = t
  <2>1. A!Emit(c, ev) = d
    BY <1>3 DEF A!Emit
  <2>2. A!Emit(d, sp) = [d EXCEPT !.out = Append(@, sp)]
    BY <1>7 DEF A!Emit
  <2>3. A!Finish(s) = [A!Emit(A!Emit(c, ev), sp) EXCEPT !.stopped = TRUE]
    BY <1>2 DEF A!Finish, c
  <2>4. t = [[d EXCEPT !.out = Append(@, sp)] EXCEPT !.stopped = TRUE]
    <3> HIDE DEF d, sp
    <3> QED BY <1>7 DEF AState
  <2> QED BY <2>1, <2>2, <2>3, <2>4
<1> HIDE DEF d
<1>9. sp \in AEvent /\ sp.e = "message_stop"
  BY DEF AEvent
<1>10. /\ Append(d.out, sp) \in Seq(AEvent) /\ Append(d.out, sp) # <<>>
       /\ AChain(Append(d.out, sp)) /\ AFirst(Append(d.out, sp))
       /\ Append(d.out, sp)[Len(Append(d.out, sp))] = sp
  <2>1. A!Follows(ev, sp)
    BY <1>5, <1>9 DEF A!Follows
  <2> HIDE DEF sp, ev
  <2> QED BY <1>6, <1>7, <1>9, <2>1, AExtend, ZenonT(60)
<1>11. t \in AState /\ t.out = Append(d.out, sp)
  <2> HIDE DEF AEvent, sp
  <2> QED BY <1>7, <1>10 DEF AState
<1> HIDE DEF t
<1> QED BY <1>8, <1>9, <1>10, <1>11 DEF AOver

LEMMA AError ==
  ASSUME NEW s \in AReading
  PROVE  [A!Emit(s, [e |-> "error"]) EXCEPT !.failed = TRUE] \in AOver
<1> DEFINE ev == [e |-> "error"]
           t == [s EXCEPT !.out = Append(@, ev), !.failed = TRUE]
           l == s.out[Len(s.out)]
<1>1. s \in AState /\ ~s.stopped /\ AFirst(s.out) /\ AChain(s.out) /\ AFit(s)
      /\ s.out \in Seq(AEvent)
  BY DEF AReading, AState
<1>2. s.out # <<>> => l.e \in {"message_start", "block_start", "block_delta", "block_stop"}
  BY <1>1 DEF AFit
<1>3. ev \in AEvent /\ ev.e = "error"
  BY DEF AEvent
<1>4. /\ Append(s.out, ev) \in Seq(AEvent) /\ Append(s.out, ev) # <<>>
      /\ AChain(Append(s.out, ev)) /\ AFirst(Append(s.out, ev))
      /\ Append(s.out, ev)[Len(Append(s.out, ev))] = ev
  <2>1. s.out # <<>> => A!Follows(l, ev)
    BY <1>2, <1>3 DEF A!Follows
  <2> HIDE DEF ev
  <2> QED BY <1>1, <1>3, <2>1, AExtend
<1>5. [A!Emit(s, ev) EXCEPT !.failed = TRUE] = t
  BY <1>1 DEF A!Emit, AState
<1>6. t \in AState /\ t.out = Append(s.out, ev)
  <2> HIDE DEF AEvent, ev
  <2> QED BY <1>1, <1>4 DEF AState
<1> HIDE DEF t
<1> QED BY <1>3, <1>4, <1>5, <1>6 DEF AOver

LEMMA AFinishAtEnd ==
  ASSUME NEW s \in AReading
  PROVE  A!FinishAtEnd(s) \in AOver
<1>1. s \in AState /\ AFirst(s.out) /\ AChain(s.out)
  BY DEF AReading
<1> QED BY <1>1, AFinish DEF A!FinishAtEnd, AOver
----------------------------------------------------------------------------
(* The events of the Responses API.                                        *)

RItem == [kind : R!Kinds, full : Seq(Nat), call : Ids \cup {None}, name : Ids \cup {None}]
REvent ==
  [e : {"created", "in_progress", "failed"}]
    \cup [e : {"item_added"}, index : Nat, kind : R!Kinds]
    \cup [e : {"part_added"}, index : Nat]
    \cup [e : {"delta"}, index : Nat, kind : R!Kinds, part : Nat]
    \cup [e : {"text_done", "part_done"}, index : Nat, full : Seq(Nat)]
    \cup [e : {"item_done"}, index : Nat, item : RItem]
    \cup [e : {"completed"}, output : Seq(RItem), status : {"incomplete", "completed"},
          usage : Parts]
RState == [kind : R!Kinds \cup {None}, index : Nat,
           call : Ids \cup {None}, name : Ids \cup {None},
           buf : [R!Kinds -> Seq(Nat)], items : Seq(RItem), stop : Parts, usage : Parts,
           out : Seq(REvent)]

RLast(q) == q[Len(q)]
RChain(q) == /\ q \in Seq(REvent) /\ Len(q) >= 2
             /\ \A i \in 3 .. Len(q) : R!Follows(q[i-1], q[i])

\* The state agrees with the last event.
RFit(s) ==
  LET l == RLast(s.out)
  IN IF s.kind = None
       THEN \/ l.e = "in_progress" /\ s.index = 0
            \/ l.e = "item_done" /\ s.index = l.index + 1
       ELSE /\ \/ l.e \in {"part_added", "delta"}
               \/ l.e = "item_added" /\ l.kind = "function_call"
            /\ l.index = s.index

\* A response still being written.
RReading == {s \in RState : RChain(s.out) /\ RFit(s)}

RClosed(ST, part) == \A x \in ST, t \in Tool : R!ToolCall(x, t, part) \in ST
RCalls(g, ST, s, seq, part) ==
  /\ g \in [0 .. Len(seq) -> ST]
  /\ g[0] = s /\ g[Len(seq)] = R!ToolCalls(s, seq, part)
  /\ \A i \in 1 .. Len(seq) : g[i] = R!ToolCall(g[i-1], seq[i], part)

LEMMA RToolCalls ==
  ASSUME NEW ST, NEW s \in ST, NEW seq \in Seq(Tool), NEW part, RClosed(ST, part)
  PROVE  \E g : RCalls(g, ST, s, seq, part)
<1> DEFINE m == Len(seq)
           F == [p \in ST \X Tool |-> R!ToolCall(p[1], p[2], part)]
           Eq(f) == f = [u \in SUBSET (1 .. m) |->
                           IF u = {} THEN s ELSE R!ToolCall(f[u \ {Max(u)}], seq[Max(u)], part)]
           iter == CHOOSE f : Eq(f)
<1>1. R!ToolCalls(s, seq, part) = iter[1 .. m]
  <2>1. DOMAIN seq = 1 .. m
    OBVIOUS
  <2>2. \A u : R!Max(u) = Max(u)
    BY DEF R!Max, Max
  <2>3. R!ToolCalls(s, seq, part) =
          (CHOOSE f : f = [u \in SUBSET DOMAIN seq |->
                             IF u = {} THEN s
                             ELSE R!ToolCall(f[u \ {R!Max(u)}], seq[R!Max(u)], part)])[DOMAIN seq]
    BY DEF R!ToolCalls, R!FoldLeft, R!MapThenFoldSet
  <2> QED BY <2>1, <2>2, <2>3
<1>2. F \in [ST \X Tool -> ST]
  BY DEF RClosed
<1>3. \A u \in SUBSET (1 .. m) :
         u # {} => seq[Max(u)] \in Tool /\ u \ {Max(u)} \in SUBSET (1 .. m)
  BY Greatest
<1>4. \E f : Eq(f)
  <2>1. PICK f \in [SUBSET (1 .. m) -> ST] :
          \A u \in SUBSET (1 .. m) : Folded(f, F, s, seq, u)
    BY <1>2, FoldExists
  <2>2. ASSUME NEW u \in SUBSET (1 .. m)
        PROVE  f[u] = IF u = {} THEN s ELSE R!ToolCall(f[u \ {Max(u)}], seq[Max(u)], part)
    <3>1. u # {} => f[u \ {Max(u)}] \in ST
      BY <1>3
    <3> QED BY <1>3, <2>1, <3>1 DEF Folded
  <2> QED BY <2>1, <2>2
<1>5. Eq(iter)
  BY <1>4
<1> HIDE DEF iter
<1>6. Solution(iter, ST, F, s, seq)
  <2>1. iter[{}] = s
    BY <1>5
  <2>2. ASSUME NEW u \in SUBSET (1 .. m), u # {}, iter[u \ {Max(u)}] \in ST
        PROVE  Folded(iter, F, s, seq, u)
    <3>1. iter[u] = R!ToolCall(iter[u \ {Max(u)}], seq[Max(u)], part)
      BY <1>5, <2>2
    <3> QED BY <1>3, <2>2, <3>1 DEF Folded
  <2> QED BY <2>1, <2>2 DEF Solution
<1>7. PICK g : Trace(g, ST, F, s, seq, iter)
  <2> HIDE DEF F
  <2> QED BY <1>2, <1>6, FoldSteps
<1>8. g \in [0 .. m -> ST] /\ g[0] = s /\ g[m] = iter[1 .. m]
  BY <1>7 DEF Trace
<1>9. ASSUME NEW i \in 1 .. m PROVE g[i] = R!ToolCall(g[i-1], seq[i], part)
  <2>1. g[i - 1] \in ST /\ seq[i] \in Tool
    BY <1>8
  <2>2. g[i] = F[<<g[i - 1], seq[i]>>]
    BY <1>7 DEF Trace
  <2> QED BY <2>1, <2>2
<1> QED BY <1>1, <1>8, <1>9 DEF RCalls

LEMMA RExtend ==
  ASSUME NEW q, RChain(q), NEW ev \in REvent, R!Follows(RLast(q), ev)
  PROVE  RChain(Append(q, ev)) /\ RLast(Append(q, ev)) = ev
<1> DEFINE r == Append(q, ev)
<1>1. q \in Seq(REvent) /\ Len(q) >= 2
  BY DEF RChain
<1>2. /\ Len(q) \in Nat /\ r \in Seq(REvent) /\ Len(r) = Len(q) + 1
      /\ \A i \in 1 .. Len(q) : r[i] = q[i]
      /\ r[Len(r)] = ev
  BY <1>1
<1>3. ASSUME NEW i \in 3 .. Len(r) PROVE R!Follows(r[i-1], r[i])
  <2>1. CASE i \in 3 .. Len(q)
    <3>1. r[i] = q[i] /\ r[i - 1] = q[i - 1]
      BY <1>2, <2>1
    <3> QED BY <2>1, <3>1 DEF RChain
  <2>2. CASE i = Len(q) + 1
    <3>1. r[i] = ev /\ r[i - 1] = RLast(q)
      BY <1>1, <1>2, <2>2 DEF RLast
    <3> QED BY <3>1
  <2> QED BY <1>2, <2>1, <2>2
<1> HIDE DEF r
<1>4. RChain(r) /\ RLast(r) = ev
  BY <1>1, <1>2, <1>3 DEF RChain, RLast
<1> QED BY <1>4 DEF r

\* Closing an item writes its last events.
LEMMA RCloseItem ==
  ASSUME NEW s \in RReading
  PROVE  R!CloseItem(s) \in RReading /\ R!CloseItem(s).kind = None
<1>1. CASE s.kind = None
  BY <1>1 DEF R!CloseItem
<1>2. CASE s.kind # None
  <2> DEFINE full == s.buf[s.kind]
             item == R!Item(s)
             ev1 == [e |-> "text_done", index |-> s.index, full |-> full]
             ev2 == [e |-> "part_done", index |-> s.index, full |-> full]
             ev3 == [e |-> "item_done", index |-> s.index, item |-> item]
             t == R!Emit(s, ev1)
             p == IF s.kind = "function_call" THEN t ELSE R!Emit(t, ev2)
             d == R!Emit(p, ev3)
             c == [d EXCEPT !.items = Append(@, item), !.index = @ + 1, !.kind = None]
  <2>1. s \in RState /\ RChain(s.out) /\ RFit(s)
    BY DEF RReading
  <2>2. /\ s.kind \in R!Kinds /\ full \in Seq(Nat) /\ s.index \in Nat
        /\ RLast(s.out).index = s.index
        /\ RLast(s.out).e \in {"item_added", "part_added", "delta"}
    BY <1>2, <2>1 DEF RState, RFit
  <2>3. item \in RItem /\ item.kind = s.kind
    <3>1. /\ s.kind \in R!Kinds /\ s.buf[s.kind] \in Seq(Nat)
          /\ s.call \in Ids \cup {None} /\ s.name \in Ids \cup {None}
      BY <2>1, <2>2 DEF RState
    <3> QED BY <3>1 DEF R!Item, RItem
  <2> HIDE DEF item, full
  <2>4. /\ ev1 \in REvent /\ ev1.e = "text_done" /\ ev1.index = s.index
        /\ ev2 \in REvent /\ ev2.e = "part_done" /\ ev2.index = s.index
        /\ ev3 \in REvent /\ ev3.e = "item_done" /\ ev3.index = s.index /\ ev3.item = item
    BY <2>2, <2>3 DEF REvent
  <2> HIDE DEF ev1, ev2, ev3
  <2>5. /\ t = [s EXCEPT !.out = Append(@, ev1)] /\ t.out = Append(s.out, ev1)
        /\ RChain(t.out) /\ RLast(t.out) = ev1
    <3>1. R!Follows(RLast(s.out), ev1)
      BY <2>2, <2>4 DEF R!Follows
    <3> QED BY <2>1, <2>4, <3>1, RExtend DEF R!Emit, RState
  <2>6. /\ p = [s EXCEPT !.out = p.out]
        /\ RChain(p.out)
        /\ RLast(p.out) = IF s.kind = "function_call" THEN ev1 ELSE ev2
    <3>1. CASE s.kind = "function_call"
      BY <2>1, <2>5, <3>1 DEF RState
    <3>2. CASE s.kind # "function_call"
      <4>1. R!Follows(ev1, ev2)
        BY <2>4 DEF R!Follows
      <4>2. RChain(Append(t.out, ev2)) /\ RLast(Append(t.out, ev2)) = ev2
        BY <2>4, <2>5, <4>1, RExtend
      <4>3. p = [t EXCEPT !.out = Append(@, ev2)]
        BY <3>2 DEF R!Emit
      <4> HIDE DEF p, t
      <4>4. p = [s EXCEPT !.out = Append(t.out, ev2)]
        BY <2>1, <2>5, <4>3 DEF RState
      <4>5. p.out = Append(t.out, ev2)
        BY <2>1, <4>4 DEF RState
      <4> QED BY <3>2, <4>2, <4>4, <4>5
    <3> QED BY <3>1, <3>2
  <2> HIDE DEF p
  <2>7. /\ d = [s EXCEPT !.out = d.out] /\ RChain(d.out) /\ RLast(d.out) = ev3
    <3>1. R!Follows(RLast(p.out), ev3)
      BY <2>3, <2>4, <2>6 DEF R!Follows
    <3>2. RChain(Append(p.out, ev3)) /\ RLast(Append(p.out, ev3)) = ev3
      BY <2>4, <2>6, <3>1, RExtend
    <3>3. d = [s EXCEPT !.out = Append(p.out, ev3)]
      BY <2>1, <2>6 DEF R!Emit, RState
    <3>4. d.out = Append(p.out, ev3)
      BY <2>1, <3>3 DEF RState
    <3> QED BY <3>2, <3>3, <3>4
  <2>8. R!CloseItem(s) = c
    BY <1>2 DEF R!CloseItem, p, full, item, ev1, ev2, ev3
  <2> HIDE DEF d
  <2>9. /\ c \in RState /\ c.kind = None /\ c.index = s.index + 1 /\ c.out = d.out
    <3>1. /\ d.items = s.items /\ d.index = s.index /\ d.out \in Seq(REvent)
          /\ d \in RState
      BY <2>1, <2>7 DEF RState, RChain
    <3>2. Append(d.items, item) \in Seq(RItem) /\ d.index + 1 \in Nat
      BY <2>1, <2>2, <2>3, <3>1 DEF RState
    <3>3. c = [d EXCEPT !.items = Append(d.items, item), !.index = d.index + 1, !.kind = None]
      OBVIOUS
    <3>4. c \in RState
      BY <3>1, <3>2 DEF RState
    <3>5. c.kind = None /\ c.index = d.index + 1 /\ c.out = d.out
      BY <3>1 DEF RState
    <3> QED BY <3>1, <3>4, <3>5
  <2> HIDE DEF c
  <2>10. RFit(c)
    BY <2>4, <2>7, <2>9 DEF RFit
  <2> QED BY <2>7, <2>8, <2>9, <2>10 DEF RReading
<1> QED BY <1>1, <1>2
\* The first event of an item, from a state without an open one.
LEMMA RBeginItem ==
  ASSUME NEW s \in RReading, s.kind = None, NEW kind \in R!Kinds
  PROVE  LET t == R!BeginItem(s, kind)
         IN /\ t \in RState /\ t.kind = kind /\ RChain(t.out)
            /\ RLast(t.out).e = "item_added" /\ RLast(t.out).index = t.index
            /\ RLast(t.out).kind = kind
<1> DEFINE ev == [e |-> "item_added", index |-> s.index, kind |-> kind]
           t == [s EXCEPT !.kind = kind, !.buf[kind] = <<>>, !.out = Append(@, ev)]
<1>1. s \in RState /\ RChain(s.out) /\ RFit(s)
  BY DEF RReading
<1>2. /\ ev \in REvent /\ ev.e = "item_added" /\ ev.index = s.index /\ ev.kind = kind
  BY <1>1 DEF REvent, RState
<1>3. R!BeginItem(s, kind) = t
  BY <1>1 DEF R!BeginItem, R!Emit, RState
<1> HIDE DEF ev
<1>4. R!Follows(RLast(s.out), ev)
  BY <1>1, <1>2 DEF R!Follows, RFit
<1>5. RChain(Append(s.out, ev)) /\ RLast(Append(s.out, ev)) = ev
  BY <1>1, <1>2, <1>4, RExtend
<1>6. /\ t \in RState /\ t.kind = kind /\ t.index = s.index /\ t.out = Append(s.out, ev)
  <2>1. Append(s.out, ev) \in Seq(REvent)
    BY <1>5 DEF RChain
  <2>2. [s.buf EXCEPT ![kind] = <<>>] \in [R!Kinds -> Seq(Nat)]
    BY <1>1 DEF RState
  <2>3. t = [s EXCEPT !.kind = kind, !.buf = [s.buf EXCEPT ![kind] = <<>>],
                      !.out = Append(s.out, ev)]
    BY <1>1 DEF RState
  <2> HIDE DEF t
  <2> QED BY <1>1, <2>1, <2>2, <2>3 DEF RState
<1> HIDE DEF t
<1> QED BY <1>2, <1>3, <1>5, <1>6

LEMMA ROpenText ==
  ASSUME NEW s \in RReading, NEW kind \in R!Kinds, kind # "function_call"
  PROVE  R!OpenText(s, kind) \in RReading /\ R!OpenText(s, kind).kind = kind
<1>1. CASE s.kind = kind
  BY <1>1 DEF R!OpenText
<1>2. CASE s.kind # kind
  <2> DEFINE b == R!BeginItem(R!CloseItem(s), kind)
             ev == [e |-> "part_added", index |-> b.index]
             t == [b EXCEPT !.out = Append(@, ev)]
  <2>1. /\ b \in RState /\ b.kind = kind /\ RChain(b.out)
        /\ RLast(b.out).e = "item_added" /\ RLast(b.out).index = b.index
        /\ RLast(b.out).kind = kind
    BY RCloseItem, RBeginItem
  <2>2. R!OpenText(s, kind) = t
    BY <1>2 DEF R!OpenText, R!Emit
  <2> HIDE DEF b
  <2>3. ev \in REvent /\ ev.e = "part_added" /\ ev.index = b.index
    BY <2>1 DEF REvent, RState
  <2> HIDE DEF ev
  <2>4. R!Follows(RLast(b.out), ev)
    BY <1>2, <2>1, <2>3 DEF R!Follows
  <2>5. RChain(Append(b.out, ev)) /\ RLast(Append(b.out, ev)) = ev
    BY <2>1, <2>3, <2>4, RExtend
  <2>6. /\ t \in RState /\ t.kind = kind /\ t.index = b.index /\ t.out = Append(b.out, ev)
    <3>1. Append(b.out, ev) \in Seq(REvent)
      BY <2>5 DEF RChain
    <3> QED BY <2>1, <3>1 DEF RState
  <2> HIDE DEF t
  <2>7. RFit(t)
    <3>1. kind # None
      BY NoneAssumption DEF R!Kinds
    <3> QED BY <2>3, <2>5, <2>6, <3>1 DEF RFit
  <2> QED BY <2>2, <2>5, <2>6, <2>7 DEF RReading
<1> QED BY <1>1, <1>2

LEMMA ROpenFunctionCall ==
  ASSUME NEW s \in RReading, NEW id \in Ids \cup {None}, NEW nm \in Ids \cup {None}
  PROVE  /\ R!OpenFunctionCall(s, id, nm) \in RReading
         /\ R!OpenFunctionCall(s, id, nm).kind = "function_call"
<1> DEFINE c == [R!CloseItem(s) EXCEPT !.call = id, !.name = nm]
           t == R!BeginItem(c, "function_call")
<1>1. R!CloseItem(s) \in RReading /\ R!CloseItem(s).kind = None
  BY RCloseItem
<1>2. c \in RReading /\ c.kind = None
  BY <1>1 DEF RReading, RState, RFit
<1>3. "function_call" \in R!Kinds /\ "function_call" # None
  BY NoneAssumption DEF R!Kinds
<1> HIDE DEF c
<1>4. /\ t \in RState /\ t.kind = "function_call" /\ RChain(t.out)
      /\ RLast(t.out).e = "item_added" /\ RLast(t.out).index = t.index
      /\ RLast(t.out).kind = "function_call"
  BY <1>2, <1>3, RBeginItem
<1>5. R!OpenFunctionCall(s, id, nm) = t
  BY DEF R!OpenFunctionCall, c
<1> HIDE DEF t
<1> QED BY <1>3, <1>4, <1>5 DEF RReading, RFit

LEMMA RDelta ==
  ASSUME NEW s \in RReading, s.kind # None, NEW part \in Nat
  PROVE  R!Delta(s, part) \in RReading
<1> DEFINE ev == [e |-> "delta", index |-> s.index, kind |-> s.kind, part |-> part]
           t == [s EXCEPT !.buf[s.kind] = Append(@, part), !.out = Append(@, ev)]
<1>1. s \in RState /\ RChain(s.out) /\ RFit(s)
  BY DEF RReading
<1>2. s.kind \in R!Kinds /\ s.index \in Nat
  BY <1>1 DEF RState
<1>3. /\ ev \in REvent /\ ev.e = "delta" /\ ev.index = s.index
  BY <1>2 DEF REvent
<1>4. R!Delta(s, part) = t
  BY <1>1 DEF R!Delta, R!Emit, RState
<1> HIDE DEF ev
<1>5. R!Follows(RLast(s.out), ev)
  BY <1>1, <1>3 DEF R!Follows, RFit
<1>6. RChain(Append(s.out, ev)) /\ RLast(Append(s.out, ev)) = ev
  BY <1>1, <1>3, <1>5, RExtend
<1>7. /\ t \in RState /\ t.kind = s.kind /\ t.index = s.index /\ t.out = Append(s.out, ev)
  <2>1. Append(s.out, ev) \in Seq(REvent)
    BY <1>6 DEF RChain
  <2>2. [s.buf EXCEPT ![s.kind] = Append(@, part)] \in [R!Kinds -> Seq(Nat)]
    <3>1. s.buf \in [R!Kinds -> Seq(Nat)]
      BY <1>1 DEF RState
    <3>2. Append(s.buf[s.kind], part) \in Seq(Nat)
      BY <1>2, <3>1
    <3> QED BY <3>1, <3>2
  <2>3. t = [s EXCEPT !.buf = [s.buf EXCEPT ![s.kind] = Append(@, part)],
                      !.out = Append(s.out, ev)]
    BY <1>1 DEF RState
  <2> HIDE DEF t
  <2> QED BY <1>1, <2>1, <2>2, <2>3 DEF RState
<1> HIDE DEF t
<1>8. RFit(t)
  BY <1>3, <1>6, <1>7 DEF RFit
<1> QED BY <1>4, <1>6, <1>7, <1>8 DEF RReading

LEMMA RToolCall ==
  ASSUME NEW s \in RReading, NEW tc \in Tool, NEW part \in Nat
  PROVE  R!ToolCall(s, tc, part) \in RReading
<1> DEFINE begun == IF tc.id # None \/ tc.name # None
                      THEN R!OpenFunctionCall(s, R!Or(tc.id, s.call), R!Or(tc.name, s.name))
                      ELSE s
           ready == IF begun.kind = "function_call" THEN begun
                    ELSE R!OpenFunctionCall(begun, begun.call, begun.name)
<1>1. R!Or(tc.id, s.call) \in Ids \cup {None} /\ R!Or(tc.name, s.name) \in Ids \cup {None}
  BY DEF Tool, RReading, RState, R!Or
<1>2. begun \in RReading
  BY <1>1, ROpenFunctionCall
<1>3. R!ToolCall(s, tc, part) = IF tc.args THEN R!Delta(ready, part) ELSE begun
  BY DEF R!ToolCall
<1> HIDE DEF begun
<1>4. begun.call \in Ids \cup {None} /\ begun.name \in Ids \cup {None}
  BY <1>2 DEF RReading, RState
<1>5. ready \in RReading /\ ready.kind = "function_call"
  BY <1>2, <1>4, ROpenFunctionCall
<1>6. "function_call" # None
  BY NoneAssumption
<1> HIDE DEF ready
<1> QED BY <1>2, <1>3, <1>5, <1>6, RDelta

LEMMA RHandleChunk ==
  ASSUME NEW s \in RReading, NEW c \in Chunks, NEW part \in Nat
  PROVE  R!HandleChunk(s, c, part) \in RReading
<1>1. /\ c.choice \in BOOLEAN /\ c.think \in BOOLEAN /\ c.text \in BOOLEAN
      /\ c.tools \in Seq(Tool) /\ c.stop \in BOOLEAN /\ c.usage \in BOOLEAN
  BY ChunksAssumption
<1>2. \A x \in RReading, p \in Parts :
         /\ [x EXCEPT !.usage = p] \in RReading
         /\ [x EXCEPT !.stop = p] \in RReading
  BY DEF RReading, RState, RFit
<1>3. part \in Parts
  BY DEF Parts
<1>4. \A x \in RReading : R!UsageOf(x, c, part) \in RReading
  BY <1>2, <1>3 DEF R!UsageOf
<1>5. CASE ~c.choice
  BY <1>4, <1>5 DEF R!HandleChunk
<1>6. CASE c.choice
  <2> DEFINE s1 == IF c.think THEN R!Delta(R!OpenText(s, "reasoning"), part) ELSE s
             s2 == IF c.text THEN R!Delta(R!OpenText(s1, "message"), part) ELSE s1
             s3 == R!ToolCalls(s2, c.tools, part)
  <2>1. /\ "reasoning" \in R!Kinds /\ "reasoning" # None
        /\ "message" \in R!Kinds /\ "message" # None
    BY NoneAssumption DEF R!Kinds
  <2>2. s1 \in RReading
    BY <2>1, ROpenText, RDelta
  <2>3. s2 \in RReading
    <3> HIDE DEF s1
    <3> QED BY <2>1, <2>2, ROpenText, RDelta
  <2>4. s3 \in RReading
    <3>1. RClosed(RReading, part)
      BY RToolCall DEF RClosed
    <3> HIDE DEF s2
    <3>2. PICK g : RCalls(g, RReading, s2, c.tools, part)
      BY <1>1, <2>3, <3>1, RToolCalls
    <3> QED BY <1>1, <3>2 DEF RCalls
  <2>5. R!HandleChunk(s, c, part) =
          IF c.stop THEN R!UsageOf([s3 EXCEPT !.stop = part], c, part) ELSE s3
    BY <1>6 DEF R!HandleChunk
  <2> HIDE DEF s3
  <2> QED BY <1>2, <1>3, <1>4, <2>4, <2>5
<1> QED BY <1>1, <1>5, <1>6

\* A response that is not being written any more.
ROver == {s \in RState : RChain(s.out) /\ RLast(s.out).e \in {"completed", "failed"}}

LEMMA REnds ==
  ASSUME NEW s \in RReading, NEW ev \in REvent, ev.e \in {"completed", "failed"},
         ev.e = "completed" => s.kind = None
  PROVE  R!Emit(s, ev) \in ROver
<1>1. s \in RState /\ RChain(s.out) /\ RFit(s)
  BY DEF RReading
<1>2. R!Follows(RLast(s.out), ev)
  BY <1>1 DEF R!Follows, RFit
<1>3. RChain(Append(s.out, ev)) /\ RLast(Append(s.out, ev)) = ev
  BY <1>1, <1>2, RExtend
<1>4. Append(s.out, ev) \in Seq(REvent)
  BY <1>3 DEF RChain
<1>5. R!Emit(s, ev) \in RState /\ R!Emit(s, ev).out = Append(s.out, ev)
  <2> HIDE DEF REvent
  <2> QED BY <1>1, <1>4 DEF RState, R!Emit
<1> QED BY <1>3, <1>5 DEF ROver

LEMMA RComplete ==
  ASSUME NEW s \in RReading
  PROVE  R!Complete(s) \in ROver
<1> DEFINE c == R!CloseItem(s)
           ev == [e |-> "completed", output |-> c.items, status |-> R!Status(c.stop),
                  usage |-> c.usage]
<1>1. c \in RReading /\ c.kind = None
  BY RCloseItem
<1>2. R!Complete(s) = R!Emit(c, ev)
  BY DEF R!Complete
<1> HIDE DEF c
<1>3. ev \in REvent /\ ev.e = "completed"
  BY <1>1 DEF REvent, RReading, RState, R!Status
<1> HIDE DEF ev
<1> QED BY <1>1, <1>2, <1>3, REnds

LEMMA RFail ==
  ASSUME NEW s \in RReading
  PROVE  R!Fail(s) \in ROver
<1> DEFINE ev == [e |-> "failed"]
<1>1. ev \in REvent /\ ev.e = "failed"
  BY DEF REvent
<1>2. R!Fail(s) = R!Emit(s, ev)
  BY DEF R!Fail
<1> HIDE DEF ev
<1> QED BY <1>1, <1>2, REnds

----------------------------------------------------------------------------
(* The invariant.                                                          *)

Writing ==
  /\ n \in Nat
  /\ streaming \in BOOLEAN /\ ended \in BOOLEAN
  /\ ast \in IF streaming THEN AReading ELSE AOver
  /\ rst \in IF ended THEN ROver ELSE RReading

LEMMA InitWriting == Init => Writing
<1> SUFFICES ASSUME Init PROVE Writing
  OBVIOUS
<1>1. ast \in AReading
  <2>1. ast \in AState /\ ~ast.stopped /\ ast.out = <<>> /\ AFit(ast)
    BY DEF Init, A!Init, AState, Parts, AFit
  <2> QED BY <2>1 DEF AReading, AFirst, AChain
<1>2. rst \in RReading
  <2>1. rst.out = <<[e |-> "created"], [e |-> "in_progress"]>>
    BY DEF Init, R!Init
  <2>2. [e |-> "created"] \in REvent /\ [e |-> "in_progress"] \in REvent
    BY DEF REvent
  <2>3. rst.out \in Seq(REvent) /\ Len(rst.out) = 2 /\ rst.out[2].e = "in_progress"
    <3> HIDE DEF REvent
    <3> QED BY <2>1, <2>2
  <2>4. RChain(rst.out)
    BY <2>3 DEF RChain
  <2>5. rst \in RState
    <3>1. [k \in R!Kinds |-> <<>>] \in [R!Kinds -> Seq(Nat)]
      OBVIOUS
    <3> QED BY <2>3, <3>1 DEF Init, R!Init, RState, Parts
  <2>6. RFit(rst)
    BY <2>3 DEF RFit, RLast, Init, R!Init
  <2> QED BY <2>4, <2>5, <2>6 DEF RReading
<1> QED BY <1>1, <1>2 DEF Writing, Init, A!Init, R!Init

LEMMA StepWriting == Writing /\ [Next]_vars => Writing'
<1> SUFFICES ASSUME Writing, [Next]_vars PROVE Writing'
  OBVIOUS
<1> USE DEF Writing
<1>1. CASE UNCHANGED vars
  BY <1>1 DEF vars, AReading, AOver, RReading, ROver
<1>2. ASSUME NEW c \in Chunks, Chunk(c) PROVE Writing'
  <2>1. /\ n' \in Nat /\ streaming /\ ~ended
        /\ UNCHANGED <<streaming, ended>>
        /\ ast' = A!HandleChunk(ast, c, n') /\ rst' = R!HandleChunk(rst, c, n')
    <3>1. n' = n + 1 /\ A!Chunk(c, n') /\ R!Chunk(c, n')
      BY <1>2 DEF Chunk
    <3> QED BY <3>1 DEF A!Chunk, R!Chunk
  <2>2. ast' \in AReading
    <3> DEFINE part == n'
    <3>1. part \in Nat /\ ast \in AReading /\ ast' = A!HandleChunk(ast, c, part)
      BY <2>1
    <3> HIDE DEF part
    <3> QED BY <3>1, AHandleChunk
  <2>3. rst' \in RReading
    <3> DEFINE part == n'
    <3>1. part \in Nat /\ rst \in RReading /\ rst' = R!HandleChunk(rst, c, part)
      BY <2>1
    <3> HIDE DEF part
    <3> QED BY <3>1, RHandleChunk
  <2> QED BY <2>1, <2>2, <2>3
<1>3. CASE UpstreamError
  BY <1>3, AError, RFail DEF UpstreamError, A!UpstreamError, R!End, upstream
<1>4. ASSUME NEW data \in BOOLEAN, FinishEvent(data) PROVE Writing'
  BY <1>4, AFinish, RComplete DEF FinishEvent, A!FinishEvent, R!End, upstream
<1>5. ASSUME NEW broken \in BOOLEAN, BodyEnds(broken) PROVE Writing'
  <2>1. /\ n' \in Nat /\ streaming' = FALSE
        /\ ast' = IF streaming THEN A!FinishAtEnd(ast) ELSE ast
    BY <1>5 DEF BodyEnds, A!End, upstream
  <2>2. /\ ended' = TRUE
        /\ \/ ~ended /\ rst' = IF broken THEN R!Fail(rst) ELSE R!Complete(rst)
           \/ ended /\ rst' = rst
    BY <1>5 DEF BodyEnds, R!End
  <2>3. ast' \in AOver
    BY <2>1, AFinishAtEnd
  <2>4. rst' \in ROver
    BY <2>2, RComplete, RFail
  <2> QED BY <2>1, <2>2, <2>3, <2>4
<1> QED BY <1>1, <1>2, <1>3, <1>4, <1>5 DEF Next

LEMMA AlwaysWriting == Spec => []Writing
BY InitWriting, StepWriting, PTL DEF Spec

\* The events of the Anthropic protocol and of the Responses API keep to their
\* protocols, whatever upstream sends in whatever order and however it ends
\* (proxy.go, streamState; responses.go, respStreamState).
THEOREM EventsKeepProtocol == Spec => []WellFormed
<1>1. Writing => A!WellFormed
  <2> SUFFICES ASSUME Writing PROVE A!WellFormed
    OBVIOUS
  <2>1. AFirst(ast.out) /\ AChain(ast.out)
    BY DEF Writing, AReading, AOver
  <2> QED BY <2>1 DEF Writing, AOver, A!WellFormed, A!out, A!Last, AFirst, AChain
<1>2. Writing => R!WellFormed
  <2> SUFFICES ASSUME Writing PROVE R!WellFormed
    OBVIOUS
  <2>1. RChain(rst.out)
    BY DEF Writing, RReading, ROver
  <2>2. ended <=> RLast(rst.out).e \in {"completed", "failed"}
    BY DEF Writing, RReading, ROver, RFit
  <2> QED BY <2>1, <2>2 DEF R!WellFormed, R!out, R!Last, RChain, RLast
<1> QED BY <1>1, <1>2, AlwaysWriting, PTL DEF WellFormed

\* What the elements of a sequence contribute, one after the other.
Gather(C, q) == FlattenSeq([k \in DOMAIN q |-> C[q[k]]])

Contributes(C, E, X) == C \in [E -> Seq(X)]
Grows(C, X, q, ev) ==
  /\ Gather(C, q) \in Seq(X) /\ Gather(C, <<>>) = <<>>
  /\ Gather(C, Append(q, ev)) = Gather(C, q) \o C[ev]

LEMMA Gathered ==
  ASSUME NEW E, NEW X, NEW C, Contributes(C, E, X), NEW q \in Seq(E), NEW ev \in E
  PROVE  Grows(C, X, q, ev)
<1> DEFINE ss == [k \in DOMAIN q |-> C[q[k]]]
           r == Append(q, ev)
           rr == [k \in DOMAIN r |-> C[r[k]]]
<1> USE DEF Contributes
<1>1. DOMAIN q = 1 .. Len(q) /\ Len(q) \in Nat /\ \A k \in 1 .. Len(q) : q[k] \in E
  OBVIOUS
<1>2. ss \in Seq(Seq(X)) /\ Len(ss) = Len(q)
  BY <1>1
<1>3. /\ DOMAIN r = 1 .. Len(q) + 1 /\ r[Len(q) + 1] = ev
      /\ \A k \in 1 .. Len(q) : r[k] = q[k]
  OBVIOUS
<1>4. C[ev] \in Seq(X)
  OBVIOUS
<1>5. rr = Append(ss, C[ev])
  <2>1. rr = [k \in 1 .. Len(q) + 1 |-> C[r[k]]]
    BY <1>3
  <2>2. Append(ss, C[ev]) = [k \in 1 .. Len(q) + 1 |-> IF k = Len(q) + 1 THEN C[ev] ELSE ss[k]]
    <3> HIDE DEF ss
    <3> QED BY <1>2, <1>4
  <2>3. ASSUME NEW k \in 1 .. Len(q) + 1
        PROVE  C[r[k]] = IF k = Len(q) + 1 THEN C[ev] ELSE ss[k]
    <3>1. CASE k = Len(q) + 1
      BY <1>3, <3>1
    <3>2. CASE k # Len(q) + 1
      BY <1>1, <1>3, <3>2
    <3> QED BY <3>1, <3>2
  <2> HIDE DEF ss, rr, r
  <2> QED BY <2>1, <2>2, <2>3
<1>6. FlattenSeq(ss) \in Seq(X) /\ FlattenSeq(Append(ss, C[ev])) = FlattenSeq(ss) \o C[ev]
  <2> HIDE DEF ss
  <2> QED BY <1>2, <1>4, Flattened
<1>7. Gather(C, <<>>) = <<>>
  <2>1. [k \in DOMAIN <<>> |-> C[<<>>[k]]] = <<>>
    OBVIOUS
  <2> QED BY <2>1 DEF Gather, FlattenSeq
<1> QED BY <1>5, <1>6, <1>7 DEF Gather, Grows

----------------------------------------------------------------------------
(* The content of a message of the Anthropic protocol.                     *)

\* What an event adds to the deltas of a kind.
AParts(kind) ==
  [x \in AEvent |-> IF x.e = "block_delta" /\ x.kind = kind THEN <<x.part>> ELSE <<>>]

\* What a client has when the message ends now.
AContent(s) ==
  [think |-> Gather(AParts("thinking"), s.out), text |-> Gather(AParts("text"), s.out),
   stop |-> s.stop, usage |-> s.usage]

\* The content with one more delta.
AMore(k, kind, part) ==
  [think |-> IF kind = "thinking" THEN Append(k.think, part) ELSE k.think,
   text |-> IF kind = "text" THEN Append(k.text, part) ELSE k.text,
   stop |-> k.stop, usage |-> k.usage]

LEMMA AGrown ==
  ASSUME NEW q \in Seq(AEvent), NEW ev \in AEvent, NEW kind \in AKinds
  PROVE  /\ Gather(AParts(kind), q) \in Seq(Nat)
         /\ Gather(AParts(kind), Append(q, ev)) =
              IF ev.e = "block_delta" /\ ev.kind = kind
                THEN Append(Gather(AParts(kind), q), ev.part) ELSE Gather(AParts(kind), q)
<1> DEFINE C == AParts(kind)
<1>1. ASSUME NEW x \in AEvent, x.e = "block_delta" PROVE x.part \in Nat
  BY <1>1 DEF AEvent
<1>2. C \in [AEvent -> Seq(Nat)]
  <2>1. ASSUME NEW x \in AEvent PROVE C[x] \in Seq(Nat)
    BY <1>1 DEF AParts
  <2> QED BY <2>1 DEF AParts
<1>3. C[ev] = IF ev.e = "block_delta" /\ ev.kind = kind THEN <<ev.part>> ELSE <<>>
  BY DEF AParts
<1> HIDE DEF C
<1>4. /\ Gather(C, q) \in Seq(Nat)
      /\ Gather(C, Append(q, ev)) = Gather(C, q) \o C[ev]
  <2>1. Contributes(C, AEvent, Nat)
    BY <1>2 DEF Contributes
  <2>2. Grows(C, Nat, q, ev)
    BY <2>1, Gathered
  <2> QED BY <2>2 DEF Grows
<1> DEFINE G == Gather(C, q)
<1>5. G \o <<>> = G /\ (ev.e = "block_delta" => G \o <<ev.part>> = Append(G, ev.part))
  <2>1. G \in Seq(Nat)
    BY <1>4
  <2> HIDE DEF G
  <2>2. G \o <<>> = G
    BY <2>1
  <2>3. ASSUME ev.e = "block_delta" PROVE G \o <<ev.part>> = Append(G, ev.part)
    <3> DEFINE p == ev.part
    <3>1. p \in Nat
      BY <1>1, <2>3
    <3> HIDE DEF p
    <3>2. G \o <<p>> = Append(G, p)
      BY <2>1, <3>1
    <3> QED BY <3>2 DEF p
  <2> QED BY <2>2, <2>3
<1> QED BY <1>3, <1>4, <1>5 DEF C

\* Every event but a delta leaves the content alone.
LEMMA AQuiet ==
  ASSUME NEW q \in Seq(AEvent), NEW s, NEW t, s.out = q, t.stop = s.stop, t.usage = s.usage,
         \/ t.out = q
         \/ \E ev \in AEvent : ev.e # "block_delta" /\ t.out = Append(q, ev)
  PROVE  AContent(t) = AContent(s)
<1>1. "thinking" \in AKinds /\ "text" \in AKinds
  BY DEF AKinds
<1>2. CASE t.out = q
  BY <1>2 DEF AContent
<1>3. ASSUME NEW ev \in AEvent, ev.e # "block_delta", t.out = Append(q, ev)
      PROVE  AContent(t) = AContent(s)
  BY <1>1, <1>3, AGrown DEF AContent
<1> QED BY <1>2, <1>3

LEMMA AOpenContent ==
  ASSUME NEW s \in AReading
  PROVE  /\ AContent(A!MessageStart(s)) = AContent(s)
         /\ AContent(A!CloseBlock(s)) = AContent(s)
<1>1. s \in AState /\ ~s.stopped /\ s.out \in Seq(AEvent)
  BY DEF AReading, AState
<1>2. AContent(A!MessageStart(s)) = AContent(s)
  <2>1. CASE s.started
    BY <2>1 DEF A!MessageStart
  <2>2. CASE ~s.started
    <3> DEFINE ev == [e |-> "message_start"]
               t == [s EXCEPT !.started = TRUE, !.out = Append(@, ev)]
    <3>1. A!MessageStart(s) = t
      BY <1>1, <2>2 DEF A!MessageStart, A!Emit, AState
    <3>2. ev \in AEvent /\ ev.e # "block_delta"
      BY DEF AEvent
    <3>3. t.stop = s.stop /\ t.usage = s.usage /\ t.out = Append(s.out, ev)
      <4> HIDE DEF ev
      <4> QED BY <1>1 DEF AState
    <3> HIDE DEF ev, t
    <3> QED BY <1>1, <3>1, <3>2, <3>3, AQuiet
  <2> QED BY <2>1, <2>2
<1>3. AContent(A!CloseBlock(s)) = AContent(s)
  <2>1. CASE s.kind = None
    BY <2>1 DEF A!CloseBlock
  <2>2. CASE s.kind # None
    <3> DEFINE ev == [e |-> "block_stop", index |-> s.index]
               t == [s EXCEPT !.out = Append(@, ev), !.kind = None, !.index = @ + 1]
    <3>1. A!CloseBlock(s) = t
      BY <1>1, <2>2 DEF A!CloseBlock, A!Emit, AState
    <3>2. ev \in AEvent /\ ev.e # "block_delta"
      BY <1>1 DEF AEvent, AState
    <3>3. t.stop = s.stop /\ t.usage = s.usage /\ t.out = Append(s.out, ev)
      <4> HIDE DEF ev
      <4> QED BY <1>1 DEF AState
    <3> HIDE DEF ev, t
    <3> QED BY <1>1, <3>1, <3>2, <3>3, AQuiet
  <2> QED BY <2>1, <2>2
<1> QED BY <1>2, <1>3

LEMMA AStartContent ==
  ASSUME NEW s \in AReading, NEW kind \in AKinds
  PROVE  AContent(A!StartBlock(s, kind)) = AContent(s)
<1> DEFINE c == A!CloseBlock(A!MessageStart(s))
           ev == [e |-> "block_start", index |-> c.index, kind |-> kind,
                  id |-> IF kind = "tool_use" THEN s.toolID ELSE None,
                  name |-> IF kind = "tool_use" THEN s.toolName ELSE None]
           t == [c EXCEPT !.kind = kind, !.out = Append(@, ev)]
<1>1. c \in AReading /\ AContent(c) = AContent(s)
  BY AMessageStart, ACloseBlock, AOpenContent
<1> HIDE DEF c
<1>2. c \in AState /\ ~c.stopped /\ c.out \in Seq(AEvent)
  BY <1>1 DEF AReading, AState
<1>3. A!StartBlock(s, kind) = t
  BY <1>2 DEF A!StartBlock, A!Emit, AState, c
<1>4. ev \in AEvent /\ ev.e # "block_delta"
  <2>1. s.toolID \in Ids \cup {None} /\ s.toolName \in Ids \cup {None} /\ c.index \in Nat
    BY <1>2 DEF AReading, AState
  <2> QED BY <2>1 DEF AEvent
<1>5. t.stop = c.stop /\ t.usage = c.usage /\ t.out = Append(c.out, ev)
  <2> HIDE DEF ev
  <2> QED BY <1>2 DEF AState
<1> HIDE DEF ev, t
<1> QED BY <1>1, <1>2, <1>3, <1>4, <1>5, AQuiet

LEMMA ADeltaContent ==
  ASSUME NEW s \in AReading, NEW kind \in AKinds, NEW part \in Nat
  PROVE  LET d == A!Delta(A!OpenBlock(s, kind), part)
         IN /\ d \in AReading
            /\ AContent(d) = AMore(AContent(s), kind, part)
<1> DEFINE o == A!OpenBlock(s, kind)
           ev == [e |-> "block_delta", index |-> o.index, kind |-> kind, part |-> part]
           t == [o EXCEPT !.out = Append(@, ev)]
<1>1. o \in AReading /\ o.kind = kind /\ kind # None
  BY AOpenBlock, NoneAssumption DEF AKinds
<1>2. AContent(o) = AContent(s)
  BY AMessageStart, AOpenContent, AStartContent DEF A!OpenBlock
<1> HIDE DEF o
<1>3. o \in AState /\ ~o.stopped /\ o.out \in Seq(AEvent) /\ o.index \in Nat
  BY <1>1 DEF AReading, AState
<1>4. A!Delta(o, part) = t /\ A!Delta(o, part) \in AReading
  <2>1. A!Delta(o, part) = t
    BY <1>1, <1>3 DEF A!Delta, A!Emit, AState
  <2> QED BY <1>1, <2>1, ADelta
<1>5. ev \in AEvent /\ ev.e = "block_delta" /\ ev.kind = kind /\ ev.part = part
  BY <1>3 DEF AEvent
<1>6. t.stop = o.stop /\ t.usage = o.usage /\ t.out = Append(o.out, ev)
  <2> HIDE DEF ev
  <2> QED BY <1>3 DEF AState
<1> HIDE DEF ev, t
<1>7. "thinking" \in AKinds /\ "text" \in AKinds
  BY DEF AKinds
<1>8. ASSUME NEW k \in AKinds
      PROVE  Gather(AParts(k), t.out) =
               IF k = kind THEN Append(Gather(AParts(k), o.out), part) ELSE Gather(AParts(k), o.out)
  <2>1. Gather(AParts(k), Append(o.out, ev)) =
          IF ev.e = "block_delta" /\ ev.kind = k
            THEN Append(Gather(AParts(k), o.out), ev.part) ELSE Gather(AParts(k), o.out)
    BY <1>3, <1>5, AGrown
  <2> QED BY <1>5, <1>6, <2>1
<1>9. AContent(t) = AMore(AContent(o), kind, part)
  BY <1>6, <1>7, <1>8 DEF AContent, AMore
<1> QED BY <1>2, <1>4, <1>9 DEF o

LEMMA AToolContent ==
  ASSUME NEW s \in AReading, NEW tc \in Tool, NEW part \in Nat
  PROVE  AContent(A!ToolCall(s, tc, part)) = AContent(s)
<1> DEFINE noted == [s EXCEPT !.toolID = IF tc.id # None THEN tc.id ELSE @,
                              !.toolName = IF tc.name # None THEN tc.name ELSE @]
           begun == IF A!Begins(s, tc) THEN A!NewToolBlock(noted) ELSE s
           d == A!Delta(A!OpenBlock(begun, "tool_use"), part)
<1>1. noted \in AReading /\ AContent(noted) = AContent(s)
  <2>1. noted \in AReading
    BY DEF AReading, AState, AFit, Tool
  <2>2. noted.out = s.out /\ noted.stop = s.stop /\ noted.usage = s.usage
    BY DEF AReading, AState
  <2> HIDE DEF noted
  <2> QED BY <2>1, <2>2 DEF AContent
<1>2. "tool_use" \in AKinds
  BY DEF AKinds
<1>3. begun \in AReading /\ AContent(begun) = AContent(s)
  <2> HIDE DEF noted
  <2> QED BY <1>1, <1>2, AStartBlock, AStartContent DEF A!NewToolBlock
<1>4. A!ToolCall(s, tc, part) = IF tc.args THEN d ELSE begun
  BY DEF A!ToolCall
<1> HIDE DEF begun
<1>5. AContent(d) = AMore(AContent(begun), "tool_use", part)
  BY <1>2, <1>3, ADeltaContent
<1>6. AContent(d) = AContent(begun)
  BY <1>5 DEF AContent, AMore
<1> QED BY <1>3, <1>4, <1>6

\* The same for the body.
AKept(ST, part) == \A x \in ST, t \in Tool : A!CollectTool(x, t, part) \in ST
AGathering(g, ST, s, seq, part) ==
  /\ g \in [0 .. Len(seq) -> ST]
  /\ g[0] = s /\ g[Len(seq)] = A!CollectTools(s, seq, part)
  /\ \A i \in 1 .. Len(seq) : g[i] = A!CollectTool(g[i-1], seq[i], part)

LEMMA AGathers ==
  ASSUME NEW ST, NEW s \in ST, NEW seq \in Seq(Tool), NEW part, AKept(ST, part)
  PROVE  \E g : AGathering(g, ST, s, seq, part)
<1> DEFINE m == Len(seq)
           F == [p \in ST \X Tool |-> A!CollectTool(p[1], p[2], part)]
           Eq(f) == f = [u \in SUBSET (1 .. m) |->
                           IF u = {} THEN s ELSE A!CollectTool(f[u \ {Max(u)}], seq[Max(u)], part)]
           iter == CHOOSE f : Eq(f)
<1>1. A!CollectTools(s, seq, part) = iter[1 .. m]
  <2>1. DOMAIN seq = 1 .. m
    OBVIOUS
  <2>2. \A u : A!Max(u) = Max(u)
    BY DEF A!Max, Max
  <2>3. A!CollectTools(s, seq, part) =
          (CHOOSE f : f = [u \in SUBSET DOMAIN seq |->
                             IF u = {} THEN s
                             ELSE A!CollectTool(f[u \ {A!Max(u)}], seq[A!Max(u)], part)])[DOMAIN seq]
    BY DEF A!CollectTools, A!FoldLeft, A!MapThenFoldSet
  <2> QED BY <2>1, <2>2, <2>3
<1>2. F \in [ST \X Tool -> ST]
  BY DEF AKept
<1>3. \A u \in SUBSET (1 .. m) :
         u # {} => seq[Max(u)] \in Tool /\ u \ {Max(u)} \in SUBSET (1 .. m)
  BY Greatest
<1>4. \E f : Eq(f)
  <2>1. PICK f \in [SUBSET (1 .. m) -> ST] :
          \A u \in SUBSET (1 .. m) : Folded(f, F, s, seq, u)
    BY <1>2, FoldExists
  <2>2. ASSUME NEW u \in SUBSET (1 .. m)
        PROVE  f[u] = IF u = {} THEN s ELSE A!CollectTool(f[u \ {Max(u)}], seq[Max(u)], part)
    <3>1. u # {} => f[u \ {Max(u)}] \in ST
      BY <1>3
    <3> QED BY <1>3, <2>1, <3>1 DEF Folded
  <2> QED BY <2>1, <2>2
<1>5. Eq(iter)
  BY <1>4
<1> HIDE DEF iter
<1>6. Solution(iter, ST, F, s, seq)
  <2>1. iter[{}] = s
    BY <1>5
  <2>2. ASSUME NEW u \in SUBSET (1 .. m), u # {}, iter[u \ {Max(u)}] \in ST
        PROVE  Folded(iter, F, s, seq, u)
    <3>1. iter[u] = A!CollectTool(iter[u \ {Max(u)}], seq[Max(u)], part)
      BY <1>5, <2>2
    <3> QED BY <1>3, <2>2, <3>1 DEF Folded
  <2> QED BY <2>1, <2>2 DEF Solution
<1>7. PICK g : Trace(g, ST, F, s, seq, iter)
  <2> HIDE DEF F
  <2> QED BY <1>2, <1>6, FoldSteps
<1>8. g \in [0 .. m -> ST] /\ g[0] = s /\ g[m] = iter[1 .. m]
  BY <1>7 DEF Trace
<1>9. ASSUME NEW i \in 1 .. m PROVE g[i] = A!CollectTool(g[i-1], seq[i], part)
  <2>1. g[i - 1] \in ST /\ seq[i] \in Tool
    BY <1>8
  <2>2. g[i] = F[<<g[i - 1], seq[i]>>]
    BY <1>7 DEF Trace
  <2> QED BY <2>1, <2>2
<1> QED BY <1>1, <1>8, <1>9 DEF AGathering

Call == [id : Ids \cup {None}, name : Ids \cup {None}, args : Seq(Nat)]
AAcc == [think : Seq(Nat), text : Seq(Nat), tools : Seq(Call),
         stop : Parts, usage : Parts, failed : BOOLEAN]

\* What a client reads in the body.
ACollected(a) == [think |-> a.think, text |-> a.text, stop |-> a.stop, usage |-> a.usage]

\* One more fragment of the last call.
LEMMA LastCall ==
  ASSUME NEW cs \in Seq(Call), cs # <<>>, NEW part \in Nat
  PROVE  [cs EXCEPT ![Len(cs)].args = Append(@, part)] \in Seq(Call)
<1> DEFINE m == Len(cs)
           call == [cs[m] EXCEPT !.args = Append(@, part)]
<1>1. m \in 1 .. m /\ DOMAIN cs = 1 .. m /\ m \in Nat
  OBVIOUS
<1>2. cs[m] \in Call
  BY <1>1
<1>3. call \in Call
  <2>1. Append(cs[m].args, part) \in Seq(Nat)
    BY <1>2 DEF Call
  <2> QED BY <1>2, <2>1 DEF Call
<1>4. [cs EXCEPT ![m].args = Append(@, part)] = [cs EXCEPT ![m] = call]
  BY <1>1
<1> HIDE DEF call
<1> QED BY <1>1, <1>3, <1>4

LEMMA ACollectTool ==
  ASSUME NEW a \in AAcc, NEW tc \in Tool, NEW part \in Nat
  PROVE  A!CollectTool(a, tc, part) \in AAcc
         /\ ACollected(A!CollectTool(a, tc, part)) = ACollected(a)
<1> DEFINE call == [id |-> tc.id, name |-> tc.name, args |-> <<>>]
           b == IF tc.id # None \/ tc.name # None
                  THEN [a EXCEPT !.tools = Append(@, call)] ELSE a
           longer == [b.tools EXCEPT ![Len(b.tools)].args = Append(@, part)]
<1>1. call \in Call
  BY DEF Call, Tool
<1>2. b \in AAcc /\ ACollected(b) = ACollected(a)
  <2> HIDE DEF call
  <2>1. Append(a.tools, call) \in Seq(Call)
    BY <1>1 DEF AAcc
  <2> QED BY <2>1 DEF AAcc, ACollected
<1>3. A!CollectTool(a, tc, part) =
        IF tc.args /\ b.tools # <<>> THEN [b EXCEPT !.tools = longer] ELSE b
  BY DEF A!CollectTool
<1> HIDE DEF b
<1>4. b.tools # <<>> => longer \in Seq(Call)
  BY <1>2, LastCall DEF AAcc
<1> HIDE DEF longer
<1> QED BY <1>2, <1>3, <1>4 DEF AAcc, ACollected

\* Both ways of answering read the same in a chunk.
LEMMA ASameChunk ==
  ASSUME NEW s \in AReading, NEW a \in AAcc, AContent(s) = ACollected(a),
         NEW c \in Chunks, NEW part \in Nat
  PROVE  /\ A!Collect(a, c, part) \in AAcc
         /\ AContent(A!HandleChunk(s, c, part)) = ACollected(A!Collect(a, c, part))
<1>1. /\ c.choice \in BOOLEAN /\ c.think \in BOOLEAN /\ c.text \in BOOLEAN
      /\ c.tools \in Seq(Tool) /\ c.stop \in BOOLEAN /\ c.usage \in BOOLEAN
  BY ChunksAssumption
<1>2. part \in Parts
  BY DEF Parts
<1>3. CASE ~c.choice
  <2> DEFINE t == [s EXCEPT !.usage = IF c.usage THEN part ELSE @]
             b == [a EXCEPT !.usage = IF c.usage THEN part ELSE @]
  <2>1. A!HandleChunk(s, c, part) = t /\ A!Collect(a, c, part) = b
    BY <1>3 DEF A!HandleChunk, A!Collect
  <2>2. b \in AAcc
    BY <1>2 DEF AAcc
  <2>3. /\ t.out = s.out /\ t.stop = s.stop /\ t.usage = IF c.usage THEN part ELSE s.usage
        /\ b.think = a.think /\ b.text = a.text /\ b.stop = a.stop
        /\ b.usage = IF c.usage THEN part ELSE a.usage
    BY DEF AReading, AState, AAcc
  <2> HIDE DEF t, b
  <2>4. AContent(t) = ACollected(b)
    BY <2>3 DEF AContent, ACollected
  <2> QED BY <2>1, <2>2, <2>4
<1>4. CASE c.choice
  <2> DEFINE s1 == IF c.think THEN A!Delta(A!OpenBlock(s, "thinking"), part) ELSE s
             s2 == IF c.text THEN A!Delta(A!OpenBlock(s1, "text"), part) ELSE s1
             s3 == A!ToolCalls(s2, c.tools, part)
             s4 == A!Stop(s3, c, part)
             a1 == IF c.think THEN [a EXCEPT !.think = Append(@, part)] ELSE a
             a2 == IF c.text THEN [a1 EXCEPT !.text = Append(@, part)] ELSE a1
             a3 == A!CollectTools(a2, c.tools, part)
             a4 == A!Stop(a3, c, part)
  <2>1. "thinking" \in AKinds /\ "text" \in AKinds /\ "tool_use" \in AKinds
    BY DEF AKinds
  <2>2. s1 \in AReading /\ a1 \in AAcc /\ AContent(s1) = ACollected(a1)
    <3>1. CASE c.think
      <4>1. s1 \in AReading /\ AContent(s1) = AMore(AContent(s), "thinking", part)
        BY <2>1, <3>1, ADeltaContent
      <4>2. a1 = [a EXCEPT !.think = Append(@, part)]
        BY <3>1
      <4>3. a1 \in AAcc
        <5>1. Append(a.think, part) \in Seq(Nat)
          BY DEF AAcc
        <5> QED BY <4>2, <5>1 DEF AAcc
      <4>4. ACollected(a1) = AMore(ACollected(a), "thinking", part)
        BY <4>2 DEF AAcc, ACollected, AMore
      <4> QED BY <4>1, <4>3, <4>4
    <3>2. CASE ~c.think
      BY <3>2
    <3> QED BY <1>1, <3>1, <3>2
  <2> HIDE DEF s1, a1
  <2>3. s2 \in AReading /\ a2 \in AAcc /\ AContent(s2) = ACollected(a2)
    <3>1. CASE c.text
      <4>1. s2 \in AReading /\ AContent(s2) = AMore(AContent(s1), "text", part)
        BY <2>1, <2>2, <3>1, ADeltaContent
      <4>2. a2 = [a1 EXCEPT !.text = Append(@, part)]
        BY <3>1
      <4>3. a2 \in AAcc
        <5>1. Append(a1.text, part) \in Seq(Nat)
          BY <2>2 DEF AAcc
        <5> QED BY <2>2, <4>2, <5>1 DEF AAcc
      <4>4. ACollected(a2) = AMore(ACollected(a1), "text", part)
        BY <2>2, <4>2 DEF AAcc, ACollected, AMore
      <4> QED BY <2>2, <4>1, <4>3, <4>4
    <3>2. CASE ~c.text
      BY <2>2, <3>2
    <3> QED BY <1>1, <3>1, <3>2
  <2> HIDE DEF s2, a2
  <2>4. s3 \in AReading /\ AContent(s3) = AContent(s2)
    <3> DEFINE ST == {x \in AReading : AContent(x) = AContent(s2)}
    <3>1. AClosed(ST, part)
      BY AToolCall, AToolContent DEF AClosed
    <3>2. s2 \in ST
      BY <2>3
    <3> HIDE DEF ST
    <3>3. PICK g : ACalls(g, ST, s2, c.tools, part)
      BY <1>1, <3>1, <3>2, AToolCalls
    <3>4. s3 \in ST
      BY <1>1, <3>3 DEF ACalls
    <3> QED BY <3>4 DEF ST
  <2>5. a3 \in AAcc /\ ACollected(a3) = ACollected(a2)
    <3> DEFINE ST == {x \in AAcc : ACollected(x) = ACollected(a2)}
    <3>1. AKept(ST, part)
      BY ACollectTool DEF AKept
    <3>2. a2 \in ST
      BY <2>3
    <3> HIDE DEF ST
    <3>3. PICK g : AGathering(g, ST, a2, c.tools, part)
      BY <1>1, <3>1, <3>2, AGathers
    <3>4. a3 \in ST
      BY <1>1, <3>3 DEF AGathering
    <3> QED BY <3>4 DEF ST
  <2> HIDE DEF s3, a3
  <2>6. s4 \in AReading /\ a4 \in AAcc /\ AContent(s4) = ACollected(a4)
    <3>1. CASE ~c.stop
      BY <2>3, <2>4, <2>5, <3>1 DEF A!Stop
    <3>2. CASE c.stop
      <4>1. /\ s4 = [s3 EXCEPT !.stop = part, !.usage = IF c.usage THEN part ELSE @]
            /\ a4 = [a3 EXCEPT !.stop = part, !.usage = IF c.usage THEN part ELSE @]
        BY <3>2 DEF A!Stop
      <4>2. s4 \in AReading
        BY <1>2, <2>4, <4>1 DEF AReading, AState, AFit
      <4>3. a4 \in AAcc
        BY <1>2, <2>5, <4>1 DEF AAcc
      <4>4. /\ s4.out = s3.out /\ s4.stop = part
            /\ s4.usage = IF c.usage THEN part ELSE s3.usage
        BY <2>4, <4>1 DEF AReading, AState
      <4>5. /\ a4.think = a3.think /\ a4.text = a3.text /\ a4.stop = part
            /\ a4.usage = IF c.usage THEN part ELSE a3.usage
        BY <2>5, <4>1 DEF AAcc
      <4> HIDE DEF s4, a4
      <4>6. AContent(s3) = ACollected(a3)
        BY <2>3, <2>4, <2>5
      <4>7. AContent(s4) = ACollected(a4)
        BY <4>4, <4>5, <4>6 DEF AContent, ACollected
      <4> QED BY <4>2, <4>3, <4>7
    <3> QED BY <1>1, <3>1, <3>2
  <2>7. A!HandleChunk(s, c, part) = A!EndChoice(s4, c) /\ A!Collect(a, c, part) = a4
    BY <1>4 DEF A!HandleChunk, A!Collect, s1, s2, s3, a1, a2, a3
  <2> HIDE DEF s4, a4
  <2>8. AContent(A!EndChoice(s4, c)) = AContent(s4)
    BY <2>6, AOpenContent DEF A!EndChoice
  <2> QED BY <2>6, <2>7, <2>8
<1> QED BY <1>1, <1>3, <1>4

\* A message_delta tells the stop reason and the usage there are in the end.
AEnding(s) ==
  \A i \in DOMAIN s.out :
    s.out[i].e = "message_delta" => s.out[i].stop = s.stop /\ s.out[i].usage = s.usage

\* Nothing but the end of a message can follow one.
LEMMA AUnended ==
  ASSUME NEW s \in AReading
  PROVE  \A i \in DOMAIN s.out : s.out[i].e # "message_delta"
<1> SUFFICES ASSUME NEW i \in DOMAIN s.out, s.out[i].e = "message_delta" PROVE FALSE
  OBVIOUS
<1> DEFINE q == s.out
           m == Len(q)
<1>1. q \in Seq(AEvent) /\ AChain(q) /\ AFit(s)
  BY DEF AReading, AState
<1>2. m \in Nat /\ i \in 1 .. m /\ q # <<>>
  BY <1>1
<1>3. q[m].e \notin {"message_delta", "message_stop"}
  BY <1>1, <1>2 DEF AFit
<1>4. \A j \in 2 .. m : A!Follows(q[j-1], q[j])
  BY <1>1 DEF AChain
<1> HIDE DEF q, m
<1>5. q[i].e = "message_delta"
  BY DEF q
<1>6. i # m
  BY <1>3, <1>5
<1> DEFINE j == i + 1
<1>7. j \in 2 .. m /\ j - 1 = i
  BY <1>2, <1>6
<1> HIDE DEF j
<1>8. A!Follows(q[i], q[j])
  BY <1>4, <1>7
<1>9. q[j].e = "message_stop"
  <2>1. q[j] \in AEvent
    BY <1>1, <1>7 DEF m
  <2>2. q[j].e \in {"message_start", "message_stop", "error", "block_start", "block_delta",
                    "block_stop", "message_delta"}
    BY <2>1 DEF AEvent
  <2> QED BY <1>5, <1>8, <2>2 DEF A!Follows
<1>10. j # m
  BY <1>3, <1>9
<1> DEFINE k == j + 1
<1>11. k \in 2 .. m /\ k - 1 = j
  BY <1>2, <1>7, <1>10
<1> HIDE DEF k
<1>12. A!Follows(q[j], q[k])
  BY <1>4, <1>11
<1>13. q[k].e \in {"message_start", "message_stop", "error", "block_start", "block_delta",
                   "block_stop", "message_delta"}
  <2>1. q[k] \in AEvent
    BY <1>1, <1>11 DEF m
  <2> QED BY <2>1 DEF AEvent
<1> QED BY <1>9, <1>12, <1>13 DEF A!Follows

LEMMA AFinishContent ==
  ASSUME NEW s \in AReading
  PROVE  AContent(A!Finish(s)) = AContent(s) /\ AEnding(A!Finish(s))
<1> DEFINE c == A!CloseBlock(s)
           ev == [e |-> "message_delta", stop |-> c.stop, usage |-> c.usage]
           d == [c EXCEPT !.out = Append(@, ev)]
           sp == [e |-> "message_stop"]
           t == [d EXCEPT !.out = Append(@, sp), !.stopped = TRUE]
<1>1. c \in AReading /\ AContent(c) = AContent(s)
  BY ACloseBlock, AOpenContent
<1>2. ~s.stopped
  BY DEF AReading
<1> HIDE DEF c
<1>3. c \in AState /\ ~c.stopped /\ c.out \in Seq(AEvent)
  BY <1>1 DEF AReading, AState
<1>4. /\ ev \in AEvent /\ ev.e = "message_delta" /\ ev.stop = c.stop /\ ev.usage = c.usage
      /\ sp \in AEvent /\ sp.e = "message_stop"
  BY <1>3 DEF AEvent, AState
<1>5. /\ d \in AState /\ ~d.stopped /\ d.out = Append(c.out, ev) /\ d.out \in Seq(AEvent)
      /\ d.stop = c.stop /\ d.usage = c.usage
  <2> HIDE DEF AEvent, ev
  <2>1. Append(c.out, ev) \in Seq(AEvent)
    BY <1>3, <1>4
  <2> QED BY <1>3, <2>1 DEF AState
<1>6. A!Finish(s) = t
  <2>1. A!Emit(c, ev) = d
    BY <1>3 DEF A!Emit
  <2>2. A!Emit(d, sp) = [d EXCEPT !.out = Append(@, sp)]
    BY <1>5 DEF A!Emit
  <2>3. A!Finish(s) = [A!Emit(A!Emit(c, ev), sp) EXCEPT !.stopped = TRUE]
    BY <1>2 DEF A!Finish, c
  <2>4. t = [[d EXCEPT !.out = Append(@, sp)] EXCEPT !.stopped = TRUE]
    <3> HIDE DEF d, sp
    <3> QED BY <1>5 DEF AState
  <2> QED BY <2>1, <2>2, <2>3, <2>4
<1> HIDE DEF d
<1>7. t.out = Append(d.out, sp) /\ t.stop = d.stop /\ t.usage = d.usage
  <2> HIDE DEF sp
  <2> QED BY <1>5 DEF AState
<1> HIDE DEF t, ev, sp
<1>8. AContent(d) = AContent(c)
  BY <1>3, <1>4, <1>5, AQuiet
<1>9. AContent(t) = AContent(d)
  BY <1>4, <1>5, <1>7, AQuiet
<1>10. AEnding(t)
  <2> SUFFICES ASSUME NEW i \in DOMAIN t.out, t.out[i].e = "message_delta"
               PROVE  t.out[i].stop = t.stop /\ t.out[i].usage = t.usage
    BY DEF AEnding
  <2> DEFINE q == c.out
             m == Len(q)
  <2>1. m \in Nat /\ DOMAIN q = 1 .. m /\ \A j \in 1 .. m : q[j].e # "message_delta"
    BY <1>1, <1>3, AUnended
  <2>2. /\ DOMAIN t.out = 1 .. m + 2
        /\ t.out[m + 1] = ev /\ t.out[m + 2] = sp
        /\ \A j \in 1 .. m : t.out[j] = q[j]
    <3>1. /\ DOMAIN d.out = 1 .. m + 1 /\ Len(d.out) = m + 1
          /\ d.out[m + 1] = ev /\ \A j \in 1 .. m : d.out[j] = q[j]
      BY <1>3, <1>4, <1>5
    <3> HIDE DEF m
    <3>2. /\ DOMAIN t.out = 1 .. m + 2 /\ t.out[m + 2] = sp
          /\ \A j \in 1 .. m + 1 : t.out[j] = d.out[j]
      BY <1>4, <1>5, <1>7, <2>1, <3>1
    <3> QED BY <2>1, <3>1, <3>2
  <2> HIDE DEF m
  <2>3. i = m + 1
    BY <1>4, <2>1, <2>2
  <2> QED BY <1>4, <1>5, <1>7, <2>2, <2>3
<1> QED BY <1>1, <1>6, <1>8, <1>9, <1>10

LEMMA AErrorContent ==
  ASSUME NEW s \in AReading
  PROVE  LET t == [A!Emit(s, [e |-> "error"]) EXCEPT !.failed = TRUE]
         IN AContent(t) = AContent(s) /\ AEnding(t)
<1> DEFINE ev == [e |-> "error"]
           t == [s EXCEPT !.out = Append(@, ev), !.failed = TRUE]
<1>1. s \in AState /\ ~s.stopped /\ s.out \in Seq(AEvent)
  BY DEF AReading, AState
<1>2. ev \in AEvent /\ ev.e = "error"
  BY DEF AEvent
<1>3. [A!Emit(s, ev) EXCEPT !.failed = TRUE] = t
  BY <1>1 DEF A!Emit, AState
<1>4. t.out = Append(s.out, ev) /\ t.stop = s.stop /\ t.usage = s.usage
  <2> HIDE DEF ev
  <2> QED BY <1>1 DEF AState
<1> HIDE DEF t, ev
<1>5. AContent(t) = AContent(s)
  BY <1>1, <1>2, <1>4, AQuiet
<1>6. AEnding(t)
  <2> SUFFICES ASSUME NEW i \in DOMAIN t.out PROVE t.out[i].e # "message_delta"
    BY DEF AEnding
  <2> DEFINE q == s.out
             m == Len(q)
  <2>1. m \in Nat /\ DOMAIN q = 1 .. m /\ \A j \in 1 .. m : q[j].e # "message_delta"
    BY <1>1, AUnended
  <2>2. /\ DOMAIN t.out = 1 .. m + 1 /\ t.out[m + 1] = ev
        /\ \A j \in 1 .. m : t.out[j] = q[j]
    BY <1>1, <1>2, <1>4
  <2> HIDE DEF m
  <2> QED BY <1>2, <2>1, <2>2
<1> QED BY <1>3, <1>5, <1>6 DEF ev

\* The invariant behind A!SameContent.
AAlike ==
  /\ ast \in AState /\ aacc \in AAcc
  /\ AContent(ast) = ACollected(aacc) /\ AEnding(ast)

LEMMA AAlikeMeans == AAlike => A!SameContent
<1> SUFFICES ASSUME AAlike PROVE A!SameContent
  OBVIOUS
<1>1. ast.out \in Seq(AEvent) /\ DOMAIN ast.out = 1 .. Len(ast.out)
  BY DEF AAlike, AState
<1>2. ASSUME NEW kind PROVE A!PartsOf(kind) = Gather(AParts(kind), ast.out)
  <2>1. \A i \in DOMAIN ast.out :
           AParts(kind)[ast.out[i]] =
             IF ast.out[i].e = "block_delta" /\ ast.out[i].kind = kind
               THEN <<ast.out[i].part>> ELSE <<>>
    BY <1>1 DEF AParts
  <2>2. A!PartsOf(kind) =
          FlattenSeq([i \in DOMAIN ast.out |->
            IF ast.out[i].e = "block_delta" /\ ast.out[i].kind = kind
              THEN <<ast.out[i].part>> ELSE <<>>])
    BY DEF A!PartsOf, A!out, A!FlattenSeq, FlattenSeq
  <2> QED BY <2>1, <2>2 DEF Gather
<1>3. /\ A!PartsOf("thinking") = aacc.think /\ A!PartsOf("text") = aacc.text
      /\ ast.stop = aacc.stop /\ ast.usage = aacc.usage
  BY <1>2 DEF AAlike, AContent, ACollected
<1> QED BY <1>3 DEF AAlike, AEnding, A!SameContent, A!Texts, A!out

LEMMA StepAAlike == Writing /\ AAlike /\ [Next]_vars => AAlike'
<1> SUFFICES ASSUME Writing, AAlike, [Next]_vars PROVE AAlike'
  OBVIOUS
<1>1. CASE UNCHANGED vars
  BY <1>1 DEF AAlike, vars
<1>2. ASSUME NEW c \in Chunks, Chunk(c) PROVE AAlike'
  <2> DEFINE part == n'
  <2>1. /\ part \in Nat /\ ast \in AReading
        /\ ast' = A!HandleChunk(ast, c, part) /\ aacc' = A!Collect(aacc, c, part)
    <3>1. n' = n + 1 /\ A!Chunk(c, n')
      BY <1>2 DEF Chunk
    <3> QED BY <3>1 DEF A!Chunk, Writing
  <2> HIDE DEF part
  <2>2. ast' \in AReading
    BY <2>1, AHandleChunk
  <2>3. /\ aacc' \in AAcc /\ AContent(ast') = ACollected(aacc')
    BY <2>1, ASameChunk DEF AAlike
  <2>4. ast' \in AState /\ AEnding(ast')
    BY <2>2, AUnended DEF AReading, AEnding
  <2> QED BY <2>3, <2>4 DEF AAlike
<1>3. CASE UpstreamError
  <2>1. /\ ast \in AReading /\ ast' = [A!Emit(ast, [e |-> "error"]) EXCEPT !.failed = TRUE]
        /\ aacc' = [aacc EXCEPT !.failed = TRUE]
    BY <1>3 DEF UpstreamError, A!UpstreamError, Writing
  <2>2. ast' \in AState /\ AContent(ast') = AContent(ast) /\ AEnding(ast')
    BY <2>1, AError, AErrorContent DEF AOver
  <2>3. aacc' \in AAcc /\ ACollected(aacc') = ACollected(aacc)
    BY <2>1 DEF AAlike, AAcc, ACollected
  <2> QED BY <2>2, <2>3 DEF AAlike
<1>4. ASSUME NEW data \in BOOLEAN, FinishEvent(data) PROVE AAlike'
  <2>1. ast \in AReading /\ ast' = A!Finish(ast) /\ aacc' = aacc
    BY <1>4 DEF FinishEvent, A!FinishEvent, Writing
  <2> QED BY <2>1, AFinish, AFinishContent DEF AAlike, AOver
<1>5. ASSUME NEW broken \in BOOLEAN, BodyEnds(broken) PROVE AAlike'
  <2>1. /\ aacc' = aacc
        /\ \/ ast' = ast
           \/ ast \in AReading /\ ast' = A!Finish(ast)
    BY <1>5 DEF BodyEnds, A!End, A!FinishAtEnd, Writing
  <2> QED BY <2>1, AFinish, AFinishContent DEF AAlike, AOver
<1> QED BY <1>1, <1>2, <1>3, <1>4, <1>5 DEF Next

LEMMA InitAAlike == Init => AAlike
<1> SUFFICES ASSUME Init PROVE AAlike
  OBVIOUS
<1>1. ast \in AState /\ ast.out = <<>> /\ ast.stop = None /\ ast.usage = None
  BY DEF Init, A!Init, AState, Parts
<1>2. /\ aacc \in AAcc /\ aacc.think = <<>> /\ aacc.text = <<>>
      /\ aacc.stop = None /\ aacc.usage = None
  BY DEF Init, A!Init, AAcc, Parts
<1>3. \A C : Gather(C, <<>>) = <<>>
  BY DEF Gather, FlattenSeq
<1>4. AContent(ast) = ACollected(aacc)
  BY <1>1, <1>2, <1>3 DEF AContent, ACollected
<1>5. AEnding(ast)
  BY <1>1 DEF AEnding
<1> QED BY <1>1, <1>2, <1>4, <1>5 DEF AAlike

----------------------------------------------------------------------------
(* The content of a response of the Responses API.                         *)

\* The states between the tool calls of a chunk, for the body.
RKept(ST, part) == \A x \in ST, t \in Tool : R!CollectTool(x, t, part) \in ST
RGathering(g, ST, s, seq, part) ==
  /\ g \in [0 .. Len(seq) -> ST]
  /\ g[0] = s /\ g[Len(seq)] = R!CollectTools(s, seq, part)
  /\ \A i \in 1 .. Len(seq) : g[i] = R!CollectTool(g[i-1], seq[i], part)

LEMMA RGathers ==
  ASSUME NEW ST, NEW s \in ST, NEW seq \in Seq(Tool), NEW part, RKept(ST, part)
  PROVE  \E g : RGathering(g, ST, s, seq, part)
<1> DEFINE m == Len(seq)
           F == [p \in ST \X Tool |-> R!CollectTool(p[1], p[2], part)]
           Eq(f) == f = [u \in SUBSET (1 .. m) |->
                           IF u = {} THEN s ELSE R!CollectTool(f[u \ {Max(u)}], seq[Max(u)], part)]
           iter == CHOOSE f : Eq(f)
<1>1. R!CollectTools(s, seq, part) = iter[1 .. m]
  <2>1. DOMAIN seq = 1 .. m
    OBVIOUS
  <2>2. \A u : R!Max(u) = Max(u)
    BY DEF R!Max, Max
  <2>3. R!CollectTools(s, seq, part) =
          (CHOOSE f : f = [u \in SUBSET DOMAIN seq |->
                             IF u = {} THEN s
                             ELSE R!CollectTool(f[u \ {R!Max(u)}], seq[R!Max(u)], part)])[DOMAIN seq]
    BY DEF R!CollectTools, R!FoldLeft, R!MapThenFoldSet
  <2> QED BY <2>1, <2>2, <2>3
<1>2. F \in [ST \X Tool -> ST]
  BY DEF RKept
<1>3. \A u \in SUBSET (1 .. m) :
         u # {} => seq[Max(u)] \in Tool /\ u \ {Max(u)} \in SUBSET (1 .. m)
  BY Greatest
<1>4. \E f : Eq(f)
  <2>1. PICK f \in [SUBSET (1 .. m) -> ST] :
          \A u \in SUBSET (1 .. m) : Folded(f, F, s, seq, u)
    BY <1>2, FoldExists
  <2>2. ASSUME NEW u \in SUBSET (1 .. m)
        PROVE  f[u] = IF u = {} THEN s ELSE R!CollectTool(f[u \ {Max(u)}], seq[Max(u)], part)
    <3>1. u # {} => f[u \ {Max(u)}] \in ST
      BY <1>3
    <3> QED BY <1>3, <2>1, <3>1 DEF Folded
  <2> QED BY <2>1, <2>2
<1>5. Eq(iter)
  BY <1>4
<1> HIDE DEF iter
<1>6. Solution(iter, ST, F, s, seq)
  <2>1. iter[{}] = s
    BY <1>5
  <2>2. ASSUME NEW u \in SUBSET (1 .. m), u # {}, iter[u \ {Max(u)}] \in ST
        PROVE  Folded(iter, F, s, seq, u)
    <3>1. iter[u] = R!CollectTool(iter[u \ {Max(u)}], seq[Max(u)], part)
      BY <1>5, <2>2
    <3> QED BY <1>3, <2>2, <3>1 DEF Folded
  <2> QED BY <2>1, <2>2 DEF Solution
<1>7. PICK g : Trace(g, ST, F, s, seq, iter)
  <2> HIDE DEF F
  <2> QED BY <1>2, <1>6, FoldSteps
<1>8. g \in [0 .. m -> ST] /\ g[0] = s /\ g[m] = iter[1 .. m]
  BY <1>7 DEF Trace
<1>9. ASSUME NEW i \in 1 .. m PROVE g[i] = R!CollectTool(g[i-1], seq[i], part)
  <2>1. g[i - 1] \in ST /\ seq[i] \in Tool
    BY <1>8
  <2>2. g[i] = F[<<g[i - 1], seq[i]>>]
    BY <1>7 DEF Trace
  <2> QED BY <2>1, <2>2
<1> QED BY <1>1, <1>8, <1>9 DEF RGathering

\* What an event adds to the deltas of an item, to the items, and to the text of a
\* kind of item.
RDeltas(i) ==
  [x \in REvent |-> IF x.e = "delta" /\ x.index = i THEN <<x.part>> ELSE <<>>]
RItems == [x \in REvent |-> IF x.e = "item_done" THEN <<x.item>> ELSE <<>>]
RFull(kind) ==
  [x \in REvent |-> IF x.e = "item_done" /\ x.item.kind = kind THEN x.item.full ELSE <<>>]

RDelta1(q, ev, i) ==
  /\ Gather(RDeltas(i), q) \in Seq(Nat)
  /\ Gather(RDeltas(i), Append(q, ev)) =
       IF ev.e = "delta" /\ ev.index = i THEN Append(Gather(RDeltas(i), q), ev.part)
       ELSE Gather(RDeltas(i), q)
RFull1(q, ev, kind) ==
  /\ Gather(RFull(kind), q) \in Seq(Nat)
  /\ Gather(RFull(kind), Append(q, ev)) =
       IF ev.e = "item_done" /\ ev.item.kind = kind
         THEN Gather(RFull(kind), q) \o ev.item.full ELSE Gather(RFull(kind), q)

LEMMA RGrown ==
  ASSUME NEW q \in Seq(REvent), NEW ev \in REvent
  PROVE  /\ \A i : RDelta1(q, ev, i)
         /\ \A kind : RFull1(q, ev, kind)
         /\ Gather(RItems, q) \in Seq(RItem)
         /\ Gather(RItems, Append(q, ev)) =
              IF ev.e = "item_done" THEN Append(Gather(RItems, q), ev.item)
              ELSE Gather(RItems, q)
<1>1. ASSUME NEW x \in REvent PROVE x.e = "delta" => x.part \in Nat
  BY DEF REvent
<1>2. ASSUME NEW x \in REvent
      PROVE  x.e = "item_done" => x.item \in RItem /\ x.item.full \in Seq(Nat)
  BY DEF REvent, RItem
<1>3. \A X, G, x : G \in Seq(X) /\ x \in X => G \o <<>> = G /\ G \o <<x>> = Append(G, x)
  OBVIOUS
<1>3a. \A X, G : G \in Seq(X) => G \o <<>> = G
  OBVIOUS
<1>4. ASSUME NEW i PROVE RDelta1(q, ev, i)
  <2> DEFINE C == RDeltas(i)
             G == Gather(C, q)
  <2>1. C[ev] = IF ev.e = "delta" /\ ev.index = i THEN <<ev.part>> ELSE <<>>
    BY DEF RDeltas
  <2>2. Contributes(C, REvent, Nat)
    <3>1. ASSUME NEW x \in REvent PROVE C[x] \in Seq(Nat)
      BY <1>1 DEF RDeltas
    <3> QED BY <3>1 DEF RDeltas, Contributes
  <2> HIDE DEF C
  <2>3. Grows(C, Nat, q, ev)
    BY <2>2, Gathered
  <2>4. G \in Seq(Nat) /\ Gather(C, Append(q, ev)) = G \o C[ev]
    BY <2>3 DEF Grows
  <2> HIDE DEF G
  <2>5. G \o <<>> = G /\ (ev.e = "delta" => G \o <<ev.part>> = Append(G, ev.part))
    <3> DEFINE p == ev.part
    <3>1. ev.e = "delta" => p \in Nat
      BY <1>1
    <3> HIDE DEF p
    <3>2. G \o <<>> = G /\ (ev.e = "delta" => G \o <<p>> = Append(G, p))
      BY <1>3, <1>3a, <2>4, <3>1
    <3> QED BY <3>2 DEF p
  <2>6. /\ Gather(C, q) \in Seq(Nat)
        /\ Gather(C, Append(q, ev)) =
             IF ev.e = "delta" /\ ev.index = i THEN Append(Gather(C, q), ev.part)
             ELSE Gather(C, q)
    BY <2>1, <2>4, <2>5 DEF G
  <2> QED BY <2>6 DEF RDelta1, C
<1>5. ASSUME NEW kind PROVE RFull1(q, ev, kind)
  <2> DEFINE C == RFull(kind)
             G == Gather(C, q)
  <2>1. C[ev] = IF ev.e = "item_done" /\ ev.item.kind = kind THEN ev.item.full ELSE <<>>
    BY DEF RFull
  <2>2. Contributes(C, REvent, Nat)
    <3>1. ASSUME NEW x \in REvent PROVE C[x] \in Seq(Nat)
      BY <1>2 DEF RFull
    <3> QED BY <3>1 DEF RFull, Contributes
  <2> HIDE DEF C
  <2>3. Grows(C, Nat, q, ev)
    BY <2>2, Gathered
  <2>4. G \in Seq(Nat) /\ Gather(C, Append(q, ev)) = G \o C[ev] /\ G \o <<>> = G
    BY <1>3a, <2>3 DEF Grows
  <2>5. /\ Gather(C, q) \in Seq(Nat)
        /\ Gather(C, Append(q, ev)) =
             IF ev.e = "item_done" /\ ev.item.kind = kind THEN Gather(C, q) \o ev.item.full
             ELSE Gather(C, q)
    BY <2>1, <2>4
  <2> QED BY <2>5 DEF RFull1, C
<1>6. /\ Gather(RItems, q) \in Seq(RItem)
      /\ Gather(RItems, Append(q, ev)) =
           IF ev.e = "item_done" THEN Append(Gather(RItems, q), ev.item) ELSE Gather(RItems, q)
  <2> DEFINE G == Gather(RItems, q)
  <2>1. RItems[ev] = IF ev.e = "item_done" THEN <<ev.item>> ELSE <<>>
    BY DEF RItems
  <2>2. Contributes(RItems, REvent, RItem)
    <3>1. ASSUME NEW x \in REvent PROVE RItems[x] \in Seq(RItem)
      BY <1>2 DEF RItems
    <3> QED BY <3>1 DEF RItems, Contributes
  <2>3. Grows(RItems, RItem, q, ev)
    BY <2>2, Gathered
  <2>4. G \in Seq(RItem) /\ Gather(RItems, Append(q, ev)) = G \o RItems[ev]
    BY <2>3 DEF Grows
  <2> HIDE DEF G
  <2>5. G \o <<>> = G /\ (ev.e = "item_done" => G \o <<ev.item>> = Append(G, ev.item))
    BY <1>2, <1>3, <1>3a, <2>4
  <2> QED BY <2>1, <2>4, <2>5 DEF G
<1> QED BY <1>4, <1>5, <1>6

\* The events written in between say nothing of the content.
RSame(q, r) ==
  /\ q \in Seq(REvent) /\ r \in Seq(REvent)
  /\ \A i : Gather(RDeltas(i), r) = Gather(RDeltas(i), q)
  /\ \A kind : Gather(RFull(kind), r) = Gather(RFull(kind), q)
  /\ Gather(RItems, r) = Gather(RItems, q)
  /\ \A k \in DOMAIN r : r[k].e = "item_done" => k \in DOMAIN q /\ r[k] = q[k]

LEMMA RQuiet ==
  ASSUME NEW q \in Seq(REvent), NEW ev \in REvent, ev.e \notin {"delta", "item_done"}
  PROVE  RSame(q, Append(q, ev))
<1> DEFINE r == Append(q, ev)
<1>1. /\ r \in Seq(REvent) /\ DOMAIN r = 1 .. Len(q) + 1 /\ DOMAIN q = 1 .. Len(q)
      /\ Len(q) \in Nat /\ r[Len(q) + 1] = ev /\ \A k \in 1 .. Len(q) : r[k] = q[k]
  OBVIOUS
<1>2. \A i : Gather(RDeltas(i), r) = Gather(RDeltas(i), q)
  <2> TAKE i
  <2>1. RDelta1(q, ev, i)
    BY RGrown
  <2> QED BY <2>1 DEF RDelta1
<1>3. \A kind : Gather(RFull(kind), r) = Gather(RFull(kind), q)
  <2> TAKE kind
  <2>1. RFull1(q, ev, kind)
    BY RGrown
  <2> QED BY <2>1 DEF RFull1
<1>4. Gather(RItems, r) = Gather(RItems, q)
  BY RGrown
<1> HIDE DEF r
<1>5. \A k \in DOMAIN r : r[k].e = "item_done" => k \in DOMAIN q /\ r[k] = q[k]
  BY <1>1
<1>6. RSame(q, r)
  BY <1>1, <1>2, <1>3, <1>4, <1>5 DEF RSame
<1> QED BY <1>6 DEF r

LEMMA RSameTwice ==
  ASSUME NEW p, NEW q, NEW r, RSame(p, q), RSame(q, r)
  PROVE  RSame(p, r)
BY DEF RSame

\* An item that is done holds the deltas streamed for it.
RDone(q) ==
  \A k \in DOMAIN q :
    q[k].e = "item_done" => q[k].item.full = Gather(RDeltas(q[k].index), q)

\* The buffer of the open item holds the deltas streamed for it; there are none for
\* the items to come.
RBook(s) ==
  /\ RDone(s.out)
  /\ \A k \in DOMAIN s.out : s.out[k].e = "item_done" => s.out[k].index < s.index
  /\ s.kind # None => s.buf[s.kind] = Gather(RDeltas(s.index), s.out)
  /\ \A j \in Nat :
        j > s.index \/ (s.kind = None /\ j = s.index) => Gather(RDeltas(j), s.out) = <<>>
  /\ s.items = Gather(RItems, s.out)

\* What a client has when the response ends now.
ROpen(s, kind) == IF s.kind = kind THEN s.buf[kind] ELSE <<>>
RText(s, kind) == Gather(RFull(kind), s.out) \o ROpen(s, kind)
RContent(s) ==
  [reasoning |-> RText(s, "reasoning"), text |-> RText(s, "message"), stop |-> s.stop]

LEMMA RCarry ==
  ASSUME NEW s, NEW t, RSame(s.out, t.out), RBook(s),
         t.kind = s.kind, t.index = s.index, t.buf = s.buf, t.items = s.items, t.stop = s.stop
  PROVE  RBook(t) /\ RContent(t) = RContent(s)
<1>1. RContent(t) = RContent(s)
  BY DEF RSame, RContent, RText, ROpen
<1>2. RDone(t.out)
  BY DEF RBook, RSame, RDone
<1>3. \A k \in DOMAIN t.out : t.out[k].e = "item_done" => t.out[k].index < t.index
  BY DEF RBook, RSame
<1>4. t.kind # None => t.buf[t.kind] = Gather(RDeltas(t.index), t.out)
  BY DEF RBook, RSame
<1>5. \A j \in Nat :
        j > t.index \/ (t.kind = None /\ j = t.index) => Gather(RDeltas(j), t.out) = <<>>
  BY DEF RBook, RSame
<1>6. t.items = Gather(RItems, t.out)
  BY DEF RBook, RSame
<1> QED BY <1>1, <1>2, <1>3, <1>4, <1>5, <1>6 DEF RBook

\* A response being written, all of it accounted for.
RGood == {s \in RReading : RBook(s)}

\* A closed item keeps what was in its buffer.
LEMMA RCloseBook ==
  ASSUME NEW s \in RGood, NEW p, RSame(s.out, p), NEW ev \in REvent, NEW c,
         s.kind \in R!Kinds, ev.e = "item_done", ev.index = s.index,
         ev.item = R!Item(s), ev.item \in RItem,
         c.out = Append(p, ev), c.items = Append(s.items, ev.item), c.index = s.index + 1,
         c.kind = None, c.stop = s.stop
  PROVE  RBook(c) /\ RContent(c) = RContent(s)
<1> DEFINE q == Append(p, ev)
           m == Len(p)
<1>1. /\ s \in RState /\ s.index \in Nat /\ s.buf \in [R!Kinds -> Seq(Nat)]
      /\ s.out \in Seq(REvent) /\ p \in Seq(REvent) /\ RBook(s)
  BY DEF RGood, RReading, RState, RSame
<1>2. /\ q \in Seq(REvent) /\ DOMAIN q = 1 .. m + 1 /\ DOMAIN p = 1 .. m
      /\ m \in Nat /\ q[m + 1] = ev /\ \A k \in 1 .. m : q[k] = p[k]
  BY <1>1
<1>3. ev.item.full = s.buf[s.kind] /\ ev.item.kind = s.kind
  BY DEF R!Item
<1>4. \A i : Gather(RDeltas(i), q) = Gather(RDeltas(i), s.out)
  <2> TAKE i
  <2>1. RDelta1(p, ev, i)
    BY <1>1, RGrown
  <2> QED BY <2>1 DEF RDelta1, RSame
<1>5. \A kind : Gather(RFull(kind), q) =
                  IF s.kind = kind THEN Gather(RFull(kind), s.out) \o s.buf[s.kind]
                  ELSE Gather(RFull(kind), s.out)
  <2> TAKE kind
  <2>1. RFull1(p, ev, kind)
    BY <1>1, RGrown
  <2> QED BY <1>3, <2>1 DEF RFull1, RSame
<1>6. Gather(RItems, q) = Append(s.items, ev.item)
  <2>1. Gather(RItems, q) = Append(Gather(RItems, p), ev.item)
    BY <1>1, RGrown
  <2> QED BY <1>1, <2>1 DEF RBook, RSame
<1> HIDE DEF q
<1>7. ASSUME NEW k \in DOMAIN q, q[k].e = "item_done"
      PROVE  q[k].item.full = Gather(RDeltas(q[k].index), q) /\ q[k].index < s.index + 1
  <2>1. CASE k = m + 1
    <3>1. s.buf[s.kind] = Gather(RDeltas(s.index), s.out)
      BY <1>1, NoneAssumption DEF RBook, R!Kinds
    <3>2. q[k] = ev
      BY <1>2, <2>1
    <3> QED BY <1>1, <1>3, <1>4, <3>1, <3>2
  <2>2. CASE k # m + 1
    <3>1. k \in DOMAIN p /\ q[k] = p[k]
      BY <1>2, <2>2
    <3>2. k \in DOMAIN s.out /\ q[k] = s.out[k]
      BY <1>7, <3>1 DEF RSame
    <3>3. s.out[k].item.full = Gather(RDeltas(s.out[k].index), s.out)
      BY <1>1, <1>7, <3>2 DEF RBook, RDone
    <3>4. s.out[k].index < s.index /\ s.out[k] \in REvent /\ s.out[k].index \in Nat
      <4>1. s.out[k] \in REvent
        BY <1>1, <3>2
      <4> QED BY <1>1, <1>7, <3>2, <4>1 DEF RBook, REvent
    <3> QED BY <1>1, <1>4, <3>2, <3>3, <3>4
  <2> QED BY <2>1, <2>2
<1>8. \A j \in Nat : j > s.index => Gather(RDeltas(j), q) = <<>>
  BY <1>1, <1>4 DEF RBook
<1>9. RBook(c)
  <2>1. RDone(c.out)
    BY <1>7 DEF RDone, q
  <2>2. \A k \in DOMAIN c.out : c.out[k].e = "item_done" => c.out[k].index < c.index
    BY <1>7 DEF q
  <2>3. \A j \in Nat :
          j > c.index \/ (c.kind = None /\ j = c.index) => Gather(RDeltas(j), c.out) = <<>>
    BY <1>1, <1>8 DEF q
  <2> QED BY <1>6, <2>1, <2>2, <2>3 DEF RBook, q
<1>10. ASSUME NEW kind, kind # None PROVE RText(c, kind) = RText(s, kind)
  <2> DEFINE G == Gather(RFull(kind), s.out)
             b == s.buf[s.kind]
  <2>1. G \in Seq(Nat) /\ b \in Seq(Nat)
    <3>1. RFull1(s.out, ev, kind)
      BY <1>1, RGrown
    <3> QED BY <1>1, <3>1 DEF RFull1
  <2>2. Gather(RFull(kind), c.out) = IF s.kind = kind THEN G \o b ELSE G
    BY <1>5 DEF q
  <2>3. ROpen(c, kind) = <<>> /\ ROpen(s, kind) = IF s.kind = kind THEN b ELSE <<>>
    BY <1>10 DEF ROpen
  <2> HIDE DEF G, b
  <2>4. (G \o b) \o <<>> = G \o b
    BY <2>1
  <2> QED BY <2>2, <2>3, <2>4 DEF RText, G
<1>11. RContent(c) = RContent(s)
  BY <1>10, NoneAssumption DEF RContent
<1> QED BY <1>9, <1>11

LEMMA RCloseGood ==
  ASSUME NEW s \in RGood
  PROVE  /\ R!CloseItem(s) \in RGood /\ R!CloseItem(s).kind = None
         /\ RContent(R!CloseItem(s)) = RContent(s)
<1>0. s \in RReading /\ RBook(s)
  BY DEF RGood
<1>1. CASE s.kind = None
  BY <1>1 DEF R!CloseItem
<1>2. CASE s.kind # None
  <2> DEFINE full == s.buf[s.kind]
             item == R!Item(s)
             ev1 == [e |-> "text_done", index |-> s.index, full |-> full]
             ev2 == [e |-> "part_done", index |-> s.index, full |-> full]
             ev3 == [e |-> "item_done", index |-> s.index, item |-> item]
             t == R!Emit(s, ev1)
             p == IF s.kind = "function_call" THEN t ELSE R!Emit(t, ev2)
             d == R!Emit(p, ev3)
             c == [d EXCEPT !.items = Append(@, item), !.index = @ + 1, !.kind = None]
  <2>1. s \in RState /\ s.out \in Seq(REvent)
    BY <1>0 DEF RReading, RState
  <2>2. s.kind \in R!Kinds /\ full \in Seq(Nat) /\ s.index \in Nat
    BY <1>2, <2>1 DEF RState
  <2>3. item \in RItem
    <3>1. /\ s.kind \in R!Kinds /\ s.buf[s.kind] \in Seq(Nat)
          /\ s.call \in Ids \cup {None} /\ s.name \in Ids \cup {None}
      BY <2>1, <2>2 DEF RState
    <3> QED BY <3>1 DEF R!Item, RItem
  <2> HIDE DEF item, full
  <2>4. /\ ev1 \in REvent /\ ev1.e = "text_done"
        /\ ev2 \in REvent /\ ev2.e = "part_done"
        /\ ev3 \in REvent /\ ev3.e = "item_done" /\ ev3.index = s.index /\ ev3.item = item
    BY <2>2, <2>3 DEF REvent
  <2>8. R!CloseItem(s) = c
    BY <1>2 DEF R!CloseItem, full, item
  <2> HIDE DEF ev1, ev2, ev3
  <2>5. /\ t = [s EXCEPT !.out = Append(s.out, ev1)] /\ t.out = Append(s.out, ev1)
        /\ RSame(s.out, t.out)
    BY <2>1, <2>4, RQuiet DEF R!Emit, RState
  <2>6. p = [s EXCEPT !.out = p.out] /\ RSame(s.out, p.out)
    <3>1. CASE s.kind = "function_call"
      BY <2>1, <2>5, <3>1 DEF RState
    <3>2. CASE s.kind # "function_call"
      <4>1. p = [t EXCEPT !.out = Append(@, ev2)]
        BY <3>2 DEF R!Emit
      <4> HIDE DEF p, t
      <4>2. p = [s EXCEPT !.out = Append(t.out, ev2)]
        BY <2>1, <2>5, <4>1 DEF RState
      <4>3. p.out = Append(t.out, ev2)
        BY <2>1, <4>2 DEF RState
      <4>4. RSame(t.out, p.out)
        <5>1. t.out \in Seq(REvent)
          BY <2>5 DEF RSame
        <5> QED BY <2>4, <4>3, <5>1, RQuiet
      <4> QED BY <2>5, <4>2, <4>3, <4>4, RSameTwice
    <3> QED BY <3>1, <3>2
  <2> HIDE DEF p
  <2>7. d = [s EXCEPT !.out = Append(p.out, ev3)]
    BY <2>1, <2>6 DEF R!Emit, RState
  <2> HIDE DEF d
  <2>9. /\ c.out = Append(p.out, ev3) /\ c.items = Append(s.items, item)
        /\ c.index = s.index + 1 /\ c.kind = None /\ c.stop = s.stop
    BY <2>1, <2>7 DEF RState
  <2> HIDE DEF c
  <2>10. RBook(c) /\ RContent(c) = RContent(s)
    <3> DEFINE r == p.out
    <3>1. ev3.item = R!Item(s) /\ ev3.item \in RItem
      BY <2>3, <2>4 DEF item
    <3>2. /\ RSame(s.out, r) /\ c.out = Append(r, ev3) /\ c.items = Append(s.items, ev3.item)
      BY <2>4, <2>6, <2>9
    <3> HIDE DEF r
    <3> QED BY <2>2, <2>4, <2>9, <3>1, <3>2, RCloseBook
  <2> QED BY <1>0, <2>8, <2>10, RCloseItem DEF RGood
<1> QED BY <1>1, <1>2

LEMMA RBeginGood ==
  ASSUME NEW s \in RGood, s.kind = None, NEW kind \in R!Kinds
  PROVE  LET t == R!BeginItem(s, kind)
         IN RBook(t) /\ RContent(t) = RContent(s)
<1> DEFINE ev == [e |-> "item_added", index |-> s.index, kind |-> kind]
           t == [s EXCEPT !.kind = kind, !.buf[kind] = <<>>, !.out = Append(@, ev)]
<1>1. /\ s \in RState /\ s.out \in Seq(REvent) /\ s.index \in Nat /\ RBook(s)
      /\ s.buf \in [R!Kinds -> Seq(Nat)]
  BY DEF RGood, RReading, RState
<1>2. ev \in REvent /\ ev.e = "item_added"
  BY <1>1 DEF REvent
<1>3. R!BeginItem(s, kind) = t
  BY <1>1 DEF R!BeginItem, R!Emit, RState
<1> HIDE DEF ev
<1>4. RSame(s.out, Append(s.out, ev))
  BY <1>1, <1>2, RQuiet
<1>5. /\ t.kind = kind /\ t.index = s.index /\ t.out = Append(s.out, ev) /\ t.items = s.items
      /\ t.stop = s.stop /\ t.buf[kind] = <<>>
  BY <1>1 DEF RState
<1>6. kind # None
  BY NoneAssumption DEF R!Kinds
<1> HIDE DEF t
<1>7. RSame(s.out, t.out)
  BY <1>4, <1>5
<1>8. RBook(t)
  <2>1. RDone(t.out)
    BY <1>1, <1>7 DEF RBook, RSame, RDone
  <2>2. \A k \in DOMAIN t.out : t.out[k].e = "item_done" => t.out[k].index < t.index
    BY <1>1, <1>5, <1>7 DEF RBook, RSame
  <2>3. t.buf[t.kind] = Gather(RDeltas(t.index), t.out)
    BY <1>1, <1>5, <1>7 DEF RBook, RSame
  <2>4. \A j \in Nat :
          j > t.index \/ (t.kind = None /\ j = t.index) => Gather(RDeltas(j), t.out) = <<>>
    BY <1>1, <1>5, <1>6, <1>7 DEF RBook, RSame
  <2>5. t.items = Gather(RItems, t.out)
    BY <1>1, <1>5, <1>7 DEF RBook, RSame
  <2> QED BY <2>1, <2>2, <2>3, <2>4, <2>5 DEF RBook
<1>9. ASSUME NEW k, k # None PROVE RText(t, k) = RText(s, k)
  <2>1. ROpen(t, k) = <<>> /\ ROpen(s, k) = <<>>
    BY <1>5, <1>9 DEF ROpen
  <2> QED BY <1>7, <2>1 DEF RText, RSame
<1>10. RContent(t) = RContent(s)
  BY <1>5, <1>9, NoneAssumption DEF RContent
<1> QED BY <1>3, <1>8, <1>10

LEMMA ROpenTextGood ==
  ASSUME NEW s \in RGood, NEW kind \in R!Kinds, kind # "function_call"
  PROVE  /\ R!OpenText(s, kind) \in RGood /\ R!OpenText(s, kind).kind = kind
         /\ RContent(R!OpenText(s, kind)) = RContent(s)
<1>0. s \in RReading
  BY DEF RGood
<1>1. CASE s.kind = kind
  BY <1>1 DEF R!OpenText
<1>2. CASE s.kind # kind
  <2> DEFINE c == R!CloseItem(s)
             b == R!BeginItem(c, kind)
             ev == [e |-> "part_added", index |-> b.index]
             t == [b EXCEPT !.out = Append(@, ev)]
  <2>1. c \in RGood /\ c.kind = None /\ RContent(c) = RContent(s)
    BY RCloseGood
  <2>2. c \in RReading
    BY <2>1 DEF RGood
  <2>3. R!OpenText(s, kind) = t
    BY <1>2 DEF R!OpenText, R!Emit
  <2>4. b \in RState /\ b.kind = kind /\ RBook(b) /\ RContent(b) = RContent(s)
    <3> HIDE DEF c
    <3> QED BY <2>1, <2>2, RBeginItem, RBeginGood
  <2> HIDE DEF b
  <2>5. ev \in REvent /\ ev.e = "part_added"
    BY <2>4 DEF REvent, RState
  <2> HIDE DEF ev
  <2>6. /\ b.out \in Seq(REvent) /\ t.out = Append(b.out, ev) /\ t.kind = b.kind
        /\ t.index = b.index /\ t.buf = b.buf /\ t.items = b.items /\ t.stop = b.stop
    BY <2>4 DEF RState
  <2> HIDE DEF t
  <2>7. RSame(b.out, t.out)
    BY <2>5, <2>6, RQuiet
  <2>8. RBook(t) /\ RContent(t) = RContent(b)
    BY <2>4, <2>6, <2>7, RCarry
  <2> QED BY <1>0, <2>3, <2>4, <2>6, <2>8, ROpenText DEF RGood
<1> QED BY <1>1, <1>2

LEMMA ROpenCallGood ==
  ASSUME NEW s \in RGood, NEW id \in Ids \cup {None}, NEW nm \in Ids \cup {None}
  PROVE  LET t == R!OpenFunctionCall(s, id, nm)
         IN t \in RGood /\ t.kind = "function_call" /\ RContent(t) = RContent(s)
<1> DEFINE o == R!CloseItem(s)
           c == [o EXCEPT !.call = id, !.name = nm]
           t == R!BeginItem(c, "function_call")
<1>0. s \in RReading
  BY DEF RGood
<1>1. o \in RGood /\ o.kind = None /\ RContent(o) = RContent(s)
  BY RCloseGood
<1> HIDE DEF o
<1>2. o \in RReading /\ o \in RState /\ o.out \in Seq(REvent)
  BY <1>1 DEF RGood, RReading, RState
<1>3. /\ c \in RReading /\ c.kind = None /\ c.out = o.out /\ c.index = o.index
      /\ c.buf = o.buf /\ c.items = o.items /\ c.stop = o.stop
  BY <1>1, <1>2 DEF RReading, RState, RFit
<1> HIDE DEF c
<1>4. RSame(o.out, c.out)
  BY <1>2, <1>3 DEF RSame
<1>5. c \in RGood /\ RContent(c) = RContent(o)
  BY <1>1, <1>3, <1>4, RCarry DEF RGood
<1>6. "function_call" \in R!Kinds
  BY DEF R!Kinds
<1>7. RBook(t) /\ RContent(t) = RContent(c)
  BY <1>3, <1>5, <1>6, RBeginGood
<1>8. R!OpenFunctionCall(s, id, nm) = t
  BY DEF R!OpenFunctionCall, c, o
<1> HIDE DEF t
<1> QED BY <1>0, <1>1, <1>5, <1>7, <1>8, ROpenFunctionCall DEF RGood

\* The content with one more delta.
RMore(k, kind, part) ==
  [reasoning |-> IF kind = "reasoning" THEN Append(k.reasoning, part) ELSE k.reasoning,
   text |-> IF kind = "message" THEN Append(k.text, part) ELSE k.text,
   stop |-> k.stop]

LEMMA RDeltaGood ==
  ASSUME NEW s \in RGood, s.kind # None, NEW part \in Nat
  PROVE  /\ R!Delta(s, part) \in RGood /\ R!Delta(s, part).kind = s.kind
         /\ RContent(R!Delta(s, part)) = RMore(RContent(s), s.kind, part)
<1> DEFINE ev == [e |-> "delta", index |-> s.index, kind |-> s.kind, part |-> part]
           t == [s EXCEPT !.buf[s.kind] = Append(@, part), !.out = Append(@, ev)]
           q == s.out
           r == Append(q, ev)
           m == Len(q)
<1>1. /\ s \in RReading /\ s \in RState /\ q \in Seq(REvent) /\ s.index \in Nat /\ RBook(s)
      /\ s.buf \in [R!Kinds -> Seq(Nat)] /\ s.kind \in R!Kinds
  BY DEF RGood, RReading, RState
<1>2. ev \in REvent /\ ev.e = "delta" /\ ev.index = s.index /\ ev.part = part
  BY <1>1 DEF REvent
<1>3. R!Delta(s, part) = t
  BY <1>1 DEF R!Delta, R!Emit, RState
<1> HIDE DEF ev
<1>4. /\ t.kind = s.kind /\ t.index = s.index /\ t.items = s.items /\ t.stop = s.stop
      /\ t.out = r
      /\ \A k \in R!Kinds : t.buf[k] = IF k = s.kind THEN Append(s.buf[k], part) ELSE s.buf[k]
  BY <1>1 DEF RState
<1> HIDE DEF t
<1>5. \A i : Gather(RDeltas(i), r) =
               IF s.index = i THEN Append(Gather(RDeltas(i), q), part)
               ELSE Gather(RDeltas(i), q)
  <2> TAKE i
  <2>1. RDelta1(q, ev, i)
    BY <1>1, <1>2, RGrown
  <2> QED BY <1>2, <2>1 DEF RDelta1
<1>6. \A kind : Gather(RFull(kind), r) = Gather(RFull(kind), q)
                /\ Gather(RFull(kind), q) \in Seq(Nat)
  <2> TAKE kind
  <2>1. RFull1(q, ev, kind)
    BY <1>1, <1>2, RGrown
  <2> QED BY <1>2, <2>1 DEF RFull1
<1>7. Gather(RItems, r) = Gather(RItems, q)
  BY <1>1, <1>2, RGrown
<1>8. /\ DOMAIN r = 1 .. m + 1 /\ DOMAIN q = 1 .. m /\ m \in Nat /\ r[m + 1] = ev
      /\ \A k \in 1 .. m : r[k] = q[k]
  BY <1>1, <1>2
<1> HIDE DEF r
<1>9. ASSUME NEW k \in DOMAIN r, r[k].e = "item_done"
      PROVE  r[k].item.full = Gather(RDeltas(r[k].index), r) /\ r[k].index < s.index
  <2>1. k \in DOMAIN q /\ r[k] = q[k]
    BY <1>2, <1>8, <1>9
  <2> HIDE DEF q
  <2>2. q[k].item.full = Gather(RDeltas(q[k].index), q) /\ q[k].index < s.index
    BY <1>1, <1>9, <2>1 DEF RBook, RDone, q
  <2>3. q[k].index \in Nat
    <3>1. q[k] \in REvent
      BY <1>1, <2>1
    <3> QED BY <1>9, <2>1, <3>1 DEF REvent
  <2>4. q[k].index # s.index
    BY <1>1, <2>2, <2>3
  <2> QED BY <1>5, <2>1, <2>2, <2>4
<1>10. RBook(t)
  <2>1. RDone(t.out)
    BY <1>4, <1>9 DEF RDone
  <2>2. \A k \in DOMAIN t.out : t.out[k].e = "item_done" => t.out[k].index < t.index
    BY <1>4, <1>9
  <2>3. t.buf[t.kind] = Gather(RDeltas(t.index), t.out)
    BY <1>1, <1>4, <1>5 DEF RBook
  <2>4. \A j \in Nat :
          j > t.index \/ (t.kind = None /\ j = t.index) => Gather(RDeltas(j), t.out) = <<>>
    BY <1>1, <1>4, <1>5 DEF RBook
  <2>5. t.items = Gather(RItems, t.out)
    BY <1>1, <1>4, <1>7 DEF RBook
  <2> QED BY <2>1, <2>2, <2>3, <2>4, <2>5 DEF RBook
<1>11. ASSUME NEW k \in R!Kinds
       PROVE  RText(t, k) = IF k = s.kind THEN Append(RText(s, k), part) ELSE RText(s, k)
  <2> DEFINE G == Gather(RFull(k), q)
             b == s.buf[k]
  <2>1. G \in Seq(Nat) /\ b \in Seq(Nat) /\ Gather(RFull(k), t.out) = G
    BY <1>1, <1>4, <1>6
  <2>2. /\ ROpen(t, k) = IF k = s.kind THEN Append(b, part) ELSE <<>>
        /\ ROpen(s, k) = IF k = s.kind THEN b ELSE <<>>
    BY <1>4 DEF ROpen
  <2>3. RText(s, k) = G \o ROpen(s, k) /\ RText(t, k) = G \o ROpen(t, k)
    BY <2>1 DEF RText
  <2> HIDE DEF G, b
  <2>4. G \o Append(b, part) = Append(G \o b, part)
    BY <2>1
  <2> QED BY <2>2, <2>3, <2>4
<1>12. "reasoning" \in R!Kinds /\ "message" \in R!Kinds
  BY DEF R!Kinds
<1>13. RContent(t) = RMore(RContent(s), s.kind, part)
  <2>1. RText(t, "reasoning") =
          IF s.kind = "reasoning" THEN Append(RText(s, "reasoning"), part)
          ELSE RText(s, "reasoning")
    BY <1>11, <1>12
  <2>2. RText(t, "message") =
          IF s.kind = "message" THEN Append(RText(s, "message"), part)
          ELSE RText(s, "message")
    BY <1>11, <1>12
  <2> QED BY <1>4, <2>1, <2>2 DEF RContent, RMore
<1> QED BY <1>1, <1>3, <1>4, <1>10, <1>13, RDelta DEF RGood

LEMMA RToolGood ==
  ASSUME NEW s \in RGood, NEW tc \in Tool, NEW part \in Nat
  PROVE  R!ToolCall(s, tc, part) \in RGood /\ RContent(R!ToolCall(s, tc, part)) = RContent(s)
<1> DEFINE begun == IF tc.id # None \/ tc.name # None
                      THEN R!OpenFunctionCall(s, R!Or(tc.id, s.call), R!Or(tc.name, s.name))
                      ELSE s
           ready == IF begun.kind = "function_call" THEN begun
                    ELSE R!OpenFunctionCall(begun, begun.call, begun.name)
<1>1. R!Or(tc.id, s.call) \in Ids \cup {None} /\ R!Or(tc.name, s.name) \in Ids \cup {None}
  BY DEF Tool, RGood, RReading, RState, R!Or
<1>2. begun \in RGood /\ RContent(begun) = RContent(s)
  BY <1>1, ROpenCallGood
<1>3. R!ToolCall(s, tc, part) = IF tc.args THEN R!Delta(ready, part) ELSE begun
  BY DEF R!ToolCall
<1> HIDE DEF begun
<1>4. begun.call \in Ids \cup {None} /\ begun.name \in Ids \cup {None}
  BY <1>2 DEF RGood, RReading, RState
<1>5. ready \in RGood /\ ready.kind = "function_call" /\ RContent(ready) = RContent(s)
  BY <1>2, <1>4, ROpenCallGood
<1>6. "function_call" # None
  BY NoneAssumption
<1> HIDE DEF ready
<1>7. /\ R!Delta(ready, part) \in RGood
      /\ RContent(R!Delta(ready, part)) = RMore(RContent(ready), "function_call", part)
  BY <1>5, <1>6, RDeltaGood
<1>8. RMore(RContent(ready), "function_call", part) = RContent(ready)
  BY DEF RMore, RContent
<1> QED BY <1>2, <1>3, <1>5, <1>7, <1>8

RAcc == [reasoning : Seq(Nat), text : Seq(Nat), fcs : Seq(Call), stop : Parts, usage : Parts,
         status : {None, "failed", "incomplete", "completed"}]

\* What a client reads in the body.
RCollected(a) == [reasoning |-> a.reasoning, text |-> a.text, stop |-> a.stop]

LEMMA RCollectTool ==
  ASSUME NEW a \in RAcc, NEW tc \in Tool, NEW part \in Nat
  PROVE  R!CollectTool(a, tc, part) \in RAcc
         /\ RCollected(R!CollectTool(a, tc, part)) = RCollected(a)
<1> DEFINE call == [id |-> tc.id, name |-> tc.name, args |-> <<>>]
           b == IF tc.id # None \/ tc.name # None
                  THEN [a EXCEPT !.fcs = Append(@, call)] ELSE a
           longer == [b.fcs EXCEPT ![Len(b.fcs)].args = Append(@, part)]
<1>1. call \in Call
  BY DEF Call, Tool
<1>2. b \in RAcc /\ RCollected(b) = RCollected(a)
  <2> HIDE DEF call
  <2>1. Append(a.fcs, call) \in Seq(Call)
    BY <1>1 DEF RAcc
  <2> QED BY <2>1 DEF RAcc, RCollected
<1>3. R!CollectTool(a, tc, part) =
        IF tc.args /\ b.fcs # <<>> THEN [b EXCEPT !.fcs = longer] ELSE b
  BY DEF R!CollectTool
<1> HIDE DEF b
<1>4. b.fcs # <<>> => longer \in Seq(Call)
  BY <1>2, LastCall DEF RAcc
<1> HIDE DEF longer
<1> QED BY <1>2, <1>3, <1>4 DEF RAcc, RCollected

LEMMA RUsage ==
  ASSUME NEW c \in Chunks, NEW part \in Nat
  PROVE  /\ \A s \in RGood : /\ R!UsageOf(s, c, part) \in RGood
                             /\ RContent(R!UsageOf(s, c, part)) = RContent(s)
         /\ \A a \in RAcc : /\ R!UsageOf(a, c, part) \in RAcc
                            /\ RCollected(R!UsageOf(a, c, part)) = RCollected(a)
<1>1. c.usage \in BOOLEAN /\ part \in Parts
  BY ChunksAssumption DEF Parts
<1>2. ASSUME NEW s \in RGood
      PROVE  /\ R!UsageOf(s, c, part) \in RGood
             /\ RContent(R!UsageOf(s, c, part)) = RContent(s)
  <2> DEFINE t == [s EXCEPT !.usage = part]
  <2>1. s \in RState /\ s.out \in Seq(REvent) /\ RBook(s) /\ s \in RReading
    BY DEF RGood, RReading, RState
  <2>2. /\ t \in RReading /\ t.out = s.out /\ t.kind = s.kind /\ t.index = s.index
        /\ t.buf = s.buf /\ t.items = s.items /\ t.stop = s.stop
    BY <1>1 DEF RGood, RReading, RState, RFit
  <2> HIDE DEF t
  <2>3. RSame(s.out, t.out)
    BY <2>1, <2>2 DEF RSame
  <2>4. t \in RGood /\ RContent(t) = RContent(s)
    BY <2>1, <2>2, <2>3, RCarry DEF RGood
  <2> QED BY <2>4 DEF R!UsageOf, t
<1>3. ASSUME NEW a \in RAcc
      PROVE  /\ R!UsageOf(a, c, part) \in RAcc
             /\ RCollected(R!UsageOf(a, c, part)) = RCollected(a)
  BY <1>1 DEF R!UsageOf, RAcc, RCollected
<1> QED BY <1>2, <1>3

\* Both ways of answering read the same in a chunk.
LEMMA RSameChunk ==
  ASSUME NEW s \in RGood, NEW a \in RAcc, RContent(s) = RCollected(a),
         NEW c \in Chunks, NEW part \in Nat
  PROVE  /\ R!HandleChunk(s, c, part) \in RGood /\ R!Collect(a, c, part) \in RAcc
         /\ RContent(R!HandleChunk(s, c, part)) = RCollected(R!Collect(a, c, part))
<1>1. /\ c.choice \in BOOLEAN /\ c.think \in BOOLEAN /\ c.text \in BOOLEAN
      /\ c.tools \in Seq(Tool) /\ c.stop \in BOOLEAN /\ c.usage \in BOOLEAN
  BY ChunksAssumption
<1>2. part \in Parts
  BY DEF Parts
<1> DEFINE u == R!UsageOf(a, c, part)
<1>3. u \in RAcc /\ RCollected(u) = RCollected(a)
  BY RUsage
<1>4. CASE ~c.choice
  BY <1>4, RUsage DEF R!HandleChunk, R!Collect
<1>5. CASE c.choice
  <2> DEFINE s1 == IF c.think THEN R!Delta(R!OpenText(s, "reasoning"), part) ELSE s
             s2 == IF c.text THEN R!Delta(R!OpenText(s1, "message"), part) ELSE s1
             s3 == R!ToolCalls(s2, c.tools, part)
             s4 == [s3 EXCEPT !.stop = part]
             a1 == IF c.think THEN [u EXCEPT !.reasoning = Append(@, part)] ELSE u
             a2 == IF c.text THEN [a1 EXCEPT !.text = Append(@, part)] ELSE a1
             a3 == R!CollectTools(a2, c.tools, part)
             a4 == [a3 EXCEPT !.stop = part]
  <2>1. /\ "reasoning" \in R!Kinds /\ "message" \in R!Kinds
        /\ "reasoning" # None /\ "message" # None
    BY NoneAssumption DEF R!Kinds
  <2> HIDE DEF u
  <2>2. s1 \in RGood /\ a1 \in RAcc /\ RContent(s1) = RCollected(a1)
    <3>1. CASE c.think
      <4> DEFINE o == R!OpenText(s, "reasoning")
      <4>0. o \in RGood /\ o.kind = "reasoning" /\ RContent(o) = RContent(s)
        BY <2>1, ROpenTextGood
      <4> HIDE DEF o
      <4>1. R!Delta(o, part) \in RGood
            /\ RContent(R!Delta(o, part)) = RMore(RContent(o), "reasoning", part)
        BY <2>1, <4>0, RDeltaGood
      <4>2. s1 = R!Delta(o, part) /\ a1 = [u EXCEPT !.reasoning = Append(@, part)]
        BY <3>1 DEF o
      <4>3. a1 \in RAcc
        <5>1. Append(u.reasoning, part) \in Seq(Nat)
          BY <1>3 DEF RAcc
        <5> QED BY <1>3, <4>2, <5>1 DEF RAcc
      <4>4. RCollected(a1) = RMore(RCollected(u), "reasoning", part)
        BY <1>3, <4>2 DEF RAcc, RCollected, RMore
      <4> HIDE DEF s1, a1
      <4> QED BY <1>3, <4>0, <4>1, <4>2, <4>3, <4>4
    <3>2. CASE ~c.think
      BY <1>3, <3>2
    <3> QED BY <1>1, <3>1, <3>2
  <2> HIDE DEF s1, a1
  <2>3. s2 \in RGood /\ a2 \in RAcc /\ RContent(s2) = RCollected(a2)
    <3>1. CASE c.text
      <4> DEFINE o == R!OpenText(s1, "message")
      <4>0. o \in RGood /\ o.kind = "message" /\ RContent(o) = RContent(s1)
        BY <2>1, <2>2, ROpenTextGood
      <4> HIDE DEF o
      <4>1. R!Delta(o, part) \in RGood
            /\ RContent(R!Delta(o, part)) = RMore(RContent(o), "message", part)
        BY <2>1, <4>0, RDeltaGood
      <4>2. s2 = R!Delta(o, part) /\ a2 = [a1 EXCEPT !.text = Append(@, part)]
        BY <3>1 DEF o
      <4>3. a2 \in RAcc
        <5>1. Append(a1.text, part) \in Seq(Nat)
          BY <2>2 DEF RAcc
        <5> QED BY <2>2, <4>2, <5>1 DEF RAcc
      <4>4. RCollected(a2) = RMore(RCollected(a1), "message", part)
        BY <2>2, <4>2 DEF RAcc, RCollected, RMore
      <4> HIDE DEF s2, a2
      <4> QED BY <2>2, <4>0, <4>1, <4>2, <4>3, <4>4
    <3>2. CASE ~c.text
      BY <2>2, <3>2
    <3> QED BY <1>1, <3>1, <3>2
  <2> HIDE DEF s2, a2
  <2>4. s3 \in RGood /\ RContent(s3) = RContent(s2)
    <3> DEFINE ST == {x \in RGood : RContent(x) = RContent(s2)}
    <3>1. RClosed(ST, part)
      BY RToolGood DEF RClosed
    <3>2. s2 \in ST
      BY <2>3
    <3> HIDE DEF ST
    <3>3. PICK g : RCalls(g, ST, s2, c.tools, part)
      BY <1>1, <3>1, <3>2, RToolCalls
    <3>4. s3 \in ST
      BY <1>1, <3>3 DEF RCalls
    <3> QED BY <3>4 DEF ST
  <2>5. a3 \in RAcc /\ RCollected(a3) = RCollected(a2)
    <3> DEFINE ST == {x \in RAcc : RCollected(x) = RCollected(a2)}
    <3>1. RKept(ST, part)
      BY RCollectTool DEF RKept
    <3>2. a2 \in ST
      BY <2>3
    <3> HIDE DEF ST
    <3>3. PICK g : RGathering(g, ST, a2, c.tools, part)
      BY <1>1, <3>1, <3>2, RGathers
    <3>4. a3 \in ST
      BY <1>1, <3>3 DEF RGathering
    <3> QED BY <3>4 DEF ST
  <2>6. /\ R!HandleChunk(s, c, part) = IF c.stop THEN R!UsageOf(s4, c, part) ELSE s3
        /\ R!Collect(a, c, part) = IF c.stop THEN a4 ELSE a3
    BY <1>5 DEF R!HandleChunk, R!Collect, s1, s2, s3, a1, a2, a3, u
  <2> HIDE DEF s3, a3
  <2>7. s4 \in RGood /\ a4 \in RAcc /\ RContent(s4) = RCollected(a4)
    <3>1. s3 \in RReading /\ s3 \in RState /\ s3.out \in Seq(REvent) /\ RBook(s3)
      BY <2>4 DEF RGood, RReading, RState
    <3>2. /\ s4 \in RReading /\ s4.out = s3.out /\ s4.kind = s3.kind /\ s4.index = s3.index
          /\ s4.buf = s3.buf /\ s4.items = s3.items /\ s4.stop = part
      BY <1>2, <3>1 DEF RReading, RState, RFit
    <3>3. a4 \in RAcc /\ a4.reasoning = a3.reasoning /\ a4.text = a3.text /\ a4.stop = part
      BY <1>2, <2>5 DEF RAcc
    <3> HIDE DEF s4, a4
    <3>4. RBook(s4)
      BY <3>1, <3>2 DEF RBook
    <3>5. /\ RText(s4, "reasoning") = RText(s3, "reasoning")
          /\ RText(s4, "message") = RText(s3, "message")
      BY <3>2 DEF RText, ROpen
    <3>6. RContent(s3) = RCollected(a3)
      BY <2>3, <2>4, <2>5
    <3>7. RContent(s4) = RCollected(a4)
      BY <3>2, <3>3, <3>5, <3>6 DEF RContent, RCollected
    <3> QED BY <3>2, <3>3, <3>4, <3>7 DEF RGood
  <2> HIDE DEF s4, a4
  <2>8. R!UsageOf(s4, c, part) \in RGood /\ RContent(R!UsageOf(s4, c, part)) = RContent(s4)
    BY <2>7, RUsage
  <2> QED BY <2>3, <2>4, <2>5, <2>6, <2>7, <2>8
<1> QED BY <1>1, <1>4, <1>5

----------------------------------------------------------------------------

\* The response is over: the events agree with one another, and a completed one with
\* the body.
REnding(s, a) ==
  /\ s.out \in Seq(REvent) /\ RDone(s.out)
  /\ RLast(s.out).e = "completed" =>
       /\ RLast(s.out).output = Gather(RItems, s.out)
       /\ Gather(RFull("reasoning"), s.out) = a.reasoning
       /\ Gather(RFull("message"), s.out) = a.text
       /\ RLast(s.out).status = a.status

\* The invariant behind R!OutputIsStream and R!SameContent.
RAlike ==
  /\ racc \in RAcc
  /\ IF ended THEN REnding(rst, racc)
     ELSE rst \in RGood /\ RContent(rst) = RCollected(racc)

LEMMA RDoneLast ==
  ASSUME NEW q \in Seq(REvent), RDone(q), NEW ev \in REvent, ev.e \in {"completed", "failed"}
  PROVE  RDone(Append(q, ev)) /\ RLast(Append(q, ev)) = ev
<1> DEFINE r == Append(q, ev)
<1>1. RSame(q, r) /\ r[Len(r)] = ev
  BY RQuiet
<1> HIDE DEF r
<1>2. RDone(r) /\ RLast(r) = ev
  BY <1>1 DEF RSame, RDone, RLast
<1> QED BY <1>2 DEF r

LEMMA RFailEnding ==
  ASSUME NEW s \in RGood, NEW a
  PROVE  REnding(R!Fail(s), a)
<1> DEFINE ev == [e |-> "failed"]
           t == R!Fail(s)
<1>1. s \in RState /\ s.out \in Seq(REvent) /\ RDone(s.out)
  BY DEF RGood, RReading, RState, RBook
<1>2. ev \in REvent /\ ev.e = "failed"
  BY DEF REvent
<1>3. t.out = Append(s.out, ev)
  BY <1>1 DEF R!Fail, R!Emit, RState
<1> HIDE DEF ev, t
<1>4. t.out \in Seq(REvent) /\ RDone(t.out) /\ RLast(t.out) = ev
  BY <1>1, <1>2, <1>3, RDoneLast
<1>5. REnding(t, a)
  BY <1>2, <1>4 DEF REnding
<1> QED BY <1>5 DEF t

LEMMA RCompleteEnding ==
  ASSUME NEW s \in RGood, NEW a, RContent(s) = RCollected(a), a.status = R!Status(a.stop)
  PROVE  REnding(R!Complete(s), a)
<1> DEFINE c == R!CloseItem(s)
           ev == [e |-> "completed", output |-> c.items, status |-> R!Status(c.stop),
                  usage |-> c.usage]
           t == R!Complete(s)
<1>1. c \in RGood /\ c.kind = None /\ RContent(c) = RCollected(a)
  BY RCloseGood
<1>2. t = R!Emit(c, ev)
  BY DEF R!Complete
<1> HIDE DEF c
<1>3. c \in RState /\ c.out \in Seq(REvent) /\ RBook(c)
  BY <1>1 DEF RGood, RReading, RState
<1>4. /\ ev \in REvent /\ ev.e = "completed" /\ ev.output = c.items
      /\ ev.status = R!Status(c.stop)
  BY <1>3 DEF REvent, RState, R!Status
<1>5. t.out = Append(c.out, ev)
  BY <1>2, <1>3 DEF R!Emit, RState
<1> HIDE DEF ev, t
<1>6. RSame(c.out, t.out)
  BY <1>3, <1>4, <1>5, RQuiet
<1>7. t.out \in Seq(REvent) /\ RDone(t.out) /\ RLast(t.out) = ev
  BY <1>3, <1>4, <1>5, RDoneLast DEF RBook
<1>8. ev.output = Gather(RItems, t.out)
  BY <1>3, <1>4, <1>6 DEF RBook, RSame
<1>9. ASSUME NEW kind, kind # None
      PROVE  RText(c, kind) = Gather(RFull(kind), t.out)
  <2> DEFINE G == Gather(RFull(kind), c.out)
  <2>1. G \in Seq(Nat)
    <3>1. RFull1(c.out, ev, kind)
      BY <1>3, <1>4, RGrown
    <3> QED BY <3>1 DEF RFull1
  <2>2. G = Gather(RFull(kind), t.out)
    BY <1>6 DEF RSame
  <2>3. RText(c, kind) = G \o <<>>
    BY <1>1, <1>9 DEF RText, ROpen
  <2> HIDE DEF G
  <2> QED BY <2>1, <2>2, <2>3
<1>10. "reasoning" # None /\ "message" # None
  BY NoneAssumption
<1>11. /\ RText(c, "reasoning") = a.reasoning /\ RText(c, "message") = a.text
       /\ c.stop = a.stop
  BY <1>1 DEF RContent, RCollected
<1>12. REnding(t, a)
  BY <1>4, <1>7, <1>8, <1>9, <1>10, <1>11 DEF REnding
<1> QED BY <1>12 DEF t

LEMMA RAlikeMeans == RAlike => R!OutputIsStream /\ R!SameContent
<1> SUFFICES ASSUME RAlike PROVE R!OutputIsStream /\ R!SameContent
  OBVIOUS
<1> DEFINE q == rst.out
<1>1. /\ q \in Seq(REvent) /\ RDone(q)
      /\ RLast(q).e = "completed" => ended
  BY DEF RAlike, REnding, RGood, RReading, RState, RBook, RFit
<1>2. DOMAIN q = 1 .. Len(q) /\ \A k \in DOMAIN q : q[k] \in REvent
  BY <1>1
<1>3. \A s : A!FlattenSeq(s) = FlattenSeq(s) /\ R!FlattenSeq(s) = FlattenSeq(s)
  BY DEF A!FlattenSeq, R!FlattenSeq, FlattenSeq
<1>4. R!out = q /\ R!Last(q) = RLast(q)
  BY DEF R!out, R!Last, RLast
<1> HIDE DEF q
<1>5. ASSUME NEW i PROVE R!Streamed(i) = Gather(RDeltas(i), q)
  <2>1. \A k \in DOMAIN q :
           RDeltas(i)[q[k]] = IF q[k].e = "delta" /\ q[k].index = i THEN <<q[k].part>> ELSE <<>>
    BY <1>2 DEF RDeltas
  <2>2. R!Streamed(i) =
          FlattenSeq([k \in DOMAIN q |->
            IF q[k].e = "delta" /\ q[k].index = i THEN <<q[k].part>> ELSE <<>>])
    BY <1>3, <1>4 DEF R!Streamed
  <2> QED BY <2>1, <2>2 DEF Gather
<1>6. R!Done = Gather(RItems, q)
  <2>1. \A k \in DOMAIN q :
           RItems[q[k]] = IF q[k].e = "item_done" THEN <<q[k].item>> ELSE <<>>
    BY <1>2 DEF RItems
  <2>2. R!Done =
          FlattenSeq([k \in DOMAIN q |->
            IF q[k].e = "item_done" THEN <<q[k].item>> ELSE <<>>])
    BY <1>3, <1>4 DEF R!Done
  <2> QED BY <2>1, <2>2 DEF Gather
<1>7. ASSUME NEW kind PROVE R!FullOf(kind) = Gather(RFull(kind), q)
  <2>1. \A k \in DOMAIN q :
           RFull(kind)[q[k]] = IF q[k].e = "item_done" /\ q[k].item.kind = kind
                                 THEN q[k].item.full ELSE <<>>
    BY <1>2 DEF RFull
  <2>2. R!FullOf(kind) =
          FlattenSeq([k \in DOMAIN q |->
            IF q[k].e = "item_done" /\ q[k].item.kind = kind THEN q[k].item.full ELSE <<>>])
    BY <1>3, <1>4 DEF R!FullOf
  <2> QED BY <2>1, <2>2 DEF Gather
<1>8. RLast(q).e = "completed" =>
        /\ RLast(q).output = Gather(RItems, q)
        /\ Gather(RFull("reasoning"), q) = racc.reasoning
        /\ Gather(RFull("message"), q) = racc.text
        /\ RLast(q).status = racc.status
  BY <1>1 DEF RAlike, REnding, q
<1>9. R!OutputIsStream
  BY <1>1, <1>4, <1>5, <1>6, <1>8 DEF R!OutputIsStream, RDone
<1>10. R!SameContent
  BY <1>4, <1>7, <1>8 DEF R!SameContent, R!Texts
<1> QED BY <1>9, <1>10

LEMMA InitRAlike == Init => RAlike
<1> SUFFICES ASSUME Init PROVE RAlike
  OBVIOUS
<1>1. rst \in RReading
  BY InitWriting DEF Writing, Init, R!Init
<1> DEFINE ev1 == [e |-> "created"]
           ev2 == [e |-> "in_progress"]
           q == <<ev1>>
<1>2. /\ ev1 \in REvent /\ ev1.e = "created" /\ ev2 \in REvent /\ ev2.e = "in_progress"
  BY DEF REvent
<1>3. /\ rst.out = <<ev1, ev2>> /\ rst.kind = None /\ rst.index = 0 /\ rst.items = <<>>
      /\ rst.stop = None /\ ~ended
  BY DEF Init, R!Init
<1>4. /\ racc \in RAcc /\ racc.reasoning = <<>> /\ racc.text = <<>> /\ racc.stop = None
  BY DEF Init, R!Init, RAcc, Parts
<1> HIDE DEF ev1, ev2
<1>5. RSame(<<>>, q)
  <2>1. q = Append(<<>>, ev1) /\ <<>> \in Seq(REvent)
    BY <1>2
  <2> HIDE DEF q
  <2> QED BY <1>2, <2>1, RQuiet
<1>6. RSame(q, rst.out)
  <2>1. rst.out = Append(q, ev2) /\ q \in Seq(REvent)
    BY <1>2, <1>3
  <2> HIDE DEF q
  <2> QED BY <1>2, <2>1, RQuiet
<1>7. RSame(<<>>, rst.out)
  <2> HIDE DEF q
  <2> QED BY <1>5, <1>6, RSameTwice
<1>8. \A C : Gather(C, <<>>) = <<>>
  BY DEF Gather, FlattenSeq
<1>9. RBook(rst)
  <2>1. \A k \in DOMAIN rst.out : rst.out[k].e # "item_done"
    BY <1>7 DEF RSame
  <2>2. RDone(rst.out)
    BY <2>1 DEF RDone
  <2>3. \A j : Gather(RDeltas(j), rst.out) = <<>>
    BY <1>7, <1>8 DEF RSame
  <2>4. rst.items = Gather(RItems, rst.out)
    BY <1>3, <1>7, <1>8 DEF RSame
  <2> QED BY <1>3, <2>1, <2>2, <2>3, <2>4 DEF RBook
<1>10. ASSUME NEW kind, kind # None PROVE RText(rst, kind) = <<>>
  <2>1. Gather(RFull(kind), rst.out) = <<>>
    BY <1>7, <1>8 DEF RSame
  <2>2. ROpen(rst, kind) = <<>>
    BY <1>3, <1>10 DEF ROpen
  <2> QED BY <2>1, <2>2 DEF RText
<1>11. RContent(rst) = RCollected(racc)
  BY <1>3, <1>4, <1>10, NoneAssumption DEF RContent, RCollected
<1> QED BY <1>1, <1>3, <1>4, <1>9, <1>11 DEF RAlike, RGood

LEMMA StepRAlike == Writing /\ RAlike /\ [Next]_vars => RAlike'
<1> SUFFICES ASSUME Writing, RAlike, [Next]_vars PROVE RAlike'
  OBVIOUS
<1>1. CASE UNCHANGED vars
  BY <1>1 DEF RAlike, vars
<1>2. ASSUME NEW c \in Chunks, Chunk(c) PROVE RAlike'
  <2> DEFINE part == n'
  <2>1. /\ part \in Nat /\ ~ended /\ ended' = ended
        /\ rst' = R!HandleChunk(rst, c, part) /\ racc' = R!Collect(racc, c, part)
    <3>1. n' = n + 1 /\ R!Chunk(c, n')
      BY <1>2 DEF Chunk
    <3> QED BY <3>1 DEF R!Chunk, Writing
  <2> HIDE DEF part
  <2>2. rst \in RGood /\ racc \in RAcc /\ RContent(rst) = RCollected(racc)
    BY <2>1 DEF RAlike
  <2>3. rst' \in RGood /\ racc' \in RAcc /\ RContent(rst') = RCollected(racc')
    BY <2>1, <2>2, RSameChunk
  <2> QED BY <2>1, <2>3 DEF RAlike
<1>3. ASSUME NEW failed \in BOOLEAN, R!End(failed) PROVE RAlike'
  <2> DEFINE status == IF failed THEN "failed" ELSE R!Status(racc.stop)
             a == [racc EXCEPT !.status = status]
  <2>1. /\ rst \in RGood /\ racc \in RAcc /\ RContent(rst) = RCollected(racc)
        /\ ended' = TRUE /\ racc' = a
        /\ rst' = IF failed THEN R!Fail(rst) ELSE R!Complete(rst)
    BY <1>3 DEF R!End, RAlike
  <2>2. status \in {"failed", "incomplete", "completed"}
    BY DEF R!Status
  <2>3. /\ a \in RAcc /\ a.status = status /\ a.stop = racc.stop
        /\ RCollected(a) = RCollected(racc)
    <3> HIDE DEF status
    <3> QED BY <2>1, <2>2 DEF RAcc, RCollected
  <2>4. CASE failed
    <3>1. REnding(R!Fail(rst), a)
      BY <2>1, RFailEnding
    <3> QED BY <2>1, <2>3, <2>4, <3>1 DEF RAlike
  <2>5. CASE ~failed
    <3>1. a.status = R!Status(a.stop)
      BY <2>3, <2>5
    <3> HIDE DEF a
    <3>2. REnding(R!Complete(rst), a)
      BY <2>1, <2>3, <3>1, RCompleteEnding
    <3> QED BY <2>1, <2>3, <2>5, <3>2 DEF RAlike
  <2> QED BY <2>4, <2>5
<1>4. CASE UpstreamError
  BY <1>3, <1>4 DEF UpstreamError
<1>5. ASSUME NEW data \in BOOLEAN, FinishEvent(data) PROVE RAlike'
  BY <1>3, <1>5 DEF FinishEvent
<1>6. ASSUME NEW broken \in BOOLEAN, BodyEnds(broken) PROVE RAlike'
  BY <1>3, <1>6 DEF BodyEnds, RAlike
<1> QED BY <1>1, <1>2, <1>4, <1>5, <1>6 DEF Next

----------------------------------------------------------------------------
(* The content of a chat completion.                                       *)

OTool == [call : Tool, index : Nat]
OIndexer == [cur : Nat, seen : BOOLEAN]
OFragment == [call : Tool, index : Nat, part : Nat]
OAcc == [content : Seq(Nat), reasoning : Seq(Nat), order : Seq(Nat), map : Seq(Call),
         finish : Parts, usage : Parts, idx : OIndexer]

OLast(s) == IF s = <<>> THEN None ELSE s[Len(s)]

\* What a fragment adds to the call at an index.
OIds(i) == [f \in OFragment |->
  IF f.index = i /\ f.call.id # None THEN <<f.call.id>> ELSE <<>>]
ONames(i) == [f \in OFragment |->
  IF f.index = i /\ f.call.name # None THEN <<f.call.name>> ELSE <<>>]
OArgs(i) == [f \in OFragment |->
  IF f.index = i /\ f.call.args THEN <<f.part>> ELSE <<>>]
OCallOf(fs, i) == [id |-> OLast(Gather(OIds(i), fs)), name |-> OLast(Gather(ONames(i), fs)),
                   args |-> Gather(OArgs(i), fs)]
OBlank == [id |-> None, name |-> None, args |-> <<>>]

\* The call with one more fragment.
OLonger(call, tc, part) ==
  [id |-> O!Or(tc.id, call.id), name |-> O!Or(tc.name, call.name),
   args |-> IF tc.args THEN Append(call.args, part) ELSE call.args]

\* A gathering to which an element adds one thing or none.
LEMMA OneOrNone ==
  ASSUME NEW E, NEW X, NEW C, Contributes(C, E, X), NEW q \in Seq(E), NEW ev \in E,
         NEW Adds, NEW x, Adds \in BOOLEAN, Adds => x \in X,
         C[ev] = IF Adds THEN <<x>> ELSE <<>>
  PROVE  /\ Gather(C, q) \in Seq(X)
         /\ Gather(C, Append(q, ev)) = IF Adds THEN Append(Gather(C, q), x) ELSE Gather(C, q)
<1>1. Grows(C, X, q, ev)
  BY Gathered
<1> DEFINE G == Gather(C, q)
<1>2. G \in Seq(X) /\ Gather(C, Append(q, ev)) = G \o C[ev]
  BY <1>1 DEF Grows
<1> HIDE DEF G
<1>3. G \o <<>> = G /\ (Adds => G \o <<x>> = Append(G, x))
  BY <1>2
<1> QED BY <1>2, <1>3 DEF G

LEMMA LastAdded ==
  ASSUME NEW X, NEW G \in Seq(X), NEW x \in X
  PROVE  OLast(Append(G, x)) = x /\ (G # <<>> => OLast(G) \in X)
<1>1. Append(G, x) # <<>> /\ Append(G, x)[Len(Append(G, x))] = x
  OBVIOUS
<1>2. G # <<>> => G[Len(G)] \in X
  OBVIOUS
<1> QED BY <1>1, <1>2 DEF OLast

LEMMA OCallGrown ==
  ASSUME NEW fs \in Seq(OFragment), NEW f \in OFragment, NEW i
  PROVE  /\ OCallOf(fs, i) \in Call
         /\ OCallOf(Append(fs, f), i) =
              IF f.index = i THEN OLonger(OCallOf(fs, i), f.call, f.part) ELSE OCallOf(fs, i)
<1>1. ASSUME NEW x \in OFragment
      PROVE  /\ x.call.id \in Ids \cup {None} /\ x.call.name \in Ids \cup {None}
             /\ x.call.args \in BOOLEAN /\ x.part \in Nat
  BY DEF OFragment, Tool
<1> DEFINE I == Gather(OIds(i), fs)
           N == Gather(ONames(i), fs)
           G == Gather(OArgs(i), fs)
<1>2. /\ I \in Seq(Ids)
      /\ Gather(OIds(i), Append(fs, f)) =
           IF f.index = i /\ f.call.id # None THEN Append(I, f.call.id) ELSE I
  <2> DEFINE C == OIds(i)
             Adds == f.index = i /\ f.call.id # None
             x == f.call.id
  <2>1. Contributes(C, OFragment, Ids)
    BY <1>1 DEF OIds, Contributes
  <2>2. Adds \in BOOLEAN /\ (Adds => x \in Ids) /\ C[f] = IF Adds THEN <<x>> ELSE <<>>
    BY <1>1 DEF OIds
  <2> HIDE DEF C, Adds, x
  <2>3. /\ Gather(C, fs) \in Seq(Ids)
        /\ Gather(C, Append(fs, f)) = IF Adds THEN Append(Gather(C, fs), x) ELSE Gather(C, fs)
    BY <2>1, <2>2, OneOrNone
  <2> QED BY <2>3 DEF C, Adds, x
<1>3. /\ N \in Seq(Ids)
      /\ Gather(ONames(i), Append(fs, f)) =
           IF f.index = i /\ f.call.name # None THEN Append(N, f.call.name) ELSE N
  <2> DEFINE C == ONames(i)
             Adds == f.index = i /\ f.call.name # None
             x == f.call.name
  <2>1. Contributes(C, OFragment, Ids)
    BY <1>1 DEF ONames, Contributes
  <2>2. Adds \in BOOLEAN /\ (Adds => x \in Ids) /\ C[f] = IF Adds THEN <<x>> ELSE <<>>
    BY <1>1 DEF ONames
  <2> HIDE DEF C, Adds, x
  <2>3. /\ Gather(C, fs) \in Seq(Ids)
        /\ Gather(C, Append(fs, f)) = IF Adds THEN Append(Gather(C, fs), x) ELSE Gather(C, fs)
    BY <2>1, <2>2, OneOrNone
  <2> QED BY <2>3 DEF C, Adds, x
<1>4. /\ G \in Seq(Nat)
      /\ Gather(OArgs(i), Append(fs, f)) =
           IF f.index = i /\ f.call.args THEN Append(G, f.part) ELSE G
  <2> DEFINE C == OArgs(i)
             Adds == f.index = i /\ f.call.args
             x == f.part
  <2>1. Contributes(C, OFragment, Nat)
    BY <1>1 DEF OArgs, Contributes
  <2>2. Adds \in BOOLEAN /\ (Adds => x \in Nat) /\ C[f] = IF Adds THEN <<x>> ELSE <<>>
    BY <1>1 DEF OArgs
  <2> HIDE DEF C, Adds, x
  <2>3. /\ Gather(C, fs) \in Seq(Nat)
        /\ Gather(C, Append(fs, f)) = IF Adds THEN Append(Gather(C, fs), x) ELSE Gather(C, fs)
    BY <2>1, <2>2, OneOrNone
  <2> QED BY <2>3 DEF C, Adds, x
<1>5. OCallOf(fs, i) = [id |-> OLast(I), name |-> OLast(N), args |-> G]
  BY DEF OCallOf
<1> HIDE DEF I, N, G
<1>6. OLast(I) \in Ids \cup {None} /\ OLast(N) \in Ids \cup {None}
  BY <1>2, <1>3 DEF OLast
<1>7. OCallOf(fs, i) \in Call
  BY <1>4, <1>5, <1>6 DEF Call
<1>8. OLast(Gather(OIds(i), Append(fs, f))) =
        IF f.index = i THEN O!Or(f.call.id, OLast(I)) ELSE OLast(I)
  <2>1. f.call.id # None => OLast(Append(I, f.call.id)) = f.call.id
    BY <1>1, <1>2, LastAdded
  <2> QED BY <1>2, <2>1 DEF O!Or
<1>9. OLast(Gather(ONames(i), Append(fs, f))) =
        IF f.index = i THEN O!Or(f.call.name, OLast(N)) ELSE OLast(N)
  <2>1. f.call.name # None => OLast(Append(N, f.call.name)) = f.call.name
    BY <1>1, <1>3, LastAdded
  <2> QED BY <1>3, <2>1 DEF O!Or
<1> QED BY <1>4, <1>5, <1>7, <1>8, <1>9 DEF OCallOf, OLonger

\* The calls collected are those that the fragments so far make at the indices 0, 1
\* and so on; the indexer stands at the last of them.
OCalls(fs, a, t) ==
  LET m == Len(a.order)
  IN /\ fs \in Seq(OFragment)
     /\ Len(a.map) = m
     /\ \A i \in 1 .. m : a.order[i] = i - 1 /\ a.map[i] = OCallOf(fs, i - 1)
     /\ \A i \in Nat : i >= m => OCallOf(fs, i) = OBlank
     /\ IF m = 0 THEN t.cur = 0 /\ ~t.seen ELSE t.cur = m - 1
     /\ {fs[k].index : k \in DOMAIN fs} = 0 .. m - 1

\* What Add leaves alone.
OKept(a, b) ==
  /\ b.content = a.content /\ b.reasoning = a.reasoning
  /\ b.finish = a.finish /\ b.usage = a.usage /\ b.idx = a.idx

LEMMA OStep ==
  ASSUME NEW fs, NEW a \in OAcc, NEW t \in OIndexer, OCalls(fs, a, t),
         NEW tc \in Tool, NEW part \in Nat
  PROVE  LET u == O!NextIndex(t, tc)
             f == [call |-> tc, index |-> u.cur]
             b == O!Add(a, f, part)
         IN /\ u \in OIndexer /\ b \in OAcc /\ OKept(a, b)
            /\ OCalls(Append(fs, [call |-> tc, index |-> u.cur, part |-> part]), b, u)
<1> DEFINE u == O!NextIndex(t, tc)
           f == [call |-> tc, index |-> u.cur]
           g == [call |-> tc, index |-> u.cur, part |-> part]
           m == Len(a.order)
           k == u.cur + 1
           old == OCallOf(fs, u.cur)
           new == OLonger(old, tc, part)
           c == IF f.index \in O!ToSet(a.order) THEN a
                ELSE [a EXCEPT !.order = Append(@, f.index),
                               !.map = Append(@, [id |-> None, name |-> None, args |-> <<>>])]
           b == O!Add(a, f, part)
<1>1. /\ m \in Nat /\ fs \in Seq(OFragment) /\ Len(a.map) = m
      /\ \A i \in 1 .. m : a.order[i] = i - 1 /\ a.map[i] = OCallOf(fs, i - 1)
      /\ \A i \in Nat : i >= m => OCallOf(fs, i) = OBlank
      /\ IF m = 0 THEN t.cur = 0 /\ ~t.seen ELSE t.cur = m - 1
      /\ {fs[j].index : j \in DOMAIN fs} = 0 .. m - 1
  BY DEF OCalls, OAcc
<1>2. a.order \in Seq(Nat) /\ a.map \in Seq(Call) /\ t.cur \in Nat /\ t.seen \in BOOLEAN
  BY DEF OAcc, OIndexer
<1>3. /\ u \in OIndexer /\ u.cur \in Nat
      /\ \/ u.cur = m
         \/ m # 0 /\ u.cur = m - 1
      /\ u.cur = 0 \/ m # 0
  <2>1. CASE tc.id = None
    <3>1. u = t
      BY <2>1 DEF O!NextIndex
    <3> QED BY <1>1, <1>2, <3>1
  <2>2. CASE tc.id # None /\ t.seen
    <3>1. u = [t EXCEPT !.cur = @ + 1]
      BY <2>2 DEF O!NextIndex
    <3>2. u \in OIndexer /\ u.cur = t.cur + 1
      BY <1>2, <3>1 DEF OIndexer
    <3>3. m # 0
      BY <1>1, <2>2
    <3> HIDE DEF u, m
    <3> QED BY <1>1, <1>2, <3>2, <3>3
  <2>3. CASE tc.id # None /\ ~t.seen
    <3>1. u = [t EXCEPT !.seen = TRUE]
      BY <2>3 DEF O!NextIndex
    <3>2. u \in OIndexer /\ u.cur = t.cur
      BY <1>2, <3>1 DEF OIndexer
    <3> HIDE DEF u, m
    <3> QED BY <1>1, <1>2, <3>2
  <2> QED BY <2>1, <2>2, <2>3
<1>4. f.call = tc /\ f.index = u.cur /\ g \in OFragment
      /\ g.call = tc /\ g.index = u.cur /\ g.part = part
  <2> HIDE DEF u
  <2> QED BY <1>3 DEF OFragment
<1>5. old \in Call
  BY <1>1, <1>4, OCallGrown
<1>6. new \in Call
  <2>1. /\ tc.id \in Ids \cup {None} /\ tc.name \in Ids \cup {None}
        /\ old.id \in Ids \cup {None} /\ old.name \in Ids \cup {None} /\ old.args \in Seq(Nat)
    BY <1>5 DEF Tool, Call
  <2> HIDE DEF old
  <2>2. Append(old.args, part) \in Seq(Nat)
    BY <2>1
  <2> QED BY <2>1, <2>2 DEF OLonger, O!Or, Call
<1>7. O!ToSet(a.order) = 0 .. m - 1
  <2>1. O!ToSet(a.order) = {a.order[i] : i \in 1 .. m}
    BY <1>2 DEF O!ToSet
  <2>2. \A x \in 0 .. m - 1 : x + 1 \in 1 .. m /\ a.order[x + 1] = x
    BY <1>1
  <2>3. \A i \in 1 .. m : a.order[i] = i - 1 /\ i - 1 \in 0 .. m - 1
    BY <1>1
  <2> HIDE DEF m
  <2> QED BY <2>1, <2>2, <2>3
<1> HIDE DEF u, g, old, new
<1>8. /\ c \in OAcc /\ OKept(a, c) /\ Len(c.order) = k /\ Len(c.map) = k
      /\ \A i \in 1 .. k : c.order[i] = i - 1
      /\ \A i \in 1 .. k : c.map[i] = OCallOf(fs, i - 1)
  <2>1. CASE u.cur = m
    <3> DEFINE blank == [id |-> None, name |-> None, args |-> <<>>]
    <3>1. f.index \notin O!ToSet(a.order)
      BY <1>1, <1>4, <1>7, <2>1
    <3>2. c = [a EXCEPT !.order = Append(@, u.cur), !.map = Append(@, blank)]
      BY <1>4, <3>1
    <3>3. blank \in Call /\ blank = OCallOf(fs, u.cur)
      BY <1>1, <2>1 DEF OBlank, Call
    <3> HIDE DEF c, blank
    <3>4. Append(a.order, u.cur) \in Seq(Nat) /\ Append(a.map, blank) \in Seq(Call)
      BY <1>2, <1>3, <3>3
    <3>5. /\ c \in OAcc /\ OKept(a, c) /\ c.order = Append(a.order, u.cur)
          /\ c.map = Append(a.map, blank)
      BY <3>2, <3>4 DEF OAcc, OKept
    <3>6. /\ Len(c.order) = m + 1 /\ c.order[m + 1] = u.cur
          /\ \A i \in 1 .. m : c.order[i] = a.order[i]
      BY <1>2, <1>3, <3>5
    <3>7. /\ Len(c.map) = m + 1 /\ c.map[m + 1] = blank
          /\ \A i \in 1 .. m : c.map[i] = a.map[i]
      BY <1>1, <1>2, <3>3, <3>5
    <3> HIDE DEF m
    <3>8. ASSUME NEW i \in 1 .. k
          PROVE  c.order[i] = i - 1 /\ c.map[i] = OCallOf(fs, i - 1)
      <4>1. CASE i \in 1 .. m
        BY <1>1, <3>6, <3>7, <4>1
      <4>2. CASE i = m + 1
        <5>1. i - 1 = u.cur /\ c.order[i] = u.cur /\ c.map[i] = blank
          BY <1>1, <2>1, <3>6, <3>7, <4>2
        <5> QED BY <3>3, <5>1
      <4> QED BY <1>1, <2>1, <4>1, <4>2
    <3> QED BY <2>1, <3>5, <3>6, <3>7, <3>8
  <2>2. CASE m # 0 /\ u.cur = m - 1
    <3>1. f.index \in O!ToSet(a.order)
      BY <1>1, <1>3, <1>4, <1>7, <2>2
    <3>2. c = a /\ k = m
      BY <1>1, <2>2, <3>1
    <3> HIDE DEF m, c
    <3> QED BY <1>1, <2>2, <3>2 DEF OKept, m
  <2> QED BY <1>3, <2>1, <2>2
<1>9. (CHOOSE i \in DOMAIN c.order : c.order[i] = f.index) = k
  <2>1. DOMAIN c.order = 1 .. k
    BY <1>8 DEF OAcc
  <2>2. k \in 1 .. k /\ c.order[k] = f.index
    <3>1. k \in 1 .. k /\ k - 1 = u.cur
      BY <1>3
    <3> HIDE DEF c, k
    <3> QED BY <1>4, <1>8, <3>1
  <2>3. \A i \in 1 .. k : c.order[i] = f.index => i = k
    <3> TAKE i \in 1 .. k
    <3>1. c.order[i] = i - 1 /\ i \in Nat
      BY <1>8
    <3> HIDE DEF c
    <3> QED BY <1>3, <1>4, <3>1
  <2> HIDE DEF c, k, f
  <2> QED BY <2>1, <2>2, <2>3
<1>10. b = [c EXCEPT !.map = [c.map EXCEPT ![k] = new]]
  <2> DEFINE kk == CHOOSE i \in DOMAIN c.order : c.order[i] = f.index
  <2>1. b = [c EXCEPT !.map[kk] =
               [id |-> O!Or(f.call.id, @.id), name |-> O!Or(f.call.name, @.name),
                args |-> IF f.call.args THEN Append(@.args, part) ELSE @.args]]
    BY DEF O!Add
  <2>2. kk = k
    BY <1>9
  <2>3. c.map[k] = old
    <3>1. k \in 1 .. k /\ k - 1 = u.cur
      BY <1>3
    <3> HIDE DEF c, k
    <3> QED BY <1>8, <3>1 DEF old
  <2> HIDE DEF kk, c, k, b
  <2>4. b = [c EXCEPT !.map = [c.map EXCEPT ![k] =
               [id |-> O!Or(f.call.id, c.map[k].id), name |-> O!Or(f.call.name, c.map[k].name),
                args |-> IF f.call.args THEN Append(c.map[k].args, part) ELSE c.map[k].args]]]
    BY <2>1, <2>2
  <2> QED BY <1>4, <2>3, <2>4 DEF new, OLonger
<1> HIDE DEF c, b, f, m
<1>11. /\ b \in OAcc /\ OKept(a, b) /\ b.order = c.order /\ Len(b.map) = k
       /\ \A i \in 1 .. k : b.map[i] = IF i = k THEN new ELSE OCallOf(fs, i - 1)
  <2>1. c.map \in Seq(Call) /\ k \in Nat
    BY <1>3, <1>8 DEF OAcc
  <2> DEFINE mp == [c.map EXCEPT ![k] = new]
  <2>2. mp \in Seq(Call) /\ Len(mp) = k
    <3> DEFINE q == c.map
    <3>1. q \in Seq(Call) /\ Len(q) = k /\ k \in Nat
      BY <1>8, <2>1
    <3>2. k \in 1 .. k
      BY <1>3
    <3> HIDE DEF q, k
    <3>3. DOMAIN q = 1 .. k
      BY <3>1
    <3>4. [q EXCEPT ![k] = new] \in Seq(Call)
      <4>1. q \in [1 .. k -> Call]
        BY <3>1
      <4>2. [q EXCEPT ![k] = new] \in [1 .. k -> Call]
        BY <1>6, <4>1
      <4> QED BY <3>1, <4>2
    <3>5. DOMAIN [q EXCEPT ![k] = new] = 1 .. k
      BY <3>3
    <3> DEFINE r == [q EXCEPT ![k] = new]
    <3> HIDE DEF r
    <3>6. r \in Seq(Call) /\ DOMAIN r = 1 .. k => Len(r) = k
      BY <3>1
    <3> QED BY <3>4, <3>5, <3>6 DEF q, r
  <2>3. \A i \in 1 .. k : mp[i] = IF i = k THEN new ELSE c.map[i]
    BY <1>8, <2>1
  <2> HIDE DEF mp, k
  <2>4. b \in OAcc /\ b.map = mp /\ b.order = c.order /\ OKept(c, b)
    BY <1>8, <1>10, <2>2 DEF OAcc, OKept, mp
  <2>5. OKept(a, b)
    BY <1>8, <2>4 DEF OKept
  <2> QED BY <1>8, <2>2, <2>3, <2>4, <2>5
<1> DEFINE gs == Append(fs, g)
<1>12. \A i : OCallOf(gs, i) = IF i = u.cur THEN new ELSE OCallOf(fs, i)
  <2> TAKE i
  <2>1. OCallOf(gs, i) =
          IF g.index = i THEN OLonger(OCallOf(fs, i), g.call, g.part) ELSE OCallOf(fs, i)
    BY <1>1, <1>4, OCallGrown
  <2> QED BY <1>4, <2>1 DEF new, old
<1>13. {gs[j].index : j \in DOMAIN gs} = 0 .. k - 1
  <2>1. {gs[j].index : j \in DOMAIN gs} = {fs[j].index : j \in DOMAIN fs} \cup {g.index}
    <3>1. /\ DOMAIN gs = 1 .. Len(fs) + 1 /\ DOMAIN fs = 1 .. Len(fs) /\ Len(fs) \in Nat
          /\ gs[Len(fs) + 1] = g /\ \A j \in 1 .. Len(fs) : gs[j] = fs[j]
      BY <1>1, <1>4
    <3> HIDE DEF gs
    <3>2. \A j \in DOMAIN gs : (j \in DOMAIN fs /\ gs[j] = fs[j]) \/ gs[j] = g
      BY <3>1
    <3>3. \A j \in DOMAIN fs : j \in DOMAIN gs /\ gs[j] = fs[j]
      BY <3>1
    <3>4. Len(fs) + 1 \in DOMAIN gs /\ gs[Len(fs) + 1] = g
      BY <3>1
    <3> QED BY <3>2, <3>3, <3>4
  <2>2. (0 .. m - 1) \cup {u.cur} = 0 .. k - 1
    BY <1>1, <1>3
  <2> HIDE DEF gs, k
  <2> QED BY <1>1, <1>4, <2>1, <2>2
<1>14. gs \in Seq(OFragment)
  BY <1>1, <1>4
<1> HIDE DEF gs
<1>15. OCalls(gs, b, u)
  <2>1. k \in Nat /\ k # 0 /\ k - 1 = u.cur /\ Len(b.order) = k
    BY <1>3, <1>8, <1>11
  <2>2. ASSUME NEW i \in 1 .. k
        PROVE  b.order[i] = i - 1 /\ b.map[i] = OCallOf(gs, i - 1)
    <3>1. b.order[i] = i - 1
      BY <1>8, <1>11
    <3>2. b.map[i] = IF i = k THEN new ELSE OCallOf(fs, i - 1)
      BY <1>11
    <3>3. i - 1 = u.cur <=> i = k
      BY <1>3
    <3> HIDE DEF k
    <3> QED BY <1>12, <3>1, <3>2, <3>3
  <2>3. ASSUME NEW i \in Nat, i >= k PROVE OCallOf(gs, i) = OBlank
    <3>1. i # u.cur /\ i >= m
      BY <1>1, <1>3, <2>3
    <3> QED BY <1>1, <1>12, <3>1
  <2> HIDE DEF k
  <2> QED BY <1>11, <1>13, <1>14, <2>1, <2>2, <2>3 DEF OCalls
<1> QED BY <1>3, <1>11, <1>15 DEF b, f, gs, g, u

\* The states between the tool calls of a chunk, for the indexer and the message.
ORemapped(ST) == \A x \in ST, t \in Tool : O!Remapped(x, t) \in ST
ORemapping(g, ST, s, seq) ==
  /\ g \in [0 .. Len(seq) -> ST]
  /\ g[0] = s /\ g[Len(seq)] = O!FoldLeft(O!Remapped, s, seq)
  /\ \A i \in 1 .. Len(seq) : g[i] = O!Remapped(g[i-1], seq[i])

LEMMA ORemaps ==
  ASSUME NEW ST, NEW s \in ST, NEW seq \in Seq(Tool), ORemapped(ST)
  PROVE  \E g : ORemapping(g, ST, s, seq)
<1> DEFINE m == Len(seq)
           F == [p \in ST \X Tool |-> O!Remapped(p[1], p[2])]
           Eq(f) == f = [u \in SUBSET (1 .. m) |->
                           IF u = {} THEN s ELSE O!Remapped(f[u \ {Max(u)}], seq[Max(u)])]
           iter == CHOOSE f : Eq(f)
<1>1. O!FoldLeft(O!Remapped, s, seq) = iter[1 .. m]
  <2>1. DOMAIN seq = 1 .. m
    OBVIOUS
  <2>2. \A u : O!Max(u) = Max(u)
    BY DEF O!Max, Max
  <2>3. O!FoldLeft(O!Remapped, s, seq) =
          (CHOOSE f : f = [u \in SUBSET DOMAIN seq |->
                             IF u = {} THEN s
                             ELSE O!Remapped(f[u \ {O!Max(u)}], seq[O!Max(u)])])[DOMAIN seq]
    BY DEF O!FoldLeft, O!MapThenFoldSet
  <2> QED BY <2>1, <2>2, <2>3
<1>2. F \in [ST \X Tool -> ST]
  BY DEF ORemapped
<1>3. \A u \in SUBSET (1 .. m) :
         u # {} => seq[Max(u)] \in Tool /\ u \ {Max(u)} \in SUBSET (1 .. m)
  BY Greatest
<1>4. \E f : Eq(f)
  <2>1. PICK f \in [SUBSET (1 .. m) -> ST] :
          \A u \in SUBSET (1 .. m) : Folded(f, F, s, seq, u)
    BY <1>2, FoldExists
  <2>2. ASSUME NEW u \in SUBSET (1 .. m)
        PROVE  f[u] = IF u = {} THEN s ELSE O!Remapped(f[u \ {Max(u)}], seq[Max(u)])
    <3>1. u # {} => f[u \ {Max(u)}] \in ST
      BY <1>3
    <3> QED BY <1>3, <2>1, <3>1 DEF Folded
  <2> QED BY <2>1, <2>2
<1>5. Eq(iter)
  BY <1>4
<1> HIDE DEF iter
<1>6. Solution(iter, ST, F, s, seq)
  <2>1. iter[{}] = s
    BY <1>5
  <2>2. ASSUME NEW u \in SUBSET (1 .. m), u # {}, iter[u \ {Max(u)}] \in ST
        PROVE  Folded(iter, F, s, seq, u)
    <3>1. iter[u] = O!Remapped(iter[u \ {Max(u)}], seq[Max(u)])
      BY <1>5, <2>2
    <3> QED BY <1>3, <2>2, <3>1 DEF Folded
  <2> QED BY <2>1, <2>2 DEF Solution
<1>7. PICK g : Trace(g, ST, F, s, seq, iter)
  <2> HIDE DEF F
  <2> QED BY <1>2, <1>6, FoldSteps
<1>8. g \in [0 .. m -> ST] /\ g[0] = s /\ g[m] = iter[1 .. m]
  BY <1>7 DEF Trace
<1>9. ASSUME NEW i \in 1 .. m PROVE g[i] = O!Remapped(g[i-1], seq[i])
  <2>1. g[i - 1] \in ST /\ seq[i] \in Tool
    BY <1>8
  <2>2. g[i] = F[<<g[i - 1], seq[i]>>]
    BY <1>7 DEF Trace
  <2> QED BY <2>1, <2>2
<1> QED BY <1>1, <1>8, <1>9 DEF ORemapping

OAdded(ST, part) == \A x \in ST, t \in OTool : O!Add(x, t, part) \in ST
OAdding(g, ST, s, seq, part) ==
  /\ g \in [0 .. Len(seq) -> ST]
  /\ g[0] = s /\ g[Len(seq)] = O!AddAll(s, seq, part)
  /\ \A i \in 1 .. Len(seq) : g[i] = O!Add(g[i-1], seq[i], part)

LEMMA OAdds ==
  ASSUME NEW ST, NEW s \in ST, NEW seq \in Seq(OTool), NEW part, OAdded(ST, part)
  PROVE  \E g : OAdding(g, ST, s, seq, part)
<1> DEFINE m == Len(seq)
           F == [p \in ST \X OTool |-> O!Add(p[1], p[2], part)]
           Eq(f) == f = [u \in SUBSET (1 .. m) |->
                           IF u = {} THEN s ELSE O!Add(f[u \ {Max(u)}], seq[Max(u)], part)]
           iter == CHOOSE f : Eq(f)
<1>1. O!AddAll(s, seq, part) = iter[1 .. m]
  <2>1. DOMAIN seq = 1 .. m
    OBVIOUS
  <2>2. \A u : O!Max(u) = Max(u)
    BY DEF O!Max, Max
  <2>3. O!AddAll(s, seq, part) =
          (CHOOSE f : f = [u \in SUBSET DOMAIN seq |->
                             IF u = {} THEN s
                             ELSE O!Add(f[u \ {O!Max(u)}], seq[O!Max(u)], part)])[DOMAIN seq]
    BY DEF O!AddAll, O!FoldLeft, O!MapThenFoldSet
  <2> QED BY <2>1, <2>2, <2>3
<1>2. F \in [ST \X OTool -> ST]
  BY DEF OAdded
<1>3. \A u \in SUBSET (1 .. m) :
         u # {} => seq[Max(u)] \in OTool /\ u \ {Max(u)} \in SUBSET (1 .. m)
  BY Greatest
<1>4. \E f : Eq(f)
  <2>1. PICK f \in [SUBSET (1 .. m) -> ST] :
          \A u \in SUBSET (1 .. m) : Folded(f, F, s, seq, u)
    BY <1>2, FoldExists
  <2>2. ASSUME NEW u \in SUBSET (1 .. m)
        PROVE  f[u] = IF u = {} THEN s ELSE O!Add(f[u \ {Max(u)}], seq[Max(u)], part)
    <3>1. u # {} => f[u \ {Max(u)}] \in ST
      BY <1>3
    <3> QED BY <1>3, <2>1, <3>1 DEF Folded
  <2> QED BY <2>1, <2>2
<1>5. Eq(iter)
  BY <1>4
<1> HIDE DEF iter
<1>6. Solution(iter, ST, F, s, seq)
  <2>1. iter[{}] = s
    BY <1>5
  <2>2. ASSUME NEW u \in SUBSET (1 .. m), u # {}, iter[u \ {Max(u)}] \in ST
        PROVE  Folded(iter, F, s, seq, u)
    <3>1. iter[u] = O!Add(iter[u \ {Max(u)}], seq[Max(u)], part)
      BY <1>5, <2>2
    <3> QED BY <1>3, <2>2, <3>1 DEF Folded
  <2> QED BY <2>1, <2>2 DEF Solution
<1>7. PICK g : Trace(g, ST, F, s, seq, iter)
  <2> HIDE DEF F
  <2> QED BY <1>2, <1>6, FoldSteps
<1>8. g \in [0 .. m -> ST] /\ g[0] = s /\ g[m] = iter[1 .. m]
  BY <1>7 DEF Trace
<1>9. ASSUME NEW i \in 1 .. m PROVE g[i] = O!Add(g[i-1], seq[i], part)
  <2>1. g[i - 1] \in ST /\ seq[i] \in OTool
    BY <1>8
  <2>2. g[i] = F[<<g[i - 1], seq[i]>>]
    BY <1>7 DEF Trace
  <2> QED BY <2>1, <2>2
<1> QED BY <1>1, <1>8, <1>9 DEF OAdding

LEMMA ONext ==
  ASSUME NEW t \in OIndexer, NEW tc \in Tool
  PROVE  O!NextIndex(t, tc) \in OIndexer
<1>1. t.cur + 1 \in Nat
  BY DEF OIndexer
<1> QED BY <1>1 DEF OIndexer, O!NextIndex

\* Each tool call of a chunk gets the index at which the indexer then stands.
OTraced(ts, t, tools) ==
  LET r == O!Remap(t, tools)
      m == Len(tools)
  IN /\ ts \in [0 .. m -> OIndexer] /\ ts[0] = t /\ ts[m] = r.t
     /\ \A i \in 1 .. m : ts[i] = O!NextIndex(ts[i-1], tools[i])
     /\ r.tools \in Seq(OTool) /\ Len(r.tools) = m
     /\ \A i \in 1 .. m : r.tools[i] = [call |-> tools[i], index |-> ts[i].cur]

LEMMA ORemap ==
  ASSUME NEW t \in OIndexer, NEW tools \in Seq(Tool)
  PROVE  \E ts : OTraced(ts, t, tools)
<1> DEFINE ST == [t : OIndexer, tools : Seq(OTool)]
           s == [t |-> t, tools |-> <<>>]
           m == Len(tools)
<1>1. s \in ST /\ s.t = t /\ s.tools = <<>>
  OBVIOUS
<1>2. ASSUME NEW x \in ST, NEW tc \in Tool
      PROVE  /\ O!Remapped(x, tc) \in ST
             /\ O!Remapped(x, tc).t = O!NextIndex(x.t, tc)
             /\ O!Remapped(x, tc).tools =
                  Append(x.tools, [call |-> tc, index |-> O!NextIndex(x.t, tc).cur])
  <2> DEFINE u == O!NextIndex(x.t, tc)
             f == [call |-> tc, index |-> u.cur]
  <2>1. u \in OIndexer
    BY ONext
  <2>2. O!Remapped(x, tc) = [t |-> u, tools |-> Append(x.tools, f)]
    BY DEF O!Remapped
  <2>3. f \in OTool
    BY <2>1 DEF OTool, OIndexer
  <2> HIDE DEF u, f
  <2>4. Append(x.tools, f) \in Seq(OTool)
    BY <2>3
  <2>5. /\ O!Remapped(x, tc) \in ST /\ O!Remapped(x, tc).t = u
        /\ O!Remapped(x, tc).tools = Append(x.tools, f)
    BY <2>1, <2>2, <2>4
  <2> QED BY <2>5 DEF u, f
<1>3. ORemapped(ST)
  BY <1>2 DEF ORemapped
<1> HIDE DEF ST, s
<1>4. PICK g : ORemapping(g, ST, s, tools)
  BY <1>1, <1>3, ORemaps
<1>5. /\ m \in Nat /\ g \in [0 .. m -> ST] /\ g[0] = s /\ g[m] = O!Remap(t, tools)
      /\ \A i \in 1 .. m : g[i] = O!Remapped(g[i-1], tools[i])
  BY <1>4 DEF ORemapping, O!Remap, s
<1> DEFINE ts == [i \in 0 .. m |-> g[i].t]
           frag(i) == [call |-> tools[i], index |-> ts[i].cur]
<1>6. ASSUME NEW i \in 1 .. m
      PROVE  /\ ts[i] = O!NextIndex(ts[i-1], tools[i])
             /\ g[i].tools = Append(g[i-1].tools, frag(i))
             /\ g[i-1].tools \in Seq(OTool) /\ frag(i) \in OTool
  <2>1. i - 1 \in 0 .. m /\ i \in 0 .. m /\ tools[i] \in Tool
    BY <1>5
  <2>2. g[i-1] \in ST /\ g[i] \in ST /\ g[i] = O!Remapped(g[i-1], tools[i])
    BY <1>5, <2>1
  <2>3. /\ g[i].t = O!NextIndex(g[i-1].t, tools[i])
        /\ g[i].tools = Append(g[i-1].tools,
                               [call |-> tools[i], index |-> O!NextIndex(g[i-1].t, tools[i]).cur])
    BY <1>2, <2>1, <2>2
  <2>4. ts[i] = g[i].t /\ ts[i-1] = g[i-1].t
    BY <2>1
  <2>5. ts[i].cur \in Nat
    BY <2>2, <2>4 DEF ST, OIndexer
  <2>6. frag(i) \in OTool
    BY <2>1, <2>5 DEF OTool
  <2> QED BY <2>2, <2>3, <2>4, <2>6 DEF ST
<1>7. ts \in [0 .. m -> OIndexer] /\ ts[0] = t /\ ts[m] = g[m].t
  BY <1>1, <1>5 DEF ST
<1> HIDE DEF ts
<1> DEFINE K == {j \in 0 .. m : /\ Len(g[j].tools) = j
                                /\ \A i \in 1 .. j : g[j].tools[i] = frag(i)}
<1>8. 0 \in K
  BY <1>1, <1>5
<1>9. ASSUME NEW j \in 0 .. m - 1, j \in K PROVE j + 1 \in K
  <2> DEFINE k == j + 1
  <2>1. k \in 1 .. m /\ k - 1 = j /\ j \in Nat /\ k = j + 1 /\ k \in 0 .. m
    BY <1>5
  <2> HIDE DEF k
  <2>2. g[k].tools = Append(g[j].tools, frag(k)) /\ g[j].tools \in Seq(OTool) /\ frag(k) \in OTool
    BY <1>6, <2>1
  <2> DEFINE q == g[j].tools
             x == frag(k)
  <2>3. q \in Seq(OTool) /\ Len(q) = j /\ x \in OTool /\ \A i \in 1 .. j : q[i] = frag(i)
    BY <1>9, <2>2
  <2>4. g[k].tools = Append(q, x)
    BY <2>2
  <2> HIDE DEF q, x
  <2>5. Len(g[k].tools) = k /\ g[k].tools[k] = x /\ \A i \in 1 .. j : g[k].tools[i] = q[i]
    BY <2>1, <2>3, <2>4
  <2>6. \A i \in 1 .. k : g[k].tools[i] = frag(i)
    <3> TAKE i \in 1 .. k
    <3>1. i \in 1 .. j \/ i = k
      BY <2>1
    <3> QED BY <2>3, <2>5, <3>1 DEF x
  <2> QED BY <2>1, <2>5, <2>6 DEF k
<1>10. m \in K
  <2>1. \A j \in 0 .. m - 1 : j \in K => j + 1 \in K
    BY <1>9
  <2>2. m \in 0 .. m
    BY <1>5
  <2> HIDE DEF K, m
  <2> QED BY <1>5, <1>8, <2>1, <2>2, UpTo
<1>11. g[m] \in ST
  BY <1>5
<1>12. OTraced(ts, t, tools)
  <2>1. g[m].tools \in Seq(OTool)
    BY <1>11 DEF ST
  <2>2. Len(g[m].tools) = m /\ \A i \in 1 .. m : g[m].tools[i] = frag(i)
    BY <1>10
  <2>3. \A i \in 1 .. m : ts[i] = O!NextIndex(ts[i-1], tools[i])
    BY <1>6
  <2> QED BY <1>5, <1>7, <2>1, <2>2, <2>3 DEF OTraced
<1> QED BY <1>12

LEMMA OAddTyped ==
  ASSUME NEW a \in OAcc, NEW f \in OTool, NEW part \in Nat
  PROVE  O!Add(a, f, part) \in OAcc
<1> DEFINE blank == [id |-> None, name |-> None, args |-> <<>>]
           b == IF f.index \in O!ToSet(a.order) THEN a
                ELSE [a EXCEPT !.order = Append(@, f.index), !.map = Append(@, blank)]
           k == CHOOSE i \in DOMAIN b.order : b.order[i] = f.index
           call == [id |-> O!Or(f.call.id, b.map[k].id), name |-> O!Or(f.call.name, b.map[k].name),
                    args |-> IF f.call.args THEN Append(b.map[k].args, part) ELSE b.map[k].args]
           mp == [b.map EXCEPT ![k] = call]
<1>1. b \in OAcc
  <2>1. blank \in Call /\ f.index \in Nat
    BY DEF Call, OTool
  <2> HIDE DEF blank
  <2>2. Append(a.order, f.index) \in Seq(Nat) /\ Append(a.map, blank) \in Seq(Call)
    BY <2>1 DEF OAcc
  <2> QED BY <2>2 DEF OAcc
<1>2. O!Add(a, f, part) = [b EXCEPT !.map = mp]
  BY DEF O!Add
<1> HIDE DEF b, k
<1>3. b.map \in Seq(Call)
  BY <1>1 DEF OAcc
<1>4. mp \in Seq(Call)
  <2> DEFINE q == b.map
  <2>1. CASE k \in DOMAIN q
    <3>1. q[k] \in Call /\ f.call \in Tool
      BY <1>3, <2>1 DEF OTool
    <3> DEFINE c == q[k]
    <3>2. c \in Call
      BY <3>1
    <3> HIDE DEF c
    <3>3. Append(c.args, part) \in Seq(Nat)
      BY <3>2 DEF Call
    <3>4. [id |-> O!Or(f.call.id, c.id), name |-> O!Or(f.call.name, c.name),
           args |-> IF f.call.args THEN Append(c.args, part) ELSE c.args] \in Call
      BY <3>1, <3>2, <3>3 DEF Call, Tool, O!Or
    <3>5. call \in Call
      BY <3>4 DEF c
    <3> HIDE DEF call, q
    <3>6. [q EXCEPT ![k] = call] \in Seq(Call)
      <4> DEFINE m == Len(q)
      <4>1. q \in Seq(Call) /\ m \in Nat /\ DOMAIN q = 1 .. m
        BY <1>3 DEF q
      <4>3. q \in [1 .. m -> Call]
        BY <4>1
      <4>2. [q EXCEPT ![k] = call] \in [1 .. m -> Call]
        BY <3>5, <4>3
      <4> HIDE DEF m
      <4> QED BY <4>1, <4>2
    <3> QED BY <3>6 DEF q
  <2>2. CASE k \notin DOMAIN q
    <3> HIDE DEF call
    <3>1. mp = b.map
      BY <1>3, <2>2
    <3> QED BY <1>3, <3>1
  <2> QED BY <2>1, <2>2
<1> HIDE DEF mp
<1> QED BY <1>1, <1>2, <1>4 DEF OAcc

\* The fragments a chunk brings.
OBrings(tools, part) ==
  [j \in DOMAIN tools |-> [call |-> tools[j].call, index |-> tools[j].index, part |-> part]]

LEMMA OAddAll ==
  ASSUME NEW fs, NEW a \in OAcc, NEW t \in OIndexer, OCalls(fs, a, t),
         NEW tools \in Seq(Tool), NEW part \in Nat
  PROVE  LET r == O!Remap(t, tools)
             b == O!AddAll(a, r.tools, part)
         IN /\ r.t \in OIndexer /\ b \in OAcc /\ OKept(a, b)
            /\ r.tools \in Seq(OTool)
            /\ OBrings(r.tools, part) \in Seq(OFragment)
            /\ OCalls(fs \o OBrings(r.tools, part), b, r.t)
<1> DEFINE r == O!Remap(t, tools)
           q == r.tools
           b == O!AddAll(a, q, part)
           m == Len(tools)
<1>1. PICK ts : OTraced(ts, t, tools)
  BY ORemap
<1>2. /\ m \in Nat /\ ts \in [0 .. m -> OIndexer] /\ ts[0] = t /\ ts[m] = r.t
      /\ \A i \in 1 .. m : ts[i] = O!NextIndex(ts[i-1], tools[i])
      /\ q \in Seq(OTool) /\ Len(q) = m
      /\ \A i \in 1 .. m : q[i] = [call |-> tools[i], index |-> ts[i].cur]
  BY <1>1 DEF OTraced
<1>3. OAdded(OAcc, part)
  BY OAddTyped DEF OAdded
<1> HIDE DEF q
<1>4. PICK h : OAdding(h, OAcc, a, q, part)
  BY <1>2, <1>3, OAdds
<1>5. /\ h \in [0 .. m -> OAcc] /\ h[0] = a /\ h[m] = b
      /\ \A i \in 1 .. m : h[i] = O!Add(h[i-1], q[i], part)
  BY <1>2, <1>4 DEF OAdding
<1> DEFINE frag(i) == [call |-> tools[i], index |-> ts[i].cur, part |-> part]
           news(j) == [i \in 1 .. j |-> frag(i)]
           K == {j \in 0 .. m : OKept(a, h[j]) /\ OCalls(fs \o news(j), h[j], ts[j])}
<1>6. \A i \in 1 .. m : frag(i) \in OFragment
  <2> TAKE i \in 1 .. m
  <2>1. tools[i] \in Tool /\ i \in 0 .. m
    BY <1>2
  <2>2. ts[i].cur \in Nat
    BY <1>2, <2>1 DEF OIndexer
  <2> QED BY <2>1, <2>2 DEF OFragment
<1>7. \A j \in 0 .. m : news(j) \in Seq(OFragment) /\ Len(news(j)) = j
  BY <1>2, <1>6
<1>8. fs \in Seq(OFragment)
  BY DEF OCalls
<1>9. 0 \in K
  <2>1. news(0) = <<>>
    OBVIOUS
  <2>2. fs \o <<>> = fs
    BY <1>8
  <2>3. OKept(a, a)
    BY DEF OKept
  <2> QED BY <1>2, <1>5, <2>1, <2>2, <2>3
<1>10. ASSUME NEW j \in 0 .. m - 1, j \in K PROVE j + 1 \in K
  <2> DEFINE k == j + 1
             old == fs \o news(j)
  <2>1. k \in 1 .. m /\ k - 1 = j /\ j \in Nat /\ k = j + 1 /\ k \in 0 .. m /\ j \in 0 .. m
    BY <1>2
  <2>2. news(k) = Append(news(j), frag(k))
    <3> HIDE DEF frag, m
    <3> QED BY <1>6, <2>1
  <2> HIDE DEF k
  <2>3. fs \o news(k) = Append(old, frag(k)) /\ old \in Seq(OFragment)
    <3> DEFINE x == frag(k)
               nj == news(j)
    <3>1. x \in OFragment /\ nj \in Seq(OFragment)
      BY <1>6, <1>7, <2>1
    <3>2. news(k) = Append(nj, x)
      BY <2>2
    <3> HIDE DEF x, nj, news
    <3>3. fs \o Append(nj, x) = Append(fs \o nj, x) /\ fs \o nj \in Seq(OFragment)
      BY <1>8, <3>1
    <3> QED BY <3>2, <3>3 DEF x, nj
  <2>4. OKept(a, h[j]) /\ OCalls(old, h[j], ts[j]) /\ h[j] \in OAcc /\ ts[j] \in OIndexer
    BY <1>2, <1>5, <1>10, <2>1
  <2>5. /\ tools[k] \in Tool /\ ts[k] = O!NextIndex(ts[j], tools[k])
        /\ h[k] = O!Add(h[j], [call |-> tools[k], index |-> ts[k].cur], part)
    <3>1. tools[k] \in Tool
      BY <2>1
    <3>2. ts[k] = O!NextIndex(ts[k-1], tools[k]) /\ h[k] = O!Add(h[k-1], q[k], part)
          /\ q[k] = [call |-> tools[k], index |-> ts[k].cur]
      BY <1>2, <1>5, <2>1
    <3> QED BY <2>1, <3>1, <3>2
  <2> DEFINE hj == h[j]
             tj == ts[j]
             tc == tools[k]
             u == O!NextIndex(tj, tc)
             c == O!Add(hj, [call |-> tc, index |-> u.cur], part)
  <2>6. /\ OKept(hj, c)
        /\ OCalls(Append(old, [call |-> tc, index |-> u.cur, part |-> part]), c, u)
    <3>1. hj \in OAcc /\ tj \in OIndexer /\ tc \in Tool /\ OCalls(old, hj, tj)
      BY <2>4, <2>5
    <3> HIDE DEF hj, tj, tc, old
    <3> QED BY <3>1, OStep
  <2>7. c = h[k] /\ u = ts[k]
    BY <2>5
  <2>8. OKept(a, h[k])
    <3>1. OKept(h[j], h[k])
      BY <2>6, <2>7
    <3> QED BY <2>4, <3>1 DEF OKept
  <2>9. OCalls(Append(old, frag(k)), h[k], ts[k])
    BY <2>6, <2>7
  <2> HIDE DEF frag, news, old
  <2>10. OCalls(fs \o news(k), h[k], ts[k])
    BY <2>3, <2>9
  <2> QED BY <2>1, <2>8, <2>10 DEF k
<1>11. m \in K
  <2>1. \A j \in 0 .. m - 1 : j \in K => j + 1 \in K
    BY <1>10
  <2>2. m \in 0 .. m
    BY <1>2
  <2> HIDE DEF K, m
  <2> QED BY <1>2, <1>9, <2>1, <2>2, UpTo
<1>12. OBrings(q, part) = news(m)
  <2>1. DOMAIN q = 1 .. m
    BY <1>2
  <2>2. \A i \in 1 .. m : [call |-> q[i].call, index |-> q[i].index, part |-> part] = frag(i)
    <3> TAKE i \in 1 .. m
    <3> DEFINE x == [call |-> tools[i], index |-> ts[i].cur]
    <3>1. q[i] = x /\ x.call = tools[i] /\ x.index = ts[i].cur
      BY <1>2
    <3> QED BY <3>1
  <2> HIDE DEF frag
  <2> QED BY <2>1, <2>2 DEF OBrings
<1>13. b \in OAcc /\ r.t \in OIndexer
  BY <1>2, <1>5
<1>14. OBrings(q, part) \in Seq(OFragment)
  <2> HIDE DEF news, m
  <2>1. m \in 0 .. m
    BY <1>2
  <2> QED BY <1>7, <1>12, <2>1
<1>15. OKept(a, b) /\ OCalls(fs \o OBrings(q, part), b, r.t)
  <2>1. OKept(a, h[m]) /\ OCalls(fs \o news(m), h[m], ts[m])
    BY <1>11
  <2> HIDE DEF news
  <2> QED BY <1>2, <1>5, <1>12, <2>1
<1> QED BY <1>2, <1>13, <1>14, <1>15 DEF q

OEvent == [e : {"chunk"}, part : Nat, tools : Seq(OTool), think : BOOLEAN, text : BOOLEAN,
           stop : BOOLEAN, usage : BOOLEAN]
            \cup [e : {"error", "done"}]

\* What an event adds to the fragments and to the numbers of the chunks with a
\* property.
OFrags == [x \in OEvent |-> IF x.e = "chunk" THEN OBrings(x.tools, x.part) ELSE <<>>]
OTexts == [x \in OEvent |-> IF x.e = "chunk" /\ x.text THEN <<x.part>> ELSE <<>>]
OThinks == [x \in OEvent |-> IF x.e = "chunk" /\ x.think THEN <<x.part>> ELSE <<>>]
OStops == [x \in OEvent |-> IF x.e = "chunk" /\ x.stop THEN <<x.part>> ELSE <<>>]
OUsages == [x \in OEvent |-> IF x.e = "chunk" /\ x.usage THEN <<x.part>> ELSE <<>>]

\* What a client accumulates besides the calls, and what it reads in the body.
OContent(q) ==
  [content |-> Gather(OTexts, q), reasoning |-> Gather(OThinks, q),
   finish |-> OLast(Gather(OStops, q)), usage |-> OLast(Gather(OUsages, q))]
OCollected(a) ==
  [content |-> a.content, reasoning |-> a.reasoning, finish |-> a.finish, usage |-> a.usage]

OMore(k, x) ==
  IF x.e # "chunk" THEN k
  ELSE [content |-> IF x.text THEN Append(k.content, x.part) ELSE k.content,
        reasoning |-> IF x.think THEN Append(k.reasoning, x.part) ELSE k.reasoning,
        finish |-> IF x.stop THEN x.part ELSE k.finish,
        usage |-> IF x.usage THEN x.part ELSE k.usage]

LEMMA OBringsTyped ==
  ASSUME NEW tools \in Seq(OTool), NEW part \in Nat
  PROVE  OBrings(tools, part) \in Seq(OFragment)
<1>1. DOMAIN tools = 1 .. Len(tools) /\ Len(tools) \in Nat
  OBVIOUS
<1>2. \A j \in 1 .. Len(tools) :
         [call |-> tools[j].call, index |-> tools[j].index, part |-> part] \in OFragment
  <2> TAKE j \in 1 .. Len(tools)
  <2>1. tools[j] \in OTool
    OBVIOUS
  <2> QED BY <2>1 DEF OTool, OFragment
<1> QED BY <1>1, <1>2 DEF OBrings

LEMMA OGrown ==
  ASSUME NEW q \in Seq(OEvent), NEW x \in OEvent
  PROVE  /\ OContent(Append(q, x)) = OMore(OContent(q), x)
         /\ Gather(OFrags, q) \in Seq(OFragment)
         /\ Gather(OFrags, Append(q, x)) =
              Gather(OFrags, q) \o (IF x.e = "chunk" THEN OBrings(x.tools, x.part) ELSE <<>>)
<1>1. \A y \in OEvent :
         y.e = "chunk" => /\ y.part \in Nat /\ y.tools \in Seq(OTool)
                          /\ y.text \in BOOLEAN /\ y.think \in BOOLEAN
                          /\ y.stop \in BOOLEAN /\ y.usage \in BOOLEAN
  BY DEF OEvent
<1>2. /\ Gather(OTexts, q) \in Seq(Nat)
      /\ Gather(OTexts, Append(q, x)) =
           IF x.e = "chunk" /\ x.text THEN Append(Gather(OTexts, q), x.part)
           ELSE Gather(OTexts, q)
  <2> DEFINE Adds == x.e = "chunk" /\ x.text
             p == x.part
  <2>1. Contributes(OTexts, OEvent, Nat)
    BY <1>1 DEF OTexts, Contributes
  <2>2. Adds \in BOOLEAN /\ (Adds => p \in Nat) /\ OTexts[x] = IF Adds THEN <<p>> ELSE <<>>
    BY <1>1 DEF OTexts
  <2> HIDE DEF Adds, p
  <2>3. /\ Gather(OTexts, q) \in Seq(Nat)
        /\ Gather(OTexts, Append(q, x)) =
             IF Adds THEN Append(Gather(OTexts, q), p) ELSE Gather(OTexts, q)
    BY <2>1, <2>2, OneOrNone
  <2> QED BY <2>3 DEF Adds, p
<1>3. /\ Gather(OThinks, q) \in Seq(Nat)
      /\ Gather(OThinks, Append(q, x)) =
           IF x.e = "chunk" /\ x.think THEN Append(Gather(OThinks, q), x.part)
           ELSE Gather(OThinks, q)
  <2> DEFINE Adds == x.e = "chunk" /\ x.think
             p == x.part
  <2>1. Contributes(OThinks, OEvent, Nat)
    BY <1>1 DEF OThinks, Contributes
  <2>2. Adds \in BOOLEAN /\ (Adds => p \in Nat) /\ OThinks[x] = IF Adds THEN <<p>> ELSE <<>>
    BY <1>1 DEF OThinks
  <2> HIDE DEF Adds, p
  <2>3. /\ Gather(OThinks, q) \in Seq(Nat)
        /\ Gather(OThinks, Append(q, x)) =
             IF Adds THEN Append(Gather(OThinks, q), p) ELSE Gather(OThinks, q)
    BY <2>1, <2>2, OneOrNone
  <2> QED BY <2>3 DEF Adds, p
<1>4. OLast(Gather(OStops, Append(q, x))) =
        IF x.e = "chunk" /\ x.stop THEN x.part ELSE OLast(Gather(OStops, q))
  <2> DEFINE Adds == x.e = "chunk" /\ x.stop
             p == x.part
  <2>1. Contributes(OStops, OEvent, Nat)
    BY <1>1 DEF OStops, Contributes
  <2>2. Adds \in BOOLEAN /\ (Adds => p \in Nat) /\ OStops[x] = IF Adds THEN <<p>> ELSE <<>>
    BY <1>1 DEF OStops
  <2> HIDE DEF Adds, p
  <2>3. /\ Gather(OStops, q) \in Seq(Nat)
        /\ Gather(OStops, Append(q, x)) =
             IF Adds THEN Append(Gather(OStops, q), p) ELSE Gather(OStops, q)
    BY <2>1, <2>2, OneOrNone
  <2>4. OLast(Gather(OStops, Append(q, x))) = IF Adds THEN p ELSE OLast(Gather(OStops, q))
    BY <2>2, <2>3, LastAdded
  <2> QED BY <2>4 DEF Adds, p
<1>5. OLast(Gather(OUsages, Append(q, x))) =
        IF x.e = "chunk" /\ x.usage THEN x.part ELSE OLast(Gather(OUsages, q))
  <2> DEFINE Adds == x.e = "chunk" /\ x.usage
             p == x.part
  <2>1. Contributes(OUsages, OEvent, Nat)
    BY <1>1 DEF OUsages, Contributes
  <2>2. Adds \in BOOLEAN /\ (Adds => p \in Nat) /\ OUsages[x] = IF Adds THEN <<p>> ELSE <<>>
    BY <1>1 DEF OUsages
  <2> HIDE DEF Adds, p
  <2>3. /\ Gather(OUsages, q) \in Seq(Nat)
        /\ Gather(OUsages, Append(q, x)) =
             IF Adds THEN Append(Gather(OUsages, q), p) ELSE Gather(OUsages, q)
    BY <2>1, <2>2, OneOrNone
  <2>4. OLast(Gather(OUsages, Append(q, x))) = IF Adds THEN p ELSE OLast(Gather(OUsages, q))
    BY <2>2, <2>3, LastAdded
  <2> QED BY <2>4 DEF Adds, p
<1>6. OContent(Append(q, x)) = OMore(OContent(q), x)
  BY <1>2, <1>3, <1>4, <1>5 DEF OContent, OMore
<1>7. Contributes(OFrags, OEvent, OFragment)
  BY <1>1, OBringsTyped DEF OFrags, Contributes
<1>8. Grows(OFrags, OFragment, q, x)
  BY <1>7, Gathered
<1>9. OFrags[x] = IF x.e = "chunk" THEN OBrings(x.tools, x.part) ELSE <<>>
  BY DEF OFrags
<1> QED BY <1>6, <1>8, <1>9 DEF Grows

\* Both ways of answering read the same in a chunk.
LEMMA OSameChunk ==
  ASSUME NEW q \in Seq(OEvent), NEW t \in OIndexer, NEW a \in OAcc, a.idx = t,
         OCalls(Gather(OFrags, q), a, t), OContent(q) = OCollected(a),
         NEW c \in Chunks, NEW part \in Nat
  PROVE  LET r == O!Remap(t, c.tools)
             x == O!Written(c, r, part)
             b == O!Collect(a, c, part)
         IN /\ x \in OEvent /\ r.t \in OIndexer /\ b \in OAcc /\ b.idx = r.t
            /\ OCalls(Gather(OFrags, Append(q, x)), b, r.t)
            /\ OContent(Append(q, x)) = OCollected(b)
<1> DEFINE r == O!Remap(t, c.tools)
           x == O!Written(c, r, part)
           b == O!Collect(a, c, part)
           fs == Gather(OFrags, q)
           u == IF c.usage THEN [a EXCEPT !.usage = part] ELSE a
           a1 == IF c.text THEN [u EXCEPT !.content = Append(@, part)] ELSE u
           a2 == IF c.think THEN [a1 EXCEPT !.reasoning = Append(@, part)] ELSE a1
           z == [a2 EXCEPT !.idx = r.t]
           a3 == O!AddAll(z, r.tools, part)
<1>1. /\ c.choice \in BOOLEAN /\ c.think \in BOOLEAN /\ c.text \in BOOLEAN
      /\ c.tools \in Seq(Tool) /\ c.stop \in BOOLEAN /\ c.usage \in BOOLEAN
      /\ ~c.choice => ~c.think /\ ~c.text /\ c.tools = <<>> /\ ~c.stop
  BY ChunksAssumption
<1>2. part \in Parts
  BY DEF Parts
<1>3. /\ u \in OAcc /\ u.idx = t /\ u.order = a.order /\ u.map = a.map
      /\ u.content = a.content /\ u.reasoning = a.reasoning /\ u.finish = a.finish
      /\ u.usage = IF c.usage THEN part ELSE a.usage
  <2>1. CASE c.usage
    <3>1. u = [a EXCEPT !.usage = part]
      BY <2>1
    <3> HIDE DEF u
    <3> QED BY <1>2, <2>1, <3>1 DEF OAcc
  <2>2. CASE ~c.usage
    <3>1. u = a
      BY <2>2
    <3> HIDE DEF u
    <3> QED BY <2>2, <3>1
  <2> QED BY <2>1, <2>2
<1>4. r = O!Remap(u.idx, c.tools)
  BY <1>3
<1>5. b = IF ~c.choice THEN u ELSE IF c.stop THEN [a3 EXCEPT !.finish = part] ELSE a3
  BY <1>4 DEF O!Collect
<1>6. /\ a2 \in OAcc /\ a2.order = a.order /\ a2.map = a.map
      /\ a2.content = IF c.text THEN Append(a.content, part) ELSE a.content
      /\ a2.reasoning = IF c.think THEN Append(a.reasoning, part) ELSE a.reasoning
      /\ a2.finish = a.finish /\ a2.usage = u.usage
  <2>1. Append(u.content, part) \in Seq(Nat)
    BY <1>3 DEF OAcc
  <2> HIDE DEF u
  <2>3. /\ a1 \in OAcc /\ a1.order = a.order /\ a1.map = a.map
        /\ a1.content = IF c.text THEN Append(a.content, part) ELSE a.content
        /\ a1.reasoning = a.reasoning /\ a1.finish = a.finish /\ a1.usage = u.usage
    BY <1>3, <2>1 DEF OAcc
  <2> HIDE DEF a1
  <2>4. Append(a1.reasoning, part) \in Seq(Nat)
    BY <2>3 DEF OAcc
  <2> QED BY <2>3, <2>4 DEF OAcc
<1> HIDE DEF a1, a2, b, u
<1>8. r.t \in OIndexer /\ r.tools \in Seq(OTool)
  BY <1>1, OAddAll
<1> HIDE DEF r
<1>9. /\ z \in OAcc /\ z.idx = r.t /\ z.order = a.order /\ z.map = a.map
      /\ z.content = a2.content /\ z.reasoning = a2.reasoning
      /\ z.finish = a.finish /\ z.usage = u.usage
  BY <1>6, <1>8 DEF OAcc
<1> HIDE DEF z
<1>10. OCalls(fs, z, t)
  BY <1>9 DEF OCalls
<1>11. /\ a3 \in OAcc /\ OKept(z, a3)
       /\ OCalls(fs \o OBrings(r.tools, part), a3, r.t)
  <2> HIDE DEF fs
  <2> QED BY <1>1, <1>9, <1>10, OAddAll DEF r
<1>12. /\ x \in OEvent /\ x.e = "chunk" /\ x.part = part /\ x.tools = r.tools
       /\ x.think = c.think /\ x.text = c.text /\ x.stop = c.stop /\ x.usage = c.usage
  BY <1>1, <1>8 DEF O!Written, OEvent
<1> HIDE DEF x
<1>13. /\ OContent(Append(q, x)) = OMore(OContent(q), x)
       /\ fs \in Seq(OFragment)
       /\ Gather(OFrags, Append(q, x)) = fs \o OBrings(r.tools, part)
  BY <1>12, OGrown
<1> HIDE DEF a3, fs
<1>14. CASE c.choice
  <2>1. /\ b \in OAcc /\ b.idx = a3.idx /\ b.order = a3.order /\ b.map = a3.map
        /\ b.content = a3.content /\ b.reasoning = a3.reasoning /\ b.usage = a3.usage
        /\ b.finish = IF c.stop THEN part ELSE a3.finish
    BY <1>2, <1>5, <1>11, <1>14 DEF OAcc
  <2>2. b.idx = r.t
    BY <1>9, <1>11, <2>1 DEF OKept
  <2>3. OCalls(Gather(OFrags, Append(q, x)), b, r.t)
    BY <1>11, <1>13, <2>1 DEF OCalls
  <2>4. /\ b.content = IF c.text THEN Append(a.content, part) ELSE a.content
        /\ b.reasoning = IF c.think THEN Append(a.reasoning, part) ELSE a.reasoning
        /\ b.finish = IF c.stop THEN part ELSE a.finish
        /\ b.usage = IF c.usage THEN part ELSE a.usage
    BY <1>3, <1>6, <1>9, <1>11, <2>1 DEF OKept
  <2>5. OMore(OCollected(a), x) = OCollected(b)
    BY <1>12, <2>4 DEF OMore, OCollected
  <2> QED BY <1>8, <1>12, <1>13, <2>1, <2>2, <2>3, <2>5 DEF r, x, b
<1>15. CASE ~c.choice
  <2>1. b = u /\ ~c.think /\ ~c.text /\ c.tools = <<>> /\ ~c.stop
    BY <1>1, <1>5, <1>15
  <2>2. r.t = t /\ r.tools = <<>>
    <3>1. PICK ts : OTraced(ts, t, c.tools)
      BY <1>1, ORemap
    <3>2. Len(c.tools) = 0
      BY <2>1
    <3>3. ts[0] = t /\ ts[0] = r.t /\ r.tools \in Seq(OTool) /\ Len(r.tools) = 0
      BY <3>1, <3>2 DEF OTraced, r
    <3> QED BY <3>3
  <2>3. fs \o OBrings(r.tools, part) = fs
    <3>1. OBrings(r.tools, part) = <<>>
      BY <2>2 DEF OBrings
    <3> QED BY <1>13, <3>1
  <2>4. OCalls(Gather(OFrags, Append(q, x)), b, r.t)
    <3>1. OCalls(fs, a, t)
      BY DEF fs
    <3>2. /\ Gather(OFrags, Append(q, x)) = fs /\ r.t = t
          /\ b.order = a.order /\ b.map = a.map
      BY <1>3, <1>13, <2>1, <2>2, <2>3
    <3> QED BY <3>1, <3>2 DEF OCalls
  <2>5. OMore(OCollected(a), x) = OCollected(b)
    BY <1>3, <1>12, <2>1 DEF OMore, OCollected
  <2>6. b \in OAcc /\ b.idx = r.t
    BY <1>3, <2>1, <2>2
  <2> QED BY <1>8, <1>12, <1>13, <2>4, <2>5, <2>6 DEF r, x, b
<1> QED BY <1>1, <1>14, <1>15

\* The invariant behind O!SameAnswer.
OAlike ==
  /\ sent \in Seq(OEvent) /\ idx \in OIndexer /\ oacc \in OAcc /\ oacc.idx = idx
  /\ OCalls(Gather(OFrags, sent), oacc, idx) /\ OContent(sent) = OCollected(oacc)

LEMMA InitOAlike == Init => OAlike
<1> SUFFICES ASSUME Init PROVE OAlike
  OBVIOUS
<1>1. /\ sent = <<>> /\ idx = [cur |-> 0, seen |-> FALSE]
      /\ oacc = [content |-> <<>>, reasoning |-> <<>>, order |-> <<>>, map |-> <<>>,
                 finish |-> None, usage |-> None, idx |-> idx]
  BY DEF Init, O!Init
<1>2. idx \in OIndexer /\ idx.cur = 0 /\ ~idx.seen
  BY <1>1 DEF OIndexer
<1>3. /\ oacc \in OAcc /\ oacc.idx = idx /\ oacc.order = <<>> /\ oacc.map = <<>>
      /\ oacc.content = <<>> /\ oacc.reasoning = <<>>
      /\ oacc.finish = None /\ oacc.usage = None
  BY <1>1, <1>2 DEF OAcc, Parts
<1>4. \A C : Gather(C, <<>>) = <<>>
  BY DEF Gather, FlattenSeq
<1>5. OContent(sent) = OCollected(oacc)
  BY <1>1, <1>3, <1>4 DEF OContent, OCollected, OLast
<1>6. \A i : OCallOf(<<>>, i) = OBlank
  BY <1>4 DEF OCallOf, OBlank, OLast
<1>7. OCalls(<<>>, oacc, idx)
  <2>1. Len(oacc.order) = 0 /\ Len(oacc.map) = 0
    BY <1>3
  <2>2. {<<>>[k].index : k \in DOMAIN <<>>} = {}
    OBVIOUS
  <2>3. 0 .. 0 - 1 = {} /\ 1 .. 0 = {}
    OBVIOUS
  <2> QED BY <1>2, <1>6, <2>1, <2>2, <2>3 DEF OCalls
<1> QED BY <1>1, <1>2, <1>3, <1>4, <1>5, <1>7 DEF OAlike

LEMMA StepOAlike == OAlike /\ n \in Nat /\ [Next]_vars => OAlike'
<1> SUFFICES ASSUME OAlike, n \in Nat, [Next]_vars PROVE OAlike'
  OBVIOUS
<1>1. CASE UNCHANGED vars
  BY <1>1 DEF OAlike, vars
<1>2. ASSUME NEW c \in Chunks, Chunk(c) PROVE OAlike'
  <2> DEFINE part == n'
             r == O!Remap(idx, c.tools)
             x == O!Written(c, r, part)
             b == O!Collect(oacc, c, part)
  <2>1. part \in Nat /\ sent' = Append(sent, x) /\ idx' = r.t /\ oacc' = b
    <3>1. n' = n + 1 /\ O!Chunk(c, n')
      BY <1>2 DEF Chunk
    <3> QED BY <3>1 DEF O!Chunk
  <2> HIDE DEF part
  <2>2. /\ x \in OEvent /\ r.t \in OIndexer /\ b \in OAcc /\ b.idx = r.t
        /\ OCalls(Gather(OFrags, Append(sent, x)), b, r.t)
        /\ OContent(Append(sent, x)) = OCollected(b)
    BY <2>1, OSameChunk DEF OAlike
  <2> HIDE DEF r, x, b
  <2>3. Append(sent, x) \in Seq(OEvent)
    BY <2>2 DEF OAlike
  <2> QED BY <2>1, <2>2, <2>3 DEF OAlike
<1>3. ASSUME NEW q \in Seq(OEvent), NEW kind \in {"error", "done"}
      PROVE  /\ Append(q, [e |-> kind]) \in Seq(OEvent)
             /\ Gather(OFrags, Append(q, [e |-> kind])) = Gather(OFrags, q)
             /\ OContent(Append(q, [e |-> kind])) = OContent(q)
  <2> DEFINE x == [e |-> kind]
  <2>1. x \in OEvent /\ x.e # "chunk"
    BY DEF OEvent
  <2> HIDE DEF x
  <2>2. /\ OContent(Append(q, x)) = OContent(q)
        /\ Gather(OFrags, q) \in Seq(OFragment)
        /\ Gather(OFrags, Append(q, x)) = Gather(OFrags, q) \o <<>>
    BY <2>1, OGrown DEF OMore
  <2>3. Gather(OFrags, q) \o <<>> = Gather(OFrags, q)
    <3> DEFINE fs == Gather(OFrags, q)
    <3> HIDE DEF fs
    <3>1. fs \in Seq(OFragment) => fs \o <<>> = fs
      OBVIOUS
    <3> QED BY <2>2, <3>1 DEF fs
  <2>4. Append(q, x) \in Seq(OEvent)
    BY <2>1
  <2> QED BY <2>2, <2>3, <2>4 DEF x
<1>4. ASSUME NEW failed \in BOOLEAN, O!End(failed) PROVE OAlike'
  <2> DEFINE s == IF failed THEN Append(sent, [e |-> "error"]) ELSE sent
             err == [e |-> "error"]
             done == [e |-> "done"]
  <2>1. /\ s \in Seq(OEvent) /\ Gather(OFrags, s) = Gather(OFrags, sent)
        /\ OContent(s) = OContent(sent)
    BY <1>3 DEF OAlike
  <2>2. err \in OEvent /\ done \in OEvent /\ sent \in Seq(OEvent)
    BY DEF OEvent, OAlike
  <2>3. sent' = Append(s, done)
    <3>1. sent' = sent \o (IF failed THEN <<err>> ELSE <<>>) \o <<done>>
      BY <1>4 DEF O!End
    <3> HIDE DEF err, done
    <3>2. sent \o <<err>> = Append(sent, err) /\ sent \o <<>> = sent
      BY <2>2
    <3>3. Append(sent, err) \in Seq(OEvent)
      BY <2>2
    <3>4. \A q \in Seq(OEvent) : q \o <<done>> = Append(q, done)
      BY <2>2
    <3> QED BY <2>2, <3>1, <3>2, <3>3, <3>4 DEF err
  <2> HIDE DEF s
  <2>4. /\ Append(s, done) \in Seq(OEvent)
        /\ Gather(OFrags, Append(s, done)) = Gather(OFrags, s)
        /\ OContent(Append(s, done)) = OContent(s)
    BY <1>3, <2>1
  <2>5. idx' = idx /\ oacc' = oacc
    BY <1>4 DEF O!End
  <2> QED BY <2>1, <2>3, <2>4, <2>5 DEF OAlike
<1>5. CASE UpstreamError
  BY <1>4, <1>5 DEF UpstreamError
<1>6. ASSUME NEW data \in BOOLEAN, FinishEvent(data) PROVE OAlike'
  BY <1>4, <1>6 DEF FinishEvent
<1>7. ASSUME NEW broken \in BOOLEAN, BodyEnds(broken) PROVE OAlike'
  BY <1>4, <1>7 DEF BodyEnds, OAlike
<1> QED BY <1>1, <1>2, <1>5, <1>6, <1>7 DEF Next

LEMMA OAlikeMeans == OAlike => O!SameAnswer
<1> SUFFICES ASSUME OAlike PROVE O!SameAnswer
  OBVIOUS
<1>1. sent \in Seq(OEvent) /\ DOMAIN sent = 1 .. Len(sent)
      /\ \A k \in DOMAIN sent : sent[k] \in OEvent
  BY DEF OAlike
<1> DEFINE fs == Gather(OFrags, sent)
           m == Len(oacc.order)
<1>2. /\ m \in Nat /\ fs \in Seq(OFragment) /\ oacc.map \in Seq(Call)
      /\ Len(oacc.map) = m
      /\ \A i \in 1 .. m : oacc.map[i] = OCallOf(fs, i - 1)
      /\ {fs[k].index : k \in DOMAIN fs} = 0 .. m - 1
  <2>1. OCalls(fs, oacc, idx) /\ oacc \in OAcc
    BY DEF OAlike
  <2> HIDE DEF fs
  <2> QED BY <2>1 DEF OCalls, OAcc
<1>3. O!Fragments = fs
  <2>1. \A k \in DOMAIN sent :
           OFrags[sent[k]] =
             IF sent[k].e = "chunk" THEN OBrings(sent[k].tools, sent[k].part) ELSE <<>>
    BY <1>1 DEF OFrags
  <2>2. O!Fragments =
          FlattenSeq([k \in DOMAIN sent |->
            IF sent[k].e = "chunk" THEN OBrings(sent[k].tools, sent[k].part) ELSE <<>>])
    BY DEF O!Fragments, OBrings, O!FlattenSeq, FlattenSeq
  <2> QED BY <2>1, <2>2 DEF Gather
<1>4. /\ O!Parts(LAMBDA f : f.text) = Gather(OTexts, sent)
      /\ O!Parts(LAMBDA f : f.think) = Gather(OThinks, sent)
      /\ O!Parts(LAMBDA f : f.stop) = Gather(OStops, sent)
      /\ O!Parts(LAMBDA f : f.usage) = Gather(OUsages, sent)
  <2>1. O!Parts(LAMBDA f : f.text) = Gather(OTexts, sent)
    <3>1. \A k \in DOMAIN sent :
             OTexts[sent[k]] =
               IF sent[k].e = "chunk" /\ sent[k].text THEN <<sent[k].part>> ELSE <<>>
      BY <1>1 DEF OTexts
    <3>2. O!Parts(LAMBDA f : f.text) =
            FlattenSeq([k \in DOMAIN sent |->
              IF sent[k].e = "chunk" /\ sent[k].text THEN <<sent[k].part>> ELSE <<>>])
      BY DEF O!Parts, O!FlattenSeq, FlattenSeq
    <3> QED BY <3>1, <3>2 DEF Gather
  <2>2. O!Parts(LAMBDA f : f.think) = Gather(OThinks, sent)
    <3>1. \A k \in DOMAIN sent :
             OThinks[sent[k]] =
               IF sent[k].e = "chunk" /\ sent[k].think THEN <<sent[k].part>> ELSE <<>>
      BY <1>1 DEF OThinks
    <3>2. O!Parts(LAMBDA f : f.think) =
            FlattenSeq([k \in DOMAIN sent |->
              IF sent[k].e = "chunk" /\ sent[k].think THEN <<sent[k].part>> ELSE <<>>])
      BY DEF O!Parts, O!FlattenSeq, FlattenSeq
    <3> QED BY <3>1, <3>2 DEF Gather
  <2>3. O!Parts(LAMBDA f : f.stop) = Gather(OStops, sent)
    <3>1. \A k \in DOMAIN sent :
             OStops[sent[k]] =
               IF sent[k].e = "chunk" /\ sent[k].stop THEN <<sent[k].part>> ELSE <<>>
      BY <1>1 DEF OStops
    <3>2. O!Parts(LAMBDA f : f.stop) =
            FlattenSeq([k \in DOMAIN sent |->
              IF sent[k].e = "chunk" /\ sent[k].stop THEN <<sent[k].part>> ELSE <<>>])
      BY DEF O!Parts, O!FlattenSeq, FlattenSeq
    <3> QED BY <3>1, <3>2 DEF Gather
  <2>4. O!Parts(LAMBDA f : f.usage) = Gather(OUsages, sent)
    <3>1. \A k \in DOMAIN sent :
             OUsages[sent[k]] =
               IF sent[k].e = "chunk" /\ sent[k].usage THEN <<sent[k].part>> ELSE <<>>
      BY <1>1 DEF OUsages
    <3>2. O!Parts(LAMBDA f : f.usage) =
            FlattenSeq([k \in DOMAIN sent |->
              IF sent[k].e = "chunk" /\ sent[k].usage THEN <<sent[k].part>> ELSE <<>>])
      BY DEF O!Parts, O!FlattenSeq, FlattenSeq
    <3> QED BY <3>1, <3>2 DEF Gather
  <2> QED BY <2>1, <2>2, <2>3, <2>4
<1>5. ASSUME NEW s PROVE O!LastOf(s) = OLast(s)
  BY DEF O!LastOf, O!Last, OLast
<1>6. /\ oacc.content = O!Parts(LAMBDA f : f.text)
      /\ oacc.reasoning = O!Parts(LAMBDA f : f.think)
      /\ oacc.finish = O!LastOf(O!Parts(LAMBDA f : f.stop))
      /\ oacc.usage = O!LastOf(O!Parts(LAMBDA f : f.usage))
  BY <1>4, <1>5 DEF OAlike, OContent, OCollected
<1> HIDE DEF fs, m
<1>7. \A k \in DOMAIN fs : fs[k] \in OFragment
  BY <1>2
<1>8. ASSUME NEW i PROVE O!CallAt(fs, i) = OCallOf(fs, i)
  <2>1. O!At(fs, i, O!GivenId) = Gather(OIds(i), fs)
    <3>1. \A k \in DOMAIN fs :
             OIds(i)[fs[k]] = IF fs[k].index = i THEN O!GivenId(fs[k]) ELSE <<>>
      BY <1>7 DEF OIds, O!GivenId
    <3>2. O!At(fs, i, O!GivenId) =
            FlattenSeq([k \in DOMAIN fs |-> IF fs[k].index = i THEN O!GivenId(fs[k]) ELSE <<>>])
      BY DEF O!At, O!FlattenSeq, FlattenSeq
    <3> QED BY <3>1, <3>2 DEF Gather
  <2>2. O!At(fs, i, O!GivenName) = Gather(ONames(i), fs)
    <3>1. \A k \in DOMAIN fs :
             ONames(i)[fs[k]] = IF fs[k].index = i THEN O!GivenName(fs[k]) ELSE <<>>
      BY <1>7 DEF ONames, O!GivenName
    <3>2. O!At(fs, i, O!GivenName) =
            FlattenSeq([k \in DOMAIN fs |-> IF fs[k].index = i THEN O!GivenName(fs[k]) ELSE <<>>])
      BY DEF O!At, O!FlattenSeq, FlattenSeq
    <3> QED BY <3>1, <3>2 DEF Gather
  <2>3. O!At(fs, i, O!GivenArgs) = Gather(OArgs(i), fs)
    <3>1. \A k \in DOMAIN fs :
             OArgs(i)[fs[k]] = IF fs[k].index = i THEN O!GivenArgs(fs[k]) ELSE <<>>
      BY <1>7 DEF OArgs, O!GivenArgs
    <3>2. O!At(fs, i, O!GivenArgs) =
            FlattenSeq([k \in DOMAIN fs |-> IF fs[k].index = i THEN O!GivenArgs(fs[k]) ELSE <<>>])
      BY DEF O!At, O!FlattenSeq, FlattenSeq
    <3> QED BY <3>1, <3>2 DEF Gather
  <2> QED BY <1>5, <2>1, <2>2, <2>3 DEF O!CallAt, OCallOf
<1>9. O!Cardinality({fs[k].index : k \in DOMAIN fs}) = m
  <2>1. Cardinality(0 .. m - 1) = m
    BY <1>2, FS_Interval
  <2> QED BY <1>2, <2>1 DEF O!Cardinality, Cardinality
<1>10. O!ClientCalls = [i \in 1 .. m |-> O!CallAt(fs, i - 1)]
  BY <1>3, <1>9 DEF O!ClientCalls
<1>11. oacc.map = [i \in 1 .. m |-> OCallOf(fs, i - 1)]
  BY <1>2
<1>12. oacc.map = O!ClientCalls
  BY <1>8, <1>10, <1>11
<1> QED BY <1>6, <1>12 DEF O!SameAnswer

\* In each protocol the stream and the single body carry the same content, whatever
\* upstream sends and however it ends (proxy.go, streamState and collectAnthropic;
\* openai.go, streamOAI and collectOAI; responses.go, respStreamState and
\* collectResponses).
THEOREM StreamIsBody == Spec => []SameAnswer
<1>1. Init => AAlike /\ RAlike /\ OAlike
  BY InitAAlike, InitRAlike, InitOAlike
<1>2. Writing /\ (AAlike /\ RAlike /\ OAlike) /\ [Next]_vars
        => (AAlike /\ RAlike /\ OAlike)'
  <2> SUFFICES ASSUME Writing, AAlike /\ RAlike /\ OAlike, [Next]_vars
               PROVE  AAlike' /\ RAlike' /\ OAlike'
    OBVIOUS
  <2>1. n \in Nat
    BY DEF Writing
  <2> QED BY <2>1, StepAAlike, StepRAlike, StepOAlike
<1>3. AAlike /\ RAlike /\ OAlike => SameAnswer
  BY AAlikeMeans, RAlikeMeans, OAlikeMeans DEF SameAnswer
<1> QED BY <1>1, <1>2, <1>3, AlwaysWriting, PTL DEF Spec

----------------------------------------------------------------------------
(* The tool calls.                                                         *)

\* The history of the calls made, between the tool calls of a chunk.
CMaking(h, cs, seq, part) ==
  /\ h \in [0 .. Len(seq) -> Seq(Call)]
  /\ h[0] = cs /\ h[Len(seq)] = CallsMade(cs, seq, part)
  /\ \A i \in 1 .. Len(seq) : h[i] = Made(h[i-1], seq[i], part)

LEMMA CMade ==
  ASSUME NEW cs \in Seq(Call), NEW tc \in Tool, NEW part \in Nat
  PROVE  LET b == IF tc.id # None
                    THEN Append(cs, [id |-> tc.id, name |-> tc.name, args |-> <<>>]) ELSE cs
         IN /\ b \in Seq(Call) /\ Made(cs, tc, part) \in Seq(Call)
            /\ Made(cs, tc, part) = IF tc.args /\ b # <<>>
                 THEN [b EXCEPT ![Len(b)].args = Append(@, part)] ELSE b
<1> DEFINE call == [id |-> tc.id, name |-> tc.name, args |-> <<>>]
           b == IF tc.id # None THEN Append(cs, call) ELSE cs
           longer == [b EXCEPT ![Len(b)].args = Append(@, part)]
<1>1. call \in Call
  BY DEF Call, Tool
<1>2. b \in Seq(Call)
  <2> HIDE DEF call
  <2> QED BY <1>1
<1>3. Made(cs, tc, part) = IF tc.args /\ b # <<>> THEN longer ELSE b
  BY DEF Made
<1> HIDE DEF b
<1>4. b # <<>> => longer \in Seq(Call)
  BY <1>2, LastCall
<1> HIDE DEF longer
<1>5. Made(cs, tc, part) \in Seq(Call)
  BY <1>2, <1>3, <1>4
<1> QED BY <1>2, <1>3, <1>5 DEF b, longer

LEMMA CMakes ==
  ASSUME NEW cs \in Seq(Call), NEW seq \in Seq(Tool), NEW part \in Nat
  PROVE  \E h : CMaking(h, cs, seq, part)
<1> DEFINE m == Len(seq)
           ST == Seq(Call)
           F == [p \in ST \X Tool |-> Made(p[1], p[2], part)]
           Eq(f) == f = [u \in SUBSET (1 .. m) |->
                           IF u = {} THEN cs ELSE Made(f[u \ {Max(u)}], seq[Max(u)], part)]
           iter == CHOOSE f : Eq(f)
<1>1. CallsMade(cs, seq, part) = iter[1 .. m]
  <2>1. DOMAIN seq = 1 .. m
    OBVIOUS
  <2>3. CallsMade(cs, seq, part) =
          (CHOOSE f : f = [u \in SUBSET DOMAIN seq |->
                             IF u = {} THEN cs
                             ELSE Made(f[u \ {Max(u)}], seq[Max(u)], part)])[DOMAIN seq]
    BY DEF CallsMade, FoldLeft, MapThenFoldSet
  <2> QED BY <2>1, <2>3
<1>0. \A x \in ST, t \in Tool : Made(x, t, part) \in ST
  BY CMade
<1>2. F \in [ST \X Tool -> ST]
  <2> HIDE DEF ST
  <2> QED BY <1>0
<1>3. \A u \in SUBSET (1 .. m) :
         u # {} => seq[Max(u)] \in Tool /\ u \ {Max(u)} \in SUBSET (1 .. m)
  BY Greatest
<1> HIDE DEF ST
<1>4. \E f : Eq(f)
  <2>0. cs \in ST
    BY DEF ST
  <2>1. PICK f \in [SUBSET (1 .. m) -> ST] :
          \A u \in SUBSET (1 .. m) : Folded(f, F, cs, seq, u)
    BY <1>2, <2>0, FoldExists
  <2>2. ASSUME NEW u \in SUBSET (1 .. m)
        PROVE  f[u] = IF u = {} THEN cs ELSE Made(f[u \ {Max(u)}], seq[Max(u)], part)
    <3>1. u # {} => f[u \ {Max(u)}] \in ST
      BY <1>3
    <3> QED BY <1>3, <2>1, <3>1 DEF Folded
  <2> QED BY <2>1, <2>2
<1>5. Eq(iter)
  BY <1>4
<1> HIDE DEF iter
<1>6. Solution(iter, ST, F, cs, seq)
  <2>1. iter[{}] = cs
    BY <1>5
  <2>2. ASSUME NEW u \in SUBSET (1 .. m), u # {}, iter[u \ {Max(u)}] \in ST
        PROVE  Folded(iter, F, cs, seq, u)
    <3>1. iter[u] = Made(iter[u \ {Max(u)}], seq[Max(u)], part)
      BY <1>5, <2>2
    <3> QED BY <1>3, <2>2, <3>1 DEF Folded
  <2> QED BY <2>1, <2>2 DEF Solution
<1>7. PICK h : Trace(h, ST, F, cs, seq, iter)
  <2> HIDE DEF F
  <2>1. cs \in ST
    BY DEF ST
  <2> QED BY <1>2, <1>6, <2>1, FoldSteps
<1>8. h \in [0 .. m -> ST] /\ h[0] = cs /\ h[m] = iter[1 .. m]
  BY <1>7 DEF Trace
<1>9. ASSUME NEW i \in 1 .. m PROVE h[i] = Made(h[i-1], seq[i], part)
  <2>1. h[i - 1] \in ST /\ seq[i] \in Tool
    BY <1>8
  <2>2. h[i] = F[<<h[i - 1], seq[i]>>]
    BY <1>7 DEF Trace
  <2> QED BY <2>1, <2>2
<1> QED BY <1>1, <1>8, <1>9 DEF CMaking, ST

\* The tool calls of a chunk fit the calls so far, of which the last may be open.
Fits(seq, isopen) ==
  \A i \in DOMAIN seq :
    IF seq[i].id # None THEN seq[i].name # None
    ELSE seq[i].name = None /\ (i > 1 \/ isopen)

\* What relates a state to the calls so far, with the last open or not, is kept by
\* a fragment that begins a call and by one that continues the open call.
Keeps(P, Q, g, h, seq) ==
  /\ Q \subseteq P
  /\ \A i \in 1 .. Len(seq) :
       /\ seq[i].id # None /\ <<g[i-1], h[i-1]>> \in P => <<g[i], h[i]>> \in Q
       /\ seq[i].id = None /\ <<g[i-1], h[i-1]>> \in Q => <<g[i], h[i]>> \in Q

LEMMA InStep ==
  ASSUME NEW seq \in Seq(Tool), NEW isopen \in BOOLEAN, NEW P, NEW Q, NEW g, NEW h,
         Fits(seq, isopen), Keeps(P, Q, g, h, seq),
         <<g[0], h[0]>> \in P, isopen => <<g[0], h[0]>> \in Q
  PROVE  /\ <<g[Len(seq)], h[Len(seq)]>> \in P
         /\ seq # <<>> \/ isopen => <<g[Len(seq)], h[Len(seq)]>> \in Q
<1> DEFINE m == Len(seq)
           K == {i \in 0 .. m : IF i > 0 \/ isopen THEN <<g[i], h[i]>> \in Q
                                ELSE <<g[i], h[i]>> \in P}
<1>1. m \in Nat /\ DOMAIN seq = 1 .. m /\ (seq # <<>> => m > 0)
  OBVIOUS
<1>2. 0 \in K
  BY <1>1
<1>3. ASSUME NEW i \in 0 .. m - 1, i \in K PROVE i + 1 \in K
  <2> DEFINE k == i + 1
  <2>1. k \in 1 .. m /\ k - 1 = i /\ k \in 0 .. m /\ k > 0
    BY <1>1
  <2>2. <<g[k-1], h[k-1]>> \in P
    BY <1>3, <2>1 DEF Keeps
  <2> HIDE DEF k
  <2>3. CASE seq[k].id # None
    BY <2>1, <2>2, <2>3 DEF Keeps, k
  <2>4. CASE seq[k].id = None
    <3>1. k > 1 \/ isopen
      BY <1>1, <2>1, <2>4 DEF Fits
    <3>2. <<g[k-1], h[k-1]>> \in Q
      BY <1>3, <2>1, <3>1
    <3> QED BY <2>1, <2>4, <3>2 DEF Keeps, k
  <2> QED BY <2>3, <2>4
<1>4. m \in K
  <2> HIDE DEF K, m
  <2>1. 0 .. m \subseteq K
    BY <1>1, <1>2, <1>3, UpTo
  <2> QED BY <1>1, <2>1
<1> QED BY <1>1, <1>4 DEF Keeps

\* The bodies: a fragment that fits is collected as it was made.
LEMMA ACollectsCall ==
  ASSUME NEW a \in AAcc, NEW tc \in Tool, NEW part \in Nat, tc.id # None <=> tc.name # None
  PROVE  A!CollectTool(a, tc, part).tools = Made(a.tools, tc, part)
<1> DEFINE call == [id |-> tc.id, name |-> tc.name, args |-> <<>>]
           d == IF tc.id # None THEN Append(a.tools, call) ELSE a.tools
           b == IF tc.id # None \/ tc.name # None
                  THEN [a EXCEPT !.tools = Append(@, call)] ELSE a
           longer == [b.tools EXCEPT ![Len(b.tools)].args = Append(@, part)]
<1>1. b.tools = d
  BY DEF AAcc
<1>2. A!CollectTool(a, tc, part) =
        IF tc.args /\ b.tools # <<>> THEN [b EXCEPT !.tools = longer] ELSE b
  BY DEF A!CollectTool
<1>3. Made(a.tools, tc, part) =
        IF tc.args /\ d # <<>> THEN [d EXCEPT ![Len(d)].args = Append(@, part)] ELSE d
  BY DEF Made
<1> HIDE DEF d
<1>4. longer = [d EXCEPT ![Len(d)].args = Append(@, part)]
  BY <1>1
<1>6. "tools" \in DOMAIN b
  BY DEF AAcc
<1> HIDE DEF b, longer
<1>7. [b EXCEPT !.tools = longer].tools = longer
  BY <1>6
<1> QED BY <1>1, <1>2, <1>3, <1>4, <1>7

LEMMA ACollectsCalls ==
  ASSUME NEW a \in AAcc, NEW c \in Chunks, NEW part \in Nat, NEW isopen \in BOOLEAN,
         Fits(c.tools, isopen)
  PROVE  A!Collect(a, c, part).tools = CallsMade(a.tools, c.tools, part)
<1>1. /\ c.choice \in BOOLEAN /\ c.think \in BOOLEAN /\ c.text \in BOOLEAN
      /\ c.tools \in Seq(Tool) /\ c.stop \in BOOLEAN /\ c.usage \in BOOLEAN
      /\ ~c.choice => c.tools = <<>>
  BY ChunksAssumption
<1>2. part \in Parts
  BY DEF Parts
<1>0. a.tools \in Seq(Call)
  BY DEF AAcc
<1>3. PICK h : CMaking(h, a.tools, c.tools, part)
  BY <1>0, <1>1, CMakes
<1> DEFINE m == Len(c.tools)
<1>4. /\ m \in Nat /\ h \in [0 .. m -> Seq(Call)] /\ h[0] = a.tools
      /\ h[m] = CallsMade(a.tools, c.tools, part)
      /\ \A i \in 1 .. m : h[i] = Made(h[i-1], c.tools[i], part)
  <2>1. m \in Nat
    BY <1>1
  <2> QED BY <1>3, <2>1 DEF CMaking
<1>5. CASE ~c.choice
  <2>1. A!Collect(a, c, part).tools = a.tools
    BY <1>5 DEF A!Collect, AAcc
  <2>2. m = 0
    BY <1>1, <1>5
  <2> QED BY <1>4, <2>1, <2>2
<1>6. CASE c.choice
  <2> DEFINE a1 == IF c.think THEN [a EXCEPT !.think = Append(@, part)] ELSE a
             a2 == IF c.text THEN [a1 EXCEPT !.text = Append(@, part)] ELSE a1
             a3 == A!CollectTools(a2, c.tools, part)
  <2>1. a1 \in AAcc /\ a1.tools = a.tools
    <3>1. Append(a.think, part) \in Seq(Nat)
      BY DEF AAcc
    <3> QED BY <1>1, <3>1 DEF AAcc
  <2> HIDE DEF a1
  <2>2. a2 \in AAcc /\ a2.tools = a.tools
    <3>1. Append(a1.text, part) \in Seq(Nat)
      BY <2>1 DEF AAcc
    <3> QED BY <1>1, <2>1, <3>1 DEF AAcc
  <2> HIDE DEF a2
  <2>3. AKept(AAcc, part)
    BY ACollectTool DEF AKept
  <2>4. PICK g : AGathering(g, AAcc, a2, c.tools, part)
    BY <1>1, <2>2, <2>3, AGathers
  <2>5. /\ g \in [0 .. m -> AAcc] /\ g[0] = a2 /\ g[m] = a3
        /\ \A i \in 1 .. m : g[i] = A!CollectTool(g[i-1], c.tools[i], part)
    BY <2>4 DEF AGathering
  <2> DEFINE P == {p \in AAcc \X Seq(Call) : p[1].tools = p[2]}
  <2>6. Keeps(P, P, g, h, c.tools)
    <3>1. ASSUME NEW i \in 1 .. m, <<g[i-1], h[i-1]>> \in P PROVE <<g[i], h[i]>> \in P
      <4> DEFINE x == g[i-1]
                 tc == c.tools[i]
      <4>1. x \in AAcc /\ x.tools = h[i-1] /\ g[i] \in AAcc /\ h[i] \in Seq(Call)
        BY <1>4, <2>5, <3>1
      <4>2. tc \in Tool /\ (tc.id # None <=> tc.name # None)
        BY <1>1 DEF Fits
      <4>3. g[i] = A!CollectTool(x, tc, part) /\ h[i] = Made(x.tools, tc, part)
        BY <1>4, <2>5, <4>1
      <4> HIDE DEF x, tc
      <4>4. g[i].tools = h[i]
        BY <4>1, <4>2, <4>3, ACollectsCall
      <4> QED BY <4>1, <4>4
    <3> HIDE DEF P
    <3> QED BY <3>1 DEF Keeps
  <2>7. <<g[0], h[0]>> \in P
    BY <1>0, <1>4, <2>2, <2>5
  <2>8. <<a3, h[m]>> \in P
    <3> HIDE DEF P
    <3>1. <<g[0], h[0]>> \in P /\ (isopen => <<g[0], h[0]>> \in P)
      BY <2>7
    <3>2. <<g[m], h[m]>> \in P
      BY <1>1, <2>6, <3>1, InStep
    <3> QED BY <2>5, <3>2
  <2>9. a3 \in AAcc /\ a3.tools = h[m]
    BY <2>8
  <2>10. A!Collect(a, c, part) = A!Stop(a3, c, part)
    BY <1>6 DEF A!Collect, a1, a2
  <2> HIDE DEF a3
  <2>11. A!Stop(a3, c, part).tools = a3.tools
    BY <2>9 DEF A!Stop, AAcc
  <2> QED BY <1>4, <2>9, <2>10, <2>11
<1> QED BY <1>1, <1>5, <1>6

LEMMA RCollectsCall ==
  ASSUME NEW a \in RAcc, NEW tc \in Tool, NEW part \in Nat, tc.id # None <=> tc.name # None
  PROVE  R!CollectTool(a, tc, part).fcs = Made(a.fcs, tc, part)
<1> DEFINE call == [id |-> tc.id, name |-> tc.name, args |-> <<>>]
           d == IF tc.id # None THEN Append(a.fcs, call) ELSE a.fcs
           b == IF tc.id # None \/ tc.name # None
                  THEN [a EXCEPT !.fcs = Append(@, call)] ELSE a
           longer == [b.fcs EXCEPT ![Len(b.fcs)].args = Append(@, part)]
<1>1. b.fcs = d /\ "fcs" \in DOMAIN b
  BY DEF RAcc
<1>2. R!CollectTool(a, tc, part) =
        IF tc.args /\ b.fcs # <<>> THEN [b EXCEPT !.fcs = longer] ELSE b
  BY DEF R!CollectTool
<1>3. Made(a.fcs, tc, part) =
        IF tc.args /\ d # <<>> THEN [d EXCEPT ![Len(d)].args = Append(@, part)] ELSE d
  BY DEF Made
<1> HIDE DEF d
<1>4. longer = [d EXCEPT ![Len(d)].args = Append(@, part)]
  BY <1>1
<1> HIDE DEF b, longer
<1>5. [b EXCEPT !.fcs = longer].fcs = longer
  BY <1>1
<1> QED BY <1>1, <1>2, <1>3, <1>4, <1>5

LEMMA RCollectsCalls ==
  ASSUME NEW a \in RAcc, NEW c \in Chunks, NEW part \in Nat, NEW isopen \in BOOLEAN,
         Fits(c.tools, isopen)
  PROVE  R!Collect(a, c, part).fcs = CallsMade(a.fcs, c.tools, part)
<1>1. /\ c.choice \in BOOLEAN /\ c.think \in BOOLEAN /\ c.text \in BOOLEAN
      /\ c.tools \in Seq(Tool) /\ c.stop \in BOOLEAN /\ c.usage \in BOOLEAN
      /\ ~c.choice => c.tools = <<>>
  BY ChunksAssumption
<1>2. part \in Parts
  BY DEF Parts
<1>0. a.fcs \in Seq(Call)
  BY DEF RAcc
<1>3. PICK h : CMaking(h, a.fcs, c.tools, part)
  BY <1>0, <1>1, CMakes
<1> DEFINE m == Len(c.tools)
           u == R!UsageOf(a, c, part)
<1>4. /\ m \in Nat /\ h \in [0 .. m -> Seq(Call)] /\ h[0] = a.fcs
      /\ h[m] = CallsMade(a.fcs, c.tools, part)
      /\ \A i \in 1 .. m : h[i] = Made(h[i-1], c.tools[i], part)
  <2>1. m \in Nat
    BY <1>1
  <2> QED BY <1>3, <2>1 DEF CMaking
<1>7. u \in RAcc /\ u.fcs = a.fcs
  BY <1>2 DEF R!UsageOf, RAcc
<1>5. CASE ~c.choice
  <2>1. R!Collect(a, c, part) = u
    BY <1>5 DEF R!Collect
  <2>2. m = 0
    BY <1>1, <1>5
  <2> QED BY <1>4, <1>7, <2>1, <2>2
<1>6. CASE c.choice
  <2> DEFINE a1 == IF c.think THEN [u EXCEPT !.reasoning = Append(@, part)] ELSE u
             a2 == IF c.text THEN [a1 EXCEPT !.text = Append(@, part)] ELSE a1
             a3 == R!CollectTools(a2, c.tools, part)
  <2>0. R!Collect(a, c, part) = IF c.stop THEN [a3 EXCEPT !.stop = part] ELSE a3
    BY <1>6 DEF R!Collect
  <2> HIDE DEF u
  <2>1. a1 \in RAcc /\ a1.fcs = a.fcs
    <3>1. Append(u.reasoning, part) \in Seq(Nat)
      BY <1>7 DEF RAcc
    <3> QED BY <1>1, <1>7, <3>1 DEF RAcc
  <2> HIDE DEF a1
  <2>2. a2 \in RAcc /\ a2.fcs = a.fcs
    <3>1. Append(a1.text, part) \in Seq(Nat)
      BY <2>1 DEF RAcc
    <3> QED BY <1>1, <2>1, <3>1 DEF RAcc
  <2> HIDE DEF a2
  <2>3. RKept(RAcc, part)
    BY RCollectTool DEF RKept
  <2>4. PICK g : RGathering(g, RAcc, a2, c.tools, part)
    BY <1>1, <2>2, <2>3, RGathers
  <2>5. /\ g \in [0 .. m -> RAcc] /\ g[0] = a2 /\ g[m] = a3
        /\ \A i \in 1 .. m : g[i] = R!CollectTool(g[i-1], c.tools[i], part)
    BY <2>4 DEF RGathering
  <2> DEFINE P == {p \in RAcc \X Seq(Call) : p[1].fcs = p[2]}
  <2>6. Keeps(P, P, g, h, c.tools)
    <3>1. ASSUME NEW i \in 1 .. m, <<g[i-1], h[i-1]>> \in P PROVE <<g[i], h[i]>> \in P
      <4> DEFINE x == g[i-1]
                 tc == c.tools[i]
      <4>1. x \in RAcc /\ x.fcs = h[i-1] /\ g[i] \in RAcc /\ h[i] \in Seq(Call)
        BY <1>4, <2>5, <3>1
      <4>2. tc \in Tool /\ (tc.id # None <=> tc.name # None)
        BY <1>1 DEF Fits
      <4>3. g[i] = R!CollectTool(x, tc, part) /\ h[i] = Made(x.fcs, tc, part)
        BY <1>4, <2>5, <4>1
      <4> HIDE DEF x, tc
      <4>4. g[i].fcs = h[i]
        BY <4>1, <4>2, <4>3, RCollectsCall
      <4> QED BY <4>1, <4>4
    <3> HIDE DEF P
    <3> QED BY <3>1 DEF Keeps
  <2>7. <<g[0], h[0]>> \in P
    BY <1>0, <1>4, <2>2, <2>5
  <2>8. <<a3, h[m]>> \in P
    <3> HIDE DEF P
    <3>1. <<g[0], h[0]>> \in P /\ (isopen => <<g[0], h[0]>> \in P)
      BY <2>7
    <3>2. <<g[m], h[m]>> \in P
      BY <1>1, <2>6, <3>1, InStep
    <3> QED BY <2>5, <3>2
  <2>9. a3 \in RAcc /\ a3.fcs = h[m]
    BY <2>8
  <2> HIDE DEF a3
  <2>11. R!Collect(a, c, part).fcs = a3.fcs
    BY <2>0, <2>9 DEF RAcc
  <2> QED BY <1>4, <2>9, <2>11
<1> QED BY <1>1, <1>5, <1>6

----------------------------------------------------------------------------
(* The calls in the events of the Anthropic protocol.                      *)

\* What an event adds to the tool blocks begun, and to the deltas of a block.
AStart == [id : Ids \cup {None}, name : Ids \cup {None}, index : Nat]
AStarts ==
  [x \in AEvent |-> IF x.e = "block_start" /\ x.kind = "tool_use"
                      THEN <<[id |-> x.id, name |-> x.name, index |-> x.index]>> ELSE <<>>]
AAt(i) == [x \in AEvent |-> IF x.e = "block_delta" /\ x.index = i THEN <<x.part>> ELSE <<>>]

AStarts1(q, ev) ==
  /\ Gather(AStarts, q) \in Seq(AStart)
  /\ Gather(AStarts, Append(q, ev)) =
       IF ev.e = "block_start" /\ ev.kind = "tool_use"
         THEN Append(Gather(AStarts, q), [id |-> ev.id, name |-> ev.name, index |-> ev.index])
         ELSE Gather(AStarts, q)
AAt1(q, ev, i) ==
  /\ Gather(AAt(i), q) \in Seq(Nat)
  /\ Gather(AAt(i), Append(q, ev)) =
       IF ev.e = "block_delta" /\ ev.index = i
         THEN Append(Gather(AAt(i), q), ev.part) ELSE Gather(AAt(i), q)

LEMMA ACallsGrown ==
  ASSUME NEW q \in Seq(AEvent), NEW ev \in AEvent
  PROVE  AStarts1(q, ev) /\ \A i : AAt1(q, ev, i)
<1>1. AStarts1(q, ev)
  <2> DEFINE C == AStarts
             Adds == ev.e = "block_start" /\ ev.kind = "tool_use"
             x == [id |-> ev.id, name |-> ev.name, index |-> ev.index]
  <2>1. ASSUME NEW y \in AEvent, y.e = "block_start"
        PROVE  [id |-> y.id, name |-> y.name, index |-> y.index] \in AStart
    <3>1. y.id \in Ids \cup {None} /\ y.name \in Ids \cup {None} /\ y.index \in Nat
      BY <2>1 DEF AEvent
    <3> QED BY <3>1 DEF AStart
  <2>2. Contributes(C, AEvent, AStart)
    <3>1. ASSUME NEW y \in AEvent PROVE C[y] \in Seq(AStart)
      <4> DEFINE z == [id |-> y.id, name |-> y.name, index |-> y.index]
      <4>1. y.e = "block_start" => z \in AStart
        BY <2>1
      <4>2. C[y] = IF y.e = "block_start" /\ y.kind = "tool_use" THEN <<z>> ELSE <<>>
        BY DEF AStarts
      <4> HIDE DEF z, C
      <4> QED BY <4>1, <4>2
    <3> QED BY <3>1 DEF AStarts, Contributes
  <2>3. /\ Adds \in BOOLEAN /\ (Adds => x \in AStart)
        /\ C[ev] = IF Adds THEN <<x>> ELSE <<>>
    BY <2>1 DEF AStarts
  <2> HIDE DEF C, Adds, x
  <2>4. /\ Gather(C, q) \in Seq(AStart)
        /\ Gather(C, Append(q, ev)) = IF Adds THEN Append(Gather(C, q), x) ELSE Gather(C, q)
    BY <2>2, <2>3, OneOrNone
  <2> QED BY <2>4 DEF AStarts1, C, Adds, x
<1>2. ASSUME NEW i PROVE AAt1(q, ev, i)
  <2> DEFINE C == AAt(i)
             Adds == ev.e = "block_delta" /\ ev.index = i
             x == ev.part
  <2>1. ASSUME NEW y \in AEvent, y.e = "block_delta" PROVE y.part \in Nat
    BY <2>1 DEF AEvent
  <2>2. Contributes(C, AEvent, Nat)
    <3>1. ASSUME NEW y \in AEvent PROVE C[y] \in Seq(Nat)
      BY <2>1 DEF AAt
    <3> QED BY <3>1 DEF AAt, Contributes
  <2>3. /\ Adds \in BOOLEAN /\ (Adds => x \in Nat)
        /\ C[ev] = IF Adds THEN <<x>> ELSE <<>>
    BY <2>1 DEF AAt
  <2> HIDE DEF C, Adds, x
  <2>4. /\ Gather(C, q) \in Seq(Nat)
        /\ Gather(C, Append(q, ev)) = IF Adds THEN Append(Gather(C, q), x) ELSE Gather(C, q)
    BY <2>2, <2>3, OneOrNone
  <2> QED BY <2>4 DEF AAt1, C, Adds, x
<1> QED BY <1>1, <1>2

\* The tool blocks so far are the calls so far.
AShown(q, b, call) == call = [id |-> b.id, name |-> b.name, args |-> Gather(AAt(b.index), q)]
AShows(q, cs) ==
  LET bs == Gather(AStarts, q)
  IN Len(bs) = Len(cs) /\ \A i \in 1 .. Len(cs) : AShown(q, bs[i], cs[i])

\* Their indices are below the state's, but for a block that is open; there are no
\* deltas for the blocks to come.
AHas(s, cs) ==
  LET bs == Gather(AStarts, s.out)
  IN /\ AShows(s.out, cs)
     /\ \A i \in 1 .. Len(cs) :
          bs[i].index < s.index \/ (s.kind = "tool_use" /\ i = Len(cs))
     /\ s.kind = "tool_use" => cs # <<>> /\ bs[Len(cs)].index = s.index
     /\ \A j \in Nat :
          j > s.index \/ (s.kind = None /\ j = s.index) => Gather(AAt(j), s.out) = <<>>

ASilent(q, r) ==
  /\ Gather(AStarts, r) = Gather(AStarts, q)
  /\ \A i : Gather(AAt(i), r) = Gather(AAt(i), q)

LEMMA AHush ==
  ASSUME NEW q \in Seq(AEvent), NEW ev \in AEvent, ev.e # "block_delta",
         ev.e = "block_start" => ev.kind # "tool_use"
  PROVE  ASilent(q, Append(q, ev))
<1>1. AStarts1(q, ev) /\ \A i : AAt1(q, ev, i)
  BY ACallsGrown
<1>2. Gather(AStarts, Append(q, ev)) = Gather(AStarts, q)
  BY <1>1 DEF AStarts1
<1>3. \A i : Gather(AAt(i), Append(q, ev)) = Gather(AAt(i), q)
  BY <1>1 DEF AAt1
<1> QED BY <1>2, <1>3 DEF ASilent

\* Nothing happens to the calls when a block that is not a call begins, or any block
\* ends.
LEMMA ACarry ==
  ASSUME NEW s \in AState, NEW cs \in Seq(Call), AHas(s, cs), NEW t, ASilent(s.out, t.out),
         \/ t.kind = s.kind /\ t.index = s.index
         \/ s.kind = None /\ t.kind # "tool_use" /\ t.kind # None /\ t.index = s.index
         \/ t.kind = None /\ t.index = s.index + 1
  PROVE  AHas(t, cs)
<1> DEFINE bs == Gather(AStarts, s.out)
           m == Len(cs)
<1>1. Gather(AStarts, t.out) = bs /\ \A i : Gather(AAt(i), t.out) = Gather(AAt(i), s.out)
  BY DEF ASilent
<1>2. AShows(t.out, cs)
  BY <1>1 DEF AHas, AShows, AShown
<1>3. s.index \in Nat /\ s.kind \in AKinds \cup {None} /\ None # "tool_use" /\ m \in Nat
  BY NoneAssumption DEF AState
<1>4. /\ \A i \in 1 .. m : bs[i].index < s.index \/ (s.kind = "tool_use" /\ i = m)
      /\ s.kind = "tool_use" => cs # <<>> /\ bs[m].index = s.index
      /\ \A j \in Nat :
           j > s.index \/ (s.kind = None /\ j = s.index) => Gather(AAt(j), s.out) = <<>>
  BY DEF AHas
<1>5. \A i \in 1 .. m : bs[i].index \in Nat
  <2>1. bs \in Seq(AStart)
    <3>1. [e |-> "error"] \in AEvent
      BY DEF AEvent
    <3>2. s.out \in Seq(AEvent)
      BY DEF AState
    <3> QED BY <3>1, <3>2, ACallsGrown DEF AStarts1
  <2>2. Len(bs) = m
    BY DEF AHas, AShows
  <2> HIDE DEF bs, m
  <2>3. \A i \in 1 .. m : bs[i] \in AStart
    BY <2>1, <2>2
  <2> QED BY <2>3 DEF AStart
<1> HIDE DEF bs, m
<1>6. \A i \in 1 .. m : bs[i].index < t.index \/ (t.kind = "tool_use" /\ i = m)
  BY <1>3, <1>4, <1>5
<1>7. t.kind = "tool_use" => cs # <<>> /\ bs[m].index = t.index
  BY <1>3, <1>4
<1>8. \A j \in Nat :
        j > t.index \/ (t.kind = None /\ j = t.index) => Gather(AAt(j), t.out) = <<>>
  BY <1>1, <1>3, <1>4
<1> QED BY <1>1, <1>2, <1>6, <1>7, <1>8 DEF AHas, bs, m

LEMMA AOpenHas ==
  ASSUME NEW s \in AReading, NEW cs \in Seq(Call), AHas(s, cs)
  PROVE  /\ AHas(A!MessageStart(s), cs)
         /\ AHas(A!CloseBlock(s), cs)
<1>1. s \in AState /\ ~s.stopped /\ s.out \in Seq(AEvent) /\ s.index \in Nat
  BY DEF AReading, AState
<1>2. AHas(A!MessageStart(s), cs)
  <2>1. CASE s.started
    BY <2>1 DEF A!MessageStart
  <2>2. CASE ~s.started
    <3> DEFINE ev == [e |-> "message_start"]
               t == [s EXCEPT !.started = TRUE, !.out = Append(@, ev)]
    <3>1. A!MessageStart(s) = t
      BY <1>1, <2>2 DEF A!MessageStart, A!Emit, AState
    <3>2. ev \in AEvent /\ ev.e = "message_start"
      BY DEF AEvent
    <3>3. t.kind = s.kind /\ t.index = s.index /\ t.out = Append(s.out, ev)
      <4> HIDE DEF ev
      <4> QED BY <1>1 DEF AState
    <3> HIDE DEF ev, t
    <3>4. ASilent(s.out, t.out)
      BY <1>1, <3>2, <3>3, AHush
    <3> QED BY <1>1, <3>1, <3>3, <3>4, ACarry
  <2> QED BY <2>1, <2>2
<1>3. AHas(A!CloseBlock(s), cs)
  <2>1. CASE s.kind = None
    BY <2>1 DEF A!CloseBlock
  <2>2. CASE s.kind # None
    <3> DEFINE ev == [e |-> "block_stop", index |-> s.index]
               t == [s EXCEPT !.out = Append(@, ev), !.kind = None, !.index = @ + 1]
    <3>1. A!CloseBlock(s) = t
      BY <1>1, <2>2 DEF A!CloseBlock, A!Emit, AState
    <3>2. ev \in AEvent /\ ev.e = "block_stop"
      BY <1>1 DEF AEvent, AState
    <3>3. t.kind = None /\ t.index = s.index + 1 /\ t.out = Append(s.out, ev)
      <4> HIDE DEF ev
      <4> QED BY <1>1 DEF AState
    <3> HIDE DEF ev, t
    <3>4. ASilent(s.out, t.out)
      BY <1>1, <3>2, <3>3, AHush
    <3> QED BY <1>1, <3>1, <3>3, <3>4, ACarry
  <2> QED BY <2>1, <2>2
<1> QED BY <1>2, <1>3

\* A block begins.
LEMMA AStartHas ==
  ASSUME NEW s \in AReading, NEW cs \in Seq(Call), AHas(s, cs), NEW kind \in AKinds
  PROVE  AHas(A!StartBlock(s, kind),
              IF kind = "tool_use"
                THEN Append(cs, [id |-> s.toolID, name |-> s.toolName, args |-> <<>>]) ELSE cs)
<1> DEFINE c == A!CloseBlock(A!MessageStart(s))
           ev == [e |-> "block_start", index |-> c.index, kind |-> kind,
                  id |-> IF kind = "tool_use" THEN s.toolID ELSE None,
                  name |-> IF kind = "tool_use" THEN s.toolName ELSE None]
           t == [c EXCEPT !.kind = kind, !.out = Append(@, ev)]
           call == [id |-> s.toolID, name |-> s.toolName, args |-> <<>>]
           m == Len(cs)
<1>1. c \in AReading /\ c.kind = None /\ AHas(c, cs)
  BY AMessageStart, ACloseBlock, AOpenHas
<1>2. A!StartBlock(s, kind) = A!Emit([c EXCEPT !.kind = kind], ev)
  BY DEF A!StartBlock
<1> HIDE DEF c
<1>3. c \in AState /\ ~c.stopped /\ c.out \in Seq(AEvent) /\ c.index \in Nat
  BY <1>1 DEF AReading, AState
<1>4. A!StartBlock(s, kind) = t
  BY <1>2, <1>3 DEF A!Emit, AState
<1>5. s.toolID \in Ids \cup {None} /\ s.toolName \in Ids \cup {None}
  BY DEF AReading, AState
<1>6. /\ ev \in AEvent /\ ev.e = "block_start" /\ ev.index = c.index /\ ev.kind = kind
      /\ kind = "tool_use" => ev.id = s.toolID /\ ev.name = s.toolName
  BY <1>3, <1>5 DEF AEvent
<1> HIDE DEF ev
<1>7. t.kind = kind /\ t.index = c.index /\ t.out = Append(c.out, ev)
  BY <1>3 DEF AState
<1>8. kind # None
  BY NoneAssumption DEF AKinds
<1> HIDE DEF t
<1>9. CASE kind # "tool_use"
  <2>1. ASilent(c.out, t.out)
    BY <1>3, <1>6, <1>7, <1>9, AHush
  <2>2. AHas(t, cs)
    BY <1>1, <1>3, <1>7, <1>8, <1>9, <2>1, ACarry
  <2> QED BY <1>4, <1>9, <2>2
<1>10. CASE kind = "tool_use"
  <2> DEFINE bs == Gather(AStarts, c.out)
             b == [id |-> ev.id, name |-> ev.name, index |-> ev.index]
             ds == Append(cs, call)
  <2>1. AStarts1(c.out, ev) /\ \A i : AAt1(c.out, ev, i)
    BY <1>3, <1>6, ACallsGrown
  <2>2. bs \in Seq(AStart) /\ Gather(AStarts, t.out) = Append(bs, b)
    BY <1>6, <1>7, <1>10, <2>1 DEF AStarts1
  <2>3. \A i : Gather(AAt(i), t.out) = Gather(AAt(i), c.out)
    BY <1>6, <1>7, <2>1 DEF AAt1
  <2>4. /\ b \in AStart /\ b.id = s.toolID /\ b.name = s.toolName /\ b.index = c.index
    BY <1>3, <1>5, <1>6, <1>10 DEF AStart
  <2>5. /\ call \in Call /\ call.id = s.toolID /\ call.name = s.toolName
    BY <1>5 DEF Call
  <2>6. /\ AShows(c.out, cs) /\ Gather(AAt(c.index), c.out) = <<>>
        /\ \A i \in 1 .. m : bs[i].index < c.index
        /\ \A j \in Nat : j > c.index => Gather(AAt(j), c.out) = <<>>
    BY <1>1, <1>3, NoneAssumption DEF AHas
  <2>7. Len(bs) = m /\ \A i \in 1 .. m : AShown(c.out, bs[i], cs[i])
    BY <2>6 DEF AShows
  <2>8. AShown(t.out, b, call)
    BY <2>3, <2>4, <2>6 DEF AShown
  <2> HIDE DEF b, call, bs
  <2>9. /\ m \in Nat /\ Len(ds) = m + 1 /\ ds[m + 1] = call /\ ds # <<>>
        /\ \A i \in 1 .. m : ds[i] = cs[i]
    BY <2>5
  <2>10. /\ Append(bs, b)[m + 1] = b /\ Len(Append(bs, b)) = m + 1
         /\ \A i \in 1 .. m : Append(bs, b)[i] = bs[i]
    BY <2>2, <2>4, <2>7, <2>9
  <2> DEFINE bb == Append(bs, b)
  <2> HIDE DEF bb, ds, m
  <2>11. AShows(t.out, ds)
    <3>1. ASSUME NEW i \in 1 .. m + 1 PROVE AShown(t.out, bb[i], ds[i])
      <4>1. CASE i = m + 1
        BY <2>8, <2>9, <2>10, <4>1 DEF bb
      <4>2. CASE i # m + 1
        <5>1. i \in 1 .. m
          BY <2>9, <4>2
        <5>2. bb[i] = bs[i] /\ ds[i] = cs[i]
          BY <2>9, <2>10, <5>1 DEF bb
        <5> QED BY <2>3, <2>7, <5>1, <5>2 DEF AShown
      <4> QED BY <4>1, <4>2
    <3>2. Gather(AStarts, t.out) = bb /\ Len(bb) = Len(ds) /\ Len(ds) = m + 1
      BY <2>2, <2>9, <2>10 DEF bb
    <3> QED BY <3>1, <3>2 DEF AShows
  <2>12. \A i \in 1 .. m + 1 : bb[i].index < c.index \/ i = m + 1
    BY <2>6, <2>9, <2>10 DEF bb
  <2>13. bb[m + 1].index = c.index
    BY <2>4, <2>10 DEF bb
  <2>14. \A j \in Nat : j > c.index => Gather(AAt(j), t.out) = <<>>
    BY <2>3, <2>6
  <2>15. AHas(t, ds)
    <3>1. Gather(AStarts, t.out) = bb /\ Len(ds) = m + 1
      BY <2>2, <2>9 DEF bb
    <3> QED BY <1>7, <1>8, <1>10, <2>9, <2>11, <2>12, <2>13, <2>14, <3>1 DEF AHas
  <2> QED BY <1>4, <1>10, <2>15 DEF ds, call
<1> QED BY <1>9, <1>10

LEMMA AOpenBlockHas ==
  ASSUME NEW s \in AReading, NEW cs \in Seq(Call), AHas(s, cs), NEW kind \in AKinds,
         kind # "tool_use" \/ s.kind = "tool_use"
  PROVE  AHas(A!OpenBlock(s, kind), cs)
<1>1. A!MessageStart(s) \in AReading /\ A!MessageStart(s).kind = s.kind
      /\ AHas(A!MessageStart(s), cs)
  BY AMessageStart, AOpenHas
<1>2. kind # "tool_use" => AHas(A!StartBlock(A!MessageStart(s), kind), cs)
  BY <1>1, AStartHas
<1> QED BY <1>1, <1>2 DEF A!OpenBlock

\* The last call has one more fragment.
CLonger(cs, part) == [cs EXCEPT ![Len(cs)].args = Append(@, part)]

LEMMA ADeltaHas ==
  ASSUME NEW s \in AReading, s.kind # None, NEW cs \in Seq(Call), AHas(s, cs),
         NEW part \in Nat
  PROVE  AHas(A!Delta(s, part), IF s.kind = "tool_use" THEN CLonger(cs, part) ELSE cs)
<1> DEFINE ev == [e |-> "block_delta", index |-> s.index, kind |-> s.kind, part |-> part]
           t == [s EXCEPT !.out = Append(@, ev)]
           m == Len(cs)
           bs == Gather(AStarts, s.out)
           ds == IF s.kind = "tool_use" THEN CLonger(cs, part) ELSE cs
<1>1. /\ s \in AState /\ ~s.stopped /\ s.out \in Seq(AEvent) /\ s.index \in Nat
      /\ s.kind \in AKinds \cup {None} /\ m \in Nat
  BY DEF AReading, AState
<1>2. A!Delta(s, part) = t
  BY <1>1 DEF A!Delta, A!Emit, AState
<1>3. /\ ev \in AEvent /\ ev.e = "block_delta" /\ ev.index = s.index /\ ev.part = part
  BY <1>1 DEF AEvent
<1> HIDE DEF ev
<1>4. t.kind = s.kind /\ t.index = s.index /\ t.out = Append(s.out, ev)
  BY <1>1 DEF AState
<1> HIDE DEF t
<1>5. AStarts1(s.out, ev) /\ \A i : AAt1(s.out, ev, i)
  BY <1>1, <1>3, ACallsGrown
<1>6. bs \in Seq(AStart) /\ Gather(AStarts, t.out) = bs
  BY <1>3, <1>4, <1>5 DEF AStarts1
<1>7. \A i : Gather(AAt(i), t.out) =
               IF i = s.index THEN Append(Gather(AAt(i), s.out), part) ELSE Gather(AAt(i), s.out)
  BY <1>3, <1>4, <1>5 DEF AAt1
<1>8. /\ Len(bs) = m /\ \A i \in 1 .. m : AShown(s.out, bs[i], cs[i])
      /\ \A i \in 1 .. m : bs[i].index < s.index \/ (s.kind = "tool_use" /\ i = m)
      /\ s.kind = "tool_use" => cs # <<>> /\ bs[m].index = s.index
      /\ \A j \in Nat : j > s.index => Gather(AAt(j), s.out) = <<>>
  BY DEF AHas, AShows
<1>9. \A i \in 1 .. m : bs[i].index \in Nat
  <2> HIDE DEF bs, m
  <2>1. \A i \in 1 .. m : bs[i] \in AStart
    BY <1>6, <1>8
  <2> QED BY <2>1 DEF AStart
<1>10. /\ Len(ds) = m
       /\ \A i \in 1 .. m : s.kind # "tool_use" \/ i # m => ds[i] = cs[i]
       /\ s.kind = "tool_use" =>
            /\ m \in 1 .. m /\ ds # <<>>
            /\ ds[m] = [id |-> cs[m].id, name |-> cs[m].name, args |-> Append(cs[m].args, part)]
  <2>1. CASE s.kind # "tool_use"
    BY <2>1
  <2>2. CASE s.kind = "tool_use"
    <3>1. cs # <<>> /\ ds = CLonger(cs, part)
      BY <1>8, <2>2
    <3>2. m \in 1 .. m /\ cs[m] \in Call /\ DOMAIN cs = 1 .. m
      BY <3>1
    <3> HIDE DEF ds
    <3>3. Len(ds) = m /\ \A i \in 1 .. m : i # m => ds[i] = cs[i]
      BY <1>1, <3>1, <3>2 DEF CLonger
    <3>4. ds[m] = [cs[m] EXCEPT !.args = Append(@, part)]
      BY <3>1, <3>2 DEF CLonger
    <3> DEFINE x == cs[m]
    <3>5. x \in Call /\ ds[m] = [x EXCEPT !.args = Append(@, part)]
      BY <3>2, <3>4
    <3> HIDE DEF x
    <3>6. ds[m] = [id |-> x.id, name |-> x.name, args |-> Append(x.args, part)]
      BY <3>5 DEF Call
    <3>7. ds # <<>>
      <4>1. Len(<<>>) = 0
        OBVIOUS
      <4> HIDE DEF m
      <4>2. m # 0
        BY <3>2
      <4> QED BY <3>3, <4>1, <4>2
    <3> QED BY <2>2, <3>2, <3>3, <3>6, <3>7 DEF x
  <2> QED BY <2>1, <2>2
<1> HIDE DEF ds, bs, m
<1>11. ASSUME NEW i \in 1 .. m PROVE AShown(t.out, bs[i], ds[i])
  <2>0. cs[i] = [id |-> bs[i].id, name |-> bs[i].name,
                 args |-> Gather(AAt(bs[i].index), s.out)]
    BY <1>8 DEF AShown
  <2>1. CASE s.kind = "tool_use" /\ i = m
    <3>1. bs[i].index = s.index
      BY <1>8, <2>1
    <3>2. Gather(AAt(bs[i].index), t.out) = Append(Gather(AAt(bs[i].index), s.out), part)
      BY <1>7, <3>1
    <3>3. ds[i] = [id |-> cs[i].id, name |-> cs[i].name, args |-> Append(cs[i].args, part)]
      BY <1>10, <2>1
    <3> QED BY <2>0, <3>2, <3>3 DEF AShown
  <2>2. CASE ~(s.kind = "tool_use" /\ i = m)
    <3>1. bs[i].index < s.index /\ bs[i].index \in Nat /\ ds[i] = cs[i]
      BY <1>8, <1>9, <1>10, <2>2
    <3>2. Gather(AAt(bs[i].index), t.out) = Gather(AAt(bs[i].index), s.out)
      BY <1>1, <1>7, <3>1
    <3> QED BY <2>0, <3>1, <3>2 DEF AShown
  <2> QED BY <2>1, <2>2
<1>12. \A j \in Nat : j > s.index => Gather(AAt(j), t.out) = <<>>
  BY <1>1, <1>7, <1>8
<1>13. AHas(t, ds)
  BY <1>4, <1>6, <1>8, <1>10, <1>11, <1>12 DEF AHas, AShows
<1> QED BY <1>2, <1>13 DEF ds

LEMMA ADeltaKind ==
  ASSUME NEW s \in AReading, NEW part
  PROVE  A!Delta(s, part).kind = s.kind
BY DEF A!Delta, A!Emit, AReading, AState

\* A fragment continues the open call, or begins one.
LEMMA AToolHas ==
  ASSUME NEW s \in AReading, NEW cs \in Seq(Call), AHas(s, cs), NEW tc \in Tool,
         NEW part \in Nat,
         IF tc.id # None THEN tc.name # None ELSE tc.name = None /\ s.kind = "tool_use"
  PROVE  /\ A!ToolCall(s, tc, part) \in AReading
         /\ AHas(A!ToolCall(s, tc, part), Made(cs, tc, part))
         /\ A!ToolCall(s, tc, part).kind = "tool_use"
<1> DEFINE noted == [s EXCEPT !.toolID = IF tc.id # None THEN tc.id ELSE @,
                              !.toolName = IF tc.name # None THEN tc.name ELSE @]
           begun == IF A!Begins(s, tc) THEN A!NewToolBlock(noted) ELSE s
           o == A!OpenBlock(begun, "tool_use")
           call == [id |-> tc.id, name |-> tc.name, args |-> <<>>]
           b == IF tc.id # None THEN Append(cs, call) ELSE cs
<1>1. A!ToolCall(s, tc, part) = IF tc.args THEN A!Delta(o, part) ELSE begun
  BY DEF A!ToolCall
<1>2. "tool_use" \in AKinds /\ "tool_use" # None
  BY NoneAssumption DEF AKinds
<1>3. noted \in AReading /\ noted.kind = s.kind /\ noted.index = s.index /\ noted.out = s.out
  BY DEF AReading, AState, AFit, Tool
<1>4. tc.id # None => noted.toolID = tc.id /\ noted.toolName = tc.name
  BY DEF AReading, AState
<1> HIDE DEF noted
<1>5. b \in Seq(Call) /\ Made(cs, tc, part) = IF tc.args /\ b # <<>> THEN CLonger(b, part) ELSE b
  BY CMade DEF CLonger
<1>6. begun \in AReading /\ begun.kind = "tool_use" /\ AHas(begun, b) /\ b # <<>>
  <2>1. CASE tc.id # None
    <3>1. AHas(noted, cs)
      <4>1. s \in AState /\ ASilent(s.out, noted.out)
        BY <1>3 DEF AReading, ASilent
      <4> QED BY <1>3, <4>1, ACarry
    <3>2. begun = A!StartBlock(noted, "tool_use")
      BY <2>1 DEF A!Begins, A!NewToolBlock
    <3>3. AHas(begun, Append(cs, call))
      BY <1>2, <1>3, <1>4, <2>1, <3>1, <3>2, AStartHas
    <3>4. Append(cs, call) # <<>>
      BY <1>5, <2>1
    <3> QED BY <1>2, <1>3, <2>1, <3>2, <3>3, <3>4, AStartBlock
  <2>2. CASE tc.id = None
    <3>1. begun = s /\ b = cs
      BY <2>2 DEF A!Begins
    <3>2. cs # <<>>
      BY <2>2 DEF AHas
    <3> QED BY <2>2, <3>1, <3>2
  <2> QED BY <2>1, <2>2
<1> HIDE DEF b, begun
<1>7. o \in AReading /\ o.kind = "tool_use" /\ AHas(o, b)
  BY <1>2, <1>5, <1>6, AOpenBlock, AOpenBlockHas
<1> HIDE DEF o
<1>8. /\ A!Delta(o, part) \in AReading /\ A!Delta(o, part).kind = "tool_use"
      /\ AHas(A!Delta(o, part), CLonger(b, part))
  BY <1>2, <1>5, <1>7, ADelta, ADeltaKind, ADeltaHas
<1> QED BY <1>1, <1>5, <1>6, <1>8

\* A text or thinking delta leaves the calls alone.
LEMMA ATextHas ==
  ASSUME NEW s \in AReading, NEW cs \in Seq(Call), AHas(s, cs),
         NEW kind \in AKinds, kind # "tool_use", NEW part \in Nat
  PROVE  /\ A!Delta(A!OpenBlock(s, kind), part) \in AReading
         /\ AHas(A!Delta(A!OpenBlock(s, kind), part), cs)
<1> DEFINE o == A!OpenBlock(s, kind)
<1>1. o \in AReading /\ o.kind = kind /\ AHas(o, cs) /\ kind # None
  BY AOpenBlock, AOpenBlockHas, NoneAssumption DEF AKinds
<1> HIDE DEF o
<1>2. A!Delta(o, part) \in AReading /\ AHas(A!Delta(o, part), cs)
  BY <1>1, ADelta, ADeltaHas
<1> QED BY <1>2 DEF o

LEMMA AChunkHas ==
  ASSUME NEW s \in AReading, NEW cs \in Seq(Call), AHas(s, cs),
         NEW c \in Chunks, NEW part \in Nat, NEW isopen \in BOOLEAN,
         isopen => s.kind = "tool_use" /\ ~c.think /\ ~c.text, Fits(c.tools, isopen)
  PROVE  /\ CallsMade(cs, c.tools, part) \in Seq(Call)
         /\ AHas(A!HandleChunk(s, c, part), CallsMade(cs, c.tools, part))
         /\ ~c.stop /\ (c.tools # <<>> \/ isopen) => A!HandleChunk(s, c, part).kind = "tool_use"
<1>1. /\ c.choice \in BOOLEAN /\ c.think \in BOOLEAN /\ c.text \in BOOLEAN
      /\ c.tools \in Seq(Tool) /\ c.stop \in BOOLEAN /\ c.usage \in BOOLEAN
      /\ ~c.choice => ~c.think /\ ~c.text /\ c.tools = <<>> /\ ~c.stop
  BY ChunksAssumption
<1>2. part \in Parts
  BY DEF Parts
<1>3. PICK h : CMaking(h, cs, c.tools, part)
  BY <1>1, CMakes
<1> DEFINE m == Len(c.tools)
<1>4. /\ m \in Nat /\ h \in [0 .. m -> Seq(Call)] /\ h[0] = cs
      /\ h[m] = CallsMade(cs, c.tools, part)
      /\ \A i \in 1 .. m : h[i] = Made(h[i-1], c.tools[i], part)
  <2>1. m \in Nat
    BY <1>1
  <2> QED BY <1>3, <2>1 DEF CMaking
<1>5. CASE ~c.choice
  <2> DEFINE t == [s EXCEPT !.usage = IF c.usage THEN part ELSE @]
  <2>1. A!HandleChunk(s, c, part) = t /\ m = 0
    BY <1>1, <1>5 DEF A!HandleChunk
  <2>2. s \in AState /\ t.kind = s.kind /\ t.index = s.index /\ t.out = s.out
    BY DEF AReading, AState
  <2> HIDE DEF t
  <2>3. AHas(t, cs)
    <3>1. ASilent(s.out, t.out)
      BY <2>2 DEF ASilent
    <3> QED BY <2>2, <3>1, ACarry
  <2> QED BY <1>1, <1>4, <1>5, <2>1, <2>2, <2>3
<1>6. CASE c.choice
  <2> DEFINE s1 == IF c.think THEN A!Delta(A!OpenBlock(s, "thinking"), part) ELSE s
             s2 == IF c.text THEN A!Delta(A!OpenBlock(s1, "text"), part) ELSE s1
             s3 == A!ToolCalls(s2, c.tools, part)
             s4 == A!Stop(s3, c, part)
  <2>0. A!HandleChunk(s, c, part) = A!EndChoice(s4, c)
    BY <1>6 DEF A!HandleChunk
  <2>1. "thinking" \in AKinds /\ "text" \in AKinds
    BY DEF AKinds
  <2>2. s1 \in AReading /\ AHas(s1, cs) /\ (isopen => s1 = s)
    BY <1>1, <2>1, ATextHas
  <2> HIDE DEF s1
  <2>3. s2 \in AReading /\ AHas(s2, cs) /\ (isopen => s2 = s)
    BY <1>1, <2>1, <2>2, ATextHas
  <2> HIDE DEF s2
  <2>4. AClosed(AReading, part)
    BY AToolCall DEF AClosed
  <2>5. PICK g : ACalls(g, AReading, s2, c.tools, part)
    BY <1>1, <2>3, <2>4, AToolCalls
  <2>6. /\ g \in [0 .. m -> AReading] /\ g[0] = s2 /\ g[m] = s3
        /\ \A i \in 1 .. m : g[i] = A!ToolCall(g[i-1], c.tools[i], part)
    BY <2>5 DEF ACalls
  <2> DEFINE P == {p \in AReading \X Seq(Call) : AHas(p[1], p[2])}
             Q == {p \in P : p[1].kind = "tool_use"}
  <2>7. Keeps(P, Q, g, h, c.tools)
    <3>1. ASSUME NEW i \in 1 .. m, <<g[i-1], h[i-1]>> \in P,
                 c.tools[i].id = None => <<g[i-1], h[i-1]>> \in Q
          PROVE  <<g[i], h[i]>> \in Q
      <4> DEFINE x == g[i-1]
                 y == h[i-1]
                 tc == c.tools[i]
      <4>1. /\ x \in AReading /\ y \in Seq(Call) /\ AHas(x, y)
            /\ g[i] \in AReading /\ h[i] \in Seq(Call)
        <5>1. i - 1 \in 0 .. m /\ i \in 0 .. m
          BY <1>4
        <5>2. g[i] \in AReading /\ h[i] \in Seq(Call)
          BY <1>4, <2>6, <5>1
        <5> QED BY <3>1, <5>2
      <4>2. /\ tc \in Tool
            /\ IF tc.id # None THEN tc.name # None ELSE tc.name = None /\ x.kind = "tool_use"
        BY <1>1, <3>1 DEF Fits
      <4>3. g[i] = A!ToolCall(x, tc, part) /\ h[i] = Made(y, tc, part)
        BY <1>4, <2>6
      <4> HIDE DEF x, y, tc
      <4>4. AHas(g[i], h[i]) /\ g[i].kind = "tool_use"
        BY <4>1, <4>2, <4>3, AToolHas
      <4> QED BY <4>1, <4>4
    <3>2. Q \subseteq P
      OBVIOUS
    <3> HIDE DEF P, Q
    <3> QED BY <3>1, <3>2 DEF Keeps
  <2>8. <<g[0], h[0]>> \in P /\ (isopen => <<g[0], h[0]>> \in Q)
    BY <1>4, <2>3, <2>6
  <2>9. <<s3, h[m]>> \in P /\ (c.tools # <<>> \/ isopen => <<s3, h[m]>> \in Q)
    <3> HIDE DEF P, Q
    <3>1. <<g[m], h[m]>> \in P /\ (c.tools # <<>> \/ isopen => <<g[m], h[m]>> \in Q)
      BY <1>1, <2>7, <2>8, InStep
    <3> QED BY <2>6, <3>1
  <2> DEFINE ds == h[m]
  <2>10. /\ s3 \in AReading /\ ds \in Seq(Call) /\ AHas(s3, ds)
         /\ c.tools # <<>> \/ isopen => s3.kind = "tool_use"
    BY <2>9
  <2>11. ds = CallsMade(cs, c.tools, part)
    BY <1>4
  <2> HIDE DEF s3, ds, P, Q
  <2>12. s4 \in AReading /\ s4.kind = s3.kind /\ s4.index = s3.index /\ s4.out = s3.out
    BY <1>2, <2>10 DEF A!Stop, AReading, AState, AFit
  <2> HIDE DEF s4
  <2>13. AHas(s4, ds)
    <3>1. s3 \in AState /\ ASilent(s3.out, s4.out)
      BY <2>10, <2>12 DEF AReading, ASilent
    <3> QED BY <2>10, <2>12, <3>1, ACarry
  <2>14. AHas(A!EndChoice(s4, c), ds)
    BY <2>10, <2>12, <2>13, AOpenHas DEF A!EndChoice
  <2>15. ~c.stop => A!EndChoice(s4, c).kind = s3.kind
    BY <2>12 DEF A!EndChoice
  <2> QED BY <2>0, <2>10, <2>11, <2>14, <2>15
<1> QED BY <1>1, <1>5, <1>6

\* The end of a message does not touch the calls.
LEMMA AFinishHas ==
  ASSUME NEW s \in AReading, NEW cs \in Seq(Call), AHas(s, cs)
  PROVE  AHas(A!Finish(s), cs)
<1> DEFINE c == A!CloseBlock(s)
           ev == [e |-> "message_delta", stop |-> c.stop, usage |-> c.usage]
           d == [c EXCEPT !.out = Append(@, ev)]
           fv == [e |-> "message_stop"]
           t == [d EXCEPT !.out = Append(@, fv), !.stopped = TRUE]
<1>1. c \in AReading /\ AHas(c, cs)
  BY ACloseBlock, AOpenHas
<1>2. A!Finish(s) = [A!Emit(A!Emit(c, ev), fv) EXCEPT !.stopped = TRUE]
  BY DEF A!Finish, AReading
<1> HIDE DEF c
<1>3. c \in AState /\ ~c.stopped /\ c.out \in Seq(AEvent)
  BY <1>1 DEF AReading, AState
<1>4. A!Emit(c, ev) = d
  BY <1>3 DEF A!Emit
<1>5. ev \in AEvent /\ ev.e = "message_delta" /\ fv \in AEvent /\ fv.e = "message_stop"
  BY <1>3 DEF AEvent, AState
<1> HIDE DEF ev, fv
<1>6. /\ ~d.stopped /\ d.out = Append(c.out, ev) /\ d.kind = c.kind /\ d.index = c.index
      /\ DOMAIN d = DOMAIN c
  BY <1>3 DEF AState
<1>7. A!Emit(d, fv) = [d EXCEPT !.out = Append(@, fv)]
  BY <1>6 DEF A!Emit
<1>8. A!Finish(s) = t
  BY <1>2, <1>4, <1>7
<1>9. t.out = Append(d.out, fv) /\ t.kind = c.kind /\ t.index = c.index
  BY <1>3 DEF AState
<1> HIDE DEF d, t
<1>10. ASilent(c.out, t.out)
  <2>1. ASilent(c.out, d.out) /\ d.out \in Seq(AEvent)
    BY <1>3, <1>5, <1>6, AHush
  <2>2. ASilent(d.out, t.out)
    BY <1>5, <1>9, <2>1, AHush
  <2> QED BY <2>1, <2>2 DEF ASilent
<1>11. AHas(t, cs)
  BY <1>1, <1>3, <1>9, <1>10, ACarry
<1> QED BY <1>8, <1>11

LEMMA AErrorHas ==
  ASSUME NEW s \in AReading, NEW cs \in Seq(Call), AHas(s, cs)
  PROVE  AHas([A!Emit(s, [e |-> "error"]) EXCEPT !.failed = TRUE], cs)
<1> DEFINE ev == [e |-> "error"]
           t == [s EXCEPT !.out = Append(@, ev), !.failed = TRUE]
<1>1. s \in AState /\ ~s.stopped /\ s.out \in Seq(AEvent)
  BY DEF AReading, AState
<1>2. [A!Emit(s, ev) EXCEPT !.failed = TRUE] = t
  BY <1>1 DEF A!Emit
<1>3. ev \in AEvent /\ ev.e = "error"
  BY DEF AEvent
<1> HIDE DEF ev
<1>4. t.out = Append(s.out, ev) /\ t.kind = s.kind /\ t.index = s.index
  BY <1>1 DEF AState
<1> HIDE DEF t
<1>5. ASilent(s.out, t.out)
  BY <1>1, <1>3, <1>4, AHush
<1>6. AHas(t, cs)
  BY <1>1, <1>4, <1>5, ACarry
<1> QED BY <1>2, <1>6 DEF ev

----------------------------------------------------------------------------
(* What the clients read.                                                  *)

LEMMA Appended ==
  ASSUME NEW E, NEW p \in Seq(E), NEW x \in E
  PROVE  Append(p, x) = [i \in 1 .. Len(p) + 1 |-> IF i = Len(p) + 1 THEN x ELSE p[i]]
<1> DEFINE k == Len(p) + 1
           g == Append(p, x)
<1>1. g \in Seq(E) /\ Len(g) = k /\ k \in Nat
  OBVIOUS
<1>2. \A i \in 1 .. k : g[i] = IF i = k THEN x ELSE p[i]
  OBVIOUS
<1> HIDE DEF g, k
<1>3. g = [i \in 1 .. k |-> g[i]]
  BY <1>1
<1>4. g = [i \in 1 .. k |-> IF i = k THEN x ELSE p[i]]
  BY <1>2, <1>3
<1> QED BY <1>4 DEF g, k

\* Induction over the prefixes of a sequence.
LEMMA ByAppending ==
  ASSUME NEW E, NEW q \in Seq(E), NEW K, <<>> \in K,
         \A p \in Seq(E), x \in E : p \in K => Append(p, x) \in K
  PROVE  q \in K
<1> DEFINE m == Len(q)
           pre(k) == [i \in 1 .. k |-> q[i]]
           J == {k \in 0 .. m : pre(k) \in K}
<1>1. m \in Nat /\ DOMAIN q = 1 .. m /\ q = pre(m) /\ \A i \in 1 .. m : q[i] \in E
  OBVIOUS
<1>2. 0 \in J
  <2>1. pre(0) = <<>>
    OBVIOUS
  <2> QED BY <1>1, <2>1
<1>3. ASSUME NEW k \in 0 .. m - 1, k \in J PROVE k + 1 \in J
  <2>1. k + 1 \in 1 .. m /\ k + 1 \in 0 .. m /\ k \in Nat /\ q[k + 1] \in E
    BY <1>1
  <2>2. pre(k) \in Seq(E) /\ Len(pre(k)) = k
    BY <1>1, <2>1
  <2>3. pre(k + 1) = Append(pre(k), q[k + 1])
    <3> DEFINE p == pre(k)
               x == q[k + 1]
    <3>1. Append(p, x) = [i \in 1 .. k + 1 |-> IF i = k + 1 THEN x ELSE p[i]]
      <4>1. p \in Seq(E) /\ Len(p) = k /\ x \in E /\ k \in Nat
        BY <2>1, <2>2
      <4> HIDE DEF p, x
      <4>2. Append(p, x) = [i \in 1 .. Len(p) + 1 |-> IF i = Len(p) + 1 THEN x ELSE p[i]]
        BY <4>1, Appended
      <4> QED BY <4>1, <4>2
    <3>2. \A i \in 1 .. k + 1 : q[i] = IF i = k + 1 THEN x ELSE p[i]
      BY <2>1
    <3> HIDE DEF p, x
    <3> QED BY <3>1, <3>2 DEF p, x
  <2>4. pre(k) \in K
    BY <1>3
  <2> HIDE DEF pre
  <2> QED BY <2>1, <2>2, <2>3, <2>4
<1>4. m \in J
  <2> HIDE DEF J, m
  <2>1. 0 .. m \subseteq J
    BY <1>1, <1>2, <1>3, UpTo
  <2> QED BY <1>1, <2>1
<1> QED BY <1>1, <1>4

\* The blocks of a body that are calls, and those that are not.
CText == [kind : {"thinking", "text", "reasoning", "message"}, full : Seq(Nat)]
CBlock == [kind : {"tool_use", "function_call"}, call : Call]
CCalls == [b \in CText \cup CBlock |->
             IF b.kind \in {"tool_use", "function_call"} THEN <<b.call>> ELSE <<>>]

LEMMA BodyCalls ==
  ASSUME NEW t \in Seq(CText), NEW kind \in {"tool_use", "function_call"}, NEW ts \in Seq(Call)
  PROVE  CallsOf(t \o [i \in DOMAIN ts |-> [kind |-> kind, call |-> ts[i]]]) = ts
<1> DEFINE E == CText \cup CBlock
           B(us) == [i \in DOMAIN us |-> [kind |-> kind, call |-> us[i]]]
<1>1. ASSUME NEW b \in E
      PROVE  /\ b \in CText => b.kind \notin {"tool_use", "function_call"}
             /\ b.kind \in {"tool_use", "function_call"} => b.call \in Call
  BY DEF CText, CBlock
<1>2. Contributes(CCalls, E, Call)
  <2>1. ASSUME NEW b \in E PROVE CCalls[b] \in Seq(Call)
    BY <1>1 DEF CCalls
  <2> QED BY <2>1 DEF CCalls, Contributes
<1>3. \A x \in Call : [kind |-> kind, call |-> x] \in CBlock
  BY DEF CBlock
<1>4. ASSUME NEW p \in Seq(E) PROVE CallsOf(p) = Gather(CCalls, p)
  <2>1. \A k \in DOMAIN p : p[k] \in E
    OBVIOUS
  <2>2. \A k \in DOMAIN p :
           CCalls[p[k]] = IF p[k].kind \in {"tool_use", "function_call"} THEN <<p[k].call>> ELSE <<>>
    BY <2>1 DEF CCalls
  <2>3. CallsOf(p) =
          FlattenSeq([k \in DOMAIN p |->
            IF p[k].kind \in {"tool_use", "function_call"} THEN <<p[k].call>> ELSE <<>>])
    BY DEF CallsOf
  <2> HIDE DEF E
  <2> QED BY <2>2, <2>3 DEF Gather
<1>5. t \in Seq(E) /\ \A p \in Seq(CText) : p \in Seq(E)
  <2>1. CText \subseteq E
    OBVIOUS
  <2> HIDE DEF E
  <2> QED BY <2>1
<1>6. \A b \in CText : b \in E /\ CCalls[b] = <<>>
  BY <1>1 DEF CCalls
<1>7. \A x \in Call : [kind |-> kind, call |-> x] \in E
                      /\ CCalls[[kind |-> kind, call |-> x]] = <<x>>
  BY <1>3 DEF CCalls
<1> HIDE DEF E
<1>8. Gather(CCalls, t) = <<>>
  <2> DEFINE K == {p \in Seq(CText) : Gather(CCalls, p) = <<>>}
  <2>1. <<>> \in K
    <3>1. <<>> \in Seq(CText)
      OBVIOUS
    <3>2. Gather(CCalls, <<>>) = <<>>
      BY DEF Gather, FlattenSeq
    <3> QED BY <3>1, <3>2
  <2>2. ASSUME NEW p \in Seq(CText), NEW x \in CText, p \in K PROVE Append(p, x) \in K
    <3>1. Grows(CCalls, Call, p, x)
      BY <1>2, <1>5, <1>6, Gathered
    <3>2. Gather(CCalls, Append(p, x)) = <<>>
      BY <1>6, <2>2, <3>1 DEF Grows
    <3> QED BY <3>2
  <2>3. t \in K
    <3> HIDE DEF K
    <3> QED BY <2>1, <2>2, ByAppending
  <2> QED BY <2>3
<1> DEFINE K == {us \in Seq(Call) : t \o B(us) \in Seq(E) /\ Gather(CCalls, t \o B(us)) = us}
<1>9. <<>> \in K
  <2>1. B(<<>>) = <<>> /\ t \o <<>> = t /\ <<>> \in Seq(Call)
    BY <1>5
  <2> HIDE DEF B
  <2> QED BY <1>5, <1>8, <2>1
<1>10. ASSUME NEW us \in Seq(Call), NEW x \in Call, us \in K PROVE Append(us, x) \in K
  <2> DEFINE b == [kind |-> kind, call |-> x]
             p == t \o B(us)
             vs == Append(us, x)
  <2>1. b \in E /\ CCalls[b] = <<x>>
    BY <1>7
  <2>2. p \in Seq(E) /\ Gather(CCalls, p) = us
    BY <1>10
  <2>3. B(vs) = Append(B(us), b)
    <3> DEFINE k == Len(us)
    <3>1. /\ k \in Nat /\ DOMAIN us = 1 .. k /\ DOMAIN vs = 1 .. k + 1 /\ vs[k + 1] = x
          /\ \A i \in 1 .. k : vs[i] = us[i]
      OBVIOUS
    <3>2. B(us) \in Seq(E) /\ Len(B(us)) = k
      <4>1. \A i \in 1 .. k : us[i] \in Call
        OBVIOUS
      <4>2. \A i \in 1 .. k : [kind |-> kind, call |-> us[i]] \in E
        BY <1>7, <4>1
      <4> QED BY <3>1, <4>2
    <3>3. Append(B(us), b) = [i \in 1 .. k + 1 |-> IF i = k + 1 THEN b ELSE B(us)[i]]
      <4> DEFINE z == B(us)
      <4>1. z \in Seq(E) /\ Len(z) = k
        BY <3>2
      <4> HIDE DEF z, b
      <4> QED BY <2>1, <3>1, <4>1 DEF z
    <3>4. B(vs) = [i \in 1 .. k + 1 |-> [kind |-> kind, call |-> vs[i]]]
      BY <3>1
    <3>5. \A i \in 1 .. k + 1 :
             [kind |-> kind, call |-> vs[i]] = IF i = k + 1 THEN b ELSE B(us)[i]
      BY <3>1
    <3> HIDE DEF b, B, vs, k
    <3> QED BY <3>3, <3>4, <3>5
  <2>4. B(us) \in Seq(E)
    <3>1. \A i \in DOMAIN us : us[i] \in Call
      OBVIOUS
    <3>2. \A i \in DOMAIN us : [kind |-> kind, call |-> us[i]] \in E
      BY <1>7, <3>1
    <3> QED BY <3>2
  <2>5. t \o B(vs) = Append(p, b)
    <3> DEFINE z == B(us)
    <3>1. z \in Seq(E) /\ B(vs) = Append(z, b)
      BY <2>3, <2>4
    <3> HIDE DEF z, b, vs, B
    <3>2. t \o Append(z, b) = Append(t \o z, b)
      BY <1>5, <2>1, <3>1
    <3> QED BY <3>1, <3>2 DEF z
  <2>6. Grows(CCalls, Call, p, b)
    <3> HIDE DEF p, b
    <3> QED BY <1>2, <2>1, <2>2, Gathered
  <2> HIDE DEF p, b, vs, B
  <2>7. Gather(CCalls, Append(p, b)) = us \o <<x>>
    BY <2>1, <2>2, <2>6 DEF Grows
  <2>8. us \o <<x>> = vs /\ vs \in Seq(Call) /\ Append(p, b) \in Seq(E)
    BY <2>1, <2>2 DEF vs
  <2> QED BY <2>5, <2>7, <2>8 DEF vs
<1>11. ts \in K
  <2> HIDE DEF K
  <2> QED BY <1>9, <1>10, ByAppending
<1>12. t \o B(ts) \in Seq(E) /\ Gather(CCalls, t \o B(ts)) = ts
  BY <1>11
<1>13. CallsOf(t \o B(ts)) = ts
  <2> HIDE DEF B
  <2> QED BY <1>4, <1>12
<1> QED BY <1>13

----------------------------------------------------------------------------
\* What an event adds to the tool blocks the client reads in q.
ABlockOf(q, b) == [id |-> b.id, name |-> b.name, args |-> Gather(AAt(b.index), q)]
ABlocks(q) ==
  [x \in AEvent |-> IF x.e = "block_start" /\ x.kind = "tool_use" THEN <<ABlockOf(q, x)>> ELSE <<>>]

\* The blocks read in a prefix are those begun in it.
ABegun(q, p) ==
  LET g == Gather(ABlocks(q), p)
      bs == Gather(AStarts, p)
  IN Len(g) = Len(bs) /\ \A i \in 1 .. Len(bs) : g[i] = ABlockOf(q, bs[i])

LEMMA ABlocksBegun == ASSUME NEW q \in Seq(AEvent) PROVE ABegun(q, q)
<1> DEFINE D == ABlocks(q)
           K == {p \in Seq(AEvent) : ABegun(q, p)}
<1>1. [e |-> "error"] \in AEvent
  BY DEF AEvent
<1>2. ASSUME NEW i PROVE Gather(AAt(i), q) \in Seq(Nat)
  BY <1>1, ACallsGrown DEF AAt1
<1>3. ASSUME NEW y \in AEvent, y.e = "block_start" PROVE ABlockOf(q, y) \in Call
  <2>1. y.id \in Ids \cup {None} /\ y.name \in Ids \cup {None} /\ y.index \in Nat
    BY <1>3 DEF AEvent
  <2> QED BY <1>2, <2>1 DEF ABlockOf, Call
<1>4. Contributes(D, AEvent, Call)
  <2>1. ASSUME NEW y \in AEvent PROVE D[y] \in Seq(Call)
    <3>1. D[y] = IF y.e = "block_start" /\ y.kind = "tool_use" THEN <<ABlockOf(q, y)>> ELSE <<>>
      BY DEF ABlocks
    <3> HIDE DEF D
    <3> QED BY <1>3, <3>1
  <2> QED BY <2>1 DEF ABlocks, Contributes
<1>5. <<>> \in K
  <2>1. Gather(D, <<>>) = <<>> /\ Gather(AStarts, <<>>) = <<>> /\ <<>> \in Seq(AEvent)
    BY DEF Gather, FlattenSeq
  <2> HIDE DEF D
  <2> QED BY <2>1 DEF ABegun, D
<1>6. ASSUME NEW p \in Seq(AEvent), NEW ev \in AEvent, p \in K PROVE Append(p, ev) \in K
  <2> DEFINE Adds == ev.e = "block_start" /\ ev.kind = "tool_use"
             x == ABlockOf(q, ev)
             b == [id |-> ev.id, name |-> ev.name, index |-> ev.index]
             g == Gather(D, p)
             bs == Gather(AStarts, p)
             gg == Gather(D, Append(p, ev))
             bb == Gather(AStarts, Append(p, ev))
  <2>1. g \in Seq(Call) /\ gg = IF Adds THEN Append(g, x) ELSE g
    <3>1. Adds \in BOOLEAN /\ (Adds => x \in Call) /\ D[ev] = IF Adds THEN <<x>> ELSE <<>>
      BY <1>3 DEF ABlocks
    <3> HIDE DEF D, Adds, x
    <3> QED BY <1>4, <3>1, OneOrNone
  <2>2. /\ bs \in Seq(AStart) /\ bb = IF Adds THEN Append(bs, b) ELSE bs
    BY ACallsGrown DEF AStarts1
  <2>3. Len(g) = Len(bs) /\ \A i \in 1 .. Len(bs) : g[i] = ABlockOf(q, bs[i])
    BY <1>6 DEF ABegun
  <2>4. ABlockOf(q, b) = x
    BY DEF ABlockOf
  <2>5. Append(p, ev) \in Seq(AEvent)
    OBVIOUS
  <2>6. Adds \in BOOLEAN
    OBVIOUS
  <2> HIDE DEF g, bs, b, x, Adds, gg, bb
  <2>7. CASE ~Adds
    <3> QED BY <2>1, <2>2, <2>3, <2>5, <2>7 DEF ABegun, g, bs, gg, bb
  <2>8. CASE Adds
    <3> DEFINE m == Len(bs)
    <3>1. m \in Nat /\ gg = Append(g, x) /\ bb = Append(bs, b)
      BY <2>1, <2>2, <2>8
    <3>2. Len(bb) = m + 1 /\ bb[m + 1] = b /\ \A i \in 1 .. m : bb[i] = bs[i]
      BY <2>2, <3>1
    <3>3. Len(gg) = m + 1 /\ gg[m + 1] = x /\ \A i \in 1 .. m : gg[i] = g[i]
      BY <2>1, <2>3, <3>1
    <3>4. \A i \in 1 .. m : gg[i] = ABlockOf(q, bb[i])
      BY <2>3, <3>2, <3>3
    <3> HIDE DEF m
    <3>5. \A i \in 1 .. m + 1 : gg[i] = ABlockOf(q, bb[i])
      BY <2>4, <3>1, <3>2, <3>3, <3>4
    <3> QED BY <2>5, <3>2, <3>3, <3>5 DEF ABegun, gg, bb
  <2> QED BY <2>6, <2>7, <2>8
<1>7. q \in K
  <2> HIDE DEF K
  <2> QED BY <1>5, <1>6, ByAppending
<1> QED BY <1>7

LEMMA AClientReads ==
  ASSUME ast.out \in Seq(AEvent), NEW cs \in Seq(Call), AShows(ast.out, cs)
  PROVE  A!ToolBlocks = cs
<1> DEFINE q == ast.out
           g == Gather(ABlocks(q), q)
           bs == Gather(AStarts, q)
<1>0. q \in Seq(AEvent)
  OBVIOUS
<1>1. \A k \in DOMAIN q : q[k] \in AEvent
  BY <1>0
<1>2. ASSUME NEW i PROVE A!PartsAt(i) = Gather(AAt(i), q)
  <2>1. \A k \in DOMAIN q :
           AAt(i)[q[k]] = IF q[k].e = "block_delta" /\ q[k].index = i THEN <<q[k].part>> ELSE <<>>
    BY <1>1 DEF AAt
  <2>2. A!PartsAt(i) =
          FlattenSeq([k \in DOMAIN q |->
            IF q[k].e = "block_delta" /\ q[k].index = i THEN <<q[k].part>> ELSE <<>>])
    BY DEF A!PartsAt, A!out, A!FlattenSeq, FlattenSeq
  <2> QED BY <2>1, <2>2 DEF Gather
<1>3. A!ToolBlocks = g
  <2>1. \A k \in DOMAIN q :
           ABlocks(q)[q[k]] = IF q[k].e = "block_start" /\ q[k].kind = "tool_use"
             THEN <<[id |-> q[k].id, name |-> q[k].name, args |-> A!PartsAt(q[k].index)]>>
             ELSE <<>>
    <3> HIDE DEF q
    <3> QED BY <1>1, <1>2 DEF ABlocks, ABlockOf
  <2>2. A!ToolBlocks =
          FlattenSeq([k \in DOMAIN q |->
            IF q[k].e = "block_start" /\ q[k].kind = "tool_use"
              THEN <<[id |-> q[k].id, name |-> q[k].name, args |-> A!PartsAt(q[k].index)]>>
              ELSE <<>>])
    BY DEF A!ToolBlocks, A!out, A!FlattenSeq, FlattenSeq
  <2> HIDE DEF q
  <2> QED BY <2>1, <2>2 DEF Gather, g
<1>4. Len(g) = Len(bs) /\ \A i \in 1 .. Len(bs) : g[i] = ABlockOf(q, bs[i])
  BY <1>0, ABlocksBegun DEF ABegun
<1>5. Len(bs) = Len(cs) /\ \A i \in 1 .. Len(cs) : cs[i] = ABlockOf(q, bs[i])
  BY DEF AShows, AShown, ABlockOf
<1>6. g \in Seq(Call)
  <2>1. [e |-> "error"] \in AEvent
    BY DEF AEvent
  <2>2. ASSUME NEW i PROVE Gather(AAt(i), q) \in Seq(Nat)
    BY <1>0, <2>1, ACallsGrown DEF AAt1
  <2>3. ASSUME NEW y \in AEvent PROVE ABlocks(q)[y] \in Seq(Call)
    <3>1. y.e = "block_start" => ABlockOf(q, y) \in Call
      <4>1. y.e = "block_start" =>
               y.id \in Ids \cup {None} /\ y.name \in Ids \cup {None} /\ y.index \in Nat
        BY DEF AEvent
      <4> HIDE DEF q
      <4> QED BY <2>2, <4>1 DEF ABlockOf, Call
    <3> HIDE DEF q
    <3>2. ABlocks(q)[y] =
            IF y.e = "block_start" /\ y.kind = "tool_use" THEN <<ABlockOf(q, y)>> ELSE <<>>
      BY DEF ABlocks
    <3> QED BY <3>1, <3>2
  <2> HIDE DEF q
  <2>4. Contributes(ABlocks(q), AEvent, Call)
    BY <2>3 DEF ABlocks, Contributes
  <2> QED BY <1>0, <2>1, <2>4, Gathered DEF Grows, g
<1> HIDE DEF g, bs, q
<1>7. g = cs
  <2>1. \A i \in 1 .. Len(cs) : g[i] = cs[i]
    BY <1>4, <1>5
  <2> QED BY <1>4, <1>5, <1>6, <2>1
<1> QED BY <1>3, <1>7

\* The texts of a body are no calls.
LEMMA TextBlocks ==
  ASSUME NEW k1 \in {"thinking", "text", "reasoning", "message"},
         NEW k2 \in {"thinking", "text", "reasoning", "message"},
         NEW f \in Seq(Nat), NEW g \in Seq(Nat)
  PROVE  A!Block(k1, f) \o A!Block(k2, g) \in Seq(CText)
<1> DEFINE x == [kind |-> k1, full |-> f]
           y == [kind |-> k2, full |-> g]
<1>1. x \in CText /\ y \in CText
  BY DEF CText
<1>2. /\ A!Block(k1, f) = IF f = <<>> THEN <<>> ELSE <<x>>
      /\ A!Block(k2, g) = IF g = <<>> THEN <<>> ELSE <<y>>
  BY DEF A!Block
<1> HIDE DEF x, y
<1>3. A!Block(k1, f) \in Seq(CText) /\ A!Block(k2, g) \in Seq(CText)
  BY <1>1, <1>2
<1> QED BY <1>3

\* What the client of the Anthropic protocol is given.
LEMMA AGiven ==
  ASSUME AAlike, NEW cs \in Seq(Call), AHas(ast, cs), aacc.tools = cs
  PROVE  A!ToolBlocks = cs /\ CallsOf(A!Body) = cs
<1>1. ast.out \in Seq(AEvent) /\ aacc \in AAcc
  BY DEF AAlike, AState
<1>2. A!ToolBlocks = cs
  BY <1>1, AClientReads DEF AHas
<1> DEFINE t == A!Texts
           B == [i \in DOMAIN cs |-> [kind |-> "tool_use", call |-> cs[i]]]
<1>3. t \in Seq(CText)
  <2>1. aacc.think \in Seq(Nat) /\ aacc.text \in Seq(Nat)
    BY <1>1 DEF AAcc
  <2> QED BY <2>1, TextBlocks DEF A!Texts
<1>4. A!Body = t \o B
  BY DEF A!Body
<1> HIDE DEF t
<1>5. CallsOf(t \o B) = cs
  BY <1>3, BodyCalls
<1> QED BY <1>2, <1>4, <1>5

----------------------------------------------------------------------------
(* The calls in the items of the Responses API.                            *)

\* What an item, and the item that is open, add to the calls.
RCallsIn ==
  [x \in RItem |-> IF x.kind = "function_call"
                     THEN <<[id |-> x.call, name |-> x.name, args |-> x.full]>> ELSE <<>>]
RCallOf(s) == [id |-> s.call, name |-> s.name, args |-> s.buf["function_call"]]
ROpenCall(s) == IF s.kind = "function_call" THEN <<RCallOf(s)>> ELSE <<>>

\* The items so far hold the calls so far.
RHas(s, cs) == Gather(RCallsIn, s.items) \o ROpenCall(s) = cs

LEMMA RCallsGrown ==
  ASSUME NEW q \in Seq(RItem), NEW x \in RItem
  PROVE  /\ Gather(RCallsIn, q) \in Seq(Call)
         /\ Gather(RCallsIn, Append(q, x)) = Gather(RCallsIn, q) \o RCallsIn[x]
<1>1. ASSUME NEW y \in RItem PROVE RCallsIn[y] \in Seq(Call)
  <2> DEFINE z == [id |-> y.call, name |-> y.name, args |-> y.full]
  <2>1. z \in Call
    BY DEF RItem, Call
  <2>2. RCallsIn[y] = IF y.kind = "function_call" THEN <<z>> ELSE <<>>
    BY DEF RCallsIn
  <2> HIDE DEF z
  <2> QED BY <2>1, <2>2
<1>2. Contributes(RCallsIn, RItem, Call)
  BY <1>1 DEF RCallsIn, Contributes
<1> QED BY <1>2, Gathered DEF Grows

LEMMA RItemTyped ==
  ASSUME NEW s \in RState, s.kind # None
  PROVE  /\ R!Item(s) \in RItem /\ RCallsIn[R!Item(s)] = ROpenCall(s)
<1>1. /\ s.kind \in R!Kinds /\ s.buf[s.kind] \in Seq(Nat)
      /\ s.call \in Ids \cup {None} /\ s.name \in Ids \cup {None}
  BY DEF RState
<1>2. R!Item(s) \in RItem
  BY <1>1 DEF R!Item, RItem
<1>3. RCallsIn[R!Item(s)] = ROpenCall(s)
  <2> DEFINE x == R!Item(s)
  <2>1. /\ x.kind = s.kind
        /\ s.kind = "function_call" =>
             x.call = s.call /\ x.name = s.name /\ x.full = s.buf["function_call"]
    BY DEF R!Item
  <2>2. RCallsIn[x] = IF x.kind = "function_call"
                        THEN <<[id |-> x.call, name |-> x.name, args |-> x.full]>> ELSE <<>>
    BY <1>2 DEF RCallsIn
  <2> HIDE DEF x
  <2> QED BY <2>1, <2>2 DEF ROpenCall, RCallOf, x
<1> QED BY <1>2, <1>3

\* What holds no call, or the same open call, and the same items, has the same calls.
LEMMA RStill ==
  ASSUME NEW s, NEW cs, RHas(s, cs), NEW t, t.items = s.items, ROpenCall(t) = ROpenCall(s)
  PROVE  RHas(t, cs)
BY DEF RHas

LEMMA RCloseHas ==
  ASSUME NEW s \in RReading, NEW cs \in Seq(Call), RHas(s, cs)
  PROVE  RHas(R!CloseItem(s), cs)
<1>1. CASE s.kind = None
  BY <1>1 DEF R!CloseItem
<1>2. CASE s.kind # None
  <2> DEFINE c == R!CloseItem(s)
             item == R!Item(s)
             G == Gather(RCallsIn, s.items)
  <2>1. s \in RState /\ s.items \in Seq(RItem)
    BY DEF RReading, RState
  <2>2. c.items = Append(s.items, item) /\ c.kind = None
    <3> DEFINE full == s.buf[s.kind]
               ev1 == [e |-> "text_done", index |-> s.index, full |-> full]
               ev2 == [e |-> "part_done", index |-> s.index, full |-> full]
               ev3 == [e |-> "item_done", index |-> s.index, item |-> item]
               t == R!Emit(s, ev1)
               p == IF s.kind = "function_call" THEN t ELSE R!Emit(t, ev2)
               d == R!Emit(p, ev3)
    <3>1. c = [d EXCEPT !.items = Append(@, item), !.index = @ + 1, !.kind = None]
      BY <1>2 DEF R!CloseItem
    <3> HIDE DEF ev1, ev2, ev3, item, c
    <3>2. DOMAIN t = DOMAIN s /\ t.items = s.items
      BY <2>1 DEF R!Emit, RState
    <3> HIDE DEF t
    <3>3. DOMAIN p = DOMAIN s /\ p.items = s.items
      BY <2>1, <3>2 DEF R!Emit, RState
    <3> HIDE DEF p
    <3>4. DOMAIN d = DOMAIN s /\ d.items = s.items
      BY <2>1, <3>3 DEF R!Emit, RState
    <3> HIDE DEF d
    <3>5. "items" \in DOMAIN d /\ "kind" \in DOMAIN d
      BY <2>1, <3>4 DEF RState
    <3> QED BY <3>1, <3>4, <3>5
  <2>3. item \in RItem /\ RCallsIn[item] = ROpenCall(s)
    BY <1>2, <2>1, RItemTyped
  <2>4. G \in Seq(Call) /\ Gather(RCallsIn, Append(s.items, item)) = G \o RCallsIn[item]
    BY <2>1, <2>3, RCallsGrown
  <2>5. ROpenCall(c) = <<>>
    BY <2>2, NoneAssumption DEF ROpenCall
  <2>6. Gather(RCallsIn, c.items) = cs
    BY <2>2, <2>3, <2>4 DEF RHas
  <2>7. Gather(RCallsIn, c.items) \in Seq(Call)
    BY <2>6
  <2> HIDE DEF c
  <2>8. RHas(c, cs)
    BY <2>5, <2>6, <2>7 DEF RHas
  <2> QED BY <2>8 DEF c
<1> QED BY <1>1, <1>2

LEMMA RBegun ==
  ASSUME NEW s \in RState, NEW kind \in R!Kinds
  PROVE  LET t == R!BeginItem(s, kind)
         IN /\ t.items = s.items /\ t.kind = kind /\ t.call = s.call /\ t.name = s.name
            /\ t.buf[kind] = <<>>
<1> DEFINE ev == [e |-> "item_added", index |-> s.index, kind |-> kind]
           t == [s EXCEPT !.kind = kind, !.buf[kind] = <<>>, !.out = Append(@, ev)]
<1>1. R!BeginItem(s, kind) = t
  BY DEF R!BeginItem, R!Emit, RState
<1> HIDE DEF ev
<1>2. /\ t.items = s.items /\ t.kind = kind /\ t.call = s.call /\ t.name = s.name
      /\ t.buf[kind] = <<>>
  BY DEF RState
<1> QED BY <1>1, <1>2

LEMMA ROpenTextHas ==
  ASSUME NEW s \in RReading, NEW cs \in Seq(Call), RHas(s, cs),
         NEW kind \in R!Kinds, kind # "function_call"
  PROVE  RHas(R!OpenText(s, kind), cs)
<1>1. CASE s.kind = kind
  BY <1>1 DEF R!OpenText
<1>2. CASE s.kind # kind
  <2> DEFINE c == R!CloseItem(s)
             b == R!BeginItem(c, kind)
             ev == [e |-> "part_added", index |-> b.index]
             t == [b EXCEPT !.out = Append(@, ev)]
  <2>1. c \in RReading /\ c.kind = None /\ RHas(c, cs)
    BY RCloseItem, RCloseHas
  <2>2. R!OpenText(s, kind) = t
    BY <1>2 DEF R!OpenText, R!Emit
  <2> HIDE DEF c
  <2>3. c \in RState
    BY <2>1 DEF RReading
  <2>4. b \in RState /\ b.items = c.items /\ b.kind = kind
    BY <2>1, <2>3, RBeginItem, RBegun
  <2> HIDE DEF b, ev
  <2>5. t.items = c.items /\ t.kind = kind
    BY <2>4 DEF RState
  <2>6. ROpenCall(t) = ROpenCall(c)
    BY <2>1, <2>5, NoneAssumption DEF ROpenCall
  <2> HIDE DEF t
  <2> QED BY <2>1, <2>2, <2>5, <2>6, RStill
<1> QED BY <1>1, <1>2

LEMMA ROpenCallHas ==
  ASSUME NEW s \in RReading, NEW cs \in Seq(Call), RHas(s, cs),
         NEW id \in Ids \cup {None}, NEW nm \in Ids \cup {None}
  PROVE  RHas(R!OpenFunctionCall(s, id, nm),
              Append(cs, [id |-> id, name |-> nm, args |-> <<>>]))
<1> DEFINE o == R!CloseItem(s)
           c == [o EXCEPT !.call = id, !.name = nm]
           t == R!BeginItem(c, "function_call")
           call == [id |-> id, name |-> nm, args |-> <<>>]
           G == Gather(RCallsIn, o.items)
<1>1. o \in RReading /\ o.kind = None /\ RHas(o, cs)
  BY RCloseItem, RCloseHas
<1>2. R!OpenFunctionCall(s, id, nm) = t
  BY DEF R!OpenFunctionCall
<1> HIDE DEF o
<1>3. o \in RState /\ o.items \in Seq(RItem)
  BY <1>1 DEF RReading, RState
<1>4. c \in RState /\ c.items = o.items /\ c.call = id /\ c.name = nm
  BY <1>3 DEF RState
<1>5. "function_call" \in R!Kinds
  BY DEF R!Kinds
<1> HIDE DEF c
<1>6. /\ t.items = o.items /\ t.kind = "function_call" /\ t.call = id /\ t.name = nm
      /\ t.buf["function_call"] = <<>>
  BY <1>4, <1>5, RBegun
<1> HIDE DEF t
<1>7. ROpenCall(t) = <<call>>
  BY <1>6 DEF ROpenCall, RCallOf
<1>8. G = cs
  <2>1. [kind |-> "function_call", full |-> <<>>, call |-> None, name |-> None] \in RItem
    BY DEF RItem, R!Kinds
  <2>2. G \in Seq(Call)
    BY <1>3, <2>1, RCallsGrown
  <2>3. G \o <<>> = cs
    BY <1>1, NoneAssumption DEF RHas, ROpenCall
  <2> HIDE DEF G
  <2> QED BY <2>2, <2>3
<1>9. call \in Call
  BY DEF Call
<1> HIDE DEF call
<1>10. cs \o <<call>> = Append(cs, call)
  BY <1>9
<1>11. RHas(t, Append(cs, call))
  BY <1>6, <1>7, <1>8, <1>10 DEF RHas
<1> QED BY <1>2, <1>11 DEF call

LEMMA LongerCall ==
  ASSUME NEW x \in Call, NEW part
  PROVE  [x EXCEPT !.args = Append(@, part)] =
           [id |-> x.id, name |-> x.name, args |-> Append(x.args, part)]
<1> DEFINE z == [x EXCEPT !.args = Append(@, part)]
<1>1. z = [x EXCEPT !.args = Append(@, part)]
  OBVIOUS
<1> HIDE DEF z
<1>2. z = [id |-> x.id, name |-> x.name, args |-> Append(x.args, part)]
  BY <1>1 DEF Call
<1> QED BY <1>2 DEF z

LEMMA RDeltaHas ==
  ASSUME NEW s \in RReading, s.kind # None, NEW cs \in Seq(Call), RHas(s, cs),
         NEW part \in Nat
  PROVE  /\ R!Delta(s, part).kind = s.kind
         /\ s.kind = "function_call" => cs # <<>>
         /\ RHas(R!Delta(s, part), IF s.kind = "function_call" THEN CLonger(cs, part) ELSE cs)
<1> DEFINE ev == [e |-> "delta", index |-> s.index, kind |-> s.kind, part |-> part]
           t == [s EXCEPT !.buf[s.kind] = Append(@, part), !.out = Append(@, ev)]
           G == Gather(RCallsIn, s.items)
<1>1. s \in RState /\ s.items \in Seq(RItem)
  BY DEF RReading, RState
<1>2. R!Delta(s, part) = t
  BY <1>1 DEF R!Delta, R!Emit, RState
<1> HIDE DEF ev
<1>3. /\ t.kind = s.kind /\ t.items = s.items /\ t.call = s.call /\ t.name = s.name
      /\ s.kind = "function_call" =>
           t.buf["function_call"] = Append(s.buf["function_call"], part)
  BY <1>1 DEF RState
<1>4. s.kind = "function_call" => s.buf["function_call"] \in Seq(Nat)
  BY <1>1 DEF RState
<1>5. G \in Seq(Call)
  <2>1. [kind |-> "function_call", full |-> <<>>, call |-> None, name |-> None] \in RItem
    BY DEF RItem, R!Kinds
  <2> QED BY <1>1, <2>1, RCallsGrown
<1> HIDE DEF t
<1>6. CASE s.kind # "function_call"
  <2>1. ROpenCall(t) = ROpenCall(s)
    BY <1>3, <1>6 DEF ROpenCall
  <2> QED BY <1>2, <1>3, <1>6, <2>1, RStill
<1>7. CASE s.kind = "function_call"
  <2> DEFINE x == RCallOf(s)
             y == RCallOf(t)
             m == Len(G)
  <2>1. x \in Call /\ y = [x EXCEPT !.args = Append(@, part)]
    <3>1. s.call \in Ids \cup {None} /\ s.name \in Ids \cup {None}
      BY <1>1 DEF RState
    <3>2. x \in Call
      BY <1>4, <1>7, <3>1 DEF RCallOf, Call
    <3>3. y = [id |-> s.call, name |-> s.name, args |-> Append(s.buf["function_call"], part)]
      BY <1>3, <1>7 DEF RCallOf
    <3>4. x.id = s.call /\ x.name = s.name /\ x.args = s.buf["function_call"]
      BY DEF RCallOf
    <3> HIDE DEF x
    <3>5. [x EXCEPT !.args = Append(@, part)] =
            [id |-> x.id, name |-> x.name, args |-> Append(x.args, part)]
      BY <3>2, LongerCall
    <3> QED BY <3>2, <3>3, <3>4, <3>5
  <2>2. y \in Call
    <3>1. Append(x.args, part) \in Seq(Nat)
      BY <2>1 DEF Call
    <3> QED BY <2>1, <3>1 DEF Call
  <2>3. cs = G \o <<x>> /\ ROpenCall(t) = <<y>>
    BY <1>3, <1>7 DEF RHas, ROpenCall
  <2>4. RHas(t, G \o <<y>>)
    BY <1>3, <2>3 DEF RHas
  <2> HIDE DEF x, y, G
  <2>5. /\ m \in Nat /\ Len(cs) = m + 1 /\ cs[m + 1] = x /\ cs # <<>>
        /\ DOMAIN cs = 1 .. m + 1 /\ \A i \in 1 .. m : cs[i] = G[i]
    BY <1>5, <2>1, <2>3
  <2>6. CLonger(cs, part) = [cs EXCEPT ![m + 1] = y]
    BY <2>1, <2>5 DEF CLonger
  <2>7. G \o <<y>> = [cs EXCEPT ![m + 1] = y]
    <3> DEFINE z == G \o <<y>>
    <3>1. /\ z \in Seq(Call) /\ Len(z) = m + 1 /\ z[m + 1] = y
          /\ \A i \in 1 .. m : z[i] = G[i]
      BY <1>5, <2>2, <2>5
    <3> HIDE DEF z, m
    <3>2. z = [i \in 1 .. m + 1 |-> z[i]]
      BY <2>5, <3>1
    <3>3. \A i \in 1 .. m + 1 : z[i] = [cs EXCEPT ![m + 1] = y][i]
      BY <2>5, <3>1
    <3> QED BY <2>5, <3>2, <3>3 DEF z
  <2> QED BY <1>2, <1>3, <1>7, <2>4, <2>5, <2>6, <2>7
<1> QED BY <1>6, <1>7

\* A fragment continues the open call, or begins one.
LEMMA RToolHas ==
  ASSUME NEW s \in RReading, NEW cs \in Seq(Call), RHas(s, cs), NEW tc \in Tool,
         NEW part \in Nat,
         IF tc.id # None THEN tc.name # None ELSE tc.name = None /\ s.kind = "function_call"
  PROVE  /\ RHas(R!ToolCall(s, tc, part), Made(cs, tc, part))
         /\ R!ToolCall(s, tc, part).kind = "function_call"
<1> DEFINE begun == IF tc.id # None \/ tc.name # None
                      THEN R!OpenFunctionCall(s, R!Or(tc.id, s.call), R!Or(tc.name, s.name))
                      ELSE s
           ready == IF begun.kind = "function_call" THEN begun
                    ELSE R!OpenFunctionCall(begun, begun.call, begun.name)
           call == [id |-> tc.id, name |-> tc.name, args |-> <<>>]
           b == IF tc.id # None THEN Append(cs, call) ELSE cs
<1>1. R!ToolCall(s, tc, part) = IF tc.args THEN R!Delta(ready, part) ELSE begun
  BY DEF R!ToolCall
<1>2. "function_call" # None
  BY NoneAssumption
<1>3. b \in Seq(Call) /\ Made(cs, tc, part) = IF tc.args /\ b # <<>> THEN CLonger(b, part) ELSE b
  BY CMade DEF CLonger
<1>4. begun \in RReading /\ begun.kind = "function_call" /\ RHas(begun, b)
  <2>1. CASE tc.id # None
    <3>1. tc.id \in Ids \cup {None} /\ tc.name \in Ids \cup {None}
      BY DEF Tool
    <3>2. begun = R!OpenFunctionCall(s, tc.id, tc.name)
      BY <2>1 DEF R!Or
    <3>3. b = Append(cs, call)
      BY <2>1
    <3> HIDE DEF begun
    <3>4. begun \in RReading /\ begun.kind = "function_call"
      BY <3>1, <3>2, ROpenFunctionCall
    <3>5. RHas(begun, Append(cs, call))
      BY <3>1, <3>2, ROpenCallHas
    <3> QED BY <3>3, <3>4, <3>5
  <2>2. CASE tc.id = None
    <3>1. begun = s /\ b = cs /\ s.kind = "function_call"
      BY <2>2
    <3> QED BY <3>1
  <2> QED BY <2>1, <2>2
<1>5. ready = begun
  BY <1>4
<1> HIDE DEF begun, ready, b
<1>6. /\ R!Delta(begun, part).kind = "function_call" /\ b # <<>>
      /\ RHas(R!Delta(begun, part), CLonger(b, part))
  BY <1>2, <1>3, <1>4, RDeltaHas
<1> QED BY <1>1, <1>3, <1>4, <1>5, <1>6

\* A text or reasoning delta leaves the calls alone.
LEMMA RTextHas ==
  ASSUME NEW s \in RReading, NEW cs \in Seq(Call), RHas(s, cs),
         NEW kind \in R!Kinds, kind # "function_call", NEW part \in Nat
  PROVE  /\ R!Delta(R!OpenText(s, kind), part) \in RReading
         /\ RHas(R!Delta(R!OpenText(s, kind), part), cs)
<1> DEFINE o == R!OpenText(s, kind)
<1>1. o \in RReading /\ o.kind = kind /\ RHas(o, cs) /\ kind # None
  BY ROpenText, ROpenTextHas, NoneAssumption DEF R!Kinds
<1> HIDE DEF o
<1>2. R!Delta(o, part) \in RReading /\ RHas(R!Delta(o, part), cs)
  BY <1>1, RDelta, RDeltaHas
<1> QED BY <1>2 DEF o

LEMMA RChunkHas ==
  ASSUME NEW s \in RReading, NEW cs \in Seq(Call), RHas(s, cs),
         NEW c \in Chunks, NEW part \in Nat, NEW isopen \in BOOLEAN,
         isopen => s.kind = "function_call" /\ ~c.think /\ ~c.text, Fits(c.tools, isopen)
  PROVE  /\ RHas(R!HandleChunk(s, c, part), CallsMade(cs, c.tools, part))
         /\ c.tools # <<>> \/ isopen => R!HandleChunk(s, c, part).kind = "function_call"
<1>1. /\ c.choice \in BOOLEAN /\ c.think \in BOOLEAN /\ c.text \in BOOLEAN
      /\ c.tools \in Seq(Tool) /\ c.stop \in BOOLEAN /\ c.usage \in BOOLEAN
      /\ ~c.choice => ~c.think /\ ~c.text /\ c.tools = <<>> /\ ~c.stop
  BY ChunksAssumption
<1>2. ASSUME NEW x \in RState, NEW p, NEW ds
      PROVE  /\ [x EXCEPT !.usage = p].kind = x.kind /\ [x EXCEPT !.stop = p].kind = x.kind
             /\ RHas(x, ds) => RHas([x EXCEPT !.usage = p], ds) /\ RHas([x EXCEPT !.stop = p], ds)
  <2> DEFINE y == [x EXCEPT !.usage = p]
             z == [x EXCEPT !.stop = p]
  <2>1. /\ y.items = x.items /\ y.kind = x.kind /\ y.call = x.call /\ y.name = x.name
        /\ y.buf = x.buf
    BY DEF RState
  <2>2. /\ z.items = x.items /\ z.kind = x.kind /\ z.call = x.call /\ z.name = x.name
        /\ z.buf = x.buf
    BY DEF RState
  <2> HIDE DEF y, z
  <2>3. ROpenCall(y) = ROpenCall(x) /\ ROpenCall(z) = ROpenCall(x)
    BY <2>1, <2>2 DEF ROpenCall, RCallOf
  <2>4. RHas(x, ds) => RHas(y, ds) /\ RHas(z, ds)
    BY <2>1, <2>2, <2>3 DEF RHas
  <2> QED BY <2>1, <2>2, <2>4 DEF y, z
<1>3. PICK h : CMaking(h, cs, c.tools, part)
  BY <1>1, CMakes
<1> DEFINE m == Len(c.tools)
<1>4. /\ m \in Nat /\ h \in [0 .. m -> Seq(Call)] /\ h[0] = cs
      /\ h[m] = CallsMade(cs, c.tools, part)
      /\ \A i \in 1 .. m : h[i] = Made(h[i-1], c.tools[i], part)
  <2>1. m \in Nat
    BY <1>1
  <2> QED BY <1>3, <2>1 DEF CMaking
<1>5. CASE ~c.choice
  <2> DEFINE t == R!UsageOf(s, c, part)
  <2>1. R!HandleChunk(s, c, part) = t /\ m = 0
    BY <1>1, <1>5 DEF R!HandleChunk
  <2>2. s \in RState /\ c.tools = <<>>
    BY <1>1, <1>5 DEF RReading
  <2>3. t.kind = s.kind /\ RHas(t, cs)
    BY <1>2, <2>2 DEF R!UsageOf
  <2>4. CallsMade(cs, c.tools, part) = cs
    BY <1>4, <2>1
  <2> HIDE DEF t
  <2> QED BY <2>1, <2>2, <2>3, <2>4
<1>6. CASE c.choice
  <2> DEFINE s1 == IF c.think THEN R!Delta(R!OpenText(s, "reasoning"), part) ELSE s
             s2 == IF c.text THEN R!Delta(R!OpenText(s1, "message"), part) ELSE s1
             s3 == R!ToolCalls(s2, c.tools, part)
  <2>0. R!HandleChunk(s, c, part) =
          IF c.stop THEN R!UsageOf([s3 EXCEPT !.stop = part], c, part) ELSE s3
    BY <1>6 DEF R!HandleChunk
  <2>1. "reasoning" \in R!Kinds /\ "message" \in R!Kinds
    BY DEF R!Kinds
  <2>2. s1 \in RReading /\ RHas(s1, cs) /\ (isopen => s1 = s)
    BY <1>1, <2>1, RTextHas
  <2> HIDE DEF s1
  <2>3. s2 \in RReading /\ RHas(s2, cs) /\ (isopen => s2 = s)
    BY <1>1, <2>1, <2>2, RTextHas
  <2> HIDE DEF s2
  <2>4. RClosed(RReading, part)
    BY RToolCall DEF RClosed
  <2>5. PICK g : RCalls(g, RReading, s2, c.tools, part)
    BY <1>1, <2>3, <2>4, RToolCalls
  <2>6. /\ g \in [0 .. m -> RReading] /\ g[0] = s2 /\ g[m] = s3
        /\ \A i \in 1 .. m : g[i] = R!ToolCall(g[i-1], c.tools[i], part)
    BY <2>5 DEF RCalls
  <2> DEFINE P == {p \in RReading \X Seq(Call) : RHas(p[1], p[2])}
             Q == {p \in P : p[1].kind = "function_call"}
  <2>7. Keeps(P, Q, g, h, c.tools)
    <3>1. ASSUME NEW i \in 1 .. m, <<g[i-1], h[i-1]>> \in P,
                 c.tools[i].id = None => <<g[i-1], h[i-1]>> \in Q
          PROVE  <<g[i], h[i]>> \in Q
      <4> DEFINE x == g[i-1]
                 y == h[i-1]
                 tc == c.tools[i]
      <4>1. /\ x \in RReading /\ y \in Seq(Call) /\ RHas(x, y)
            /\ g[i] \in RReading /\ h[i] \in Seq(Call)
        <5>1. i - 1 \in 0 .. m /\ i \in 0 .. m
          BY <1>4
        <5>2. g[i] \in RReading /\ h[i] \in Seq(Call)
          BY <1>4, <2>6, <5>1
        <5> QED BY <3>1, <5>2
      <4>2. /\ tc \in Tool
            /\ IF tc.id # None THEN tc.name # None
               ELSE tc.name = None /\ x.kind = "function_call"
        BY <1>1, <3>1 DEF Fits
      <4>3. g[i] = R!ToolCall(x, tc, part) /\ h[i] = Made(y, tc, part)
        BY <1>4, <2>6
      <4> HIDE DEF x, y, tc
      <4>4. RHas(g[i], h[i]) /\ g[i].kind = "function_call"
        BY <4>1, <4>2, <4>3, RToolHas
      <4> QED BY <4>1, <4>4
    <3>2. Q \subseteq P
      OBVIOUS
    <3> HIDE DEF P, Q
    <3> QED BY <3>1, <3>2 DEF Keeps
  <2>8. <<g[0], h[0]>> \in P /\ (isopen => <<g[0], h[0]>> \in Q)
    BY <1>4, <2>3, <2>6
  <2>9. <<s3, h[m]>> \in P /\ (c.tools # <<>> \/ isopen => <<s3, h[m]>> \in Q)
    <3> HIDE DEF P, Q
    <3>1. <<g[m], h[m]>> \in P /\ (c.tools # <<>> \/ isopen => <<g[m], h[m]>> \in Q)
      BY <1>1, <2>7, <2>8, InStep
    <3> QED BY <2>6, <3>1
  <2> DEFINE ds == h[m]
  <2>10. /\ s3 \in RReading /\ RHas(s3, ds)
         /\ c.tools # <<>> \/ isopen => s3.kind = "function_call"
    BY <2>9
  <2>11. ds = CallsMade(cs, c.tools, part)
    BY <1>4
  <2> HIDE DEF s3, ds, P, Q
  <2>12. s3 \in RState
    BY <2>10 DEF RReading
  <2> DEFINE s4 == [s3 EXCEPT !.stop = part]
  <2>13. s4 \in RState /\ s4.kind = s3.kind /\ RHas(s4, ds)
    <3>1. s4 \in RState
      BY <2>12 DEF RState, Parts
    <3> QED BY <1>2, <2>10, <2>12, <3>1
  <2> HIDE DEF s4
  <2>14. R!UsageOf(s4, c, part).kind = s3.kind /\ RHas(R!UsageOf(s4, c, part), ds)
    BY <1>2, <2>13 DEF R!UsageOf
  <2> QED BY <2>0, <2>10, <2>11, <2>14 DEF s4
<1> QED BY <1>1, <1>5, <1>6

\* The completed response lists the calls.
RGiven(s, cs) == RLast(s.out).e = "completed" => Gather(RCallsIn, RLast(s.out).output) = cs

LEMMA RCompleteGives ==
  ASSUME NEW s \in RReading, NEW cs \in Seq(Call), RHas(s, cs)
  PROVE  RGiven(R!Complete(s), cs)
<1> DEFINE c == R!CloseItem(s)
           ev == [e |-> "completed", output |-> c.items, status |-> R!Status(c.stop),
                  usage |-> c.usage]
           t == R!Complete(s)
           G == Gather(RCallsIn, c.items)
<1>1. c \in RReading /\ c.kind = None /\ RHas(c, cs)
  BY RCloseItem, RCloseHas
<1>2. t = R!Emit(c, ev)
  BY DEF R!Complete
<1> HIDE DEF c
<1>3. c \in RState /\ c.items \in Seq(RItem) /\ c.out \in Seq(REvent)
  BY <1>1 DEF RReading, RState
<1>4. G = cs
  <2>1. [kind |-> "function_call", full |-> <<>>, call |-> None, name |-> None] \in RItem
    BY DEF RItem, R!Kinds
  <2>2. G \in Seq(Call)
    BY <1>3, <2>1, RCallsGrown
  <2>3. G \o <<>> = cs
    BY <1>1, NoneAssumption DEF RHas, ROpenCall
  <2> HIDE DEF G
  <2> QED BY <2>2, <2>3
<1>5. t.out = Append(c.out, ev) /\ ev.output = c.items
  BY <1>2, <1>3 DEF R!Emit, RState
<1> HIDE DEF t
<1>6. ev \in REvent
  BY <1>3 DEF REvent, RState, R!Status
<1> HIDE DEF ev
<1>7. RLast(t.out) = ev
  BY <1>3, <1>5, <1>6 DEF RLast
<1>8. RGiven(t, cs)
  BY <1>4, <1>5, <1>7 DEF RGiven
<1> QED BY <1>8 DEF t

LEMMA RFailGives ==
  ASSUME NEW s \in RReading, NEW cs
  PROVE  RGiven(R!Fail(s), cs)
<1> DEFINE ev == [e |-> "failed"]
           t == R!Fail(s)
<1>1. s \in RState /\ s.out \in Seq(REvent) /\ ev \in REvent
  BY DEF RReading, RState, REvent
<1>2. t.out = Append(s.out, ev)
  BY <1>1 DEF R!Fail, R!Emit, RState
<1> HIDE DEF t
<1>3. RLast(t.out) = ev
  <2> HIDE DEF ev
  <2> QED BY <1>1, <1>2 DEF RLast
<1>4. RGiven(t, cs)
  BY <1>3 DEF RGiven
<1> QED BY <1>4 DEF t

\* What the client of the Responses API is given.
LEMMA RClientReads ==
  ASSUME RAlike, NEW cs \in Seq(Call), racc.fcs = cs, ended => RGiven(rst, cs)
  PROVE  /\ CallsOf(R!Body) = cs
         /\ R!Last(rst.out).e = "completed" => R!CallItems = cs
<1> DEFINE q == rst.out
           t == R!Texts
           B == [i \in DOMAIN cs |-> [kind |-> "function_call", call |-> cs[i]]]
<1>1. /\ q \in Seq(REvent) /\ racc \in RAcc
      /\ RLast(q).e = "completed" => ended
  BY DEF RAlike, REnding, RGood, RReading, RState, RFit
<1>2. t \in Seq(CText)
  <2>1. racc.reasoning \in Seq(Nat) /\ racc.text \in Seq(Nat)
    BY <1>1 DEF RAcc
  <2>2. \A kind, full : R!Block(kind, full) = A!Block(kind, full)
    BY DEF R!Block, A!Block
  <2> QED BY <2>1, <2>2, TextBlocks DEF R!Texts
<1>3. CallsOf(R!Body) = cs
  <2>1. R!Body = t \o B
    BY DEF R!Body
  <2> HIDE DEF t
  <2>2. CallsOf(t \o B) = cs
    BY <1>2, BodyCalls
  <2> QED BY <2>1, <2>2
<1>4. ASSUME RLast(q).e = "completed" PROVE R!CallItems = cs
  <2> DEFINE is == Gather(RItems, q)
  <2>1. \A k \in DOMAIN q : q[k] \in REvent
    BY <1>1
  <2>2. R!Done = is
    <3>1. \A k \in DOMAIN q :
             RItems[q[k]] = IF q[k].e = "item_done" THEN <<q[k].item>> ELSE <<>>
      BY <2>1 DEF RItems
    <3>2. R!Done =
            FlattenSeq([k \in DOMAIN q |->
              IF q[k].e = "item_done" THEN <<q[k].item>> ELSE <<>>])
      BY DEF R!Done, R!out, R!FlattenSeq, FlattenSeq
    <3> QED BY <3>1, <3>2 DEF Gather
  <2>3. RLast(q).output = is /\ Gather(RCallsIn, RLast(q).output) = cs
    BY <1>1, <1>4 DEF RAlike, REnding, RGiven
  <2>4. is \in Seq(RItem)
    <3>1. [e |-> "failed"] \in REvent
      BY DEF REvent
    <3> QED BY <1>1, <3>1, RGrown
  <2> HIDE DEF is, q
  <2>5. \A k \in DOMAIN is : is[k] \in RItem
    BY <2>4
  <2>6. \A k \in DOMAIN is :
           RCallsIn[is[k]] = IF is[k].kind = "function_call"
             THEN <<[id |-> is[k].call, name |-> is[k].name, args |-> is[k].full]>> ELSE <<>>
    BY <2>5 DEF RCallsIn
  <2>7. R!CallItems =
          FlattenSeq([k \in DOMAIN is |->
            IF is[k].kind = "function_call"
              THEN <<[id |-> is[k].call, name |-> is[k].name, args |-> is[k].full]>> ELSE <<>>])
    BY <2>2 DEF R!CallItems, R!FlattenSeq, FlattenSeq
  <2> QED BY <2>3, <2>6, <2>7 DEF Gather
<1>5. R!Last(q) = RLast(q)
  BY DEF R!Last, RLast
<1> QED BY <1>3, <1>4, <1>5

----------------------------------------------------------------------------
(* The calls of a chat completion.                                         *)

\* The message so far holds the calls so far, the last of them at the index where
\* the indexer stands.
OHas(a, t, cs) ==
  /\ a.map = cs /\ (cs # <<>> => t.seen)
  /\ \E fs : OCalls(fs, a, t)

\* A fragment continues the last call, or begins one.
LEMMA OToolHas ==
  ASSUME NEW a \in OAcc, NEW t \in OIndexer, NEW cs \in Seq(Call), OHas(a, t, cs),
         NEW tc \in Tool, NEW part \in Nat,
         IF tc.id # None THEN tc.name # None ELSE tc.name = None /\ cs # <<>>
  PROVE  LET u == O!NextIndex(t, tc)
             b == O!Add(a, [call |-> tc, index |-> u.cur], part)
         IN OHas(b, u, Made(cs, tc, part)) /\ Made(cs, tc, part) # <<>>
<1> DEFINE u == O!NextIndex(t, tc)
           b == O!Add(a, [call |-> tc, index |-> u.cur], part)
           m == Len(cs)
           ds == b.map
           call == [id |-> tc.id, name |-> tc.name, args |-> <<>>]
           y == IF tc.id # None THEN Append(cs, call) ELSE cs
           k == Len(y)
<1>1. PICK fs : OCalls(fs, a, t)
  BY DEF OHas
<1> DEFINE g == [call |-> tc, index |-> u.cur, part |-> part]
           gs == Append(fs, g)
<1>2. u \in OIndexer /\ b \in OAcc /\ OCalls(gs, b, u)
  BY <1>1, OStep
<1>3. /\ m \in Nat /\ Len(a.order) = m /\ fs \in Seq(OFragment) /\ a.map = cs
      /\ \A i \in 1 .. m : cs[i] = OCallOf(fs, i - 1)
      /\ OCallOf(fs, m) = OBlank
      /\ IF m = 0 THEN t.cur = 0 /\ ~t.seen ELSE t.cur = m - 1 /\ t.seen
  <2>1. a.map = cs /\ (cs # <<>> => t.seen)
    BY DEF OHas
  <2>2. m \in Nat /\ Len(a.order) = m /\ (m # 0 => cs # <<>>)
    BY <1>1, <2>1 DEF OCalls
  <2> HIDE DEF m
  <2> QED BY <1>1, <2>1, <2>2 DEF OCalls
<1>4. t.cur \in Nat /\ t.seen \in BOOLEAN
  BY DEF OIndexer
<1>5. u.cur = (IF tc.id # None THEN m ELSE m - 1) /\ u.seen /\ u.cur \in Nat
  <2>1. CASE tc.id = None
    <3>1. u = t /\ m # 0
      BY <1>3, <2>1 DEF O!NextIndex
    <3> QED BY <1>3, <1>4, <2>1, <3>1
  <2>2. CASE tc.id # None /\ t.seen
    <3>1. u = [t EXCEPT !.cur = @ + 1]
      BY <2>2 DEF O!NextIndex
    <3>2. u.cur = t.cur + 1 /\ u.seen
      BY <2>2, <3>1 DEF OIndexer
    <3> HIDE DEF u, m
    <3> QED BY <1>3, <1>4, <2>2, <3>2
  <2>3. CASE tc.id # None /\ ~t.seen
    <3>1. u = [t EXCEPT !.seen = TRUE]
      BY <2>3 DEF O!NextIndex
    <3>2. u.cur = t.cur /\ u.seen
      BY <3>1 DEF OIndexer
    <3> HIDE DEF u, m
    <3> QED BY <1>3, <1>4, <2>3, <3>2
  <2> QED BY <2>1, <2>2, <2>3
<1>6. call \in Call
  BY DEF Call, Tool
<1>7. /\ y \in Seq(Call) /\ k = u.cur + 1 /\ k \in Nat /\ k # 0
      /\ \A i \in 1 .. k - 1 : y[i] = cs[i]
      /\ y[k] = IF tc.id # None THEN call ELSE cs[m]
  <2> HIDE DEF call
  <2>1. CASE tc.id # None
    <3>1. y = Append(cs, call)
      BY <2>1
    <3> HIDE DEF y, u
    <3>2. k = m + 1 /\ y \in Seq(Call) /\ y[m + 1] = call /\ \A i \in 1 .. m : y[i] = cs[i]
      BY <1>6, <3>1
    <3> HIDE DEF k, m
    <3> QED BY <1>3, <1>5, <2>1, <3>2
  <2>2. CASE tc.id = None
    <3>1. y = cs /\ m # 0
      BY <1>3, <2>2
    <3> HIDE DEF y, u
    <3>2. k = m
      BY <3>1
    <3> HIDE DEF k, m
    <3> QED BY <1>3, <1>5, <2>2, <3>1, <3>2 DEF m
  <2> QED BY <2>1, <2>2
<1>8. Made(cs, tc, part) = IF tc.args /\ y # <<>> THEN CLonger(y, part) ELSE y
  BY CMade DEF CLonger
<1>9. g \in OFragment /\ g.call = tc /\ g.index = u.cur /\ g.part = part
  <2> HIDE DEF u
  <2> QED BY <1>5 DEF OFragment
<1> DEFINE old == OCallOf(fs, u.cur)
           new == OLonger(old, tc, part)
<1>10. old \in Call /\ \A i : OCallOf(gs, i) = IF i = u.cur THEN new ELSE OCallOf(fs, i)
  <2>1. ASSUME NEW i
        PROVE  /\ OCallOf(fs, i) \in Call
               /\ OCallOf(gs, i) =
                    IF g.index = i THEN OLonger(OCallOf(fs, i), g.call, g.part) ELSE OCallOf(fs, i)
    <3> HIDE DEF g
    <3> QED BY <1>3, <1>9, OCallGrown
  <2> HIDE DEF g, gs, u
  <2> QED BY <1>9, <2>1
<1>11. /\ ds \in Seq(Call) /\ Len(ds) = k
       /\ \A i \in 1 .. k : ds[i] = OCallOf(gs, i - 1)
  <2> HIDE DEF gs, b, u
  <2>1. /\ Len(b.map) = Len(b.order) /\ Len(b.order) \in Nat
        /\ \A i \in 1 .. Len(b.order) : b.map[i] = OCallOf(gs, i - 1)
        /\ IF Len(b.order) = 0 THEN u.cur = 0 /\ ~u.seen ELSE u.cur = Len(b.order) - 1
    BY <1>2 DEF OCalls, OAcc
  <2>2. Len(b.order) = k
    <3> HIDE DEF k
    <3> QED BY <1>5, <1>7, <2>1
  <2>3. b.map \in Seq(Call)
    BY <1>2 DEF OAcc
  <2> QED BY <2>1, <2>2, <2>3
<1>12. ds[k] = new /\ \A i \in 1 .. k - 1 : ds[i] = cs[i]
  <2> HIDE DEF ds, gs, u, new, k, m, y
  <2>1. k \in 1 .. k /\ k - 1 = u.cur
    BY <1>5, <1>7
  <2>2. ASSUME NEW i \in 1 .. k - 1 PROVE ds[i] = cs[i]
    <3>1. i \in 1 .. k /\ i - 1 # u.cur /\ i \in 1 .. m
      BY <1>3, <1>5, <1>7, <2>1
    <3> QED BY <1>3, <1>10, <1>11, <3>1
  <2> QED BY <1>10, <1>11, <2>1, <2>2
<1>13. old = IF tc.id # None THEN OBlank ELSE cs[m]
  <2> HIDE DEF u
  <2>1. CASE tc.id # None
    BY <1>3, <1>5, <2>1
  <2>2. CASE tc.id = None
    <3>1. m \in 1 .. m /\ u.cur = m - 1
      BY <1>3, <1>5, <2>2
    <3> HIDE DEF m
    <3> QED BY <1>3, <2>2, <3>1
  <2> QED BY <2>1, <2>2
<1> DEFINE last == y[k]
<1>14. last \in Call
  <2>1. k \in 1 .. k
    BY <1>7
  <2> HIDE DEF y
  <2> QED BY <1>7, <2>1
<1>15. new = [id |-> last.id, name |-> last.name,
              args |-> IF tc.args THEN Append(last.args, part) ELSE last.args]
  <2>1. CASE tc.id # None
    <3>1. last = call /\ old = OBlank
      BY <1>7, <1>13, <2>1
    <3>2. last.id = tc.id /\ last.name = tc.name /\ last.args = <<>> /\ old.args = <<>>
      BY <3>1 DEF OBlank
    <3> HIDE DEF last, old
    <3> QED BY <2>1, <3>2 DEF OLonger, O!Or
  <2>2. CASE tc.id = None
    <3>1. last = old /\ tc.name = None
      BY <1>7, <1>13, <2>2
    <3> HIDE DEF last, old
    <3> QED BY <2>2, <3>1 DEF OLonger, O!Or
  <2> QED BY <2>1, <2>2
<1> HIDE DEF u, b, ds, y, new, old, call, g, gs, last
<1>16. y # <<>>
  <2>1. Len(<<>>) = 0
    OBVIOUS
  <2> QED BY <1>7, <2>1
<1> DEFINE z == Made(cs, tc, part)
<1>17. /\ z \in Seq(Call) /\ Len(z) = k /\ \A i \in 1 .. k - 1 : z[i] = cs[i]
       /\ z[k] = new
  <2>1. z \in Seq(Call)
    BY CMade
  <2>2. CASE tc.args
    <3>1. z = [y EXCEPT ![k].args = Append(@, part)]
      BY <1>8, <1>16, <2>2 DEF CLonger
    <3>2. DOMAIN y = 1 .. k /\ k \in 1 .. k
      BY <1>7
    <3> HIDE DEF z
    <3>3. DOMAIN z = 1 .. k /\ \A i \in 1 .. k - 1 : z[i] = y[i]
      BY <1>7, <3>1, <3>2
    <3>4. z[k] = [last EXCEPT !.args = Append(@, part)]
      BY <3>1, <3>2 DEF last
    <3>5. z[k] = [id |-> last.id, name |-> last.name, args |-> Append(last.args, part)]
      BY <1>14, <3>4, LongerCall
    <3>6. Len(z) = k
      <4> HIDE DEF k
      <4> QED BY <1>7, <2>1, <3>3
    <3> QED BY <1>7, <1>15, <2>1, <2>2, <3>3, <3>5, <3>6
  <2>3. CASE ~tc.args
    <3>1. z = y
      BY <1>8, <2>3
    <3>2. last = [id |-> last.id, name |-> last.name, args |-> last.args]
      BY <1>14 DEF Call
    <3>3. z[k] = new
      BY <1>15, <2>3, <3>1, <3>2 DEF last
    <3> HIDE DEF z
    <3> QED BY <1>7, <2>1, <3>1, <3>3
  <2> QED BY <2>2, <2>3
<1> HIDE DEF z
<1>18. z = ds
  <2> HIDE DEF k
  <2>1. \A i \in 1 .. k : z[i] = ds[i]
    <3> TAKE i \in 1 .. k
    <3>1. i \in 1 .. k - 1 \/ i = k
      BY <1>7
    <3> QED BY <1>12, <1>17, <3>1
  <2> QED BY <1>11, <1>17, <2>1
<1>19. z # <<>>
  <2>1. Len(<<>>) = 0
    OBVIOUS
  <2> QED BY <1>7, <1>17, <2>1
<1>20. OHas(b, u, z)
  BY <1>2, <1>5, <1>18 DEF OHas, ds
<1> QED BY <1>19, <1>20 DEF z, u, b

LEMMA OStill ==
  ASSUME NEW a, NEW b, NEW t, NEW cs, OHas(a, t, cs), b.map = a.map, b.order = a.order
  PROVE  OHas(b, t, cs)
BY DEF OHas, OCalls

LEMMA OToolsHave ==
  ASSUME NEW a \in OAcc, NEW t \in OIndexer, NEW cs \in Seq(Call), OHas(a, t, cs),
         NEW tools \in Seq(Tool), NEW part \in Nat, NEW isopen \in BOOLEAN,
         Fits(tools, isopen), isopen => cs # <<>>
  PROVE  LET r == O!Remap(t, tools)
             ds == CallsMade(cs, tools, part)
         IN /\ r.t \in OIndexer /\ r.tools \in Seq(OTool) /\ O!AddAll(a, r.tools, part) \in OAcc
            /\ OHas(O!AddAll(a, r.tools, part), r.t, ds)
            /\ tools # <<>> \/ isopen => ds # <<>>
<1> DEFINE r == O!Remap(t, tools)
           q == r.tools
           b == O!AddAll(a, q, part)
           m == Len(tools)
<1>1. PICK ts : OTraced(ts, t, tools)
  BY ORemap
<1>2. /\ m \in Nat /\ ts \in [0 .. m -> OIndexer] /\ ts[0] = t /\ ts[m] = r.t
      /\ \A i \in 1 .. m : ts[i] = O!NextIndex(ts[i-1], tools[i])
      /\ q \in Seq(OTool) /\ Len(q) = m
      /\ \A i \in 1 .. m : q[i] = [call |-> tools[i], index |-> ts[i].cur]
  BY <1>1 DEF OTraced
<1>3. OAdded(OAcc, part)
  BY OAddTyped DEF OAdded
<1> HIDE DEF q
<1>4. PICK f : OAdding(f, OAcc, a, q, part)
  BY <1>2, <1>3, OAdds
<1>5. /\ f \in [0 .. m -> OAcc] /\ f[0] = a /\ f[m] = b
      /\ \A i \in 1 .. m : f[i] = O!Add(f[i-1], q[i], part)
  BY <1>2, <1>4 DEF OAdding
<1>6. PICK h : CMaking(h, cs, tools, part)
  BY CMakes
<1>7. /\ h \in [0 .. m -> Seq(Call)] /\ h[0] = cs /\ h[m] = CallsMade(cs, tools, part)
      /\ \A i \in 1 .. m : h[i] = Made(h[i-1], tools[i], part)
  BY <1>6 DEF CMaking
<1> DEFINE g == [i \in 0 .. m |-> <<f[i], ts[i]>>]
           P == {p \in (OAcc \X OIndexer) \X Seq(Call) : OHas(p[1][1], p[1][2], p[2])}
           Q == {p \in P : p[2] # <<>>}
<1>8. ASSUME NEW i \in 1 .. m, <<g[i-1], h[i-1]>> \in P,
             tools[i].id = None => <<g[i-1], h[i-1]>> \in Q
      PROVE  <<g[i], h[i]>> \in Q
  <2> DEFINE x == f[i-1]
             v == ts[i-1]
             y == h[i-1]
             tc == tools[i]
             u == O!NextIndex(v, tc)
  <2>1. i - 1 \in 0 .. m /\ i \in 0 .. m
    BY <1>2
  <2>2. /\ g[i-1] = <<x, v>> /\ g[i] = <<f[i], ts[i]>>
        /\ x \in OAcc /\ v \in OIndexer /\ y \in Seq(Call)
        /\ f[i] \in OAcc /\ ts[i] \in OIndexer /\ h[i] \in Seq(Call)
    BY <1>2, <1>5, <1>7, <2>1
  <2>3. OHas(x, v, y) /\ (tc.id = None => y # <<>>)
    <3> HIDE DEF g
    <3> QED BY <1>8, <2>2
  <2>4. tc \in Tool /\ IF tc.id # None THEN tc.name # None ELSE tc.name = None /\ y # <<>>
    <3>1. i \in DOMAIN tools /\ tc \in Tool
      BY <1>2
    <3> QED BY <2>3, <3>1 DEF Fits
  <2>5. ts[i] = u /\ f[i] = O!Add(x, [call |-> tc, index |-> ts[i].cur], part)
        /\ h[i] = Made(y, tc, part)
    BY <1>2, <1>5, <1>7
  <2>6. f[i] = O!Add(x, [call |-> tc, index |-> u.cur], part)
    BY <2>5
  <2> HIDE DEF x, v, y, tc
  <2>7. OHas(f[i], u, h[i]) /\ h[i] # <<>>
    BY <2>2, <2>3, <2>4, <2>5, <2>6, OToolHas
  <2> HIDE DEF g, u
  <2> QED BY <2>2, <2>5, <2>7
<1>9. Keeps(P, Q, g, h, tools)
  <2>1. Q \subseteq P
    OBVIOUS
  <2> HIDE DEF P, Q, g
  <2> QED BY <1>8, <2>1 DEF Keeps
<1>10. <<g[0], h[0]>> \in P /\ (isopen => <<g[0], h[0]>> \in Q)
  BY <1>2, <1>5, <1>7
<1>11. <<g[m], h[m]>> \in P /\ (tools # <<>> \/ isopen => <<g[m], h[m]>> \in Q)
  <2> HIDE DEF P, Q, g
  <2> QED BY <1>9, <1>10, InStep
<1>12. g[m] = <<b, r.t>>
  BY <1>2, <1>5
<1> HIDE DEF g
<1>13. OHas(b, r.t, h[m]) /\ (tools # <<>> \/ isopen => h[m] # <<>>)
  BY <1>11, <1>12
<1>14. b \in OAcc /\ r.t \in OIndexer
  BY <1>2, <1>5
<1> QED BY <1>2, <1>7, <1>13, <1>14 DEF q

LEMMA OChunkHas ==
  ASSUME NEW a \in OAcc, NEW t \in OIndexer, a.idx = t, NEW cs \in Seq(Call), OHas(a, t, cs),
         NEW c \in Chunks, NEW part \in Nat, NEW isopen \in BOOLEAN,
         Fits(c.tools, isopen), isopen => cs # <<>>
  PROVE  LET ds == CallsMade(cs, c.tools, part)
         IN /\ OHas(O!Collect(a, c, part), O!Remap(t, c.tools).t, ds)
            /\ c.tools # <<>> \/ isopen => ds # <<>>
<1> DEFINE r == O!Remap(t, c.tools)
           b == O!Collect(a, c, part)
           u == IF c.usage THEN [a EXCEPT !.usage = part] ELSE a
           a1 == IF c.text THEN [u EXCEPT !.content = Append(@, part)] ELSE u
           a2 == IF c.think THEN [a1 EXCEPT !.reasoning = Append(@, part)] ELSE a1
           z == [a2 EXCEPT !.idx = r.t]
           a3 == O!AddAll(z, r.tools, part)
           ds == CallsMade(cs, c.tools, part)
<1>1. /\ c.choice \in BOOLEAN /\ c.think \in BOOLEAN /\ c.text \in BOOLEAN
      /\ c.tools \in Seq(Tool) /\ c.stop \in BOOLEAN /\ c.usage \in BOOLEAN
      /\ ~c.choice => ~c.think /\ ~c.text /\ c.tools = <<>> /\ ~c.stop
  BY ChunksAssumption
<1>2. part \in Parts
  BY DEF Parts
<1>3. u \in OAcc /\ u.idx = t /\ u.order = a.order /\ u.map = a.map
  BY <1>2 DEF OAcc
<1>4. r = O!Remap(u.idx, c.tools)
  BY <1>3
<1>5. b = IF ~c.choice THEN u ELSE IF c.stop THEN [a3 EXCEPT !.finish = part] ELSE a3
  BY <1>4 DEF O!Collect
<1>6. a2 \in OAcc /\ a2.order = a.order /\ a2.map = a.map
  <2>1. Append(u.content, part) \in Seq(Nat)
    BY <1>3 DEF OAcc
  <2> HIDE DEF u
  <2>2. a1 \in OAcc /\ a1.order = a.order /\ a1.map = a.map
    BY <1>3, <2>1 DEF OAcc
  <2> HIDE DEF a1
  <2>3. Append(a1.reasoning, part) \in Seq(Nat)
    BY <2>2 DEF OAcc
  <2> QED BY <2>2, <2>3 DEF OAcc
<1> HIDE DEF a1, a2, b, u
<1>7. r.t \in OIndexer /\ r.tools \in Seq(OTool)
  BY <1>1, OToolsHave
<1> HIDE DEF r
<1>8. z \in OAcc /\ z.order = a.order /\ z.map = a.map
  BY <1>6, <1>7 DEF OAcc
<1> HIDE DEF z
<1>9. OHas(z, t, cs)
  BY <1>8, OStill
<1>10. a3 \in OAcc /\ OHas(a3, r.t, ds) /\ (c.tools # <<>> \/ isopen => ds # <<>>)
  <2> HIDE DEF ds
  <2> QED BY <1>1, <1>8, <1>9, OToolsHave DEF r, ds
<1> HIDE DEF a3
<1>11. CASE c.choice
  <2>1. b.order = a3.order /\ b.map = a3.map
    BY <1>5, <1>10, <1>11 DEF OAcc
  <2>2. OHas(b, r.t, ds)
    BY <1>10, <2>1, OStill
  <2> QED BY <1>10, <2>2 DEF b, r
<1>12. CASE ~c.choice
  <2>1. b = u /\ c.tools = <<>>
    BY <1>1, <1>5, <1>12
  <2>2. r.t = t
    <3>1. PICK ts : OTraced(ts, t, c.tools)
      BY <1>1, ORemap
    <3>2. Len(c.tools) = 0
      BY <2>1
    <3> QED BY <3>1, <3>2 DEF OTraced, r
  <2>3. ds = cs
    <3>1. PICK h : CMaking(h, cs, c.tools, part)
      BY <1>1, CMakes
    <3>2. Len(c.tools) = 0
      BY <2>1
    <3> QED BY <3>1, <3>2 DEF CMaking
  <2>4. OHas(b, r.t, ds)
    BY <1>3, <2>1, <2>2, <2>3, OStill
  <2> QED BY <1>10, <2>4 DEF b, r
<1> QED BY <1>1, <1>11, <1>12

----------------------------------------------------------------------------
(* The calls in all three protocols.                                       *)

\* The invariant behind CallsKept: what each protocol has of the calls made so far,
\* and that the last of them is open in each of them while upstream may continue it.
Kept ==
  /\ calls \in Seq(Call)
  /\ AHas(ast, calls) /\ aacc.tools = calls
  /\ OHas(oacc, idx, calls)
  /\ racc.fcs = calls
  /\ IF ended THEN RGiven(rst, calls) ELSE RHas(rst, calls)
  /\ open =>
       /\ calls # <<>>
       /\ streaming => ast.kind = "tool_use"
       /\ ~ended => rst.kind = "function_call"
Keeping == open \in BOOLEAN /\ (regular => Kept)

LEMMA InitKeeping == Init => Keeping
<1> SUFFICES ASSUME Init PROVE Keeping
  OBVIOUS
<1>1. /\ calls = <<>> /\ open = FALSE /\ ast.out = <<>> /\ ast.kind = None
      /\ aacc.tools = <<>> /\ racc.fcs = <<>> /\ rst.items = <<>> /\ rst.kind = None /\ ~ended
  BY DEF Init, A!Init, R!Init
<1>2. \A C : Gather(C, <<>>) = <<>>
  BY DEF Gather, FlattenSeq
<1>3. AHas(ast, calls)
  <2>1. Len(<<>>) = 0 /\ 1 .. 0 = {}
    OBVIOUS
  <2> QED BY <1>1, <1>2, <2>1, NoneAssumption DEF AHas, AShows
<1>4. RHas(rst, calls)
  BY <1>1, <1>2, NoneAssumption DEF RHas, ROpenCall
<1>5. OHas(oacc, idx, calls)
  <2>1. OCalls(Gather(OFrags, sent), oacc, idx)
    BY InitOAlike DEF OAlike
  <2>2. oacc.map = <<>>
    BY DEF Init, O!Init
  <2> QED BY <1>1, <2>1, <2>2 DEF OHas
<1>6. calls \in Seq(Call)
  BY <1>1
<1> QED BY <1>1, <1>3, <1>4, <1>5, <1>6 DEF Keeping, Kept

\* A documented chunk fits the calls so far.
LEMMA DocumentedFits ==
  ASSUME NEW c \in Chunks, NEW ids, NEW isopen \in BOOLEAN, Documented(c, ids, isopen)
  PROVE  Fits(c.tools, isopen /\ ~c.think /\ ~c.text)
BY DEF Documented, Fits

LEMMA ChunkKeeping ==
  ASSUME Writing, AAlike, RAlike, OAlike, Keeping, NEW c \in Chunks, Chunk(c)
  PROVE  Keeping'
<1> DEFINE part == n'
           isopen == open /\ ~c.think /\ ~c.text
           ds == CallsMade(calls, c.tools, part)
<1>1. /\ part \in Nat /\ streaming /\ ~ended /\ streaming' = streaming /\ ended' = ended
      /\ ast' = A!HandleChunk(ast, c, part) /\ aacc' = A!Collect(aacc, c, part)
      /\ rst' = R!HandleChunk(rst, c, part) /\ racc' = R!Collect(racc, c, part)
      /\ idx' = O!Remap(idx, c.tools).t /\ oacc' = O!Collect(oacc, c, part)
      /\ calls' = ds /\ open' = (~c.stop /\ (c.tools # <<>> \/ isopen))
  <2>1. n' = n + 1 /\ A!Chunk(c, n') /\ O!Chunk(c, n') /\ R!Chunk(c, n')
    BY DEF Chunk
  <2>2. calls' = ds /\ open' = (~c.stop /\ (c.tools # <<>> \/ isopen))
    BY DEF Chunk
  <2> QED BY <2>1, <2>2 DEF A!Chunk, O!Chunk, R!Chunk, Writing
<1>2. open' \in BOOLEAN
  BY <1>1
<1>3. ASSUME regular' PROVE Kept'
  <2>1. regular /\ Documented(c, {calls[i].id : i \in DOMAIN calls}, open)
    BY <1>3 DEF Chunk
  <2>2. isopen \in BOOLEAN /\ Fits(c.tools, isopen)
    <3>1. open \in BOOLEAN
      BY DEF Keeping
    <3> QED BY <2>1, <3>1, DocumentedFits
  <2>3. Kept
    BY <2>1 DEF Keeping
  <2>4. /\ calls \in Seq(Call) /\ AHas(ast, calls) /\ aacc.tools = calls
        /\ OHas(oacc, idx, calls) /\ racc.fcs = calls /\ RHas(rst, calls)
        /\ open => calls # <<>> /\ ast.kind = "tool_use" /\ rst.kind = "function_call"
    BY <1>1, <2>3 DEF Kept
  <2>5. /\ ast \in AReading /\ rst \in RReading /\ aacc \in AAcc /\ racc \in RAcc
        /\ oacc \in OAcc /\ idx \in OIndexer /\ oacc.idx = idx
    BY <1>1 DEF Writing, AAlike, RAlike, OAlike
  <2>6. isopen => /\ calls # <<>> /\ ast.kind = "tool_use" /\ rst.kind = "function_call"
                  /\ ~c.think /\ ~c.text
    BY <2>4
  <2> HIDE DEF part, ds, isopen
  <2>7. /\ ds \in Seq(Call) /\ AHas(ast', ds)
        /\ ~c.stop /\ (c.tools # <<>> \/ isopen) => ast'.kind = "tool_use"
    BY <1>1, <2>2, <2>4, <2>5, <2>6, AChunkHas DEF ds
  <2>8. RHas(rst', ds) /\ (c.tools # <<>> \/ isopen => rst'.kind = "function_call")
    BY <1>1, <2>2, <2>4, <2>5, <2>6, RChunkHas DEF ds
  <2>9. OHas(oacc', idx', ds) /\ (c.tools # <<>> \/ isopen => ds # <<>>)
    BY <1>1, <2>2, <2>4, <2>5, <2>6, OChunkHas DEF ds
  <2>10. aacc'.tools = ds /\ racc'.fcs = ds
    BY <1>1, <2>2, <2>4, <2>5, ACollectsCalls, RCollectsCalls DEF ds
  <2> QED BY <1>1, <2>7, <2>8, <2>9, <2>10 DEF Kept
<1> QED BY <1>2, <1>3 DEF Keeping

\* The ends of an answer leave the calls alone.
LEMMA EndsKeep ==
  ASSUME Writing, RAlike, OAlike, Keeping,
         calls' = calls, open' = open, regular' = regular, aacc'.tools = aacc.tools,
         \/ ast' = ast /\ streaming' = streaming
         \/ ~streaming' /\ AHas(ast', calls)
         \/ ~streaming' /\ ~regular,
         \/ UNCHANGED <<oacc, idx, rst, racc, ended>>
         \/ \E failed \in BOOLEAN : O!End(failed) /\ R!End(failed)
  PROVE  Keeping'
<1>1. open' \in BOOLEAN
  BY DEF Keeping
<1>2. ASSUME regular' PROVE Kept'
  <2>1. regular /\ Kept
    BY <1>2 DEF Keeping
  <2>2. AHas(ast', calls) /\ (open => calls # <<>> /\ (streaming' => ast'.kind = "tool_use"))
    BY <2>1 DEF Kept
  <2>3. /\ OHas(oacc', idx', calls) /\ racc'.fcs = calls
        /\ IF ended' THEN RGiven(rst', calls) ELSE RHas(rst', calls)
        /\ open => (~ended' => rst'.kind = "function_call")
    <3>1. CASE UNCHANGED <<oacc, idx, rst, racc, ended>>
      BY <2>1, <3>1 DEF Kept
    <3>2. ASSUME NEW failed \in BOOLEAN, O!End(failed), R!End(failed)
          PROVE  /\ OHas(oacc', idx', calls) /\ racc'.fcs = calls
                 /\ ended' /\ RGiven(rst', calls)
      <4>1. /\ oacc' = oacc /\ idx' = idx /\ ~ended /\ ended'
            /\ rst' = IF failed THEN R!Fail(rst) ELSE R!Complete(rst)
            /\ racc' = [racc EXCEPT !.status = IF failed THEN "failed" ELSE R!Status(racc.stop)]
        BY <3>2 DEF O!End, R!End
      <4>2. rst \in RReading /\ racc \in RAcc
        BY <4>1 DEF Writing, RAlike
      <4>3. racc'.fcs = racc.fcs
        BY <4>1, <4>2 DEF RAcc
      <4>4. RHas(rst, calls) /\ OHas(oacc, idx, calls) /\ racc.fcs = calls /\ calls \in Seq(Call)
        BY <2>1, <4>1 DEF Kept
      <4>5. RGiven(R!Fail(rst), calls) /\ RGiven(R!Complete(rst), calls)
        BY <4>2, <4>4, RFailGives, RCompleteGives
      <4> QED BY <4>1, <4>3, <4>4, <4>5
    <3> QED BY <3>1, <3>2
  <2> QED BY <2>1, <2>2, <2>3 DEF Kept
<1> QED BY <1>1, <1>2 DEF Keeping

LEMMA StepKeeping ==
  ASSUME Writing, AAlike, RAlike, OAlike, Keeping, [Next]_vars
  PROVE  Keeping'
<1>1. CASE UNCHANGED vars
  BY <1>1 DEF Keeping, Kept, vars
<1>2. ASSUME NEW c \in Chunks, Chunk(c) PROVE Keeping'
  BY <1>2, ChunkKeeping
<1>0. aacc \in AAcc
  BY DEF AAlike
<1>3. CASE UpstreamError
  <2>1. /\ A!UpstreamError /\ O!End(TRUE) /\ R!End(TRUE)
        /\ calls' = calls /\ open' = open /\ regular' = regular
    BY <1>3 DEF UpstreamError, upstream
  <2>2. /\ ast \in AReading /\ ast' = [A!Emit(ast, [e |-> "error"]) EXCEPT !.failed = TRUE]
        /\ aacc' = [aacc EXCEPT !.failed = TRUE] /\ ~streaming'
    BY <2>1 DEF A!UpstreamError, Writing
  <2>3. aacc'.tools = aacc.tools
    BY <1>0, <2>2 DEF AAcc
  <2>4. regular => AHas(ast', calls)
    BY <2>2, AErrorHas DEF Keeping, Kept
  <2> QED BY <2>1, <2>2, <2>3, <2>4, EndsKeep
<1>4. ASSUME NEW data \in BOOLEAN, FinishEvent(data) PROVE Keeping'
  <2>1. /\ A!FinishEvent(data) /\ O!End(FALSE) /\ R!End(FALSE)
        /\ calls' = calls /\ open' = open /\ regular' = regular
    BY <1>4 DEF FinishEvent, upstream
  <2>2. /\ ast \in AReading /\ ast' = A!Finish(ast) /\ aacc' = aacc /\ ~streaming'
    BY <2>1 DEF A!FinishEvent, Writing
  <2>3. regular => AHas(ast', calls)
    BY <2>2, AFinishHas DEF Keeping, Kept
  <2> QED BY <2>1, <2>2, <2>3, EndsKeep
<1>5. ASSUME NEW broken \in BOOLEAN, BodyEnds(broken) PROVE Keeping'
  <2>1. /\ A!End
        /\ \/ O!End(broken) /\ R!End(broken)
           \/ UNCHANGED <<oacc, idx, rst, racc, ended>>
        /\ calls' = calls /\ open' = open /\ regular' = regular
    BY <1>5 DEF BodyEnds, upstream
  <2>2. /\ ast' = IF streaming THEN A!FinishAtEnd(ast) ELSE ast
        /\ aacc' = aacc /\ ~streaming'
    BY <2>1 DEF A!End
  <2>3. regular => AHas(ast', calls)
    <3>1. CASE streaming
      <4>1. ast \in AReading /\ (ast' = A!Finish(ast) \/ ast' = ast)
        BY <2>2, <3>1 DEF Writing, A!FinishAtEnd
      <4> QED BY <4>1, AFinishHas DEF Keeping, Kept
    <3>2. CASE ~streaming
      BY <2>2, <3>2 DEF Keeping, Kept
    <3> QED BY <3>1, <3>2
  <2> QED BY <2>1, <2>2, <2>3, EndsKeep
<1> QED BY <1>1, <1>2, <1>3, <1>4, <1>5 DEF Next

LEMMA KeepingMeans ==
  ASSUME AAlike, RAlike, OAlike, Keeping
  PROVE  CallsKept
<1> SUFFICES ASSUME regular
             PROVE  /\ A!ToolBlocks = calls /\ CallsOf(A!Body) = calls
                    /\ O!ClientCalls = calls
                    /\ CallsOf(R!Body) = calls
                    /\ Last(rst.out).e = "completed" => R!CallItems = calls
  BY DEF CallsKept
<1>1. Kept
  BY DEF Keeping
<1>2. A!ToolBlocks = calls /\ CallsOf(A!Body) = calls
  BY <1>1, AGiven DEF Kept
<1>3. O!ClientCalls = calls
  BY <1>1, OAlikeMeans DEF O!SameAnswer, Kept, OHas
<1>4. CallsOf(R!Body) = calls /\ (R!Last(rst.out).e = "completed" => R!CallItems = calls)
  BY <1>1, RClientReads DEF Kept
<1>5. R!Last(rst.out) = Last(rst.out)
  BY DEF R!Last, Last
<1> QED BY <1>2, <1>3, <1>4, <1>5

\* When upstream keeps to its documented tool calls, a client of any protocol is given
\* exactly the calls upstream made, streamed or not (proxy.go, startBlock and
\* toolCall; openai.go, toolIndexer; responses.go, openFunctionCall).
THEOREM CallsReachClients == Spec => []CallsKept
<1> DEFINE J == AAlike /\ RAlike /\ OAlike /\ Keeping
<1>1. Init => J
  BY InitAAlike, InitRAlike, InitOAlike, InitKeeping
<1>2. Writing /\ J /\ [Next]_vars => J'
  <2> SUFFICES ASSUME Writing, J, [Next]_vars PROVE J'
    OBVIOUS
  <2>1. n \in Nat
    BY DEF Writing
  <2>2. AAlike' /\ RAlike' /\ OAlike'
    BY <2>1, StepAAlike, StepRAlike, StepOAlike
  <2>3. Keeping'
    BY StepKeeping
  <2> QED BY <2>2, <2>3
<1>3. J => CallsKept
  BY KeepingMeans
<1> HIDE DEF J
<1> QED BY <1>1, <1>2, <1>3, AlwaysWriting, PTL DEF Spec

=============================================================================
