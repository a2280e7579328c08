--------------------------- MODULE DropzoneProofs ---------------------------
(***************************************************************************)
(* Theorems about Dropzone for every finite set of files and every number  *)
(* of parallel uploads.                                                    *)
(***************************************************************************)
EXTENDS Dropzone, FiniteSetTheorems, SequenceTheorems, WellFoundedInduction, TLAPS

-----------------------------------------------------------------------------
(* Lists of files.                                                         *)

\* Appending adds the element, and nothing else.
LEMMA AppendSet ==
  ASSUME NEW S, NEW fs \in Seq(S), NEW x \in S
  PROVE  /\ Append(fs, x) \in Seq(S)
         /\ ToSet(Append(fs, x)) = ToSet(fs) \cup {x}
<1> DEFINE g == Append(fs, x)
<1>1. /\ g \in Seq(S) /\ Len(fs) \in Nat
      /\ DOMAIN fs = 1..Len(fs) /\ DOMAIN g = 1..(Len(fs) + 1)
      /\ \A i \in 1..Len(fs) : g[i] = fs[i]
      /\ g[Len(fs) + 1] = x
  OBVIOUS
<1> HIDE DEF g
<1>2. \A i \in DOMAIN g : i \in DOMAIN fs \/ i = Len(fs) + 1
  BY <1>1
<1>3. ToSet(g) \subseteq ToSet(fs) \cup {x}
  BY <1>1, <1>2 DEF ToSet
<1>4. ToSet(fs) \subseteq ToSet(g) /\ x \in ToSet(g)
  BY <1>1 DEF ToSet
<1>5. QED
  BY <1>1, <1>3, <1>4 DEF g

\* A new element comes after all others, which keep their order.
LEMMA AppendOrder ==
  ASSUME NEW S, NEW fs \in Seq(S), NEW x \in S, x \notin ToSet(fs), NEW f, NEW g
  PROVE  Precedes(Append(fs, x), f, g) <=> Precedes(fs, f, g) \/ (f \in ToSet(fs) /\ g = x)
<1> DEFINE a == Append(fs, x)
<1>1. /\ Len(fs) \in Nat /\ DOMAIN fs = 1..Len(fs) /\ DOMAIN a = 1..(Len(fs) + 1)
      /\ \A i \in 1..Len(fs) : a[i] = fs[i]
      /\ a[Len(fs) + 1] = x
  OBVIOUS
<1> HIDE DEF a
<1>2. ASSUME Precedes(a, f, g), g # x
      PROVE  Precedes(fs, f, g)
  <2>1. PICK i \in 1..(Len(fs) + 1), j \in 1..(Len(fs) + 1) : i < j /\ a[i] = f /\ a[j] = g
    BY <1>1, <1>2 DEF Precedes
  <2>2. j # Len(fs) + 1
    BY <1>1, <1>2, <2>1
  <2>3. i \in 1..Len(fs) /\ j \in 1..Len(fs)
    BY <1>1, <2>1, <2>2
  <2>4. QED
    BY <1>1, <2>1, <2>3 DEF Precedes
<1>3. ASSUME Precedes(a, f, g), g = x
      PROVE  f \in ToSet(fs)
  <2>1. PICK i \in 1..(Len(fs) + 1), j \in 1..(Len(fs) + 1) : i < j /\ a[i] = f /\ a[j] = g
    BY <1>1, <1>3 DEF Precedes
  <2>2. i \in 1..Len(fs)
    BY <1>1, <2>1
  <2>3. QED
    BY <1>1, <2>1, <2>2 DEF ToSet
<1>4. ASSUME Precedes(fs, f, g)
      PROVE  Precedes(a, f, g)
  <2>1. PICK i \in 1..Len(fs), j \in 1..Len(fs) : i < j /\ fs[i] = f /\ fs[j] = g
    BY <1>1, <1>4 DEF Precedes
  <2>2. i \in DOMAIN a /\ j \in DOMAIN a
    BY <1>1
  <2>3. QED
    BY <1>1, <2>1, <2>2 DEF Precedes
<1>5. ASSUME f \in ToSet(fs), g = x
      PROVE  Precedes(a, f, g)
  <2>1. PICK i \in 1..Len(fs) : fs[i] = f
    BY <1>1, <1>5 DEF ToSet
  <2>2. i \in DOMAIN a /\ Len(fs) + 1 \in DOMAIN a /\ i < Len(fs) + 1
    BY <1>1
  <2>3. QED
    BY <1>1, <1>5, <2>1, <2>2 DEF Precedes
<1>6. QED
  BY <1>2, <1>3, <1>4, <1>5 DEF a

\* A new element keeps a list free of repetitions.
LEMMA AppendInjectiveList ==
  ASSUME NEW S, NEW fs \in Seq(S), NEW x \in S, IsInjective(fs), x \notin ToSet(fs)
  PROVE  IsInjective(Append(fs, x))
BY DEF ToSet, IsInjective

\* The rest of a list has everything but its head, once if the list has it once.
LEMMA TailSet ==
  ASSUME NEW S, NEW fs \in Seq(S), fs # <<>>
  PROVE  /\ Tail(fs) \in Seq(S) /\ Head(fs) \in ToSet(fs)
         /\ ToSet(Tail(fs)) \subseteq ToSet(fs)
         /\ ToSet(fs) \ {Head(fs)} \subseteq ToSet(Tail(fs))
         /\ IsInjective(fs) => IsInjective(Tail(fs)) /\ Head(fs) \notin ToSet(Tail(fs))
<1>1. Tail(fs) \in Seq(S) /\ Head(fs) = fs[1] /\ Len(fs) >= 1
  OBVIOUS
<1>2. /\ DOMAIN Tail(fs) = 1..(Len(fs) - 1)
      /\ \A i \in 1..(Len(fs) - 1) : Tail(fs)[i] = fs[i + 1]
  OBVIOUS
<1>3. \A i \in DOMAIN fs : i = 1 \/ (i - 1 \in DOMAIN Tail(fs) /\ Tail(fs)[i - 1] = fs[i])
  BY <1>1, <1>2
<1>4. DOMAIN fs = 1..Len(fs)
  OBVIOUS
<1>5. ToSet(Tail(fs)) \subseteq ToSet(fs) /\ Head(fs) \in ToSet(fs)
  BY <1>1, <1>2, <1>4 DEF ToSet
<1>6. ToSet(fs) \ {Head(fs)} \subseteq ToSet(Tail(fs))
  BY <1>1, <1>3, ZenonT(60) DEF ToSet
<1>7. ASSUME IsInjective(fs)
      PROVE  IsInjective(Tail(fs)) /\ Head(fs) \notin ToSet(Tail(fs))
  BY <1>1, <1>2, <1>4, <1>7 DEF ToSet, IsInjective
<1>8. QED
  BY <1>1, <1>5, <1>6, <1>7

\* `without' takes the file out of the list and keeps the others.
LEMMA WithoutSet ==
  ASSUME NEW S, NEW fs \in Seq(S), IsInjective(fs), NEW f
  PROVE  /\ Without(fs, f) \in Seq(S)
         /\ ToSet(Without(fs, f)) = ToSet(fs) \ {f}
         /\ IsInjective(Without(fs, f))
         /\ \A x, y : x # f /\ y # f =>
                (Precedes(Without(fs, f), x, y) <=> Precedes(fs, x, y))
<1>1. CASE f \notin ToSet(fs)
  BY <1>1 DEF Without
<1>2. CASE f \in ToSet(fs)
  <2> DEFINE k == CHOOSE i \in DOMAIN fs : fs[i] = f
             g == RemoveAt(fs, k)
  <2>1. k \in DOMAIN fs /\ fs[k] = f
    BY <1>2 DEF ToSet
  <2>2. k \in 1..Len(fs) /\ Len(fs) \in Nat
    BY <2>1
  <2> HIDE DEF k
  <2>3. /\ g \in Seq(S) /\ Len(g) = Len(fs) - 1
        /\ \A i \in 1..(Len(fs) - 1) : g[i] = IF i < k THEN fs[i] ELSE fs[i + 1]
    <3> DEFINE a == SubSeq(fs, 1, k - 1)
               b == SubSeq(fs, k + 1, Len(fs))
    <3>1. /\ a \in Seq(S) /\ Len(a) = k - 1
          /\ \A i \in 1..(k - 1) : a[i] = fs[i]
      BY <2>2
    <3>2. /\ b \in Seq(S) /\ Len(b) = Len(fs) - k
          /\ \A i \in 1..(Len(fs) - k) : b[i] = fs[k + i]
      BY <2>2, SubSeqProperties
    <3> HIDE DEF a, b
    <3>3. /\ a \o b \in Seq(S) /\ Len(a \o b) = Len(fs) - 1
          /\ \A i \in 1..(Len(fs) - 1) : (a \o b)[i] = IF i < k THEN a[i] ELSE b[i - (k - 1)]
      <4>1. /\ a \o b \in Seq(S) /\ Len(a \o b) = Len(a) + Len(b)
            /\ \A i \in 1..(Len(a) + Len(b)) :
                   (a \o b)[i] = IF i <= Len(a) THEN a[i] ELSE b[i - Len(a)]
        BY <3>1, <3>2, ConcatProperties
      <4>2. Len(a) + Len(b) = Len(fs) - 1 /\ \A i \in Nat : i <= Len(a) <=> i < k
        BY <2>2, <3>1, <3>2
      <4>3. QED
        BY <4>1, <4>2, <3>1
    <3>4. \A i \in 1..(Len(fs) - 1) : (a \o b)[i] = IF i < k THEN fs[i] ELSE fs[i + 1]
      BY <2>2, <3>1, <3>2, <3>3
    <3>5. QED
      BY <3>3, <3>4 DEF RemoveAt, a, b
  <2>4. Without(fs, f) = g
    BY <1>2 DEF Without, k
  <2> HIDE DEF g
  <2>5. DOMAIN g = 1..(Len(fs) - 1) /\ DOMAIN fs = 1..Len(fs)
    BY <2>3
  <2>6. \A i \in 1..Len(fs) : fs[i] = f => i = k
    BY <2>1, <2>5 DEF IsInjective
  <2>7. \A i \in 1..Len(fs) : i < k => (i \in DOMAIN g /\ g[i] = fs[i])
    BY <2>2, <2>3, <2>5
  <2>8. \A i \in 1..Len(fs) : i > k => (i - 1 \in DOMAIN g /\ g[i - 1] = fs[i])
    BY <2>2, <2>3, <2>5
  <2>9. ToSet(fs) \ {f} \subseteq ToSet(g)
    <3> SUFFICES ASSUME NEW i \in DOMAIN fs, fs[i] # f
                 PROVE  fs[i] \in ToSet(g)
      BY DEF ToSet
    <3>1. i # k /\ i \in 1..Len(fs)
      BY <2>1, <2>5
    <3>2. CASE i < k
      BY <3>1, <3>2, <2>7 DEF ToSet
    <3>3. CASE i > k
      BY <3>1, <3>3, <2>8 DEF ToSet
    <3>4. QED
      BY <2>2, <3>1, <3>2, <3>3
  <2>10. ToSet(g) \subseteq ToSet(fs) \ {f}
    <3> SUFFICES ASSUME NEW i \in DOMAIN g
                 PROVE  g[i] \in ToSet(fs) \ {f}
      BY DEF ToSet
    <3>1. i \in 1..(Len(fs) - 1) /\ i \in 1..Len(fs) /\ i + 1 \in 1..Len(fs)
      BY <2>2, <2>5
    <3>2. CASE i < k
      BY <2>2, <2>3, <2>5, <2>6, <3>1, <3>2 DEF ToSet
    <3>3. CASE ~ (i < k)
      BY <2>2, <2>3, <2>5, <2>6, <3>1, <3>3 DEF ToSet
    <3>4. QED
      BY <3>2, <3>3
  <2>11. IsInjective(g)
    <3>1. SUFFICES ASSUME NEW i \in 1..(Len(fs) - 1), NEW j \in 1..(Len(fs) - 1), g[i] = g[j]
                   PROVE  i = j
      BY <2>5 DEF IsInjective
    <3> DEFINE from(n) == IF n < k THEN n ELSE n + 1
    <3>2. from(i) \in 1..Len(fs) /\ from(j) \in 1..Len(fs)
      BY <2>2
    <3>3. g[i] = fs[from(i)] /\ g[j] = fs[from(j)]
      BY <2>3
    <3>4. from(i) = from(j)
      BY <2>5, <3>1, <3>2, <3>3 DEF IsInjective
    <3>5. QED
      BY <2>2, <3>4
  <2>12. ASSUME NEW x, NEW y, x # f, y # f
         PROVE  Precedes(g, x, y) <=> Precedes(fs, x, y)
    <3>1. ASSUME Precedes(g, x, y) PROVE Precedes(fs, x, y)
      <4>1. PICK i \in 1..(Len(fs) - 1), j \in 1..(Len(fs) - 1) :
                i < j /\ g[i] = x /\ g[j] = y
        BY <2>5, <3>1 DEF Precedes
      <4> DEFINE from(n) == IF n < k THEN n ELSE n + 1
      <4>2. from(i) \in 1..Len(fs) /\ from(j) \in 1..Len(fs) /\ from(i) < from(j)
        BY <2>2, <4>1
      <4>3. fs[from(i)] = x /\ fs[from(j)] = y
        BY <2>3, <4>1
      <4> HIDE DEF from
      <4>4. QED
        BY <2>5, <4>2, <4>3 DEF Precedes
    <3>2. ASSUME Precedes(fs, x, y) PROVE Precedes(g, x, y)
      <4>1. PICK i \in 1..Len(fs), j \in 1..Len(fs) : i < j /\ fs[i] = x /\ fs[j] = y
        BY <2>5, <3>2 DEF Precedes
      <4>2. i # k /\ j # k
        BY <2>1, <2>12, <4>1
      <4> DEFINE to(n) == IF n < k THEN n ELSE n - 1
      <4>3. /\ to(i) \in DOMAIN g /\ g[to(i)] = x
            /\ to(j) \in DOMAIN g /\ g[to(j)] = y
        BY <2>2, <2>7, <2>8, <4>1, <4>2
      <4>4. to(i) < to(j)
        BY <2>2, <4>1, <4>2
      <4> HIDE DEF to
      <4>5. QED
        BY <4>3, <4>4 DEF Precedes
    <3>3. QED
      BY <3>1, <3>2
  <2>13. QED
    BY <2>3, <2>4, <2>9, <2>10, <2>11, <2>12
<1>3. QED
  BY <1>1, <1>2
-----------------------------------------------------------------------------
(* processQueue.                                                           *)

\* A nonempty set of positions of a list has a first and a last one.
LEMMA FirstPosition ==
  ASSUME NEW n \in Nat, NEW T \in SUBSET (1..n), T # {}
  PROVE  /\ \E m \in T : \A i \in T : m <= i
         /\ \E m \in T : \A i \in T : i <= m
<1>1. ASSUME NEW U \in SUBSET Nat, U # {}
      PROVE  \E m \in U : \A i \in U : m <= i
  <2> DEFINE R == OpToRel(<, Nat)
  <2>1. \E m \in U : \A i \in U : ~ (<<i, m>> \in R)
    BY <1>1, WFMin, NatLessThanWellFounded
  <2>2. \A i, m \in Nat : <<i, m>> \in R <=> i < m
    BY DEF OpToRel
  <2> HIDE DEF R
  <2>3. PICK m \in U : \A i \in U : ~ (<<i, m>> \in R)
    BY <2>1
  <2>4. ASSUME NEW i \in U PROVE m <= i
    <3>1. i \in Nat /\ m \in Nat /\ ~ (i < m)
      BY <2>2, <2>3
    <3>2. QED
      BY <3>1
  <2>5. QED
    BY <2>4
<1>2. \E m \in T : \A i \in T : m <= i
  BY <1>1
<1>3. \E m \in T : \A i \in T : i <= m
  <2> DEFINE U == {n - i : i \in T}
  <2>1. U \in SUBSET Nat /\ U # {}
    <3>1. \A i \in T : n - i \in Nat
      OBVIOUS
    <3>2. QED
      BY <3>1
  <2>2. PICK u \in U : \A v \in U : u <= v
    BY <1>1, <2>1
  <2>3. PICK m \in T : u = n - m
    BY <2>2
  <2>4. \A i \in T : n - m <= n - i
    BY <2>2, <2>3
  <2>5. QED
    BY <2>3, <2>4
<1>4. QED
  BY <1>2, <1>3

\* What is listed, queued or being uploaded is a finite set of files.
LEMMA ListedFinite ==
  ASSUME NEW fs \in Seq(Files), NEW st
  PROVE  /\ ToSet(fs) \subseteq Files
         /\ Queued(fs, st) \subseteq Files /\ IsFiniteSet(Queued(fs, st))
         /\ Uploading(fs, st) \subseteq Files /\ IsFiniteSet(Uploading(fs, st))
         /\ Cardinality(Uploading(fs, st)) \in Nat
         /\ NextUp(fs, st) \subseteq Queued(fs, st)
<1>1. ToSet(fs) \subseteq Files
  BY DEF ToSet
<1>2. Queued(fs, st) \subseteq Files /\ Uploading(fs, st) \subseteq Files
  BY <1>1 DEF Queued, Uploading, WithStatus
<1>3. NextUp(fs, st) \subseteq Queued(fs, st)
  BY DEF NextUp
<1>4. IsFiniteSet(Queued(fs, st)) /\ IsFiniteSet(Uploading(fs, st))
  BY <1>2, FilesAssumption, FS_Subset
<1>5. Cardinality(Uploading(fs, st)) \in Nat
  BY <1>4, FS_CardinalityType
<1>6. QED
  BY <1>1, <1>2, <1>3, <1>4, <1>5

\* processQueue never opens more requests than there are slots, and leaves a
\* free slot only when nothing is queued.
LEMMA NextUpFillsSlots ==
  ASSUME NEW fs \in Seq(Files), IsInjective(fs), NEW st,
         Cardinality(Uploading(fs, st)) <= ParallelUploads
  PROVE  LET up == Uploading(fs, st) \cup NextUp(fs, st)
         IN  /\ Cardinality(up) <= ParallelUploads
             /\ Cardinality(up) = ParallelUploads \/ Queued(fs, st) \subseteq NextUp(fs, st)
<1> DEFINE Q == Queued(fs, st)
           U == Uploading(fs, st)
           N == NextUp(fs, st)
           u == Cardinality(U)
<1>1. /\ IsFiniteSet(Q) /\ IsFiniteSet(U) /\ u \in Nat /\ N \subseteq Q /\ Q \cap U = {}
      /\ Q \subseteq ToSet(fs)
  BY ListedFinite DEF Queued, Uploading, WithStatus
<1>2. IsFiniteSet(N) /\ Cardinality(N) \in Nat /\ N \cap U = {}
  BY <1>1, FS_Subset, FS_CardinalityType
<1>3. Cardinality(U \cup N) = u + Cardinality(N)
  <2>1. Cardinality(U \cup N) = u + Cardinality(N) - Cardinality(U \cap N)
    BY <1>1, <1>2, FS_Union
  <2>2. U \cap N = {} /\ Cardinality({}) = 0
    BY <1>2, FS_EmptySet
  <2> HIDE DEF U, N
  <2>3. Cardinality(U \cap N) = 0
    BY <2>2
  <2>4. QED
    BY <2>1, <2>3, <1>1, <1>2
<1>4. \A f \in Q : /\ UpTo(fs, st, f) \subseteq Q
                   /\ IsFiniteSet(UpTo(fs, st, f))
                   /\ Cardinality(UpTo(fs, st, f)) \in Nat
  <2>1. \A f \in Q : UpTo(fs, st, f) \subseteq Q
    BY DEF UpTo
  <2>2. QED
    BY <2>1, <1>1, FS_Subset, FS_CardinalityType
<1>5. \A f \in Q : f \in N <=> Cardinality(UpTo(fs, st, f)) + u <= ParallelUploads
  BY DEF NextUp
<1>6. Len(fs) \in Nat /\ DOMAIN fs = 1..Len(fs)
  OBVIOUS
<1> DEFINE Places(T) == {i \in 1..Len(fs) : fs[i] \in T}
<1>7. \A T \in SUBSET Q : T # {} => Places(T) # {}
  BY <1>1, <1>6 DEF ToSet
<1>8. u + Cardinality(N) <= ParallelUploads
  <2>1. CASE N = {}
    BY <2>1, <1>1, FS_EmptySet
  <2>2. CASE N # {}
    <3>1. PICK m \in Places(N) : \A i \in Places(N) : i <= m
      <4>1. Places(N) \in SUBSET (1..Len(fs)) /\ Places(N) # {}
        BY <1>1, <1>7, <2>2
      <4>2. QED
        BY <4>1, <1>6, FirstPosition
    <3>2. N \subseteq UpTo(fs, st, fs[m])
      <4> SUFFICES ASSUME NEW g \in N PROVE g \in UpTo(fs, st, fs[m])
        OBVIOUS
      <4>1. g \in Q
        BY <1>1
      <4>2. PICK i \in 1..Len(fs) : fs[i] = g
        BY <4>1, <1>1, <1>6 DEF ToSet
      <4>3. i \in Places(N) /\ i <= m
        BY <4>2, <3>1
      <4>4. QED
        BY <4>1, <4>2, <4>3, <1>6 DEF UpTo
    <3>3. fs[m] \in N /\ fs[m] \in Q
      BY <3>1, <1>1
    <3>4. Cardinality(N) <= Cardinality(UpTo(fs, st, fs[m]))
      BY <3>2, <3>3, <1>4, FS_Subset
    <3>5. Cardinality(UpTo(fs, st, fs[m])) + u <= ParallelUploads
      BY <3>3, <1>5
    <3>6. QED
      BY <3>3, <3>4, <3>5, <1>1, <1>2, <1>4, ParallelAssumption
  <2>3. QED
    BY <2>1, <2>2
<1>9. ASSUME ~ (Q \subseteq N)
      PROVE  u + Cardinality(N) >= ParallelUploads
  <2> DEFINE T == Q \ N
  <2>1. PICK m \in Places(T) : \A i \in Places(T) : m <= i
    <3>1. Places(T) \in SUBSET (1..Len(fs)) /\ Places(T) # {}
      BY <1>7, <1>9
    <3>2. QED
      BY <3>1, <1>6, FirstPosition
  <2>2. fs[m] \in Q /\ fs[m] \notin N
    BY <2>1
  <2>3. UpTo(fs, st, fs[m]) \ {fs[m]} \subseteq N
    <3> SUFFICES ASSUME NEW g \in UpTo(fs, st, fs[m]), g # fs[m], g \notin N
                 PROVE  FALSE
      OBVIOUS
    <3>1. g \in Q
      BY DEF UpTo
    <3>2. PICK i \in 1..Len(fs), j \in 1..Len(fs) : i <= j /\ fs[i] = g /\ fs[j] = fs[m]
      BY <1>6 DEF UpTo
    <3>3. j = m
      BY <3>2, <1>6 DEF IsInjective
    <3>4. i \in Places(T)
      BY <3>1, <3>2
    <3>5. m <= i /\ i <= m
      BY <3>2, <3>3, <3>4, <2>1
    <3>6. QED
      BY <3>2, <3>5, <1>6
  <2>4. fs[m] \in UpTo(fs, st, fs[m])
    BY <2>2, <1>6 DEF UpTo
  <2>5. Cardinality(UpTo(fs, st, fs[m])) - 1 <= Cardinality(N)
    <3> DEFINE A == UpTo(fs, st, fs[m])
    <3> HIDE DEF A, N
    <3>1. IsFiniteSet(A) /\ fs[m] \in A /\ A \ {fs[m]} \subseteq N
      BY <2>2, <2>3, <2>4, <1>4 DEF A
    <3>2. Cardinality(A \ {fs[m]}) = Cardinality(A) - 1
      BY <3>1, FS_RemoveElement
    <3>3. Cardinality(A \ {fs[m]}) <= Cardinality(N)
      BY <3>1, <1>2, FS_Subset
    <3>4. QED
      BY <3>2, <3>3 DEF A
  <2>6. ~ (Cardinality(UpTo(fs, st, fs[m])) + u <= ParallelUploads)
    BY <2>2, <1>5
  <2>7. QED
    BY <2>2, <2>5, <2>6, <1>1, <1>2, <1>4, ParallelAssumption
<1>10. Cardinality(U \cup N) <= ParallelUploads
  BY <1>3, <1>8
<1>11. Cardinality(U \cup N) = ParallelUploads \/ Q \subseteq N
  BY <1>1, <1>2, <1>3, <1>8, <1>9, ParallelAssumption
<1>12. QED
  BY <1>10, <1>11

\* What a call of processQueue does to the list fs in the states st.
LEMMA ProcessQueueStep ==
  ASSUME NEW fs \in Seq(Files), IsInjective(fs), NEW st \in [Files -> Statuses],
         Cardinality(Uploading(fs, st)) <= ParallelUploads,
         \A f \in Files : st[f] = "uploading" => f \in ToSet(fs),
         NEW open, open = Uploading(fs, st),
         ProcessQueue(fs, st, open)
  PROVE  /\ status' \in [Files -> Statuses]
         /\ \A f \in Files : /\ status'[f] = "none" <=> st[f] = "none"
                             /\ status'[f] # st[f] => st[f] = "queued"
                             /\ status'[f] = "uploading" => f \in ToSet(fs)
         /\ wire' = Uploading(fs, status')
         /\ Cardinality(Uploading(fs, status')) <= ParallelUploads
         /\ \/ Cardinality(Uploading(fs, status')) = ParallelUploads
            \/ Queued(fs, status') = {}
         /\ Active(fs, status') = Active(fs, st)
         /\ Uploading(fs, status') = Uploading(fs, st) \cup NextUp(fs, st)
         /\ Queued(fs, status') = Queued(fs, st) \ NextUp(fs, st)
<1> DEFINE N == NextUp(fs, st)
<1>1. /\ N \subseteq Queued(fs, st) /\ Queued(fs, st) \subseteq Files
      /\ Queued(fs, st) \subseteq ToSet(fs) /\ \A f \in N : st[f] = "queued"
  BY ListedFinite DEF Queued, WithStatus
<1>2. \A f \in Files : status'[f] = IF f \in N THEN "uploading" ELSE st[f]
  BY DEF ProcessQueue
<1>3. wire' = Uploading(fs, st) \cup N
  BY DEF ProcessQueue
<1>4. status' \in [Files -> Statuses]
  BY DEF ProcessQueue, Statuses
<1>5. /\ Cardinality(Uploading(fs, st) \cup N) <= ParallelUploads
      /\ \/ Cardinality(Uploading(fs, st) \cup N) = ParallelUploads
         \/ Queued(fs, st) \subseteq N
  BY NextUpFillsSlots
<1> HIDE DEF N
<1>6. Uploading(fs, status') = Uploading(fs, st) \cup N
  BY <1>1, <1>2, ListedFinite DEF Uploading, Queued, WithStatus
<1>7. Queued(fs, status') = Queued(fs, st) \ N
  BY <1>1, <1>2, ListedFinite DEF Queued, WithStatus
<1>8. Active(fs, status') = Active(fs, st)
  BY <1>1, <1>6, <1>7 DEF Active
<1>9. \A f \in Files : /\ status'[f] = "none" <=> st[f] = "none"
                       /\ status'[f] # st[f] => st[f] = "queued"
                       /\ status'[f] = "uploading" => f \in ToSet(fs)
  BY <1>1, <1>2
<1>10. QED
  BY <1>3, <1>4, <1>5, <1>6, <1>7, <1>8, <1>9 DEF N

\* `complete' followed by processQueue, for a list gs in which the same files are
\* active as in fs: the parts of the invariant that are about the queue.
LEMMA CompleteStep ==
  ASSUME NEW fs \in Seq(Files), IsInjective(fs), NEW st \in [Files -> Statuses],
         Cardinality(Uploading(fs, st)) <= ParallelUploads,
         \A f \in Files : st[f] = "uploading" => f \in ToSet(fs),
         NEW gs, Active(gs, st) = Active(fs, st),
         timers \in Seq(Callbacks), timers' = EmitComplete(gs, st),
         NEW open, open = Uploading(fs, st),
         ProcessQueue(fs, st, open), files' = fs,
         Closing => Active(fs, st) \subseteq late,
         UNCHANGED <<leaving, late>>
  PROVE  /\ timers' \in Seq(Callbacks)
         /\ NoStall' /\ ParallelLimit' /\ NoOrphans' /\ Settled' /\ OnlyLateLost'
<1>1. /\ wire' = Uploading(fs, status')
      /\ Cardinality(Uploading(fs, status')) <= ParallelUploads
      /\ \/ Cardinality(Uploading(fs, status')) = ParallelUploads
         \/ Queued(fs, status') = {}
      /\ Active(fs, status') = Active(fs, st)
  BY ProcessQueueStep
<1>2. /\ timers' = IF Active(fs, st) = {} THEN Append(timers, "queuecomplete") ELSE timers
      /\ timers' \in Seq(Callbacks)
  BY SMTT(40) DEF EmitComplete, Active, Callbacks
<1>3. /\ ToSet(timers) \subseteq ToSet(timers')
      /\ Active(fs, st) = {} => "queuecomplete" \in ToSet(timers')
      /\ Active(fs, st) # {} => timers' = timers
  BY <1>2, AppendSet DEF Callbacks
<1>4. NoStall' /\ ParallelLimit' /\ NoOrphans'
  BY <1>1 DEF NoStall, ParallelLimit, NoOrphans
<1>5. Settled'
  <2>1. Uploading(fs, status') = {} => Active(fs, st) = {}
    BY <1>1, FS_EmptySet, ParallelAssumption DEF Active
  <2>2. QED
    BY <1>3, <2>1 DEF Settled, Closing
<1>6. OnlyLateLost'
  <2>1. CASE Active(fs, st) = {}
    BY <1>1, <2>1 DEF OnlyLateLost
  <2>2. CASE Active(fs, st) # {}
    BY <1>1, <1>3, <2>2 DEF OnlyLateLost, Closing
  <2>3. QED
    BY <2>1, <2>2
<1>7. QED
  BY <1>2, <1>4, <1>5, <1>6

-----------------------------------------------------------------------------
(* The invariant.                                                          *)

\* The parts of the invariant that every action has to keep for the queue.
QueueInv == NoStall /\ ParallelLimit /\ NoOrphans /\ OneRemoval /\ Settled /\ OnlyLateLost

\* addFile keeps the invariant, when the file is new.
LEMMA AddFileStep ==
  ASSUME IInv, NEW f \in Files, status[f] = "none", AddFile(f)
  PROVE  /\ files' \in Seq(Files) /\ status' \in [Files -> Statuses] /\ wire' \subseteq Files
         /\ timers' \in Seq(Callbacks) /\ shown' \subseteq Files /\ posts' \in [Files -> Nat]
         /\ leaving' \in BOOLEAN /\ late' \subseteq Files
         /\ IsInjective(files')
         /\ \A g \in Files : g # f => (status'[g] = "none" <=> status[g] = "none")
         /\ \A g \in ToSet(files') : status'[g] # "none"
         /\ \A g \in Files : status'[g] = "uploading" => g \in ToSet(files')
         /\ QueueInv'
<1> DEFINE fs == Append(files, f)
<1>1. /\ TypeOK /\ NoStall /\ ParallelLimit /\ NoOrphans /\ OneRemoval /\ Settled /\ OnlyLateLost
      /\ IsInjective(files)
      /\ \A g \in ToSet(files) : status[g] # "none"
      /\ \A g \in Files : status[g] = "uploading" => g \in ToSet(files)
  BY DEF IInv, Arrivals
<1>2. /\ files \in Seq(Files) /\ status \in [Files -> Statuses] /\ wire \subseteq Files
      /\ timers \in Seq(Callbacks) /\ shown \subseteq Files /\ posts \in [Files -> Nat]
      /\ leaving \in BOOLEAN /\ late \subseteq Files
  BY <1>1 DEF TypeOK
<1>3. f \notin ToSet(files)
  BY <1>1
<1>4. fs \in Seq(Files) /\ ToSet(fs) = ToSet(files) \cup {f} /\ IsInjective(fs)
  BY <1>1, <1>2, <1>3, AppendSet, AppendInjectiveList
<1>5. ToSet(files) \subseteq Files
  BY <1>2, ListedFinite
<1>6. files' = fs /\ shown' = shown \cup {f} /\ posts' = posts /\ leaving' = leaving
  BY DEF AddFile
<1> HIDE DEF fs
<1>7. CASE f \in TooBig
  <2> DEFINE st == [status EXCEPT ![f] = "error"]
  <2>1. /\ timers' = EmitComplete(fs, st) /\ ProcessQueue(fs, st, wire \ {f}) /\ late' = late
    BY <1>7 DEF AddFile, EndOf, fs
  <2>2. st \in [Files -> Statuses] /\ st[f] = "error" /\ \A g \in Files : g # f => st[g] = status[g]
    BY <1>2 DEF Statuses
  <2> HIDE DEF st
  <2>3. Uploading(fs, st) = Uploading(files, status) /\ Queued(fs, st) = Queued(files, status)
    BY <1>3, <1>4, <1>5, <2>2 DEF Uploading, Queued, WithStatus
  <2>4. /\ Active(fs, st) = Active(files, status)
        /\ Cardinality(Uploading(fs, st)) <= ParallelUploads
        /\ wire \ {f} = Uploading(fs, st)
    BY <1>1, <1>3, <2>3 DEF Active, ParallelLimit, NoOrphans, Uploading, WithStatus
  <2>5. \A g \in Files : st[g] = "uploading" => g \in ToSet(fs)
    BY <1>1, <1>4, <2>2
  <2>6. /\ status' \in [Files -> Statuses]
        /\ \A g \in Files : /\ status'[g] = "none" <=> st[g] = "none"
                            /\ status'[g] = "uploading" => g \in ToSet(fs)
        /\ wire' = Uploading(fs, status')
    BY <1>4, <2>1, <2>2, <2>4, <2>5, ProcessQueueStep
  <2>7. Closing => Active(fs, st) \subseteq late
    BY <1>1, <2>4 DEF OnlyLateLost
  <2>8. /\ timers' \in Seq(Callbacks)
        /\ NoStall' /\ ParallelLimit' /\ NoOrphans' /\ Settled' /\ OnlyLateLost'
    BY <1>2, <1>4, <1>6, <2>1, <2>2, <2>4, <2>5, <2>7, CompleteStep
  <2>9. OneRemoval'
    BY <1>1, <1>2, <1>3, <1>4, <1>6, <2>2, <2>6 DEF OneRemoval
  <2>10. wire' \subseteq Files
    BY <1>4, <2>6, ListedFinite
  <2>11. /\ \A g \in Files : g # f => (status'[g] = "none" <=> status[g] = "none")
         /\ \A g \in ToSet(fs) : status'[g] # "none"
    BY <1>1, <1>4, <1>5, <2>2, <2>6
  <2>12. QED
    BY <1>2, <1>4, <1>6, <2>1, <2>6, <2>8, <2>9, <2>10, <2>11 DEF QueueInv
<1>8. CASE f \notin TooBig
  <2>1. /\ status' = [status EXCEPT ![f] = "queued"]
        /\ timers' = Append(timers, "processQueue")
        /\ late' = IF Closing THEN late \cup {f} ELSE late
        /\ wire' = wire
    BY <1>8 DEF AddFile
  <2>2. /\ status' \in [Files -> Statuses] /\ status'[f] = "queued"
        /\ \A g \in Files : g # f => status'[g] = status[g]
    BY <1>2, <2>1 DEF Statuses
  <2>3. /\ Uploading(fs, status') = Uploading(files, status)
        /\ Queued(fs, status') = Queued(files, status) \cup {f}
    BY <1>3, <1>4, <1>5, <2>2 DEF Uploading, Queued, WithStatus
  <2>4. timers' \in Seq(Callbacks) /\ ToSet(timers') = ToSet(timers) \cup {"processQueue"}
    <3>1. "processQueue" \in Callbacks
      BY DEF Callbacks
    <3>2. QED
      BY <1>2, <2>1, <3>1, AppendSet
  <2>5. Closing' = Closing
    BY <1>6, <2>4 DEF Closing
  <2>6. NoStall' /\ ParallelLimit' /\ NoOrphans'
    BY <1>1, <1>6, <2>1, <2>3, <2>4 DEF NoStall, ParallelLimit, NoOrphans
  <2>7. Settled'
    BY <1>1, <1>4, <1>5, <1>6, <2>2, <2>3, <2>5 DEF Settled
  <2>8. OnlyLateLost'
    BY <1>1, <1>6, <2>1, <2>3, <2>5 DEF OnlyLateLost, Active
  <2>9. OneRemoval'
    BY <1>1, <1>2, <1>3, <1>4, <1>6, <2>2 DEF OneRemoval
  <2>10. /\ late' \subseteq Files
         /\ \A g \in ToSet(fs) : status'[g] # "none"
         /\ \A g \in Files : status'[g] = "uploading" => g \in ToSet(fs)
    BY <1>1, <1>2, <1>4, <1>5, <2>1, <2>2
  <2>11. QED
    BY <1>2, <1>4, <1>6, <2>1, <2>2, <2>4, <2>6, <2>7, <2>8, <2>9, <2>10 DEF QueueInv
<1>9. QED
  BY <1>7, <1>8

\* The handler of a drop adds the next file of its list.
LEMMA AddNextStep ==
  ASSUME IInv, AddNext
  PROVE  IInv'
<1> DEFINE f == Head(batch)
<1>1. TypeOK /\ Arrivals
  BY DEF IInv
<1>2. /\ Tail(batch) \in Seq(Files) /\ f \in ToSet(batch)
      /\ ToSet(Tail(batch)) \subseteq ToSet(batch)
      /\ IsInjective(Tail(batch)) /\ f \notin ToSet(Tail(batch))
  BY <1>1, TailSet DEF TypeOK, Arrivals, AddNext
<1>3. f \in Files /\ ToSet(batch) \subseteq Files /\ status[f] = "none"
  BY <1>1, <1>2, ListedFinite DEF Arrivals, TypeOK
<1>4. AddFile(f) /\ batch' = Tail(batch) /\ reading' = reading
  BY DEF AddNext
<1> HIDE DEF f
<1>5. /\ files' \in Seq(Files) /\ status' \in [Files -> Statuses] /\ wire' \subseteq Files
      /\ timers' \in Seq(Callbacks) /\ shown' \subseteq Files /\ posts' \in [Files -> Nat]
      /\ leaving' \in BOOLEAN /\ late' \subseteq Files
      /\ IsInjective(files')
      /\ \A g \in Files : g # f => (status'[g] = "none" <=> status[g] = "none")
      /\ \A g \in ToSet(files') : status'[g] # "none"
      /\ \A g \in Files : status'[g] = "uploading" => g \in ToSet(files')
      /\ QueueInv'
  BY <1>3, <1>4, AddFileStep
<1>6. TypeOK'
  BY <1>1, <1>2, <1>4, <1>5 DEF TypeOK
<1>7. Arrivals'
  <2>1. ToSet(batch') \cap reading' = {} /\ f \notin ToSet(batch') \cup reading'
    BY <1>1, <1>2, <1>4 DEF Arrivals
  <2>2. \A g \in ToSet(batch') \cup reading' : status'[g] = "none"
    BY <1>1, <1>2, <1>3, <1>4, <1>5, <2>1 DEF Arrivals, TypeOK
  <2>3. QED
    BY <1>2, <1>4, <1>5, <2>1, <2>2 DEF Arrivals
<1>8. QED
  BY <1>5, <1>6, <1>7 DEF IInv, QueueInv

\* A file of a dropped directory is delivered, skipped or lost.
LEMMA EntryStep ==
  ASSUME IInv, NEW f \in Files, EntryRead(f) \/ EntryFails(f)
  PROVE  IInv'
<1>1. TypeOK /\ Arrivals /\ f \in reading /\ reading' = reading \ {f} /\ batch' = batch
      /\ batch = <<>>
  BY DEF IInv, EntryRead, EntryFails, Idle
<1>2. CASE AddFile(f)
  <2>1. status[f] = "none"
    BY <1>1 DEF Arrivals
  <2>2. /\ files' \in Seq(Files) /\ status' \in [Files -> Statuses] /\ wire' \subseteq Files
        /\ timers' \in Seq(Callbacks) /\ shown' \subseteq Files /\ posts' \in [Files -> Nat]
        /\ leaving' \in BOOLEAN /\ late' \subseteq Files
        /\ IsInjective(files')
        /\ \A g \in Files : g # f => (status'[g] = "none" <=> status[g] = "none")
        /\ \A g \in ToSet(files') : status'[g] # "none"
        /\ \A g \in Files : status'[g] = "uploading" => g \in ToSet(files')
        /\ QueueInv'
    BY <1>2, <2>1, AddFileStep
  <2>3. TypeOK'
    BY <1>1, <2>2 DEF TypeOK
  <2>4. ToSet(batch) = {}
    BY <1>1 DEF ToSet
  <2>5. Arrivals'
    BY <1>1, <2>2, <2>4 DEF Arrivals, TypeOK
  <2>6. QED
    BY <2>2, <2>3, <2>5 DEF IInv, QueueInv
<1>3. CASE UNCHANGED <<files, status, wire, timers, shown, posts, leaving, late>>
  <2>1. TypeOK' /\ Arrivals'
    BY <1>1, <1>3 DEF TypeOK, Arrivals
  <2>2. QED
    BY <1>3, <2>1 DEF IInv, NoStall, ParallelLimit, NoOrphans, OneRemoval, Settled,
                      OnlyLateLost, Closing
<1>4. QED
  BY <1>2, <1>3 DEF EntryRead, EntryFails

\* A due processQueue fills the free slots.
LEMMA StartQueuedStep ==
  ASSUME IInv, StartQueued
  PROVE  IInv'
<1>1. /\ TypeOK /\ Arrivals /\ NoStall /\ ParallelLimit /\ NoOrphans /\ OneRemoval /\ Settled
      /\ OnlyLateLost
  BY DEF IInv
<1>2. /\ files \in Seq(Files) /\ IsInjective(files) /\ status \in [Files -> Statuses]
      /\ \A f \in Files : status[f] = "uploading" => f \in ToSet(files)
      /\ Cardinality(Uploading(files, status)) <= ParallelUploads
      /\ wire = Uploading(files, status) /\ timers \in Seq(Callbacks)
      /\ ToSet(files) \subseteq Files
  BY <1>1, ListedFinite DEF TypeOK, Arrivals, ParallelLimit, NoOrphans
<1>3. /\ ProcessQueue(files, status, wire) /\ timers' = Tail(timers)
      /\ timers # <<>> /\ Head(timers) = "processQueue"
      /\ UNCHANGED <<files, batch, reading, shown, posts, leaving, late>>
  BY DEF StartQueued
<1>4. /\ status' \in [Files -> Statuses]
      /\ \A f \in Files : /\ status'[f] = "none" <=> status[f] = "none"
                          /\ status'[f] # status[f] => status[f] = "queued"
                          /\ status'[f] = "uploading" => f \in ToSet(files)
      /\ wire' = Uploading(files, status')
      /\ Cardinality(Uploading(files, status')) <= ParallelUploads
      /\ \/ Cardinality(Uploading(files, status')) = ParallelUploads
         \/ Queued(files, status') = {}
      /\ Active(files, status') = Active(files, status)
  BY <1>2, <1>3, ProcessQueueStep
<1>5. /\ timers' \in Seq(Callbacks)
      /\ ToSet(timers') \subseteq ToSet(timers)
      /\ ToSet(timers) \ {"processQueue"} \subseteq ToSet(timers')
  BY <1>2, <1>3, TailSet
<1>6. Closing' = Closing
  BY <1>3, <1>5 DEF Closing
<1>7. TypeOK'
  <2>1. wire' \subseteq Files
    BY <1>2, <1>4, ListedFinite
  <2>2. QED
    BY <1>1, <1>3, <1>4, <1>5, <2>1 DEF TypeOK
<1>8. Arrivals'
  <2>1. ToSet(batch) \cup reading \subseteq Files
    BY <1>1, ListedFinite DEF TypeOK
  <2>2. QED
    BY <1>1, <1>2, <1>3, <1>4, <2>1 DEF Arrivals
<1>9. NoStall' /\ ParallelLimit' /\ NoOrphans'
  BY <1>3, <1>4 DEF NoStall, ParallelLimit, NoOrphans
<1>10. OneRemoval'
  BY <1>1, <1>3, <1>4 DEF OneRemoval
<1>11. Settled'
  <2>1. SUFFICES ASSUME NEW f \in ToSet(files), status'[f] \notin {"queued", "uploading"},
                        Uploading(files, status') = {}
                 PROVE  Closing
    BY <1>3, <1>6 DEF Settled
  <2>2. Queued(files, status') = {}
    BY <1>4, <2>1, FS_EmptySet, ParallelAssumption
  <2>3. Active(files, status) = {}
    BY <1>4, <2>1, <2>2 DEF Active
  <2>4. status[f] = status'[f]
    BY <1>2, <1>4, <2>1, <2>3 DEF Active, Queued, WithStatus
  <2>5. QED
    BY <1>1, <2>1, <2>3, <2>4 DEF Settled, Active
<1>12. OnlyLateLost'
  BY <1>1, <1>3, <1>4, <1>6 DEF OnlyLateLost
<1>13. QED
  BY <1>7, <1>8, <1>9, <1>10, <1>11, <1>12 DEF IInv

\* queuecomplete: the reload takes the place of the timer that decided it.
LEMMA QueueCompleteStep ==
  ASSUME IInv, QueueComplete
  PROVE  IInv'
<1>1. /\ TypeOK /\ Arrivals /\ NoStall /\ ParallelLimit /\ NoOrphans /\ OneRemoval /\ Settled
      /\ OnlyLateLost
  BY DEF IInv
<1>2. /\ timers # <<>> /\ Head(timers) = "queuecomplete" /\ timers' = Tail(timers)
      /\ leaving' = TRUE
      /\ UNCHANGED <<files, status, wire, batch, reading, shown, posts, late>>
  BY DEF QueueComplete
<1>3. /\ timers' \in Seq(Callbacks) /\ "queuecomplete" \in ToSet(timers)
      /\ ToSet(timers') \subseteq ToSet(timers)
      /\ ToSet(timers) \ {"queuecomplete"} \subseteq ToSet(timers')
  BY <1>1, <1>2, TailSet DEF TypeOK
<1>4. Closing /\ Closing'
  BY <1>2, <1>3 DEF Closing
<1>5. TypeOK' /\ Arrivals'
  BY <1>1, <1>2, <1>3 DEF TypeOK, Arrivals
<1>6. NoStall' /\ ParallelLimit' /\ NoOrphans' /\ OneRemoval' /\ Settled' /\ OnlyLateLost'
  BY <1>1, <1>2, <1>3, <1>4 DEF NoStall, ParallelLimit, NoOrphans, OneRemoval, Settled,
                                OnlyLateLost
<1>7. QED
  BY <1>5, <1>6 DEF IInv

\* The end of a request.
LEMMA UploadEndsStep ==
  ASSUME IInv, NEW f \in Files, UploadEnds(f)
  PROVE  IInv'
<1>1. /\ TypeOK /\ Arrivals /\ NoStall /\ ParallelLimit /\ NoOrphans /\ OneRemoval /\ Settled
      /\ OnlyLateLost
  BY DEF IInv
<1>2. /\ files \in Seq(Files) /\ IsInjective(files) /\ status \in [Files -> Statuses]
      /\ \A g \in Files : status[g] = "uploading" => g \in ToSet(files)
      /\ wire = Uploading(files, status) /\ timers \in Seq(Callbacks)
      /\ ToSet(files) \subseteq Files
  BY <1>1, ListedFinite DEF TypeOK, Arrivals, NoOrphans
<1>3. PICK outcome \in {"success", "error"} : EndOf(files, f, outcome)
  BY DEF UploadEnds
<1>4. /\ f \in wire
      /\ UNCHANGED <<files, batch, reading, shown, posts, leaving, late>>
  BY DEF UploadEnds
<1> DEFINE st == [status EXCEPT ![f] = outcome]
<1>5. timers' = EmitComplete(files, st) /\ ProcessQueue(files, st, wire \ {f})
  BY <1>3 DEF EndOf
<1>6. /\ st \in [Files -> Statuses] /\ st[f] \notin {"none", "queued", "uploading"}
      /\ \A g \in Files : g # f => st[g] = status[g]
      /\ status[f] = "uploading"
  BY <1>2, <1>4 DEF Statuses, Uploading, WithStatus
<1> HIDE DEF st
<1>7. /\ Uploading(files, st) = wire \ {f} /\ Queued(files, st) = Queued(files, status)
  BY <1>2, <1>6 DEF Uploading, Queued, WithStatus
<1>8. /\ Cardinality(Uploading(files, st)) <= ParallelUploads
      /\ Active(files, st) \subseteq Active(files, status)
  <2>1. Cardinality(wire \ {f}) <= Cardinality(wire) /\ Cardinality(wire \ {f}) \in Nat
        /\ Cardinality(wire) \in Nat
    <3>1. IsFiniteSet(wire)
      BY <1>2, ListedFinite
    <3>2. IsFiniteSet(wire \ {f}) /\ Cardinality(wire) \in Nat
          /\ Cardinality(wire \ {f}) \in Nat
      BY <3>1, FS_RemoveElement, FS_CardinalityType
    <3>3. QED
      BY <3>1, <3>2, FS_RemoveElement
  <2>2. QED
    BY <1>1, <1>2, <1>7, <2>1, ParallelAssumption DEF ParallelLimit, Active
<1>9. \A g \in Files : st[g] = "uploading" => g \in ToSet(files)
  BY <1>2, <1>6
<1>10. /\ status' \in [Files -> Statuses]
       /\ \A g \in Files : /\ status'[g] = "none" <=> st[g] = "none"
                           /\ status'[g] = "uploading" => g \in ToSet(files)
       /\ wire' = Uploading(files, status')
  BY <1>2, <1>5, <1>6, <1>7, <1>8, <1>9, ProcessQueueStep
<1>11. Closing => Active(files, st) \subseteq late
  BY <1>1, <1>8 DEF OnlyLateLost
<1>12. /\ timers' \in Seq(Callbacks)
       /\ NoStall' /\ ParallelLimit' /\ NoOrphans' /\ Settled' /\ OnlyLateLost'
  BY <1>2, <1>4, <1>5, <1>6, <1>7, <1>8, <1>9, <1>11, CompleteStep
<1>13. TypeOK'
  <2>1. wire' \subseteq Files
    BY <1>2, <1>10, ListedFinite
  <2>2. QED
    BY <1>1, <1>4, <1>10, <1>12, <2>1 DEF TypeOK
<1>14. \A g \in Files : status'[g] = "none" <=> status[g] = "none"
  BY <1>6, <1>10
<1>15. Arrivals'
  <2>1. ToSet(batch) \cup reading \subseteq Files
    BY <1>1, ListedFinite DEF TypeOK
  <2>2. QED
    BY <1>1, <1>2, <1>4, <1>10, <1>14, <2>1 DEF Arrivals
<1>16. OneRemoval'
  BY <1>1, <1>4, <1>14 DEF OneRemoval
<1>17. QED
  BY <1>12, <1>13, <1>15, <1>16 DEF IInv

\* The remove link of a file without request.
LEMMA RemoveFileStep ==
  ASSUME IInv, NEW f \in Files, RemoveFile(f)
  PROVE  IInv'
<1>1. /\ TypeOK /\ Arrivals /\ NoStall /\ ParallelLimit /\ NoOrphans /\ OneRemoval /\ Settled
      /\ OnlyLateLost
  BY DEF IInv
<1>2. /\ f \in shown /\ status[f] # "uploading" /\ files' = Without(files, f)
      /\ shown' = shown \ {f} /\ posts' = [posts EXCEPT ![f] = @ + 1]
      /\ UNCHANGED <<status, wire, timers, batch, reading, leaving, late>>
  BY DEF RemoveFile, TakeOut, EmitRemovedFile
<1>3. /\ files' \in Seq(Files) /\ ToSet(files') = ToSet(files) \ {f} /\ IsInjective(files')
  BY <1>1, <1>2, WithoutSet DEF TypeOK, Arrivals
<1>4. /\ Uploading(files', status) = Uploading(files, status)
      /\ Queued(files', status) = Queued(files, status) \ {f}
  BY <1>2, <1>3 DEF Uploading, Queued, WithStatus
<1>5. Closing' = Closing
  BY <1>2 DEF Closing
<1>6. TypeOK'
  BY <1>1, <1>2, <1>3 DEF TypeOK
<1>7. Arrivals'
  BY <1>1, <1>2, <1>3 DEF Arrivals
<1>8. NoStall' /\ ParallelLimit' /\ NoOrphans'
  BY <1>1, <1>2, <1>4 DEF NoStall, ParallelLimit, NoOrphans
<1>9. OneRemoval'
  <2>1. status[f] # "none" /\ posts[f] = 0
    BY <1>1, <1>2 DEF OneRemoval, Arrivals
  <2>2. QED
    BY <1>1, <1>2, <1>3, <2>1 DEF OneRemoval, TypeOK
<1>10. Settled'
  BY <1>1, <1>2, <1>3, <1>4, <1>5 DEF Settled
<1>11. OnlyLateLost'
  BY <1>1, <1>2, <1>4, <1>5 DEF OnlyLateLost, Active
<1>12. QED
  BY <1>6, <1>7, <1>8, <1>9, <1>10, <1>11 DEF IInv

\* The cancel link: the file leaves the list, its request is gone, the next one starts.
LEMMA CancelStep ==
  ASSUME IInv, NEW f \in Files, Cancel(f)
  PROVE  IInv'
<1>1. /\ TypeOK /\ Arrivals /\ NoStall /\ ParallelLimit /\ NoOrphans /\ OneRemoval /\ Settled
      /\ OnlyLateLost
  BY DEF IInv
<1> DEFINE st == [status EXCEPT ![f] = "canceled"]
           fs == Without(files, f)
<1>2. /\ f \in shown /\ status[f] = "uploading"
      /\ timers' = EmitComplete(files, st) /\ files' = fs
      /\ ProcessQueue(fs, st, wire \ {f})
      /\ UNCHANGED <<batch, reading, leaving, late>>
  BY DEF Cancel
<1>3. shown' = shown \ {f} /\ posts' = [posts EXCEPT ![f] = @ + 1]
  BY DEF Cancel, EmitRemovedFile
<1>4. /\ fs \in Seq(Files) /\ ToSet(fs) = ToSet(files) \ {f} /\ IsInjective(fs)
  BY <1>1, WithoutSet DEF TypeOK, Arrivals
<1>5. /\ files \in Seq(Files) /\ status \in [Files -> Statuses]
      /\ \A g \in Files : status[g] = "uploading" => g \in ToSet(files)
      /\ wire = Uploading(files, status) /\ timers \in Seq(Callbacks)
      /\ ToSet(files) \subseteq Files
  BY <1>1, ListedFinite DEF TypeOK, Arrivals, NoOrphans
<1>6. /\ st \in [Files -> Statuses] /\ st[f] = "canceled"
      /\ \A g \in Files : g # f => st[g] = status[g]
  BY <1>5 DEF Statuses
<1> HIDE DEF st, fs
<1>7. /\ Uploading(fs, st) = wire \ {f} /\ Queued(fs, st) = Queued(files, status)
      /\ Uploading(files, st) = wire \ {f} /\ Queued(files, st) = Queued(files, status)
  BY <1>2, <1>4, <1>5, <1>6 DEF Uploading, Queued, WithStatus
<1>8. /\ Cardinality(Uploading(fs, st)) <= ParallelUploads
      /\ Active(fs, st) = Active(files, st)
      /\ Active(fs, st) \subseteq Active(files, status)
  <2>1. Cardinality(wire \ {f}) <= Cardinality(wire) /\ Cardinality(wire \ {f}) \in Nat
        /\ Cardinality(wire) \in Nat
    <3>1. IsFiniteSet(wire)
      BY <1>5, ListedFinite
    <3>2. IsFiniteSet(wire \ {f}) /\ Cardinality(wire) \in Nat
          /\ Cardinality(wire \ {f}) \in Nat
      BY <3>1, FS_RemoveElement, FS_CardinalityType
    <3>3. QED
      BY <3>1, <3>2, FS_RemoveElement
  <2>2. QED
    BY <1>1, <1>5, <1>7, <2>1, ParallelAssumption DEF ParallelLimit, Active
<1>9. \A g \in Files : st[g] = "uploading" => g \in ToSet(fs)
  BY <1>4, <1>5, <1>6
<1>10. /\ status' \in [Files -> Statuses]
       /\ \A g \in Files : /\ status'[g] = "none" <=> st[g] = "none"
                           /\ status'[g] = "uploading" => g \in ToSet(fs)
       /\ wire' = Uploading(fs, status')
  BY <1>2, <1>4, <1>6, <1>7, <1>8, <1>9, ProcessQueueStep
<1>11. Closing => Active(fs, st) \subseteq late
  BY <1>1, <1>8 DEF OnlyLateLost
<1>12. /\ timers' \in Seq(Callbacks)
       /\ NoStall' /\ ParallelLimit' /\ NoOrphans' /\ Settled' /\ OnlyLateLost'
  BY <1>2, <1>4, <1>5, <1>6, <1>7, <1>8, <1>9, <1>11, CompleteStep
<1>13. TypeOK'
  <2>1. wire' \subseteq Files
    BY <1>4, <1>10, ListedFinite
  <2>2. QED
    <3>1. posts' \in [Files -> Nat] /\ shown' \subseteq Files
      BY <1>1, <1>3 DEF TypeOK
    <3>2. QED
      BY <1>1, <1>2, <1>4, <1>10, <1>12, <2>1, <3>1 DEF TypeOK
<1>14. \A g \in Files : status'[g] = "none" <=> status[g] = "none"
  BY <1>2, <1>6, <1>10
<1>15. Arrivals'
  <2>1. ToSet(batch) \cup reading \subseteq Files
    BY <1>1, ListedFinite DEF TypeOK
  <2>2. \A g \in ToSet(fs) : status'[g] # "none"
    BY <1>1, <1>4, <1>5, <1>14 DEF Arrivals
  <2>3. QED
    BY <1>1, <1>2, <1>4, <1>10, <1>14, <2>1, <2>2 DEF Arrivals
<1>16. OneRemoval'
  <2>1. posts[f] = 0
    BY <1>1, <1>2 DEF OneRemoval
  <2>2. QED
    BY <1>1, <1>2, <1>3, <1>4, <1>14, <2>1 DEF OneRemoval, TypeOK
<1>17. QED
  BY <1>12, <1>13, <1>15, <1>16 DEF IInv

\* The user chooses files or a directory.
LEMMA ChooseStep ==
  ASSUME IInv, Choose \/ ChooseDirectory
  PROVE  IInv'
<1>1. /\ TypeOK /\ Arrivals /\ batch = <<>>
      /\ UNCHANGED <<files, status, wire, timers, shown, posts, leaving, late>>
  BY DEF IInv, Choose, ChooseDirectory, Idle
<1>2. \A f \in Fresh : f \in Files /\ status[f] = "none" /\ f \notin reading
  BY DEF Fresh
<1>3. TypeOK' /\ Arrivals'
  <2>1. CASE Choose
    <3>1. PICK S \in SUBSET Fresh : batch' \in SetToSeqs(S)
      BY <2>1 DEF Choose
    <3>2. Cardinality(S) \in Nat
      BY <1>2, FilesAssumption, FS_Subset, FS_CardinalityType
    <3>3. /\ batch' \in [1..Cardinality(S) -> S]
          /\ \A i, j \in 1..Cardinality(S) : i # j => batch'[i] # batch'[j]
      BY <3>1 DEF SetToSeqs
    <3>4. ToSet(batch') \subseteq S /\ IsInjective(batch')
      BY <3>3 DEF ToSet, IsInjective
    <3>5. batch' \in Seq(Files)
      BY <1>2, <3>2, <3>3
    <3>6. reading' = reading
      BY <2>1 DEF Choose
    <3>7. QED
      BY <1>1, <1>2, <3>4, <3>5, <3>6 DEF TypeOK, Arrivals
  <2>2. CASE ChooseDirectory
    <3>1. PICK S \in SUBSET Fresh : reading' = reading \cup S
      BY <2>2 DEF ChooseDirectory
    <3>2. batch' = batch /\ ToSet(batch) = {}
      BY <1>1, <2>2 DEF ChooseDirectory, ToSet
    <3>3. QED
      BY <1>1, <1>2, <3>1, <3>2 DEF TypeOK, Arrivals
  <2>3. QED
    BY <2>1, <2>2
<1>4. QED
  BY <1>1, <1>3 DEF IInv, NoStall, ParallelLimit, NoOrphans, OneRemoval, Settled,
                    OnlyLateLost, Closing

\* An empty document satisfies the invariant.
LEMMA EmptyDocument == Init => IInv
<1> SUFFICES ASSUME Init PROVE IInv
  OBVIOUS
<1> USE DEF Init
<1>1. ToSet(files) = {} /\ ToSet(batch) = {} /\ ToSet(timers) = {}
  BY DEF ToSet
<1>2. Queued(files, status) = {} /\ Uploading(files, status) = {}
  BY <1>1 DEF Queued, Uploading, WithStatus
<1>3. IsInjective(files) /\ IsInjective(batch)
  BY DEF IsInjective
<1>4. TypeOK
  <2>1. files \in Seq(Files) /\ timers \in Seq(Callbacks) /\ batch \in Seq(Files)
    BY EmptySeq
  <2>2. status \in [Files -> Statuses] /\ posts \in [Files -> Nat]
    BY DEF Statuses
  <2>3. QED
    BY <2>1, <2>2 DEF TypeOK
<1>5. Arrivals
  BY <1>1, <1>3 DEF Arrivals
<1>6. NoStall /\ ParallelLimit /\ NoOrphans
  BY <1>2, FS_EmptySet, ParallelAssumption DEF NoStall, ParallelLimit, NoOrphans
<1>7. OneRemoval /\ Settled /\ OnlyLateLost
  BY <1>1, <1>2 DEF OneRemoval, Settled, OnlyLateLost, Closing
<1>8. QED
  BY <1>4, <1>5, <1>6, <1>7 DEF IInv

\* The inductive invariant: what is listed, queued, being uploaded, on the wire,
\* shown and reported always fit together.
THEOREM Invariance == Spec => []IInv
<1>1. Init => IInv
  BY EmptyDocument
<1>2. IInv /\ [Next]_vars => IInv'
  <2> SUFFICES ASSUME IInv, [Next]_vars PROVE IInv'
    OBVIOUS
  <2>1. CASE Choose \/ ChooseDirectory
    BY <2>1, ChooseStep
  <2>2. CASE \E f \in Files : RemoveFile(f)
    BY <2>2, RemoveFileStep
  <2>3. CASE \E f \in Files : Cancel(f)
    BY <2>3, CancelStep
  <2>4. CASE AddNext
    BY <2>4, AddNextStep
  <2>5. CASE StartQueued
    BY <2>5, StartQueuedStep
  <2>6. CASE QueueComplete
    BY <2>6, QueueCompleteStep
  <2>7. CASE Commit
    <3>1. Init'
      BY <2>7 DEF Commit, Idle, Init
    <3>2. QED
      BY <3>1, EmptyDocument, PTL
  <2>8. CASE \E f \in Files : EntryRead(f) \/ EntryFails(f)
    BY <2>8, EntryStep
  <2>9. CASE \E f \in Files : UploadEnds(f)
    BY <2>9, UploadEndsStep
  <2>10. CASE UNCHANGED vars
    BY <2>10 DEF vars, IInv, TypeOK, Arrivals, NoStall, ParallelLimit, NoOrphans, OneRemoval,
                 Settled, OnlyLateLost, Closing
  <2>11. QED
    BY <2>1, <2>2, <2>3, <2>4, <2>5, <2>6, <2>7, <2>8, <2>9, <2>10 DEF Next, UserStep, BrowserStep
<1>3. QED
  BY <1>1, <1>2, PTL DEF Spec

\* Type correctness of the upload queue.
THEOREM TypeCorrect == Spec => []TypeOK
<1>1. IInv => TypeOK
  BY DEF IInv
<1>2. QED
  BY <1>1, Invariance, PTL

\* A queued file waits only while all slots are taken or processQueue is due.
THEOREM NothingStalls == Spec => []NoStall
<1>1. IInv => NoStall
  BY DEF IInv
<1>2. QED
  BY <1>1, Invariance, PTL

\* There are never more than parallelUploads requests.
THEOREM NeverTooMany == Spec => []ParallelLimit
<1>1. IInv => ParallelLimit
  BY DEF IInv
<1>2. QED
  BY <1>1, Invariance, PTL

\* The open requests are exactly those of the files being uploaded.
THEOREM RequestsBelongToFiles == Spec => []NoOrphans
<1>1. IInv => NoOrphans
  BY DEF IInv
<1>2. QED
  BY <1>1, Invariance, PTL

\* A file taken out of the list is reported to remove/ exactly once.
THEOREM RemovedOnce == Spec => []OneRemoval
<1>1. IInv => OneRemoval
  BY DEF IInv
<1>2. QED
  BY <1>1, Invariance, PTL

\* When everything listed is finished, the reload is decided.
THEOREM EndIsNoticed == Spec => []Completion
<1>1. IInv => Completion
  <2> SUFFICES ASSUME IInv, files # <<>>, Active(files, status) = {} PROVE Closing
    BY DEF Completion
  <2>1. files[1] \in ToSet(files)
    BY DEF IInv, TypeOK, ToSet
  <2>2. Uploading(files, status) = {} /\ status[files[1]] \notin {"queued", "uploading"}
    BY <2>1 DEF Active, Queued, Uploading, WithStatus
  <2>3. QED
    BY <2>1, <2>2 DEF IInv, Settled
<1>2. QED
  BY <1>1, Invariance, PTL

\* A reload interrupts only files that were added after it was decided.
THEOREM ReloadLosesOnlyLate == Spec => []OnlyLateLost
<1>1. IInv => OnlyLateLost
  BY DEF IInv
<1>2. QED
  BY <1>1, Invariance, PTL

-----------------------------------------------------------------------------
(* The queue implements UploadPool.                                        *)

\* An earlier file of the queue has fewer before it, so that what processQueue
\* starts is a beginning of the queue.
LEMMA NextUpIsFirst ==
  ASSUME NEW fs \in Seq(Files), IsInjective(fs), NEW st,
         NEW f \in NextUp(fs, st), NEW g \in Queued(fs, st), Precedes(fs, g, f)
  PROVE  g \in NextUp(fs, st)
<1>1. PICK k \in DOMAIN fs, l \in DOMAIN fs : k < l /\ fs[k] = g /\ fs[l] = f
  BY DEF Precedes
<1>2. DOMAIN fs \subseteq Nat
  OBVIOUS
<1>3. UpTo(fs, st, g) \subseteq UpTo(fs, st, f)
  <2> SUFFICES ASSUME NEW h \in UpTo(fs, st, g) PROVE h \in UpTo(fs, st, f)
    OBVIOUS
  <2>1. PICK i \in DOMAIN fs, j \in DOMAIN fs : i <= j /\ fs[i] = h /\ fs[j] = g
    BY DEF UpTo
  <2>2. j = k
    BY <1>1, <2>1 DEF IsInjective
  <2>3. i <= l
    BY <1>1, <1>2, <2>1, <2>2
  <2>4. QED
    BY <1>1, <2>1, <2>3 DEF UpTo
<1>4. IsFiniteSet(Queued(fs, st)) /\ Cardinality(Uploading(fs, st)) \in Nat
  BY ListedFinite
<1>5. UpTo(fs, st, f) \subseteq Queued(fs, st) /\ UpTo(fs, st, g) \subseteq Queued(fs, st)
  BY DEF UpTo
<1>6. IsFiniteSet(UpTo(fs, st, f)) /\ IsFiniteSet(UpTo(fs, st, g))
  BY <1>4, <1>5, FS_Subset
<1>7. /\ Cardinality(UpTo(fs, st, f)) \in Nat /\ Cardinality(UpTo(fs, st, g)) \in Nat
      /\ Cardinality(UpTo(fs, st, g)) <= Cardinality(UpTo(fs, st, f))
  BY <1>3, <1>6, FS_Subset, FS_CardinalityType
<1>8. Cardinality(UpTo(fs, st, f)) + Cardinality(Uploading(fs, st)) <= ParallelUploads
  BY DEF NextUp
<1>9. Cardinality(UpTo(fs, st, g)) + Cardinality(Uploading(fs, st)) <= ParallelUploads
  BY <1>4, <1>7, <1>8, ParallelAssumption
<1>10. QED
  BY <1>9 DEF NextUp

\* UploadPool counts as this module does.
LEMMA PoolCardinality == \A S : Pool!Cardinality(S) = Cardinality(S)
BY DEF Pool!Cardinality, Cardinality

\* When an upload ends no more slots are taken than before.
LEMMA FewerUploads ==
  ASSUME files \in Seq(Files), NEW f \in Uploading(files, status),
         Cardinality(Uploading(files, status)) <= ParallelUploads
  PROVE  Cardinality(Uploading(files, status) \ {f}) <= ParallelUploads
<1> DEFINE U == Uploading(files, status)
<1>1. IsFiniteSet(U)
  BY ListedFinite
<1> HIDE DEF U
<1>2. IsFiniteSet(U \ {f}) /\ Cardinality(U \ {f}) \in Nat /\ Cardinality(U) \in Nat
      /\ Cardinality(U \ {f}) <= Cardinality(U)
  <2>1. U \ {f} \subseteq U
    OBVIOUS
  <2>2. QED
    BY <1>1, <2>1, FS_Subset, FS_CardinalityType
<1>3. QED
  BY <1>2, ParallelAssumption DEF U

\* A task that ends with processQueue, and before that took nothing from the
\* queue and ended the uploads `ended', is a step of the pool.
LEMMA ServeStep ==
  ASSUME NEW fs \in Seq(Files), IsInjective(fs), NEW st \in [Files -> Statuses],
         \A f \in Files : st[f] = "uploading" => f \in ToSet(fs),
         NEW ended \in SUBSET Uploading(files, status), Cardinality(ended) <= 1,
         Queued(fs, st) = Queued(files, status),
         \A f, g \in Queued(fs, st) : Precedes(fs, f, g) <=> Precedes(files, f, g),
         Uploading(fs, st) = Uploading(files, status) \ ended,
         Cardinality(Uploading(fs, st)) <= ParallelUploads,
         NEW open, open = Uploading(fs, st),
         ProcessQueue(fs, st, open), files' = fs
  PROVE  Pool!Next
<1> DEFINE first == NextUp(fs, st)
           Q == Queued(files, status)
<1>1. /\ Uploading(fs, status') = Uploading(fs, st) \cup first
      /\ Queued(fs, status') = Queued(fs, st) \ first
      /\ Cardinality(Uploading(fs, status')) <= ParallelUploads
      /\ \/ Cardinality(Uploading(fs, status')) = ParallelUploads
         \/ Queued(fs, status') = {}
  BY ProcessQueueStep
<1>2. first \subseteq Q
  BY ListedFinite
<1>3. ASSUME NEW f \in first, NEW g \in Q, <<g, f>> \in QueueOrder(files, status)
      PROVE  g \in first
  <2>1. Precedes(files, g, f)
    BY <1>3 DEF QueueOrder
  <2>2. Precedes(fs, g, f) /\ g \in Queued(fs, st)
    BY <1>2, <2>1
  <2>3. QED
    BY <2>2, NextUpIsFirst
<1>4. Queued(files', status') = Q \ first
  BY <1>1
<1>5. QueueOrder(files', status')
        = QueueOrder(files, status) \cap ((Q \ first) \X (Q \ first))
  <2> HIDE DEF first
  <2>1. \A f, g \in Q \ first : Precedes(fs, f, g) <=> Precedes(files, f, g)
    OBVIOUS
  <2> HIDE DEF Q
  <2>2. QueueOrder(files', status')
          = {p \in (Q \ first) \X (Q \ first) : Precedes(fs, p[1], p[2])}
    BY <1>4 DEF QueueOrder
  <2>3. QueueOrder(files, status) = {p \in Q \X Q : Precedes(files, p[1], p[2])}
    BY DEF QueueOrder, Q
  <2>4. QED
    BY <2>1, <2>2, <2>3
<1>6. Uploading(files', status') = (Uploading(files, status) \ ended) \cup first
  BY <1>1
<1>7. Pool!Serve(ended)
  <2> HIDE DEF first, Q
  <2>1. first \in SUBSET Q
    BY <1>2
  <2>2. Q = Queued(files, status)
    BY DEF Q
  <2>3. /\ Cardinality(Uploading(files', status')) <= ParallelUploads
        /\ \/ Cardinality(Uploading(files', status')) = ParallelUploads
           \/ Queued(files', status') = {}
    BY <1>1
  <2>4. QED
    BY <1>3, <1>4, <1>5, <1>6, <2>1, <2>2, <2>3, PoolCardinality DEF Pool!Serve, Pool!Keep
<1>8. QED
  BY <1>7, PoolCardinality DEF Pool!Next

\* addFile queues the file, or rejects it and fills the free slots.
LEMMA AddFilePools ==
  ASSUME IInv, NEW f \in Files, status[f] = "none", AddFile(f)
  PROVE  Pool!Next
<1>1. /\ files \in Seq(Files) /\ IsInjective(files) /\ status \in [Files -> Statuses]
      /\ \A g \in ToSet(files) : status[g] # "none"
      /\ \A g \in Files : status[g] = "uploading" => g \in ToSet(files)
      /\ wire = Uploading(files, status) /\ Cardinality(wire) <= ParallelUploads
  BY DEF IInv, TypeOK, Arrivals, NoOrphans, ParallelLimit
<1>2. f \notin ToSet(files)
  BY <1>1
<1> DEFINE fs == Append(files, f)
<1>3. /\ files' = fs /\ fs \in Seq(Files) /\ IsInjective(fs)
      /\ ToSet(fs) = ToSet(files) \cup {f}
  BY <1>1, <1>2, AppendSet, AppendInjectiveList DEF AddFile
<1>4. \A g, h : Precedes(fs, g, h) <=> Precedes(files, g, h) \/ (g \in ToSet(files) /\ h = f)
  BY <1>1, <1>2, AppendOrder
<1> HIDE DEF fs
<1>5. CASE f \in TooBig
  <2> DEFINE st == [status EXCEPT ![f] = "error"]
  <2>1. ProcessQueue(fs, st, wire \ {f})
    BY <1>3, <1>5 DEF AddFile, EndOf
  <2>2. /\ st \in [Files -> Statuses] /\ st[f] = "error"
        /\ \A g \in Files : g # f => st[g] = status[g]
    BY <1>1 DEF Statuses
  <2> HIDE DEF st
  <2>3. /\ Queued(fs, st) = Queued(files, status)
        /\ Uploading(fs, st) = Uploading(files, status)
    BY <1>1, <1>2, <1>3, <2>2, ListedFinite DEF Queued, Uploading, WithStatus
  <2>4. f \notin wire /\ f \notin Queued(files, status)
    BY <1>1, <1>2 DEF Uploading, Queued, WithStatus
  <2>5. \A g, h \in Queued(fs, st) : Precedes(fs, g, h) <=> Precedes(files, g, h)
    BY <1>4, <2>3, <2>4
  <2>6. \A g \in Files : st[g] = "uploading" => g \in ToSet(fs)
    BY <1>1, <1>3, <2>2
  <2>7. {} \in SUBSET Uploading(files, status) /\ Cardinality({}) <= 1
    BY FS_EmptySet
  <2>8. Uploading(fs, st) = Uploading(files, status) \ {} /\ wire \ {f} = Uploading(fs, st)
        /\ Cardinality(Uploading(fs, st)) <= ParallelUploads
    BY <1>1, <2>3, <2>4
  <2>9. QED
    BY <1>3, <2>1, <2>2, <2>3, <2>5, <2>6, <2>7, <2>8, ServeStep
<1>6. CASE f \notin TooBig
  <2>1. status' = [status EXCEPT ![f] = "queued"]
    BY <1>6 DEF AddFile
  <2>2. /\ status'[f] = "queued"
        /\ \A g \in Files : g # f => status'[g] = status[g]
    BY <1>1, <2>1
  <2>3. /\ Queued(fs, status') = Queued(files, status) \cup {f}
        /\ Uploading(fs, status') = Uploading(files, status)
        /\ f \notin Queued(files, status) \cup Uploading(files, status)
    BY <1>1, <1>2, <1>3, <2>2, ListedFinite DEF Queued, Uploading, WithStatus
  <2>4. QueueOrder(fs, status')
          = QueueOrder(files, status) \cup (Queued(files, status) \X {f})
    <3> DEFINE Q == Queued(files, status)
    <3>1. Q \subseteq ToSet(files) /\ f \notin Q
      BY <2>3 DEF Queued, WithStatus
    <3>2. \A h : ~ Precedes(files, f, h) /\ ~ Precedes(files, h, f)
      BY <1>2 DEF Precedes, ToSet
    <3>3. QueueOrder(fs, status')
            = {p \in (Q \cup {f}) \X (Q \cup {f}) : Precedes(fs, p[1], p[2])}
      BY <2>3 DEF QueueOrder
    <3>4. QueueOrder(files, status) = {p \in Q \X Q : Precedes(files, p[1], p[2])}
      BY DEF QueueOrder
    <3> HIDE DEF Q
    <3>5. \A g \in Q \cup {f}, h \in Q \cup {f} :
              Precedes(fs, g, h) <=>
                 (g \in Q /\ h \in Q /\ Precedes(files, g, h)) \/ (g \in Q /\ h = f)
      BY <1>2, <1>4, <3>1, <3>2
    <3>6. QED
      BY <3>3, <3>4, <3>5 DEF Q
  <2>5. Pool!Admit(f)
    BY <1>3, <2>3, <2>4 DEF Pool!Admit
  <2>6. QED
    BY <2>5 DEF Pool!Next
<1>7. QED
  BY <1>5, <1>6

\* A finished upload ends and the free slots are filled.
LEMMA UploadEndsPools ==
  ASSUME IInv, NEW f \in Files, UploadEnds(f)
  PROVE  Pool!Next
<1>1. /\ files \in Seq(Files) /\ IsInjective(files) /\ status \in [Files -> Statuses]
      /\ \A g \in Files : status[g] = "uploading" => g \in ToSet(files)
      /\ wire = Uploading(files, status) /\ Cardinality(wire) <= ParallelUploads
  BY DEF IInv, TypeOK, Arrivals, NoOrphans, ParallelLimit
<1>2. PICK outcome \in {"success", "error"} : EndOf(files, f, outcome)
  BY DEF UploadEnds
<1> DEFINE st == [status EXCEPT ![f] = outcome]
<1>3. ProcessQueue(files, st, wire \ {f}) /\ f \in wire /\ files' = files
  BY <1>2 DEF EndOf, UploadEnds
<1>4. /\ st \in [Files -> Statuses] /\ st[f] \notin {"queued", "uploading"}
      /\ \A g \in Files : g # f => st[g] = status[g]
      /\ status[f] = "uploading"
  BY <1>1, <1>3 DEF Statuses, Uploading, WithStatus
<1> HIDE DEF st
<1>5. Uploading(files, st) = wire \ {f} /\ Queued(files, st) = Queued(files, status)
  BY <1>1, <1>4, ListedFinite DEF Uploading, Queued, WithStatus
<1>6. Cardinality(wire \ {f}) <= ParallelUploads
  BY <1>1, <1>3, FewerUploads
<1>7. {f} \in SUBSET Uploading(files, status) /\ Cardinality({f}) <= 1
  <2>1. Cardinality({f}) = 1
    BY FS_Singleton
  <2>2. {f} \subseteq Uploading(files, status)
    BY <1>1, <1>3
  <2>3. QED
    BY <2>1, <2>2
<1>8. \A g \in Files : st[g] = "uploading" => g \in ToSet(files)
  BY <1>1, <1>4
<1>9. QED
  BY <1>1, <1>3, <1>4, <1>5, <1>6, <1>7, <1>8, ServeStep

\* A cancelled upload ends, and its file leaves a list in which it did not wait.
LEMMA CancelPools ==
  ASSUME IInv, NEW f \in Files, Cancel(f)
  PROVE  Pool!Next
<1>1. /\ files \in Seq(Files) /\ IsInjective(files) /\ status \in [Files -> Statuses]
      /\ \A g \in Files : status[g] = "uploading" => g \in ToSet(files)
      /\ wire = Uploading(files, status) /\ Cardinality(wire) <= ParallelUploads
  BY DEF IInv, TypeOK, Arrivals, NoOrphans, ParallelLimit
<1> DEFINE st == [status EXCEPT ![f] = "canceled"]
           fs == Without(files, f)
<1>2. ProcessQueue(fs, st, wire \ {f}) /\ status[f] = "uploading" /\ files' = fs
  BY DEF Cancel
<1>3. /\ fs \in Seq(Files) /\ ToSet(fs) = ToSet(files) \ {f} /\ IsInjective(fs)
      /\ \A g, h : g # f /\ h # f => (Precedes(fs, g, h) <=> Precedes(files, g, h))
  BY <1>1, WithoutSet
<1>4. /\ st \in [Files -> Statuses] /\ st[f] = "canceled"
      /\ \A g \in Files : g # f => st[g] = status[g]
  BY <1>1 DEF Statuses
<1> HIDE DEF st, fs
<1>5. /\ Uploading(fs, st) = wire \ {f} /\ Queued(fs, st) = Queued(files, status)
      /\ f \notin Queued(fs, st) /\ f \in wire
  BY <1>1, <1>2, <1>3, <1>4, ListedFinite DEF Uploading, Queued, WithStatus
<1>6. Cardinality(wire \ {f}) <= ParallelUploads
  BY <1>1, <1>5, FewerUploads
<1>7. {f} \in SUBSET Uploading(files, status) /\ Cardinality({f}) <= 1
  <2>1. Cardinality({f}) = 1
    BY FS_Singleton
  <2>2. {f} \subseteq Uploading(files, status)
    BY <1>1, <1>5
  <2>3. QED
    BY <2>1, <2>2
<1>8. \A g \in Files : st[g] = "uploading" => g \in ToSet(fs)
  BY <1>1, <1>3, <1>4
<1>9. \A g, h \in Queued(fs, st) : Precedes(fs, g, h) <=> Precedes(files, g, h)
  BY <1>3, <1>5
<1>10. Uploading(fs, st) = Uploading(files, status) \ {f}
  BY <1>1, <1>5
<1>11. Cardinality(Uploading(fs, st)) <= ParallelUploads /\ wire \ {f} = Uploading(fs, st)
  BY <1>5, <1>6
<1>12. QED
  BY <1>2, <1>3, <1>4, <1>5, <1>7, <1>8, <1>9, <1>10, <1>11, ServeStep

\* A removed file gives up its place in the queue, if it had one.
LEMMA RemoveFilePools ==
  ASSUME IInv, NEW f \in Files, RemoveFile(f)
  PROVE  [Pool!Next]_Pool!vars
<1>1. files \in Seq(Files) /\ IsInjective(files) /\ status \in [Files -> Statuses]
  BY DEF IInv, TypeOK, Arrivals
<1>2. status[f] # "uploading" /\ files' = Without(files, f) /\ status' = status
  BY DEF RemoveFile, TakeOut
<1>3. /\ files' \in Seq(Files) /\ ToSet(files') = ToSet(files) \ {f}
      /\ \A g, h : g # f /\ h # f => (Precedes(files', g, h) <=> Precedes(files, g, h))
  BY <1>1, <1>2, WithoutSet
<1> DEFINE Q == Queued(files, status)
<1>4. Uploading(files', status') = Uploading(files, status) /\ Queued(files', status') = Q \ {f}
  BY <1>2, <1>3 DEF Uploading, Queued, WithStatus
<1>5. QueueOrder(files', status')
        = QueueOrder(files, status) \cap ((Q \ {f}) \X (Q \ {f}))
  <2>1. QueueOrder(files', status')
          = {p \in (Q \ {f}) \X (Q \ {f}) : Precedes(files', p[1], p[2])}
    BY <1>4 DEF QueueOrder
  <2>2. QueueOrder(files, status) = {p \in Q \X Q : Precedes(files, p[1], p[2])}
    BY DEF QueueOrder
  <2> HIDE DEF Q
  <2>3. QED
    BY <1>3, <2>1, <2>2
<1>6. CASE f \in Q
  <2>1. Pool!Withdraw(f)
    BY <1>4, <1>5, <1>6 DEF Pool!Withdraw, Pool!Keep
  <2>2. QED
    BY <2>1 DEF Pool!Next
<1>7. CASE f \notin Q
  <2>1. Q \ {f} = Q
    BY <1>7
  <2>2. QueueOrder(files, status) \subseteq Q \X Q
    BY DEF QueueOrder
  <2>3. QueueOrder(files', status') = QueueOrder(files, status)
    BY <1>5, <2>1, <2>2
  <2>4. QED
    BY <1>4, <2>1, <2>3 DEF Pool!vars
<1>8. QED
  BY <1>6, <1>7

\* The upload queue of the page is a pool of parallelUploads workers fed by a
\* queue: files are started in the order they were queued, as many as fit.
THEOREM PoolIsImplemented == Spec => ImplementsPool
<1>1. Init => Pool!Init
  <2> SUFFICES ASSUME Init PROVE Pool!Init
    OBVIOUS
  <2>1. ToSet(files) = {}
    BY DEF Init, ToSet
  <2>2. Queued(files, status) = {} /\ Uploading(files, status) = {}
    BY <2>1 DEF Queued, Uploading, WithStatus
  <2>3. QueueOrder(files, status) = {}
    BY <2>2 DEF QueueOrder
  <2>4. QED
    BY <2>2, <2>3 DEF Pool!Init
<1>2. IInv /\ [Next]_vars => [Pool!Next]_Pool!vars
  <2> SUFFICES ASSUME IInv, [Next]_vars PROVE [Pool!Next]_Pool!vars
    OBVIOUS
  <2>1. CASE UNCHANGED <<files, status>>
    <3>1. /\ Queued(files', status') = Queued(files, status)
          /\ Uploading(files', status') = Uploading(files, status)
          /\ QueueOrder(files', status') = QueueOrder(files, status)
      BY <2>1
    <3>2. QED
      BY <3>1 DEF Pool!vars
  <2>2. CASE \E f \in Files : RemoveFile(f)
    BY <2>2, RemoveFilePools
  <2>3. CASE \E f \in Files : Cancel(f)
    BY <2>3, CancelPools
  <2>4. CASE AddNext
    <3>1. Head(batch) \in ToSet(batch) /\ Head(batch) \in Files
      BY <2>4, TailSet, ListedFinite DEF IInv, TypeOK, AddNext
    <3>2. status[Head(batch)] = "none" /\ AddFile(Head(batch))
      BY <2>4, <3>1 DEF IInv, Arrivals, AddNext
    <3>3. QED
      BY <3>1, <3>2, AddFilePools
  <2>5. CASE StartQueued
    <3>1. ProcessQueue(files, status, wire) /\ files' = files
      BY <2>5 DEF StartQueued
    <3>2. /\ files \in Seq(Files) /\ IsInjective(files) /\ status \in [Files -> Statuses]
          /\ \A g \in Files : status[g] = "uploading" => g \in ToSet(files)
          /\ wire = Uploading(files, status) /\ Cardinality(wire) <= ParallelUploads
      BY DEF IInv, TypeOK, Arrivals, NoOrphans, ParallelLimit
    <3>3. {} \in SUBSET Uploading(files, status) /\ Cardinality({}) <= 1
          /\ Uploading(files, status) = Uploading(files, status) \ {}
      BY FS_EmptySet
    <3>4. QED
      BY <3>1, <3>2, <3>3, ServeStep
  <2>6. CASE Commit
    <3>1. files' = <<>>
      BY <2>6 DEF Commit
    <3>2. ToSet(files') = {}
      BY <3>1 DEF ToSet
    <3>3. Queued(files', status') = {} /\ Uploading(files', status') = {}
      BY <3>2 DEF Queued, Uploading, WithStatus
    <3>4. QueueOrder(files', status') = {}
      BY <3>3 DEF QueueOrder
    <3>5. Pool!Drop
      BY <3>3, <3>4 DEF Pool!Drop, Pool!Keep
    <3>6. QED
      BY <3>5 DEF Pool!Next
  <2>7. CASE \E f \in Files : EntryRead(f)
    <3>1. PICK f \in Files : EntryRead(f)
      BY <2>7
    <3>2. CASE AddFile(f)
      <4>1. status[f] = "none"
        BY <3>1 DEF IInv, Arrivals, EntryRead
      <4>2. QED
        BY <3>2, <4>1, AddFilePools
    <3>3. CASE UNCHANGED <<files, status>>
      BY <2>1, <3>3
    <3>4. QED
      BY <3>1, <3>2, <3>3 DEF EntryRead
  <2>8. CASE \E f \in Files : UploadEnds(f)
    BY <2>8, UploadEndsPools
  <2>9. CASE Choose \/ ChooseDirectory \/ QueueComplete \/ \E f \in Files : EntryFails(f)
    BY <2>1, <2>9 DEF Choose, ChooseDirectory, QueueComplete, EntryFails
  <2>10. CASE UNCHANGED vars
    BY <2>1, <2>10 DEF vars
  <2>11. QED
    BY <2>2, <2>3, <2>4, <2>5, <2>6, <2>7, <2>8, <2>9, <2>10 DEF Next, UserStep, BrowserStep
<1>3. QED
  BY <1>1, <1>2, Invariance, PTL DEF Spec, ImplementsPool, Pool!Spec

=============================================================================
