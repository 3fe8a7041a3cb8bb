----------------------------- MODULE QueueProofs ------------------------------
(***************************************************************************)
(* Queues of different entries: what their operations leave in them, and    *)
(* that none of them lets an entry overtake another.                        *)
(***************************************************************************)
EXTENDS Queues, Integers, SequencesExt, FiniteSetTheorems, TLAPS

\* An entry is ahead of no entry that is ahead of it, nor of itself.
LEMMA AheadIsStrict ==
  ASSUME NEW T, NEW q \in Seq(T), IsInjective(q), NEW x, NEW y, Ahead(q, x, y)
  PROVE  /\ x \in Range(q) /\ y \in Range(q)
         /\ x # y
         /\ ~Ahead(q, y, x)
<1>1. \A i \in DOMAIN q : i \in Nat
  OBVIOUS
<1> QED
  BY <1>1 DEF Ahead, IsInjective, Range

-----------------------------------------------------------------------------
\* The number of the places of a queue up to one of them tells the place.
Numbers(rest) == [i \in rest |-> Cardinality({j \in rest : j <= i})]

\* So the places of the rest of a queue are numbered without gaps, in their order.
LEMMA PlacesAreNumbered ==
  ASSUME NEW n \in Nat, NEW rest \in SUBSET (1 .. n)
  PROVE  /\ Cardinality(rest) \in Nat
         /\ Numbers(rest) \in [rest -> 1 .. Cardinality(rest)]
         /\ \A i, j \in rest : i < j => Numbers(rest)[i] < Numbers(rest)[j]
         /\ \A i, j \in rest : Numbers(rest)[i] = Numbers(rest)[j] => i = j
         /\ \A k \in 1 .. Cardinality(rest) : \E i \in rest : Numbers(rest)[i] = k
<1> DEFINE Upto(i) == {j \in rest : j <= i}
           place == [i \in rest |-> Cardinality(Upto(i))]
<1>0. \A i \in rest : i \in Nat
  OBVIOUS
<1>1. IsFiniteSet(rest) /\ Cardinality(rest) \in Nat
  <2>1. IsFiniteSet(1 .. n)
    BY 1 \in Int, n \in Int, FS_Interval
  <2>2. IsFiniteSet(rest)
    BY <2>1, FS_Subset
  <2> QED
    BY <2>2, FS_CardinalityType
<1>2. \A i \in rest : /\ IsFiniteSet(Upto(i)) /\ Cardinality(Upto(i)) \in Nat
                      /\ Cardinality(Upto(i)) <= Cardinality(rest)
  BY <1>1, FS_Subset, FS_CardinalityType
<1>3. \A i \in rest : Cardinality(Upto(i)) # 0
  <2> TAKE i \in rest
  <2>1. i \in Upto(i)
    OBVIOUS
  <2> QED
    BY <1>2, <2>1, FS_EmptySet
<1>4. place \in [rest -> 1 .. Cardinality(rest)]
  BY <1>1, <1>2, <1>3
<1>5. ASSUME NEW i \in rest, NEW j \in rest, i < j
      PROVE  Cardinality(Upto(i)) < Cardinality(Upto(j))
  <2>0. i \in Nat /\ j \in Nat /\ i < j
    BY <1>0, <1>5
  <2>1. \A k \in rest : k <= i => k <= j
    BY <1>0, <2>0
  <2>2. Upto(i) \in SUBSET Upto(j)
    BY <2>1
  <2>3. j \in Upto(j) /\ j \notin Upto(i)
    BY <2>0
  <2>4. Upto(i) # Upto(j)
    BY <2>3
  <2> HIDE DEF Upto
  <2>5. /\ Cardinality(Upto(i)) <= Cardinality(Upto(j))
        /\ Cardinality(Upto(i)) # Cardinality(Upto(j))
    BY <1>2, <2>2, <2>4, FS_Subset
  <2> QED
    BY <1>2, <2>5
<1>6. \A i, j \in rest : i < j => place[i] < place[j]
  BY <1>5
<1> HIDE DEF place
<1>7. \A i, j \in rest : place[i] = place[j] => i = j
  <2> SUFFICES ASSUME NEW i \in rest, NEW j \in rest, place[i] = place[j], i # j PROVE FALSE
    OBVIOUS
  <2>1. i < j \/ j < i
    BY <1>0
  <2> QED
    BY <1>1, <1>4, <1>6, <2>1
<1>8. place \in Injection(rest, 1 .. Cardinality(rest))
  BY <1>4, <1>7 DEF Injection, IsInjective
<1>9. IsFiniteSet(1 .. Cardinality(rest)) /\ Cardinality(1 .. Cardinality(rest)) = Cardinality(rest)
  BY <1>1, FS_Interval
<1>10. place \in Surjection(rest, 1 .. Cardinality(rest))
  BY <1>8, <1>9, FS_Injection
<1>11. \A k \in 1 .. Cardinality(rest) : \E i \in rest : place[i] = k
  BY <1>10 DEF Surjection
<1>12. place = Numbers(rest)
  BY DEF place, Numbers
<1> QED
  BY <1>1, <1>4, <1>6, <1>7, <1>11, <1>12

\* The rest of a queue has what was not taken away, once and in its order.
LEMMA RestOfAQueue ==
  ASSUME NEW T, NEW q \in Seq(T), NEW S
  PROVE  /\ Dequeued(q, S) \in Seq(T)
         /\ Range(Dequeued(q, S)) = Range(q) \ S
         /\ IsInjective(q) => IsInjective(Dequeued(q, S))
         /\ \A x, y : Ahead(q, x, y) /\ x \notin S /\ y \notin S => Ahead(Dequeued(q, S), x, y)
<1> DEFINE rest == {i \in DOMAIN q : q[i] \notin S}
           place == Numbers(rest)
           At(k) == CHOOSE i \in rest : place[i] = k
<1>1. Len(q) \in Nat /\ DOMAIN q = 1 .. Len(q) /\ \A i \in DOMAIN q : q[i] \in T
  OBVIOUS
<1>2. rest \in SUBSET (1 .. Len(q))
  BY <1>1
<1>3. Dequeued(q, S) = [k \in 1 .. Cardinality(rest) |-> q[At(k)]]
  BY DEF Dequeued, Numbers
<1> HIDE DEF rest
<1>4. /\ Cardinality(rest) \in Nat
      /\ \A i \in rest : place[i] \in 1 .. Cardinality(rest)
      /\ \A i, j \in rest : i < j => place[i] < place[j]
      /\ \A i, j \in rest : place[i] = place[j] => i = j
      /\ \A k \in 1 .. Cardinality(rest) : \E i \in rest : place[i] = k
  BY <1>1, <1>2, PlacesAreNumbered
<1>5. \A k \in 1 .. Cardinality(rest) : At(k) \in rest /\ place[At(k)] = k
  BY <1>4
<1>6. \A i \in rest : At(place[i]) = i
  BY <1>4, <1>5
<1> HIDE DEF At
<1>7. Dequeued(q, S) \in Seq(T)
  <2>1. \A k \in 1 .. Cardinality(rest) : q[At(k)] \in T
    BY <1>1, <1>5 DEF rest
  <2> QED
    BY <1>3, <1>4, <2>1
<1>8. DOMAIN Dequeued(q, S) = 1 .. Cardinality(rest)
      /\ \A k \in 1 .. Cardinality(rest) : Dequeued(q, S)[k] = q[At(k)]
  BY <1>3
<1>9. Range(Dequeued(q, S)) = Range(q) \ S
  <2>1. ASSUME NEW m \in Range(Dequeued(q, S)) PROVE m \in Range(q) \ S
    BY <1>5, <1>8 DEF Range, rest
  <2>2. ASSUME NEW m \in Range(q) \ S PROVE m \in Range(Dequeued(q, S))
    <3>1. PICK i \in rest : q[i] = m
      BY DEF Range, rest
    <3> QED
      BY <1>4, <1>6, <1>8, <3>1 DEF Range
  <2> QED
    BY <2>1, <2>2
<1>10. IsInjective(q) => IsInjective(Dequeued(q, S))
  BY <1>4, <1>5, <1>8 DEF IsInjective, rest
<1>11. ASSUME NEW x, NEW y, Ahead(q, x, y), x \notin S, y \notin S
       PROVE  Ahead(Dequeued(q, S), x, y)
  <2>1. PICK i, j \in DOMAIN q : i < j /\ q[i] = x /\ q[j] = y
    BY <1>11 DEF Ahead
  <2>2. i \in rest /\ j \in rest
    BY <1>11, <2>1 DEF rest
  <2>3. /\ place[i] \in 1 .. Cardinality(rest) /\ place[j] \in 1 .. Cardinality(rest)
        /\ place[i] < place[j]
        /\ q[At(place[i])] = x /\ q[At(place[j])] = y
    BY <1>4, <1>6, <2>1, <2>2
  <2> HIDE DEF place
  <2> QED
    BY <1>8, <2>3 DEF Ahead
<1> QED
  BY <1>7, <1>9, <1>10, <1>11

-----------------------------------------------------------------------------
\* Behind its head a queue has everything else, in its order.
LEMMA BehindTheHead ==
  ASSUME NEW T, NEW q \in Seq(T), IsInjective(q), q # << >>
  PROVE  /\ Head(q) = q[1] /\ Head(q) \in T /\ 1 \in DOMAIN q /\ Head(q) \in Range(q)
         /\ Tail(q) \in Seq(T) /\ Tail(q) = SubSeq(q, 2, Len(q))
         /\ Range(Tail(q)) = Range(q) \ {Head(q)}
         /\ IsInjective(Tail(q))
         /\ \A x : ~Ahead(q, x, Head(q))
         /\ \A x, y : Ahead(q, x, y) /\ x # Head(q) => Ahead(Tail(q), x, y)
<1> DEFINE t == Tail(q)
<1>1. /\ Len(q) \in Nat /\ Len(q) >= 1 /\ DOMAIN q = 1 .. Len(q) /\ q[1] \in T
      /\ Head(q) = q[1]
  OBVIOUS
<1>2. t \in Seq(T) /\ Len(t) = Len(q) - 1 /\ t = SubSeq(q, 2, Len(q))
  BY <1>1
<1>3. DOMAIN t = 1 .. Len(q) - 1 /\ \A i \in 1 .. Len(q) - 1 : t[i] = q[i + 1]
  BY <1>1, <1>2
<1> HIDE DEF t
<1>4. Range(t) = Range(q) \ {q[1]}
  <2>1. ASSUME NEW m \in Range(t) PROVE m \in Range(q) \ {q[1]}
    BY <1>1, <1>3 DEF Range, IsInjective
  <2>2. ASSUME NEW m \in Range(q) \ {q[1]} PROVE m \in Range(t)
    <3>1. PICK i \in 1 .. Len(q) : q[i] = m /\ i # 1
      BY <1>1 DEF Range
    <3>2. i - 1 \in 1 .. Len(q) - 1 /\ t[i - 1] = m
      BY <1>1, <1>3, <3>1
    <3> QED
      BY <1>3, <3>2 DEF Range
  <2> QED
    BY <2>1, <2>2
<1>5. IsInjective(t)
  <2> SUFFICES ASSUME NEW i \in 1 .. Len(q) - 1, NEW j \in 1 .. Len(q) - 1, t[i] = t[j]
               PROVE  i = j
    BY <1>3 DEF IsInjective
  <2>1. i + 1 \in DOMAIN q /\ j + 1 \in DOMAIN q /\ q[i + 1] = q[j + 1]
    BY <1>1, <1>3
  <2>2. i + 1 = j + 1
    BY <2>1 DEF IsInjective
  <2> QED
    BY <2>2
<1>6. ASSUME NEW x PROVE ~Ahead(q, x, q[1])
  BY <1>1 DEF Ahead, IsInjective
<1>7. ASSUME NEW x, NEW y, Ahead(q, x, y), x # q[1] PROVE Ahead(t, x, y)
  <2>1. PICK i, j \in DOMAIN q : i < j /\ q[i] = x /\ q[j] = y
    BY <1>7 DEF Ahead
  <2>2. i # 1 /\ i \in 1 .. Len(q) /\ j \in 1 .. Len(q)
    BY <1>1, <1>7, <2>1
  <2>3. /\ i - 1 \in DOMAIN t /\ j - 1 \in DOMAIN t /\ i - 1 < j - 1
        /\ t[i - 1] = x /\ t[j - 1] = y
    BY <1>1, <1>3, <2>1, <2>2
  <2> QED
    BY <2>3 DEF Ahead
<1>8. q[1] \in Range(q)
  BY <1>1 DEF Range
<1> QED
  BY <1>1, <1>2, <1>4, <1>5, <1>6, <1>7, <1>8 DEF t

\* What is appended to a queue comes behind all that it had.
LEMMA BehindTheTail ==
  ASSUME NEW T, NEW q \in Seq(T), NEW m \in T
  PROVE  /\ Append(q, m) \in Seq(T)
         /\ Range(Append(q, m)) = Range(q) \cup {m}
         /\ IsInjective(q) /\ m \notin Range(q) => IsInjective(Append(q, m))
         /\ \A x, y : Ahead(Append(q, m), x, y) <=> Ahead(q, x, y) \/ (x \in Range(q) /\ y = m)
<1> DEFINE t == Append(q, m)
<1>1. Len(q) \in Nat /\ DOMAIN q = 1 .. Len(q)
  OBVIOUS
<1>2. /\ t \in Seq(T) /\ DOMAIN t = 1 .. Len(q) + 1
      /\ \A i \in 1 .. Len(q) : t[i] = q[i]
      /\ t[Len(q) + 1] = m
  BY <1>1
<1> HIDE DEF t
<1>3. Range(t) = Range(q) \cup {m}
  BY <1>1, <1>2 DEF Range
<1>4. IsInjective(q) /\ m \notin Range(q) => IsInjective(t)
  BY <1>1, <1>2 DEF IsInjective, Range
<1>5. ASSUME NEW x, NEW y, Ahead(t, x, y) PROVE Ahead(q, x, y) \/ (x \in Range(q) /\ y = m)
  <2>1. PICK i, j \in DOMAIN t : i < j /\ t[i] = x /\ t[j] = y
    BY <1>5 DEF Ahead
  <2>2. i \in 1 .. Len(q) /\ q[i] = x
    BY <1>1, <1>2, <2>1
  <2>3. CASE j = Len(q) + 1
    BY <1>1, <1>2, <2>1, <2>2, <2>3 DEF Range
  <2>4. CASE j # Len(q) + 1
    <3>1. j \in 1 .. Len(q) /\ q[j] = y
      BY <1>1, <1>2, <2>1, <2>4
    <3> QED
      BY <1>1, <2>1, <2>2, <3>1 DEF Ahead
  <2> QED
    BY <2>3, <2>4
<1>6. ASSUME NEW x, NEW y, Ahead(q, x, y) PROVE Ahead(t, x, y)
  BY <1>1, <1>2, <1>6 DEF Ahead
<1>7. ASSUME NEW x \in Range(q) PROVE Ahead(t, x, m)
  <2>1. PICK i \in 1 .. Len(q) : q[i] = x
    BY <1>1 DEF Range
  <2>2. i < Len(q) + 1 /\ i \in DOMAIN t /\ Len(q) + 1 \in DOMAIN t /\ t[i] = x
    BY <1>1, <1>2, <2>1
  <2> QED
    BY <1>2, <2>2 DEF Ahead
<1> QED
  BY <1>2, <1>3, <1>4, <1>5, <1>6, <1>7 DEF t

-----------------------------------------------------------------------------
(* Induction over numbers, and what it says of sequences of sequences.  The  *)
(* induction follows from the pigeonhole principle for finite sets.          *)

\* Induction over the natural numbers, for sets of them: a set that has 0 and with a number the
\* next one leaves none out, or the numbers of it up to the missing one would be more than
\* those after 0.
LEMMA Induct ==
  ASSUME NEW S, 0 \in S, \A n \in Nat : n \in S => n + 1 \in S
  PROVE  \A n \in Nat : n \in S
<1> SUFFICES ASSUME NEW n \in Nat, n \notin S PROVE FALSE
  OBVIOUS
<1> DEFINE T == {k \in 0 .. n : k \in S}
           next == [k \in T |-> k + 1]
<1>1. IsFiniteSet(T) /\ 0 \in T
  <2>1. IsFiniteSet(0 .. n)
    BY FS_Interval, 0 \in Int, n \in Int
  <2> QED
    BY <2>1, FS_Subset
<1>2. /\ IsFiniteSet(T \ {0})
      /\ Cardinality(T) \in Nat /\ Cardinality(T \ {0}) = Cardinality(T) - 1
  BY <1>1, FS_RemoveElement, FS_CardinalityType
<1>3. next \in [T -> T \ {0}]
  OBVIOUS
<1>4. Cardinality(T \ {0}) < Cardinality(T)
  BY <1>2
<1>5. PICK x, y \in T : x # y /\ next[x] = next[y]
  <2> HIDE DEF T, next
  <2> QED
    BY <1>1, <1>2, <1>3, <1>4, FS_PigeonHole
<1> QED
  BY <1>5

\* Some numbers have a least one.
LEMMA LeastOf ==
  ASSUME NEW S \in SUBSET Nat, S # {}
  PROVE  \E m \in S : \A k \in S : m <= k
<1> SUFFICES ASSUME \A m \in S : \E k \in S : k < m PROVE FALSE
  OBVIOUS
<1> DEFINE B == {n \in Nat : \A k \in S : n < k}
<1>1. 0 \in B
  OBVIOUS
<1>2. \A n \in Nat : n \in B => n + 1 \in B
  <2> SUFFICES ASSUME NEW n \in Nat, n \in B PROVE n + 1 \in B
    OBVIOUS
  <2>1. ASSUME NEW k \in S PROVE n + 1 < k
    <3>1. PICK j \in S : j < k
      OBVIOUS
    <3>2. n < j
      OBVIOUS
    <3> QED
      BY <3>1, <3>2
  <2> QED
    BY <2>1
<1> HIDE DEF B
<1>3. \A n \in Nat : n \in B
  BY <1>1, <1>2, Induct
<1>4. PICK k \in S : k \in Nat
  OBVIOUS
<1>5. k \in B
  BY <1>3, <1>4
<1> QED
  BY <1>4, <1>5 DEF B

-----------------------------------------------------------------------------
\* The prefixes of what sequences are when they are joined.
JoinedUpto(s) ==
  CHOOSE f : f = [i \in 1 .. Len(s) |-> IF i = 1 THEN s[i] ELSE f[i - 1] \o s[i]]

\* There are the joins of the first so many parts.
LEMMA JoinsExist ==
  ASSUME NEW s, Len(s) \in Nat
  PROVE  JoinedUpto(s) = [i \in 1 .. Len(s) |->
                            IF i = 1 THEN s[i] ELSE JoinedUpto(s)[i - 1] \o s[i]]
<1> DEFINE Joins(f, n) == f = [i \in 1 .. n |-> IF i = 1 THEN s[i] ELSE f[i - 1] \o s[i]]
           S == {n \in Nat : \E f : Joins(f, n)}
<1>1. 0 \in S
  <2>1. Joins([i \in 1 .. 0 |-> 0], 0)
    OBVIOUS
  <2> HIDE DEF Joins
  <2> QED
    BY <2>1
<1>2. ASSUME NEW n \in Nat, n \in S PROVE n + 1 \in S
  <2>1. PICK f : Joins(f, n)
    BY <1>2
  <2> DEFINE g == [i \in 1 .. n + 1 |-> IF i = n + 1 THEN (IF i = 1 THEN s[i] ELSE f[n] \o s[i]) ELSE f[i]]
  <2>2. ASSUME NEW i \in 1 .. n + 1
        PROVE  g[i] = IF i = 1 THEN s[i] ELSE g[i - 1] \o s[i]
    <3>1. CASE i = n + 1
      <4>1. g[i] = IF i = 1 THEN s[i] ELSE f[n] \o s[i]
        BY <3>1
      <4>2. i # 1 => n \in 1 .. n + 1 /\ n # n + 1 /\ i - 1 = n
        BY <3>1
      <4>3. i # 1 => g[i - 1] = f[n]
        BY <4>2
      <4> QED
        BY <4>1, <4>3
    <3>2. CASE i # n + 1
      <4>1. i \in 1 .. n /\ g[i] = f[i]
        BY <3>2
      <4>2. f[i] = IF i = 1 THEN s[i] ELSE f[i - 1] \o s[i]
        BY <2>1, <4>1
      <4>3. i # 1 => i - 1 \in 1 .. n + 1 /\ i - 1 # n + 1
        BY <4>1
      <4>4. i # 1 => g[i - 1] = f[i - 1]
        BY <4>3
      <4> QED
        BY <4>1, <4>2, <4>4
    <3> QED
      BY <3>1, <3>2
  <2>3. g = [i \in 1 .. n + 1 |-> g[i]]
    OBVIOUS
  <2> HIDE DEF g
  <2>4. Joins(g, n + 1)
    BY <2>2, <2>3
  <2> HIDE DEF Joins
  <2> QED
    BY <2>4
<1> HIDE DEF S
<1>3. Len(s) \in S
  BY <1>1, <1>2, Induct
<1>4. \E f : Joins(f, Len(s))
  BY <1>3 DEF S
<1> QED
  BY <1>4 DEF JoinedUpto

\* Each is the one before with one part more.
LEMMA JoinsStepwise ==
  ASSUME NEW s, Len(s) \in Nat
  PROVE  /\ DOMAIN JoinedUpto(s) = 1 .. Len(s)
         /\ \A i \in 1 .. Len(s) :
              JoinedUpto(s)[i] = IF i = 1 THEN s[i] ELSE JoinedUpto(s)[i - 1] \o s[i]
         /\ FlattenSeq(s) = IF Len(s) = 0 THEN s ELSE JoinedUpto(s)[Len(s)]
<1> DEFINE J == JoinedUpto(s)
<1>1. J = [i \in 1 .. Len(s) |-> IF i = 1 THEN s[i] ELSE J[i - 1] \o s[i]]
  BY JoinsExist
<1>2. FlattenSeq(s) = IF Len(s) = 0 THEN s ELSE J[Len(s)]
  BY DEF FlattenSeq, JoinedUpto
<1> HIDE DEF J
<1> QED
  BY <1>1, <1>2 DEF J

\* Equal beginnings are joined to equal ones.
LEMMA JoinsAgree ==
  ASSUME NEW s, NEW t, Len(s) \in Nat, Len(t) \in Nat, NEW n \in Nat, n <= Len(s), n <= Len(t),
         \A i \in 1 .. n : s[i] = t[i]
  PROVE  \A i \in 1 .. n : JoinedUpto(s)[i] = JoinedUpto(t)[i]
<1> DEFINE S == {k \in Nat : k \in 1 .. n => JoinedUpto(s)[k] = JoinedUpto(t)[k]}
<1>1. 0 \in S
  OBVIOUS
<1>2. ASSUME NEW k \in Nat, k \in S PROVE k + 1 \in S
  <2> SUFFICES ASSUME k + 1 \in 1 .. n PROVE JoinedUpto(s)[k + 1] = JoinedUpto(t)[k + 1]
    OBVIOUS
  <2>1. /\ k + 1 \in 1 .. Len(s) /\ k + 1 \in 1 .. Len(t) /\ (k + 1) - 1 = k
        /\ s[k + 1] = t[k + 1]
    OBVIOUS
  <2>2. JoinedUpto(s)[k + 1] = IF k + 1 = 1 THEN s[k + 1] ELSE JoinedUpto(s)[k] \o s[k + 1]
    BY <2>1, JoinsStepwise
  <2>3. JoinedUpto(t)[k + 1] = IF k + 1 = 1 THEN t[k + 1] ELSE JoinedUpto(t)[k] \o t[k + 1]
    BY <2>1, JoinsStepwise
  <2>4. k + 1 # 1 => JoinedUpto(s)[k] = JoinedUpto(t)[k]
    BY <1>2
  <2> QED
    BY <2>1, <2>2, <2>3, <2>4
<1> HIDE DEF S
<1>3. \A k \in Nat : k \in S
  BY <1>1, <1>2, Induct
<1> QED
  BY <1>3 DEF S

\* Joined sequences are a sequence.
LEMMA FlattenType ==
  ASSUME NEW T, NEW s \in Seq(Seq(T))
  PROVE  FlattenSeq(s) \in Seq(T) /\ \A i \in 1 .. Len(s) : JoinedUpto(s)[i] \in Seq(T)
<1> DEFINE S == {k \in Nat : k \in 1 .. Len(s) => JoinedUpto(s)[k] \in Seq(T)}
<1>0. Len(s) \in Nat /\ \A i \in 1 .. Len(s) : s[i] \in Seq(T)
  OBVIOUS
<1>1. 0 \in S
  OBVIOUS
<1>2. ASSUME NEW k \in Nat, k \in S PROVE k + 1 \in S
  <2> SUFFICES ASSUME k + 1 \in 1 .. Len(s) PROVE JoinedUpto(s)[k + 1] \in Seq(T)
    OBVIOUS
  <2>1. s[k + 1] \in Seq(T) /\ (k + 1) - 1 = k
    BY <1>0
  <2>2. JoinedUpto(s)[k + 1] = IF k + 1 = 1 THEN s[k + 1] ELSE JoinedUpto(s)[k] \o s[k + 1]
    BY <1>0, <2>1, JoinsStepwise
  <2>3. k + 1 # 1 => JoinedUpto(s)[k] \in Seq(T)
    BY <1>2
  <2> QED
    BY <2>1, <2>2, <2>3
<1> HIDE DEF S
<1>3. \A k \in Nat : k \in S
  BY <1>1, <1>2, Induct
<1>4. \A i \in 1 .. Len(s) : JoinedUpto(s)[i] \in Seq(T)
  BY <1>3 DEF S
<1>5. Len(s) = 0 => s = <<>>
  OBVIOUS
<1>6. FlattenSeq(s) = IF Len(s) = 0 THEN s ELSE JoinedUpto(s)[Len(s)]
  BY <1>0, JoinsStepwise
<1> QED
  BY <1>0, <1>4, <1>5, <1>6

\* One more sequence is joined at the end.
LEMMA FlattenGrows ==
  ASSUME NEW T, NEW s \in Seq(Seq(T)), NEW x \in Seq(T)
  PROVE  FlattenSeq(Append(s, x)) = FlattenSeq(s) \o x
<1> DEFINE t == Append(s, x)
           n == Len(s)
<1>1. n \in Nat /\ Len(t) = n + 1 /\ t[n + 1] = x /\ \A i \in 1 .. n : t[i] = s[i]
  OBVIOUS
<1>2. FlattenSeq(s) = IF n = 0 THEN s ELSE JoinedUpto(s)[n]
  BY <1>1, JoinsStepwise
<1> HIDE DEF t
<1>3. FlattenSeq(t) = JoinedUpto(t)[n + 1]
  BY <1>1, JoinsStepwise
<1>4. JoinedUpto(t)[n + 1] = IF n + 1 = 1 THEN x ELSE JoinedUpto(t)[n] \o x
  <2>1. n + 1 \in 1 .. Len(t) /\ (n + 1) - 1 = n
    BY <1>1
  <2> QED
    BY <1>1, <2>1, JoinsStepwise
<1>5. n # 0 => JoinedUpto(t)[n] = JoinedUpto(s)[n]
  <2>1. /\ Len(t) \in Nat /\ Len(s) \in Nat /\ n \in Nat /\ n <= Len(t) /\ n <= Len(s)
        /\ \A i \in 1 .. n : t[i] = s[i]
    BY <1>1
  <2> HIDE DEF n
  <2>2. \A i \in 1 .. n : JoinedUpto(t)[i] = JoinedUpto(s)[i]
    BY <2>1, JoinsAgree
  <2> QED
    BY <1>1, <2>2
<1>6. CASE n = 0
  <2>1. s = <<>>
    BY <1>6
  <2>2. FlattenSeq(s) = <<>>
    BY <1>2, <1>6, <2>1
  <2>3. <<>> \o x = x
    OBVIOUS
  <2>4. n + 1 = 1
    BY <1>6
  <2>5. FlattenSeq(t) = x
    BY <1>3, <1>4, <2>4
  <2> QED
    BY <2>2, <2>3, <2>5 DEF t
<1>7. CASE n # 0
  <2>1. n + 1 # 1
    BY <1>1, <1>7
  <2> QED
    BY <1>2, <1>3, <1>4, <1>5, <1>7, <2>1 DEF t
<1> QED
  BY <1>6, <1>7

\* The places around one of them.
LEMMA PlacesAround ==
  ASSUME NEW n \in Nat, NEW p \in 1 .. n
  PROVE  /\ p # 1 => /\ p - 1 \in Nat /\ p - 1 <= n /\ p - 1 \in 1 .. p - 1 /\ p - 1 \in 1 .. n
                     /\ \A i \in 1 .. p - 1 : i \in 1 .. n /\ i < p
         /\ \A k \in Nat : k + 1 \in p .. n /\ k + 1 # p =>
              /\ k \in p .. n /\ k \in 1 .. n /\ k + 1 \in 1 .. n /\ k + 1 > p /\ k + 1 # 1
              /\ (k + 1) - 1 = k
         /\ n \in p .. n
OBVIOUS

\* Of the sequences in s, one is longer by x in t, and nothing comes after it.
LongerAt(s, t, p, x) ==
  /\ Len(t) = Len(s)
  /\ t[p] = s[p] \o x
  /\ \A i \in 1 .. Len(s) : i < p => t[i] = s[i]
  /\ \A i \in 1 .. Len(s) : i > p => s[i] = <<>> /\ t[i] = <<>>

\* A last part more is joined to the end.
LEMMA FlattenExtends ==
  ASSUME NEW T, NEW s \in Seq(Seq(T)), NEW t \in Seq(Seq(T)), NEW x \in Seq(T),
         NEW p \in 1 .. Len(s), LongerAt(s, t, p, x)
  PROVE  FlattenSeq(t) = FlattenSeq(s) \o x
<1> DEFINE n == Len(s)
           S == {k \in Nat : k \in p .. n => JoinedUpto(t)[k] = JoinedUpto(s)[k] \o x}
<1>0. n \in Nat /\ Len(t) = n /\ p \in 1 .. n /\ n # 0
  BY DEF LongerAt
<1>1. /\ \A i \in 1 .. n : s[i] \in Seq(T) /\ t[i] \in Seq(T)
      /\ \A i \in 1 .. n : JoinedUpto(s)[i] \in Seq(T)
  BY <1>0, FlattenType
<1>2. /\ \A i \in 1 .. n :
           JoinedUpto(s)[i] = IF i = 1 THEN s[i] ELSE JoinedUpto(s)[i - 1] \o s[i]
      /\ \A i \in 1 .. n :
           JoinedUpto(t)[i] = IF i = 1 THEN t[i] ELSE JoinedUpto(t)[i - 1] \o t[i]
      /\ FlattenSeq(s) = JoinedUpto(s)[n]
      /\ FlattenSeq(t) = JoinedUpto(t)[n]
  BY <1>0, JoinsStepwise
<1>3. JoinedUpto(t)[p] = JoinedUpto(s)[p] \o x
  <2>1. CASE p = 1
    BY <1>0, <1>2, <2>1 DEF LongerAt
  <2>2. CASE p # 1
    <3>1. /\ p - 1 \in Nat /\ p - 1 <= Len(s) /\ p - 1 <= Len(t) /\ p - 1 \in 1 .. p - 1
          /\ p - 1 \in 1 .. n /\ \A i \in 1 .. p - 1 : i \in 1 .. n /\ i < p
      BY <1>0, <2>2, PlacesAround
    <3>2. \A i \in 1 .. p - 1 : JoinedUpto(s)[i] = JoinedUpto(t)[i]
      <4> DEFINE m == p - 1
      <4>1. /\ m \in Nat /\ m <= Len(s) /\ m <= Len(t)
            /\ \A i \in 1 .. m : s[i] = t[i]
        BY <1>0, <3>1 DEF LongerAt
      <4> HIDE DEF m
      <4>2. \A i \in 1 .. m : JoinedUpto(s)[i] = JoinedUpto(t)[i]
        BY <1>0, <4>1, JoinsAgree
      <4> QED
        BY <4>2 DEF m
    <3>3. JoinedUpto(s)[p - 1] = JoinedUpto(t)[p - 1]
      BY <3>1, <3>2
    <3>5. PICK j \in Seq(T) : j = JoinedUpto(s)[p - 1]
      BY <1>1, <3>1
    <3>6. s[p] \in Seq(T)
      BY <1>0, <1>1
    <3>7. JoinedUpto(s)[p] = j \o s[p] /\ JoinedUpto(t)[p] = j \o (s[p] \o x)
      BY <1>0, <1>2, <2>2, <3>3, <3>5 DEF LongerAt
    <3>8. j \o (s[p] \o x) = (j \o s[p]) \o x
      <4>1. PICK y \in Seq(T) : y = s[p]
        BY <3>6
      <4> HIDE DEF n, S
      <4>2. j \o (y \o x) = (j \o y) \o x
        OBVIOUS
      <4> QED
        BY <4>1, <4>2
    <3> QED
      BY <3>7, <3>8
  <2> QED
    BY <2>1, <2>2
<1>4. 0 \in S
  BY <1>0
<1>5. ASSUME NEW k \in Nat, k \in S PROVE k + 1 \in S
  <2> SUFFICES ASSUME k + 1 \in p .. n
               PROVE  JoinedUpto(t)[k + 1] = JoinedUpto(s)[k + 1] \o x
    OBVIOUS
  <2>1. CASE k + 1 = p
    BY <1>3, <2>1
  <2>2. CASE k + 1 # p
    <3>1. k \in p .. n /\ k + 1 \in 1 .. n /\ k + 1 > p /\ k + 1 # 1 /\ (k + 1) - 1 = k /\ k \in 1 .. n
      BY <1>0, <2>2, PlacesAround
    <3>2. s[k + 1] = <<>> /\ t[k + 1] = <<>>
      BY <1>0, <3>1 DEF LongerAt
    <3>3. JoinedUpto(t)[k] = JoinedUpto(s)[k] \o x
      BY <1>5, <3>1
    <3>4. PICK j \in Seq(T) : j = JoinedUpto(s)[k]
      BY <1>1, <3>1
    <3>5. /\ JoinedUpto(s)[k + 1] = JoinedUpto(s)[k] \o s[k + 1]
          /\ JoinedUpto(t)[k + 1] = JoinedUpto(t)[k] \o t[k + 1]
      <4> DEFINE m == k + 1
      <4>1. m \in 1 .. n /\ m # 1 /\ m - 1 = k
        BY <3>1
      <4> HIDE DEF m, n
      <4>2. /\ JoinedUpto(s)[m] = JoinedUpto(s)[m - 1] \o s[m]
            /\ JoinedUpto(t)[m] = JoinedUpto(t)[m - 1] \o t[m]
        BY <1>2, <4>1
      <4> QED
        BY <4>1, <4>2 DEF m
    <3>5a. JoinedUpto(s)[k + 1] = j \o <<>> /\ JoinedUpto(t)[k + 1] = (j \o x) \o <<>>
      BY <3>2, <3>3, <3>4, <3>5
    <3>6. j \o <<>> = j /\ j \o x \in Seq(T)
      OBVIOUS
    <3>7. (j \o x) \o <<>> = j \o x
      BY <3>6
    <3> QED
      BY <3>5a, <3>6, <3>7
  <2> QED
    BY <2>1, <2>2
<1> HIDE DEF S
<1>6. \A k \in Nat : k \in S
  BY <1>4, <1>5, Induct
<1>7. n \in p .. n
  BY <1>0, PlacesAround
<1> QED
  BY <1>0, <1>2, <1>6, <1>7 DEF S

===============================================================================
