---------------------------- MODULE AnswerTextProofs ----------------------------
(***************************************************************************)
(* The text of an answer is understood wherever it is cut: thoughts are    *)
(* told from speech, no markup that leaks is shown, and the calls in it are *)
(* all made, for any texts, fields and fragments.                           *)
(***************************************************************************)
EXTENDS AnswerText, QueueProofs, TLAPS

(****************************************************************************)
(* Texts that are cut anywhere. Both parsers look for markers that begin    *)
(* with a symbol found nowhere else in them: the first marker stays the     *)
(* first when more follows, and what was not kept back for a marker that    *)
(* may have begun plays no part in what is found later on.                  *)
(****************************************************************************)

\* Strings, those the markers are made of among them.
Signs == STRING \cup {"<", "/", "t", ">", "[", "n", "s", "e"}
Symbols == Seq(Signs)

LEMMA StringsAreSymbols == \A s \in Seq(STRING) : s \in Symbols
<1>1. \A T, S : (\A x \in T : x \in S) => \A s \in Seq(T) : s \in Seq(S)
  OBVIOUS
<1>2. \A x \in STRING : x \in Signs
  BY DEF Signs
<1> QED
  BY <1>1, <1>2, Zenon DEF Symbols

LEMMA ShortSequences ==
  ASSUME NEW T, NEW a \in T, NEW b \in T
  PROVE  /\ << a, b >> \in Seq(T)
         /\ \A c \in T : << a, b, c >> \in Seq(T)
         /\ \A c, d \in T : << a, b, c, d >> \in Seq(T)
  OBVIOUS

\* The first i entries, and those behind them.
Start(s, i) == SubSeq(s, 1, i)
Rear(s, i) == SubSeq(s, i + 1, Len(s))

\* One behind the other.
Cat(s, t) == s \o t

LEMMA Parts ==
  ASSUME NEW s \in Symbols, NEW i \in 0 .. Len(s)
  PROVE  /\ Start(s, i) \in Symbols /\ Len(Start(s, i)) = i
         /\ \A k \in 1 .. i : Start(s, i)[k] = s[k]
         /\ Rear(s, i) \in Symbols /\ Len(Rear(s, i)) = Len(s) - i
         /\ \A k \in 1 .. Len(s) - i : Rear(s, i)[k] = s[i + k]
  BY DEF Start, Rear, Symbols

LEMMA SameEntries ==
  ASSUME NEW s \in Symbols, NEW t \in Symbols, Len(s) = Len(t),
         \A k \in 1 .. Len(s) : s[k] = t[k]
  PROVE  s = t
  BY DEF Symbols

LEMMA Concatenated ==
  ASSUME NEW s \in Symbols, NEW t \in Symbols
  PROVE  /\ Cat(s, t) \in Symbols /\ Len(Cat(s, t)) = Len(s) + Len(t)
         /\ \A k \in 1 .. Len(s) : Cat(s, t)[k] = s[k]
         /\ \A k \in 1 .. Len(t) : Cat(s, t)[Len(s) + k] = t[k]
         /\ Cat(s, << >>) = s /\ Cat(<< >>, s) = s
  BY DEF Cat, Symbols

LEMMA SymbolFacts ==
  /\ << >> \in Symbols /\ Len(<< >>) = 0
  /\ \A s \in Symbols : Len(s) \in Nat /\ DOMAIN s = 1 .. Len(s)
  /\ \A s, t \in Symbols : Cat(s, t) \in Symbols /\ Len(Cat(s, t)) = Len(s) + Len(t)
  /\ \A s \in Symbols : Cat(s, << >>) = s /\ Cat(<< >>, s) = s
<1>1. << >> \in Symbols /\ Len(<< >>) = 0
  BY DEF Symbols
<1>2. \A s \in Symbols : Len(s) \in Nat /\ DOMAIN s = 1 .. Len(s)
  BY DEF Symbols
<1> QED
  BY <1>1, <1>2, Concatenated

LEMMA ConcatAssociates ==
  ASSUME NEW r \in Symbols, NEW s \in Symbols, NEW t \in Symbols
  PROVE  Cat(Cat(r, s), t) = Cat(r, Cat(s, t))
<1>1. /\ Cat(r, s) \in Symbols /\ Cat(s, t) \in Symbols /\ Len(Cat(r, s)) = Len(r) + Len(s)
      /\ Len(Cat(s, t)) = Len(s) + Len(t)
  BY Concatenated
<1>2. /\ Cat(Cat(r, s), t) \in Symbols /\ Cat(r, Cat(s, t)) \in Symbols
      /\ Len(Cat(Cat(r, s), t)) = Len(r) + Len(s) + Len(t) /\ Len(Cat(r, Cat(s, t))) = Len(r) + Len(s) + Len(t)
  <2> DEFINE p == Cat(r, s)
             q == Cat(s, t)
  <2>1. /\ p \in Symbols /\ q \in Symbols /\ Len(p) = Len(r) + Len(s) /\ Len(q) = Len(s) + Len(t)
        /\ Len(r) \in Nat /\ Len(s) \in Nat /\ Len(t) \in Nat
    BY <1>1, SymbolFacts
  <2> HIDE DEF p, q
  <2>2. Cat(p, t) \in Symbols /\ Len(Cat(p, t)) = Len(p) + Len(t)
    BY <2>1, SymbolFacts
  <2>3. Cat(r, q) \in Symbols /\ Len(Cat(r, q)) = Len(r) + Len(q)
    BY <2>1, SymbolFacts
  <2>4. Len(p) + Len(t) = Len(r) + Len(s) + Len(t) /\ Len(r) + Len(q) = Len(r) + Len(s) + Len(t)
    BY <2>1
  <2> QED
    BY <2>2, <2>3, <2>4 DEF p, q
<1>3. \A k \in 1 .. Len(r) + Len(s) + Len(t) : Cat(Cat(r, s), t)[k] = Cat(r, Cat(s, t))[k]
  BY DEF Cat, Symbols
<1> QED
  BY <1>2, <1>3, SameEntries

\* A sequence is cut where one it begins with is cut.
LEMMA CutsAreKept ==
  ASSUME NEW s \in Symbols, NEW b \in Symbols, NEW i \in 0 .. Len(s)
  PROVE  /\ Start(Cat(s, b), i) = Start(s, i)
         /\ Rear(Cat(s, b), i) = Cat(Rear(s, i), b)
         /\ Cat(Start(s, i), Rear(s, i)) = s
<1> DEFINE u == Cat(s, b)
           p == Start(s, i)
           r == Rear(s, i)
           pu == Start(u, i)
           ru == Rear(u, i)
           c == Cat(r, b)
           d == Cat(p, r)
<1>0. Len(s) \in Nat /\ Len(b) \in Nat /\ i \in Nat /\ i <= Len(s)
  OBVIOUS
<1>1. /\ u \in Symbols /\ Len(u) = Len(s) + Len(b)
      /\ \A k \in 1 .. Len(s) : u[k] = s[k]
      /\ \A k \in 1 .. Len(b) : u[Len(s) + k] = b[k]
  BY Concatenated
<1>2. /\ p \in Symbols /\ Len(p) = i /\ \A k \in 1 .. i : p[k] = s[k]
      /\ r \in Symbols /\ Len(r) = Len(s) - i /\ \A k \in 1 .. Len(s) - i : r[k] = s[i + k]
  BY Parts
<1> HIDE DEF u, p, r
<1>3. i \in 0 .. Len(u) /\ Len(u) - i = Len(s) + Len(b) - i
  BY <1>0, <1>1
<1>4. /\ pu \in Symbols /\ Len(pu) = i /\ \A k \in 1 .. i : pu[k] = u[k]
      /\ ru \in Symbols /\ Len(ru) = Len(u) - i /\ \A k \in 1 .. Len(u) - i : ru[k] = u[i + k]
  BY <1>1, <1>3, Parts
<1>5. /\ c \in Symbols /\ Len(c) = Len(r) + Len(b) /\ \A k \in 1 .. Len(r) : c[k] = r[k]
      /\ \A k \in 1 .. Len(b) : c[Len(r) + k] = b[k]
  <2>1. r \in Symbols
    BY <1>2
  <2> QED
    BY <2>1, Concatenated
<1>6. /\ d \in Symbols /\ Len(d) = Len(p) + Len(r) /\ \A k \in 1 .. Len(p) : d[k] = p[k]
      /\ \A k \in 1 .. Len(r) : d[Len(p) + k] = r[k]
  BY <1>2, Concatenated
<1> HIDE DEF pu, ru, c, d
<1>7. pu = p
  <2>1. \A k \in 1 .. i : pu[k] = p[k]
    <3> TAKE k \in 1 .. i
    <3>1. k \in 1 .. Len(s)
      BY <1>0
    <3> QED
      BY <1>1, <1>2, <1>4, <3>1
  <2> QED
    BY <1>2, <1>4, <2>1, SameEntries
<1>8. ru = c
  <2>1. ASSUME NEW k \in 1 .. Len(s) + Len(b) - i
        PROVE  ru[k] = c[k]
    <3>0. ru[k] = u[i + k]
      BY <1>3, <1>4
    <3>1. CASE k <= Len(s) - i
      <4>1. k \in 1 .. Len(s) - i /\ i + k \in 1 .. Len(s) /\ k \in 1 .. Len(r)
        BY <1>0, <1>2, <3>1
      <4>2. c[k] = s[i + k] /\ u[i + k] = s[i + k]
        BY <1>1, <1>2, <1>5, <4>1
      <4> QED
        BY <3>0, <4>2
    <3>2. CASE k > Len(s) - i
      <4> DEFINE n == k - (Len(s) - i)
      <4>1. n \in 1 .. Len(b) /\ k = Len(r) + n /\ i + k = Len(s) + n
        BY <1>0, <1>2, <3>2
      <4> HIDE DEF n
      <4>2. c[k] = b[n] /\ u[i + k] = b[n]
        BY <1>1, <1>5, <4>1
      <4> QED
        BY <3>0, <4>2
    <3> QED
      BY <1>0, <3>1, <3>2
  <2>2. Len(ru) = Len(s) + Len(b) - i /\ Len(c) = Len(s) + Len(b) - i
    BY <1>0, <1>2, <1>3, <1>4, <1>5
  <2> QED
    BY <1>4, <1>5, <2>1, <2>2, SameEntries
<1>9. d = s
  <2>1. ASSUME NEW k \in 1 .. Len(s) PROVE d[k] = s[k]
    <3>1. CASE k <= i
      <4>1. k \in 1 .. i /\ k \in 1 .. Len(p)
        BY <1>0, <1>2, <3>1
      <4> QED
        BY <1>2, <1>6, <4>1
    <3>2. CASE k > i
      <4> DEFINE n == k - i
      <4>1. n \in 1 .. Len(s) - i /\ n \in 1 .. Len(r) /\ k = i + n /\ k = Len(p) + n
        BY <1>0, <1>2, <3>2
      <4> HIDE DEF n
      <4>2. d[k] = r[n] /\ r[n] = s[k]
        BY <1>2, <1>6, <4>1
      <4> QED
        BY <4>2
    <3> QED
      BY <1>0, <3>1, <3>2
  <2>2. Len(d) = Len(s)
    BY <1>0, <1>2, <1>6
  <2> QED
    BY <1>6, <2>1, <2>2, SameEntries
<1> QED
  BY <1>7, <1>8, <1>9 DEF u, p, r, pu, ru, c, d

\* What is cut twice.
LEMMA CutTwice ==
  ASSUME NEW s \in Symbols, NEW i \in 0 .. Len(s), NEW j \in 0 .. Len(s) - i
  PROVE  /\ Rear(Rear(s, i), j) = Rear(s, i + j)
         /\ Cat(Start(s, i), Start(Rear(s, i), j)) = Start(s, i + j)
<1> DEFINE r == Rear(s, i)
<1>1. /\ r \in Symbols /\ Len(r) = Len(s) - i
      /\ \A k \in 1 .. Len(s) - i : r[k] = s[i + k]
      /\ Start(s, i) \in Symbols /\ Len(Start(s, i)) = i
      /\ \A k \in 1 .. i : Start(s, i)[k] = s[k]
  BY Parts
<1>2. i + j \in 0 .. Len(s)
  OBVIOUS
<1>3. /\ Rear(s, i + j) \in Symbols /\ Len(Rear(s, i + j)) = Len(s) - (i + j)
      /\ \A k \in 1 .. Len(s) - (i + j) : Rear(s, i + j)[k] = s[(i + j) + k]
      /\ Start(s, i + j) \in Symbols /\ Len(Start(s, i + j)) = i + j
      /\ \A k \in 1 .. i + j : Start(s, i + j)[k] = s[k]
  BY <1>2, Parts
<1> HIDE DEF r
<1>4. j \in 0 .. Len(r)
  BY <1>1
<1>5. /\ Rear(r, j) \in Symbols /\ Len(Rear(r, j)) = Len(r) - j
      /\ \A k \in 1 .. Len(r) - j : Rear(r, j)[k] = r[j + k]
      /\ Start(r, j) \in Symbols /\ Len(Start(r, j)) = j
      /\ \A k \in 1 .. j : Start(r, j)[k] = r[k]
  BY <1>1, <1>4, Parts
<1>6. Rear(r, j) = Rear(s, i + j)
  <2>1. ASSUME NEW k \in 1 .. Len(s) - (i + j) PROVE Rear(r, j)[k] = Rear(s, i + j)[k]
    <3>1. j + k \in 1 .. Len(s) - i /\ k \in 1 .. Len(r) - j /\ i + (j + k) = (i + j) + k
      BY <1>1
    <3>2. Rear(r, j)[k] = r[j + k] /\ r[j + k] = s[i + (j + k)]
      BY <1>1, <1>5, <3>1
    <3> QED
      BY <1>3, <3>1, <3>2
  <2>2. Len(Rear(r, j)) = Len(s) - (i + j)
    BY <1>1, <1>5
  <2> QED
    BY <1>3, <1>5, <2>1, <2>2, SameEntries
<1>7. Cat(Start(s, i), Start(r, j)) = Start(s, i + j)
  <2> DEFINE p == Start(s, i)
             q == Start(r, j)
             c == Cat(p, q)
  <2>0. /\ p \in Symbols /\ Len(p) = i /\ \A k \in 1 .. i : p[k] = s[k]
        /\ q \in Symbols /\ Len(q) = j /\ \A k \in 1 .. j : q[k] = r[k]
    BY <1>1, <1>5
  <2> HIDE DEF p, q
  <2>1. /\ c \in Symbols /\ Len(c) = i + j
        /\ \A k \in 1 .. i : c[k] = p[k]
        /\ \A k \in 1 .. j : c[i + k] = q[k]
    <3>1. p \in Symbols /\ q \in Symbols /\ Len(p) = i /\ Len(q) = j
      BY <2>0
    <3>2. /\ c \in Symbols /\ Len(c) = Len(p) + Len(q)
          /\ \A k \in 1 .. Len(p) : c[k] = p[k]
          /\ \A k \in 1 .. Len(q) : c[Len(p) + k] = q[k]
      BY <3>1, Concatenated
    <3> QED
      BY <3>1, <3>2
  <2> HIDE DEF c
  <2>2. ASSUME NEW k \in 1 .. i + j PROVE c[k] = Start(s, i + j)[k]
    <3>1. CASE k <= i
      <4>1. k \in 1 .. i
        BY <3>1
      <4> QED
        BY <1>3, <2>0, <2>1, <4>1
    <3>2. CASE k > i
      <4> DEFINE n == k - i
      <4>1. n \in 1 .. j /\ k = i + n /\ n \in 1 .. Len(s) - i
        BY <3>2
      <4> HIDE DEF n
      <4>2. c[k] = q[n] /\ q[n] = r[n] /\ r[n] = s[i + n]
        BY <1>1, <2>0, <2>1, <4>1
      <4> QED
        BY <1>3, <4>1, <4>2
    <3> QED
      BY <3>1, <3>2
  <2>3. c = Start(s, i + j)
    BY <1>3, <2>1, <2>2, SameEntries
  <2> QED
    BY <2>3 DEF c, p, q
<1> QED
  BY <1>6, <1>7 DEF r

\* A marker is at place i of s; or s ends in it.
Fits(g, s, i) == i + Len(g) - 1 <= Len(s) /\ \A k \in 1 .. Len(g) : s[i + k - 1] = g[k]
CutAt(g, s, i) == Len(s) - i + 1 < Len(g) /\ \A k \in 1 .. Len(s) - i + 1 : s[i + k - 1] = g[k]

\* One of the markers.
Marks(G, s, i) == \E g \in G : Fits(g, s, i)
BegunAt(G, s, i) == \E g \in G : CutAt(g, s, i)

\* Markers begin with a symbol that is nowhere else in them.
Markers(G, x) ==
  \A g \in G : g \in Symbols /\ Len(g) >= 2 /\ g[1] = x /\ \A k \in 2 .. Len(g) : g[k] # x

LEMMA MarksOfMore ==
  ASSUME NEW s \in Symbols, NEW b \in Symbols, NEW G, NEW x, Markers(G, x),
         NEW i \in 1 .. Len(s)
  PROVE  /\ Marks(G, s, i) => Marks(G, Cat(s, b), i)
         /\ Marks(G, Cat(s, b), i) => Marks(G, s, i) \/ BegunAt(G, s, i)
         /\ BegunAt(G, Cat(s, b), i) => BegunAt(G, s, i)
<1>1. /\ Len(Cat(s, b)) = Len(s) + Len(b) /\ Len(s) \in Nat /\ Len(b) \in Nat /\ i \in Nat
      /\ \A k \in 1 .. Len(s) : Cat(s, b)[k] = s[k]
  BY Concatenated, SymbolFacts
<1>2. ASSUME NEW g \in G
      PROVE  /\ Fits(g, s, i) => Fits(g, Cat(s, b), i)
             /\ Fits(g, Cat(s, b), i) => Fits(g, s, i) \/ CutAt(g, s, i)
             /\ CutAt(g, Cat(s, b), i) => CutAt(g, s, i)
  <2>1. Len(g) \in Nat
    BY DEF Markers
  <2>2. \A k \in Nat : k >= 1 /\ i + k - 1 <= Len(s) => Cat(s, b)[i + k - 1] = s[i + k - 1]
    BY <1>1
  <2>3. ASSUME Fits(g, s, i) PROVE Fits(g, Cat(s, b), i)
    <3>1. /\ i + Len(g) - 1 <= Len(s) /\ i + Len(g) - 1 <= Len(Cat(s, b))
          /\ \A k \in 1 .. Len(g) : s[i + k - 1] = g[k]
      BY <1>1, <2>1, <2>3 DEF Fits
    <3>2. ASSUME NEW k \in 1 .. Len(g) PROVE Cat(s, b)[i + k - 1] = g[k]
      <4>1. k \in Nat /\ k >= 1 /\ i + k - 1 <= Len(s)
        BY <1>1, <2>1, <3>1
      <4>2. Cat(s, b)[i + k - 1] = s[i + k - 1]
        BY <2>2, <4>1
      <4> QED
        BY <3>1, <4>2
    <3> QED
      BY <3>1, <3>2 DEF Fits
  <2>4. ASSUME Fits(g, Cat(s, b), i) PROVE Fits(g, s, i) \/ CutAt(g, s, i)
    <3>1. \A k \in 1 .. Len(g) : Cat(s, b)[i + k - 1] = g[k]
      BY <2>4 DEF Fits
    <3>2. CASE i + Len(g) - 1 <= Len(s)
      <4>1. ASSUME NEW k \in 1 .. Len(g) PROVE s[i + k - 1] = g[k]
        <5>1. k \in Nat /\ k >= 1 /\ i + k - 1 <= Len(s)
          BY <1>1, <2>1, <3>2
        <5>2. Cat(s, b)[i + k - 1] = s[i + k - 1]
          BY <2>2, <5>1
        <5> QED
          BY <3>1, <5>2
      <4> QED
        BY <3>2, <4>1 DEF Fits
    <3>3. CASE i + Len(g) - 1 > Len(s)
      <4>1. ASSUME NEW k \in 1 .. Len(s) - i + 1 PROVE s[i + k - 1] = g[k]
        <5>1. k \in Nat /\ k >= 1 /\ i + k - 1 <= Len(s) /\ k \in 1 .. Len(g)
          BY <1>1, <2>1, <3>3
        <5>2. Cat(s, b)[i + k - 1] = s[i + k - 1]
          BY <2>2, <5>1
        <5> QED
          BY <3>1, <5>1, <5>2
      <4>2. Len(s) - i + 1 < Len(g)
        BY <1>1, <2>1, <3>3
      <4> QED
        BY <4>1, <4>2 DEF CutAt
    <3> QED
      BY <1>1, <2>1, <3>2, <3>3
  <2>5. ASSUME CutAt(g, Cat(s, b), i) PROVE CutAt(g, s, i)
    <3>1. /\ Len(s) + Len(b) - i + 1 < Len(g)
          /\ \A k \in 1 .. Len(s) + Len(b) - i + 1 : Cat(s, b)[i + k - 1] = g[k]
      BY <1>1, <2>5 DEF CutAt
    <3>2. Len(s) - i + 1 < Len(g)
      BY <1>1, <2>1, <3>1
    <3>3. ASSUME NEW k \in 1 .. Len(s) - i + 1 PROVE s[i + k - 1] = g[k]
      <4>1. k \in Nat /\ k >= 1 /\ i + k - 1 <= Len(s) /\ k \in 1 .. Len(s) + Len(b) - i + 1
        BY <1>1
      <4>2. Cat(s, b)[i + k - 1] = s[i + k - 1]
        BY <2>2, <4>1
      <4> QED
        BY <3>1, <4>1, <4>2
    <3> QED
      BY <3>2, <3>3 DEF CutAt
  <2> QED
    BY <2>3, <2>4, <2>5
<1> QED
  BY <1>2 DEF Marks, BegunAt

\* Places behind the first n.
LEMMA MarksBehind ==
  ASSUME NEW s \in Symbols, NEW G, NEW x, Markers(G, x),
         NEW n \in 0 .. Len(s), NEW i \in 1 .. Len(s) - n
  PROVE  /\ Marks(G, Rear(s, n), i) <=> Marks(G, s, n + i)
         /\ BegunAt(G, Rear(s, n), i) <=> BegunAt(G, s, n + i)
<1> DEFINE r == Rear(s, n)
<1>1. /\ Len(r) = Len(s) - n /\ Len(s) \in Nat /\ n \in Nat /\ i \in Nat
      /\ \A k \in 1 .. Len(s) - n : r[k] = s[n + k]
  BY Parts
<1> HIDE DEF r
<1>2. ASSUME NEW g \in G
      PROVE  (Fits(g, r, i) <=> Fits(g, s, n + i)) /\ (CutAt(g, r, i) <=> CutAt(g, s, n + i))
  <2>1. Len(g) \in Nat
    BY DEF Markers
  <2>2. \A k \in Nat : k >= 1 /\ i + k - 1 <= Len(s) - n => r[i + k - 1] = s[(n + i) + k - 1]
    <3> TAKE k \in Nat
    <3> HAVE k >= 1 /\ i + k - 1 <= Len(s) - n
    <3>1. i + k - 1 \in 1 .. Len(s) - n /\ n + (i + k - 1) = (n + i) + k - 1
      BY <1>1
    <3> QED
      BY <1>1, <3>1
  <2>3. Fits(g, r, i) <=> Fits(g, s, n + i)
    <3>1. i + Len(g) - 1 <= Len(r) <=> (n + i) + Len(g) - 1 <= Len(s)
      BY <1>1, <2>1
    <3>2. ASSUME i + Len(g) - 1 <= Len(r)
          PROVE  \A k \in 1 .. Len(g) : r[i + k - 1] = s[(n + i) + k - 1]
      <4> TAKE k \in 1 .. Len(g)
      <4>1. k \in Nat /\ k >= 1 /\ i + k - 1 <= Len(s) - n
        BY <1>1, <2>1, <3>2
      <4> QED
        BY <2>2, <4>1
    <3> QED
      BY <3>1, <3>2 DEF Fits
  <2>4. Len(r) - i + 1 = Len(s) - (n + i) + 1
    BY <1>1
  <2>5. \A k \in 1 .. Len(r) - i + 1 : r[i + k - 1] = s[(n + i) + k - 1]
    BY <1>1, <2>2
  <2>6. CutAt(g, r, i) <=> CutAt(g, s, n + i)
    BY <2>4, <2>5 DEF CutAt
  <2> QED
    BY <2>3, <2>6
<1> QED
  BY <1>2 DEF Marks, BegunAt, r

\* Nothing begins before a marker and is cut behind it.
LEMMA MarksEndWhatBegins ==
  ASSUME NEW s \in Symbols, NEW G, NEW H, NEW x, Markers(G, x), Markers(H, x),
         NEW i \in 1 .. Len(s), Marks(H, s, i), NEW j \in 1 .. i - 1
  PROVE  ~BegunAt(G, s, j)
<1>1. s[i] = x
  <2>1. PICK h \in H : Fits(h, s, i)
    BY DEF Marks
  <2>2. 1 \in 1 .. Len(h) /\ h[1] = x
    BY DEF Markers
  <2>3. s[i + 1 - 1] = h[1]
    BY <2>1, <2>2 DEF Fits
  <2> QED
    BY <2>2, <2>3
<1>2. ASSUME NEW g \in G, CutAt(g, s, j) PROVE FALSE
  <2> DEFINE k == i - j + 1
  <2>1. Len(g) \in Nat /\ \A n \in 2 .. Len(g) : g[n] # x
    BY DEF Markers
  <2>2. /\ k \in 1 .. Len(s) - j + 1 /\ k \in 2 .. Len(s) - j + 1 /\ j + k - 1 = i
        /\ Len(s) - j + 1 \in Nat
    OBVIOUS
  <2> HIDE DEF k
  <2>3. s[j + k - 1] = g[k] /\ Len(s) - j + 1 < Len(g)
    BY <1>2, <2>2 DEF CutAt
  <2>4. k \in 2 .. Len(g)
    BY <2>1, <2>2, <2>3
  <2> QED
    BY <1>1, <2>1, <2>2, <2>3, <2>4
<1> QED
  BY <1>2 DEF BegunAt

\* The first marker; or the place from which on a marker may be completed, if there is none.
FirstMark(G, s, i) ==
  i \in 1 .. Len(s) /\ Marks(G, s, i) /\ \A j \in 1 .. i - 1 : ~Marks(G, s, j)
NoMark(G, s) == \A j \in 1 .. Len(s) : ~Marks(G, s, j)
KeptFrom(G, s, k) ==
  /\ NoMark(G, s) /\ k \in 1 .. Len(s) + 1
  /\ k <= Len(s) => BegunAt(G, s, k)
  /\ \A j \in 1 .. k - 1 : ~BegunAt(G, s, j)

LEMMA MarkedOrKept ==
  ASSUME NEW s \in Symbols, NEW G
  PROVE  \/ \E i \in 1 .. Len(s) : FirstMark(G, s, i)
         \/ NoMark(G, s) /\ \E k \in 1 .. Len(s) + 1 : KeptFrom(G, s, k)
<1>0. Len(s) \in Nat
  OBVIOUS
<1>1. CASE ~NoMark(G, s)
  <2> DEFINE S == {i \in 1 .. Len(s) : Marks(G, s, i)}
  <2>1. S \in SUBSET Nat /\ S # {}
    BY <1>1 DEF NoMark
  <2> HIDE DEF S
  <2>2. PICK i \in S : \A k \in S : i <= k
    BY <2>1, LeastOf
  <2>3. i \in 1 .. Len(s) /\ Marks(G, s, i)
    BY DEF S
  <2>4. ASSUME NEW j \in 1 .. i - 1 PROVE ~Marks(G, s, j)
    <3>1. j \in 1 .. Len(s) /\ ~(i <= j)
      BY <1>0, <2>3
    <3> QED
      BY <2>2, <3>1 DEF S
  <2> QED
    BY <2>3, <2>4 DEF FirstMark
<1>2. CASE NoMark(G, s)
  <2> DEFINE S == {i \in 1 .. Len(s) : BegunAt(G, s, i)} \cup {Len(s) + 1}
  <2>1. S \in SUBSET Nat /\ S # {}
    BY <1>0
  <2> HIDE DEF S
  <2>2. PICK i \in S : \A k \in S : i <= k
    BY <2>1, LeastOf
  <2>3. i \in 1 .. Len(s) + 1 /\ (i <= Len(s) => BegunAt(G, s, i))
    BY <1>0 DEF S
  <2>4. ASSUME NEW j \in 1 .. i - 1 PROVE ~BegunAt(G, s, j)
    <3>1. j \in 1 .. Len(s) /\ ~(i <= j)
      BY <1>0, <2>3
    <3> QED
      BY <2>2, <3>1 DEF S
  <2> QED
    BY <1>2, <2>3, <2>4 DEF KeptFrom
<1> QED
  BY <1>1, <1>2

\* The first marker stays the first when more follows.
LEMMA FirstMarkStays ==
  ASSUME NEW s \in Symbols, NEW b \in Symbols, NEW G, NEW x, Markers(G, x),
         NEW i, FirstMark(G, s, i)
  PROVE  FirstMark(G, Cat(s, b), i)
<1>1. i \in 1 .. Len(s) /\ i \in 1 .. Len(Cat(s, b)) /\ Len(s) \in Nat
  <2>1. i \in 1 .. Len(s) /\ Len(s) \in Nat /\ Len(b) \in Nat
    BY SymbolFacts DEF FirstMark
  <2>2. Len(Cat(s, b)) = Len(s) + Len(b)
    BY SymbolFacts
  <2> QED
    BY <2>1, <2>2
<1>2. Marks(G, Cat(s, b), i)
  BY <1>1, MarksOfMore DEF FirstMark
<1>3. ASSUME NEW j \in 1 .. i - 1 PROVE ~Marks(G, Cat(s, b), j)
  <2>1. j \in 1 .. Len(s)
    BY <1>1
  <2>2. ~Marks(G, s, j) /\ Marks(G, s, i)
    BY DEF FirstMark
  <2>3. ~BegunAt(G, s, j)
    BY <1>1, <2>2, MarksEndWhatBegins
  <2> QED
    BY <2>1, <2>2, <2>3, MarksOfMore
<1> QED
  BY <1>1, <1>2, <1>3 DEF FirstMark

\* What was not kept plays no part in what is found when more follows.
LEMMA OnlyTheKeptMatters ==
  ASSUME NEW s \in Symbols, NEW b \in Symbols, NEW G, NEW x, Markers(G, x),
         NEW n \in 0 .. Len(s), KeptFrom(G, s, n + 1)
  PROVE  /\ \A i \in 1 .. n : ~Marks(G, Cat(s, b), i) /\ ~BegunAt(G, Cat(s, b), i)
         /\ \A i \in 1 .. Len(Cat(Rear(s, n), b)) :
              /\ Marks(G, Cat(Rear(s, n), b), i) <=> Marks(G, Cat(s, b), n + i)
              /\ BegunAt(G, Cat(Rear(s, n), b), i) <=> BegunAt(G, Cat(s, b), n + i)
         /\ Len(Cat(s, b)) = n + Len(Cat(Rear(s, n), b))
<1>1. Cat(s, b) \in Symbols /\ Len(Cat(s, b)) = Len(s) + Len(b) /\ Len(s) \in Nat /\ Len(b) \in Nat /\ n \in Nat
  BY SymbolFacts
<1>2. Cat(Rear(s, n), b) = Rear(Cat(s, b), n)
  BY CutsAreKept
<1>3. n \in 0 .. Len(Cat(s, b))
  BY <1>1
<1>4. Len(Rear(Cat(s, b), n)) = Len(Cat(s, b)) - n
  BY <1>1, <1>3, Parts
<1>5. ASSUME NEW i \in 1 .. n PROVE ~Marks(G, Cat(s, b), i) /\ ~BegunAt(G, Cat(s, b), i)
  <2>1. i \in 1 .. Len(s) /\ i \in 1 .. (n + 1) - 1
    BY <1>1
  <2>2. ~Marks(G, s, i) /\ ~BegunAt(G, s, i)
    BY <2>1 DEF KeptFrom, NoMark
  <2> QED
    BY <2>1, <2>2, MarksOfMore
<1>6. \A i \in 1 .. Len(Cat(s, b)) - n :
        /\ Marks(G, Rear(Cat(s, b), n), i) <=> Marks(G, Cat(s, b), n + i)
        /\ BegunAt(G, Rear(Cat(s, b), n), i) <=> BegunAt(G, Cat(s, b), n + i)
  BY <1>1, <1>3, MarksBehind
<1> QED
  BY <1>1, <1>2, <1>4, <1>5, <1>6

LEMMA KeptIsEnough ==
  ASSUME NEW s \in Symbols, NEW b \in Symbols, NEW G, NEW x, Markers(G, x),
         NEW n \in 0 .. Len(s), KeptFrom(G, s, n + 1)
  PROVE  /\ \A i \in 1 .. Len(Cat(Rear(s, n), b)) :
              FirstMark(G, Cat(Rear(s, n), b), i) => FirstMark(G, Cat(s, b), n + i)
         /\ \A k \in 1 .. Len(Cat(Rear(s, n), b)) + 1 :
              KeptFrom(G, Cat(Rear(s, n), b), k) => KeptFrom(G, Cat(s, b), n + k)
         /\ NoMark(G, Cat(Rear(s, n), b)) => NoMark(G, Cat(s, b))
<1> DEFINE r == Cat(Rear(s, n), b)
           u == Cat(s, b)
<1>1. /\ \A i \in 1 .. n : ~Marks(G, u, i) /\ ~BegunAt(G, u, i)
      /\ \A i \in 1 .. Len(r) : /\ Marks(G, r, i) <=> Marks(G, u, n + i)
                                /\ BegunAt(G, r, i) <=> BegunAt(G, u, n + i)
      /\ Len(u) = n + Len(r)
  BY OnlyTheKeptMatters
<1>2. n \in Nat /\ Len(r) \in Nat
  <2>1. Rear(s, n) \in Symbols
    BY Parts
  <2>2. r \in Symbols
    BY <2>1, Concatenated
  <2> QED
    BY <2>2
<1> HIDE DEF r, u
<1>3. \A j \in 1 .. Len(u) : j <= n \/ (j - n \in 1 .. Len(r) /\ n + (j - n) = j)
  BY <1>1, <1>2
<1>4. NoMark(G, r) => NoMark(G, u)
  <2> SUFFICES ASSUME NoMark(G, r), NEW j \in 1 .. Len(u), Marks(G, u, j) PROVE FALSE
    BY DEF NoMark
  <2>1. j \in 1 .. n \/ (j - n \in 1 .. Len(r) /\ n + (j - n) = j)
    BY <1>2, <1>3
  <2>2. CASE j \in 1 .. n
    BY <1>1, <2>2
  <2>3. CASE j - n \in 1 .. Len(r) /\ n + (j - n) = j
    BY <1>1, <2>3 DEF NoMark
  <2> QED
    BY <2>1, <2>2, <2>3
<1>5. ASSUME NEW i \in 1 .. Len(r), FirstMark(G, r, i) PROVE FirstMark(G, u, n + i)
  <2>1. n + i \in 1 .. Len(u) /\ Marks(G, u, n + i)
    BY <1>1, <1>2, <1>5 DEF FirstMark
  <2>2. ASSUME NEW j \in 1 .. (n + i) - 1, Marks(G, u, j) PROVE FALSE
    <3>1. j \in 1 .. n \/ (j - n \in 1 .. Len(r) /\ n + (j - n) = j /\ j - n \in 1 .. i - 1)
      BY <1>1, <1>2
    <3>2. CASE j \in 1 .. n
      BY <1>1, <2>2, <3>2
    <3>3. CASE j - n \in 1 .. Len(r) /\ n + (j - n) = j /\ j - n \in 1 .. i - 1
      <4>1. Marks(G, r, j - n) <=> Marks(G, u, j)
        BY <1>1, <3>3
      <4>2. ~Marks(G, r, j - n)
        BY <1>5, <3>3 DEF FirstMark
      <4> QED
        BY <2>2, <4>1, <4>2
    <3> QED
      BY <3>1, <3>2, <3>3
  <2> QED
    BY <2>1, <2>2 DEF FirstMark
<1>6. ASSUME NEW k \in 1 .. Len(r) + 1, KeptFrom(G, r, k) PROVE KeptFrom(G, u, n + k)
  <2>1. NoMark(G, u)
    BY <1>4, <1>6 DEF KeptFrom
  <2>2. n + k \in 1 .. Len(u) + 1
    BY <1>1, <1>2
  <2>3. n + k <= Len(u) => BegunAt(G, u, n + k)
    <3> HAVE n + k <= Len(u)
    <3>1. k \in 1 .. Len(r) /\ k <= Len(r)
      BY <1>1, <1>2
    <3> QED
      BY <1>1, <1>6, <3>1 DEF KeptFrom
  <2>4. ASSUME NEW j \in 1 .. (n + k) - 1, BegunAt(G, u, j) PROVE FALSE
    <3>1. j \in 1 .. n \/ (j - n \in 1 .. Len(r) /\ n + (j - n) = j /\ j - n \in 1 .. k - 1)
      BY <1>1, <1>2
    <3>2. CASE j \in 1 .. n
      BY <1>1, <2>4, <3>2
    <3>3. CASE j - n \in 1 .. Len(r) /\ n + (j - n) = j /\ j - n \in 1 .. k - 1
      <4>1. BegunAt(G, r, j - n) <=> BegunAt(G, u, j)
        BY <1>1, <3>3
      <4>2. ~BegunAt(G, r, j - n)
        BY <1>6, <3>3 DEF KeptFrom
      <4> QED
        BY <2>4, <4>1, <4>2
    <3> QED
      BY <3>1, <3>2, <3>3
  <2> QED
    BY <2>1, <2>2, <2>3, <2>4 DEF KeptFrom
<1> QED
  BY <1>4, <1>5, <1>6 DEF r, u

\* There is one first marker, and one place to keep from.
LEMMA OnePlace ==
  ASSUME NEW s \in Symbols, NEW G, NEW i, NEW j
  PROVE  /\ FirstMark(G, s, i) /\ FirstMark(G, s, j) => i = j
         /\ KeptFrom(G, s, i) /\ KeptFrom(G, s, j) => i = j
<1>0. Len(s) \in Nat
  OBVIOUS
<1>1. ASSUME FirstMark(G, s, i), FirstMark(G, s, j), i # j PROVE FALSE
  <2>1. i \in 1 .. Len(s) /\ j \in 1 .. Len(s)
    BY <1>1 DEF FirstMark
  <2>2. i \in 1 .. j - 1 \/ j \in 1 .. i - 1
    BY <1>0, <1>1, <2>1
  <2> QED
    BY <1>1, <2>2 DEF FirstMark
<1>2. ASSUME KeptFrom(G, s, i), KeptFrom(G, s, j), i # j PROVE FALSE
  <2>1. i \in 1 .. Len(s) + 1 /\ j \in 1 .. Len(s) + 1
    BY <1>2 DEF KeptFrom
  <2>2. (i \in 1 .. j - 1 /\ i <= Len(s)) \/ (j \in 1 .. i - 1 /\ j <= Len(s))
    BY <1>0, <1>2, <2>1
  <2> QED
    BY <1>2, <2>2 DEF KeptFrom
<1> QED
  BY <1>1, <1>2

\* What is kept is kept again.
LEMMA KeptIsKept ==
  ASSUME NEW s \in Symbols, NEW G, NEW x, Markers(G, x),
         NEW n \in 0 .. Len(s), KeptFrom(G, s, n + 1)
  PROVE  KeptFrom(G, Rear(s, n), 1)
<1>1. Len(Rear(s, n)) = Len(s) - n /\ Len(s) \in Nat /\ n \in Nat
  BY Parts
<1>2. ASSUME NEW i \in 1 .. Len(s) - n
      PROVE  /\ Marks(G, Rear(s, n), i) <=> Marks(G, s, n + i)
             /\ BegunAt(G, Rear(s, n), i) <=> BegunAt(G, s, n + i)
  BY MarksBehind
<1>3. NoMark(G, Rear(s, n))
  <2> SUFFICES ASSUME NEW i \in 1 .. Len(Rear(s, n)) PROVE ~Marks(G, Rear(s, n), i)
    BY DEF NoMark
  <2>1. i \in 1 .. Len(s) - n /\ n + i \in 1 .. Len(s)
    BY <1>1
  <2> QED
    BY <1>2, <2>1 DEF KeptFrom, NoMark
<1>4. 1 <= Len(Rear(s, n)) => BegunAt(G, Rear(s, n), 1)
  <2> HAVE 1 <= Len(Rear(s, n))
  <2>1. 1 \in 1 .. Len(s) - n /\ n + 1 <= Len(s)
    BY <1>1
  <2> QED
    BY <1>2, <2>1 DEF KeptFrom
<1>5. 1 \in 1 .. Len(Rear(s, n)) + 1 /\ 1 .. 1 - 1 = {}
  BY <1>1
<1> QED
  BY <1>3, <1>4, <1>5 DEF KeptFrom
(****************************************************************************)
(* Think tags. A step of the parser takes the first tag, or keeps what may  *)
(* become one, and the parser takes as many steps as a text can need; so    *)
(* what it has heard and what it keeps follow from the whole of the text    *)
(* that came in, however it was cut.                                        *)
(****************************************************************************)

Modes == {"thought", "speech"}

\* The part of a text that comes next.
LEMMA NextPart ==
  ASSUME NEW t \in Symbols, NEW r \in 0 .. Len(t), NEW n \in (r + 1) .. Len(t)
  PROVE  LET c == SubSeq(t, r + 1, n) IN
         c \in Symbols /\ c # << >> /\ Start(t, r) \in Symbols /\ Cat(Start(t, r), c) = Start(t, n)
<1> DEFINE c == SubSeq(t, r + 1, n)
           j == n - r
<1>0. t \in Symbols /\ Len(t) \in Nat /\ r \in Nat
  BY DEF Symbols
<1>1. j \in 0 .. Len(t) - r /\ r + j = n /\ j >= 1
  BY <1>0
<1>2. c \in Symbols /\ Len(c) = j /\ \A k \in 1 .. j : c[k] = t[r + k]
  BY <1>0 DEF Symbols
<1> HIDE DEF c, j
<1>3. /\ Start(t, r) \in Symbols /\ Rear(t, r) \in Symbols /\ Len(Rear(t, r)) = Len(t) - r
      /\ \A k \in 1 .. Len(t) - r : Rear(t, r)[k] = t[r + k]
  BY <1>0, Parts
<1>4. Cat(Start(t, r), Start(Rear(t, r), j)) = Start(t, n)
  BY <1>0, <1>1, CutTwice
<1>5. c = Start(Rear(t, r), j)
  <2>1. /\ Start(Rear(t, r), j) \in Symbols /\ Len(Start(Rear(t, r), j)) = j
        /\ \A k \in 1 .. j : Start(Rear(t, r), j)[k] = Rear(t, r)[k]
    BY <1>1, <1>3, Parts
  <2>2. \A k \in 1 .. j : k \in 1 .. Len(t) - r
    BY <1>0, <1>1
  <2>3. \A k \in 1 .. j : c[k] = Start(Rear(t, r), j)[k]
    BY <1>2, <1>3, <2>1, <2>2
  <2> QED
    BY <1>2, <2>1, <2>3, SameEntries
<1>6. c # << >>
  BY <1>1, <1>2
<1> QED
  BY <1>2, <1>3, <1>4, <1>5, <1>6 DEF c

\* All of it.
LEMMA WholeText ==
  ASSUME NEW t \in Symbols
  PROVE  Start(t, Len(t)) = t /\ Start(t, 0) = << >> /\ Rear(t, 0) = t
<1>0. t \in Symbols /\ Len(t) \in Nat /\ << >> \in Symbols
  BY DEF Symbols
<1>1. Rear(t, Len(t)) = << >> /\ Start(t, Len(t)) \in Symbols /\ Start(t, 0) = << >>
  BY <1>0 DEF Rear, Start, Symbols
<1>2. Cat(Start(t, Len(t)), Rear(t, Len(t))) = t
  BY <1>0, CutsAreKept
<1>3. Rear(t, 0) = t
  BY <1>0 DEF Rear, Symbols
<1> QED
  BY <1>1, <1>2, <1>3, Concatenated

\* The parser in a mode, with buffer B, which has heard th and said sd.
ParserOf(m, B, th, sd) == [inside |-> m = "thought", buffer |-> B, thought |-> th, said |-> sd]
TagsIn(m) == IF m = "thought" THEN {CloseTag} ELSE {OpenTag, CloseTag}

LEMMA OfParts ==
  ASSUME NEW m, NEW B, NEW th, NEW sd
  PROVE  /\ ParserOf(m, B, th, sd).buffer = B
         /\ ParserOf(m, B, th, sd).thought = th
         /\ ParserOf(m, B, th, sd).said = sd
         /\ ParserOf(m, B, th, sd).inside <=> m = "thought"
  BY DEF ParserOf

LEMMA OfChanges ==
  ASSUME NEW m, NEW B, NEW th, NEW sd, NEW x
  PROVE  /\ [ParserOf(m, B, th, sd) EXCEPT !.buffer = x] = ParserOf(m, x, th, sd)
         /\ [ParserOf(m, B, th, sd) EXCEPT !.thought = x] = ParserOf(m, B, x, sd)
         /\ [ParserOf(m, B, th, sd) EXCEPT !.said = x] = ParserOf(m, B, th, x)
  BY DEF ParserOf

LEMMA OfTurns ==
  ASSUME NEW m, NEW B, NEW th, NEW sd, NEW x
  PROVE  [ParserOf(m, B, th, sd) EXCEPT !.inside = (x = "thought")] = ParserOf(x, B, th, sd)
  BY DEF ParserOf

\* What goes on becomes a thought or speech.
Passed(m, m2, B, th, sd, x) == IF m = "thought" THEN ParserOf(m2, B, Cat(th, x), sd) ELSE ParserOf(m2, B, th, Cat(sd, x))

LEMMA OfPasses ==
  ASSUME NEW m, NEW B, NEW th, NEW sd, NEW x
  PROVE  Pass(ParserOf(m, B, th, sd), x) = Passed(m, m, B, th, sd, x)
<1> DEFINE t == ParserOf(m, B, th, sd)
<1>1. t.thought = th /\ t.said = sd /\ (t.inside <=> m = "thought")
  BY OfParts
<1>2. \A y : [t EXCEPT !.thought = y] = ParserOf(m, B, y, sd)
  BY DEF ParserOf
<1>3. \A y : [t EXCEPT !.said = y] = ParserOf(m, B, th, y)
  BY DEF ParserOf
<1> HIDE DEF t
<1>4. Pass(t, x) = IF t.inside THEN [t EXCEPT !.thought = Cat(t.thought, x)] ELSE [t EXCEPT !.said = Cat(t.said, x)]
  BY DEF Pass, Cat
<1>5. CASE m = "thought"
  <2>1. Pass(t, x) = [t EXCEPT !.thought = Cat(th, x)]
    BY <1>1, <1>4, <1>5
  <2> QED
    BY <1>2, <1>5, <2>1 DEF Passed, t
<1>6. CASE m # "thought"
  <2>1. Pass(t, x) = [t EXCEPT !.said = Cat(sd, x)]
    BY <1>1, <1>4, <1>6
  <2> QED
    BY <1>3, <1>6, <2>1 DEF Passed, t
<1> QED
  BY <1>5, <1>6

LEMMA TagsAreMarkers ==
  /\ OpenTag \in Symbols /\ CloseTag \in Symbols /\ Len(OpenTag) = 3 /\ Len(CloseTag) = 4
  /\ OpenTag[1] = "<" /\ OpenTag[2] = "t" /\ OpenTag[3] = ">"
  /\ CloseTag[1] = "<" /\ CloseTag[2] = "/" /\ CloseTag[3] = "t" /\ CloseTag[4] = ">"
  /\ \A m : Markers(TagsIn(m), "<")
<1>1. /\ OpenTag \in Symbols /\ Len(OpenTag) = 3
      /\ OpenTag[1] = "<" /\ OpenTag[2] = "t" /\ OpenTag[3] = ">"
  <2>1. OpenTag \in Symbols
    <3>1. "<" \in Signs /\ "t" \in Signs /\ ">" \in Signs
      BY DEF Signs
    <3> QED
      BY <3>1, ShortSequences, Zenon DEF OpenTag, Symbols
  <2>2. Len(OpenTag) = 3 /\ OpenTag[1] = "<" /\ OpenTag[2] = "t" /\ OpenTag[3] = ">"
    BY DEF OpenTag
  <2> QED
    BY <2>1, <2>2
<1>2. /\ CloseTag \in Symbols /\ Len(CloseTag) = 4
      /\ CloseTag[1] = "<" /\ CloseTag[2] = "/" /\ CloseTag[3] = "t" /\ CloseTag[4] = ">"
  <2>1. CloseTag \in Symbols
    <3>1. "<" \in Signs /\ "/" \in Signs /\ "t" \in Signs /\ ">" \in Signs
      BY DEF Signs
    <3> QED
      BY <3>1, ShortSequences, Zenon DEF CloseTag, Symbols
  <2>2. /\ Len(CloseTag) = 4
        /\ CloseTag[1] = "<" /\ CloseTag[2] = "/" /\ CloseTag[3] = "t" /\ CloseTag[4] = ">"
    BY DEF CloseTag
  <2> QED
    BY <2>1, <2>2
<1>3. \A k \in 2 .. 3 : OpenTag[k] # "<"
  BY <1>1
<1>4. \A k \in 2 .. 4 : CloseTag[k] # "<"
  BY <1>2
<1>5. \A m : \A g \in TagsIn(m) : g = OpenTag \/ g = CloseTag
  BY DEF TagsIn
<1>6. \A m : Markers(TagsIn(m), "<")
  BY <1>1, <1>2, <1>3, <1>4, <1>5 DEF Markers
<1> QED
  BY <1>1, <1>2, <1>6

LEMMA StartsFits ==
  ASSUME NEW s \in Symbols, NEW g \in Symbols, NEW i \in 1 .. Len(s)
  PROVE  /\ Starts(s, g, i) <=> Fits(g, s, i)
         /\ (Len(After(s, i - 1)) < Len(g) /\ IsPrefix(After(s, i - 1), g)) <=> CutAt(g, s, i)
<1>0. s \in Symbols /\ g \in Symbols /\ Len(s) \in Nat /\ Len(g) \in Nat /\ i \in Nat
  BY DEF Symbols
<1>1. Starts(s, g, i) <=> Fits(g, s, i)
  <2>1. CASE i + Len(g) - 1 <= Len(s)
    <3> DEFINE c == SubSeq(s, i, i + Len(g) - 1)
    <3>1. /\ c \in Symbols /\ Len(c) = Len(g)
          /\ \A k \in 1 .. Len(g) : c[k] = s[i + k - 1]
      BY <1>0, <2>1 DEF Symbols
    <3> HIDE DEF c
    <3>2. c = g <=> \A k \in 1 .. Len(g) : c[k] = g[k]
      BY <1>0, <3>1, SameEntries
    <3>3. Starts(s, g, i) <=> c = g
      BY <2>1 DEF Starts, c
    <3> QED
      BY <2>1, <3>1, <3>2, <3>3 DEF Fits
  <2>2. CASE ~(i + Len(g) - 1 <= Len(s))
    BY <2>2 DEF Starts, Fits
  <2> QED
    BY <2>1, <2>2
<1>2. (Len(After(s, i - 1)) < Len(g) /\ IsPrefix(After(s, i - 1), g)) <=> CutAt(g, s, i)
  <2> DEFINE r == After(s, i - 1)
  <2>1. /\ r \in Symbols /\ Len(r) = Len(s) - i + 1
        /\ \A k \in 1 .. Len(s) - i + 1 : r[k] = s[i + k - 1]
    <3>1. i - 1 \in 0 .. Len(s) /\ r = Rear(s, i - 1)
      BY <1>0 DEF After, Rear
    <3> DEFINE j == i - 1
    <3> HIDE DEF r, j
    <3>4. j \in 0 .. Len(s) /\ r = Rear(s, j)
      BY <3>1 DEF j
    <3>5. r \in Symbols /\ Len(r) = Len(s) - j /\ \A k \in 1 .. Len(s) - j : r[k] = s[j + k]
      BY <3>4, Parts
    <3>2. \A k \in 1 .. Len(s) - (i - 1) : r[k] = s[(i - 1) + k]
      BY <3>5 DEF j
    <3>3. r \in Symbols /\ Len(r) = Len(s) - (i - 1)
      BY <3>5 DEF j
    <3> QED
      BY <1>0, <3>2, <3>3
  <2> HIDE DEF r
  <2>2. ASSUME Len(r) < Len(g) PROVE IsPrefix(r, g) <=> CutAt(g, s, i)
    <3> DEFINE c == SubSeq(g, 1, Len(r))
    <3>1. /\ c \in Symbols /\ Len(c) = Len(r)
          /\ \A k \in 1 .. Len(r) : c[k] = g[k]
      BY <1>0, <2>1, <2>2 DEF Symbols
    <3> HIDE DEF c
    <3>2. r = c <=> \A k \in 1 .. Len(r) : r[k] = c[k]
      BY <2>1, <3>1, SameEntries
    <3>3. IsPrefix(r, g) <=> r = c
      <4>1. Len(r) <= Len(g) /\ Len(r) \in Nat
        BY <1>0, <2>1, <2>2
      <4>2. SubSeq(r, 1, Len(r)) = r
        BY <2>1 DEF Symbols
      <4> QED
        BY <4>1, <4>2 DEF IsPrefix, c
    <3> QED
      BY <2>1, <2>2, <3>1, <3>2, <3>3 DEF CutAt
  <2>3. ASSUME ~(Len(r) < Len(g)) PROVE ~CutAt(g, s, i)
    BY <2>1, <2>3 DEF CutAt
  <2> QED
    BY <2>2, <2>3 DEF r
<1> QED
  BY <1>1, <1>2

\* The tags in the buffer of a parser.
LEMMA TagsOfBuffer ==
  ASSUME NEW m \in Modes, NEW B \in Symbols, NEW th, NEW sd
  PROVE  LET t == ParserOf(m, B, th, sd) IN
         /\ Tags(t) = TagsIn(m)
         /\ TagStarts(t) = {i \in 1 .. Len(B) : Marks(TagsIn(m), B, i)}
         /\ TailStarts(t) = {i \in 1 .. Len(B) : BegunAt(TagsIn(m), B, i)}
<1> DEFINE t == ParserOf(m, B, th, sd)
<1>1. t.buffer = B /\ (t.inside <=> m = "thought")
  BY OfParts
<1> HIDE DEF t
<1>2. Tags(t) = TagsIn(m)
  BY <1>1 DEF Tags, TagsIn
<1>3. DOMAIN B = 1 .. Len(B)
  BY SymbolFacts
<1>4. \A g \in TagsIn(m) : g \in Symbols
  BY TagsAreMarkers DEF TagsIn
<1>5. \A i \in 1 .. Len(B) : (\E g \in TagsIn(m) : Starts(B, g, i)) <=> Marks(TagsIn(m), B, i)
  BY <1>4, StartsFits DEF Marks
<1>6. \A i \in 1 .. Len(B) :
        (\E g \in TagsIn(m) : Len(After(B, i - 1)) < Len(g) /\ IsPrefix(After(B, i - 1), g))
          <=> BegunAt(TagsIn(m), B, i)
  BY <1>4, StartsFits DEF BegunAt
<1>7. TagStarts(t) = {i \in 1 .. Len(B) : \E g \in TagsIn(m) : Starts(B, g, i)}
  BY <1>1, <1>2, <1>3 DEF TagStarts
<1>8. TailStarts(t) = {i \in 1 .. Len(B) :
         \E g \in TagsIn(m) : Len(After(B, i - 1)) < Len(g) /\ IsPrefix(After(B, i - 1), g)}
  BY <1>1, <1>2, <1>3 DEF TailStarts
<1>9. TagStarts(t) = {i \in 1 .. Len(B) : Marks(TagsIn(m), B, i)}
  BY <1>5, <1>7
<1>10. TailStarts(t) = {i \in 1 .. Len(B) : BegunAt(TagsIn(m), B, i)}
  BY <1>6, <1>8
<1> QED
  BY <1>2, <1>9, <1>10 DEF t

LEMMA FirstIs ==
  ASSUME NEW S \in SUBSET Nat, NEW i \in S, \A j \in S : i <= j
  PROVE  First(S) = i
<1>1. \A k \in S : (\A j \in S : k <= j) => k = i
  BY SMT
<1> QED
  BY <1>1 DEF First

\* Where the tag at place i of the buffer ends, and the mode it leads to.
TagEnd(B, i) == IF Fits(OpenTag, B, i) THEN i + 2 ELSE i + 3
TagMode(B, i) == IF Fits(OpenTag, B, i) THEN "thought" ELSE "speech"

LEMMA StepTakes ==
  ASSUME NEW m \in Modes, NEW B \in Symbols, NEW th, NEW sd, NEW i, FirstMark(TagsIn(m), B, i)
  PROVE  /\ ThinkStep(ParserOf(m, B, th, sd)) = Passed(m, TagMode(B, i), Rear(B, TagEnd(B, i)), th, sd, Start(B, i - 1))
         /\ TagStarts(ParserOf(m, B, th, sd)) # {}
         /\ TagEnd(B, i) \in i .. Len(B)
<1> DEFINE t == ParserOf(m, B, th, sd)
           S == TagStarts(t)
           tag == CHOOSE g \in Tags(t) : Starts(t.buffer, g, i)
<1>0. Len(B) \in Nat /\ i \in 1 .. Len(B) /\ i \in Nat
  BY SymbolFacts DEF FirstMark
<1>1. S = {j \in 1 .. Len(B) : Marks(TagsIn(m), B, j)} /\ Tags(t) = TagsIn(m)
  BY TagsOfBuffer
<1>2. t.buffer = B
  BY OfParts
<1> HIDE DEF t
<1> HIDE DEF S
<1>3. i \in S /\ S \in SUBSET Nat /\ \A j \in S : i <= j
  <2>1. i \in S /\ S \in SUBSET Nat
    BY <1>0, <1>1 DEF FirstMark
  <2>2. ASSUME NEW j \in S PROVE i <= j
    <3>1. j \in 1 .. Len(B) /\ Marks(TagsIn(m), B, j)
      BY <1>1
    <3>2. j \notin 1 .. i - 1
      BY <3>1 DEF FirstMark
    <3> QED
      BY <1>0, <3>1, <3>2
  <2> QED
    BY <2>1, <2>2
<1>4. First(S) = i
  BY <1>3, FirstIs
<1>5. \A g \in TagsIn(m) : Starts(B, g, i) <=> Fits(g, B, i)
  BY <1>0, StartsFits, TagsAreMarkers DEF TagsIn
<1>6. \E g \in TagsIn(m) : Fits(g, B, i)
  BY DEF FirstMark, Marks
<1>7. tag \in TagsIn(m) /\ Fits(tag, B, i)
  BY <1>1, <1>2, <1>5, <1>6
<1>8. ~(Fits(OpenTag, B, i) /\ Fits(CloseTag, B, i))
  <2> SUFFICES ASSUME Fits(OpenTag, B, i), Fits(CloseTag, B, i) PROVE FALSE
    OBVIOUS
  <2>1. 2 \in 1 .. Len(OpenTag) /\ 2 \in 1 .. Len(CloseTag)
    BY TagsAreMarkers
  <2>2. B[i + 2 - 1] = OpenTag[2] /\ B[i + 2 - 1] = CloseTag[2]
    BY <2>1 DEF Fits
  <2> QED
    BY <2>2, TagsAreMarkers
<1> HIDE DEF tag
<1>9. tag \in {OpenTag, CloseTag} /\ (tag = OpenTag <=> Fits(OpenTag, B, i))
  BY <1>7, <1>8 DEF TagsIn
<1>10. i + Len(tag) - 1 = TagEnd(B, i) /\ TagEnd(B, i) \in i .. Len(B)
  <2>1. Len(tag) = IF Fits(OpenTag, B, i) THEN 3 ELSE 4
    BY <1>9, TagsAreMarkers
  <2>2. i + Len(tag) - 1 <= Len(B)
    BY <1>7 DEF Fits
  <2> QED
    BY <1>0, <2>1, <2>2 DEF TagEnd
<1>11. ThinkStep(t) = [Pass(t, Upto(B, i - 1)) EXCEPT
                         !.buffer = After(B, i + Len(tag) - 1), !.inside = (tag = OpenTag)]
  <2>1. TagStarts(t) # {} /\ First(TagStarts(t)) = i
    BY <1>3, <1>4 DEF S
  <2> QED
    BY <1>2, <2>1 DEF ThinkStep, tag
<1>12. tag = OpenTag <=> TagMode(B, i) = "thought"
  BY <1>9 DEF TagMode
<1> DEFINE m2 == TagMode(B, i)
           R == Rear(B, TagEnd(B, i))
           x == Start(B, i - 1)
<1>13. After(B, i + Len(tag) - 1) = R /\ Upto(B, i - 1) = x
  BY <1>10 DEF After, Upto, Rear, Start
<1>14. ThinkStep(t) = [Pass(t, x) EXCEPT !.buffer = R, !.inside = (m2 = "thought")]
  BY <1>11, <1>12, <1>13
<1>15. Pass(t, x) = Passed(m, m, B, th, sd, x)
  BY OfPasses DEF t
<1> HIDE DEF m2, R, x
<1>16. ASSUME NEW p, NEW q
       PROVE  [ParserOf(m, B, p, q) EXCEPT !.buffer = R, !.inside = (m2 = "thought")] = ParserOf(m2, R, p, q)
  <2>1. [ParserOf(m, B, p, q) EXCEPT !.buffer = R] = ParserOf(m, R, p, q)
    BY OfChanges
  <2>2. [ParserOf(m, R, p, q) EXCEPT !.inside = (m2 = "thought")] = ParserOf(m2, R, p, q)
    BY OfTurns
  <2>3. [ParserOf(m, B, p, q) EXCEPT !.buffer = R, !.inside = (m2 = "thought")]
          = [[ParserOf(m, B, p, q) EXCEPT !.buffer = R] EXCEPT !.inside = (m2 = "thought")]
    OBVIOUS
  <2> QED
    BY <2>1, <2>2, <2>3
<1>17. ThinkStep(t) = Passed(m, m2, R, th, sd, x)
  <2> DEFINE y == IF m = "thought" THEN Cat(th, x) ELSE th
             z == IF m = "thought" THEN sd ELSE Cat(sd, x)
  <2>1. \A C, m3 : Passed(m, m3, C, th, sd, x) = ParserOf(m3, C, y, z)
    BY DEF Passed
  <2> HIDE DEF y, z
  <2>2. Pass(t, x) = ParserOf(m, B, y, z)
    BY <1>15, <2>1
  <2>4. [ParserOf(m, B, y, z) EXCEPT !.buffer = R, !.inside = (m2 = "thought")] = ParserOf(m2, R, y, z)
    BY <1>16
  <2>3. ThinkStep(t) = ParserOf(m2, R, y, z)
    BY <1>14, <2>2, <2>4
  <2> QED
    BY <2>1, <2>3
<1> QED
  BY <1>3, <1>10, <1>17 DEF t, m2, R, x, S

LEMMA StepKeeps ==
  ASSUME NEW m \in Modes, NEW B \in Symbols, NEW th, NEW sd, NEW n \in 0 .. Len(B),
         KeptFrom(TagsIn(m), B, n + 1)
  PROVE  /\ ThinkStep(ParserOf(m, B, th, sd)) = Passed(m, m, Rear(B, n), th, sd, Start(B, n))
         /\ TagStarts(ParserOf(m, B, th, sd)) = {}
<1> DEFINE t == ParserOf(m, B, th, sd)
           S == TailStarts(t)
<1>0. Len(B) \in Nat /\ n \in Nat
  BY SymbolFacts
<1>1. /\ TagStarts(t) = {j \in 1 .. Len(B) : Marks(TagsIn(m), B, j)}
      /\ S = {j \in 1 .. Len(B) : BegunAt(TagsIn(m), B, j)}
  BY TagsOfBuffer
<1>2. t.buffer = B
  BY OfParts
<1> HIDE DEF t
<1>3. TagStarts(t) = {}
  BY <1>1 DEF KeptFrom, NoMark
<1>4. (IF S = {} THEN Len(B) + 1 ELSE First(S)) = n + 1
  <2>0. \A j \in S : j \in 1 .. Len(B) /\ BegunAt(TagsIn(m), B, j) /\ n + 1 <= j
    <3> TAKE j \in S
    <3>1. j \in 1 .. Len(B) /\ BegunAt(TagsIn(m), B, j)
      BY <1>1
    <3>2. j \notin 1 .. (n + 1) - 1
      BY <3>1 DEF KeptFrom
    <3> QED
      BY <1>0, <3>1, <3>2
  <2>1. CASE n < Len(B)
    <3>1. n + 1 \in S
      BY <1>0, <1>1, <2>1 DEF KeptFrom
    <3>2. S \in SUBSET Nat
      BY <1>0, <1>1
    <3> QED
      BY <2>0, <3>1, <3>2, FirstIs
  <2>2. CASE n = Len(B)
    BY <1>0, <2>0, <2>2
  <2> QED
    BY <1>0, <2>1, <2>2
<1>5. ThinkStep(t) = [Pass(t, Upto(B, n)) EXCEPT !.buffer = After(B, n)]
  <2>1. (n + 1) - 1 = n
    BY <1>0
  <2> DEFINE k == IF S = {} THEN Len(B) + 1 ELSE First(S)
  <2>2. ThinkStep(t) = [Pass(t, Upto(B, k - 1)) EXCEPT !.buffer = After(B, k - 1)]
    BY <1>2, <1>3 DEF ThinkStep
  <2>3. k - 1 = n
    BY <1>4, <2>1
  <2> HIDE DEF k
  <2> QED
    BY <2>2, <2>3
<1>6. Upto(B, n) = Start(B, n) /\ After(B, n) = Rear(B, n)
  BY DEF Upto, Start, After, Rear
<1>7. Pass(t, Start(B, n)) = Passed(m, m, B, th, sd, Start(B, n))
  BY OfPasses DEF t
<1>8. \A p, q : [ParserOf(m, B, p, q) EXCEPT !.buffer = Rear(B, n)] = ParserOf(m, Rear(B, n), p, q)
  BY OfChanges
<1>9. ThinkStep(t) = Passed(m, m, Rear(B, n), th, sd, Start(B, n))
  BY <1>5, <1>6, <1>7, <1>8 DEF Passed
<1> QED
  BY <1>3, <1>9 DEF t

Steps(f, t, n) == f[0] = t /\ \A i \in 1 .. n : f[i] = ThinkStep(f[i - 1])
Running(f, t, n) ==
  f = [i \in 0 .. n |-> IF i = 0 THEN t ELSE Only({ThinkStep(u) : u \in {f[i - 1]}})]

LEMMA OnlyStep == ASSUME NEW x PROVE Only({ThinkStep(u) : u \in {x}}) = ThinkStep(x)
  BY DEF Only

LEMMA RunsExist ==
  ASSUME NEW t, NEW n \in Nat
  PROVE  \E f : Running(f, t, n)
<1> DEFINE S == {k \in Nat : \E f : Running(f, t, k)}
<1>1. 0 \in S
  <2> DEFINE f == [i \in 0 .. 0 |-> t]
  <2>1. \A i \in 0 .. 0 : i = 0
    OBVIOUS
  <2>2. Running(f, t, 0)
    BY <2>1 DEF Running
  <2> QED
    BY <2>2
<1>2. ASSUME NEW k \in Nat, k \in S PROVE k + 1 \in S
  <2>1. PICK f : Running(f, t, k)
    BY <1>2
  <2> DEFINE g == [i \in 0 .. k + 1 |-> IF i = k + 1 THEN Only({ThinkStep(u) : u \in {f[k]}}) ELSE f[i]]
  <2>2. \A i \in 0 .. k : f[i] = IF i = 0 THEN t ELSE Only({ThinkStep(u) : u \in {f[i - 1]}})
    BY <2>1, Zenon DEF Running
  <2>3. \A i \in 0 .. k : g[i] = f[i]
    BY SMT
  <2>4. g[k + 1] = Only({ThinkStep(u) : u \in {f[k]}})
    BY SMT
  <2>5. ASSUME NEW i \in 0 .. k + 1
        PROVE  g[i] = IF i = 0 THEN t ELSE Only({ThinkStep(u) : u \in {g[i - 1]}})
    <3>1. CASE i = k + 1
      <4>1. i # 0 /\ i - 1 = k /\ k \in 0 .. k
        BY <3>1
      <4>2. g[i - 1] = f[k]
        BY <2>3, <4>1
      <4>3. g[i] = Only({ThinkStep(u) : u \in {f[k]}})
        BY <2>4, <3>1
      <4> HIDE DEF g
      <4> QED
        BY <4>1, <4>2, <4>3, Zenon
    <3>2. CASE i # k + 1
      <4>1. i \in 0 .. k /\ (i # 0 => i - 1 \in 0 .. k)
        BY <3>2
      <4>2. g[i] = f[i] /\ (i # 0 => g[i - 1] = f[i - 1])
        BY <2>3, <4>1
      <4>3. f[i] = IF i = 0 THEN t ELSE Only({ThinkStep(u) : u \in {f[i - 1]}})
        BY <2>2, <4>1, Zenon
      <4> HIDE DEF g
      <4> QED
        BY <4>2, <4>3, Zenon
    <3> QED
      BY <3>1, <3>2
  <2>6. g = [i \in 0 .. k + 1 |-> g[i]]
    OBVIOUS
  <2>7. Running(g, t, k + 1)
    <3> HIDE DEF g
    <3> QED
      BY <2>5, <2>6, Zenon DEF Running
  <2> QED
    BY <2>7
<1> HIDE DEF S
<1>3. n \in S
  BY <1>1, <1>2, Induct
<1> QED
  BY <1>3 DEF S

\* What ThinkFeed returns is the last of its steps.
Fed_(m, B, th, sd, u) == \E f : Steps(f, ParserOf(m, B, th, sd), Len(B) + 1) /\ u = f[Len(B) + 1]

LEMMA FeedSteps ==
  ASSUME NEW m \in Modes, NEW B \in Symbols, NEW th, NEW sd, NEW c \in Symbols
  PROVE  Fed_(m, Cat(B, c), th, sd, ThinkFeed(ParserOf(m, B, th, sd), c))
<1> DEFINE t == ParserOf(m, B, th, sd)
           N == Len(t.buffer) + Len(c) + 1
           t0 == [t EXCEPT !.buffer = Cat(t.buffer, c)]
<1>1. t.buffer = B /\ t0 = ParserOf(m, Cat(B, c), th, sd)
  BY OfParts, OfChanges
<1>2. Len(Cat(B, c)) = Len(B) + Len(c) /\ Len(B) \in Nat /\ Len(c) \in Nat
  BY SymbolFacts
<1>3. N \in Nat /\ N = Len(Cat(B, c)) + 1
  BY <1>1, <1>2
<1> HIDE DEF t, t0, N
<1> DEFINE parse == CHOOSE f : f = [i \in 0 .. N |-> IF i = 0 THEN t0 ELSE Only({ThinkStep(u) : u \in {f[i - 1]}})]
<1>4. ThinkFeed(t, c) = parse[N]
  BY DEF ThinkFeed, t0, N, Cat
<1>5. parse = [i \in 0 .. N |-> IF i = 0 THEN t0 ELSE Only({ThinkStep(u) : u \in {parse[i - 1]}})]
  <2>1. \E f : f = [i \in 0 .. N |-> IF i = 0 THEN t0 ELSE Only({ThinkStep(u) : u \in {f[i - 1]}})]
    <3>1. \E f : Running(f, t0, N)
      BY <1>3, RunsExist
    <3> QED
      BY <3>1, Zenon DEF Running
  <2> QED
    BY <2>1, Zenon
<1> HIDE DEF parse
<1>6. \A i \in 0 .. N : parse[i] = IF i = 0 THEN t0 ELSE Only({ThinkStep(u) : u \in {parse[i - 1]}})
  BY <1>5, Zenon
<1>7. parse[0] = t0
  <2>1. 0 \in 0 .. N
    BY <1>3
  <2> QED
    BY <1>6, <2>1, Zenon
<1>8. ASSUME NEW i \in 1 .. N PROVE parse[i] = ThinkStep(parse[i - 1])
  <2>1. i \in 0 .. N /\ i # 0
    BY <1>3
  <2>2. parse[i] = Only({ThinkStep(u) : u \in {parse[i - 1]}})
    BY <1>6, <2>1, Zenon
  <2> QED
    BY <2>2, OnlyStep
<1>9. Steps(parse, t0, N)
  BY <1>7, <1>8 DEF Steps
<1>10. Steps(parse, ParserOf(m, Cat(B, c), th, sd), Len(Cat(B, c)) + 1) /\ ThinkFeed(t, c) = parse[Len(Cat(B, c)) + 1]
  BY <1>1, <1>3, <1>4, <1>9
<1> QED
  BY <1>10 DEF Fed_, t

\* A parser after one of its steps.
LEMMA StepIs ==
  ASSUME NEW m \in Modes, NEW B \in Symbols, NEW th \in Symbols, NEW sd \in Symbols
  PROVE  \/ \E i \in 1 .. Len(B) :
              /\ FirstMark(TagsIn(m), B, i)
              /\ ThinkStep(ParserOf(m, B, th, sd)) = Passed(m, TagMode(B, i), Rear(B, TagEnd(B, i)), th, sd, Start(B, i - 1))
              /\ TagEnd(B, i) \in i .. Len(B)
         \/ \E n \in 0 .. Len(B) :
              /\ KeptFrom(TagsIn(m), B, n + 1)
              /\ ThinkStep(ParserOf(m, B, th, sd)) = Passed(m, m, Rear(B, n), th, sd, Start(B, n))
<1>0. B \in Symbols /\ Len(B) \in Nat
  BY SymbolFacts
<1>1. CASE \E i \in 1 .. Len(B) : FirstMark(TagsIn(m), B, i)
  BY <1>1, StepTakes
<1>2. CASE \E k \in 1 .. Len(B) + 1 : KeptFrom(TagsIn(m), B, k)
  <2>1. PICK k \in 1 .. Len(B) + 1 : KeptFrom(TagsIn(m), B, k)
    BY <1>2
  <2> DEFINE n == k - 1
  <2>2. n \in 0 .. Len(B) /\ n + 1 = k
    BY <1>0
  <2> HIDE DEF n
  <2>3. KeptFrom(TagsIn(m), B, n + 1)
    BY <2>1, <2>2
  <2>4. ThinkStep(ParserOf(m, B, th, sd)) = Passed(m, m, Rear(B, n), th, sd, Start(B, n))
    BY <2>2, <2>3, StepKeeps
  <2> QED
    BY <2>2, <2>3, <2>4
<1> QED
  BY <1>0, <1>1, <1>2, MarkedOrKept

\* What is passed on.
Taken(m, th, sd, x, th2, sd2) ==
  /\ \A C, m3 : Passed(m, m3, C, th, sd, x) = ParserOf(m3, C, th2, sd2)
  /\ \A y \in Symbols : \A C, m3 :
       Passed(m, m3, C, th2, sd2, y) = Passed(m, m3, C, th, sd, Cat(x, y))
  /\ \A p \in Symbols : \A C, m3 :
       Passed(m, m3, C, th, Cat(p, sd), x) = ParserOf(m3, C, th2, Cat(p, sd2))

LEMMA PassedIs ==
  ASSUME NEW m, NEW th \in Symbols, NEW sd \in Symbols, NEW x \in Symbols
  PROVE  \E th2, sd2 \in Symbols : Taken(m, th, sd, x, th2, sd2)
<1>1. CASE m = "thought"
  <2> DEFINE th2 == Cat(th, x)
  <2>1. th2 \in Symbols
    BY SymbolFacts
  <2>2. \A y \in Symbols : Cat(th2, y) = Cat(th, Cat(x, y))
    BY ConcatAssociates, SymbolFacts
  <2>3. \A C, m3 : Passed(m, m3, C, th, sd, x) = ParserOf(m3, C, th2, sd)
    BY <1>1 DEF Passed
  <2>4. \A y, C, m3 : Passed(m, m3, C, th2, sd, y) = ParserOf(m3, C, Cat(th2, y), sd)
    BY <1>1 DEF Passed
  <2>5. \A y, C, m3 : Passed(m, m3, C, th, sd, Cat(x, y)) = ParserOf(m3, C, Cat(th, Cat(x, y)), sd)
    BY <1>1 DEF Passed
  <2>6. \A p, C, m3 : Passed(m, m3, C, th, Cat(p, sd), x) = ParserOf(m3, C, th2, Cat(p, sd))
    BY <1>1 DEF Passed
  <2> HIDE DEF th2
  <2>7. \A y \in Symbols : \A C, m3 : Passed(m, m3, C, th2, sd, y) = Passed(m, m3, C, th, sd, Cat(x, y))
    <3> TAKE y \in Symbols
    <3> TAKE C, m3
    <3>1. Cat(th2, y) = Cat(th, Cat(x, y))
      BY <2>2
    <3> QED
      BY <2>4, <2>5, <3>1
  <2>8. Taken(m, th, sd, x, th2, sd)
    BY <2>3, <2>6, <2>7, Zenon DEF Taken
  <2> QED
    BY <2>1, <2>8
<1>2. CASE m # "thought"
  <2> DEFINE sd2 == Cat(sd, x)
  <2>1. sd2 \in Symbols
    BY SymbolFacts
  <2>2. \A y \in Symbols : Cat(sd2, y) = Cat(sd, Cat(x, y))
    BY ConcatAssociates, SymbolFacts
  <2>8. \A p \in Symbols : Cat(Cat(p, sd), x) = Cat(p, sd2)
    BY ConcatAssociates, SymbolFacts
  <2>3. \A C, m3 : Passed(m, m3, C, th, sd, x) = ParserOf(m3, C, th, sd2)
    BY <1>2 DEF Passed
  <2>4. \A y, C, m3 : Passed(m, m3, C, th, sd2, y) = ParserOf(m3, C, th, Cat(sd2, y))
    BY <1>2 DEF Passed
  <2>5. \A y, C, m3 : Passed(m, m3, C, th, sd, Cat(x, y)) = ParserOf(m3, C, th, Cat(sd, Cat(x, y)))
    BY <1>2 DEF Passed
  <2>6. \A p, C, m3 : Passed(m, m3, C, th, Cat(p, sd), x) = ParserOf(m3, C, th, Cat(Cat(p, sd), x))
    BY <1>2 DEF Passed
  <2> HIDE DEF sd2
  <2>7. \A y \in Symbols : \A C, m3 : Passed(m, m3, C, th, sd2, y) = Passed(m, m3, C, th, sd, Cat(x, y))
    <3> TAKE y \in Symbols
    <3> TAKE C, m3
    <3>1. Cat(sd2, y) = Cat(sd, Cat(x, y))
      BY <2>2
    <3> QED
      BY <2>4, <2>5, <3>1
  <2>9. \A p \in Symbols : \A C, m3 : Passed(m, m3, C, th, Cat(p, sd), x) = ParserOf(m3, C, th, Cat(p, sd2))
    <3> TAKE p \in Symbols
    <3> TAKE C, m3
    <3>1. Cat(Cat(p, sd), x) = Cat(p, sd2)
      BY <2>8
    <3> QED
      BY <2>6, <3>1
  <2>10. Taken(m, th, sd, x, th, sd2)
    BY <2>3, <2>7, <2>9, Zenon DEF Taken
  <2> QED
    BY <2>1, <2>10
<1> QED
  BY <1>1, <1>2

EndsIn(t, n, u) == \E f : Steps(f, t, n) /\ u = f[n]

LEMMA EndsAfterOne ==
  ASSUME NEW t, NEW n \in Nat, NEW u, EndsIn(t, n + 1, u)
  PROVE  EndsIn(ThinkStep(t), n, u)
<1>1. PICK f : Steps(f, t, n + 1) /\ u = f[n + 1]
  BY DEF EndsIn
<1> DEFINE g == [i \in 0 .. n |-> f[i + 1]]
<1>2. g[0] = f[1] /\ f[1] = ThinkStep(t)
  <2>1. 1 \in 1 .. n + 1 /\ 1 - 1 = 0 /\ 0 \in 0 .. n /\ 0 + 1 = 1
    OBVIOUS
  <2>2. f[1] = ThinkStep(f[0]) /\ f[0] = t
    BY <1>1, <2>1 DEF Steps
  <2> QED
    BY <2>1, <2>2
<1>3. ASSUME NEW i \in 1 .. n PROVE g[i] = ThinkStep(g[i - 1])
  <2>1. i + 1 \in 1 .. n + 1 /\ i \in 0 .. n /\ i - 1 \in 0 .. n /\ (i + 1) - 1 = i /\ (i - 1) + 1 = i
    OBVIOUS
  <2>2. f[i + 1] = ThinkStep(f[i])
    BY <1>1, <2>1 DEF Steps
  <2>3. g[i] = f[i + 1] /\ g[i - 1] = f[i]
    BY <2>1
  <2> QED
    BY <2>2, <2>3
<1>4. g[n] = u
  BY <1>1
<1> HIDE DEF g
<1> QED
  BY <1>2, <1>3, <1>4 DEF EndsIn, Steps

LEMMA EndsStill ==
  ASSUME NEW v, ThinkStep(v) = v, NEW n \in Nat, NEW u, EndsIn(v, n, u)
  PROVE  u = v
<1>1. PICK f : Steps(f, v, n) /\ u = f[n]
  BY DEF EndsIn
<1> DEFINE S == {k \in Nat : k <= n => f[k] = v}
<1>2. 0 \in S
  BY <1>1 DEF Steps
<1>3. ASSUME NEW k \in Nat, k \in S PROVE k + 1 \in S
  <2> SUFFICES ASSUME k + 1 <= n PROVE f[k + 1] = v
    OBVIOUS
  <2>1. k + 1 \in 1 .. n /\ (k + 1) - 1 = k /\ k <= n
    OBVIOUS
  <2>2. f[k + 1] = ThinkStep(f[k])
    BY <1>1, <2>1 DEF Steps
  <2> QED
    BY <1>3, <2>1, <2>2
<1> HIDE DEF S
<1>4. n \in S
  BY <1>2, <1>3, Induct
<1> QED
  BY <1>1, <1>4 DEF S

\* A step that keeps something changes nothing when it is repeated.
LEMMA KeepingIsStill ==
  ASSUME NEW m \in Modes, NEW B \in Symbols, NEW th \in Symbols, NEW sd \in Symbols, NEW n \in 0 .. Len(B),
         KeptFrom(TagsIn(m), B, n + 1)
  PROVE  ThinkStep(ThinkStep(ParserOf(m, B, th, sd))) = ThinkStep(ParserOf(m, B, th, sd))
<1> DEFINE x == Start(B, n)
           R == Rear(B, n)
<1>0. B \in Symbols /\ Markers(TagsIn(m), "<")
  BY TagsAreMarkers, SymbolFacts
<1>1. x \in Symbols /\ R \in Symbols
  BY <1>0, Parts, SymbolFacts
<1>2. KeptFrom(TagsIn(m), R, 1)
  BY <1>0, KeptIsKept
<1>3. ThinkStep(ParserOf(m, B, th, sd)) = Passed(m, m, R, th, sd, x)
  BY StepKeeps
<1> HIDE DEF x, R
<1>4. PICK th2 \in Symbols, sd2 \in Symbols : Passed(m, m, R, th, sd, x) = ParserOf(m, R, th2, sd2)
  <2>1. PICK th2 \in Symbols, sd2 \in Symbols : Taken(m, th, sd, x, th2, sd2)
    BY <1>1, PassedIs
  <2> QED
    BY <2>1 DEF Taken
<1>5. ThinkStep(ParserOf(m, R, th2, sd2)) = Passed(m, m, Rear(R, 0), th2, sd2, Start(R, 0))
  <2>1. 0 \in 0 .. Len(R) /\ KeptFrom(TagsIn(m), R, 0 + 1)
    BY <1>1, <1>2, SymbolFacts
  <2> QED
    BY <1>1, <2>1, StepKeeps
<1>6. Rear(R, 0) = R /\ Start(R, 0) = << >>
  BY <1>1, WholeText
<1>7. Cat(th2, << >>) = th2 /\ Cat(sd2, << >>) = sd2
  BY Concatenated, SymbolFacts
<1>8. Passed(m, m, R, th2, sd2, << >>) = ParserOf(m, R, th2, sd2)
  BY <1>7 DEF Passed
<1> QED
  BY <1>3, <1>4, <1>5, <1>6, <1>8

\* However many steps are taken, if they are enough.
Settled(m, B, th, sd) ==
  \A n, p \in Nat : n >= Len(B) + 1 /\ p >= Len(B) + 1 =>
    \A u, v : EndsIn(ParserOf(m, B, th, sd), n, u) /\ EndsIn(ParserOf(m, B, th, sd), p, v) => u = v

LEMMA AllSettle ==
  ASSUME NEW m \in Modes, NEW B \in Symbols, NEW th \in Symbols, NEW sd \in Symbols
  PROVE  Settled(m, B, th, sd)
<1> DEFINE S == {L \in Nat : \A m1 \in Modes, B1, th1, sd1 \in Symbols : Len(B1) <= L => Settled(m1, B1, th1, sd1)}
<1>0. \A C \in Symbols : Len(C) \in Nat /\ C \in Symbols
  BY SymbolFacts
<1>1. ASSUME NEW m1 \in Modes, NEW B1 \in Symbols, NEW th1 \in Symbols, NEW sd1 \in Symbols,
             \A m2 \in Modes, B2, th2, sd2 \in Symbols : Len(B2) < Len(B1) => Settled(m2, B2, th2, sd2)
      PROVE  Settled(m1, B1, th1, sd1)
  <2> DEFINE t == ParserOf(m1, B1, th1, sd1)
  <2> SUFFICES ASSUME NEW n \in Nat, NEW p \in Nat, n >= Len(B1) + 1, p >= Len(B1) + 1, NEW u, NEW v,
                      EndsIn(t, n, u), EndsIn(t, p, v)
               PROVE  u = v
    BY Zenon DEF Settled
  <2>1. Len(B1) \in Nat /\ n - 1 \in Nat /\ p - 1 \in Nat /\ (n - 1) + 1 = n /\ (p - 1) + 1 = p
    BY <1>0
  <2>2. EndsIn(ThinkStep(t), n - 1, u) /\ EndsIn(ThinkStep(t), p - 1, v)
    <3> DEFINE n1 == n - 1
               p1 == p - 1
    <3>1. n1 \in Nat /\ p1 \in Nat /\ EndsIn(t, n1 + 1, u) /\ EndsIn(t, p1 + 1, v)
      BY <2>1
    <3> HIDE DEF n1, p1, t
    <3>2. EndsIn(ThinkStep(t), n1, u) /\ EndsIn(ThinkStep(t), p1, v)
      BY <3>1, EndsAfterOne
    <3> QED
      BY <3>2 DEF n1, p1
  <2>3. CASE \E k \in 0 .. Len(B1) : KeptFrom(TagsIn(m1), B1, k + 1)
    <3>1. ThinkStep(ThinkStep(t)) = ThinkStep(t)
      BY <2>3, KeepingIsStill
    <3> HIDE DEF t
    <3> QED
      BY <2>1, <2>2, <3>1, EndsStill
  <2>4. CASE \E i \in 1 .. Len(B1) :
               /\ FirstMark(TagsIn(m1), B1, i)
               /\ ThinkStep(t) = Passed(m1, TagMode(B1, i), Rear(B1, TagEnd(B1, i)), th1, sd1, Start(B1, i - 1))
               /\ TagEnd(B1, i) \in i .. Len(B1)
    <3>1. PICK i \in 1 .. Len(B1) :
               /\ ThinkStep(t) = Passed(m1, TagMode(B1, i), Rear(B1, TagEnd(B1, i)), th1, sd1, Start(B1, i - 1))
               /\ TagEnd(B1, i) \in i .. Len(B1)
      BY <2>4
    <3> DEFINE m2 == TagMode(B1, i)
               e == TagEnd(B1, i)
               B2 == Rear(B1, e)
               x == Start(B1, i - 1)
    <3>2. m2 \in Modes
      BY DEF TagMode, Modes
    <3>3. e \in 0 .. Len(B1) /\ e >= 1 /\ i - 1 \in 0 .. Len(B1)
      BY <2>1, <3>1
    <3>4. B2 \in Symbols /\ Len(B2) = Len(B1) - e /\ x \in Symbols
      BY <1>0, <3>3, Parts, SymbolFacts
    <3>5. ThinkStep(t) = Passed(m1, m2, B2, th1, sd1, x)
      BY <3>1
    <3> HIDE DEF t, m2, B2, x, e
    <3>6. PICK th2 \in Symbols, sd2 \in Symbols : Passed(m1, m2, B2, th1, sd1, x) = ParserOf(m2, B2, th2, sd2)
      <4>1. PICK th2 \in Symbols, sd2 \in Symbols : Taken(m1, th1, sd1, x, th2, sd2)
        BY <3>4, PassedIs
      <4> QED
        BY <4>1 DEF Taken
    <3>7. Len(B2) \in Nat /\ Len(B2) < Len(B1) /\ n - 1 >= Len(B2) + 1 /\ p - 1 >= Len(B2) + 1
      BY <2>1, <3>3, <3>4
    <3>8. Settled(m2, B2, th2, sd2)
      BY <1>1, <3>2, <3>4, <3>7
    <3>9. EndsIn(ParserOf(m2, B2, th2, sd2), n - 1, u) /\ EndsIn(ParserOf(m2, B2, th2, sd2), p - 1, v)
      BY <2>2, <3>5, <3>6
    <3> DEFINE n1 == n - 1
               p1 == p - 1
    <3>10. n1 \in Nat /\ p1 \in Nat /\ n1 >= Len(B2) + 1 /\ p1 >= Len(B2) + 1
      BY <2>1, <3>7
    <3>11. EndsIn(ParserOf(m2, B2, th2, sd2), n1, u) /\ EndsIn(ParserOf(m2, B2, th2, sd2), p1, v)
      BY <3>9
    <3> HIDE DEF n1, p1
    <3> QED
      BY <3>8, <3>10, <3>11, Zenon DEF Settled
  <2>5. TRUE
    OBVIOUS
  <2> QED
    BY <2>3, <2>4, StepIs
<1>2. 0 \in S
  <2> SUFFICES ASSUME NEW m1 \in Modes, NEW B1 \in Symbols, NEW th1 \in Symbols, NEW sd1 \in Symbols, Len(B1) <= 0
               PROVE  Settled(m1, B1, th1, sd1)
    OBVIOUS
  <2>1. \A m2 \in Modes, B2, th2, sd2 \in Symbols : Len(B2) < Len(B1) => Settled(m2, B2, th2, sd2)
    BY <1>0
  <2> QED
    BY <1>1, <2>1
<1>3. ASSUME NEW L \in Nat, L \in S PROVE L + 1 \in S
  <2> SUFFICES ASSUME NEW m1 \in Modes, NEW B1 \in Symbols, NEW th1 \in Symbols, NEW sd1 \in Symbols, Len(B1) <= L + 1
               PROVE  Settled(m1, B1, th1, sd1)
    OBVIOUS
  <2>1. \A m2 \in Modes, B2, th2, sd2 \in Symbols : Len(B2) < Len(B1) => Settled(m2, B2, th2, sd2)
    BY <1>0, <1>3
  <2> QED
    BY <1>1, <2>1
<1> HIDE DEF S
<1>4. Len(B) \in S
  BY <1>0, <1>2, <1>3, Induct
<1>5. Len(B) <= Len(B)
  BY <1>0
<1> QED
  BY <1>4, <1>5 DEF S

\* The parser after all that it can do with what it has.
Fin(m, B, th, sd) == ThinkFeed(ParserOf(m, B, th, sd), << >>)

LEMMA FinIs ==
  ASSUME NEW m \in Modes, NEW B \in Symbols, NEW th \in Symbols, NEW sd \in Symbols
  PROVE  /\ EndsIn(ParserOf(m, B, th, sd), Len(B) + 1, Fin(m, B, th, sd))
         /\ \A n \in Nat : \A u : n >= Len(B) + 1 /\ EndsIn(ParserOf(m, B, th, sd), n, u) => u = Fin(m, B, th, sd)
         /\ \A c \in Symbols : ThinkFeed(ParserOf(m, B, th, sd), c) = Fin(m, Cat(B, c), th, sd)
<1>0. << >> \in Symbols /\ Cat(B, << >>) = B /\ Len(B) \in Nat
  BY Concatenated, SymbolFacts
<1>1. \A C \in Symbols : EndsIn(ParserOf(m, C, th, sd), Len(C) + 1, Fin(m, C, th, sd))
  <2> TAKE C \in Symbols
  <2>1. Cat(C, << >>) = C
    BY Concatenated, SymbolFacts
  <2>2. Fed_(m, Cat(C, << >>), th, sd, Fin(m, C, th, sd))
    BY <1>0, FeedSteps DEF Fin
  <2> QED
    BY <2>1, <2>2 DEF Fed_, EndsIn
<1>2. ASSUME NEW C \in Symbols, NEW n \in Nat, NEW u, n >= Len(C) + 1, EndsIn(ParserOf(m, C, th, sd), n, u)
      PROVE  u = Fin(m, C, th, sd)
  <2>1. Settled(m, C, th, sd)
    BY AllSettle
  <2>2. Len(C) + 1 \in Nat /\ Len(C) + 1 >= Len(C) + 1
    BY SymbolFacts
  <2>3. EndsIn(ParserOf(m, C, th, sd), Len(C) + 1, Fin(m, C, th, sd))
    BY <1>1
  <2> QED
    BY <1>2, <2>1, <2>2, <2>3, Zenon DEF Settled
<1>3. ASSUME NEW c \in Symbols PROVE ThinkFeed(ParserOf(m, B, th, sd), c) = Fin(m, Cat(B, c), th, sd)
  <2>1. Cat(B, c) \in Symbols
    BY SymbolFacts
  <2>2. Fed_(m, Cat(B, c), th, sd, ThinkFeed(ParserOf(m, B, th, sd), c))
    BY FeedSteps
  <2>3. EndsIn(ParserOf(m, Cat(B, c), th, sd), Len(Cat(B, c)) + 1, ThinkFeed(ParserOf(m, B, th, sd), c))
    BY <2>2 DEF Fed_, EndsIn
  <2>4. Len(Cat(B, c)) + 1 \in Nat /\ Len(Cat(B, c)) + 1 >= Len(Cat(B, c)) + 1
    BY <2>1, SymbolFacts
  <2> QED
    BY <1>2, <2>1, <2>3, <2>4
<1> QED
  BY <1>1, <1>2, <1>3

\* One step, and the rest; or one step only.
Leads(m, B, th, sd, m2, B2, th2, sd2) ==
  /\ m \in Modes /\ B \in Symbols /\ th \in Symbols /\ sd \in Symbols
  /\ m2 \in Modes /\ B2 \in Symbols /\ th2 \in Symbols /\ sd2 \in Symbols
  /\ ThinkStep(ParserOf(m, B, th, sd)) = ParserOf(m2, B2, th2, sd2) /\ Len(B2) < Len(B)

LEMMA FinOnward ==
  ASSUME NEW m, NEW B, NEW th, NEW sd, NEW m2, NEW B2, NEW th2, NEW sd2,
         Leads(m, B, th, sd, m2, B2, th2, sd2)
  PROVE  Fin(m, B, th, sd) = Fin(m2, B2, th2, sd2)
<1>0. /\ m \in Modes /\ B \in Symbols /\ th \in Symbols /\ sd \in Symbols
      /\ m2 \in Modes /\ B2 \in Symbols /\ th2 \in Symbols /\ sd2 \in Symbols
      /\ ThinkStep(ParserOf(m, B, th, sd)) = ParserOf(m2, B2, th2, sd2) /\ Len(B2) < Len(B)
  BY DEF Leads
<1>1. Len(B) \in Nat /\ Len(B2) \in Nat /\ Len(B) >= Len(B2) + 1
  BY <1>0, SymbolFacts
<1>2. EndsIn(ParserOf(m, B, th, sd), Len(B) + 1, Fin(m, B, th, sd))
  BY <1>0, FinIs
<1>3. EndsIn(ParserOf(m2, B2, th2, sd2), Len(B), Fin(m, B, th, sd))
  BY <1>0, <1>1, <1>2, EndsAfterOne
<1> QED
  BY <1>0, <1>1, <1>3, FinIs

LEMMA FinStill ==
  ASSUME NEW m \in Modes, NEW B \in Symbols, NEW th \in Symbols, NEW sd \in Symbols,
         NEW n \in 0 .. Len(B), KeptFrom(TagsIn(m), B, n + 1)
  PROVE  Fin(m, B, th, sd) = ThinkStep(ParserOf(m, B, th, sd))
<1> DEFINE t == ParserOf(m, B, th, sd)
<1>1. Len(B) \in Nat
  BY SymbolFacts
<1>2. EndsIn(t, Len(B) + 1, Fin(m, B, th, sd))
  BY FinIs
<1>3. ThinkStep(ThinkStep(t)) = ThinkStep(t)
  BY KeepingIsStill
<1> HIDE DEF t
<1>4. EndsIn(ThinkStep(t), Len(B), Fin(m, B, th, sd))
  BY <1>1, <1>2, EndsAfterOne
<1>5. Fin(m, B, th, sd) = ThinkStep(t)
  BY <1>1, <1>3, <1>4, EndsStill
<1> QED
  BY <1>5 DEF t

\* A tag is the same tag when more follows, and when something before it is left out.
LEMMA TagStays ==
  ASSUME NEW m, NEW B \in Symbols, NEW b \in Symbols, NEW i, FirstMark(TagsIn(m), B, i)
  PROVE  TagMode(Cat(B, b), i) = TagMode(B, i) /\ TagEnd(Cat(B, b), i) = TagEnd(B, i)
<1>0. /\ B \in Symbols /\ b \in Symbols /\ i \in 1 .. Len(B)
      /\ Markers({OpenTag}, "<") /\ Markers({CloseTag}, "<")
  <2>1. Markers(TagsIn("speech"), "<") /\ {OpenTag} \subseteq TagsIn("speech") /\ {CloseTag} \subseteq TagsIn("speech")
    BY TagsAreMarkers DEF TagsIn
  <2> QED
    BY <2>1, SymbolFacts DEF Markers, FirstMark
<1>1. \A g : Fits(g, B, i) <=> Marks({g}, B, i)
  BY DEF Marks
<1>2. \A g : Fits(g, Cat(B, b), i) <=> Marks({g}, Cat(B, b), i)
  BY DEF Marks
<1>3. Fits(OpenTag, B, i) => Fits(OpenTag, Cat(B, b), i)
  BY <1>0, <1>1, <1>2, MarksOfMore
<1>4. Fits(CloseTag, B, i) => Fits(CloseTag, Cat(B, b), i)
  BY <1>0, <1>1, <1>2, MarksOfMore
<1>5. Fits(OpenTag, B, i) \/ Fits(CloseTag, B, i)
  BY DEF FirstMark, Marks, TagsIn
<1>6. ~(Fits(OpenTag, Cat(B, b), i) /\ Fits(CloseTag, Cat(B, b), i))
  <2> SUFFICES ASSUME Fits(OpenTag, Cat(B, b), i), Fits(CloseTag, Cat(B, b), i) PROVE FALSE
    OBVIOUS
  <2>1. 2 \in 1 .. Len(OpenTag) /\ 2 \in 1 .. Len(CloseTag)
    BY TagsAreMarkers
  <2>2. Cat(B, b)[i + 2 - 1] = OpenTag[2] /\ Cat(B, b)[i + 2 - 1] = CloseTag[2]
    BY <2>1 DEF Fits
  <2> QED
    BY <2>2, TagsAreMarkers
<1>7. Fits(OpenTag, Cat(B, b), i) <=> Fits(OpenTag, B, i)
  BY <1>3, <1>4, <1>5, <1>6
<1> QED
  BY <1>7 DEF TagMode, TagEnd

LEMMA TagBehind ==
  ASSUME NEW D \in Symbols, NEW n \in 0 .. Len(D), NEW j \in 1 .. Len(D) - n
  PROVE  /\ TagMode(Rear(D, n), j) = TagMode(D, n + j)
         /\ n + TagEnd(Rear(D, n), j) = TagEnd(D, n + j)
<1>0. D \in Symbols /\ Markers({OpenTag}, "<") /\ n \in Nat /\ j \in Nat
  <2>1. Markers(TagsIn("speech"), "<") /\ {OpenTag} \subseteq TagsIn("speech")
    BY TagsAreMarkers DEF TagsIn
  <2>2. Markers({OpenTag}, "<")
    BY <2>1 DEF Markers
  <2>3. n \in Nat /\ j \in Nat
    BY SymbolFacts
  <2> QED
    BY <2>2, <2>3
<1>1. Marks({OpenTag}, Rear(D, n), j) <=> Marks({OpenTag}, D, n + j)
  BY <1>0, MarksBehind
<1>2. Fits(OpenTag, Rear(D, n), j) <=> Fits(OpenTag, D, n + j)
  BY <1>1 DEF Marks
<1>3. CASE Fits(OpenTag, D, n + j)
  BY <1>0, <1>2, <1>3 DEF TagMode, TagEnd
<1>4. CASE ~Fits(OpenTag, D, n + j)
  BY <1>0, <1>2, <1>4 DEF TagMode, TagEnd
<1> QED
  BY <1>3, <1>4

\* What the parser does with a buffer it does in pieces, whatever it has said before.
CutAnywhere(m, B, th, sd) ==
  \E m1 \in Modes, B1, th1, sd1 \in Symbols :
    /\ Fin(m, B, th, sd) = ParserOf(m1, B1, th1, sd1)
    /\ \A b \in Symbols : Fin(m1, Cat(B1, b), th1, sd1) = Fin(m, Cat(B, b), th, sd)
    /\ \A p \in Symbols : Fin(m, B, th, Cat(p, sd)) = ParserOf(m1, B1, th1, Cat(p, sd1))

\* When the buffer begins with a tag, after some text.
LEMMA CutAfterTag ==
  ASSUME NEW m \in Modes, NEW B \in Symbols, NEW th \in Symbols, NEW sd \in Symbols,
         \A m2 \in Modes, B2, th2, sd2 \in Symbols : Len(B2) < Len(B) => CutAnywhere(m2, B2, th2, sd2),
         NEW i \in 1 .. Len(B), FirstMark(TagsIn(m), B, i)
  PROVE  CutAnywhere(m, B, th, sd)
<1> DEFINE m2 == TagMode(B, i)
           e == TagEnd(B, i)
           B2 == Rear(B, e)
           x == Start(B, i - 1)
<1>0. B \in Symbols /\ Len(B) \in Nat /\ Markers(TagsIn(m), "<")
  BY TagsAreMarkers, SymbolFacts
<1>1. m2 \in Modes
  BY DEF TagMode, Modes
<1>2. e \in i .. Len(B) /\ e \in 0 .. Len(B) /\ e >= 1 /\ i - 1 \in 0 .. Len(B)
  <2>1. e \in i .. Len(B)
    <3>1. /\ ThinkStep(ParserOf(m, B, th, sd)) = Passed(m, TagMode(B, i), Rear(B, TagEnd(B, i)), th, sd, Start(B, i - 1))
          /\ TagEnd(B, i) \in i .. Len(B)
      BY StepTakes
    <3> QED
      BY <3>1
  <2> HIDE DEF e
  <2> QED
    BY <1>0, <2>1
<1>3. B2 \in Symbols /\ Len(B2) = Len(B) - e /\ x \in Symbols
  BY <1>0, <1>2, Parts, SymbolFacts
<1>4. Len(B2) < Len(B)
  BY <1>0, <1>2, <1>3
<1>5. ASSUME NEW b \in Symbols, NEW s \in Symbols
      PROVE  /\ ThinkStep(ParserOf(m, Cat(B, b), th, s)) = Passed(m, m2, Cat(B2, b), th, s, x)
             /\ Cat(B2, b) \in Symbols /\ Cat(B, b) \in Symbols /\ Len(Cat(B2, b)) < Len(Cat(B, b))
  <2>1. FirstMark(TagsIn(m), Cat(B, b), i)
    BY <1>0, FirstMarkStays, SymbolFacts
  <2>2. Cat(B, b) \in Symbols /\ Len(Cat(B, b)) = Len(B) + Len(b) /\ Len(b) \in Nat
    BY SymbolFacts
  <2>3. ThinkStep(ParserOf(m, Cat(B, b), th, s))
          = Passed(m, TagMode(Cat(B, b), i), Rear(Cat(B, b), TagEnd(Cat(B, b), i)), th, s, Start(Cat(B, b), i - 1))
    BY <2>1, <2>2, StepTakes
  <2>4. TagMode(Cat(B, b), i) = m2 /\ TagEnd(Cat(B, b), i) = e
    BY TagStays
  <2>5. Rear(Cat(B, b), e) = Cat(B2, b) /\ Start(Cat(B, b), i - 1) = x
    <3> DEFINE k == i - 1
    <3>1. k \in 0 .. Len(B)
      BY <1>2
    <3> HIDE DEF k, e
    <3>2. Rear(Cat(B, b), e) = Cat(Rear(B, e), b)
      BY <1>2, CutsAreKept
    <3>3. Start(Cat(B, b), k) = Start(B, k)
      BY <3>1, CutsAreKept
    <3> QED
      BY <3>2, <3>3 DEF k
  <2>6. Cat(B2, b) \in Symbols /\ Len(Cat(B2, b)) = Len(B2) + Len(b) /\ Len(B2) \in Nat
    BY <1>3, SymbolFacts
  <2> QED
    BY <1>0, <1>4, <2>2, <2>3, <2>4, <2>5, <2>6
<1>6. ASSUME NEW s \in Symbols PROVE ThinkStep(ParserOf(m, B, th, s)) = Passed(m, m2, B2, th, s, x)
  BY StepTakes
<1> HIDE DEF m2, B2, x, e
<1>71. PICK th2 \in Symbols, sd2 \in Symbols : Taken(m, th, sd, x, th2, sd2)
  BY <1>3, PassedIs
<1>7. /\ \A C, m3 : Passed(m, m3, C, th, sd, x) = ParserOf(m3, C, th2, sd2)
      /\ \A p \in Symbols : \A C, m3 : Passed(m, m3, C, th, Cat(p, sd), x) = ParserOf(m3, C, th2, Cat(p, sd2))
  BY <1>71 DEF Taken
<1>8. CutAnywhere(m2, B2, th2, sd2)
  BY <1>1, <1>3, <1>4
<1>9. PICK m1 \in Modes, B1 \in Symbols, th1 \in Symbols, sd1 \in Symbols :
        /\ Fin(m2, B2, th2, sd2) = ParserOf(m1, B1, th1, sd1)
        /\ \A b \in Symbols : Fin(m1, Cat(B1, b), th1, sd1) = Fin(m2, Cat(B2, b), th2, sd2)
        /\ \A p \in Symbols : Fin(m2, B2, th2, Cat(p, sd2)) = ParserOf(m1, B1, th1, Cat(p, sd1))
  BY <1>8 DEF CutAnywhere
<1>10. Fin(m, B, th, sd) = ParserOf(m1, B1, th1, sd1)
  <2>1. ThinkStep(ParserOf(m, B, th, sd)) = ParserOf(m2, B2, th2, sd2)
    BY <1>6, <1>7
  <2>2. Leads(m, B, th, sd, m2, B2, th2, sd2)
    BY <1>1, <1>3, <1>4, <2>1 DEF Leads
  <2>3. Fin(m, B, th, sd) = Fin(m2, B2, th2, sd2)
    BY <2>2, FinOnward
  <2> QED
    BY <1>9, <2>3
<1>11. ASSUME NEW b \in Symbols PROVE Fin(m1, Cat(B1, b), th1, sd1) = Fin(m, Cat(B, b), th, sd)
  <2>1. ThinkStep(ParserOf(m, Cat(B, b), th, sd)) = ParserOf(m2, Cat(B2, b), th2, sd2)
    BY <1>5, <1>7
  <2>2. Cat(B2, b) \in Symbols /\ Cat(B, b) \in Symbols /\ Len(Cat(B2, b)) < Len(Cat(B, b))
    BY <1>5
  <2>4. Leads(m, Cat(B, b), th, sd, m2, Cat(B2, b), th2, sd2)
    BY <1>1, <2>1, <2>2 DEF Leads
  <2>3. Fin(m, Cat(B, b), th, sd) = Fin(m2, Cat(B2, b), th2, sd2)
    BY <2>4, FinOnward
  <2> QED
    BY <1>9, <2>3
<1>12. ASSUME NEW p \in Symbols PROVE Fin(m, B, th, Cat(p, sd)) = ParserOf(m1, B1, th1, Cat(p, sd1))
  <2>1. Cat(p, sd) \in Symbols /\ Cat(p, sd2) \in Symbols
    BY SymbolFacts
  <2>2. ThinkStep(ParserOf(m, B, th, Cat(p, sd))) = ParserOf(m2, B2, th2, Cat(p, sd2))
    BY <1>6, <1>7, <2>1
  <2>4. Leads(m, B, th, Cat(p, sd), m2, B2, th2, Cat(p, sd2))
    BY <1>1, <1>3, <1>4, <2>1, <2>2 DEF Leads
  <2>3. Fin(m, B, th, Cat(p, sd)) = Fin(m2, B2, th2, Cat(p, sd2))
    BY <2>4, FinOnward
  <2> QED
    BY <1>9, <2>3
<1>13. /\ \A b \in Symbols : Fin(m1, Cat(B1, b), th1, sd1) = Fin(m, Cat(B, b), th, sd)
       /\ \A p \in Symbols : Fin(m, B, th, Cat(p, sd)) = ParserOf(m1, B1, th1, Cat(p, sd1))
  BY <1>11, <1>12
<1> DEFINE P(m0, B0, th0, sd0) ==
             /\ Fin(m, B, th, sd) = ParserOf(m0, B0, th0, sd0)
             /\ \A b \in Symbols : Fin(m0, Cat(B0, b), th0, sd0) = Fin(m, Cat(B, b), th, sd)
             /\ \A p \in Symbols : Fin(m, B, th, Cat(p, sd)) = ParserOf(m0, B0, th0, Cat(p, sd0))
<1>14. P(m1, B1, th1, sd1)
  BY <1>10, <1>13
<1>15. (\E m0 \in Modes, B0, th0, sd0 \in Symbols : P(m0, B0, th0, sd0)) => CutAnywhere(m, B, th, sd)
  BY Zenon DEF CutAnywhere
<1> HIDE DEF P
<1> QED
  BY <1>14, <1>15

\* When there is no tag in the buffer.
LEMMA CutInText ==
  ASSUME NEW m \in Modes, NEW B \in Symbols, NEW th \in Symbols, NEW sd \in Symbols,
         NEW n \in 0 .. Len(B), KeptFrom(TagsIn(m), B, n + 1)
  PROVE  CutAnywhere(m, B, th, sd)
<1> DEFINE x == Start(B, n)
           R == Rear(B, n)
           G == TagsIn(m)
<1>0. B \in Symbols /\ Len(B) \in Nat /\ n \in Nat /\ Markers(G, "<")
  BY TagsAreMarkers, SymbolFacts
<1>1. x \in Symbols /\ R \in Symbols
  BY <1>0, Parts, SymbolFacts
<1>20. PICK th2 \in Symbols, sd2 \in Symbols : Taken(m, th, sd, x, th2, sd2)
  BY <1>1, PassedIs
<1>2. /\ \A C, m3 : Passed(m, m3, C, th, sd, x) = ParserOf(m3, C, th2, sd2)
      /\ \A y \in Symbols : \A C, m3 : Passed(m, m3, C, th2, sd2, y) = Passed(m, m3, C, th, sd, Cat(x, y))
      /\ \A p \in Symbols : \A C, m3 : Passed(m, m3, C, th, Cat(p, sd), x) = ParserOf(m3, C, th2, Cat(p, sd2))
  BY <1>20 DEF Taken
<1>3. Fin(m, B, th, sd) = ParserOf(m, R, th2, sd2)
  BY <1>2, FinStill, StepKeeps
<1>4. ASSUME NEW p \in Symbols PROVE Fin(m, B, th, Cat(p, sd)) = ParserOf(m, R, th2, Cat(p, sd2))
  <2>1. Cat(p, sd) \in Symbols
    BY SymbolFacts
  <2>2. Fin(m, B, th, Cat(p, sd)) = ThinkStep(ParserOf(m, B, th, Cat(p, sd)))
    BY <2>1, FinStill
  <2>3. ThinkStep(ParserOf(m, B, th, Cat(p, sd))) = Passed(m, m, R, th, Cat(p, sd), x)
    BY StepKeeps
  <2> QED
    BY <1>2, <2>2, <2>3
<1>5. ASSUME NEW b \in Symbols PROVE Fin(m, Cat(R, b), th2, sd2) = Fin(m, Cat(B, b), th, sd)
  <2> DEFINE C == Cat(R, b)
             D == Cat(B, b)
  <2>1. /\ D \in Symbols /\ C \in Symbols /\ Len(D) = n + Len(C) /\ Len(C) \in Nat /\ n \in 0 .. Len(D)
        /\ D \in Symbols /\ C \in Symbols
    <3>1. D \in Symbols /\ C \in Symbols
      BY <1>1, SymbolFacts
    <3>2. Len(D) = n + Len(C)
      <4>1. KeptFrom(G, B, n + 1)
        OBVIOUS
      <4> HIDE DEF G
      <4> QED
        BY <1>0, <4>1, OnlyTheKeptMatters
    <3> QED
      BY <1>0, <3>1, <3>2, SymbolFacts
  <2>2. C = Rear(D, n) /\ x = Start(D, n)
    BY <1>0, CutsAreKept
  <2>3. /\ \A i \in 1 .. Len(C) : FirstMark(G, C, i) => FirstMark(G, D, n + i)
        /\ \A k \in 1 .. Len(C) + 1 : KeptFrom(G, C, k) => KeptFrom(G, D, n + k)
    BY <1>0, KeptIsEnough, SymbolFacts
  <2> HIDE DEF C, D, x, R
  <2>4. ASSUME NEW i \in 1 .. Len(C), FirstMark(G, C, i) PROVE Fin(m, C, th2, sd2) = Fin(m, D, th, sd)
    <3> DEFINE e == TagEnd(C, i)
               m2 == TagMode(C, i)
               B2 == Rear(C, e)
               y == Start(C, i - 1)
    <3>1. /\ ThinkStep(ParserOf(m, C, th2, sd2)) = Passed(m, m2, B2, th2, sd2, y)
          /\ e \in i .. Len(C)
      <4>1. C \in Symbols /\ FirstMark(TagsIn(m), C, i)
        BY <2>1, <2>4
      <4> HIDE DEF G
      <4> QED
        BY <4>1, StepTakes
    <3>2. FirstMark(G, D, n + i)
      BY <2>3, <2>4
    <3>3. ThinkStep(ParserOf(m, D, th, sd))
            = Passed(m, TagMode(D, n + i), Rear(D, TagEnd(D, n + i)), th, sd, Start(D, (n + i) - 1))
      <4> DEFINE k == n + i
      <4>1. FirstMark(TagsIn(m), D, k)
        BY <3>2
      <4> HIDE DEF k
      <4>2. ThinkStep(ParserOf(m, D, th, sd)) = Passed(m, TagMode(D, k), Rear(D, TagEnd(D, k)), th, sd, Start(D, k - 1))
        BY <2>1, <4>1, StepTakes
      <4> QED
        BY <4>2 DEF k
    <3>4. TagMode(D, n + i) = m2 /\ TagEnd(D, n + i) = n + e
      <4>1. i \in 1 .. Len(D) - n
        BY <1>0, <2>1
      <4>2. TagMode(Rear(D, n), i) = TagMode(D, n + i) /\ n + TagEnd(Rear(D, n), i) = TagEnd(D, n + i)
        BY <2>1, <4>1, TagBehind
      <4> QED
        BY <2>2, <4>2
    <3>5. Rear(D, n + e) = B2 /\ Start(D, (n + i) - 1) = Cat(x, y)
      <4>1. e \in 0 .. Len(D) - n /\ i - 1 \in 0 .. Len(D) - n /\ n + (i - 1) = (n + i) - 1
        BY <1>0, <2>1, <3>1
      <4>2. Rear(Rear(D, n), e) = Rear(D, n + e)
        BY <2>1, <4>1, CutTwice
      <4>3. Cat(Start(D, n), Start(Rear(D, n), i - 1)) = Start(D, n + (i - 1))
        BY <2>1, <4>1, CutTwice
      <4> QED
        BY <2>2, <4>1, <4>2, <4>3
    <3>6. e \in 0 .. Len(C) /\ i - 1 \in 0 .. Len(C)
      BY <2>1, <3>1
    <3>7. B2 \in Symbols /\ Len(B2) = Len(C) - e /\ y \in Symbols
      BY <2>1, <3>6, Parts, SymbolFacts
    <3>8. m2 \in Modes
      BY DEF TagMode, Modes
    <3>9. Len(B2) < Len(C) /\ Len(B2) < Len(D)
      BY <1>0, <2>1, <3>1, <3>7
    <3> HIDE DEF e, m2, B2, y
    <3>10. ThinkStep(ParserOf(m, D, th, sd)) = Passed(m, m2, B2, th, sd, Cat(x, y))
      BY <3>3, <3>4, <3>5
    <3>11. Passed(m, m2, B2, th2, sd2, y) = Passed(m, m2, B2, th, sd, Cat(x, y))
      BY <1>2, <3>7
    <3>15. PICK th3 \in Symbols, sd3 \in Symbols : Taken(m, th2, sd2, y, th3, sd3)
      BY <3>7, PassedIs
    <3>12. Passed(m, m2, B2, th2, sd2, y) = ParserOf(m2, B2, th3, sd3)
      BY <3>15 DEF Taken
    <3>16. Leads(m, C, th2, sd2, m2, B2, th3, sd3)
      BY <2>1, <3>1, <3>7, <3>8, <3>9, <3>12 DEF Leads
    <3>13. Fin(m, C, th2, sd2) = Fin(m2, B2, th3, sd3)
      BY <3>16, FinOnward
    <3>17. Leads(m, D, th, sd, m2, B2, th3, sd3)
      BY <2>1, <3>7, <3>8, <3>9, <3>10, <3>11, <3>12 DEF Leads
    <3>14. Fin(m, D, th, sd) = Fin(m2, B2, th3, sd3)
      BY <3>17, FinOnward
    <3> QED
      BY <3>13, <3>14
  <2>5. ASSUME NEW j \in 0 .. Len(C), KeptFrom(G, C, j + 1) PROVE Fin(m, C, th2, sd2) = Fin(m, D, th, sd)
    <3> DEFINE y == Start(C, j)
    <3>1. KeptFrom(G, D, (n + j) + 1) /\ n + j \in 0 .. Len(D)
      <4>1. j + 1 \in 1 .. Len(C) + 1 /\ n + (j + 1) = (n + j) + 1 /\ n + j \in 0 .. Len(D)
        BY <1>0, <2>1
      <4> QED
        BY <2>3, <2>5, <4>1
    <3>2. Fin(m, C, th2, sd2) = Passed(m, m, Rear(C, j), th2, sd2, y)
      BY <2>1, <2>5, FinStill, StepKeeps
    <3>3. Fin(m, D, th, sd) = Passed(m, m, Rear(D, n + j), th, sd, Start(D, n + j))
      BY <2>1, <3>1, FinStill, StepKeeps
    <3>4. Rear(D, n + j) = Rear(C, j) /\ Start(D, n + j) = Cat(x, y)
      <4>1. j \in 0 .. Len(D) - n
        BY <1>0, <2>1
      <4>2. Rear(Rear(D, n), j) = Rear(D, n + j) /\ Cat(Start(D, n), Start(Rear(D, n), j)) = Start(D, n + j)
        BY <2>1, <4>1, CutTwice
      <4> QED
        BY <2>2, <4>2
    <3>5. y \in Symbols
      BY <2>1, <2>5, Parts, SymbolFacts
    <3> HIDE DEF y
    <3>6. Passed(m, m, Rear(C, j), th2, sd2, y) = Passed(m, m, Rear(C, j), th, sd, Cat(x, y))
      BY <1>2, <3>5
    <3> QED
      BY <3>2, <3>3, <3>4, <3>6
  <2>6. \/ \E i \in 1 .. Len(C) : FirstMark(G, C, i)
        \/ \E j \in 0 .. Len(C) : KeptFrom(G, C, j + 1)
    BY <2>1, StepIs
  <2>7. Fin(m, C, th2, sd2) = Fin(m, D, th, sd)
    BY <2>4, <2>5, <2>6
  <2> QED
    BY <2>7 DEF C, D
<1> HIDE DEF R
<1> QED
  BY <1>1, <1>3, <1>4, <1>5 DEF CutAnywhere

LEMMA AllMayBeCut ==
  ASSUME NEW m \in Modes, NEW B \in Symbols, NEW th \in Symbols, NEW sd \in Symbols
  PROVE  CutAnywhere(m, B, th, sd)
<1> DEFINE S == {L \in Nat : \A m1 \in Modes, B1, th1, sd1 \in Symbols : Len(B1) <= L => CutAnywhere(m1, B1, th1, sd1)}
<1>0. \A C \in Symbols : Len(C) \in Nat
  BY SymbolFacts
<1>1. ASSUME NEW m1 \in Modes, NEW B1 \in Symbols, NEW th1 \in Symbols, NEW sd1 \in Symbols,
             \A m2 \in Modes, B2, th2, sd2 \in Symbols : Len(B2) < Len(B1) => CutAnywhere(m2, B2, th2, sd2)
      PROVE  CutAnywhere(m1, B1, th1, sd1)
  <2>1. \/ \E i \in 1 .. Len(B1) : FirstMark(TagsIn(m1), B1, i)
        \/ \E n \in 0 .. Len(B1) : KeptFrom(TagsIn(m1), B1, n + 1)
    BY StepIs
  <2>2. CASE \E i \in 1 .. Len(B1) : FirstMark(TagsIn(m1), B1, i)
    BY <1>1, <2>2, CutAfterTag
  <2>3. CASE \E n \in 0 .. Len(B1) : KeptFrom(TagsIn(m1), B1, n + 1)
    BY <2>3, CutInText
  <2> QED
    BY <2>1, <2>2, <2>3
<1>2. 0 \in S
  <2> SUFFICES ASSUME NEW m1 \in Modes, NEW B1 \in Symbols, NEW th1 \in Symbols, NEW sd1 \in Symbols, Len(B1) <= 0
               PROVE  CutAnywhere(m1, B1, th1, sd1)
    OBVIOUS
  <2>1. \A m2 \in Modes, B2, th2, sd2 \in Symbols : Len(B2) < Len(B1) => CutAnywhere(m2, B2, th2, sd2)
    BY <1>0
  <2> QED
    BY <1>1, <2>1
<1>3. ASSUME NEW L \in Nat, L \in S PROVE L + 1 \in S
  <2> SUFFICES ASSUME NEW m1 \in Modes, NEW B1 \in Symbols, NEW th1 \in Symbols, NEW sd1 \in Symbols, Len(B1) <= L + 1
               PROVE  CutAnywhere(m1, B1, th1, sd1)
    OBVIOUS
  <2>1. \A m2 \in Modes, B2, th2, sd2 \in Symbols : Len(B2) < Len(B1) => CutAnywhere(m2, B2, th2, sd2)
    BY <1>0, <1>3
  <2> QED
    BY <1>1, <2>1
<1> HIDE DEF S
<1>4. Len(B) \in S /\ Len(B) <= Len(B)
  BY <1>0, <1>2, <1>3, Induct, SMTT(30)
<1> QED
  BY <1>4 DEF S

\* What was taken in so far was taken as in one piece.
ThinkInvariant ==
  /\ text \in Symbols /\ read \in 0 .. Len(text)
  /\ ~flushed => thinking = Fin("speech", Start(text, read), << >>, << >>)
  /\ flushed => read = Len(text) /\ thinking = ThinkFlush(Fin("speech", text, << >>, << >>))

LEMMA NewIsSpeech == NewThinking = ParserOf("speech", << >>, << >>, << >>)
<1>1. PICK f : f = FALSE
  OBVIOUS
<1>2. f = ("speech" = "thought")
  BY <1>1
<1>3. NewThinking = [inside |-> f, buffer |-> << >>, thought |-> << >>, said |-> << >>]
  BY <1>1 DEF NewThinking
<1>4. ParserOf("speech", << >>, << >>, << >>) = [inside |-> f, buffer |-> << >>, thought |-> << >>, said |-> << >>]
  BY <1>2 DEF ParserOf
<1> QED
  BY <1>3, <1>4

LEMMA ThinkStarts == ParserInit => ThinkInvariant
<1> SUFFICES ASSUME ParserInit PROVE ThinkInvariant
  OBVIOUS
<1>1. text \in Symbols /\ read = 0 /\ flushed = FALSE /\ thinking = NewThinking
  <2>1. text \in Seq(STRING)
    BY TextsAssumption DEF ParserInit
  <2>2. text \in Symbols
    BY <2>1, StringsAreSymbols
  <2> QED
    BY <2>2 DEF ParserInit
<1>2. << >> \in Symbols /\ "speech" \in Modes /\ 0 \in 0 .. Len(<< >>) /\ 0 \in 0 .. Len(text)
  BY <1>1, SymbolFacts DEF Modes
<1>3. Start(text, 0) = << >> /\ Rear(<< >>, 0) = << >> /\ Start(<< >>, 0) = << >>
  BY <1>1, SymbolFacts DEF Start, Rear
<1>4. NewThinking = ParserOf("speech", << >>, << >>, << >>)
  BY NewIsSpeech
<1>5. KeptFrom(TagsIn("speech"), << >>, 0 + 1)
  BY DEF KeptFrom, NoMark
<1>6. Fin("speech", << >>, << >>, << >>)
        = Passed("speech", "speech", Rear(<< >>, 0), << >>, << >>, Start(<< >>, 0))
  BY <1>2, <1>5, FinStill, StepKeeps
<1>7. Cat(<< >>, << >>) = << >>
  BY SymbolFacts
<1>8. Fin("speech", << >>, << >>, << >>) = ParserOf("speech", << >>, << >>, << >>)
  BY <1>3, <1>6, <1>7 DEF Passed
<1> QED
  BY <1>1, <1>2, <1>3, <1>4, <1>8 DEF ThinkInvariant

LEMMA ThinkGoesOn == ThinkInvariant /\ [ParserStep]_parserVars => ThinkInvariant'
<1> SUFFICES ASSUME ThinkInvariant, [ParserStep]_parserVars PROVE ThinkInvariant'
  OBVIOUS
<1>0. /\ text \in Symbols /\ text \in Symbols /\ Len(text) \in Nat /\ read \in 0 .. Len(text)
      /\ "speech" \in Modes /\ << >> \in Symbols
  BY SymbolFacts DEF ThinkInvariant, Modes
<1>1. CASE UNCHANGED parserVars
  BY <1>1 DEF ThinkInvariant, parserVars
<1>2. CASE FlushParsers
  <2>1. /\ read = Len(text) /\ ~flushed /\ flushed' = TRUE /\ thinking' = ThinkFlush(thinking)
        /\ text' = text /\ read' = read
    BY <1>2 DEF FlushParsers
  <2>2. Start(text, read) = text
    BY <1>0, <2>1, WholeText
  <2>3. thinking = Fin("speech", text, << >>, << >>)
    BY <2>1, <2>2 DEF ThinkInvariant
  <2> QED
    BY <1>0, <2>1, <2>3 DEF ThinkInvariant
<1>3. ASSUME NEW n \in 1 .. Len(text), ContentEvents(n) PROVE ThinkInvariant'
  <2> DEFINE c == SubSeq(text, read + 1, n)
             s == Start(text, read)
  <2>1. n \in (read + 1) .. Len(text) /\ read' = n /\ text' = text /\ flushed' = flushed
    BY <1>3 DEF ContentEvents
  <2>2. thinking' = [ThinkFeed([thinking EXCEPT !.said = << >>], c)
                       EXCEPT !.said = Cat(thinking.said, ThinkFeed([thinking EXCEPT !.said = << >>], c).said)]
    BY <1>3 DEF ContentEvents, Cat
  <2>3. c \in Symbols /\ s \in Symbols /\ Cat(s, c) = Start(text, n)
    BY <1>0, <2>1, NextPart
  <2> HIDE DEF c, s
  <2>4. CASE flushed
    BY <1>0, <2>1, <2>4 DEF ThinkInvariant
  <2>5. CASE ~flushed
    <3>1. thinking = Fin("speech", s, << >>, << >>)
      BY <2>5 DEF ThinkInvariant, s
    <3>2. PICK m1 \in Modes, B1 \in Symbols, th1 \in Symbols, sd1 \in Symbols :
            /\ Fin("speech", s, << >>, << >>) = ParserOf(m1, B1, th1, sd1)
            /\ \A b \in Symbols : Fin(m1, Cat(B1, b), th1, sd1) = Fin("speech", Cat(s, b), << >>, << >>)
      <4>1. CutAnywhere("speech", s, << >>, << >>)
        BY <1>0, <2>3, AllMayBeCut
      <4> QED
        BY <4>1 DEF CutAnywhere
    <3>3. [thinking EXCEPT !.said = << >>] = ParserOf(m1, B1, th1, << >>) /\ thinking.said = sd1
      BY <3>1, <3>2, OfChanges, OfParts
    <3>4. ThinkFeed(ParserOf(m1, B1, th1, << >>), c) = Fin(m1, Cat(B1, c), th1, << >>) /\ Cat(B1, c) \in Symbols
      <4>1. Cat(B1, c) \in Symbols
        BY <2>3, SymbolFacts
      <4>2. \A d \in Symbols : ThinkFeed(ParserOf(m1, B1, th1, << >>), d) = Fin(m1, Cat(B1, d), th1, << >>)
        BY <1>0, FinIs
      <4> QED
        BY <2>3, <4>1, <4>2
    <3>5. PICK m2 \in Modes, B2 \in Symbols, th2 \in Symbols, sd2 \in Symbols :
            /\ Fin(m1, Cat(B1, c), th1, << >>) = ParserOf(m2, B2, th2, sd2)
            /\ \A p \in Symbols : Fin(m1, Cat(B1, c), th1, Cat(p, << >>)) = ParserOf(m2, B2, th2, Cat(p, sd2))
      <4>1. CutAnywhere(m1, Cat(B1, c), th1, << >>)
        BY <1>0, <3>4, AllMayBeCut
      <4> QED
        BY <4>1 DEF CutAnywhere
    <3>6. thinking' = [ParserOf(m2, B2, th2, sd2) EXCEPT !.said = Cat(sd1, ParserOf(m2, B2, th2, sd2).said)]
      BY <2>2, <3>3, <3>4, <3>5
    <3>7. thinking' = ParserOf(m2, B2, th2, Cat(sd1, sd2))
      BY <3>6, OfChanges, OfParts
    <3>8. Cat(sd1, << >>) = sd1
      BY Concatenated, SymbolFacts
    <3>9. thinking' = Fin(m1, Cat(B1, c), th1, sd1)
      BY <3>5, <3>7, <3>8
    <3>10. thinking' = Fin("speech", Start(text, n), << >>, << >>)
      BY <2>3, <3>2, <3>9
    <3>11. n \in 0 .. Len(text)
      BY <1>0, <2>1
    <3> QED
      BY <1>0, <2>1, <2>5, <3>10, <3>11 DEF ThinkInvariant
  <2> QED
    BY <2>4, <2>5
<1> QED
  BY <1>1, <1>2, <1>3 DEF ParserStep

LEMMA ThinkIsRight == ThinkInvariant => CutsDoNotMoveThoughts
<1> SUFFICES ASSUME ThinkInvariant, flushed PROVE CutsDoNotMoveThoughts
  BY DEF CutsDoNotMoveThoughts
<1>1. text \in Symbols /\ thinking = ThinkFlush(Fin("speech", text, << >>, << >>))
  BY DEF ThinkInvariant
<1>2. NewThinking = ParserOf("speech", << >>, << >>, << >>) /\ "speech" \in Modes /\ << >> \in Symbols
  BY NewIsSpeech, SymbolFacts DEF Modes
<1>3. Cat(<< >>, text) = text
  BY <1>1, Concatenated, SymbolFacts
<1>4. AtOnce = Fin("speech", text, << >>, << >>)
  BY <1>1, <1>2, <1>3, FinIs DEF AtOnce
<1> QED
  BY <1>1, <1>4 DEF CutsDoNotMoveThoughts

\* Wherever upstream cuts its text into chunks, thinking and speech are told apart as in the
\* whole text (ThinkTagParser).
THEOREM ThoughtsStayInPlace == ParserSpec => []CutsDoNotMoveThoughts
<1>1. ParserInit => ThinkInvariant
  BY ThinkStarts
<1>2. ThinkInvariant /\ [ParserStep]_parserVars => ThinkInvariant'
  BY ThinkGoesOn
<1>3. ThinkInvariant => CutsDoNotMoveThoughts
  BY ThinkIsRight
<1> QED
  BY <1>1, <1>2, <1>3, PTL DEF ParserSpec

(****************************************************************************)
(* The markup of native tool calls. What a framer holds is described by the *)
(* whole of what came in: text before the first marker, with what may be    *)
(* the beginning of one kept back, or the block behind it.                  *)
(****************************************************************************)

BS == {BlockStart}
BE == {BlockEnd}
NS == {Namespace}

LEMMA NativeMarkers ==
  /\ BlockStart \in Symbols /\ BlockEnd \in Symbols /\ Namespace \in Symbols
  /\ Len(BlockStart) = 3 /\ Len(BlockEnd) = 3 /\ Len(Namespace) = 2
  /\ BlockStart[1] = "[" /\ BlockStart[2] = "n" /\ BlockStart[3] = "s"
  /\ BlockEnd[1] = "[" /\ BlockEnd[2] = "n" /\ BlockEnd[3] = "e"
  /\ Namespace[1] = "[" /\ Namespace[2] = "n"
  /\ Markers(BS, "[") /\ Markers(BE, "[") /\ Markers(NS, "[")
<1>1. /\ BlockStart \in Symbols /\ Len(BlockStart) = 3
      /\ BlockStart[1] = "[" /\ BlockStart[2] = "n" /\ BlockStart[3] = "s"
  <2>1. BlockStart \in Symbols
    <3>1. "[" \in Signs /\ "n" \in Signs /\ "s" \in Signs
      BY DEF Signs
    <3> QED
      BY <3>1, ShortSequences, Zenon DEF BlockStart, Symbols
  <2>2. /\ Len(BlockStart) = 3
        /\ BlockStart[1] = "[" /\ BlockStart[2] = "n" /\ BlockStart[3] = "s"
    BY DEF BlockStart
  <2> QED
    BY <2>1, <2>2
<1>2. /\ BlockEnd \in Symbols /\ Len(BlockEnd) = 3
      /\ BlockEnd[1] = "[" /\ BlockEnd[2] = "n" /\ BlockEnd[3] = "e"
  <2>1. BlockEnd \in Symbols
    <3>1. "[" \in Signs /\ "n" \in Signs /\ "e" \in Signs
      BY DEF Signs
    <3> QED
      BY <3>1, ShortSequences, Zenon DEF BlockEnd, Symbols
  <2>2. /\ Len(BlockEnd) = 3
        /\ BlockEnd[1] = "[" /\ BlockEnd[2] = "n" /\ BlockEnd[3] = "e"
    BY DEF BlockEnd
  <2> QED
    BY <2>1, <2>2
<1>3. /\ Namespace \in Symbols /\ Len(Namespace) = 2 /\ Namespace[1] = "[" /\ Namespace[2] = "n"
  <2>1. Namespace \in Symbols
    <3>1. "[" \in Signs /\ "n" \in Signs
      BY DEF Signs
    <3> QED
      BY <3>1, ShortSequences, Zenon DEF Namespace, Symbols
  <2>2. Len(Namespace) = 2 /\ Namespace[1] = "[" /\ Namespace[2] = "n"
    BY DEF Namespace
  <2> QED
    BY <2>1, <2>2
<1>4. /\ \A k \in 2 .. 3 : BlockStart[k] # "["
      /\ \A k \in 2 .. 3 : BlockEnd[k] # "["
      /\ \A k \in 2 .. 2 : Namespace[k] # "["
  BY <1>1, <1>2, <1>3
<1>5. Markers(BS, "[")
  BY <1>1, <1>4 DEF Markers, BS
<1>6. Markers(BE, "[")
  BY <1>2, <1>4 DEF Markers, BE
<1>7. Markers(NS, "[")
  <2>1. \A g \in NS : g = Namespace
    BY DEF NS
  <2>2. \A k \in 2 .. Len(Namespace) : Namespace[k] # "["
    BY <1>3, <1>4
  <2>3. Len(Namespace) >= 2
    BY <1>3
  <2> QED
    BY <1>3, <2>1, <2>2, <2>3 DEF Markers
<1> QED
  BY <1>1, <1>2, <1>3, <1>5, <1>6, <1>7

\* IsPrefix by its entries.
LEMMA PrefixIs ==
  ASSUME NEW r \in Symbols, NEW g \in Symbols
  PROVE  IsPrefix(r, g) <=> Len(r) <= Len(g) /\ \A k \in 1 .. Len(r) : r[k] = g[k]
<1>0. Len(r) \in Nat /\ Len(g) \in Nat
  BY SymbolFacts
<1>1. SubSeq(r, 1, Len(r)) = r
  BY DEF Symbols
<1>2. ASSUME Len(r) <= Len(g) PROVE IsPrefix(r, g) <=> \A k \in 1 .. Len(r) : r[k] = g[k]
  <2> DEFINE c == SubSeq(g, 1, Len(r))
  <2>1. c \in Symbols /\ Len(c) = Len(r) /\ \A k \in 1 .. Len(r) : c[k] = g[k]
    BY <1>0, <1>2 DEF Symbols
  <2>2. IsPrefix(r, g) <=> r = c
    BY <1>1, <1>2 DEF IsPrefix
  <2> HIDE DEF c
  <2>3. r = c <=> \A k \in 1 .. Len(r) : r[k] = c[k]
    BY <2>1, SameEntries
  <2> QED
    BY <2>1, <2>2, <2>3
<1>3. ASSUME ~(Len(r) <= Len(g)) PROVE ~IsPrefix(r, g)
  BY <1>3 DEF IsPrefix
<1> QED
  BY <1>2, <1>3

LEMMA PrefixFits ==
  ASSUME NEW s \in Symbols, NEW g \in Symbols, NEW i \in 1 .. Len(s)
  PROVE  /\ IsPrefix(g, SubSeq(s, i, Len(s))) <=> Fits(g, s, i)
         /\ (Len(s) - i + 1 < Len(g) /\ IsPrefix(From(s, i), g)) <=> CutAt(g, s, i)
<1>0. s \in Symbols /\ g \in Symbols /\ Len(s) \in Nat /\ Len(g) \in Nat /\ i \in Nat
  BY SymbolFacts
<1> DEFINE r == SubSeq(s, i, Len(s))
<1>1. /\ r \in Symbols /\ Len(r) = Len(s) - i + 1
      /\ \A k \in 1 .. Len(s) - i + 1 : r[k] = s[i + k - 1]
  BY <1>0 DEF Symbols
<1>2. r = From(s, i)
  BY DEF From
<1> HIDE DEF r
<1>3. IsPrefix(g, r) <=> Fits(g, s, i)
  <2>1. IsPrefix(g, r) <=> Len(g) <= Len(r) /\ \A k \in 1 .. Len(g) : g[k] = r[k]
    BY <1>0, <1>1, PrefixIs
  <2>2. Len(g) <= Len(r) <=> i + Len(g) - 1 <= Len(s)
    BY <1>0, <1>1
  <2>3. ASSUME Len(g) <= Len(r), NEW k \in 1 .. Len(g) PROVE r[k] = s[i + k - 1]
    <3>1. k \in 1 .. Len(s) - i + 1
      BY <1>0, <1>1, <2>3
    <3> QED
      BY <1>1, <3>1
  <2> QED
    BY <2>1, <2>2, <2>3 DEF Fits
<1>4. (Len(s) - i + 1 < Len(g) /\ IsPrefix(r, g)) <=> CutAt(g, s, i)
  <2>1. IsPrefix(r, g) <=> Len(r) <= Len(g) /\ \A k \in 1 .. Len(r) : r[k] = g[k]
    BY <1>0, <1>1, PrefixIs
  <2> QED
    BY <1>0, <1>1, <2>1 DEF CutAt
<1> QED
  BY <1>2, <1>3, <1>4 DEF r

LEMMA LeftmostIs ==
  ASSUME NEW S \in SUBSET Nat, NEW i \in S, \A j \in S : i <= j
  PROVE  Leftmost(S) = i
<1>1. \A k \in S : (\A j \in S : k <= j) => k = i
  BY SMT
<1> QED
  BY <1>1 DEF Leftmost

LEMMA FoundIs ==
  ASSUME NEW s \in Symbols, NEW g \in Symbols
  PROVE  /\ Found(s, g) = {i \in 1 .. Len(s) : Marks({g}, s, i)}
         /\ NoMark({g}, s) <=> Found(s, g) = {}
         /\ \A i : FirstMark({g}, s, i) => Found(s, g) # {} /\ Leftmost(Found(s, g)) = i
         /\ \A n \in 0 .. Len(s) : KeptFrom({g}, s, n + 1) => Found(s, g) = {} /\ Held(s, g) = n + 1
<1>0. s \in Symbols /\ Len(s) \in Nat /\ DOMAIN s = 1 .. Len(s)
  BY SymbolFacts
<1>1. Found(s, g) = {i \in 1 .. Len(s) : Marks({g}, s, i)}
  BY <1>0, PrefixFits DEF Found, Marks
<1>2. NoMark({g}, s) <=> Found(s, g) = {}
  BY <1>1 DEF NoMark
<1>3. ASSUME NEW i, FirstMark({g}, s, i) PROVE Found(s, g) # {} /\ Leftmost(Found(s, g)) = i
  <2>1. i \in Found(s, g) /\ Found(s, g) \in SUBSET Nat
    BY <1>0, <1>1, <1>3 DEF FirstMark
  <2>2. ASSUME NEW j \in Found(s, g) PROVE i <= j
    <3>1. j \in 1 .. Len(s) /\ j \notin 1 .. i - 1
      BY <1>1, <1>3 DEF FirstMark
    <3>2. i \in 1 .. Len(s)
      BY <1>3 DEF FirstMark
    <3> QED
      BY <1>0, <3>1, <3>2
  <2> QED
    BY <2>1, <2>2, LeftmostIs
<1>4. ASSUME NEW n \in 0 .. Len(s), KeptFrom({g}, s, n + 1)
      PROVE  Found(s, g) = {} /\ Held(s, g) = n + 1
  <2> DEFINE S == {i \in DOMAIN s : Len(s) - i + 1 < Len(g) /\ IsPrefix(From(s, i), g)}
  <2>1. S = {i \in 1 .. Len(s) : BegunAt({g}, s, i)}
    BY <1>0, PrefixFits DEF BegunAt
  <2>2. Held(s, g) = IF S = {} THEN Len(s) + 1 ELSE Leftmost(S)
    BY DEF Held
  <2> HIDE DEF S
  <2>3. \A j \in S : j \in 1 .. Len(s) /\ n + 1 <= j
    <3> TAKE j \in S
    <3>1. j \in 1 .. Len(s) /\ BegunAt({g}, s, j)
      BY <2>1
    <3>2. j \notin 1 .. (n + 1) - 1
      BY <1>4, <3>1 DEF KeptFrom
    <3> QED
      BY <1>0, <3>1, <3>2
  <2>4. ASSUME n < Len(s) PROVE Found(s, g) = {} /\ Held(s, g) = n + 1
    <3>1. n + 1 \in S
      BY <1>0, <1>4, <2>1, <2>4 DEF KeptFrom
    <3>2. S \in SUBSET Nat
      BY <1>0, <2>1
    <3>3. Leftmost(S) = n + 1
      BY <2>3, <3>1, <3>2, LeftmostIs
    <3>4. Held(s, g) = n + 1
      BY <2>2, <3>1, <3>3
    <3> QED
      BY <1>2, <1>4, <3>4 DEF KeptFrom
  <2>5. ASSUME n = Len(s) PROVE Found(s, g) = {} /\ Held(s, g) = n + 1
    <3>1. S = {}
      BY <1>0, <2>3, <2>5
    <3> QED
      BY <1>2, <1>4, <2>2, <2>5, <3>1 DEF KeptFrom
  <2>6. n < Len(s) \/ n = Len(s)
    <3>1. Len(s) \in Nat
      BY <1>0
    <3> HIDE <1>4
    <3> QED
      BY <3>1
  <2> QED
    BY <2>4, <2>5, <2>6
<1> QED
  BY <1>1, <1>2, <1>3, <1>4

\* A framer that has not failed.
Fr(mode, tail, tool) == [mode |-> mode, tail |-> tail, tool |-> tool, error |-> FALSE]

LEMMA FrParts ==
  ASSUME NEW mode, NEW tail, NEW tool
  PROVE  /\ Fr(mode, tail, tool).mode = mode /\ Fr(mode, tail, tool).tail = tail
         /\ Fr(mode, tail, tool).tool = tool
  BY DEF Fr

LEMMA FrIsSound ==
  ASSUME NEW mode, NEW tail, NEW tool
  PROVE  ~Fr(mode, tail, tool).error /\ Fail(Fr(mode, tail, tool)).error
  BY DEF Fr, Fail

\* Its changes, one by one.
WithMode(f, m) == [f EXCEPT !.mode = m]
WithTail(f, t) == [f EXCEPT !.tail = t]
WithTool(f, u) == [f EXCEPT !.tool = u]

LEMMA FrChanges ==
  ASSUME NEW mode, NEW tail, NEW tool, NEW x
  PROVE  /\ WithMode(Fr(mode, tail, tool), x) = Fr(x, tail, tool)
         /\ WithTail(Fr(mode, tail, tool), x) = Fr(mode, x, tool)
         /\ WithTool(Fr(mode, tail, tool), x) = Fr(mode, tail, x)
<1>1. PICK e : e = FALSE
  OBVIOUS
<1> DEFINE f == [mode |-> mode, tail |-> tail, tool |-> tool, error |-> e]
<1>2. [f EXCEPT !.mode = x] = [mode |-> x, tail |-> tail, tool |-> tool, error |-> e]
  OBVIOUS
<1>3. [f EXCEPT !.tail = x] = [mode |-> mode, tail |-> x, tool |-> tool, error |-> e]
  OBVIOUS
<1>4. [f EXCEPT !.tool = x] = [mode |-> mode, tail |-> tail, tool |-> x, error |-> e]
  OBVIOUS
<1> QED
  BY <1>1, <1>2, <1>3, <1>4, Zenon DEF Fr, WithMode, WithTail, WithTool

\* A block ends at its first end marker, or goes on.
FedBlock(mode, tool, c, g) ==
  /\ \A i \in 1 .. Len(c) : FirstMark(BE, c, i) =>
       IF AllBlank(Rear(c, i + 2)) THEN g = Fr("after", << >>, Cat(tool, Start(c, i - 1)))
       ELSE g.error
  /\ \A n \in 0 .. Len(c) : KeptFrom(BE, c, n + 1) =>
       g = Fr(mode, Rear(c, n), Cat(tool, Start(c, n)))

LEMMA BlockIsFed ==
  ASSUME NEW mode, NEW tail \in Symbols, NEW tool, NEW s \in Symbols, NEW c, c = Cat(tail, s)
  PROVE  FedBlock(mode, tool, c, FeedBlock(Fr(mode, tail, tool), s))
<1> DEFINE f == Fr(mode, tail, tool)
           g == FeedBlock(f, s)
<1>0. c \in Symbols /\ Len(c) \in Nat /\ BlockEnd \in Symbols /\ Len(BlockEnd) = 3
  BY NativeMarkers, SymbolFacts
<1>1. f.tail = tail /\ f.tool = tool
  BY FrParts
<1>2. f.tail \o s = c
  BY <1>1 DEF Cat
<1>4. \A t, u : Fail(Fr("after", t, u)).error
  BY FrIsSound
<1> HIDE DEF f
<1>5. ASSUME NEW i \in 1 .. Len(c), FirstMark(BE, c, i)
      PROVE  IF AllBlank(Rear(c, i + 2)) THEN g = Fr("after", << >>, Cat(tool, Start(c, i - 1))) ELSE g.error
  <2>1. Found(c, BlockEnd) # {} /\ Leftmost(Found(c, BlockEnd)) = i
    BY <1>0, <1>5, FoundIs DEF BE
  <2>2. From(c, i + Len(BlockEnd)) = Rear(c, i + 2) /\ Before_(c, i) = Start(c, i - 1)
    <3>1. i + Len(BlockEnd) = (i + 2) + 1
      BY <1>0
    <3> QED
      BY <3>1 DEF From, Rear, Before_, Start
  <2> DEFINE u == f.tool \o Before_(c, i)
             done == [f EXCEPT !.mode = "after", !.tail = << >>, !.tool = u]
  <2>3. g = IF AllBlank(From(c, i + Len(BlockEnd))) THEN done ELSE Fail(done)
    BY <1>2, <2>1 DEF FeedBlock
  <2>4. u = Cat(tool, Start(c, i - 1))
    BY <1>1, <2>2 DEF Cat
  <2>5. done = WithTool(WithTail(WithMode(f, "after"), << >>), u)
    BY DEF WithMode, WithTail, WithTool
  <2>6. WithTool(WithTail(WithMode(f, "after"), << >>), u) = Fr("after", << >>, u)
    BY FrChanges DEF f
  <2> HIDE DEF u
  <2> HIDE DEF done, g
  <2> QED
    BY <1>4, <2>2, <2>3, <2>4, <2>5, <2>6
<1>6. ASSUME NEW n \in 0 .. Len(c), KeptFrom(BE, c, n + 1)
      PROVE  g = Fr(mode, Rear(c, n), Cat(tool, Start(c, n)))
  <2>1. Found(c, BlockEnd) = {} /\ Held(c, BlockEnd) = n + 1
    BY <1>0, <1>6, FoundIs DEF BE
  <2>2. From(c, n + 1) = Rear(c, n) /\ Before_(c, n + 1) = Start(c, n)
    <3>1. (n + 1) - 1 = n
      OBVIOUS
    <3> QED
      BY <3>1 DEF From, Rear, Before_, Start
  <2> DEFINE u == f.tool \o Before_(c, n + 1)
             t == From(c, n + 1)
  <2>3. g = [f EXCEPT !.tool = u, !.tail = t]
    BY <1>2, <2>1 DEF FeedBlock
  <2>4. u = Cat(tool, Start(c, n))
    BY <1>1, <2>2 DEF Cat
  <2>5. [f EXCEPT !.tool = u, !.tail = t] = WithTail(WithTool(f, u), t)
    BY DEF WithTail, WithTool
  <2>6. WithTail(WithTool(f, u), t) = Fr(mode, t, u)
    BY FrChanges DEF f
  <2> HIDE DEF g, u, t
  <2> QED
    BY <2>2, <2>3, <2>4, <2>5, <2>6 DEF t
<1> QED
  BY <1>5, <1>6 DEF f, FedBlock

\* A block starts with the namespace.
LEMMA BlocksStartWithNamespace ==
  ASSUME NEW s, NEW i, Len(s) \in Nat, i \in 1 .. Len(s), Marks(BS, s, i)
  PROVE  Marks(NS, s, i)
<1>1. Fits(BlockStart, s, i)
  BY DEF Marks, BS
<1>2. i + 2 <= Len(s) /\ \A k \in 1 .. 3 : s[i + k - 1] = BlockStart[k]
  BY <1>1, NativeMarkers DEF Fits
<1>3. \A k \in 1 .. 2 : s[i + k - 1] = Namespace[k]
  BY <1>2, NativeMarkers
<1>4. Fits(Namespace, s, i)
  BY <1>2, <1>3, NativeMarkers DEF Fits
<1> QED
  BY <1>4 DEF Marks, NS

LEMMA TextIsFed ==
  ASSUME NEW tail \in Symbols, NEW tool, NEW s \in Symbols, s # << >>, NEW c, c = Cat(tail, s)
  PROVE  LET f == Fr("text", tail, tool)
             g == Feed(f, s)
         IN
         /\ \A i \in 1 .. Len(c) : FirstMark(BS, c, i) =>
              /\ Visible(f, s) = Start(c, i - 1)
              /\ IF FirstMark(NS, c, i) THEN g = FeedBlock(Fr("block", << >>, tool), Rear(c, i + 2))
                 ELSE g.error
         /\ \A n \in 0 .. Len(c) : KeptFrom(BS, c, n + 1) =>
              /\ Visible(f, s) = Start(c, n)
              /\ IF NoMark(NS, c) \/ FirstMark(NS, c, n + 1) THEN g = Fr("text", Rear(c, n), tool)
                 ELSE g.error
<1> DEFINE f == Fr("text", tail, tool)
           g == Feed(f, s)
           names == Found(c, Namespace)
           marker == Found(c, BlockStart)
           cut == IF marker # {} THEN Leftmost(marker) ELSE Held(c, BlockStart)
<1>0. /\ c \in Symbols /\ c \in Symbols /\ Len(c) \in Nat
      /\ BlockStart \in Symbols /\ Len(BlockStart) = 3 /\ Namespace \in Symbols
  BY NativeMarkers, SymbolFacts
<1>1. f.tail = tail /\ f.mode = "text"
  BY FrParts
<1>2. Fail(f).error
  BY FrIsSound
<1>10. /\ \A t : WithTail(f, t) = Fr("text", t, tool)
       /\ WithTail(WithMode(f, "block"), << >>) = Fr("block", << >>, tool)
  BY FrChanges
<1>11. f.tail \o s = c
  BY <1>1 DEF Cat
<1>12. f.mode # "block" /\ f.mode # "after"
  BY <1>1
<1> HIDE DEF f
<1>3. g = IF names # {} /\ Leftmost(names) # cut THEN Fail(f)
          ELSE IF marker # {}
          THEN FeedBlock([f EXCEPT !.mode = "block", !.tail = << >>], From(c, cut + Len(BlockStart)))
          ELSE [f EXCEPT !.tail = From(c, cut)]
  BY <1>1, <1>11, <1>12 DEF Feed
<1>13. /\ [f EXCEPT !.mode = "block", !.tail = << >>] = Fr("block", << >>, tool)
       /\ \A t : [f EXCEPT !.tail = t] = Fr("text", t, tool)
  <2>1. [f EXCEPT !.mode = "block", !.tail = << >>] = WithTail(WithMode(f, "block"), << >>)
    BY DEF WithMode, WithTail
  <2>2. \A t : [f EXCEPT !.tail = t] = Fr("text", t, tool)
    BY <1>10 DEF WithTail
  <2> QED
    BY <1>10, <2>1, <2>2
<1>14. g = IF names # {} /\ Leftmost(names) # cut THEN Fail(f)
           ELSE IF marker # {}
           THEN FeedBlock(Fr("block", << >>, tool), From(c, cut + Len(BlockStart)))
           ELSE Fr("text", From(c, cut), tool)
  <2> HIDE DEF g, names, marker, cut
  <2>1. [f EXCEPT !.tail = From(c, cut)] = Fr("text", From(c, cut), tool)
    BY <1>13
  <2> QED
    BY <1>3, <1>13, <2>1
<1>4. Visible(f, s) = Before_(c, cut)
  BY <1>1, <1>11 DEF Visible
<1>5. /\ NoMark(NS, c) <=> names = {}
      /\ \A i : FirstMark(NS, c, i) => names # {} /\ Leftmost(names) = i
  BY <1>0, FoundIs DEF NS
<1>6. NoMark(NS, c) \/ \E i : FirstMark(NS, c, i)
  BY <1>0, MarkedOrKept
<1> HIDE DEF g, names, marker
<1>7. ASSUME NEW i \in 1 .. Len(c), FirstMark(BS, c, i)
      PROVE  /\ Visible(f, s) = Start(c, i - 1)
             /\ IF FirstMark(NS, c, i) THEN g = FeedBlock(Fr("block", << >>, tool), Rear(c, i + 2))
                ELSE g.error
  <2>1. marker # {} /\ cut = i
    BY <1>0, <1>7, FoundIs DEF BS, marker
  <2> HIDE DEF cut
  <2>2. From(c, cut + Len(BlockStart)) = Rear(c, i + 2) /\ Before_(c, cut) = Start(c, i - 1)
    <3>1. cut + Len(BlockStart) = (i + 2) + 1
      BY <1>0, <2>1
    <3> QED
      BY <2>1, <3>1 DEF From, Rear, Before_, Start
  <2>3. ~NoMark(NS, c)
    <3>1. Marks(NS, c, i)
      BY <1>0, <1>7, BlocksStartWithNamespace DEF FirstMark
    <3> QED
      BY <3>1 DEF NoMark
  <2>4. CASE FirstMark(NS, c, i)
    <3>1. names # {} /\ Leftmost(names) = i
      BY <1>5, <2>4
    <3>2. g = FeedBlock(Fr("block", << >>, tool), From(c, cut + Len(BlockStart)))
      BY <1>14, <2>1, <3>1
    <3> QED
      BY <1>4, <2>2, <2>4, <3>2
  <2>5. CASE ~FirstMark(NS, c, i)
    <3>1. PICK l : FirstMark(NS, c, l)
      BY <1>6, <2>3
    <3>2. names # {} /\ Leftmost(names) = l /\ l # i
      BY <1>5, <2>5, <3>1
    <3>3. g = Fail(f)
      BY <1>14, <2>1, <3>2
    <3> QED
      BY <1>2, <1>4, <2>2, <2>5, <3>3
  <2> QED
    BY <2>4, <2>5
<1>8. ASSUME NEW n \in 0 .. Len(c), KeptFrom(BS, c, n + 1)
      PROVE  /\ Visible(f, s) = Start(c, n)
             /\ IF NoMark(NS, c) \/ FirstMark(NS, c, n + 1) THEN g = Fr("text", Rear(c, n), tool)
                ELSE g.error
  <2>1. marker = {} /\ cut = n + 1
    BY <1>0, <1>8, FoundIs DEF BS, marker
  <2> HIDE DEF cut
  <2>2. From(c, cut) = Rear(c, n) /\ Before_(c, cut) = Start(c, n)
    <3>1. (n + 1) - 1 = n
      OBVIOUS
    <3> QED
      BY <2>1, <3>1 DEF From, Rear, Before_, Start
  <2>3. CASE NoMark(NS, c) \/ FirstMark(NS, c, n + 1)
    <3>1. ~(names # {} /\ Leftmost(names) # cut)
      BY <1>5, <2>1, <2>3
    <3>2. g = Fr("text", From(c, cut), tool)
      BY <1>14, <2>1, <3>1
    <3> QED
      BY <1>4, <2>2, <2>3, <3>2
  <2>4. CASE ~(NoMark(NS, c) \/ FirstMark(NS, c, n + 1))
    <3>1. PICK l : FirstMark(NS, c, l)
      BY <1>6, <2>4
    <3>2. names # {} /\ Leftmost(names) = l /\ l # n + 1
      BY <1>5, <2>4, <3>1
    <3>3. g = Fail(f)
      BY <1>14, <2>1, <3>2
    <3> QED
      BY <1>2, <1>4, <2>2, <2>4, <3>3
  <2> QED
    BY <2>3, <2>4
<1> QED
  BY <1>7, <1>8 DEF f, g

\* A framer that took all of w in, wherever it was cut, and what was shown of it.
FramedText(w, f, v) ==
  \E n \in 0 .. Len(w) :
    /\ KeptFrom(BS, w, n + 1) /\ (NoMark(NS, w) \/ FirstMark(NS, w, n + 1))
    /\ f = Fr("text", Rear(w, n), << >>) /\ v = Start(w, n)

\* The part behind the start of a block.
FramedBlock(R, f) ==
  \/ \E n \in 0 .. Len(R) : KeptFrom(BE, R, n + 1) /\ f = Fr("block", Rear(R, n), Start(R, n))
  \/ \E k \in 1 .. Len(R) : /\ FirstMark(BE, R, k) /\ AllBlank(Rear(R, k + 2))
                            /\ f = Fr("after", << >>, Start(R, k - 1))

InBlock(w, f, v, i) ==
  /\ FirstMark(BS, w, i) /\ FirstMark(NS, w, i)
  /\ v = Start(w, i - 1) /\ FramedBlock(Rear(w, i + 2), f)

Framed(w, f, v) == FramedText(w, f, v) \/ \E i \in 1 .. Len(w) : InBlock(w, f, v, i)

\* Markers fit where they are found.
LEMMA MarkersFit ==
  ASSUME NEW s \in Symbols, NEW i \in 1 .. Len(s)
  PROVE  /\ Marks(BS, s, i) => /\ i + 2 <= Len(s) /\ i + 2 \in 0 .. Len(s)
                               /\ s[i] = "[" /\ s[i + 1] = "n" /\ s[i + 2] = "s"
         /\ Marks(BE, s, i) => /\ i + 2 <= Len(s) /\ i + 2 \in 0 .. Len(s)
                               /\ s[i] = "[" /\ s[i + 1] = "n" /\ s[i + 2] = "e"
<1>0. Len(s) \in Nat /\ i \in Nat
  BY SymbolFacts
<1>1. ASSUME NEW g, Len(g) = 3, Fits(g, s, i)
      PROVE  /\ i + 2 <= Len(s) /\ i + 2 \in 0 .. Len(s)
             /\ s[i] = g[1] /\ s[i + 1] = g[2] /\ s[i + 2] = g[3]
  <2>1. i + 2 <= Len(s) /\ \A k \in 1 .. 3 : s[i + k - 1] = g[k]
    BY <1>0, <1>1 DEF Fits
  <2>2. s[i + 1 - 1] = g[1] /\ s[i + 2 - 1] = g[2] /\ s[i + 3 - 1] = g[3]
    BY <2>1
  <2>3. i + 1 - 1 = i /\ i + 2 - 1 = i + 1 /\ i + 3 - 1 = i + 2
    BY <1>0
  <2> QED
    BY <1>0, <2>1, <2>2, <2>3
<1>2. Marks(BS, s, i) => Fits(BlockStart, s, i)
  BY DEF Marks, BS
<1>3. Marks(BE, s, i) => Fits(BlockEnd, s, i)
  BY DEF Marks, BE
<1> QED
  BY <1>1, <1>2, <1>3, NativeMarkers

LEMMA BlockIsFramed ==
  ASSUME NEW R \in Symbols, NEW g, g = FeedBlock(Fr("block", << >>, << >>), R), ~g.error
  PROVE  FramedBlock(R, g)
<1>0. R \in Symbols /\ << >> \in Symbols /\ Cat(<< >>, R) = R /\ Len(R) \in Nat
  BY Concatenated, SymbolFacts
<1>1. \A s \in Symbols : Cat(<< >>, s) = s
  BY Concatenated, SymbolFacts
<1>2. /\ \A i \in 1 .. Len(R) : FirstMark(BE, R, i) =>
           IF AllBlank(Rear(R, i + 2)) THEN g = Fr("after", << >>, Cat(<< >>, Start(R, i - 1))) ELSE g.error
      /\ \A n \in 0 .. Len(R) : KeptFrom(BE, R, n + 1) =>
           g = Fr("block", Rear(R, n), Cat(<< >>, Start(R, n)))
  <2>1. FedBlock("block", << >>, R, g)
    BY <1>0, BlockIsFed
  <2> QED
    BY <2>1 DEF FedBlock
<1>3. \A n \in 0 .. Len(R) : Start(R, n) \in Symbols
  BY <1>0, Parts, SymbolFacts
<1>4. CASE \E i \in 1 .. Len(R) : FirstMark(BE, R, i)
  <2>1. PICK i \in 1 .. Len(R) : FirstMark(BE, R, i)
    BY <1>4
  <2>2. i - 1 \in 0 .. Len(R)
    BY <1>0
  <2>3. Cat(<< >>, Start(R, i - 1)) = Start(R, i - 1)
    BY <1>1, <1>3, <2>2
  <2>4. AllBlank(Rear(R, i + 2)) /\ g = Fr("after", << >>, Start(R, i - 1))
    BY <1>2, <2>1, <2>3
  <2> QED
    BY <2>1, <2>4 DEF FramedBlock
<1>5. CASE \E k \in 1 .. Len(R) + 1 : KeptFrom(BE, R, k)
  <2>1. PICK k \in 1 .. Len(R) + 1 : KeptFrom(BE, R, k)
    BY <1>5
  <2> DEFINE n == k - 1
  <2>2. n \in 0 .. Len(R) /\ n + 1 = k
    BY <1>0
  <2> HIDE DEF n
  <2>3. KeptFrom(BE, R, n + 1)
    BY <2>1, <2>2
  <2>4. Cat(<< >>, Start(R, n)) = Start(R, n)
    BY <1>1, <1>3, <2>2
  <2>5. g = Fr("block", Rear(R, n), Start(R, n))
    BY <1>2, <2>2, <2>3, <2>4
  <2> QED
    BY <2>2, <2>3, <2>5 DEF FramedBlock
<1> QED
  BY <1>0, <1>4, <1>5, MarkedOrKept

\* What an unbroken text would give.
LEMMA FramedAtOnce ==
  ASSUME NEW w \in Symbols, NEW f, NEW v, Framed(w, f, v)
  PROVE  f = Feed(NewFramer, w) /\ v = Visible(NewFramer, w) /\ ~f.error
<1>0. /\ w \in Symbols /\ Len(w) \in Nat /\ << >> \in Symbols /\ Cat(<< >>, w) = w
      /\ NewFramer = Fr("text", << >>, << >>)
  BY Concatenated, SymbolFacts DEF NewFramer, Fr
<1>1. CASE w = << >>
  <2>1. Len(w) = 0
    BY <1>1
  <2>2. f = Fr("text", Rear(w, 0), << >>) /\ v = Start(w, 0)
    <3>1. \A n \in 0 .. Len(w) : n = 0
      BY <2>1
    <3> QED
      BY <2>1, <3>1 DEF Framed, FramedText
  <2>3. Rear(w, 0) = << >> /\ Start(w, 0) = << >>
    BY <1>1 DEF Rear, Start
  <2>4. Feed(NewFramer, w) = NewFramer /\ Visible(NewFramer, w) = << >>
    BY <1>1 DEF Feed, Visible
  <2> QED
    BY <1>0, <2>2, <2>3, <2>4, FrIsSound
<1>2. CASE w # << >>
  <2>1. /\ \A i \in 1 .. Len(w) : FirstMark(BS, w, i) =>
             /\ Visible(NewFramer, w) = Start(w, i - 1)
             /\ IF FirstMark(NS, w, i) THEN Feed(NewFramer, w) = FeedBlock(Fr("block", << >>, << >>), Rear(w, i + 2))
                ELSE Feed(NewFramer, w).error
        /\ \A n \in 0 .. Len(w) : KeptFrom(BS, w, n + 1) =>
             /\ Visible(NewFramer, w) = Start(w, n)
             /\ IF NoMark(NS, w) \/ FirstMark(NS, w, n + 1) THEN Feed(NewFramer, w) = Fr("text", Rear(w, n), << >>)
                ELSE Feed(NewFramer, w).error
    BY <1>0, <1>2, TextIsFed
  <2>2. CASE FramedText(w, f, v)
    <3>1. PICK n \in 0 .. Len(w) :
            /\ KeptFrom(BS, w, n + 1) /\ (NoMark(NS, w) \/ FirstMark(NS, w, n + 1))
            /\ f = Fr("text", Rear(w, n), << >>) /\ v = Start(w, n)
      BY <2>2 DEF FramedText
    <3> QED
      BY <2>1, <3>1, FrIsSound
  <2>3. CASE \E i \in 1 .. Len(w) : InBlock(w, f, v, i)
    <3>1. PICK i \in 1 .. Len(w) : InBlock(w, f, v, i)
      BY <2>3
    <3> DEFINE R == Rear(w, i + 2)
    <3>2. FirstMark(BS, w, i) /\ FirstMark(NS, w, i) /\ v = Start(w, i - 1) /\ FramedBlock(R, f)
      BY <3>1 DEF InBlock
    <3>3. i + 2 \in 0 .. Len(w)
      BY <3>2, MarkersFit DEF FirstMark
    <3>4. R \in Symbols
      BY <1>0, <3>3, Parts, SymbolFacts
    <3>5. v = Visible(NewFramer, w) /\ Feed(NewFramer, w) = FeedBlock(Fr("block", << >>, << >>), R)
      BY <2>1, <3>2
    <3> HIDE DEF R
    <3>6. f = FeedBlock(Fr("block", << >>, << >>), R) /\ ~f.error
      <4>0. R \in Symbols /\ Cat(<< >>, R) = R /\ Len(R) \in Nat
        BY <3>4, Concatenated, SymbolFacts
      <4>1. /\ \A k \in 1 .. Len(R) : FirstMark(BE, R, k) =>
                 IF AllBlank(Rear(R, k + 2))
                 THEN FeedBlock(Fr("block", << >>, << >>), R) = Fr("after", << >>, Cat(<< >>, Start(R, k - 1)))
                 ELSE FeedBlock(Fr("block", << >>, << >>), R).error
            /\ \A n \in 0 .. Len(R) : KeptFrom(BE, R, n + 1) =>
                 FeedBlock(Fr("block", << >>, << >>), R) = Fr("block", Rear(R, n), Cat(<< >>, Start(R, n)))
        <5> DEFINE g == FeedBlock(Fr("block", << >>, << >>), R)
        <5>1. FedBlock("block", << >>, R, g)
          BY <1>0, <3>4, <4>0, BlockIsFed
        <5> HIDE DEF g
        <5>2. /\ \A k \in 1 .. Len(R) : FirstMark(BE, R, k) =>
                   IF AllBlank(Rear(R, k + 2))
                   THEN g = Fr("after", << >>, Cat(<< >>, Start(R, k - 1))) ELSE g.error
              /\ \A n \in 0 .. Len(R) : KeptFrom(BE, R, n + 1) =>
                   g = Fr("block", Rear(R, n), Cat(<< >>, Start(R, n)))
          BY <5>1 DEF FedBlock
        <5> QED
          BY <5>2 DEF g
      <4>2. \A n \in 0 .. Len(R) : Cat(<< >>, Start(R, n)) = Start(R, n)
        <5> TAKE n \in 0 .. Len(R)
        <5>1. Start(R, n) \in Symbols
          BY <4>0, Parts
        <5> QED
          BY <5>1, Concatenated
      <4>3. CASE \E n \in 0 .. Len(R) : KeptFrom(BE, R, n + 1) /\ f = Fr("block", Rear(R, n), Start(R, n))
        <5>1. PICK n \in 0 .. Len(R) : KeptFrom(BE, R, n + 1) /\ f = Fr("block", Rear(R, n), Start(R, n))
          BY <4>3
        <5>2. Cat(<< >>, Start(R, n)) = Start(R, n)
          BY <4>2
        <5> QED
          BY <4>1, <5>1, <5>2, FrIsSound
      <4>4. CASE \E k \in 1 .. Len(R) : /\ FirstMark(BE, R, k) /\ AllBlank(Rear(R, k + 2))
                                         /\ f = Fr("after", << >>, Start(R, k - 1))
        <5>1. PICK k \in 1 .. Len(R) : /\ FirstMark(BE, R, k) /\ AllBlank(Rear(R, k + 2))
                                        /\ f = Fr("after", << >>, Start(R, k - 1))
          BY <4>4
        <5>2. k - 1 \in 0 .. Len(R)
          BY <4>0
        <5>3. Cat(<< >>, Start(R, k - 1)) = Start(R, k - 1)
          BY <4>2, <5>2
        <5> QED
          BY <4>1, <5>1, <5>3, FrIsSound
      <4> QED
        BY <3>2, <4>3, <4>4 DEF FramedBlock
    <3> QED
      BY <3>5, <3>6
  <2> QED
    BY <2>2, <2>3 DEF Framed
<1> QED
  BY <1>1, <1>2

\* A sequence that ends in the start of the namespace ends in the start of a block.
LEMMA NamesMayBeBlocks ==
  ASSUME NEW s, Len(s) \in Nat, NEW j \in 1 .. Len(s), BegunAt(NS, s, j)
  PROVE  BegunAt(BS, s, j)
<1>1. CutAt(Namespace, s, j)
  BY DEF BegunAt, NS
<1>2. Len(s) - j + 1 < 2 /\ \A k \in 1 .. Len(s) - j + 1 : s[j + k - 1] = Namespace[k]
  BY <1>1, NativeMarkers DEF CutAt
<1>3. \A k \in 1 .. Len(s) - j + 1 : k = 1
  BY <1>2
<1>4. \A k \in 1 .. Len(s) - j + 1 : s[j + k - 1] = BlockStart[k]
  BY <1>2, <1>3, NativeMarkers
<1>5. CutAt(BlockStart, s, j)
  BY <1>2, <1>4, NativeMarkers DEF CutAt
<1> QED
  BY <1>5 DEF BegunAt, BS

\* The namespace behind what was shown.
LEMMA NamesBehind ==
  ASSUME NEW w \in Symbols, NEW s \in Symbols, NEW n \in 0 .. Len(w),
         KeptFrom(BS, w, n + 1), NoMark(NS, w) \/ FirstMark(NS, w, n + 1)
  PROVE  /\ NoMark(NS, Cat(Rear(w, n), s)) => NoMark(NS, Cat(w, s))
         /\ \A i \in 1 .. Len(Cat(Rear(w, n), s)) :
              FirstMark(NS, Cat(Rear(w, n), s), i) => FirstMark(NS, Cat(w, s), n + i)
<1> DEFINE c == Cat(Rear(w, n), s)
           D == Cat(w, s)
<1>0. /\ w \in Symbols /\ s \in Symbols /\ Len(w) \in Nat /\ n \in Nat
      /\ Markers(NS, "[") /\ Markers(BS, "[")
  BY NativeMarkers, SymbolFacts
<1>1. D \in Symbols /\ Len(D) = Len(w) + Len(s) /\ c = Rear(D, n) /\ n \in 0 .. Len(D)
  <2>1. D \in Symbols /\ Len(D) = Len(w) + Len(s) /\ Len(s) \in Nat
    BY SymbolFacts
  <2>2. c = Rear(D, n)
    BY CutsAreKept
  <2> HIDE DEF D, c
  <2> QED
    BY <1>0, <2>1, <2>2
<1>2. c \in Symbols /\ Len(c) = Len(D) - n /\ Len(c) \in Nat /\ Len(D) \in Nat
  BY <1>1, Parts
<1>3. \A i \in 1 .. Len(D) - n : Marks(NS, Rear(D, n), i) <=> Marks(NS, D, n + i)
  BY <1>0, <1>1, MarksBehind
<1>4. ASSUME NEW j \in 1 .. n PROVE ~Marks(NS, D, j)
  <2>1. j \in 1 .. Len(w) /\ j \in 1 .. (n + 1) - 1
    BY <1>0
  <2>2. ~Marks(NS, w, j)
    BY <2>1 DEF NoMark, FirstMark
  <2>3. ~BegunAt(NS, w, j)
    BY <1>0, <2>1, NamesMayBeBlocks DEF KeptFrom
  <2> QED
    BY <1>0, <2>1, <2>2, <2>3, MarksOfMore
<1> HIDE DEF c, D
<1>5. ASSUME NEW j \in 1 .. Len(D) PROVE j \in 1 .. n \/ (j - n \in 1 .. Len(c) /\ (Marks(NS, c, j - n) <=> Marks(NS, D, j)))
  <2>1. CASE j <= n
    BY <1>0, <2>1
  <2>2. CASE j > n
    <3> DEFINE i == j - n
    <3>1. i \in 1 .. Len(D) - n /\ n + i = j
      BY <1>0, <1>2, <2>2
    <3> HIDE DEF i
    <3>2. Marks(NS, c, i) <=> Marks(NS, D, j)
      BY <1>1, <1>3, <3>1
    <3> QED
      BY <1>2, <3>1, <3>2 DEF i
  <2> QED
    BY <1>0, <1>2, <2>1, <2>2
<1>6. NoMark(NS, c) => NoMark(NS, D)
  BY <1>4, <1>5 DEF NoMark
<1>7. ASSUME NEW i \in 1 .. Len(c), FirstMark(NS, c, i) PROVE FirstMark(NS, D, n + i)
  <2>1. n + i \in 1 .. Len(D) /\ i \in 1 .. Len(D) - n
    BY <1>0, <1>2
  <2>2. Marks(NS, D, n + i)
    BY <1>1, <1>3, <1>7, <2>1 DEF FirstMark
  <2>3. ASSUME NEW j \in 1 .. (n + i) - 1, Marks(NS, D, j) PROVE FALSE
    <3>1. j \in 1 .. Len(D) /\ (j - n \in 1 .. Len(c) => j - n \in 1 .. i - 1)
      BY <1>0, <1>2, <2>1
    <3>2. j - n \in 1 .. Len(c) /\ Marks(NS, c, j - n)
      BY <1>4, <1>5, <2>3, <3>1
    <3> QED
      BY <1>7, <3>1, <3>2 DEF FirstMark
  <2> QED
    BY <2>1, <2>2, <2>3 DEF FirstMark
<1> QED
  BY <1>6, <1>7 DEF c, D

\* The same cut, seen from the beginning.
LEMMA SameCut ==
  ASSUME NEW w \in Symbols, NEW s \in Symbols, NEW n \in 0 .. Len(w), NEW c, c = Cat(Rear(w, n), s)
  PROVE  /\ c \in Symbols /\ Len(c) \in Nat /\ Len(Cat(w, s)) = n + Len(c) /\ Cat(w, s) \in Symbols
         /\ \A j \in 0 .. Len(c) : /\ Rear(Cat(w, s), n + j) = Rear(c, j)
                                   /\ Start(Cat(w, s), n + j) = Cat(Start(w, n), Start(c, j))
                                   /\ n + j \in 0 .. Len(Cat(w, s))
<1> DEFINE D == Cat(w, s)
<1>0. w \in Symbols /\ s \in Symbols /\ Len(w) \in Nat /\ n \in Nat /\ Len(s) \in Nat
  BY SymbolFacts
<1>1. D \in Symbols /\ Len(D) = Len(w) + Len(s) /\ c = Rear(D, n) /\ Start(D, n) = Start(w, n)
  <2>1. D \in Symbols /\ Len(D) = Len(w) + Len(s)
    BY SymbolFacts
  <2>2. c = Rear(D, n) /\ Start(D, n) = Start(w, n)
    BY CutsAreKept
  <2> QED
    BY <2>1, <2>2
<1>2. n \in 0 .. Len(D)
  BY <1>0, <1>1
<1>3. c \in Symbols /\ Len(c) = Len(D) - n /\ Len(c) \in Nat /\ Len(D) = n + Len(c)
  <2>1. c \in Symbols /\ Len(c) = Len(D) - n
    <3> HIDE DEF D
    <3>1. Rear(D, n) \in Symbols /\ Len(Rear(D, n)) = Len(D) - n
      BY <1>1, <1>2, Parts
    <3> QED
      BY <1>1, <3>1
  <2> QED
    BY <1>0, <1>1, <2>1
<1> HIDE DEF D
<1>4. ASSUME NEW j \in 0 .. Len(c)
      PROVE  /\ Rear(D, n + j) = Rear(c, j) /\ Start(D, n + j) = Cat(Start(w, n), Start(c, j))
             /\ n + j \in 0 .. Len(D)
  <2>1. j \in 0 .. Len(D) - n
    BY <1>0, <1>3
  <2>2. Rear(Rear(D, n), j) = Rear(D, n + j) /\ Cat(Start(D, n), Start(Rear(D, n), j)) = Start(D, n + j)
    BY <1>1, <1>2, <2>1, CutTwice
  <2>3. n + j \in 0 .. Len(D)
    BY <1>0, <1>3
  <2> QED
    BY <1>1, <2>2, <2>3
<1> QED
  BY <1>1, <1>3, <1>4, SymbolFacts DEF D

\* Blanks behind blanks.
LEMMA BlanksJoin ==
  ASSUME NEW r \in Symbols, NEW s \in Symbols, AllBlank(r), AllBlank(s)
  PROVE  AllBlank(Cat(r, s))
<1> DEFINE c == Cat(r, s)
<1>1. /\ Len(r) \in Nat /\ DOMAIN r = 1 .. Len(r) /\ Len(s) \in Nat /\ DOMAIN s = 1 .. Len(s)
      /\ c \in Symbols /\ Len(c) = Len(r) + Len(s)
  BY SymbolFacts
<1>2. DOMAIN c = 1 .. Len(r) + Len(s)
  <2> HIDE DEF c
  <2> QED
    BY <1>1, SymbolFacts
<1>3. /\ \A k \in 1 .. Len(r) : c[k] = r[k]
      /\ \A k \in 1 .. Len(s) : c[Len(r) + k] = s[k]
  BY Concatenated
<1>4. /\ \A k \in 1 .. Len(r) : r[k] = "_"
      /\ \A k \in 1 .. Len(s) : s[k] = "_"
  BY <1>1 DEF AllBlank
<1> HIDE DEF c
<1>5. ASSUME NEW p \in 1 .. Len(r) + Len(s) PROVE c[p] = "_"
  <2>1. ASSUME p <= Len(r) PROVE c[p] = "_"
    <3>1. p \in 1 .. Len(r)
      BY <1>1, <2>1
    <3> QED
      BY <1>3, <1>4, <3>1
  <2>2. ASSUME ~(p <= Len(r)) PROVE c[p] = "_"
    <3> DEFINE k == p - Len(r)
    <3>1. k \in 1 .. Len(s) /\ p = Len(r) + k
      BY <1>1, <2>2
    <3> HIDE DEF k
    <3> QED
      BY <1>3, <1>4, <3>1
  <2> QED
    BY <2>1, <2>2
<1> QED
  BY <1>2, <1>5 DEF AllBlank, c

\* More of a block.
LEMMA BlockGoesOn ==
  ASSUME NEW R \in Symbols, NEW s \in Symbols, s # << >>, NEW f, FramedBlock(R, f), ~Feed(f, s).error
  PROVE  FramedBlock(Cat(R, s), Feed(f, s)) /\ f.mode # "text"
<1>0. R \in Symbols /\ s \in Symbols /\ Len(R) \in Nat /\ Markers(BE, "[")
  BY NativeMarkers, SymbolFacts
<1>1. ASSUME NEW n \in 0 .. Len(R), KeptFrom(BE, R, n + 1), f = Fr("block", Rear(R, n), Start(R, n))
      PROVE  FramedBlock(Cat(R, s), Feed(f, s)) /\ f.mode # "text"
  <2> DEFINE c == Cat(Rear(R, n), s)
             D == Cat(R, s)
             g == Feed(f, s)
  <2>1. f.mode = "block"
    BY <1>1, FrParts
  <2>2. g = FeedBlock(f, s)
    BY <2>1 DEF Feed
  <2>3. Rear(R, n) \in Symbols
    BY <1>0, Parts, SymbolFacts
  <2>4. /\ \A i \in 1 .. Len(c) : FirstMark(BE, c, i) =>
             IF AllBlank(Rear(c, i + 2)) THEN g = Fr("after", << >>, Cat(Start(R, n), Start(c, i - 1))) ELSE g.error
        /\ \A k \in 0 .. Len(c) : KeptFrom(BE, c, k + 1) => g = Fr("block", Rear(c, k), Cat(Start(R, n), Start(c, k)))
    <3>1. FedBlock("block", Start(R, n), c, g)
      BY <1>1, <2>2, <2>3, BlockIsFed
    <3> HIDE DEF g, c
    <3> QED
      BY <3>1 DEF FedBlock
  <2>5. /\ c \in Symbols /\ Len(c) \in Nat /\ Len(D) = n + Len(c) /\ D \in Symbols
        /\ \A j \in 0 .. Len(c) : /\ Rear(D, n + j) = Rear(c, j)
                                  /\ Start(D, n + j) = Cat(Start(R, n), Start(c, j))
                                  /\ n + j \in 0 .. Len(D)
    BY SameCut
  <2>6. /\ \A i \in 1 .. Len(c) : FirstMark(BE, c, i) => FirstMark(BE, D, n + i)
        /\ \A k \in 1 .. Len(c) + 1 : KeptFrom(BE, c, k) => KeptFrom(BE, D, n + k)
    BY <1>0, <1>1, KeptIsEnough
  <2>7. ~g.error
    OBVIOUS
  <2>8. n \in Nat
    OBVIOUS
  <2> HIDE DEF c, D, g
  <2>9. ASSUME NEW i \in 1 .. Len(c), FirstMark(BE, c, i) PROVE FramedBlock(D, g)
    <3>1. AllBlank(Rear(c, i + 2)) /\ g = Fr("after", << >>, Cat(Start(R, n), Start(c, i - 1)))
      BY <2>4, <2>7, <2>9
    <3>2. i + 2 \in 0 .. Len(c) /\ i - 1 \in 0 .. Len(c)
      BY <2>5, <2>9, MarkersFit DEF FirstMark
    <3>3. (n + i) + 2 = n + (i + 2) /\ (n + i) - 1 = n + (i - 1) /\ n + i \in 1 .. Len(D)
      BY <2>5, <2>8
    <3>4. Rear(D, (n + i) + 2) = Rear(c, i + 2) /\ Start(D, (n + i) - 1) = Cat(Start(R, n), Start(c, i - 1))
      BY <2>5, <3>2, <3>3
    <3>5. FirstMark(BE, D, n + i)
      BY <2>6, <2>9
    <3> QED
      BY <3>1, <3>3, <3>4, <3>5 DEF FramedBlock
  <2>10. ASSUME NEW k \in 0 .. Len(c), KeptFrom(BE, c, k + 1) PROVE FramedBlock(D, g)
    <3>1. g = Fr("block", Rear(c, k), Cat(Start(R, n), Start(c, k)))
      BY <2>4, <2>10
    <3>2. Rear(D, n + k) = Rear(c, k) /\ Start(D, n + k) = Cat(Start(R, n), Start(c, k)) /\ n + k \in 0 .. Len(D)
      BY <2>5
    <3>3. KeptFrom(BE, D, (n + k) + 1)
      <4>1. k + 1 \in 1 .. Len(c) + 1 /\ n + (k + 1) = (n + k) + 1
        BY <2>5, <2>8
      <4> QED
        BY <2>6, <2>10, <4>1
    <3> QED
      BY <3>1, <3>2, <3>3 DEF FramedBlock
  <2>11. \/ \E i \in 1 .. Len(c) : FirstMark(BE, c, i)
         \/ \E k \in 0 .. Len(c) : KeptFrom(BE, c, k + 1)
    <3>1. CASE \E k \in 1 .. Len(c) + 1 : KeptFrom(BE, c, k)
      <4>1. PICK k \in 1 .. Len(c) + 1 : KeptFrom(BE, c, k)
        BY <3>1
      <4>2. k - 1 \in 0 .. Len(c) /\ (k - 1) + 1 = k
        BY <2>5
      <4> QED
        BY <4>1, <4>2
    <3> QED
      BY <2>5, <3>1, MarkedOrKept, SymbolFacts
  <2> QED
    BY <2>1, <2>9, <2>10, <2>11 DEF D, g
<1>2. ASSUME NEW k \in 1 .. Len(R), FirstMark(BE, R, k), AllBlank(Rear(R, k + 2)),
             f = Fr("after", << >>, Start(R, k - 1))
      PROVE  FramedBlock(Cat(R, s), Feed(f, s)) /\ f.mode # "text"
  <2>1. f.mode = "after" /\ Fail(f).error
    <3>1. f.mode = "after"
      BY <1>2, FrParts
    <3>2. Fail(f).error
      BY <1>2, FrIsSound
    <3> QED
      BY <3>1, <3>2
  <2>2. AllBlank(s) /\ Feed(f, s) = f
    BY <2>1 DEF Feed
  <2>3. FirstMark(BE, Cat(R, s), k)
    BY <1>0, <1>2, FirstMarkStays
  <2>4. k + 2 \in 0 .. Len(R) /\ k - 1 \in 0 .. Len(R)
    BY <1>0, <1>2, MarkersFit DEF FirstMark
  <2>5. Rear(Cat(R, s), k + 2) = Cat(Rear(R, k + 2), s) /\ Start(Cat(R, s), k - 1) = Start(R, k - 1)
    BY <1>0, <2>4, CutsAreKept
  <2>6. AllBlank(Cat(Rear(R, k + 2), s))
    <3> DEFINE r == Rear(R, k + 2)
    <3>1. r \in Symbols
      BY <1>0, <2>4, Parts
    <3> HIDE DEF r
    <3>2. AllBlank(r) /\ AllBlank(s)
      BY <1>2, <2>2 DEF r
    <3>3. AllBlank(Cat(r, s))
      BY <1>0, <3>1, <3>2, BlanksJoin
    <3> QED
      BY <3>3 DEF r
  <2>7. k \in 1 .. Len(Cat(R, s))
    BY <2>3 DEF FirstMark
  <2> QED
    BY <1>2, <2>1, <2>2, <2>3, <2>5, <2>6, <2>7 DEF FramedBlock
<1> QED
  BY <1>1, <1>2 DEF FramedBlock

\* A chunk more is framed as if it had come with what was before.
LEMMA FramedOnward ==
  ASSUME NEW w \in Symbols, NEW s \in Symbols, s # << >>, NEW f, NEW v, Framed(w, f, v), ~Feed(f, s).error
  PROVE  Framed(Cat(w, s), Feed(f, s), Cat(v, Visible(f, s)))
<1> DEFINE D == Cat(w, s)
           g == Feed(f, s)
<1>0. /\ w \in Symbols /\ s \in Symbols /\ Len(w) \in Nat
      /\ Markers(NS, "[") /\ Markers(BS, "[")
  BY NativeMarkers, SymbolFacts
<1>1. ASSUME NEW n \in 0 .. Len(w), KeptFrom(BS, w, n + 1), NoMark(NS, w) \/ FirstMark(NS, w, n + 1),
             f = Fr("text", Rear(w, n), << >>), v = Start(w, n)
      PROVE  Framed(D, g, Cat(v, Visible(f, s)))
  <2> DEFINE c == Cat(Rear(w, n), s)
  <2>1. Rear(w, n) \in Symbols
    BY <1>0, Parts, SymbolFacts
  <2>2. /\ \A i \in 1 .. Len(c) : FirstMark(BS, c, i) =>
             /\ Visible(f, s) = Start(c, i - 1)
             /\ IF FirstMark(NS, c, i) THEN g = FeedBlock(Fr("block", << >>, << >>), Rear(c, i + 2))
                ELSE g.error
        /\ \A k \in 0 .. Len(c) : KeptFrom(BS, c, k + 1) =>
             /\ Visible(f, s) = Start(c, k)
             /\ IF NoMark(NS, c) \/ FirstMark(NS, c, k + 1) THEN g = Fr("text", Rear(c, k), << >>)
                ELSE g.error
    BY <1>1, <2>1, TextIsFed
  <2>3. /\ c \in Symbols /\ Len(c) \in Nat /\ Len(D) = n + Len(c) /\ D \in Symbols
        /\ \A j \in 0 .. Len(c) : /\ Rear(D, n + j) = Rear(c, j)
                                  /\ Start(D, n + j) = Cat(Start(w, n), Start(c, j))
                                  /\ n + j \in 0 .. Len(D)
    BY SameCut
  <2>4. /\ \A i \in 1 .. Len(c) : FirstMark(BS, c, i) => FirstMark(BS, D, n + i)
        /\ \A k \in 1 .. Len(c) + 1 : KeptFrom(BS, c, k) => KeptFrom(BS, D, n + k)
    BY <1>0, <1>1, KeptIsEnough
  <2>5. /\ NoMark(NS, c) => NoMark(NS, D)
        /\ \A i \in 1 .. Len(c) : FirstMark(NS, c, i) => FirstMark(NS, D, n + i)
    BY <1>1, NamesBehind
  <2>6. ~g.error /\ n \in Nat
    OBVIOUS
  <2> HIDE DEF c, D, g
  <2>7. ASSUME NEW i \in 1 .. Len(c), FirstMark(BS, c, i) PROVE Framed(D, g, Cat(v, Visible(f, s)))
    <3>1. Visible(f, s) = Start(c, i - 1) /\ FirstMark(NS, c, i)
          /\ g = FeedBlock(Fr("block", << >>, << >>), Rear(c, i + 2))
      BY <2>2, <2>6, <2>7
    <3>2. i + 2 \in 0 .. Len(c) /\ i - 1 \in 0 .. Len(c)
      BY <2>3, <2>7, MarkersFit DEF FirstMark
    <3>3. (n + i) + 2 = n + (i + 2) /\ (n + i) - 1 = n + (i - 1) /\ n + i \in 1 .. Len(D)
      BY <2>3, <2>6
    <3>4. Rear(D, (n + i) + 2) = Rear(c, i + 2) /\ Start(D, (n + i) - 1) = Cat(v, Visible(f, s))
      BY <1>1, <2>3, <3>1, <3>2, <3>3
    <3>5. Rear(c, i + 2) \in Symbols
      BY <2>3, <3>2, Parts, SymbolFacts
    <3>6. FramedBlock(Rear(c, i + 2), g)
      BY <2>6, <3>1, <3>5, BlockIsFramed
    <3>7. FirstMark(BS, D, n + i) /\ FirstMark(NS, D, n + i)
      BY <2>4, <2>5, <2>7, <3>1
    <3>8. InBlock(D, g, Cat(v, Visible(f, s)), n + i)
      BY <3>4, <3>6, <3>7 DEF InBlock
    <3> QED
      BY <3>3, <3>8 DEF Framed
  <2>8. ASSUME NEW k \in 0 .. Len(c), KeptFrom(BS, c, k + 1) PROVE Framed(D, g, Cat(v, Visible(f, s)))
    <3>1. /\ Visible(f, s) = Start(c, k) /\ (NoMark(NS, c) \/ FirstMark(NS, c, k + 1))
          /\ g = Fr("text", Rear(c, k), << >>)
      BY <2>2, <2>6, <2>8
    <3>2. /\ Rear(D, n + k) = Rear(c, k) /\ Start(D, n + k) = Cat(v, Visible(f, s))
          /\ n + k \in 0 .. Len(D)
      BY <1>1, <2>3, <3>1
    <3>3. k + 1 \in 1 .. Len(c) + 1 /\ n + (k + 1) = (n + k) + 1
      BY <2>3, <2>6
    <3>4. KeptFrom(BS, D, (n + k) + 1)
      BY <2>4, <2>8, <3>3
    <3>5. NoMark(NS, D) \/ FirstMark(NS, D, (n + k) + 1)
      <4>1. CASE NoMark(NS, c)
        BY <2>5, <4>1
      <4>2. CASE FirstMark(NS, c, k + 1)
        <5>1. k + 1 \in 1 .. Len(c)
          BY <4>2 DEF FirstMark
        <5> QED
          BY <2>5, <3>3, <4>2, <5>1
      <4> QED
        BY <3>1, <4>1, <4>2
    <3>6. FramedText(D, g, Cat(v, Visible(f, s)))
      BY <3>1, <3>2, <3>4, <3>5 DEF FramedText
    <3> QED
      BY <3>6 DEF Framed
  <2>9. \/ \E i \in 1 .. Len(c) : FirstMark(BS, c, i)
        \/ \E k \in 0 .. Len(c) : KeptFrom(BS, c, k + 1)
    <3>1. CASE \E k \in 1 .. Len(c) + 1 : KeptFrom(BS, c, k)
      <4>1. PICK k \in 1 .. Len(c) + 1 : KeptFrom(BS, c, k)
        BY <3>1
      <4>2. k - 1 \in 0 .. Len(c) /\ (k - 1) + 1 = k
        BY <2>3
      <4> QED
        BY <4>1, <4>2
    <3> QED
      BY <2>3, <3>1, MarkedOrKept, SymbolFacts
  <2> QED
    BY <2>7, <2>8, <2>9
<1>2. ASSUME NEW i \in 1 .. Len(w), InBlock(w, f, v, i)
      PROVE  Framed(D, g, Cat(v, Visible(f, s)))
  <2> DEFINE R == Rear(w, i + 2)
  <2>1. FirstMark(BS, w, i) /\ FirstMark(NS, w, i) /\ v = Start(w, i - 1) /\ FramedBlock(R, f)
    BY <1>2 DEF InBlock
  <2>2. i + 2 \in 0 .. Len(w) /\ i - 1 \in 0 .. Len(w)
    BY <1>0, <2>1, MarkersFit DEF FirstMark
  <2>3. R \in Symbols
    BY <1>0, <2>2, Parts, SymbolFacts
  <2>4. FirstMark(BS, D, i) /\ FirstMark(NS, D, i)
    BY <1>0, <2>1, FirstMarkStays
  <2>5. Rear(D, i + 2) = Cat(R, s) /\ Start(D, i - 1) = v
    BY <1>0, <2>1, <2>2, CutsAreKept
  <2>6. v \in Symbols
    BY <1>0, <2>1, <2>2, Parts, SymbolFacts
  <2> HIDE DEF R
  <2>7. FramedBlock(Cat(R, s), g) /\ f.mode # "text"
    BY <2>1, <2>3, BlockGoesOn
  <2>8. Visible(f, s) = << >> /\ Cat(v, << >>) = v
    BY <2>6, <2>7, Concatenated, SymbolFacts DEF Visible
  <2>9. i \in 1 .. Len(D)
    BY <2>4 DEF FirstMark
  <2>10. InBlock(D, g, v, i)
    BY <2>4, <2>5, <2>7 DEF InBlock
  <2> QED
    BY <2>8, <2>9, <2>10 DEF Framed
<1> QED
  BY <1>1, <1>2 DEF Framed, FramedText

LEMMA NoNamesBefore ==
  ASSUME NEW w \in Symbols, NEW n \in 0 .. Len(w), NoMark(NS, w) \/ FirstMark(NS, w, n + 1)
  PROVE  NoMark(NS, Start(w, n)) /\ Start(w, n) \in Symbols
<1> DEFINE v == Start(w, n)
           r == Rear(w, n)
<1>0. w \in Symbols /\ Len(w) \in Nat /\ n \in Nat /\ Markers(NS, "[")
  BY NativeMarkers, SymbolFacts
<1>1. v \in Symbols /\ Len(v) = n /\ r \in Symbols
  BY <1>0, Parts
<1>2. Cat(v, r) = w
  <2>1. << >> \in Symbols
    BY SymbolFacts
  <2> QED
    BY <1>0, <2>1, CutsAreKept
<1> HIDE DEF v, r
<1>3. ASSUME NEW j \in 1 .. Len(v), Marks(NS, v, j) PROVE FALSE
  <2>1. Marks(NS, Cat(v, r), j)
    BY <1>0, <1>1, <1>3, MarksOfMore
  <2>2. j \in 1 .. Len(w) /\ j \in 1 .. (n + 1) - 1
    BY <1>0, <1>1
  <2> QED
    BY <1>2, <2>1, <2>2 DEF NoMark, FirstMark
<1> QED
  BY <1>1, <1>3, SymbolFacts DEF NoMark, v

\* What was shown, and what is shown in the end, has no namespace in it.
LEMMA ShownHasNoNames ==
  ASSUME NEW w \in Symbols, NEW f, NEW v, Framed(w, f, v)
  PROVE  /\ v \in Symbols /\ NoMark(NS, v)
         /\ Cat(v, Rest(f)) \in Symbols /\ NoMark(NS, Cat(v, Rest(f)))
<1>0. w \in Symbols /\ Len(w) \in Nat /\ Markers(NS, "[") /\ Namespace \in Symbols
  BY NativeMarkers, SymbolFacts
<1>1. \A x \in Symbols : Cat(x, << >>) = x
  BY Concatenated, SymbolFacts
<1>2. CASE FramedText(w, f, v)
  <2>1. PICK n \in 0 .. Len(w) :
          /\ NoMark(NS, w) \/ FirstMark(NS, w, n + 1)
          /\ f = Fr("text", Rear(w, n), << >>) /\ v = Start(w, n)
    BY <1>2 DEF FramedText
  <2> DEFINE r == Rear(w, n)
  <2>2. v \in Symbols /\ NoMark(NS, v)
    BY <2>1, NoNamesBefore
  <2>3. r \in Symbols /\ Len(r) = Len(w) - n /\ Cat(v, r) = w
    <3>1. << >> \in Symbols
      BY SymbolFacts
    <3>2. Cat(v, r) = w
      BY <1>0, <2>1, <3>1, CutsAreKept
    <3> QED
      BY <1>0, <3>2, Parts, SymbolFacts
  <2>4. f.mode = "text" /\ f.tail = r
    BY <2>1, FrParts
  <2> HIDE DEF r
  <2>5. CASE Found(r, Namespace) = {}
    <3>1. Rest(f) = r
      BY <2>4, <2>5 DEF Rest
    <3>2. NoMark(NS, r)
      BY <1>0, <2>3, <2>5, FoundIs DEF NS
    <3>3. ASSUME FirstMark(NS, w, n + 1) PROVE FALSE
      <4>1. 1 \in 1 .. Len(w) - n /\ 1 \in 1 .. Len(r)
        BY <1>0, <2>3, <3>3 DEF FirstMark
      <4>2. Marks(NS, r, 1) <=> Marks(NS, w, n + 1)
        BY <1>0, <4>1, MarksBehind DEF r
      <4> QED
        BY <3>2, <3>3, <4>1, <4>2 DEF FirstMark, NoMark
    <3>4. NoMark(NS, w)
      BY <2>1, <3>3
    <3> QED
      BY <2>2, <2>3, <3>1, <3>4
  <2>6. CASE Found(r, Namespace) # {}
    <3>1. Rest(f) = << >>
      BY <2>4, <2>6 DEF Rest
    <3> QED
      BY <1>1, <2>2, <3>1
  <2> QED
    BY <2>5, <2>6
<1>3. CASE \E i \in 1 .. Len(w) : InBlock(w, f, v, i)
  <2>1. PICK i \in 1 .. Len(w) : InBlock(w, f, v, i)
    BY <1>3
  <2> DEFINE n == i - 1
  <2>2. n \in 0 .. Len(w) /\ n + 1 = i
    BY <1>0
  <2>3. FirstMark(NS, w, n + 1) /\ v = Start(w, n)
    BY <2>1, <2>2 DEF InBlock
  <2> HIDE DEF n
  <2>4. v \in Symbols /\ NoMark(NS, v)
    BY <2>2, <2>3, NoNamesBefore
  <2>5. f.mode # "text"
    <3>1. FramedBlock(Rear(w, i + 2), f)
      BY <2>1 DEF InBlock
    <3>2. \A t, u : Fr("block", t, u).mode = "block" /\ Fr("after", t, u).mode = "after"
      BY FrParts
    <3> QED
      BY <3>1, <3>2 DEF FramedBlock
  <2>6. Rest(f) = << >>
    BY <2>5 DEF Rest
  <2> QED
    BY <1>1, <2>4, <2>6
<1> QED
  BY <1>2, <1>3 DEF Framed

\* As many places as there are, moved by some distance.
LEMMA Moved ==
  ASSUME NEW n \in Nat, NEW S \in SUBSET (1 .. n), NEW d \in Nat
  PROVE  Cardinality({d + q : q \in S}) = Cardinality(S)
<1> DEFINE P == {d + q : q \in S}
           g == [q \in S |-> d + q]
<1>1. IsFiniteSet(S)
  <2>1. IsFiniteSet(1 .. n)
    BY FS_Interval
  <2> QED
    BY <2>1, FS_Subset
<1>2. g \in Bijection(S, P)
  <2>1. g \in [S -> P]
    OBVIOUS
  <2>2. \A a, b \in S : g[a] = g[b] => a = b
    <3> SUFFICES ASSUME NEW a \in S, NEW b \in S, d + a = d + b PROVE a = b
      OBVIOUS
    <3>1. a \in Nat /\ b \in Nat
      OBVIOUS
    <3> QED
      BY <3>1
  <2>3. \A p \in P : \E q \in S : g[q] = p
    OBVIOUS
  <2> HIDE DEF g, P
  <2>4. IsInjective(g)
    <3>1. DOMAIN g = S
      BY <2>1
    <3> QED
      BY <2>2, <3>1 DEF IsInjective
  <2> QED
    BY <2>1, <2>3, <2>4 DEF Bijection, Injection, Surjection
<1>3. ExistsBijection(S, P)
  BY <1>2 DEF ExistsBijection
<1> HIDE DEF P
<1>4. Cardinality(P) = Cardinality(S)
  BY <1>1, <1>3, FS_Bijection
<1> QED
  BY <1>4 DEF P

\* Calls leak out of text only behind the start of a block, and all of them are in it.
LEMMA NothingLeaksOfText ==
  ASSUME NEW w \in Symbols, NEW f, NEW v, Framed(w, f, v), f.mode = "text"
  PROVE  Leaked(w) = {}
<1>1. \A t, u : Fr("block", t, u).mode = "block" /\ Fr("after", t, u).mode = "after"
  BY FrParts
<1>2. FramedText(w, f, v)
  BY <1>1 DEF Framed, InBlock, FramedBlock
<1>3. PICK n \in 0 .. Len(w) : KeptFrom(BS, w, n + 1)
  BY <1>2 DEF FramedText
<1>4. Found(w, BlockStart) = {}
  BY <1>3, FoundIs, NativeMarkers DEF BS
<1> QED
  BY <1>4 DEF Leaked

LEMMA BlockTakesAllCalls ==
  ASSUME NEW w \in Symbols, NEW f, NEW v, Framed(w, f, v), f.mode = "after"
  PROVE  Cardinality(Leaked(w)) = Calls_(f.tool)
<1>0. /\ w \in Symbols /\ Len(w) \in Nat /\ DOMAIN w = 1 .. Len(w) /\ BlockStart \in Symbols
      /\ Markers(BE, "[")
  BY NativeMarkers, SymbolFacts
<1>1. \A t, u : Fr("block", t, u).mode = "block" /\ Fr("text", t, u).mode = "text"
                /\ Fr("after", t, u).tool = u
  BY FrParts
<1>2. PICK i \in 1 .. Len(w) : InBlock(w, f, v, i)
  BY <1>1 DEF Framed, FramedText
<1> DEFINE R == Rear(w, i + 2)
<1>3. PICK k \in 1 .. Len(R) : /\ FirstMark(BE, R, k) /\ AllBlank(Rear(R, k + 2))
                               /\ f = Fr("after", << >>, Start(R, k - 1))
  BY <1>1, <1>2 DEF InBlock, FramedBlock
<1>4. FirstMark(BS, w, i)
  BY <1>2 DEF InBlock
<1>5. i + 2 \in 0 .. Len(w) /\ w[i] = "[" /\ w[i + 1] = "n" /\ w[i + 2] = "s"
  BY <1>4, MarkersFit DEF FirstMark
<1>6. /\ R \in Symbols /\ Len(R) = Len(w) - (i + 2)
      /\ \A q \in 1 .. Len(w) - (i + 2) : R[q] = w[(i + 2) + q]
  BY <1>0, <1>5, Parts
<1> HIDE DEF R
<1>7. R \in Symbols /\ Len(R) \in Nat
  BY <1>6, SymbolFacts
<1>8. k + 2 \in 0 .. Len(R) /\ R[k] = "[" /\ R[k + 1] = "n" /\ R[k + 2] = "e" /\ k - 1 \in 0 .. Len(R)
  <2>1. k + 2 \in 0 .. Len(R) /\ R[k] = "[" /\ R[k + 1] = "n" /\ R[k + 2] = "e"
    BY <1>3, <1>7, MarkersFit DEF FirstMark
  <2> QED
    BY <1>7, <2>1
<1> DEFINE tool == Start(R, k - 1)
           tail == Rear(R, k + 2)
<1>9. /\ tool \in Symbols /\ Len(tool) = k - 1 /\ \A q \in 1 .. k - 1 : tool[q] = R[q]
  BY <1>6, <1>8, Parts
<1>10. /\ tail \in Symbols /\ Len(tail) = Len(R) - (k + 2)
       /\ \A q \in 1 .. Len(R) - (k + 2) : tail[q] = R[(k + 2) + q]
  BY <1>6, <1>8, Parts
<1>11. f.tool = tool /\ AllBlank(tail)
  BY <1>1, <1>3
<1> HIDE DEF tool, tail
<1>12. ASSUME NEW q \in 1 .. Len(R), R[q] = "v" PROVE q \in 1 .. k - 1
  <2>1. q # k /\ q # k + 1 /\ q # k + 2
    BY <1>8, <1>12
  <2>2. ASSUME q > k + 2 PROVE FALSE
    <3> DEFINE p == q - (k + 2)
    <3>1. p \in 1 .. Len(R) - (k + 2) /\ (k + 2) + p = q /\ p \in 1 .. Len(tail)
      BY <1>7, <1>10, <2>2
    <3> HIDE DEF p
    <3>2. tail[p] = "v"
      BY <1>10, <1>12, <3>1
    <3>3. p \in DOMAIN tail
      BY <1>10, <3>1, SymbolFacts
    <3> QED
      BY <1>11, <3>2, <3>3 DEF AllBlank
  <2> QED
    BY <1>7, <2>1, <2>2
<1> DEFINE S == {q \in DOMAIN tool : tool[q] = "v"}
           d == i + 2
<1>13. DOMAIN tool = 1 .. k - 1
  BY <1>9
<1>14. Leaked(w) = {d + q : q \in S}
  <2>1. \A j \in Found(w, BlockStart) : j \in 1 .. Len(w) /\ i <= j
    <3> TAKE j \in Found(w, BlockStart)
    <3>1. j \in 1 .. Len(w) /\ Marks(BS, w, j)
      BY <1>0, FoundIs DEF BS
    <3>2. j \notin 1 .. i - 1
      BY <1>4, <3>1 DEF FirstMark
    <3> QED
      BY <1>0, <3>1, <3>2
  <2>2. i \in Found(w, BlockStart)
    BY <1>0, <1>4, FoundIs DEF BS, FirstMark
  <2>3. ASSUME NEW p \in Leaked(w) PROVE \E q \in S : p = d + q
    <3>1. p \in 1 .. Len(w) /\ w[p] = "v" /\ i < p
      <4>1. PICK j \in Found(w, BlockStart) : j < p
        BY DEF Leaked
      <4>2. p \in 1 .. Len(w) /\ w[p] = "v"
        BY <1>0 DEF Leaked
      <4> QED
        BY <1>0, <2>1, <4>1, <4>2
    <3>2. p # i /\ p # i + 1 /\ p # i + 2
      BY <1>5, <3>1
    <3> DEFINE q == p - (i + 2)
    <3>3. q \in 1 .. Len(w) - (i + 2) /\ (i + 2) + q = p /\ q \in 1 .. Len(R)
      BY <1>0, <1>6, <3>1, <3>2
    <3> HIDE DEF q
    <3>4. R[q] = "v"
      BY <1>6, <3>1, <3>3
    <3>5. q \in 1 .. k - 1
      BY <1>12, <3>3, <3>4
    <3>6. q \in S
      BY <1>9, <1>13, <3>4, <3>5
    <3> QED
      BY <3>3, <3>6
  <2>4. ASSUME NEW q \in S PROVE d + q \in Leaked(w)
    <3>1. q \in 1 .. k - 1 /\ R[q] = "v"
      BY <1>9, <1>13
    <3>2. q \in 1 .. Len(w) - (i + 2) /\ d + q \in 1 .. Len(w) /\ i < d + q
      BY <1>0, <1>6, <1>8, <3>1
    <3>3. w[d + q] = "v"
      BY <1>6, <3>1, <3>2
    <3> HIDE DEF d
    <3> QED
      BY <1>0, <2>2, <3>2, <3>3 DEF Leaked
  <2> HIDE DEF S, d
  <2> QED
    BY <2>3, <2>4
<1>15. Cardinality({d + q : q \in S}) = Cardinality(S)
  <2>1. S \in SUBSET (1 .. k - 1) /\ k - 1 \in Nat /\ d \in Nat
    BY <1>7, <1>13
  <2> HIDE DEF S, d
  <2> QED
    BY <2>1, Moved
<1>16. Calls_(f.tool) = Cardinality(S)
  BY <1>11 DEF Calls_
<1> QED
  BY <1>14, <1>15, <1>16

\* By field: all that came in is framed; and what the framer kept is shown in the end.
FieldStreams(w, n, f, v) == Framed(Start(w, n), f, v)
FieldIsDone(w, f, v) == \E u : Framed(w, f, u) /\ v = Cat(u, Rest(f))

FieldsAreTyped ==
  /\ \A x \in Fields : spelled[x] \in Symbols /\ taken[x] \in 0 .. Len(spelled[x])
  /\ taken \in [Fields -> Nat] /\ shown \in [Fields -> Symbols]
  /\ framer = [x \in Fields |-> framer[x]]

NativeInvariant ==
  /\ FieldsAreTyped
  /\ \A x \in Fields : NoMark(NS, shown[x])
  /\ outcome = "streaming" =>
       \A x \in Fields : FieldStreams(spelled[x], taken[x], framer[x], shown[x])
  /\ outcome = "finished" => \A x \in Fields : FieldIsDone(spelled[x], framer[x], shown[x])
  /\ LeakedCallsAreMade

LEMMA NothingIsFramed == Framed(<< >>, NewFramer, << >>)
<1>1. << >> \in Symbols /\ Len(<< >>) = 0 /\ 0 \in 0 .. Len(<< >>)
  BY SymbolFacts
<1>2. KeptFrom(BS, << >>, 0 + 1) /\ NoMark(NS, << >>)
  BY DEF KeptFrom, NoMark
<1>3. Start(<< >>, 0) = << >> /\ Rear(<< >>, 0) = << >>
  BY DEF Start, Rear
<1>4. NewFramer = Fr("text", << >>, << >>)
  BY DEF NewFramer, Fr
<1>5. FramedText(<< >>, NewFramer, << >>)
  BY <1>1, <1>2, <1>3, <1>4 DEF FramedText
<1> QED
  BY <1>5 DEF Framed

LEMMA NativeStarts == NativeInit => NativeInvariant
<1> SUFFICES ASSUME NativeInit PROVE NativeInvariant
  OBVIOUS
<1>1. \A x \in Fields : spelled[x] \in Symbols
  <2>1. PICK c \in Contents, r \in Reasonings : spelled = [content |-> c, reasoning |-> r]
    BY DEF NativeInit
  <2>2. c \in Seq(STRING) /\ r \in Seq(STRING)
    BY <2>1, FieldsAssumption
  <2>3. c \in Symbols /\ r \in Symbols
    BY <2>2, StringsAreSymbols
  <2>4. spelled["content"] = c /\ spelled["reasoning"] = r
    BY <2>1
  <2> QED
    BY <2>3, <2>4 DEF Fields
<1>2. /\ taken = [x \in Fields |-> 0] /\ framer = [x \in Fields |-> NewFramer]
      /\ shown = [x \in Fields |-> << >>] /\ outcome = "streaming"
  BY DEF NativeInit
<1>3. << >> \in Symbols /\ NoMark(NS, << >>)
  BY SymbolFacts DEF NoMark
<1>4. FieldsAreTyped
  <2>1. \A x \in Fields : 0 \in 0 .. Len(spelled[x])
    BY <1>1, SymbolFacts
  <2> QED
    BY <1>1, <1>2, <1>3, <2>1 DEF FieldsAreTyped
<1>5. \A x \in Fields : FieldStreams(spelled[x], taken[x], framer[x], shown[x])
  <2> TAKE x \in Fields
  <2>1. Start(spelled[x], 0) = << >>
    BY <1>1, WholeText
  <2> QED
    BY <1>2, <2>1, NothingIsFramed DEF FieldStreams
<1> QED
  BY <1>2, <1>3, <1>4, <1>5 DEF NativeInvariant, LeakedCallsAreMade

\* A chunk of a field.
LEMMA ChunkIsFramed ==
  ASSUME NativeInvariant, NEW x \in Fields, NEW n, ChunkOf(x, n)
  PROVE  NativeInvariant'
<1> DEFINE s == SubSeq(spelled[x], taken[x] + 1, n)
           f == Feed(framer[x], s)
           v == Visible(framer[x], s)
           w == Start(spelled[x], taken[x])
<1>1. /\ outcome = "streaming" /\ n \in (taken[x] + 1) .. Len(spelled[x])
      /\ framer' = [framer EXCEPT ![x] = f]
      /\ shown' = IF f.error THEN shown ELSE [shown EXCEPT ![x] = Cat(shown[x], v)]
      /\ outcome' = IF f.error THEN "error" ELSE outcome
      /\ taken' = [taken EXCEPT ![x] = n]
      /\ spelled' = spelled /\ structured' = structured /\ generated' = generated
  <2> DEFINE p == shown[x] \o v
  <2>1. /\ outcome = "streaming" /\ n \in (taken[x] + 1) .. Len(spelled[x])
        /\ framer' = [framer EXCEPT ![x] = f]
        /\ shown' = IF f.error THEN shown ELSE [shown EXCEPT ![x] = p]
        /\ outcome' = IF f.error THEN "error" ELSE outcome
        /\ taken' = [taken EXCEPT ![x] = n]
        /\ spelled' = spelled /\ structured' = structured /\ generated' = generated
    BY DEF ChunkOf
  <2>2. p = Cat(shown[x], v)
    BY DEF Cat
  <2> HIDE DEF s, f, v, w, p
  <2> QED
    BY <2>1, <2>2
<1>2. /\ \A y \in Fields : spelled[y] \in Symbols /\ taken[y] \in 0 .. Len(spelled[y])
      /\ taken \in [Fields -> Nat] /\ shown \in [Fields -> Symbols]
      /\ framer = [y \in Fields |-> framer[y]]
      /\ \A y \in Fields : NoMark(NS, shown[y])
      /\ \A y \in Fields : FieldStreams(spelled[y], taken[y], framer[y], shown[y])
  BY <1>1 DEF NativeInvariant, FieldsAreTyped
<1>3. /\ s \in Symbols /\ s # << >> /\ w \in Symbols /\ Cat(w, s) = Start(spelled[x], n)
      /\ Start(spelled[x], n) \in Symbols
  <2>1. s \in Symbols /\ s # << >> /\ w \in Symbols /\ Cat(w, s) = Start(spelled[x], n)
    BY <1>1, <1>2, NextPart
  <2>2. Cat(w, s) \in Symbols
    BY <2>1, SymbolFacts
  <2> QED
    BY <2>1, <2>2
<1> HIDE DEF s, f, v, w
<1>4. n \in Nat /\ n \in 0 .. Len(spelled[x])
  BY <1>1, <1>2, SymbolFacts
<1>5. /\ \A y \in Fields : framer'[y] = IF y = x THEN f ELSE framer[y]
      /\ framer' = [y \in Fields |-> framer'[y]]
  BY <1>1, <1>2
<1>6. /\ taken' \in [Fields -> Nat]
      /\ \A y \in Fields : taken'[y] = IF y = x THEN n ELSE taken[y]
  BY <1>1, <1>2, <1>4
<1>7. CASE f.error
  <2>1. shown' = shown /\ outcome' = "error"
    BY <1>1, <1>7
  <2>2. FieldsAreTyped'
    BY <1>1, <1>2, <1>4, <1>5, <1>6, <2>1 DEF FieldsAreTyped
  <2>3. LeakedCallsAreMade'
    BY <2>1 DEF LeakedCallsAreMade
  <2> QED
    BY <1>2, <2>1, <2>2, <2>3 DEF NativeInvariant
<1>8. CASE ~f.error
  <2>1. shown' = [shown EXCEPT ![x] = Cat(shown[x], v)] /\ outcome' = "streaming"
    BY <1>1, <1>8
  <2>2. Framed(w, framer[x], shown[x])
    BY <1>2 DEF FieldStreams, w
  <2>3. Framed(Cat(w, s), f, Cat(shown[x], v))
    BY <1>3, <1>8, <2>2, FramedOnward DEF f, v
  <2>4. Cat(shown[x], v) \in Symbols /\ NoMark(NS, Cat(shown[x], v))
    BY <1>3, <2>3, ShownHasNoNames
  <2> DEFINE a == Cat(shown[x], v)
  <2>5. a \in Symbols /\ NoMark(NS, a) /\ shown' = [shown EXCEPT ![x] = a]
    BY <2>1, <2>4
  <2>6. FieldStreams(spelled[x], n, f, a)
    BY <1>3, <2>3 DEF FieldStreams
  <2> HIDE DEF a
  <2>7. /\ shown' \in [Fields -> Symbols]
        /\ \A y \in Fields : shown'[y] = IF y = x THEN a ELSE shown[y]
    BY <1>2, <2>5
  <2>8. FieldsAreTyped'
    BY <1>1, <1>2, <1>4, <1>5, <1>6, <2>7 DEF FieldsAreTyped
  <2>9. \A y \in Fields : NoMark(NS, shown'[y])
    BY <1>2, <2>5, <2>7
  <2>10. \A y \in Fields : FieldStreams(spelled'[y], taken'[y], framer'[y], shown'[y])
    BY <1>1, <1>2, <1>5, <1>6, <2>6, <2>7
  <2>11. LeakedCallsAreMade'
    BY <2>1 DEF LeakedCallsAreMade
  <2> QED
    BY <2>1, <2>8, <2>9, <2>10, <2>11 DEF NativeInvariant
<1> QED
  BY <1>7, <1>8

\* The end of an answer without ordinary calls makes every call that leaked.
CallsOf(fc, fr, B, calls) ==
  /\ ~Unfinished(fc) /\ ~Unfinished(fr)
  /\ "content" \in B <=> fc.mode = "after"
  /\ "reasoning" \in B <=> fr.mode = "after"
  /\ B \subseteq Fields /\ ~(Cardinality(B) > 1)
  /\ calls = IF B = {} THEN 0 ELSE LET x == CHOOSE y \in B : TRUE IN
                                    Calls_(IF x = "content" THEN fc.tool ELSE fr.tool)

LEMMA AllLeakedAreMade ==
  ASSUME NEW wc \in Symbols, NEW wr \in Symbols, NEW fc, NEW fr, NEW vc, NEW vr, NEW B, NEW calls,
         Framed(wc, fc, vc), Framed(wr, fr, vr), CallsOf(fc, fr, B, calls)
  PROVE  calls = Cardinality(Leaked(wc)) + Cardinality(Leaked(wr))
<1>0. /\ ~Unfinished(fc) /\ ~Unfinished(fr)
      /\ "content" \in B <=> fc.mode = "after"
      /\ "reasoning" \in B <=> fr.mode = "after"
      /\ B \subseteq Fields /\ ~(Cardinality(B) > 1)
      /\ calls = IF B = {} THEN 0 ELSE LET x == CHOOSE y \in B : TRUE IN
                                        Calls_(IF x = "content" THEN fc.tool ELSE fr.tool)
  BY DEF CallsOf
<1>1. \A w \in Symbols : \A f, v : Framed(w, f, v) /\ ~Unfinished(f) => f.mode \in {"text", "after"}
  <2> SUFFICES ASSUME NEW w \in Symbols, NEW f, NEW v, Framed(w, f, v), ~Unfinished(f)
               PROVE  f.mode \in {"text", "after"}
    OBVIOUS
  <2>1. \A t, u : /\ Fr("block", t, u).mode = "block" /\ Fr("text", t, u).mode = "text"
                  /\ Fr("after", t, u).mode = "after"
    BY FrParts
  <2>2. f.mode \in {"text", "block", "after"}
    BY <2>1 DEF Framed, FramedText, InBlock, FramedBlock
  <2>3. f.mode # "block"
    BY DEF Unfinished
  <2> QED
    BY <2>2, <2>3
<1>2. fc.mode \in {"text", "after"} /\ fr.mode \in {"text", "after"}
  BY <1>0, <1>1
<1>3. fc.mode = "text" => Cardinality(Leaked(wc)) = 0
  BY NothingLeaksOfText, FS_EmptySet
<1>4. fr.mode = "text" => Cardinality(Leaked(wr)) = 0
  BY NothingLeaksOfText, FS_EmptySet
<1>5. fc.mode = "after" => Cardinality(Leaked(wc)) = Calls_(fc.tool)
  BY BlockTakesAllCalls
<1>6. fr.mode = "after" => Cardinality(Leaked(wr)) = Calls_(fr.tool)
  BY BlockTakesAllCalls
<1>7. \A t : Calls_(t) = Cardinality({i \in DOMAIN t : t[i] = "v"})
  BY DEF Calls_
<1>8. Cardinality(Leaked(wc)) \in Nat /\ Cardinality(Leaked(wr)) \in Nat
  <2>1. \A w \in Symbols : Cardinality(Leaked(w)) \in Nat
    <3> TAKE w \in Symbols
    <3>1. Leaked(w) \subseteq 1 .. Len(w) /\ Len(w) \in Nat
      BY SymbolFacts DEF Leaked
    <3>2. IsFiniteSet(1 .. Len(w))
      <4> DEFINE n == Len(w)
      <4>1. 1 \in Int /\ n \in Int
        BY <3>1
      <4> HIDE DEF n
      <4>2. IsFiniteSet(1 .. n)
        BY <4>1, FS_Interval
      <4> QED
        BY <4>2 DEF n
    <3> QED
      BY <3>1, <3>2, FS_Subset, FS_CardinalityType
  <2> QED
    BY <2>1
<1>9. CASE B = {}
  BY <1>0, <1>2, <1>3, <1>4, <1>9
<1>10. ~("content" \in B /\ "reasoning" \in B)
  <2> SUFFICES ASSUME "content" \in B, "reasoning" \in B PROVE FALSE
    OBVIOUS
  <2>1. B = {"content", "reasoning"}
    BY <1>0 DEF Fields
  <2>2. Cardinality({"content", "reasoning"}) = 2
    <3>1. IsFiniteSet({"reasoning"}) /\ Cardinality({"reasoning"}) = 1
      BY FS_Singleton
    <3>2. "content" \notin {"reasoning"}
      OBVIOUS
    <3>3. Cardinality({"reasoning"} \cup {"content"}) = 2
      <4> DEFINE S == {"reasoning"}
      <4>1. IsFiniteSet(S) /\ Cardinality(S) = 1 /\ "content" \notin S
        BY <3>1, <3>2
      <4> HIDE DEF S
      <4>2. Cardinality(S \cup {"content"}) = Cardinality(S) + 1
        BY <4>1, FS_AddElement
      <4>3. Cardinality(S \cup {"content"}) = 2
        BY <4>1, <4>2
      <4> QED
        BY <4>3 DEF S
    <3>4. {"reasoning"} \cup {"content"} = {"content", "reasoning"}
      OBVIOUS
    <3> QED
      BY <3>3, <3>4
  <2> QED
    BY <1>0, <2>1, <2>2
<1>11. CASE B = {"content"}
  <2>1. (CHOOSE y \in B : TRUE) = "content"
    BY <1>11
  <2>2. calls = Calls_(fc.tool)
    BY <1>0, <1>11, <2>1
  <2> QED
    BY <1>0, <1>2, <1>4, <1>5, <1>8, <1>11, <2>2
<1>12. CASE B = {"reasoning"}
  <2>1. (CHOOSE y \in B : TRUE) = "reasoning"
    BY <1>12
  <2>2. calls = Calls_(fr.tool)
    BY <1>0, <1>12, <2>1
  <2> QED
    BY <1>0, <1>2, <1>3, <1>6, <1>8, <1>12, <2>2
<1> QED
  BY <1>0, <1>9, <1>10, <1>11, <1>12 DEF Fields

LEMMA FinishIsFramed ==
  ASSUME NativeInvariant, FinishFramers
  PROVE  NativeInvariant'
<1> DEFINE blocks == Blocks(framer)
           bad == /\ ~structured
                  /\ \/ \E x \in Fields : Unfinished(framer[x])
                     \/ Cardinality(blocks) > 1
                     \/ \E x \in blocks : ~WellFormed(framer[x].tool)
<1>1. /\ outcome = "streaming" /\ \A x \in Fields : taken[x] = Len(spelled[x])
      /\ spelled' = spelled /\ taken' = taken /\ framer' = framer /\ structured' = structured
  BY DEF FinishFramers
<1>2. /\ \A y \in Fields : spelled[y] \in Symbols /\ taken[y] \in 0 .. Len(spelled[y])
      /\ taken \in [Fields -> Nat] /\ shown \in [Fields -> Symbols]
      /\ framer = [y \in Fields |-> framer[y]]
      /\ \A y \in Fields : NoMark(NS, shown[y])
      /\ \A y \in Fields : FieldStreams(spelled[y], taken[y], framer[y], shown[y])
  BY <1>1 DEF NativeInvariant, FieldsAreTyped
<1>3. \A y \in Fields : Framed(spelled[y], framer[y], shown[y])
  <2> TAKE y \in Fields
  <2>1. Start(spelled[y], taken[y]) = spelled[y]
    BY <1>1, <1>2, WholeText
  <2> QED
    BY <1>2, <2>1 DEF FieldStreams
<1>4. CASE bad
  <2>1. outcome' = "error" /\ shown' = shown
    BY <1>4 DEF FinishFramers
  <2>2. FieldsAreTyped'
    BY <1>1, <1>2, <2>1 DEF FieldsAreTyped
  <2>3. LeakedCallsAreMade'
    BY <2>1 DEF LeakedCallsAreMade
  <2> QED
    BY <1>2, <2>1, <2>2, <2>3 DEF NativeInvariant
<1>5. CASE ~bad
  <2>1. /\ outcome' = "finished"
        /\ shown' = [x \in Fields |-> Cat(shown[x], Rest(framer[x]))]
        /\ generated' = IF structured \/ blocks = {} THEN 0
                        ELSE Calls_(framer[CHOOSE x \in blocks : TRUE].tool)
    <3> DEFINE sh == [x \in Fields |-> shown[x] \o Rest(framer[x])]
    <3>1. /\ outcome' = "finished" /\ shown' = sh
          /\ generated' = IF structured \/ blocks = {} THEN 0
                          ELSE Calls_(framer[CHOOSE x \in blocks : TRUE].tool)
      BY <1>5 DEF FinishFramers
    <3>2. sh = [x \in Fields |-> Cat(shown[x], Rest(framer[x]))]
      BY DEF Cat
    <3> HIDE DEF sh, blocks
    <3> QED
      BY <3>1, <3>2
  <2>2. \A y \in Fields : Cat(shown[y], Rest(framer[y])) \in Symbols /\ NoMark(NS, Cat(shown[y], Rest(framer[y])))
    BY <1>2, <1>3, ShownHasNoNames
  <2>3. \A y \in Fields : shown'[y] = Cat(shown[y], Rest(framer[y]))
    BY <2>1
  <2>4. FieldsAreTyped'
    <3>1. shown' \in [Fields -> Symbols]
      BY <2>1, <2>2
    <3> QED
      BY <1>1, <1>2, <3>1 DEF FieldsAreTyped
  <2>5. \A y \in Fields : NoMark(NS, shown'[y])
    BY <2>2, <2>3
  <2>6. \A y \in Fields : FieldIsDone(spelled'[y], framer'[y], shown'[y])
    BY <1>1, <1>3, <2>3 DEF FieldIsDone
  <2>7. LeakedCallsAreMade'
    <3> SUFFICES ASSUME ~structured
                 PROVE  generated' = Cardinality(Leaked(spelled["content"])) + Cardinality(Leaked(spelled["reasoning"]))
      BY <1>1 DEF LeakedCallsAreMade
    <3>1. "content" \in Fields /\ "reasoning" \in Fields
      BY DEF Fields
    <3>2. ~Unfinished(framer["content"]) /\ ~Unfinished(framer["reasoning"]) /\ ~(Cardinality(blocks) > 1)
      BY <1>5, <3>1
    <3>3. /\ blocks \subseteq Fields
          /\ "content" \in blocks <=> framer["content"].mode = "after"
          /\ "reasoning" \in blocks <=> framer["reasoning"].mode = "after"
      BY <3>1 DEF Blocks
    <3>4. generated' = IF blocks = {} THEN 0 ELSE LET x == CHOOSE y \in blocks : TRUE IN
             Calls_(IF x = "content" THEN framer["content"].tool ELSE framer["reasoning"].tool)
      <4>1. CASE blocks = {}
        BY <2>1, <4>1
      <4>2. CASE blocks # {}
        <5> DEFINE x == CHOOSE y \in blocks : TRUE
        <5>1. x \in blocks
          BY <4>2
        <5>2. x \in {"content", "reasoning"}
          BY <3>3, <5>1 DEF Fields
        <5>3. generated' = Calls_(framer[x].tool)
          BY <2>1, <4>2
        <5> HIDE DEF blocks, x
        <5>4. framer[x].tool = IF x = "content" THEN framer["content"].tool ELSE framer["reasoning"].tool
          BY <5>2
        <5>5. generated' = Calls_(IF x = "content" THEN framer["content"].tool ELSE framer["reasoning"].tool)
          BY <5>3, <5>4
        <5> QED
          BY <4>2, <5>5 DEF x
      <4> QED
        BY <4>1, <4>2
    <3>5. /\ spelled["content"] \in Symbols /\ spelled["reasoning"] \in Symbols
          /\ Framed(spelled["content"], framer["content"], shown["content"])
          /\ Framed(spelled["reasoning"], framer["reasoning"], shown["reasoning"])
      BY <1>2, <1>3, <3>1
    <3> HIDE DEF blocks
    <3> QED
      <4>1. CallsOf(framer["content"], framer["reasoning"], blocks, generated')
        BY <3>2, <3>3, <3>4 DEF CallsOf
      <4> QED
        BY <3>5, <4>1, AllLeakedAreMade
  <2> QED
    BY <2>1, <2>4, <2>5, <2>6, <2>7 DEF NativeInvariant
<1> QED
  BY <1>4, <1>5

LEMMA NativeGoesOn == NativeInvariant /\ [NativeStep]_nativeVars => NativeInvariant'
<1> SUFFICES ASSUME NativeInvariant, [NativeStep]_nativeVars PROVE NativeInvariant'
  OBVIOUS
<1>1. CASE StructuredCall
  <2>1. /\ outcome' = "streaming" /\ outcome = "streaming" /\ spelled' = spelled /\ taken' = taken
        /\ framer' = framer /\ shown' = shown
    BY <1>1 DEF StructuredCall
  <2>2. FieldsAreTyped'
    BY <2>1 DEF NativeInvariant, FieldsAreTyped
  <2>3. LeakedCallsAreMade'
    BY <2>1 DEF LeakedCallsAreMade
  <2> QED
    BY <2>1, <2>2, <2>3 DEF NativeInvariant
<1>2. CASE FinishFramers
  BY <1>2, FinishIsFramed
<1>3. ASSUME NEW x \in Fields, NEW n \in 1 .. Len(spelled[x]), ChunkOf(x, n) PROVE NativeInvariant'
  BY <1>3, ChunkIsFramed
<1>4. CASE UNCHANGED nativeVars
  <2>1. /\ outcome' = outcome /\ spelled' = spelled /\ taken' = taken /\ framer' = framer
        /\ shown' = shown /\ structured' = structured /\ generated' = generated
    BY <1>4 DEF nativeVars
  <2>2. FieldsAreTyped'
    BY <2>1 DEF NativeInvariant, FieldsAreTyped
  <2>3. LeakedCallsAreMade'
    BY <2>1 DEF NativeInvariant, LeakedCallsAreMade
  <2> QED
    BY <2>1, <2>2, <2>3 DEF NativeInvariant
<1> QED
  BY <1>1, <1>2, <1>3, <1>4 DEF NativeStep

LEMMA NativeIsRight == NativeInvariant => MarkupIsUnderstood
<1> SUFFICES ASSUME NativeInvariant PROVE MarkupIsUnderstood
  OBVIOUS
<1>1. \A x \in Fields : spelled[x] \in Symbols /\ shown[x] \in Symbols /\ NoMark(NS, shown[x])
  BY DEF NativeInvariant, FieldsAreTyped
<1>2. MarkupIsNotShown
  BY <1>1, FoundIs, NativeMarkers DEF MarkupIsNotShown, NS
<1>3. ASSUME outcome = "finished", NEW x \in Fields PROVE shown[x] = AtOnceShown(x) /\ ~AtOnceErrs(x)
  <2>1. PICK u : Framed(spelled[x], framer[x], u) /\ shown[x] = Cat(u, Rest(framer[x]))
    BY <1>3 DEF NativeInvariant, FieldIsDone
  <2>2. framer[x] = Feed(NewFramer, spelled[x]) /\ u = Visible(NewFramer, spelled[x]) /\ ~framer[x].error
    BY <1>1, <2>1, FramedAtOnce
  <2> QED
    <3>1. AtOnceShown(x) = Cat(Visible(NewFramer, spelled[x]), Rest(Feed(NewFramer, spelled[x])))
      BY DEF AtOnceShown, Cat
    <3>2. AtOnceErrs(x) <=> Feed(NewFramer, spelled[x]).error
      BY DEF AtOnceErrs
    <3> QED
      BY <2>1, <2>2, <3>1, <3>2
<1>4. ASSUME outcome = "streaming", NEW x \in Fields, taken[x] = Len(spelled[x])
      PROVE  framer[x] = Feed(NewFramer, spelled[x])
  <2>1. Framed(Start(spelled[x], taken[x]), framer[x], shown[x])
    BY <1>4 DEF NativeInvariant, FieldStreams
  <2>2. Start(spelled[x], taken[x]) = spelled[x]
    BY <1>1, <1>4, WholeText
  <2> QED
    BY <1>1, <2>1, <2>2, FramedAtOnce
<1>5. CutsDoNotMoveMarkup
  BY <1>3, <1>4 DEF CutsDoNotMoveMarkup
<1> QED
  BY <1>2, <1>5 DEF MarkupIsUnderstood, NativeInvariant

\* Leaked markup of tool calls is taken for what it is wherever a stream is cut: none of it is
\* shown, the same is shown as of the whole text, and every call in it is made
\* (native_tool_stream.py).
THEOREM MarkupStaysUnderstood == NativeSpec => []MarkupIsUnderstood
<1>1. NativeInit => NativeInvariant
  BY NativeStarts
<1>2. NativeInvariant /\ [NativeStep]_nativeVars => NativeInvariant'
  BY NativeGoesOn
<1>3. NativeInvariant => MarkupIsUnderstood
  BY NativeIsRight
<1> QED
  BY <1>1, <1>2, <1>3, PTL DEF NativeSpec

\* Wherever the text of an answer is cut, thoughts are told from speech and leaked markup is taken
\* for what it is as they would be in one piece (thinking.py, native_tool_stream.py).
THEOREM CutsNeverMatter == TextSpec => []CutsDoNotMatter
  BY ThoughtsStayInPlace, MarkupStaysUnderstood, PTL DEF TextSpec, CutsDoNotMatter
==============================================================================
