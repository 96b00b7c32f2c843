---------------------------- MODULE UserBufferProofs ---------------------------
(***************************************************************************)
(* Proof that the kernel reaches the memory of a process the way the       *)
(* process itself does, for any page size, any page tables that share no   *)
(* frame, any strings and any number of processes.                         *)
(***************************************************************************)
EXTENDS UserBuffer, TLAPS, SequenceTheorems, WellFoundedInduction

-------------------------------------------------------------------------------
(* Numbers.                                                                *)

(* A set of natural numbers has a least element: what the proofs below use *)
(* for induction.                                                          *)
LEMMA Least ==
  ASSUME NEW S, S \subseteq Nat, S # {}
  PROVE  \E m \in S : \A k \in S : m =< k
<1> DEFINE R == OpToRel(<, Nat)
<1>1. IsWellFoundedOn(R, Nat)
  BY NatLessThanWellFounded
<1>2. \A x, y \in Nat : x < y => <<x, y>> \in R
  BY DEF OpToRel
<1> HIDE DEF R
<1>3. PICK m \in S : \A k \in S : ~ (<<k, m>> \in R)
  BY <1>1, WFMin
<1>4. \A k \in S : ~ (k < m)
  BY <1>2, <1>3
<1>5. \A k \in S : k \in Nat /\ m \in Nat
  OBVIOUS
<1>6. \A k \in S : m =< k
  BY <1>4, <1>5
<1> QED BY <1>6

(* Division by the page size.                                              *)
LEMMA Division ==
  ASSUME NEW a \in Nat
  PROVE  /\ a \div PAGE_SIZE \in Nat /\ a % PAGE_SIZE \in 0 .. PAGE_SIZE - 1
         /\ a = (a \div PAGE_SIZE) * PAGE_SIZE + (a % PAGE_SIZE)
<1>1. PAGE_SIZE \in Nat \ {0}
  BY WidthAssumption
<1> QED BY <1>1

(* An address is its page and its place in the page.                       *)
LEMMA SameAddress ==
  ASSUME NEW a \in Nat, NEW b \in Nat,
         a \div PAGE_SIZE = b \div PAGE_SIZE, a % PAGE_SIZE = b % PAGE_SIZE
  PROVE  a = b
BY Division

(* The place in the page counts on within a page.                          *)
LEMMA WithinPage ==
  ASSUME NEW a \in Nat, NEW k \in Nat, (a % PAGE_SIZE) + k < PAGE_SIZE
  PROVE  (a + k) \div PAGE_SIZE = a \div PAGE_SIZE /\ (a + k) % PAGE_SIZE = (a % PAGE_SIZE) + k
<1> DEFINE q == a \div PAGE_SIZE
           o == a % PAGE_SIZE
<1>1. PAGE_SIZE \in Nat \ {0} /\ q \in Nat /\ o \in Nat /\ a = q * PAGE_SIZE + o
  BY WidthAssumption, Division
<1>2. o + k \in 0 .. PAGE_SIZE - 1
  BY <1>1
<1>3. \A n \in Nat : \A x \in 0 .. PAGE_SIZE - 1 :
        (n * PAGE_SIZE + x) \div PAGE_SIZE = n /\ (n * PAGE_SIZE + x) % PAGE_SIZE = x
  BY <1>1
<1>4. a + k = q * PAGE_SIZE + (o + k)
  <2>1. q * PAGE_SIZE \in Nat
    BY <1>1
  <2> HIDE DEF q, o
  <2> QED BY <1>1, <2>1
<1>5. (q * PAGE_SIZE + (o + k)) \div PAGE_SIZE = q /\ (q * PAGE_SIZE + (o + k)) % PAGE_SIZE = o + k
  <2> HIDE DEF q, o
  <2> QED BY <1>1, <1>2, <1>3, Zenon
<1> QED BY <1>4, <1>5, Zenon

(* The end of the page of an address.                                      *)
LEMMA PageEnd ==
  ASSUME NEW a \in Nat
  PROVE  LET e == (a \div PAGE_SIZE + 1) * PAGE_SIZE
         IN e \in Nat /\ e = a - (a % PAGE_SIZE) + PAGE_SIZE /\ e % PAGE_SIZE = 0
<1> DEFINE q == a \div PAGE_SIZE
           o == a % PAGE_SIZE
<1>1. PAGE_SIZE \in Nat \ {0} /\ q \in Nat /\ o \in Nat /\ a = q * PAGE_SIZE + o
  BY WidthAssumption, Division
<1> HIDE DEF q, o
<1>2. q * PAGE_SIZE \in Nat /\ (q + 1) * PAGE_SIZE = q * PAGE_SIZE + PAGE_SIZE
  BY <1>1
<1>3. ((q + 1) * PAGE_SIZE) % PAGE_SIZE = 0
  BY <1>1
<1>4. (q + 1) * PAGE_SIZE = a - o + PAGE_SIZE /\ (q + 1) * PAGE_SIZE \in Nat
  BY <1>1, <1>2
<1> QED BY <1>3, <1>4 DEF q, o

-------------------------------------------------------------------------------
(* The bytes of a range, in a memory mm.                                   *)

Peek(mm, p, va) == mm[PageTable[p][va \div PAGE_SIZE]][va % PAGE_SIZE]
BytesOf(mm, p, a, n) == [i \in 1 .. n |-> Peek(mm, p, a + i - 1)]
Values(mm, p) == {Peek(mm, p, va) : va \in Nat}

(* A range is a sequence of as many bytes.                                 *)
LEMMA BytesSeq ==
  ASSUME NEW mm, NEW p, NEW a \in Nat, NEW n \in Nat
  PROVE  /\ BytesOf(mm, p, a, n) \in Seq(Values(mm, p))
         /\ Len(BytesOf(mm, p, a, n)) = n
         /\ \A i \in 1 .. n : BytesOf(mm, p, a, n)[i] = Peek(mm, p, a + i - 1)
<1> DEFINE s == BytesOf(mm, p, a, n)
<1>1. \A i \in 1 .. n : Peek(mm, p, a + i - 1) \in Values(mm, p)
  <2>1. \A i \in 1 .. n : a + i - 1 \in Nat
    OBVIOUS
  <2> QED BY <2>1 DEF Values
<1>2. s \in [1 .. n -> Values(mm, p)]
  BY <1>1 DEF BytesOf
<1>3. s \in Seq(Values(mm, p)) /\ Len(s) = n
  BY <1>2
<1>4. \A i \in 1 .. n : s[i] = Peek(mm, p, a + i - 1)
  BY DEF BytesOf
<1> QED BY <1>3, <1>4

\* s is the sequence of the n bytes at a.
IsRange(s, mm, p, a, n) ==
  s \in Seq(Values(mm, p)) /\ Len(s) = n /\ \A i \in 1 .. n : s[i] = Peek(mm, p, a + i - 1)

(* The same in one word.                                                   *)
LEMMA BytesRange ==
  ASSUME NEW mm, NEW p, NEW a \in Nat, NEW n \in Nat
  PROVE  IsRange(BytesOf(mm, p, a, n), mm, p, a, n)
BY BytesSeq DEF IsRange

(* Two sequences that agree everywhere are one.                            *)
LEMMA SameSeq ==
  ASSUME NEW S, NEW s \in Seq(S), NEW t \in Seq(S), Len(s) = Len(t),
         \A i \in 1 .. Len(s) : s[i] = t[i]
  PROVE  s = t
BY SeqEqual

Join(mm, p, a, m, n) ==
  BytesOf(mm, p, a, m) \o BytesOf(mm, p, a + m, n) = BytesOf(mm, p, a, m + n)

(* Neighbouring ranges join.                                               *)
LEMMA BytesJoin ==
  ASSUME NEW mm, NEW p, NEW a \in Nat, NEW m \in Nat, NEW n \in Nat
  PROVE  Join(mm, p, a, m, n)
<1> DEFINE s == BytesOf(mm, p, a, m)
           t == BytesOf(mm, p, a + m, n)
           u == BytesOf(mm, p, a, m + n)
           S == Values(mm, p)
<1>1. s \in Seq(S) /\ Len(s) = m /\ \A i \in 1 .. m : s[i] = Peek(mm, p, a + i - 1)
  BY BytesRange DEF IsRange
<1>2. t \in Seq(S) /\ Len(t) = n /\ \A i \in 1 .. n : t[i] = Peek(mm, p, a + m + i - 1)
  <2>1. a + m \in Nat
    OBVIOUS
  <2>2. IsRange(t, mm, p, a + m, n)
    BY <2>1, BytesRange
  <2> QED BY <2>2 DEF IsRange
<1>3. u \in Seq(S) /\ Len(u) = m + n /\ \A i \in 1 .. m + n : u[i] = Peek(mm, p, a + i - 1)
  <2>1. m + n \in Nat
    OBVIOUS
  <2>2. IsRange(u, mm, p, a, m + n)
    BY <2>1, BytesRange
  <2> QED BY <2>2 DEF IsRange
<1> HIDE DEF S
<1> HIDE DEF s, t, u
<1>4. s \o t \in Seq(S) /\ Len(s \o t) = m + n
  BY <1>1, <1>2, ConcatProperties
<1>5. ASSUME NEW i \in 1 .. m + n
      PROVE  (s \o t)[i] = u[i]
  <2>1. (s \o t)[i] = IF i =< m THEN s[i] ELSE t[i - m]
    BY <1>1, <1>2, ConcatProperties
  <2>2. CASE i =< m
    BY <1>1, <1>3, <2>1, <2>2
  <2>3. CASE i > m
    <3>1. i - m \in 1 .. n /\ a + m + (i - m) - 1 = a + i - 1
      BY <2>3
    <3>2. t[i - m] = Peek(mm, p, a + m + (i - m) - 1)
      BY <1>2, <3>1
    <3> QED BY <1>3, <2>1, <2>3, <3>1, <3>2
  <2>4. i =< m \/ i > m
    OBVIOUS
  <2> QED BY <2>2, <2>3, <2>4, Zenon
<1>6. s \o t = u
  BY <1>3, <1>4, <1>5, SameSeq
<1> QED BY <1>6, Zenon DEF s, t, u, Join

\* The range a .. c - 1, cut at b.
CutAt(mm, p, a, b, c) ==
  BytesOf(mm, p, a, b - a) \o BytesOf(mm, p, b, c - b) = BytesOf(mm, p, a, c - a)

(* The same by addresses.                                                  *)
LEMMA BytesConcat ==
  ASSUME NEW mm, NEW p, NEW a \in Nat, NEW b \in Nat, NEW c \in Nat, a =< b, b =< c
  PROVE  CutAt(mm, p, a, b, c)
<1>1. PICK m \in Nat : m = b - a
  OBVIOUS
<1>2. PICK n \in Nat : n = c - b
  OBVIOUS
<1>3. a + m = b /\ m + n = c - a
  BY <1>1, <1>2
<1>4. Join(mm, p, a, m, n)
  BY BytesJoin
<1>5. BytesOf(mm, p, a, m) \o BytesOf(mm, p, a + m, n) = BytesOf(mm, p, a, m + n)
  BY <1>4 DEF Join
<1> QED BY <1>1, <1>2, <1>3, <1>5, Zenon DEF CutAt

-------------------------------------------------------------------------------
(* A range that is cut into slices.                                        *)

\* Where a slice of the buffer lo .. hi - 1 may begin or end.
Boundary(va, lo, hi) == va \in lo .. hi /\ (va = lo \/ va = hi \/ va % PAGE_SIZE = 0)

\* w is the range b .. e - 1 of the buffer, cut at c.
Cuts(mm, p, w, c, b, e, lo, hi) ==
  /\ c[1] = b /\ c[Len(w) + 1] = e
  /\ \A k \in 1 .. Len(w) + 1 : Boundary(c[k], lo, hi)
  /\ \A j, k \in 1 .. Len(w) + 1 : j =< k => c[j] =< c[k]
  /\ \A k \in 1 .. Len(w) : w[k] = BytesOf(mm, p, c[k], c[k + 1] - c[k])

Sliced(mm, p, w, b, e, lo, hi) == \E c : Cuts(mm, p, w, c, b, e, lo, hi)

(* No slice is the empty range.                                            *)
LEMMA SlicedEmpty ==
  ASSUME NEW mm, NEW p, NEW lo \in Nat, NEW hi \in Nat, NEW b, Boundary(b, lo, hi)
  PROVE  Sliced(mm, p, <<>>, b, b, lo, hi)
<1> DEFINE c == [k \in 1 .. 1 |-> b]
<1>1. Len(<<>>) = 0 /\ b \in Nat
  BY DEF Boundary
<1>2. c[1] = b /\ \A k \in 1 .. 1 : c[k] = b
  OBVIOUS
<1> HIDE DEF c
<1>3. Cuts(mm, p, <<>>, c, b, b, lo, hi)
  BY <1>1, <1>2 DEF Cuts
<1> QED BY <1>3 DEF Sliced

(* One slice more.                                                         *)
LEMMA SlicedAppend ==
  ASSUME NEW mm, NEW p, NEW X, NEW w \in Seq(X), NEW s \in X, NEW lo \in Nat, NEW hi \in Nat,
         NEW b, NEW e, NEW e2, Sliced(mm, p, w, b, e, lo, hi),
         Boundary(e2, lo, hi), e =< e2, s = BytesOf(mm, p, e, e2 - e)
  PROVE  Sliced(mm, p, Append(w, s), b, e2, lo, hi)
<1> DEFINE n == Len(w)
           w2 == Append(w, s)
<1>1. PICK c : Cuts(mm, p, w, c, b, e, lo, hi)
  BY DEF Sliced
<1>2. n \in Nat /\ Len(w2) = n + 1 /\ w2[n + 1] = s /\ \A k \in 1 .. n : w2[k] = w[k]
  BY AppendProperties
<1> DEFINE d == [k \in 1 .. n + 2 |-> IF k = n + 2 THEN e2 ELSE c[k]]
<1>3. d[n + 2] = e2 /\ \A k \in 1 .. n + 1 : d[k] = c[k]
  BY <1>2
<1>4. /\ c[1] = b /\ c[n + 1] = e
      /\ \A k \in 1 .. n + 1 : Boundary(c[k], lo, hi)
      /\ \A j, k \in 1 .. n + 1 : j =< k => c[j] =< c[k]
      /\ \A k \in 1 .. n : w[k] = BytesOf(mm, p, c[k], c[k + 1] - c[k])
  BY <1>1 DEF Cuts
<1> HIDE DEF n, w2, d
<1>5. \A k \in 1 .. n + 2 : k = n + 2 \/ k \in 1 .. n + 1
  BY <1>2
<1>6. \A k \in 1 .. n + 2 : Boundary(d[k], lo, hi)
  BY <1>3, <1>4, <1>5
<1>7. ASSUME NEW j \in 1 .. n + 2, NEW k \in 1 .. n + 2, j =< k
      PROVE  d[j] =< d[k]
  <2>1. CASE k \in 1 .. n + 1
    BY <1>2, <1>3, <1>4, <1>7, <2>1
  <2>2. CASE k = n + 2 /\ j \in 1 .. n + 1
    <3>1. c[j] =< e /\ c[j] \in Nat /\ e \in Nat /\ e2 \in Nat
      BY <1>2, <1>4, <2>2 DEF Boundary
    <3> QED BY <1>3, <2>2, <3>1
  <2>3. CASE k = n + 2 /\ j = n + 2
    BY <1>3, <2>3 DEF Boundary
  <2> QED BY <1>5, <2>1, <2>2, <2>3
<1>8. ASSUME NEW k \in 1 .. n + 1
      PROVE  w2[k] = BytesOf(mm, p, d[k], d[k + 1] - d[k])
  <2>1. CASE k \in 1 .. n
    <3>1. k \in 1 .. n + 1 /\ k + 1 \in 1 .. n + 1
      BY <1>2, <2>1
    <3> QED BY <1>2, <1>3, <1>4, <2>1, <3>1
  <2>2. CASE k = n + 1
    <3>1. k + 1 = n + 2 /\ n + 1 \in 1 .. n + 1
      BY <1>2, <2>2
    <3> QED BY <1>2, <1>3, <1>4, <2>2, <3>1
  <2> QED BY <1>2, <2>1, <2>2
<1>9. Cuts(mm, p, w2, d, b, e2, lo, hi)
  <2>1. Len(w2) + 1 = n + 2 /\ 1 \in 1 .. n + 1
    BY <1>2
  <2> QED BY <1>2, <1>3, <1>4, <1>6, <1>7, <1>8, <2>1 DEF Cuts
<1> QED BY <1>9 DEF Sliced, w2

(* The first slice is a range up to a place where the rest begins.         *)
LEMMA SlicedTail ==
  ASSUME NEW mm, NEW p, NEW X, NEW w \in Seq(X), w # <<>>, NEW lo \in Nat, NEW hi \in Nat,
         NEW b, NEW e, Sliced(mm, p, w, b, e, lo, hi)
  PROVE  \E m : /\ Boundary(b, lo, hi) /\ Boundary(m, lo, hi) /\ b =< m
                /\ Head(w) = BytesOf(mm, p, b, m - b)
                /\ Sliced(mm, p, Tail(w), m, e, lo, hi)
<1> DEFINE n == Len(w)
           t == Tail(w)
<1>1. PICK c : Cuts(mm, p, w, c, b, e, lo, hi)
  BY DEF Sliced
<1>2. /\ n \in Nat \ {0} /\ Head(w) = w[1] /\ Len(t) = n - 1
      /\ \A k \in 1 .. n - 1 : t[k] = w[k + 1]
  <2>1. n \in Nat /\ n # 0
    BY EmptySeq
  <2> QED BY <2>1, HeadTailProperties
<1>3. /\ c[1] = b /\ c[n + 1] = e
      /\ \A k \in 1 .. n + 1 : Boundary(c[k], lo, hi)
      /\ \A j, k \in 1 .. n + 1 : j =< k => c[j] =< c[k]
      /\ \A k \in 1 .. n : w[k] = BytesOf(mm, p, c[k], c[k + 1] - c[k])
  BY <1>1 DEF Cuts
<1> DEFINE d == [k \in 1 .. n |-> c[k + 1]]
<1>4. \A k \in 1 .. n : d[k] = c[k + 1]
  OBVIOUS
<1> HIDE DEF n, t, d
<1>5. 1 \in 1 .. n + 1 /\ 1 + 1 \in 1 .. n + 1 /\ 1 \in 1 .. n /\ n \in 1 .. n /\ 1 + 1 = 2
  BY <1>2
<1>6. Boundary(b, lo, hi) /\ Boundary(c[2], lo, hi) /\ b =< c[2] /\ Head(w) = BytesOf(mm, p, b, c[2] - b)
  BY <1>2, <1>3, <1>5
<1>7. Cuts(mm, p, t, d, c[2], e, lo, hi)
  <2>1. (n - 1) + 1 = n
    BY <1>2
  <2>2. d[1] = c[2] /\ d[n] = e
    BY <1>3, <1>4, <1>5
  <2>3. \A k \in 1 .. n : k + 1 \in 1 .. n + 1
    BY <1>2
  <2>4. \A k \in 1 .. n : Boundary(d[k], lo, hi)
    BY <1>3, <1>4, <2>3
  <2>5. \A j, k \in 1 .. n : j =< k => d[j] =< d[k]
    BY <1>2, <1>3, <1>4, <2>3
  <2>6. ASSUME NEW k \in 1 .. n - 1
        PROVE  t[k] = BytesOf(mm, p, d[k], d[k + 1] - d[k])
    <3>1. k \in 1 .. n /\ k + 1 \in 1 .. n
      BY <1>2
    <3> QED BY <1>2, <1>3, <1>4, <3>1
  <2> QED BY <1>2, <2>1, <2>2, <2>4, <2>5, <2>6 DEF Cuts
<1> QED BY <1>6, <1>7 DEF Sliced, t

(* The slices one after the other are the range.                           *)
LEMMA SlicedFlatten ==
  ASSUME NEW mm, NEW p, NEW X, NEW w \in Seq(X), NEW lo \in Nat, NEW hi \in Nat,
         NEW b, NEW e, Sliced(mm, p, w, b, e, lo, hi)
  PROVE  b \in Nat /\ e \in Nat /\ b =< e /\ FlattenSeq(w) = BytesOf(mm, p, b, e - b)
<1> DEFINE n == Len(w)
<1>1. PICK c : Cuts(mm, p, w, c, b, e, lo, hi)
  BY DEF Sliced
<1>2. n \in Nat
  OBVIOUS
<1>3. /\ c[1] = b /\ c[n + 1] = e
      /\ \A k \in 1 .. n + 1 : Boundary(c[k], lo, hi)
      /\ \A j, k \in 1 .. n + 1 : j =< k => c[j] =< c[k]
      /\ \A k \in 1 .. n : w[k] = BytesOf(mm, p, c[k], c[k + 1] - c[k])
  BY <1>1 DEF Cuts
<1>4. \A k \in 1 .. n + 1 : c[k] \in Nat /\ b \in Nat /\ b =< c[k]
  <2>1. 1 \in 1 .. n + 1
    BY <1>2
  <2>2. \A k \in 1 .. n + 1 : c[k] \in Nat
    BY <1>3 DEF Boundary
  <2> QED BY <1>2, <1>3, <2>1, <2>2
<1>5. b \in Nat /\ e \in Nat /\ b =< e
  <2>1. n + 1 \in 1 .. n + 1
    BY <1>2
  <2> QED BY <1>3, <1>4, <2>1
<1>6. CASE n = 0
  <2>1. w = <<>> /\ b = e /\ FlattenSeq(w) = w
    BY <1>3, <1>6, EmptySeq DEF FlattenSeq
  <2>2. e - b = 0
    BY <1>5, <2>1
  <2>3. BytesOf(mm, p, b, 0) = <<>>
    <3>1. 0 \in Nat
      OBVIOUS
    <3>2. BytesOf(mm, p, b, 0) \in Seq(Values(mm, p)) /\ Len(BytesOf(mm, p, b, 0)) = 0
      BY <1>5, <3>1, BytesSeq, Zenon
    <3> QED BY <3>2, EmptySeq
  <2> QED BY <1>5, <2>1, <2>2, <2>3
<1>7. CASE n # 0
  <2> DEFINE g == [k \in 1 .. n |-> BytesOf(mm, p, b, c[k + 1] - b)]
             Step(f) == [k \in 1 .. n |-> IF k = 1 THEN w[k] ELSE f[k - 1] \o w[k]]
  <2>1. ASSUME NEW k \in 1 .. n
        PROVE  g[k] = IF k = 1 THEN w[k] ELSE g[k - 1] \o w[k]
    <3>1. CASE k = 1
      <4>1. 1 + 1 = 2 /\ g[1] = BytesOf(mm, p, b, c[1 + 1] - b)
        BY <3>1
      <4> QED BY <1>3, <3>1, <4>1
    <3>2. CASE k # 1
      <4>1. k - 1 \in 1 .. n /\ k \in 1 .. n + 1 /\ k + 1 \in 1 .. n + 1 /\ (k - 1) + 1 = k
        BY <1>2, <3>2
      <4>2. g[k - 1] = BytesOf(mm, p, b, c[k] - b) /\ g[k] = BytesOf(mm, p, b, c[k + 1] - b)
        BY <4>1
      <4>3. c[k] \in Nat /\ c[k + 1] \in Nat /\ b =< c[k] /\ c[k] =< c[k + 1] /\ b \in Nat
        BY <1>2, <1>3, <1>4, <4>1
      <4>4. BytesOf(mm, p, b, c[k] - b) \o BytesOf(mm, p, c[k], c[k + 1] - c[k])
              = BytesOf(mm, p, b, c[k + 1] - b)
        <5>1. CutAt(mm, p, b, c[k], c[k + 1])
          BY <4>3, BytesConcat
        <5> QED BY <5>1, Zenon DEF CutAt
      <4> QED BY <1>3, <3>2, <4>2, <4>4
    <3> QED BY <3>1, <3>2
  <2>2. g = Step(g)
    BY <2>1
  <2>3. PICK f : f = Step(f) /\ FlattenSeq(w) = f[n]
    BY <1>7, <2>2, Zenon DEF FlattenSeq
  <2>4. \A k \in 1 .. n : f[k] = IF k = 1 THEN w[k] ELSE f[k - 1] \o w[k]
    BY <2>3
  <2> HIDE DEF g, Step
  <2>5. \A k \in 1 .. n : f[k] = g[k]
    <3> DEFINE D == {k \in 1 .. n : f[k] # g[k]}
    <3> SUFFICES ASSUME D # {} PROVE FALSE
      OBVIOUS
    <3>1. D \subseteq Nat
      BY <1>2
    <3>2. PICK m \in D : \A k \in D : m =< k
      BY <3>1, Least
    <3>3. m \in 1 .. n /\ f[m] # g[m]
      OBVIOUS
    <3>4. m # 1
      BY <2>1, <2>4, <3>3
    <3>5. m - 1 \in 1 .. n /\ ~(m =< m - 1)
      BY <1>2, <3>3, <3>4
    <3>6. f[m - 1] = g[m - 1]
      BY <3>2, <3>5
    <3> QED BY <2>1, <2>4, <3>3, <3>4, <3>6
  <2>6. g[n] = BytesOf(mm, p, b, e - b)
    <3>1. n \in 1 .. n
      BY <1>2, <1>7
    <3> QED BY <1>3, <3>1 DEF g
  <2>7. n \in 1 .. n
    BY <1>2, <1>7
  <2> QED BY <1>5, <2>3, <2>5, <2>6, <2>7
<1> QED BY <1>6, <1>7

-------------------------------------------------------------------------------
(* Mapped addresses.                                                       *)

MappedAt(p, va) == va \div PAGE_SIZE \in DOMAIN PageTable[p]

\* The end of the pages a buffer may have.
UserEnd == VA_SIZE - 2 * PAGE_SIZE

(* A mapped byte, and the end of its page, lie below the pages of the      *)
(* kernel.                                                                 *)
LEMMA MappedBelow ==
  ASSUME NEW p \in Proc, NEW va \in Nat, MappedAt(p, va)
  PROVE  /\ UserEnd \in Nat /\ va < UserEnd
         /\ (va \div PAGE_SIZE + 1) * PAGE_SIZE =< UserEnd
<1> DEFINE q == va \div PAGE_SIZE
           o == va % PAGE_SIZE
           N == VA_SIZE \div PAGE_SIZE
<1>1. PAGE_SIZE \in Nat \ {0} /\ VA_SIZE \in Nat /\ VA_SIZE % PAGE_SIZE = 0 /\ 2 * PAGE_SIZE =< VA_SIZE
  BY WidthAssumption
<1>2. N \in Nat /\ VA_SIZE = N * PAGE_SIZE
  BY <1>1, Division
<1>3. q \in Nat /\ o \in 0 .. PAGE_SIZE - 1 /\ va = q * PAGE_SIZE + o
  BY Division
<1>4. q \in 0 .. N - 3
  BY TableAssumption DEF MappedAt
<1> HIDE DEF q, o, N
<1>5. (q + 1) * PAGE_SIZE =< (N - 2) * PAGE_SIZE
  <2>1. q + 1 =< N - 2 /\ q + 1 \in Int /\ N - 2 \in Int
    BY <1>2, <1>3, <1>4
  <2>2. \A x, y \in Int : x =< y => x * PAGE_SIZE =< y * PAGE_SIZE
    BY <1>1
  <2> QED BY <2>1, <2>2
<1>6. (N - 2) * PAGE_SIZE = N * PAGE_SIZE - 2 * PAGE_SIZE /\ N * PAGE_SIZE \in Nat
  BY <1>1, <1>2
<1>7. (q + 1) * PAGE_SIZE = q * PAGE_SIZE + PAGE_SIZE /\ q * PAGE_SIZE \in Nat
  BY <1>1, <1>3
<1>8. UserEnd = N * PAGE_SIZE - 2 * PAGE_SIZE /\ UserEnd \in Nat
  BY <1>1, <1>2 DEF UserEnd
<1>9. (q + 1) * PAGE_SIZE =< UserEnd
  BY <1>5, <1>6, <1>8
<1>10. va < UserEnd
  BY <1>1, <1>3, <1>7, <1>8, <1>9
<1> QED BY <1>8, <1>9, <1>10 DEF q

(* The mask leaves such addresses and their ends alone.                    *)
LEMMA Unmasked ==
  ASSUME NEW a \in Nat, a =< UserEnd
  PROVE  VirtAddr_from(a) = a
<1>1. VA_SIZE \in Nat \ {0} /\ a < VA_SIZE
  BY WidthAssumption DEF UserEnd
<1> QED BY <1>1 DEF VirtAddr_from

(* A physical byte belongs to one address of one process.                  *)
LEMMA OneByte ==
  ASSUME NEW p \in Proc, NEW q \in Proc, NEW a \in Nat, NEW b \in Nat,
         MappedAt(p, a), MappedAt(q, b),
         PageTable[p][a \div PAGE_SIZE] = PageTable[q][b \div PAGE_SIZE],
         a % PAGE_SIZE = b % PAGE_SIZE
  PROVE  p = q /\ a = b
<1>1. p = q /\ a \div PAGE_SIZE = b \div PAGE_SIZE
  BY TableAssumption DEF MappedAt
<1> QED BY <1>1, SameAddress

(* A buffer the program has is mapped byte by byte.                        *)
LEMMA FitsMapped ==
  ASSUME NEW p, NEW ptr \in Nat, NEW n \in Nat, Fits(p, ptr, n), NEW va \in ptr .. ptr + n - 1
  PROVE  MappedAt(p, va) /\ va \in Nat
<1>1. va - ptr + 1 \in 1 .. n /\ ptr + (va - ptr + 1) - 1 = va /\ va \in Nat
  OBVIOUS
<1> QED BY <1>1 DEF Fits, MappedAt

Memory == [Frame -> [0 .. PAGE_SIZE - 1 -> Byte]]

(* A mapped byte is a byte.                                                *)
LEMMA PeekByte ==
  ASSUME NEW mm \in Memory, NEW p \in Proc, NEW va \in Nat, MappedAt(p, va)
  PROVE  Peek(mm, p, va) \in Byte
<1>1. PageTable[p][va \div PAGE_SIZE] \in Frame
  BY TableAssumption DEF MappedAt
<1>2. va % PAGE_SIZE \in 0 .. PAGE_SIZE - 1
  BY Division
<1> QED BY <1>1, <1>2 DEF Peek, Memory

(* So a range that is mapped is a sequence of bytes.                       *)
LEMMA BytesByte ==
  ASSUME NEW mm \in Memory, NEW p \in Proc, NEW a \in Nat, NEW n \in Nat,
         \A va \in a .. a + n - 1 : MappedAt(p, va)
  PROVE  BytesOf(mm, p, a, n) \in Seq(Byte)
<1>1. ASSUME NEW i \in 1 .. n
      PROVE  Peek(mm, p, a + i - 1) \in Byte
  <2>1. a + i - 1 \in Nat /\ a + i - 1 \in a .. a + n - 1
    OBVIOUS
  <2> QED BY <2>1, PeekByte
<1>2. BytesOf(mm, p, a, n) \in [1 .. n -> Byte]
  BY <1>1 DEF BytesOf
<1> QED BY <1>2

(* The program's own stores: what was put at ptr is there.                 *)
LEMMA FilledBytes ==
  ASSUME mem \in Memory, NEW p \in Proc, NEW ptr \in Nat, NEW bytes \in Seq(Byte),
         Fits(p, ptr, Len(bytes)), NEW mm, mm = Filled(p, ptr, bytes)
  PROVE  mm \in Memory /\ BytesOf(mm, p, ptr, Len(bytes)) = bytes
<1> DEFINE hit(f, o) == {i \in DOMAIN bytes : /\ PageTable[p][(ptr + i - 1) \div PAGE_SIZE] = f
                                              /\ (ptr + i - 1) % PAGE_SIZE = o}
           cell(f, o) == IF hit(f, o) = {} THEN mem[f][o] ELSE bytes[CHOOSE i \in hit(f, o) : TRUE]
<1>1. mm = [f \in Frame |-> [o \in 0 .. PAGE_SIZE - 1 |-> cell(f, o)]]
  BY Zenon DEF Filled
<1>2. Len(bytes) \in Nat /\ DOMAIN bytes = 1 .. Len(bytes) /\ \A i \in DOMAIN bytes : bytes[i] \in Byte
  OBVIOUS
<1>3. \A f, o : hit(f, o) \subseteq DOMAIN bytes
  OBVIOUS
<1>4. \A f, o : hit(f, o) # {} => (CHOOSE i \in hit(f, o) : TRUE) \in hit(f, o)
  OBVIOUS
<1>5. ASSUME NEW i \in DOMAIN bytes,
             NEW f, f = PageTable[p][(ptr + i - 1) \div PAGE_SIZE],
             NEW o, o = (ptr + i - 1) % PAGE_SIZE
      PROVE  hit(f, o) = {i}
  <2>1. i \in hit(f, o)
    BY <1>5
  <2>2. ASSUME NEW j \in hit(f, o)
        PROVE  j = i
    <3>1. j \in 1 .. Len(bytes) /\ i \in 1 .. Len(bytes)
      BY <1>2
    <3>2. /\ PageTable[p][(ptr + j - 1) \div PAGE_SIZE] = PageTable[p][(ptr + i - 1) \div PAGE_SIZE]
          /\ (ptr + j - 1) % PAGE_SIZE = (ptr + i - 1) % PAGE_SIZE
      BY <1>5
    <3>3. MappedAt(p, ptr + j - 1) /\ MappedAt(p, ptr + i - 1)
      BY <3>1 DEF Fits, MappedAt
    <3>4. ptr + j - 1 \in Nat /\ ptr + i - 1 \in Nat
      BY <1>2, <3>1
    <3>5. ptr + j - 1 = ptr + i - 1
      BY <3>2, <3>3, <3>4, OneByte
    <3> QED BY <1>2, <3>1, <3>5
  <2> QED BY <2>1, <2>2
<1> HIDE DEF hit
<1>6. mm \in Memory
  <2>1. ASSUME NEW f \in Frame, NEW o \in 0 .. PAGE_SIZE - 1
        PROVE  cell(f, o) \in Byte
    <3>1. CASE hit(f, o) = {}
      BY <3>1 DEF Memory
    <3>2. CASE hit(f, o) # {}
      <4>1. (CHOOSE i \in hit(f, o) : TRUE) \in DOMAIN bytes
        BY <1>3, <1>4, <3>2
      <4> QED BY <1>2, <3>2, <4>1
    <3> QED BY <3>1, <3>2
  <2> HIDE DEF cell
  <2> QED BY <1>1, <2>1 DEF Memory
<1>7. ASSUME NEW i \in 1 .. Len(bytes)
      PROVE  Peek(mm, p, ptr + i - 1) = bytes[i]
  <2> DEFINE f == PageTable[p][(ptr + i - 1) \div PAGE_SIZE]
             o == (ptr + i - 1) % PAGE_SIZE
  <2>1. i \in DOMAIN bytes /\ ptr + i - 1 \in Nat /\ MappedAt(p, ptr + i - 1)
    BY <1>2 DEF Fits, MappedAt
  <2>2. f \in Frame /\ o \in 0 .. PAGE_SIZE - 1
    BY <2>1, Division, TableAssumption DEF MappedAt
  <2>3. hit(f, o) = {i}
    BY <1>5, <2>1
  <2>4. Peek(mm, p, ptr + i - 1) = mm[f][o]
    BY DEF Peek
  <2> HIDE DEF f, o
  <2>5. mm[f][o] = cell(f, o)
    <3> HIDE DEF cell
    <3> QED BY <1>1, <2>2
  <2>6. (CHOOSE j \in hit(f, o) : TRUE) = i
    BY <1>4, <2>3
  <2> QED BY <2>3, <2>4, <2>5, <2>6
<1>8. BytesOf(mm, p, ptr, Len(bytes)) = bytes
  <2>1. BytesOf(mm, p, ptr, Len(bytes)) = [i \in 1 .. Len(bytes) |-> bytes[i]]
    BY <1>7 DEF BytesOf
  <2> QED BY <1>2, <2>1
<1> QED BY <1>6, <1>8

-------------------------------------------------------------------------------
(* One round of the loop, and what is in a slice.                          *)

(* The slice of one round is the range up to the end of the page or of the *)
(* buffer, whichever comes first.                                          *)
LEMMA OneSlice ==
  ASSUME NEW p \in Proc, NEW end \in Nat, start \in Nat, start < end, end =< UserEnd,
         MappedAt(p, start)
  PROVE  /\ end_of_slice(end) \in Nat
         /\ start < end_of_slice(end) /\ end_of_slice(end) =< end
         /\ end_of_slice(end) = end \/ end_of_slice(end) % PAGE_SIZE = 0
         /\ slice(p, end_of_slice(end)) = BytesOf(mem, p, start, end_of_slice(end) - start)
<1> DEFINE e == end_of_slice(end)
           pe == (start \div PAGE_SIZE + 1) * PAGE_SIZE
           off == start % PAGE_SIZE
           f == PageTable[p][start \div PAGE_SIZE]
           last == IF e % PAGE_SIZE = 0 THEN PAGE_SIZE ELSE e % PAGE_SIZE
<1>1. PAGE_SIZE \in Nat \ {0} /\ off \in 0 .. PAGE_SIZE - 1
  BY WidthAssumption, Division
<1>2. VirtAddr_from(start) = start /\ VirtAddr_from(end) = end
  <2>1. UserEnd \in Nat
    BY MappedBelow
  <2>2. start =< UserEnd
    BY <2>1
  <2> QED BY <2>2, Unmasked
<1>3. e = Smaller(pe, end)
  BY <1>2 DEF end_of_slice, VirtAddr_of, floor
<1>4. pe \in Nat /\ pe = start - off + PAGE_SIZE /\ pe % PAGE_SIZE = 0
  BY PageEnd
<1>5. slice(p, e) = [i \in 1 .. last - off |-> mem[f][off + i - 1]]
  BY <1>2, Zenon DEF slice, page_offset, floor
<1> HIDE DEF e, pe, off, f
<1>6. e \in Nat /\ start < e /\ e =< end /\ e - start =< PAGE_SIZE - off /\ (e = end \/ e % PAGE_SIZE = 0)
  BY <1>1, <1>3, <1>4 DEF Smaller
<1>7. last - off = e - start
  <2>1. CASE e = pe
    BY <1>1, <1>4, <2>1
  <2>2. CASE e # pe
    <3>1. PICK k \in Nat : k = e - start
      BY <1>6
    <3>2. off + k < PAGE_SIZE /\ k > 0 /\ start + k = e
      BY <1>1, <1>3, <1>4, <1>6, <2>2, <3>1 DEF Smaller
    <3>3. (start + k) % PAGE_SIZE = off + k
      BY <3>2, WithinPage DEF off
    <3>4. e % PAGE_SIZE = off + k
      BY <3>2, <3>3
    <3>5. last = off + k
      BY <1>1, <3>2, <3>4
    <3> QED BY <1>1, <3>1, <3>5
  <2> QED BY <2>1, <2>2
<1>8. ASSUME NEW i \in 1 .. e - start
      PROVE  mem[f][off + i - 1] = Peek(mem, p, start + i - 1)
  <2>1. PICK k \in Nat : k = i - 1
    BY <1>6
  <2>2. off + k < PAGE_SIZE /\ off + i - 1 = off + k /\ start + i - 1 = start + k
    BY <1>1, <1>6, <2>1
  <2>3. (start + k) \div PAGE_SIZE = start \div PAGE_SIZE /\ (start + k) % PAGE_SIZE = off + k
    BY <2>2, WithinPage DEF off
  <2>4. Peek(mem, p, start + k) = mem[f][off + k]
    BY <2>3 DEF Peek, f
  <2> QED BY <2>2, <2>4
<1> HIDE DEF last
<1>9. slice(p, e) = BytesOf(mem, p, start, e - start)
  BY <1>5, <1>7, <1>8 DEF BytesOf
<1> QED BY <1>6, <1>9 DEF e

(* Of a valid string only a character that is cut makes a slice invalid.   *)
LEMMA CutCharacter ==
  ASSUME NEW mm, NEW p, NEW lo \in Nat, NEW hi \in Nat, NEW n \in Nat, hi = lo + n,
         ValidUtf8(BytesOf(mm, p, lo, n)),
         NEW b \in Nat, NEW m \in Nat, Boundary(b, lo, hi), Boundary(m, lo, hi), b =< m,
         ~ValidUtf8(BytesOf(mm, p, b, m - b))
  PROVE  \E va \in lo + 1 .. hi - 1 : va % PAGE_SIZE = 0 /\ Peek(mm, p, va) = Cont
<1> DEFINE u == BytesOf(mm, p, lo, n)
           s == BytesOf(mm, p, b, m - b)
<1>1. PICK k \in Nat : k = m - b
  OBVIOUS
<1>2. b \in lo .. hi /\ m \in lo .. hi
  BY DEF Boundary
<1>3. Len(u) = n /\ DOMAIN u = 1 .. n /\ \A i \in 1 .. n : u[i] = Peek(mm, p, lo + i - 1)
  BY BytesSeq DEF BytesOf
<1>4. Len(s) = k /\ DOMAIN s = 1 .. k /\ \A i \in 1 .. k : s[i] = Peek(mm, p, b + i - 1)
  BY <1>1, BytesSeq DEF BytesOf
<1>valid. ValidUtf8(u) /\ ~ValidUtf8(s)
  OBVIOUS
<1> HIDE DEF u, s
<1>5. PICK i \in 1 .. k : \/ s[i] = Lead /\ ~(i < k /\ s[i + 1] = Cont)
                          \/ s[i] = Cont /\ ~(i > 1 /\ s[i - 1] = Lead)
  BY <1>4, <1>valid DEF ValidUtf8
<1> DEFINE j == b + i - lo
<1>6. /\ j \in 1 .. n /\ lo + j - 1 = b + i - 1
  BY <1>1, <1>2
<1>7. u[j] = s[i]
  BY <1>3, <1>4, <1>6
<1>8. /\ u[j] = Lead => j < n /\ u[j + 1] = Cont
      /\ u[j] = Cont => j > 1 /\ u[j - 1] = Lead
  BY <1>3, <1>6, <1>valid DEF ValidUtf8
<1>9. CASE s[i] = Lead /\ ~(i < k /\ s[i + 1] = Cont)
  <2>1. j < n /\ u[j + 1] = Cont
    BY <1>7, <1>8, <1>9
  <2>2. j + 1 \in 1 .. n /\ lo + (j + 1) - 1 = b + i
    BY <1>2, <1>6, <2>1
  <2>3. Peek(mm, p, b + i) = Cont
    BY <1>3, <2>1, <2>2
  <2>4. i = k
    <3> SUFFICES ASSUME i # k PROVE FALSE
      OBVIOUS
    <3>1. i + 1 \in 1 .. k /\ b + (i + 1) - 1 = b + i
      OBVIOUS
    <3> QED BY <1>4, <1>9, <2>3, <3>1
  <2>5. b + i = m /\ m \in lo + 1 .. hi - 1
    BY <1>1, <1>2, <1>6, <2>1, <2>4
  <2>6. m % PAGE_SIZE = 0
    BY <2>5 DEF Boundary
  <2> QED BY <2>3, <2>5, <2>6
<1>10. CASE s[i] = Cont /\ ~(i > 1 /\ s[i - 1] = Lead)
  <2>1. j > 1 /\ u[j - 1] = Lead
    BY <1>7, <1>8, <1>10
  <2>2. i = 1
    <3> SUFFICES ASSUME i # 1 PROVE FALSE
      OBVIOUS
    <3>1. i - 1 \in 1 .. k /\ j - 1 \in 1 .. n /\ b + (i - 1) - 1 = lo + (j - 1) - 1
      BY <1>2, <1>6, <2>1
    <3>2. s[i - 1] = u[j - 1]
      BY <1>3, <1>4, <3>1
    <3> QED BY <1>10, <2>1, <3>2
  <2>3. b \in lo + 1 .. hi - 1 /\ b + i - 1 = b
    BY <1>1, <1>2, <1>6, <2>1, <2>2
  <2>4. b % PAGE_SIZE = 0
    BY <2>3 DEF Boundary
  <2>5. Peek(mm, p, b) = Cont
    BY <1>4, <1>10, <2>3
  <2> QED BY <2>3, <2>4, <2>5
<1> QED BY <1>5, <1>9, <1>10


-------------------------------------------------------------------------------
(* The inductive invariant.                                                *)

\* What a process passed in the system call it is in.
ArgsOk(p, w, a) ==
  w # "user" => /\ Fits(p, a.ptr, 1) /\ Fits(p, a.ptr, a.len)
                /\ w = "getchar" => a.len = 1
                /\ w = "collect" => a.len = I32_SIZE /\ a.ptr % I32_SIZE = 0

\* Of the string at ptr .. ptr + len - 1, o is printed and w holds the rest
\* up to e.
WriteInv(mm, p, a, w, o, e) ==
  /\ ValidUtf8(BytesOf(mm, p, a.ptr, a.len))
  /\ Len(o) =< a.len /\ o = BytesOf(mm, p, a.ptr, Len(o))
  /\ Sliced(mm, p, w, a.ptr + Len(o), e, a.ptr, a.ptr + a.len)

\* The String s that is read from the bytes b.
Spells(s, b) ==
  IF IsAscii(b) THEN s = b ELSE Len(b) < Len(s) /\ ~IsAscii(s)

\* Of the string at ptr, which ends at ptr + z, the n bytes up to st are read.
NameRead(mm, p, a, s, st, n, z) ==
  /\ st = a.ptr + n
  /\ \A i \in 1 .. n : Peek(mm, p, a.ptr + i - 1) # Zero
  /\ Spells(s, BytesOf(mm, p, a.ptr, n))
  /\ n =< z /\ Peek(mm, p, a.ptr + z) = Zero /\ Fits(p, a.ptr, z + 1)

NameInv(mm, p, a, s, st) == \E n, z \in Nat : NameRead(mm, p, a, s, st, n, z)

\* Only a process that waits for a character is not current in its call.
Waiting == \A q \in Proc : q # current => at[q] \in {"user", "getchar"}

Translating(mm, p, a, w, o, st) ==
  o = <<>> /\ st \in a.ptr .. a.ptr + a.len /\ WriteInv(mm, p, a, w, o, st)

InCall(mm, p, w, a, sl, s, o, st) ==
  /\ w = "translate" => Translating(mm, p, a, sl, o, st)
  /\ w = "print" => WriteInv(mm, p, a, sl, o, a.ptr + a.len)
  /\ w \in {"str", "named"} => NameInv(mm, p, a, s, st)
  /\ w = "named" => Peek(mm, p, st) = Zero

Inv ==
  /\ TypeOK
  /\ Waiting
  /\ \A q \in Proc : ArgsOk(q, at[q], args[q])
  /\ panic = "none" => InCall(mem, current, at[current], args[current], v, str, out, start)
  /\ PanicsOnlyOnSplitCharacter


-------------------------------------------------------------------------------
(* The system calls.                                                       *)

Rec(ptr, len) == [ptr |-> ptr, len |-> len]

(* The first byte of what a process passed is mapped.                      *)
LEMMA FirstByte ==
  ASSUME NEW p \in Proc, NEW ptr \in Nat, Fits(p, ptr, 1)
  PROVE  MappedAt(p, ptr) /\ ptr \in 0 .. UserEnd /\ ptr \in Va
<1>1. ptr \in ptr .. ptr + 1 - 1 /\ 1 \in Nat
  OBVIOUS
<1>2. MappedAt(p, ptr)
  BY <1>1, FitsMapped
<1>3. UserEnd \in Nat /\ ptr < UserEnd
  BY <1>2, MappedBelow
<1> QED BY <1>2, <1>3, WidthAssumption DEF UserEnd, Va

(* A system call begins with what its caller passed.                       *)
LEMMA EnterInv ==
  ASSUME Inv, NEW p \in Proc, NEW ptr \in Nat, NEW len \in Nat,
         NEW where \in {"translate", "getchar", "collect", "str"},
         enter(p, ptr, len, where), ArgsOk(p, where, Rec(ptr, len)), mem' \in Memory,
         InCall(mem', p, where, Rec(ptr, len), <<>>, <<>>, <<>>, ptr)
  PROVE  Inv'
<1>1. /\ panic = "none" /\ current = p /\ at[p] = "user" /\ calls < MaxCalls
      /\ calls' = calls + 1 /\ args' = [args EXCEPT ![p] = Rec(ptr, len)]
      /\ at' = [at EXCEPT ![p] = where]
      /\ start' = ptr /\ v' = <<>> /\ str' = <<>> /\ out' = <<>>
      /\ current' = current /\ panic' = panic
  BY DEF enter, Running, goto, Rec
<1>2. TypeOK /\ Waiting /\ \A q \in Proc : ArgsOk(q, at[q], args[q])
  BY DEF Inv
<1>3. /\ at \in [Proc -> {"user", "translate", "print", "getchar", "collect", "str", "named"}]
      /\ args \in [Proc -> [ptr : Va, len : Nat]] /\ calls \in 0 .. MaxCalls
  BY <1>2 DEF TypeOK
<1>4. ptr \in 0 .. UserEnd /\ ptr \in Va
  <2>1. Fits(p, ptr, 1)
    BY DEF ArgsOk, Rec
  <2> QED BY <2>1, FirstByte
<1>5. at'[p] = where /\ args'[p] = Rec(ptr, len)
      /\ \A q \in Proc : q # p => at'[q] = at[q] /\ args'[q] = args[q]
  BY <1>1, <1>3
<1>6. TypeOK'
  <2>1. Rec(ptr, len) \in [ptr : Va, len : Nat]
    BY <1>4 DEF Rec
  <2>2. args' \in [Proc -> [ptr : Va, len : Nat]]
    BY <1>1, <1>3, <2>1
  <2>3. at' \in [Proc -> {"user", "translate", "print", "getchar", "collect", "str", "named"}]
    BY <1>1, <1>3
  <2>4. calls' \in 0 .. MaxCalls
    BY <1>1, <1>3, WidthAssumption
  <2>5. v' \in Seq(Seq(Byte)) /\ str' \in Seq(Byte) /\ out' \in Seq(Byte)
    BY <1>1
  <2>6. current' \in Proc /\ panic' \in {"none", "unwrap on None", "Utf8Error"}
    BY <1>1
  <2> QED BY <1>1, <1>4, <2>2, <2>3, <2>4, <2>5, <2>6 DEF TypeOK, Memory, UserEnd
<1>7. Waiting'
  BY <1>1, <1>2, <1>5 DEF Waiting
<1>8. ASSUME NEW q \in Proc
      PROVE  ArgsOk(q, at'[q], args'[q])
  BY <1>2, <1>5
<1>9. InCall(mem', current', at'[current'], args'[current'], v', str', out', start')
  BY <1>1, <1>5
<1>10. PanicsOnlyOnSplitCharacter'
  BY <1>1 DEF PanicsOnlyOnSplitCharacter
<1> QED BY <1>6, <1>7, <1>8, <1>9, <1>10 DEF Inv

(* sys_write: the whole string is there, and no slice yet.                 *)
LEMMA WriteEnters ==
  ASSUME Inv, NEW p \in Proc, NEW ptr \in Va, NEW text \in Text, sys_write(p, ptr, text)
  PROVE  Inv'
<1> DEFINE len == Len(text)
           a == Rec(ptr, len)
<1>1. text \in Seq(Byte) /\ ValidUtf8(text) /\ len \in Nat /\ ptr \in Nat
  BY TextAssumption DEF Va
<1>2. /\ enter(p, ptr, len, "translate") /\ Fits(p, ptr, 1) /\ Fits(p, ptr, len)
      /\ mem' = Filled(p, ptr, text)
  BY DEF sys_write, reference
<1>3. mem \in Memory
  BY DEF Inv, TypeOK, Memory
<1>4. mem' \in Memory /\ BytesOf(mem', p, ptr, len) = text
  BY <1>1, <1>2, <1>3, FilledBytes
<1>5. a.ptr = ptr /\ a.len = len
  BY DEF Rec
<1>6. Len(<<>>) = 0 /\ ptr + 0 = ptr /\ ptr + len \in Nat /\ 0 =< len /\ 0 \in Nat
  BY <1>1
<1> HIDE DEF len, a
<1>7. ArgsOk(p, "translate", a)
  BY <1>2, <1>5 DEF ArgsOk
<1>8. <<>> = BytesOf(mem', p, ptr, 0)
  <2>1. BytesOf(mem', p, ptr, 0) \in Seq(Values(mem', p)) /\ Len(BytesOf(mem', p, ptr, 0)) = 0
    BY <1>1, <1>6, BytesSeq, Zenon
  <2> QED BY <2>1, EmptySeq
<1>9. Sliced(mem', p, <<>>, ptr, ptr, ptr, ptr + len)
  <2>1. Boundary(ptr, ptr, ptr + len)
    BY <1>1, <1>6 DEF Boundary
  <2> QED BY <1>1, <1>6, <2>1, SlicedEmpty
<1>10. WriteInv(mem', p, a, <<>>, <<>>, ptr)
  BY <1>1, <1>4, <1>5, <1>6, <1>8, <1>9 DEF WriteInv
<1>11. InCall(mem', p, "translate", a, <<>>, <<>>, <<>>, ptr)
  BY <1>1, <1>5, <1>6, <1>10 DEF InCall, Translating
<1> QED BY <1>1, <1>2, <1>4, <1>7, <1>11, EnterInv DEF a

(* sys_exec: the string is there with its zero.                            *)
LEMMA ExecEnters ==
  ASSUME Inv, NEW p \in Proc, NEW ptr \in Va, NEW text \in Text, sys_exec(p, ptr, text)
  PROVE  Inv'
<1> DEFINE n == Len(text)
           bytes == Append(text, Zero)
           a == Rec(ptr, 0)
<1>1. text \in Seq(Byte) /\ n \in Nat /\ ptr \in Nat
  BY TextAssumption DEF Va
<1>2. bytes \in Seq(Byte) /\ Len(bytes) = n + 1 /\ bytes[n + 1] = Zero
  <2>1. Zero \in Byte
    BY DEF Byte
  <2> QED BY <1>1, <2>1, AppendProperties
<1>3. /\ enter(p, ptr, 0, "str") /\ Fits(p, ptr, n + 1) /\ mem' = Filled(p, ptr, bytes)
  BY DEF sys_exec, reference
<1>4. mem \in Memory
  BY DEF Inv, TypeOK, Memory
<1>5. mem' \in Memory /\ BytesOf(mem', p, ptr, n + 1) = bytes
  <2>1. Fits(p, ptr, Len(bytes))
    BY <1>2, <1>3
  <2> HIDE DEF bytes
  <2> QED BY <1>1, <1>2, <1>3, <1>4, <2>1, FilledBytes
<1>6. a.ptr = ptr /\ a.len = 0
  BY DEF Rec
<1>7. Len(<<>>) = 0 /\ ptr + 0 = ptr /\ 0 \in Nat /\ 0 =< n /\ n + 1 \in Nat
  BY <1>1
<1> HIDE DEF n, bytes, a
<1>8. Fits(p, ptr, 1) /\ Fits(p, ptr, 0)
  <2>1. 1 .. 1 \subseteq 1 .. n + 1 /\ 1 .. 0 \subseteq 1 .. n + 1
    BY <1>1
  <2> QED BY <1>3, <2>1 DEF Fits
<1>9. ArgsOk(p, "str", a)
  BY <1>6, <1>8 DEF ArgsOk
<1>10. <<>> = BytesOf(mem', p, ptr, 0)
  <2>1. BytesOf(mem', p, ptr, 0) \in Seq(Values(mem', p)) /\ Len(BytesOf(mem', p, ptr, 0)) = 0
    BY <1>1, <1>7, BytesSeq, Zenon
  <2> QED BY <2>1, EmptySeq
<1>11. Peek(mem', p, ptr + n) = Zero
  <2>1. n + 1 \in 1 .. n + 1 /\ ptr + (n + 1) - 1 = ptr + n
    BY <1>1
  <2>2. PICK k \in Nat : k = n + 1
    BY <1>7
  <2>3. k \in 1 .. k /\ ptr + k - 1 = ptr + n
    BY <2>1, <2>2
  <2>4. BytesOf(mem', p, ptr, k)[k] = Peek(mem', p, ptr + k - 1)
    <3>1. IsRange(BytesOf(mem', p, ptr, k), mem', p, ptr, k)
      BY <1>1, BytesRange
    <3> QED BY <2>3, <3>1 DEF IsRange
  <2> QED BY <1>2, <1>5, <2>2, <2>3, <2>4
<1>12. Spells(<<>>, BytesOf(mem', p, ptr, 0)) /\ 1 .. 0 = {}
  BY <1>10 DEF Spells, IsAscii
<1>13. NameInv(mem', p, a, <<>>, ptr)
  <2>1. NameRead(mem', p, a, <<>>, ptr, 0, n)
    BY <1>1, <1>3, <1>6, <1>7, <1>11, <1>12 DEF NameRead
  <2> QED BY <1>1, <1>7, <2>1 DEF NameInv
<1>14. InCall(mem', p, "str", a, <<>>, <<>>, <<>>, ptr)
  BY <1>13 DEF InCall
<1> QED BY <1>1, <1>3, <1>5, <1>7, <1>9, <1>14, EnterInv DEF a

(* sys_read and sys_waitpid: the place of the answer is there.             *)
LEMMA ReadEnters ==
  ASSUME Inv, NEW p \in Proc, NEW ptr \in Va, sys_read(p, ptr) \/ sys_waitpid(p, ptr)
  PROVE  Inv'
<1>1. ptr \in Nat /\ 1 \in Nat
  BY DEF Va
<1>2. I32_SIZE \in Nat /\ 1 .. 1 \subseteq 1 .. I32_SIZE
  BY WidthAssumption
<1>3. mem \in Memory
  BY DEF Inv, TypeOK, Memory
<1>4. CASE sys_read(p, ptr)
  <2>1. enter(p, ptr, 1, "getchar") /\ Fits(p, ptr, 1) /\ mem' = mem
    BY <1>4 DEF sys_read, reference
  <2>2. ArgsOk(p, "getchar", Rec(ptr, 1))
    BY <2>1 DEF ArgsOk, Rec
  <2>3. InCall(mem', p, "getchar", Rec(ptr, 1), <<>>, <<>>, <<>>, ptr)
    BY DEF InCall
  <2> QED BY <1>1, <1>3, <2>1, <2>2, <2>3, EnterInv
<1>5. CASE sys_waitpid(p, ptr)
  <2>1. /\ enter(p, ptr, I32_SIZE, "collect") /\ ptr % I32_SIZE = 0
        /\ Fits(p, ptr, I32_SIZE) /\ mem' = mem
    BY <1>5 DEF sys_waitpid, reference
  <2>2. Fits(p, ptr, 1)
    BY <1>2, <2>1 DEF Fits
  <2>3. ArgsOk(p, "collect", Rec(ptr, I32_SIZE))
    BY <2>1, <2>2 DEF ArgsOk, Rec
  <2>4. InCall(mem', p, "collect", Rec(ptr, I32_SIZE), <<>>, <<>>, <<>>, ptr)
    BY DEF InCall
  <2> QED BY <1>1, <1>2, <1>3, <2>1, <2>3, <2>4, EnterInv
<1> QED BY <1>4, <1>5


-------------------------------------------------------------------------------
(* The steps of the kernel.                                                *)

Places == {"user", "translate", "print", "getchar", "collect", "str", "named"}

(* A step of the process that runs, to another place in its call or back   *)
(* to user mode.                                                           *)
LEMMA GotoInv ==
  ASSUME Inv, NEW p \in Proc, panic = "none", current = p, NEW to \in Places,
         at' = [at EXCEPT ![p] = to], ArgsOk(p, to, args[p]),
         mem' \in Memory, start' \in 0 .. UserEnd, v' \in Seq(Seq(Byte)),
         str' \in Seq(Byte), out' \in Seq(Byte),
         args' = args, current' = current, calls' = calls, panic' = panic,
         InCall(mem', p, to, args[p], v', str', out', start')
  PROVE  Inv'
<1>1. TypeOK /\ Waiting /\ \A q \in Proc : ArgsOk(q, at[q], args[q])
  BY DEF Inv
<1>2. at \in [Proc -> Places] /\ args \in [Proc -> [ptr : Va, len : Nat]] /\ calls \in 0 .. MaxCalls
  BY <1>1 DEF TypeOK, Places
<1>3. at'[p] = to /\ \A q \in Proc : q # p => at'[q] = at[q]
  BY <1>2
<1>4. TypeOK'
  <2>1. at' \in [Proc -> Places]
    BY <1>2
  <2> QED BY <1>2, <2>1 DEF TypeOK, Places, Memory, UserEnd
<1>5. Waiting'
  BY <1>1, <1>3 DEF Waiting
<1>6. ASSUME NEW q \in Proc
      PROVE  ArgsOk(q, at'[q], args'[q])
  BY <1>1, <1>3
<1>7. InCall(mem', current', at'[current'], args'[current'], v', str', out', start')
  BY <1>3
<1>8. PanicsOnlyOnSplitCharacter'
  BY DEF PanicsOnlyOnSplitCharacter
<1> QED BY <1>4, <1>5, <1>6, <1>7, <1>8 DEF Inv

(* What the invariant says of the process that runs in a call.             *)
LEMMA CallFacts ==
  ASSUME Inv, NEW p \in Proc, NEW w, Running(p, w)
  PROVE  /\ panic = "none" /\ current = p /\ at[p] = w
         /\ mem \in Memory /\ start \in 0 .. UserEnd /\ start \in Nat /\ v \in Seq(Seq(Byte))
         /\ str \in Seq(Byte) /\ out \in Seq(Byte) /\ at \in [Proc -> Places]
         /\ args[p].ptr \in Nat /\ args[p].len \in Nat
         /\ ArgsOk(p, w, args[p]) /\ InCall(mem, p, w, args[p], v, str, out, start)
<1>1. panic = "none" /\ current = p /\ at[p] = w
  BY DEF Running
<1>2. TypeOK
  BY DEF Inv
<1>3. /\ mem \in Memory /\ start \in 0 .. UserEnd /\ v \in Seq(Seq(Byte))
      /\ str \in Seq(Byte) /\ out \in Seq(Byte) /\ at \in [Proc -> Places]
  BY <1>2 DEF TypeOK, Memory, UserEnd, Places
<1>4. args[p].ptr \in Nat /\ args[p].len \in Nat
  <2>1. args \in [Proc -> [ptr : Va, len : Nat]]
    BY <1>2 DEF TypeOK
  <2>2. args[p].ptr \in Va /\ args[p].len \in Nat
    BY <2>1
  <2> QED BY <2>2 DEF Va
<1>5. start \in Nat
  BY <1>3
<1>6. ArgsOk(p, w, args[p]) /\ InCall(mem, p, w, args[p], v, str, out, start)
  BY <1>1 DEF Inv
<1> QED BY <1>1, <1>3, <1>4, <1>5, <1>6

(* A buffer that fits ends below the pages of the kernel.                  *)
LEMMA BufferBelow ==
  ASSUME NEW p \in Proc, NEW ptr \in Nat, NEW len \in Nat, NEW end \in Nat, end = ptr + len,
         Fits(p, ptr, 1), Fits(p, ptr, len)
  PROVE  end =< UserEnd
<1>1. CASE len = 0
  BY <1>1, FirstByte
<1>2. CASE len # 0
  <2>1. PICK last \in Nat : last = end - 1
    BY <1>2
  <2>2. last \in ptr .. ptr + len - 1
    BY <1>2, <2>1
  <2>3. MappedAt(p, last)
    BY <2>2, FitsMapped
  <2>4. UserEnd \in Nat /\ last < UserEnd
    BY <2>3, MappedBelow
  <2> QED BY <2>1, <2>4
<1> QED BY <1>1, <1>2

(* One round of translated_byte_buffer.                                    *)
LEMMA TranslateStep ==
  ASSUME Inv, NEW p \in Proc, translated_byte_buffer(p)
  PROVE  Inv'
<1> DEFINE a == args[p]
           ptr == a.ptr
           len == a.len
           end == ptr + len
           X == Seq(Byte)
<1>1. Running(p, "translate")
  BY DEF translated_byte_buffer
<1>2. /\ panic = "none" /\ current = p /\ at[p] = "translate"
      /\ mem \in Memory /\ start \in 0 .. UserEnd /\ start \in Nat /\ v \in Seq(X)
      /\ str \in X /\ out \in X /\ at \in [Proc -> Places]
      /\ ptr \in Nat /\ len \in Nat
      /\ ArgsOk(p, "translate", a) /\ InCall(mem, p, "translate", a, v, str, out, start)
  BY <1>1, CallFacts
<1>3. end \in Nat /\ Fits(p, ptr, 1) /\ Fits(p, ptr, len)
  BY <1>2 DEF ArgsOk
<1>4. /\ out = <<>> /\ start \in ptr .. end /\ WriteInv(mem, p, a, v, out, start)
  BY <1>2 DEF InCall, Translating
<1>5. mem' = mem /\ current' = current /\ args' = args /\ str' = str /\ out' = out /\ calls' = calls
  BY DEF translated_byte_buffer
<1>6. CASE start >= end
  <2>1. goto(p, "print") /\ start' = start /\ v' = v /\ panic' = panic
    <3>1. ~(start < end)
      BY <1>2, <1>3, <1>6
    <3> QED BY <3>1, Zenon DEF translated_byte_buffer
  <2>2. start = end
    BY <1>3, <1>4, <1>6
  <2>3. at' = [at EXCEPT ![p] = "print"] /\ "print" \in Places
    BY <2>1 DEF goto, Places
  <2>4. ArgsOk(p, "print", a)
    BY <1>3 DEF ArgsOk
  <2>5. InCall(mem', p, "print", a, v', str', out', start')
    BY <1>4, <1>5, <2>1, <2>2 DEF InCall
  <2> HIDE DEF end
  <2> QED BY <1>2, <1>5, <2>1, <2>3, <2>4, <2>5, GotoInv
<1>7. CASE start < end
  <2> DEFINE e == end_of_slice(end)
             s == slice(p, e)
  <2>1. end =< UserEnd
    BY <1>2, <1>3, BufferBelow
  <2>2. MappedAt(p, start)
    <3>1. start \in ptr .. ptr + len - 1
      BY <1>2, <1>4, <1>7
    <3> QED BY <1>2, <1>3, <3>1, FitsMapped
  <2>3. Translates(p, VirtAddr_from(start))
    <3>1. VirtAddr_from(start) = start
      BY <1>2, Unmasked
    <3> QED BY <2>2, <3>1 DEF Translates, floor, MappedAt
  <2>4. v' = Append(v, s) /\ start' = e /\ panic' = panic /\ at' = at
    BY <1>2, <1>3, <1>7, <2>3 DEF translated_byte_buffer
  <2> HIDE DEF end
  <2>5. /\ e \in Nat /\ start < e /\ e =< end /\ (e = end \/ e % PAGE_SIZE = 0)
        /\ s = BytesOf(mem, p, start, e - start)
    BY <1>2, <1>3, <1>7, <2>1, <2>2, OneSlice
  <2> HIDE DEF e, s
  <2>6. s \in X
    <3>1. PICK n \in Nat : n = e - start
      BY <1>2, <2>5
    <3>2. ASSUME NEW va \in start .. start + n - 1
          PROVE  MappedAt(p, va)
      <4>1. va \in ptr .. ptr + len - 1
        <5>1. e =< ptr + len /\ ptr =< start /\ start + n = e
          BY <1>2, <1>4, <2>5, <3>1 DEF end
        <5>2. va \in Int /\ start =< va /\ va =< start + n - 1
          BY <1>2
        <5>3. ptr \in Nat /\ len \in Nat /\ e \in Nat /\ start \in Nat
          BY <1>2, <2>5
        <5> HIDE DEF ptr, len
        <5> QED BY <5>1, <5>2, <5>3
      <4> QED BY <1>2, <1>3, <4>1, FitsMapped
    <3>3. BytesOf(mem, p, start, n) \in Seq(Byte)
      BY <1>2, <3>2, BytesByte
    <3> QED BY <2>5, <3>1, <3>3
  <2>7. Boundary(e, ptr, end)
    BY <1>2, <1>3, <1>4, <2>5 DEF Boundary
  <2>8. /\ ValidUtf8(BytesOf(mem, p, ptr, len))
        /\ Len(out) =< len /\ out = BytesOf(mem, p, ptr, Len(out))
        /\ Sliced(mem, p, v, ptr + Len(out), start, ptr, end)
    BY <1>4 DEF WriteInv, end
  <2>9. Sliced(mem, p, v', ptr + Len(out), e, ptr, end)
    <3>1. PICK b : b = ptr + Len(out)
      OBVIOUS
    <3>2. start =< e
      BY <1>2, <2>5
    <3>3. Sliced(mem, p, v, b, start, ptr, end)
      BY <2>8, <3>1
    <3> HIDE DEF X
    <3>4. Sliced(mem, p, Append(v, s), b, e, ptr, end)
      BY <1>2, <1>3, <2>5, <2>6, <2>7, <3>2, <3>3, SlicedAppend
    <3> QED BY <2>4, <3>1, <3>4
  <2>10. v' \in Seq(X)
    BY <1>2, <2>4, <2>6, AppendProperties
  <2>11. start' \in 0 .. UserEnd /\ start' \in ptr .. end
    BY <1>2, <1>3, <1>4, <2>1, <2>4, <2>5, MappedBelow, <2>2
  <2>12. Translating(mem, p, a, v', out, e)
    BY <1>4, <2>4, <2>8, <2>9, <2>11 DEF Translating, WriteInv, end
  <2>13. InCall(mem', p, "translate", a, v', str', out', start')
    BY <1>5, <2>4, <2>12 DEF InCall
  <2>14. at' = [at EXCEPT ![p] = "translate"] /\ "translate" \in Places
    BY <1>2, <2>4 DEF Places
  <2> QED BY <1>2, <1>5, <2>4, <2>10, <2>11, <2>13, <2>14, GotoInv
<1> QED BY <1>2, <1>3, <1>6, <1>7


(* A slice is printed, or a character across the end of a page stops the   *)
(* kernel.                                                                 *)
LEMMA PrintStep ==
  ASSUME Inv, NEW p \in Proc, print_slice(p)
  PROVE  Inv'
<1> DEFINE a == args[p]
           ptr == a.ptr
           len == a.len
           end == ptr + len
           X == Seq(Byte)
           b == ptr + Len(out)
<1>1. Running(p, "print")
  BY DEF print_slice
<1>2. /\ panic = "none" /\ current = p /\ at[p] = "print"
      /\ mem \in Memory /\ start \in 0 .. UserEnd /\ start \in Nat /\ v \in Seq(X)
      /\ str \in X /\ out \in X /\ at \in [Proc -> Places]
      /\ ptr \in Nat /\ len \in Nat
      /\ ArgsOk(p, "print", a) /\ InCall(mem, p, "print", a, v, str, out, start)
  BY <1>1, CallFacts
<1>3. end \in Nat /\ Fits(p, ptr, 1) /\ Fits(p, ptr, len)
  BY <1>2, SMTT(30) DEF ArgsOk
<1>4. /\ v # <<>> /\ v' = Tail(v)
      /\ mem' = mem /\ current' = current /\ at' = at /\ args' = args /\ start' = start
      /\ str' = str /\ calls' = calls
  BY DEF print_slice
<1>5. /\ ValidUtf8(BytesOf(mem, p, ptr, len))
      /\ Len(out) =< len /\ out = BytesOf(mem, p, ptr, Len(out))
      /\ Sliced(mem, p, v, b, end, ptr, end)
  BY <1>2 DEF InCall, WriteInv
<1>6. Len(out) \in Nat /\ b \in Nat /\ ptr =< b
  BY <1>2
<1>7. PICK m : /\ Boundary(b, ptr, end) /\ Boundary(m, ptr, end) /\ b =< m
               /\ Head(v) = BytesOf(mem, p, b, m - b)
               /\ Sliced(mem, p, Tail(v), m, end, ptr, end)
  <2> HIDE DEF X, b, end
  <2> QED BY <1>2, <1>3, <1>4, <1>5, <1>6, SlicedTail
<1>8. m \in Nat /\ m =< end /\ ptr =< m
  BY <1>2, <1>3, <1>7 DEF Boundary
<1>9. v' \in Seq(X)
  BY <1>2, <1>4, HeadTailProperties
<1>10. CASE ValidUtf8(Head(v))
  <2>1. out' = out \o Head(v) /\ panic' = panic
    BY <1>10 DEF print_slice
  <2>2. PICK n \in Nat : n = m - ptr
    BY <1>2, <1>8
  <2>3. out' = BytesOf(mem, p, ptr, n)
    <3>1. b - ptr = Len(out)
      BY <1>2, <1>6
    <3> HIDE DEF b
    <3>2. BytesOf(mem, p, ptr, b - ptr) \o BytesOf(mem, p, b, m - b) = BytesOf(mem, p, ptr, m - ptr)
      <4>1. ptr \in Nat /\ b \in Nat /\ m \in Nat /\ ptr =< b /\ b =< m
        BY <1>2, <1>6, <1>7, <1>8
      <4>2. CutAt(mem, p, ptr, b, m)
        BY <4>1, BytesConcat
      <4> QED BY <4>2, Zenon DEF CutAt
    <3> QED BY <1>5, <1>7, <2>1, <2>2, <3>1, <3>2
  <2>4. Len(out') = n
    <3>1. IsRange(BytesOf(mem, p, ptr, n), mem, p, ptr, n)
      BY <1>2, BytesRange
    <3> QED BY <2>3, <3>1 DEF IsRange
  <2>5. n =< len /\ ptr + n = m
    BY <1>2, <1>8, <2>2
  <2>6. out' \in X
    <3>1. ASSUME NEW va \in ptr .. ptr + n - 1
          PROVE  MappedAt(p, va)
      <4>1. va \in ptr .. ptr + len - 1
        <5>1. ptr \in Nat /\ len \in Nat
          BY <1>2
        <5> HIDE DEF ptr, len
        <5> QED BY <5>1, <2>5
      <4> QED BY <1>2, <1>3, <4>1, FitsMapped
    <3> QED BY <1>2, <2>3, <3>1, BytesByte
  <2>7. WriteInv(mem, p, a, v', out', end)
    BY <1>4, <1>5, <1>7, <2>3, <2>4, <2>5 DEF WriteInv
  <2>8. InCall(mem', p, "print", a, v', str', out', start')
    BY <1>4, <2>7 DEF InCall
  <2>9. at' = [at EXCEPT ![p] = "print"] /\ "print" \in Places
    BY <1>2, <1>4 DEF Places
  <2> HIDE DEF end
  <2> QED BY <1>2, <1>4, <1>9, <2>1, <2>6, <2>8, <2>9, GotoInv
<1>11. CASE ~ValidUtf8(Head(v))
  <2>1. panic' = "Utf8Error" /\ out' = out
    BY <1>11 DEF print_slice
  <2>2. PICK va \in ptr + 1 .. end - 1 : va % PAGE_SIZE = 0 /\ Peek(mem, p, va) = Cont
    <3>1. ~ValidUtf8(BytesOf(mem, p, b, m - b))
      BY <1>7, <1>11
    <3>2. PICK hi \in Nat : hi = end
      BY <1>3
    <3> HIDE DEF b
    <3>3. \E va \in ptr + 1 .. hi - 1 : va % PAGE_SIZE = 0 /\ Peek(mem, p, va) = Cont
      BY <1>2, <1>5, <1>6, <1>7, <1>8, <3>1, <3>2, CutCharacter
    <3> QED BY <3>2, <3>3
  <2>3. SplitCharacter(current)'
    <3>1. Load(p, va)' = Cont
      BY <1>4, <2>2 DEF Load, Peek
    <3> QED BY <1>2, <1>4, <2>2, <3>1, SMTT(30) DEF SplitCharacter
  <2>4. TypeOK'
    <3>1. TypeOK
      BY DEF Inv
    <3> QED BY <1>4, <1>9, <2>1, <3>1 DEF TypeOK
  <2>5. Waiting' /\ \A q \in Proc : ArgsOk(q, at'[q], args'[q])
    <3>1. Waiting /\ \A q \in Proc : ArgsOk(q, at[q], args[q])
      BY DEF Inv
    <3> QED BY <1>4, <3>1 DEF Waiting
  <2>6. PanicsOnlyOnSplitCharacter'
    BY <2>1, <2>3 DEF PanicsOnlyOnSplitCharacter
  <2> QED BY <2>1, <2>4, <2>5, <2>6 DEF Inv
<1> QED BY <1>10, <1>11

(* The return of sys_write and sys_exec.                                   *)
LEMMA DoneStep ==
  ASSUME Inv, NEW p \in Proc, write_done(p) \/ exec_done(p)
  PROVE  Inv'
<1>1. PICK w : Running(p, w)
  BY DEF write_done, exec_done
<1>2. /\ panic = "none" /\ current = p /\ mem \in Memory /\ start \in 0 .. UserEnd
      /\ v \in Seq(Seq(Byte)) /\ str \in Seq(Byte) /\ out \in Seq(Byte)
  BY <1>1, CallFacts
<1>3. /\ at' = [at EXCEPT ![p] = "user"] /\ mem' = mem /\ current' = current /\ args' = args
      /\ start' = start /\ v' = v /\ str' = str /\ out' = out /\ calls' = calls /\ panic' = panic
  BY DEF write_done, exec_done, goto
<1>4. ArgsOk(p, "user", args[p]) /\ InCall(mem', p, "user", args[p], v', str', out', start')
  BY DEF ArgsOk, InCall
<1>5. "user" \in Places
  BY DEF Places
<1> QED BY <1>2, <1>3, <1>4, <1>5, GotoInv

(* One byte more.                                                          *)
LEMMA Spelling ==
  ASSUME NEW s \in Seq(Byte), NEW b \in Seq(Byte), NEW c \in Byte, c # Zero, Spells(s, b)
  PROVE  push(s, c) \in Seq(Byte) /\ Spells(push(s, c), Append(b, c))
<1> DEFINE e == IF c = Ascii THEN <<Ascii>> ELSE <<Lead, Cont>>
           t == push(s, c)
           d == Append(b, c)
<1>1. Len(s) \in Nat /\ Len(b) \in Nat /\ DOMAIN s = 1 .. Len(s) /\ DOMAIN b = 1 .. Len(b)
  OBVIOUS
<1>2. e \in Seq(Byte) /\ Len(e) \in Nat \ {0} /\ (c # Ascii => e[1] = Lead)
  <2>1. Ascii \in Byte /\ Lead \in Byte /\ Cont \in Byte
    BY DEF Byte
  <2>2. <<Ascii>> \in Seq(Byte) /\ Len(<<Ascii>>) = 1
    BY <2>1
  <2>3. <<Lead, Cont>> \in Seq(Byte) /\ Len(<<Lead, Cont>>) = 2 /\ <<Lead, Cont>>[1] = Lead
    BY <2>1
  <2> QED BY <2>2, <2>3
<1>3. /\ d \in Seq(Byte) /\ Len(d) = Len(b) + 1 /\ d[Len(b) + 1] = c
      /\ DOMAIN d = 1 .. Len(b) + 1 /\ \A i \in 1 .. Len(b) : d[i] = b[i]
  BY AppendProperties
<1>4. /\ t \in Seq(Byte) /\ Len(t) = Len(s) + Len(e) /\ DOMAIN t = 1 .. Len(s) + Len(e)
      /\ \A i \in 1 .. Len(s) : t[i] = s[i]
      /\ t[Len(s) + 1] = e[1]
  <2>1. t = s \o e
    BY DEF push
  <2> HIDE DEF e, t
  <2> QED BY <1>1, <1>2, <2>1, ConcatProperties
<1>5. CASE IsAscii(d)
  <2>1. IsAscii(b) /\ c = Ascii
    BY <1>1, <1>3, <1>5 DEF IsAscii
  <2>2. s = b
    BY <2>1 DEF Spells
  <2>3. s \o <<Ascii>> = Append(s, Ascii)
    OBVIOUS
  <2>4. t = d
    BY <2>1, <2>2, <2>3 DEF push
  <2> QED BY <1>4, <1>5, <2>4 DEF Spells
<1>6. CASE ~IsAscii(d)
  <2>1. CASE ~IsAscii(b)
    <3>1. Len(b) < Len(s) /\ ~IsAscii(s)
      BY <2>1 DEF Spells
    <3>2. PICK i \in 1 .. Len(s) : s[i] # Ascii
      BY <1>1, <3>1 DEF IsAscii
    <3>3. i \in DOMAIN t /\ t[i] # Ascii
      BY <1>1, <1>2, <1>4, <3>2
    <3>4. Len(d) < Len(t)
      <4> HIDE DEF t, d, e
      <4> QED BY <1>1, <1>2, <1>3, <1>4, <3>1
    <3> QED BY <1>4, <1>6, <3>3, <3>4 DEF Spells, IsAscii
  <2>2. CASE IsAscii(b)
    <3>1. s = b /\ c # Ascii
      <4>1. c # Ascii
        <5> SUFFICES ASSUME c = Ascii PROVE IsAscii(d)
          BY <1>6
        <5>1. \A i \in 1 .. Len(b) + 1 : i \in 1 .. Len(b) \/ i = Len(b) + 1
          BY <1>1
        <5> QED BY <1>1, <1>3, <2>2, <5>1 DEF IsAscii
      <4> QED BY <2>2, <4>1 DEF Spells
    <3>2. e = <<Lead, Cont>> /\ Len(e) = 2 /\ e[1] = Lead /\ Lead # Ascii
      BY <3>1 DEF Lead, Ascii
    <3> HIDE DEF e, t, d
    <3>3. Len(s) + 1 \in DOMAIN t /\ t[Len(s) + 1] # Ascii
      BY <1>1, <1>4, <3>2
    <3>4. Len(d) < Len(t)
      BY <1>1, <1>3, <1>4, <3>1, <3>2
    <3>5. Spells(t, d)
      BY <1>6, <3>3, <3>4 DEF Spells, IsAscii
    <3> QED BY <1>4, <3>5 DEF t, d
  <2> QED BY <2>1, <2>2
<1> QED BY <1>5, <1>6

(* One round of translated_str.                                            *)
LEMMA StrStep ==
  ASSUME Inv, NEW p \in Proc, translated_str(p)
  PROVE  Inv'
<1> DEFINE a == args[p]
           ptr == a.ptr
<1>1. Running(p, "str")
  BY DEF translated_str
<1>2. /\ panic = "none" /\ current = p /\ at[p] = "str"
      /\ mem \in Memory /\ start \in 0 .. UserEnd /\ start \in Nat /\ v \in Seq(Seq(Byte))
      /\ str \in Seq(Byte) /\ out \in Seq(Byte) /\ at \in [Proc -> Places]
      /\ ptr \in Nat /\ a.len \in Nat
      /\ ArgsOk(p, "str", a) /\ InCall(mem, p, "str", a, v, str, out, start)
  BY <1>1, CallFacts
<1>3. NameInv(mem, p, a, str, start)
  BY <1>2 DEF InCall
<1>4. PICK n \in Nat, z \in Nat : NameRead(mem, p, a, str, start, n, z)
  BY <1>3 DEF NameInv
<1>5. /\ start = ptr + n /\ \A i \in 1 .. n : Peek(mem, p, ptr + i - 1) # Zero
      /\ Spells(str, BytesOf(mem, p, ptr, n))
      /\ n =< z /\ Peek(mem, p, ptr + z) = Zero /\ Fits(p, ptr, z + 1)
  BY <1>4 DEF NameRead
<1>7. /\ mem' = mem /\ current' = current /\ args' = args /\ v' = v /\ out' = out /\ calls' = calls
  BY DEF translated_str
<1>8. \A va \in ptr .. ptr + z : MappedAt(p, va)
  <2>1. PICK l \in Nat : l = z + 1
    OBVIOUS
  <2>2. \A va \in ptr .. ptr + z : va \in ptr .. ptr + l - 1
    BY <1>2, <2>1
  <2> QED BY <1>2, <1>5, <2>1, <2>2, FitsMapped
<1>9. start \in ptr .. ptr + z
  BY <1>2, <1>5
<1>10. VirtAddr_from(start) = start
  BY <1>2, Unmasked
<1>11. Translates(p, VirtAddr_from(start))
  BY <1>8, <1>9, <1>10 DEF Translates, floor, MappedAt
<1>12. next_byte(p) = Peek(mem, p, start)
  BY <1>10, Zenon DEF next_byte, translate_va, Peek, floor, page_offset
<1>13. ArgsOk(p, "str", a) /\ ArgsOk(p, "named", a)
  BY <1>2 DEF ArgsOk
<1>14. panic' = panic
  BY <1>11 DEF translated_str
<1> HIDE DEF a
<1>15. CASE Peek(mem, p, start) = Zero
  <2>1. goto(p, "named") /\ str' = str /\ start' = start
    BY <1>11, <1>12, <1>15 DEF translated_str
  <2>2. at' = [at EXCEPT ![p] = "named"] /\ "named" \in Places
    BY <2>1 DEF goto, Places
  <2>3. InCall(mem', p, "named", a, v', str', out', start')
    BY <1>3, <1>7, <1>15, <2>1 DEF InCall
  <2> QED BY <1>2, <1>7, <1>13, <1>14, <2>1, <2>2, <2>3, GotoInv DEF a
<1>16. CASE Peek(mem, p, start) # Zero
  <2> DEFINE c == Peek(mem, p, start)
             b == BytesOf(mem, p, ptr, n)
             t == push(str, c)
  <2>1. str' = t /\ start' = start + 1 /\ at' = at
    BY <1>11, <1>12, <1>16 DEF translated_str, next_va
  <2>2. n # z
    BY <1>5, <1>16
  <2>3. n + 1 \in Nat /\ n + 1 =< z /\ start + 1 \in ptr .. ptr + z /\ start + 1 \in Nat
    BY <1>2, <1>5, <2>2, SMTT(40)
  <2>4. c \in Byte /\ c # Zero
    BY <1>2, <1>8, <1>9, <1>16, PeekByte
  <2>5. b \in Seq(Byte) /\ IsRange(b, mem, p, ptr, n)
    <3>1. \A va \in ptr .. ptr + n - 1 : va \in ptr .. ptr + z
      BY <1>2, <1>5
    <3> QED BY <1>2, <1>8, <3>1, BytesByte, BytesRange
  <2> HIDE DEF c, b
  <2>6. start + 1 \in 0 .. UserEnd
    <3>1. PICK k \in Nat : k = start + 1
      BY <2>3
    <3>2. MappedAt(p, k)
      BY <1>8, <2>3, <3>1
    <3>3. UserEnd \in Nat /\ k < UserEnd
      BY <3>2, MappedBelow
    <3> QED BY <3>1, <3>3
  <2>7. Append(b, c) = BytesOf(mem, p, ptr, n + 1)
    <3> DEFINE d == Append(b, c)
    <3>1. Len(b) = n /\ \A i \in 1 .. n : b[i] = Peek(mem, p, ptr + i - 1)
      BY <2>5 DEF IsRange
    <3>2. d \in Seq(Byte) /\ Len(d) = n + 1 /\ d[n + 1] = c /\ \A i \in 1 .. n : d[i] = b[i]
      BY <2>4, <2>5, <3>1, AppendProperties
    <3> HIDE DEF d
    <3>3. ASSUME NEW i \in 1 .. n + 1
          PROVE  d[i] = Peek(mem, p, ptr + i - 1)
      <4>1. CASE i \in 1 .. n
        BY <3>1, <3>2, <4>1
      <4>2. CASE i = n + 1
        <5>1. ptr + i - 1 = start
          BY <1>2, <1>5, <4>2
        <5> QED BY <3>2, <4>2, <5>1 DEF c
      <4> QED BY <4>1, <4>2
    <3>4. d = [i \in 1 .. n + 1 |-> d[i]]
      BY <3>2
    <3> QED BY <3>3, <3>4 DEF BytesOf, d
  <2>8. t \in Seq(Byte) /\ Spells(t, BytesOf(mem, p, ptr, n + 1))
    <3>1. Spells(str, b)
      BY <1>5 DEF b
    <3> QED BY <1>2, <2>4, <2>5, <2>7, <3>1, Spelling
  <2> HIDE DEF t
  <2>9. start + 1 = ptr + (n + 1)
    <3>1. ptr \in Nat /\ n \in Nat /\ start = ptr + n
      BY <1>2, <1>5
    <3> HIDE DEF ptr
    <3> QED BY <3>1
  <2>10. NameInv(mem, p, a, t, start + 1)
    <3>1. ASSUME NEW i \in 1 .. n + 1
          PROVE  Peek(mem, p, ptr + i - 1) # Zero
      <4>1. CASE i \in 1 .. n
        BY <1>5, <4>1
      <4>2. CASE i = n + 1
        <5>1. ptr + i - 1 = start
          BY <1>2, <1>5, <4>2
        <5> QED BY <2>4, <5>1 DEF c
      <4> QED BY <4>1, <4>2
    <3>2. NameRead(mem, p, a, t, start + 1, n + 1, z)
      BY <1>5, <2>3, <2>8, <2>9, <3>1 DEF NameRead
    <3> QED BY <2>3, <3>2 DEF NameInv
  <2>11. InCall(mem', p, "str", a, v', str', out', start')
    BY <1>7, <2>1, <2>10 DEF InCall
  <2>12. at' = [at EXCEPT ![p] = "str"] /\ "str" \in Places
    BY <1>2, <2>1 DEF Places
  <2> QED BY <1>2, <1>7, <1>13, <1>14, <2>1, <2>6, <2>8, <2>11, <2>12, GotoInv DEF a
<1> QED BY <1>15, <1>16


-------------------------------------------------------------------------------
(* The answers of sys_read and sys_waitpid.                                *)

(* An aligned i32 does not cross the end of a page.                        *)
LEMMA Aligned ==
  ASSUME NEW a \in Nat, a % I32_SIZE = 0
  PROVE  (a % PAGE_SIZE) + I32_SIZE =< PAGE_SIZE
<1> DEFINE S == I32_SIZE
           x == a \div S
           y == PAGE_SIZE \div S
           q == a \div PAGE_SIZE
           o == a % PAGE_SIZE
<1>1. S \in Nat \ {0} /\ PAGE_SIZE \in Nat \ {0} /\ PAGE_SIZE % S = 0
  BY WidthAssumption
<1>2. x \in Nat /\ a = x * S
  BY <1>1
<1>3. y \in Nat /\ PAGE_SIZE = y * S
  BY <1>1
<1>4. q \in Nat /\ o \in 0 .. PAGE_SIZE - 1 /\ a = q * PAGE_SIZE + o
  BY Division
<1> HIDE DEF S, x, y, q, o
<1>5. PICK z \in Int : z = x - q * y
  BY <1>2, <1>3, <1>4
<1>6. o = z * S
  <2>1. q * PAGE_SIZE = (q * y) * S
    BY <1>1, <1>3, <1>4
  <2>2. (x - q * y) * S = x * S - (q * y) * S
    BY <1>1, <1>2, <1>3, <1>4
  <2>3. x * S \in Int /\ (q * y) * S \in Int
    BY <1>1, <1>2, <1>3, <1>4
  <2> QED BY <1>2, <1>4, <1>5, <2>1, <2>2, <2>3
<1>7. z < y
  <2> SUFFICES ASSUME y =< z PROVE FALSE
    BY <1>3
  <2>1. y * S =< z * S
    BY <1>1, <1>3
  <2> QED BY <1>1, <1>3, <1>4, <1>6, <2>1
<1>8. z + 1 =< y
  BY <1>3, <1>7
<1>9. (z + 1) * S =< y * S
  BY <1>1, <1>3, <1>8
<1>10. (z + 1) * S = z * S + S
  BY <1>1
<1>11. o + S =< PAGE_SIZE
  BY <1>1, <1>3, <1>4, <1>6, <1>9, <1>10
<1> QED BY <1>11 DEF o, S

\* mm2 is mm with b in the n bytes from offset off of frame f.
Stored(mm, mm2, f, off, n, b) ==
  \A g \in Frame : \A o \in 0 .. PAGE_SIZE - 1 :
     mm2[g][o] = IF g = f /\ o \in off .. off + n - 1 THEN b ELSE mm[g][o]

(* The store goes to the frame and the offset of the pointer.              *)
LEMMA StoreBytes ==
  ASSUME mem \in Memory, NEW p \in Proc, args[p].ptr \in Nat, Fits(p, args[p].ptr, 1),
         NEW n, NEW b \in Byte, store(p, n, b)
  PROVE  /\ mem' \in Memory
         /\ Stored(mem, mem', PageTable[p][args[p].ptr \div PAGE_SIZE], args[p].ptr % PAGE_SIZE, n, b)
<1> DEFINE ptr == args[p].ptr
           f == PageTable[p][ptr \div PAGE_SIZE]
           off == ptr % PAGE_SIZE
           page == [o \in 0 .. PAGE_SIZE - 1 |-> IF o \in off .. off + n - 1 THEN b ELSE mem[f][o]]
<1>1. MappedAt(p, ptr) /\ ptr \in 0 .. UserEnd
  BY FirstByte
<1>2. f \in Frame
  BY <1>1, TableAssumption DEF MappedAt
<1>3. VirtAddr_from(ptr) = ptr
  <2>1. UserEnd \in Nat
    BY <1>1, MappedBelow
  <2>2. ptr =< UserEnd
    BY <1>1, <2>1
  <2> QED BY <2>2, Unmasked
<1>4. mem' = [mem EXCEPT ![f] = page]
  <2>1. translate_va(p, VirtAddr_from(ptr)) = [ppn |-> f, offset |-> off]
    BY <1>3, Zenon DEF translate_va, floor, page_offset
  <2>2. PICK pa : pa = translate_va(p, VirtAddr_from(ptr))
    OBVIOUS
  <2>3. pa.ppn = f /\ pa.offset = off
    BY <2>1, <2>2
  <2>4. mem' = [mem EXCEPT ![pa.ppn] =
                 [o \in 0 .. PAGE_SIZE - 1 |->
                    IF o \in pa.offset .. pa.offset + n - 1 THEN b ELSE @[o]]]
    BY <2>2, Zenon DEF store
  <2> HIDE DEF f, off
  <2> QED BY <2>3, <2>4
<1> HIDE DEF f, off
<1>5. page \in [0 .. PAGE_SIZE - 1 -> Byte]
  BY <1>2 DEF Memory
<1>6. mem' \in Memory
  <2> HIDE DEF page
  <2> QED BY <1>4, <1>5 DEF Memory
<1>7. mem'[f] = page /\ \A g \in Frame : g # f => mem'[g] = mem[g]
  BY <1>2, <1>4 DEF Memory
<1>8. Stored(mem, mem', f, off, n, b)
  BY <1>7 DEF Stored
<1> QED BY <1>6, <1>8 DEF f, off

(* The end of sys_read or sys_waitpid.                                     *)
LEMMA StoreStep ==
  ASSUME Inv, NEW p \in Proc, NEW b \in Answer, read_store(p, b) \/ waitpid_store(p, b)
  PROVE  Inv'
<1>1. \E n : \E w \in {"getchar", "collect"} : Running(p, w) /\ store(p, n, b)
  BY DEF read_store, waitpid_store
<1>2. PICK n : \E w \in {"getchar", "collect"} : Running(p, w) /\ store(p, n, b)
  BY <1>1
<1>3. PICK w \in {"getchar", "collect"} : Running(p, w) /\ store(p, n, b)
  BY <1>2
<1>4. /\ panic = "none" /\ current = p /\ mem \in Memory /\ start \in 0 .. UserEnd
      /\ v \in Seq(Seq(Byte)) /\ str \in Seq(Byte) /\ out \in Seq(Byte)
      /\ args[p].ptr \in Nat /\ ArgsOk(p, w, args[p])
  BY <1>3, CallFacts
<1>5. /\ at' = [at EXCEPT ![p] = "user"] /\ current' = current /\ args' = args
      /\ start' = start /\ v' = v /\ str' = str /\ out' = out /\ calls' = calls /\ panic' = panic
  BY <1>3 DEF store, goto
<1>6. mem' \in Memory
  <2>1. Fits(p, args[p].ptr, 1) /\ b \in Byte
    BY <1>3, <1>4 DEF ArgsOk, Answer, Byte
  <2> QED BY <1>3, <1>4, <2>1, StoreBytes
<1>7. ArgsOk(p, "user", args[p]) /\ InCall(mem', p, "user", args[p], v', str', out', start')
  BY DEF ArgsOk, InCall
<1>8. "user" \in Places
  BY DEF Places
<1> QED BY <1>4, <1>5, <1>6, <1>7, <1>8, GotoInv

(* Another process gets the processor, while this one is in user mode or   *)
(* waits for a character.                                                  *)
LEMMA SwitchStep ==
  ASSUME Inv, NEW p \in Proc, read_suspend(p) \/ preempt(p)
  PROVE  Inv'
<1>1. /\ panic = "none" /\ current = p /\ at[p] \in {"user", "getchar"} /\ current' \in Proc
      /\ mem' = mem /\ at' = at /\ args' = args /\ start' = start /\ v' = v /\ str' = str
      /\ out' = out /\ calls' = calls /\ panic' = panic
  BY DEF read_suspend, preempt, Running
<1>2. TypeOK /\ Waiting /\ \A q \in Proc : ArgsOk(q, at[q], args[q])
  BY DEF Inv
<1>3. TypeOK'
  BY <1>1, <1>2 DEF TypeOK
<1>4. \A q \in Proc : at[q] \in {"user", "getchar"}
  BY <1>1, <1>2 DEF Waiting
<1>5. Waiting'
  BY <1>1, <1>4 DEF Waiting
<1>6. \A q \in Proc : ArgsOk(q, at'[q], args'[q])
  BY <1>1, <1>2
<1>7. InCall(mem', current', at'[current'], args'[current'], v', str', out', start')
  <2>1. at'[current'] \in {"user", "getchar"}
    BY <1>1, <1>4
  <2> QED BY <2>1 DEF InCall
<1>8. PanicsOnlyOnSplitCharacter'
  BY <1>1 DEF PanicsOnlyOnSplitCharacter
<1> QED BY <1>3, <1>5, <1>6, <1>7, <1>8 DEF Inv

(* A stuttering step, the only one after a panic.                          *)
LEMMA StutterStep ==
  ASSUME Inv, UNCHANGED vars
  PROVE  Inv'
<1>1. /\ mem' = mem /\ at' = at /\ args' = args /\ start' = start /\ v' = v /\ str' = str
      /\ out' = out /\ calls' = calls /\ panic' = panic /\ current' = current
  BY DEF vars
<1>2. TypeOK'
  BY <1>1 DEF Inv, TypeOK
<1>3. Waiting'
  BY <1>1 DEF Inv, Waiting
<1>4. PanicsOnlyOnSplitCharacter'
  BY <1>1 DEF Inv, PanicsOnlyOnSplitCharacter, SplitCharacter, Load
<1>5. /\ \A q \in Proc : ArgsOk(q, at'[q], args'[q])
      /\ panic' = "none" => InCall(mem', current', at'[current'], args'[current'], v', str', out', start')
  BY <1>1 DEF Inv
<1> QED BY <1>2, <1>3, <1>4, <1>5 DEF Inv


-------------------------------------------------------------------------------
(* The theorems.                                                           *)

(* Nobody is in a system call at first.                                    *)
LEMMA InitInv ==
  ASSUME Init
  PROVE  Inv
<1>1. PAGE_SIZE \in Nat \ {0} /\ VA_SIZE \in Nat /\ 2 * PAGE_SIZE =< VA_SIZE /\ MaxCalls \in Nat
  BY WidthAssumption
<1>2. /\ mem = [f \in Frame |-> [o \in 0 .. PAGE_SIZE - 1 |-> Zero]]
      /\ current \in Proc /\ at = [p \in Proc |-> "user"]
      /\ args = [p \in Proc |-> [ptr |-> 0, len |-> 0]]
      /\ start = 0 /\ v = <<>> /\ str = <<>> /\ out = <<>> /\ calls = 0 /\ panic = "none"
  BY DEF Init
<1>3. TypeOK
  <2>1. mem \in [Frame -> [0 .. PAGE_SIZE - 1 -> Byte]]
    BY <1>2 DEF Byte
  <2>2. at \in [Proc -> {"user", "translate", "print", "getchar", "collect", "str", "named"}]
    BY <1>2
  <2>3. args \in [Proc -> [ptr : Va, len : Nat]]
    <3>1. 0 \in Va
      BY <1>1 DEF Va
    <3> QED BY <1>2, <3>1
  <2>4. start \in 0 .. VA_SIZE - 2 * PAGE_SIZE /\ calls \in 0 .. MaxCalls
    BY <1>1, <1>2
  <2>5. v \in Seq(Seq(Byte)) /\ str \in Seq(Byte) /\ out \in Seq(Byte)
    BY <1>2
  <2> QED BY <1>2, <2>1, <2>2, <2>3, <2>4, <2>5 DEF TypeOK
<1>4. \A q \in Proc : at[q] = "user"
  BY <1>2
<1>5. Waiting /\ \A q \in Proc : ArgsOk(q, at[q], args[q])
  BY <1>4 DEF Waiting, ArgsOk
<1>6. InCall(mem, current, at[current], args[current], v, str, out, start)
  BY <1>2, <1>4 DEF InCall
<1>7. PanicsOnlyOnSplitCharacter
  BY <1>2 DEF PanicsOnlyOnSplitCharacter
<1> QED BY <1>3, <1>5, <1>6, <1>7 DEF Inv

(* Every step keeps the invariant.                                         *)
LEMMA NextInv ==
  ASSUME Inv, [Next]_vars
  PROVE  Inv'
<1>1. ASSUME NEW p \in Proc, NEW ptr \in Va, NEW text \in Text,
             sys_write(p, ptr, text) \/ sys_exec(p, ptr, text)
      PROVE  Inv'
  BY <1>1, WriteEnters, ExecEnters
<1>2. ASSUME NEW p \in Proc, NEW ptr \in Va, sys_waitpid(p, ptr) \/ sys_read(p, ptr)
      PROVE  Inv'
  BY <1>2, ReadEnters
<1>3. ASSUME NEW p \in Proc, kernel(p)
      PROVE  Inv'
  BY <1>3, TranslateStep, PrintStep, DoneStep, StrStep DEF kernel
<1>4. ASSUME NEW p \in Proc, read_suspend(p) \/ preempt(p)
      PROVE  Inv'
  BY <1>4, SwitchStep
<1>5. ASSUME NEW p \in Proc, NEW b \in Answer, read_store(p, b) \/ waitpid_store(p, b)
      PROVE  Inv'
  BY <1>5, StoreStep
<1>6. CASE shutdown \/ UNCHANGED vars
  BY <1>6, StutterStep DEF shutdown
<1> QED BY <1>1, <1>2, <1>3, <1>4, <1>5, <1>6, Zenon DEF Next

(* In every behaviour of page_table.rs and fs.rs the slices, the string    *)
(* and the arguments agree with the memory of the caller.                  *)
THEOREM BufferInvariant == Spec => []Inv
<1>1. Init => Inv
  BY InitInv
<1>2. Inv /\ [Next]_vars => Inv'
  BY NextInv
<1> QED BY <1>1, <1>2, PTL DEF Spec

(* translated_byte_buffer hands sys_write each byte of the buffer once and *)
(* in order, wherever the buffer lies in its pages.                        *)
THEOREM SlicesAreTheWholeBuffer == Spec => []SlicesAreTheBuffer
<1>1. Inv => SlicesAreTheBuffer
  <2> SUFFICES ASSUME Inv, NEW p \in Proc, Running(p, "print")
               PROVE  out \o FlattenSeq(v) = Buffer(p)
    BY DEF SlicesAreTheBuffer, Inv
  <2> DEFINE ptr == args[p].ptr
             len == args[p].len
             X == Seq(Byte)
  <2>1. /\ v \in Seq(X) /\ out \in Seq(Byte) /\ ptr \in Nat /\ len \in Nat
        /\ InCall(mem, p, "print", args[p], v, str, out, start)
    BY CallFacts
  <2>2. /\ Len(out) =< len /\ out = BytesOf(mem, p, ptr, Len(out))
        /\ Sliced(mem, p, v, ptr + Len(out), ptr + len, ptr, ptr + len)
    BY <2>1 DEF InCall, WriteInv
  <2>3. Len(out) \in Nat
    BY <2>1
  <2> HIDE DEF ptr, len, X
  <2>4. PICK b \in Nat : b = ptr + Len(out)
    BY <2>1, <2>3
  <2>5. PICK e \in Nat : e = ptr + len
    BY <2>1
  <2>6. Sliced(mem, p, v, b, e, ptr, e)
    BY <2>2, <2>4, <2>5
  <2>7. b =< e /\ FlattenSeq(v) = BytesOf(mem, p, b, e - b)
    BY <2>1, <2>6, SlicedFlatten
  <2>8. ptr =< b /\ b - ptr = Len(out) /\ e - ptr = len
    BY <2>1, <2>3, <2>4, <2>5
  <2>9. BytesOf(mem, p, ptr, b - ptr) \o BytesOf(mem, p, b, e - b) = BytesOf(mem, p, ptr, e - ptr)
    <3>1. ptr \in Nat /\ b \in Nat /\ e \in Nat /\ ptr =< b /\ b =< e
      BY <2>1, <2>7, <2>8
    <3>2. CutAt(mem, p, ptr, b, e)
      BY <3>1, BytesConcat
    <3> QED BY <3>2, Zenon DEF CutAt
  <2>10. Buffer(p) = BytesOf(mem, p, ptr, len)
    BY Zenon DEF Buffer, Bytes, Load, BytesOf, Peek, ptr, len
  <2> QED BY <2>2, <2>7, <2>8, <2>9, <2>10, Zenon
<1> QED BY <1>1, BufferInvariant, PTL

(* sys_write panics only at a character of the string that lies across the *)
(* end of a page, and translate(vpn).unwrap() never fails.                 *)
THEOREM OnlySplitCharactersPanic == Spec => []PanicsOnlyOnSplitCharacter
<1>1. Inv => PanicsOnlyOnSplitCharacter
  BY DEF Inv
<1> QED BY <1>1, BufferInvariant, PTL

(* translated_str returns the caller's string up to its zero.              *)
THEOREM NameIsTheWholeString == Spec => []NameIsTheString
<1>1. Inv => NameIsTheString
  <2> SUFFICES ASSUME Inv, NEW p \in Proc, Running(p, "named")
               PROVE  \E n \in 0 .. VA_SIZE :
                        LET name == Bytes(p, args[p].ptr, n) IN
                        /\ Fits(p, args[p].ptr, n + 1)
                        /\ Load(p, args[p].ptr + n) = Zero
                        /\ \A i \in 1 .. n : name[i] # Zero
                        /\ IF IsAscii(name) THEN str = name ELSE str # name /\ ~IsAscii(str)
    BY DEF NameIsTheString
  <2>1. /\ InCall(mem, p, "named", args[p], v, str, out, start)
        /\ args[p].ptr \in Nat /\ start \in 0 .. UserEnd
    BY CallFacts
  <2>2. NameInv(mem, p, args[p], str, start) /\ Peek(mem, p, start) = Zero
    BY <2>1 DEF InCall
  <2>3. PICK n \in Nat, z \in Nat : NameRead(mem, p, args[p], str, start, n, z)
    BY <2>2 DEF NameInv
  <2> DEFINE name == Bytes(p, args[p].ptr, n)
  <2>4. name = BytesOf(mem, p, args[p].ptr, n) /\ \A i \in 1 .. n : name[i] # Zero
    BY <2>3 DEF Bytes, BytesOf, Load, Peek, NameRead
  <2>5. Fits(p, args[p].ptr, n + 1)
    <3>1. 1 .. n + 1 \subseteq 1 .. z + 1
      BY <2>3 DEF NameRead
    <3> QED BY <2>3, <3>1 DEF NameRead, Fits
  <2>6. Load(p, args[p].ptr + n) = Zero
    BY <2>2, <2>3 DEF Load, Peek, NameRead
  <2>7. IF IsAscii(name) THEN str = name ELSE str # name /\ ~IsAscii(str)
    <3>1. Spells(str, name)
      BY <2>3, <2>4 DEF NameRead
    <3> HIDE DEF name
    <3> QED BY <3>1 DEF Spells
  <2>8. n \in 0 .. VA_SIZE
    <3>1. start = args[p].ptr + n
      BY <2>3 DEF NameRead
    <3> QED BY <2>1, <3>1, WidthAssumption DEF UserEnd
  <2> HIDE DEF name
  <2> QED BY <2>4, <2>5, <2>6, <2>7, <2>8 DEF name
<1> QED BY <1>1, BufferInvariant, PTL

(* Only the two stores end a call that answers into memory.                *)
LEMMA OnlyStores ==
  ASSUME Inv, Next, NEW p \in Proc, at[p] \in {"getchar", "collect"}, at'[p] = "user"
  PROVE  \E b \in Answer : read_store(p, b) \/ waitpid_store(p, b)
<1>1. at \in [Proc -> Places]
  BY DEF Inv, TypeOK, Places
<1>2. ASSUME NEW q \in Proc, NEW w, Running(q, "user"), at' = [at EXCEPT ![q] = w]
      PROVE  FALSE
  <2>1. at[q] = "user"
    BY <1>2 DEF Running
  <2> QED BY <1>1, <1>2, <2>1
<1>3. ASSUME NEW q \in Proc, NEW w, w \notin {"getchar", "collect"}, Running(q, w),
             (\E w2 : at' = [at EXCEPT ![q] = w2]) \/ at' = at
      PROVE  FALSE
  <2>1. at[q] = w
    BY <1>3 DEF Running
  <2> QED BY <1>1, <1>3, <2>1
<1>4. at' # at
  BY <1>1
<1>5. ASSUME NEW q \in Proc, NEW b \in Answer, read_store(q, b) \/ waitpid_store(q, b)
      PROVE  q = p
  <2>1. at' = [at EXCEPT ![q] = "user"]
    BY <1>5 DEF read_store, waitpid_store, store, goto
  <2> QED BY <1>1, <2>1
<1>6. ASSUME NEW q \in Proc, NEW ptr \in Va, NEW text \in Text,
             sys_write(q, ptr, text) \/ sys_exec(q, ptr, text)
      PROVE  FALSE
  BY <1>2, <1>6 DEF sys_write, sys_exec, enter, goto
<1>7. ASSUME NEW q \in Proc, NEW ptr \in Va, sys_waitpid(q, ptr) \/ sys_read(q, ptr)
      PROVE  FALSE
  BY <1>2, <1>7 DEF sys_waitpid, sys_read, enter, goto
<1>8. ASSUME NEW q \in Proc, kernel(q)
      PROVE  FALSE
  <2>1. CASE translated_byte_buffer(q)
    BY <1>3, <2>1, Zenon DEF translated_byte_buffer, goto
  <2>2. CASE print_slice(q)
    BY <1>3, <2>2, Zenon DEF print_slice
  <2>3. CASE write_done(q)
    BY <1>3, <2>3, Zenon DEF write_done, goto
  <2>4. CASE translated_str(q)
    BY <1>3, <2>4, Zenon DEF translated_str, goto
  <2>5. CASE exec_done(q)
    BY <1>3, <2>5, Zenon DEF exec_done, goto
  <2> QED BY <1>8, <2>1, <2>2, <2>3, <2>4, <2>5 DEF kernel
<1>9. ASSUME NEW q \in Proc, read_suspend(q) \/ preempt(q)
      PROVE  FALSE
  BY <1>4, <1>9 DEF read_suspend, preempt
<1>10. ~shutdown
  BY <1>4 DEF shutdown, vars
<1> QED BY <1>5, <1>6, <1>7, <1>8, <1>9, <1>10, Zenon DEF Next

(* The answer of a call is stored in the object its caller passed, in all  *)
(* of it and nowhere else.                                                 *)
LEMMA AnswerStored ==
  ASSUME Inv, NEW p \in Proc, NEW b \in Answer, read_store(p, b) \/ waitpid_store(p, b)
  PROVE  /\ p = current
         /\ \A q \in Proc : \A va \in Mapped(q) :
              Load(q, va)' # Load(q, va) => q = p /\ va \in Object(p)
         /\ \A va \in Object(p) : Load(p, va)' = b
<1> DEFINE ptr == args[p].ptr
           len == args[p].len
           f == PageTable[p][ptr \div PAGE_SIZE]
           off == ptr % PAGE_SIZE
<1>1. \/ Running(p, "getchar") /\ store(p, 1, b)
      \/ Running(p, "collect") /\ store(p, I32_SIZE, b)
  BY DEF read_store, waitpid_store
<1>2. PICK w : (w = "getchar" \/ w = "collect") /\ Running(p, w)
  BY <1>1
<1>3. /\ current = p /\ at[p] = w /\ mem \in Memory /\ ptr \in Nat /\ len \in Nat
      /\ ArgsOk(p, w, args[p])
  BY <1>2, CallFacts
<1>4. /\ Fits(p, ptr, 1) /\ Fits(p, ptr, len)
      /\ w = "getchar" => len = 1
      /\ w = "collect" => len = I32_SIZE /\ ptr % I32_SIZE = 0
  BY <1>2, <1>3 DEF ArgsOk
<1>5. store(p, len, b)
  BY <1>1, <1>3, <1>4 DEF Running
<1>6. PAGE_SIZE \in Nat \ {0} /\ off \in 0 .. PAGE_SIZE - 1 /\ f \in Frame /\ MappedAt(p, ptr)
  <2>1. MappedAt(p, ptr)
    BY <1>3, <1>4, FirstByte
  <2> QED BY <1>3, <2>1, WidthAssumption, Division, TableAssumption DEF MappedAt
<1>7. off + len =< PAGE_SIZE
  <2>1. CASE w = "getchar"
    BY <1>4, <1>6, <2>1
  <2>2. CASE w = "collect"
    BY <1>3, <1>4, <2>2, Aligned
  <2> QED BY <1>2, <2>1, <2>2
<1>8. Stored(mem, mem', f, off, len, b)
  <2>1. b \in Byte
    BY DEF Answer, Byte
  <2> QED BY <1>3, <1>4, <1>5, <2>1, StoreBytes
<1>9. \A q, va : Load(q, va)' = Peek(mem', q, va) /\ Load(q, va) = Peek(mem, q, va)
  BY DEF Load, Peek
<1>10. Object(p) = ptr .. ptr + len - 1
  BY DEF Object
<1> HIDE DEF ptr, len, f, off
<1>11. ASSUME NEW k \in Nat, k < len
       PROVE  /\ (ptr + k) \div PAGE_SIZE = ptr \div PAGE_SIZE
              /\ (ptr + k) % PAGE_SIZE = off + k
              /\ ptr + k \in Nat /\ off + k \in 0 .. PAGE_SIZE - 1
  <2>1. off + k < PAGE_SIZE
    BY <1>3, <1>6, <1>7, <1>11
  <2>2. (ptr % PAGE_SIZE) + k < PAGE_SIZE
    BY <2>1 DEF off
  <2>3. /\ (ptr + k) \div PAGE_SIZE = ptr \div PAGE_SIZE
        /\ (ptr + k) % PAGE_SIZE = off + k
    BY <1>3, <2>2, WithinPage DEF off
  <2> QED BY <1>3, <1>6, <2>1, <2>3
<1>12. ASSUME NEW q \in Proc, NEW va \in Mapped(q), Load(q, va)' # Load(q, va)
       PROVE  q = p /\ va \in Object(p)
  <2> DEFINE g == PageTable[q][va \div PAGE_SIZE]
             o == va % PAGE_SIZE
  <2>1. va \in Nat /\ MappedAt(q, va)
    BY DEF Mapped, Va, MappedAt
  <2>2. g \in Frame /\ o \in 0 .. PAGE_SIZE - 1
    BY <2>1, Division, TableAssumption DEF MappedAt
  <2>3. mem'[g][o] # mem[g][o]
    BY <1>9, <1>12 DEF Peek
  <2>4. g = f /\ o \in off .. off + len - 1
    <3> HIDE DEF g, o
    <3> QED BY <1>8, <2>2, <2>3 DEF Stored
  <2>5. PICK k \in Nat : k = o - off
    BY <1>6, <2>2, <2>4
  <2>6. k < len /\ off + k = o
    BY <1>3, <1>6, <2>2, <2>4, <2>5
  <2>7. PICK x \in Nat : x = ptr + k
    BY <1>3
  <2>8. x \div PAGE_SIZE = ptr \div PAGE_SIZE /\ x % PAGE_SIZE = o
    BY <1>11, <2>6, <2>7
  <2>9. MappedAt(p, x)
    BY <1>6, <2>8 DEF MappedAt
  <2>10. PageTable[p][x \div PAGE_SIZE] = PageTable[q][va \div PAGE_SIZE] /\ x % PAGE_SIZE = va % PAGE_SIZE
    BY <2>4, <2>8 DEF f
  <2>11. p = q /\ x = va
    BY <2>1, <2>9, <2>10, OneByte
  <2> QED BY <1>3, <1>10, <2>6, <2>7, <2>11
<1>13. ASSUME NEW va \in Object(p)
       PROVE  Load(p, va)' = b
  <2>1. PICK k \in Nat : k = va - ptr
    BY <1>3, <1>10
  <2>2. k < len /\ va = ptr + k
    BY <1>3, <1>10, <2>1
  <2>3. /\ va \div PAGE_SIZE = ptr \div PAGE_SIZE /\ va % PAGE_SIZE = off + k
        /\ off + k \in 0 .. PAGE_SIZE - 1
    BY <1>11, <2>2
  <2>4. Peek(mem', p, va) = mem'[f][off + k]
    BY <2>3 DEF Peek, f
  <2>5. off + k \in off .. off + len - 1
    BY <1>3, <1>6, <2>2
  <2> QED BY <1>6, <1>8, <1>9, <2>3, <2>4, <2>5 DEF Stored
<1> QED BY <1>3, <1>12, <1>13

(* A character of sys_read and an exit code of sys_waitpid reach the       *)
(* process that asked, however often it was suspended meanwhile.           *)
THEOREM AnswersLandInTheCaller == Spec => AnswerLandsInTheCaller
<1> DEFINE Lands ==
      \A p \in Proc :
        at[p] \in {"getchar", "collect"} /\ at'[p] = "user" =>
          /\ p = current
          /\ \A q \in Proc : \A va \in Mapped(q) :
               Load(q, va)' # Load(q, va) => q = p /\ va \in Object(p)
          /\ \E b \in Answer : \A va \in Object(p) : Load(p, va)' = b
<1>1. Inv /\ [Next]_vars => [Lands]_vars
  <2> SUFFICES ASSUME Inv, Next, NEW p \in Proc, at[p] \in {"getchar", "collect"}, at'[p] = "user"
               PROVE  /\ p = current
                      /\ \A q \in Proc : \A va \in Mapped(q) :
                           Load(q, va)' # Load(q, va) => q = p /\ va \in Object(p)
                      /\ \E b \in Answer : \A va \in Object(p) : Load(p, va)' = b
    BY Zenon
  <2>1. PICK b \in Answer : read_store(p, b) \/ waitpid_store(p, b)
    BY OnlyStores
  <2> QED BY <2>1, AnswerStored, Zenon
<1> HIDE DEF Lands
<1>2. Spec => [][Lands]_vars
  BY <1>1, BufferInvariant, PTL DEF Spec
<1> QED BY <1>2 DEF AnswerLandsInTheCaller, Lands


-------------------------------------------------------------------------------
(* Progress.                                                               *)

\* A round of a loop ends it or moves `start' on, within the buffer and
\* within the pages of the program.
RoundAdvances ==
  \A p \in Proc :
    /\ Running(p, "translate") =>
         at'[p] = "print" \/ (start < start' /\ start' =< args[p].ptr + args[p].len)
    /\ Running(p, "str") => at'[p] = "named" \/ (start < start' /\ start' =< UserEnd)

(* Nothing else happens while a process is in one of the loops.            *)
LEMMA OnlyRounds ==
  ASSUME Next, NEW p \in Proc, NEW w \in {"translate", "str"}, Running(p, w)
  PROVE  IF w = "translate" THEN translated_byte_buffer(p) ELSE translated_str(p)
<1>1. ASSUME NEW q, NEW u, Running(q, u)
      PROVE  q = p /\ u = w
  BY <1>1 DEF Running
<1>2. ASSUME NEW q \in Proc, NEW ptr \in Va, NEW text \in Text,
             sys_write(q, ptr, text) \/ sys_exec(q, ptr, text)
      PROVE  FALSE
  <2>1. Running(q, "user")
    BY <1>2 DEF sys_write, sys_exec, enter
  <2> QED BY <1>1, <2>1
<1>3. ASSUME NEW q \in Proc, NEW ptr \in Va, sys_waitpid(q, ptr) \/ sys_read(q, ptr)
      PROVE  FALSE
  <2>1. Running(q, "user")
    BY <1>3 DEF sys_waitpid, sys_read, enter
  <2> QED BY <1>1, <2>1
<1>4. ASSUME NEW q \in Proc, NEW b \in Answer, read_store(q, b) \/ waitpid_store(q, b)
      PROVE  FALSE
  <2>1. Running(q, "getchar") \/ Running(q, "collect")
    BY <1>4 DEF read_store, waitpid_store
  <2> QED BY <1>1, <2>1
<1>5. ASSUME NEW q \in Proc, read_suspend(q) \/ preempt(q)
      PROVE  FALSE
  <2>1. Running(q, "getchar") \/ Running(q, "user")
    BY <1>5 DEF read_suspend, preempt
  <2> QED BY <1>1, <2>1
<1>6. ASSUME NEW q \in Proc, kernel(q)
      PROVE  IF w = "translate" THEN translated_byte_buffer(p) ELSE translated_str(p)
  <2>1. ~print_slice(q) /\ ~write_done(q) /\ ~exec_done(q)
    <3>1. ~Running(q, "print") /\ ~Running(q, "named")
      BY <1>1
    <3> QED BY <3>1 DEF print_slice, write_done, exec_done
  <2>2. CASE translated_byte_buffer(q)
    <3>1. Running(q, "translate")
      BY <2>2 DEF translated_byte_buffer
    <3> QED BY <1>1, <2>2, <3>1
  <2>3. CASE translated_str(q)
    <3>1. Running(q, "str")
      BY <2>3 DEF translated_str
    <3> QED BY <1>1, <2>3, <3>1
  <2> QED BY <1>6, <2>1, <2>2, <2>3 DEF kernel
<1>7. ~shutdown
  BY DEF shutdown, Running
<1> QED BY <1>2, <1>3, <1>4, <1>5, <1>6, <1>7, Zenon DEF Next

(* The measure behind TranslationEnds: no round of translated_byte_buffer  *)
(* or translated_str leaves `start' where it was, and it never passes the  *)
(* end, so a call makes a bounded number of rounds.                        *)
THEOREM RoundsAdvance == Spec => [][RoundAdvances]_vars
<1>1. ASSUME Inv, Next, NEW p \in Proc, Running(p, "translate")
      PROVE  at'[p] = "print" \/ (start < start' /\ start' =< args[p].ptr + args[p].len)
  <2> DEFINE ptr == args[p].ptr
             len == args[p].len
  <2>1. translated_byte_buffer(p)
    BY <1>1, OnlyRounds
  <2>2. /\ at \in [Proc -> Places] /\ start \in Nat /\ start \in 0 .. UserEnd
        /\ ptr \in Nat /\ len \in Nat /\ ArgsOk(p, "translate", args[p])
        /\ InCall(mem, p, "translate", args[p], v, str, out, start)
    BY <1>1, CallFacts
  <2>3. Fits(p, ptr, 1) /\ Fits(p, ptr, len)
    BY <2>2 DEF ArgsOk
  <2>4. start \in ptr .. ptr + len
    BY <2>2 DEF InCall, Translating
  <2> HIDE DEF ptr, len
  <2>5. PICK end \in Nat : end = ptr + len
    BY <2>2
  <2>6. CASE start >= end
    <3>1. ~(start < end)
      BY <2>2, <2>6
    <3>2. ~(start < ptr + len)
      BY <2>5, <3>1
    <3>3. at' = [at EXCEPT ![p] = "print"]
      BY <2>1, <3>2, Zenon DEF translated_byte_buffer, goto, ptr, len
    <3> QED BY <2>2, <3>3
  <2>7. CASE start < end
    <3>1. end =< UserEnd
      BY <2>2, <2>3, <2>5, BufferBelow
    <3>2. start \in ptr .. ptr + len - 1
      BY <2>2, <2>4, <2>5, <2>7
    <3>3. MappedAt(p, start)
      BY <2>2, <2>3, <3>2, FitsMapped
    <3>4. VirtAddr_from(start) = start
      BY <2>2, Unmasked
    <3>5. Translates(p, VirtAddr_from(start))
      BY <3>3, <3>4 DEF Translates, floor, MappedAt
    <3>6. ~(start >= ptr + len)
      BY <2>2, <2>5, <2>7
    <3>7. start' = end_of_slice(ptr + len)
      BY <2>1, <3>5, <3>6, Zenon DEF translated_byte_buffer, ptr, len
    <3>8. start' = end_of_slice(end)
      BY <2>5, <3>7
    <3>9. start < end_of_slice(end) /\ end_of_slice(end) =< end
      BY <2>2, <2>7, <3>1, <3>3, OneSlice
    <3> QED BY <2>5, <3>8, <3>9 DEF ptr, len
  <2> QED BY <2>2, <2>6, <2>7
<1>2. ASSUME Inv, Next, NEW p \in Proc, Running(p, "str")
      PROVE  at'[p] = "named" \/ (start < start' /\ start' =< UserEnd)
  <2>1. translated_str(p)
    BY <1>2, OnlyRounds
  <2>2. Inv'
    BY <1>2, <2>1, StrStep
  <2>3. start' \in 0 .. UserEnd /\ panic' \in {"none", "Utf8Error"}
    BY <2>2 DEF Inv, TypeOK, UserEnd, PanicsOnlyOnSplitCharacter
  <2>4. at \in [Proc -> Places] /\ start \in Nat
    BY <1>2, CallFacts
  <2>5. CASE ~Translates(p, VirtAddr_from(start))
    <3>1. panic' = "unwrap on None"
      BY <2>1, <2>5 DEF translated_str
    <3> QED BY <2>3, <3>1
  <2>6. CASE Translates(p, VirtAddr_from(start))
    <3>1. at' = [at EXCEPT ![p] = "named"] \/ start' = start + 1
      BY <2>1, <2>6 DEF translated_str, goto, next_va
    <3>2. CASE at' = [at EXCEPT ![p] = "named"]
      BY <2>4, <3>2
    <3>3. CASE start' = start + 1
      BY <2>3, <2>4, <3>3
    <3> QED BY <3>1, <3>2, <3>3
  <2> QED BY <2>5, <2>6
<1>3. Inv /\ [Next]_vars => [RoundAdvances]_vars
  BY <1>1, <1>2 DEF RoundAdvances
<1> QED BY <1>3, BufferInvariant, PTL DEF Spec
===============================================================================
