---------------------------- MODULE SgListProofs ----------------------------
(***************************************************************************)
(* Proofs about SgList for every scatter list, every page size, every limit *)
(* on the length of an entry and every size of the descriptor RAM.          *)
(*                                                                          *)
(* Lists are compared through the words they cover.  What a list covers is  *)
(* determined by the sums of its lengths, which are defined by recursion:    *)
(* the lemmas about them are proved by induction on a set of numbers, from   *)
(* the fact that < is well-founded on Nat.                                   *)
(***************************************************************************)
EXTENDS SgList, TLAPS, WellFoundedInduction

USE SizesAssumption

-----------------------------------------------------------------------------
(* Positions and remainders.                                                *)

\* A position behind a that is at most n further is the w-th behind a.
LEMMA Behind ==
    ASSUME NEW a \in Nat, NEW n \in Nat, NEW v \in Nat, a < v, v <= a + n
    PROVE  v - a \in 1..n /\ v = a + (v - a)
OBVIOUS

LEMMA Within ==
    ASSUME NEW a \in Nat, NEW n \in Nat, NEW t \in Nat, NEW w \in 1..n, a + n <= t
    PROVE  a + w \in 1..t /\ a + w \in Nat /\ a < a + w /\ a + w <= a + n
OBVIOUS


LEMMA DivMod ==
    ASSUME NEW a \in Nat, NEW n \in Nat \ {0}
    PROVE  a \div n \in Nat /\ a % n \in 0..n-1 /\ a = n * (a \div n) + (a % n)
OBVIOUS

LEMMA ModIs ==
    ASSUME NEW n \in Nat \ {0}, NEW q \in Nat, NEW r \in 0..n-1
    PROVE  (n * q + r) % n = r
<1>1. PICK a \in Nat : a = n * q + r
  OBVIOUS
<1>2. PICK p \in Nat, s \in 0..n-1 : a = n * p + s /\ a % n = s
  BY DivMod
<1>3. n * (p - q) = r - s
  BY <1>1, <1>2
<1>4. ~ (p - q >= 1)
  <2>1. SUFFICES ASSUME p - q >= 1 PROVE FALSE
    OBVIOUS
  <2>2. n * (p - q) >= n
    BY <2>1
  <2>3. QED
    BY <1>3, <2>2
<1>5. ~ (q - p >= 1)
  <2>1. SUFFICES ASSUME q - p >= 1 PROVE FALSE
    OBVIOUS
  <2>2. n * (q - p) >= n
    BY <2>1
  <2>3. n * (q - p) = s - r
    BY <1>3
  <2>4. QED
    BY <2>2, <2>3
<1>6. p = q
  BY <1>4, <1>5
<1>7. QED
  BY <1>1, <1>2, <1>6

LEMMA Multiple ==
    ASSUME NEW a \in Nat, NEW n \in Nat \ {0}, a % n = 0
    PROVE  \E q \in Nat : a = n * q
<1>1. a \div n \in Nat /\ n * (a \div n) \in Nat
  BY DivMod
<1>2. a = n * (a \div n)
  BY <1>1, DivMod
<1>3. QED
  BY <1>1, <1>2

LEMMA ModSmall == ASSUME NEW n \in Nat, NEW a \in 0..n-1 PROVE a % n = a
<1>1. n \in Nat \ {0}
  OBVIOUS
<1>2. (n * 0 + a) % n = a
  BY <1>1, ModIs
<1>3. QED
  BY <1>2

\* A remainder that grows up to the divisor, where it becomes 0.
LEMMA ModStep ==
    ASSUME NEW n \in Nat \ {0}, NEW a \in Nat, NEW x \in Nat
    PROVE  /\ (a % n) + x < n => (a + x) % n = (a % n) + x
           /\ (a % n) + x = n => (a + x) % n = 0
<1>1. PICK q \in Nat, r \in 0..n-1 : a = n * q + r /\ a % n = r
  BY DivMod
<1>2. ASSUME r + x < n PROVE (a + x) % n = r + x
  <2>1. r + x \in 0..n-1
    BY <1>1, <1>2
  <2>2. (n * q + (r + x)) % n = r + x
    BY <2>1, ModIs
  <2>3. n * q \in Nat
    OBVIOUS
  <2>4. a + x = n * q + (r + x)
    BY <1>1, <2>3
  <2>5. QED
    BY <2>2, <2>4
<1>3. ASSUME r + x = n PROVE (a + x) % n = 0
  <2>1. (n * (q + 1) + 0) % n = 0
    BY ModIs
  <2>2. n * q \in Nat /\ n * (q + 1) = n * q + n
    OBVIOUS
  <2>3. a + x = n * (q + 1) + 0
    BY <1>1, <1>3, <2>2
  <2>4. QED
    BY <2>1, <2>3
<1>4. QED
  BY <1>1, <1>2, <1>3

\* Behind a multiple, remainders start again.
LEMMA ModSum ==
    ASSUME NEW n \in Nat \ {0}, NEW a \in Nat, NEW x \in Nat, a % n = 0
    PROVE  (a + x) % n = x % n
<1>1. PICK q \in Nat : a = n * q
  BY Multiple
<1>2. PICK m \in Nat, r \in 0..n-1 : x = n * m + r /\ x % n = r
  BY DivMod
<1>3. (n * (q + m) + r) % n = r
  BY ModIs
<1>4. n * (q + m) = n * q + n * m /\ n * q \in Nat /\ n * m \in Nat
  OBVIOUS
<1>5. a + x = n * (q + m) + r
  BY <1>1, <1>2, <1>4
<1>6. QED
  BY <1>2, <1>3, <1>5

\* The next multiple behind x is not behind a multiple that is larger than x.
LEMMA ModBound ==
    ASSUME NEW n \in Nat \ {0}, NEW x \in Nat, NEW b \in Nat, b % n = 0, x < b
    PROVE  x + (n - (x % n)) <= b
<1>1. PICK q \in Nat : b = n * q
  BY Multiple
<1>2. PICK m \in Nat, r \in 0..n-1 : x = n * m + r /\ x % n = r
  BY DivMod
<1>3. n * m \in Nat /\ n * q \in Nat
  OBVIOUS
<1>4. n * m < n * q
  BY <1>1, <1>2, <1>3
<1>5. m + 1 <= q
  <2>1. SUFFICES ASSUME q <= m PROVE FALSE
    OBVIOUS
  <2>2. n * q <= n * m
    BY <2>1
  <2>3. QED
    BY <1>3, <1>4, <2>2
<1>6. n * (m + 1) <= n * q /\ n * (m + 1) = n * m + n
  BY <1>5
<1>7. QED
  BY <1>1, <1>2, <1>3, <1>6

-----------------------------------------------------------------------------
(* Induction.                                                               *)

LEMMA LeastElement ==
    ASSUME NEW T \in SUBSET Nat, T # {}
    PROVE  \E x \in T : \A y \in T : x <= y
<1>1. PICK x \in T : \A y \in T : ~ (<<y, x>> \in OpToRel(<, Nat))
  BY WFMin, NatLessThanWellFounded
<1>2. ASSUME NEW y \in T PROVE x <= y
  <2>1. x \in Nat /\ y \in Nat
    BY <1>2
  <2>2. y < x => <<y, x>> \in OpToRel(<, Nat)
    BY <2>1 DEF OpToRel
  <2>3. ~ (y < x)
    BY <1>1, <1>2, <2>2
  <2>4. QED
    BY <2>1, <2>3
<1>3. QED
  BY <1>2

LEMMA InductionOnSet ==
    ASSUME NEW T \in SUBSET Nat, 0 \in T, \A n \in T : n + 1 \in T
    PROVE  T = Nat
<1>1. SUFFICES ASSUME Nat \ T # {} PROVE FALSE
  OBVIOUS
<1>2. PICK x \in Nat \ T : \A y \in Nat \ T : x <= y
  BY <1>1, LeastElement
<1>3. x # 0 /\ x - 1 \in Nat
  BY <1>2
<1>4. x - 1 \in T
  BY <1>2, <1>3
<1>5. (x - 1) + 1 \in T
  BY <1>4
<1>6. QED
  BY <1>2, <1>5

-----------------------------------------------------------------------------
(* The lengths of a list.                                                   *)

\* The entries of a list have a pointer and a length.
LEMMA EntryType ==
    ASSUME NEW l \in Seq(Entries)
    PROVE  /\ Len(l) \in Nat /\ DOMAIN l = 1..Len(l)
           /\ \A k \in 1..Len(l) : l[k] \in Entries /\ l[k].pointer \in Nat /\ l[k].length \in Nat
<1>1. Len(l) \in Nat /\ DOMAIN l = 1..Len(l)
  OBVIOUS
<1>2. ASSUME NEW k \in 1..Len(l)
      PROVE  l[k] \in Entries /\ l[k].pointer \in Nat /\ l[k].length \in Nat
  <2>1. l[k] \in Entries
    BY <1>2
  <2>2. QED
    BY <2>1 DEF Entries
<1>3. QED
  BY <1>1, <1>2

\* Functions that sum the first n lengths of a list, one by one.
SumsUpTo(l, n) ==
    {g \in [0..n -> Nat] : g[0] = 0 /\ \A k \in 1..n : g[k] = g[k - 1] + l[k].length}

LEMMA SumsExist ==
    ASSUME NEW l \in Seq(Entries)
    PROVE  SumsUpTo(l, Len(l)) # {}
<1> DEFINE T == {n \in Nat : n <= Len(l) => SumsUpTo(l, n) # {}}
<1>1. 0 \in T
  <2>1. [k \in 0..0 |-> 0] \in SumsUpTo(l, 0)
    BY DEF SumsUpTo
  <2>2. QED
    BY <2>1
<1>2. ASSUME NEW n \in T PROVE n + 1 \in T
  <2>1. n \in Nat
    BY <1>2
  <2>2. SUFFICES ASSUME n + 1 <= Len(l) PROVE SumsUpTo(l, n + 1) # {}
    BY <2>1
  <2>3. Len(l) \in Nat
    OBVIOUS
  <2>4. SumsUpTo(l, n) # {}
    BY <1>2, <2>1, <2>2, <2>3
  <2>5. PICK g \in [0..n -> Nat] : g[0] = 0 /\ \A k \in 1..n : g[k] = g[k - 1] + l[k].length
    BY <2>4 DEF SumsUpTo
  <2>6. PICK h : h = [k \in 0..n+1 |-> IF k = n + 1 THEN g[n] + l[n + 1].length ELSE g[k]]
    OBVIOUS
  <2>7. l[n + 1].length \in Nat /\ g[n] \in Nat
    BY <2>1, <2>2, <2>3, <2>5, EntryType
  <2>8. h \in [0..n+1 -> Nat]
    BY <2>1, <2>5, <2>6, <2>7
  <2>9. h[0] = 0
    BY <2>1, <2>5, <2>6
  <2>10. ASSUME NEW k \in 1..n+1 PROVE h[k] = h[k - 1] + l[k].length
    <3>1. CASE k = n + 1
      BY <2>1, <2>6, <3>1
    <3>2. CASE k # n + 1
      <4>1. k \in 1..n /\ k - 1 \in 0..n /\ k - 1 # n + 1
        BY <2>1, <2>10, <3>2
      <4>2. QED
        BY <2>1, <2>5, <2>6, <4>1, <3>2
    <3>3. QED
      BY <3>1, <3>2
  <2>11. h \in SumsUpTo(l, n + 1)
    BY <2>8, <2>9, <2>10 DEF SumsUpTo
  <2>12. QED
    BY <2>11
<1>3. T = Nat
  <2>1. T \in SUBSET Nat
    OBVIOUS
  <2>2. HIDE DEF T
  <2>3. QED
    BY <1>1, <1>2, <2>1, InductionOnSet
<1>4. QED
  BY <1>3

\* Sums() is what its recursive definition says.
LEMMA SumsDef ==
    ASSUME NEW l \in Seq(Entries)
    PROVE  /\ Sums(l) \in [0..Len(l) -> Nat]
           /\ Sums(l)[0] = 0
           /\ \A k \in 1..Len(l) : Sums(l)[k] = Sums(l)[k - 1] + l[k].length
           /\ Lengths(l) = Sums(l)[Len(l)] /\ Lengths(l) \in Nat
<1>1. PICK g \in [0..Len(l) -> Nat] :
          g[0] = 0 /\ \A k \in 1..Len(l) : g[k] = g[k - 1] + l[k].length
  BY SumsExist DEF SumsUpTo
<1>2. Len(l) \in Nat
  OBVIOUS
<1>3. g = [k \in 0..Len(l) |-> IF k = 0 THEN 0 ELSE g[k - 1] + l[k].length]
  BY <1>1, <1>2
<1>4. Sums(l) = [k \in 0..Len(l) |-> IF k = 0 THEN 0 ELSE Sums(l)[k - 1] + l[k].length]
  BY <1>3 DEF Sums
<1>5. /\ Sums(l)[0] = 0
      /\ \A k \in 1..Len(l) : Sums(l)[k] = Sums(l)[k - 1] + l[k].length
  BY <1>2, <1>4
<1> DEFINE T == {n \in Nat : n <= Len(l) => Sums(l)[n] \in Nat}
<1>6. 0 \in T
  BY <1>5
<1>7. ASSUME NEW n \in T PROVE n + 1 \in T
  <2>1. n \in Nat
    BY <1>7
  <2>2. SUFFICES ASSUME n + 1 <= Len(l) PROVE Sums(l)[n + 1] \in Nat
    BY <2>1
  <2>3. Sums(l)[n] \in Nat
    BY <1>2, <1>7, <2>1, <2>2
  <2>4. n + 1 \in 1..Len(l) /\ (n + 1) - 1 = n
    BY <1>2, <2>1, <2>2
  <2>5. QED
    BY <1>5, <2>3, <2>4, EntryType
<1>8. T = Nat
  <2>1. T \in SUBSET Nat
    OBVIOUS
  <2>2. HIDE DEF T
  <2>3. QED
    BY <1>6, <1>7, <2>1, InductionOnSet
<1>9. \A n \in 0..Len(l) : Sums(l)[n] \in Nat
  BY <1>2, <1>8
<1>10. Sums(l) \in [0..Len(l) -> Nat]
  BY <1>4, <1>9
<1>11. QED
  BY <1>2, <1>5, <1>9, <1>10 DEF Lengths

\* Sums grow along a list.
LEMMA SumsMonotone ==
    ASSUME NEW l \in Seq(Entries), NEW j \in 0..Len(l), NEW k \in 0..Len(l), j <= k
    PROVE  Sums(l)[j] <= Sums(l)[k]
<1> DEFINE T == {n \in Nat : j + n <= Len(l) => Sums(l)[j] <= Sums(l)[j + n]}
<1>1. Len(l) \in Nat
  OBVIOUS
<1>2. \A n \in 0..Len(l) : Sums(l)[n] \in Nat
  BY SumsDef
<1>3. 0 \in T
  BY <1>2
<1>4. ASSUME NEW n \in T PROVE n + 1 \in T
  <2>1. n \in Nat
    BY <1>4
  <2>2. SUFFICES ASSUME j + (n + 1) <= Len(l) PROVE Sums(l)[j] <= Sums(l)[j + (n + 1)]
    BY <2>1
  <2>3. Sums(l)[j] <= Sums(l)[j + n]
    BY <1>1, <1>4, <2>1, <2>2
  <2>4. j + (n + 1) \in 1..Len(l) /\ (j + (n + 1)) - 1 = j + n /\ j + n \in 0..Len(l)
    BY <1>1, <2>1, <2>2
  <2>5. Sums(l)[j + (n + 1)] = Sums(l)[j + n] + l[j + (n + 1)].length
    BY <2>4, SumsDef
  <2>6. l[j + (n + 1)].length \in Nat
    BY <2>4, EntryType
  <2>7. Sums(l)[j] \in Nat /\ Sums(l)[j + n] \in Nat
    BY <1>2, <2>4
  <2>8. QED
    BY <2>3, <2>5, <2>6, <2>7
<1>5. T = Nat
  <2>1. T \in SUBSET Nat
    OBVIOUS
  <2>2. HIDE DEF T
  <2>3. QED
    BY <1>3, <1>4, <2>1, InductionOnSet
<1>6. k - j \in Nat /\ j + (k - j) = k
  BY <1>1
<1>7. k - j \in T
  BY <1>5, <1>6
<1>8. QED
  BY <1>1, <1>6, <1>7

\* The sums of a prefix depend on nothing behind it.
LEMMA SumsOfPrefix ==
    ASSUME NEW l \in Seq(Entries), NEW m \in Seq(Entries), NEW n \in Nat,
           n <= Len(l), n <= Len(m), \A k \in 1..n : l[k].length = m[k].length
    PROVE  \A k \in 0..n : Sums(l)[k] = Sums(m)[k]
<1> DEFINE T == {k \in Nat : k <= n => Sums(l)[k] = Sums(m)[k]}
<1>1. Len(l) \in Nat /\ Len(m) \in Nat
  OBVIOUS
<1>2. 0 \in T
  BY SumsDef
<1>3. ASSUME NEW k \in T PROVE k + 1 \in T
  <2>1. k \in Nat
    BY <1>3
  <2>2. SUFFICES ASSUME k + 1 <= n PROVE Sums(l)[k + 1] = Sums(m)[k + 1]
    BY <2>1
  <2>3. Sums(l)[k] = Sums(m)[k]
    BY <1>3, <2>1, <2>2
  <2>4. k + 1 \in 1..Len(l) /\ k + 1 \in 1..Len(m) /\ k + 1 \in 1..n /\ (k + 1) - 1 = k
    BY <1>1, <2>1, <2>2
  <2>5. Sums(l)[k + 1] = Sums(l)[k] + l[k + 1].length
    BY <2>4, SumsDef
  <2>6. Sums(m)[k + 1] = Sums(m)[k] + m[k + 1].length
    BY <2>4, SumsDef
  <2>7. QED
    BY <2>3, <2>4, <2>5, <2>6
<1>4. T = Nat
  <2>1. T \in SUBSET Nat
    OBVIOUS
  <2>2. HIDE DEF T
  <2>3. QED
    BY <1>2, <1>3, <2>1, InductionOnSet
<1>5. QED
  BY <1>4

LEMMA SumsEmpty == <<>> \in Seq(Entries) /\ Len(<<>>) = 0 /\ Lengths(<<>>) = 0
<1>1. <<>> \in Seq(Entries) /\ Len(<<>>) = 0
  OBVIOUS
<1>2. QED
  BY <1>1, SumsDef

\* A list of entries that are not empty holds no word only when it has no entry.
LEMMA EmptyByLength ==
    ASSUME NEW l \in Seq(Entries), Lengths(l) = 0, \A k \in 1..Len(l) : 0 < l[k].length
    PROVE  l = <<>>
<1>1. PICK n \in Nat : n = Len(l)
  OBVIOUS
<1>2. SUFFICES ASSUME 1 <= n PROVE FALSE
  BY <1>1
<1>3. 1 \in 1..n /\ 0 \in 0..n /\ 1 \in 0..n /\ n \in 0..n /\ 1 - 1 = 0
  BY <1>2
<1>4. Sums(l)[1] = Sums(l)[0] + l[1].length
  BY <1>1, <1>3, SumsDef
<1>5. Sums(l)[0] = 0 /\ Sums(l)[n] = 0
  BY <1>1, SumsDef
<1>6. Sums(l)[1] <= Sums(l)[n]
  BY <1>1, <1>2, <1>3, SumsMonotone
<1>7. l[1].length \in Nat /\ 0 < l[1].length
  BY <1>1, <1>3, EntryType
<1>8. QED
  BY <1>4, <1>5, <1>6, <1>7

LEMMA SumsAppend ==
    ASSUME NEW l \in Seq(Entries), NEW e \in Entries
    PROVE  /\ Append(l, e) \in Seq(Entries)
           /\ \A k \in 0..Len(l) : Sums(Append(l, e))[k] = Sums(l)[k]
           /\ Lengths(Append(l, e)) = Lengths(l) + e.length
<1>1. PICK m : m = Append(l, e)
  OBVIOUS
<1>2. /\ m \in Seq(Entries) /\ Len(l) \in Nat
      /\ Len(m) = Len(l) + 1
      /\ \A k \in 1..Len(l) : m[k] = l[k]
      /\ m[Len(l) + 1] = e
  BY <1>1
<1>3. \A k \in 1..Len(l) : l[k].length = m[k].length
  BY <1>2
<1>4. \A k \in 0..Len(l) : Sums(m)[k] = Sums(l)[k]
  BY <1>2, <1>3, SumsOfPrefix
<1>5. Len(m) \in 1..Len(m) /\ Len(m) - 1 = Len(l) /\ Len(l) \in 0..Len(l)
  BY <1>2
<1>6. Sums(m)[Len(m)] = Sums(m)[Len(l)] + m[Len(m)].length
  BY <1>2, <1>5, SumsDef
<1>7. QED
  BY <1>1, <1>2, <1>4, <1>5, <1>6 DEF Lengths

\* Every word of a list belongs to one of its entries,
LEMMA Located ==
    ASSUME NEW l \in Seq(Entries), NEW w \in 1..Lengths(l)
    PROVE  \E k \in 1..Len(l) : Sums(l)[k - 1] < w /\ w <= Sums(l)[k]
<1>1. Len(l) \in Nat /\ Lengths(l) \in Nat /\ w \in Nat
  BY SumsDef
<1> DEFINE T == {n \in 0..Len(l) : w <= Sums(l)[n]}
<1>2. Len(l) \in T
  BY <1>1, SumsDef
<1>3. PICK k \in T : \A n \in T : k <= n
  <2>1. T \in SUBSET Nat /\ T # {}
    BY <1>2
  <2>2. HIDE DEF T
  <2>3. QED
    BY <2>1, LeastElement
<1>4. k \in 0..Len(l) /\ w <= Sums(l)[k]
  OBVIOUS
<1>5. k # 0
  BY <1>1, <1>4, SumsDef
<1>6. k - 1 \in 0..Len(l) /\ ~ (k <= k - 1)
  BY <1>1, <1>4, <1>5
<1>7. k - 1 \notin T
  BY <1>3, <1>6
<1>8. Sums(l)[k - 1] \in Nat
  BY <1>6, SumsDef
<1>9. Sums(l)[k - 1] < w
  BY <1>1, <1>6, <1>7, <1>8
<1>10. QED
  BY <1>1, <1>4, <1>5, <1>9

\* and to no other.
LEMMA LocatedOnce ==
    ASSUME NEW l \in Seq(Entries), NEW w \in Nat, NEW j \in 1..Len(l), NEW k \in 1..Len(l),
           Sums(l)[j - 1] < w, w <= Sums(l)[j], Sums(l)[k - 1] < w, w <= Sums(l)[k]
    PROVE  j = k
<1>1. Len(l) \in Nat
  OBVIOUS
<1>2. \A n \in 0..Len(l) : Sums(l)[n] \in Nat
  BY SumsDef
<1>3. /\ j - 1 \in 0..Len(l) /\ j \in 0..Len(l) /\ j \in Nat
      /\ k - 1 \in 0..Len(l) /\ k \in 0..Len(l) /\ k \in Nat
  BY <1>1
<1>4. ~ (j < k)
  <2>1. SUFFICES ASSUME j <= k - 1 PROVE FALSE
    BY <1>3
  <2>2. Sums(l)[j] <= Sums(l)[k - 1]
    BY <1>3, <2>1, SumsMonotone
  <2>3. QED
    BY <1>2, <1>3, <2>2
<1>5. ~ (k < j)
  <2>1. SUFFICES ASSUME k <= j - 1 PROVE FALSE
    BY <1>3
  <2>2. Sums(l)[k] <= Sums(l)[j - 1]
    BY <1>3, <2>1, SumsMonotone
  <2>3. QED
    BY <1>2, <1>3, <2>2
<1>6. QED
  BY <1>3, <1>4, <1>5

-----------------------------------------------------------------------------
(* The words of a list.                                                     *)

\* An entry that covers what a sequence of words W has behind position o, and a
\* list whose entries do so one after the other.
Piece(e, o, W) == \A w \in 1..e.length : W[o + w] = e.pointer + w - 1
Drawn(l, W)    == \A k \in 1..Len(l) : Piece(l[k], Sums(l)[k - 1], W)

\* The entry a word belongs to.
EntryOf(l, w) == CHOOSE k \in DOMAIN l : Sums(l)[k - 1] < w /\ w <= Sums(l)[k]

\* Every word is one of the words of its entry.
LEMMA WordIn ==
    ASSUME NEW l \in Seq(Entries), NEW v \in 1..Lengths(l)
    PROVE  \E k \in 1..Len(l) : \E w \in 1..l[k].length : v = Sums(l)[k - 1] + w
<1>1. PICK k \in 1..Len(l) : Sums(l)[k - 1] < v /\ v <= Sums(l)[k]
  BY Located
<1>2. k - 1 \in 0..Len(l) /\ k \in 0..Len(l) /\ l[k].length \in Nat
  BY <1>1, EntryType
<1>3. /\ Sums(l)[k - 1] \in Nat /\ Sums(l)[k] \in Nat
      /\ Sums(l)[k] = Sums(l)[k - 1] + l[k].length
  BY <1>1, <1>2, SumsDef
<1>4. PICK a : a = Sums(l)[k - 1]
  OBVIOUS
<1>5. v - a \in 1..l[k].length /\ v = a + (v - a)
  <2>1. Lengths(l) \in Nat
    BY SumsDef
  <2>2. v \in Nat
    BY <2>1
  <2>3. a \in Nat /\ a < v /\ v <= a + l[k].length
    BY <1>1, <1>3, <1>4
  <2>4. QED
    BY <1>2, <2>2, <2>3, Behind
<1>6. QED
  BY <1>4, <1>5

LEMMA WordsDef ==
    ASSUME NEW l
    PROVE  Words(l) = [w \in 1..Lengths(l) |->
               l[EntryOf(l, w)].pointer + (w - Sums(l)[EntryOf(l, w) - 1]) - 1]
BY DEF Words, EntryOf

LEMMA EntryOfIs ==
    ASSUME NEW l, NEW w, \E k \in DOMAIN l : Sums(l)[k - 1] < w /\ w <= Sums(l)[k]
    PROVE  /\ EntryOf(l, w) \in DOMAIN l
           /\ Sums(l)[EntryOf(l, w) - 1] < w /\ w <= Sums(l)[EntryOf(l, w)]
BY DEF EntryOf

LEMMA EntryOfWord ==
    ASSUME NEW l \in Seq(Entries), NEW k \in 1..Len(l), NEW w \in 1..l[k].length
    PROVE  /\ Sums(l)[k - 1] + w \in 1..Lengths(l)
           /\ EntryOf(l, Sums(l)[k - 1] + w) = k
           /\ Sums(l)[k - 1] + w <= Sums(l)[k]
<1> DEFINE v == Sums(l)[k - 1] + w
<1>1. Len(l) \in Nat /\ DOMAIN l = 1..Len(l) /\ l[k].length \in Nat
  BY EntryType
<1>2. k - 1 \in 0..Len(l) /\ k \in 0..Len(l) /\ Len(l) \in 0..Len(l) /\ k <= Len(l)
  BY <1>1
<1>3. Sums(l)[k] = Sums(l)[k - 1] + l[k].length /\ Sums(l)[k] \in Nat /\ Sums(l)[k - 1] \in Nat
  BY <1>2, SumsDef
<1>4. Sums(l)[k] <= Lengths(l) /\ Lengths(l) \in Nat
  BY <1>2, SumsMonotone, SumsDef
<1>5. v \in 1..Lengths(l) /\ v \in Nat /\ Sums(l)[k - 1] < v /\ v <= Sums(l)[k]
  <2>1. Sums(l)[k - 1] + l[k].length <= Lengths(l)
    BY <1>3, <1>4
  <2>2. /\ v \in 1..Lengths(l) /\ v \in Nat
        /\ Sums(l)[k - 1] < v /\ v <= Sums(l)[k - 1] + l[k].length
    BY <1>1, <1>3, <1>4, <2>1, Within
  <2>3. QED
    BY <1>3, <2>2
<1>6. EntryOf(l, v) = k
  <2>1. HIDE DEF v
  <2>2. \E j \in DOMAIN l : Sums(l)[j - 1] < v /\ v <= Sums(l)[j]
    BY <1>1, <1>5
  <2>3. PICK j : j = EntryOf(l, v)
    OBVIOUS
  <2>4. j \in DOMAIN l /\ Sums(l)[j - 1] < v /\ v <= Sums(l)[j]
    BY <2>2, <2>3, EntryOfIs
  <2>5. QED
    BY <1>1, <1>5, <2>3, <2>4, LocatedOnce
<1>7. QED
  BY <1>5, <1>6

\* The list of a sequence of words covers it, piece by piece,
LEMMA WordsDrawn ==
    ASSUME NEW l \in Seq(Entries)
    PROVE  Drawn(l, Words(l))
<1>1. SUFFICES ASSUME NEW k \in 1..Len(l), NEW w \in 1..l[k].length
               PROVE  Words(l)[Sums(l)[k - 1] + w] = l[k].pointer + w - 1
  BY DEF Drawn, Piece
<1>2. PICK v : v = Sums(l)[k - 1] + w
  OBVIOUS
<1>3. v \in 1..Lengths(l) /\ EntryOf(l, v) = k
  BY <1>1, <1>2, EntryOfWord
<1>4. Words(l)[v] = l[k].pointer + (v - Sums(l)[k - 1]) - 1
  BY <1>3, WordsDef
<1>5. k - 1 \in 0..Len(l) /\ l[k].length \in Nat /\ l[k].pointer \in Nat
  BY <1>1, EntryType
<1>6. Sums(l)[k - 1] \in Nat /\ w \in Nat
  <2>1. Sums(l)[k - 1] \in Nat
    BY <1>5, SumsDef
  <2>2. w \in Nat
    BY <1>1, <1>5
  <2>3. QED
    BY <2>1, <2>2
<1>7. QED
  BY <1>2, <1>4, <1>5, <1>6

\* and a list that covers a sequence of words, piece by piece, has these words.
LEMMA WordsOfDrawn ==
    ASSUME NEW l \in Seq(Entries), NEW W, W = [w \in 1..Lengths(l) |-> W[w]], Drawn(l, W)
    PROVE  Words(l) = W
<1>1. ASSUME NEW v \in 1..Lengths(l) PROVE Words(l)[v] = W[v]
  <2>1. PICK k \in 1..Len(l) : \E w \in 1..l[k].length : v = Sums(l)[k - 1] + w
    BY <1>1, WordIn
  <2>2. PICK w \in 1..l[k].length : v = Sums(l)[k - 1] + w
    BY <2>1
  <2>3. Words(l)[v] = l[k].pointer + w - 1
    BY <2>2, WordsDrawn DEF Drawn, Piece
  <2>4. W[v] = l[k].pointer + w - 1
    BY <2>2 DEF Drawn, Piece
  <2>5. QED
    BY <2>3, <2>4
<1>2. Words(l) = [w \in 1..Lengths(l) |-> Words(l)[w]]
  BY WordsDef
<1>3. QED
  BY <1>1, <1>2

LEMMA DrawnEmpty == ASSUME NEW W PROVE Drawn(<<>>, W)
BY DEF Drawn

LEMMA DrawnAppend ==
    ASSUME NEW l \in Seq(Entries), NEW e \in Entries, NEW W, Drawn(l, W), Piece(e, Lengths(l), W)
    PROVE  Drawn(Append(l, e), W)
<1>1. PICK m : m = Append(l, e)
  OBVIOUS
<1>2. /\ m \in Seq(Entries) /\ Len(l) \in Nat
      /\ Len(m) = Len(l) + 1
      /\ \A k \in 1..Len(l) : m[k] = l[k]
      /\ m[Len(l) + 1] = e
  BY <1>1
<1>3. \A k \in 0..Len(l) : Sums(m)[k] = Sums(l)[k]
  BY <1>1, SumsAppend
<1>4. ASSUME NEW k \in 1..Len(m) PROVE Piece(m[k], Sums(m)[k - 1], W)
  <2>1. CASE k = Len(l) + 1
    <3>1. k - 1 = Len(l) /\ k - 1 \in 0..Len(l)
      BY <1>2, <2>1
    <3>2. Sums(m)[k - 1] = Lengths(l) /\ m[k] = e
      BY <1>2, <1>3, <2>1, <3>1 DEF Lengths
    <3>3. QED
      BY <3>2
  <2>2. CASE k # Len(l) + 1
    <3>1. k \in 1..Len(l) /\ k - 1 \in 0..Len(l)
      BY <1>2, <1>4, <2>2
    <3>2. QED
      BY <1>2, <1>3, <3>1 DEF Drawn
  <2>3. QED
    BY <2>1, <2>2
<1>5. QED
  BY <1>1, <1>4 DEF Drawn

\* A part of an entry covers a part of what the entry covers.
LEMMA PartOfPiece ==
    ASSUME NEW e \in Entries, NEW o \in Nat, NEW s \in Nat, NEW n \in Nat, NEW W,
           s + n <= e.length, Piece(e, o, W)
    PROVE  /\ Entry(e.pointer + s, n) \in Entries
           /\ Piece(Entry(e.pointer + s, n), o + s, W)
<1>1. e.pointer \in Nat /\ e.length \in Nat
  BY DEF Entries
<1>2. Entry(e.pointer + s, n) \in Entries
  BY <1>1 DEF Entry, Entries
<1>3. ASSUME NEW w \in 1..n PROVE W[(o + s) + w] = (e.pointer + s) + w - 1
  <2>1. s + w \in 1..e.length
    BY <1>1, <1>3
  <2>2. W[o + (s + w)] = e.pointer + (s + w) - 1
    BY <2>1 DEF Piece
  <2>3. o + (s + w) = (o + s) + w /\ e.pointer + (s + w) - 1 = (e.pointer + s) + w - 1
    BY <1>1, <1>3
  <2>4. QED
    BY <2>2, <2>3
<1>4. QED
  BY <1>2, <1>3 DEF Piece, Entry

-----------------------------------------------------------------------------
(* The inductive invariant.                                                 *)

Buffer == Words(scatter)

Aligned(e) == e.pointer % PageSize = 0 /\ e.length % PageSize = 0 /\ e.length > 0

\* A length the hardware can express, and an entry that starts inside a page does
\* not leave it.
Expressible(e) == e.length \in 1..Limit-1
InPage(e) ==
    e.pointer % PageSize # 0 => (e.pointer % PageSize) + e.length <= PageSize

\* Where each call can be.
CallInv ==
    /\ scatter \in Scatters
    /\ call = "none"      => pc = "idle"
    /\ call = "configure" => pc \in {"idle", "load", "merge", "prepare", "push"}
    /\ call = "count"     => pc \in {"idle", "load", "merge"}
    /\ call = "compose"   => pc \in {"idle", "load", "merge", "compose"}
    /\ call = "announce"  => pc \in {"idle", "announce", "wait"}
    /\ pc \in {"load", "merge"}   => ~ m_sglist_initialized

\* The list of the buffer covers what has been read of the kernel's list.
LoadInv ==
    /\ Drawn(m_sglist_vector, Buffer)
    /\ \A k \in 1..Len(m_sglist_vector) : Aligned(m_sglist_vector[k])
    /\ m_sglist_initialized => Lengths(m_sglist_vector) = Total
    /\ ~ m_sglist_initialized /\ pc \notin {"load", "merge"} => m_sglist_vector = <<>>
    /\ pc = "load" => Lengths(m_sglist_vector) = Sums(scatter)[i - 1]
    /\ pc = "merge" =>
           /\ i <= Len(scatter)
           /\ Lengths(m_sglist_vector) + entry.length = Sums(scatter)[i]
           /\ Piece(entry, Lengths(m_sglist_vector), Buffer)
           /\ Aligned(entry)

\* The split list covers what has been read of the buffer's list.
PrepareInv ==
    /\ Drawn(newlist, Buffer)
    /\ \A k \in 1..Len(newlist) : Expressible(newlist[k])
    /\ pc \in {"load", "merge"} => iter = 1 /\ split = 0 /\ newlist = <<>>
    /\ pc \in {"load", "merge", "prepare"} => entry_addr = 0
    /\ pc = "prepare" =>
           /\ Lengths(newlist) = Sums(m_sglist_vector)[iter - 1] + split
           /\ iter <= Len(m_sglist_vector) => split < m_sglist_vector[iter].length
           /\ iter > Len(m_sglist_vector) => split = 0
    /\ pc = "push" => split = 0

\* The RAM holds the first n entries of the split list, and of a list that was not
\* read only the trailing entry.
Written(n) == \A a \in 0..n-1 : ram[a] = newlist[a + 1]

PushInv ==
    /\ pc = "push" =>
           /\ Lengths(newlist) = Lengths(m_sglist_vector)
           /\ Len(newlist) < MaxSg
           /\ entry_addr <= Len(newlist)
           /\ Written(entry_addr)
    /\ call = "count" => newlist = <<>> /\ ram[0] = Zero
    /\ pc = "idle" /\ call = "configure" /\ result = "ok" =>
           /\ Lengths(newlist) = Total
           /\ Len(newlist) < MaxSg
           /\ Written(Len(newlist))
           /\ ram[Len(newlist)] = Zero

\* The composed list covers what has been handed out of the event.
ComposeInv ==
    /\ offset \in 0..Total /\ size \in 0..Total
    /\ rem_size + Lengths(list) = size
    /\ offset < Total => cur_offset = (offset + Lengths(list)) % Total
    /\ offset = Total => list = <<>> /\ cur_offset = offset
    /\ Drawn(list, EventWords)
    /\ \A k \in 1..Len(list) : Expressible(list[k]) /\ InPage(list[k])
    /\ ~ m_sglist_initialized => list = <<>>
    /\ pc = "compose" /\ rem_size > 0 => m_sglist_initialized
    /\ call = "compose" /\ pc = "idle" => result \in {"true", "false"}
    /\ call = "compose" /\ pc = "idle" /\ result = "true" => rem_size = 0
    /\ call = "compose" /\ pc = "idle" /\ result = "false" =>
           offset = Total \/ ~ m_sglist_initialized
    /\ call = "announce" /\ list # <<>> => rem_size = 0

\* The descriptor of an entry of the announced event, and how far the call and
\* the device are.
Descriptors == [entry : Entries, eoe : BOOLEAN]
Descriptor(k) == [entry |-> Pushed(list[k]), eoe |-> k = Len(list)]

AnnounceInv ==
    /\ fifo \in Seq(Descriptors) /\ sent \in Seq(Descriptors)
    /\ call # "announce" => fifo = <<>> /\ sent = <<>>
    /\ call = "announce" =>
           /\ Len(sent) + Len(fifo) = iter - 1
           /\ \A k \in 1..Len(sent) : sent[k] = Descriptor(k)
           /\ \A k \in 1..Len(fifo) : fifo[k] = Descriptor(Len(sent) + k)
           /\ pc # "announce" => iter = Len(list) + 1
           /\ pc = "idle" => fifo = <<>> /\ list # <<>>

ListInv == CallInv /\ LoadInv /\ PrepareInv /\ PushInv /\ ComposeInv /\ AnnounceInv

-----------------------------------------------------------------------------
(* The kernel's list.                                                       *)

LEMMA KernelList ==
    ASSUME scatter \in Scatters
    PROVE  /\ scatter \in Seq(Entries) /\ Len(scatter) \in Nat /\ DOMAIN scatter = 1..Len(scatter)
           /\ Total \in Nat
           /\ Buffer = [w \in 1..Total |-> Buffer[w]]
           /\ \A k \in 1..Len(scatter) :
                  /\ scatter[k] \in Entries
                  /\ Aligned(scatter[k]) /\ Expressible(scatter[k])
                  /\ Piece(scatter[k], Sums(scatter)[k - 1], Buffer)
                  /\ Sums(scatter)[k] = Sums(scatter)[k - 1] + scatter[k].length
<1>1. scatter \in Seq(Entries) /\ Len(scatter) \in Nat /\ DOMAIN scatter = 1..Len(scatter)
  BY ScattersAssumption
<1>2. Total \in Nat
  BY <1>1, SumsDef DEF Total
<1>3. Buffer = [w \in 1..Total |-> Buffer[w]]
  BY WordsDef DEF Buffer, Total
<1>4. Drawn(scatter, Buffer)
  BY <1>1, WordsDrawn DEF Buffer
<1>5. ASSUME NEW k \in 1..Len(scatter)
      PROVE  Aligned(scatter[k]) /\ Expressible(scatter[k])
  <2>1. /\ scatter[k].pointer % PageSize = 0
        /\ scatter[k].length \in 1..Limit-1 /\ scatter[k].length % PageSize = 0
    BY <1>1, <1>5, ScattersAssumption
  <2>2. QED
    BY <2>1 DEF Aligned, Expressible
<1>6. QED
  BY <1>1, <1>2, <1>3, <1>4, <1>5, EntryType, SumsDef DEF Drawn

\* No word of the buffer is there twice.
LEMMA BufferInjective ==
    ASSUME scatter \in Scatters, NEW v \in 1..Total, NEW w \in 1..Total, Buffer[v] = Buffer[w]
    PROVE  v = w
<1>1. /\ scatter \in Seq(Entries)
      /\ v \in 1..Lengths(scatter) /\ w \in 1..Lengths(scatter)
  BY KernelList DEF Total
<1>2. PICK j \in 1..Len(scatter) : \E x \in 1..scatter[j].length : v = Sums(scatter)[j - 1] + x
  BY <1>1, WordIn
<1>3. PICK x \in 1..scatter[j].length : v = Sums(scatter)[j - 1] + x
  BY <1>2
<1>4. PICK k \in 1..Len(scatter) : \E y \in 1..scatter[k].length : w = Sums(scatter)[k - 1] + y
  BY <1>1, WordIn
<1>5. PICK y \in 1..scatter[k].length : w = Sums(scatter)[k - 1] + y
  BY <1>4
<1>6. Buffer[v] = scatter[j].pointer + x - 1 /\ Buffer[w] = scatter[k].pointer + y - 1
  BY <1>3, <1>5, KernelList DEF Piece
<1>7. /\ scatter[j].pointer \in Nat /\ scatter[j].length \in Nat
      /\ scatter[k].pointer \in Nat /\ scatter[k].length \in Nat
  BY <1>1, EntryType
<1>8. j = k
  <2>1. SUFFICES ASSUME j # k PROVE FALSE
    OBVIOUS
  <2>2. Disjoint(scatter[j], scatter[k])
    BY <2>1, KernelList, ScattersAssumption
  <2>3. \/ scatter[j].pointer + scatter[j].length <= scatter[k].pointer
        \/ scatter[k].pointer + scatter[k].length <= scatter[j].pointer
    BY <2>2 DEF Disjoint
  <2>4. scatter[j].pointer + x - 1 = scatter[k].pointer + y - 1
    BY <1>6
  <2>5. PICK p, q, d, e : /\ p = scatter[j].pointer /\ q = scatter[k].pointer
                          /\ d = scatter[j].length /\ e = scatter[k].length
    OBVIOUS
  <2>6. p \in Nat /\ q \in Nat /\ d \in Nat /\ e \in Nat /\ x \in 1..d /\ y \in 1..e
    BY <1>3, <1>5, <1>7, <2>5
  <2>7. p + d <= q \/ q + e <= p
    BY <2>3, <2>5
  <2>8. p + x - 1 = q + y - 1
    BY <2>4, <2>5
  <2>9. QED
    BY <2>6, <2>7, <2>8
<1>9. x = y
  BY <1>3, <1>5, <1>6, <1>7, <1>8
<1>10. QED
  BY <1>3, <1>5, <1>8, <1>9

\* The variables as the lemmas about lists need them.
LEMMA ListTypes ==
    ASSUME TypeOK, CallInv
    PROVE  /\ scatter \in Seq(Entries) /\ Len(scatter) \in Nat
           /\ Total \in Nat /\ Total = Sums(scatter)[Len(scatter)]
           /\ m_sglist_vector \in Seq(Entries) /\ Len(m_sglist_vector) \in Nat
           /\ newlist \in Seq(Entries) /\ Len(newlist) \in Nat
           /\ list \in Seq(Entries) /\ Len(list) \in Nat
           /\ entry \in Entries /\ entry.pointer \in Nat /\ entry.length \in Nat
           /\ \A k \in 1..Len(m_sglist_vector) :
                  /\ m_sglist_vector[k].pointer \in Nat /\ m_sglist_vector[k].length \in Nat
                  /\ Sums(m_sglist_vector)[k - 1] \in Nat /\ Sums(m_sglist_vector)[k] \in Nat
                  /\ Sums(m_sglist_vector)[k] =
                         Sums(m_sglist_vector)[k - 1] + m_sglist_vector[k].length
<1>1. scatter \in Seq(Entries) /\ Len(scatter) \in Nat /\ Total \in Nat
  BY KernelList DEF CallInv
<1>2. Total = Sums(scatter)[Len(scatter)]
  BY DEF Total, Lengths
<1>3. m_sglist_vector \in Seq(Entries) /\ newlist \in Seq(Entries) /\ list \in Seq(Entries)
  BY DEF TypeOK
<1>4. entry \in Entries /\ entry.pointer \in Nat /\ entry.length \in Nat
  BY DEF TypeOK, Entries
<1>5. Len(m_sglist_vector) \in Nat /\ Len(newlist) \in Nat /\ Len(list) \in Nat
  BY <1>3
<1>6. ASSUME NEW k \in 1..Len(m_sglist_vector)
      PROVE  /\ m_sglist_vector[k].pointer \in Nat /\ m_sglist_vector[k].length \in Nat
             /\ Sums(m_sglist_vector)[k - 1] \in Nat /\ Sums(m_sglist_vector)[k] \in Nat
             /\ Sums(m_sglist_vector)[k] =
                    Sums(m_sglist_vector)[k - 1] + m_sglist_vector[k].length
  <2>1. k - 1 \in 0..Len(m_sglist_vector) /\ k \in 0..Len(m_sglist_vector)
    BY <1>5, <1>6
  <2>2. m_sglist_vector[k].pointer \in Nat /\ m_sglist_vector[k].length \in Nat
    BY <1>3, <1>6, EntryType
  <2>3. Sums(m_sglist_vector)[k - 1] \in Nat /\ Sums(m_sglist_vector)[k] \in Nat
    BY <1>3, <2>1, SumsDef
  <2>4. Sums(m_sglist_vector)[k] = Sums(m_sglist_vector)[k - 1] + m_sglist_vector[k].length
    BY <1>3, <1>6, SumsDef
  <2>5. QED
    BY <2>2, <2>3, <2>4
<1>7. QED
  BY <1>1, <1>2, <1>3, <1>4, <1>5, <1>6

\* The length register takes a length of 32 bits as it is.
LEMMA PushedWhole ==
    ASSUME NEW e \in Entries, Expressible(e)
    PROVE  Pushed(e) = e
<1>1. e.length % Limit = e.length
  <2>1. e.length \in 0..Limit-1 /\ Limit \in Nat
    BY DEF Expressible
  <2>2. QED
    BY <2>1, ModSmall
<1>2. e = [pointer |-> e.pointer, length |-> e.length]
  BY DEF Entries
<1>3. QED
  BY <1>1, <1>2 DEF Pushed, Entry

\* Every offset inside the buffer falls into an entry, and offsetToPhysAddr()
\* returns the address there and what is left of the entry.
LEMMA SegmentAt ==
    ASSUME TypeOK, CallInv, LoadInv, m_sglist_initialized, NEW o \in 0..Total-1
    PROVE  \E k \in 1..Len(m_sglist_vector) : \E s \in Nat :
               /\ s < m_sglist_vector[k].length
               /\ o = Sums(m_sglist_vector)[k - 1] + s
               /\ EntriesAt(o) # {}
               /\ offsetToPhysAddr(o).phys_addr = m_sglist_vector[k].pointer + s
               /\ offsetToPhysAddr(o).rem_sg_length = m_sglist_vector[k].length - s
<1>1. Lengths(m_sglist_vector) = Total /\ Total \in Nat
  BY ListTypes DEF LoadInv
<1>2. o + 1 \in 1..Lengths(m_sglist_vector) /\ o \in Nat
  BY <1>1
<1>3. PICK k \in 1..Len(m_sglist_vector) :
          Sums(m_sglist_vector)[k - 1] < o + 1 /\ o + 1 <= Sums(m_sglist_vector)[k]
  BY <1>2, ListTypes, Located
<1>4. k \in EntriesAt(o)
  <2>1. /\ Sums(m_sglist_vector)[k - 1] \in Nat
        /\ Sums(m_sglist_vector)[k] =
               Sums(m_sglist_vector)[k - 1] + m_sglist_vector[k].length
        /\ m_sglist_vector[k].length \in Nat /\ k \in DOMAIN m_sglist_vector
    BY <1>3, ListTypes
  <2>2. /\ Sums(m_sglist_vector)[k - 1] <= o
        /\ o < Sums(m_sglist_vector)[k - 1] + m_sglist_vector[k].length
    BY <1>2, <1>3, <2>1
  <2>3. QED
    BY <2>1, <2>2 DEF EntriesAt, Start
<1>5. PICK c : c = CHOOSE n \in EntriesAt(o) : TRUE
  OBVIOUS
<1>6. c \in EntriesAt(o)
  BY <1>4, <1>5
<1>7. /\ c \in 1..Len(m_sglist_vector)
      /\ Sums(m_sglist_vector)[c - 1] <= o
      /\ o < Sums(m_sglist_vector)[c - 1] + m_sglist_vector[c].length
  BY <1>6, ListTypes DEF EntriesAt, Start
<1>8. PICK s : s = o - Sums(m_sglist_vector)[c - 1]
  OBVIOUS
<1>9. s \in Nat /\ s < m_sglist_vector[c].length /\ o = Sums(m_sglist_vector)[c - 1] + s
  <2>1. Sums(m_sglist_vector)[c - 1] \in Nat /\ m_sglist_vector[c].length \in Nat
    BY <1>7, ListTypes
  <2>2. PICK b, n : b = Sums(m_sglist_vector)[c - 1] /\ n = m_sglist_vector[c].length
    OBVIOUS
  <2>3. b \in Nat /\ n \in Nat /\ b <= o /\ o < b + n /\ s = o - b
    BY <1>7, <1>8, <2>1, <2>2
  <2>4. s \in Nat /\ s < n /\ o = b + s
    BY <1>2, <2>3
  <2>5. QED
    BY <2>2, <2>4
<1>10. /\ offsetToPhysAddr(o).phys_addr = m_sglist_vector[c].pointer + s
       /\ offsetToPhysAddr(o).rem_sg_length = m_sglist_vector[c].length - s
  BY <1>5, <1>8 DEF offsetToPhysAddr, Start
<1>11. QED
  BY <1>4, <1>7, <1>9, <1>10

LEMMA EntriesInside ==
    ASSUME TypeOK, CallInv, LoadInv, m_sglist_initialized, NEW o \in Nat, EntriesAt(o) # {}
    PROVE  o < Total
<1>1. PICK k \in 1..Len(m_sglist_vector) :
          o < Sums(m_sglist_vector)[k - 1] + m_sglist_vector[k].length
  BY ListTypes DEF EntriesAt, Start
<1>2. /\ Sums(m_sglist_vector)[k] = Sums(m_sglist_vector)[k - 1] + m_sglist_vector[k].length
      /\ Sums(m_sglist_vector)[k] \in Nat
  BY <1>1, ListTypes
<1>3. Sums(m_sglist_vector)[k] <= Total
  <2>1. /\ k \in 0..Len(m_sglist_vector) /\ k <= Len(m_sglist_vector)
        /\ Len(m_sglist_vector) \in 0..Len(m_sglist_vector)
    BY <1>1, ListTypes
  <2>2. Sums(m_sglist_vector)[k] <= Sums(m_sglist_vector)[Len(m_sglist_vector)]
    BY <2>1, ListTypes, SumsMonotone
  <2>3. QED
    BY <2>2 DEF LoadInv, Lengths
<1>4. QED
  BY <1>1, <1>2, <1>3, ListTypes

\* A segment stays in its entry, can be expressed, and ends at the page boundary
\* when it starts inside a page.
LEMMA SegmentFits ==
    ASSUME NEW e \in Entries, Aligned(e), NEW s \in Nat, s < e.length, NEW p,
           p.phys_addr = e.pointer + s, p.rem_sg_length = e.length - s
    PROVE  /\ SegmentLength(p) \in 1..Limit-1
           /\ SegmentLength(p) <= e.length - s
           /\ p.phys_addr % PageSize # 0 =>
                  (p.phys_addr % PageSize) + SegmentLength(p) <= PageSize
<1>1. /\ e.pointer \in Nat /\ e.length \in Nat
      /\ e.pointer % PageSize = 0 /\ e.length % PageSize = 0
  BY DEF Entries, Aligned
<1>2. p.phys_addr % PageSize = s % PageSize
  <2>1. PageSize \in Nat \ {0}
    OBVIOUS
  <2>2. (e.pointer + s) % PageSize = s % PageSize
    BY <1>1, <2>1, ModSum
  <2>3. QED
    BY <2>2
<1>3. PICK r : r = s % PageSize
  OBVIOUS
<1>4. r \in 0..PageSize-1
  BY <1>3, DivMod
<1>5. s + (PageSize - r) <= e.length
  BY <1>1, <1>3, ModBound
<1>6. ASSUME r # 0
      PROVE  SegmentLength(p) = PageSize - r
  BY <1>2, <1>3, <1>6 DEF SegmentLength
<1>7. ASSUME r = 0
      PROVE  SegmentLength(p) = IF e.length - s >= Limit THEN Limit - PageSize ELSE e.length - s
  BY <1>2, <1>3, <1>7 DEF SegmentLength
<1>8. CASE r # 0
  <2>1. SegmentLength(p) = PageSize - r
    BY <1>6, <1>8
  <2>2. PageSize - r \in 1..Limit-1 /\ PageSize - r <= e.length - s
    BY <1>1, <1>4, <1>5, <1>8
  <2>3. r + (PageSize - r) <= PageSize
    BY <1>4
  <2>4. QED
    BY <1>2, <1>3, <2>1, <2>2, <2>3
<1>9. CASE r = 0
  <2>1. SegmentLength(p) \in 1..Limit-1 /\ SegmentLength(p) <= e.length - s
    BY <1>1, <1>7, <1>9
  <2>2. QED
    BY <1>2, <1>3, <1>9, <2>1
<1>10. QED
  BY <1>8, <1>9

\* One iteration of composeSglistFromBufferSegment() adds an entry that covers the
\* next words of the event.
LEMMA ComposedEntry ==
    ASSUME TypeOK, CallInv, LoadInv, ComposeInv, ComposeEntry
    PROVE  \E n \in 1..Limit-1 : \E f \in Entries :
               /\ n <= rem_size /\ f.length = n
               /\ list' = Append(list, f) /\ rem_size' = rem_size - n
               /\ Expressible(f) /\ InPage(f) /\ Piece(f, Lengths(list), EventWords)
               /\ offset < Total /\ cur_offset' \in 0..Total-1
               /\ cur_offset' = (offset + Lengths(list) + n) % Total
<1>1. /\ m_sglist_initialized /\ Total \in Nat /\ Lengths(list) \in Nat
      /\ rem_size \in Nat /\ rem_size > 0 /\ size \in Nat /\ rem_size + Lengths(list) = size
      /\ offset \in Nat /\ offset <= Total /\ cur_offset \in Nat
  <2>1. Total \in Nat /\ Lengths(list) \in Nat
    BY ListTypes, SumsDef
  <2>2. size \in Nat /\ offset \in Nat /\ offset <= Total /\ rem_size + Lengths(list) = size
    BY <2>1 DEF ComposeInv
  <2>3. rem_size \in Nat /\ cur_offset \in Nat
    BY <2>1, <2>2 DEF TypeOK
  <2>4. rem_size > 0 /\ m_sglist_initialized
    BY DEF ComposeInv, ComposeEntry
  <2>5. QED
    BY <2>1, <2>2, <2>3, <2>4
<1>2. EntriesAt(cur_offset) # {}
  BY DEF ComposeEntry
<1>3. cur_offset < Total
  BY <1>1, <1>2, EntriesInside
<1>4. offset < Total /\ cur_offset = (offset + Lengths(list)) % Total
  BY <1>1, <1>3 DEF ComposeInv
<1>5. PICK k \in 1..Len(m_sglist_vector) : \E s \in Nat :
          /\ s < m_sglist_vector[k].length
          /\ cur_offset = Sums(m_sglist_vector)[k - 1] + s
          /\ EntriesAt(cur_offset) # {}
          /\ offsetToPhysAddr(cur_offset).phys_addr = m_sglist_vector[k].pointer + s
          /\ offsetToPhysAddr(cur_offset).rem_sg_length = m_sglist_vector[k].length - s
  <2>1. cur_offset \in 0..Total-1
    BY <1>1, <1>3
  <2>2. m_sglist_initialized
    BY <1>1
  <2>3. QED
    BY <2>1, <2>2, SegmentAt, Zenon
<1>6. PICK e, p, o : /\ e = m_sglist_vector[k] /\ p = offsetToPhysAddr(cur_offset)
                     /\ o = Sums(m_sglist_vector)[k - 1]
  OBVIOUS
<1>7. PICK s \in Nat : /\ s < e.length /\ cur_offset = o + s
                       /\ p.phys_addr = e.pointer + s /\ p.rem_sg_length = e.length - s
  BY <1>5, <1>6
<1>8. /\ e \in Entries /\ e.pointer \in Nat /\ e.length \in Nat /\ o \in Nat
      /\ Aligned(e) /\ Piece(e, o, Buffer)
  BY <1>5, <1>6, ListTypes, EntryType DEF LoadInv, Drawn
<1>9. o + e.length <= Total
  <2>1. /\ k \in 0..Len(m_sglist_vector) /\ k <= Len(m_sglist_vector)
        /\ Len(m_sglist_vector) \in 0..Len(m_sglist_vector)
    BY <1>5, ListTypes
  <2>2. Sums(m_sglist_vector)[k] <= Sums(m_sglist_vector)[Len(m_sglist_vector)]
    BY <2>1, ListTypes, SumsMonotone
  <2>3. Sums(m_sglist_vector)[k] = o + e.length
    BY <1>5, <1>6, ListTypes
  <2>4. QED
    BY <1>1, <2>2, <2>3 DEF LoadInv, Lengths
<1>10. PICK g : g = SegmentLength(p)
  OBVIOUS
<1>11. /\ g \in 1..Limit-1 /\ g <= e.length - s
       /\ p.phys_addr % PageSize # 0 => (p.phys_addr % PageSize) + g <= PageSize
  BY <1>7, <1>8, <1>10, SegmentFits
<1>12. PICK n : n = IF g >= rem_size THEN rem_size ELSE g
  OBVIOUS
<1>13. n \in 1..Limit-1 /\ n \in Nat /\ n <= g /\ n <= rem_size
  BY <1>1, <1>11, <1>12
<1>14. s + n <= e.length
  BY <1>7, <1>8, <1>11, <1>13
<1>15. PICK f : f = Entry(e.pointer + s, n)
  OBVIOUS
<1>16. f \in Entries /\ f.length = n /\ f.pointer = e.pointer + s /\ Piece(f, cur_offset, Buffer)
  <2>1. f \in Entries /\ Piece(f, o + s, Buffer)
    BY <1>7, <1>8, <1>13, <1>14, <1>15, PartOfPiece
  <2>2. f.length = n /\ f.pointer = e.pointer + s
    BY <1>15 DEF Entry
  <2>3. QED
    BY <1>7, <2>1, <2>2
<1>17. /\ list' = Append(list, f) /\ rem_size' = rem_size - n
       /\ cur_offset' = Wrap(cur_offset + n)
  <2>1. f = Entry(p.phys_addr, n)
    BY <1>7, <1>15
  <2>2. QED
    BY <1>6, <1>10, <1>12, <2>1 DEF ComposeEntry
<1>18. cur_offset + n <= Total
  BY <1>1, <1>7, <1>8, <1>9, <1>13, <1>14
<1>19. PICK a \in Nat : a = offset + Lengths(list)
  BY <1>1
<1>20. a \in Nat /\ Total \in Nat \ {0} /\ a % Total = cur_offset
  BY <1>1, <1>4, <1>19
<1>21. Piece(f, Lengths(list), EventWords)
  <2>1. SUFFICES ASSUME NEW w \in 1..n
                 PROVE  EventWords[Lengths(list) + w] = f.pointer + w - 1
    BY <1>16 DEF Piece
  <2>2. w - 1 \in Nat /\ cur_offset + (w - 1) < Total
    BY <1>1, <1>13, <1>18, <2>1
  <2>3. (a + (w - 1)) % Total = cur_offset + (w - 1)
    <3>1. (a % Total) + (w - 1) < Total
      BY <1>20, <2>2
    <3>2. (a + (w - 1)) % Total = (a % Total) + (w - 1)
      BY <1>20, <2>2, <3>1, ModStep
    <3>3. QED
      BY <1>20, <3>2
  <2>4. Lengths(list) + w \in 1..size
    BY <1>1, <1>13, <2>1
  <2>5. EventWords[Lengths(list) + w] =
            Buffer[1 + ((offset + (Lengths(list) + w) - 1) % Total)]
    BY <2>4 DEF EventWords, Buffer
  <2>6. offset + (Lengths(list) + w) - 1 = a + (w - 1)
    BY <1>1, <1>19, <2>1, <1>13
  <2>7. EventWords[Lengths(list) + w] = Buffer[1 + (cur_offset + (w - 1))]
    BY <2>3, <2>5, <2>6
  <2>8. 1 + (cur_offset + (w - 1)) = cur_offset + w
    BY <1>1, <1>13, <2>1
  <2>9. QED
    BY <1>16, <2>1, <2>7, <2>8 DEF Piece
<1>22. cur_offset' \in 0..Total-1 /\ cur_offset' = (offset + Lengths(list) + n) % Total
  <2>1. (offset + Lengths(list) + n) = a + n
    BY <1>19
  <2>2. CASE cur_offset + n = Total
    <3>1. (a + n) % Total = 0
      <4>1. PICK m \in Nat, t \in Nat \ {0} : m = n /\ t = Total
        BY <1>13, <1>20
      <4>2. (a % t) + m = t
        BY <1>20, <2>2, <4>1
      <4>3. (a + m) % t = 0
        BY <4>2, ModStep, Zenon
      <4>4. QED
        BY <4>1, <4>3
    <3>2. cur_offset' = 0 /\ 0 \in 0..Total-1
      BY <1>17, <1>20, <2>2 DEF Wrap
    <3>3. QED
      BY <2>1, <3>1, <3>2
  <2>3. CASE cur_offset + n # Total
    <3>1. cur_offset + n < Total /\ cur_offset + n \in 0..Total-1
      BY <1>1, <1>13, <1>18, <2>3
    <3>2. (a + n) % Total = cur_offset + n
      <4>1. PICK m \in Nat, t \in Nat \ {0} : m = n /\ t = Total
        BY <1>13, <1>20
      <4>2. (a % t) + m < t
        BY <1>20, <3>1, <4>1
      <4>3. (a + m) % t = (a % t) + m
        BY <4>2, ModStep, Zenon
      <4>4. QED
        BY <1>20, <4>1, <4>3
    <3>3. QED
      BY <1>17, <2>1, <2>3, <3>1, <3>2 DEF Wrap
  <2>4. QED
    BY <2>2, <2>3
<1>23. Expressible(f) /\ InPage(f)
  <2>1. Expressible(f)
    BY <1>13, <1>16 DEF Expressible
  <2>2. f.pointer % PageSize # 0 => (f.pointer % PageSize) + n <= PageSize
    <3>1. f.pointer = p.phys_addr /\ f.pointer \in Nat
      BY <1>7, <1>8, <1>16
    <3>2. f.pointer % PageSize \in Nat
      <4>1. PageSize \in Nat \ {0}
        OBVIOUS
      <4>2. f.pointer % PageSize \in 0..PageSize-1
        BY <3>1, <4>1, DivMod
      <4>3. QED
        BY <4>1, <4>2
    <3>3. QED
      BY <1>11, <1>13, <3>1, <3>2
  <2>3. QED
    BY <1>16, <2>1, <2>2 DEF InPage
<1>24. QED
  BY <1>4, <1>13, <1>16, <1>17, <1>21, <1>22, <1>23

-----------------------------------------------------------------------------
(* Every step preserves the invariant.                                      *)

\* The kernel's list does not change, and with it the buffer.
LEMMA BufferKept ==
    ASSUME [Next]_vars
    PROVE  scatter' = scatter /\ Total' = Total /\ Buffer' = Buffer
<1>1. scatter' = scatter
  BY DEF Next, vars, CallConfigure, CallCompose, LoadEntry, MergeNext, PushEntry, LoadDone,
         LoadFails, CountEntries, PollReports, SplitEntry, KeepEntry, PrepareDone, WriteEntry, ClearTrailing, ComposeEntry, ComposeFails,
         ComposeDone, CallAnnounce, AnnounceEntry, AnnounceDone, DeviceReads, ReleaseEvent
<1>2. QED
  BY <1>1 DEF Total, Buffer

LEMMA EventKept ==
    ASSUME scatter' = scatter, offset' = offset, size' = size
    PROVE  EventWords' = EventWords
BY DEF EventWords, Total

\* configureBufferDescriptorRam() starts with empty lists, before or after the
\* list of the buffer has been read.
LEMMA CallConfigureStep == TypeOK /\ ListInv /\ CallConfigure => TypeOK' /\ ListInv'
<1>1. SUFFICES ASSUME TypeOK, CallInv, LoadInv, PrepareInv, PushInv, ComposeInv, AnnounceInv,
                      CallConfigure
               PROVE  TypeOK' /\ ListInv'
  BY DEF ListInv
<1>2. scatter' = scatter /\ Total' = Total /\ Buffer' = Buffer
  BY <1>1, BufferKept DEF Next
<1>3. TypeOK'
  BY <1>1, <1>2, ListTypes, SumsEmpty, SMTT(30) DEF TypeOK, CallInv, CallConfigure,
     bufferVars, deviceVars, NewList, NoSegment
<1>4. CallInv'
  BY <1>1, <1>2 DEF CallInv, CallConfigure, bufferVars, deviceVars, NewList, NoSegment
<1>5. LoadInv'
  <2>1. Sums(scatter)[0] = 0 /\ Lengths(<<>>) = 0
    BY <1>1, ListTypes, SumsDef, SumsEmpty
  <2>2. QED
    BY <1>1, <1>2, <2>1 DEF LoadInv, CallInv, CallConfigure, bufferVars, deviceVars,
       NewList, NoSegment
<1>6. PrepareInv'
  <2>1. Drawn(<<>>, Buffer) /\ Lengths(<<>>) = 0 /\ Len(<<>>) = 0
    BY DrawnEmpty, SumsEmpty
  <2>2. Sums(m_sglist_vector)[0] = 0
    BY <1>1, ListTypes, SumsDef
  <2>3. \A k \in 1..Len(m_sglist_vector) : 0 < m_sglist_vector[k].length
    BY <1>1 DEF LoadInv, Aligned
  <2>4. QED
    BY <1>1, <1>2, <2>1, <2>2, <2>3, ListTypes DEF PrepareInv, CallInv, CallConfigure,
       bufferVars, deviceVars, NewList, NoSegment
<1>7. PushInv'
  BY <1>1, <1>2 DEF PushInv, CallInv, Written, CallConfigure, bufferVars, deviceVars,
     NewList, NoSegment
<1>8. ComposeInv'
  <2>1. Drawn(<<>>, EventWords') /\ Lengths(<<>>) = 0 /\ Len(<<>>) = 0
    BY DrawnEmpty, SumsEmpty
  <2>2. Total \in Nat /\ \A o \in 0..Total-1 : o % Total = o
    BY <1>1, ListTypes, ModSmall
  <2>3. QED
    BY <1>1, <1>2, <2>1, <2>2 DEF ComposeInv, CallInv, CallConfigure, bufferVars,
       deviceVars, NewList, NoSegment
<1>9. AnnounceInv'
  BY <1>1, <1>2 DEF AnnounceInv, CallInv, Descriptor, Descriptors, CallConfigure,
     bufferVars, deviceVars, NewList, NoSegment
<1>10. QED
  BY <1>3, <1>4, <1>5, <1>6, <1>7, <1>8, <1>9 DEF ListInv

LEMMA CallComposeStep == TypeOK /\ ListInv /\ CallCompose => TypeOK' /\ ListInv'
<1>1. SUFFICES ASSUME TypeOK, CallInv, LoadInv, PrepareInv, PushInv, ComposeInv, AnnounceInv,
                      CallCompose
               PROVE  TypeOK' /\ ListInv'
  BY DEF ListInv
<1>2. scatter' = scatter /\ Total' = Total /\ Buffer' = Buffer
  BY <1>1, BufferKept DEF Next
<1>3. TypeOK'
  <2>1. Total \in Nat /\ Len(m_sglist_vector) \in Nat /\ Len(scatter) \in Nat
    BY <1>1, ListTypes
  <2>2. /\ cur_offset' \in 0..Total /\ rem_size' \in 0..size'
        /\ list' = <<>> /\ <<>> \in Seq(Entries)
        /\ m_sglist_vector' = m_sglist_vector /\ newlist' = <<>>
    BY <1>1, <2>1, SumsEmpty DEF CallCompose, bufferVars, NewList
  <2>3. {m_sglist_vector', newlist', list'} \subseteq Seq(Entries)
    BY <1>1, <2>2, ListTypes
  <2>4. QED
    BY <1>1, <1>2, <2>1, <2>2, <2>3 DEF TypeOK, CallCompose, bufferVars, deviceVars, NewList
<1>4. CallInv'
  BY <1>1, <1>2 DEF CallInv, CallCompose, bufferVars, deviceVars, NewList
<1>5. LoadInv'
  <2>1. Sums(scatter)[0] = 0 /\ Lengths(<<>>) = 0
    BY <1>1, ListTypes, SumsDef, SumsEmpty
  <2>2. QED
    BY <1>1, <1>2, <2>1 DEF LoadInv, CallInv, CallCompose, bufferVars, deviceVars, NewList
<1>6. PrepareInv'
  <2>1. Drawn(<<>>, Buffer) /\ Lengths(<<>>) = 0 /\ Len(<<>>) = 0
    BY DrawnEmpty, SumsEmpty
  <2>2. Sums(m_sglist_vector)[0] = 0
    BY <1>1, ListTypes, SumsDef
  <2>3. \A k \in 1..Len(m_sglist_vector) : 0 < m_sglist_vector[k].length
    BY <1>1 DEF LoadInv, Aligned
  <2>4. QED
    BY <1>1, <1>2, <2>1, <2>2, <2>3, ListTypes DEF PrepareInv, CallInv, CallCompose,
       bufferVars, deviceVars, NewList
<1>7. PushInv'
  BY <1>1, <1>2 DEF PushInv, CallInv, Written, CallCompose, bufferVars, deviceVars, NewList
<1>8. ComposeInv'
  <2>1. Drawn(<<>>, EventWords') /\ Lengths(<<>>) = 0 /\ Len(<<>>) = 0
    BY DrawnEmpty, SumsEmpty
  <2>2. Total \in Nat /\ \A o \in 0..Total-1 : o % Total = o
    BY <1>1, ListTypes, ModSmall
  <2>3. QED
    BY <1>1, <1>2, <2>1, <2>2 DEF ComposeInv, CallInv, CallCompose, bufferVars,
       deviceVars, NewList
<1>9. AnnounceInv'
  BY <1>1, <1>2 DEF AnnounceInv, CallInv, Descriptor, Descriptors, CallCompose, bufferVars,
     deviceVars, NewList
<1>10. QED
  BY <1>3, <1>4, <1>5, <1>6, <1>7, <1>8, <1>9 DEF ListInv

\* The entry read continues the list where the last one pushed ended.
LEMMA LoadEntryStep == TypeOK /\ ListInv /\ LoadEntry => TypeOK' /\ ListInv'
<1>1. SUFFICES ASSUME TypeOK, CallInv, LoadInv, PrepareInv, PushInv, ComposeInv, AnnounceInv,
                      LoadEntry
               PROVE  TypeOK' /\ ListInv'
  BY DEF ListInv
<1>2. scatter' = scatter /\ Total' = Total /\ Buffer' = Buffer
  BY <1>1, BufferKept DEF Next
<1>3. TypeOK'
  <2>1. i \in 1..Len(scatter)
    BY <1>1, ListTypes DEF TypeOK, LoadEntry
  <2>2. entry' \in Entries
    BY <1>1, <2>1, ListTypes, EntryType DEF LoadEntry, Entry, Entries
  <2>3. QED
    BY <1>1, <1>2, <2>2 DEF TypeOK, CallInv, LoadEntry, bufferVars, prepareVars,
       deviceVars, composeVars
<1>4. CallInv'
  BY <1>1, <1>2 DEF CallInv, LoadEntry, bufferVars, prepareVars, deviceVars, composeVars
<1>5. LoadInv'
  <2>1. i \in 1..Len(scatter)
    BY <1>1, ListTypes DEF TypeOK, LoadEntry
  <2>2. scatter[i] \in Entries
    BY <1>1, <2>1, ListTypes, EntryType
  <2>3. entry' = scatter[i]
    BY <1>1, <2>2 DEF LoadEntry, Entry, Entries
  <2>4. /\ Aligned(scatter[i]) /\ Piece(scatter[i], Sums(scatter)[i - 1], Buffer)
        /\ Sums(scatter)[i] = Sums(scatter)[i - 1] + scatter[i].length
    BY <1>1, <2>1, KernelList DEF CallInv
  <2>5. QED
    BY <1>1, <1>2, <2>1, <2>3, <2>4 DEF LoadInv, CallInv, LoadEntry, bufferVars,
       prepareVars, deviceVars, composeVars
<1>6. PrepareInv'
  BY <1>1, <1>2 DEF PrepareInv, CallInv, LoadEntry, bufferVars, prepareVars, deviceVars,
     composeVars
<1>7. PushInv'
  BY <1>1, <1>2 DEF PushInv, CallInv, Written, LoadEntry, bufferVars, prepareVars,
     deviceVars, composeVars
<1>8. ComposeInv'
  BY <1>1, <1>2, EventKept DEF ComposeInv, CallInv, LoadEntry, bufferVars, prepareVars,
     deviceVars, composeVars
<1>9. AnnounceInv'
  BY <1>1, <1>2 DEF AnnounceInv, CallInv, Descriptor, Descriptors, LoadEntry, bufferVars,
     prepareVars, deviceVars, composeVars
<1>10. QED
  BY <1>3, <1>4, <1>5, <1>6, <1>7, <1>8, <1>9 DEF ListInv

\* The merged entry covers both: the second starts where the first ends.
LEMMA MergeNextStep == TypeOK /\ ListInv /\ MergeNext => TypeOK' /\ ListInv'
<1>1. SUFFICES ASSUME TypeOK, CallInv, LoadInv, PrepareInv, PushInv, ComposeInv, AnnounceInv,
                      MergeNext
               PROVE  TypeOK' /\ ListInv'
  BY DEF ListInv
<1>2. scatter' = scatter /\ Total' = Total /\ Buffer' = Buffer
  BY <1>1, BufferKept DEF Next
<1>3. TypeOK'
  <2>1. i + 1 \in 1..Len(scatter)
    <3>1. i \in 1..Len(scatter)+1 /\ Len(scatter) \in Nat
      BY <1>1, ListTypes DEF TypeOK
    <3>2. i < Len(scatter)
      BY <1>1 DEF MergeNext, Mergeable
    <3>3. QED
      BY <3>1, <3>2
  <2>2. entry' \in Entries
    <3>1. scatter[i + 1].length \in Nat
      BY <1>1, <2>1, ListTypes, EntryType
    <3>2. entry.length + scatter[i + 1].length \in Nat
      BY <1>1, <3>1, ListTypes
    <3>3. entry' = [entry EXCEPT !.length = entry.length + scatter[i + 1].length]
      BY <1>1 DEF MergeNext
    <3>4. entry \in Entries
      BY <1>1, ListTypes
    <3>5. QED
      BY <3>2, <3>3, <3>4 DEF Entries
  <2>3. i' \in 1..Len(scatter)+1
    BY <1>1, <2>1, ListTypes DEF MergeNext
  <2>4. QED
    BY <1>1, <1>2, <2>3, <2>2 DEF TypeOK, CallInv, MergeNext, bufferVars, prepareVars,
       deviceVars, composeVars
<1>4. CallInv'
  BY <1>1, <1>2 DEF CallInv, MergeNext, bufferVars, prepareVars, deviceVars, composeVars
<1>5. LoadInv'
  <2>1. i \in Nat /\ i + 1 \in 1..Len(scatter) /\ (i + 1) - 1 = i
    <3>1. i \in 1..Len(scatter)+1 /\ Len(scatter) \in Nat
      BY <1>1, ListTypes DEF TypeOK
    <3>2. i < Len(scatter)
      BY <1>1 DEF MergeNext, Mergeable
    <3>3. QED
      BY <3>1, <3>2
  <2>2. PICK next : next = scatter[i + 1]
    OBVIOUS
  <2>3. /\ next.pointer \in Nat /\ next.length \in Nat
        /\ Aligned(next) /\ Piece(next, Sums(scatter)[i], Buffer)
        /\ Sums(scatter)[i + 1] = Sums(scatter)[i] + next.length
    <3>1. next.pointer \in Nat /\ next.length \in Nat
      BY <1>1, <2>1, <2>2, ListTypes, EntryType
    <3>2. /\ Aligned(next) /\ Piece(next, Sums(scatter)[(i + 1) - 1], Buffer)
          /\ Sums(scatter)[i + 1] = Sums(scatter)[(i + 1) - 1] + next.length
      BY <1>1, <2>1, <2>2, KernelList DEF CallInv
    <3>3. QED
      BY <2>1, <3>1, <3>2
  <2>4. /\ Lengths(m_sglist_vector) + entry.length = Sums(scatter)[i]
        /\ Piece(entry, Lengths(m_sglist_vector), Buffer) /\ Aligned(entry)
        /\ Lengths(m_sglist_vector) \in Nat /\ entry.pointer \in Nat /\ entry.length \in Nat
    BY <1>1, ListTypes, SumsDef DEF LoadInv, MergeNext
  <2>5. /\ entry.pointer + entry.length = next.pointer
        /\ entry'.pointer = entry.pointer /\ entry'.length = entry.length + next.length
    BY <1>1, <2>2, ListTypes DEF MergeNext, Mergeable, Entries
  <2>6. Lengths(m_sglist_vector) + entry'.length = Sums(scatter)[i + 1]
    BY <2>3, <2>4, <2>5
  <2>7. Piece(entry', Lengths(m_sglist_vector), Buffer)
    <3>1. SUFFICES ASSUME NEW w \in 1..entry'.length
                   PROVE  Buffer[Lengths(m_sglist_vector) + w] = entry'.pointer + w - 1
      BY DEF Piece
    <3>2. CASE w <= entry.length
      BY <2>4, <2>5, <3>1, <3>2 DEF Piece
    <3>3. CASE ~ (w <= entry.length)
      <4>1. PICK v : v = w - entry.length
        OBVIOUS
      <4>2. v \in 1..next.length /\ w = entry.length + v
        BY <2>3, <2>4, <2>5, <3>1, <3>3, <4>1
      <4>3. Buffer[Sums(scatter)[i] + v] = next.pointer + v - 1
        BY <2>3, <4>2 DEF Piece
      <4>4. Lengths(m_sglist_vector) + w = Sums(scatter)[i] + v
        BY <2>3, <2>4, <4>2
      <4>5. QED
        BY <2>3, <2>4, <2>5, <4>2, <4>3, <4>4
    <3>4. QED
      BY <3>2, <3>3
  <2>8. Aligned(entry')
    <3>1. entry.length % PageSize = 0 /\ next.length % PageSize = 0 /\ entry.length > 0
      BY <2>3, <2>4 DEF Aligned
    <3>2. (entry.length + next.length) % PageSize = 0
      BY <2>3, <2>4, <3>1, ModSum
    <3>3. QED
      BY <2>3, <2>4, <2>5, <3>1, <3>2 DEF Aligned
  <2>9. QED
    BY <1>1, <1>2, <2>1, <2>6, <2>7, <2>8, ListTypes DEF LoadInv, CallInv, MergeNext,
       bufferVars, prepareVars, deviceVars, composeVars
<1>6. PrepareInv'
  BY <1>1, <1>2 DEF PrepareInv, CallInv, MergeNext, bufferVars, prepareVars, deviceVars,
     composeVars
<1>7. PushInv'
  BY <1>1, <1>2 DEF PushInv, CallInv, Written, MergeNext, bufferVars, prepareVars,
     deviceVars, composeVars
<1>8. ComposeInv'
  BY <1>1, <1>2, EventKept DEF ComposeInv, CallInv, MergeNext, bufferVars, prepareVars,
     deviceVars, composeVars
<1>9. AnnounceInv'
  BY <1>1, <1>2 DEF AnnounceInv, CallInv, Descriptor, Descriptors, MergeNext, bufferVars,
     prepareVars, deviceVars, composeVars
<1>10. QED
  BY <1>3, <1>4, <1>5, <1>6, <1>7, <1>8, <1>9 DEF ListInv

LEMMA PushEntryStep == TypeOK /\ ListInv /\ PushEntry => TypeOK' /\ ListInv'
<1>1. SUFFICES ASSUME TypeOK, CallInv, LoadInv, PrepareInv, PushInv, ComposeInv, AnnounceInv,
                      PushEntry
               PROVE  TypeOK' /\ ListInv'
  BY DEF ListInv
<1>2. scatter' = scatter /\ Total' = Total /\ Buffer' = Buffer
  BY <1>1, BufferKept DEF Next
<1>3. TypeOK'
  <2>1. m_sglist_vector' \in Seq(Entries) /\ Len(m_sglist_vector') = Len(m_sglist_vector) + 1
    BY <1>1, ListTypes DEF PushEntry
  <2>2. i + 1 \in 1..Len(scatter)+1
    BY <1>1, ListTypes DEF TypeOK, LoadInv, PushEntry
  <2>3. QED
    BY <1>1, <1>2, <2>1, <2>2, ListTypes DEF TypeOK, CallInv, PushEntry, prepareVars,
       deviceVars, composeVars
<1>4. CallInv'
  BY <1>1, <1>2 DEF CallInv, PushEntry, prepareVars, deviceVars, composeVars
<1>5. LoadInv'
  <2>1. /\ Lengths(m_sglist_vector') = Lengths(m_sglist_vector) + entry.length
        /\ Drawn(m_sglist_vector', Buffer)
    BY <1>1, ListTypes, SumsAppend, DrawnAppend DEF LoadInv, PushEntry
  <2>2. \A k \in 1..Len(m_sglist_vector') : Aligned(m_sglist_vector'[k])
    BY <1>1, ListTypes DEF LoadInv, PushEntry
  <2>3. (i + 1) - 1 = i
    BY <1>1 DEF TypeOK
  <2>4. QED
    BY <1>1, <1>2, <2>1, <2>2, <2>3 DEF LoadInv, CallInv, PushEntry, prepareVars,
       deviceVars, composeVars
<1>6. PrepareInv'
  BY <1>1, <1>2 DEF PrepareInv, CallInv, PushEntry, prepareVars, deviceVars, composeVars
<1>7. PushInv'
  BY <1>1, <1>2 DEF PushInv, CallInv, Written, PushEntry, prepareVars, deviceVars, composeVars
<1>8. ComposeInv'
  BY <1>1, <1>2, EventKept DEF ComposeInv, CallInv, PushEntry, prepareVars, deviceVars,
     composeVars
<1>9. AnnounceInv'
  BY <1>1, <1>2 DEF AnnounceInv, CallInv, Descriptor, Descriptors, PushEntry, prepareVars,
     deviceVars, composeVars
<1>10. QED
  BY <1>3, <1>4, <1>5, <1>6, <1>7, <1>8, <1>9 DEF ListInv

LEMMA LoadDoneStep == TypeOK /\ ListInv /\ LoadDone => TypeOK' /\ ListInv'
<1>1. SUFFICES ASSUME TypeOK, CallInv, LoadInv, PrepareInv, PushInv, ComposeInv, AnnounceInv,
                      LoadDone
               PROVE  TypeOK' /\ ListInv'
  BY DEF ListInv
<1>2. scatter' = scatter /\ Total' = Total /\ Buffer' = Buffer
  BY <1>1, BufferKept DEF Next
<1>3. TypeOK'
  BY <1>1, <1>2 DEF TypeOK, CallInv, LoadDone, loadVars, prepareVars, deviceVars, composeVars
<1>4. CallInv'
  BY <1>1, <1>2 DEF CallInv, LoadDone, loadVars, prepareVars, deviceVars, composeVars
<1>5. LoadInv'
  <2>1. i - 1 = Len(scatter)
    <3>1. i \in 1..Len(scatter)+1 /\ Len(scatter) \in Nat
      BY <1>1, ListTypes DEF TypeOK
    <3>2. i > Len(scatter)
      BY <1>1 DEF LoadDone
    <3>3. QED
      BY <3>1, <3>2
  <2>2. QED
    BY <1>1, <1>2, <2>1, ListTypes DEF LoadInv, CallInv, LoadDone, loadVars, prepareVars,
       deviceVars, composeVars
<1>6. PrepareInv'
  <2>1. Drawn(<<>>, Buffer) /\ Lengths(<<>>) = 0 /\ Len(<<>>) = 0
    BY DrawnEmpty, SumsEmpty
  <2>2. Sums(m_sglist_vector)[0] = 0
    BY <1>1, ListTypes, SumsDef
  <2>3. \A k \in 1..Len(m_sglist_vector) : 0 < m_sglist_vector[k].length
    BY <1>1 DEF LoadInv, Aligned
  <2>4. iter = 1 /\ split = 0 /\ newlist = <<>> /\ entry_addr = 0 /\ iter - 1 = 0
    BY <1>1 DEF PrepareInv, LoadDone
  <2>5. /\ iter' = iter /\ split' = split /\ newlist' = newlist /\ entry_addr' = entry_addr
        /\ m_sglist_vector' = m_sglist_vector /\ pc' \notin {"load", "merge"}
    BY <1>1 DEF LoadDone, prepareVars
  <2>6. Len(m_sglist_vector) \in Nat
    BY <1>1, ListTypes
  <2>7. QED
    BY <1>2, <2>1, <2>2, <2>3, <2>4, <2>5, <2>6 DEF PrepareInv
<1>7. PushInv'
  BY <1>1, <1>2 DEF PushInv, CallInv, Written, LoadDone, loadVars, prepareVars, deviceVars,
     composeVars
<1>8. ComposeInv'
  BY <1>1, <1>2, EventKept DEF ComposeInv, CallInv, LoadDone, loadVars, prepareVars,
     deviceVars, composeVars
<1>9. AnnounceInv'
  BY <1>1, <1>2 DEF AnnounceInv, CallInv, Descriptor, Descriptors, LoadDone, loadVars,
     prepareVars, deviceVars, composeVars
<1>10. QED
  BY <1>3, <1>4, <1>5, <1>6, <1>7, <1>8, <1>9 DEF ListInv

\* A list that cannot be read stays empty.
LEMMA LoadFailsStep == TypeOK /\ ListInv /\ LoadFails => TypeOK' /\ ListInv'
<1>1. SUFFICES ASSUME TypeOK, CallInv, LoadInv, PrepareInv, PushInv, ComposeInv, AnnounceInv,
                      LoadFails
               PROVE  TypeOK' /\ ListInv'
  BY DEF ListInv
<1>2. scatter' = scatter /\ Total' = Total /\ Buffer' = Buffer
  BY <1>1, BufferKept DEF Next
<1>3. TypeOK'
  BY <1>1, <1>2 DEF TypeOK, CallInv, LoadFails, bufferVars, loadVars, prepareVars, composeVars,
     Return
<1>4. CallInv'
  BY <1>1, <1>2 DEF CallInv, LoadFails, bufferVars, loadVars, prepareVars, composeVars, Return
<1>5. m_sglist_vector = <<>> /\ ~ m_sglist_initialized
  <2>1. Lengths(m_sglist_vector) = Sums(scatter)[i - 1] /\ i = 1 /\ i - 1 = 0
    BY <1>1 DEF LoadInv, LoadFails
  <2>2. Sums(scatter)[0] = 0
    BY <1>1, ListTypes, SumsDef
  <2>3. Lengths(m_sglist_vector) = 0
    BY <2>1, <2>2
  <2>4. \A k \in 1..Len(m_sglist_vector) : 0 < m_sglist_vector[k].length
    BY <1>1 DEF LoadInv, Aligned
  <2>5. m_sglist_vector \in Seq(Entries) /\ Len(m_sglist_vector) \in Nat
    BY <1>1, ListTypes
  <2>6. m_sglist_vector = <<>>
    BY <2>3, <2>4, <2>5, EmptyByLength
  <2>7. QED
    BY <1>1, <2>6 DEF CallInv, LoadFails
<1>6. LoadInv'
  BY <1>1, <1>2, <1>5 DEF LoadInv, LoadFails, bufferVars, Return
<1>7. PrepareInv'
  <2>1. iter = 1 /\ split = 0 /\ newlist = <<>> /\ entry_addr = 0 /\ iter - 1 = 0
    BY <1>1 DEF PrepareInv, LoadFails
  <2>2. Sums(m_sglist_vector)[0] = 0 /\ Lengths(newlist) = 0 /\ Len(m_sglist_vector) = 0
        /\ Len(newlist) = 0 /\ Drawn(newlist, Buffer)
    BY <1>1, <1>5, <2>1, ListTypes, SumsDef, SumsEmpty, DrawnEmpty
  <2>3. UNCHANGED <<m_sglist_vector, iter, split, newlist, entry_addr>>
    BY <1>1 DEF LoadFails, bufferVars, prepareVars
  <2>4. QED
    BY <1>2, <2>1, <2>2, <2>3 DEF PrepareInv
<1>8. PushInv'
  BY <1>1 DEF PushInv, CallInv, Written, LoadFails, prepareVars, Return
<1>9. ComposeInv'
  BY <1>1, <1>2, <1>5, EventKept
  DEF ComposeInv, CallInv, LoadFails, bufferVars, composeVars, Return
<1>10. AnnounceInv'
  BY <1>1, <1>2 DEF AnnounceInv, CallInv, Descriptor, Descriptors, LoadFails, prepareVars,
     composeVars, Return
<1>11. QED
  BY <1>3, <1>4, <1>6, <1>7, <1>8, <1>9, <1>10 DEF ListInv

\* getnSGEntries() reads the list after all.
LEMMA CountEntriesStep == TypeOK /\ ListInv /\ CountEntries => TypeOK' /\ ListInv'
<1>1. SUFFICES ASSUME TypeOK, CallInv, LoadInv, PrepareInv, PushInv, ComposeInv, AnnounceInv,
                      CountEntries
               PROVE  TypeOK' /\ ListInv'
  BY DEF ListInv
<1>2. scatter' = scatter /\ Total' = Total /\ Buffer' = Buffer
  BY <1>1, BufferKept DEF Next
<1>3. TypeOK'
  BY <1>1, <1>2, ListTypes
  DEF TypeOK, CallInv, CountEntries, loadVars, prepareVars, composeVars, Return
<1>4. CallInv'
  BY <1>1, <1>2 DEF CallInv, CountEntries, loadVars, prepareVars, composeVars, Return
<1>5. LoadInv'
  <2>1. i - 1 = Len(scatter)
    <3>1. i \in 1..Len(scatter)+1 /\ Len(scatter) \in Nat
      BY <1>1, ListTypes DEF TypeOK
    <3>2. i > Len(scatter)
      BY <1>1 DEF CountEntries
    <3>3. QED
      BY <3>1, <3>2
  <2>2. QED
    BY <1>1, <1>2, <2>1, ListTypes DEF LoadInv, CountEntries, Return
<1>6. PrepareInv'
  BY <1>1, <1>2 DEF PrepareInv, CountEntries, prepareVars, Return
<1>7. PushInv'
  BY <1>1 DEF PushInv, CallInv, Written, CountEntries, prepareVars, Return
<1>8. ComposeInv'
  BY <1>1, <1>2, EventKept DEF ComposeInv, CallInv, CountEntries, composeVars, Return
<1>9. AnnounceInv'
  BY <1>1, <1>2 DEF AnnounceInv, CallInv, Descriptor, Descriptors, CountEntries, prepareVars,
     composeVars, Return
<1>10. QED
  BY <1>3, <1>4, <1>5, <1>6, <1>7, <1>8, <1>9 DEF ListInv

\* The part split off covers the words behind the parts before it, and leaves
\* at least a page of the entry.
LEMMA SplitEntryStep == TypeOK /\ ListInv /\ SplitEntry => TypeOK' /\ ListInv'
<1>1. SUFFICES ASSUME TypeOK, CallInv, LoadInv, PrepareInv, PushInv, ComposeInv, AnnounceInv,
                      SplitEntry
               PROVE  TypeOK' /\ ListInv'
  BY DEF ListInv
<1>2. scatter' = scatter /\ Total' = Total /\ Buffer' = Buffer
  BY <1>1, BufferKept DEF Next
<1>3. TypeOK'
  <2>1. iter \in 1..Len(m_sglist_vector)
    <3>1. call = "configure"
      BY <1>1 DEF TypeOK, CallInv, SplitEntry
    <3>2. iter \in 1 .. 1 + Len(m_sglist_vector)
      BY <1>1, <3>1 DEF TypeOK
    <3>3. iter <= Len(m_sglist_vector) /\ Len(m_sglist_vector) \in Nat
      BY <1>1, ListTypes DEF SplitEntry
    <3>4. QED
      BY <3>2, <3>3
  <2>2. PICK e : e = m_sglist_vector[iter]
    OBVIOUS
  <2>3. /\ e \in Entries /\ e.pointer \in Nat /\ e.length \in Nat /\ split \in Nat
        /\ Sums(m_sglist_vector)[iter - 1] \in Nat
        /\ Sums(m_sglist_vector)[iter] = Sums(m_sglist_vector)[iter - 1] + e.length
    <3>1. split \in Nat
      BY <1>1 DEF TypeOK
    <3>2. e \in Entries
      BY <1>1, <2>1, <2>2, ListTypes, EntryType
    <3>3. QED
      BY <1>1, <2>1, <2>2, <3>1, <3>2, ListTypes
  <2>4. newlist' \in Seq(Entries)
    <3>1. Entry(e.pointer + split, SplitLength) \in Entries
      BY <2>3 DEF Entry, Entries, SplitLength
    <3>2. QED
      BY <1>1, <2>2, <3>1, ListTypes DEF SplitEntry
  <2>5. split' \in Nat
    BY <1>1, <2>3 DEF SplitEntry, SplitLength
  <2>6. QED
    BY <1>1, <1>2, <2>4, <2>5 DEF TypeOK, CallInv, SplitEntry, bufferVars, loadVars,
       deviceVars, composeVars
<1>4. CallInv'
  BY <1>1, <1>2 DEF CallInv, SplitEntry, bufferVars, loadVars, deviceVars, composeVars
<1>5. LoadInv'
  BY <1>1, <1>2 DEF LoadInv, CallInv, SplitEntry, bufferVars, loadVars, deviceVars, composeVars
<1>6. PrepareInv'
  <2>1. iter \in 1..Len(m_sglist_vector)
    <3>1. call = "configure"
      BY <1>1 DEF TypeOK, CallInv, SplitEntry
    <3>2. iter \in 1 .. 1 + Len(m_sglist_vector)
      BY <1>1, <3>1 DEF TypeOK
    <3>3. iter <= Len(m_sglist_vector) /\ Len(m_sglist_vector) \in Nat
      BY <1>1, ListTypes DEF SplitEntry
    <3>4. QED
      BY <3>2, <3>3
  <2>2. PICK e : e = m_sglist_vector[iter]
    OBVIOUS
  <2>3. /\ e \in Entries /\ e.pointer \in Nat /\ e.length \in Nat /\ split \in Nat
        /\ Sums(m_sglist_vector)[iter - 1] \in Nat
        /\ Sums(m_sglist_vector)[iter] = Sums(m_sglist_vector)[iter - 1] + e.length
    <3>1. split \in Nat
      BY <1>1 DEF TypeOK
    <3>2. e \in Entries
      BY <1>1, <2>1, <2>2, ListTypes, EntryType
    <3>3. QED
      BY <1>1, <2>1, <2>2, <3>1, <3>2, ListTypes
  <2>4. /\ Piece(e, Sums(m_sglist_vector)[iter - 1], Buffer)
        /\ Lengths(newlist) = Sums(m_sglist_vector)[iter - 1] + split
        /\ split < e.length
        /\ Drawn(newlist, Buffer)
        /\ \A k \in 1..Len(newlist) : Expressible(newlist[k])
        /\ entry_addr = 0
    BY <1>1, <2>1, <2>2 DEF LoadInv, PrepareInv, SplitEntry, Drawn
  <2>5. PICK n, f : n = SplitLength /\ f = Entry(e.pointer + split, n)
    OBVIOUS
  <2>6. n \in 1..Limit-1 /\ n \in Nat /\ split + n < e.length
    <3>1. e.length - split >= Limit
      BY <1>1, <2>2 DEF SplitEntry, Remaining
    <3>2. QED
      BY <2>3, <2>5, <3>1 DEF SplitLength
  <2>7. Piece(f, Lengths(newlist), Buffer) /\ f \in Entries
    BY <2>3, <2>4, <2>5, <2>6, PartOfPiece
  <2>8. newlist' = Append(newlist, f)
    BY <1>1, <2>2, <2>5 DEF SplitEntry
  <2>9. Drawn(newlist', Buffer) /\ Lengths(newlist') = Lengths(newlist) + n
    <3>1. f.length = n
      BY <2>5 DEF Entry
    <3>2. QED
      BY <1>1, <2>4, <2>7, <2>8, <3>1, ListTypes, DrawnAppend, SumsAppend
  <2>10. \A k \in 1..Len(newlist') : Expressible(newlist'[k])
    <3>1. Expressible(f)
      BY <2>5, <2>6 DEF Entry, Expressible
    <3>2. QED
      BY <1>1, <2>4, <2>7, <2>8, <3>1, ListTypes
  <2>11. /\ pc' = "prepare" /\ iter' = iter /\ split' = split + n /\ entry_addr' = entry_addr
         /\ m_sglist_vector' = m_sglist_vector
    BY <1>1, <2>5 DEF SplitEntry, bufferVars
  <2>12. Lengths(newlist') = Sums(m_sglist_vector)[iter - 1] + (split + n)
    BY <2>3, <2>4, <2>6, <2>9
  <2>13. ~ (iter > Len(m_sglist_vector))
    BY <1>1, <2>1, ListTypes
  <2>14. QED
    BY <1>2, <2>2, <2>4, <2>6, <2>9, <2>10, <2>11, <2>12, <2>13 DEF PrepareInv
<1>7. PushInv'
  BY <1>1, <1>2 DEF PushInv, CallInv, Written, SplitEntry, bufferVars, loadVars,
     deviceVars, composeVars
<1>8. ComposeInv'
  BY <1>1, <1>2, EventKept DEF ComposeInv, CallInv, SplitEntry, bufferVars, loadVars,
     deviceVars, composeVars
<1>9. AnnounceInv'
  BY <1>1, <1>2 DEF AnnounceInv, CallInv, Descriptor, Descriptors, SplitEntry, bufferVars,
     loadVars, deviceVars, composeVars
<1>10. QED
  BY <1>3, <1>4, <1>5, <1>6, <1>7, <1>8, <1>9 DEF ListInv

\* The rest of the entry completes it, and the next one is not empty.
LEMMA KeepEntryStep == TypeOK /\ ListInv /\ KeepEntry => TypeOK' /\ ListInv'
<1>1. SUFFICES ASSUME TypeOK, CallInv, LoadInv, PrepareInv, PushInv, ComposeInv, AnnounceInv,
                      KeepEntry
               PROVE  TypeOK' /\ ListInv'
  BY DEF ListInv
<1>2. scatter' = scatter /\ Total' = Total /\ Buffer' = Buffer
  BY <1>1, BufferKept DEF Next
<1>3. TypeOK'
  <2>1. iter \in 1..Len(m_sglist_vector)
    <3>1. call = "configure"
      BY <1>1 DEF TypeOK, CallInv, KeepEntry
    <3>2. iter \in 1 .. 1 + Len(m_sglist_vector)
      BY <1>1, <3>1 DEF TypeOK
    <3>3. iter <= Len(m_sglist_vector) /\ Len(m_sglist_vector) \in Nat
      BY <1>1, ListTypes DEF KeepEntry
    <3>4. QED
      BY <3>2, <3>3
  <2>2. PICK e : e = m_sglist_vector[iter]
    OBVIOUS
  <2>3. /\ e \in Entries /\ e.pointer \in Nat /\ e.length \in Nat /\ split \in Nat
        /\ Sums(m_sglist_vector)[iter - 1] \in Nat
        /\ Sums(m_sglist_vector)[iter] = Sums(m_sglist_vector)[iter - 1] + e.length
    <3>1. split \in Nat
      BY <1>1 DEF TypeOK
    <3>2. e \in Entries
      BY <1>1, <2>1, <2>2, ListTypes, EntryType
    <3>3. QED
      BY <1>1, <2>1, <2>2, <3>1, <3>2, ListTypes
  <2>4. newlist' \in Seq(Entries)
    <3>1. split < e.length
      BY <1>1, <2>1, <2>2 DEF PrepareInv, KeepEntry
    <3>2. Remaining = e.length - split /\ Remaining \in Nat
      BY <2>2, <2>3, <3>1 DEF Remaining
    <3>3. Entry(e.pointer + split, Remaining) \in Entries
      BY <2>3, <3>2 DEF Entry, Entries
    <3>4. QED
      BY <1>1, <2>2, <3>3, ListTypes DEF KeepEntry
  <2>5. iter' \in 1 .. 1 + Len(m_sglist_vector) /\ call # "announce"
    BY <1>1, <2>1, ListTypes DEF KeepEntry, CallInv
  <2>6. QED
    BY <1>1, <1>2, <2>4, <2>5 DEF TypeOK, CallInv, KeepEntry, bufferVars, loadVars,
       deviceVars, composeVars
<1>4. CallInv'
  BY <1>1, <1>2 DEF CallInv, KeepEntry, bufferVars, loadVars, deviceVars, composeVars
<1>5. LoadInv'
  BY <1>1, <1>2 DEF LoadInv, CallInv, KeepEntry, bufferVars, loadVars, deviceVars, composeVars
<1>6. PrepareInv'
  <2>1. iter \in 1..Len(m_sglist_vector)
    <3>1. call = "configure"
      BY <1>1 DEF TypeOK, CallInv, KeepEntry
    <3>2. iter \in 1 .. 1 + Len(m_sglist_vector)
      BY <1>1, <3>1 DEF TypeOK
    <3>3. iter <= Len(m_sglist_vector) /\ Len(m_sglist_vector) \in Nat
      BY <1>1, ListTypes DEF KeepEntry
    <3>4. QED
      BY <3>2, <3>3
  <2>2. PICK e : e = m_sglist_vector[iter]
    OBVIOUS
  <2>3. /\ e \in Entries /\ e.pointer \in Nat /\ e.length \in Nat /\ split \in Nat
        /\ Sums(m_sglist_vector)[iter - 1] \in Nat
        /\ Sums(m_sglist_vector)[iter] = Sums(m_sglist_vector)[iter - 1] + e.length
    <3>1. split \in Nat
      BY <1>1 DEF TypeOK
    <3>2. e \in Entries
      BY <1>1, <2>1, <2>2, ListTypes, EntryType
    <3>3. QED
      BY <1>1, <2>1, <2>2, <3>1, <3>2, ListTypes
  <2>4. /\ Piece(e, Sums(m_sglist_vector)[iter - 1], Buffer)
        /\ Lengths(newlist) = Sums(m_sglist_vector)[iter - 1] + split
        /\ split < e.length
        /\ Drawn(newlist, Buffer)
        /\ \A k \in 1..Len(newlist) : Expressible(newlist[k])
        /\ entry_addr = 0
    BY <1>1, <2>1, <2>2 DEF LoadInv, PrepareInv, KeepEntry, Drawn
  <2>5. PICK n, f : n = Remaining /\ f = Entry(e.pointer + split, n)
    OBVIOUS
  <2>6. n \in 1..Limit-1 /\ n \in Nat /\ split + n = e.length
    <3>1. n = e.length - split /\ n < Limit
      BY <1>1, <2>2, <2>5 DEF KeepEntry, Remaining
    <3>2. split < e.length /\ split \in Nat /\ e.length \in Nat
      BY <2>3, <2>4
    <3>3. PICK d : d = e.length
      OBVIOUS
    <3>4. n = d - split /\ n < Limit /\ split < d /\ split \in Nat /\ d \in Nat
      BY <3>1, <3>2, <3>3
    <3>5. n \in 1..Limit-1 /\ n \in Nat /\ split + n = d
      BY <3>4
    <3>6. QED
      BY <3>3, <3>5
  <2>7. Piece(f, Lengths(newlist), Buffer) /\ f \in Entries
    BY <2>3, <2>4, <2>5, <2>6, PartOfPiece
  <2>8. newlist' = Append(newlist, f)
    BY <1>1, <2>2, <2>5 DEF KeepEntry
  <2>9. Drawn(newlist', Buffer) /\ Lengths(newlist') = Lengths(newlist) + n
    <3>1. f.length = n
      BY <2>5 DEF Entry
    <3>2. QED
      BY <1>1, <2>4, <2>7, <2>8, <3>1, ListTypes, DrawnAppend, SumsAppend
  <2>10. \A k \in 1..Len(newlist') : Expressible(newlist'[k])
    <3>1. Expressible(f)
      BY <2>5, <2>6 DEF Entry, Expressible
    <3>2. QED
      BY <1>1, <2>4, <2>7, <2>8, <3>1, ListTypes
  <2>11. /\ pc' = "prepare" /\ iter' = iter + 1 /\ split' = 0 /\ entry_addr' = entry_addr
         /\ m_sglist_vector' = m_sglist_vector
    BY <1>1 DEF KeepEntry, bufferVars
  <2>12. iter' - 1 = iter /\ Lengths(newlist') = Sums(m_sglist_vector)[iter] + 0
    BY <2>1, <2>3, <2>4, <2>6, <2>9, <2>11
  <2>13. iter' <= Len(m_sglist_vector) => 0 < m_sglist_vector[iter'].length
    <3>1. SUFFICES ASSUME iter' <= Len(m_sglist_vector) PROVE 0 < m_sglist_vector[iter'].length
      OBVIOUS
    <3>2. iter' \in 1..Len(m_sglist_vector)
      BY <1>1, <2>1, <2>11, <3>1, ListTypes
    <3>3. QED
      BY <1>1, <3>2 DEF LoadInv, Aligned
  <2>14. QED
    BY <1>2, <2>4, <2>9, <2>10, <2>11, <2>12, <2>13 DEF PrepareInv
<1>7. PushInv'
  BY <1>1, <1>2 DEF PushInv, CallInv, Written, KeepEntry, bufferVars, loadVars, deviceVars,
     composeVars
<1>8. ComposeInv'
  BY <1>1, <1>2, EventKept DEF ComposeInv, CallInv, KeepEntry, bufferVars, loadVars,
     deviceVars, composeVars
<1>9. AnnounceInv'
  BY <1>1, <1>2 DEF AnnounceInv, CallInv, Descriptor, Descriptors, KeepEntry, bufferVars,
     loadVars, deviceVars, composeVars
<1>10. QED
  BY <1>3, <1>4, <1>5, <1>6, <1>7, <1>8, <1>9 DEF ListInv

\* The split list covers the buffer when the last entry is done.
LEMMA PrepareDoneStep == TypeOK /\ ListInv /\ PrepareDone => TypeOK' /\ ListInv'
<1>1. SUFFICES ASSUME TypeOK, CallInv, LoadInv, PrepareInv, PushInv, ComposeInv, AnnounceInv,
                      PrepareDone
               PROVE  TypeOK' /\ ListInv'
  BY DEF ListInv
<1>2. scatter' = scatter /\ Total' = Total /\ Buffer' = Buffer
  BY <1>1, BufferKept DEF Next
<1>3. TypeOK'
  BY <1>1, <1>2 DEF TypeOK, CallInv, PrepareDone, bufferVars, loadVars, prepareVars,
     deviceVars, composeVars, Return
<1>4. CallInv'
  BY <1>1, <1>2 DEF CallInv, PrepareDone, bufferVars, loadVars, prepareVars, deviceVars,
     composeVars, Return
<1>5. LoadInv'
  BY <1>1, <1>2 DEF LoadInv, CallInv, PrepareDone, bufferVars, loadVars, prepareVars,
     deviceVars, composeVars, Return
<1>6. PrepareInv'
  BY <1>1, <1>2 DEF PrepareInv, CallInv, PrepareDone, bufferVars, loadVars, prepareVars,
     deviceVars, composeVars, Return
<1>7. PushInv'
  <2>1. call = "configure"
    BY <1>1 DEF TypeOK, CallInv, PrepareDone
  <2>2. iter \in 1 .. 1 + Len(m_sglist_vector) /\ Len(m_sglist_vector) \in Nat
    BY <1>1, <2>1, ListTypes DEF TypeOK
  <2>3. iter - 1 = Len(m_sglist_vector)
    BY <1>1, <2>2 DEF PrepareDone
  <2>4. Lengths(newlist) = Lengths(m_sglist_vector)
    <3>1. Lengths(newlist) = Sums(m_sglist_vector)[iter - 1] + 0
      BY <1>1 DEF PrepareDone, PrepareInv
    <3>2. Sums(m_sglist_vector)[iter - 1] = Lengths(m_sglist_vector)
          /\ Lengths(m_sglist_vector) \in Nat
      BY <1>1, <2>3, ListTypes, SumsDef
    <3>3. QED
      BY <3>1, <3>2
  <2>5. entry_addr = 0 /\ 0 <= Len(newlist)
    BY <1>1, ListTypes DEF PrepareInv, PrepareDone
  <2>6. newlist' = newlist /\ entry_addr' = entry_addr /\ (pc' = "push" => Fits)
    BY <1>1 DEF PrepareDone, prepareVars, Return
  <2>7. ~ (pc' = "idle" /\ result' = "ok")
    BY <1>1 DEF PrepareDone, Return
  <2>8. QED
    BY <1>1, <1>2, <2>1, <2>4, <2>5, <2>6, <2>7 DEF PushInv, Written, Fits, PrepareDone, bufferVars
<1>8. ComposeInv'
  BY <1>1, <1>2, EventKept DEF ComposeInv, CallInv, PrepareDone, bufferVars, loadVars,
     prepareVars, deviceVars, composeVars, Return
<1>9. AnnounceInv'
  BY <1>1, <1>2 DEF AnnounceInv, CallInv, Descriptor, Descriptors, PrepareDone, bufferVars,
     loadVars, prepareVars, deviceVars, composeVars, Return
<1>10. QED
  BY <1>3, <1>4, <1>5, <1>6, <1>7, <1>8, <1>9 DEF ListInv

\* The entry written is inside the RAM, and its length fits the register.
LEMMA WriteEntryStep == TypeOK /\ ListInv /\ WriteEntry => TypeOK' /\ ListInv'
<1>1. SUFFICES ASSUME TypeOK, CallInv, LoadInv, PrepareInv, PushInv, ComposeInv, AnnounceInv,
                      WriteEntry
               PROVE  TypeOK' /\ ListInv'
  BY DEF ListInv
<1>2. scatter' = scatter /\ Total' = Total /\ Buffer' = Buffer
  BY <1>1, BufferKept DEF Next
<1>3. TypeOK'
  <2>1. /\ Lengths(newlist) = Lengths(m_sglist_vector)
        /\ Len(newlist) < MaxSg /\ Len(newlist) \in Nat
        /\ Written(entry_addr) /\ entry_addr \in 0..MaxSg-1 /\ ram \in [0..MaxSg-1 -> Entries]
    BY <1>1, ListTypes DEF PushInv, TypeOK, WriteEntry
  <2>2. entry_addr + 1 \in 1..Len(newlist)
    BY <1>1, <2>1 DEF WriteEntry
  <2>3. newlist[entry_addr + 1] \in Entries
    BY <1>1, <2>2, ListTypes, EntryType
  <2>4. Pushed(newlist[entry_addr + 1]) \in Entries
    BY <1>1, <2>2, <2>3, PushedWhole DEF PrepareInv
  <2>5. ram' \in [0..MaxSg-1 -> Entries] /\ entry_addr' \in 0..MaxSg-1
    BY <1>1, <2>1, <2>2, <2>4 DEF WriteEntry
  <2>6. QED
    BY <1>1, <1>2, <2>5 DEF TypeOK, CallInv, WriteEntry, bufferVars, loadVars, composeVars
<1>4. CallInv'
  BY <1>1, <1>2 DEF CallInv, WriteEntry, bufferVars, loadVars, composeVars
<1>5. LoadInv'
  BY <1>1, <1>2 DEF LoadInv, CallInv, WriteEntry, bufferVars, loadVars, composeVars
<1>6. PrepareInv'
  BY <1>1, <1>2 DEF PrepareInv, CallInv, WriteEntry, bufferVars, loadVars, composeVars
<1>7. PushInv'
  <2>1. /\ Lengths(newlist) = Lengths(m_sglist_vector)
        /\ Len(newlist) < MaxSg /\ Len(newlist) \in Nat
        /\ Written(entry_addr) /\ entry_addr \in 0..MaxSg-1 /\ ram \in [0..MaxSg-1 -> Entries]
    BY <1>1, ListTypes DEF PushInv, TypeOK, WriteEntry
  <2>2. entry_addr + 1 \in 1..Len(newlist)
    BY <1>1, <2>1 DEF WriteEntry
  <2>3. Pushed(newlist[entry_addr + 1]) = newlist[entry_addr + 1]
    BY <1>1, <2>2, ListTypes, EntryType, PushedWhole DEF PrepareInv
  <2>4. /\ pc' = "push" /\ newlist' = newlist /\ entry_addr' = entry_addr + 1
        /\ ram' = [ram EXCEPT ![entry_addr] = newlist[entry_addr + 1]]
    BY <1>1, <2>3 DEF WriteEntry
  <2>5. \A a \in 0..entry_addr : ram'[a] = newlist[a + 1]
    <3>1. SUFFICES ASSUME NEW a \in 0..entry_addr PROVE ram'[a] = newlist[a + 1]
      OBVIOUS
    <3>2. a \in 0..MaxSg-1 /\ (a # entry_addr => a \in 0..entry_addr-1)
      BY <2>1, <3>1
    <3>3. QED
      BY <2>1, <2>4, <3>2 DEF Written
  <2>6. entry_addr' - 1 = entry_addr /\ entry_addr' <= Len(newlist)
    BY <2>1, <2>2, <2>4
  <2>7. QED
    BY <1>2, <2>1, <2>4, <2>5, <2>6 DEF PushInv, Written
<1>8. ComposeInv'
  BY <1>1, <1>2, EventKept DEF ComposeInv, CallInv, WriteEntry, bufferVars, loadVars,
     composeVars
<1>9. AnnounceInv'
  BY <1>1, <1>2 DEF AnnounceInv, CallInv, Descriptor, Descriptors, WriteEntry, bufferVars,
     loadVars, composeVars
<1>10. QED
  BY <1>3, <1>4, <1>5, <1>6, <1>7, <1>8, <1>9 DEF ListInv

LEMMA ClearTrailingStep == TypeOK /\ ListInv /\ ClearTrailing => TypeOK' /\ ListInv'
<1>1. SUFFICES ASSUME TypeOK, CallInv, LoadInv, PrepareInv, PushInv, ComposeInv, AnnounceInv,
                      ClearTrailing
               PROVE  TypeOK' /\ ListInv'
  BY DEF ListInv
<1>2. scatter' = scatter /\ Total' = Total /\ Buffer' = Buffer
  BY <1>1, BufferKept DEF Next
<1>3. TypeOK'
  <2>1. /\ Lengths(newlist) = Lengths(m_sglist_vector)
        /\ Len(newlist) < MaxSg /\ Len(newlist) \in Nat
        /\ Written(entry_addr) /\ entry_addr \in 0..MaxSg-1 /\ ram \in [0..MaxSg-1 -> Entries]
    BY <1>1, ListTypes DEF PushInv, TypeOK, ClearTrailing
  <2>2. Zero \in Entries
    BY DEF Zero, Entry, Entries
  <2>3. ram' \in [0..MaxSg-1 -> Entries]
    BY <1>1, <2>1, <2>2 DEF ClearTrailing
  <2>4. CASE m_sglist_initialized
    BY <1>1, <1>2, <2>3, <2>4, ListTypes DEF TypeOK, CallInv, ClearTrailing, bufferVars,
       prepareVars, composeVars, Return
  <2>5. CASE ~ m_sglist_initialized
    <3>1. /\ call = "configure" /\ call' = "count" /\ pc' = "load" /\ i' = 1
          /\ UNCHANGED <<n_sg_config, result>>
      BY <1>1, <2>5 DEF TypeOK, CallInv, ClearTrailing
    <3>2. 1 \in 1..Len(scatter)+1
      BY <1>1, ListTypes
    <3>3. QED
      BY <1>1, <1>2, <2>3, <3>1, <3>2 DEF TypeOK, CallInv, ClearTrailing, bufferVars,
         prepareVars, composeVars
  <2>6. QED
    BY <2>4, <2>5
<1>4. CallInv'
  BY <1>1, <1>2 DEF CallInv, TypeOK, ClearTrailing, bufferVars, prepareVars, composeVars, Return
\* A list that was not read is empty, and it is tried again from its start.
<1>0. ASSUME ~ m_sglist_initialized
      PROVE  /\ m_sglist_vector = <<>> /\ newlist = <<>> /\ iter = 1 /\ split = 0
             /\ entry_addr = 0 /\ call' = "count" /\ pc' = "load" /\ i' = 1
  <2>1. m_sglist_vector = <<>> /\ Lengths(m_sglist_vector) = 0
    BY <1>0, <1>1, SumsEmpty DEF LoadInv, ClearTrailing
  <2>2. newlist \in Seq(Entries) /\ Len(newlist) \in Nat /\ Lengths(newlist) = 0
        /\ \A k \in 1..Len(newlist) : Expressible(newlist[k])
    BY <1>1, <2>1, ListTypes DEF PushInv, PrepareInv, ClearTrailing
  <2>3. newlist = <<>>
    BY <2>2, EmptyByLength DEF Expressible
  <2>4. iter = 1 /\ split = 0
    <3>1. call = "configure"
      BY <1>1 DEF TypeOK, CallInv, ClearTrailing
    <3>2. iter \in 1 .. 1 + Len(<<>>)
      BY <1>1, <2>1, <3>1 DEF TypeOK
    <3>3. QED
      BY <1>1, <3>2 DEF PrepareInv, ClearTrailing
  <2>5. entry_addr = 0
    BY <1>1, <2>3 DEF ClearTrailing
  <2>6. QED
    BY <1>0, <1>1, <2>1, <2>3, <2>4, <2>5 DEF ClearTrailing
<1>5. LoadInv'
  <2>1. CASE m_sglist_initialized
    BY <1>1, <1>2, <2>1 DEF LoadInv, ClearTrailing, bufferVars, Return
  <2>2. CASE ~ m_sglist_initialized
    <3>1. Sums(scatter)[0] = 0 /\ Lengths(<<>>) = 0
      BY <1>1, ListTypes, SumsDef, SumsEmpty
    <3>2. QED
      BY <1>0, <1>1, <1>2, <2>2, <3>1 DEF LoadInv, ClearTrailing, bufferVars
  <2>3. QED
    BY <2>1, <2>2
<1>6. PrepareInv'
  BY <1>0, <1>1, <1>2 DEF PrepareInv, ClearTrailing, bufferVars, prepareVars, Return
<1>7. PushInv'
  <2>1. /\ Lengths(newlist) = Lengths(m_sglist_vector)
        /\ Len(newlist) < MaxSg /\ Len(newlist) \in Nat
        /\ Written(entry_addr) /\ entry_addr \in 0..MaxSg-1 /\ ram \in [0..MaxSg-1 -> Entries]
    BY <1>1, ListTypes DEF PushInv, TypeOK, ClearTrailing
  <2>2. /\ entry_addr = Len(newlist) /\ newlist' = newlist /\ pc' \in {"idle", "load"}
        /\ ram' = [ram EXCEPT ![entry_addr] = Zero]
        /\ m_sglist_initialized => pc' = "idle" /\ call' = call
    BY <1>1 DEF ClearTrailing, prepareVars, Return
  <2>3. ASSUME NEW a \in 0..Len(newlist)-1 PROVE ram'[a] = newlist[a + 1]
    <3>1. a \in 0..MaxSg-1 /\ a # Len(newlist)
      BY <2>1, <2>3
    <3>2. QED
      BY <2>1, <2>2, <2>3, <3>1 DEF Written
  <2>4. ram'[Len(newlist)] = Zero
    BY <2>1, <2>2
  <2>5. CASE m_sglist_initialized
    <3>1. Lengths(newlist) = Total /\ call = "configure"
      BY <1>1, <2>1, <2>5 DEF LoadInv, CallInv, TypeOK, ClearTrailing
    <3>2. QED
      BY <1>2, <2>1, <2>2, <2>3, <2>4, <2>5, <3>1 DEF PushInv, Written
  <2>6. CASE ~ m_sglist_initialized
    <3>1. newlist' = <<>> /\ ram'[0] = Zero /\ call' = "count" /\ pc' = "load"
      BY <1>0, <2>2, <2>4, <2>6
    <3>2. QED
      BY <3>1 DEF PushInv
  <2>7. QED
    BY <2>5, <2>6
<1>8. ComposeInv'
  BY <1>1, <1>2, EventKept DEF ComposeInv, CallInv, ClearTrailing, bufferVars, loadVars,
     prepareVars, composeVars, Return
<1>9. AnnounceInv'
  BY <1>1, <1>2 DEF AnnounceInv, CallInv, Descriptor, Descriptors, ClearTrailing,
     bufferVars, loadVars, prepareVars, composeVars, Return
<1>10. QED
  BY <1>3, <1>4, <1>5, <1>6, <1>7, <1>8, <1>9 DEF ListInv

\* The composed list grows by the next words of the event.
LEMMA ComposeEntryStep == TypeOK /\ ListInv /\ ComposeEntry => TypeOK' /\ ListInv'
<1>1. SUFFICES ASSUME TypeOK, CallInv, LoadInv, PrepareInv, PushInv, ComposeInv, AnnounceInv,
                      ComposeEntry
               PROVE  TypeOK' /\ ListInv'
  BY DEF ListInv
<1>2. scatter' = scatter /\ Total' = Total /\ Buffer' = Buffer
  BY <1>1, BufferKept DEF Next
<1>3. TypeOK'
  <2>1. PICK n \in 1..Limit-1 : \E f \in Entries :
            /\ n <= rem_size /\ f.length = n
            /\ list' = Append(list, f) /\ rem_size' = rem_size - n
            /\ Expressible(f) /\ InPage(f) /\ Piece(f, Lengths(list), EventWords)
            /\ offset < Total /\ cur_offset' \in 0..Total-1
            /\ cur_offset' = (offset + Lengths(list) + n) % Total
    BY <1>1, ComposedEntry
  <2>2. PICK f \in Entries :
            /\ n <= rem_size /\ f.length = n
            /\ list' = Append(list, f) /\ rem_size' = rem_size - n
            /\ Expressible(f) /\ InPage(f) /\ Piece(f, Lengths(list), EventWords)
            /\ offset < Total /\ cur_offset' \in 0..Total-1
            /\ cur_offset' = (offset + Lengths(list) + n) % Total
    BY <2>1
  <2>3. list' \in Seq(Entries) /\ call # "announce"
    BY <1>1, <2>2, ListTypes DEF CallInv, ComposeEntry
  <2>4. rem_size' \in 0..size /\ cur_offset' \in 0..Total
    <3>1. Total \in Nat
      BY <1>1, ListTypes
    <3>2. size \in Nat
      BY <1>1, <3>1 DEF ComposeInv
    <3>3. rem_size \in 0..size
      BY <1>1 DEF TypeOK
    <3>4. rem_size' \in 0..size
      BY <2>1, <2>2, <3>2, <3>3
    <3>5. cur_offset' \in 0..Total
      BY <2>2, <3>1
    <3>6. QED
      BY <3>4, <3>5
  <2>5. QED
    BY <1>1, <1>2, <2>3, <2>4 DEF TypeOK, CallInv, ComposeEntry, bufferVars, loadVars,
       prepareVars, deviceVars
<1>4. CallInv'
  BY <1>1, <1>2 DEF CallInv, ComposeEntry, bufferVars, loadVars, prepareVars, deviceVars
<1>5. LoadInv'
  BY <1>1, <1>2 DEF LoadInv, CallInv, ComposeEntry, bufferVars, loadVars, prepareVars,
     deviceVars
<1>6. PrepareInv'
  BY <1>1, <1>2 DEF PrepareInv, CallInv, ComposeEntry, bufferVars, loadVars, prepareVars,
     deviceVars
<1>7. PushInv'
  BY <1>1, <1>2 DEF PushInv, CallInv, Written, ComposeEntry, bufferVars, loadVars,
     prepareVars, deviceVars
<1>8. ComposeInv'
  <2>1. PICK n \in 1..Limit-1 : \E f \in Entries :
            /\ n <= rem_size /\ f.length = n
            /\ list' = Append(list, f) /\ rem_size' = rem_size - n
            /\ Expressible(f) /\ InPage(f) /\ Piece(f, Lengths(list), EventWords)
            /\ offset < Total /\ cur_offset' \in 0..Total-1
            /\ cur_offset' = (offset + Lengths(list) + n) % Total
    BY <1>1, ComposedEntry
  <2>2. PICK f \in Entries :
            /\ n <= rem_size /\ f.length = n
            /\ list' = Append(list, f) /\ rem_size' = rem_size - n
            /\ Expressible(f) /\ InPage(f) /\ Piece(f, Lengths(list), EventWords)
            /\ offset < Total /\ cur_offset' \in 0..Total-1
            /\ cur_offset' = (offset + Lengths(list) + n) % Total
    BY <2>1
  <2>3. /\ pc' = "compose" /\ offset' = offset /\ size' = size /\ call' = call
        /\ m_sglist_initialized' = m_sglist_initialized /\ pc = "compose" /\ rem_size > 0
    BY <1>1 DEF ComposeEntry, bufferVars
  <2>4. EventWords' = EventWords
    BY <1>2, <2>3, EventKept
  <2>5. /\ Drawn(list', EventWords)
        /\ Lengths(list') = Lengths(list) + n
    BY <1>1, <2>2, ListTypes, DrawnAppend, SumsAppend DEF ComposeInv
  <2>6. \A k \in 1..Len(list') : Expressible(list'[k]) /\ InPage(list'[k])
    <3>1. /\ Len(list) \in Nat /\ Len(list') = Len(list) + 1
          /\ \A k \in 1..Len(list) : list'[k] = list[k]
          /\ list'[Len(list) + 1] = f
      BY <1>1, <2>2, ListTypes
    <3>2. \A k \in 1..Len(list) : Expressible(list[k]) /\ InPage(list[k])
      BY <1>1 DEF ComposeInv
    <3>3. ASSUME NEW k \in 1..Len(list') PROVE Expressible(list'[k]) /\ InPage(list'[k])
      <4>1. CASE k = Len(list) + 1
        BY <2>2, <3>1, <4>1
      <4>2. CASE k # Len(list) + 1
        <5>1. k \in 1..Len(list)
          BY <3>1, <3>3, <4>2
        <5>2. QED
          BY <3>1, <3>2, <5>1
      <4>3. QED
        BY <4>1, <4>2
    <3>4. QED
      BY <3>3
  <2>7. Lengths(list) \in Nat /\ rem_size \in Nat /\ size \in Nat /\ offset \in Nat /\ Total \in Nat
    <3>1. Lengths(list) \in Nat /\ Total \in Nat
      BY <1>1, ListTypes, SumsDef
    <3>2. size \in Nat /\ offset \in Nat
      BY <1>1, <3>1 DEF ComposeInv
    <3>3. QED
      BY <1>1, <3>1, <3>2 DEF TypeOK
  <2>8. rem_size' + Lengths(list') = size
    <3>1. rem_size + Lengths(list) = size
      BY <1>1 DEF ComposeInv
    <3>2. QED
      BY <2>1, <2>2, <2>5, <2>7, <3>1
  <2>9. cur_offset' = (offset + Lengths(list')) % Total
    <3>1. offset + Lengths(list) + n = offset + (Lengths(list) + n)
      BY <2>1, <2>7
    <3>2. QED
      BY <2>2, <2>5, <3>1
  <2>10. offset # Total /\ m_sglist_initialized /\ call = "compose"
    BY <1>1, <2>2, <2>3, <2>7 DEF ComposeInv, TypeOK, CallInv
  <2>11. offset \in 0..Total /\ size \in 0..Total
    BY <1>1 DEF ComposeInv
  <2>12. QED
    BY <1>2, <2>3, <2>4, <2>5, <2>6, <2>8, <2>9, <2>10, <2>11 DEF ComposeInv
<1>9. AnnounceInv'
  BY <1>1, <1>2 DEF AnnounceInv, CallInv, Descriptor, Descriptors, ComposeEntry,
     bufferVars, loadVars, prepareVars, deviceVars
<1>10. QED
  BY <1>3, <1>4, <1>5, <1>6, <1>7, <1>8, <1>9 DEF ListInv

\* Only an offset behind the buffer is in no entry.
LEMMA ComposeFailsStep == TypeOK /\ ListInv /\ ComposeFails => TypeOK' /\ ListInv'
<1>1. SUFFICES ASSUME TypeOK, CallInv, LoadInv, PrepareInv, PushInv, ComposeInv, AnnounceInv,
                      ComposeFails
               PROVE  TypeOK' /\ ListInv'
  BY DEF ListInv
<1>2. scatter' = scatter /\ Total' = Total /\ Buffer' = Buffer
  BY <1>1, BufferKept DEF Next
<1>3. TypeOK'
  BY <1>1, <1>2 DEF TypeOK, CallInv, ComposeFails, bufferVars, loadVars, prepareVars,
     deviceVars, composeVars, Return
<1>4. CallInv'
  BY <1>1, <1>2 DEF CallInv, ComposeFails, bufferVars, loadVars, prepareVars, deviceVars,
     composeVars, Return
<1>5. LoadInv'
  BY <1>1, <1>2 DEF LoadInv, CallInv, ComposeFails, bufferVars, loadVars, prepareVars,
     deviceVars, composeVars, Return
<1>6. PrepareInv'
  BY <1>1, <1>2 DEF PrepareInv, CallInv, ComposeFails, bufferVars, loadVars, prepareVars,
     deviceVars, composeVars, Return
<1>7. PushInv'
  BY <1>1, <1>2 DEF PushInv, CallInv, Written, ComposeFails, bufferVars, loadVars,
     prepareVars, deviceVars, composeVars, Return
<1>8. ComposeInv'
  <2>1. offset = Total
    <3>1. SUFFICES ASSUME offset # Total PROVE FALSE
      OBVIOUS
    <3>2. /\ Total \in Nat \ {0} /\ Lengths(list) \in Nat /\ offset \in Nat /\ offset < Total
          /\ m_sglist_initialized
      <4>1. Total \in Nat /\ Lengths(list) \in Nat
        BY <1>1, ListTypes, SumsDef
      <4>2. offset \in 0..Total /\ m_sglist_initialized
        BY <1>1 DEF ComposeInv, ComposeFails
      <4>3. QED
        BY <3>1, <4>1, <4>2
    <3>3. cur_offset = (offset + Lengths(list)) % Total
      BY <1>1, <3>2 DEF ComposeInv
    <3>4. cur_offset \in 0..Total-1
      BY <3>2, <3>3, DivMod
    <3>5. EntriesAt(cur_offset) # {}
      BY <1>1, <3>2, <3>4, SegmentAt
    <3>6. QED
      BY <1>1, <3>5 DEF ComposeFails
  <2>2. QED
    BY <1>1, <1>2, <2>1, EventKept DEF ComposeInv, CallInv, ComposeFails, bufferVars,
       loadVars, prepareVars, deviceVars, composeVars, Return
<1>9. AnnounceInv'
  BY <1>1, <1>2 DEF AnnounceInv, CallInv, Descriptor, Descriptors, ComposeFails,
     bufferVars, loadVars, prepareVars, deviceVars, composeVars, Return
<1>10. QED
  BY <1>3, <1>4, <1>5, <1>6, <1>7, <1>8, <1>9 DEF ListInv

LEMMA ComposeDoneStep == TypeOK /\ ListInv /\ ComposeDone => TypeOK' /\ ListInv'
<1>1. SUFFICES ASSUME TypeOK, CallInv, LoadInv, PrepareInv, PushInv, ComposeInv, AnnounceInv,
                      ComposeDone
               PROVE  TypeOK' /\ ListInv'
  BY DEF ListInv
<1>2. scatter' = scatter /\ Total' = Total /\ Buffer' = Buffer
  BY <1>1, BufferKept DEF Next
<1>3. TypeOK'
  BY <1>1, <1>2 DEF TypeOK, CallInv, ComposeDone, bufferVars, loadVars, prepareVars,
     deviceVars, composeVars, Return
<1>4. CallInv'
  BY <1>1, <1>2 DEF CallInv, ComposeDone, bufferVars, loadVars, prepareVars, deviceVars,
     composeVars, Return
<1>5. LoadInv'
  BY <1>1, <1>2 DEF LoadInv, CallInv, ComposeDone, bufferVars, loadVars, prepareVars,
     deviceVars, composeVars, Return
<1>6. PrepareInv'
  BY <1>1, <1>2 DEF PrepareInv, CallInv, ComposeDone, bufferVars, loadVars, prepareVars,
     deviceVars, composeVars, Return
<1>7. PushInv'
  BY <1>1, <1>2 DEF PushInv, CallInv, Written, ComposeDone, bufferVars, loadVars,
     prepareVars, deviceVars, composeVars, Return
<1>8. ComposeInv'
  BY <1>1, <1>2, EventKept DEF ComposeInv, CallInv, ComposeDone, bufferVars, loadVars,
     prepareVars, deviceVars, composeVars, Return
<1>9. AnnounceInv'
  BY <1>1, <1>2 DEF AnnounceInv, CallInv, Descriptor, Descriptors, ComposeDone, bufferVars,
     loadVars, prepareVars, deviceVars, composeVars, Return
<1>10. QED
  BY <1>3, <1>4, <1>5, <1>6, <1>7, <1>8, <1>9 DEF ListInv

LEMMA CallAnnounceStep == TypeOK /\ ListInv /\ CallAnnounce => TypeOK' /\ ListInv'
<1>1. SUFFICES ASSUME TypeOK, CallInv, LoadInv, PrepareInv, PushInv, ComposeInv, AnnounceInv,
                      CallAnnounce
               PROVE  TypeOK' /\ ListInv'
  BY DEF ListInv
<1>2. scatter' = scatter /\ Total' = Total /\ Buffer' = Buffer
  BY <1>1, BufferKept DEF Next
<1>3. TypeOK'
  BY <1>1, <1>2 DEF TypeOK, CallInv, CallAnnounce, bufferVars, loadVars, deviceVars,
     composeVars, NewList
<1>4. CallInv'
  BY <1>1, <1>2 DEF CallInv, CallAnnounce, bufferVars, loadVars, deviceVars, composeVars,
     NewList
<1>5. LoadInv'
  BY <1>1, <1>2 DEF LoadInv, CallInv, CallAnnounce, bufferVars, loadVars, deviceVars,
     composeVars, NewList
<1>6. PrepareInv'
  <2>1. Drawn(<<>>, Buffer) /\ Len(<<>>) = 0
    BY DrawnEmpty, SumsEmpty
  <2>2. QED
    BY <1>1, <1>2, <2>1 DEF PrepareInv, CallInv, CallAnnounce, bufferVars, loadVars,
       deviceVars, composeVars, NewList
<1>7. PushInv'
  BY <1>1, <1>2 DEF PushInv, CallInv, Written, CallAnnounce, bufferVars, loadVars,
     deviceVars, composeVars, NewList
<1>8. ComposeInv'
  BY <1>1, <1>2, EventKept DEF ComposeInv, CallInv, CallAnnounce, bufferVars, loadVars,
     deviceVars, composeVars, NewList
<1>9. AnnounceInv'
  BY <1>1, <1>2 DEF AnnounceInv, CallInv, Descriptor, Descriptors, CallAnnounce,
     bufferVars, loadVars, deviceVars, composeVars, NewList
<1>10. QED
  BY <1>3, <1>4, <1>5, <1>6, <1>7, <1>8, <1>9 DEF ListInv

\* The descriptor of the next entry is behind those the device has not read.
LEMMA AnnounceEntryStep == TypeOK /\ ListInv /\ AnnounceEntry => TypeOK' /\ ListInv'
<1>1. SUFFICES ASSUME TypeOK, CallInv, LoadInv, PrepareInv, PushInv, ComposeInv, AnnounceInv,
                      AnnounceEntry
               PROVE  TypeOK' /\ ListInv'
  BY DEF ListInv
<1>2. scatter' = scatter /\ Total' = Total /\ Buffer' = Buffer
  BY <1>1, BufferKept DEF Next
<1>3. TypeOK'
  BY <1>1, <1>2 DEF TypeOK, CallInv, AnnounceEntry, bufferVars, loadVars, composeVars
<1>4. CallInv'
  BY <1>1, <1>2 DEF CallInv, AnnounceEntry, bufferVars, loadVars, composeVars
<1>5. LoadInv'
  BY <1>1, <1>2 DEF LoadInv, CallInv, AnnounceEntry, bufferVars, loadVars, composeVars
<1>6. PrepareInv'
  BY <1>1, <1>2 DEF PrepareInv, CallInv, AnnounceEntry, bufferVars, loadVars, composeVars
<1>7. PushInv'
  BY <1>1, <1>2 DEF PushInv, CallInv, Written, AnnounceEntry, bufferVars, loadVars, composeVars
<1>8. ComposeInv'
  BY <1>1, <1>2, EventKept DEF ComposeInv, CallInv, AnnounceEntry, bufferVars, loadVars,
     composeVars
<1>9. AnnounceInv'
  <2>1. call = "announce"
    BY <1>1 DEF TypeOK, CallInv, AnnounceInv, AnnounceEntry
  <2>2. /\ fifo \in Seq(Descriptors) /\ sent \in Seq(Descriptors)
        /\ Len(fifo) \in Nat /\ Len(sent) \in Nat /\ Len(list) \in Nat
        /\ Len(sent) + Len(fifo) = iter - 1
        /\ \A k \in 1..Len(sent) : sent[k] = Descriptor(k)
        /\ \A k \in 1..Len(fifo) : fifo[k] = Descriptor(Len(sent) + k)
    BY <1>1, <2>1, ListTypes DEF AnnounceInv
  <2>3. iter \in 1 .. 1 + Len(list)
    BY <1>1, <2>1 DEF TypeOK
  <2>4. iter \in 1..Len(list)
    BY <1>1, <2>2, <2>3 DEF AnnounceEntry
  <2>5. PICK d : d = Descriptor(iter)
    OBVIOUS
  <2>6. d \in Descriptors
    <3>1. list[iter] \in Entries /\ Expressible(list[iter])
      BY <1>1, <2>4, ListTypes, EntryType DEF ComposeInv
    <3>2. Pushed(list[iter]) \in Entries
      BY <3>1, PushedWhole
    <3>3. QED
      BY <2>5, <3>2 DEF Descriptor, Descriptors
  <2>7. /\ fifo' = Append(fifo, d) /\ sent' = sent /\ list' = list /\ iter' = iter + 1
        /\ pc' = "announce" /\ call' = call
    BY <1>1, <2>5 DEF AnnounceEntry, LastEntry, Descriptor, composeVars
  <2>8. /\ fifo' \in Seq(Descriptors) /\ Len(fifo') = Len(fifo) + 1
        /\ \A k \in 1..Len(fifo) : fifo'[k] = fifo[k]
        /\ fifo'[Len(fifo) + 1] = d
    BY <2>2, <2>6, <2>7
  <2>9. Len(sent) + (Len(fifo) + 1) = iter /\ iter = (iter + 1) - 1
    <3>1. iter \in Nat
      BY <2>2, <2>3
    <3>2. PICK f, s : f = Len(fifo) /\ s = Len(sent)
      OBVIOUS
    <3>3. f \in Nat /\ s \in Nat /\ s + f = iter - 1
      BY <2>2, <3>2
    <3>4. s + (f + 1) = iter /\ iter = (iter + 1) - 1
      BY <3>1, <3>3
    <3>5. QED
      BY <3>2, <3>4
  <2>10. ASSUME NEW k \in 1..Len(fifo) + 1 PROVE fifo'[k] = Descriptor(Len(sent) + k)
    <3>1. CASE k = Len(fifo) + 1
      BY <2>5, <2>8, <2>9, <3>1
    <3>2. CASE k # Len(fifo) + 1
      BY <2>2, <2>8, <2>10, <3>2
    <3>3. QED
      BY <3>1, <3>2
  <2>11. QED
    BY <2>1, <2>2, <2>7, <2>8, <2>9, <2>10 DEF AnnounceInv, Descriptor
<1>10. QED
  BY <1>3, <1>4, <1>5, <1>6, <1>7, <1>8, <1>9 DEF ListInv

LEMMA AnnounceDoneStep == TypeOK /\ ListInv /\ AnnounceDone => TypeOK' /\ ListInv'
<1>1. SUFFICES ASSUME TypeOK, CallInv, LoadInv, PrepareInv, PushInv, ComposeInv, AnnounceInv,
                      AnnounceDone
               PROVE  TypeOK' /\ ListInv'
  BY DEF ListInv
<1>2. scatter' = scatter /\ Total' = Total /\ Buffer' = Buffer
  BY <1>1, BufferKept DEF Next
<1>3. TypeOK'
  BY <1>1, <1>2 DEF TypeOK, CallInv, AnnounceDone, bufferVars, loadVars, prepareVars,
     deviceVars, composeVars
<1>4. CallInv'
  BY <1>1, <1>2 DEF CallInv, AnnounceDone, bufferVars, loadVars, prepareVars, deviceVars,
     composeVars
<1>5. LoadInv'
  BY <1>1, <1>2 DEF LoadInv, CallInv, AnnounceDone, bufferVars, loadVars, prepareVars,
     deviceVars, composeVars
<1>6. PrepareInv'
  BY <1>1, <1>2 DEF PrepareInv, CallInv, AnnounceDone, bufferVars, loadVars, prepareVars,
     deviceVars, composeVars
<1>7. PushInv'
  BY <1>1, <1>2 DEF PushInv, CallInv, Written, AnnounceDone, bufferVars, loadVars,
     prepareVars, deviceVars, composeVars
<1>8. ComposeInv'
  BY <1>1, <1>2, EventKept DEF ComposeInv, CallInv, AnnounceDone, bufferVars, loadVars,
     prepareVars, deviceVars, composeVars
<1>9. AnnounceInv'
  <2>1. call = "announce"
    BY <1>1 DEF TypeOK, CallInv, AnnounceInv, AnnounceDone
  <2>2. /\ fifo \in Seq(Descriptors) /\ sent \in Seq(Descriptors)
        /\ Len(fifo) \in Nat /\ Len(sent) \in Nat /\ Len(list) \in Nat
        /\ Len(sent) + Len(fifo) = iter - 1
        /\ \A k \in 1..Len(sent) : sent[k] = Descriptor(k)
        /\ \A k \in 1..Len(fifo) : fifo[k] = Descriptor(Len(sent) + k)
    BY <1>1, <2>1, ListTypes DEF AnnounceInv
  <2>3. iter \in 1 .. 1 + Len(list)
    BY <1>1, <2>1 DEF TypeOK
  <2>4. iter = Len(list) + 1
    BY <1>1, <2>2, <2>3 DEF AnnounceDone
  <2>5. /\ fifo' = fifo /\ sent' = sent /\ list' = list /\ iter' = iter
        /\ pc' = "wait" /\ call' = call
    BY <1>1 DEF AnnounceDone, deviceVars, prepareVars, composeVars
  <2>6. QED
    BY <2>1, <2>2, <2>4, <2>5 DEF AnnounceInv, Descriptor
<1>10. QED
  BY <1>3, <1>4, <1>5, <1>6, <1>7, <1>8, <1>9 DEF ListInv

\* What the device has read and what it has not are still the announced entries.
LEMMA DeviceReadsStep == TypeOK /\ ListInv /\ DeviceReads => TypeOK' /\ ListInv'
<1>1. SUFFICES ASSUME TypeOK, CallInv, LoadInv, PrepareInv, PushInv, ComposeInv, AnnounceInv,
                      DeviceReads
               PROVE  TypeOK' /\ ListInv'
  BY DEF ListInv
<1>2. scatter' = scatter /\ Total' = Total /\ Buffer' = Buffer
  BY <1>1, BufferKept DEF Next
<1>3. TypeOK'
  BY <1>1, <1>2 DEF TypeOK, CallInv, DeviceReads, bufferVars, loadVars, prepareVars
<1>4. CallInv'
  BY <1>1, <1>2 DEF CallInv, DeviceReads, bufferVars, loadVars, prepareVars
<1>5. LoadInv'
  BY <1>1, <1>2 DEF LoadInv, CallInv, DeviceReads, bufferVars, loadVars, prepareVars
<1>6. PrepareInv'
  BY <1>1, <1>2 DEF PrepareInv, CallInv, DeviceReads, bufferVars, loadVars, prepareVars
<1>7. PushInv'
  BY <1>1, <1>2 DEF PushInv, CallInv, Written, DeviceReads, bufferVars, loadVars, prepareVars
<1>8. ComposeInv'
  BY <1>1, <1>2, EventKept DEF ComposeInv, CallInv, DeviceReads, bufferVars, loadVars,
     prepareVars
<1>9. AnnounceInv'
  <2>1. call = "announce"
    BY <1>1 DEF TypeOK, CallInv, AnnounceInv, DeviceReads
  <2>2. /\ fifo \in Seq(Descriptors) /\ sent \in Seq(Descriptors)
        /\ Len(fifo) \in Nat /\ Len(sent) \in Nat /\ Len(list) \in Nat
        /\ Len(sent) + Len(fifo) = iter - 1
        /\ \A k \in 1..Len(sent) : sent[k] = Descriptor(k)
        /\ \A k \in 1..Len(fifo) : fifo[k] = Descriptor(Len(sent) + k)
    BY <1>1, <2>1, ListTypes DEF AnnounceInv
  <2>3. iter \in 1 .. 1 + Len(list)
    BY <1>1, <2>1 DEF TypeOK
  <2>4. /\ fifo # <<>> /\ sent' = Append(sent, Head(fifo)) /\ fifo' = Tail(fifo)
        /\ list' = list /\ iter' = iter /\ pc' = pc /\ call' = call
    BY <1>1 DEF DeviceReads, prepareVars
  <2>5. /\ Len(fifo) >= 1 /\ Head(fifo) = fifo[1] /\ Head(fifo) \in Descriptors
        /\ fifo' \in Seq(Descriptors) /\ Len(fifo') = Len(fifo) - 1
        /\ \A k \in 1..Len(fifo)-1 : fifo'[k] = fifo[k + 1]
    BY <2>2, <2>4
  <2>6. /\ sent' \in Seq(Descriptors) /\ Len(sent') = Len(sent) + 1
        /\ \A k \in 1..Len(sent) : sent'[k] = sent[k]
        /\ sent'[Len(sent) + 1] = fifo[1]
    BY <2>2, <2>4, <2>5
  <2>7. ASSUME NEW k \in 1..Len(sent) + 1 PROVE sent'[k] = Descriptor(k)
    <3>1. CASE k = Len(sent) + 1
      <4>1. fifo[1] = Descriptor(Len(sent) + 1)
        BY <2>2, <2>5
      <4>2. QED
        BY <2>6, <3>1, <4>1
    <3>2. CASE k # Len(sent) + 1
      BY <2>2, <2>6, <2>7, <3>2
    <3>3. QED
      BY <3>1, <3>2
  <2>8. ASSUME NEW k \in 1..Len(fifo) - 1 PROVE fifo'[k] = Descriptor((Len(sent) + 1) + k)
    <3>1. k + 1 \in 1..Len(fifo) /\ Len(sent) + (k + 1) = (Len(sent) + 1) + k
      BY <2>2, <2>8
    <3>2. fifo[k + 1] = Descriptor(Len(sent) + (k + 1))
      BY <2>2, <3>1
    <3>3. QED
      BY <2>5, <2>8, <3>1, <3>2
  <2>9. (Len(sent) + 1) + (Len(fifo) - 1) = iter - 1
    BY <2>2
  <2>10. pc # "idle" /\ (pc # "announce" => iter = Len(list) + 1)
    BY <1>1, <2>1, <2>4 DEF AnnounceInv
  <2>11. QED
    BY <2>1, <2>4, <2>5, <2>6, <2>7, <2>8, <2>9, <2>10 DEF AnnounceInv, Descriptor
<1>10. QED
  BY <1>3, <1>4, <1>5, <1>6, <1>7, <1>8, <1>9 DEF ListInv

\* The end-of-event flag is the last entry's: nothing is left in the FIFO.
LEMMA ReleaseEventStep == TypeOK /\ ListInv /\ ReleaseEvent => TypeOK' /\ ListInv'
<1>1. SUFFICES ASSUME TypeOK, CallInv, LoadInv, PrepareInv, PushInv, ComposeInv, AnnounceInv,
                      ReleaseEvent
               PROVE  TypeOK' /\ ListInv'
  BY DEF ListInv
<1>2. scatter' = scatter /\ Total' = Total /\ Buffer' = Buffer
  BY <1>1, BufferKept DEF Next
<1>3. TypeOK'
  BY <1>1, <1>2 DEF TypeOK, CallInv, ReleaseEvent, bufferVars, loadVars, prepareVars,
     deviceVars, composeVars
<1>4. CallInv'
  BY <1>1, <1>2 DEF CallInv, ReleaseEvent, bufferVars, loadVars, prepareVars, deviceVars,
     composeVars
<1>5. LoadInv'
  BY <1>1, <1>2 DEF LoadInv, CallInv, ReleaseEvent, bufferVars, loadVars, prepareVars,
     deviceVars, composeVars
<1>6. PrepareInv'
  BY <1>1, <1>2 DEF PrepareInv, CallInv, ReleaseEvent, bufferVars, loadVars, prepareVars,
     deviceVars, composeVars
<1>7. PushInv'
  BY <1>1, <1>2 DEF PushInv, CallInv, Written, ReleaseEvent, bufferVars, loadVars,
     prepareVars, deviceVars, composeVars
<1>8. ComposeInv'
  BY <1>1, <1>2, EventKept DEF ComposeInv, CallInv, ReleaseEvent, bufferVars, loadVars,
     prepareVars, deviceVars, composeVars
<1>9. AnnounceInv'
  <2>1. call = "announce"
    BY <1>1 DEF TypeOK, CallInv, AnnounceInv, ReleaseEvent
  <2>2. /\ fifo \in Seq(Descriptors) /\ sent \in Seq(Descriptors)
        /\ Len(fifo) \in Nat /\ Len(sent) \in Nat /\ Len(list) \in Nat
        /\ Len(sent) + Len(fifo) = iter - 1
        /\ \A k \in 1..Len(sent) : sent[k] = Descriptor(k)
        /\ \A k \in 1..Len(fifo) : fifo[k] = Descriptor(Len(sent) + k)
    BY <1>1, <2>1, ListTypes DEF AnnounceInv
  <2>3. iter \in 1 .. 1 + Len(list)
    BY <1>1, <2>1 DEF TypeOK
  <2>4. PICK k \in 1..Len(sent) : sent[k].eoe
    BY <1>1, <2>2 DEF ReleaseEvent
  <2>5. k = Len(list) /\ iter = Len(list) + 1
    <3>1. sent[k] = Descriptor(k)
      BY <2>2, <2>4
    <3>2. Descriptor(k).eoe <=> k = Len(list)
      BY DEF Descriptor
    <3>3. iter = Len(list) + 1
      BY <1>1, <2>1 DEF AnnounceInv, ReleaseEvent
    <3>4. QED
      BY <2>4, <3>1, <3>2, <3>3
  <2>6. Len(fifo) = 0
    BY <2>2, <2>4, <2>5
  <2>7. fifo = <<>>
    BY <2>2, <2>6
  <2>8. /\ fifo' = fifo /\ sent' = sent /\ list' = list /\ iter' = iter
        /\ pc' = "idle" /\ call' = call
    BY <1>1 DEF ReleaseEvent, deviceVars, prepareVars, composeVars
  <2>9. QED
    BY <2>1, <2>2, <2>4, <2>5, <2>7, <2>8 DEF AnnounceInv, Descriptor
<1>10. QED
  BY <1>3, <1>4, <1>5, <1>6, <1>7, <1>8, <1>9 DEF ListInv

LEMMA InitList == Init => TypeOK /\ ListInv
<1>1. SUFFICES ASSUME Init PROVE TypeOK /\ ListInv
  OBVIOUS
<1>2. /\ scatter \in Scatters /\ pc = "idle" /\ call = "none" /\ result = "none"
      /\ m_sglist_initialized = FALSE /\ m_sglist_vector = <<>>
      /\ i = 1 /\ entry = Zero /\ iter = 1 /\ split = 0 /\ newlist = <<>> /\ entry_addr = 0
      /\ ram = [a \in 0..MaxSg-1 |-> Stale] /\ n_sg_config = 0
      /\ offset = 0 /\ size = 0 /\ cur_offset = 0 /\ rem_size = 0 /\ list = <<>>
      /\ fifo = <<>> /\ sent = <<>>
  BY <1>1 DEF Init
<1>3. Total \in Nat /\ Len(scatter) \in Nat
  BY <1>2, KernelList
<1>4. <<>> \in Seq(Entries) /\ Len(<<>>) = 0 /\ Lengths(<<>>) = 0
  BY SumsEmpty
<1>5. Drawn(<<>>, Buffer) /\ Drawn(<<>>, EventWords)
  BY DrawnEmpty
<1>6. TypeOK
  <2>1. Zero \in Entries /\ Stale \in Entries
    BY DEF Zero, Stale, Entry, Entries
  <2>2. ram \in [0..MaxSg-1 -> Entries]
    BY <1>2, <2>1
  <2>3. QED
    BY <1>2, <1>3, <1>4, <2>1, <2>2 DEF TypeOK
<1>7. CallInv
  BY <1>2 DEF CallInv
<1>8. LoadInv
  BY <1>2, <1>4, <1>5 DEF LoadInv
<1>9. PrepareInv
  BY <1>2, <1>4, <1>5 DEF PrepareInv
<1>10. PushInv
  BY <1>2 DEF PushInv
<1>11. ComposeInv
  <2>1. offset < Total => cur_offset = (offset + Lengths(list)) % Total
    <3>1. SUFFICES ASSUME 0 < Total PROVE 0 % Total = 0
      BY <1>2, <1>4
    <3>2. QED
      BY <1>3, <3>1, ModSmall
  <2>2. QED
    BY <1>2, <1>3, <1>4, <1>5, <2>1 DEF ComposeInv
<1>12. AnnounceInv
  BY <1>2 DEF AnnounceInv
<1>13. QED
  BY <1>6, <1>7, <1>8, <1>9, <1>10, <1>11, <1>12 DEF ListInv

LEMMA StutterList == TypeOK /\ ListInv /\ UNCHANGED vars => TypeOK' /\ ListInv'
<1>1. SUFFICES ASSUME TypeOK, ListInv, UNCHANGED vars PROVE TypeOK' /\ ListInv'
  OBVIOUS
<1>2. UNCHANGED <<scatter, pc, call, m_sglist_initialized, m_sglist_vector, i, entry, iter,
                  split, newlist, entry_addr, ram, n_sg_config, fifo, offset, size, cur_offset,
                  rem_size, list, sent, result>>
  BY <1>1 DEF vars, bufferVars, loadVars, prepareVars, deviceVars, composeVars
<1>3. Total' = Total /\ Buffer' = Buffer /\ EventWords' = EventWords
  BY <1>2, EventKept DEF Total, Buffer
<1>4. TypeOK' /\ CallInv'
  BY <1>1, <1>2, <1>3 DEF ListInv, TypeOK, CallInv
<1>5. LoadInv' /\ PrepareInv'
  BY <1>1, <1>2, <1>3 DEF ListInv, LoadInv, PrepareInv
<1>6. PushInv' /\ AnnounceInv'
  BY <1>1, <1>2, <1>3 DEF ListInv, PushInv, Written, AnnounceInv, Descriptor
<1>7. ComposeInv'
  BY <1>1, <1>2, <1>3 DEF ListInv, ComposeInv
<1>8. QED
  BY <1>4, <1>5, <1>6, <1>7 DEF ListInv

LEMMA NextList == TypeOK /\ ListInv /\ [Next]_vars => TypeOK' /\ ListInv'
BY StutterList, CallConfigureStep, CallComposeStep, LoadEntryStep, MergeNextStep, PushEntryStep,
   LoadDoneStep, LoadFailsStep, CountEntriesStep, SplitEntryStep, KeepEntryStep, PrepareDoneStep, WriteEntryStep, ClearTrailingStep,
   ComposeEntryStep, ComposeFailsStep, ComposeDoneStep, CallAnnounceStep, AnnounceEntryStep,
   AnnounceDoneStep, DeviceReadsStep, ReleaseEventStep DEF Next, PollReports

\* Whatever the calls do one after the other, the list of the buffer, the list
\* that is split, the descriptor RAM, the list of an event and the descriptors that
\* are announced cover, word for word, what has been processed so far of the
\* kernel's list, of the buffer and of the event.
THEOREM SgInvariant == Spec => [](TypeOK /\ ListInv)
<1>1. QED
  BY InitList, NextList, PTL DEF Spec

-----------------------------------------------------------------------------
(* What the invariant promises.                                             *)

\* The list of the buffer has the words of the kernel's list.
LEMMA SameMemoryHolds == TypeOK /\ ListInv => SameMemory
<1>1. SUFFICES ASSUME TypeOK, CallInv, LoadInv, m_sglist_initialized
               PROVE  Words(m_sglist_vector) = Buffer
  BY DEF ListInv, SameMemory, Buffer
<1>2. m_sglist_vector \in Seq(Entries)
  BY <1>1, ListTypes
<1>3. Drawn(m_sglist_vector, Buffer) /\ Lengths(m_sglist_vector) = Total
  BY <1>1 DEF LoadInv
<1>4. Buffer = [w \in 1..Lengths(m_sglist_vector) |-> Buffer[w]]
  BY <1>1, <1>3, KernelList DEF CallInv
<1>5. QED
  BY <1>2, <1>3, <1>4, WordsOfDrawn

\* A list that is composed has the words of the event.
LEMMA ComposedWords ==
    ASSUME TypeOK, CallInv, ComposeInv, rem_size = 0
    PROVE  Words(list) = EventWords
<1>1. list \in Seq(Entries) /\ Lengths(list) \in Nat
  BY ListTypes, SumsDef
<1>2. Drawn(list, EventWords) /\ Lengths(list) = size
  BY <1>1 DEF ComposeInv
<1>3. EventWords = [w \in 1..Lengths(list) |-> EventWords[w]]
  BY <1>2 DEF EventWords
<1>4. QED
  BY <1>1, <1>2, <1>3, WordsOfDrawn

LEMMA ComposeHolds == TypeOK /\ ListInv => ComposeCoversEvent
<1>1. SUFFICES ASSUME TypeOK, CallInv, ComposeInv PROVE ComposeCoversEvent
  BY DEF ListInv
<1>2. ASSUME call = "compose", pc = "idle", result = "true"
      PROVE  /\ Words(list) = EventWords
             /\ \A k \in DOMAIN list :
                    /\ list[k].length \in 1..Limit-1
                    /\ list[k].pointer % PageSize # 0 =>
                           (list[k].pointer % PageSize) + list[k].length <= PageSize
  <2>1. rem_size = 0
    BY <1>1, <1>2 DEF ComposeInv
  <2>2. DOMAIN list = 1..Len(list)
    BY <1>1, ListTypes
  <2>3. QED
    BY <1>1, <2>1, <2>2, ComposedWords DEF ComposeInv, Expressible, InPage
<1>3. ASSUME call = "compose", pc = "idle", result = "false"
      PROVE  offset >= Total \/ ~ m_sglist_initialized
  <2>1. (offset = Total \/ ~ m_sglist_initialized) /\ Total \in Nat
    BY <1>1, <1>3, ListTypes DEF ComposeInv
  <2>2. QED
    BY <2>1
<1>4. QED
  BY <1>2, <1>3 DEF ComposeCoversEvent

LEMMA OffsetsHold == TypeOK /\ ListInv => OffsetsInvertible
<1>1. SUFFICES ASSUME TypeOK, CallInv, LoadInv, m_sglist_initialized, NEW x \in 0..Total-1
               PROVE  physAddrToOffset(offsetToPhysAddr(x).phys_addr) = x
  BY DEF ListInv, OffsetsInvertible
<1>2. PICK a : a = offsetToPhysAddr(x).phys_addr
  OBVIOUS
<1>3. PICK k \in 1..Len(m_sglist_vector) : \E s \in Nat :
          /\ s < m_sglist_vector[k].length
          /\ x = Sums(m_sglist_vector)[k - 1] + s
          /\ a = m_sglist_vector[k].pointer + s
  BY <1>1, <1>2, SegmentAt
<1>4. PICK s \in Nat : /\ s < m_sglist_vector[k].length
                       /\ x = Sums(m_sglist_vector)[k - 1] + s
                       /\ a = m_sglist_vector[k].pointer + s
  BY <1>3
<1>5. a \in Nat /\ m_sglist_vector[k].pointer \in Nat /\ m_sglist_vector[k].length \in Nat
  <2>1. m_sglist_vector[k].pointer \in Nat /\ m_sglist_vector[k].length \in Nat
    BY <1>1, <1>3, ListTypes
  <2>2. QED
    BY <1>4, <2>1
<1>6. Total \in Nat /\ DOMAIN m_sglist_vector = 1..Len(m_sglist_vector)
  BY <1>1, ListTypes
\* An entry that holds the address covers the word with this address.
<1>7. ASSUME NEW c \in 1..Len(m_sglist_vector), Holds(m_sglist_vector[c], a)
      PROVE  /\ Sums(m_sglist_vector)[c - 1] + (a - m_sglist_vector[c].pointer) + 1 \in 1..Total
             /\ Buffer[Sums(m_sglist_vector)[c - 1] + (a - m_sglist_vector[c].pointer) + 1] = a
  <2>1. PICK p, d, o : /\ p = m_sglist_vector[c].pointer /\ d = m_sglist_vector[c].length
                       /\ o = Sums(m_sglist_vector)[c - 1]
    OBVIOUS
  <2>2. p \in Nat /\ d \in Nat /\ o \in Nat /\ Sums(m_sglist_vector)[c] = o + d
    BY <1>1, <1>7, <2>1, ListTypes
  <2>3. p <= a /\ a < p + d
    BY <1>7, <2>1 DEF Holds
  <2>4. a \in Nat
    BY <1>5
  <2>5. (a - p) + 1 \in 1..d
    BY <2>2, <2>3, <2>4
  <2>6. o + ((a - p) + 1) \in 1..Lengths(m_sglist_vector)
    BY <1>1, <1>7, <2>1, <2>5, ListTypes, EntryOfWord
  <2>7. Buffer[o + ((a - p) + 1)] = p + ((a - p) + 1) - 1
    BY <1>1, <1>7, <2>1, <2>5 DEF LoadInv, Drawn, Piece
  <2>8. o + ((a - p) + 1) = o + (a - p) + 1 /\ p + ((a - p) + 1) - 1 = a
    BY <2>2, <2>4
  <2>9. QED
    BY <1>1, <2>1, <2>6, <2>7, <2>8 DEF LoadInv
<1>8. Holds(m_sglist_vector[k], a)
  BY <1>4, <1>5 DEF Holds
<1>9. PICK c : c = CHOOSE n \in DOMAIN m_sglist_vector : Holds(m_sglist_vector[n], a)
  OBVIOUS
<1>10. c \in 1..Len(m_sglist_vector) /\ Holds(m_sglist_vector[c], a)
  BY <1>3, <1>6, <1>8, <1>9
<1>11. physAddrToOffset(a) = Sums(m_sglist_vector)[c - 1] + (a - m_sglist_vector[c].pointer)
  BY <1>9 DEF physAddrToOffset, Start
<1>12. Sums(m_sglist_vector)[k - 1] + (a - m_sglist_vector[k].pointer) + 1 = x + 1
  <2>1. Sums(m_sglist_vector)[k - 1] \in Nat
    BY <1>1, <1>3, ListTypes
  <2>2. a - m_sglist_vector[k].pointer = s
    BY <1>4, <1>5
  <2>3. QED
    BY <1>4, <2>1, <2>2
<1>13. PICK y : y = Sums(m_sglist_vector)[c - 1] + (a - m_sglist_vector[c].pointer)
  OBVIOUS
<1>14. y + 1 \in 1..Total /\ Buffer[y + 1] = a
  BY <1>7, <1>10, <1>13
<1>15. x + 1 \in 1..Total /\ Buffer[x + 1] = a
  BY <1>3, <1>7, <1>8, <1>12
<1>16. y + 1 = x + 1
  BY <1>1, <1>14, <1>15, BufferInjective DEF CallInv
<1>17. y \in Int
  <2>1. /\ Sums(m_sglist_vector)[c - 1] \in Nat /\ m_sglist_vector[c].pointer \in Nat
        /\ m_sglist_vector[k].pointer \in Nat
    BY <1>1, <1>3, <1>10, ListTypes
  <2>2. a \in Nat
    BY <1>5
  <2>3. PICK u, v : u = Sums(m_sglist_vector)[c - 1] /\ v = m_sglist_vector[c].pointer
    OBVIOUS
  <2>4. u \in Nat /\ v \in Nat /\ y = u + (a - v)
    BY <1>13, <2>1, <2>3
  <2>5. QED
    BY <2>2, <2>4
<1>18. y = x
  BY <1>1, <1>6, <1>16, <1>17
<1>19. QED
  BY <1>2, <1>11, <1>13, <1>18

\* The lists of the buffer and of an event are exact: merging the kernel's entries
\* loses and reorders no memory (buffer.cpp:309-360), composing covers the event and
\* nothing else (buffer.cpp:445-496), and offsets and physical addresses translate
\* back and forth (buffer.cpp:381-442), for every list the kernel may build.
THEOREM ListsAreExact == Spec => []ListsExact
<1>1. TypeOK /\ ListInv => ListsExact
  BY SameMemoryHolds, ComposeHolds, OffsetsHold DEF ListsExact
<1>2. QED
  BY <1>1, SgInvariant, PTL

LEMMA DeviceHolds == TypeOK /\ ListInv => DeviceSeesBuffer
<1>0. PushInv /\ call = "count" => ram[0].length = 0
  BY DEF PushInv, Zero, Entry
<1>1. SUFFICES ASSUME TypeOK, CallInv, LoadInv, PrepareInv, PushInv,
                      call = "configure", pc = "idle", result = "ok"
               PROVE  /\ \E a \in 0..MaxSg-1 : ram[a].length = 0
                      /\ Words(DeviceEntries) = Buffer
  BY <1>0 DEF ListInv, DeviceSeesBuffer, Buffer
<1>2. /\ newlist \in Seq(Entries) /\ Len(newlist) \in Nat /\ DOMAIN newlist = 1..Len(newlist)
      /\ Len(newlist) \in 0..MaxSg-1
  BY <1>1, ListTypes DEF PushInv
<1>3. ram[Len(newlist)].length = 0
  BY <1>1 DEF PushInv, Zero, Entry
<1>4. ASSUME NEW a \in 0..Len(newlist)-1
      PROVE  ram[a] = newlist[a + 1] /\ ram[a].length # 0
  <2>1. ram[a] = newlist[a + 1] /\ a + 1 \in 1..Len(newlist)
    BY <1>1, <1>2, <1>4 DEF PushInv, Written
  <2>2. Expressible(newlist[a + 1])
    BY <1>1, <2>1 DEF PrepareInv
  <2>3. QED
    BY <2>1, <2>2 DEF Expressible
<1>5. PICK ends : ends = {a \in 0..MaxSg-1 : ram[a].length = 0}
  OBVIOUS
<1>6. /\ Len(newlist) \in ends
      /\ \A m \in ends : Len(newlist) <= m
  <2>1. Len(newlist) \in ends
    BY <1>2, <1>3, <1>5
  <2>2. ASSUME NEW m \in ends PROVE Len(newlist) <= m
    <3>1. m \in Nat /\ ram[m].length = 0
      BY <1>5, <2>2
    <3>2. m \notin 0..Len(newlist)-1
      BY <1>4, <3>1
    <3>3. QED
      BY <1>2, <3>1, <3>2
  <2>3. QED
    BY <2>1, <2>2
<1>7. PICK c : c = CHOOSE n \in ends : \A m \in ends : n <= m
  OBVIOUS
<1>8. c \in ends /\ \A m \in ends : c <= m
  BY <1>6, <1>7
<1>9. c = Len(newlist)
  <2>1. c \in 0..MaxSg-1
    BY <1>5, <1>8
  <2>2. c <= Len(newlist) /\ Len(newlist) <= c
    BY <1>6, <1>8
  <2>3. c \in Nat
    BY <2>1
  <2>4. PICK n \in Nat : n = Len(newlist)
    BY <1>2
  <2>5. c <= n /\ n <= c
    BY <2>2, <2>4
  <2>6. c = n
    BY <2>3, <2>5
  <2>7. QED
    BY <2>4, <2>6
<1>10. DeviceEntries = [k \in 1..Len(newlist) |-> ram[k - 1]]
  BY <1>5, <1>7, <1>9 DEF DeviceEntries
<1>11. ASSUME NEW k \in 1..Len(newlist) PROVE ram[k - 1] = newlist[k]
  <2>1. k - 1 \in 0..Len(newlist)-1 /\ (k - 1) + 1 = k
    BY <1>2, <1>11
  <2>2. QED
    BY <1>4, <2>1
<1>12. DeviceEntries = newlist
  BY <1>2, <1>10, <1>11
<1>13. Drawn(newlist, Buffer) /\ Lengths(newlist) = Total
  BY <1>1 DEF PrepareInv, PushInv
<1>14. Buffer = [w \in 1..Lengths(newlist) |-> Buffer[w]]
  BY <1>1, <1>13, KernelList DEF CallInv
<1>15. Words(newlist) = Buffer
  BY <1>2, <1>13, <1>14, WordsOfDrawn
<1>16. QED
  BY <1>2, <1>3, <1>12, <1>15

\* When configureBufferDescriptorRam() succeeds (dma_channel.cpp:529-572) with a list
\* that could be read, the device reads the whole buffer in order, a list that ends,
\* and nothing that an earlier buffer left in the RAM, whatever the sizes of page,
\* length register and RAM.  When the kernel's list could not be read
\* (buffer.cpp:326-335) the call succeeds as well, and the device reads an empty list.
THEOREM DeviceSees == Spec => []DeviceSeesBuffer
<1>1. QED
  BY SgInvariant, DeviceHolds, PTL

LEMMA AnnouncedHolds == TypeOK /\ ListInv => AnnouncedIsEvent
<1>1. SUFFICES ASSUME TypeOK, CallInv, ComposeInv, AnnounceInv, call = "announce"
               PROVE  /\ \A k \in DOMAIN sent :
                             sent[k].eoe => Words([j \in 1..k |-> sent[j].entry]) = EventWords
                      /\ pc = "idle" => fifo = <<>> /\ sent[Len(sent)].eoe
  BY DEF ListInv, AnnouncedIsEvent
<1>2. /\ list \in Seq(Entries) /\ Len(list) \in Nat /\ (list # <<>> => rem_size = 0)
      /\ \A k \in 1..Len(list) : list[k] \in Entries /\ Expressible(list[k])
  BY <1>1, ListTypes, EntryType DEF ComposeInv
<1>3. /\ Len(sent) \in Nat /\ Len(fifo) \in Nat /\ DOMAIN sent = 1..Len(sent)
      /\ Len(sent) + Len(fifo) = iter - 1 /\ iter \in 1 .. 1 + Len(list)
      /\ \A k \in 1..Len(sent) : sent[k] = Descriptor(k)
  BY <1>1 DEF AnnounceInv, TypeOK
<1>4. \A k \in 1..Len(sent) : k \in 1..Len(list)
  BY <1>2, <1>3
<1>5. ASSUME NEW k \in 1..Len(sent)
      PROVE  sent[k].entry = list[k] /\ (sent[k].eoe <=> k = Len(list))
  <2>1. sent[k] = Descriptor(k) /\ Pushed(list[k]) = list[k]
    BY <1>2, <1>3, <1>4, <1>5, PushedWhole
  <2>2. Descriptor(k).entry = list[k] /\ (Descriptor(k).eoe <=> k = Len(list))
    BY <2>1 DEF Descriptor
  <2>3. QED
    BY <2>1, <2>2
<1>6. ASSUME NEW k \in 1..Len(sent), sent[k].eoe
      PROVE  Words([j \in 1..k |-> sent[j].entry]) = EventWords
  <2>1. k = Len(list) /\ rem_size = 0
    <3>1. k = Len(list)
      BY <1>5, <1>6
    <3>2. Len(list) # 0
      BY <1>3, <1>6, <3>1
    <3>3. list # <<>>
      BY <1>2, <3>2
    <3>4. QED
      BY <1>2, <3>1, <3>3
  <2>2. [j \in 1..k |-> sent[j].entry] = [j \in 1..Len(list) |-> list[j]]
    <3>1. \A j \in 1..k : j \in 1..Len(sent)
      BY <1>3, <1>6
    <3>2. QED
      BY <1>5, <2>1, <3>1
  <2>3. [j \in 1..Len(list) |-> list[j]] = list
    BY <1>2
  <2>4. QED
    BY <1>1, <1>2, <2>1, <2>2, <2>3, ComposedWords
<1>7. ASSUME pc = "idle"
      PROVE  fifo = <<>> /\ sent[Len(sent)].eoe
  <2>1. fifo = <<>> /\ iter = Len(list) + 1 /\ list # <<>>
    BY <1>1, <1>7 DEF AnnounceInv
  <2>2. Len(sent) = Len(list) /\ Len(list) # 0
    BY <1>2, <1>3, <2>1
  <2>3. Len(sent) \in 1..Len(sent)
    BY <1>3, <2>2, <1>2
  <2>4. sent[Len(sent)].eoe <=> Len(sent) = Len(list)
    BY <1>5, <2>3
  <2>5. QED
    BY <2>1, <2>2, <2>4
<1>8. QED
  BY <1>3, <1>6, <1>7

\* The device sends exactly the event that was composed and announced, its end is
\* marked at its last entry and nowhere before, and a released event leaves nothing
\* behind for the next one (dma_channel.cpp:469-487, dma_out.cpp:213-230).
THEOREM AnnouncedWhole == Spec => []AnnouncedIsEvent
<1>1. QED
  BY SgInvariant, AnnouncedHolds, PTL

=============================================================================
