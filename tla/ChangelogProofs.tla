--------------------------- MODULE ChangelogProofs ---------------------------
(***************************************************************************)
(* Theorems about Changelog.  What its lookup serves is a matter of the    *)
(* listing and the range alone: the first sections prove of Compare that   *)
(* it is an order and of Lookup what each of its outcomes means; that a    *)
(* changelog is what such a lookup returned is the invariant of the last.  *)
(***************************************************************************)
EXTENDS Changelog, TLAPS, FiniteSetTheorems, SequenceTheorems, WellFoundedInduction

-----------------------------------------------------------------------------
(* Compare is an order: two versions are compared place by place, and the  *)
(* first place that tells them apart decides.                              *)

Place == Nat \ {0}
Outcome == {-1, 0, 1}

(* The least of a set of places.                                           *)
LEMMA LeastNatural ==
  ASSUME NEW T, T \subseteq Nat, T # {}
  PROVE  \E m \in T : \A n \in T : m <= n
<1> DEFINE R == OpToRel(<, Nat)
<1>1. IsWellFoundedOn(R, Nat)
  BY NatLessThanWellFounded
<1>2. \A i, j \in Nat : i < j => <<i, j>> \in R
  BY DEF OpToRel
<1> HIDE DEF R
<1>3. PICK m \in T : \A n \in T : ~(<<n, m>> \in R)
  BY <1>1, WFMin
<1>4. ASSUME NEW n \in T, ~(m <= n) PROVE FALSE
  <2>1. m \in Nat /\ n \in Nat
    OBVIOUS
  <2>2. n < m
    BY <1>4, <2>1
  <2> QED BY <1>2, <1>3, <2>1, <2>2
<1> QED BY <1>4

(* Min finds it.                                                           *)
LEMMA LeastIsMin ==
  ASSUME NEW T, T \subseteq Nat, T # {}
  PROVE  Min(T) \in T /\ \A n \in T : Min(T) <= n
BY LeastNatural DEF Min

(* Max finds the greatest, below a bound.                                  *)
LEMMA GreatestIsMax ==
  ASSUME NEW T, T \subseteq Nat, T # {}, NEW n \in Nat, \A i \in T : i <= n
  PROVE  Max(T) \in T /\ \A i \in T : i <= Max(T)
<1> DEFINE bounds == {b \in Nat : \A i \in T : i <= b}
<1>1. bounds # {} /\ bounds \subseteq Nat
  OBVIOUS
<1>2. PICK m \in bounds : \A b \in bounds : m <= b
  <2> HIDE DEF bounds
  <2> QED BY <1>1, LeastNatural
<1>3. m \in T
  <2> SUFFICES ASSUME m \notin T PROVE FALSE
    OBVIOUS
  <2>1. m \in Nat /\ \A i \in T : i \in Nat /\ i <= m /\ i # m
    OBVIOUS
  <2>2. m # 0
    <3>1. PICK i \in T : TRUE
      OBVIOUS
    <3> QED BY <2>1, <3>1
  <2>3. m - 1 \in Nat /\ ~(m <= m - 1) /\ \A i \in T : i <= m - 1
    BY <2>1, <2>2
  <2>4. m - 1 \in bounds
    BY <2>3
  <2> QED BY <1>2, <2>3, <2>4
<1>4. \A i \in T : i <= m
  OBVIOUS
<1> QED BY <1>3, <1>4 DEF Max

(* n is what the first place with an outcome says. *)
Decides(f, n) ==
  \/ n = 0 /\ \A i \in Place : f[i] = 0
  \/ \E m \in Place :
       n = f[m] /\ f[m] # 0 /\ \A i \in Place : i < m => f[i] = 0

(* Three outcomes that follow from one order, and the two of one pair.     *)
Chained(ab, bc, ac) ==
  ab <= 0 /\ bc <= 0 => ac <= 0 /\ (ab < 0 \/ bc < 0 => ac < 0)
Mirrored(ab, ba) ==
  /\ ab = 0 <=> ba = 0
  /\ ab = -1 <=> ba = 1
  /\ ab = 1 <=> ba = -1

(* What is ordered at every place is ordered by the first one that differs.*)
LEMMA FirstPlaceOrders ==
  ASSUME NEW f \in [Place -> Outcome], NEW g \in [Place -> Outcome],
         NEW h \in [Place -> Outcome], NEW x, NEW y, NEW z,
         Decides(f, x), Decides(g, y), Decides(h, z),
         \A i \in Place : Chained(f[i], g[i], h[i])
  PROVE  Chained(x, y, z)
<1>1. \A i \in Place : f[i] \in Outcome /\ g[i] \in Outcome /\ h[i] \in Outcome
  OBVIOUS
<1>2. x \in Outcome /\ y \in Outcome /\ z \in Outcome
  BY <1>1 DEF Decides, Outcome
<1> SUFFICES ASSUME x <= 0, y <= 0 PROVE z <= 0 /\ (x < 0 \/ y < 0 => z < 0)
  BY DEF Chained
<1> DEFINE told == {i \in Place : f[i] # 0 \/ g[i] # 0}
<1>3. CASE told = {}
  <2>1. \A i \in Place : f[i] = 0 /\ g[i] = 0
    BY <1>3
  <2>2. x = 0 /\ y = 0
    BY <2>1 DEF Decides
  <2>3. \A i \in Place : h[i] <= 0
    BY <2>1 DEF Chained
  <2> QED BY <2>2, <2>3 DEF Decides
<1>4. CASE told # {}
  <2>1. PICK k \in told : \A i \in told : k <= i
    <3>1. told \subseteq Nat
      BY DEF Place
    <3> HIDE DEF told
    <3> QED BY <1>4, <3>1, LeastNatural
  <2>2. \A i \in Place : i < k => f[i] = 0 /\ g[i] = 0
    <3> SUFFICES ASSUME NEW i \in Place, i < k PROVE i \notin told
      OBVIOUS
    <3>1. ~(k <= i)
      BY DEF Place
    <3> QED BY <2>1, <3>1
  <2>3. f[k] = 0 \/ f[k] = x
    <3>1. CASE x = 0 /\ \A i \in Place : f[i] = 0
      BY <3>1
    <3>2. ASSUME NEW m \in Place, x = f[m], f[m] # 0, \A i \in Place : i < m => f[i] = 0
          PROVE  f[k] = 0 \/ f[k] = x
      <4>1. ~(m < k)
        BY <2>2, <3>2
      <4>2. k < m \/ k = m
        BY <4>1 DEF Place
      <4> QED BY <3>2, <4>2
    <3> QED BY <3>1, <3>2 DEF Decides
  <2>4. g[k] = 0 \/ g[k] = y
    <3>1. CASE y = 0 /\ \A i \in Place : g[i] = 0
      BY <3>1
    <3>2. ASSUME NEW m \in Place, y = g[m], g[m] # 0, \A i \in Place : i < m => g[i] = 0
          PROVE  g[k] = 0 \/ g[k] = y
      <4>1. ~(m < k)
        BY <2>2, <3>2
      <4>2. k < m \/ k = m
        BY <4>1 DEF Place
      <4> QED BY <3>2, <4>2
    <3> QED BY <3>1, <3>2 DEF Decides
  <2>5. f[k] <= 0 /\ g[k] <= 0 /\ (f[k] < 0 \/ g[k] < 0)
    <3>1. f[k] # 0 \/ g[k] # 0
      BY <2>1
    <3> QED BY <1>1, <2>3, <2>4, <3>1 DEF Outcome
  <2>6. h[k] < 0
    BY <2>5 DEF Chained
  <2>7. \A i \in Place : i < k => h[i] <= 0
    BY <2>2 DEF Chained
  <2>8. ASSUME NEW m \in Place, z = h[m], h[m] # 0, \A i \in Place : i < m => h[i] = 0
        PROVE  z < 0
    <3>1. ~(k < m)
      BY <2>6, <2>8
    <3>2. m < k \/ m = k
      BY <3>1 DEF Place
    <3>3. CASE m < k
      BY <1>1, <2>7, <2>8, <3>3 DEF Outcome
    <3> QED BY <2>6, <2>8, <3>2, <3>3
  <2>9. ~(\A i \in Place : h[i] = 0)
    BY <2>6
  <2>10. z < 0
    BY <2>8, <2>9 DEF Decides
  <2> QED BY <1>2, <2>10 DEF Outcome
<1> QED BY <1>3, <1>4

(* So is what is said of the same pair the other way round.                *)
LEMMA FirstPlaceMirrors ==
  ASSUME NEW f \in [Place -> Outcome], NEW g \in [Place -> Outcome], NEW x, NEW y,
         Decides(f, x), Decides(g, y), \A i \in Place : Mirrored(f[i], g[i])
  PROVE  x \in Outcome /\ Mirrored(x, y)
<1>1. \A i \in Place : f[i] = 0 <=> g[i] = 0
  BY DEF Mirrored
<1>2. CASE x = 0 /\ \A i \in Place : f[i] = 0
  <2>1. y = 0
    BY <1>1, <1>2 DEF Decides
  <2> QED BY <1>2, <2>1 DEF Mirrored, Outcome
<1>3. ASSUME NEW m \in Place, x = f[m], f[m] # 0, \A i \in Place : i < m => f[i] = 0
      PROVE  x \in Outcome /\ Mirrored(x, y)
  <2>1. PICK n \in Place : y = g[n] /\ g[n] # 0 /\ \A i \in Place : i < n => g[i] = 0
    BY <1>1, <1>3 DEF Decides
  <2>2. ~(m < n) /\ ~(n < m)
    BY <1>1, <1>3, <2>1
  <2>3. m = n
    BY <2>2 DEF Place
  <2> QED BY <1>3, <2>1, <2>3
<1> QED BY <1>2, <1>3 DEF Decides

(* Place by place, the outcomes of two cores and of two suffixes, where a  *)
(* version without a suffix is above every one that has any.               *)
CoreAt(a, b) == [i \in Place |-> Sign(PartAt(a, i) - PartAt(b, i))]

IdentifierAt(a, b, i) ==
  IF i <= Len(a) /\ i <= Len(b) THEN CompareRangeIdentifier(a[i], b[i])
  ELSE IF i <= Len(a) THEN 1 ELSE IF i <= Len(b) THEN -1 ELSE 0
SuffixAt(a, b) ==
  [i \in Place |-> IF a = <<>> /\ b = <<>> THEN 0
                   ELSE IF a = <<>> THEN 1 ELSE IF b = <<>> THEN -1
                   ELSE IdentifierAt(a, b, i)]

CompareSuffixes(a, b) ==
  ComparePrerelease(a, b, [i \in DOMAIN a \cap DOMAIN b |-> CompareRangeIdentifier(a[i], b[i])])

(* CompareNumbers is decided by the first segment that differs.            *)
LEMMA CoresAreDecided ==
  ASSUME NEW a \in Seq(Nat), NEW b \in Seq(Nat)
  PROVE  CoreAt(a, b) \in [Place -> Outcome] /\ Decides(CoreAt(a, b), CompareNumbers(a, b))
<1> DEFINE differ == {i \in DOMAIN a \cup DOMAIN b : PartAt(a, i) # PartAt(b, i)}
           f == CoreAt(a, b)
<1>1. DOMAIN a \subseteq Place /\ DOMAIN b \subseteq Place
  BY DEF Place
<1>2. \A i \in Place : PartAt(a, i) \in Nat /\ PartAt(b, i) \in Nat
  BY DEF PartAt
<1>3. \A i \in Place : /\ f[i] = Sign(PartAt(a, i) - PartAt(b, i)) /\ f[i] \in Outcome
                       /\ f[i] = 0 <=> PartAt(a, i) = PartAt(b, i)
  <2> SUFFICES ASSUME NEW i \in Place
               PROVE  /\ f[i] = Sign(PartAt(a, i) - PartAt(b, i)) /\ f[i] \in Outcome
                      /\ f[i] = 0 <=> PartAt(a, i) = PartAt(b, i)
    OBVIOUS
  <2>1. f[i] = Sign(PartAt(a, i) - PartAt(b, i))
    BY DEF CoreAt
  <2>2. PartAt(a, i) \in Nat /\ PartAt(b, i) \in Nat
    BY <1>2
  <2> QED BY <2>1, <2>2 DEF Sign, Outcome
<1>4. \A i \in Place : f[i] # 0 <=> i \in differ
  BY <1>3 DEF PartAt
<1>5. f \in [Place -> Outcome]
  BY <1>3 DEF CoreAt
<1>6. Moved(a, b) = IF differ = {} THEN 0 ELSE Min(differ)
  BY DEF Moved
<1>7. differ \subseteq Place
  BY <1>1
<1> HIDE DEF differ, f
<1>8. CASE differ = {}
  <2>1. CompareNumbers(a, b) = 0
    BY <1>6, <1>8 DEF CompareNumbers
  <2> QED BY <1>4, <1>5, <1>8, <2>1 DEF Decides, f
<1>9. CASE differ # {}
  <2>1. differ \subseteq Nat
    BY <1>7 DEF Place
  <2>2. PICK m \in differ : m = Moved(a, b) /\ \A i \in differ : m <= i
    BY <1>6, <1>9, <2>1, LeastIsMin
  <2>3. m \in Place /\ m # 0
    BY <1>7, <2>2 DEF Place
  <2>4. CompareNumbers(a, b) = f[m]
    BY <1>3, <2>2, <2>3 DEF CompareNumbers
  <2>5. ASSUME NEW i \in Place, i < m PROVE f[i] = 0
    <3>1. ~(m <= i)
      BY <2>3, <2>5 DEF Place
    <3> QED BY <1>4, <2>2, <3>1
  <2>6. f[m] # 0
    BY <1>4, <2>2, <2>3
  <2>7. Decides(f, CompareNumbers(a, b))
    BY <2>3, <2>4, <2>5, <2>6 DEF Decides
  <2> QED BY <1>5, <2>7 DEF f
<1> QED BY <1>8, <1>9

(* Identifiers are ordered: numbers first, words by their text.            *)
LEMMA IdentifiersAreOrdered ==
  ASSUME NEW x \in Identifier, NEW y \in Identifier, NEW z \in Identifier
  PROVE  /\ CompareRangeIdentifier(x, y) \in Outcome
         /\ Mirrored(CompareRangeIdentifier(x, y), CompareRangeIdentifier(y, x))
         /\ Chained(CompareRangeIdentifier(x, y), CompareRangeIdentifier(y, z),
                    CompareRangeIdentifier(x, z))
<1>1. \A u \in Identifier : /\ u.number \in Nat \/ u.number = -1 \/ u.number = -2
                            /\ u.text \in Int
  BY DEF Identifier, Word, TooBig
<1>2. \A u, v \in Identifier :
        CompareRangeIdentifier(u, v) =
          IF u.number \in Nat /\ v.number \in Nat THEN Sign(u.number - v.number)
          ELSE IF u.number \in Nat THEN -1
          ELSE IF v.number \in Nat THEN 1
          ELSE Sign(u.text - v.text)
  BY <1>1 DEF CompareRangeIdentifier, Word, TooBig
<1>3. CompareRangeIdentifier(x, y) \in Outcome
  BY <1>1, <1>2 DEF Sign, Outcome
<1>4. Mirrored(CompareRangeIdentifier(x, y), CompareRangeIdentifier(y, x))
  BY <1>1, <1>2 DEF Mirrored, Sign
<1>5. Chained(CompareRangeIdentifier(x, y), CompareRangeIdentifier(y, z),
              CompareRangeIdentifier(x, z))
  BY <1>1, <1>2 DEF Chained, Sign
<1> QED BY <1>3, <1>4, <1>5

(* And so is what two suffixes say at a place.                             *)
LEMMA PlacesAreOrdered ==
  ASSUME NEW a \in Seq(Identifier), NEW b \in Seq(Identifier), NEW c \in Seq(Identifier),
         NEW i \in Place
  PROVE  /\ SuffixAt(a, b)[i] \in Outcome
         /\ Mirrored(SuffixAt(a, b)[i], SuffixAt(b, a)[i])
         /\ Chained(SuffixAt(a, b)[i], SuffixAt(b, c)[i], SuffixAt(a, c)[i])
<1> DEFINE known(x) == x # <<>> /\ i <= Len(x)
           Cmp(x, y) == CompareRangeIdentifier(x[i], y[i])
<1>1. \A x \in {a, b, c} : known(x) => x[i] \in Identifier
  BY DEF Place
<1>2. \A x, y \in {a, b, c} :
        SuffixAt(x, y)[i] =
          IF x = <<>> /\ y = <<>> THEN 0 ELSE IF x = <<>> THEN 1 ELSE IF y = <<>> THEN -1
          ELSE IF known(x) /\ known(y) THEN Cmp(x, y)
          ELSE IF known(x) THEN 1 ELSE IF known(y) THEN -1 ELSE 0
  BY DEF SuffixAt, IdentifierAt
<1>3. \A x, y \in {a, b, c} : known(x) /\ known(y) =>
        Cmp(x, y) \in Outcome /\ Mirrored(Cmp(x, y), Cmp(y, x))
  BY <1>1, IdentifiersAreOrdered
<1>4. known(a) /\ known(b) /\ known(c) => Chained(Cmp(a, b), Cmp(b, c), Cmp(a, c))
  BY <1>1, IdentifiersAreOrdered
<1>5. \A x \in {a, b, c} : known(x) => x # <<>>
  OBVIOUS
<1> HIDE DEF known, Cmp
<1>6. SuffixAt(a, b)[i] \in Outcome
  BY <1>2, <1>3 DEF Outcome
<1>7. Mirrored(SuffixAt(a, b)[i], SuffixAt(b, a)[i])
  BY <1>2, <1>3 DEF Mirrored
<1>8. Chained(SuffixAt(a, b)[i], SuffixAt(b, c)[i], SuffixAt(a, c)[i])
  BY <1>2, <1>3, <1>4, <1>5 DEF Chained, Outcome
<1> QED BY <1>6, <1>7, <1>8

(* ComparePrerelease is decided by the first identifier that differs, or   *)
(* that only one of two suffixes has.                                      *)
LEMMA SuffixesAreDecided ==
  ASSUME NEW a \in Seq(Identifier), NEW b \in Seq(Identifier)
  PROVE  /\ SuffixAt(a, b) \in [Place -> Outcome]
         /\ Decides(SuffixAt(a, b), CompareSuffixes(a, b))
<1> DEFINE f == SuffixAt(a, b)
           order == [i \in DOMAIN a \cap DOMAIN b |-> CompareRangeIdentifier(a[i], b[i])]
           decided == {i \in DOMAIN order : order[i] # 0}
           m == Len(a)
           n == Len(b)
<1>1. /\ m \in Nat /\ n \in Nat /\ DOMAIN a = 1..m /\ DOMAIN b = 1..n
      /\ a = <<>> <=> m = 0
      /\ b = <<>> <=> n = 0
  OBVIOUS
<1>2. f \in [Place -> Outcome]
  <2>1. \A i \in Place : f[i] \in Outcome
    BY PlacesAreOrdered
  <2> QED BY <2>1 DEF SuffixAt
<1>3. CompareSuffixes(a, b) = IF a = <<>> \/ b = <<>> THEN Sign(n - m)
                              ELSE IF decided = {} THEN Sign(m - n)
                              ELSE order[Min(decided)]
  BY DEF CompareSuffixes, ComparePrerelease
<1>4. \A i \in Place : f[i] = IF a = <<>> /\ b = <<>> THEN 0 ELSE IF a = <<>> THEN 1
                              ELSE IF b = <<>> THEN -1
                              ELSE IF i <= m /\ i <= n THEN CompareRangeIdentifier(a[i], b[i])
                              ELSE IF i <= m THEN 1 ELSE IF i <= n THEN -1 ELSE 0
  BY DEF SuffixAt, IdentifierAt
<1>5. DOMAIN order = {i \in Place : i <= m /\ i <= n}
  BY <1>1 DEF Place
<1>6. \A i \in DOMAIN order : order[i] = CompareRangeIdentifier(a[i], b[i])
  OBVIOUS
<1>7. 1 \in Place
  BY DEF Place
<1> HIDE DEF f, order, m, n
<1>8. CASE a = <<>> \/ b = <<>>
  <2>1. CompareSuffixes(a, b) = Sign(n - m)
    BY <1>3, <1>8
  <2>2. CASE a = <<>> /\ b = <<>>
    <3>1. CompareSuffixes(a, b) = 0
      BY <1>1, <2>1, <2>2 DEF Sign
    <3>2. \A i \in Place : f[i] = 0
      BY <1>4, <2>2
    <3> QED BY <1>2, <3>1, <3>2 DEF Decides, f
  <2>3. CASE ~(a = <<>> /\ b = <<>>)
    <3>1. CompareSuffixes(a, b) = f[1] /\ f[1] # 0
      <4>1. CASE a = <<>> /\ b # <<>>
        <5>1. n > 0 /\ m = 0
          BY <1>1, <4>1
        <5>2. CompareSuffixes(a, b) = 1
          BY <1>1, <2>1, <5>1 DEF Sign
        <5> QED BY <1>4, <1>7, <4>1, <5>2
      <4>2. CASE a # <<>> /\ b = <<>>
        <5>1. m > 0 /\ n = 0
          BY <1>1, <4>2
        <5>2. CompareSuffixes(a, b) = -1
          BY <1>1, <2>1, <5>1 DEF Sign
        <5> QED BY <1>4, <1>7, <4>2, <5>2
      <4> QED BY <1>8, <2>3, <4>1, <4>2
    <3>2. \A i \in Place : ~(i < 1)
      BY DEF Place
    <3>3. Decides(f, CompareSuffixes(a, b))
      BY <1>7, <3>1, <3>2 DEF Decides
    <3> QED BY <1>2, <3>3 DEF f
  <2> QED BY <2>2, <2>3
<1>9. CASE a # <<>> /\ b # <<>> /\ decided = {}
  <2>1. CompareSuffixes(a, b) = Sign(m - n)
    BY <1>3, <1>9
  <2>2. \A i \in Place : i <= m /\ i <= n => f[i] = 0
    <3> SUFFICES ASSUME NEW i \in Place, i <= m, i <= n PROVE f[i] = 0
      OBVIOUS
    <3>1. i \in DOMAIN order /\ i \notin decided
      BY <1>5, <1>9
    <3>2. order[i] = 0
      BY <3>1
    <3> QED BY <1>4, <1>6, <1>9, <3>1, <3>2
  <2>3. CASE m = n
    <3>1. CompareSuffixes(a, b) = 0
      BY <1>1, <2>1, <2>3 DEF Sign
    <3>2. \A i \in Place : f[i] = 0
      BY <1>4, <1>9, <2>2, <2>3
    <3> QED BY <1>2, <3>1, <3>2 DEF Decides, f
  <2>4. CASE m < n
    <3>1. CompareSuffixes(a, b) = -1
      BY <1>1, <2>1, <2>4 DEF Sign
    <3>2. m + 1 \in Place /\ ~(m + 1 <= m) /\ m + 1 <= n
      BY <1>1, <2>4 DEF Place
    <3>3. f[m + 1] = -1
      BY <1>4, <1>9, <3>2
    <3>4. \A i \in Place : i < m + 1 => i <= m /\ i <= n
      BY <1>1, <2>4 DEF Place
    <3>5. \A i \in Place : i < m + 1 => f[i] = 0
      BY <2>2, <3>4
    <3>6. Decides(f, CompareSuffixes(a, b))
      BY <3>1, <3>2, <3>3, <3>5 DEF Decides
    <3> QED BY <1>2, <3>6 DEF f
  <2>5. CASE n < m
    <3>1. CompareSuffixes(a, b) = 1
      BY <1>1, <2>1, <2>5 DEF Sign
    <3>2. n + 1 \in Place /\ ~(n + 1 <= n) /\ n + 1 <= m
      BY <1>1, <2>5 DEF Place
    <3>3. f[n + 1] = 1
      BY <1>4, <1>9, <3>2
    <3>4. \A i \in Place : i < n + 1 => i <= m /\ i <= n
      BY <1>1, <2>5 DEF Place
    <3>5. \A i \in Place : i < n + 1 => f[i] = 0
      BY <2>2, <3>4
    <3>6. Decides(f, CompareSuffixes(a, b))
      BY <3>1, <3>2, <3>3, <3>5 DEF Decides
    <3> QED BY <1>2, <3>6 DEF f
  <2> QED BY <1>1, <2>3, <2>4, <2>5
<1>10. CASE a # <<>> /\ b # <<>> /\ decided # {}
  <2>1. decided \subseteq Nat /\ decided \subseteq DOMAIN order
    BY <1>5 DEF Place
  <2>2. PICK k \in decided : k = Min(decided) /\ \A i \in decided : k <= i
    <3> HIDE DEF decided
    <3> QED BY <1>10, <2>1, LeastIsMin
  <2>3. k \in Place /\ k <= m /\ k <= n
    BY <1>5, <2>1, <2>2
  <2>4. CompareSuffixes(a, b) = order[k] /\ order[k] # 0
    BY <1>3, <1>10, <2>2
  <2>5. f[k] = order[k]
    BY <1>4, <1>5, <1>6, <1>10, <2>3
  <2>6. ASSUME NEW i \in Place, i < k PROVE f[i] = 0
    <3>1. ~(k <= i) /\ i <= m /\ i <= n
      BY <1>1, <2>3, <2>6 DEF Place
    <3>2. i \in DOMAIN order /\ i \notin decided
      BY <1>5, <2>2, <3>1
    <3>3. order[i] = 0
      BY <3>2
    <3> QED BY <1>4, <1>6, <1>10, <3>1, <3>2, <3>3
  <2>7. Decides(f, CompareSuffixes(a, b))
    BY <2>3, <2>4, <2>5, <2>6 DEF Decides
  <2> QED BY <1>2, <2>7 DEF f
<1> QED BY <1>8, <1>9, <1>10

(* The order of a range, numbers before suffixes.                          *)
LEMMA RangeIsOrdered ==
  ASSUME NEW a \in Reference, NEW b \in Reference, NEW c \in Reference
  PROVE  /\ Compare(a, b) \in Outcome
         /\ Mirrored(Compare(a, b), Compare(b, a))
         /\ Chained(Compare(a, b), Compare(b, c), Compare(a, c))
<1> DEFINE N(x, y) == CompareNumbers(x.core, y.core)
           S(x, y) == CompareSuffixes(x.pre, y.pre)
           refs == {a, b, c}
<1>1. \A x \in refs : x.core \in Seq(Nat) /\ x.pre \in Seq(Identifier)
  BY DEF Reference
<1>2. \A x, y, z \in refs : N(x, y) \in Outcome /\ Mirrored(N(x, y), N(y, x))
                            /\ Chained(N(x, y), N(y, z), N(x, z))
  <2> SUFFICES ASSUME NEW x \in refs, NEW y \in refs, NEW z \in refs
               PROVE  N(x, y) \in Outcome /\ Mirrored(N(x, y), N(y, x))
                      /\ Chained(N(x, y), N(y, z), N(x, z))
    OBVIOUS
  <2>1. \A u, v \in refs : CoreAt(u.core, v.core) \in [Place -> Outcome]
                           /\ Decides(CoreAt(u.core, v.core), N(u, v))
    BY <1>1, CoresAreDecided
  <2>2. \A i \in Place : /\ PartAt(x.core, i) \in Nat /\ PartAt(y.core, i) \in Nat
                         /\ PartAt(z.core, i) \in Nat
    BY <1>1 DEF PartAt
  <2>3. ASSUME NEW i \in Place
        PROVE  /\ Mirrored(CoreAt(x.core, y.core)[i], CoreAt(y.core, x.core)[i])
               /\ Chained(CoreAt(x.core, y.core)[i], CoreAt(y.core, z.core)[i],
                          CoreAt(x.core, z.core)[i])
    <3> DEFINE p == PartAt(x.core, i)
               q == PartAt(y.core, i)
               r == PartAt(z.core, i)
    <3>1. /\ CoreAt(x.core, y.core)[i] = Sign(p - q) /\ CoreAt(y.core, x.core)[i] = Sign(q - p)
          /\ CoreAt(y.core, z.core)[i] = Sign(q - r) /\ CoreAt(x.core, z.core)[i] = Sign(p - r)
      BY DEF CoreAt
    <3>2. p \in Nat /\ q \in Nat /\ r \in Nat
      BY <2>2
    <3> HIDE DEF p, q, r
    <3>3. Mirrored(Sign(p - q), Sign(q - p))
      BY <3>2 DEF Mirrored, Sign
    <3>4. Chained(Sign(p - q), Sign(q - r), Sign(p - r))
      BY <3>2 DEF Chained, Sign
    <3> QED BY <3>1, <3>3, <3>4
  <2> HIDE DEF refs
  <2>4. N(x, y) \in Outcome /\ Mirrored(N(x, y), N(y, x))
    BY <2>1, <2>3, FirstPlaceMirrors
  <2>5. Chained(N(x, y), N(y, z), N(x, z))
    BY <2>1, <2>3, FirstPlaceOrders
  <2> QED BY <2>4, <2>5
<1>3. \A x, y, z \in refs : S(x, y) \in Outcome /\ Mirrored(S(x, y), S(y, x))
                            /\ Chained(S(x, y), S(y, z), S(x, z))
  <2> SUFFICES ASSUME NEW x \in refs, NEW y \in refs, NEW z \in refs
               PROVE  S(x, y) \in Outcome /\ Mirrored(S(x, y), S(y, x))
                      /\ Chained(S(x, y), S(y, z), S(x, z))
    OBVIOUS
  <2>1. \A u, v \in refs : SuffixAt(u.pre, v.pre) \in [Place -> Outcome]
                           /\ Decides(SuffixAt(u.pre, v.pre), S(u, v))
    BY <1>1, SuffixesAreDecided
  <2>2. \A i \in Place : /\ Mirrored(SuffixAt(x.pre, y.pre)[i], SuffixAt(y.pre, x.pre)[i])
                         /\ Chained(SuffixAt(x.pre, y.pre)[i], SuffixAt(y.pre, z.pre)[i],
                                    SuffixAt(x.pre, z.pre)[i])
    BY <1>1, PlacesAreOrdered
  <2> HIDE DEF refs
  <2>3. S(x, y) \in Outcome /\ Mirrored(S(x, y), S(y, x))
    BY <2>1, <2>2, FirstPlaceMirrors
  <2>4. Chained(S(x, y), S(y, z), S(x, z))
    BY <2>1, <2>2, FirstPlaceOrders
  <2> QED BY <2>3, <2>4
<1>4. \A x, y \in refs : Compare(x, y) = IF N(x, y) # 0 THEN N(x, y) ELSE S(x, y)
  BY DEF Compare, CompareSuffixes
<1>5. a \in refs /\ b \in refs /\ c \in refs
  OBVIOUS
<1> HIDE DEF N, S, refs
<1>6. Compare(a, b) \in Outcome
  BY <1>2, <1>3, <1>4, <1>5
<1>7. Mirrored(Compare(a, b), Compare(b, a))
  <2>1. Mirrored(N(a, b), N(b, a)) /\ Mirrored(S(a, b), S(b, a))
    BY <1>2, <1>3, <1>5
  <2> QED BY <1>4, <1>5, <2>1 DEF Mirrored
<1>8. Chained(Compare(a, b), Compare(b, c), Compare(a, c))
  <2>1. Chained(N(a, b), N(b, c), N(a, c)) /\ Chained(S(a, b), S(b, c), S(a, c))
    BY <1>2, <1>3, <1>5
  <2>2. /\ N(a, b) \in Outcome /\ N(b, c) \in Outcome /\ N(a, c) \in Outcome
        /\ S(a, b) \in Outcome /\ S(b, c) \in Outcome /\ S(a, c) \in Outcome
    BY <1>2, <1>3, <1>5
  <2> QED BY <1>4, <1>5, <2>1, <2>2 DEF Chained, Outcome
<1> QED BY <1>6, <1>7, <1>8

(* What a range needs of it: a version is not above itself, and of three   *)
(* that follow each other the last is above the first.                     *)
LEMMA Reflexive == ASSUME NEW a \in Reference PROVE Compare(a, a) = 0
<1>1. Compare(a, a) \in Outcome /\ Mirrored(Compare(a, a), Compare(a, a))
  BY RangeIsOrdered
<1> QED BY <1>1 DEF Mirrored, Outcome

(* Above what is above, or as high.                                        *)
LEMMA AboveIsAbove ==
  ASSUME NEW low \in Reference, NEW mid \in Reference, NEW high \in Reference
  PROVE  /\ Compare(mid, low) > 0 /\ Compare(mid, high) <= 0 => Compare(high, low) > 0
         /\ Compare(high, mid) > 0 /\ Compare(mid, low) > 0 => Compare(high, low) > 0
<1>1. /\ Compare(low, mid) \in Outcome /\ Compare(mid, high) \in Outcome
      /\ Compare(high, low) \in Outcome /\ Compare(mid, low) \in Outcome
      /\ Compare(high, mid) \in Outcome /\ Compare(low, high) \in Outcome
  BY RangeIsOrdered
<1>2. /\ Mirrored(Compare(low, mid), Compare(mid, low))
      /\ Mirrored(Compare(mid, high), Compare(high, mid))
      /\ Mirrored(Compare(low, high), Compare(high, low))
  BY RangeIsOrdered
<1>3. Chained(Compare(low, mid), Compare(mid, high), Compare(low, high))
  BY RangeIsOrdered
<1> QED BY <1>1, <1>2, <1>3 DEF Mirrored, Chained, Outcome

-----------------------------------------------------------------------------
(* The releases at some positions of a listing.                            *)

(* Between two positions is a number of positions, that tells them apart.  *)
LEMMA NthIsReached ==
  ASSUME NEW P, P \subseteq Nat, IsFiniteSet(P), NEW i \in P
  PROVE  \E k \in 1..Cardinality(P) : Nth(P, k) = i
<1> DEFINE below(x) == {j \in P : j <= x}
           k == Cardinality(below(i))
<1>1. \A x \in P : /\ IsFiniteSet(below(x)) /\ Cardinality(below(x)) \in Nat
                   /\ Cardinality(below(x)) <= Cardinality(P)
  <2> SUFFICES ASSUME NEW x \in P
               PROVE  /\ IsFiniteSet(below(x)) /\ Cardinality(below(x)) \in Nat
                      /\ Cardinality(below(x)) <= Cardinality(P)
    OBVIOUS
  <2>1. below(x) \subseteq P
    OBVIOUS
  <2> HIDE DEF below
  <2> QED BY <2>1, FS_Subset, FS_CardinalityType
<1>2. k # 0
  <2>1. i \in below(i)
    BY DEF below
  <2> HIDE DEF below
  <2> QED BY <1>1, <2>1, FS_EmptySet
<1>3. k \in 1..Cardinality(P)
  <2>1. k \in Nat /\ k <= Cardinality(P) /\ Cardinality(P) \in Nat
    BY <1>1, FS_CardinalityType
  <2> HIDE DEF k
  <2> QED BY <1>2, <2>1
<1>4. ASSUME NEW x \in P, NEW y \in P, x < y PROVE Cardinality(below(x)) < Cardinality(below(y))
  <2>0. x \in Nat /\ y \in Nat /\ ~(y <= x) /\ y <= y /\ \A j \in P : j <= x => j <= y
    BY <1>4
  <2>1. below(x) \subseteq below(y) /\ y \in below(y) /\ y \notin below(x)
    BY <2>0
  <2>2. IsFiniteSet(below(y)) /\ IsFiniteSet(below(x))
    BY <1>1
  <2> HIDE DEF below
  <2>3. Cardinality(below(x)) <= Cardinality(below(y)) /\ Cardinality(below(x)) # Cardinality(below(y))
    BY <2>1, <2>2, FS_Subset
  <2> QED BY <1>1, <2>3
<1>5. ASSUME NEW x \in P, Cardinality(below(x)) = k PROVE x = i
  <2>1. ~(x < i) /\ ~(i < x)
    BY <1>1, <1>4, <1>5
  <2> QED BY <2>1
<1>6. Nth(P, k) = i
  BY <1>5 DEF Nth
<1> QED BY <1>3, <1>6

(* Each of them is among what At returns.                                  *)
LEMMA AtHolds ==
  ASSUME NEW l, NEW P, P \subseteq Nat, IsFiniteSet(P)
  PROVE  /\ At(l, P) \in Seq(ToSet(At(l, P)))
         /\ \A i \in P : l[i] \in ToSet(At(l, P))
<1> DEFINE n == Cardinality(P)
<1>1. n \in Nat
  BY FS_CardinalityType
<1>2. At(l, P) = [k \in 1..n |-> l[Nth(P, k)]]
  BY DEF At
<1>3. ASSUME NEW i \in P PROVE l[i] \in ToSet(At(l, P))
  <2>1. PICK k \in 1..n : Nth(P, k) = i
    BY NthIsReached
  <2> QED BY <1>2, <2>1 DEF ToSet
<1> HIDE DEF n
<1>4. \A k \in 1..n : At(l, P)[k] \in ToSet(At(l, P))
  BY <1>2 DEF ToSet
<1>5. At(l, P) \in Seq(ToSet(At(l, P)))
  BY <1>1, <1>2, <1>4
<1> QED BY <1>3, <1>5

(* One sequence after another holds what both hold.                        *)
LEMMA BothAreHeld ==
  ASSUME NEW S, NEW T, NEW s \in Seq(S), NEW t \in Seq(T)
  PROVE  ToSet(s) \cup ToSet(t) \subseteq ToSet(s \o t)
<1>1. s \in Seq(S \cup T) /\ t \in Seq(S \cup T)
  OBVIOUS
<1>2. /\ Len(s \o t) = Len(s) + Len(t)
      /\ \A i \in 1..Len(s) : (s \o t)[i] = s[i]
      /\ \A i \in 1..Len(t) : (s \o t)[Len(s) + i] = t[i]
      /\ DOMAIN (s \o t) = 1..(Len(s) + Len(t))
      /\ DOMAIN s = 1..Len(s) /\ DOMAIN t = 1..Len(t) /\ Len(s) \in Nat /\ Len(t) \in Nat
  BY <1>1, ConcatProperties
<1>3. \A i \in DOMAIN s : i \in DOMAIN (s \o t)
  BY <1>2
<1>4. \A i \in DOMAIN t : Len(s) + i \in DOMAIN (s \o t)
  BY <1>2
<1> QED BY <1>2, <1>3, <1>4 DEF ToSet

-----------------------------------------------------------------------------
(* What a lookup of our upstream means for the releases it published.      *)

From == update.from
To == update.to
Read == Listing(history)
Ranged == Selected(Read, From, To)
Stamped == ExcludedTargets(Read, From, To)
Found == Between(Read, From, To)

(* There is something to look up: releases, and an update. *)
Asked == history \in Seq(Releases) /\ update \in Updates

(* The listing is what the page budget leaves of them.                     *)
LEMMA ListingIsRead ==
  ASSUME history \in Seq(Releases)
  PROVE  /\ Len(Read) \in Nat /\ DOMAIN Read = 1..Len(Read) /\ DOMAIN history = 1..Len(history)
         /\ DOMAIN Read = (1..PageBudget) \cap DOMAIN history
         /\ \A i \in DOMAIN Read : i \in Nat /\ i <= Len(Read)
         /\ \A i \in DOMAIN Read : Read[i] = history[i] /\ Read[i] \in Releases
         /\ Truncated(history) => Len(Read) = PageBudget
         /\ ~Truncated(history) => DOMAIN Read = DOMAIN history
<1> DEFINE len == Len(history)
           n == IF Truncated(history) THEN PageBudget ELSE len
<1>1. PageBudget \in Nat /\ len \in Nat /\ DOMAIN history = 1..len
  BY ChangelogAssumption
<1>2. Read = SubSeq(history, 1, n) /\ (Truncated(history) <=> len > PageBudget)
  BY DEF Read, Listing, Truncated
<1>3. n = IF Truncated(history) THEN PageBudget ELSE len
  OBVIOUS
<1>4. n = IF len > PageBudget THEN PageBudget ELSE len
  BY <1>2
<1> HIDE DEF len, n
<1>5. n \in Nat /\ n <= len /\ n <= PageBudget /\ (n = PageBudget \/ n = len)
  BY <1>1, <1>4
<1>6. \A i : i \in 1..n <=> i \in 1..PageBudget /\ i \in 1..len
  BY <1>1, <1>5
<1>7. Len(Read) = n /\ DOMAIN Read = 1..n /\ \A i \in 1..n : Read[i] = history[i]
  BY <1>2, <1>5, SubSeqProperties DEF len
<1>8. \A i \in 1..n : history[i] \in Releases
  BY <1>1, <1>6
<1>9. 1..n = (1..PageBudget) \cap (1..len) /\ \A i \in 1..n : i \in Nat /\ i <= n
  BY <1>5, <1>6
<1> QED BY <1>1, <1>3, <1>5, <1>7, <1>8, <1>9 DEF len

(* All of them are references, and so are the ends of the range.           *)
LEMMA AllAreReferences ==
  ASSUME Asked
  PROVE  /\ From \in Reference /\ To \in Reference
         /\ \A i \in DOMAIN history : /\ history[i].tag \in Reference
                                      /\ history[i].embeds \subseteq Reference
         /\ \A i \in DOMAIN Read : Read[i] = history[i] /\ Read[i].tag \in Reference
<1>1. From \in Reference /\ To \in Reference
  BY ChangelogAssumption DEF Asked, From, To
<1>2. \A i \in DOMAIN history : history[i] \in Releases
  BY DEF Asked
<1> QED BY <1>1, <1>2, ListingIsRead, ChangelogAssumption DEF Asked

(* The outcomes of a lookup.                                               *)
LEMMA LookupMeans ==
  ASSUME NEW found, found = Lookup(history)
  PROVE  /\ found.outcome \in Lookups
         /\ found.outcome \in {"missing", "resolved"} =>
              (Truncated(history) => AccountsForRange(Read, From, To))
         /\ found.outcome = "missing" =>
              Read = <<>> \/ (Found.complete /\ Found.releases = <<>>)
         /\ found.outcome = "resolved" =>
              Found.complete /\ found.releases = Found.releases /\ Found.releases # <<>>
BY DEF Lookup, Lookups, Read, From, To, Found

(* A release of which the listing says nothing is below its cut.           *)
LEMMA CutIsBelow ==
  ASSUME Asked, Truncated(history) => AccountsForRange(Read, From, To),
         NEW i \in DOMAIN history, i \notin DOMAIN Read
  PROVE  BelowTheCut(i)
<1>1. Truncated(history) /\ Len(Read) = PageBudget /\ DOMAIN Read = 1..PageBudget
  BY ListingIsRead DEF Asked
<1>2. PICK anchor \in DOMAIN Read :
        \A k \in 1..anchor : /\ Placed(Read[k].tag, From)
                             /\ (Compare(Read[k].tag, From) = 0) <=> (k = anchor)
  BY <1>1 DEF AccountsForRange
<1>3. anchor \in 1..anchor /\ anchor \in 1..PageBudget
  BY <1>1, <1>2
<1>4. Placed(history[anchor].tag, From) /\ Compare(history[anchor].tag, From) = 0
  BY <1>2, <1>3, ListingIsRead DEF Asked
<1>5. i > PageBudget
  <2>1. i \in Nat \ {0} /\ PageBudget \in Nat
    BY ChangelogAssumption DEF Asked
  <2>2. i \notin 1..PageBudget
    BY <1>1
  <2> QED BY <2>1, <2>2
<1> QED BY <1>3, <1>4, <1>5 DEF BelowTheCut, From

(* Positions of the listing are finite in number.                          *)
LEMMA PositionsAreFinite ==
  ASSUME Asked, NEW P, P \subseteq DOMAIN Read
  PROVE  P \subseteq Nat /\ IsFiniteSet(P)
<1>1. Len(Read) \in Nat /\ DOMAIN Read = 1..Len(Read)
  BY ListingIsRead DEF Asked
<1>2. IsFiniteSet(1..Len(Read))
  BY <1>1, FS_Interval
<1> QED BY <1>1, <1>2, FS_Subset

(* Every release in range is served, and the stamped ones are where none   *)
(* of those reaches the target.                                            *)
LEMMA RangeIsServed ==
  ASSUME Asked, Ranged # {}
  PROVE  /\ \A i \in Ranged : history[i] \in ToSet(Found.releases)
         /\ ~ReachesTo(Read, Ranged, To) =>
              \A i \in Stamped : history[i] \in ToSet(Found.releases)
         /\ Found.complete => ~Hole(Read, Ranged, From, To)
<1> DEFINE recovers == ~ReachesTo(Read, Ranged, To) /\ Stamped # {}
           more == IF recovers THEN At(Read, Stamped) ELSE <<>>
<1>1. Ranged \subseteq DOMAIN Read /\ Stamped \subseteq DOMAIN Read
  BY DEF Ranged, Selected, Stamped, ExcludedTargets
<1>2. Found.releases = more \o At(Read, Ranged)
      /\ (Found.complete => ~Hole(Read, Ranged, From, To))
  BY DEF Found, Between, Ranged, Stamped
<1>3. /\ At(Read, Ranged) \in Seq(ToSet(At(Read, Ranged)))
      /\ \A i \in Ranged : Read[i] \in ToSet(At(Read, Ranged))
  BY <1>1, AtHolds, PositionsAreFinite
<1>4. /\ At(Read, Stamped) \in Seq(ToSet(At(Read, Stamped)))
      /\ \A i \in Stamped : Read[i] \in ToSet(At(Read, Stamped))
  BY <1>1, AtHolds, PositionsAreFinite
<1>5. more \in Seq(ToSet(At(Read, Stamped)))
  BY <1>4
<1>6. ToSet(more) \cup ToSet(At(Read, Ranged)) \subseteq ToSet(Found.releases)
  BY <1>2, <1>3, <1>5, BothAreHeld
<1>7. \A i \in DOMAIN Read : Read[i] = history[i]
  BY ListingIsRead DEF Asked
<1>8. ~ReachesTo(Read, Ranged, To) => \A i \in Stamped : Read[i] \in ToSet(more)
  BY <1>4
<1> HIDE DEF more
<1> QED BY <1>1, <1>2, <1>3, <1>6, <1>7, <1>8

(* When nothing is in range, an exact target is all that is served.        *)
LEMMA TargetIsServed ==
  ASSUME Asked, Ranged = {}, Found.complete, Found.releases # <<>>
  PROVE  /\ \E i \in DOMAIN Read : history[i].tag = To /\ history[i] \in ToSet(Found.releases)
         /\ ~(Placed(To, From) /\ Compare(To, From) < 0)
<1> DEFINE exact == {i \in DOMAIN Read : Read[i].tag = To}
<1>1. Found = ExactTarget(Read, From, To)
  BY DEF Found, Between, Ranged
<1>2. exact # {} /\ ~(Placed(To, From) /\ Compare(To, From) < 0)
      /\ Found.releases = <<Read[Min(exact)]>>
  BY <1>1 DEF ExactTarget
<1>3. exact \subseteq Nat
  BY ListingIsRead DEF Asked
<1>4. Min(exact) \in exact
  <2> HIDE DEF exact
  <2> QED BY <1>2, <1>3, LeastIsMin
<1>5. Min(exact) \in DOMAIN Read /\ Read[Min(exact)].tag = To
  BY <1>4
<1>6. Read[Min(exact)] = history[Min(exact)]
  BY <1>5, ListingIsRead DEF Asked
<1>7. Read[Min(exact)] \in ToSet(Found.releases)
  <2>1. \A x : x \in ToSet(<<x>>)
    <3>1. \A x : 1 \in DOMAIN <<x>> /\ <<x>>[1] = x
      OBVIOUS
    <3> QED BY <3>1 DEF ToSet
  <2> QED BY <1>2, <2>1
<1> HIDE DEF exact
<1> QED BY <1>2, <1>5, <1>6, <1>7

(* The target is in a range that holds anything.                           *)
LEMMA RangeHoldsTarget ==
  ASSUME Asked, NEW v \in Reference, InRange(v, From, To)
  PROVE  Placed(To, From) /\ Compare(To, From) > 0 /\ InRange(To, From, To)
<1>1. From \in Reference /\ To \in Reference
  BY AllAreReferences
<1>2. Placed(To, From) /\ Placed(To, To)
  BY DEF InRange, Placed
<1>3. Compare(To, From) > 0
  BY <1>1, AboveIsAbove DEF InRange
<1>4. Compare(To, To) <= 0
  BY <1>1, Reflexive
<1> QED BY <1>2, <1>3, <1>4 DEF InRange

(* So an exact target, when it is in the listing, is in the range.         *)
LEMMA TargetIsRanged ==
  ASSUME Asked, NEW v \in Reference, InRange(v, From, To),
         NEW i \in DOMAIN Read, history[i].tag = To
  PROVE  i \in Ranged
<1>1. InRange(To, From, To)
  BY RangeHoldsTarget
<1>2. Read[i].tag = To
  BY AllAreReferences
<1> QED BY <1>1, <1>2 DEF Ranged, Selected

(* What was resolved holds every release that is read as one in range.     *)
LEMMA RangeIsInformed ==
  ASSUME Asked, Lookup(history).outcome = "resolved",
         NEW i \in DOMAIN history, NEW v \in ReadAs(history[i]), InRange(v, From, To)
  PROVE  history[i] \in ToSet(Lookup(history).releases) \/ BelowTheCut(i)
<1>1. /\ Truncated(history) => AccountsForRange(Read, From, To)
      /\ Found.complete /\ Lookup(history).releases = Found.releases /\ Found.releases # <<>>
  BY LookupMeans
<1>2. CASE i \notin DOMAIN Read
  BY <1>1, <1>2, CutIsBelow
<1>3. CASE i \in DOMAIN Read /\ Parses(history[i].tag)
  <2>1. v = history[i].tag /\ Read[i].tag = v
    BY <1>3, AllAreReferences DEF ReadAs
  <2>2. i \in Ranged
    BY <1>3, <2>1 DEF Ranged, Selected
  <2> QED BY <1>1, <2>2, RangeIsServed
<1>4. CASE i \in DOMAIN Read /\ ~Parses(history[i].tag)
  <2>1. v \in history[i].embeds /\ v \in Reference /\ Read[i] = history[i]
    BY <1>4, AllAreReferences DEF ReadAs
  <2>2. EmbeddedVersionInRange(Read[i], From, To)
    BY <2>1 DEF EmbeddedVersionInRange, Candidates
  <2>3. CASE Ranged # {}
    <3>1. Hole(Read, Ranged, From, To)
      BY <1>4, <2>1, <2>2 DEF Hole
    <3> QED BY <1>1, <2>3, <3>1, RangeIsServed
  <2>4. CASE Ranged = {}
    <3>1. PICK j \in DOMAIN Read : history[j].tag = To
      BY <1>1, <2>4, TargetIsServed
    <3> QED BY <2>1, <2>4, <3>1, TargetIsRanged
  <2> QED BY <2>3, <2>4
<1> QED BY <1>2, <1>3, <1>4

(* And the build stamped onto the target, unless it holds what reaches it. *)
LEMMA TargetIsInformed ==
  ASSUME Asked, Lookup(history).outcome = "resolved",
         NEW i \in DOMAIN history, ExtendsTo(history[i].tag, To), Compare(history[i].tag, To) > 0
  PROVE  \/ BelowTheCut(i)
         \/ \E r \in ToSet(Lookup(history).releases) : Placed(r.tag, To) /\ Compare(r.tag, To) >= 0
<1>1. /\ Truncated(history) => AccountsForRange(Read, From, To)
      /\ Found.complete /\ Lookup(history).releases = Found.releases /\ Found.releases # <<>>
  BY LookupMeans
<1>2. Placed(history[i].tag, To) /\ Placed(To, To)
  BY DEF ExtendsTo, Placed
<1>3. Compare(To, To) = 0
  BY Reflexive, AllAreReferences
<1>a. Compare(history[i].tag, To) \in Int
  BY RangeIsOrdered, AllAreReferences DEF Outcome
<1>4. CASE i \notin DOMAIN Read
  BY <1>1, <1>4, CutIsBelow
<1>5. CASE i \in DOMAIN Read /\ Ranged = {}
  <2>1. PICK j \in DOMAIN Read : history[j].tag = To /\ history[j] \in ToSet(Found.releases)
    BY <1>1, <1>5, TargetIsServed
  <2> QED BY <1>1, <1>2, <1>3, <2>1
<1>6. CASE i \in DOMAIN Read /\ Ranged # {} /\ ReachesTo(Read, Ranged, To)
  <2>1. PICK j \in Ranged : Compare(Read[j].tag, To) = 0 \/ Read[j].tag = To
    BY <1>6 DEF ReachesTo
  <2>2. j \in DOMAIN Read /\ Placed(Read[j].tag, To)
    BY <2>1 DEF Ranged, Selected, InRange
  <2>3. Read[j] = history[j] /\ history[j] \in ToSet(Found.releases)
    BY <1>6, <2>1, <2>2, AllAreReferences, RangeIsServed
  <2>4. Compare(Read[j].tag, To) = 0
    BY <1>3, <2>1
  <2> QED BY <1>1, <2>2, <2>3, <2>4
<1>7. CASE i \in DOMAIN Read /\ Ranged # {} /\ ~ReachesTo(Read, Ranged, To)
  <2>1. PICK j \in Ranged : j \in DOMAIN Read /\ InRange(Read[j].tag, From, To)
    BY <1>7 DEF Ranged, Selected
  <2>2. Read[j].tag \in Reference /\ Read[i] = history[i] /\ Read[i].tag \in Reference
        /\ From \in Reference /\ To \in Reference
    BY <1>7, <2>1, AllAreReferences
  <2>3. Placed(To, From) /\ Compare(To, From) > 0
    BY <2>1, <2>2, RangeHoldsTarget
  <2>4. Placed(Read[i].tag, From) /\ Compare(Read[i].tag, From) > 0
    BY <1>2, <2>2, <2>3, AboveIsAbove DEF Placed
  <2>5. ~InRange(Read[i].tag, From, To)
    BY <1>a, <2>2 DEF InRange
  <2>6. i \in Stamped
    BY <1>7, <2>2, <2>4, <2>5 DEF Stamped, ExcludedTargets
  <2>7. history[i] \in ToSet(Found.releases)
    BY <1>7, <2>6, RangeIsServed
  <2> QED BY <1>1, <1>2, <1>a, <2>7
<1> QED BY <1>4, <1>5, <1>6, <1>7

(* Between two releases in range every tag has its place.                  *)
LEMMA NothingLiesBetween ==
  ASSUME Asked, Lookup(history).outcome = "resolved",
         NEW i \in Ranged, NEW k \in Ranged, NEW j \in i..k
  PROVE  Parses(history[j].tag)
<1>1. Found.complete
  BY LookupMeans
<1>2. ~Hole(Read, Ranged, From, To)
  BY <1>1, RangeIsServed
<1>3. Ranged \subseteq DOMAIN Read /\ Ranged \subseteq Nat
  <2>1. Ranged \subseteq DOMAIN Read
    BY DEF Ranged, Selected
  <2> QED BY <2>1, PositionsAreFinite
<1>4. \A x \in Ranged : Parses(Read[x].tag)
  BY DEF Ranged, Selected, InRange, Placed
<1>5. Min(Ranged) \in Ranged /\ \A x \in Ranged : Min(Ranged) <= x
  BY <1>3, LeastIsMin
<1>6. Max(Ranged) \in Ranged /\ \A x \in Ranged : x <= Max(Ranged)
  <2>1. Len(Read) \in Nat /\ \A x \in Ranged : x <= Len(Read)
    BY <1>3, ListingIsRead DEF Asked
  <2> QED BY <1>3, <2>1, GreatestIsMax
<1>7. j \in DOMAIN Read
  <2>1. i \in 1..Len(Read) /\ k \in 1..Len(Read) /\ Len(Read) \in Nat /\ DOMAIN Read = 1..Len(Read)
    BY <1>3, ListingIsRead DEF Asked
  <2> HIDE DEF Read
  <2> QED BY <2>1
<1>8. Read[j] = history[j]
  BY <1>7, AllAreReferences
<1>9. Min(Ranged) <= j /\ j <= Max(Ranged)
  BY <1>3, <1>5, <1>6
<1>10. CASE j = Min(Ranged) \/ j = Max(Ranged)
  BY <1>4, <1>5, <1>6, <1>8, <1>10
<1>11. CASE Min(Ranged) < j /\ j < Max(Ranged)
  BY <1>2, <1>7, <1>8, <1>11 DEF Hole
<1>12. Min(Ranged) \in Nat /\ Max(Ranged) \in Nat /\ j \in Nat
  BY <1>3, <1>5, <1>6
<1> QED BY <1>9, <1>10, <1>11, <1>12

(* A lookup that finds nothing has seen no release in range.               *)
LEMMA NothingWasMissed ==
  ASSUME Asked, Lookup(history).outcome = "missing",
         NEW i \in DOMAIN history, InRange(history[i].tag, From, To)
  PROVE  BelowTheCut(i)
<1>1. /\ Truncated(history) => AccountsForRange(Read, From, To)
      /\ Read = <<>> \/ (Found.complete /\ Found.releases = <<>>)
  BY LookupMeans
<1>2. CASE i \notin DOMAIN Read
  BY <1>1, <1>2, CutIsBelow
<1>3. CASE i \in DOMAIN Read
  <2>1. Read[i] = history[i]
    BY <1>3, AllAreReferences
  <2>2. i \in Ranged
    BY <1>3, <2>1 DEF Ranged, Selected
  <2>3. history[i] \in ToSet(Found.releases)
    BY <2>2, RangeIsServed
  <2>4. DOMAIN <<>> = {}
    OBVIOUS
  <2> QED BY <1>1, <1>3, <2>3, <2>4 DEF ToSet
<1> QED BY <1>2, <1>3

-----------------------------------------------------------------------------
(* The class of an update that nobody holds.                               *)

(* Newer answers in outcomes.                                              *)
LEMMA NewerIsAnOutcome ==
  ASSUME NEW a \in Reference, NEW b \in Reference
  PROVE  Newer(a, b) \in Outcome
<1> DEFINE order == [i \in DOMAIN a.pre \cap DOMAIN b.pre |-> CompareIdentifier(a.pre[i], b.pre[i])]
           decided == {i \in DOMAIN order : order[i] # 0}
<1>1. \A n : Sign(n) \in Outcome
  BY DEF Sign, Outcome
<1>2. \A x, y : CompareIdentifier(x, y) \in Outcome
  BY <1>1 DEF CompareIdentifier, Outcome
<1>3. CompareNumbers(a.core, b.core) \in Outcome
  BY <1>1 DEF CompareNumbers, Outcome
<1>4. ComparePrerelease(a.pre, b.pre, order) \in Outcome
  <2>1. decided \subseteq Nat /\ decided \subseteq DOMAIN order
    BY DEF Reference
  <2>2. decided # {} => Min(decided) \in DOMAIN order
    <3> HIDE DEF decided
    <3> QED BY <2>1, LeastIsMin
  <2>3. \A i \in DOMAIN order : order[i] \in Outcome
    BY <1>2
  <2> HIDE DEF order
  <2> QED BY <1>1, <2>2, <2>3 DEF ComparePrerelease
<1> HIDE DEF order
<1>5. 0 \in Outcome
  BY DEF Outcome
<1> QED BY <1>3, <1>4, <1>5 DEF Newer, order

(* A first segment that moved is what moved.                               *)
LEMMA MajorMoves ==
  ASSUME NEW a \in Seq(Nat), NEW b \in Seq(Nat), a # <<>>, b # <<>>, a[1] # b[1]
  PROVE  Moved(a, b) = 1
<1> DEFINE differ == {i \in DOMAIN a \cup DOMAIN b : PartAt(a, i) # PartAt(b, i)}
<1>1. 1 \in DOMAIN a /\ 1 \in DOMAIN b
  OBVIOUS
<1>2. 1 \in differ
  BY <1>1 DEF PartAt
<1>3. differ \subseteq Place
  BY DEF Place
<1>4. Moved(a, b) = IF differ = {} THEN 0 ELSE Min(differ)
  BY DEF Moved
<1> HIDE DEF differ
<1>5. differ \subseteq Nat
  BY <1>3 DEF Place
<1>6. Min(differ) \in differ /\ Min(differ) <= 1
  BY <1>2, <1>5, LeastIsMin
<1>7. Min(differ) = 1
  <2>1. \A k \in Place : k <= 1 => k = 1
    BY DEF Place
  <2> QED BY <1>3, <1>6, <2>1
<1> QED BY <1>2, <1>4, <1>7

(* What is declared only ever makes a class stricter.                      *)
LEMMA DeclaredIsNoExcuse ==
  ASSUME NEW from, NEW to, NEW declared \in Declared,
         BumpClass(from, to, declared) \notin {"major", "unknown"}
  PROVE  CompareVersions(from, to) \notin {"major", "unknown"}
<1> DEFINE computed == CompareVersions(from, to)
<1>1. /\ BumpSeverity("major") = 4 /\ BumpSeverity("minor") = 3
      /\ BumpSeverity("patch") = 2 /\ BumpSeverity("digest") = 1
  BY DEF BumpSeverity
<1>2. BumpClass(from, to, declared) =
        IF declared = "" THEN computed
        ELSE IF declared = "major" \/ (declared = "other" /\ computed = "major") THEN "major"
        ELSE IF declared = "other" THEN "unknown"
        ELSE DeclaredOrStricter(declared, computed)
  BY DEF BumpClass
<1> HIDE DEF computed
<1>3. declared \in {"minor", "patch", "digest"} =>
        DeclaredOrStricter(declared, "major") = "major"
  BY <1>1 DEF DeclaredOrStricter
<1>4. DeclaredOrStricter(declared, "unknown") = "unknown"
  BY DEF DeclaredOrStricter
<1>5. declared \in {"", "major", "other", "minor", "patch", "digest"}
  BY DEF Declared
<1>6. computed # "major" /\ computed # "unknown"
  BY <1>2, <1>3, <1>4, <1>5
<1> QED BY <1>6 DEF computed

(* It goes forward within its major, or is a rebuild of one tag.           *)
LEMMA ClassBoundsTheUpdate ==
  ASSUME NEW from \in Reference, NEW to \in Reference, NEW declared \in Declared,
         BumpClass(from, to, declared) \notin {"major", "unknown"}
  PROVE  \/ Newer(to, from) >= 0 /\ MajorOf(to) = MajorOf(from) /\ Parses(from)
         \/ /\ NoDigest \notin {from.digest, to.digest}
            /\ [to EXCEPT !.digest = from.digest] = from
<1>1. CompareVersions(from, to) \notin {"major", "unknown"}
  BY DeclaredIsNoExcuse
<1>2. CASE Parses(from) /\ Parses(to)
  <2>1. ~(Newer(to, from) < 0) /\ Moved(from.core, to.core) # 1
    BY <1>1, <1>2 DEF CompareVersions
  <2>2. Newer(to, from) >= 0
    BY <2>1, NewerIsAnOutcome DEF Outcome
  <2>3. from.core \in Seq(Nat) /\ to.core \in Seq(Nat) /\ from.core # <<>> /\ to.core # <<>>
    BY <1>2 DEF Reference, Parses
  <2>4. from.core[1] = to.core[1]
    BY <2>1, <2>3, MajorMoves
  <2> QED BY <1>2, <2>2, <2>4 DEF MajorOf
<1>3. CASE ~(Parses(from) /\ Parses(to))
  <2>1. Rebuilt(from, to)
    BY <1>1, <1>3 DEF CompareVersions
  <2>2. /\ NoDigest \notin {from.digest, to.digest}
        /\ from.core = to.core /\ from.pre = to.pre /\ from.name = to.name
    BY <1>3, <2>1 DEF Rebuilt
  <2>3. [to EXCEPT !.digest = from.digest] = from
    BY <2>2 DEF Reference
  <2> QED BY <2>2, <2>3
<1> QED BY <1>2, <1>3

-----------------------------------------------------------------------------
(* The resolution keeps to what its lookups found.                         *)

Served ==
  source = "releases" /\ repository = "ours" =>
    /\ pc = "done"
    /\ Lookup(history).outcome = "resolved" /\ served = Lookup(history).releases
Silent ==
  source = "notFound" /\ upstream = "ours" /\ pc \in {"annotation", "done"} =>
    Lookup(history).outcome = "missing"

IInv ==
  /\ history \in Seq(Releases)
  /\ pc = "publish" => source = "none"
  /\ pc # "publish" => update \in Updates
  /\ Served
  /\ Silent

(* Nothing was looked up yet.                                              *)
LEMMA InitResolution == Init => IInv
BY DEF Init, IInv, Served, Silent

(* While history and update stand, so does what is looked up there.        *)
LEMMA LookupStands ==
  ASSUME UNCHANGED history, UNCHANGED update
  PROVE  Lookup(history)' = Lookup(history)
BY DEF Lookup

(* What our upstream answers is a failure or what a lookup finds.          *)
LEMMA OursAnswers ==
  ASSUME NEW answer \in Answers("ours")
  PROVE  /\ answer.outcome \in Lookups
         /\ answer.outcome # "failed" => answer = Lookup(history)
<1>1. answer = Lookup(history) \/ answer = [outcome |-> "failed", releases |-> <<>>]
  BY DEF Answers
<1>2. Lookup(history).outcome \in Lookups
  BY LookupMeans
<1> QED BY <1>1, <1>2 DEF Lookups

(* And so is any other, in what it can say.                                *)
LEMMA OthersAnswer ==
  ASSUME NEW name, name # "ours", NEW answer \in Answers(name)
  PROVE  answer.outcome \in Lookups
BY DEF Answers

(* What a failed lookup leaves to fall back on.                            *)
LEMMA FallbackSays ==
  ASSUME NEW outcome \in Lookups, outcome # "resolved", NEW from,
         from = [missing |-> "notFound", incomplete |-> "incomplete",
                 failed |-> "unreadable"][outcome]
  PROVE  from # "releases" /\ (from = "notFound" <=> outcome = "missing")
<1>1. outcome \in {"missing", "failed", "incomplete"}
  BY DEF Lookups
<1> QED BY <1>1

(* No step serves or silences what no lookup found.                        *)
LEMMA NextResolution == IInv /\ [Next]_vars => IInv'
<1> SUFFICES ASSUME IInv, [Next]_vars PROVE IInv'
  OBVIOUS
<1>1. CASE Publish
  <2>1. PICK r \in Releases : history' = <<r>> \o history
    BY <1>1 DEF Publish
  <2>2. history' \in Seq(Releases)
    BY <2>1 DEF IInv
  <2> QED BY <1>1, <2>2 DEF Publish, IInv, Served, Silent, given, result
<1>2. CASE Raise
  <2>1. /\ update' \in Updates /\ history' = history /\ pc = "publish" /\ source = "none"
        /\ pc' # "publish"
        /\ source' # "releases"
        /\ source' = "notFound" => pc' = "upstream"
    BY <1>2 DEF Raise, Resolved, IInv, result
  <2> QED BY <2>1 DEF IInv, Served, Silent
<1> SUFFICES ASSUME ReadOverride \/ ReadUpstream \/ ReadAnnotation \/ Finished \/ UNCHANGED vars
             PROVE  IInv'
  BY <1>1, <1>2 DEF Next
<1>3. UNCHANGED <<history, update, upstream>> /\ Lookup(history)' = Lookup(history)
  <2>1. UNCHANGED <<history, update, upstream>>
    BY DEF ReadOverride, ReadUpstream, ReadAnnotation, Finished, vars, given
  <2> QED BY <2>1, LookupStands
<1>4. CASE ReadOverride
  <2>1. PICK answer \in Answers("ours") :
          IF answer.outcome = "resolved" THEN Resolved("releases", "ours", answer.releases)
          ELSE IF notes = "ours" THEN Resolved("body", upstream, <<>>)
          ELSE Resolved("overrideEmpty", "none", <<>>)
    BY <1>4 DEF ReadOverride
  <2>2. pc = "override" /\ pc' = "done" /\ source' # "notFound"
    BY <1>4, <2>1 DEF ReadOverride, Resolved
  <2>3. source' = "releases" => answer.outcome = "resolved" /\ served' = answer.releases
    BY <2>1 DEF Resolved
  <2>4. Served'
    BY <1>3, <2>2, <2>3, OursAnswers DEF Served
  <2> QED BY <1>3, <2>2, <2>4 DEF IInv, Silent
<1>5. CASE ReadUpstream
  <2>1. CASE upstream = "none"
    BY <1>3, <1>5, <2>1 DEF ReadUpstream, IInv, Served, Silent, result
  <2>2. CASE upstream # "none"
    <3>1. PICK answer \in Answers(upstream) :
            IF answer.outcome = "resolved" THEN Resolved("releases", upstream, answer.releases)
            ELSE /\ pc' = "annotation"
                 /\ Fallback([missing |-> "notFound", incomplete |-> "incomplete",
                              failed |-> "unreadable"][answer.outcome], upstream)
      BY <1>5, <2>2 DEF ReadUpstream
    <3>2. answer.outcome \in Lookups
      BY OursAnswers, OthersAnswer
    <3>3. CASE answer.outcome = "resolved"
      <4>1. pc' = "done" /\ source' = "releases" /\ repository' = upstream
            /\ served' = answer.releases
        BY <3>1, <3>3 DEF Resolved
      <4>2. repository' = "ours" => answer = Lookup(history)
        BY <3>3, <4>1, OursAnswers
      <4> QED BY <1>3, <1>5, <3>3, <4>1, <4>2 DEF ReadUpstream, IInv, Served, Silent
    <3>4. CASE answer.outcome # "resolved"
      <4>1. pc' = "annotation" /\ source' # "releases"
            /\ (source' = "notFound" <=> answer.outcome = "missing")
        BY <3>1, <3>2, <3>4, FallbackSays DEF Fallback
      <4>2. upstream = "ours" /\ answer.outcome = "missing" => answer = Lookup(history)
        BY OursAnswers
      <4> QED BY <1>3, <1>5, <4>1, <4>2 DEF ReadUpstream, IInv, Served, Silent
    <3> QED BY <3>3, <3>4
  <2> QED BY <2>1, <2>2
<1>6. CASE ReadAnnotation
  <2>1. CASE UNCHANGED result /\ pc' = "done"
    BY <1>3, <1>6, <2>1 DEF ReadAnnotation, IInv, Served, Silent, result
  <2>2. CASE ~(UNCHANGED result /\ pc' = "done")
    <3>1. PICK answer \in Answers(annotated) :
            IF answer.outcome = "resolved"
              THEN Resolved("releases", annotated, answer.releases)
            ELSE /\ pc' = "done"
                 /\ IF Weaker(answer.outcome) THEN UNCHANGED result
                    ELSE Fallback([missing |-> "notFound", incomplete |-> "incomplete",
                                   failed |-> "unreadable"][answer.outcome], annotated)
      BY <1>6, <2>2 DEF ReadAnnotation
    <3>2. answer.outcome \in Lookups
      BY OursAnswers, OthersAnswer
    <3>3. CASE answer.outcome = "resolved"
      <4>1. pc' = "done" /\ source' = "releases" /\ repository' = annotated
            /\ served' = answer.releases
        BY <3>1, <3>3 DEF Resolved
      <4>2. repository' = "ours" => answer = Lookup(history)
        BY <3>3, <4>1, OursAnswers
      <4> QED BY <1>3, <1>6, <3>3, <4>1, <4>2 DEF ReadAnnotation, IInv, Served, Silent
    <3>4. CASE answer.outcome # "resolved"
      <4>1. pc' = "done" /\ ~Weaker(answer.outcome) /\ source' # "releases"
            /\ (source' = "notFound" <=> answer.outcome = "missing")
        BY <2>2, <3>1, <3>2, <3>4, FallbackSays DEF Fallback
      <4>2. source' = "notFound" => source = "notFound"
        BY <4>1 DEF Weaker
      <4> QED BY <1>3, <1>6, <4>1, <4>2 DEF ReadAnnotation, IInv, Served, Silent
    <3> QED BY <3>3, <3>4
  <2> QED BY <2>1, <2>2
<1>7. CASE Finished \/ UNCHANGED vars
  BY <1>3, <1>7 DEF Finished, vars, result, IInv, Served, Silent
<1> QED BY <1>4, <1>5, <1>6, <1>7

(* What is resolved is what was looked up, in every reachable state.       *)
THEOREM Invariance == Spec => []IInv
<1>1. IInv /\ [Next]_vars => IInv'
  BY NextResolution
<1> QED BY InitResolution, <1>1, PTL DEF Spec

(* Whatever is published, in whatever order and however much of it the     *)
(* budget reads: an update nobody holds is assessed with every release of  *)
(* its range.                                                              *)
THEOREM NotesAreComplete == Spec => []UnheldIsInformed
<1>1. IInv => UnheldIsInformed
  <2> SUFFICES ASSUME IInv, pc = "done", source = "releases", repository = "ours"
               PROVE  /\ \A i \in DOMAIN history :
                           (\E v \in ReadAs(history[i]) : InRange(v, update.from, update.to)) =>
                             history[i] \in ToSet(served) \/ BelowTheCut(i)
                      /\ \A i \in DOMAIN history :
                           ExtendsTo(history[i].tag, update.to) /\ Compare(history[i].tag, update.to) > 0 =>
                             \/ BelowTheCut(i)
                             \/ \E r \in ToSet(served) :
                                  Placed(r.tag, update.to) /\ Compare(r.tag, update.to) >= 0
                      /\ LET ranged == {i \in 1..PageBudget \cap DOMAIN history :
                                          InRange(history[i].tag, update.from, update.to)}
                         IN  \A i, k \in ranged : \A j \in i..k : Parses(history[j].tag)
    BY DEF UnheldIsInformed
  <2>1. Asked /\ Lookup(history).outcome = "resolved" /\ served = Lookup(history).releases
    BY DEF IInv, Served, Asked
  <2>2. \A i \in DOMAIN history :
          (\E v \in ReadAs(history[i]) : InRange(v, update.from, update.to)) =>
            history[i] \in ToSet(served) \/ BelowTheCut(i)
    BY <2>1, RangeIsInformed DEF From, To
  <2>3. \A i \in DOMAIN history :
          ExtendsTo(history[i].tag, update.to) /\ Compare(history[i].tag, update.to) > 0 =>
            \/ BelowTheCut(i)
            \/ \E r \in ToSet(served) :
                 Placed(r.tag, update.to) /\ Compare(r.tag, update.to) >= 0
    BY <2>1, TargetIsInformed DEF To
  <2>4. ASSUME NEW i \in 1..PageBudget \cap DOMAIN history, NEW k \in 1..PageBudget \cap DOMAIN history,
               InRange(history[i].tag, update.from, update.to),
               InRange(history[k].tag, update.from, update.to), NEW j \in i..k
        PROVE  Parses(history[j].tag)
    <3>1. i \in DOMAIN Read /\ k \in DOMAIN Read
      BY <2>1, ListingIsRead DEF Asked
    <3>2. Read[i] = history[i] /\ Read[k] = history[k]
      BY <2>1, <3>1, AllAreReferences
    <3>3. i \in Ranged /\ k \in Ranged
      BY <2>4, <3>1, <3>2 DEF Ranged, Selected, From, To
    <3> QED BY <2>1, <3>3, NothingLiesBetween
  <2> QED BY <2>2, <2>3, <2>4
<1> QED BY Invariance, <1>1, PTL

(* "Not found" is said of our upstream only when nothing it lists is in    *)
(* range.                                                                  *)
THEOREM NotFoundIsTrue == Spec => []SilenceIsEarned
<1>1. IInv => SilenceIsEarned
  <2> SUFFICES ASSUME IInv, pc = "done", source = "notFound", upstream = "ours",
                      NEW i \in DOMAIN history, InRange(history[i].tag, update.from, update.to)
               PROVE  BelowTheCut(i)
    BY DEF SilenceIsEarned
  <2>1. Asked /\ Lookup(history).outcome = "missing"
    BY DEF IInv, Silent, Asked
  <2> QED BY <2>1, NothingWasMissed DEF From, To
<1> QED BY Invariance, <1>1, PTL

(* What the run lets the agent decide alone never goes back or changes     *)
(* its major, whatever was declared.                                       *)
THEOREM NothingUnboundedIsUnheld == Spec => []UnheldIsBounded
<1>1. IInv => UnheldIsBounded
  <2> SUFFICES ASSUME IInv, pc # "publish", ~BumpHeld(update)
               PROVE  \/ /\ Newer(update.to, update.from) >= 0
                         /\ MajorOf(update.to) = MajorOf(update.from)
                         /\ Parses(update.from)
                      \/ /\ NoDigest \notin {update.from.digest, update.to.digest}
                         /\ [update.to EXCEPT !.digest = update.from.digest] = update.from
    BY DEF UnheldIsBounded
  <2>1. update.from \in Reference /\ update.to \in Reference /\ update.declared \in Declared
    BY ChangelogAssumption DEF IInv
  <2>2. BumpClass(update.from, update.to, update.declared) \notin {"major", "unknown"}
    BY DEF BumpHeld
  <2> QED BY <2>1, <2>2, ClassBoundsTheUpdate
<1> QED BY Invariance, <1>1, PTL

=============================================================================
